------------------------------- MODULE Xmodem -------------------------------
(***************************************************************************)
(* The XMODEM packets that the stub and the probe exchange.                *)
(*                                                                         *)
(* A packet is the sequence <<marker, number, inverse, payload..., crc>>.  *)
(* Control characters have their real values, so a payload byte, a block   *)
(* number or a checksum that arrives where a marker is expected is taken   *)
(* for one, as on the wire.  The two CRC bytes are one element, Crc of the *)
(* payload; block numbers count modulo NumberMod (256 in the code).        *)
(***************************************************************************)
EXTENDS Integers, Sequences

CONSTANTS
  Crc(_),       \* crc16_xmodem of a payload
  SohSize,      \* payload of an SOH packet, 128 in the code
  StxSize,      \* payload of an STX packet, 1024 in the code
  NumberMod     \* block numbers are a uint8_t

SOH == 1
STX == 2
EOT == 4
ACK == 6
NAK == 21
CAN == 24
CRC_MODE == 67

Controls == {SOH, STX, EOT, ACK, NAK, CAN, CRC_MODE}

ASSUME PacketAssumption ==
  /\ SohSize \in Nat \ {0} /\ StxSize \in Nat \ {0}
  /\ NumberMod \in 2 .. 256

BlockLen(marker) == IF marker = STX THEN StxSize ELSE SohSize
PacketLen(marker) == BlockLen(marker) + 4
Inverse(number) == 255 - number
Previous(number) == (number + NumberMod - 1) % NumberMod
Following(number) == (number + 1) % NumberMod

Payload(pkt) == SubSeq(pkt, 4, Len(pkt) - 1)

(* The acceptance test of a complete packet. *)
Intact(pkt) ==
  /\ pkt[3] = Inverse(pkt[2])
  /\ pkt[Len(pkt)] = Crc(Payload(pkt))

Packet(marker, number, payload) ==
  <<marker, number, Inverse(number)>> \o payload \o <<Crc(payload)>>

=============================================================================
