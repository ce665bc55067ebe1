------------------------------ MODULE MCUnits ------------------------------
(***************************************************************************)
(* The bytes of the small instances of the raw write: units that are       *)
(* erased or programmed, a checksum that tells their payloads apart, and   *)
(* the bytes that a packet of them consists of.                            *)
(***************************************************************************)
EXTENDS W800Flash, Xmodem

(* What is not a payload value counts as a third digit. *)
Digit(v) == IF v = FF THEN 1 ELSE IF v = 0 THEN 0 ELSE 2
MCCrc(s) ==
  LET sum[i \in 0 .. Len(s)] ==
        IF i = 0 THEN 0 ELSE 3 * sum[i - 1] + Digit(s[i])
  IN 300 + sum[Len(s)]

(* Two different programmed values leave the unit with no bit set. *)
MCAnd(v, w) == IF v = w \/ w = FF THEN v ELSE IF v = FF THEN w ELSE 0

MCByte == 0 .. 8 \cup {NAK, CAN, CRC_MODE} \cup 250 .. 255
            \cup 300 .. 300 + 3 ^ StxSize

=============================================================================
