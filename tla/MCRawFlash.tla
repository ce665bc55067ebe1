---------------------------- MODULE MCRawFlash -----------------------------
(***************************************************************************)
(* RawFlash with a peer and a line that may do anything, on a small chip.  *)
(* The peer sends whole messages: sound packets with any block number,     *)
(* damaged and truncated ones, the control characters and noise, in any    *)
(* order and to a stub in any state that reads the line.                   *)
(***************************************************************************)
EXTENDS RawFlash, AddressableFlash, MCUnits

CONSTANTS
  StxPayloads,  \* the payloads sent in STX packets
  Transfers     \* the <<off, len>> of the transfers that are admitted

(* The two values of a payload unit, erased and programmed. *)
Values == {FF, 0}

(* Offsets and lengths on both sides of every limit of the range checks. *)
Offsets == {0, WriteMin - 1, WriteMin, WriteMin + SectorSize,
            FlashSize - SectorSize, FlashSize, Word - 1}
Lengths == {0, 1, SectorSize, SectorSize + 1, 2 * SectorSize,
            FlashSize - WriteMin, Word - 1}

Sound ==
  {Packet(SOH, n, d) : n \in 0 .. NumberMod - 1, d \in [1 .. SohSize -> Values]}
    \cup {Packet(STX, n, d) : n \in 0 .. NumberMod - 1, d \in StxPayloads}

(* One packet of each size with a damaged checksum, one cut short. *)
Damaged ==
  LET p == Packet(SOH, 1, [i \in 1 .. SohSize |-> 0])
      q == Packet(STX, 1, [i \in 1 .. StxSize |-> 0])
  IN {[p EXCEPT ![Len(p)] = 0], [q EXCEPT ![3] = 0], SubSeq(q, 1, Len(q) - 2)}

Messages == Sound \cup Damaged \cup {<<EOT>>, <<CAN>>, <<NAK>>}

MCInit ==
  /\ flash \in {[a \in Addr |-> 0],
                [a \in Addr |-> IF a < WriteMin THEN 0 ELSE FF]}
  /\ Init

(* A packet that was cut short is completed, if at all, by control bytes. *)
Peer ==
  /\ rx = <<>> /\ tx' = <<>>
  /\ \/ pc \in {"first", "marker"} /\ rx' \in Messages
     \/ pc = "packet" /\ ~PacketComplete /\ rx' \in {<<EOT>>, <<NAK>>}
     \/ pc = "idle" /\ rx' = <<NAK>>
  /\ UNCHANGED <<flash, size, pc, command, cursor, status, result, pkt,
                 progress>>

(* One admitted command in a behaviour: the flash that a second one would  *)
(* find has no other effect on it than the initial ones.                   *)
Commands ==
  \E c \in FlashOps, o \in Offsets, n \in Lengths :
    \/ RejectCommand(c, o, n)
    \/ /\ c = "FLASH_XMODEM_DL" => <<o, n>> \in Transfers
       /\ result = "none"
       /\ StartCommand(c, o, n)

MCNext == Commands \/ StubStep \/ Peer

MCStxPayloads == {<<0, FF, FF, 0>>, <<0, 0, FF, FF>>, <<0, 0, 0, 0>>}
MCTransfers == {<<4, 5>>, <<12, 4>>}

MCSpec == MCInit /\ [][MCNext]_vars

=============================================================================
