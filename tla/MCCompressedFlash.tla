------------------------- MODULE MCCompressedFlash -------------------------
(***************************************************************************)
(* CompressedFlash with a peer and a line that may do anything, on a small *)
(* chip and with a dictionary of two pages, so that pieces of output,      *)
(* packets, pages and sectors end at different places.                     *)
(***************************************************************************)
EXTENDS CompressedFlash, MCStream

CONSTANTS
  StxPayloads,  \* the payloads sent in STX packets
  Ranges        \* the <<off, len>> of the writes that may be started

(* Offsets and lengths on both sides of every limit of the range checks. *)
Offsets == {0, WriteMin - 1, WriteMin, FlashSize, Word - 1}
Lengths == {0, 1, FlashSize - WriteMin, FlashSize - WriteMin + 1, Word - 1}

Sound ==
  {Packet(SOH, n, <<d>>) : n \in 0 .. NumberMod - 1, d \in Units}
    \cup {Packet(STX, n, d) : n \in 0 .. NumberMod - 1, d \in StxPayloads}

Damaged ==
  LET p == Packet(SOH, 1, <<Lit>>) IN {[p EXCEPT ![3] = 0], SubSeq(p, 1, 4)}

Messages == Sound \cup Damaged \cup {<<EOT>>, <<CAN>>, <<NAK>>}

MCInit ==
  /\ flash \in {[a \in Addr |-> 0],
                [a \in Addr |-> IF a < WriteMin THEN 0 ELSE FF]}
  /\ Init

Peer ==
  /\ rx = <<>> /\ tx' = <<>>
  /\ \/ pc \in {"first", "marker"} /\ rx' \in Messages
     \/ pc = "finish" /\ rx' \in {<<EOT>>, <<NAK>>}
     \/ pc = "packet" /\ ~PacketComplete /\ rx' \in {<<EOT>>, <<NAK>>}
     \/ pc = "idle" /\ rx' = <<NAK>>
  /\ UNCHANGED <<flash, size, pc, command, status, result, reception, decoder,
                 writer>>

(* One admitted command in a behaviour, as in MCRawFlash. *)
Commands ==
  \/ \E o \in Offsets, n \in Lengths : RejectCommand(o, n)
  \/ \E r \in Ranges : result = "none" /\ StartCommand(r[1], r[2])

MCNext == Commands \/ StubStep \/ Peer

MCStxPayloads == {<<Lit, Blank>>, <<Lit, Lit>>, <<Blank, Run>>, <<Run, Lit>>,
                  <<Run, Stop>>, <<Last, Lit>>, <<Lit, Bad>>}
(* The first two of these are not admitted. *)
MCRanges == {<<0, 4>>, <<12, 5>>, <<4, 7>>, <<12, 4>>, <<5, 4>>}

(* An offset in the middle of a sector, which 0x97 admits. *)
UnalignedRanges == {<<6, 2>>}

MCSpec == MCInit /\ [][MCNext]_vars

=============================================================================
