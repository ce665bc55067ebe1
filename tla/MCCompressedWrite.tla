------------------------- MODULE MCCompressedWrite -------------------------
(***************************************************************************)
(* CompressedWrite on a small chip: streams whose bytes stand for one, two *)
(* or five units, with a dictionary of four.                               *)
(***************************************************************************)
EXTENDS CompressedWrite, MCStream

(* Three packets, the last one padded: the second and the third piece of   *)
(* output end with the dictionary, inside a packet and between two.        *)
MCImage == <<Lit, Run, Blank, Lit, Stop>>

(* Two full packets; the last byte yields a unit on either side of the     *)
(* dictionary's end.                                                       *)
FullImage == <<Lit, Lit, Lit, Last>>

(* Anything may go wrong, or only what the retries are made for. *)
Anything ==
  [kinds |-> Kinds, extra |-> 1, patient |-> FALSE, goodChip |-> FALSE]
Repaired ==
  [kinds |-> {"damaged packet"}, extra |-> 0, patient |-> TRUE,
   goodChip |-> TRUE]
MCConditions == {Anything, Repaired}
QuietLine == {[Repaired EXCEPT !.kinds = {}]}

(* An old image in the whole flash. *)
MCLinkInit == flash = [a \in Addr |-> 0] /\ LinkInit

MCLinkSafety == MCLinkInit /\ [][LinkNext]_linkVars

MCLinkSpec ==
  /\ MCLinkSafety
  /\ WF_linkVars(StubRuns)
  /\ WF_linkVars(HostWork)
  /\ WF_linkVars(Timeout)

=============================================================================
