---------------------------- MODULE MCRawWrite -----------------------------
(***************************************************************************)
(* RawWrite on a small chip: images of units that are programmed or left   *)
(* erased, whose blocks all differ.                                        *)
(***************************************************************************)
EXTENDS RawWrite, MCUnits

(* Three blocks of STX size, the last one short. *)
StxImage == <<0, FF, 0, 0, FF, 0, 0, FF, 0>>

(* Five blocks of SOH size. *)
SohImage == <<0, FF, FF, 0, 0>>

(* Anything may go wrong, or only what the retries are made for. *)
Anything ==
  [kinds |-> Kinds, extra |-> 1, patient |-> FALSE, goodChip |-> FALSE]
Repaired ==
  [kinds |-> {"damaged packet", "lost reply"}, extra |-> 0, patient |-> TRUE,
   goodChip |-> TRUE]
MCConditions == {Anything, Repaired}
QuietLine == {[Anything EXCEPT !.kinds = {}, !.extra = 0]}

(* An old image in the whole flash. *)
MCLinkInit == flash = [a \in Addr |-> 0] /\ LinkInit

MCLinkSafety == MCLinkInit /\ [][LinkNext]_linkVars

MCLinkSpec ==
  /\ MCLinkSafety
  /\ WF_linkVars(StubRuns)
  /\ WF_linkVars(HostWork)
  /\ WF_linkVars(Timeout)

=============================================================================
