----------------------------- MODULE MCSession -----------------------------
(***************************************************************************)
(* Session on a chip of three sectors, with runs of one or two options.     *)
(***************************************************************************)
EXTENDS Session

MCScratch == {3}
MCDirs == {"w800_probe_out", "other"}
MCOptionSets ==
  { {"benchmark", "mutation"}, {"bauds"}, {"stress"}, {"compressed"}, {"restore"},
    {"full", "compressed"} }

=============================================================================
