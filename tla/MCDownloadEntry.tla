-------------------------- MODULE MCDownloadEntry --------------------------
(***************************************************************************)
(* DownloadEntry with every start of the board and every set of options.   *)
(***************************************************************************)
EXTENDS DownloadEntry

Entries == [atz : BOOLEAN, reset : BOOLEAN]

MCConditions ==
  {[kinds |-> k, race |-> k # {}, atz |-> e.atz, reset |-> e.reset] :
     k \in {{}, Kinds}, e \in Entries}

=============================================================================
