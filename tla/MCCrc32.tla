------------------------------ MODULE MCCrc32 ------------------------------
(***************************************************************************)
(* Crc32 with up to three chunks, the last one not full, and two commands. *)
(***************************************************************************)
EXTENDS Crc32

MCConditions == [engine : Engines, flash : {0, MaxFlash}]

=============================================================================
