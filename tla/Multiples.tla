----------------------------- MODULE Multiples -----------------------------
(***************************************************************************)
(* The pages, sectors and blocks of addresses.                             *)
(***************************************************************************)
EXTENDS Integers

(* Where the unit of o begins. *)
Base(o, unit) == o - (o % unit)

=============================================================================
