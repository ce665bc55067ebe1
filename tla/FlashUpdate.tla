---------------------------- MODULE FlashUpdate ----------------------------
(***************************************************************************)
(* What a command that changes the flash promises, whatever happens on the *)
(* line: it stays inside the sectors of the range it was given, which lies *)
(* above the protected area; it erases before it fills; it fills from the  *)
(* start of the range upwards, each unit once and with the value it was    *)
(* asked to hold; and it ends with success only when the whole range is    *)
(* filled, or is erased if nothing was to be filled.                       *)
(***************************************************************************)
EXTENDS Integers

CONSTANTS Byte, SectorSize, FlashSize, WriteMin

VARIABLES
  mem,          \* the contents of the flash
  phase,        \* "idle", "erasing" or "filling"
  first, count, \* the range of the running or last command
  filling,      \* whether that command fills the range
  filled,       \* units filled so far
  outcome       \* "none", "done" or "failed"

updateVars == <<mem, phase, first, count, filling, filled, outcome>>

Cells == 0 .. FlashSize - 1
FFs == 255

(* The cells of the sectors that the range from o to o + n lies in. *)
Touched(o, n) == {a \in Cells : o <= a /\ a - (a % SectorSize) < o + n}

Erased(m, o, n) == \A a \in Cells : o <= a /\ a < o + n => m[a] = FFs

(* A change of cells inside S only. *)
ChangesOnly(S) ==
  /\ mem' \in [Cells -> Byte]
  /\ \A a \in Cells \ S : mem'[a] = mem[a]

Idle ==
  /\ mem \in [Cells -> Byte]
  /\ phase = "idle" /\ first = WriteMin /\ count = 0
  /\ filling = FALSE /\ filled = 0 /\ outcome = "none"

Begin ==
  /\ phase = "idle"
  /\ first' \in WriteMin .. FlashSize - 1
  /\ first' % SectorSize = 0
  /\ count' \in 1 .. FlashSize - first'
  /\ phase' = "erasing"
  /\ filling' \in BOOLEAN
  /\ filled' = 0 /\ outcome' = "none"
  /\ UNCHANGED mem

(* Erasing only ever turns cells of the range's sectors to FF. *)
Erase ==
  /\ phase = "erasing"
  /\ ChangesOnly(Touched(first, count))
  /\ \A a \in Cells : mem'[a] \in {mem[a], FFs}
  /\ UNCHANGED <<phase, first, count, filling, filled, outcome>>

StartFilling ==
  /\ phase = "erasing" /\ filling
  /\ \A a \in Touched(first, count) : mem[a] = FFs
  /\ phase' = "filling"
  /\ UNCHANGED <<mem, first, count, filling, filled, outcome>>

(* The next n units get their value; nothing else moves. *)
Fill ==
  /\ phase = "filling"
  /\ \E n \in 1 .. count - filled :
       /\ filled' = filled + n
       /\ ChangesOnly(first + filled .. first + filled + n - 1)
  /\ UNCHANGED <<phase, first, count, filling, outcome>>

Succeed ==
  /\ \/ phase = "filling" /\ filled = count
     \/ phase = "erasing" /\ ~filling /\ Erased(mem, first, count)
  /\ phase' = "idle" /\ outcome' = "done"
  /\ UNCHANGED <<mem, first, count, filling, filled>>

(* A failure may leave anything in the range, and nothing outside it. *)
Fail ==
  /\ phase # "idle"
  /\ ChangesOnly(Touched(first, count))
  /\ phase' = "idle" /\ outcome' = "failed"
  /\ UNCHANGED <<first, count, filling, filled>>

Step == Begin \/ Erase \/ StartFilling \/ Fill \/ Succeed \/ Fail

Spec == Idle /\ [][Step]_updateVars

=============================================================================
