---------------------------- MODULE SerialLine -----------------------------
(***************************************************************************)
(* The serial line between the probe and the stub: rx to the stub (its     *)
(* FIFO first, then the bytes on the way), tx back.  It loses and damages  *)
(* bytes, at most MaxFaults times in all.  Neither side of src/ uses flow  *)
(* control, so a stub that does not read overruns its FIFO.                *)
(***************************************************************************)
EXTENDS Integers, Sequences

CONSTANTS
  FifoDepth,    \* bytes the UART holds for the stub
  MaxFaults     \* how often something may go wrong

VARIABLES
  rx, tx,
  conditions,   \* conditions.kinds is what may go wrong; it never changes
  faults        \* how often something did

Fault(kind) ==
  /\ kind \in conditions.kinds /\ faults < MaxFaults
  /\ faults' = faults + 1

(* What a damaged byte arrives as: no marker, no block number. *)
Noise == 0

LoseByte ==
  /\ Fault("lost byte") /\ rx # <<>> /\ rx' = Tail(rx)
  /\ UNCHANGED tx

DamageByte(kind) ==
  /\ Fault(kind) /\ rx # <<>> /\ Head(rx) # Noise
  /\ rx' = [rx EXCEPT ![1] = Noise]
  /\ UNCHANGED tx

LoseReply ==
  /\ Fault("lost reply") /\ tx # <<>> /\ tx' = Tail(tx)
  /\ UNCHANGED rx

Overrun ==
  /\ Len(rx) > FifoDepth
  /\ rx' = SubSeq(rx, 1, FifoDepth) \o SubSeq(rx, FifoDepth + 2, Len(rx))
  /\ UNCHANGED <<tx, faults>>

=============================================================================
