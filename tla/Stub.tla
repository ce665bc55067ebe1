------------------------------- MODULE Stub --------------------------------
(***************************************************************************)
(* What the flash commands of src/src/w800_raw_stub.c share: the UART as   *)
(* one polling thread uses it, and the range checks on uint32_t operands.  *)
(* rx is what the UART holds for the stub, tx what the stub has sent.  A   *)
(* read times out only while rx is empty.                                  *)
(***************************************************************************)
EXTENDS W800Flash, Xmodem

CONSTANTS
  Word,         \* 2^32, the number of values of a uint32_t
  MaxPrompts    \* prompts sent before a transfer is given up, 100 in the code

ASSUME WordAssumption == Word \in Nat /\ FlashSize < Word
ASSUME PromptAssumption == MaxPrompts \in Nat \ {0}
ASSUME ControlAssumption == Controls \subseteq Byte

VARIABLES
  flash,        \* the contents of the chip
  size,         \* w800_flash_size_cached: 0 when the JEDEC id is unknown
  rx, tx        \* bytes waiting for the stub, bytes it has sent

Statuses == {"none", "SUCCESS", "ADDR_ERROR", "ERROR"}
Results == {"none", "done", "failed"}

Send(byte) == tx' = Append(tx, byte)
Cancel == tx' = Append(Append(tx, CAN), CAN)
Receive == rx # <<>> /\ rx' = Tail(rx)
Silent == rx = <<>>

RangeDoesNotWrap(o, n) == n # 0 /\ o <= Word - 1 - (n - 1)

(* Mutant: the length is not compared with what is left of the flash. *)
StartsInFlash(o, n) == RangeDoesNotWrap(o, n) /\ size # 0 /\ o <= size

InFlash(o, n) ==
  RangeDoesNotWrap(o, n) /\ size # 0 /\ o <= size /\ n <= size - o

=============================================================================
