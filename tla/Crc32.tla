------------------------------- MODULE Crc32 -------------------------------
(***************************************************************************)
(* The CRC command 0x8F of src/src/w800_raw_stub.c: obk_send_flash_crc32   *)
(* and the w800_crc32_memory functions below it.                           *)
(*                                                                         *)
(* Two actors share two buffers: the crypto engine of the chip reads one,  *)
(* by itself, while the CPU copies the next chunk into the other.  The     *)
(* engine is tested before it is first used and is given up for good when  *)
(* it does not finish in time.                                             *)
(*                                                                         *)
(* Memory is made of cells; a cell holds its own address, so that a CRC    *)
(* can be taken for the sequence of cells that went into it.  The flash is *)
(* at 0, the test data crc_hardware_test_data is one cell behind it.       *)
(***************************************************************************)
EXTENDS Integers, Sequences

CONSTANTS
  BufferSize,   \* cells in cmd_buf and in crc_buf
  MaxFlash,     \* cells of the flash
  MaxWord,      \* the greatest uint32_t
  MaxCommands,
  Conditions    \* chips, see CrcAssumption

Engines ==
  {"good",      \* finishes in time, with the right result
   "late",      \* may need longer than the stub waits, or never finish
   "other"}     \* computes something else

(* flash: the size of the flash, 0 for an unknown one. *)
ASSUME CrcAssumption ==
  /\ BufferSize \in Nat \ {0} /\ MaxFlash \in Nat /\ MaxCommands \in Nat
  /\ MaxWord \in Nat /\ MaxFlash < MaxWord
  /\ Conditions \subseteq [engine : Engines, flash : {0, MaxFlash}]

VARIABLES
  conditions,   \* one of Conditions, fixed from the start
  pc, off, len, \* where w800_crc32_memory stands, the range of the command
  answer,       \* the last answer: nothing, "address error" or a CRC
  commands,
  available,    \* crc_hardware_available: -1 before the test, then 0 or 1
  buffers,      \* cmd_buf and crc_buf
  current,      \* the buffer that goes to the engine
  addr, left,   \* addr and len of w800_crc32_memory_hardware
  chunk, filled,\* next_chunk, and how much of it memcpy has copied
  state,        \* the CRC so far
  engine        \* the registers of the engine

hardware == <<buffers, current, addr, left, chunk, filled, state>>
vars == <<conditions, pc, off, len, answer, commands, available, hardware,
          engine>>

(* What is in the buffers at first, and what a wrong engine makes of a     *)
(* cell: nothing that any cell of the memory holds.                        *)
Old == -1
Wrong == -2

None == [kind |-> "none"]
AddrError == [kind |-> "address error"]
Crc(cells) == [kind |-> "crc", cells |-> cells]

TestAddr == MaxFlash
TestLen == 1

(* The engine has digested so many cells of its buffer, and then its       *)
(* status says that it is done.                                            *)
Idle == [src |-> 1, len |-> 0, cells |-> 0, state |-> <<>>]

Init ==
  /\ conditions \in Conditions
  /\ pc = "idle" /\ off = 0 /\ len = 0 /\ answer = None /\ commands = 0
  /\ available = -1
  /\ buffers = [b \in 1..2 |-> [i \in 1..BufferSize |-> Old]]
  /\ current = 1 /\ addr = 0 /\ left = 0 /\ chunk = 0 /\ filled = 0
  /\ state = <<>>
  /\ engine = Idle

-----------------------------------------------------------------------------
(* The engine takes one cell of its buffer at a time. *)

EngineStep ==
  /\ engine.cells < engine.len
  /\ LET i == engine.cells + 1
         cell == IF conditions.engine = "other" THEN Wrong
                 ELSE buffers[engine.src][i]
     IN engine' = [src |-> engine.src, len |-> engine.len, cells |-> i,
                   state |-> Append(engine.state, cell)]
  /\ UNCHANGED <<conditions, pc, off, len, answer, commands, available, hardware>>

(* w800_crc32_hardware_start: reset, clear the status, then start.         *)
Start(src, cells, seed) ==
  engine' = [src |-> src, len |-> cells, cells |-> 0, state |-> seed]

-----------------------------------------------------------------------------
(* The stub. *)

Span(a, n) == [i \in 1..n |-> a + i - 1]
Part(n) == IF n > BufferSize THEN BufferSize ELSE n

RangeOK(o, n) ==
  /\ n # 0 /\ o <= MaxWord - (n - 1)
  /\ conditions.flash # 0 /\ o <= conditions.flash /\ n <= conditions.flash - o

(* The head of w800_crc32_memory_hardware: the first chunk is about to be  *)
(* copied.                                                                 *)
Digest(a, n) ==
  /\ pc' = "first" /\ addr' = a /\ left' = n /\ state' = <<>>
  /\ current' = 1 /\ chunk' = Part(n) /\ filled' = 0
  /\ UNCHANGED buffers

Answer(a) ==
  /\ pc' = "idle" /\ answer' = a
  /\ UNCHANGED <<available, hardware>>

Software == Answer(Crc(Span(off, len)))

(* A command comes in: its range is checked, and the engine is tested when *)
(* that has not been done yet.                                             *)
Command ==
  /\ pc = "idle" /\ commands < MaxCommands /\ commands' = commands + 1
  /\ \E o, n \in 0..MaxWord :
       /\ off' = o /\ len' = n
       /\ \/ ~RangeOK(o, n) /\ pc' = "idle" /\ answer' = AddrError
             /\ UNCHANGED hardware
          \/ /\ RangeOK(o, n) /\ answer' = None
             /\ CASE available = -1 -> Digest(TestAddr, TestLen)
                  [] available = 1 -> Digest(o, n)
                  [] OTHER -> pc' = "software" /\ UNCHANGED hardware
  /\ UNCHANGED <<conditions, available, engine>>

SoftwareCrc ==
  /\ pc = "software" /\ Software
  /\ UNCHANGED <<conditions, off, len, commands, engine>>

(* memcpy into the buffer that is current, or into the other one. *)
Copy(target) ==
  /\ filled < chunk
  /\ buffers' = [buffers EXCEPT ![target] =
                    [@ EXCEPT ![filled + 1] = addr + filled]]
  /\ filled' = filled + 1
  /\ UNCHANGED <<conditions, pc, off, len, answer, commands, available,
                 current, addr, left, chunk, state, engine>>

FillFirst == pc = "first" /\ Copy(current)

(* Mutant: into the buffer that the engine reads. *)
FillSame == pc = "next" /\ Copy(current)

FillNext == pc = "next" /\ Copy(3 - current)

(* A full buffer goes to the engine: the first one, or, after the wait,    *)
(* the one that has been filled meanwhile.                                 *)
StartChunk(src, a, n, cells, seed) ==
  /\ Start(src, cells, seed)
  /\ pc' = "next" /\ current' = src /\ state' = seed
  /\ addr' = a + cells /\ left' = n - cells
  /\ chunk' = Part(n - cells) /\ filled' = 0
  /\ UNCHANGED <<buffers, available, answer>>

StartFirst ==
  /\ pc = "first" /\ filled = chunk
  /\ StartChunk(current, addr, left, chunk, state)
  /\ UNCHANGED <<conditions, off, len, commands>>

(* w800_crc32_hardware_wait. *)
Complete == pc = "next" /\ filled = chunk /\ engine.cells = engine.len

StartNext ==
  /\ Complete /\ chunk > 0
  /\ StartChunk(3 - current, addr, left, chunk, engine.state)
  /\ UNCHANGED <<conditions, off, len, commands>>

Testing == available = -1
Reset == engine' = Idle

(* The last chunk.  The test passes when the result is the expected one,   *)
(* and then the range is digested; otherwise the result is the answer.     *)
Finished ==
  /\ Complete /\ chunk = 0 /\ Reset
  /\ \/ /\ Testing /\ engine.state = Span(TestAddr, TestLen)
        /\ available' = 1 /\ Digest(off, len) /\ UNCHANGED answer
     \/ /\ Testing /\ engine.state # Span(TestAddr, TestLen)
        /\ available' = 0 /\ pc' = "software" /\ UNCHANGED <<answer, hardware>>
     \/ ~Testing /\ Answer(Crc(engine.state))
  /\ UNCHANGED <<conditions, off, len, commands>>

(* Mutant: the wait has no end. *)
WaitOn == FALSE /\ UNCHANGED vars

(* CRYPTO_WAIT_LOOPS have passed, be it at the moment when the engine      *)
(* completes: the engine is stopped, in the test or in the middle of a     *)
(* range, and the CPU takes the range from its beginning.                  *)
WaitTimeout ==
  /\ pc = "next" /\ filled = chunk
  /\ conditions.engine = "late"
  /\ Reset /\ available' = 0 /\ pc' = "software"
  /\ UNCHANGED <<conditions, off, len, answer, commands, hardware>>

Stub ==
  \/ Command \/ SoftwareCrc \/ FillFirst \/ FillNext \/ StartFirst
  \/ StartNext \/ Finished \/ WaitTimeout

Next == Stub \/ EngineStep

(* The CPU runs, and an engine that is not late too. *)
Spec ==
  /\ Init /\ [][Next]_vars
  /\ WF_vars(Stub) /\ WF_vars(conditions.engine # "late" /\ EngineStep)

-----------------------------------------------------------------------------
(* Properties. *)

(* Every CRC that is answered is the CRC of just the range that was asked  *)
(* for, whichever of the three ways it was computed in, however the engine *)
(* and the copying interleave and wherever the engine stops; and a range   *)
(* is refused just when it is empty or not in the flash.                   *)
CrcOfRange ==
  LET inFlash == len > 0 /\ off + len <= conditions.flash IN
  /\ answer.kind = "crc" => answer.cells = Span(off, len) /\ inFlash
  /\ answer.kind = "address error" => ~inFlash

(* The stub answers every command, also when the engine never finishes.    *)
Answered == pc # "idle" ~> pc = "idle"

=============================================================================
