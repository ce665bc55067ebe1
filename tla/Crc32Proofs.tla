---------------------------- MODULE Crc32Proofs ----------------------------
(***************************************************************************)
(* Every CRC that the stub answers is that of just its range: a proof of   *)
(* CrcOfRange for every size of the buffers and of the flash, every number *)
(* of commands and every engine.                                           *)
(***************************************************************************)
EXTENDS Crc32, SequenceTheorems, TLAPS

-----------------------------------------------------------------------------
(* The inductive invariant. *)

(* What is being digested: the test data or the range. *)
Base == IF Testing THEN TestAddr ELSE off
Total == IF Testing THEN TestLen ELSE len

Registers == [src : 1..2, len : Nat, cells : Nat, state : Seq(Int)]

Typed ==
  /\ conditions \in Conditions
  /\ pc \in {"idle", "first", "next", "software"}
  /\ off \in Nat /\ len \in Nat /\ available \in {-1, 0, 1}
  /\ buffers \in [1..2 -> [1..BufferSize -> Int]]
  /\ current \in 1..2 /\ addr \in Nat /\ left \in Nat
  /\ chunk \in 0..BufferSize /\ filled \in 0..chunk
  /\ engine \in Registers

(* A command is under way only on a range of the flash, and only an engine *)
(* that has passed its test, or is in it, is at work.                      *)
Underway ==
  /\ pc # "idle" => RangeOK(off, len)
  /\ pc \in {"first", "next"} => available # 0
  /\ available = 1 => conditions.engine # "other"
  /\ engine.cells < engine.len => pc = "next"

Holds(b, n, a) == \A i \in 1..n : buffers[b][i] = a + i - 1

FirstChunk ==
  pc = "first" =>
    /\ state = <<>> /\ addr = Base /\ left = Total /\ chunk = Part(left)
    /\ Holds(current, filled, addr)

(* What the engine makes of n cells from a on. *)
Digested(s, a, n) ==
  IF conditions.engine = "other"
  THEN Len(s) = n /\ \A i \in 1..n : s[i] = Wrong
  ELSE s = Span(a, n)

(* The two buffers hold what follows each other, and the engine has        *)
(* digested all that is in front of the first of them.                     *)
NextChunk ==
  pc = "next" =>
    /\ engine.src = current /\ engine.len \in 1..BufferSize
    /\ engine.cells \in 0..engine.len
    /\ Base + engine.len <= addr /\ addr + left = Base + Total
    /\ chunk = Part(left)
    /\ Holds(current, engine.len, addr - engine.len)
    /\ Holds(3 - current, filled, addr)
    /\ Digested(engine.state, Base, addr - engine.len - Base + engine.cells)

IInv == Typed /\ Underway /\ FirstChunk /\ NextChunk /\ CrcOfRange


-----------------------------------------------------------------------------
(* Ranges and chunks. *)

(* A range that is accepted is not empty and lies in the flash, and one    *)
(* that is refused does not.                                               *)
LEMMA RangeInFlash ==
  ASSUME conditions \in Conditions, NEW o \in Nat, NEW n \in Nat
  PROVE  RangeOK(o, n) <=> (n > 0 /\ o + n <= conditions.flash)
<1>1. conditions.flash \in {0, MaxFlash} /\ MaxFlash \in Nat
      /\ MaxWord \in Nat /\ MaxFlash < MaxWord
  BY CrcAssumption
<1> QED
  BY <1>1 DEF RangeOK

(* A chunk is not longer than a buffer, and empty only at the end. *)
LEMMA PartBounds ==
  ASSUME NEW n \in Nat
  PROVE  /\ Part(n) \in 0..BufferSize /\ Part(n) <= n
         /\ Part(n) = 0 <=> n = 0
BY CrcAssumption DEF Part

(* The CRC of a range, and of the next cell. *)
LEMMA SpanGrows ==
  ASSUME NEW a \in Int, NEW n \in Nat
  PROVE  /\ Span(a, n) \in Seq(Int)
         /\ Append(Span(a, n), a + n) = Span(a, n + 1)
<1>1. Span(a, n) \in Seq(Int) /\ Len(Span(a, n)) = n
  BY IsASeq DEF Span
<1>2. Span(a, n + 1) \in Seq(Int) /\ Len(Span(a, n + 1)) = n + 1
  BY IsASeq DEF Span
<1>3. /\ Append(Span(a, n), a + n) \in Seq(Int)
      /\ Len(Append(Span(a, n), a + n)) = n + 1
      /\ \A i \in 1..n : Append(Span(a, n), a + n)[i] = Span(a, n)[i]
      /\ Append(Span(a, n), a + n)[n + 1] = a + n
  BY <1>1, AppendProperties, a + n \in Int
<1>4. \A i \in 1..n + 1 : Append(Span(a, n), a + n)[i] = Span(a, n + 1)[i]
  BY <1>3 DEF Span
<1> QED
  BY <1>1, <1>2, <1>3, <1>4, SeqEqual

(* Nothing digested is the CRC of nothing. *)
LEMMA EmptySpan ==
  ASSUME NEW a \in Int
  PROVE  Span(a, 0) = << >>
BY DEF Span

-----------------------------------------------------------------------------
(* The invariant holds at first, and every step preserves it. *)

(* Nothing is under way at first. *)
LEMMA InitInvariant ==
  Init => IInv
<1> SUFFICES ASSUME Init PROVE IInv
  OBVIOUS
<1>1. Typed
  <2>1. << >> \in Seq(Int)
    OBVIOUS
  <2> QED
    BY <2>1, CrcAssumption DEF Init, Typed, Registers, Idle, Old
<1>2. Underway /\ FirstChunk /\ NextChunk
  BY DEF Init, Underway, FirstChunk, NextChunk, Idle
<1>3. CrcOfRange
  BY DEF Init, CrcOfRange, None
<1> QED
  BY <1>1, <1>2, <1>3 DEF IInv

(* The engine takes the next cell of its buffer, which is the next one of  *)
(* what is being digested.                                                 *)
LEMMA EngineStepInvariant ==
  ASSUME IInv, EngineStep
  PROVE  IInv'
<1> DEFINE i == engine.cells + 1
           n == addr - engine.len - Base + engine.cells
           cell == IF conditions.engine = "other" THEN Wrong
                   ELSE buffers[engine.src][i]
<1>1. /\ Typed /\ pc = "next" /\ engine.cells < engine.len
      /\ UNCHANGED <<conditions, pc, off, len, answer, available, hardware>>
      /\ engine' = [src |-> engine.src, len |-> engine.len, cells |-> i,
                    state |-> Append(engine.state, cell)]
  BY DEF IInv, Underway, EngineStep
<1>2. /\ engine.src = current /\ engine.len \in Nat
      /\ engine.len <= BufferSize /\ addr \in Nat
      /\ engine.cells \in Nat /\ engine.cells < engine.len
      /\ Base \in Nat /\ Total \in Nat /\ BufferSize \in Nat
      /\ Base + engine.len <= addr
      /\ Holds(current, engine.len, addr - engine.len) /\ Digested(engine.state, Base, n)
  BY <1>1, CrcAssumption
     DEF IInv, NextChunk, Typed, Registers, Base, Total, TestAddr, TestLen
<1>3. Base' = Base /\ Total' = Total
  BY <1>1 DEF Base, Total, Testing, TestAddr, TestLen
<1>4. cell \in Int /\ (conditions.engine # "other" => cell = Base + n)
  <2>1. i \in 1..engine.len /\ i \in 1..BufferSize
    BY <1>2
  <2>2. buffers[current][i] = addr - engine.len + i - 1
    BY <1>2, <2>1 DEF Holds
  <2>3. buffers[engine.src][i] = Base + n /\ Base + n \in Int
    BY <1>2, <2>2
  <2> HIDE DEF n
  <2> QED
    BY <2>3 DEF Wrong
<1>5. engine.state \in Seq(Int) /\ Append(engine.state, cell) \in Seq(Int)
  BY <1>1, <1>4, AppendProperties DEF Typed, Registers
<1>6. /\ engine' \in Registers
      /\ engine'.src = engine.src /\ engine'.len = engine.len
      /\ engine'.cells = i
      /\ engine'.state = Append(engine.state, cell)
  <2>1. engine.src \in 1..2 /\ engine.len \in Nat /\ i \in Nat
    BY <1>1, <1>2 DEF Typed, Registers
  <2> DEFINE r == [src |-> engine.src, len |-> engine.len, cells |-> i,
                   state |-> Append(engine.state, cell)]
  <2>2. /\ r \in Registers /\ r.src = engine.src /\ r.len = engine.len
        /\ r.cells = i /\ r.state = Append(engine.state, cell)
    <3> HIDE DEF cell, i
    <3> QED
      BY <1>5, <2>1 DEF Registers
  <2>3. engine' = r
    BY <1>1
  <2> HIDE DEF r
  <2> QED
    BY <2>2, <2>3
<1>7. Typed'
  BY <1>1, <1>6 DEF Typed, hardware
<1>8. n \in Nat /\ n + 1 = (addr - engine.len - Base + engine.cells)'
  <2>1. addr' = addr
    BY <1>1 DEF hardware
  <2>2. n \in Nat
    BY <1>2
  <2>3. n + 1 = addr - engine.len - Base + i
    BY <1>2
  <2>4. (addr - engine.len - Base + engine.cells)'
          = addr' - engine'.len - Base' + engine'.cells
    OBVIOUS
  <2> QED
    BY <1>3, <1>6, <2>1, <2>2, <2>3, <2>4
<1>9. Digested(engine'.state, Base, n + 1)
  <2>1. CASE conditions.engine = "other"
    <3>1. /\ Len(engine.state) = n /\ \A j \in 1..n : engine.state[j] = Wrong
          /\ cell = Wrong
      BY <1>2, <2>1 DEF Digested
    <3>2. /\ Len(engine'.state) = n + 1
          /\ \A j \in 1..n : engine'.state[j] = Wrong
          /\ engine'.state[n + 1] = Wrong
      BY <1>4, <1>5, <1>6, <3>1, AppendProperties
    <3> HIDE DEF n, cell
    <3>3. \A j \in 1..n + 1 : engine'.state[j] = Wrong
      BY <1>8, <3>2
    <3> QED
      BY <2>1, <3>2, <3>3 DEF Digested
  <2>2. CASE conditions.engine # "other"
    <3>1. engine'.state = Append(Span(Base, n), Base + n)
      BY <1>2, <1>4, <1>6, <2>2 DEF Digested
    <3> HIDE DEF n, cell
    <3>2. engine'.state = Span(Base, n + 1)
      BY <1>2, <1>8, <3>1, SpanGrows, Base \in Int
    <3> QED
      BY <2>2, <3>2 DEF Digested
  <2> QED
    BY <2>1, <2>2
<1>10. NextChunk'
  <2>1. Digested(engine.state, Base, addr - engine.len - Base + engine.cells)'
    <3> HIDE DEF n
    <3> QED
      BY <1>1, <1>3, <1>8, <1>9 DEF Digested, Span, Wrong
  <2>2. Holds(current, engine.len, addr - engine.len)'
        /\ Holds(3 - current, filled, addr)'
    BY <1>1, <1>6 DEF IInv, NextChunk, hardware, Holds
  <2>3. /\ engine.len \in 1..BufferSize /\ addr + left = Base + Total
        /\ chunk = Part(left)
    BY <1>1 DEF IInv, NextChunk
  <2>4. addr' = addr /\ left' = left /\ chunk' = chunk /\ current' = current
    BY <1>1 DEF hardware
  <2>5. Part(left)' = Part(left)
    BY <2>4 DEF Part
  <2>6. i \in 0..engine.len
    BY <1>2
  <2> HIDE DEF i, n, cell
  <2>7. (/\ engine.src = current /\ engine.len \in 1..BufferSize
         /\ engine.cells \in 0..engine.len
         /\ Base + engine.len <= addr /\ addr + left = Base + Total
         /\ chunk = Part(left))'
    BY <1>2, <1>3, <1>6, <2>3, <2>4, <2>5, <2>6
  <2> QED
    BY <2>1, <2>2, <2>7 DEF NextChunk
<1>11. Underway' /\ FirstChunk' /\ CrcOfRange'
  BY <1>1, <1>6
     DEF IInv, Underway, FirstChunk, CrcOfRange, RangeOK, Span
<1> QED
  BY <1>7, <1>10, <1>11 DEF IInv

(* What a stopped engine looks like. *)
LEMMA IdleFields ==
  Idle \in Registers /\ Idle.cells = 0 /\ Idle.len = 0
<1>1. << >> \in Seq(Int)
  OBVIOUS
<1> QED
  BY <1>1 DEF Idle, Registers

(* The software's result is the CRC of the range.                          *)
LEMMA SoftwareCrcInvariant ==
  ASSUME IInv, SoftwareCrc
  PROVE  IInv'
<1>1. /\ Typed /\ pc = "software" /\ pc' = "idle"
      /\ answer' = Crc(Span(off, len))
      /\ UNCHANGED <<conditions, off, len, commands, available, hardware, engine>>
  BY DEF IInv, SoftwareCrc, Software, Answer
<1>2. Typed'
  BY <1>1 DEF Typed, hardware
<1>3. RangeOK(off, len)
  BY <1>1 DEF IInv, Underway
<1>4. len > 0 /\ off + len <= conditions.flash
  BY <1>1, <1>3, RangeInFlash DEF Typed
<1>5. answer'.kind = "crc" /\ answer'.cells = Span(off, len)
  BY <1>1 DEF Crc
<1>6. CrcOfRange'
  <2>1. Span(off, len)' = Span(off, len)
    BY <1>1 DEF Span
  <2> QED
    BY <1>1, <1>4, <1>5, <2>1 DEF CrcOfRange
<1>7. Underway' /\ FirstChunk' /\ NextChunk'
  BY <1>1 DEF IInv, Underway, FirstChunk, NextChunk
<1> QED
  BY <1>2, <1>6, <1>7 DEF IInv

(* A buffer takes one more cell of its chunk, and the other one stays.     *)
LEMMA CopyHolds ==
  ASSUME Typed, NEW t \in 1..2, Copy(t)
  PROVE  /\ Typed'
         /\ Holds(t, filled, addr)
              => \A i \in 1..filled + 1 : buffers'[t][i] = addr + i - 1
         /\ \A n \in Nat, a \in Int : n <= BufferSize /\ Holds(3 - t, n, a)
              => \A i \in 1..n : buffers'[3 - t][i] = a + i - 1
<1>1. /\ filled \in Nat /\ filled + 1 \in 1..BufferSize
      /\ filled + 1 \in 0..chunk /\ addr + filled \in Int
      /\ BufferSize \in Nat /\ 3 - t \in 1..2 /\ 3 - t # t
  BY CrcAssumption DEF Typed, Copy
<1> DEFINE b == [buffers[t] EXCEPT ![filled + 1] = addr + filled]
<1>2. b \in [1..BufferSize -> Int]
  BY <1>1 DEF Typed
<1>3. buffers' = [buffers EXCEPT ![t] = b]
  BY DEF Copy
<1>4. /\ b[filled + 1] = addr + filled
      /\ \A i \in 1..BufferSize : i # filled + 1 => b[i] = buffers[t][i]
  BY <1>1 DEF Typed
<1> HIDE DEF b
<1>5. /\ buffers' \in [1..2 -> [1..BufferSize -> Int]]
      /\ buffers'[t] = b /\ buffers'[3 - t] = buffers[3 - t]
  BY <1>1, <1>2, <1>3 DEF Typed
<1>6. Typed'
  BY <1>1, <1>5 DEF Typed, Copy
<1>7. Holds(t, filled, addr)
        => \A i \in 1..filled + 1 : buffers'[t][i] = addr + i - 1
  <2> SUFFICES ASSUME Holds(t, filled, addr), NEW i \in 1..filled + 1
               PROVE  buffers'[t][i] = addr + i - 1
    OBVIOUS
  <2>1. CASE i = filled + 1
    BY <1>1, <1>4, <1>5, <2>1 DEF Typed
  <2>2. CASE i # filled + 1
    <3>1. i \in 1..filled /\ i \in 1..BufferSize
      BY <1>1, <2>2
    <3>2. buffers[t][i] = addr + i - 1
      BY <3>1 DEF Holds
    <3> QED
      BY <1>4, <1>5, <2>2, <3>1, <3>2
  <2> QED
    BY <2>1, <2>2
<1>8. ASSUME NEW n \in Nat, NEW a \in Int, n <= BufferSize, Holds(3 - t, n, a)
      PROVE  \A i \in 1..n : buffers'[3 - t][i] = a + i - 1
  BY <1>5, <1>8 DEF Holds
<1> QED
  BY <1>6, <1>7, <1>8

(* The first chunk is copied. *)
LEMMA FillFirstInvariant ==
  ASSUME IInv, FillFirst
  PROVE  IInv'
<1>1. Typed /\ current \in 1..2 /\ pc = "first" /\ Copy(current)
  BY DEF IInv, Typed, FillFirst
<1>2. /\ UNCHANGED <<conditions, pc, off, len, answer, available, current,
                     addr, left, chunk, state, engine>>
      /\ filled' = filled + 1
  BY <1>1 DEF Copy
<1>3. Typed' /\ (Holds(current, filled, addr) => Holds(current, filled, addr)')
  <2>1. Typed' /\ (Holds(current, filled, addr)
                     => \A i \in 1..filled + 1 :
                          buffers'[current][i] = addr' + i - 1)
    BY <1>1, <1>2, CopyHolds DEF Holds
  <2> QED
    BY <1>2, <2>1 DEF Holds
<1>4. Base' = Base /\ Total' = Total /\ Part(left)' = Part(left)
  BY <1>2 DEF Base, Total, Testing, TestAddr, TestLen, Part
<1>5. FirstChunk'
  BY <1>1, <1>2, <1>3, <1>4 DEF IInv, FirstChunk
<1>6. Underway' /\ NextChunk' /\ CrcOfRange'
  BY <1>1, <1>2 DEF IInv, Underway, NextChunk, CrcOfRange, RangeOK, Span
<1> QED
  BY <1>3, <1>5, <1>6 DEF IInv

(* The next chunk is copied: into the buffer that the engine does not read. *)
LEMMA FillNextInvariant ==
  ASSUME IInv, FillNext
  PROVE  IInv'
<1> DEFINE o == 3 - current
           a == addr - engine.len
<1>1. /\ Typed /\ o \in 1..2 /\ 3 - o = current /\ pc = "next" /\ Copy(o)
      /\ engine.len \in Nat /\ engine.len <= BufferSize /\ a \in Int
  <2>1. Typed /\ pc = "next" /\ Copy(o)
    BY DEF IInv, FillNext
  <2>2. engine.len \in 1..BufferSize /\ BufferSize \in Nat
    BY <2>1, CrcAssumption DEF IInv, NextChunk
  <2>3. current \in 1..2 /\ addr \in Nat
    BY <2>1 DEF Typed
  <2> QED
    BY <2>1, <2>2, <2>3
<1>2. /\ UNCHANGED <<conditions, pc, off, len, answer, available, current,
                     addr, left, chunk, state, engine>>
      /\ filled' = filled + 1
  BY <1>1 DEF Copy
<1>3. /\ engine.src = current /\ engine.len \in 1..BufferSize
      /\ engine.cells \in 0..engine.len
      /\ Base + engine.len <= addr /\ addr + left = Base + Total
      /\ chunk = Part(left) /\ Holds(current, engine.len, a)
      /\ Holds(o, filled, addr)
      /\ Digested(engine.state, Base, addr - engine.len - Base + engine.cells)
  BY <1>1 DEF IInv, NextChunk
<1>4. a' = a /\ o' = o
  BY <1>2
<1> HIDE DEF a, o
<1>5. /\ Typed'
      /\ \A i \in 1..filled + 1 : buffers'[o][i] = addr + i - 1
      /\ \A i \in 1..engine.len : buffers'[current][i] = a + i - 1
  <2>1. /\ Typed' /\ \A i \in 1..filled + 1 : buffers'[o][i] = addr + i - 1
        /\ \A n \in Nat, b \in Int : n <= BufferSize /\ Holds(3 - o, n, b)
             => \A i \in 1..n : buffers'[3 - o][i] = b + i - 1
    BY <1>1, <1>3, CopyHolds
  <2> QED
    BY <1>1, <1>3, <2>1
<1>6. Holds(current, engine.len, a)' /\ Holds(o, filled, addr)'
  BY <1>2, <1>4, <1>5 DEF Holds
<1>7. Base' = Base /\ Total' = Total /\ Part(left)' = Part(left)
  BY <1>2 DEF Base, Total, Testing, TestAddr, TestLen, Part
<1>8. Digested(engine.state, Base, addr - engine.len - Base + engine.cells)'
  BY <1>2, <1>3, <1>7 DEF Digested, Span, Wrong
<1>9. (/\ engine.src = current /\ engine.len \in 1..BufferSize
       /\ engine.cells \in 0..engine.len
       /\ Base + engine.len <= addr /\ addr + left = Base + Total
       /\ chunk = Part(left))'
  BY <1>2, <1>3, <1>7
<1>10. NextChunk'
  BY <1>6, <1>8, <1>9 DEF NextChunk, a, o
<1>11. Underway' /\ FirstChunk' /\ CrcOfRange'
  BY <1>1, <1>2 DEF IInv, Underway, FirstChunk, CrcOfRange, RangeOK, Span
<1> QED
  BY <1>5, <1>10, <1>11 DEF IInv

(* A buffer is full, and seed is the CRC of all that is in front of it.    *)
Ready(src, seed) ==
  /\ Typed /\ CrcOfRange /\ RangeOK(off, len) /\ available # 0
  /\ available = 1 => conditions.engine # "other"
  /\ src \in 1..2 /\ seed \in Seq(Int)
  /\ filled = chunk /\ chunk = Part(left)
  /\ Base <= addr /\ addr + left = Base + Total
  /\ Holds(src, chunk, addr) /\ Digested(seed, Base, addr - Base)

(* It may go to the engine. *)
LEMMA StartChunkInvariant ==
  ASSUME NEW src, NEW seed, Ready(src, seed), chunk > 0,
         StartChunk(src, addr, left, chunk, seed),
         UNCHANGED <<conditions, off, len, commands>>
  PROVE  IInv'
<1>1. /\ UNCHANGED <<conditions, off, len, buffers, available, answer>>
      /\ pc' = "next" /\ current' = src
      /\ addr' = addr + chunk /\ left' = left - chunk
      /\ chunk' = Part(left - chunk) /\ filled' = 0
  BY DEF StartChunk
<1>2. /\ addr \in Nat /\ left \in Nat /\ chunk \in Nat /\ chunk <= BufferSize
      /\ chunk <= left /\ BufferSize \in Nat /\ Base \in Nat /\ Total \in Nat
      /\ src \in 1..2 /\ seed \in Seq(Int)
  BY CrcAssumption, PartBounds
     DEF Ready, Typed, Base, Total, TestAddr, TestLen
<1>3. Base' = Base /\ Total' = Total /\ Part(left)' = Part(left')
  BY <1>1 DEF Base, Total, Testing, TestAddr, TestLen, Part
<1>4. /\ engine' \in Registers /\ engine'.src = src /\ engine'.len = chunk
      /\ engine'.cells = 0 /\ engine'.state = seed
  <2> DEFINE r == [src |-> src, len |-> chunk, cells |-> 0, state |-> seed]
  <2>1. /\ r \in Registers /\ r.src = src /\ r.len = chunk
        /\ r.cells = 0 /\ r.state = seed
    BY <1>2 DEF Registers
  <2>2. engine' = r
    BY DEF StartChunk, Start
  <2> HIDE DEF r
  <2> QED
    BY <2>1, <2>2
<1>5. left - chunk \in Nat /\ addr + chunk \in Nat
  BY <1>2
<1>6. Typed'
  <2>1. Part(left - chunk) \in 0..BufferSize /\ 0 \in 0..Part(left - chunk)
    BY <1>5, PartBounds
  <2> QED
    BY <1>1, <1>2, <1>4, <1>5, <2>1 DEF Ready, Typed
<1>7. Holds(current, engine.len, addr - engine.len)'
  <2>1. (addr + chunk) - chunk = addr
    BY <1>2
  <2> QED
    BY <1>1, <1>4, <2>1 DEF Ready, Holds
<1>8. Holds(3 - current, filled, addr)'
  BY <1>1 DEF Holds
<1>9. Digested(engine.state, Base, addr - engine.len - Base + engine.cells)'
  <2>1. (addr + chunk) - chunk - Base + 0 = addr - Base
    BY <1>2
  <2> QED
    BY <1>1, <1>3, <1>4, <2>1 DEF Ready, Digested, Span, Wrong
<1>10. (/\ engine.src = current /\ engine.len \in 1..BufferSize
        /\ engine.cells \in 0..engine.len
        /\ Base + engine.len <= addr /\ addr + left = Base + Total
        /\ chunk = Part(left))'
  <2>1. /\ chunk \in 1..BufferSize /\ 0 \in 0..chunk
        /\ Base + chunk <= addr + chunk
        /\ (addr + chunk) + (left - chunk) = Base + Total
    <3>1. Base <= addr /\ addr + left = Base + Total
      BY DEF Ready
    <3> QED
      BY <1>2, <3>1
  <2>2. /\ current' = src /\ addr' = addr + chunk /\ left' = left - chunk
        /\ chunk' = Part(left')
    BY <1>1
  <2>3. /\ engine'.src = current' /\ engine'.len \in 1..BufferSize
        /\ engine'.cells \in 0..engine'.len
    BY <1>4, <2>1, <2>2
  <2>4. Base' + engine'.len <= addr' /\ addr' + left' = Base' + Total'
    BY <1>3, <1>4, <2>1, <2>2
  <2> QED
    BY <1>3, <2>2, <2>3, <2>4
<1>11. NextChunk'
  BY <1>1, <1>7, <1>8, <1>9, <1>10 DEF NextChunk
<1>12. Underway' /\ FirstChunk' /\ CrcOfRange'
  BY <1>1 DEF Ready, Underway, FirstChunk, CrcOfRange, RangeOK, Span
<1> QED
  BY <1>6, <1>11, <1>12 DEF IInv

(* The first chunk starts the engine from nothing. *)
LEMMA StartFirstInvariant ==
  ASSUME IInv, StartFirst
  PROVE  IInv'
<1>1. /\ Typed /\ CrcOfRange /\ RangeOK(off, len) /\ available # 0
      /\ available = 1 => conditions.engine # "other"
      /\ state = << >> /\ addr = Base /\ left = Total /\ chunk = Part(left)
      /\ Holds(current, filled, addr) /\ filled = chunk
      /\ StartChunk(current, addr, left, chunk, state)
      /\ UNCHANGED <<conditions, off, len, commands>>
  BY DEF IInv, Underway, FirstChunk, StartFirst
<1>2. Total \in Nat \ {0} /\ Base \in Nat /\ current \in 1..2
  BY <1>1, RangeInFlash, CrcAssumption
     DEF Typed, Total, TestLen, Base, TestAddr
<1>3. chunk > 0
  BY <1>1, <1>2, PartBounds, CrcAssumption
<1>4. state \in Seq(Int) /\ Digested(state, Base, addr - Base)
  <2>1. addr - Base = 0 /\ Len(state) = 0 /\ state = Span(Base, 0)
    BY <1>1, <1>2, EmptySpan
  <2> QED
    BY <1>1, <2>1 DEF Digested
<1>5. Ready(current, state)
  BY <1>1, <1>2, <1>4 DEF Ready
<1> QED
  BY <1>1, <1>3, <1>5, StartChunkInvariant

(* When the engine has completed its chunk, the other buffer is such a one. *)
LEMMA CompleteIsReady ==
  ASSUME IInv, Complete
  PROVE  Ready(3 - current, engine.state)
<1>1. /\ Typed /\ CrcOfRange /\ RangeOK(off, len) /\ available # 0
      /\ available = 1 => conditions.engine # "other"
      /\ filled = chunk /\ chunk = Part(left)
      /\ engine.cells = engine.len /\ engine.len \in Nat
      /\ Base + engine.len <= addr /\ addr + left = Base + Total
      /\ Holds(3 - current, chunk, addr)
      /\ Digested(engine.state, Base, addr - engine.len - Base + engine.cells)
  BY CrcAssumption DEF IInv, Underway, NextChunk, Complete
<1>2. /\ Base \in Nat /\ Total \in Nat /\ addr \in Nat /\ current \in 1..2
      /\ engine.state \in Seq(Int)
  BY <1>1, CrcAssumption
     DEF Typed, Registers, Base, Total, TestAddr, TestLen
<1>3. Base <= addr /\ addr - engine.len - Base + engine.cells = addr - Base
  BY <1>1, <1>2
<1> QED
  BY <1>1, <1>2, <1>3 DEF Ready

(* The next chunk continues from the engine's own result. *)
LEMMA StartNextInvariant ==
  ASSUME IInv, StartNext
  PROVE  IInv'
<1>1. /\ Complete /\ chunk > 0
      /\ StartChunk(3 - current, addr, left, chunk, engine.state)
      /\ UNCHANGED <<conditions, off, len, commands>>
  BY DEF StartNext
<1> QED
  BY <1>1, CompleteIsReady, StartChunkInvariant

(* A digestion that begins: nothing of its first chunk is copied yet.      *)
LEMMA DigestInvariant ==
  ASSUME Typed, NEW a \in Nat, NEW n \in Nat, Digest(a, n),
         conditions' = conditions, off' \in Nat, len' \in Nat,
         available' \in {-1, 1}, engine' \in Registers,
         engine'.cells >= engine'.len,
         RangeOK(off, len)', CrcOfRange',
         (available = 1)' => conditions.engine # "other",
         a = Base', n = Total'
  PROVE  IInv'
<1>1. /\ pc' = "first" /\ addr' = a /\ left' = n /\ state' = << >>
      /\ current' = 1 /\ chunk' = Part(n) /\ filled' = 0
      /\ buffers' = buffers
  BY DEF Digest
<1>2. Part(n) \in 0..BufferSize /\ 0 \in 0..Part(n)
  BY PartBounds
<1>3. Typed'
  BY <1>1, <1>2 DEF Typed
<1>4. ~(engine'.cells < engine'.len)
  <2>1. engine'.cells \in Nat /\ engine'.len \in Nat
    BY DEF Registers
  <2> QED
    BY <2>1
<1>5. Underway'
  BY <1>1, <1>4 DEF Underway
<1>6. FirstChunk'
  BY <1>1 DEF FirstChunk, Holds, Part
<1>7. NextChunk'
  BY <1>1 DEF NextChunk
<1> QED
  BY <1>3, <1>5, <1>6, <1>7 DEF IInv

(* A command starts a digestion, is left to the software, or is refused    *)
(* because its range is not in the flash.                                  *)
LEMMA CommandInvariant ==
  ASSUME IInv, Command
  PROVE  IInv'
<1>1. /\ Typed /\ pc = "idle"
      /\ UNCHANGED <<conditions, available, engine>>
      /\ available = 1 => conditions.engine # "other"
      /\ ~(engine.cells < engine.len)
  BY DEF IInv, Underway, Command
<1>2. PICK o, n \in 0..MaxWord :
        /\ off' = o /\ len' = n
        /\ \/ ~RangeOK(o, n) /\ pc' = "idle" /\ answer' = AddrError
              /\ UNCHANGED hardware
           \/ /\ RangeOK(o, n) /\ answer' = None
              /\ CASE available = -1 -> Digest(TestAddr, TestLen)
                   [] available = 1 -> Digest(o, n)
                   [] OTHER -> pc' = "software" /\ UNCHANGED hardware
  BY DEF Command
<1>3. o \in Nat /\ n \in Nat /\ TestAddr \in Nat /\ TestLen \in Nat
  BY CrcAssumption DEF TestAddr, TestLen
<1>4. engine \in Registers /\ engine.cells >= engine.len
  BY <1>1 DEF Typed, Registers
<1>5. CASE ~RangeOK(o, n) /\ pc' = "idle" /\ answer' = AddrError
           /\ UNCHANGED hardware
  <2>1. Typed'
    BY <1>1, <1>2, <1>3, <1>5 DEF Typed, hardware
  <2>2. Underway' /\ FirstChunk' /\ NextChunk'
    BY <1>1, <1>5 DEF Underway, FirstChunk, NextChunk
  <2>3. CrcOfRange'
    <3>1. ~(n > 0 /\ o + n <= conditions.flash)
      BY <1>1, <1>3, <1>5, RangeInFlash DEF Typed
    <3>2. answer'.kind = "address error"
      BY <1>5 DEF AddrError
    <3> QED
      BY <1>1, <1>2, <3>1, <3>2 DEF CrcOfRange
  <2> QED
    BY <2>1, <2>2, <2>3 DEF IInv
<1>6. CASE RangeOK(o, n) /\ answer' = None
  <2>1. RangeOK(off, len)' /\ CrcOfRange'
    BY <1>1, <1>2, <1>6 DEF RangeOK, CrcOfRange, None
  <2>2. CASE available = -1
    <3>1. Digest(TestAddr, TestLen)
      BY <1>2, <1>6, <2>2
    <3>2. TestAddr = Base' /\ TestLen = Total'
      BY <1>1, <2>2 DEF Base, Total, Testing, TestAddr, TestLen
    <3> QED
      BY <1>1, <1>2, <1>3, <1>4, <2>1, <2>2, <3>1, <3>2, DigestInvariant
  <2>3. CASE available = 1
    <3>1. Digest(o, n)
      BY <1>2, <1>6, <2>3
    <3>2. o = Base' /\ n = Total'
      BY <1>1, <1>2, <2>3 DEF Base, Total, Testing
    <3> QED
      BY <1>1, <1>2, <1>3, <1>4, <2>1, <2>3, <3>1, <3>2, DigestInvariant
  <2>4. CASE available # -1 /\ available # 1
    <3>1. pc' = "software" /\ UNCHANGED hardware
      BY <1>2, <1>6, <2>4
    <3>2. Typed'
      BY <1>1, <1>2, <1>3, <3>1 DEF Typed, hardware
    <3>3. Underway' /\ FirstChunk' /\ NextChunk'
      BY <1>1, <2>1, <3>1 DEF Underway, FirstChunk, NextChunk
    <3> QED
      BY <2>1, <3>2, <3>3 DEF IInv
  <2> QED
    BY <2>2, <2>3, <2>4
<1> QED
  BY <1>2, <1>5, <1>6

(* The engine is given up, and the software takes the range.               *)
LEMMA GivenUpInvariant ==
  ASSUME Typed, RangeOK(off, len), CrcOfRange,
         Reset, available' = 0, pc' = "software",
         UNCHANGED <<conditions, off, len, answer, commands, hardware>>
  PROVE  IInv'
<1>1. engine' \in Registers /\ ~(engine'.cells < engine'.len)
  BY IdleFields DEF Reset
<1>2. Typed'
  BY <1>1 DEF Typed, hardware
<1>3. Underway' /\ FirstChunk' /\ NextChunk'
  BY <1>1 DEF Underway, FirstChunk, NextChunk, RangeOK
<1>4. CrcOfRange'
  BY DEF CrcOfRange, Span
<1> QED
  BY <1>2, <1>3, <1>4 DEF IInv

(* So it is after a timeout, wherever the engine stands. *)
LEMMA WaitTimeoutInvariant ==
  ASSUME IInv, WaitTimeout
  PROVE  IInv'
BY GivenUpInvariant DEF IInv, Underway, WaitTimeout

(* The last chunk is digested: the engine has passed its test or failed    *)
(* it, or its result is the answer.                                        *)
LEMMA FinishedInvariant ==
  ASSUME IInv, Finished
  PROVE  IInv'
<1>1. /\ Complete /\ chunk = 0 /\ Reset
      /\ UNCHANGED <<conditions, off, len, commands>>
  BY DEF Finished
<1>2. Ready(3 - current, engine.state)
  BY <1>1, CompleteIsReady
<1>3. /\ Typed /\ CrcOfRange /\ RangeOK(off, len) /\ available # 0
      /\ available = 1 => conditions.engine # "other"
      /\ off \in Nat /\ len \in Nat /\ available \in {-1, 0, 1}
  BY <1>2 DEF Ready, Typed
<1>4. Base \in Nat /\ Total \in Nat /\ addr - Base = Total
  <2>1. addr \in Nat /\ left = 0
    BY <1>1, <1>2, PartBounds DEF Ready, Typed
  <2>2. Base \in Nat /\ Total \in Nat
    BY <1>3, CrcAssumption DEF Base, Total, TestAddr, TestLen
  <2> QED
    BY <1>2, <2>1, <2>2 DEF Ready
<1>5. Digested(engine.state, Base, Total)
  BY <1>2, <1>4 DEF Ready
<1>6. engine' \in Registers /\ engine'.cells >= engine'.len
  BY <1>1, IdleFields DEF Reset
<1>7. CASE Testing /\ engine.state = Span(TestAddr, TestLen)
           /\ available' = 1 /\ Digest(off, len) /\ UNCHANGED answer
  <2>1. conditions.engine # "other"
    <3>1. SUFFICES ASSUME conditions.engine = "other" PROVE FALSE
      OBVIOUS
    <3>2. engine.state[1] = Wrong
      BY <1>5, <1>7, <3>1 DEF Digested, Total, TestLen
    <3>3. engine.state[1] = MaxFlash
      BY <1>7, CrcAssumption DEF Span, TestAddr, TestLen
    <3> QED
      BY <3>2, <3>3, CrcAssumption DEF Wrong
  <2>2. CrcOfRange' /\ RangeOK(off, len)'
    BY <1>1, <1>3, <1>7 DEF CrcOfRange, Span, RangeOK
  <2>3. off = Base' /\ len = Total'
    BY <1>1, <1>7 DEF Base, Total, Testing
  <2> QED
    BY <1>1, <1>3, <1>6, <1>7, <2>1, <2>2, <2>3, DigestInvariant
<1>8. CASE Testing /\ available' = 0 /\ pc' = "software"
           /\ UNCHANGED <<answer, hardware>>
  BY <1>1, <1>3, <1>8, GivenUpInvariant
<1>9. CASE ~Testing /\ Answer(Crc(engine.state))
  <2>1. /\ pc' = "idle" /\ answer' = Crc(engine.state)
        /\ UNCHANGED <<available, hardware>>
    BY <1>9 DEF Answer
  <2>2. engine.state = Span(off, len)
    BY <1>3, <1>5, <1>9 DEF Digested, Base, Total, Testing
  <2>3. Typed'
    BY <1>1, <1>3, <1>6, <2>1 DEF Typed, hardware
  <2>4. CrcOfRange'
    <3>1. len > 0 /\ off + len <= conditions.flash
      BY <1>3, RangeInFlash DEF Typed
    <3>2. answer'.kind = "crc" /\ answer'.cells = Span(off, len)
      BY <2>1, <2>2 DEF Crc
    <3>3. Span(off, len)' = Span(off, len)
      BY <1>1 DEF Span
    <3> QED
      BY <1>1, <3>1, <3>2, <3>3 DEF CrcOfRange
  <2>5. Underway' /\ FirstChunk' /\ NextChunk'
    <3>1. ~(engine'.cells < engine'.len)
      BY <1>6 DEF Registers
    <3> QED
      BY <1>1, <1>3, <2>1, <3>1 DEF Underway, FirstChunk, NextChunk
  <2> QED
    BY <2>3, <2>4, <2>5 DEF IInv
<1> QED
  BY <1>7, <1>8, <1>9 DEF Finished

(* Every step preserves it, and so does a stutter. *)
LEMMA StepInvariant ==
  ASSUME IInv, [Next]_vars
  PROVE  IInv'
<1>1. CASE UNCHANGED vars
  <2>1. UNCHANGED <<conditions, pc, off, len, answer, available, buffers,
                    current, addr, left, chunk, filled, state, engine>>
    BY <1>1 DEF vars, hardware
  <2>2. Typed' /\ Underway' /\ FirstChunk'
    BY <2>1 DEF IInv, Typed, Underway, FirstChunk, RangeOK, Base, Total,
                Testing, Part, Holds
  <2>3. NextChunk' /\ CrcOfRange'
    BY <2>1 DEF IInv, NextChunk, CrcOfRange, Base, Total, Testing, Part,
                Holds, Digested, Span
  <2> QED
    BY <2>2, <2>3 DEF IInv
<1> QED
  BY <1>1, CommandInvariant, SoftwareCrcInvariant, FillFirstInvariant,
     FillNextInvariant, StartFirstInvariant, StartNextInvariant,
     FinishedInvariant, WaitTimeoutInvariant, EngineStepInvariant
     DEF Next, Stub

-----------------------------------------------------------------------------
(* Every CRC that is answered is the CRC of just the range that was asked  *)
(* for, whichever way it was computed in, and a range is refused just when *)
(* it is empty or not in the flash (obk_send_flash_crc32,                  *)
(* w800_crc32_memory).                                                     *)
THEOREM CrcCorrect == Spec => []CrcOfRange
<1>1. IInv => CrcOfRange
  BY DEF IInv
<1> QED
  BY <1>1, InitInvariant, StepInvariant, PTL DEF Spec

=============================================================================
