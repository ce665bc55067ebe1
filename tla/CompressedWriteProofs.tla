----------------------- MODULE CompressedWriteProofs -----------------------
(***************************************************************************)
(* Theorems about the compressed flash write: first about the command, for *)
(* every sender (CompressedFlash), then about the probe's session, whose   *)
(* every behaviour is one of the command (CompressedWrite).  No proof of   *)
(* the first part cites an assumption of CompressedWrite.  The second part *)
(* asks two things of the probe's packets: that they are bytes, and that   *)
(* the checksum tells a damaged one (PacketBytes, DamageShows).            *)
(***************************************************************************)
EXTENDS CompressedWrite, AddressableFlash, SequenceLemmas

-----------------------------------------------------------------------------
(* The chip and the UART. *)

(* The mask of the address register lets every address of the chip pass.   *)
LEMMA Reached ==
  ASSUME NEW o \in Addr
  PROVE  OnChip(o) = o
<1>1. /\ o \in Int /\ 0 <= o /\ o < AddressReach /\ 0 \in Int
      /\ AddressReach \in Nat \ {0}
  BY GeometryAssumption, ReachAssumption DEF Addr
<1>2. ((AddressReach * 0) + o) % AddressReach = o
  BY <1>1, RestOfMultiple
<1>3. (AddressReach * 0) + o = o
  BY <1>1
<1> QED
  BY <1>2, <1>3 DEF OnChip

(* An erase leaves bytes in the flash, ... *)
LEMMA EraseTyped ==
  ASSUME NEW f \in Flash, NEW o, NEW unit, NEW stuck
  PROVE  ChipErase(f, o, unit, stuck) \in Flash
BY ByteAssumption DEF ChipErase, Flash

(* ... and so does a page program, which takes its data from the page.   *)
LEMMA ProgramTyped ==
  ASSUME NEW f \in Flash, NEW o \in Addr, NEW stuck,
         NEW data \in [0 .. PageSize - 1 -> Byte]
  PROVE  ChipProgram(f, o, data, stuck) \in Flash
<1>1. o \in Nat /\ PageSize \in Nat \ {0}
  BY GeometryAssumption DEF Addr
<1>2. /\ Base(o, PageSize) \in Nat /\ Base(o, PageSize) <= o
      /\ o < Base(o, PageSize) + PageSize
  BY <1>1, BaseBounds
<1>3. ASSUME NEW a \in Addr,
             Base(o, PageSize) <= a, a < Base(o, PageSize) + PageSize
      PROVE  And(f[a], IF a >= o THEN data[a - o]
                                 ELSE data[a - o + PageSize]) \in Byte
  <2>1. f[a] \in Byte
    BY DEF Flash
  <2>2. CASE a >= o
    <3>1. a - o \in 0 .. PageSize - 1
      BY <1>1, <1>2, <1>3, <2>2 DEF Addr
    <3> QED
      BY <2>1, <2>2, <3>1, AndAssumption
  <2>3. CASE ~(a >= o)
    <3>1. a - o + PageSize \in 0 .. PageSize - 1
      BY <1>1, <1>2, <1>3, <2>3 DEF Addr
    <3> QED
      BY <2>1, <2>3, <3>1, AndAssumption
  <2> QED
    BY <2>2, <2>3
<1> QED
  BY <1>3, Reached DEF ChipProgram, Flash

(* The control characters can be sent; what is received is a byte.         *)
LEMMA UartTyped ==
  ASSUME rx \in Seq(Byte), tx \in Seq(Byte)
  PROVE  /\ \A b \in Byte : Send(b) => tx' \in Seq(Byte)
         /\ Cancel => tx' \in Seq(Byte)
         /\ Receive => rx' \in Seq(Byte) /\ Head(rx) \in Byte
         /\ {SOH, STX, ACK, NAK, CAN, CRC_MODE} \subseteq Byte
<1>1. {SOH, STX, ACK, NAK, CAN, CRC_MODE} \subseteq Byte
  BY ControlAssumption DEF Controls
<1>2. ASSUME NEW b \in Byte PROVE Append(tx, b) \in Seq(Byte)
  OBVIOUS
<1>3. Append(Append(tx, CAN), CAN) \in Seq(Byte)
  BY <1>1
<1>4. rx # <<>> => Tail(rx) \in Seq(Byte) /\ Head(rx) \in Byte
  OBVIOUS
<1> QED
  BY <1>1, <1>2, <1>3, <1>4 DEF Send, Cancel, Receive

-----------------------------------------------------------------------------
(* The decoder. *)

(* What a stream stands for is a sequence of bytes. *)
LEMMA InflatedTyped ==
  ASSUME NEW s \in Seq(Byte)
  PROVE  Inflated(s) \in Seq(Byte)
<1> DEFINE pieces == [i \in 1 .. Len(s) |-> Expand(s[i])]
<1>1. pieces \in Seq(Seq(Byte))
  BY StreamAssumption
<1>2. Inflated(s) = Seqs!FlattenSeq(pieces)
  BY DEF Inflated, Ext!FlattenSeq, Seqs!FlattenSeq
<1> HIDE DEF pieces
<1> QED
  BY <1>1, <1>2, FlattenTyped

(* Two streams, one after the other, stand for what they stand for.        *)
LEMMA InflatedJoins ==
  ASSUME NEW s \in Seq(Byte), NEW t \in Seq(Byte)
  PROVE  Inflated(s \o t) = Inflated(s) \o Inflated(t)
<1> DEFINE All == Seq(Byte)
           Pieces(u) == [i \in 1 .. Len(u) |-> Expand(u[i])]
           both == s \o t
<1>1. \A u \in Seq(Byte) :
        /\ Pieces(u) \in Seq(All) /\ Len(Pieces(u)) = Len(u)
        /\ \A i \in 1 .. Len(u) : Pieces(u)[i] = Expand(u[i])
        /\ Inflated(u) = Seqs!FlattenSeq(Pieces(u))
  BY StreamAssumption DEF Inflated, Ext!FlattenSeq, Seqs!FlattenSeq
<1>2. /\ both \in Seq(Byte) /\ Len(both) = Len(s) + Len(t)
      /\ \A i \in 1 .. Len(s) : both[i] = s[i]
      /\ \A i \in 1 .. Len(t) : both[Len(s) + i] = t[i]
      /\ Len(s) \in Nat /\ Len(t) \in Nat
  BY Concatenation
<1> DEFINE ps == Pieces(s)  pt == Pieces(t)  joined == ps \o pt
           pb == Pieces(both)
<1>3. /\ ps \in Seq(All) /\ pt \in Seq(All) /\ pb \in Seq(All)
      /\ Len(ps) = Len(s) /\ Len(pt) = Len(t) /\ Len(pb) = Len(both)
      /\ \A i \in 1 .. Len(s) : ps[i] = Expand(s[i])
      /\ \A i \in 1 .. Len(t) : pt[i] = Expand(t[i])
      /\ \A i \in 1 .. Len(both) : pb[i] = Expand(both[i])
      /\ Inflated(s) = Seqs!FlattenSeq(ps)
      /\ Inflated(t) = Seqs!FlattenSeq(pt)
      /\ Inflated(both) = Seqs!FlattenSeq(pb)
  <2> HIDE DEF Pieces, both, All
  <2> QED
    BY <1>1, <1>2
<1>4. ps \in Seq(All) /\ pt \in Seq(All) /\ joined = ps \o pt
  BY <1>3
<1> HIDE DEF Pieces, both, All, ps, pt, joined, pb
<1>5. /\ joined \in Seq(All) /\ Len(joined) = Len(ps) + Len(pt)
      /\ \A i \in 1 .. Len(ps) : joined[i] = ps[i]
      /\ \A i \in 1 .. Len(pt) : joined[Len(ps) + i] = pt[i]
  BY ONLY <1>4, Concatenation
<1>6. ASSUME NEW i \in 1 .. Len(pb) PROVE pb[i] = joined[i]
  <2>1. CASE i <= Len(s)
    <3>1. i \in 1 .. Len(s) /\ i \in 1 .. Len(both) /\ i \in 1 .. Len(ps)
      BY <1>2, <1>3, <2>1
    <3> QED
      BY <1>2, <1>3, <1>5, <3>1
  <2>2. CASE ~(i <= Len(s))
    <3> DEFINE j == i - Len(s)
    <3>1. j \in 1 .. Len(t) /\ Len(s) + j = i
      BY <1>2, <1>3, <2>2
    <3> HIDE DEF j
    <3>2. both[i] = t[j] /\ joined[i] = pt[j]
      BY <1>2, <1>3, <1>5, <3>1
    <3> QED
      BY <1>3, <3>1, <3>2
  <2> QED
    BY <2>1, <2>2
<1>7. pb = joined
  <2>1. pb \in Seq(All) /\ joined \in Seq(All) /\ Len(pb) = Len(joined)
    BY <1>2, <1>3, <1>5
  <2> QED
    BY ONLY <1>6, <2>1, SameSequence
<1>8. Seqs!FlattenSeq(ps \o pt) = Seqs!FlattenSeq(ps) \o Seqs!FlattenSeq(pt)
  BY <1>3, FlattenJoins DEF All
<1> QED
  BY <1>3, <1>4, <1>7, <1>8 DEF both

(* The decoder stops somewhere in its input, and as soon as it can, ...     *)
LEMMA ConsumedInInput ==
  ASSUME TypeOK
  PROVE  /\ Consumed \in 0 .. Len(unread) /\ Stops(Consumed)
         /\ \A j \in 0 .. Consumed - 1 : ~Stops(j)
<1> DEFINE K == {k \in 0 .. Len(unread) : Stops(k)}
<1>1. Len(unread) \in Nat
  BY DEF TypeOK
<1>2. K \in SUBSET Nat /\ Len(unread) \in K
  BY <1>1 DEF Stops
<1>3. PICK k \in K : \A j \in K : k <= j
  <2> HIDE DEF K
  <2> QED
    BY <1>2, LeastNumber
<1>4. k \in 0 .. Len(unread) /\ Stops(k)
  OBVIOUS
<1>5. \A j \in 0 .. k - 1 : ~Stops(j)
  <2> SUFFICES ASSUME NEW j \in 0 .. k - 1, Stops(j) PROVE FALSE
    OBVIOUS
  <2>1. j \in K
    BY <1>1, <1>4
  <2> QED
    BY <1>3, <1>4, <2>1
<1> QED
  BY <1>4, <1>5 DEF Consumed

(* ... and delivers a piece that has room in the dictionary. *)
LEMMA CallTyped ==
  ASSUME TypeOK, NEW d \in OneCall
  PROVE  /\ d.unread \in Seq(Byte) /\ d.owed \in Seq(Byte)
         /\ d.piece \in Seq(Byte) /\ d.over \in BOOLEAN
         /\ d.verdict \in Verdicts
         /\ RoomAfter(Len(d.piece)) \in 1 .. DictSize
<1> DEFINE k == Consumed
           out == Output(k)
           ends == over \/ (k > 0 /\ unread[k] \in Ends)
<1>1. k \in 0 .. Len(unread) /\ unread \in Seq(Byte) /\ owed \in Seq(Byte)
      /\ room \in 1 .. DictSize /\ DictSize \in Nat
  BY ConsumedInInput, StreamAssumption DEF TypeOK
<1> HIDE DEF k
<1>2. out \in Seq(Byte)
  <2>1. SubSeq(unread, 1, k) \in Seq(Byte)
    BY <1>1
  <2>2. Inflated(SubSeq(unread, 1, k)) \in Seq(Byte)
    BY <2>1, InflatedTyped
  <2> QED
    BY <1>1, <2>2 DEF Output
<1>3. d = Decoded(k, out)
  BY DEF OneCall, k
<1> HIDE DEF out
<1>4. d.unread = SubSeq(unread, k + 1, Len(unread))
      /\ d.owed = SubSeq(out, room + 1, Len(out))
      /\ d.piece = SubSeq(out, 1, Smaller(room, Len(out)))
  BY <1>3 DEF Decoded
<1>5. d.over \in BOOLEAN
  BY <1>3 DEF Decoded
<1>6. d.verdict \in Verdicts
  BY <1>3 DEF Decoded, Verdicts
<1>7. d.unread \in Seq(Byte) /\ d.owed \in Seq(Byte) /\ d.piece \in Seq(Byte)
  BY <1>1, <1>2, <1>4 DEF Smaller
<1>8. Len(d.piece) = Smaller(room, Len(out)) /\ Len(out) \in Nat
  BY <1>1, <1>2, <1>4 DEF Smaller
<1>9. RoomAfter(Len(d.piece)) \in 1 .. DictSize
  BY <1>1, <1>8 DEF RoomAfter, Smaller
<1> QED
  BY <1>5, <1>6, <1>7, <1>9

-----------------------------------------------------------------------------
(* Type correctness and the thread's own invariant. *)

(* What the points of the page writer and of the last packet imply beyond  *)
(* ThreadState.                                                            *)
WriterState ==
  /\ Len(page) <= written
  /\ pc = "flush" => Len(page) = PageSize
  /\ pc = "last" => written = len
  /\ result = "done" => pc = "idle"

Typed == TypeOK /\ ThreadState /\ WriterState

(* The stub starts with the types and the thread's invariant. *)
LEMMA TypedInit == Init => Typed
<1> SUFFICES ASSUME Init PROVE Typed
  OBVIOUS
<1>1. /\ flash \in Flash /\ before \in Flash /\ size \in {0, FlashSize}
      /\ pc = "idle" /\ status = "none" /\ result = "none"
      /\ verdict = "needs input" /\ pending \in BOOLEAN /\ over \in BOOLEAN
  BY DEF Init
<1>2. /\ off = WriteMin /\ len = 0 /\ tries = 0 /\ expected = 1
      /\ room = DictSize /\ written = 0
  BY DEF Init
<1>3. /\ rx = <<>> /\ tx = <<>> /\ pkt = <<>> /\ unread = <<>> /\ owed = <<>>
      /\ piece = <<>> /\ page = <<>> /\ accepted = <<>>
  BY DEF Init
<1>4. /\ off \in Addr /\ len \in Nat /\ off >= WriteMin
      /\ off + len <= FlashSize
      /\ tries \in 0 .. MaxPrompts /\ expected \in 0 .. NumberMod - 1
      /\ room \in 1 .. DictSize /\ written \in 0 .. len
  BY <1>2, GeometryAssumption, PacketAssumption, PromptAssumption,
     StreamAssumption DEF Addr
<1>5. /\ pc \in Points /\ status \in Statuses /\ result \in Results
      /\ verdict \in Verdicts
  BY <1>1 DEF Points, Statuses, Results, Verdicts
<1>6. /\ rx \in Seq(Byte) /\ tx \in Seq(Byte) /\ pkt \in Seq(Byte)
      /\ unread \in Seq(Byte) /\ owed \in Seq(Byte) /\ piece \in Seq(Byte)
      /\ page \in Seq(Byte) /\ accepted \in Seq(Byte)
  BY <1>3
<1>7. TypeOK
  BY <1>1, <1>4, <1>5, <1>6 DEF TypeOK
<1>8. /\ Len(accepted) = written /\ Len(piece) <= len - written
      /\ Len(page) = 0 /\ Len(page) <= written
      /\ page = SubSeq(accepted, written - Len(page) + 1, written)
  BY <1>2, <1>3
<1>9. Len(page) <= (IF pc = "flush" THEN PageSize ELSE PageSize - 1)
  <2>1. 0 <= PageSize - 1
    BY GeometryAssumption
  <2> QED
    BY <1>1, <1>8, <2>1
<1>10. ThreadState /\ WriterState
  BY <1>1, <1>8, <1>9 DEF ThreadState, WriterState
<1> QED
  BY <1>7, <1>10 DEF Typed

(* Every step leaves bytes on the line. *)
LEMMA UartStep ==
  ASSUME TypeOK, [Next]_vars
  PROVE  rx' \in Seq(Byte) /\ tx' \in Seq(Byte)
<1>1. rx \in Seq(Byte) /\ tx \in Seq(Byte)
  BY DEF TypeOK
<1>2. CASE Environment
  BY <1>2 DEF Environment
<1>3. CASE ~Environment
  <2>1. rx' = rx \/ Receive
    BY <1>3 DEF Next, vars, StubCommand, RejectCommand, StartCommand, StubStep,
       StubWork, StubTimeout, SendPrompt, PromptUnanswered, NoSender,
       PacketMarker, StreamBreaksOff, UnknownMarker, ReadPacketByte,
       ReadTimeout, BadPacket, RepeatedPacket, OutOfSequence, NextPacket,
       AwaitMarker, Fail, Finish, Inflate, InflateTooLong, EraseSector,
       EraseFails, FillPage, SkipErasedPage, ProgramPage, ProgramFails,
       PageFlushed, InflateMore, WantPacket, StreamDone, StreamFails,
       EndOfTransfer, NoEndOfTransfer, DropByte
  <2>2. tx' = tx \/ Cancel \/ \E b \in Controls : Send(b)
    BY <1>3 DEF Next, vars, StubCommand, RejectCommand, StartCommand, StubStep,
       StubWork, StubTimeout, SendPrompt, PromptUnanswered, NoSender,
       PacketMarker, StreamBreaksOff, UnknownMarker, ReadPacketByte,
       ReadTimeout, BadPacket, RepeatedPacket, OutOfSequence, NextPacket,
       AwaitMarker, Fail, Finish, Inflate, InflateTooLong, EraseSector,
       EraseFails, FillPage, SkipErasedPage, ProgramPage, ProgramFails,
       PageFlushed, InflateMore, WantPacket, StreamDone, StreamFails,
       EndOfTransfer, NoEndOfTransfer, DropByte, Controls
  <2> QED
    BY <1>1, <2>1, <2>2, UartTyped, ControlAssumption
<1> QED
  BY <1>2, <1>3

(* A step of the reception or of the inflate loop: the decoder, the page   *)
(* writer and the flash stay as they are, and the thread goes on where the *)
(* state they are in is expected.                                          *)
StaysPut ==
  /\ UNCHANGED <<flash, size, command, result, decoder, writer>>
  /\ pc' \in Points /\ status' \in Statuses
  /\ tries' \in 0 .. MaxPrompts /\ pkt' \in Seq(Byte)
  /\ expected' \in 0 .. NumberMod - 1 /\ pending' \in BOOLEAN
  /\ pc' = "idle" <=> pc = "idle"
  /\ pc' = "flush" <=> pc = "flush"
  /\ pc' = "finish" <=> pc = "finish"
  /\ pc' = "last" => written = len
  /\ pc' = "inflate" => unread # <<>>
  /\ pc' \in {"inflate", "put", "flush", "last"} => pending'
  /\ pc' \in {"wake", "first", "marker", "packet"} => ~pending'

(* Such a step keeps the types and the thread's invariant. *)
LEMMA StaysPutTyped ==
  ASSUME Typed, StaysPut, rx' \in Seq(Byte), tx' \in Seq(Byte)
  PROVE  Typed'
<1>1. /\ flash' = flash /\ size' = size /\ off' = off /\ len' = len
      /\ before' = before /\ result' = result /\ unread' = unread
      /\ room' = room /\ owed' = owed /\ over' = over /\ verdict' = verdict
      /\ piece' = piece /\ page' = page /\ written' = written
      /\ accepted' = accepted
  BY DEF StaysPut, command, decoder, writer
<1>2. TypeOK'
  BY <1>1 DEF StaysPut, Typed, TypeOK
<1>3. ThreadState'
  BY <1>1 DEF StaysPut, Typed, ThreadState
<1>4. WriterState'
  BY <1>1 DEF StaysPut, Typed, WriterState
<1> QED
  BY <1>2, <1>3, <1>4 DEF Typed

(* So does the end of a command. *)
LEMMA FinishTyped ==
  ASSUME Typed, NEW how \in {"done", "failed"}, Finish(how),
         flash' \in Flash, rx' \in Seq(Byte), tx' \in Seq(Byte)
  PROVE  Typed'
<1>1. /\ size' = size /\ off' = off /\ len' = len /\ before' = before
      /\ status' = status /\ tries' = tries /\ expected' = expected
      /\ room' = room /\ over' = over /\ verdict' = verdict
      /\ written' = written /\ accepted' = accepted
  BY DEF Finish, command
<1>2. /\ pc' = "idle" /\ result' = how /\ pending' = FALSE /\ pkt' = <<>>
      /\ unread' = <<>> /\ owed' = <<>> /\ piece' = <<>> /\ page' = <<>>
  BY DEF Finish
<1>3. <<>> \in Seq(Byte)
  OBVIOUS
<1>4. /\ pkt' \in Seq(Byte) /\ unread' \in Seq(Byte) /\ owed' \in Seq(Byte)
      /\ piece' \in Seq(Byte) /\ page' \in Seq(Byte)
  BY <1>2, <1>3, Zenon
<1>5. pc' \in Points /\ result' \in Results /\ pending' \in BOOLEAN
  <2>1. pc' = "idle" /\ result' = how /\ pending' = FALSE
    BY <1>2
  <2> QED
    BY <2>1 DEF Points, Results
<1>6. TypeOK'
  BY <1>1, <1>4, <1>5 DEF Typed, TypeOK
<1>7. /\ Len(accepted') = written' /\ Len(piece') <= len' - written'
      /\ Len(page') = 0 /\ Len(page') <= written' /\ 0 <= PageSize - 1
      /\ page' = SubSeq(accepted', written' - Len(page') + 1, written')
  <2>1. /\ written \in 0 .. len /\ len \in Nat /\ Len(accepted) = written
        /\ accepted \in Seq(Byte)
    BY DEF Typed, TypeOK, ThreadState
  <2>2. 0 <= PageSize - 1
    BY GeometryAssumption
  <2> QED
    BY <1>1, <1>2, <2>1, <2>2
<1>8. ThreadState' /\ WriterState'
  BY <1>2, <1>7 DEF ThreadState, WriterState
<1> QED
  BY <1>6, <1>8 DEF Typed

(* The steps that stay put. *)
Reception ==
  \/ SendPrompt \/ PromptUnanswered \/ PacketMarker \/ UnknownMarker
  \/ ReadPacketByte \/ BadPacket \/ RepeatedPacket \/ DropByte
  \/ InflateMore \/ WantPacket \/ StreamDone \/ Environment
  \/ \E o \in 0 .. Word - 1, n \in 0 .. Word - 1 : RejectCommand(o, n)

(* They do what their name says. *)
LEMMA ReceptionStaysPut ==
  ASSUME Typed, Reception
  PROVE  StaysPut
<1> USE DEF command, decoder, writer, reception
<1>1. /\ pc \in Points /\ status \in Statuses /\ tries \in 0 .. MaxPrompts
      /\ pkt \in Seq(Byte) /\ expected \in 0 .. NumberMod - 1
      /\ pending \in BOOLEAN /\ rx \in Seq(Byte) /\ <<>> \in Seq(Byte)
  BY DEF Typed, TypeOK
<1>2. /\ pc = "inflate" => unread # <<>>
      /\ pc \in {"inflate", "put", "flush", "last"} => pending
      /\ pc \in {"wake", "first", "marker", "packet"} => ~pending
      /\ pc = "last" => written = len
  BY DEF Typed, ThreadState, WriterState
<1>3. CASE SendPrompt
  <2>1. tries' \in 0 .. MaxPrompts
    BY <1>1, <1>3, PromptAssumption DEF SendPrompt
  <2> QED
    BY <1>1, <1>2, <1>3, <2>1 DEF SendPrompt, StaysPut, Points
<1>4. CASE PromptUnanswered
  BY <1>1, <1>2, <1>4 DEF PromptUnanswered, StaysPut, Points
<1>5. CASE PacketMarker
  <2>1. pkt' \in Seq(Byte)
    BY <1>1, <1>5 DEF PacketMarker, Receive
  <2> QED
    BY <1>1, <1>2, <1>5, <2>1 DEF PacketMarker, AtMarker, StaysPut, Points
<1>6. CASE UnknownMarker
  BY <1>1, <1>2, <1>6 DEF UnknownMarker, AtMarker, StaysPut, Points
<1>7. CASE ReadPacketByte
  <2>1. pkt' \in Seq(Byte)
    BY <1>1, <1>7 DEF ReadPacketByte, Receive
  <2> QED
    BY <1>1, <1>2, <1>7, <2>1 DEF ReadPacketByte, StaysPut, Points
<1>8. CASE BadPacket \/ RepeatedPacket
  <2>1. pc = "packet" /\ \E answer : AwaitMarker(answer)
    BY <1>8 DEF BadPacket, RepeatedPacket, PacketComplete
  <2> QED
    BY <1>1, <1>2, <2>1 DEF AwaitMarker, StaysPut, Points
<1>9. CASE DropByte
  BY <1>1, <1>2, <1>9 DEF DropByte, StaysPut, Points
<1>10. CASE InflateMore
  BY <1>1, <1>2, <1>10 DEF InflateMore, PieceDone, StaysPut, Points
<1>11. CASE WantPacket
  BY <1>1, <1>2, <1>11 DEF WantPacket, PieceDone, StaysPut, Points
<1>12. CASE StreamDone
  BY <1>1, <1>2, <1>12 DEF StreamDone, PieceDone, StaysPut, Points
<1>13. CASE Environment
  BY <1>1, <1>2, <1>13 DEF Environment, StaysPut, Points
<1>14. CASE \E o \in 0 .. Word - 1, n \in 0 .. Word - 1 : RejectCommand(o, n)
  BY <1>1, <1>2, <1>14 DEF RejectCommand, StaysPut, Points, Statuses
<1> QED
  BY <1>3, <1>4, <1>5, <1>6, <1>7, <1>8, <1>9, <1>10, <1>11, <1>12, <1>13,
     <1>14 DEF Reception

(* The steps that end a command, and the flash they leave. *)
Ending ==
  \/ NoSender \/ StreamBreaksOff \/ ReadTimeout \/ OutOfSequence
  \/ InflateTooLong \/ EraseFails \/ ProgramFails \/ StreamFails
  \/ EndOfTransfer \/ NoEndOfTransfer

(* The page buffer holds a page, *)
LEMMA PageTyped ==
  ASSUME Typed
  PROVE  /\ PageData \in [0 .. PageSize - 1 -> Byte]
         /\ Len(page) \in 0 .. PageSize
<1>1. page \in Seq(Byte) /\ FF \in Byte /\ PageSize \in Nat
  BY ByteAssumption, GeometryAssumption DEF Typed, TypeOK
<1>2. Len(page) \in 0 .. PageSize
  BY <1>1 DEF Typed, ThreadState
<1>3. \A i \in 0 .. PageSize - 1 : i < Len(page) => page[i + 1] \in Byte
  BY <1>1
<1> QED
  BY <1>1, <1>2, <1>3 DEF PageData

(* and one that is not erased is programmed inside the range. *)
LEMMA PageInRange ==
  ASSUME Typed, ~BufferIsErased(PageData, Len(page))
  PROVE  /\ PageStart = Flushed /\ PageStart \in Addr /\ off <= PageStart
         /\ Len(page) \in 1 .. PageSize
<1>1. /\ off \in Nat /\ len \in Nat /\ off + len <= FlashSize
      /\ written \in 0 .. len /\ Len(page) \in Nat /\ Len(page) <= PageSize
      /\ PageSize \in Nat /\ FlashSize \in Nat
  BY PageTyped, GeometryAssumption DEF Typed, TypeOK, Addr
<1>2. Len(page) # 0
  BY DEF BufferIsErased
<1>3. Len(page) <= written
  BY DEF Typed, WriterState
<1> QED
  BY <1>1, <1>2, <1>3 DEF PageStart, CurrentOff, Flushed, Addr

(* What a step leaves in the flash is bytes. *)
LEMMA FlashTyped ==
  ASSUME Typed, [Next]_vars
  PROVE  flash' \in Flash
<1>1. flash \in Flash
  BY DEF Typed, TypeOK
<1>2. CASE EraseSector \/ EraseFails
  BY <1>1, <1>2, EraseTyped DEF EraseSector, EraseFails
<1>3. CASE ProgramPage \/ ProgramFails
  <2>1. PageStart \in Addr /\ PageData \in [0 .. PageSize - 1 -> Byte]
    BY <1>3, PageInRange, PageTyped DEF ProgramPage, ProgramFails
  <2> QED
    BY <1>1, <1>3, <2>1, ProgramTyped DEF ProgramPage, ProgramFails
<1>4. CASE ~(EraseSector \/ EraseFails \/ ProgramPage \/ ProgramFails)
  <2>1. flash' = flash
    BY <1>4 DEF Next, vars, StubCommand, RejectCommand, StartCommand, StubStep,
       StubWork, StubTimeout, SendPrompt, PromptUnanswered, NoSender,
       PacketMarker, StreamBreaksOff, UnknownMarker, ReadPacketByte,
       ReadTimeout, BadPacket, RepeatedPacket, OutOfSequence, NextPacket,
       AwaitMarker, Inflate, InflateTooLong, FillPage, SkipErasedPage,
       InflateMore, WantPacket, StreamDone, StreamFails,
       EndOfTransfer, NoEndOfTransfer, DropByte, Environment
  <2> QED
    BY <1>1, <2>1
<1> QED
  BY <1>2, <1>3, <1>4

(* The end of a command keeps the types and the thread's invariant. *)
LEMMA EndingTyped ==
  ASSUME Typed, Ending, flash' \in Flash, rx' \in Seq(Byte), tx' \in Seq(Byte)
  PROVE  Typed'
<1>1. \E how \in {"done", "failed"} : Finish(how)
  BY DEF Ending, NoSender, StreamBreaksOff, ReadTimeout, OutOfSequence,
     InflateTooLong, EraseFails, ProgramFails, StreamFails, EndOfTransfer,
     NoEndOfTransfer, Fail
<1> QED
  BY <1>1, FinishTyped

(* So does an accepted packet, whose payload is not empty, ... *)
LEMMA NextPacketTyped ==
  ASSUME Typed, NextPacket, rx' \in Seq(Byte), tx' \in Seq(Byte)
  PROVE  Typed'
<1>1. /\ flash' = flash /\ size' = size /\ off' = off /\ len' = len
      /\ before' = before /\ status' = status /\ result' = result
      /\ tries' = tries /\ room' = room /\ owed' = owed /\ over' = over
      /\ verdict' = verdict /\ piece' = piece /\ page' = page
      /\ written' = written /\ accepted' = accepted
  BY DEF NextPacket, command, writer
<1>2. pc = "packet" /\ pc' = "inflate" /\ pending' = TRUE /\ pkt' = <<>>
  BY DEF NextPacket, PacketComplete
<1>3. /\ pkt \in Seq(Byte) /\ expected \in 0 .. NumberMod - 1
      /\ <<>> \in Seq(Byte)
  BY DEF Typed, TypeOK
<1>4. Len(pkt) >= 5
  <2>1. Len(pkt) = PacketLen(pkt[1])
    BY DEF NextPacket, PacketComplete
  <2> QED
    BY <2>1, PacketAssumption DEF PacketLen, BlockLen
<1>5. unread' \in Seq(Byte) /\ unread' # <<>>
  <2>1. unread' = SubSeq(pkt, 4, Len(pkt) - 1)
    BY DEF NextPacket, Payload
  <2>2. Len(SubSeq(pkt, 4, Len(pkt) - 1)) = Len(pkt) - 4
        /\ SubSeq(pkt, 4, Len(pkt) - 1) \in Seq(Byte)
    BY <1>3, <1>4
  <2>3. unread' \in Seq(Byte) /\ Len(unread') >= 1
    BY <1>3, <1>4, <2>1, <2>2
  <2>4. Len(<<>>) = 0
    OBVIOUS
  <2> QED
    BY <2>3, <2>4
<1>6. expected' \in 0 .. NumberMod - 1
  BY <1>3, PacketAssumption DEF NextPacket, Following
<1>7. pkt' \in Seq(Byte) /\ pending' \in BOOLEAN /\ pc' \in Points
  BY <1>2, <1>3 DEF Points
<1>8. TypeOK'
  BY <1>1, <1>5, <1>6, <1>7 DEF Typed, TypeOK
<1>9. ThreadState' /\ WriterState'
  BY <1>1, <1>2, <1>5 DEF Typed, ThreadState, WriterState
<1> QED
  BY <1>8, <1>9 DEF Typed

(* ... and a call of the decoder. *)
LEMMA InflateTyped ==
  ASSUME Typed, Inflate, rx' \in Seq(Byte), tx' \in Seq(Byte)
  PROVE  Typed'
<1>1. /\ flash' = flash /\ size' = size /\ off' = off /\ len' = len
      /\ before' = before /\ status' = status /\ result' = result
      /\ tries' = tries /\ pkt' = pkt /\ expected' = expected
      /\ pending' = pending /\ page' = page
      /\ written' = written /\ accepted' = accepted
  BY DEF Inflate, command, reception
<1>2. pc = "inflate" /\ pc' = "put"
  BY DEF Inflate
<1>3. /\ unread' \in Seq(Byte) /\ owed' \in Seq(Byte) /\ piece' \in Seq(Byte)
      /\ over' \in BOOLEAN /\ verdict' \in Verdicts /\ room' \in 1 .. DictSize
      /\ Len(piece') <= len - written
  BY CallTyped DEF Inflate, Typed
<1>4. pc' \in Points
  BY <1>2 DEF Points
<1>5. TypeOK'
  BY <1>1, <1>3, <1>4 DEF Typed, TypeOK
<1>6. ThreadState' /\ WriterState'
  BY <1>1, <1>2, <1>3 DEF Typed, ThreadState, WriterState
<1> QED
  BY <1>5, <1>6 DEF Typed

(* So does an erase, and a page that is done with. *)
LEMMA FlushTyped ==
  ASSUME Typed, EraseSector \/ SkipErasedPage \/ ProgramPage,
         flash' \in Flash, rx' \in Seq(Byte), tx' \in Seq(Byte)
  PROVE  Typed'
<1>1. CASE EraseSector
  <2>1. /\ size' = size /\ pc' = pc /\ off' = off /\ len' = len
        /\ before' = before /\ status' = status /\ result' = result
        /\ tries' = tries /\ pkt' = pkt /\ expected' = expected
        /\ pending' = pending /\ unread' = unread /\ room' = room
        /\ owed' = owed /\ over' = over /\ verdict' = verdict
        /\ piece' = piece /\ page' = page /\ written' = written
        /\ accepted' = accepted
    BY <1>1 DEF EraseSector, command, reception, decoder, writer
  <2>2. TypeOK'
    BY <2>1 DEF Typed, TypeOK
  <2>3. ThreadState' /\ WriterState'
    BY <2>1 DEF Typed, ThreadState, WriterState
  <2> QED
    BY <2>2, <2>3 DEF Typed
<1>2. CASE SkipErasedPage \/ ProgramPage
  <2>1. /\ size' = size /\ off' = off /\ len' = len
        /\ before' = before /\ status' = status /\ result' = result
        /\ tries' = tries /\ pkt' = pkt /\ expected' = expected
        /\ unread' = unread /\ room' = room /\ owed' = owed /\ over' = over
        /\ verdict' = verdict /\ piece' = piece /\ written' = written
        /\ accepted' = accepted
    BY <1>2 DEF SkipErasedPage, ProgramPage, PageFlushed, command, decoder
  <2>2. /\ pc \in {"flush", "last"} /\ page' = <<>>
        /\ pc' = IF pc = "last" THEN "finish" ELSE "put"
        /\ pending' = pending \/ (pc = "last" /\ pending' = FALSE)
    BY <1>2 DEF SkipErasedPage, ProgramPage, PageFlushed, Flushing
  <2>3. pc' \in Points
    BY <2>2 DEF Points
  <2>4. pending \in BOOLEAN /\ written \in 0 .. len
        /\ accepted \in Seq(Byte) /\ Len(accepted) = written /\ len \in Nat
        /\ Len(piece) <= len - written
    BY DEF Typed, TypeOK, ThreadState
  <2>5. /\ pc = "last" => written = len
        /\ pending /\ (result = "done" => pc = "idle")
    BY <2>2 DEF Typed, ThreadState, WriterState
  <2>6. pending' \in BOOLEAN /\ (pc' = "put" => pending')
    BY <2>2, <2>4, <2>5
  <2>7. page' \in Seq(Byte) /\ Len(page') = 0 /\ Len(page') <= written'
        /\ page' = SubSeq(accepted', written' - Len(page') + 1, written')
    BY <2>1, <2>2, <2>4
  <2>8. TypeOK'
    BY <2>1, <2>3, <2>6, <2>7 DEF Typed, TypeOK
  <2>9. 0 <= PageSize - 1
    BY GeometryAssumption
  <2>10. ThreadState'
    BY <2>1, <2>2, <2>4, <2>5, <2>6, <2>7, <2>9 DEF ThreadState
  <2>11. WriterState'
    BY <2>1, <2>2, <2>5, <2>7 DEF WriterState
  <2> QED
    BY <2>8, <2>10, <2>11 DEF Typed
<1> QED
  BY <1>1, <1>2

(* Filling the page moves units from the piece to the end of the page and  *)
(* of what was accepted.                                                   *)
LEMMA FillPageFacts ==
  ASSUME Typed, FillPage
  PROVE  \E n \in 1 .. PageSize :
           /\ n = Smaller(PageSize - Len(page), Len(piece))
           /\ page' \in Seq(Byte) /\ Len(page') = Len(page) + n
           /\ piece' \in Seq(Byte) /\ Len(piece') = Len(piece) - n
           /\ written' = written + n /\ written' <= len
           /\ accepted' \in Seq(Byte) /\ Len(accepted') = written'
           /\ \A i \in 1 .. written : accepted'[i] = accepted[i]
           /\ page' = SubSeq(accepted', written' - Len(page') + 1, written')
<1>1. /\ page \in Seq(Byte) /\ piece \in Seq(Byte) /\ accepted \in Seq(Byte)
      /\ written \in 0 .. len /\ len \in Nat /\ Len(accepted) = written
      /\ Len(piece) <= len - written
      /\ PageSize \in Nat
  BY GeometryAssumption DEF Typed, TypeOK, ThreadState
<1>2. /\ Len(page) <= PageSize - 1 /\ Len(page) <= written
      /\ page = SubSeq(accepted, written - Len(page) + 1, written)
  BY DEF Typed, ThreadState, WriterState, FillPage
<1>3. piece # <<>>
  BY DEF FillPage
<1> DEFINE n == Smaller(PageSize - Len(page), Len(piece))
           chunk == SubSeq(piece, 1, n)
<1>4. n \in 1 .. PageSize /\ n <= Len(piece) /\ n <= PageSize - Len(page)
  BY <1>1, <1>2, <1>3 DEF Smaller
<1>5. /\ page' = page \o chunk /\ piece' = SubSeq(piece, n + 1, Len(piece))
      /\ written' = written + n /\ accepted' = accepted \o chunk
  BY DEF FillPage
<1> HIDE DEF n
<1>6. chunk \in Seq(Byte) /\ Len(chunk) = n
  BY <1>1, <1>4
<1>7. piece' \in Seq(Byte) /\ Len(piece') = Len(piece) - n
  BY <1>1, <1>4, <1>5
<1> HIDE DEF chunk
<1>8. /\ page' \in Seq(Byte) /\ Len(page') = Len(page) + n
      /\ accepted' \in Seq(Byte) /\ Len(accepted') = written'
      /\ \A i \in 1 .. written : accepted'[i] = accepted[i]
  <2>1. page \o chunk \in Seq(Byte) /\ Len(page \o chunk) = Len(page) + n
    BY <1>1, <1>6, Concatenation
  <2>2. /\ accepted \o chunk \in Seq(Byte)
        /\ Len(accepted \o chunk) = written + n
        /\ \A i \in 1 .. written : (accepted \o chunk)[i] = accepted[i]
    BY <1>1, <1>6, Concatenation
  <2> QED
    BY <1>5, <2>1, <2>2, Zenon
<1>9. page' = SubSeq(accepted', written' - Len(page') + 1, written')
  <2>1. IsTail(page, accepted)
    BY <1>1, <1>2 DEF IsTail
  <2>2. page \in Seq(Byte) /\ accepted \in Seq(Byte) /\ chunk \in Seq(Byte)
    BY <1>1, <1>6
  <2>3. IsTail(page \o chunk, accepted \o chunk)
    BY <2>1, <2>2, TailGrows
  <2>4. /\ Len(page') = Len(page \o chunk) /\ written' = Len(accepted \o chunk)
        /\ page' = page \o chunk /\ accepted' = accepted \o chunk
    BY <1>5, <1>8, Zenon
  <2> QED
    BY <2>3, <2>4, Zenon DEF IsTail
<1>10. written' <= len
  BY <1>1, <1>4, <1>5
<1> QED
  BY <1>4, <1>5, <1>7, <1>8, <1>9, <1>10 DEF n

(* It keeps the types and the thread's invariant, ... *)
LEMMA FillPageTyped ==
  ASSUME Typed, FillPage, rx' \in Seq(Byte), tx' \in Seq(Byte)
  PROVE  Typed'
<1>1. /\ flash' = flash /\ size' = size /\ off' = off /\ len' = len
      /\ before' = before /\ status' = status /\ result' = result
      /\ tries' = tries /\ pkt' = pkt /\ expected' = expected
      /\ pending' = pending /\ unread' = unread /\ room' = room
      /\ owed' = owed /\ over' = over /\ verdict' = verdict
  BY DEF FillPage, command, reception, decoder
<1>2. pc = "put" /\ pc' = (IF Len(page') = PageSize THEN "flush" ELSE "put")
  BY DEF FillPage
<1>3. pc' \in Points
  BY <1>2 DEF Points
<1>4. PICK n \in 1 .. PageSize :
           /\ n = Smaller(PageSize - Len(page), Len(piece))
           /\ page' \in Seq(Byte) /\ Len(page') = Len(page) + n
           /\ piece' \in Seq(Byte) /\ Len(piece') = Len(piece) - n
           /\ written' = written + n /\ written' <= len
           /\ accepted' \in Seq(Byte) /\ Len(accepted') = written'
           /\ page' = SubSeq(accepted', written' - Len(page') + 1, written')
  BY FillPageFacts
<1>5. /\ written \in 0 .. len /\ len \in Nat /\ Len(page) \in Nat
      /\ Len(piece) \in Nat /\ Len(piece) <= len - written
      /\ Len(page) <= written /\ Len(page) <= PageSize - 1 /\ PageSize \in Nat
  <2>1. /\ written \in 0 .. len /\ len \in Nat /\ Len(page) \in Nat
        /\ Len(piece) \in Nat
    BY DEF Typed, TypeOK
  <2>2. Len(page) <= written /\ Len(piece) <= len - written
    BY DEF Typed, ThreadState, WriterState
  <2>3. Len(page) <= PageSize - 1 /\ PageSize \in Nat
    BY <1>2, <2>1, GeometryAssumption DEF Typed, ThreadState, WriterState
  <2> QED
    BY <2>1, <2>2, <2>3
<1>6. /\ written' \in 0 .. len /\ Len(piece') <= len - written'
      /\ Len(page') <= written' /\ Len(page') <= PageSize
  BY <1>4, <1>5 DEF Smaller
<1>7. TypeOK'
  BY <1>1, <1>3, <1>4, <1>6 DEF Typed, TypeOK
<1>8. Len(page') <= IF pc' = "flush" THEN PageSize ELSE PageSize - 1
  <2>1. Len(page') \in Nat /\ PageSize \in Nat /\ Len(page') <= PageSize
    BY <1>4, <1>5, <1>6
  <2>2. pc' = "flush" <=> Len(page') = PageSize
    BY <1>2
  <2> QED
    BY <2>1, <2>2
<1>9. ThreadState' /\ WriterState'
  BY <1>1, <1>2, <1>4, <1>6, <1>8 DEF Typed, ThreadState, WriterState
<1> QED
  BY <1>7, <1>9 DEF Typed

(* ... and so does a new command. *)
LEMMA StartTyped ==
  ASSUME Typed, NEW o \in 0 .. Word - 1, NEW n \in 0 .. Word - 1,
         StartCommand(o, n), rx' \in Seq(Byte), tx' \in Seq(Byte)
  PROVE  Typed'
<1>1. /\ flash' = flash /\ size' = size /\ before' = flash
      /\ pc' = "wake" /\ status' = "SUCCESS" /\ result' = "none"
      /\ verdict' = "needs input" /\ pending' = FALSE /\ over' = FALSE
  BY DEF StartCommand
<1>2. /\ off' = o /\ len' = n /\ tries' = 0 /\ expected' = 1
      /\ room' = DictSize /\ written' = 0
  BY DEF StartCommand
<1>3. /\ pkt' = <<>> /\ unread' = <<>> /\ owed' = <<>>
      /\ piece' = <<>> /\ page' = <<>> /\ accepted' = <<>>
  BY DEF StartCommand
<1>4. /\ off' \in Addr /\ len' \in Nat /\ off' >= WriteMin
      /\ off' + len' <= FlashSize
  <2>1. /\ n # 0 /\ size # 0 /\ o <= size /\ n <= size - o /\ o >= WriteMin
    BY DEF StartCommand, Admitted, InFlash, RangeDoesNotWrap
  <2>2. size \in {0, FlashSize}
    BY DEF Typed, TypeOK
  <2>3. o \in Nat /\ n \in Nat /\ FlashSize \in Nat
    BY WordAssumption, GeometryAssumption
  <2> QED
    BY <1>2, <2>1, <2>2, <2>3 DEF Addr
<1>5. /\ tries' \in 0 .. MaxPrompts /\ expected' \in 0 .. NumberMod - 1
      /\ room' \in 1 .. DictSize /\ written' \in 0 .. len'
  BY <1>2, <1>4, PacketAssumption, PromptAssumption, StreamAssumption
<1>6. /\ pc' \in Points /\ status' \in Statuses /\ result' \in Results
      /\ verdict' \in Verdicts /\ pending' \in BOOLEAN /\ over' \in BOOLEAN
  BY <1>1 DEF Points, Statuses, Results, Verdicts
<1>7. /\ pkt' \in Seq(Byte) /\ unread' \in Seq(Byte) /\ owed' \in Seq(Byte)
      /\ piece' \in Seq(Byte) /\ page' \in Seq(Byte) /\ accepted' \in Seq(Byte)
  BY <1>3
<1>8. flash \in Flash /\ size \in {0, FlashSize}
  BY DEF Typed, TypeOK
<1>9. TypeOK'
  BY <1>1, <1>4, <1>5, <1>6, <1>7, <1>8 DEF TypeOK
<1>10. /\ Len(accepted') = written' /\ Len(piece') <= len' - written'
      /\ Len(page') = 0 /\ Len(page') <= written'
      /\ page' = SubSeq(accepted', written' - Len(page') + 1, written')
  BY <1>2, <1>3, <1>4
<1>11. 0 <= PageSize - 1
  BY GeometryAssumption
<1>12. ThreadState' /\ WriterState'
  BY <1>1, <1>10, <1>11 DEF ThreadState, WriterState
<1> QED
  BY <1>9, <1>12 DEF Typed

(* Every step keeps the types and the thread's invariant. *)
LEMMA TypedStep == Typed /\ [Next]_vars => Typed'
<1> SUFFICES ASSUME Typed, [Next]_vars PROVE Typed'
  OBVIOUS
<1>1. rx' \in Seq(Byte) /\ tx' \in Seq(Byte) /\ flash' \in Flash
  BY UartStep, FlashTyped DEF Typed
<1>2. CASE Reception
  BY <1>1, <1>2, ReceptionStaysPut, StaysPutTyped
<1>3. CASE Ending
  BY <1>1, <1>3, EndingTyped
<1>4. CASE NextPacket
  BY <1>1, <1>4, NextPacketTyped
<1>5. CASE Inflate
  BY <1>1, <1>5, InflateTyped
<1>6. CASE EraseSector \/ SkipErasedPage \/ ProgramPage
  BY <1>1, <1>6, FlushTyped
<1>7. CASE FillPage
  BY <1>1, <1>7, FillPageTyped
<1>8. CASE \E o \in 0 .. Word - 1, n \in 0 .. Word - 1 : StartCommand(o, n)
  BY <1>1, <1>8, StartTyped
<1>9. CASE UNCHANGED vars
  <2>1. TypeOK'
    BY <1>9 DEF vars, command, reception, decoder, writer, Typed, TypeOK
  <2>2. ThreadState' /\ WriterState'
    BY <1>9 DEF vars, command, reception, decoder, writer, Typed, ThreadState,
       WriterState
  <2> QED
    BY <2>1, <2>2 DEF Typed
<1> QED
  BY <1>2, <1>3, <1>4, <1>5, <1>6, <1>7, <1>8, <1>9 DEF Next, StubCommand,
     StubStep, StubWork, StubTimeout, Reception, Ending

(* In every reachable state of the compressed write the types are right, *)
THEOREM TypeCorrect == Spec => []TypeOK
<1>1. Typed => TypeOK
  BY DEF Typed
<1> QED
  BY TypedInit, TypedStep, <1>1, PTL DEF Spec

(* and what the three functions of the write expect of each other holds:   *)
(* w800_miniz_inflate_raw never hands inflate_flash_put_buffer more than   *)
(* is left of the announced length, the page buffer never overflows, and   *)
(* the decoder is never called without input.                              *)
THEOREM ThreadCorrect == Spec => []ThreadState
<1>1. Typed => ThreadState
  BY DEF Typed
<1> QED
  BY TypedInit, TypedStep, <1>1, PTL DEF Spec

-----------------------------------------------------------------------------
(* Safety. *)

(* Of a write to a sector boundary, the page buffer always stands for a    *)
(* page of the chip.                                                       *)
PageAligned ==
  pc \notin {"idle", "finish"} /\ Aligned => Flushed % PageSize = 0

Safety ==
  PageAligned /\ FlushedPrefix /\ DoneMeansComplete /\ UnreachedUntouched

Safe == Typed /\ Safety

(* The numbers of a write. *)
LEMMA Numbers ==
  ASSUME Typed
  PROVE  /\ off \in Nat /\ len \in Nat /\ written \in Nat /\ written <= len
         /\ off + len <= FlashSize /\ WriteMin <= off
         /\ Len(page) \in Nat /\ Len(page) <= written /\ Len(page) <= PageSize
         /\ Len(piece) \in Nat /\ Len(piece) <= len - written
         /\ Flushed \in Nat /\ off <= Flushed
         /\ Flushed + Len(page) = off + written
<1>1. /\ off \in Nat /\ len \in Nat /\ written \in Nat /\ written <= len
      /\ off + len <= FlashSize /\ WriteMin <= off /\ Len(piece) \in Nat
      /\ Len(page) \in Nat /\ Len(piece) <= len - written
      /\ Len(page) <= written
  BY DEF Typed, TypeOK, ThreadState, WriterState, Addr
<1>2. Len(page) <= PageSize
  BY PageTyped, GeometryAssumption
<1> QED
  BY <1>1, <1>2 DEF Flushed

(* The sizes of the chip. *)
LEMMA Sizes ==
  /\ PageSize \in Nat \ {0} /\ SectorSize \in Nat \ {0} /\ WriteMin \in Nat
  /\ FlashSize \in Nat \ {0}
BY GeometryAssumption

(* The base of an address's sector is a multiple of the page size. *)
LEMMA SectorBase ==
  ASSUME NEW a \in Addr
  PROVE  /\ Base(a, SectorSize) \in Nat /\ Base(a, SectorSize) <= a
         /\ a < Base(a, SectorSize) + SectorSize
         /\ Base(a, SectorSize) % SectorSize = 0
         /\ Base(a, SectorSize) % PageSize = 0
<1>1. a \in Nat
  BY Sizes DEF Addr
<1>2. /\ Base(a, SectorSize) \in Nat /\ Base(a, SectorSize) <= a
      /\ a < Base(a, SectorSize) + SectorSize
  BY <1>1, Sizes, BaseBounds
<1>3. Base(a, SectorSize) % SectorSize = 0
  BY <1>1, Sizes, BaseMultiple
<1>4. SectorSize % PageSize = 0
  BY GeometryAssumption
<1> QED
  BY <1>2, <1>3, <1>4, Sizes, AlignedCoarser

(* What an erase at the cursor reaches. *)
LEMMA EraseReach ==
  ASSUME Typed, EraseSector \/ EraseFails, NEW a \in Addr
  PROVE  /\ CurrentOff = off + written /\ written < len /\ page = <<>>
         /\ CurrentOff % SectorSize = 0
         /\ flash'[a] = flash[a] \/ Base(a, SectorSize) = CurrentOff
<1>1. /\ piece # <<>> /\ page = <<>> /\ CurrentOff % SectorSize = 0
      /\ \E stuck \in SUBSET Flaky :
           flash' = ChipErase(flash, CurrentOff, SectorSize, stuck)
  BY DEF EraseSector, EraseFails, NeedsErase
<1>2. Len(piece) >= 1
  BY <1>1 DEF Typed, TypeOK
<1>3. /\ CurrentOff = off + written /\ written < len
      /\ CurrentOff \in Addr /\ CurrentOff \in Nat
  BY <1>2, Numbers, Sizes DEF CurrentOff, Addr
<1>4. /\ OnChip(CurrentOff) = CurrentOff
      /\ Base(CurrentOff, SectorSize) = CurrentOff
  BY <1>1, <1>3, Reached, Sizes DEF Base
<1>5. \/ flash'[a] = flash[a]
      \/ CurrentOff <= a /\ a < CurrentOff + SectorSize
  BY <1>1, <1>4 DEF ChipErase
<1>6. CurrentOff <= a /\ a < CurrentOff + SectorSize
      => Base(a, SectorSize) = CurrentOff
  <2> SUFFICES ASSUME CurrentOff <= a, a < CurrentOff + SectorSize
               PROVE  Base(a, SectorSize) = CurrentOff
    OBVIOUS
  <2>1. a \in Nat
    BY Sizes DEF Addr
  <2>2. CurrentOff <= Base(a, SectorSize)
    BY <1>1, <1>3, <2>1, Sizes, BaseAbove
  <2>3. Base(a, SectorSize) <= CurrentOff
    BY <1>1, <1>3, <2>1, Sizes, SectorBase, MultipleBelow
  <2> QED
    BY <1>3, <2>2, <2>3, SectorBase
<1> QED
  BY <1>1, <1>3, <1>5, <1>6

(* What a program of the page buffer reaches. *)
LEMMA ProgramReach ==
  ASSUME Safe, ProgramPage \/ ProgramFails, NEW a \in Addr
  PROVE  /\ a < WriteMin => flash'[a] = flash[a]
         /\ Aligned =>
              \/ flash'[a] = flash[a]
              \/ /\ Flushed <= a /\ a < Flushed + PageSize
                 /\ flash'[a] = And(flash[a], PageData[a - Flushed])
                 /\ Base(a, SectorSize) <= Flushed /\ Len(page) >= 1
<1>1. /\ pc \in {"flush", "last"} /\ ~BufferIsErased(PageData, Len(page))
      /\ \E stuck \in SUBSET Flaky :
           flash' = ChipProgram(flash, PageStart, PageData, stuck)
  BY DEF ProgramPage, ProgramFails, Flushing
<1>2. /\ PageStart = Flushed /\ Flushed \in Addr /\ off <= Flushed
      /\ Len(page) >= 1 /\ OnChip(Flushed) = Flushed
  BY <1>1, PageInRange, Reached DEF Safe
<1>3. Flushed \in Nat /\ a \in Nat /\ off \in Nat /\ WriteMin <= off
  BY Numbers, Sizes DEF Safe, Addr
<1> DEFINE b == Base(Flushed, PageSize)
<1>4. /\ b \in Nat /\ b <= Flushed
  BY <1>3, Sizes, BaseBounds
<1>5. PICK stuck \in SUBSET Flaky :
        flash'[a] = IF b <= a /\ a < b + PageSize /\ a \notin stuck
                    THEN And(flash[a], IF a >= Flushed
                                       THEN PageData[a - Flushed]
                                       ELSE PageData[a - Flushed + PageSize])
                    ELSE flash[a]
  BY <1>1, <1>2 DEF ChipProgram
<1>6. WriteMin <= b
  <2>1. WriteMin % PageSize = 0
    BY GeometryAssumption
  <2>2. WriteMin <= Flushed
    BY <1>2, <1>3, Sizes
  <2> QED
    BY <1>3, <2>1, <2>2, Sizes, BaseAbove
<1>7. ASSUME a < WriteMin PROVE flash'[a] = flash[a]
  <2>1. ~(b <= a)
    BY <1>3, <1>4, <1>6, <1>7, Sizes
  <2> QED
    BY <1>5, <2>1
<1>8. ASSUME Aligned, flash'[a] # flash[a]
      PROVE  /\ Flushed <= a /\ a < Flushed + PageSize
             /\ flash'[a] = And(flash[a], PageData[a - Flushed])
             /\ Base(a, SectorSize) <= Flushed /\ Len(page) >= 1
  <2>1. Flushed % PageSize = 0
    BY <1>1, <1>8 DEF Safe, Safety, PageAligned
  <2>2. b = Flushed
    BY <1>3, <2>1 DEF Base
  <2> HIDE DEF b
  <2>3. b <= a /\ a < b + PageSize
    BY <1>5, <1>8
  <2>4. flash'[a] = And(flash[a], PageData[a - Flushed])
    BY <1>3, <1>5, <1>8, <2>2, <2>3
  <2>5. Base(a, SectorSize) < Flushed + PageSize
    BY <1>3, <2>2, <2>3, SectorBase, Sizes
  <2>6. Base(a, SectorSize) <= Flushed
    BY <1>3, <2>1, <2>5, SectorBase, Sizes, MultipleBelow
  <2> QED
    BY <1>2, <2>2, <2>3, <2>4, <2>6
<1> QED
  BY <1>7, <1>8

(* A step that leaves the flash, the command and the page writer as they   *)
(* are keeps safety.                                                       *)
LEMMA KeptSafe ==
  ASSUME Safe, UNCHANGED <<flash, off, len, before, written, page, accepted>>,
         pc' = "idle" <=> pc = "idle", pc' = "finish" <=> pc = "finish",
         result' = result
  PROVE  Safety'
<1>1. /\ flash' = flash /\ off' = off /\ len' = len /\ before' = before
      /\ written' = written /\ page' = page /\ accepted' = accepted
  OBVIOUS
<1>2. Aligned' = Aligned /\ Flushed' = Flushed
      /\ WholeRangeWritten' = WholeRangeWritten
  BY <1>1 DEF Aligned, Flushed, WholeRangeWritten
<1>3. PageAligned'
  BY <1>2 DEF Safe, Safety, PageAligned
<1>4. FlushedPrefix'
  BY <1>1, <1>2 DEF Safe, Safety, FlushedPrefix
<1>5. DoneMeansComplete'
  BY <1>1, <1>2 DEF Safe, Safety, DoneMeansComplete
<1>6. UnreachedUntouched'
  BY <1>1, <1>2 DEF Safe, Safety, UnreachedUntouched
<1> QED
  BY <1>3, <1>4, <1>5, <1>6 DEF Safety

(* An erase or a program leaves alone what the write has not reached.      *)
LEMMA FlashStepUnreached ==
  ASSUME Safe, EraseSector \/ EraseFails \/ ProgramPage \/ ProgramFails,
         off' = off, len' = len, before' = before, written' = written
  PROVE  UnreachedUntouched'
<1> SUFFICES ASSUME NEW a \in Addr,
                    \/ a < WriteMin
                    \/ Aligned /\ (\/ a < off
                                   \/ Base(a, SectorSize) > off + written
                                   \/ Base(a, SectorSize) >= off + len)
             PROVE  flash'[a] = flash[a]
  BY DEF Safe, Safety, UnreachedUntouched, Aligned
<1>1. a \in Nat /\ Base(a, SectorSize) \in Nat /\ Base(a, SectorSize) <= a
  BY SectorBase, Sizes DEF Addr
<1>2. CASE EraseSector \/ EraseFails
  <2>1. /\ written < len
        /\ flash'[a] = flash[a] \/ Base(a, SectorSize) = off + written
    BY <1>2, EraseReach DEF Safe
  <2>2. /\ off \in Nat /\ written \in Nat /\ len \in Nat
        /\ off >= WriteMin /\ WriteMin \in Nat
    BY Numbers, Sizes DEF Safe
  <2>3. Base(a, SectorSize) # off + written
    BY <1>1, <2>1, <2>2
  <2> QED
    BY <2>1, <2>3
<1>3. CASE ProgramPage \/ ProgramFails
  <2>1. /\ a < WriteMin => flash'[a] = flash[a]
        /\ Aligned =>
             \/ flash'[a] = flash[a]
             \/ /\ Flushed <= a
                /\ Base(a, SectorSize) <= Flushed /\ Len(page) >= 1
    BY <1>3, ProgramReach
  <2> QED
    BY <1>1, <2>1, Numbers, Sizes DEF Safe
<1> QED
  BY <1>2, <1>3

(* The end of a command keeps safety, ... *)
LEMMA EndingSafe ==
  ASSUME Safe, Ending
  PROVE  Safety'
<1>1. PICK how \in {"done", "failed"} : Finish(how)
  BY DEF Ending, NoSender, StreamBreaksOff, ReadTimeout, OutOfSequence,
     InflateTooLong, EraseFails, ProgramFails, StreamFails, EndOfTransfer,
     NoEndOfTransfer, Fail
<1>2. /\ pc' = "idle" /\ result' = how /\ off' = off /\ len' = len
      /\ before' = before /\ written' = written /\ accepted' = accepted
  BY <1>1 DEF Finish, command
<1>3. PageAligned' /\ FlushedPrefix'
  BY <1>2 DEF PageAligned, FlushedPrefix
<1>4. UnreachedUntouched'
  <2>1. CASE EraseFails \/ ProgramFails
    BY <1>2, <2>1, FlashStepUnreached
  <2>2. CASE ~(EraseFails \/ ProgramFails)
    <3>1. flash' = flash
      BY <2>2 DEF Ending, NoSender, StreamBreaksOff, ReadTimeout,
         OutOfSequence, InflateTooLong, StreamFails, EndOfTransfer,
         NoEndOfTransfer
    <3> QED
      BY <1>2, <3>1 DEF Safe, Safety, UnreachedUntouched, Aligned
  <2> QED
    BY <2>1, <2>2
<1>5. DoneMeansComplete'
  <2> SUFFICES ASSUME result' = "done", Aligned'
               PROVE  /\ WholeRangeWritten'
                      /\ \A a \in Addr :
                           off + len <= a /\ Base(a, SectorSize) < off + len
                           => flash'[a] = FF
    BY <1>2 DEF DoneMeansComplete
  <2>1. EndOfTransfer
    BY DEF Ending, NoSender, StreamBreaksOff, ReadTimeout, OutOfSequence,
       InflateTooLong, EraseFails, ProgramFails, StreamFails, NoEndOfTransfer,
       Fail, Finish
  <2>2. pc = "finish" /\ flash' = flash /\ Aligned
    BY <1>2, <2>1 DEF EndOfTransfer, Aligned
  <2>3. page = <<>> /\ written = len
    BY <2>2 DEF Safe, Typed, ThreadState
  <2>4. Flushed = off + len /\ off \in Nat /\ len \in Nat
        /\ off + len <= FlashSize
    BY <2>3, Numbers DEF Safe, Flushed
  <2>5. \A a \in Addr :
          /\ off <= a /\ a < off + len => flash[a] = accepted[a - off + 1]
          /\ off + len <= a /\ Base(a, SectorSize) < off + len => flash[a] = FF
    BY <2>2, <2>3, <2>4 DEF Safe, Safety, FlushedPrefix
  <2>6. ASSUME NEW i \in 1 .. len PROVE flash[off + i - 1] = accepted[i]
    <3>1. /\ off + i - 1 \in Addr /\ off <= off + i - 1
          /\ off + i - 1 < off + len /\ (off + i - 1) - off + 1 = i
      BY <2>4, Sizes DEF Addr
    <3> QED
      BY <2>5, <3>1
  <2>7. WholeRangeWritten'
    BY <1>2, <2>2, <2>3, <2>6 DEF WholeRangeWritten
  <2> QED
    BY <2>2, <2>5, <2>7
<1> QED
  BY <1>3, <1>4, <1>5 DEF Safety

(* ... so does its start, ... *)
LEMMA StartSafe ==
  ASSUME Safe, Typed',
         \E o \in 0 .. Word - 1, n \in 0 .. Word - 1 : StartCommand(o, n)
  PROVE  Safety'
<1>1. pc' = "wake" /\ result' = "none" /\ before' = flash /\ flash' = flash
  BY DEF StartCommand
<1>2. written' = 0 /\ page' = <<>>
  BY DEF StartCommand
<1>3. off' \in Nat /\ Flushed' = off'
  <2>1. off' \in Nat
    BY Sizes DEF Typed, TypeOK, Addr
  <2>2. Len(page') = 0 /\ written' = 0
    BY <1>2
  <2>3. Flushed' = off' + written' - Len(page')
    BY DEF Flushed
  <2>4. \A x \in Nat : x + 0 - 0 = x
    OBVIOUS
  <2> QED
    BY <2>1, <2>2, <2>3, <2>4, Zenon
<1>4. PageAligned'
  <2>1. SectorSize % PageSize = 0
    BY GeometryAssumption
  <2>2. Aligned' => off' % PageSize = 0
    BY <1>3, <2>1, Sizes, AlignedCoarser DEF Aligned
  <2> QED
    BY <1>3, <2>2 DEF PageAligned
<1>5. FlushedPrefix'
  <2> SUFFICES ASSUME Aligned', NEW a \in Addr
               PROVE  /\ ~(off' <= a /\ a < Flushed')
                      /\ ~(Flushed' <= a /\ Base(a, SectorSize)
                                              < off' + written')
    BY DEF FlushedPrefix
  <2>1. a \in Nat
    BY Sizes DEF Addr
  <2>2. off' <= a => off' <= Base(a, SectorSize)
    BY <1>3, <2>1, Sizes, BaseAbove DEF Aligned
  <2> QED
    BY <1>2, <1>3, <2>1, <2>2, SectorBase
<1>6. DoneMeansComplete' /\ UnreachedUntouched'
  BY <1>1 DEF DoneMeansComplete, UnreachedUntouched
<1> QED
  BY <1>4, <1>5, <1>6 DEF Safety

(* ... an erase, ... *)
LEMMA EraseSafe ==
  ASSUME Safe, EraseSector
  PROVE  Safety'
<1>1. /\ pc' = pc /\ result' = result /\ off' = off /\ len' = len
      /\ before' = before /\ written' = written /\ accepted' = accepted
      /\ page' = page /\ pc = "put"
  BY DEF EraseSector, command, writer
<1>2. Aligned' = Aligned /\ Flushed' = Flushed
  BY <1>1 DEF Aligned, Flushed
<1>3. PageAligned'
  BY <1>1, <1>2 DEF Safe, Safety, PageAligned
<1>4. UnreachedUntouched'
  BY <1>1, FlashStepUnreached
<1>5. DoneMeansComplete'
  BY <1>1 DEF DoneMeansComplete, Safe, Typed, WriterState
<1>6. FlushedPrefix'
  <2> SUFFICES ASSUME Aligned, NEW a \in Addr
               PROVE  /\ off <= a /\ a < Flushed
                         => flash'[a] = accepted[a - off + 1]
                      /\ ~(Flushed <= a /\ Base(a, SectorSize) < off + written)
    BY <1>1, <1>2 DEF FlushedPrefix
  <2>1. a \in Nat /\ Base(a, SectorSize) \in Nat /\ Base(a, SectorSize) <= a
    BY SectorBase, Sizes DEF Addr
  <2>2. /\ page = <<>> /\ CurrentOff = off + written
        /\ CurrentOff % SectorSize = 0
        /\ flash'[a] = flash[a] \/ Base(a, SectorSize) = CurrentOff
    BY EraseReach DEF Safe
  <2>3. Flushed = CurrentOff /\ CurrentOff \in Nat
    BY <2>2, Numbers DEF Safe
  <2>4. CurrentOff <= a => CurrentOff <= Base(a, SectorSize)
    BY <2>1, <2>2, <2>3, Sizes, BaseAbove
  <2>5. off <= a /\ a < Flushed => flash'[a] = accepted[a - off + 1]
    <3> SUFFICES ASSUME off <= a, a < Flushed
                 PROVE  flash'[a] = accepted[a - off + 1]
      OBVIOUS
    <3>1. flash'[a] = flash[a]
      BY <2>1, <2>2, <2>3
    <3> QED
      BY <1>1, <3>1 DEF Safe, Safety, FlushedPrefix
  <2>6. ~(Flushed <= a /\ Base(a, SectorSize) < off + written)
    BY <2>1, <2>2, <2>3, <2>4
  <2> QED
    BY <2>5, <2>6
<1> QED
  BY <1>3, <1>4, <1>5, <1>6 DEF Safety

(* ... a part of the output that goes to the page buffer, ... *)
LEMMA FillPageSafe ==
  ASSUME Safe, FillPage
  PROVE  Safety'
<1>1. /\ pc = "put" /\ pc' \in {"put", "flush"} /\ result' = result
      /\ flash' = flash /\ off' = off /\ len' = len /\ before' = before
      /\ ~NeedsErase
  BY DEF FillPage, command
<1>2. PICK n \in 1 .. PageSize :
        /\ n = Smaller(PageSize - Len(page), Len(piece))
        /\ Len(page') = Len(page) + n
        /\ written' = written + n
        /\ \A i \in 1 .. written : accepted'[i] = accepted[i]
  BY FillPageFacts DEF Safe
<1>3. /\ off \in Nat /\ written \in Nat /\ Len(page) \in Nat
      /\ Flushed \in Nat /\ off <= Flushed
      /\ Flushed + Len(page) = off + written /\ n \in Nat
      /\ n <= PageSize - Len(page)
  BY <1>2, Numbers, Sizes DEF Safe, Smaller
<1>4. Aligned' = Aligned /\ Flushed' = Flushed
  <2>1. off + (written + n) - (Len(page) + n) = off + written - Len(page)
    BY <1>3
  <2> QED
    BY <1>1, <1>2, <2>1, Zenon DEF Aligned, Flushed
<1>5. PageAligned'
  BY <1>1, <1>4 DEF Safe, Safety, PageAligned
<1>6. DoneMeansComplete'
  BY <1>1 DEF DoneMeansComplete, Safe, Typed, WriterState
<1>7. UnreachedUntouched'
  <2> SUFFICES ASSUME NEW a \in Addr,
                      \/ a < WriteMin
                      \/ Aligned /\ (\/ a < off
                                     \/ Base(a, SectorSize) > off + written'
                                     \/ Base(a, SectorSize) >= off + len)
               PROVE  flash[a] = before[a]
    BY <1>1, <1>4 DEF UnreachedUntouched
  <2>1. Base(a, SectorSize) \in Nat /\ written' = written + n
    BY <1>2, SectorBase
  <2>2. Base(a, SectorSize) > off + written'
        => Base(a, SectorSize) > off + written
    BY <1>3, <2>1
  <2> QED
    BY <2>2 DEF Safe, Safety, UnreachedUntouched
<1>8. FlushedPrefix'
  <2> SUFFICES ASSUME Aligned, NEW a \in Addr
               PROVE  /\ off <= a /\ a < Flushed
                         => flash[a] = accepted'[a - off + 1]
                      /\ Flushed <= a /\ Base(a, SectorSize) < off + written'
                         => flash[a] = FF
    BY <1>1, <1>4 DEF FlushedPrefix
  <2>1. /\ a \in Nat /\ Base(a, SectorSize) \in Nat
        /\ Base(a, SectorSize) <= a
    BY SectorBase, Sizes DEF Addr
  <2>2. /\ off <= a /\ a < Flushed => flash[a] = accepted[a - off + 1]
        /\ Flushed <= a /\ Base(a, SectorSize) < off + written
           => flash[a] = FF
    BY <1>1 DEF Safe, Safety, FlushedPrefix
  <2>3. ASSUME off <= a, a < Flushed
        PROVE  flash[a] = accepted'[a - off + 1]
    <3>1. a - off + 1 \in 1 .. written
      BY <1>3, <2>1, <2>3
    <3> QED
      BY <1>2, <2>2, <2>3, <3>1
  <2>4. ASSUME Flushed <= a, Base(a, SectorSize) < off + written',
               off + written <= Base(a, SectorSize)
        PROVE  flash[a] = FF
    <3>1. Flushed % PageSize = 0
      BY <1>1 DEF Safe, Safety, PageAligned
    <3>2. Base(a, SectorSize) < Flushed + PageSize
      <4>1. written' = written + n
        BY <1>2
      <4> HIDE DEF Flushed
      <4> QED
        BY <1>3, <2>1, <2>4, <4>1, Sizes
    <3>3. Base(a, SectorSize) <= Flushed
      BY <1>3, <3>1, <3>2, SectorBase, Sizes, MultipleBelow
    <3>4. Len(page) = 0 /\ Base(a, SectorSize) = off + written
      BY <1>3, <2>1, <2>4, <3>3
    <3>5. page = <<>> /\ CurrentOff % SectorSize = 0
      <4>1. page \in Seq(Byte)
        BY DEF Safe, Typed, TypeOK
      <4> QED
        BY <3>4, <4>1, SectorBase DEF CurrentOff
    <3>6. RangeIsErased(flash, CurrentOff, SectorSize)
      BY <1>1, <3>5 DEF NeedsErase
    <3>7. a \in CurrentOff .. CurrentOff + SectorSize - 1
      BY <1>3, <2>1, <3>4, SectorBase, Sizes DEF CurrentOff
    <3> QED
      BY <3>6, <3>7 DEF RangeIsErased
  <2> QED
    BY <1>2, <1>3, <2>1, <2>2, <2>3, <2>4
<1> QED
  BY <1>5, <1>6, <1>7, <1>8 DEF Safety

(* The page buffer is the part of the output at the chip's page.           *)
LEMMA PageIsOutput ==
  ASSUME Typed, NEW a \in Nat, Flushed <= a, a < off + written
  PROVE  /\ a - Flushed \in 0 .. Len(page) - 1
         /\ PageData[a - Flushed] = accepted[a - off + 1]
<1>1. /\ off \in Nat /\ written \in Nat /\ Len(page) \in Nat
      /\ Len(page) <= written /\ Len(page) <= PageSize
      /\ Flushed \in Nat /\ Flushed + Len(page) = off + written
  BY Numbers
<1>2. /\ page \in Seq(Byte) /\ accepted \in Seq(Byte)
      /\ Len(accepted) = written
      /\ page = SubSeq(accepted, written - Len(page) + 1, written)
  BY DEF Typed, TypeOK, ThreadState
<1>3. a - Flushed \in 0 .. Len(page) - 1 /\ a - Flushed \in 0 .. PageSize - 1
  BY <1>1, Sizes
<1>4. PageData[a - Flushed] = page[a - Flushed + 1]
  BY <1>1, <1>3 DEF PageData
<1>5. /\ a - Flushed + 1 \in 1 .. Len(page)
      /\ written - Len(page) + (a - Flushed + 1) = a - off + 1
  BY <1>1, <1>3
<1>6. \A i \in 1 .. Len(page) : page[i] = accepted[written - Len(page) + i]
  <2>1. IsTail(page, accepted)
    BY <1>1, <1>2 DEF IsTail
  <2>2. Len(page) <= Len(accepted)
    BY <1>1, <1>2
  <2>3. \A i \in 1 .. Len(page) :
          page[i] = accepted[Len(accepted) - Len(page) + i]
    BY <1>2, <2>1, <2>2, TailElements
  <2> QED
    BY <1>2, <2>3
<1> QED
  BY <1>3, <1>4, <1>5, <1>6

(* ... a page that is erased already, ... *)
LEMMA PageDoneSafe ==
  ASSUME Safe, SkipErasedPage \/ ProgramPage
  PROVE  Safety'
<1>1. /\ pc \in {"flush", "last"} /\ result' = result
      /\ pc' = (IF pc = "last" THEN "finish" ELSE "put")
      /\ off' = off /\ len' = len /\ before' = before
      /\ written' = written /\ accepted' = accepted /\ page' = <<>>
  BY DEF SkipErasedPage, ProgramPage, PageFlushed, Flushing, command
<1>2. /\ off \in Nat /\ written \in Nat /\ Len(page) \in Nat
      /\ Flushed \in Nat /\ off <= Flushed
      /\ Flushed + Len(page) = off + written /\ Len(page) <= PageSize
  BY Numbers DEF Safe
<1>3. Aligned' = Aligned /\ Flushed' = off + written
  <2>1. Len(page') = 0
    BY <1>1
  <2>2. Flushed' = off + written - Len(page')
    BY <1>1 DEF Flushed
  <2> QED
    BY <1>1, <1>2, <2>1, <2>2 DEF Aligned
<1>4. PageAligned'
  <2> SUFFICES ASSUME pc = "flush", Aligned
               PROVE  (off + written) % PageSize = 0
    BY <1>1, <1>3 DEF PageAligned
  <2>1. Flushed % PageSize = 0 /\ Len(page) = PageSize
    BY DEF Safe, Safety, PageAligned, Typed, WriterState
  <2>2. PageSize % PageSize = 0
    BY Sizes
  <2>3. (Flushed + PageSize) % PageSize = 0
    BY <1>2, <2>1, <2>2, Sizes, AlignedSum
  <2> QED
    BY <1>2, <2>1, <2>3
<1>5. DoneMeansComplete'
  BY <1>1 DEF DoneMeansComplete, Safe, Typed, WriterState
<1>6. UnreachedUntouched'
  <2>1. CASE ProgramPage
    BY <1>1, <2>1, FlashStepUnreached
  <2>2. CASE SkipErasedPage
    BY <1>1, <2>2 DEF SkipErasedPage, Safe, Safety, UnreachedUntouched, Aligned
  <2> QED
    BY <2>1, <2>2
<1>7. FlushedPrefix'
  <2> SUFFICES ASSUME Aligned, NEW a \in Addr
               PROVE  /\ off <= a /\ a < off + written
                         => flash'[a] = accepted[a - off + 1]
                      /\ off + written <= a
                         /\ Base(a, SectorSize) < off + written
                         => flash'[a] = FF
    BY <1>1, <1>3 DEF FlushedPrefix
  <2>1. /\ a \in Nat /\ Base(a, SectorSize) \in Nat
        /\ Base(a, SectorSize) <= a
    BY SectorBase, Sizes DEF Addr
  <2>2. /\ off <= a /\ a < Flushed => flash[a] = accepted[a - off + 1]
        /\ Flushed <= a /\ Base(a, SectorSize) < off + written
           => flash[a] = FF
    BY <1>1 DEF Safe, Safety, FlushedPrefix
  <2>3. a < Flushed => flash'[a] = flash[a]
    <3>1. CASE SkipErasedPage
      BY <3>1 DEF SkipErasedPage
    <3>2. CASE ProgramPage
      BY <1>2, <2>1, <3>2, ProgramReach
    <3> QED
      BY <3>1, <3>2
  <2>4. ASSUME Flushed <= a, a < off + written
        PROVE  flash'[a] = accepted[a - off + 1]
    <3>1. /\ a - Flushed \in 0 .. Len(page) - 1
          /\ PageData[a - Flushed] = accepted[a - off + 1]
      BY <2>1, <2>4, PageIsOutput DEF Safe
    <3>2. CASE SkipErasedPage
      <4>1. PageData[a - Flushed] = FF
        BY <3>1, <3>2 DEF SkipErasedPage, BufferIsErased
      <4>2. flash[a] = FF /\ flash' = flash
        BY <1>2, <2>1, <2>2, <2>4, <3>2 DEF SkipErasedPage
      <4> QED
        BY <3>1, <4>1, <4>2
    <3>3. CASE ProgramPage
      <4>1. PageStart = Flushed
        BY <3>3, PageInRange DEF ProgramPage, Safe
      <4>2. flash'[PageStart + (a - Flushed)] = PageData[a - Flushed]
        BY <3>1, <3>3 DEF ProgramPage, RangeMatches
      <4>3. Flushed + (a - Flushed) = a
        BY <1>2, <2>1
      <4> QED
        BY <3>1, <4>1, <4>2, <4>3
    <3> QED
      BY <3>2, <3>3
  <2>5. ASSUME off + written <= a, Base(a, SectorSize) < off + written
        PROVE  flash'[a] = FF
    <3>1. flash[a] = FF /\ Flushed <= a
      BY <1>2, <2>1, <2>2, <2>5
    <3>2. CASE SkipErasedPage
      BY <3>1, <3>2 DEF SkipErasedPage
    <3>3. CASE ProgramPage
      <4>1. \/ flash'[a] = flash[a]
            \/ /\ a < Flushed + PageSize
               /\ flash'[a] = And(flash[a], PageData[a - Flushed])
        BY <3>3, ProgramReach
      <4>2. a < Flushed + PageSize => PageData[a - Flushed] = FF
        <5> SUFFICES ASSUME a < Flushed + PageSize
                     PROVE  PageData[a - Flushed] = FF
          OBVIOUS
        <5>1. a - Flushed \in 0 .. PageSize - 1 /\ ~(a - Flushed < Len(page))
          BY <1>2, <2>1, <2>5, <3>1, Sizes
        <5> QED
          BY <5>1 DEF PageData
      <4> QED
        BY <3>1, <4>1, <4>2, AndAssumption, ByteAssumption
    <3> QED
      BY <3>2, <3>3
  <2> QED
    BY <1>2, <2>1, <2>2, <2>3, <2>4, <2>5
<1> QED
  BY <1>4, <1>5, <1>6, <1>7 DEF Safety

(* The stub starts safe. *)
LEMMA SafeInit == Init => Safe
<1> SUFFICES ASSUME Init PROVE Safe
  OBVIOUS
<1>1. Typed
  BY TypedInit
<1>2. pc = "idle" /\ result = "none" /\ before = flash
  BY DEF Init
<1>3. Safety
  BY <1>2 DEF Safety, PageAligned, FlushedPrefix, DoneMeansComplete,
     UnreachedUntouched
<1> QED
  BY <1>1, <1>3 DEF Safe

(* Every step keeps safety. *)
LEMMA SafeStep == Safe /\ [Next]_vars => Safe'
<1> SUFFICES ASSUME Safe, [Next]_vars PROVE Safe'
  OBVIOUS
<1>1. Typed'
  BY TypedStep DEF Safe
<1>2. CASE Reception
  <2>1. StaysPut
    BY <1>2, ReceptionStaysPut DEF Safe
  <2> QED
    BY <1>1, <2>1, KeptSafe DEF StaysPut, command, writer, Safe
<1>3. CASE Ending
  BY <1>1, <1>3, EndingSafe DEF Safe
<1>4. CASE NextPacket \/ Inflate
  <2>1. /\ UNCHANGED <<flash, off, len, before, written, page, accepted>>
        /\ result' = result
        /\ pc \in {"packet", "inflate"} /\ pc' \in {"inflate", "put"}
    BY <1>4 DEF NextPacket, PacketComplete, Inflate, command, writer
  <2> QED
    BY <1>1, <2>1, KeptSafe DEF Safe
<1>5. CASE EraseSector
  BY <1>1, <1>5, EraseSafe DEF Safe
<1>6. CASE FillPage
  BY <1>1, <1>6, FillPageSafe DEF Safe
<1>7. CASE SkipErasedPage \/ ProgramPage
  BY <1>1, <1>7, PageDoneSafe DEF Safe
<1>8. CASE \E o \in 0 .. Word - 1, n \in 0 .. Word - 1 : StartCommand(o, n)
  BY <1>1, <1>8, StartSafe DEF Safe
<1>9. CASE UNCHANGED vars
  <2>1. /\ UNCHANGED <<flash, off, len, before, written, page, accepted>>
        /\ result' = result /\ pc' = pc
    BY <1>9 DEF vars, command, writer
  <2> QED
    BY <1>1, <2>1, KeptSafe DEF Safe
<1> QED
  BY <1>2, <1>3, <1>4, <1>5, <1>6, <1>7, <1>8, <1>9 DEF Next, StubCommand,
     StubStep, StubWork, StubTimeout, Reception, Ending

(* In every reachable state of a write to a sector boundary, what has left *)
(* the page buffer is in the flash and the rest of the sectors opened so   *)
(* far is erased: inflate_flash_put_buffer and inflate_flash_flush keep    *)
(* step with each other, wherever packets, pieces and pages end.           *)
THEOREM Prefix == Spec => []FlushedPrefix
<1>1. Safe => FlushedPrefix
  BY DEF Safe, Safety
<1> QED
  BY SafeInit, SafeStep, <1>1, PTL DEF Spec

(* A compressed write to a sector boundary that ends well has the whole    *)
(* announced range in the flash, and the rest of its last sector erased.   *)
THEOREM Completeness == Spec => []DoneMeansComplete
<1>1. Safe => DoneMeansComplete
  BY DEF Safe, Safety
<1> QED
  BY SafeInit, SafeStep, <1>1, PTL DEF Spec

(* Whatever the line and the stream deliver and whenever the write ends,   *)
(* 0x97 changes nothing below WriteMin and, from a sector boundary, no     *)
(* sector that the output has not reached.                                 *)
THEOREM Containment == Spec => []UnreachedUntouched
<1>1. Safe => UnreachedUntouched
  BY DEF Safe, Safety
<1> QED
  BY SafeInit, SafeStep, <1>1, PTL DEF Spec

-----------------------------------------------------------------------------
(* The decoder between two packets.                                        *)

(* It wants a packet when it has used up its input, and only then, and is  *)
(* called when what it has delivered is taken.                             *)
InputUsed ==
  /\ pc \in {"wake", "first", "marker", "packet", "inflate"} => piece = <<>>
  /\ pc \in {"wake", "first", "marker", "packet"} => unread = <<>>
  /\ pc \in {"put", "flush"} /\ verdict = "needs input" => unread = <<>>

(* Once b blocks of the image have been fed to it: what it has delivered   *)
(* and what it owes are the output of the c bytes it has consumed, and the *)
(* rest of the blocks is what it has not read.                             *)
Fed(b) ==
  \E c \in 0 .. Len(Image) :
    /\ accepted \o piece \o owed = Inflated(SubSeq(Image, 1, c))
    /\ IF c = Len(Image) THEN over /\ b = Sender!Blocks
       ELSE /\ ~over /\ c + Len(unread) = b * HostBlock
            /\ \A i \in 1 .. Len(unread) :
                 c + i <= Len(Image) => unread[i] = Image[c + i]

-----------------------------------------------------------------------------
(* Where the two sides can be, as long as packets arrive whole and one at  *)
(* a time.                                                                 *)

(* The number of block b. *)
Number(b) == (b + 1) % NumberMod

(* A block's number differs from its neighbours'. *)
LEMMA Numbering ==
  ASSUME NEW b \in Nat
  PROVE  /\ Number(b) \in 0 .. NumberMod - 1
         /\ Following(Number(b)) = Number(b + 1)
         /\ Previous(Number(b + 1)) = Number(b)
         /\ Previous(Number(b)) # Number(b) /\ Number(b + 1) # Number(b)
<1>1. b + 1 \in Nat /\ NumberMod \in Nat \ {0} /\ NumberMod >= 2
  BY PacketAssumption
<1> QED
  BY <1>1, Circle DEF Number, Following, Previous

(* What a packet consists of. *)
LEMMA PacketParts ==
  ASSUME NEW S, NEW f \in Seq(S), NEW marker, NEW n
  PROVE  LET packet == Packet(marker, n, f) IN
         /\ Len(packet) = Len(f) + 4 /\ packet[1] = marker /\ packet[2] = n
         /\ \A i \in 1 .. Len(f) : packet[3 + i] = f[i]
BY Enclosed DEF Packet

(* The stub waits for the block that the probe is at, or has it already.   *)
Fresh == expected = Number(sent) /\ Fed(sent)
Taken ==
  /\ sent < Sender!Blocks /\ expected = Number(sent + 1) /\ Fed(sent + 1)

(* What has been read of a packet and what is on the line make it up.      *)
Arrives(packet) ==
  /\ Len(pkt) + Len(rx) = Len(packet)
  /\ \A i \in 1 .. Len(pkt) : pkt[i] \in {packet[i], Link!Noise}
  /\ \A i \in 1 .. Len(rx) : rx[i] \in {packet[Len(pkt) + i], Link!Noise}
  /\ packet[1] = IF pkt = <<>> THEN rx[1] ELSE pkt[1]

Quiet == rx = <<>> /\ tx = <<>>

Unopened == hpc = "idle" /\ sent = 0 /\ Quiet
Inviting ==
  /\ hpc = "start" /\ sent = 0 /\ rx = <<>> /\ pkt = <<>> /\ Fresh
  /\ pc \in {"wake", "first"}
  /\ tx = <<>> \/ (pc = "first" /\ tx = <<CRC_MODE>>)
ProbesTurn ==
  /\ hpc = "send" /\ Quiet /\ pkt = <<>> /\ (Fresh \/ Taken)
  /\ pc \in {"marker", "finish"} \/ (pc = "first" /\ sent < Sender!Blocks)
PacketComing ==
  /\ hpc = "await" /\ tx = <<>> /\ sent < Sender!Blocks /\ (Fresh \/ Taken)
  /\ IF pkt = <<>> THEN pc \in {"first", "marker", "finish"} ELSE pc = "packet"
  /\ Arrives(Sender!BlockPacket(sent))
Unpacking == hpc = "await" /\ Quiet /\ pkt = <<>> /\ Taken /\ Busy
EndComing ==
  /\ hpc = "await" /\ tx = <<>> /\ rx = <<EOT>> /\ pkt = <<>>
  /\ sent = Sender!Blocks /\ pc \in {"marker", "finish"}
Answering ==
  /\ hpc = "await" /\ rx = <<>> /\ pkt = <<>> /\ pc \in {"marker", "finish"}
  /\ \/ (Fresh \/ Taken) /\ tx \in {<<>>, <<NAK>>}
     \/ Taken /\ tx = <<ACK>>
StubBack ==
  /\ hpc \in {"start", "send", "await"} /\ pc = "idle"
  /\ result # "done" => \A i \in 1 .. Len(tx) : tx[i] # ACK
ProbeBack ==
  /\ hpc = "failed"
  /\ \/ pc = "idle"
     \/ pc \in {"wake", "first", "marker", "finish"} /\ rx = <<>>
Delivered == hpc = "ok" /\ result = "done"

InTurn ==
  \/ Unopened \/ Inviting \/ ProbesTurn \/ PacketComing \/ Unpacking
  \/ EndComing \/ Answering \/ StubBack \/ ProbeBack \/ Delivered

(* The command of the session, whatever the line does. *)
Served ==
  /\ sent \in 0 .. Sender!Blocks /\ extra \in Nat
  /\ hpc = "idle" => pc = "idle" /\ result = "none" /\ Quiet
  /\ pc # "idle" \/ result # "none" => off = Target /\ len = Len(Plain)
  /\ InputUsed

LinkInv ==
  /\ Safe /\ Served
  /\ OneAtATime => InTurn /\ OutputIsPrefix

-----------------------------------------------------------------------------
(* The sizes of the image and of its blocks. *)
LEMMA ImageSize ==
  /\ Image \in Seq(Byte) /\ Len(Image) \in Nat \ {0}
  /\ HostBlock \in Nat \ {0}
  /\ Plain \in Seq(Byte) /\ Len(Plain) \in Nat
<1>1. Image \in Seq(Byte \ Invalid) /\ Image # <<>>
  BY ImageAssumption
<1>2. Image \in Seq(Byte) /\ Len(Image) \in Nat \ {0}
  BY <1>1
<1>3. Plain \in Seq(Byte)
  BY <1>2, InflatedTyped DEF Plain
<1> QED
  BY <1>2, <1>3, LinkAssumption, PacketAssumption

(* A block begins before the end of the image, and none is left after the  *)
(* last one.                                                               *)
LEMMA BlocksReach ==
  /\ Sender!Blocks \in Nat \ {0}
  /\ \A b \in Nat : b < Sender!Blocks <=> b * HostBlock < Len(Image)
BY ImageSize, BlockCount DEF Sender!Blocks

(* The packet of a block. *)
LEMMA PacketOfBlock ==
  ASSUME NEW b \in 0 .. Sender!Blocks - 1
  PROVE  LET packet == Sender!BlockPacket(b) IN
         /\ packet \in Seq(Byte) /\ packet[1] \in {SOH, STX}
         /\ BlockLen(packet[1]) = HostBlock
         /\ Len(packet) = PacketLen(packet[1])
         /\ packet[2] = Number(b)
         /\ \A i \in 1 .. HostBlock :
              b * HostBlock + i <= Len(Image) =>
                packet[3 + i] = Image[b * HostBlock + i]
<1> DEFINE marker == IF HostBlock = StxSize THEN STX ELSE SOH
           f == [i \in 1 .. HostBlock |->
                   IF b * HostBlock + i <= Len(Image)
                   THEN Image[b * HostBlock + i] ELSE 255]
           packet == Sender!BlockPacket(b)
<1>1. packet = Packet(marker, Number(b), f)
  BY DEF Sender!BlockPacket, Sender!Packet, Sender!Inverse, Packet, Inverse,
     Number, Sender!STX, Sender!SOH, STX, SOH
<1>2. packet \in Seq(Byte)
  BY PacketBytes
<1>3. BlockLen(marker) = HostBlock /\ marker \in {SOH, STX}
  BY LinkAssumption DEF BlockLen, STX, SOH
<1>4. f \in Seq(Byte \cup {255}) /\ Len(f) = HostBlock
  <2>1. ASSUME NEW i \in 1 .. HostBlock PROVE f[i] \in Byte \cup {255}
    <3>1. b * HostBlock \in Nat
      BY BlocksReach, ImageSize
    <3> QED
      BY <3>1, ImageSize
  <2>2. f \in [1 .. HostBlock -> Byte \cup {255}]
    BY <2>1
  <2> HIDE DEF f
  <2> QED
    BY <2>2, ImageSize
<1>5. \A i \in 1 .. HostBlock :
        b * HostBlock + i <= Len(Image) => f[i] = Image[b * HostBlock + i]
  OBVIOUS
<1> HIDE DEF f, marker
<1>6. /\ Len(packet) = HostBlock + 4 /\ packet[1] = marker
      /\ packet[2] = Number(b)
      /\ \A i \in 1 .. HostBlock : packet[3 + i] = f[i]
  <2>1. f \in Seq(Byte \cup {255})
    BY <1>4
  <2> HIDE DEF packet
  <2> QED
    BY <1>1, <1>4, <2>1, PacketParts
<1> QED
  BY <1>2, <1>3, <1>5, <1>6 DEF PacketLen, packet

-----------------------------------------------------------------------------
(* Whatever the line does, the stub is that of CompressedFlash. *)

(* What the sender does are events on the line of the stub. *)
LEMMA SenderOnLine ==
  ASSUME rx \in Seq(Byte), tx \in Seq(Byte), sent \in 0 .. Sender!Blocks,
         Sender!Work \/ Sender!Uninvited \/ Sender!Unanswered
  PROVE  /\ rx' \in Seq(Byte) /\ tx' \in Seq(Byte)
         /\ sent' \in 0 .. Sender!Blocks /\ hpc # "idle" /\ hpc' # "idle"
<1>1. CASE Sender!Transmit
  <2>1. Sender!Current \in Seq(Byte)
    <3>1. CASE sent < Sender!Blocks
      <4>1. sent \in 0 .. Sender!Blocks - 1
        BY <3>1, BlocksReach
      <4> QED
        BY <3>1, <4>1, PacketBytes DEF Sender!Current
    <3>2. CASE ~(sent < Sender!Blocks)
      <4>1. EOT \in Byte /\ Sender!EOT = EOT
        BY ControlAssumption DEF Controls, Sender!EOT, EOT
      <4> QED
        BY <3>2, <4>1 DEF Sender!Current
    <3> QED
      BY <3>1, <3>2
  <2>2. rx' = rx \o Sender!Current /\ tx' = tx /\ sent' = sent
        /\ hpc = "send" /\ hpc' = "await"
    BY <1>1 DEF Sender!Transmit
  <2> QED
    BY <2>1, <2>2
<1>2. CASE ~Sender!Transmit
  <2>1. rx' = rx
    BY <1>2 DEF Sender!Work, Sender!Uninvited, Sender!Unanswered,
       Sender!SkipReply, Sender!Invited, Sender!GiveUp, Sender!Acknowledged,
       Sender!AskedAgain, Sender!Cancelled
  <2>2. tx' = tx \/ tx' = <<>> \/ (tx # <<>> /\ tx' = Tail(tx))
    BY <1>2 DEF Sender!Work, Sender!Uninvited, Sender!Unanswered,
       Sender!SkipReply, Sender!Invited, Sender!GiveUp, Sender!Acknowledged,
       Sender!AskedAgain, Sender!Cancelled, Sender!Reply
  <2>3. sent' = sent \/ (sent < Sender!Blocks /\ sent' = sent + 1)
    BY <1>2 DEF Sender!Work, Sender!Uninvited, Sender!Unanswered,
       Sender!SkipReply, Sender!Invited, Sender!GiveUp, Sender!Acknowledged,
       Sender!AskedAgain, Sender!Cancelled
  <2>4. hpc # "idle" /\ hpc' # "idle"
    BY <1>2 DEF Sender!Work, Sender!Uninvited, Sender!Unanswered,
       Sender!SkipReply, Sender!Invited, Sender!GiveUp, Sender!Acknowledged,
       Sender!AskedAgain, Sender!Cancelled
  <2>5. tx' \in Seq(Byte)
    <3>1. tx # <<>> => Tail(tx) \in Seq(Byte)
      BY Shortened
    <3>2. <<>> \in Seq(Byte)
      OBVIOUS
    <3> QED
      BY <2>2, <3>1, <3>2, Zenon
  <2>6. sent' \in 0 .. Sender!Blocks
    BY <2>3, BlocksReach
  <2> QED
    BY <2>1, <2>4, <2>5, <2>6
<1> QED
  BY <1>1, <1>2

(* So are the faults of the line, which carries bytes whatever happens.    *)
LEMMA LineOnLine ==
  ASSUME rx \in Seq(Byte), tx \in Seq(Byte), Line
  PROVE  rx' \in Seq(Byte) /\ tx' \in Seq(Byte)
<1>1. CASE Link!LoseByte
  BY <1>1, Shortened DEF Link!LoseByte
<1>2. CASE Link!LoseReply
  BY <1>2, Shortened DEF Link!LoseReply
<1>3. ASSUME NEW kind, Link!DamageByte(kind)
      PROVE  rx' \in Seq(Byte) /\ tx' \in Seq(Byte)
  BY <1>3, PacketBytes DEF Link!DamageByte
<1>4. CASE Link!Overrun
  <2>1. /\ FifoDepth \in Nat \ {0} /\ FifoDepth < Len(rx) /\ tx' = tx
        /\ rx' = SubSeq(rx, 1, FifoDepth) \o SubSeq(rx, FifoDepth + 2, Len(rx))
    BY <1>4, LinkAssumption DEF Link!Overrun
  <2>2. SubSeq(rx, 1, FifoDepth) \in Seq(Byte)
    BY <2>1
  <2>3. SubSeq(rx, FifoDepth + 2, Len(rx)) \in Seq(Byte)
    BY <2>1
  <2> QED
    BY <2>1, <2>2, <2>3
<1> QED
  BY <1>1, <1>2, <1>3, <1>4 DEF Line

(* The command of the session is one of those that the stub may be sent.   *)
LEMMA SessionsFrame ==
  Target \in 0 .. Word - 1 /\ Len(Plain) \in 0 .. Word - 1
<1>1. /\ Target \in Nat /\ Len(Plain) \in Nat /\ FlashSize \in Nat
      /\ Word \in Nat /\ FlashSize < Word /\ Target + Len(Plain) <= FlashSize
  BY LinkAssumption, ImageSize, GeometryAssumption, WordAssumption DEF Addr
<1> QED
  BY <1>1

(* Every step of a session is one of the stub among any peers. *)
LEMMA LinkStep ==
  ASSUME Typed, sent \in 0 .. Sender!Blocks, [LinkNext]_linkVars
  PROVE  /\ [Next]_vars
         /\ sent' \in 0 .. Sender!Blocks
<1>0. rx \in Seq(Byte) /\ tx \in Seq(Byte)
  BY DEF Typed, TypeOK
<1>1. CASE StubRuns
  BY <1>1 DEF StubRuns, Next, StubStep, host
<1>2. CASE HostCommand \/ HostRejected
  <2>1. StubCommand(Target, Len(Plain)) /\ sent' = sent
    BY <1>2 DEF HostCommand, HostRejected, StubCommand
  <2> QED
    BY <2>1, SessionsFrame DEF Next
<1>3. CASE Sends \/ NoInvitation \/ NoResponse
  <2>1. /\ Sender!Work \/ Sender!Uninvited \/ Sender!Unanswered
        /\ UNCHANGED stub
    BY <1>3 DEF Sends, NoInvitation, NoResponse
  <2>2. Environment
    BY <1>0, <2>1, SenderOnLine DEF Environment, stub
  <2> QED
    BY <1>0, <2>1, <2>2, SenderOnLine DEF Next
<1>4. CASE StubGivesUp \/ PromptAgain
  BY <1>4 DEF StubGivesUp, PromptAgain, Next, StubStep, StubTimeout, host
<1>5. CASE Line
  <2>1. Environment
    BY <1>0, <1>5, LineOnLine DEF Line, Environment, stub
  <2> QED
    BY <1>5, <2>1 DEF Line, Next, host
<1>6. CASE UNCHANGED linkVars
  BY <1>6 DEF linkVars, host
<1> QED
  BY <1>1, <1>2, <1>3, <1>4, <1>5, <1>6 DEF LinkNext, HostWork, Timeout

(* The surplus prompts are counted. *)
LEMMA ExtraCounts ==
  ASSUME extra \in Nat, [LinkNext]_linkVars
  PROVE  extra' \in Nat
<1>1. CASE PromptAgain
  <2>1. extra' = extra \/ extra' = extra + 1
    BY <1>1 DEF PromptAgain
  <2> QED
    BY <2>1
<1>2. CASE ~PromptAgain
  <2>1. extra' = extra
    BY <1>2 DEF LinkNext, StubRuns, HostWork, HostCommand, HostRejected, Sends,
       Timeout, NoInvitation, NoResponse, StubGivesUp, Line, linkVars
  <2> QED
    BY <2>1
<1> QED
  BY <1>1, <1>2

(* It begins like that one, too. *)
LEMMA LinkStart == LinkInit => Init /\ Safe /\ Served
<1> SUFFICES ASSUME LinkInit PROVE Init /\ Safe /\ Served
  OBVIOUS
<1>1. Init /\ hpc = "idle" /\ sent = 0 /\ extra = 0
  BY DEF LinkInit
<1>2. pc = "idle" /\ result = "none" /\ Quiet
  BY <1>1 DEF Init, Quiet
<1>3. Served
  BY <1>1, <1>2, BlocksReach DEF Served, InputUsed
<1> QED
  BY <1>1, <1>3, SafeInit

(* A call goes as far as its input and the dictionary let it. *)
LEMMA CallDecodes ==
  ASSUME NEW d \in OneCall
  PROVE  d = Decoded(Consumed, Output(Consumed))
BY DEF OneCall

(* What a call of the decoder that wants more input has left of it. *)
LEMMA CallUsesInput ==
  ASSUME TypeOK, NEW d \in OneCall
  PROVE  d.verdict = "needs input" => d.unread = <<>>
<1>1. unread \in Seq(Byte) /\ Len(unread) \in Nat
  BY DEF TypeOK
<1>2. PICK k \in 0 .. Len(unread) : k = Consumed /\ Stops(k)
  BY ConsumedInInput
<1>3. d = Decoded(k, Output(k))
  BY <1>2, CallDecodes
<1>4. PICK out : out = Output(k)
  OBVIOUS
<1> DEFINE ends == over \/ (k > 0 /\ unread[k] \in Ends)
<1>5. /\ d.unread = SubSeq(unread, k + 1, Len(unread))
      /\ d.verdict = CASE Len(out) > room -> "has output"
                       [] k > 0 /\ unread[k] \in Invalid -> "failed"
                       [] ends -> "done"
                       [] OTHER -> "needs input"
  BY <1>3, <1>4 DEF Decoded
<1>6. d.verdict = "needs input" => k = Len(unread)
  <2>1. /\ k = Len(unread) \/ Len(out) > room
           \/ IF k = 0 THEN over ELSE unread[k] \in Ends \cup Invalid
    BY <1>2, <1>4 DEF Stops
  <2>2. d.verdict = "needs input" =>
          ~(Len(out) > room) /\ ~(k > 0 /\ unread[k] \in Invalid) /\ ~ends
    BY <1>5
  <2>3. k = 0 \/ k > 0
    BY <1>1
  <2> QED
    BY <2>1, <2>2, <2>3
<1>7. SubSeq(unread, Len(unread) + 1, Len(unread)) = <<>>
  BY <1>1
<1> QED
  BY <1>5, <1>6, <1>7

(* The decoder asks for a packet when it has used up its input.            *)
LEMMA InputUsedStep ==
  ASSUME Typed, InputUsed, [Next]_vars
  PROVE  InputUsed'
<1>1. ASSUME unread' = unread, verdict' = verdict, piece' = piece,
             pc' = "inflate" => pc = "inflate",
             pc' \in {"wake", "first", "marker", "packet"}
               => pc \in {"wake", "first", "marker", "packet"},
             pc' \in {"put", "flush"} => pc \in {"put", "flush"}
      PROVE  InputUsed'
  BY <1>1 DEF InputUsed
<1>2. CASE Reception /\ ~WantPacket /\ ~InflateMore
  BY <1>1, <1>2 DEF Reception, SendPrompt, PromptUnanswered, PacketMarker,
     AtMarker, UnknownMarker, ReadPacketByte, BadPacket, RepeatedPacket,
     PacketComplete, AwaitMarker, DropByte, StreamDone,
     Environment, RejectCommand, decoder, writer
<1>3. CASE WantPacket \/ InflateMore
  <2>1. /\ pc = "put" /\ piece = <<>> /\ piece' = piece /\ unread' = unread
        /\ pc' = "inflate" \/ (pc' = "marker" /\ (unread = <<>> \/ verdict = "needs input"))
    BY <1>3 DEF WantPacket, InflateMore, PieceDone, decoder, writer
  <2> QED
    BY <2>1 DEF InputUsed
<1>4. CASE Ending
  <2>1. pc' = "idle"
    BY <1>4 DEF Ending, NoSender, StreamBreaksOff, ReadTimeout, OutOfSequence,
       InflateTooLong, EraseFails, ProgramFails, StreamFails, EndOfTransfer,
       NoEndOfTransfer, Fail, Finish
  <2> QED
    BY <2>1 DEF InputUsed
<1>5. CASE NextPacket
  BY <1>5 DEF NextPacket, PacketComplete, InputUsed, writer
<1>6. CASE Inflate
  <2>1. PICK d \in OneCall : unread' = d.unread /\ verdict' = d.verdict
    BY <1>6 DEF Inflate
  <2>2. verdict' = "needs input" => unread' = <<>>
    BY <2>1, CallUsesInput DEF Typed
  <2> QED
    BY <1>6, <2>2 DEF Inflate, InputUsed
<1>7. CASE EraseSector \/ FillPage
  <2>1. unread' = unread /\ verdict' = verdict /\ pc = "put"
        /\ pc' \in {"put", "flush"}
    BY <1>7 DEF EraseSector, FillPage, decoder
  <2> QED
    BY <2>1 DEF InputUsed
<1>8. CASE SkipErasedPage \/ ProgramPage
  BY <1>1, <1>8 DEF SkipErasedPage, ProgramPage, PageFlushed, Flushing, decoder
<1>9. CASE \E o \in 0 .. Word - 1, n \in 0 .. Word - 1 : StartCommand(o, n)
  BY <1>9 DEF StartCommand, InputUsed
<1>10. CASE UNCHANGED vars
  BY <1>1, <1>10 DEF vars, decoder, writer
<1> QED
  BY <1>2, <1>3, <1>4, <1>5, <1>6, <1>7, <1>8, <1>9, <1>10 DEF Next,
     StubCommand, StubStep, StubWork, StubTimeout, Reception, Ending

(* What a step of the stub by itself does to the command. *)
LEMMA StubKeepsCommand ==
  ASSUME StubWork \/ StubTimeout
  PROVE  /\ off' = off /\ len' = len
         /\ pc' # "idle" \/ result' # result => pc # "idle"
         /\ StubWork /\ rx = <<>> => pc # "idle"
<1>1. CASE Ending
  <2>1. pc # "idle" /\ \E how \in {"done", "failed"} : Finish(how)
    BY <1>1 DEF Ending, NoSender, StreamBreaksOff, AtMarker, ReadTimeout,
       OutOfSequence, PacketComplete, InflateTooLong, EraseFails, ProgramFails,
       Flushing, StreamFails, PieceDone, EndOfTransfer, NoEndOfTransfer, Fail
  <2> QED
    BY <2>1 DEF Finish, command
<1>2. CASE \/ SendPrompt \/ PromptUnanswered \/ PacketMarker \/ UnknownMarker
           \/ ReadPacketByte \/ BadPacket \/ RepeatedPacket \/ InflateMore
           \/ WantPacket \/ StreamDone
  BY <1>2 DEF SendPrompt, PromptUnanswered, PacketMarker, AtMarker,
     UnknownMarker, ReadPacketByte, BadPacket, RepeatedPacket, PacketComplete,
     AwaitMarker, InflateMore, WantPacket, PieceDone, StreamDone, command
<1>3. CASE \/ NextPacket \/ Inflate \/ EraseSector \/ FillPage
           \/ SkipErasedPage \/ ProgramPage
  BY <1>3 DEF NextPacket, PacketComplete, Inflate, EraseSector, FillPage,
     SkipErasedPage, ProgramPage, PageFlushed, Flushing, command
<1>4. CASE DropByte
  BY <1>4 DEF DropByte, Receive, command
<1> QED
  BY <1>1, <1>2, <1>3, <1>4 DEF StubWork, StubTimeout, Ending

(* The stub serves the command of the session, once. *)
LEMMA ServedStep ==
  ASSUME Typed, Served, [LinkNext]_linkVars
  PROVE  Served'
<1>1. sent' \in 0 .. Sender!Blocks /\ extra' \in Nat /\ InputUsed'
  BY LinkStep, ExtraCounts, InputUsedStep DEF Served
<1>2. rx \in Seq(Byte) /\ tx \in Seq(Byte)
  BY DEF Typed, TypeOK
<1> DEFINE Mine == pc # "idle" \/ result # "none"
                     => off = Target /\ len = Len(Plain)
<1>3. ASSUME hpc' # "idle", Mine' PROVE Served'
  <2>1. Sender!Blocks' = Sender!Blocks
    BY DEF Sender!Blocks
  <2> QED
    BY <1>1, <1>3, <2>1 DEF Served
<1>4. CASE StubRuns
  <2>1. StubWork /\ hpc' = hpc
    BY <1>4 DEF StubRuns, host
  <2>2. hpc # "idle"
    BY <2>1, StubKeepsCommand DEF Served, Quiet
  <2>3. Mine'
    BY <2>1, StubKeepsCommand DEF Served
  <2> QED
    BY <1>3, <2>1, <2>2, <2>3
<1>5. CASE HostCommand
  <2>1. hpc' # "idle" /\ off' = Target /\ len' = Len(Plain)
    BY <1>5 DEF HostCommand, StartCommand
  <2>2. Plain' = Plain
    BY DEF Plain
  <2> QED
    BY <1>3, <2>1, <2>2
<1>6. CASE HostRejected
  <2>1. /\ hpc' # "idle" /\ pc' = pc /\ result' = result /\ hpc = "idle"
    BY <1>6 DEF HostRejected, RejectCommand
  <2> QED
    BY <1>3, <2>1 DEF Served
<1>7. CASE Sends \/ NoInvitation \/ NoResponse
  <2>1. /\ Sender!Work \/ Sender!Uninvited \/ Sender!Unanswered
        /\ UNCHANGED stub
    BY <1>7 DEF Sends, NoInvitation, NoResponse
  <2>2. hpc' # "idle"
    BY <1>2, <2>1, SenderOnLine DEF Served
  <2>3. Mine'
    BY <2>1 DEF Served, stub, command
  <2> QED
    BY <1>3, <2>2, <2>3
<1>8. CASE StubGivesUp \/ PromptAgain
  <2>1. StubTimeout /\ hpc' = hpc /\ pc # "idle"
    BY <1>8 DEF StubGivesUp, PromptAgain, StubTimeout, ReadTimeout,
       PromptUnanswered, host
  <2>2. Mine'
    BY <2>1, StubKeepsCommand DEF Served
  <2> QED
    BY <1>3, <2>1, <2>2 DEF Served
<1>9. CASE Line
  <2>1. hpc' = hpc /\ UNCHANGED stub
    BY <1>9 DEF Line, host
  <2>2. hpc # "idle"
    <3>1. rx # <<>> \/ tx # <<>> \/ pc # "idle"
      BY <1>9 DEF Line, Link!LoseByte, Link!LoseReply, Link!DamageByte, Busy
    <3> QED
      BY <3>1 DEF Served, Quiet
  <2>3. Mine'
    BY <2>1 DEF Served, stub, command
  <2> QED
    BY <1>3, <2>1, <2>2, <2>3
<1>10. CASE UNCHANGED linkVars
  <2>1. UNCHANGED <<hpc, pc, result, off, len, rx, tx>>
    BY <1>10 DEF linkVars, vars, host, command
  <2>2. CASE hpc # "idle"
    BY <1>3, <2>1, <2>2 DEF Served
  <2>3. CASE hpc = "idle"
    <3>1. Sender!Blocks' = Sender!Blocks /\ Plain' = Plain
      BY DEF Sender!Blocks, Plain
    <3> QED
      BY <1>1, <2>1, <3>1 DEF Served, Quiet
  <2> QED
    BY <2>2, <2>3
<1> QED
  BY <1>4, <1>5, <1>6, <1>7, <1>8, <1>9, <1>10
     DEF LinkNext, HostWork, Timeout

(* So the invariant of the command holds throughout a session. *)
LEMMA SessionSafe == LinkSafety => [](Safe /\ Served)
<1>1. LinkInit => Safe /\ Served
  BY LinkStart
<1>2. Safe /\ Served /\ [LinkNext]_linkVars => (Safe /\ Served)'
  BY LinkStep, SafeStep, ServedStep DEF Safe, Served
<1> QED
  BY <1>1, <1>2, PTL DEF LinkSafety

(* Every session is a behaviour of CompressedFlash, whatever the line      *)
(* loses, damages or delays, so that everything proved of 0x97 holds of it. *)
THEOREM Implementation == LinkSafety => Spec
<1>1. Safe /\ Served /\ [LinkNext]_linkVars => [Next]_vars
  BY LinkStep DEF Safe, Served
<1>2. LinkInit => Init
  BY LinkStart
<1> QED
  BY <1>1, <1>2, SessionSafe, PTL DEF LinkSafety, Spec

(* When the stub ends the write with ACK, the plain image is in the flash  *)
(* if what the page writer has taken is a prefix of it.                    *)
LEMMA OrderSuffices ==
  ASSUME Safe, Served, OutputIsPrefix, result = "done"
  PROVE  InPlace
<1>1. off = Target /\ len = Len(Plain)
  BY DEF Served
<1>2. Aligned
  BY <1>1, LinkAssumption DEF Aligned
<1>3. written = len /\ \A i \in 1 .. len : flash[off + i - 1] = accepted[i]
  BY <1>2 DEF Safe, Safety, DoneMeansComplete, WholeRangeWritten
<1>4. accepted = SubSeq(Plain, 1, Len(Plain))
  BY <1>1, <1>3 DEF OutputIsPrefix
<1>5. \A i \in 1 .. Len(Plain) : accepted[i] = Plain[i]
  BY <1>4, ImageSize
<1> QED
  BY <1>1, <1>3, <1>5 DEF InPlace

(* That the stub accepts a write therefore means that the plain image is   *)
(* in the flash, on any line and any chip, unless the line has made the    *)
(* decoder read other bytes than those of the image.                       *)
THEOREM Acceptance ==
  LinkSafety => [](OutputIsPrefix => AcceptedMeansWritten)
<1>1. Safe /\ Served => (OutputIsPrefix => AcceptedMeansWritten)
  BY OrderSuffices DEF AcceptedMeansWritten
<1> QED
  BY <1>1, SessionSafe, PTL

-----------------------------------------------------------------------------
(* What the decoder has been fed. *)

(* Bytes may be joined in any order. *)
LEMMA BytesJoin ==
  \A r, s, t \in Seq(Byte) : (r \o s) \o t = r \o (s \o t)
<1> SUFFICES ASSUME NEW r \in Seq(Byte), NEW s \in Seq(Byte),
                    NEW t \in Seq(Byte)
             PROVE  (r \o s) \o t = r \o (s \o t)
  OBVIOUS
<1>1. r \in Seq(Byte) /\ s \in Seq(Byte) /\ t \in Seq(Byte)
  OBVIOUS
<1> QED
  BY ONLY <1>1, Associative

(* A part of the image adds to the output what it stands for. *)
LEMMA ImageParts ==
  ASSUME NEW c \in 0 .. Len(Image), NEW s \in Seq(Byte),
         c + Len(s) <= Len(Image),
         \A i \in 1 .. Len(s) : s[i] = Image[c + i]
  PROVE  Inflated(SubSeq(Image, 1, c + Len(s)))
         = Inflated(SubSeq(Image, 1, c)) \o Inflated(s)
<1> DEFINE front == SubSeq(Image, 1, c)  longer == SubSeq(Image, 1, c + Len(s))
           both == front \o s
<1>1. Image \in Seq(Byte) /\ Len(Image) \in Nat /\ Len(s) \in Nat
  BY ImageSize
<1>2. /\ front \in Seq(Byte) /\ Len(front) = c
      /\ \A i \in 1 .. c : front[i] = Image[i]
  BY <1>1
<1>3. /\ longer \in Seq(Byte) /\ Len(longer) = c + Len(s)
      /\ \A i \in 1 .. c + Len(s) : longer[i] = Image[i]
  BY <1>1
<1>4. front \in Seq(Byte) /\ s \in Seq(Byte) /\ both = front \o s
  BY <1>2
<1> HIDE DEF front, longer, both
<1>5. /\ both \in Seq(Byte) /\ Len(both) = Len(front) + Len(s)
      /\ \A i \in 1 .. Len(front) : both[i] = front[i]
      /\ \A i \in 1 .. Len(s) : both[Len(front) + i] = s[i]
  BY ONLY <1>4, Concatenation
<1>6. ASSUME NEW i \in 1 .. Len(both) PROVE both[i] = longer[i]
  <2>1. CASE i <= c
    <3>1. i \in 1 .. c /\ i \in 1 .. Len(front) /\ i \in 1 .. c + Len(s)
      BY <1>1, <1>2, <1>5, <2>1
    <3>2. both[i] = front[i]
      BY <1>5, <3>1
    <3> QED
      BY <1>2, <1>3, <3>1, <3>2
  <2>2. CASE ~(i <= c)
    <3> DEFINE j == i - c
    <3>1. j \in 1 .. Len(s) /\ c + j = i /\ i \in 1 .. c + Len(s)
      BY <1>1, <1>2, <1>5, <2>2
    <3> HIDE DEF j
    <3>2. both[i] = s[j]
      BY <1>2, <1>5, <3>1
    <3> QED
      BY <1>3, <3>1, <3>2
  <2> QED
    BY <2>1, <2>2
<1>7. both = longer
  BY <1>2, <1>3, <1>5, <1>6, SameSequence
<1>8. Inflated(both) = Inflated(front) \o Inflated(s)
  BY <1>4, InflatedJoins
<1> QED
  BY <1>7, <1>8, Zenon DEF front, longer

(* What it has been fed of the image makes it deliver a prefix of what the *)
(* image stands for.                                                       *)
LEMMA FedPrefix ==
  ASSUME Typed, NEW b, Fed(b)
  PROVE  OutputIsPrefix
<1>1. PICK c \in 0 .. Len(Image) :
        (accepted \o piece) \o owed = Inflated(SubSeq(Image, 1, c))
  BY DEF Fed
<1> DEFINE s == SubSeq(Image, c + 1, Len(Image))  more == Inflated(s)
           later == owed \o more  rest == piece \o later
<1>2. /\ accepted \in Seq(Byte) /\ piece \in Seq(Byte) /\ owed \in Seq(Byte)
      /\ Len(accepted) = written
  BY DEF Typed, TypeOK, ThreadState
<1>3. /\ s \in Seq(Byte) /\ c + Len(s) = Len(Image)
      /\ \A i \in 1 .. Len(s) : s[i] = Image[c + i]
  BY ImageSize
<1> HIDE DEF s
<1>4. more \in Seq(Byte)
  BY <1>3, InflatedTyped
<1>5. Plain = ((accepted \o piece) \o owed) \o more
  <2>1. SubSeq(Image, 1, Len(Image)) = Image
    BY ImageSize
  <2>2. Inflated(SubSeq(Image, 1, c + Len(s)))
        = Inflated(SubSeq(Image, 1, c)) \o more
    <3>1. c + Len(s) <= Len(Image)
      BY <1>3, ImageSize
    <3> QED
      BY ONLY <1>3, <3>1, c \in 0 .. Len(Image), ImageParts DEF more
  <2> QED
    BY <1>1, <1>3, <2>1, <2>2, Zenon DEF Plain
<1> HIDE DEF more
<1>6. accepted \o piece \in Seq(Byte)
  BY <1>2, Concatenation
<1>7. later \in Seq(Byte)
  BY <1>2, <1>4, Concatenation
<1>8. ((accepted \o piece) \o owed) \o more = (accepted \o piece) \o later
  BY <1>2, <1>4, <1>6, BytesJoin, Zenon
<1> HIDE DEF later
<1>9. (accepted \o piece) \o later = accepted \o rest
  BY <1>2, <1>7, BytesJoin, Zenon
<1>10. rest \in Seq(Byte)
  BY <1>2, <1>7, Concatenation
<1> HIDE DEF rest
<1>11. Plain = accepted \o rest
  BY <1>5, <1>8, <1>9, Zenon
<1>12. SubSeq(accepted \o rest, 1, Len(accepted)) = accepted
  BY <1>2, <1>10, Parted
<1> QED
  BY <1>2, <1>11, <1>12, Zenon DEF OutputIsPrefix

(* It stays fed as long as nothing touches it, ... *)
LEMMA FedKept ==
  ASSUME NEW b, Fed(b), UNCHANGED <<accepted, piece, owed, over, unread>>
  PROVE  Fed(b)'
<1>1. Sender!Blocks' = Sender!Blocks
  BY DEF Sender!Blocks
<1>2. \A s : Inflated(s)' = Inflated(s)
  BY DEF Inflated, Ext!FlattenSeq
<1> QED
  BY <1>1, <1>2 DEF Fed

(* ... and when the page writer takes some of its output. *)
LEMMA FedFill ==
  ASSUME Typed, NEW b, Fed(b), FillPage
  PROVE  Fed(b)'
<1>1. PICK c \in 0 .. Len(Image) :
        /\ (accepted \o piece) \o owed = Inflated(SubSeq(Image, 1, c))
        /\ IF c = Len(Image) THEN over /\ b = Sender!Blocks
           ELSE /\ ~over /\ c + Len(unread) = b * HostBlock
                /\ \A i \in 1 .. Len(unread) :
                     c + i <= Len(Image) => unread[i] = Image[c + i]
  BY DEF Fed
<1>2. /\ accepted \in Seq(Byte) /\ piece \in Seq(Byte) /\ owed \in Seq(Byte)
  BY DEF Typed, TypeOK
<1>3. PICK n \in 1 .. PageSize : n = Smaller(PageSize - Len(page), Len(piece))
  BY FillPageFacts
<1> DEFINE chunk == SubSeq(piece, 1, n)
           rest == SubSeq(piece, n + 1, Len(piece))
<1>4. accepted' = accepted \o chunk /\ piece' = rest /\ owed' = owed
      /\ over' = over /\ unread' = unread
  BY <1>3 DEF FillPage, decoder
<1>5. n \in Nat /\ n <= Len(piece) /\ Len(piece) \in Nat
  <2>1. Len(page) \in Nat /\ PageSize \in Nat /\ Len(piece) \in Nat
    BY GeometryAssumption DEF Typed, TypeOK
  <2> QED
    BY <1>3, <2>1 DEF Smaller
<1>6. chunk \in Seq(Byte) /\ rest \in Seq(Byte) /\ chunk \o rest = piece
  <2>1. (IF n < Len(piece) THEN n ELSE Len(piece)) = n
    BY <1>5
  <2> QED
    BY <1>2, <1>5, <2>1, Cut
<1> HIDE DEF chunk, rest
<1>7. (accepted \o chunk) \o rest = accepted \o (chunk \o rest)
  <2>1. accepted \in Seq(Byte) /\ chunk \in Seq(Byte) /\ rest \in Seq(Byte)
    BY <1>2, <1>6
  <2> QED
    BY ONLY <2>1, BytesJoin, Zenon
<1>8. (accepted' \o piece') \o owed' = (accepted \o piece) \o owed
  BY <1>4, <1>6, <1>7, Zenon
<1>9. Sender!Blocks' = Sender!Blocks
  BY DEF Sender!Blocks
<1>10. Inflated(SubSeq(Image, 1, c))' = Inflated(SubSeq(Image, 1, c))
  BY DEF Inflated, Ext!FlattenSeq
<1> QED
  BY <1>1, <1>4, <1>8, <1>9, <1>10 DEF Fed

(* An empty stream stands for nothing, ... *)
LEMMA NoInput == Inflated(<<>>) = <<>>
<1>1. [i \in 1 .. Len(<<>>) |-> Expand(<<>>[i])] = <<>>
  OBVIOUS
<1> QED
  BY <1>1 DEF Inflated, Ext!FlattenSeq

(* ... so a command begins with a decoder that has been fed nothing.       *)
LEMMA FedStart ==
  ASSUME accepted' = <<>>, piece' = <<>>, owed' = <<>>, unread' = <<>>,
         over' = FALSE
  PROVE  Fed(0)'
<1>1. 0 \in 0 .. Len(Image) /\ 0 # Len(Image) /\ 0 * HostBlock = 0
  BY ImageSize
<1>2. SubSeq(Image, 1, 0) = <<>>
  BY ImageSize
<1>3. (accepted' \o piece') \o owed' = <<>>
  <2>1. <<>> \in Seq(Byte)
    OBVIOUS
  <2>2. <<>> \o <<>> = <<>>
    BY <2>1, NothingAdded, Zenon
  <2> QED
    BY <2>2, Zenon
<1>4. Inflated(SubSeq(Image, 1, 0))' = <<>>
  <2>1. Inflated(SubSeq(Image, 1, 0))' = Inflated(SubSeq(Image, 1, 0))
    BY DEF Inflated, Ext!FlattenSeq
  <2> QED
    BY <1>2, <2>1, NoInput, Zenon
<1>5. Len(unread') = 0
  OBVIOUS
<1>6. /\ (accepted' \o piece') \o owed' = Inflated(SubSeq(Image, 1, 0))'
      /\ ~over' /\ 0 + Len(unread') = 0 * HostBlock
      /\ \A i \in 1 .. Len(unread') : FALSE
  BY <1>1, <1>3, <1>4, <1>5
<1> QED
  BY <1>1, <1>6 DEF Fed

(* The next block follows what it has been fed. *)
LEMMA FedNext ==
  ASSUME Typed, InputUsed, NEW b \in 0 .. Sender!Blocks - 1, Fed(b),
         NextPacket, pkt = Sender!BlockPacket(b)
  PROVE  Fed(b + 1)'
<1>1. PICK c \in 0 .. Len(Image) :
        /\ (accepted \o piece) \o owed = Inflated(SubSeq(Image, 1, c))
        /\ IF c = Len(Image) THEN over /\ b = Sender!Blocks
           ELSE /\ ~over /\ c + Len(unread) = b * HostBlock
                /\ \A i \in 1 .. Len(unread) :
                     c + i <= Len(Image) => unread[i] = Image[c + i]
  BY DEF Fed
<1>2. b # Sender!Blocks /\ b \in Nat
  BY BlocksReach
<1>3. unread = <<>> /\ Len(unread) = 0
  BY DEF InputUsed, NextPacket, PacketComplete
<1>4. c # Len(Image) /\ ~over /\ c = b * HostBlock
  BY <1>1, <1>2, <1>3
<1>5. /\ pkt \in Seq(Byte) /\ Len(pkt) = HostBlock + 4
      /\ HostBlock \in Nat \ {0}
      /\ \A i \in 1 .. HostBlock :
           b * HostBlock + i <= Len(Image) =>
             pkt[3 + i] = Image[b * HostBlock + i]
  BY PacketOfBlock, ImageSize DEF PacketLen
<1>6. /\ unread' = SubSeq(pkt, 4, Len(pkt) - 1) /\ accepted' = accepted
      /\ piece' = piece /\ owed' = owed /\ over' = over
  BY DEF NextPacket, Payload, writer
<1>7. /\ Len(unread') = HostBlock
      /\ \A i \in 1 .. HostBlock : unread'[i] = pkt[3 + i]
  BY <1>5, <1>6
<1>8. c + Len(unread') = (b + 1) * HostBlock
  BY <1>2, <1>4, <1>5, <1>7
<1>9. \A i \in 1 .. Len(unread') :
        c + i <= Len(Image) => unread'[i] = Image[c + i]
  BY <1>4, <1>5, <1>7
<1>10. Inflated(SubSeq(Image, 1, c))' = Inflated(SubSeq(Image, 1, c))
  BY DEF Inflated, Ext!FlattenSeq
<1>11. (accepted' \o piece') \o owed' = Inflated(SubSeq(Image, 1, c))'
  BY <1>1, <1>6, <1>10, Zenon
<1>12. ~over'
  BY <1>4, <1>6
<1> QED
  BY <1>4, <1>8, <1>9, <1>11, <1>12 DEF Fed

(* A call takes the decoder as far into the image as it consumes input,    *)
(* and what it delivers and owes is what it owed and what that adds.       *)
LEMMA FedInflate ==
  ASSUME Typed, InputUsed, NEW b \in 0 .. Sender!Blocks, Fed(b), Inflate
  PROVE  Fed(b)'
<1>1. PICK c \in 0 .. Len(Image) :
        /\ (accepted \o piece) \o owed = Inflated(SubSeq(Image, 1, c))
        /\ IF c = Len(Image) THEN over /\ b = Sender!Blocks
           ELSE /\ ~over /\ c + Len(unread) = b * HostBlock
                /\ \A i \in 1 .. Len(unread) :
                     c + i <= Len(Image) => unread[i] = Image[c + i]
  BY DEF Fed
<1>2. /\ accepted \in Seq(Byte) /\ owed \in Seq(Byte) /\ unread \in Seq(Byte)
      /\ piece = <<>> /\ room \in Nat \ {0} /\ Len(unread) \in Nat
      /\ over \in BOOLEAN
  <2>1. DictSize \in Nat
    BY StreamAssumption
  <2> QED
    BY <2>1 DEF Typed, TypeOK, InputUsed, Inflate
<1>3. PICK k \in 0 .. Len(unread) :
        k = Consumed /\ Stops(k) /\ \A j \in 0 .. k - 1 : ~Stops(j)
  BY ConsumedInInput DEF Typed
<1>4. PICK d \in OneCall :
        /\ piece' = d.piece /\ owed' = d.owed /\ over' = d.over
        /\ unread' = d.unread
  BY DEF Inflate
<1>5. d = Decoded(k, Output(k))
  BY <1>3, CallDecodes
<1> DEFINE taken == SubSeq(unread, 1, k)  out == owed \o Inflated(taken)
           front == SubSeq(out, 1, Smaller(room, Len(out)))
           back == SubSeq(out, room + 1, Len(out))
<1>6. Output(k) = out
  BY DEF Output
<1>7. /\ accepted' = accepted /\ piece' = front /\ owed' = back
      /\ over' = (over \/ (k > 0 /\ unread[k] \in Ends))
      /\ unread' = SubSeq(unread, k + 1, Len(unread))
  <2>1. accepted' = accepted
    BY DEF Inflate
  <2> HIDE DEF out
  <2> QED
    BY <1>4, <1>5, <1>6, <2>1 DEF Decoded
<1>8. /\ taken \in Seq(Byte) /\ Len(taken) = k
      /\ \A i \in 1 .. k : taken[i] = unread[i]
  BY <1>2
<1> HIDE DEF taken
<1>9. Inflated(taken) \in Seq(Byte)
  BY <1>8, InflatedTyped
<1>10. out \in Seq(Byte)
  BY <1>2, <1>9, Concatenation
<1> HIDE DEF out
<1>11. front \in Seq(Byte) /\ back \in Seq(Byte) /\ front \o back = out
  <2>1. Smaller(room, Len(out)) = IF room < Len(out) THEN room ELSE Len(out)
    BY <1>2, <1>10 DEF Smaller
  <2>2. room \in Nat
    BY <1>2
  <2> QED
    BY <1>10, <2>1, <2>2, Cut
<1> HIDE DEF front, back
<1>12. (accepted' \o piece') \o owed' = (accepted \o owed) \o Inflated(taken)
  <2>1. (accepted \o front) \o back = accepted \o (front \o back)
    BY <1>2, <1>11, BytesJoin, Zenon
  <2>2. accepted \o (owed \o Inflated(taken))
        = (accepted \o owed) \o Inflated(taken)
    BY <1>2, <1>9, BytesJoin, Zenon
  <2> QED
    BY <1>7, <1>11, <2>1, <2>2, Zenon DEF out
<1>13. accepted \o owed = Inflated(SubSeq(Image, 1, c))
  <2>1. accepted \o piece = accepted
    BY <1>2, NothingAdded, Zenon
  <2> QED
    BY <1>1, <2>1, Zenon
<1>14. \A s : Inflated(s)' = Inflated(s)
  BY DEF Inflated, Ext!FlattenSeq
<1>15. Sender!Blocks' = Sender!Blocks
  BY DEF Sender!Blocks
<1>16. CASE c = Len(Image)
  <2>1. over /\ b = Sender!Blocks
    BY <1>1, <1>16
  <2>2. k = 0
    <3>1. Stops(0)
      BY <2>1 DEF Stops
    <3> QED
      BY <1>2, <1>3, <3>1
  <2>3. taken = <<>>
    BY <1>8, <2>2
  <2>4. (accepted \o owed) \o <<>> = accepted \o owed
    <3>1. accepted \o owed \in Seq(Byte)
      BY <1>2, Concatenation
    <3> QED
      BY <3>1, NothingAdded, Zenon
  <2>5. (accepted' \o piece') \o owed' = Inflated(SubSeq(Image, 1, c))'
    BY <1>12, <1>13, <1>14, <2>3, <2>4, NoInput, Zenon
  <2>6. over'
    BY <1>7, <2>1
  <2> QED
    BY <1>15, <1>16, <2>1, <2>5, <2>6 DEF Fed
<1>17. CASE c # Len(Image)
  <2>0. Image \in Seq(Byte) /\ Len(Image) \in Nat /\ c \in Nat /\ c < Len(Image)
    BY <1>17, ImageSize
  <2>1. /\ ~over /\ c + Len(unread) = b * HostBlock
        /\ \A i \in 1 .. Len(unread) :
             c + i <= Len(Image) => unread[i] = Image[c + i]
    BY <1>1, <1>17
  <2>2. c + k <= Len(Image)
    <3> SUFFICES ASSUME c + k > Len(Image) PROVE FALSE
      BY <1>2, <2>0
    <3> DEFINE m == Len(Image) - c
    <3>1. m \in 1 .. Len(unread) /\ m \in 0 .. k - 1 /\ c + m = Len(Image)
          /\ m # 0
      BY <1>2, <1>3, <2>0
    <3> HIDE DEF m
    <3>2. unread[m] = Image[Len(Image)]
      BY <2>0, <2>1, <3>1
    <3>3. Image[Len(Image)] \in Ends
      BY <2>0, ImageAssumption
    <3>4. Stops(m)
      BY <3>1, <3>2, <3>3 DEF Stops
    <3> QED
      BY <1>3, <3>1, <3>4
  <2>3. \A i \in 1 .. k : taken[i] = Image[c + i]
    <3> SUFFICES ASSUME NEW i \in 1 .. k PROVE taken[i] = Image[c + i]
      OBVIOUS
    <3>1. i \in 1 .. Len(unread) /\ c + i <= Len(Image)
      BY <1>2, <2>0, <2>2
    <3> QED
      BY <1>8, <2>1, <3>1
  <2>4. Inflated(SubSeq(Image, 1, c + k))
        = Inflated(SubSeq(Image, 1, c)) \o Inflated(taken)
    <3>1. /\ taken \in Seq(Byte) /\ c + Len(taken) <= Len(Image)
          /\ \A i \in 1 .. Len(taken) : taken[i] = Image[c + i]
      BY <1>8, <2>2, <2>3
    <3>2. Inflated(SubSeq(Image, 1, c + Len(taken)))
          = Inflated(SubSeq(Image, 1, c)) \o Inflated(taken)
      BY ONLY <3>1, c \in 0 .. Len(Image), ImageParts
    <3> QED
      BY <1>8, <3>2, Zenon
  <2>5. (accepted' \o piece') \o owed' = Inflated(SubSeq(Image, 1, c + k))'
    BY <1>12, <1>13, <1>14, <2>4, Zenon
  <2>6. over' <=> c + k = Len(Image)
    <3>1. CASE k = 0
      <4>1. ~(k > 0) /\ c + k # Len(Image)
        BY <2>0, <3>1
      <4> QED
        BY <1>7, <2>1, <4>1, Zenon
    <3>2. CASE k # 0
      <4>1. k \in 1 .. Len(unread) /\ c + k \in 1 .. Len(Image)
        BY <1>2, <2>0, <2>2, <3>2
      <4>2. unread[k] = Image[c + k]
        BY <2>1, <2>2, <4>1
      <4>3. Image[c + k] \in Ends <=> c + k = Len(Image)
        BY <4>1, ImageAssumption
      <4>4. k > 0
        BY <4>1
      <4> QED
        BY <1>7, <2>1, <4>2, <4>3, <4>4, Zenon
    <3> QED
      BY <3>1, <3>2
  <2>7. c + k \in 0 .. Len(Image)
    BY <2>0, <2>2
  <2>8. c + k = Len(Image) => b = Sender!Blocks
    <3> SUFFICES ASSUME c + k = Len(Image), b # Sender!Blocks PROVE FALSE
      OBVIOUS
    <3>1. b \in Nat /\ b < Sender!Blocks /\ b * HostBlock \in Nat
      BY BlocksReach, ImageSize
    <3>2. b * HostBlock < Len(Image)
      BY <3>1, BlocksReach
    <3> QED
      BY <1>2, <2>0, <2>1, <3>1, <3>2
  <2>9. /\ (c + k) + Len(unread') = b * HostBlock
        /\ \A i \in 1 .. Len(unread') :
             (c + k) + i <= Len(Image) => unread'[i] = Image[(c + k) + i]
    <3>1. /\ Len(unread') = Len(unread) - k
          /\ \A i \in 1 .. Len(unread) - k : unread'[i] = unread[k + i]
      BY <1>2, <1>7
    <3>2. (c + k) + Len(unread') = b * HostBlock
      BY <1>2, <2>0, <2>1, <3>1
    <3>3. ASSUME NEW i \in 1 .. Len(unread'), (c + k) + i <= Len(Image)
          PROVE  unread'[i] = Image[(c + k) + i]
      <4>1. k + i \in 1 .. Len(unread) /\ c + (k + i) = (c + k) + i
            /\ unread'[i] = unread[k + i]
        BY <1>2, <2>0, <3>1
      <4> QED
        BY <2>1, <3>3, <4>1
    <3> QED
      BY <3>2, <3>3
  <2> QED
    BY <1>15, <2>5, <2>6, <2>7, <2>8, <2>9 DEF Fed
<1> QED
  BY <1>16, <1>17

-----------------------------------------------------------------------------
(* Who can move where. *)

(* The stub's steps at each point of its code. *)
LEMMA StubAt ==
  ASSUME StubWork
  PROVE  /\ pc = "idle" => DropByte
         /\ pc = "wake" => SendPrompt \/ NoSender
         /\ pc \in {"first", "marker"} => \/ PacketMarker \/ StreamBreaksOff
                                          \/ UnknownMarker
         /\ pc = "packet" => \/ ReadPacketByte \/ BadPacket \/ RepeatedPacket
                             \/ OutOfSequence \/ NextPacket
         /\ pc = "inflate" => Inflate \/ InflateTooLong
         /\ pc = "put" => \/ EraseSector \/ EraseFails \/ FillPage
                          \/ InflateMore \/ WantPacket \/ StreamDone
                          \/ StreamFails
         /\ pc \in {"flush", "last"} => \/ SkipErasedPage \/ ProgramPage
                                        \/ ProgramFails
         /\ pc = "finish" => EndOfTransfer \/ NoEndOfTransfer
BY DEF StubWork, SendPrompt, NoSender, PacketMarker, AtMarker,
   StreamBreaksOff, UnknownMarker, ReadPacketByte, BadPacket, RepeatedPacket,
   OutOfSequence, NextPacket, PacketComplete, Inflate, InflateTooLong,
   EraseSector, EraseFails, FillPage, SkipErasedPage, ProgramPage,
   ProgramFails, Flushing, InflateMore, WantPacket, StreamDone, StreamFails,
   PieceDone, EndOfTransfer, NoEndOfTransfer, DropByte

(* The sender's at each of its. *)
LEMMA SenderAt ==
  ASSUME Sends
  PROVE  /\ UNCHANGED stub
         /\ hpc \in {"start", "send", "await"}
         /\ hpc = "start" => Sender!SkipReply \/ Sender!Invited
         /\ hpc = "send" => Sender!Transmit \/ Sender!GiveUp
         /\ hpc = "await" => \/ Sender!SkipReply \/ Sender!Acknowledged
                             \/ Sender!AskedAgain \/ Sender!Cancelled
BY DEF Sends, Sender!Work, Sender!SkipReply, Sender!Invited, Sender!Transmit,
   Sender!GiveUp, Sender!Acknowledged, Sender!AskedAgain, Sender!Cancelled

(* A line on which packets arrive whole damages what is inside of one, and *)
(* loses replies and what does not fit the FIFO.                           *)
LEMMA LineAt ==
  ASSUME OneAtATime, Line
  PROVE  /\ UNCHANGED stub /\ UNCHANGED host
         /\ \/ /\ pc = "packet" /\ rx # <<>>
               /\ rx' = [rx EXCEPT ![1] = Link!Noise] /\ tx' = tx
            \/ tx # <<>> /\ tx' = Tail(tx) /\ rx' = rx
            \/ Busy /\ Len(rx) > FifoDepth /\ tx' = tx
<1>1. ~Link!LoseByte
  BY DEF OneAtATime, Link!LoseByte, Link!Fault
<1>2. Link!DamageByte(IF pc = "packet" THEN "damaged packet"
                      ELSE "damaged marker")
      => /\ pc = "packet" /\ rx # <<>>
         /\ rx' = [rx EXCEPT ![1] = Link!Noise] /\ tx' = tx
  BY DEF OneAtATime, Link!DamageByte, Link!Fault
<1> QED
  BY <1>1, <1>2 DEF Line, Link!LoseReply, Link!Overrun

(* Timeouts pass only in silence, only while nothing is due to be read and *)
(* never while the stub is busy.                                           *)
LEMMA TimeAt ==
  ASSUME Served, OneAtATime, Timeout
  PROVE  /\ rx = <<>>
         /\ \/ /\ NoInvitation /\ hpc = "start" /\ pc = "idle"
               /\ UNCHANGED stub
            \/ /\ NoResponse /\ hpc = "await" /\ tx = <<>> /\ UNCHANGED stub
               /\ pc \in {"idle", "marker", "packet", "finish"}
               /\ ~PacketComplete
            \/ /\ StubGivesUp \/ PromptAgain
               /\ UNCHANGED host /\ hpc # "send"
               /\ hpc \in {"start", "await"} => tx = <<>>
<1>1. CASE NoInvitation
  BY <1>1 DEF NoInvitation, Sender!Uninvited
<1>2. CASE NoResponse
  <2>1. ~Link!Fault("slow flash")
    BY DEF OneAtATime, Link!Fault
  <2> QED
    BY <1>2, <2>1 DEF NoResponse, Sender!Unanswered
<1>3. CASE StubGivesUp
  BY <1>3 DEF StubGivesUp, ReadTimeout, Silent, Sender!AnswerDue
<1>4. CASE PromptAgain
  <2>1. conditions.extra = 0 /\ extra \in Nat
    BY DEF OneAtATime, Served
  <2>2. Sender!AnswerDue => extra < conditions.extra
    BY <1>4 DEF PromptAgain
  <2> QED
    BY <1>4, <2>1, <2>2 DEF PromptAgain, PromptUnanswered, Silent,
       Sender!AnswerDue
<1> QED
  BY <1>1, <1>2, <1>3, <1>4 DEF Timeout

(* What the two sides have told each other stands as long as neither of    *)
(* them moves on.                                                          *)
LEMMA Kept ==
  ASSUME sent' = sent, expected' = expected,
         UNCHANGED <<accepted, piece, owed, over, unread>>
  PROVE  (Fresh => Fresh') /\ (Taken => Taken')
<1>1. Sender!Blocks' = Sender!Blocks /\ \A b : Number(b)' = Number(b)
  BY DEF Sender!Blocks, Number
<1>2. Fed(sent) => Fed(sent)'
  BY FedKept DEF Fed
<1>3. Fed(sent + 1) => Fed(sent + 1)'
  BY FedKept DEF Fed
<1> QED
  BY <1>1, <1>2, <1>3 DEF Fresh, Taken

LEMMA Stutters ==
  ASSUME InTurn, UNCHANGED linkVars
  PROVE  InTurn'
<1>1. /\ UNCHANGED <<hpc, sent, pc, pkt, expected, result, rx, tx>>
      /\ UNCHANGED <<accepted, piece, owed, over, unread>>
  BY DEF linkVars, vars, host, reception, decoder, writer
<1>2. (Fresh => Fresh') /\ (Taken => Taken')
  BY <1>1, Kept
<1>3. /\ \A b : Sender!BlockPacket(b)' = Sender!BlockPacket(b)
      /\ Sender!Blocks' = Sender!Blocks
  BY DEF Sender!BlockPacket, Sender!Blocks
<1> QED
  BY <1>1, <1>2, <1>3 DEF InTurn, Unopened, Inviting, ProbesTurn,
     PacketComing, Unpacking, Busy, EndComing, Answering, StubBack, ProbeBack,
     Delivered, Quiet, Arrives

(* A step of either program, of a timer or of the line. *)
Works == (StubWork /\ UNCHANGED host) \/ Sends \/ Timeout \/ Line

LEMMA Opened ==
  ASSUME hpc # "idle", LinkNext
  PROVE  Works
BY DEF LinkNext, StubRuns, HostWork, HostCommand, HostRejected, Works, host

(* A stub that cancels the transfer has not answered with ACK. *)
LEMMA Cancelling ==
  ASSUME tx = <<>>, Cancel
  PROVE  \A i \in 1 .. Len(tx') : tx'[i] # ACK
<1>1. Len(tx') = 2 /\ tx'[1] = CAN /\ tx'[2] = CAN
  BY DEF Cancel
<1> QED
  BY <1>1 DEF CAN, ACK

(* A stub that fails while the probe waits for its answer ends the write.  *)
LEMMA FailingBack ==
  ASSUME hpc \in {"start", "send", "await"}, hpc' = hpc, tx = <<>>, Fail
  PROVE  InTurn'
<1>1. Cancel /\ pc' = "idle"
  BY DEF Fail, Finish
<1> QED
  BY <1>1, Cancelling DEF InTurn, StubBack

(* The command reaches the stub, or ends the write. *)
LEMMA FromUnopened ==
  ASSUME Safe, Served, Unopened, LinkNext
  PROVE  InTurn'
<1>1. /\ hpc = "idle" /\ sent = 0 /\ rx = <<>> /\ tx = <<>> /\ pc = "idle"
  BY DEF Unopened, Quiet, Served
<1>2. CASE HostCommand
  <2>1. /\ hpc' \in {"start", "failed"} /\ sent' = 0 /\ rx' = <<>>
        /\ tx' = <<>> /\ pkt' = <<>> /\ pc' = "wake" /\ expected' = 1
        /\ accepted' = <<>> /\ piece' = <<>> /\ owed' = <<>>
        /\ unread' = <<>> /\ over' = FALSE
    BY <1>1, <1>2 DEF HostCommand, StartCommand
  <2>2. Number(0) = 1
    BY PacketAssumption DEF Number
  <2>3. Fed(0)'
    BY <2>1, FedStart
  <2>4. Fresh'
    BY <2>1, <2>2, <2>3 DEF Fresh, Fed, Number
  <2> QED
    BY <2>1, <2>4 DEF InTurn, Inviting, ProbeBack
<1>3. CASE HostRejected
  <2>1. hpc' = "failed" /\ pc' = "idle"
    BY <1>1, <1>3 DEF HostRejected, RejectCommand
  <2> QED
    BY <2>1 DEF InTurn, ProbeBack
<1>4. ~Works
  <2>1. ~StubWork
    BY <1>1, StubKeepsCommand
  <2>2. ~Sends
    BY <1>1, SenderAt
  <2>3. ~Timeout
    BY <1>1 DEF Timeout, NoInvitation, NoResponse, StubGivesUp, PromptAgain,
       Sender!Uninvited, Sender!Unanswered, ReadTimeout, PromptUnanswered
  <2>4. ~Line
    BY <1>1 DEF Line, Link!LoseByte, Link!LoseReply, Link!DamageByte, Busy
  <2> QED
    BY <2>1, <2>2, <2>3, <2>4 DEF Works
<1> QED
  BY <1>2, <1>3, <1>4 DEF LinkNext, StubRuns, HostWork, Works

(* A probe that has ended the write leaves the stub to invite nobody,      *)
(* until it is back in its command loop.                                   *)
LEMMA FromProbeBack ==
  ASSUME Safe, Served, OneAtATime, ProbeBack, Works
  PROVE  InTurn'
<1>1. /\ hpc = "failed"
      /\ \/ pc = "idle"
         \/ pc \in {"wake", "first", "marker", "finish"} /\ rx = <<>>
  BY DEF ProbeBack
<1> SUFFICES ASSUME ~ProbeBack' PROVE FALSE
  BY DEF InTurn
<1>2. CASE StubWork /\ UNCHANGED host
  <2>1. hpc' = "failed"
    BY <1>1, <1>2 DEF host
  <2>2. CASE pc = "idle"
    BY <1>2, <2>1, <2>2, StubAt DEF DropByte, ProbeBack
  <2>3. CASE pc = "wake" /\ rx = <<>>
    <3>1. rx' = rx /\ pc' \in {"idle", "first"}
      BY <1>2, <2>3, StubAt DEF SendPrompt, NoSender, Fail, Finish
    <3> QED
      BY <2>1, <2>3, <3>1 DEF ProbeBack
  <2>4. CASE pc \in {"first", "marker", "finish"} /\ rx = <<>>
    BY <1>2, <2>4, StubAt DEF PacketMarker, StreamBreaksOff, UnknownMarker,
       EndOfTransfer, NoEndOfTransfer, Receive
  <2> QED
    BY <1>1, <2>2, <2>3, <2>4
<1>3. CASE Sends
  BY <1>1, <1>3, SenderAt
<1>4. CASE Timeout
  <2>1. /\ StubGivesUp \/ PromptAgain
        /\ UNCHANGED host
    BY <1>1, <1>4, TimeAt
  <2>2. hpc' = "failed"
    BY <1>1, <2>1 DEF host
  <2>3. pc' = "idle" \/ (pc = "first" /\ pc' = "wake" /\ rx' = rx)
    BY <2>1 DEF StubGivesUp, PromptAgain, ReadTimeout, PromptUnanswered,
       Fail, Finish
  <2> QED
    BY <1>1, <2>2, <2>3 DEF ProbeBack
<1>5. CASE Line
  <2>1. hpc' = "failed" /\ pc' = pc
    BY <1>1, <1>5, LineAt DEF stub, host
  <2>2. pc = "idle" \/ rx' = rx
    BY <1>1, <1>5, LineAt DEF Busy
  <2> QED
    BY <1>1, <2>1, <2>2 DEF ProbeBack
<1> QED
  BY <1>2, <1>3, <1>4, <1>5 DEF Works

(* A success stays one. *)
LEMMA FromDelivered ==
  ASSUME Safe, Served, OneAtATime, Delivered, Works
  PROVE  InTurn'
<1>1. hpc = "ok" /\ result = "done" /\ pc = "idle"
  BY DEF Delivered, Safe, Typed, WriterState
<1>2. hpc' = "ok" /\ result' = "done"
  <2>1. CASE StubWork /\ UNCHANGED host
    BY <1>1, <2>1, StubAt DEF DropByte, host
  <2>2. CASE Sends
    BY <1>1, <2>2, SenderAt
  <2>3. CASE Timeout
    BY <1>1, <2>3, TimeAt DEF StubGivesUp, PromptAgain, ReadTimeout,
       PromptUnanswered
  <2>4. CASE Line
    BY <1>1, <2>4, LineAt DEF stub, host
  <2> QED
    BY <2>1, <2>2, <2>3, <2>4 DEF Works
<1> QED
  BY <1>2 DEF InTurn, Delivered

(* When the stub has ended the transfer, the probe still reads what was    *)
(* sent before, and finds an ACK only if the stub has ended it well.       *)
LEMMA FromStubBack ==
  ASSUME Safe, Served, OneAtATime, StubBack, Works
  PROVE  InTurn'
<1>1. /\ hpc \in {"start", "send", "await"} /\ pc = "idle"
      /\ result # "done" => \A i \in 1 .. Len(tx) : tx[i] # ACK
  BY DEF StubBack
<1>2. tx \in Seq(Byte)
  BY DEF Safe, Typed, TypeOK
<1>3. tx # <<>> => /\ Head(tx) = tx[1] /\ Len(tx) \in Nat \ {0}
                   /\ Len(Tail(tx)) = Len(tx) - 1
                   /\ \A i \in 1 .. Len(Tail(tx)) : Tail(tx)[i] = tx[i + 1]
  BY <1>2, Shortened
<1>4. ASSUME hpc' \in {"start", "send", "await"}, pc' = pc, result' = result,
             tx' = tx \/ (tx # <<>> /\ tx' = Tail(tx))
      PROVE  InTurn'
  <2>1. result' # "done" => \A i \in 1 .. Len(tx') : tx'[i] # ACK
    <3>1. CASE tx' = tx
      BY <1>1, <1>4, <3>1
    <3>2. CASE tx # <<>> /\ tx' = Tail(tx)
      <4> SUFFICES ASSUME result # "done", NEW i \in 1 .. Len(Tail(tx))
                   PROVE  Tail(tx)[i] # ACK
        BY <1>4, <3>2
      <4>1. i + 1 \in 1 .. Len(tx) /\ Tail(tx)[i] = tx[i + 1]
        BY <1>3, <3>2
      <4> QED
        BY <1>1, <4>1
    <3> QED
      BY <1>4, <3>1, <3>2
  <2> QED
    BY <1>1, <1>4, <2>1 DEF InTurn, StubBack
<1>5. CASE StubWork /\ UNCHANGED host
  BY <1>1, <1>4, <1>5, StubAt DEF DropByte, host
<1>6. CASE Sends
  <2>1. pc' = pc /\ result' = result
    BY <1>6, SenderAt DEF stub
  <2>2. CASE Sender!SkipReply \/ Sender!Invited \/ Sender!AskedAgain
             \/ Sender!Transmit
    <3>1. /\ hpc' \in {"start", "send", "await"}
          /\ tx' = tx \/ (tx # <<>> /\ tx' = Tail(tx))
      BY <1>1, <2>2 DEF Sender!SkipReply, Sender!Invited, Sender!AskedAgain,
         Sender!Transmit, Sender!Reply
    <3> QED
      BY <1>4, <2>1, <3>1
  <2>3. CASE Sender!GiveUp \/ Sender!Cancelled
    BY <1>1, <2>1, <2>3 DEF Sender!GiveUp, Sender!Cancelled, InTurn, ProbeBack
  <2>4. CASE Sender!Acknowledged
    <3>1. /\ tx # <<>> /\ tx' = Tail(tx) /\ Head(tx) = ACK
          /\ hpc' \in {"send", "ok"}
      BY <2>4 DEF Sender!Acknowledged, Sender!Reply, Sender!ACK, ACK
    <3>2. result = "done"
      BY <1>1, <1>3, <3>1
    <3>3. CASE hpc' = "send"
      BY <1>4, <2>1, <3>1, <3>3
    <3>4. CASE hpc' = "ok"
      BY <2>1, <3>2, <3>4 DEF InTurn, Delivered
    <3> QED
      BY <3>1, <3>3, <3>4
  <2> QED
    BY <1>6, <2>2, <2>3, <2>4, SenderAt
<1>7. CASE Timeout
  <2>1. CASE NoInvitation
    <3>1. hpc' = "failed" /\ pc' = pc
      BY <2>1 DEF NoInvitation, Sender!Uninvited, stub
    <3> QED
      BY <1>1, <3>1 DEF InTurn, ProbeBack
  <2>2. CASE NoResponse
    <3>1. hpc' = "send" /\ pc' = pc /\ result' = result /\ tx' = tx
      BY <2>2 DEF NoResponse, Sender!Unanswered, stub
    <3> QED
      BY <1>4, <3>1
  <2> QED
    BY <1>1, <1>7, <2>1, <2>2 DEF Timeout, StubGivesUp, PromptAgain,
       ReadTimeout, PromptUnanswered
<1>8. CASE Line
  BY <1>1, <1>4, <1>8, LineAt DEF stub, host
<1> QED
  BY <1>5, <1>6, <1>7, <1>8 DEF Works

(* While the stub invites, the probe waits for its prompt. *)
LEMMA FromInviting ==
  ASSUME Safe, Served, OneAtATime, Inviting, Works
  PROVE  InTurn'
<1>1. /\ hpc = "start" /\ sent = 0 /\ rx = <<>> /\ pkt = <<>> /\ Fresh
      /\ pc \in {"wake", "first"}
      /\ tx = <<>> \/ (pc = "first" /\ tx = <<CRC_MODE>>)
  BY DEF Inviting
<1>2. ASSUME hpc' = hpc, sent' = sent, rx' = rx, pkt' = pkt,
             expected' = expected, pc' \in {"wake", "first"},
             UNCHANGED <<accepted, piece, owed, over, unread>>,
             tx' = <<>> \/ (pc' = "first" /\ tx' = <<CRC_MODE>>)
      PROVE  InTurn'
  BY <1>1, <1>2, Kept DEF InTurn, Inviting
<1>3. CASE StubWork /\ UNCHANGED host
  <2>1. hpc' = hpc /\ sent' = sent
    BY <1>1, <1>3 DEF host
  <2>2. CASE pc = "wake"
    <3>1. CASE NoSender
      BY <1>1, <2>1, <2>2, <3>1, FailingBack DEF NoSender
    <3>2. CASE SendPrompt
      <4>1. tx' = <<CRC_MODE>>
        BY <1>1, <2>2, <3>2 DEF SendPrompt, Send
      <4> QED
        BY <1>2, <2>1, <3>2, <4>1 DEF SendPrompt, decoder, writer
    <3> QED
      BY <1>3, <2>2, <3>1, <3>2, StubAt
  <2>3. pc # "first"
    BY <1>1, <1>3, StubAt DEF PacketMarker, StreamBreaksOff, UnknownMarker,
       Receive
  <2> QED
    BY <1>1, <2>2, <2>3
<1>5. CASE Sends
  <2>1. Sender!SkipReply \/ Sender!Invited
    BY <1>1, <1>5, SenderAt
  <2>2. tx = <<CRC_MODE>> /\ pc = "first" /\ Head(tx) = CRC_MODE
        /\ Tail(tx) = <<>>
    <3>1. tx # <<>>
      BY <2>1 DEF Sender!SkipReply, Sender!Invited, Sender!Reply
    <3>2. tx = <<CRC_MODE>> /\ pc = "first"
      BY <1>1, <3>1
    <3>3. Head(<<CRC_MODE>>) = CRC_MODE /\ Tail(<<CRC_MODE>>) = <<>>
      OBVIOUS
    <3> QED
      BY <3>2, <3>3
  <2>3. Sender!Invited
    BY <1>1, <2>1, <2>2 DEF Sender!SkipReply, Sender!CRC_MODE, CRC_MODE
  <2>4. /\ hpc' = "send" /\ sent' = sent /\ rx' = <<>> /\ tx' = <<>>
    BY <1>1, <2>2, <2>3 DEF Sender!Invited, Sender!Reply
  <2>5. /\ pc' = pc /\ pkt' = pkt /\ expected' = expected
        /\ UNCHANGED <<accepted, piece, owed, over, unread>>
    BY <1>5, SenderAt DEF stub, reception, decoder, writer
  <2>6. sent' < Sender!Blocks' /\ Sender!Blocks' = Sender!Blocks
    BY <1>1, <2>4, BlocksReach DEF Sender!Blocks
  <2> QED
    BY <1>1, <2>2, <2>4, <2>5, <2>6, Kept DEF InTurn, ProbesTurn, Quiet
<1>6. CASE Timeout
  <2>1. /\ PromptAgain \/ StubGivesUp
        /\ UNCHANGED host /\ tx = <<>>
    BY <1>1, <1>6, TimeAt
  <2>2. ~StubGivesUp
    BY <1>1 DEF StubGivesUp, ReadTimeout
  <2>3. PromptAgain /\ hpc' = hpc /\ sent' = sent
    BY <2>1, <2>2 DEF host
  <2> QED
    BY <1>1, <1>2, <2>1, <2>3 DEF PromptAgain, PromptUnanswered, reception,
       decoder, writer
<1>7. CASE Line
  <2>1. tx # <<>> /\ tx' = Tail(tx) /\ rx' = rx
    BY <1>1, <1>7, LineAt DEF Busy
  <2>2. tx' = <<>>
    <3>1. tx = <<CRC_MODE>>
      BY <1>1, <2>1
    <3>2. Tail(<<CRC_MODE>>) = <<>>
      OBVIOUS
    <3> QED
      BY <2>1, <3>1, <3>2, Zenon
  <2> QED
    BY <1>1, <1>2, <1>7, <2>1, <2>2, LineAt DEF stub, host, reception, decoder,
       writer
<1> QED
  BY <1>3, <1>5, <1>6, <1>7 DEF Works

(* Nothing is lost of a line with nothing on it. *)
LEMMA EmptyLine ==
  ASSUME OneAtATime, Quiet
  PROVE  ~Line
<1>1. ~(Len(rx) > FifoDepth)
  BY LinkAssumption DEF Quiet
<1> QED
  BY <1>1, LineAt DEF Quiet

(* The probe sends its next packet, or EOT once the stub has all blocks.   *)
LEMMA FromProbesTurn ==
  ASSUME Safe, Served, OneAtATime, ProbesTurn, Works
  PROVE  InTurn'
<1>1. /\ hpc = "send" /\ Quiet /\ rx = <<>> /\ tx = <<>> /\ pkt = <<>>
      /\ Fresh \/ Taken
      /\ pc \in {"marker", "finish"} \/ (pc = "first" /\ sent < Sender!Blocks)
  BY DEF ProbesTurn, Quiet
<1>2. sent \in 0 .. Sender!Blocks /\ Sender!Blocks \in Nat
  BY BlocksReach DEF Served
<1>3. ~StubWork
  BY <1>1, StubAt DEF PacketMarker, StreamBreaksOff, UnknownMarker,
     EndOfTransfer, NoEndOfTransfer, Receive
<1>4. ~Timeout
  <2> SUFFICES ASSUME Timeout PROVE FALSE
    OBVIOUS
  <2> QED
    BY <1>1, TimeAt
<1>5. Sends
  BY <1>1, <1>3, <1>4, EmptyLine DEF Works
<1>6. /\ UNCHANGED <<pc, pkt, expected>>
      /\ UNCHANGED <<accepted, piece, owed, over, unread>>
  BY <1>5, SenderAt DEF stub, reception, decoder, writer
<1>7. CASE Sender!GiveUp
  <2>1. hpc' = "failed" /\ rx' = rx
    BY <1>7 DEF Sender!GiveUp
  <2> QED
    BY <1>1, <1>6, <2>1 DEF InTurn, ProbeBack
<1>8. CASE Sender!Transmit /\ sent < Sender!Blocks
  <2> DEFINE packet == Sender!BlockPacket(sent)
  <2>1. sent \in 0 .. Sender!Blocks - 1
    BY <1>2, <1>8
  <2>2. packet \in Seq(Byte) /\ Len(packet) \in Nat
    BY <2>1, PacketBytes
  <2>3. /\ hpc' = "await" /\ tx' = <<>> /\ sent' = sent
        /\ rx' = <<>> \o packet
    BY <1>1, <1>8 DEF Sender!Transmit, Sender!Current
  <2>4. rx' = packet
    BY <2>2, <2>3
  <2>5. pkt' = <<>> /\ Len(pkt') = 0
    BY <1>1, <1>6
  <2>6. Sender!BlockPacket(sent)' = packet /\ Sender!Blocks' = Sender!Blocks
    BY <2>3 DEF Sender!BlockPacket, Sender!Blocks
  <2> HIDE DEF packet
  <2>7. /\ Len(pkt') + Len(rx') = Len(packet)
        /\ \A i \in 1 .. Len(pkt') : FALSE
        /\ \A i \in 1 .. Len(rx') : rx'[i] = packet[Len(pkt') + i]
        /\ packet[1] = rx'[1]
    BY <2>2, <2>4, <2>5
  <2>8. Arrives(Sender!BlockPacket(sent))'
    BY <2>5, <2>6, <2>7 DEF Arrives
  <2>9. sent' < Sender!Blocks'
    BY <1>8, <2>3, <2>6
  <2>10. (Fresh \/ Taken)'
    BY <1>1, <1>6, <2>3, Kept
  <2>11. pc' \in {"first", "marker", "finish"}
    BY <1>1, <1>6
  <2> QED
    BY <2>3, <2>5, <2>8, <2>9, <2>10, <2>11 DEF InTurn, PacketComing
<1>9. CASE Sender!Transmit /\ ~(sent < Sender!Blocks)
  <2>1. /\ hpc' = "await" /\ tx' = <<>> /\ sent' = sent
        /\ rx' = <<>> \o <<Sender!EOT>>
    BY <1>1, <1>9 DEF Sender!Transmit, Sender!Current
  <2>2. rx' = <<EOT>>
    BY <2>1 DEF Sender!EOT, EOT
  <2>3. sent = Sender!Blocks /\ Sender!Blocks' = Sender!Blocks
    BY <1>2, <1>9 DEF Sender!Blocks
  <2>4. pc \in {"marker", "finish"}
    BY <1>1, <1>9
  <2> QED
    BY <1>1, <1>6, <2>1, <2>2, <2>3, <2>4 DEF InTurn, EndComing
<1> QED
  BY <1>1, <1>5, <1>7, <1>8, <1>9, SenderAt

(* EOT ends the write, well if the stub waits for it. *)
LEMMA FromEndComing ==
  ASSUME Safe, Served, OneAtATime, EndComing, Works
  PROVE  InTurn'
<1>1. /\ hpc = "await" /\ tx = <<>> /\ rx = <<EOT>>
      /\ pc \in {"marker", "finish"}
  BY DEF EndComing
<1>2. rx # <<>> /\ Head(rx) = EOT
  BY <1>1
<1>3. ~Sends
  BY <1>1, SenderAt DEF Sender!SkipReply, Sender!Acknowledged,
     Sender!AskedAgain, Sender!Cancelled, Sender!Reply
<1>4. ~Timeout
  BY <1>2, TimeAt
<1>5. ~Line
  BY <1>1, LineAt DEF Busy
<1>6. StubWork /\ hpc' = hpc
  BY <1>3, <1>4, <1>5 DEF Works, host
<1>7. CASE pc = "marker"
  <2>1. StreamBreaksOff
    BY <1>2, <1>6, <1>7, StubAt DEF PacketMarker, UnknownMarker, SOH, STX,
       EOT, CAN
  <2> QED
    BY <1>1, <1>6, <2>1, FailingBack DEF StreamBreaksOff
<1>8. CASE pc = "finish"
  <2>1. EndOfTransfer
    BY <1>2, <1>6, <1>8, StubAt DEF NoEndOfTransfer
  <2>2. pc' = "idle" /\ result' = "done"
    BY <2>1 DEF EndOfTransfer, Finish
  <2> QED
    BY <1>1, <1>6, <2>2 DEF InTurn, StubBack
<1> QED
  BY <1>1, <1>7, <1>8

(* The answer makes the probe go on or repeat itself; without one both     *)
(* sides wait, and either may be the first to give up.                     *)
LEMMA FromAnswering ==
  ASSUME Safe, Served, OneAtATime, Answering, Works
  PROVE  InTurn'
<1>1. /\ hpc = "await" /\ rx = <<>> /\ pkt = <<>>
      /\ pc \in {"marker", "finish"}
      /\ \/ (Fresh \/ Taken) /\ (tx = <<>> \/ tx = <<NAK>>)
         \/ Taken /\ tx = <<ACK>>
  BY DEF Answering
<1>2. tx # <<>> => Tail(tx) = <<>> /\ Head(tx) = tx[1]
  <2>1. CASE tx = <<NAK>>
    BY <2>1
  <2>2. CASE tx = <<ACK>>
    BY <2>2
  <2> QED
    BY <1>1, <2>1, <2>2
<1>3. ASSUME hpc' = "send", tx' = <<>>, rx' = <<>>, (Fresh \/ Taken)',
             pc' = pc, pkt' = pkt
      PROVE  InTurn'
  BY <1>1, <1>3 DEF InTurn, ProbesTurn, Quiet
<1>4. CASE StubWork /\ UNCHANGED host
  BY <1>1, <1>4, StubAt DEF PacketMarker, StreamBreaksOff, UnknownMarker,
     EndOfTransfer, NoEndOfTransfer, Receive
<1>5. CASE Sends
  <2>1. /\ UNCHANGED <<pc, pkt, expected>>
        /\ UNCHANGED <<accepted, piece, owed, over, unread>>
    BY <1>5, SenderAt DEF stub, reception, decoder, writer
  <2>2. CASE Sender!Acknowledged
    <3>1. tx # <<>> /\ Head(tx) = ACK /\ tx' = <<>> /\ rx' = <<>>
      BY <1>1, <1>2, <2>2 DEF Sender!Acknowledged, Sender!Reply, Sender!ACK,
         ACK
    <3>2. Taken
      <4>1. tx # <<NAK>>
        BY <1>2, <3>1 DEF ACK, NAK
      <4> QED
        BY <1>1, <3>1, <4>1
    <3>3. sent' = sent + 1 /\ hpc' = "send"
      BY <2>2, <3>2 DEF Sender!Acknowledged, Taken
    <3>4. Fresh'
      <4>1. PICK b : b = sent + 1
        OBVIOUS
      <4>2. Fed(b)'
        BY <2>1, <3>2, <4>1, FedKept DEF Taken
      <4>3. Fed(sent)'
        BY <3>3, <4>1, <4>2 DEF Fed
      <4> QED
        BY <2>1, <3>2, <3>3, <4>3 DEF Fresh, Taken, Number
    <3> QED
      BY <1>3, <2>1, <3>1, <3>3, <3>4
  <2>3. CASE Sender!AskedAgain
    <3>1. hpc' = "send" /\ tx' = <<>> /\ rx' = <<>> /\ sent' = sent
      BY <1>1, <1>2, <2>3 DEF Sender!AskedAgain, Sender!Reply
    <3> QED
      BY <1>1, <1>3, <2>1, <3>1, Kept
  <2>4. ~Sender!SkipReply /\ ~Sender!Cancelled
    <3>1. tx # <<>> => Head(tx) \in {ACK, NAK}
      BY <1>1, <1>2
    <3> QED
      BY <1>1, <3>1 DEF Sender!SkipReply, Sender!Cancelled, Sender!Reply,
         Sender!ACK, Sender!NAK, Sender!CAN, ACK, NAK
  <2> QED
    BY <1>1, <1>5, <2>2, <2>3, <2>4, SenderAt
<1>6. CASE Timeout
  <2>1. CASE NoResponse
    <3>1. /\ hpc' = "send" /\ tx' = <<>> /\ rx' = <<>> /\ sent' = sent
          /\ UNCHANGED <<pc, pkt, expected>>
          /\ UNCHANGED <<accepted, piece, owed, over, unread>>
      BY <1>1, <2>1 DEF NoResponse, Sender!Unanswered, stub, reception,
         decoder, writer
    <3> QED
      BY <1>1, <1>3, <3>1, Kept
  <2>2. CASE StubGivesUp /\ ~NoResponse
    <3>1. tx = <<>> /\ hpc' = hpc
      BY <1>1, <1>6, <2>2, TimeAt DEF host
    <3> QED
      BY <1>1, <2>2, <3>1, FailingBack DEF StubGivesUp, ReadTimeout
  <2> QED
    BY <1>1, <1>6, <2>1, <2>2 DEF Timeout, NoInvitation, Sender!Uninvited,
       PromptAgain, PromptUnanswered
<1>7. CASE Line
  <2>1. tx # <<>> /\ tx' = Tail(tx) /\ rx' = rx
    BY <1>1, <1>7, LineAt DEF Busy
  <2>2. /\ UNCHANGED <<hpc, sent, pc, pkt, expected>>
        /\ UNCHANGED <<accepted, piece, owed, over, unread>>
    BY <1>7, LineAt DEF stub, host, reception, decoder, writer
  <2>3. tx' = <<>> /\ (Fresh \/ Taken)'
    BY <1>1, <1>2, <2>1, <2>2, Kept
  <2> QED
    BY <1>1, <2>1, <2>2, <2>3 DEF InTurn, Answering
<1> QED
  BY <1>4, <1>5, <1>6, <1>7 DEF Works

(* A packet that has arrived as a whole and passes its test is the one     *)
(* that was sent.                                                          *)
LEMMA IntactIsSent ==
  ASSUME sent \in 0 .. Sender!Blocks - 1, pkt \in Seq(Byte),
         Len(pkt) = Len(Sender!BlockPacket(sent)),
         pkt[1] = Sender!BlockPacket(sent)[1],
         \A i \in 1 .. Len(pkt) :
           pkt[i] \in {Sender!BlockPacket(sent)[i], Link!Noise},
         Intact(pkt)
  PROVE  pkt = Sender!BlockPacket(sent)
<1> DEFINE packet == Sender!BlockPacket(sent)
           hits == {i \in 2 .. Len(packet) : pkt[i] # packet[i]}
           copy == [i \in 1 .. Len(packet) |->
                      IF i \in hits THEN Link!Noise ELSE packet[i]]
<1>1. copy \in Damaged(sent)
  BY hits \in SUBSET (2 .. Len(packet)) DEF Damaged
<1>2. pkt = copy
  <2>0. packet \in Seq(Byte) /\ Len(packet) \in Nat
    BY PacketBytes
  <2>1. Len(pkt) = Len(packet) /\ pkt[1] = packet[1]
    OBVIOUS
  <2>2. \A i \in 1 .. Len(packet) : pkt[i] \in {packet[i], Link!Noise}
    OBVIOUS
  <2> HIDE DEF packet
  <2>3. \A i \in 1 .. Len(packet) : pkt[i] = copy[i]
    <3> SUFFICES ASSUME NEW i \in 1 .. Len(packet) PROVE pkt[i] = copy[i]
      OBVIOUS
    <3>1. i \in hits <=> pkt[i] # packet[i]
      BY <2>0, <2>1
    <3> HIDE DEF hits
    <3> QED
      BY <2>2, <3>1
  <2>4. pkt = [i \in 1 .. Len(packet) |-> pkt[i]]
    BY <2>0, <2>1
  <2> HIDE DEF hits
  <2> QED
    BY <2>3, <2>4
<1> HIDE DEF copy, hits
<1> QED
  BY <1>1, <1>2, DamageShows

(* What has arrived of it and what has not still make it up. *)
LEMMA StillArrives ==
  ASSUME sent' = sent, NEW packet, packet = Sender!BlockPacket(sent),
         Len(pkt') + Len(rx') = Len(packet),
         \A i \in 1 .. Len(pkt') : pkt'[i] \in {packet[i], Link!Noise},
         \A i \in 1 .. Len(rx') :
           rx'[i] \in {packet[Len(pkt') + i], Link!Noise},
         packet[1] = IF pkt' = <<>> THEN rx'[1] ELSE pkt'[1]
  PROVE  Arrives(Sender!BlockPacket(sent))'
<1>1. Sender!BlockPacket(sent)' = packet
  BY DEF Sender!BlockPacket
<1> QED
  BY <1>1 DEF Arrives, Link!Noise

(* The stub reads the packet, and answers it or hands it to the decoder.   *)
LEMMA FromPacketComing ==
  ASSUME Safe, Served, OneAtATime, PacketComing, Works
  PROVE  InTurn'
<1> DEFINE packet == Sender!BlockPacket(sent)
<1>1. /\ hpc = "await" /\ tx = <<>> /\ sent < Sender!Blocks
      /\ Fresh \/ Taken
      /\ pc \in {"first", "marker", "packet", "finish"}
      /\ pc = "packet" <=> pkt # <<>>
      /\ Arrives(packet)
  BY DEF PacketComing
<1>2. sent \in 0 .. Sender!Blocks - 1
  BY <1>1, BlocksReach DEF Served
<1>3. /\ packet \in Seq(Byte) /\ packet[1] \in {SOH, STX}
      /\ Len(packet) = PacketLen(packet[1]) /\ packet[2] = Number(sent)
      /\ Len(packet) \in Nat \ {0}
  BY <1>2, PacketOfBlock, PacketAssumption DEF PacketLen, BlockLen
<1>4. rx \in Seq(Byte) /\ pkt \in Seq(Byte)
  BY DEF Safe, Typed, TypeOK
<1>5. /\ Len(pkt) + Len(rx) = Len(packet)
      /\ \A i \in 1 .. Len(pkt) : pkt[i] \in {packet[i], Link!Noise}
      /\ \A i \in 1 .. Len(rx) : rx[i] \in {packet[Len(pkt) + i], Link!Noise}
      /\ packet[1] = IF pkt = <<>> THEN rx[1] ELSE pkt[1]
  BY <1>1 DEF Arrives
<1>6. Sender!BlockPacket(sent) = packet
  OBVIOUS
<1> HIDE DEF packet
<1>7. pc = "packet" => /\ pkt # <<>> /\ pkt[1] = packet[1]
                       /\ Len(pkt) <= Len(packet)
                       /\ PacketLen(pkt[1]) = Len(packet)
  BY <1>1, <1>3, <1>4, <1>5
<1>8. rx = <<>> => PacketComplete
  BY <1>1, <1>3, <1>4, <1>5, <1>7 DEF PacketComplete
<1>9. ASSUME Arrives(Sender!BlockPacket(sent))', hpc' = hpc, sent' = sent,
             tx' = tx, pc' = "packet", pkt' # <<>>, expected' = expected,
             UNCHANGED <<accepted, piece, owed, over, unread>>
      PROVE  InTurn'
  <2>1. sent' < Sender!Blocks' /\ (Fresh \/ Taken)'
    BY <1>1, <1>9, Kept DEF Sender!Blocks
  <2> QED
    BY <1>1, <1>9, <2>1 DEF InTurn, PacketComing
<1>10. ~Sends
  BY <1>1, SenderAt DEF Sender!SkipReply, Sender!Acknowledged,
     Sender!AskedAgain, Sender!Cancelled, Sender!Reply
<1>11. ~Timeout
  <2> SUFFICES ASSUME Timeout PROVE FALSE
    OBVIOUS
  <2>1. PacketComplete
    BY <1>8, TimeAt
  <2>2. pc = "packet" /\ Len(pkt) = PacketLen(pkt[1]) /\ Len(pkt) \in Nat
    BY <1>4, <2>1 DEF PacketComplete
  <2>3. ~PromptAgain
    BY <2>2 DEF PromptAgain, PromptUnanswered
  <2>4. ~StubGivesUp
    BY <2>2 DEF StubGivesUp, ReadTimeout
  <2>5. ~(NoInvitation /\ pc = "idle") /\ ~(NoResponse /\ ~PacketComplete)
    BY <2>1, <2>2
  <2> QED
    BY <2>3, <2>4, <2>5, TimeAt
<1>12. CASE Line
  <2>1. /\ pc = "packet" /\ rx # <<>> /\ rx' = [rx EXCEPT ![1] = Link!Noise]
        /\ tx' = tx
        /\ UNCHANGED <<hpc, sent, pc, pkt, expected>>
        /\ UNCHANGED <<accepted, piece, owed, over, unread>>
    BY <1>1, <1>12, LineAt DEF stub, host, reception, decoder, writer, Busy
  <2>2. /\ Len(rx') = Len(rx)
        /\ \A i \in 1 .. Len(rx') : rx'[i] \in {rx[i], Link!Noise}
    BY <1>4, <2>1
  <2>3. Arrives(Sender!BlockPacket(sent))'
    BY <1>5, <1>6, <1>7, <2>1, <2>2, StillArrives
  <2>4. pc' = "packet" /\ pkt' # <<>>
    BY <1>1, <2>1
  <2> QED
    BY <1>9, <2>1, <2>3, <2>4
<1>13. CASE StubWork /\ hpc' = hpc /\ sent' = sent
  <2>1. CASE pc \in {"first", "marker"}
    <3>1. pkt = <<>> /\ Len(pkt) = 0 /\ Len(rx) = Len(packet) /\ rx # <<>>
          /\ rx[1] = packet[1]
      BY <1>1, <1>3, <1>4, <1>5, <2>1
    <3>2. Head(rx) = packet[1] /\ Head(rx) \in {SOH, STX}
      BY <1>3, <1>4, <3>1, Shortened
    <3>3. PacketMarker
      BY <1>13, <2>1, <3>2, StubAt DEF StreamBreaksOff, UnknownMarker, SOH,
         STX, EOT, CAN
    <3>4. /\ rx' = Tail(rx) /\ pkt' = <<packet[1]>> /\ pc' = "packet"
          /\ tx' = tx /\ expected' = expected
          /\ UNCHANGED <<accepted, piece, owed, over, unread>>
      BY <3>2, <3>3 DEF PacketMarker, Receive, decoder, writer
    <3>5. /\ Len(Tail(rx)) = Len(rx) - 1
          /\ \A i \in 1 .. Len(Tail(rx)) : Tail(rx)[i] = rx[i + 1]
      BY <1>4, <3>1, Shortened
    <3>6. /\ Len(pkt') = 1 /\ pkt' # <<>> /\ pkt'[1] = packet[1]
          /\ Len(pkt') + Len(rx') = Len(packet)
      BY <1>3, <3>1, <3>4, <3>5
    <3>7. \A i \in 1 .. Len(rx') :
            rx'[i] \in {packet[Len(pkt') + i], Link!Noise}
      <4> SUFFICES ASSUME NEW i \in 1 .. Len(Tail(rx))
                   PROVE  Tail(rx)[i] \in {packet[1 + i], Link!Noise}
        BY <3>4, <3>6
      <4>1. i + 1 \in 1 .. Len(rx) /\ Tail(rx)[i] = rx[i + 1]
            /\ Len(pkt) + (i + 1) = 1 + i
        BY <1>3, <3>1, <3>5
      <4> QED
        BY <1>5, <4>1
    <3>8. \A i \in 1 .. Len(pkt') : pkt'[i] \in {packet[i], Link!Noise}
      BY <3>6
    <3>9. Arrives(Sender!BlockPacket(sent))'
      BY <1>6, <1>13, <3>6, <3>7, <3>8, StillArrives
    <3> QED
      BY <1>9, <1>13, <3>4, <3>9
  <2>2. CASE ReadPacketByte
    <3>1. /\ rx # <<>> /\ rx' = Tail(rx) /\ pkt' = Append(pkt, Head(rx))
          /\ tx' = tx /\ pc = "packet" /\ pc' = pc /\ expected' = expected
          /\ UNCHANGED <<accepted, piece, owed, over, unread>>
      BY <2>2 DEF ReadPacketByte, Receive, decoder, writer
    <3>2. /\ Head(rx) = rx[1] /\ Len(rx) \in Nat \ {0}
          /\ Head(rx) \in Byte
          /\ Len(Tail(rx)) = Len(rx) - 1
          /\ \A i \in 1 .. Len(Tail(rx)) : Tail(rx)[i] = rx[i + 1]
      BY <1>4, <3>1, Shortened
    <3>3. /\ Len(pkt') = Len(pkt) + 1 /\ pkt'[Len(pkt) + 1] = rx[1]
          /\ \A i \in 1 .. Len(pkt) : pkt'[i] = pkt[i]
          /\ pkt' # <<>> /\ Len(pkt) \in Nat \ {0}
      BY <1>4, <1>7, <3>1, <3>2
    <3>4. Len(pkt') + Len(rx') = Len(packet) /\ pkt'[1] = packet[1]
      BY <1>3, <1>5, <1>7, <3>1, <3>2, <3>3
    <3>5. \A i \in 1 .. Len(pkt') : pkt'[i] \in {packet[i], Link!Noise}
      <4> SUFFICES ASSUME NEW i \in 1 .. Len(pkt')
                   PROVE  pkt'[i] \in {packet[i], Link!Noise}
        OBVIOUS
      <4>1. CASE i \in 1 .. Len(pkt)
        BY <1>5, <3>3, <4>1
      <4>2. CASE i = Len(pkt) + 1
        <5>1. rx[1] \in {packet[Len(pkt) + 1], Link!Noise}
          BY <1>5, <3>2
        <5> QED
          BY <3>3, <4>2, <5>1
      <4> QED
        BY <3>3, <4>1, <4>2
    <3>6. \A i \in 1 .. Len(rx') :
            rx'[i] \in {packet[Len(pkt') + i], Link!Noise}
      <4> SUFFICES ASSUME NEW i \in 1 .. Len(Tail(rx))
                   PROVE  Tail(rx)[i] \in {packet[Len(pkt) + 1 + i], Link!Noise}
        BY <3>1, <3>3
      <4>1. i + 1 \in 1 .. Len(rx) /\ Tail(rx)[i] = rx[i + 1]
            /\ Len(pkt) + (i + 1) = Len(pkt) + 1 + i
        BY <3>2, <3>3
      <4> QED
        BY <1>5, <4>1
    <3>7. Arrives(Sender!BlockPacket(sent))'
      BY <1>6, <1>13, <3>3, <3>4, <3>5, <3>6, StillArrives
    <3> QED
      BY <1>9, <1>13, <3>1, <3>7
  <2>3. CASE PacketComplete /\ ~ReadPacketByte
    <3>1. /\ pc = "packet" /\ Len(pkt) = Len(packet) /\ pkt[1] = packet[1]
          /\ rx = <<>>
      BY <1>3, <1>4, <1>5, <1>7, <2>3 DEF PacketComplete
    <3>2. Intact(pkt) => pkt = packet
      BY <1>2, <1>4, <1>5, <1>6, <3>1, IntactIsSent
    <3>3. Intact(pkt) => pkt[2] = Number(sent)
      BY <1>3, <3>2
    <3>4. /\ Number(sent) # Previous(Number(sent))
          /\ Number(sent) = Previous(Number(sent + 1))
          /\ Number(sent) # Number(sent + 1)
      BY <1>2, Numbering, BlocksReach
    <3>5. CASE BadPacket
      <4>1. /\ tx' = <<NAK>> /\ rx' = <<>> /\ pc' = "marker" /\ pkt' = <<>>
            /\ expected' = expected
            /\ UNCHANGED <<accepted, piece, owed, over, unread>>
        BY <1>1, <3>1, <3>5 DEF BadPacket, Send, AwaitMarker, decoder, writer
      <4> QED
        BY <1>1, <1>13, <4>1, Kept DEF InTurn, Answering
    <3>6. CASE RepeatedPacket
      <4>1. /\ tx' = <<ACK>> /\ rx' = <<>> /\ pc' = "marker" /\ pkt' = <<>>
            /\ expected' = expected
            /\ UNCHANGED <<accepted, piece, owed, over, unread>>
            /\ Intact(pkt) /\ pkt[2] = Previous(expected)
        BY <1>1, <3>1, <3>6 DEF RepeatedPacket, Send, AwaitMarker, decoder,
           writer
      <4>2. Taken
        BY <1>1, <3>3, <3>4, <4>1 DEF Fresh
      <4> QED
        BY <1>1, <1>13, <4>1, <4>2, Kept DEF InTurn, Answering
    <3>7. CASE NextPacket
      <4>1. /\ tx' = <<>> /\ rx' = <<>> /\ pc' = "inflate" /\ pkt' = <<>>
            /\ expected' = Following(expected)
            /\ Intact(pkt) /\ pkt[2] = expected
        BY <1>1, <3>1, <3>7 DEF NextPacket
      <4>2. Fresh
        BY <1>1, <3>3, <3>4, <4>1 DEF Taken
      <4>3. pkt = Sender!BlockPacket(sent)
        BY <1>6, <3>2, <4>1
      <4>4. PICK b \in 0 .. Sender!Blocks - 1 : b = sent
        BY <1>2
      <4>5. Fed(b + 1)'
        BY <3>7, <4>2, <4>3, <4>4, FedNext DEF Fresh, Safe, Served
      <4>6. Fed(sent + 1)'
        BY <1>13, <4>4, <4>5 DEF Fed
      <4>7. expected' = Number(sent + 1)
        BY <1>2, <4>1, <4>2, Numbering, BlocksReach DEF Fresh
      <4>8. Taken'
        BY <1>1, <1>13, <4>6, <4>7 DEF Taken, Number, Sender!Blocks
      <4> QED
        BY <1>1, <1>13, <4>1, <4>8 DEF InTurn, Unpacking, Quiet, Busy
    <3>8. CASE OutOfSequence
      BY <1>1, <1>13, <3>8, FailingBack DEF OutOfSequence
    <3> QED
      BY <1>13, <2>3, <3>1, <3>5, <3>6, <3>7, <3>8, StubAt
  <2>4. CASE pc = "finish"
    <3>1. CASE NoEndOfTransfer
      BY <1>1, <1>13, <3>1, FailingBack DEF NoEndOfTransfer
    <3>2. CASE EndOfTransfer
      <4>1. pc' = "idle" /\ result' = "done"
        BY <3>2 DEF EndOfTransfer, Finish
      <4> QED
        BY <1>1, <1>13, <4>1 DEF InTurn, StubBack
    <3> QED
      BY <1>13, <2>4, <3>1, <3>2, StubAt
  <2> QED
    BY <1>1, <1>13, <2>1, <2>2, <2>3, <2>4, StubAt DEF BadPacket,
       RepeatedPacket, OutOfSequence, NextPacket
<1> QED
  BY <1>10, <1>11, <1>12, <1>13 DEF Works, host

(* What a packet stands for goes to the flash; then it is acknowledged, or *)
(* the stub has failed.                                                    *)
LEMMA FromUnpacking ==
  ASSUME Safe, Served, OneAtATime, Unpacking, Works
  PROVE  InTurn'
<1>1. /\ hpc = "await" /\ Quiet /\ rx = <<>> /\ tx = <<>> /\ pkt = <<>>
      /\ Taken /\ pc \in {"inflate", "put", "flush", "last"}
  BY DEF Unpacking, Quiet, Busy
<1>2. sent + 1 \in 0 .. Sender!Blocks
  BY <1>1, BlocksReach DEF Served, Taken
<1>3. ~Sends
  BY <1>1, SenderAt DEF Sender!SkipReply, Sender!Acknowledged,
     Sender!AskedAgain, Sender!Cancelled, Sender!Reply
<1>4. ~Timeout
  <2> SUFFICES ASSUME Timeout PROVE FALSE
    OBVIOUS
  <2> QED
    BY <1>1, TimeAt DEF StubGivesUp, ReadTimeout, PromptAgain,
       PromptUnanswered
<1>5. StubWork /\ hpc' = hpc /\ sent' = sent
  BY <1>1, <1>3, <1>4, EmptyLine DEF Works, host
<1>6. ASSUME Taken', pkt' = pkt, rx' = rx, tx' = tx,
             pc' \in {"inflate", "put", "flush", "last"}
      PROVE  InTurn'
  BY <1>1, <1>5, <1>6 DEF InTurn, Unpacking, Quiet, Busy
<1>7. ASSUME Taken', pkt' = pkt, rx' = rx, tx' = <<ACK>>,
             pc' \in {"marker", "finish"}
      PROVE  InTurn'
  BY <1>1, <1>5, <1>7 DEF InTurn, Answering
<1>8. ASSUME UNCHANGED <<accepted, piece, owed, over, unread>>,
             expected' = expected
      PROVE  Taken'
  BY <1>1, <1>5, <1>8, Kept
<1>9. ASSUME Inflate \/ FillPage
      PROVE  Taken'
  <2>1. PICK b \in 0 .. Sender!Blocks : b = sent + 1
    BY <1>2
  <2>2. Fed(b)
    BY <1>1, <2>1 DEF Taken
  <2>3. Fed(b)'
    BY <1>9, <2>2, FedInflate, FedFill DEF Safe, Served
  <2>4. Fed(sent + 1)'
    BY <1>5, <2>1, <2>3 DEF Fed
  <2>5. expected' = expected
    BY <1>9 DEF Inflate, FillPage, reception
  <2> QED
    BY <1>1, <1>5, <2>4, <2>5 DEF Taken, Number, Sender!Blocks
<1>10. CASE pc = "inflate"
  <2>1. CASE Inflate
    <3>1. pkt' = pkt /\ rx' = rx /\ tx' = tx /\ pc' = "put"
      BY <2>1 DEF Inflate, reception
    <3> QED
      BY <1>6, <1>9, <2>1, <3>1
  <2>2. CASE InflateTooLong
    BY <1>1, <1>5, <2>2, FailingBack DEF InflateTooLong
  <2> QED
    BY <1>5, <1>10, <2>1, <2>2, StubAt
<1>11. CASE pc = "put"
  <2>1. CASE EraseSector \/ InflateMore \/ StreamDone
    <3>1. /\ UNCHANGED <<accepted, piece, owed, over, unread>>
          /\ expected' = expected /\ pkt' = pkt /\ rx' = rx /\ tx' = tx
          /\ pc' \in {"inflate", "put", "last"}
      BY <1>11, <2>1 DEF EraseSector, InflateMore, StreamDone, reception,
         decoder, writer
    <3> QED
      BY <1>6, <1>8, <3>1
  <2>2. CASE FillPage
    <3>1. pkt' = pkt /\ rx' = rx /\ tx' = tx /\ pc' \in {"put", "flush"}
      BY <2>2 DEF FillPage, reception
    <3> QED
      BY <1>6, <1>9, <2>2, <3>1
  <2>3. CASE WantPacket
    <3>1. /\ UNCHANGED <<accepted, piece, owed, over, unread>>
          /\ expected' = expected /\ pkt' = pkt /\ rx' = rx /\ pc' = "marker"
      BY <2>3 DEF WantPacket, decoder, writer
    <3>2. tx' = Append(tx, ACK)
      BY <2>3 DEF WantPacket, Send
    <3>3. tx' = <<ACK>>
      BY <1>1, <3>2
    <3> QED
      BY <1>7, <1>8, <3>1, <3>3
  <2>4. CASE EraseFails \/ StreamFails
    BY <1>1, <1>5, <2>4, FailingBack DEF EraseFails, StreamFails
  <2> QED
    BY <1>5, <1>11, <2>1, <2>2, <2>3, <2>4, StubAt
<1>12. CASE pc \in {"flush", "last"}
  <2>1. CASE SkipErasedPage \/ ProgramPage
    <3>1. PageFlushed
      BY <2>1 DEF SkipErasedPage, ProgramPage
    <3>2. /\ UNCHANGED <<accepted, piece, owed, over, unread>>
          /\ expected' = expected /\ pkt' = pkt /\ rx' = rx
      BY <3>1 DEF PageFlushed, decoder
    <3>3. CASE pc = "flush"
      <4>1. tx' = tx /\ pc' = "put"
        BY <3>1, <3>3 DEF PageFlushed
      <4> QED
        BY <1>6, <1>8, <3>2, <4>1
    <3>4. CASE pc = "last"
      <4>1. pending
        BY <3>4 DEF Safe, Typed, ThreadState
      <4>2. tx' = <<ACK>> /\ pc' = "finish"
        BY <1>1, <3>1, <3>4, <4>1 DEF PageFlushed, Send
      <4> QED
        BY <1>7, <1>8, <3>2, <4>2
    <3> QED
      BY <1>12, <3>3, <3>4
  <2>2. CASE ProgramFails
    BY <1>1, <1>5, <2>2, FailingBack DEF ProgramFails
  <2> QED
    BY <1>5, <1>12, <2>1, <2>2, StubAt
<1> QED
  BY <1>1, <1>10, <1>11, <1>12

(* The two sides stay in turn. *)
LEMMA TurnStep ==
  ASSUME Safe, Served, OneAtATime, InTurn, [LinkNext]_linkVars
  PROVE  InTurn' /\ OneAtATime'
<1>1. OneAtATime'
  <2>1. conditions' = conditions
    BY DEF LinkNext, StubRuns, HostWork, HostCommand, HostRejected, Sends,
       Timeout, NoInvitation, NoResponse, StubGivesUp, PromptAgain, Line,
       linkVars
  <2> QED
    BY <2>1 DEF OneAtATime
<1>2. CASE UNCHANGED linkVars
  BY <1>1, <1>2, Stutters
<1>3. CASE LinkNext /\ hpc = "idle"
  <2>1. Unopened
    BY <1>3 DEF InTurn, Inviting, ProbesTurn, PacketComing, Unpacking,
       EndComing, Answering, StubBack, ProbeBack, Delivered
  <2> QED
    BY <1>1, <1>3, <2>1, FromUnopened
<1>4. CASE LinkNext /\ hpc # "idle"
  <2>1. Works /\ ~Unopened
    BY <1>4, Opened DEF Unopened
  <2> QED
    BY <1>1, <2>1, FromInviting, FromProbesTurn, FromPacketComing,
       FromUnpacking, FromEndComing, FromAnswering, FromStubBack,
       FromProbeBack, FromDelivered DEF InTurn
<1> QED
  BY <1>2, <1>3, <1>4

-----------------------------------------------------------------------------
(* The order of the output. *)

LEMMA FedMeansPrefix == Typed /\ (\E b \in Nat : Fed(b)) => OutputIsPrefix
BY FedPrefix

LEMMA FedMeansPrefixNext ==
  (Typed /\ (\E b \in Nat : Fed(b)) => OutputIsPrefix)'
BY FedMeansPrefix, PTL

(* Every step but those of FillPage and a new command leaves alone what    *)
(* the page writer has taken.                                              *)
LEMMA TakenStays ==
  ASSUME Typed, [Next]_vars
  PROVE  \/ FillPage
         \/ accepted' = <<>> /\ written' = 0
         \/ UNCHANGED <<accepted, written>>
<1>1. CASE UNCHANGED vars
  BY <1>1 DEF vars, writer
<1>2. CASE \E o \in 0 .. Word - 1, n \in 0 .. Word - 1 : StubCommand(o, n)
  BY <1>2 DEF StubCommand, StartCommand, RejectCommand, writer
<1>3. CASE Environment
  BY <1>3 DEF Environment, writer
<1>4. CASE Ending
  <2>1. \E how \in {"done", "failed"} : Finish(how)
    BY <1>4 DEF Ending, NoSender, StreamBreaksOff, ReadTimeout,
       OutOfSequence, InflateTooLong, EraseFails, ProgramFails,
       StreamFails, EndOfTransfer, NoEndOfTransfer, Fail
  <2> QED
    BY <2>1 DEF Finish
<1>5. CASE StubStep /\ ~Ending /\ ~FillPage
  <2>1. CASE PromptUnanswered \/ SendPrompt \/ PacketMarker \/ UnknownMarker
             \/ ReadPacketByte \/ DropByte
    BY <2>1 DEF PromptUnanswered, SendPrompt, PacketMarker, UnknownMarker,
       ReadPacketByte, DropByte, writer
  <2>2. CASE BadPacket \/ RepeatedPacket \/ NextPacket
    BY <2>2 DEF BadPacket, RepeatedPacket, NextPacket, AwaitMarker, writer
  <2>3. CASE Inflate \/ EraseSector \/ InflateMore \/ WantPacket \/ StreamDone
    BY <2>3 DEF Inflate, EraseSector, InflateMore, WantPacket, StreamDone,
       writer
  <2>4. CASE SkipErasedPage \/ ProgramPage
    BY <2>4 DEF SkipErasedPage, ProgramPage, PageFlushed
  <2> QED
    BY <1>5, <2>1, <2>2, <2>3, <2>4 DEF StubStep, StubWork, StubTimeout,
       Ending
<1> QED
  BY <1>1, <1>2, <1>3, <1>4, <1>5 DEF Next, StubStep, StubWork

(* FillPage takes the next of what the stream stands for. *)
LEMMA OrderStep ==
  ASSUME Safe, Served, InTurn, OutputIsPrefix, [LinkNext]_linkVars, Safe'
  PROVE  OutputIsPrefix'
<1>1. [Next]_vars /\ Typed /\ Typed'
  BY LinkStep DEF Safe, Served
<1>2. Plain' = Plain
  BY DEF Plain, Inflated, Ext!FlattenSeq
<1>3. CASE FillPage
  <2>1. pc = "put"
    BY <1>3 DEF FillPage
  <2>2. result # "done"
    BY <1>1, <2>1 DEF Typed, WriterState
  <2>3. Taken
    BY <2>1, <2>2 DEF InTurn, Unopened, Inviting, ProbesTurn, PacketComing,
       Unpacking, EndComing, Answering, StubBack, ProbeBack, Delivered, Served
  <2>4. PICK b \in 0 .. Sender!Blocks : b = sent + 1
    BY <2>3, BlocksReach DEF Served, Taken
  <2>5. Fed(b)
    BY <2>3, <2>4 DEF Taken
  <2>6. Fed(b)' /\ b \in Nat
    BY <1>1, <1>3, <2>5, FedFill, BlocksReach
  <2> QED
    BY <1>1, <2>6, FedMeansPrefixNext
<1>4. CASE accepted' = <<>> /\ written' = 0
  <2>1. SubSeq(Plain, 1, 0) = <<>>
    BY ImageSize
  <2> QED
    BY <1>2, <1>4, <2>1 DEF OutputIsPrefix
<1>5. CASE UNCHANGED <<accepted, written>>
  BY <1>2, <1>5 DEF OutputIsPrefix
<1> QED
  BY <1>1, <1>3, <1>4, <1>5, TakenStays

(* Both sides keep to their turns, whatever is damaged in a packet,        *)
(* whichever replies are lost and whoever gives up.                        *)
LEMMA SessionInTurn == LinkSafety => []LinkInv
<1>1. LinkInit => LinkInv
  <2> SUFFICES ASSUME LinkInit PROVE LinkInv
    OBVIOUS
  <2>1. Init /\ Safe /\ Served /\ hpc = "idle" /\ sent = 0
    BY LinkStart DEF LinkInit
  <2>2. Unopened
    BY <2>1 DEF Unopened, Served
  <2>3. OutputIsPrefix
    <3>1. accepted = <<>> /\ written = 0
      BY <2>1 DEF Init
    <3>2. SubSeq(Plain, 1, 0) = <<>>
      BY ImageSize
    <3> QED
      BY <3>1, <3>2 DEF OutputIsPrefix
  <2> QED
    BY <2>1, <2>2, <2>3 DEF LinkInv, InTurn
<1>2. LinkInv /\ [LinkNext]_linkVars => LinkInv'
  <2> SUFFICES ASSUME LinkInv, [LinkNext]_linkVars PROVE LinkInv'
    OBVIOUS
  <2>1. Safe' /\ Served'
    BY LinkStep, SafeStep, ServedStep DEF LinkInv, Safe, Served
  <2>2. OneAtATime' => OneAtATime
    BY DEF OneAtATime, LinkNext, StubRuns, HostWork, HostCommand,
       HostRejected, Sends, Timeout, NoInvitation, NoResponse, StubGivesUp,
       PromptAgain, Line, linkVars
  <2> QED
    BY <2>1, <2>2, TurnStep, OrderStep DEF LinkInv
<1> QED
  BY <1>1, <1>2, PTL DEF LinkSafety

(* As long as packets arrive whole and one at a time, the page writer      *)
(* takes what the stream stands for, once and in its order: a copy of a    *)
(* packet that the stub has already taken is answered and not fed to the   *)
(* decoder again, and a damaged one is not taken.                          *)
THEOREM Order ==
  LinkSafety => [](OneAtATime => OutputIsPrefix /\ AcceptedMeansWritten)
<1>1. LinkInv => (OneAtATime => OutputIsPrefix /\ AcceptedMeansWritten)
  BY OrderSuffices DEF LinkInv, AcceptedMeansWritten
<1> QED
  BY <1>1, SessionInTurn, PTL

(* When xmodem_send then returns normally, the plain image is in the       *)
(* flash, however often packets were damaged or replies lost.              *)
THEOREM Delivery ==
  LinkSafety => [](OneAtATime => /\ hpc = "ok" => InPlace
                                 /\ SentMeansWritten)
<1>1. LinkInv /\ OneAtATime /\ hpc = "ok" => InPlace
  <2> SUFFICES ASSUME LinkInv, OneAtATime, hpc = "ok" PROVE InPlace
    OBVIOUS
  <2>1. Safe /\ Served /\ OutputIsPrefix /\ result = "done"
    BY DEF LinkInv, InTurn, Unopened, Inviting, ProbesTurn, PacketComing,
       Unpacking, EndComing, Answering, StubBack, ProbeBack, Delivered
  <2> QED
    BY <2>1, OrderSuffices
<1>2. LinkInv => (OneAtATime => /\ hpc = "ok" => InPlace
                                /\ SentMeansWritten)
  BY <1>1 DEF SentMeansWritten
<1> QED
  BY <1>2, SessionInTurn, PTL

=============================================================================
