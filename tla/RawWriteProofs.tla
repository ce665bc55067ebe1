--------------------------- MODULE RawWriteProofs ---------------------------
(***************************************************************************)
(* Theorems about the raw flash write: first about the command, for every  *)
(* sender (RawFlash), then about the probe's session (RawWrite), in which  *)
(* the stub is that of RawFlash whatever the line does.  No proof of the   *)
(* first part cites an assumption of RawWrite.  The second part asks that  *)
(* the probe's packets are bytes and that the checksum tells a damaged one *)
(* (PacketBytes, DamageShows).                                             *)
(***************************************************************************)
EXTENDS RawWrite, AddressableFlash, SequenceLemmas

-----------------------------------------------------------------------------
(* The chip and the UART. *)

(* The mask of the address register lets every address of the chip pass.   *)
LEMMA Reached ==
  ASSUME NEW o \in Addr
  PROVE  OnChip(o) = o
<1>1. /\ o \in Int /\ 0 <= o /\ o < AddressReach /\ 0 \in Int
      /\ AddressReach \in Nat \ {0}
  BY GeometryAssumption, ReachAssumption DEF Addr
<1>2. ((AddressReach * 0) + o) % AddressReach = o
  BY <1>1, RestOfMultiple
<1>3. (AddressReach * 0) + o = o
  BY <1>1
<1> QED
  BY <1>2, <1>3 DEF OnChip

(* What a round of the erase loop addresses: a whole unit that starts at   *)
(* the cursor and, if it is a block, does not pass the end of the range.   *)
LEMMA EraseUnit ==
  ASSUME NEW c \in Nat, NEW end \in Nat, c % SectorSize = 0
  PROVE  /\ EraseSize(c, end) \in Nat \ {0}
         /\ EraseSize(c, end) % SectorSize = 0
         /\ Base(c, EraseSize(c, end)) = c
         /\ EraseSize(c, end) = SectorSize \/ c + EraseSize(c, end) <= end
<1>1. SectorSize % SectorSize = 0
  <2>1. (SectorSize * 1) + 0 = SectorSize
    BY GeometryAssumption
  <2> QED
    BY <2>1, RestOfMultiple, GeometryAssumption
<1> QED
  BY <1>1, GeometryAssumption DEF EraseSize, Base

(* An erase leaves bytes in the flash, ... *)
LEMMA EraseTyped ==
  ASSUME NEW f \in Flash, NEW o, NEW unit, NEW stuck
  PROVE  ChipErase(f, o, unit, stuck) \in Flash
BY ByteAssumption DEF ChipErase, Flash

(* ... and so does a page program, which takes its data from the page.   *)
LEMMA ProgramTyped ==
  ASSUME NEW f \in Flash, NEW o \in Addr, NEW stuck,
         NEW data \in [0 .. PageSize - 1 -> Byte]
  PROVE  ChipProgram(f, o, data, stuck) \in Flash
<1>1. o \in Nat /\ PageSize \in Nat \ {0}
  BY GeometryAssumption DEF Addr
<1>2. /\ Base(o, PageSize) \in Nat /\ Base(o, PageSize) <= o
      /\ o < Base(o, PageSize) + PageSize
  BY <1>1, BaseBounds
<1>3. ASSUME NEW a \in Addr,
             Base(o, PageSize) <= a, a < Base(o, PageSize) + PageSize
      PROVE  And(f[a], IF a >= o THEN data[a - o]
                                 ELSE data[a - o + PageSize]) \in Byte
  <2>1. f[a] \in Byte
    BY DEF Flash
  <2>2. CASE a >= o
    <3>1. a - o \in 0 .. PageSize - 1
      BY <1>1, <1>2, <1>3, <2>2 DEF Addr
    <3> QED
      BY <2>1, <2>2, <3>1, AndAssumption
  <2>3. CASE ~(a >= o)
    <3>1. a - o + PageSize \in 0 .. PageSize - 1
      BY <1>1, <1>2, <1>3, <2>3 DEF Addr
    <3> QED
      BY <2>1, <2>3, <3>1, AndAssumption
  <2> QED
    BY <2>2, <2>3
<1> QED
  BY <1>3, Reached DEF ChipProgram, Flash

(* The control characters can be sent; what is received is a byte.         *)
LEMMA UartTyped ==
  ASSUME rx \in Seq(Byte), tx \in Seq(Byte)
  PROVE  /\ \A b \in Byte : Send(b) => tx' \in Seq(Byte)
         /\ Cancel => tx' \in Seq(Byte)
         /\ Receive => rx' \in Seq(Byte) /\ Head(rx) \in Byte
         /\ {SOH, STX, ACK, NAK, CAN, CRC_MODE} \subseteq Byte
<1>1. {SOH, STX, ACK, NAK, CAN, CRC_MODE} \subseteq Byte
  BY ControlAssumption DEF Controls
<1>2. ASSUME NEW b \in Byte PROVE Append(tx, b) \in Seq(Byte)
  OBVIOUS
<1>3. Append(Append(tx, CAN), CAN) \in Seq(Byte)
  BY <1>1
<1>4. rx # <<>> => Tail(rx) \in Seq(Byte) /\ Head(rx) \in Byte
  OBVIOUS
<1> QED
  BY <1>1, <1>2, <1>3, <1>4 DEF Send, Cancel, Receive

-----------------------------------------------------------------------------
(* Type correctness and the thread's own invariant. *)

Typed == TypeOK /\ ThreadState

(* The stub starts with the types and the thread's invariant. *)
LEMMA TypedInit == Init => Typed
BY GeometryAssumption, PacketAssumption, PromptAssumption
   DEF Init, Typed, TypeOK, ThreadState, InTransfer, End, Addr, Points,
       FlashOps, Statuses, Results

(* What the page loop works on. *)
LEMMA PageInRange ==
  ASSUME Typed, pc = "program", pageOff < Chunk
  PROVE  /\ PageData \in [0 .. PageSize - 1 -> Byte]
         /\ PagePart \in 1 .. PageSize /\ pageOff + PagePart <= Chunk
         /\ Chunk \in 1 .. len - written
         /\ CurrentOff \in Addr /\ CurrentOff = off + Filled
         /\ CurrentOff + PagePart <= End
<1>1. /\ pkt \in Seq(Byte) /\ Len(pkt) = PacketLen(pkt[1])
      /\ pageOff \in Nat /\ written \in Nat /\ len \in Nat /\ written < len
      /\ off \in Nat /\ off + len <= FlashSize
  BY DEF Typed, TypeOK, ThreadState, End, Addr
<1>2. BlockLen(pkt[1]) \in Nat \ {0} /\ Len(pkt) = BlockLen(pkt[1]) + 4
  BY <1>1, PacketAssumption DEF BlockLen, PacketLen
<1>3. Chunk \in 1 .. len - written /\ Chunk <= BlockLen(pkt[1])
  BY <1>1, <1>2 DEF Chunk, Smaller
<1>4. PagePart \in 1 .. PageSize /\ pageOff + PagePart <= Chunk
  BY <1>1, <1>3, GeometryAssumption DEF PagePart, Smaller
<1>5. ASSUME NEW i \in 0 .. PageSize - 1, i < PagePart
      PROVE  pkt[4 + pageOff + i] \in Byte
  <2>1. 4 + pageOff + i \in 1 .. Len(pkt)
    BY <1>1, <1>2, <1>3, <1>4, <1>5, GeometryAssumption
  <2> QED
    BY <1>1, <2>1
<1>6. PageData \in [0 .. PageSize - 1 -> Byte]
  BY <1>5, ByteAssumption DEF PageData
<1>7. CurrentOff \in Addr /\ CurrentOff = off + Filled
      /\ CurrentOff + PagePart <= End
  BY <1>1, <1>3, <1>4, GeometryAssumption
     DEF CurrentOff, Filled, End, Addr
<1> QED
  BY <1>3, <1>4, <1>6, <1>7

(* The history of accepted bytes stays a flash image. *)
LEMMA AcceptedTyped ==
  ASSUME Typed, pc = "program", pageOff < Chunk, PageDone
  PROVE  accepted' \in Flash
<1>1. ASSUME NEW a \in Addr, CurrentOff <= a, a < CurrentOff + PagePart
      PROVE  PageData[a - CurrentOff] \in Byte
  <2>1. /\ CurrentOff \in Addr /\ PagePart \in 1 .. PageSize
        /\ PageData \in [0 .. PageSize - 1 -> Byte]
    BY PageInRange
  <2>2. a - CurrentOff \in 0 .. PageSize - 1
    BY <1>1, <2>1, GeometryAssumption DEF Addr
  <2> QED
    BY <2>1, <2>2
<1>2. accepted \in Flash
  BY DEF Typed, TypeOK
<1> QED
  BY <1>1, <1>2 DEF PageDone, Flash

(* The range checks of the three handlers, on a chip of any size.          *)
LEMMA AdmittedRange ==
  ASSUME size \in {0, FlashSize}, NEW c \in FlashOps,
         NEW o \in 0 .. Word - 1, NEW n \in 0 .. Word - 1, Admitted(c, o, n)
  PROVE  LET r == RangeOf(c, o, n) IN
           /\ r[1] \in Addr /\ r[1] >= WriteMin /\ r[1] % SectorSize = 0
           /\ r[2] \in Nat \ {0} /\ r[1] + r[2] <= FlashSize
<1>1. CASE c = "FLASH_CHIP_ERASE"
  BY <1>1, GeometryAssumption DEF Admitted, RangeOf, Addr
<1>2. CASE c # "FLASH_CHIP_ERASE"
  <2>1. InFlash(o, n) /\ o >= WriteMin /\ o % SectorSize = 0
    BY <1>2 DEF Admitted, FlashOps
  <2> QED
    BY <1>2, <2>1, GeometryAssumption, WordAssumption
       DEF InFlash, RangeDoesNotWrap, RangeOf, Addr
<1> QED
  BY <1>1, <1>2

(* Every step keeps the types and the thread's invariant. *)
LEMMA TypedStep == Typed /\ [Next]_vars => Typed'
<1> SUFFICES ASSUME Typed, [Next]_vars PROVE Typed'
  OBVIOUS
<1> USE DEF Typed, TypeOK, ThreadState, InTransfer, End, command, progress,
            Points, Statuses, Results, FlashOps
<1>1. CASE EraseRound
  <2> USE <1>1 DEF EraseRound
  <2>1. rx' \in Seq(Byte) /\ tx' \in Seq(Byte) /\ pkt' \in Seq(Byte)
    BY UartTyped
  <2>2. flash' \in Flash
    BY EraseTyped
  <2>3. off + len \in Nat /\ cursor \in Nat /\ cursor % SectorSize = 0
    BY DEF Addr
  <2>4. /\ EraseSize(cursor, off + len) \in Nat \ {0}
        /\ EraseSize(cursor, off + len) % SectorSize = 0
    BY <2>3, EraseUnit
  <2>5. /\ cursor' = cursor + EraseSize(cursor, off + len)
        /\ off' = off /\ off \in Nat /\ cursor \in Nat
    BY DEF Addr
  <2>6. cursor' \in Nat /\ off' <= cursor'
    BY <2>4, <2>5
  <2>7. cursor' % SectorSize = 0
    BY <2>4, <2>5, AlignedSum, GeometryAssumption
  <2> QED
    BY <2>1, <2>2, <2>3, <2>4, <2>5, <2>6, <2>7
<1>2. CASE EraseFails
  <2> USE <1>2 DEF EraseFails, Finish
  <2>1. rx' \in Seq(Byte) /\ tx' \in Seq(Byte) /\ pkt' \in Seq(Byte)
    BY UartTyped
  <2>2. flash' \in Flash
    BY EraseTyped
  <2> QED
    BY <2>1, <2>2
<1>3. CASE EraseCommandDone
  <2> USE <1>3 DEF EraseCommandDone, Finish
  <2>1. rx' \in Seq(Byte) /\ tx' \in Seq(Byte) /\ pkt' \in Seq(Byte)
    BY UartTyped
  <2> QED
    BY <2>1
<1>4. CASE ErasedForTransfer
  <2> USE <1>4 DEF ErasedForTransfer
  <2>1. rx' \in Seq(Byte) /\ tx' \in Seq(Byte) /\ pkt' \in Seq(Byte)
    BY UartTyped
  <2> QED
    BY <2>1
<1>5. CASE SendPrompt
  <2> USE <1>5 DEF SendPrompt
  <2>1. rx' \in Seq(Byte) /\ tx' \in Seq(Byte) /\ pkt' \in Seq(Byte)
    BY UartTyped
  <2>2. tries' \in 0 .. MaxPrompts
    BY PromptAssumption
  <2> QED
    BY <2>1, <2>2
<1>6. CASE PromptUnanswered
  <2> USE <1>6 DEF PromptUnanswered, Silent
  <2>1. rx' \in Seq(Byte) /\ tx' \in Seq(Byte) /\ pkt' \in Seq(Byte)
    BY UartTyped
  <2> QED
    BY <2>1
<1>7. CASE NoSender
  <2> USE <1>7 DEF NoSender, Finish
  <2>1. rx' \in Seq(Byte) /\ tx' \in Seq(Byte) /\ pkt' \in Seq(Byte)
    BY UartTyped
  <2> QED
    BY <2>1
<1>8. CASE FirstMarker
  <2> USE <1>8 DEF FirstMarker, StartPacket
  <2>1. rx' \in Seq(Byte) /\ tx' \in Seq(Byte) /\ pkt' \in Seq(Byte)
    BY UartTyped
  <2>2. Len(pkt') \in 1 .. PacketLen(pkt'[1])
    BY PacketAssumption DEF PacketLen, BlockLen
  <2> QED
    BY <2>1, <2>2
<1>9. CASE NotASender
  <2> USE <1>9 DEF NotASender, Finish
  <2>1. rx' \in Seq(Byte) /\ tx' \in Seq(Byte) /\ pkt' \in Seq(Byte)
    BY UartTyped
  <2> QED
    BY <2>1
<1>10. CASE PacketMarker
  <2> USE <1>10 DEF PacketMarker, StartPacket
  <2>1. rx' \in Seq(Byte) /\ tx' \in Seq(Byte) /\ pkt' \in Seq(Byte)
    BY UartTyped
  <2>2. Len(pkt') \in 1 .. PacketLen(pkt'[1])
    BY PacketAssumption DEF PacketLen, BlockLen
  <2> QED
    BY <2>1, <2>2
<1>11. CASE EndOfTransfer
  <2> USE <1>11 DEF EndOfTransfer, Finish
  <2>1. rx' \in Seq(Byte) /\ tx' \in Seq(Byte) /\ pkt' \in Seq(Byte)
    <3>1. CASE written = len
      BY <3>1, UartTyped
    <3>2. CASE written # len
      BY <3>2, UartTyped
    <3> QED
      BY <3>1, <3>2
  <2> QED
    BY <2>1
<1>12. CASE SenderCancels
  <2> USE <1>12 DEF SenderCancels, Finish
  <2>1. rx' \in Seq(Byte) /\ tx' \in Seq(Byte) /\ pkt' \in Seq(Byte)
    BY UartTyped
  <2> QED
    BY <2>1
<1>13. CASE UnknownMarker
  <2> USE <1>13 DEF UnknownMarker
  <2>1. rx' \in Seq(Byte) /\ tx' \in Seq(Byte) /\ pkt' \in Seq(Byte)
    BY UartTyped
  <2> QED
    BY <2>1
<1>14. CASE ReadPacketByte
  <2> USE <1>14 DEF ReadPacketByte
  <2>1. rx' \in Seq(Byte) /\ tx' \in Seq(Byte) /\ pkt' \in Seq(Byte)
    BY UartTyped
  <2>2. pkt'[1] = pkt[1] /\ Len(pkt') = Len(pkt) + 1
    BY UartTyped
  <2>3. Len(pkt') \in 1 .. PacketLen(pkt'[1])
    BY <2>2, PacketAssumption DEF PacketLen, BlockLen
  <2> QED
    BY <2>1, <2>2, <2>3
<1>15. CASE ReadTimeout
  <2> USE <1>15 DEF ReadTimeout, Finish, Silent
  <2>1. rx' \in Seq(Byte) /\ tx' \in Seq(Byte) /\ pkt' \in Seq(Byte)
    BY UartTyped
  <2> QED
    BY <2>1
<1>16. CASE BadPacket
  <2> USE <1>16 DEF BadPacket, AwaitMarker, PacketComplete
  <2>1. rx' \in Seq(Byte) /\ tx' \in Seq(Byte) /\ pkt' \in Seq(Byte)
    BY UartTyped
  <2> QED
    BY <2>1
<1>17. CASE RepeatedPacket
  <2> USE <1>17 DEF RepeatedPacket, AwaitMarker, PacketComplete
  <2>1. rx' \in Seq(Byte) /\ tx' \in Seq(Byte) /\ pkt' \in Seq(Byte)
    BY UartTyped
  <2> QED
    BY <2>1
<1>18. CASE UnwantedPacket
  <2> USE <1>18 DEF UnwantedPacket, Finish, PacketComplete
  <2>1. rx' \in Seq(Byte) /\ tx' \in Seq(Byte) /\ pkt' \in Seq(Byte)
    BY UartTyped
  <2> QED
    BY <2>1
<1>19. CASE NextPacket
  <2> USE <1>19 DEF NextPacket, PacketComplete
  <2>1. rx' \in Seq(Byte) /\ tx' \in Seq(Byte) /\ pkt' \in Seq(Byte)
    BY UartTyped
  <2>2. Chunk' = Chunk /\ 0 <= Chunk
    BY PacketAssumption DEF Chunk, Smaller, BlockLen
  <2> QED
    BY <2>1, <2>2
<1>20. CASE SkipErasedPage
  <2> USE <1>20 DEF SkipErasedPage, PageDone
  <2>1. rx' \in Seq(Byte) /\ tx' \in Seq(Byte) /\ pkt' \in Seq(Byte)
    BY UartTyped
  <2>2. accepted' \in Flash
    BY AcceptedTyped
  <2>3. pageOff' \in Nat /\ pageOff' <= Chunk
    BY PageInRange
  <2>4. Chunk' = Chunk
    BY DEF Chunk
  <2> QED
    BY <2>1, <2>2, <2>3, <2>4
<1>21. CASE ProgramPage
  <2> USE <1>21 DEF ProgramPage, PageDone
  <2>1. rx' \in Seq(Byte) /\ tx' \in Seq(Byte) /\ pkt' \in Seq(Byte)
    BY UartTyped
  <2>2. accepted' \in Flash
    BY AcceptedTyped
  <2>3. pageOff' \in Nat /\ pageOff' <= Chunk
    BY PageInRange
  <2>4. Chunk' = Chunk
    BY DEF Chunk
  <2>5. flash' \in Flash
    BY PageInRange, ProgramTyped
  <2> QED
    BY <2>1, <2>2, <2>3, <2>4, <2>5
<1>22. CASE ProgramFails
  <2> USE <1>22 DEF ProgramFails, Finish
  <2>1. rx' \in Seq(Byte) /\ tx' \in Seq(Byte) /\ pkt' \in Seq(Byte)
    BY UartTyped
  <2>2. flash' \in Flash
    BY PageInRange, ProgramTyped
  <2> QED
    BY <2>1, <2>2
<1>23. CASE FinishPacket
  <2> USE <1>23 DEF FinishPacket, AwaitMarker
  <2>1. rx' \in Seq(Byte) /\ tx' \in Seq(Byte) /\ pkt' \in Seq(Byte)
    BY UartTyped
  <2>2. Chunk \in 1 .. len - written
    BY PacketAssumption DEF Chunk, Smaller, BlockLen
  <2>3. expected' \in 0 .. NumberMod - 1
    BY PacketAssumption DEF Following
  <2> QED
    BY <2>1, <2>2, <2>3
<1>24. CASE DropByte
  <2> USE <1>24 DEF DropByte
  <2>1. rx' \in Seq(Byte) /\ tx' \in Seq(Byte) /\ pkt' \in Seq(Byte)
    BY UartTyped
  <2> QED
    BY <2>1
<1>25. ASSUME NEW c \in FlashOps, NEW o \in 0 .. Word - 1,
             NEW n \in 0 .. Word - 1, StubCommand(c, o, n)
      PROVE  Typed'
  <2>1. CASE RejectCommand(c, o, n)
    BY <2>1 DEF RejectCommand
  <2>2. CASE StartCommand(c, o, n)
    <3> USE <2>2 DEF StartCommand
    <3>1. off' \in Addr /\ len' \in Nat \ {0} /\ off' % SectorSize = 0
          /\ off' >= WriteMin /\ off' + len' <= FlashSize
      BY <1>25, AdmittedRange
    <3>2. /\ SohSize \in Nat \ {0} /\ StxSize \in Nat \ {0}
          /\ NumberMod \in Nat /\ NumberMod >= 2
      BY PacketAssumption
    <3> QED
      BY <3>1, <3>2, PromptAssumption DEF Addr
  <2> QED
    BY <1>25, <2>1, <2>2 DEF StubCommand
<1>26. CASE Environment
  BY <1>26 DEF Environment, Chunk
<1>27. CASE UNCHANGED vars
  BY <1>27 DEF vars, Chunk
<1> QED
  BY <1>1, <1>2, <1>3, <1>4, <1>5, <1>6, <1>7, <1>8, <1>9, <1>10, <1>11,
     <1>12, <1>13, <1>14, <1>15, <1>16, <1>17, <1>18, <1>19, <1>20, <1>21,
     <1>22, <1>23, <1>24, <1>25, <1>26, <1>27
     DEF Next, StubStep, StubWork, StubTimeout

(* Both together are inductive. *)
LEMMA TypedAlways == Spec => []Typed
BY TypedInit, TypedStep, PTL DEF Spec

(* Every variable of the stub keeps to its type, and every range that a    *)
(* command works on lies in the writable part of the chip, whatever frames *)
(* and bytes arrive and however the chip fails.                            *)
THEOREM TypeCorrect == Spec => []TypeOK
<1>1. Typed => TypeOK
  BY DEF Typed
<1> QED
  BY <1>1, TypedAlways, PTL

(* What the thread relies on at each point of its code holds there: its    *)
(* erase cursor is on a sector and its page loop stays inside the packet   *)
(* buffer and the range.                                                   *)
THEOREM ThreadCorrect == Spec => []ThreadState
<1>1. Typed => ThreadState
  BY DEF Typed
<1> QED
  BY <1>1, TypedAlways, PTL

-----------------------------------------------------------------------------
(* What an erase or a page program leaves alone. *)

(* A unit of the erase loop lies in the sectors of the range and not       *)
(* behind the cursor.                                                      *)
LEMMA EraseStaysInside ==
  ASSUME Typed, pc = "erase", cursor < End, NEW stuck, NEW a \in Addr,
         ~InRangeSectors(a) \/ a < cursor
  PROVE  ChipErase(flash, cursor, EraseSize(cursor, End), stuck)[a] = flash[a]
<1> DEFINE unit == EraseSize(cursor, End)
<1>1. /\ a \in Nat /\ off \in Nat /\ cursor \in Nat /\ End \in Nat
      /\ SectorSize \in Nat \ {0}
      /\ off <= cursor /\ cursor % SectorSize = 0
  BY GeometryAssumption DEF Typed, TypeOK, ThreadState, Addr, End
<1>2. /\ unit \in Nat \ {0} /\ unit % SectorSize = 0
      /\ Base(cursor, unit) = cursor
      /\ unit = SectorSize \/ cursor + unit <= End
  BY <1>1, EraseUnit
<1> HIDE DEF unit
<1>3. /\ Base(a, SectorSize) \in Nat /\ Base(a, SectorSize) <= a
      /\ a < Base(a, SectorSize) + SectorSize
  BY <1>1, BaseBounds
<1>4. ~(cursor <= a /\ a < cursor + unit)
  <2> SUFFICES ASSUME cursor <= a, a < cursor + unit PROVE FALSE
    OBVIOUS
  <2>1. End <= Base(a, SectorSize)
    BY <1>1, <1>3 DEF InRangeSectors
  <2>2. unit = SectorSize
    BY <1>1, <1>2, <1>3, <2>1
  <2>3. (cursor + SectorSize) % SectorSize = 0
    BY <1>1, <1>2, <2>2, AlignedSum
  <2>4. Base(a, SectorSize) + SectorSize <= cursor + SectorSize
    BY <1>1, <2>2, <2>3, BaseBelow
  <2> QED
    BY <1>1, <1>3, <2>1, <2>4
<1>5. OnChip(cursor) = cursor
  <2>1. cursor \in Addr
    BY GeometryAssumption DEF Typed, TypeOK, ThreadState, Addr, End
  <2> QED
    BY <2>1, Reached
<1> QED
  BY <1>2, <1>4, <1>5 DEF ChipErase, unit

(* The page that is programmed, wrapping or not, lies in one sector of the *)
(* range.                                                                  *)
LEMMA PageInSector ==
  ASSUME Typed, pc = "program", pageOff < Chunk, NEW a \in Addr,
         Base(CurrentOff, PageSize) <= a,
         a < Base(CurrentOff, PageSize) + PageSize
  PROVE  InRangeSectors(a)
<1> DEFINE o == CurrentOff
           page == Base(o, PageSize)
           sector == Base(o, SectorSize)
<1>1. /\ a \in Nat /\ off \in Nat /\ End \in Nat /\ off % SectorSize = 0
      /\ PageSize \in Nat \ {0} /\ SectorSize \in Nat \ {0}
      /\ SectorSize % PageSize = 0
  BY GeometryAssumption DEF Typed, TypeOK, Addr, End
<1>2. o \in Nat /\ off <= o /\ o < End
  <2>1. /\ o \in Addr /\ o = off + Filled
        /\ PagePart \in 1 .. PageSize /\ o + PagePart <= End
    BY PageInRange
  <2>2. Filled \in Nat
    BY DEF Typed, TypeOK, Filled
  <2> HIDE DEF o
  <2>3. PagePart \in Nat /\ PagePart >= 1 /\ o \in Nat
    BY <1>1, <2>1, GeometryAssumption DEF Addr
  <2> QED
    BY <1>1, <2>1, <2>2, <2>3
<1>3. page <= a /\ a < page + PageSize
  OBVIOUS
<1> HIDE DEF o
<1>4. off <= page
  BY <1>1, <1>2, AlignedCoarser, BaseAbove
<1>5. /\ sector \in Nat /\ sector <= o /\ o < sector + SectorSize
      /\ sector = (SectorSize * (o \div SectorSize)) + 0
      /\ o \div SectorSize \in Nat
  <2>1. /\ sector \in Nat /\ sector <= o /\ o < sector + SectorSize
        /\ sector = o - (o % SectorSize)
    BY <1>1, <1>2, BaseBounds DEF Base
  <2>2. /\ o \div SectorSize \in Nat
        /\ o = (SectorSize * (o \div SectorSize)) + (o % SectorSize)
    BY <1>1, <1>2, Quotient
  <2> HIDE DEF sector
  <2>3. o % SectorSize \in Nat /\ SectorSize * (o \div SectorSize) \in Nat
    BY <1>1, <1>2, <2>2
  <2> QED
    BY <1>2, <2>1, <2>2, <2>3
<1> HIDE DEF sector
<1>6. /\ sector % SectorSize = 0 /\ (sector + SectorSize) % SectorSize = 0
      /\ sector + SectorSize \in Nat
  <2>1. sector % SectorSize = 0
    <3>1. PICK q \in Nat : sector = (SectorSize * q) + 0
      BY <1>5
    <3>2. ((SectorSize * q) + 0) % SectorSize = 0
      BY <1>1, RestOfMultiple
    <3> QED
      BY <3>1, <3>2
  <2>2. SectorSize = (SectorSize * 1) + 0
    BY <1>1
  <2>3. SectorSize % SectorSize = 0
    BY <1>1, <2>2, RestOfMultiple
  <2>4. sector \in Nat /\ SectorSize \in Nat /\ sector + SectorSize \in Nat
    BY <1>1, <1>5
  <2>5. (sector + SectorSize) % SectorSize = 0
    BY <1>1, <2>1, <2>3, <2>4, AlignedSum
  <2> QED
    BY <2>1, <2>4, <2>5
<1>7. sector % PageSize = 0 /\ (sector + SectorSize) % PageSize = 0
  <2>1. sector % PageSize = 0
    BY <1>1, <1>5, <1>6, AlignedCoarser
  <2>2. (sector + SectorSize) % PageSize = 0
    BY <1>1, <1>6, AlignedCoarser
  <2> QED
    BY <2>1, <2>2
<1>8. sector <= page /\ page + PageSize <= sector + SectorSize
  <2>1. sector <= page
    BY <1>1, <1>2, <1>5, <1>7, BaseAbove
  <2>2. page + PageSize <= sector + SectorSize
    BY <1>1, <1>2, <1>5, <1>6, <1>7, BaseBelow
  <2> QED
    BY <2>1, <2>2
<1>9. page \in Nat
  BY <1>1, <1>2, BaseBounds
<1> HIDE DEF page
<1>10. Base(a, SectorSize) + SectorSize <= sector + SectorSize
  <2>1. a < sector + SectorSize
    BY <1>1, <1>3, <1>5, <1>8, <1>9
  <2> QED
    BY <1>1, <1>6, <2>1, BaseBelow
<1>11. Base(a, SectorSize) \in Nat
  BY <1>1, BaseBounds
<1> QED
  BY <1>1, <1>2, <1>3, <1>4, <1>5, <1>9, <1>10, <1>11 DEF InRangeSectors

(* So a page program changes nothing outside the sectors of the range.     *)
LEMMA ProgramStaysInside ==
  ASSUME Typed, pc = "program", pageOff < Chunk, NEW stuck, NEW a \in Addr,
         ~InRangeSectors(a)
  PROVE  ChipProgram(flash, CurrentOff, PageData, stuck)[a] = flash[a]
BY PageInSector, PageInRange, Reached DEF ChipProgram

-----------------------------------------------------------------------------
(* The protected area. *)

(* No sector of a command's range lies in the protected area. *)
LEMMA ProtectedOutside ==
  ASSUME Typed, NEW a \in Addr, a < WriteMin
  PROVE  ~InRangeSectors(a)
BY GeometryAssumption DEF Typed, TypeOK, InRangeSectors, Addr

(* Four steps touch the chip, each inside the sectors of the range. *)
LEMMA ChipStep ==
  ASSUME Typed, [Next]_vars, NEW a \in Addr, ~InRangeSectors(a)
  PROVE  flash'[a] = flash[a]
<1>1. CASE EraseRound
  BY <1>1, EraseStaysInside DEF EraseRound
<1>2. CASE EraseFails
  BY <1>2, EraseStaysInside DEF EraseFails
<1>3. CASE ProgramPage
  BY <1>3, ProgramStaysInside DEF ProgramPage
<1>4. CASE ProgramFails
  BY <1>4, ProgramStaysInside DEF ProgramFails
<1>5. CASE ~(EraseRound \/ EraseFails \/ ProgramPage \/ ProgramFails)
  <2>1. flash' = flash
    BY <1>5 DEF Next, StubCommand, RejectCommand, StartCommand, StubStep,
       StubWork, StubTimeout, Environment, vars, EraseCommandDone,
       ErasedForTransfer, SendPrompt, PromptUnanswered, NoSender,
       FirstMarker, NotASender, StartPacket, PacketMarker, EndOfTransfer,
       SenderCancels, UnknownMarker, ReadPacketByte, ReadTimeout, BadPacket,
       RepeatedPacket, UnwantedPacket, NextPacket, SkipErasedPage,
       FinishPacket, DropByte
  <2> QED
    BY <2>1
<1> QED
  BY <1>1, <1>2, <1>3, <1>4, <1>5

(* No step of the stub, whatever the peer sends and however the chip       *)
(* fails, changes a unit below FLASH_WRITE_MIN_OFFSET.                     *)
THEOREM ProtectedArea == Spec => ProtectedNeverWritten
<1>1. Typed /\ [Next]_vars =>
        [\A a \in Addr : a < WriteMin => flash'[a] = flash[a]]_vars
  BY ChipStep, ProtectedOutside
<1> QED
  BY <1>1, TypedAlways, PTL DEF Spec, ProtectedNeverWritten

-----------------------------------------------------------------------------
(* The flash behind and in front of the cursor. *)

(* Once the erase cursor has reached the end, no unit of the range's       *)
(* sectors lies in front of it.                                            *)
LEMMA ErasedToTheEnd ==
  ASSUME Typed, pc = "erase", cursor >= End, NEW a \in Addr, InRangeSectors(a)
  PROVE  off <= a /\ a < cursor
<1>1. /\ a \in Nat /\ cursor \in Nat /\ End \in Nat
      /\ SectorSize \in Nat \ {0} /\ cursor % SectorSize = 0
  BY GeometryAssumption DEF Typed, TypeOK, ThreadState, Addr, End
<1>2. Base(a, SectorSize) \in Nat
  BY <1>1, BaseBounds
<1>3. ~(cursor <= a)
  <2> SUFFICES ASSUME cursor <= a PROVE FALSE
    OBVIOUS
  <2>1. cursor <= Base(a, SectorSize)
    BY <1>1, BaseAbove
  <2> QED
    BY <1>1, <1>2, <2>1 DEF InRangeSectors
<1> QED
  BY <1>1, <1>3 DEF InRangeSectors

(* The units of the range are units of its sectors. *)
LEMMA RangeInSectors ==
  ASSUME Typed, NEW a \in Addr, off <= a, a < End
  PROVE  InRangeSectors(a)
<1>1. a \in Nat /\ End \in Nat /\ SectorSize \in Nat \ {0}
  BY GeometryAssumption DEF Typed, TypeOK, Addr, End
<1>2. Base(a, SectorSize) \in Nat /\ Base(a, SectorSize) <= a
  BY <1>1, BaseBounds
<1> QED
  BY <1>1, <1>2 DEF InRangeSectors

(* A page program that was read back has changed the units it was meant    *)
(* for and no other.  What wraps to the start of the page is 0xFF: beyond  *)
(* the payload by the fill of the page buffer, and within it because the   *)
(* read-back found it where the chip had not put it, in erased flash.      *)
LEMMA VerifiedProgram ==
  ASSUME Typed, VerifiedPrefix, pc = "program", pageOff < Chunk,
         NEW stuck, NEW f, f = ChipProgram(flash, CurrentOff, PageData, stuck),
         RangeMatches(f, CurrentOff, PageData, PagePart),
         NEW a \in Addr, ~(CurrentOff <= a /\ a < CurrentOff + PagePart)
  PROVE  f[a] = flash[a]
<1> DEFINE o == CurrentOff
           page == Base(o, PageSize)
<1>1. /\ PageData \in [0 .. PageSize - 1 -> Byte]
      /\ PagePart \in 1 .. PageSize /\ o \in Addr /\ o = off + Filled
      /\ o + PagePart <= End /\ OnChip(o) = o
  BY PageInRange, Reached
<1>2. /\ a \in Nat /\ o \in Nat /\ off \in Nat /\ End \in Nat
      /\ PageSize \in Nat \ {0} /\ FlashSize \in Nat
      /\ off <= o /\ End <= FlashSize
      /\ PagePart \in Nat
  BY <1>1, GeometryAssumption DEF Typed, TypeOK, Addr, End, Filled
<1>3. page \in Nat /\ page <= o /\ o < page + PageSize
  BY <1>2, BaseBounds
<1>4. flash[a] \in Byte /\ FF \in Byte /\ And(flash[a], FF) = flash[a]
  BY ByteAssumption, AndAssumption DEF Typed, TypeOK, Flash
<1> HIDE DEF o, page
<1>5. CASE ~(page <= a /\ a < page + PageSize)
  BY <1>1, <1>5 DEF ChipProgram, o, page
<1>6. CASE page <= a /\ a < page + PageSize /\ a >= o
  <2>1. a - o \in 0 .. PageSize - 1 /\ ~(a - o < PagePart)
    BY <1>2, <1>3, <1>6 DEF o
  <2>2. PageData[a - o] = FF
    BY <2>1 DEF PageData
  <2> QED
    BY <1>1, <1>4, <1>6, <2>2 DEF ChipProgram, o, page
<1>7. CASE page <= a /\ a < page + PageSize /\ ~(a >= o)
  <2> DEFINE i == a - o + PageSize
  <2>1. i \in 0 .. PageSize - 1
    BY <1>2, <1>3, <1>7
  <2>2. PageData[i] = FF
    <3>1. CASE ~(i < PagePart)
      BY <2>1, <3>1 DEF PageData
    <3>2. CASE i < PagePart
      <4>0. i \in Nat /\ PagePart \in Nat
        BY <1>2, <2>1
      <4>1. /\ o + i \in Addr /\ off <= o + i /\ off + Filled <= o + i
            /\ o + i < End
            /\ ~(o + i < page + PageSize)
        <5>1. o + PagePart <= End /\ o = off + Filled
          BY <1>1
        <5>2. off <= o + i /\ off + Filled <= o + i
          BY <1>2, <4>0, <5>1
        <5>3. o + i < End
          BY <1>2, <3>2, <4>0, <5>1
        <5>4. o + i \in Addr
          BY <1>2, <4>0, <5>3 DEF Addr
        <5>5. ~(o + i < page + PageSize)
          BY <1>2, <1>3, <1>7
        <5> QED
          BY <5>2, <5>3, <5>4, <5>5
      <4>2. flash[o + i] = FF
        BY <4>1, RangeInSectors DEF VerifiedPrefix, InTransfer
      <4>3. f[o + i] = flash[o + i]
        BY <1>1, <4>1 DEF ChipProgram, o, page
      <4>4. i \in 0 .. PagePart - 1
        BY <1>2, <2>1, <3>2
      <4>5. f[o + i] = PageData[i]
        BY <4>4 DEF RangeMatches, o
      <4> QED
        BY <4>2, <4>3, <4>5
    <3> QED
      BY <3>1, <3>2
  <2>3. f[a] = IF a \in stuck THEN flash[a] ELSE And(flash[a], PageData[i])
    BY <1>1, <1>7 DEF ChipProgram, o, page
  <2> QED
    BY <1>4, <2>2, <2>3
<1> QED
  BY <1>5, <1>6, <1>7

-----------------------------------------------------------------------------
(* The inductive invariant of the flash commands. *)

Safe == Typed /\ VerifiedPrefix /\ DoneMeansComplete /\ OutsideUntouched

(* It holds before the first command, ... *)
LEMMA SafeInit == Init => Safe
<1> SUFFICES ASSUME Init PROVE Safe
  OBVIOUS
<1>1. Typed
  BY TypedInit
<1>2. VerifiedPrefix /\ DoneMeansComplete /\ OutsideUntouched
  BY DEF Init, VerifiedPrefix, DoneMeansComplete, OutsideUntouched, InTransfer
<1> QED
  BY <1>1, <1>2 DEF Safe

(* A step that leaves the chip and the position in it alone keeps the      *)
(* invariant, unless it starts the transfer or reports success.            *)
StaysPut ==
  /\ UNCHANGED <<flash, off, len, op, before, accepted, cursor>>
  /\ Filled' = Filled
  /\ InTransfer' => InTransfer
  /\ pc' = "erase" => pc = "erase"
  /\ pc' = "idle" /\ result' = "done" => pc = "idle" /\ result = "done"

(* A step that leaves the chip and the cursors alone keeps it. *)
LEMMA StaysPutSafe ==
  ASSUME Safe, StaysPut
  PROVE  VerifiedPrefix' /\ DoneMeansComplete' /\ OutsideUntouched'
<1>1. /\ flash' = flash /\ off' = off /\ op' = op /\ accepted' = accepted
      /\ before' = before /\ cursor' = cursor /\ End' = End
      /\ Filled' = Filled
      /\ \A a : InRangeSectors(a)' <=> InRangeSectors(a)
  BY DEF StaysPut, End, InRangeSectors
<1>2. VerifiedPrefix'
  BY <1>1 DEF Safe, StaysPut, VerifiedPrefix
<1>3. DoneMeansComplete'
  BY <1>1 DEF Safe, StaysPut, DoneMeansComplete
<1>4. OutsideUntouched'
  BY <1>1 DEF Safe, OutsideUntouched
<1> QED
  BY <1>2, <1>3, <1>4

(* The steps of that kind. *)
QuietStep ==
  \/ SendPrompt \/ PromptUnanswered \/ NoSender \/ FirstMarker \/ NotASender
  \/ EndOfTransfer /\ written # len
  \/ PacketMarker \/ SenderCancels \/ UnknownMarker \/ ReadPacketByte
  \/ ReadTimeout \/ BadPacket \/ RepeatedPacket \/ UnwantedPacket
  \/ NextPacket \/ FinishPacket \/ DropByte \/ Environment \/ UNCHANGED vars
  \/ \E c \in FlashOps, o \in 0 .. Word - 1, n \in 0 .. Word - 1 :
       RejectCommand(c, o, n)

(* Most steps are of that kind. *)
LEMMA QuietStaysPut ==
  ASSUME Typed, QuietStep
  PROVE  StaysPut
<1>1. CASE FinishPacket
  <2>1. /\ pageOff = Chunk /\ written \in Nat /\ Chunk \in Nat
    BY <1>1, PacketAssumption
       DEF FinishPacket, Typed, TypeOK, ThreadState, Chunk, Smaller, BlockLen
  <2>2. Filled' = Filled
    BY <1>1, <2>1 DEF FinishPacket, Filled
  <2> QED
    BY <1>1, <2>2 DEF FinishPacket, AwaitMarker, StaysPut, InTransfer, command
<1>2. CASE NextPacket
  BY <1>2 DEF NextPacket, PacketComplete, StaysPut, InTransfer, Filled,
     command, Typed, ThreadState
<1>3. CASE QuietStep /\ ~FinishPacket /\ ~NextPacket
  BY <1>3 DEF QuietStep, StaysPut, InTransfer, Filled, vars, command,
     progress, Finish, AwaitMarker, StartPacket, PacketComplete, Environment,
     SendPrompt, PromptUnanswered, NoSender, FirstMarker, NotASender,
     PacketMarker, EndOfTransfer, SenderCancels, UnknownMarker,
     ReadPacketByte, ReadTimeout, BadPacket, RepeatedPacket, UnwantedPacket,
     DropByte, RejectCommand
<1> QED
  BY <1>1, <1>2, <1>3

(* PageInRange in the terms of the lemmas below. *)
LEMMA PageBounds ==
  ASSUME Safe, pc = "program", pageOff < Chunk
  PROVE  /\ PagePart \in Nat /\ CurrentOff = off + Filled
         /\ CurrentOff \in Nat /\ off <= CurrentOff
         /\ CurrentOff + PagePart <= End
         /\ off \in Nat /\ End \in Nat /\ Filled \in Nat
<1>1. Typed
  BY DEF Safe
<1>2. /\ CurrentOff \in Addr /\ CurrentOff = off + Filled
      /\ PagePart \in 1 .. PageSize /\ CurrentOff + PagePart <= End
  BY <1>1, PageInRange
<1>3. /\ off \in Nat /\ len \in Nat /\ Filled \in Nat /\ PageSize \in Nat
      /\ CurrentOff \in Nat
  BY <1>1, <1>2, GeometryAssumption DEF Typed, TypeOK, Addr, Filled
<1>4. End \in Nat
  BY <1>3 DEF End
<1> QED
  BY <1>2, <1>3, <1>4

(* The page just handled joins the verified prefix. *)
LEMMA PageJoinsPrefix ==
  ASSUME Safe, pc = "program", pageOff < Chunk, PageDone,
         \A a \in Addr : ~(CurrentOff <= a /\ a < CurrentOff + PagePart)
                         => flash'[a] = flash[a],
         \A a \in Addr : CurrentOff <= a /\ a < CurrentOff + PagePart
                         => flash'[a] = PageData[a - CurrentOff]
  PROVE  VerifiedPrefix' /\ DoneMeansComplete' /\ OutsideUntouched'
<1>1. /\ PagePart \in Nat /\ CurrentOff = off + Filled
      /\ CurrentOff \in Nat /\ CurrentOff + PagePart <= End
      /\ off \in Nat /\ End \in Nat /\ Filled \in Nat
  BY PageBounds
<1>2. /\ pc' = pc /\ off' = off /\ len' = len /\ op' = op /\ before' = before
      /\ Filled' = Filled + PagePart /\ End' = End
      /\ \A a \in Addr : InRangeSectors(a)' <=> InRangeSectors(a)
  <2>1. /\ pc' = pc /\ off' = off /\ len' = len /\ op' = op
        /\ before' = before /\ written' = written
        /\ pageOff' = pageOff + PagePart
    BY DEF PageDone, command
  <2>2. written \in Nat /\ pageOff \in Nat
    BY DEF Safe, Typed, TypeOK
  <2>3. Filled' = Filled + PagePart
    BY <1>1, <2>1, <2>2 DEF Filled
  <2>4. End' = End
    BY <2>1 DEF End
  <2> QED
    BY <2>1, <2>3, <2>4 DEF InRangeSectors
<1>3. \A a \in Addr : accepted'[a] =
        IF CurrentOff <= a /\ a < CurrentOff + PagePart
        THEN PageData[a - CurrentOff] ELSE accepted[a]
  BY DEF PageDone
<1>4. ASSUME NEW a \in Addr
      PROVE  /\ off <= a /\ a < off + Filled + PagePart
                  => flash'[a] = accepted'[a]
             /\ off + Filled + PagePart <= a /\ InRangeSectors(a)
                  => flash'[a] = FF
  <2>1. /\ off <= a /\ a < off + Filled => flash[a] = accepted[a]
        /\ off + Filled <= a /\ InRangeSectors(a) => flash[a] = FF
    BY DEF Safe, VerifiedPrefix, InTransfer
  <2>2. a \in Nat
    BY DEF Addr
  <2>3. CASE CurrentOff <= a /\ a < CurrentOff + PagePart
    BY <1>1, <1>3, <2>2, <2>3
  <2>4. CASE ~(CurrentOff <= a /\ a < CurrentOff + PagePart)
    BY <1>1, <1>3, <2>1, <2>2, <2>4
  <2> QED
    BY <2>3, <2>4
<1>5. off' + Filled' = off + Filled + PagePart
  BY <1>1, <1>2
<1>6. VerifiedPrefix'
  BY <1>2, <1>4, <1>5 DEF VerifiedPrefix
<1>7. OutsideUntouched'
  BY <1>1, <1>2, RangeInSectors
     DEF Safe, OutsideUntouched, Filled, Typed, TypeOK, Addr
<1> QED
  BY <1>2, <1>6, <1>7 DEF DoneMeansComplete

(* Every step of the stub keeps the invariant. *)
LEMMA SafeStep == Safe /\ [Next]_vars => Safe'
<1> SUFFICES ASSUME Safe, [Next]_vars PROVE Safe'
  OBVIOUS
<1> SUFFICES VerifiedPrefix' /\ DoneMeansComplete' /\ OutsideUntouched'
  BY TypedStep DEF Safe
<1> USE DEF command, progress
<1>1. CASE QuietStep
  BY <1>1, QuietStaysPut, StaysPutSafe DEF Safe
<1>2. CASE EraseRound
  <2> DEFINE unit == EraseSize(cursor, End)
  <2>1. PICK stuck \in SUBSET Flaky :
          /\ flash' = ChipErase(flash, cursor, unit, stuck)
          /\ RangeIsErased(flash', cursor, unit)
          /\ cursor' = cursor + unit
    BY <1>2 DEF EraseRound
  <2>2. /\ pc = "erase" /\ pc' = "erase" /\ cursor < End
        /\ off' = off /\ End' = End /\ before' = before
        /\ \A a \in Addr : InRangeSectors(a)' <=> InRangeSectors(a)
    BY <1>2 DEF EraseRound, End, InRangeSectors
  <2>3. ASSUME NEW a \in Addr, ~InRangeSectors(a) \/ a < cursor
        PROVE  flash'[a] = flash[a]
    BY <2>1, <2>2, <2>3, EraseStaysInside DEF Safe
  <2>4. /\ cursor \in Nat /\ End \in Nat /\ cursor % SectorSize = 0
        /\ unit \in Nat
    BY <2>2, EraseUnit DEF Safe, Typed, TypeOK, ThreadState, End, Addr
  <2> HIDE DEF unit
  <2>5. ASSUME NEW a \in Addr, off <= a, a < cursor'
        PROVE  flash'[a] = FF
    <3>1. CASE a < cursor
      BY <2>2, <2>3, <2>5, <3>1 DEF Safe, VerifiedPrefix
    <3>2. CASE ~(a < cursor)
      <4>1. a \in cursor .. cursor + unit - 1
        BY <2>1, <2>4, <2>5, <3>2 DEF Addr
      <4> QED
        BY <2>1, <4>1 DEF RangeIsErased
    <3> QED
      BY <3>1, <3>2
  <2>6. VerifiedPrefix'
    BY <2>2, <2>5 DEF VerifiedPrefix, InTransfer
  <2>7. OutsideUntouched'
    BY <2>2, <2>3 DEF Safe, OutsideUntouched
  <2> QED
    BY <2>2, <2>6, <2>7 DEF DoneMeansComplete
<1>3. CASE EraseFails
  <2>1. /\ \A a \in Addr : ~InRangeSectors(a) => flash'[a] = flash[a]
        /\ \A a \in Addr : InRangeSectors(a)' <=> InRangeSectors(a)
        /\ before' = before /\ pc' = "idle" /\ result' = "failed"
    BY <1>3, ChipStep DEF EraseFails, Finish, InRangeSectors, End, Safe
  <2> QED
    BY <2>1 DEF Safe, VerifiedPrefix, InTransfer, DoneMeansComplete,
       OutsideUntouched
<1>4. CASE EraseCommandDone
  <2>1. /\ pc' = "idle" /\ flash' = flash /\ before' = before /\ op' = op
        /\ op # "FLASH_XMODEM_DL" /\ off' = off /\ End' = End
        /\ \A a \in Addr : InRangeSectors(a)' <=> InRangeSectors(a)
    BY <1>4 DEF EraseCommandDone, Finish, InRangeSectors, End
  <2>2. \A a \in Addr : InRangeSectors(a) => flash[a] = FF
    BY <1>4, ErasedToTheEnd DEF EraseCommandDone, Safe, VerifiedPrefix
  <2>3. \A a \in Addr : off <= a /\ a < End => flash[a] = FF
    BY <2>2, RangeInSectors DEF Safe
  <2> QED
    BY <2>1, <2>2, <2>3 DEF Safe, VerifiedPrefix, InTransfer,
       DoneMeansComplete, OutsideUntouched
<1>5. CASE ErasedForTransfer
  <2>1. /\ pc' = "prompt" /\ flash' = flash /\ before' = before
        /\ off' = off /\ Filled' = 0
        /\ \A a \in Addr : InRangeSectors(a)' <=> InRangeSectors(a)
    BY <1>5 DEF ErasedForTransfer, InRangeSectors, End, Filled, Safe, Typed,
       ThreadState
  <2>2. \A a \in Addr : InRangeSectors(a) => flash[a] = FF
    BY <1>5, ErasedToTheEnd DEF ErasedForTransfer, Safe, VerifiedPrefix
  <2>3. off \in Nat /\ Addr \subseteq Nat
    BY DEF Safe, Typed, TypeOK, Addr
  <2>4. off' + Filled' = off
    BY <2>1, <2>3
  <2>5. \A a \in Addr : ~(off <= a /\ a < off)
    BY <2>3
  <2>6. VerifiedPrefix'
    BY <2>1, <2>2, <2>4, <2>5 DEF VerifiedPrefix
  <2> QED
    BY <2>1, <2>6 DEF Safe, DoneMeansComplete, OutsideUntouched
<1>6. CASE EndOfTransfer /\ written = len
  <2>1. /\ pc = "marker" /\ pc' = "idle" /\ flash' = flash /\ before' = before
        /\ op' = op /\ off' = off /\ End' = End /\ accepted' = accepted
        /\ \A a \in Addr : InRangeSectors(a)' <=> InRangeSectors(a)
    BY <1>6 DEF EndOfTransfer, Finish, InRangeSectors, End
  <2>2. op = "FLASH_XMODEM_DL" /\ off + Filled = End
    BY <1>6, <2>1 DEF Safe, Typed, TypeOK, ThreadState, InTransfer, Filled, End
  <2>3. \A a \in Addr : /\ off <= a /\ a < End => flash[a] = accepted[a]
                        /\ End <= a /\ InRangeSectors(a) => flash[a] = FF
    BY <2>1, <2>2 DEF Safe, VerifiedPrefix, InTransfer
  <2> QED
    BY <2>1, <2>2, <2>3 DEF Safe, VerifiedPrefix, InTransfer,
       DoneMeansComplete, OutsideUntouched
<1>7. CASE SkipErasedPage
  <2>1. /\ pc = "program" /\ pageOff < Chunk /\ flash' = flash /\ PageDone
        /\ BufferIsErased(PageData, PagePart)
    BY <1>7 DEF SkipErasedPage
  <2>2. /\ CurrentOff \in Nat /\ CurrentOff = off + Filled
        /\ off <= CurrentOff /\ PagePart \in Nat
        /\ CurrentOff + PagePart <= End /\ End \in Nat
    BY <2>1, PageBounds
  <2>3. ASSUME NEW a \in Addr, CurrentOff <= a, a < CurrentOff + PagePart
        PROVE  flash'[a] = PageData[a - CurrentOff]
    <3>1. a \in Nat /\ a - CurrentOff \in 0 .. PagePart - 1
      BY <2>2, <2>3 DEF Addr
    <3>2. PageData[a - CurrentOff] = FF
      BY <2>1, <3>1 DEF BufferIsErased
    <3>3. off <= a /\ a < End
      <4>1. off \in Nat
        BY DEF Safe, Typed, TypeOK, Addr
      <4> QED
        BY <2>2, <2>3, <3>1, <4>1
    <3>4. InRangeSectors(a) /\ off + Filled <= a
      BY <2>2, <2>3, <3>3, RangeInSectors DEF Safe
    <3>5. flash[a] = FF
      BY <2>1, <3>4 DEF Safe, VerifiedPrefix, InTransfer
    <3> QED
      BY <2>1, <3>2, <3>5
  <2> QED
    BY <2>1, <2>3, PageJoinsPrefix
<1>8. CASE ProgramPage
  <2>1. PICK stuck \in SUBSET Flaky :
          flash' = ChipProgram(flash, CurrentOff, PageData, stuck)
    BY <1>8 DEF ProgramPage
  <2>2. /\ pc = "program" /\ pageOff < Chunk /\ PageDone
        /\ RangeMatches(flash', CurrentOff, PageData, PagePart)
    BY <1>8 DEF ProgramPage
  <2>3. \A a \in Addr : ~(CurrentOff <= a /\ a < CurrentOff + PagePart)
                        => flash'[a] = flash[a]
    BY <2>1, <2>2, VerifiedProgram DEF Safe
  <2>4. ASSUME NEW a \in Addr, CurrentOff <= a, a < CurrentOff + PagePart
        PROVE  flash'[a] = PageData[a - CurrentOff]
    <3>1. /\ CurrentOff \in Nat /\ PagePart \in Nat /\ a \in Nat
      BY <2>2, PageInRange, GeometryAssumption DEF Safe, Addr
    <3>2. a - CurrentOff \in 0 .. PagePart - 1
          /\ CurrentOff + (a - CurrentOff) = a
      BY <2>4, <3>1
    <3> QED
      BY <2>2, <3>2 DEF RangeMatches
  <2> QED
    BY <2>2, <2>3, <2>4, PageJoinsPrefix
<1>9. CASE ProgramFails
  <2>1. /\ \A a \in Addr : ~InRangeSectors(a) => flash'[a] = flash[a]
        /\ \A a \in Addr : InRangeSectors(a)' <=> InRangeSectors(a)
        /\ before' = before /\ pc' = "idle" /\ result' = "failed"
    BY <1>9, ChipStep DEF ProgramFails, Finish, InRangeSectors, End, Safe
  <2> QED
    BY <2>1 DEF Safe, VerifiedPrefix, InTransfer, DoneMeansComplete,
       OutsideUntouched
<1>10. ASSUME NEW c \in FlashOps, NEW o \in 0 .. Word - 1,
              NEW n \in 0 .. Word - 1, StartCommand(c, o, n)
       PROVE  VerifiedPrefix' /\ DoneMeansComplete' /\ OutsideUntouched'
  <2>1. /\ pc' = "erase" /\ cursor' = off' /\ before' = flash
        /\ flash' = flash
    BY <1>10 DEF StartCommand
  <2>2. off' \in Nat
    BY TypedStep DEF Safe, Typed, TypeOK, Addr
  <2> QED
    BY <2>1, <2>2 DEF VerifiedPrefix, InTransfer, DoneMeansComplete,
       OutsideUntouched, Addr
<1> QED
  BY <1>1, <1>2, <1>3, <1>4, <1>5, <1>6, <1>7, <1>8, <1>9, <1>10
     DEF Next, StubCommand, StubStep, StubWork, StubTimeout, QuietStep

(* The flash commands keep their promises for every chip, geometry, peer   *)
(* and line: what is behind the cursor is verified, success means that the *)
(* range is complete, and nothing outside its sectors has changed.         *)
THEOREM Safety == Spec => []Safe
BY SafeInit, SafeStep, PTL DEF Spec

(* While a range is filled, what has been accepted is in the flash and the *)
(* rest of its sectors is still erased, on every chip and for every peer.  *)
THEOREM Prefix == Spec => []VerifiedPrefix
<1>1. Safe => VerifiedPrefix
  BY DEF Safe
<1> QED
  BY <1>1, Safety, PTL

(* A command that ended well, after EOT or the last sector, has left its   *)
(* whole range as announced.                                               *)
THEOREM Completeness == Spec => []DoneMeansComplete
<1>1. Safe => DoneMeansComplete
  BY DEF Safe
<1> QED
  BY <1>1, Safety, PTL

(* No command, failed or not, changes a unit outside the sectors of its    *)
(* range.                                                                  *)
THEOREM Containment == Spec => []OutsideUntouched
<1>1. Safe => OutsideUntouched
  BY DEF Safe
<1> QED
  BY <1>1, Safety, PTL

-----------------------------------------------------------------------------
(* RawFlash implements FlashUpdate. *)

(* FlashUpdate's view of the state of the stub's thread. *)
Phase == IF pc = "idle" THEN "idle" ELSE IF pc = "erase" THEN "erasing"
         ELSE "filling"
Filling == op = "FLASH_XMODEM_DL"

(* Both modules speak of the same addresses and of the same sectors.       *)
LEMMA SameCells ==
  /\ Update!Cells = Addr /\ Update!FFs = FF
  /\ \A a \in Addr : a \in Update!Touched(off, len) <=> InRangeSectors(a)
  /\ \A a : a \in Update!Touched(off, len) => a \in Addr
<1>1. Update!Cells = Addr /\ Update!FFs = FF
  BY DEF Update!Cells, Addr, Update!FFs, FF
<1>2. Update!Touched(off, len) = {a \in Addr : InRangeSectors(a)}
  BY <1>1 DEF Update!Touched, InRangeSectors, Base, End
<1> QED
  BY <1>1, <1>2

(* The stub starts where FlashUpdate starts. *)
LEMMA InitIdle == Init => Update!Idle
BY SameCells DEF Init, Update!Idle, Flash, Filled

(* A step that hides from FlashUpdate. *)
LEMMA QuietStutters ==
  ASSUME Safe, QuietStep, Phase' = Phase, result' = result
  PROVE  UNCHANGED Update!updateVars
<1>1. StaysPut
  BY QuietStaysPut DEF Safe
<1> QED
  BY <1>1 DEF StaysPut, Update!updateVars, Phase

(* A failure, with the chip changed in the range's sectors at most. *)
LEMMA Failing ==
  ASSUME Safe, [Next]_vars, pc # "idle", Finish("failed"),
         UNCHANGED command, UNCHANGED <<written, pageOff>>
  PROVE  Update!Fail
<1>1. flash' \in [Update!Cells -> Byte]
  BY TypedStep, SameCells DEF Safe, Typed, TypeOK, Flash
<1>2. \A a \in Update!Cells \ Update!Touched(off, len) : flash'[a] = flash[a]
  BY ChipStep, SameCells DEF Safe
<1> QED
  BY <1>1, <1>2 DEF Update!Fail, Update!ChangesOnly, Finish, command, Filled

(* An accepted frame begins an update. *)
LEMMA Starting ==
  ASSUME Safe, [Next]_vars, NEW c \in FlashOps, NEW o \in 0 .. Word - 1,
         NEW n \in 0 .. Word - 1, StartCommand(c, o, n)
  PROVE  Update!Begin
<1> DEFINE r == RangeOf(c, o, n)
<1>1. /\ pc = "idle" /\ pc' = "erase" /\ flash' = flash /\ result' = "none"
      /\ off' = r[1] /\ len' = r[2] /\ Filled' = 0
  BY DEF StartCommand, Filled
<1>2. /\ r[1] \in Addr /\ r[1] >= WriteMin /\ r[1] % SectorSize = 0
      /\ r[2] \in Nat \ {0} /\ r[1] + r[2] <= FlashSize
  BY AdmittedRange DEF StartCommand, Safe, Typed, TypeOK
<1> HIDE DEF r
<1>3. r[1] \in WriteMin .. FlashSize - 1 /\ r[2] \in 1 .. FlashSize - r[1]
  BY <1>2, GeometryAssumption DEF Addr
<1>4. (op' = "FLASH_XMODEM_DL") \in BOOLEAN
  OBVIOUS
<1> QED
  BY <1>1, <1>2, <1>3, <1>4 DEF Update!Begin

(* A round of the erase loop is a step of erasing. *)
LEMMA Erasing ==
  ASSUME Safe, [Next]_vars, EraseRound
  PROVE  Update!Erase
<1>1. flash' \in [Update!Cells -> Byte]
  BY TypedStep, SameCells DEF Safe, Typed, TypeOK, Flash
<1>2. \A a \in Update!Cells \ Update!Touched(off, len) : flash'[a] = flash[a]
  BY ChipStep, SameCells DEF Safe
<1>3. \A a \in Addr : flash'[a] \in {flash[a], FF}
  BY DEF EraseRound, ChipErase
<1> QED
  BY <1>1, <1>2, <1>3, SameCells
     DEF EraseRound, Update!Erase, Update!ChangesOnly, command, progress, Filled

(* The end of the erase loop is the start of filling. *)
LEMMA Erased ==
  ASSUME Safe, ErasedForTransfer
  PROVE  Update!StartFilling
<1>1. \A a \in Update!Touched(off, len) : flash[a] = FF
  BY ErasedToTheEnd, SameCells DEF ErasedForTransfer, Safe, VerifiedPrefix
<1> QED
  BY <1>1, SameCells
     DEF ErasedForTransfer, Update!StartFilling, command, progress, Filled

(* One page is one step of filling. *)
LEMMA FillingPage ==
  ASSUME Safe, [Next]_vars, SkipErasedPage \/ ProgramPage
  PROVE  Update!Fill
<1>1. pc = "program" /\ pageOff < Chunk /\ PageDone
  BY DEF SkipErasedPage, ProgramPage
<1>2. /\ PagePart \in Nat \ {0} /\ PagePart \in Nat
      /\ CurrentOff = off + Filled /\ CurrentOff + PagePart <= off + len
      /\ off \in Nat /\ len \in Nat /\ Filled \in Nat
  <2>1. /\ PagePart \in 1 .. PageSize
        /\ CurrentOff = off + Filled /\ CurrentOff + PagePart <= End
    BY <1>1, PageInRange DEF Safe
  <2>2. off \in Nat /\ len \in Nat /\ Filled \in Nat
    BY DEF Safe, Typed, TypeOK, Addr, Filled
  <2> QED
    BY <2>1, <2>2, GeometryAssumption DEF End
<1>3. PagePart \in 1 .. len - Filled
  BY <1>2
<1>4. Filled' = Filled + PagePart
  BY <1>1, <1>2 DEF PageDone, Filled, Safe, Typed, TypeOK, command
<1>5. flash' \in [Update!Cells -> Byte]
  BY TypedStep, SameCells DEF Safe, Typed, TypeOK, Flash
<1>6. ASSUME NEW a \in Addr,
             a \notin off + Filled .. off + Filled + PagePart - 1
      PROVE  flash'[a] = flash[a]
  <2>1. ~(CurrentOff <= a /\ a < CurrentOff + PagePart)
    BY <1>2, <1>6 DEF Addr
  <2>2. CASE SkipErasedPage
    BY <2>2 DEF SkipErasedPage
  <2>3. CASE ProgramPage
    BY <1>1, <2>1, <2>3, VerifiedProgram DEF ProgramPage, Safe
  <2> QED
    BY <2>2, <2>3
<1>7. Update!ChangesOnly(off + Filled .. off + Filled + PagePart - 1)
  BY <1>5, <1>6, SameCells DEF Update!ChangesOnly
<1>8. /\ Phase = "filling" /\ Phase' = "filling"
      /\ off' = off /\ len' = len /\ op' = op /\ result' = result
  BY <1>1 DEF PageDone, Phase, command
<1> QED
  BY <1>3, <1>4, <1>7, <1>8 DEF Update!Fill, Phase

(* Success comes with the whole range filled, or erased. *)
LEMMA Ending ==
  ASSUME Safe, EraseCommandDone \/ (EndOfTransfer /\ written = len)
  PROVE  Update!Succeed
<1>1. CASE EraseCommandDone
  <2>1. \A a \in Addr : off <= a /\ a < End => flash[a] = FF
    BY <1>1, ErasedToTheEnd, RangeInSectors
       DEF EraseCommandDone, Safe, VerifiedPrefix
  <2>2. Update!Erased(flash, off, len)
    BY <2>1, SameCells DEF Update!Erased, End
  <2> QED
    BY <1>1, <2>2
       DEF EraseCommandDone, Update!Succeed, Finish, command, progress, Filled
<1>2. CASE EndOfTransfer /\ written = len
  <2>1. Filled = len
    BY <1>2 DEF EndOfTransfer, Safe, Typed, TypeOK, ThreadState, Filled
  <2> QED
    BY <1>2, <2>1
       DEF EndOfTransfer, Update!Succeed, Finish, command, progress, Filled
<1> QED
  BY <1>1, <1>2

(* Every step of the stub is a step of FlashUpdate or hides from it.       *)
LEMMA StepImplements ==
  Safe /\ [Next]_vars => [Update!Step]_Update!updateVars
<1> SUFFICES ASSUME Safe, [Next]_vars
             PROVE  [Update!Step]_Update!updateVars
  OBVIOUS
<1>1. CASE QuietStep /\ Phase' = Phase /\ result' = result
  BY <1>1, QuietStutters
<1>2. CASE \/ EraseFails \/ ProgramFails \/ NoSender \/ NotASender
           \/ SenderCancels \/ ReadTimeout \/ UnwantedPacket
           \/ (EndOfTransfer /\ written # len)
  <2>1. /\ pc # "idle" /\ Finish("failed")
        /\ UNCHANGED command /\ UNCHANGED <<written, pageOff>>
    BY <1>2 DEF EraseFails, ProgramFails, NoSender, NotASender,
       SenderCancels, ReadTimeout, UnwantedPacket, EndOfTransfer,
       PacketComplete, progress
  <2> QED
    BY <2>1, Failing DEF Update!Step
<1>3. ASSUME NEW c \in FlashOps, NEW o \in 0 .. Word - 1,
             NEW n \in 0 .. Word - 1, StartCommand(c, o, n)
      PROVE  Update!Begin
  BY <1>3, Starting
<1>4. CASE \E c \in FlashOps, o \in 0 .. Word - 1, n \in 0 .. Word - 1 :
             StartCommand(c, o, n)
  BY <1>3, <1>4 DEF Update!Step
<1>5. CASE EraseRound
  BY <1>5, Erasing DEF Update!Step
<1>6. CASE ErasedForTransfer
  BY <1>6, Erased DEF Update!Step
<1>7. CASE SkipErasedPage \/ ProgramPage
  BY <1>7, FillingPage DEF Update!Step
<1>8. CASE EraseCommandDone \/ (EndOfTransfer /\ written = len)
  BY <1>8, Ending DEF Update!Step
<1>9. CASE \/ SendPrompt \/ PromptUnanswered \/ FirstMarker \/ PacketMarker
           \/ UnknownMarker \/ ReadPacketByte \/ BadPacket \/ RepeatedPacket
           \/ NextPacket \/ FinishPacket \/ DropByte \/ Environment
           \/ UNCHANGED vars
           \/ \E c \in FlashOps, o \in 0 .. Word - 1, n \in 0 .. Word - 1 :
                RejectCommand(c, o, n)
  <2>1. QuietStep
    BY <1>9 DEF QuietStep
  <2>2. Phase' = Phase /\ result' = result
    BY <1>9 DEF Phase, SendPrompt, PromptUnanswered, FirstMarker,
       PacketMarker, StartPacket, UnknownMarker, ReadPacketByte, BadPacket,
       RepeatedPacket, NextPacket, FinishPacket, AwaitMarker, PacketComplete,
       DropByte, Environment, RejectCommand, vars
  <2> QED
    BY <1>1, <2>1, <2>2
<1> QED
  BY <1>2, <1>4, <1>5, <1>6, <1>7, <1>8, <1>9
     DEF Next, StubCommand, StubStep, StubWork, StubTimeout

(* The three commands of the stub that change the chip directly implement  *)
(* the abstract flash update, on every chip and for every peer and line.   *)
THEOREM Refinement == Spec => ImplementsUpdate
BY InitIdle, StepImplements, Safety, PTL DEF Spec, ImplementsUpdate, Update!Spec

-----------------------------------------------------------------------------
(* Where the two sides can be, as long as packets arrive whole.            *)

(* What has been written when b blocks have. *)
Upto(b) == Smaller(b * HostBlock, Len(Image))

(* The number of block b. *)
Number(b) == (b + 1) % NumberMod

(* A block's number differs from its neighbours'. *)
LEMMA Numbering ==
  ASSUME NEW b \in Nat
  PROVE  /\ Number(b) \in 0 .. NumberMod - 1
         /\ Following(Number(b)) = Number(b + 1)
         /\ Previous(Number(b + 1)) = Number(b)
         /\ Previous(Number(b)) # Number(b) /\ Number(b + 1) # Number(b)
<1>1. b + 1 \in Nat /\ NumberMod \in Nat \ {0} /\ NumberMod >= 2
  BY PacketAssumption
<1> QED
  BY <1>1, Circle DEF Number, Following, Previous

(* What a packet consists of. *)
LEMMA PacketParts ==
  ASSUME NEW S, NEW f \in Seq(S), NEW marker, NEW n
  PROVE  LET packet == Packet(marker, n, f) IN
         /\ Len(packet) = Len(f) + 4 /\ packet[1] = marker /\ packet[2] = n
         /\ \A i \in 1 .. Len(f) : packet[3 + i] = f[i]
BY Enclosed DEF Packet

(* The stub waits for the block that the probe is at, or has it already.   *)
Fresh == written = Upto(sent) /\ expected = Number(sent)
Taken ==
  /\ sent < Sender!Blocks /\ written = Upto(sent + 1)
  /\ expected = Number(sent + 1)

(* What has been read of a packet and what is on the line make it up.      *)
Arrives(packet) ==
  /\ Len(pkt) + Len(rx) = Len(packet)
  /\ \A i \in 1 .. Len(pkt) : pkt[i] \in {packet[i], Link!Noise}
  /\ \A i \in 1 .. Len(rx) : rx[i] \in {packet[Len(pkt) + i], Link!Noise}
  /\ packet[1] = IF pkt = <<>> THEN rx[1] ELSE pkt[1]

Quiet == rx = <<>> /\ tx = <<>>

Unopened == hpc = "idle" /\ sent = 0 /\ Quiet
Inviting ==
  /\ hpc = "start" /\ sent = 0 /\ rx = <<>> /\ pkt = <<>> /\ Fresh
  /\ pc \in {"erase", "prompt", "first"}
  /\ tx = <<>> \/ (pc = "first" /\ tx = <<CRC_MODE>>)
ProbesTurn ==
  /\ hpc = "send" /\ Quiet /\ pkt = <<>> /\ (Fresh \/ Taken)
  /\ pc = "marker" \/ (pc = "first" /\ sent < Sender!Blocks)
PacketComing ==
  /\ hpc = "await" /\ tx = <<>> /\ sent < Sender!Blocks /\ (Fresh \/ Taken)
  /\ pc = "packet" \/ (pc \in {"first", "marker"} /\ pkt = <<>>)
  /\ Arrives(Sender!BlockPacket(sent))
Programming ==
  /\ hpc = "await" /\ Quiet /\ sent < Sender!Blocks /\ Fresh
  /\ pc = "program" /\ pkt = Sender!BlockPacket(sent)
EndComing ==
  /\ hpc = "await" /\ tx = <<>> /\ rx = <<EOT>> /\ pkt = <<>>
  /\ sent = Sender!Blocks /\ Fresh /\ pc = "marker"
Answering ==
  /\ hpc = "await" /\ rx = <<>> /\ pkt = <<>> /\ pc = "marker"
  /\ \/ (Fresh \/ Taken) /\ tx \in {<<>>, <<NAK>>}
     \/ Taken /\ tx = <<ACK>>
StubBack ==
  /\ hpc \in {"start", "send", "await"} /\ pc = "idle"
  /\ result # "done" => \A i \in 1 .. Len(tx) : tx[i] # ACK
ProbeBack ==
  /\ hpc = "failed"
  /\ \/ pc = "idle"
     \/ pc \in {"erase", "prompt", "first", "marker"} /\ rx = <<>>
Delivered == hpc = "ok" /\ result = "done"

InTurn ==
  \/ Unopened \/ Inviting \/ ProbesTurn \/ PacketComing \/ Programming
  \/ EndComing \/ Answering \/ StubBack \/ ProbeBack \/ Delivered

(* The command of the session, whatever the line does. *)
Served ==
  /\ sent \in 0 .. Sender!Blocks /\ extra \in Nat
  /\ hpc = "idle" =>
       pc = "idle" /\ result = "none" /\ op # "FLASH_XMODEM_DL" /\ Quiet
  /\ op = "FLASH_XMODEM_DL" => off = Target /\ len = Len(Image)
  /\ pc # "idle" \/ result = "done" => op = "FLASH_XMODEM_DL"
  /\ result = "done" => pc = "idle" /\ Filled = len

LinkInv ==
  /\ Safe /\ Served
  /\ WholePackets => InTurn /\ TakesImageInOrder

-----------------------------------------------------------------------------
(* Blocks. *)

(* The sizes of the image and of its blocks. *)
LEMMA ImageSize ==
  /\ Image \in Seq(Byte) /\ Len(Image) \in Nat \ {0}
  /\ HostBlock \in Nat \ {0}
BY LinkAssumption, PacketAssumption

(* A block begins before the end of the image, and none is left after the  *)
(* last one.                                                               *)
LEMMA BlocksReach ==
  /\ Sender!Blocks \in Nat \ {0}
  /\ \A b \in Nat : b < Sender!Blocks <=> b * HostBlock < Len(Image)
BY ImageSize, BlockCount DEF Sender!Blocks

(* Each block writes as much of the image as it holds. *)
LEMMA BlockWrites ==
  ASSUME NEW b \in 0 .. Sender!Blocks - 1
  PROVE  /\ Upto(b) = b * HostBlock /\ Upto(b) \in Nat /\ Upto(b) < Len(Image)
         /\ Upto(b) + Smaller(Len(Image) - Upto(b), HostBlock) = Upto(b + 1)
<1> DEFINE x == b * HostBlock
<1>1. x \in Nat /\ x < Len(Image) /\ (b + 1) * HostBlock = x + HostBlock
  BY BlocksReach, ImageSize
<1>2. /\ Upto(b) = Smaller(x, Len(Image))
      /\ Upto(b + 1) = Smaller(x + HostBlock, Len(Image))
  BY <1>1 DEF Upto
<1>3. b * HostBlock = x
  OBVIOUS
<1> HIDE DEF x
<1> QED
  BY <1>1, <1>2, <1>3, ImageSize DEF Smaller

(* All blocks write the whole image, and none of them nothing. *)
LEMMA AllWrite ==
  Upto(Sender!Blocks) = Len(Image) /\ Upto(0) = 0
<1>1. ~(Sender!Blocks * HostBlock < Len(Image)) /\ 0 * HostBlock = 0
  BY BlocksReach, ImageSize
<1>2. Sender!Blocks * HostBlock \in Nat
  BY BlocksReach, ImageSize
<1> QED
  BY <1>1, <1>2, ImageSize DEF Upto, Smaller

(* The packet of a block. *)
LEMMA PacketOfBlock ==
  ASSUME NEW b \in 0 .. Sender!Blocks - 1
  PROVE  LET packet == Sender!BlockPacket(b) IN
         /\ packet \in Seq(Byte) /\ packet[1] \in {SOH, STX}
         /\ BlockLen(packet[1]) = HostBlock
         /\ Len(packet) = PacketLen(packet[1])
         /\ packet[2] = Number(b)
         /\ \A i \in 1 .. HostBlock :
              b * HostBlock + i <= Len(Image) =>
                packet[3 + i] = Image[b * HostBlock + i]
<1> DEFINE marker == IF HostBlock = StxSize THEN STX ELSE SOH
           f == [i \in 1 .. HostBlock |->
                   IF b * HostBlock + i <= Len(Image)
                   THEN Image[b * HostBlock + i] ELSE 255]
           packet == Sender!BlockPacket(b)
<1>1. packet = Packet(marker, Number(b), f)
  BY DEF Sender!BlockPacket, Sender!Packet, Sender!Inverse, Packet, Inverse,
     Number, Sender!STX, Sender!SOH, STX, SOH
<1>2. packet \in Seq(Byte)
  BY PacketBytes
<1>3. BlockLen(marker) = HostBlock /\ marker \in {SOH, STX}
  BY LinkAssumption DEF BlockLen, STX, SOH
<1>4. f \in Seq(Byte \cup {255}) /\ Len(f) = HostBlock
  <2>1. ASSUME NEW i \in 1 .. HostBlock PROVE f[i] \in Byte \cup {255}
    <3>1. b * HostBlock \in Nat
      BY BlocksReach, ImageSize
    <3> QED
      BY <3>1, ImageSize
  <2>2. f \in [1 .. HostBlock -> Byte \cup {255}]
    BY <2>1
  <2> HIDE DEF f
  <2> QED
    BY <2>2, ImageSize
<1>5. \A i \in 1 .. HostBlock :
        b * HostBlock + i <= Len(Image) => f[i] = Image[b * HostBlock + i]
  OBVIOUS
<1> HIDE DEF f, marker
<1>6. /\ Len(packet) = HostBlock + 4 /\ packet[1] = marker
      /\ packet[2] = Number(b)
      /\ \A i \in 1 .. HostBlock : packet[3 + i] = f[i]
  <2>1. f \in Seq(Byte \cup {255})
    BY <1>4
  <2> HIDE DEF packet
  <2> QED
    BY <1>1, <1>4, <2>1, PacketParts
<1> QED
  BY <1>2, <1>3, <1>5, <1>6 DEF PacketLen, packet

-----------------------------------------------------------------------------
(* Whatever the line does, the stub is that of RawFlash. *)

(* What the sender does are events on the line of the stub. *)
LEMMA SenderOnLine ==
  ASSUME rx \in Seq(Byte), tx \in Seq(Byte), sent \in 0 .. Sender!Blocks,
         Sender!Work \/ Sender!Uninvited \/ Sender!Unanswered
  PROVE  /\ rx' \in Seq(Byte) /\ tx' \in Seq(Byte)
         /\ sent' \in 0 .. Sender!Blocks /\ hpc # "idle" /\ hpc' # "idle"
<1>1. CASE Sender!Transmit
  <2>1. Sender!Current \in Seq(Byte)
    <3>1. CASE sent < Sender!Blocks
      <4>1. sent \in 0 .. Sender!Blocks - 1
        BY <3>1, BlocksReach
      <4> QED
        BY <3>1, <4>1, PacketBytes DEF Sender!Current
    <3>2. CASE ~(sent < Sender!Blocks)
      <4>1. EOT \in Byte /\ Sender!EOT = EOT
        BY ControlAssumption DEF Controls, Sender!EOT, EOT
      <4> QED
        BY <3>2, <4>1 DEF Sender!Current
    <3> QED
      BY <3>1, <3>2
  <2>2. rx' = rx \o Sender!Current /\ tx' = tx /\ sent' = sent
        /\ hpc = "send" /\ hpc' = "await"
    BY <1>1 DEF Sender!Transmit
  <2> QED
    BY <2>1, <2>2
<1>2. CASE ~Sender!Transmit
  <2>1. rx' = rx
    BY <1>2 DEF Sender!Work, Sender!Uninvited, Sender!Unanswered,
       Sender!SkipReply, Sender!Invited, Sender!GiveUp, Sender!Acknowledged,
       Sender!AskedAgain, Sender!Cancelled
  <2>2. tx' = tx \/ tx' = <<>> \/ (tx # <<>> /\ tx' = Tail(tx))
    BY <1>2 DEF Sender!Work, Sender!Uninvited, Sender!Unanswered,
       Sender!SkipReply, Sender!Invited, Sender!GiveUp, Sender!Acknowledged,
       Sender!AskedAgain, Sender!Cancelled, Sender!Reply
  <2>3. sent' = sent \/ (sent < Sender!Blocks /\ sent' = sent + 1)
    BY <1>2 DEF Sender!Work, Sender!Uninvited, Sender!Unanswered,
       Sender!SkipReply, Sender!Invited, Sender!GiveUp, Sender!Acknowledged,
       Sender!AskedAgain, Sender!Cancelled
  <2>4. hpc # "idle" /\ hpc' # "idle"
    BY <1>2 DEF Sender!Work, Sender!Uninvited, Sender!Unanswered,
       Sender!SkipReply, Sender!Invited, Sender!GiveUp, Sender!Acknowledged,
       Sender!AskedAgain, Sender!Cancelled
  <2>5. tx' \in Seq(Byte)
    <3>1. tx # <<>> => Tail(tx) \in Seq(Byte)
      BY Shortened
    <3>2. <<>> \in Seq(Byte)
      OBVIOUS
    <3> QED
      BY <2>2, <3>1, <3>2, Zenon
  <2>6. sent' \in 0 .. Sender!Blocks
    BY <2>3, BlocksReach
  <2> QED
    BY <2>1, <2>4, <2>5, <2>6
<1> QED
  BY <1>1, <1>2

(* So are the faults of the line, which carries bytes whatever happens.    *)
LEMMA LineOnLine ==
  ASSUME rx \in Seq(Byte), tx \in Seq(Byte), Line
  PROVE  rx' \in Seq(Byte) /\ tx' \in Seq(Byte)
<1>1. CASE Link!LoseByte
  BY <1>1, Shortened DEF Link!LoseByte
<1>2. CASE Link!LoseReply
  BY <1>2, Shortened DEF Link!LoseReply
<1>3. ASSUME NEW kind, Link!DamageByte(kind)
      PROVE  rx' \in Seq(Byte) /\ tx' \in Seq(Byte)
  BY <1>3, PacketBytes DEF Link!DamageByte
<1>4. CASE Link!Overrun
  <2>1. /\ FifoDepth \in Nat \ {0} /\ FifoDepth < Len(rx) /\ tx' = tx
        /\ rx' = SubSeq(rx, 1, FifoDepth) \o SubSeq(rx, FifoDepth + 2, Len(rx))
    BY <1>4, LinkAssumption DEF Link!Overrun
  <2>2. SubSeq(rx, 1, FifoDepth) \in Seq(Byte)
    BY <2>1
  <2>3. SubSeq(rx, FifoDepth + 2, Len(rx)) \in Seq(Byte)
    BY <2>1
  <2> QED
    BY <2>1, <2>2, <2>3
<1> QED
  BY <1>1, <1>2, <1>3, <1>4 DEF Line

(* The command of the session is a frame of the raw commands. *)
LEMMA SessionsFrame ==
  Target \in 0 .. Word - 1 /\ Len(Image) \in 0 .. Word - 1
<1>1. /\ Target \in Nat /\ Len(Image) \in Nat /\ FlashSize \in Nat
      /\ Word \in Nat /\ FlashSize < Word /\ Target + Len(Image) <= FlashSize
  BY LinkAssumption, ImageSize, GeometryAssumption, WordAssumption DEF Addr
<1> QED
  BY <1>1

(* Every step of a session is one of the stub among any peers. *)
LEMMA LinkStep ==
  ASSUME Typed, sent \in 0 .. Sender!Blocks, [LinkNext]_linkVars
  PROVE  /\ [Next]_vars
         /\ sent' \in 0 .. Sender!Blocks
<1>0. rx \in Seq(Byte) /\ tx \in Seq(Byte)
  BY DEF Typed, TypeOK
<1>1. CASE StubRuns
  BY <1>1 DEF StubRuns, Next, StubStep, host
<1>2. CASE HostCommand \/ HostRejected
  <2>1. /\ StubCommand("FLASH_XMODEM_DL", Target, Len(Image))
        /\ sent' = sent
    BY <1>2 DEF HostCommand, HostRejected, StubCommand
  <2>2. "FLASH_XMODEM_DL" \in FlashOps
    BY DEF FlashOps
  <2> QED
    BY <2>1, <2>2, SessionsFrame DEF Next
<1>3. CASE \/ Sends
           \/ NoInvitation
           \/ NoResponse
  <2>1. /\ Sender!Work \/ Sender!Uninvited \/ Sender!Unanswered
        /\ UNCHANGED stub
    BY <1>3 DEF Sends, NoInvitation, NoResponse
  <2>2. Environment
    BY <1>0, <2>1, SenderOnLine DEF Environment, stub
  <2> QED
    BY <1>0, <2>1, <2>2, SenderOnLine DEF Next
<1>4. CASE StubGivesUp \/ PromptAgain
  BY <1>4 DEF StubGivesUp, PromptAgain, Next, StubStep, StubTimeout, host
<1>5. CASE Line
  <2>1. Environment
    BY <1>0, <1>5, LineOnLine DEF Line, Environment, stub
  <2> QED
    BY <1>5, <2>1 DEF Line, Next, host
<1>6. CASE UNCHANGED linkVars
  BY <1>6 DEF linkVars, host
<1> QED
  BY <1>1, <1>2, <1>3, <1>4, <1>5, <1>6 DEF LinkNext, HostWork, Timeout

(* The surplus prompts are counted. *)
LEMMA ExtraCounts ==
  ASSUME extra \in Nat, [LinkNext]_linkVars
  PROVE  extra' \in Nat
<1>1. CASE PromptAgain
  <2>1. extra' = extra \/ extra' = extra + 1
    BY <1>1 DEF PromptAgain
  <2> QED
    BY <2>1
<1>2. CASE ~PromptAgain
  <2>1. extra' = extra
    BY <1>2 DEF LinkNext, StubRuns, HostWork, HostCommand, HostRejected, Sends,
       Timeout, NoInvitation, NoResponse, StubGivesUp, Line, linkVars
  <2> QED
    BY <2>1
<1> QED
  BY <1>1, <1>2

(* It begins like that one, too. *)
LEMMA LinkStart == LinkInit => Init /\ Safe /\ Served
<1> SUFFICES ASSUME LinkInit PROVE Init /\ Safe /\ Served
  OBVIOUS
<1>1. Init /\ hpc = "idle" /\ sent = 0 /\ extra = 0
  BY DEF LinkInit
<1>2. Served
  BY <1>1, BlocksReach DEF Init, Served, Quiet
<1> QED
  BY <1>1, <1>2, SafeInit

(* What a step of the stub by itself does to the command. *)
LEMMA StubKeepsCommand ==
  ASSUME StubWork
  PROVE  /\ command' = command
         /\ pc' # "idle" => pc # "idle"
         /\ rx = <<>> => pc # "idle"
         /\ \/ EndOfTransfer /\ written = len
            \/ EraseCommandDone
            \/ result' = "failed"
            \/ result' = result /\ (pc = "idle" => pc' = pc /\ progress' = progress)
<1>1. CASE EraseCommandDone \/ EndOfTransfer
  BY <1>1 DEF EraseCommandDone, EndOfTransfer, Finish
<1>2. CASE \/ EraseFails \/ NoSender \/ NotASender \/ SenderCancels
           \/ UnwantedPacket \/ ProgramFails
  BY <1>2 DEF EraseFails, NoSender, NotASender, SenderCancels,
     UnwantedPacket, ProgramFails, Finish, PacketComplete
<1>3. CASE \/ EraseRound \/ ErasedForTransfer \/ SendPrompt \/ FirstMarker
           \/ PacketMarker \/ UnknownMarker \/ ReadPacketByte
  BY <1>3 DEF EraseRound, ErasedForTransfer, SendPrompt, FirstMarker,
     PacketMarker, UnknownMarker, ReadPacketByte, StartPacket, command
<1>4. CASE \/ BadPacket \/ RepeatedPacket \/ NextPacket \/ FinishPacket
  BY <1>4 DEF BadPacket, RepeatedPacket, NextPacket, FinishPacket,
     PacketComplete, AwaitMarker, command
<1>5. CASE SkipErasedPage \/ ProgramPage
  BY <1>5 DEF SkipErasedPage, ProgramPage, PageDone, command
<1>6. CASE DropByte
  BY <1>6 DEF DropByte, Receive
<1> QED
  BY <1>1, <1>2, <1>3, <1>4, <1>5, <1>6 DEF StubWork

(* The stub serves the command of the session, once. *)
LEMMA ServedStep ==
  ASSUME Safe, Served, [LinkNext]_linkVars
  PROVE  Served'
<1>1. sent' \in 0 .. Sender!Blocks /\ extra' \in Nat
  BY LinkStep, ExtraCounts DEF Safe, Served
<1>2. /\ rx \in Seq(Byte) /\ tx \in Seq(Byte) /\ pageOff \in Nat
      /\ pc = "marker" => pageOff = 0 /\ written \in Nat
  BY DEF Safe, Typed, TypeOK, ThreadState
<1> DEFINE Mine == /\ op = "FLASH_XMODEM_DL" => off = Target /\ len = Len(Image)
                   /\ pc # "idle" \/ result = "done" => op = "FLASH_XMODEM_DL"
                   /\ result = "done" => pc = "idle" /\ Filled = len
<1>3. ASSUME hpc' # "idle", Mine' PROVE Served'
  BY <1>1, <1>3 DEF Served
<1>4. CASE StubRuns
  <2>1. StubWork /\ hpc' = hpc
    BY <1>4 DEF StubRuns, host
  <2>2. hpc # "idle"
    BY <2>1, StubKeepsCommand DEF Served, Quiet
  <2>3. op' = op /\ off' = off /\ len' = len
    BY <2>1, StubKeepsCommand DEF command
  <2>4. CASE EndOfTransfer /\ written = len
    <3>1. /\ pc = "marker" /\ pc' = "idle" /\ written' = written
          /\ pageOff' = pageOff
      BY <2>4 DEF EndOfTransfer, Finish, progress
    <3>2. Filled' = len'
      BY <1>2, <2>3, <2>4, <3>1 DEF Filled
    <3> QED
      BY <1>3, <2>1, <2>2, <2>3, <3>1, <3>2 DEF Served
  <2>5. CASE EraseCommandDone
    BY <2>5 DEF EraseCommandDone, Served
  <2>6. CASE result' = "failed"
    <3>1. pc' # "idle" => pc # "idle"
      BY <2>1, StubKeepsCommand
    <3>2. Mine'
      BY <2>3, <2>6, <3>1 DEF Served
    <3> QED
      BY <1>3, <2>1, <2>2, <3>2
  <2>7. CASE result' = result /\ (pc = "idle" => pc' = pc /\ progress' = progress)
    <3>1. pc = "idle" => Filled' = Filled
      BY <2>7 DEF progress, Filled
    <3>2. Mine'
      BY <2>1, <2>3, <2>7, <3>1, StubKeepsCommand DEF Served
    <3> QED
      BY <1>3, <2>1, <2>2, <3>2
  <2> QED
    BY <2>1, <2>4, <2>5, <2>6, <2>7, StubKeepsCommand
<1>5. CASE HostCommand
  <2>1. /\ hpc' # "idle" /\ pc' = "erase" /\ result' = "none"
        /\ op' = "FLASH_XMODEM_DL" /\ off' = Target /\ len' = Len(Image)
    BY <1>5 DEF HostCommand, StartCommand, RangeOf
  <2> QED
    BY <1>3, <2>1
<1>6. CASE HostRejected
  <2>1. /\ hpc' # "idle" /\ pc' = pc /\ result' = result /\ command' = command
        /\ hpc = "idle"
    BY <1>6 DEF HostRejected, RejectCommand
  <2>2. Mine'
    BY <2>1 DEF Served, command
  <2> QED
    BY <1>3, <2>1, <2>2
<1>7. CASE Sends \/ NoInvitation \/ NoResponse
  <2>1. /\ Sender!Work \/ Sender!Uninvited \/ Sender!Unanswered
        /\ UNCHANGED stub
    BY <1>7 DEF Sends, NoInvitation, NoResponse
  <2>2. hpc' # "idle"
    BY <1>2, <2>1, SenderOnLine DEF Served
  <2>3. Mine'
    BY <2>1 DEF Served, stub, command, progress, Filled
  <2> QED
    BY <1>3, <2>2, <2>3
<1>8. CASE StubGivesUp
  <2>1. /\ pc # "idle" /\ hpc' = hpc /\ pc' = "idle" /\ result' = "failed"
        /\ command' = command
    BY <1>8 DEF StubGivesUp, ReadTimeout, Finish, host
  <2>2. Mine'
    BY <2>1 DEF Served, command
  <2> QED
    BY <1>3, <2>1, <2>2 DEF Served
<1>9. CASE PromptAgain
  <2>1. /\ pc = "first" /\ hpc' = hpc /\ pc' = "prompt" /\ result' = result
        /\ command' = command
    BY <1>9 DEF PromptAgain, PromptUnanswered, host
  <2>2. Mine'
    BY <2>1 DEF Served, command
  <2> QED
    BY <1>3, <2>1, <2>2 DEF Served
<1>10. CASE Line
  <2>1. hpc' = hpc /\ UNCHANGED stub
    BY <1>10 DEF Line, host
  <2>2. hpc # "idle"
    <3>1. rx # <<>> \/ tx # <<>> \/ pc # "idle"
      BY <1>10 DEF Line, Link!LoseByte, Link!LoseReply, Link!DamageByte
    <3> QED
      BY <3>1 DEF Served, Quiet
  <2>3. Mine'
    BY <2>1 DEF Served, stub, command, progress, Filled
  <2> QED
    BY <1>3, <2>1, <2>2, <2>3
<1>11. CASE UNCHANGED linkVars
  BY <1>11 DEF linkVars, vars, host, command, progress, Served, Quiet, Filled
<1> QED
  BY <1>4, <1>5, <1>6, <1>7, <1>8, <1>9, <1>10, <1>11
     DEF LinkNext, HostWork, Timeout

(* So the invariant of the raw commands holds throughout a session. *)
LEMMA SessionSafe == LinkSafety => [](Safe /\ Served)
<1>1. LinkInit => Safe /\ Served
  BY LinkStart
<1>2. Safe /\ Served /\ [LinkNext]_linkVars => (Safe /\ Served)'
  BY LinkStep, SafeStep, ServedStep DEF Safe, Served
<1> QED
  BY <1>1, <1>2, PTL DEF LinkSafety

(* Every session is a behaviour of RawFlash, whatever the line loses,      *)
(* damages or delays, so that everything proved of the raw commands holds  *)
(* of it.                                                                  *)
THEOREM Implementation == LinkSafety => Spec
<1>1. Safe /\ Served /\ [LinkNext]_linkVars => [Next]_vars
  BY LinkStep DEF Safe, Served
<1>2. LinkInit => Init
  BY LinkStart
<1> QED
  BY <1>1, <1>2, SessionSafe, PTL DEF LinkSafety, Spec

(* When the stub ends the transfer with ACK, the image is in the flash if  *)
(* it has been taken in its order.                                         *)
LEMMA OrderSuffices ==
  ASSUME Safe, Served, TakesImageInOrder, result = "done"
  PROVE  InPlace
<1>1. /\ pc = "idle" /\ op = "FLASH_XMODEM_DL" /\ off = Target
      /\ len = Len(Image) /\ Filled = len
  BY DEF Served
<1> SUFFICES ASSUME NEW i \in 1 .. Len(Image)
             PROVE  flash[Target + i - 1] = Image[i]
  BY DEF InPlace
<1> DEFINE a == Target + i - 1
<1>2. a \in Addr /\ off <= a /\ a < off + len
  <2>1. Target \in Nat /\ Target + Len(Image) <= FlashSize /\ FlashSize \in Nat
    BY LinkAssumption, GeometryAssumption DEF Addr
  <2> QED
    BY <1>1, <2>1, ImageSize DEF Addr
<1>3. accepted[a] = Image[i]
  BY <1>1, <1>2 DEF TakesImageInOrder
<1> HIDE DEF a
<1>4. flash[a] = accepted[a]
  BY <1>1, <1>2 DEF Safe, DoneMeansComplete, End
<1> QED
  BY <1>3, <1>4 DEF a

(* That the stub accepts a transfer therefore means that the image is in   *)
(* the flash, on any line and any chip, unless the line has made the stub  *)
(* take other bytes than those of the image.                               *)
THEOREM Acceptance ==
  LinkSafety => [](TakesImageInOrder => AcceptedMeansWritten)
<1>1. Safe /\ Served => (TakesImageInOrder => AcceptedMeansWritten)
  BY OrderSuffices DEF AcceptedMeansWritten
<1> QED
  BY <1>1, SessionSafe, PTL

-----------------------------------------------------------------------------
(* Who can move where. *)

(* The stub's steps at each point of its code. *)
LEMMA StubAt ==
  ASSUME StubWork
  PROVE  /\ pc = "idle" => DropByte
         /\ pc = "erase" => \/ EraseRound \/ EraseFails \/ EraseCommandDone
                            \/ ErasedForTransfer
         /\ pc = "prompt" => SendPrompt \/ NoSender
         /\ pc = "first" => FirstMarker \/ NotASender
         /\ pc = "marker" => \/ PacketMarker \/ EndOfTransfer \/ SenderCancels
                             \/ UnknownMarker
         /\ pc = "packet" => \/ ReadPacketByte \/ BadPacket \/ RepeatedPacket
                             \/ UnwantedPacket \/ NextPacket
         /\ pc = "program" => \/ SkipErasedPage \/ ProgramPage \/ ProgramFails
                              \/ FinishPacket
BY DEF StubWork, EraseRound, EraseFails, EraseCommandDone, ErasedForTransfer,
   SendPrompt, NoSender, FirstMarker, NotASender, PacketMarker, EndOfTransfer,
   SenderCancels, UnknownMarker, ReadPacketByte, BadPacket, RepeatedPacket,
   UnwantedPacket, NextPacket, PacketComplete, SkipErasedPage, ProgramPage,
   ProgramFails, FinishPacket, DropByte

(* The sender's at each of its. *)
LEMMA SenderAt ==
  ASSUME Sends
  PROVE  /\ UNCHANGED stub
         /\ hpc \in {"start", "send", "await"}
         /\ hpc = "start" => Sender!SkipReply \/ Sender!Invited
         /\ hpc = "send" => Sender!Transmit \/ Sender!GiveUp
         /\ hpc = "await" => \/ Sender!SkipReply \/ Sender!Acknowledged
                             \/ Sender!AskedAgain \/ Sender!Cancelled
BY DEF Sends, Sender!Work, Sender!SkipReply, Sender!Invited, Sender!Transmit,
   Sender!GiveUp, Sender!Acknowledged, Sender!AskedAgain, Sender!Cancelled

(* A line on which packets arrive whole damages what is inside of one, and *)
(* loses replies and what does not fit the FIFO.                           *)
LEMMA LineAt ==
  ASSUME WholePackets, Line
  PROVE  /\ UNCHANGED stub /\ UNCHANGED host
         /\ \/ /\ pc = "packet" /\ rx # <<>>
               /\ rx' = [rx EXCEPT ![1] = Link!Noise] /\ tx' = tx
            \/ tx # <<>> /\ tx' = Tail(tx) /\ rx' = rx
            \/ pc \in {"erase", "program"} /\ Len(rx) > FifoDepth /\ tx' = tx
<1>1. ~Link!LoseByte
  BY DEF WholePackets, Link!LoseByte, Link!Fault
<1>2. Link!DamageByte(IF pc = "packet" THEN "damaged packet"
                      ELSE "damaged marker")
      => /\ pc = "packet" /\ rx # <<>>
         /\ rx' = [rx EXCEPT ![1] = Link!Noise] /\ tx' = tx
  BY DEF WholePackets, Link!DamageByte, Link!Fault
<1> QED
  BY <1>1, <1>2 DEF Line, Link!LoseReply, Link!Overrun

(* Timeouts pass only in silence, and only while nothing is due to be read. *)
LEMMA TimeAt ==
  ASSUME Served, WholePackets, Timeout
  PROVE  /\ rx = <<>>
         /\ \/ NoInvitation /\ hpc = "start" /\ UNCHANGED stub
            \/ NoResponse /\ hpc = "await" /\ tx = <<>> /\ UNCHANGED stub
            \/ /\ StubGivesUp \/ PromptAgain
               /\ UNCHANGED host /\ hpc # "send"
               /\ hpc \in {"start", "await"} => tx = <<>>
<1>1. CASE NoInvitation
  BY <1>1 DEF NoInvitation, Sender!Uninvited
<1>2. CASE NoResponse
  BY <1>2 DEF NoResponse, Sender!Unanswered
<1>3. CASE StubGivesUp
  BY <1>3 DEF StubGivesUp, ReadTimeout, Silent, Sender!AnswerDue
<1>4. CASE PromptAgain
  <2>1. conditions.extra = 0 /\ extra \in Nat
    BY DEF WholePackets, Served
  <2>2. Sender!AnswerDue => extra < conditions.extra
    BY <1>4 DEF PromptAgain
  <2> QED
    BY <1>4, <2>1, <2>2 DEF PromptAgain, PromptUnanswered, Silent,
       Sender!AnswerDue
<1> QED
  BY <1>1, <1>2, <1>3, <1>4 DEF Timeout
(* What the two sides have told each other stands as long as neither of    *)
(* them moves on.                                                          *)
LEMMA Kept ==
  ASSUME sent' = sent, written' = written, expected' = expected
  PROVE  (Fresh => Fresh') /\ (Taken => Taken')
BY DEF Fresh, Taken, Upto, Number, Sender!Blocks

LEMMA Stutters ==
  ASSUME InTurn, UNCHANGED linkVars
  PROVE  InTurn'
<1>1. /\ UNCHANGED <<hpc, sent, pc, pkt, written, expected, result, rx, tx>>
  BY DEF linkVars, vars, host, progress
<1>2. (Fresh => Fresh') /\ (Taken => Taken')
  BY <1>1, Kept
<1>3. \A b : Sender!BlockPacket(b)' = Sender!BlockPacket(b)
  BY DEF Sender!BlockPacket
<1> QED
  BY <1>1, <1>2 DEF InTurn, Unopened, Inviting, ProbesTurn, PacketComing,
     Programming, EndComing, Answering, StubBack, ProbeBack, Delivered, Quiet,
     Arrives

(* A step of either program, of a timer or of the line. *)
Works == (StubWork /\ UNCHANGED host) \/ Sends \/ Timeout \/ Line

LEMMA Opened ==
  ASSUME hpc # "idle", LinkNext
  PROVE  Works
BY DEF LinkNext, StubRuns, HostWork, HostCommand, HostRejected, Works, host

(* The command reaches the stub, which erases, or ends the write. *)
LEMMA FromUnopened ==
  ASSUME Safe, Served, Unopened, LinkNext
  PROVE  InTurn'
<1>1. /\ hpc = "idle" /\ sent = 0 /\ rx = <<>> /\ tx = <<>> /\ pc = "idle"
  BY DEF Unopened, Quiet, Served
<1>2. CASE HostCommand
  <2>1. /\ hpc' \in {"start", "failed"} /\ sent' = 0 /\ rx' = <<>>
        /\ tx' = <<>> /\ pkt' = <<>> /\ pc' = "erase" /\ written' = 0
        /\ expected' = 1
    BY <1>1, <1>2 DEF HostCommand, StartCommand
  <2>2. Upto(0) = 0 /\ Number(0) = 1
    BY AllWrite, PacketAssumption DEF Number
  <2>3. Fresh'
    BY <2>1, <2>2 DEF Fresh, Upto, Number
  <2> QED
    BY <2>1, <2>3 DEF InTurn, Inviting, ProbeBack
<1>3. CASE HostRejected
  <2>1. hpc' = "failed" /\ pc' = "idle"
    BY <1>1, <1>3 DEF HostRejected, RejectCommand
  <2> QED
    BY <2>1 DEF InTurn, ProbeBack
<1>4. ~Works
  <2>1. ~StubWork
    BY <1>1, StubKeepsCommand
  <2>2. ~Sends
    BY <1>1, SenderAt
  <2>3. ~Timeout
    BY <1>1 DEF Timeout, NoInvitation, NoResponse, StubGivesUp, PromptAgain,
       Sender!Uninvited, Sender!Unanswered, ReadTimeout, PromptUnanswered
  <2>4. ~Line
    BY <1>1 DEF Line, Link!LoseByte, Link!LoseReply, Link!DamageByte
  <2> QED
    BY <2>1, <2>2, <2>3, <2>4 DEF Works
<1> QED
  BY <1>2, <1>3, <1>4 DEF LinkNext, StubRuns, HostWork, Works

(* A probe that has ended the write leaves the stub to erase and to invite *)
(* nobody, until it is back in its command loop.                           *)
LEMMA FromProbeBack ==
  ASSUME Safe, Served, WholePackets, ProbeBack, Works
  PROVE  InTurn'
<1>1. /\ hpc = "failed"
      /\ pc = "idle" \/ (pc \in {"erase", "prompt", "first", "marker"} /\ rx = <<>>)
  BY DEF ProbeBack
<1> SUFFICES ASSUME ~ProbeBack' PROVE FALSE
  BY DEF InTurn
<1>2. CASE StubWork /\ UNCHANGED host
  <2>1. hpc' = "failed"
    BY <1>1, <1>2 DEF host
  <2>2. CASE pc = "idle"
    BY <1>2, <2>1, <2>2, StubAt DEF DropByte, ProbeBack
  <2>3. CASE pc = "erase" /\ rx = <<>>
    <3>1. rx' = rx /\ pc' \in {"erase", "idle", "prompt"}
      BY <1>2, <2>3, StubAt DEF EraseRound, EraseFails, EraseCommandDone,
         ErasedForTransfer, Finish
    <3> QED
      BY <2>1, <2>3, <3>1 DEF ProbeBack
  <2>4. CASE pc = "prompt" /\ rx = <<>>
    <3>1. rx' = rx /\ pc' \in {"idle", "first"}
      BY <1>2, <2>4, StubAt DEF SendPrompt, NoSender, Finish
    <3> QED
      BY <2>1, <2>4, <3>1 DEF ProbeBack
  <2>5. CASE pc \in {"first", "marker"} /\ rx = <<>>
    BY <1>2, <2>5, StubAt DEF FirstMarker, NotASender, PacketMarker,
       EndOfTransfer, SenderCancels, UnknownMarker, Receive
  <2> QED
    BY <1>1, <2>2, <2>3, <2>4, <2>5
<1>3. CASE Sends
  BY <1>1, <1>3, SenderAt
<1>4. CASE Timeout
  <2>1. /\ StubGivesUp \/ PromptAgain
        /\ UNCHANGED host
    BY <1>1, <1>4, TimeAt
  <2>2. hpc' = "failed"
    BY <1>1, <2>1 DEF host
  <2>3. pc' = "idle" \/ (pc = "first" /\ pc' = "prompt" /\ rx' = rx)
    BY <2>1 DEF StubGivesUp, PromptAgain, ReadTimeout, PromptUnanswered, Finish
  <2> QED
    BY <1>1, <2>2, <2>3 DEF ProbeBack
<1>5. CASE Line
  <2>1. hpc' = "failed" /\ pc' = pc
    BY <1>1, <1>5, LineAt DEF stub, host
  <2>2. pc = "idle" \/ rx' = rx
    <3>1. rx = <<>> => ~(Len(rx) > FifoDepth)
      BY LinkAssumption
    <3> QED
      BY <1>1, <1>5, <3>1, LineAt
  <2> QED
    BY <1>1, <2>1, <2>2 DEF ProbeBack
<1> QED
  BY <1>2, <1>3, <1>4, <1>5 DEF Works

(* A success stays one. *)
LEMMA FromDelivered ==
  ASSUME Safe, Served, WholePackets, Delivered, Works
  PROVE  InTurn'
<1>1. hpc = "ok" /\ result = "done" /\ pc = "idle"
  BY DEF Delivered, Served
<1>2. hpc' = "ok" /\ result' = "done"
  <2>1. CASE StubWork /\ UNCHANGED host
    BY <1>1, <2>1, StubAt DEF DropByte, host
  <2>2. CASE Sends
    BY <1>1, <2>2, SenderAt
  <2>3. CASE Timeout
    BY <1>1, <2>3, TimeAt DEF StubGivesUp, PromptAgain, ReadTimeout,
       PromptUnanswered
  <2>4. CASE Line
    BY <1>1, <2>4, LineAt DEF stub, host
  <2> QED
    BY <2>1, <2>2, <2>3, <2>4 DEF Works
<1> QED
  BY <1>2 DEF InTurn, Delivered

(* When the stub has ended the transfer, the probe still reads what was    *)
(* sent before, and finds an ACK only if the stub has ended it well.       *)
LEMMA FromStubBack ==
  ASSUME Safe, Served, WholePackets, StubBack, Works
  PROVE  InTurn'
<1>1. /\ hpc \in {"start", "send", "await"} /\ pc = "idle"
      /\ result # "done" => \A i \in 1 .. Len(tx) : tx[i] # ACK
  BY DEF StubBack
<1>2. tx \in Seq(Byte)
  BY DEF Safe, Typed, TypeOK
<1>3. tx # <<>> => /\ Head(tx) = tx[1] /\ Len(tx) \in Nat \ {0}
                   /\ Len(Tail(tx)) = Len(tx) - 1
                   /\ \A i \in 1 .. Len(Tail(tx)) : Tail(tx)[i] = tx[i + 1]
  BY <1>2, Shortened
<1>4. ASSUME hpc' \in {"start", "send", "await"}, pc' = pc, result' = result,
             tx' = tx \/ (tx # <<>> /\ tx' = Tail(tx))
      PROVE  InTurn'
  <2>1. result' # "done" => \A i \in 1 .. Len(tx') : tx'[i] # ACK
    <3>1. CASE tx' = tx
      BY <1>1, <1>4, <3>1
    <3>2. CASE tx # <<>> /\ tx' = Tail(tx)
      <4> SUFFICES ASSUME result # "done", NEW i \in 1 .. Len(Tail(tx))
                   PROVE  Tail(tx)[i] # ACK
        BY <1>4, <3>2
      <4>1. i + 1 \in 1 .. Len(tx) /\ Tail(tx)[i] = tx[i + 1]
        BY <1>3, <3>2
      <4> QED
        BY <1>1, <4>1
    <3> QED
      BY <1>4, <3>1, <3>2
  <2> QED
    BY <1>1, <1>4, <2>1 DEF InTurn, StubBack
<1>5. CASE StubWork /\ UNCHANGED host
  BY <1>1, <1>4, <1>5, StubAt DEF DropByte, host
<1>6. CASE Sends
  <2>1. pc' = pc /\ result' = result
    BY <1>6, SenderAt DEF stub
  <2>2. CASE Sender!SkipReply \/ Sender!Invited \/ Sender!AskedAgain
             \/ Sender!Transmit
    <3>1. /\ hpc' \in {"start", "send", "await"}
          /\ tx' = tx \/ (tx # <<>> /\ tx' = Tail(tx))
      BY <1>1, <2>2 DEF Sender!SkipReply, Sender!Invited, Sender!AskedAgain,
         Sender!Transmit, Sender!Reply
    <3> QED
      BY <1>4, <2>1, <3>1
  <2>3. CASE Sender!GiveUp \/ Sender!Cancelled
    BY <1>1, <2>1, <2>3 DEF Sender!GiveUp, Sender!Cancelled, InTurn, ProbeBack
  <2>4. CASE Sender!Acknowledged
    <3>1. /\ tx # <<>> /\ tx' = Tail(tx) /\ Head(tx) = ACK
          /\ hpc' \in {"send", "ok"}
      BY <2>4 DEF Sender!Acknowledged, Sender!Reply, Sender!ACK, ACK
    <3>2. result = "done"
      BY <1>1, <1>3, <3>1
    <3>3. CASE hpc' = "send"
      BY <1>4, <2>1, <3>1, <3>3
    <3>4. CASE hpc' = "ok"
      BY <2>1, <3>2, <3>4 DEF InTurn, Delivered
    <3> QED
      BY <3>1, <3>3, <3>4
  <2> QED
    BY <1>6, <2>2, <2>3, <2>4, SenderAt
<1>7. CASE Timeout
  <2>1. CASE NoInvitation
    <3>1. hpc' = "failed" /\ pc' = pc
      BY <2>1 DEF NoInvitation, Sender!Uninvited, stub
    <3> QED
      BY <1>1, <3>1 DEF InTurn, ProbeBack
  <2>2. CASE NoResponse
    <3>1. hpc' = "send" /\ pc' = pc /\ result' = result /\ tx' = tx
      BY <2>2 DEF NoResponse, Sender!Unanswered, stub
    <3> QED
      BY <1>4, <3>1
  <2> QED
    BY <1>1, <1>7, <2>1, <2>2 DEF Timeout, StubGivesUp, PromptAgain,
       ReadTimeout, PromptUnanswered
<1>8. CASE Line
  BY <1>1, <1>4, <1>8, LineAt DEF stub, host
<1> QED
  BY <1>5, <1>6, <1>7, <1>8 DEF Works

(* While the stub erases and invites, the probe waits for its prompt. *)
LEMMA FromInviting ==
  ASSUME Safe, Served, WholePackets, Inviting, Works
  PROVE  InTurn'
<1>1. /\ hpc = "start" /\ sent = 0 /\ rx = <<>> /\ pkt = <<>> /\ Fresh
      /\ pc \in {"erase", "prompt", "first"}
      /\ tx = <<>> \/ (pc = "first" /\ tx = <<CRC_MODE>>)
  BY DEF Inviting
<1>2. ASSUME hpc' = hpc, sent' = sent, rx' = rx, pkt' = pkt,
             written' = written, expected' = expected,
             pc' \in {"erase", "prompt", "first"},
             tx' = <<>> \/ (pc' = "first" /\ tx' = <<CRC_MODE>>)
      PROVE  InTurn'
  BY <1>1, <1>2, Kept DEF InTurn, Inviting
<1>3. ASSUME tx = <<>>, Cancel, hpc' = hpc, pc' = "idle"
      PROVE  InTurn'
  <2>1. Len(tx') = 2 /\ tx'[1] = CAN /\ tx'[2] = CAN
    BY <1>3 DEF Cancel
  <2>2. \A i \in 1 .. Len(tx') : tx'[i] # ACK
    BY <2>1 DEF CAN, ACK
  <2> QED
    BY <1>1, <1>3, <2>2 DEF InTurn, StubBack
<1>4. CASE StubWork /\ UNCHANGED host
  <2>1. hpc' = hpc /\ sent' = sent /\ op = "FLASH_XMODEM_DL"
    BY <1>1, <1>4 DEF host, Served
  <2>2. CASE pc = "erase"
    <3>1. CASE EraseFails
      BY <1>1, <1>3, <2>1, <2>2, <3>1 DEF EraseFails, Finish
    <3>2. CASE EraseRound \/ ErasedForTransfer
      BY <1>1, <1>2, <2>1, <2>2, <3>2 DEF EraseRound, ErasedForTransfer, progress
    <3> QED
      BY <1>4, <2>1, <2>2, <3>1, <3>2, StubAt DEF EraseCommandDone
  <2>3. CASE pc = "prompt"
    <3>1. CASE NoSender
      BY <1>1, <1>3, <2>1, <2>3, <3>1 DEF NoSender, Finish
    <3>2. CASE SendPrompt
      <4>1. tx' = <<CRC_MODE>>
        BY <1>1, <2>3, <3>2 DEF SendPrompt, Send
      <4> QED
        BY <1>2, <2>1, <3>2, <4>1 DEF SendPrompt
    <3> QED
      BY <1>4, <2>3, <3>1, <3>2, StubAt
  <2>4. pc # "first"
    BY <1>1, <1>4, StubAt DEF FirstMarker, NotASender, Receive
  <2> QED
    BY <1>1, <2>2, <2>3, <2>4
<1>5. CASE Sends
  <2>1. Sender!SkipReply \/ Sender!Invited
    BY <1>1, <1>5, SenderAt
  <2>2. tx = <<CRC_MODE>> /\ pc = "first" /\ Head(tx) = CRC_MODE
        /\ Tail(tx) = <<>>
    BY <1>1, <2>1 DEF Sender!SkipReply, Sender!Invited, Sender!Reply
  <2>3. Sender!Invited
    BY <1>1, <2>1, <2>2 DEF Sender!SkipReply, Sender!CRC_MODE, CRC_MODE
  <2>4. /\ hpc' = "send" /\ sent' = sent /\ rx' = <<>> /\ tx' = <<>>
    BY <1>1, <2>2, <2>3 DEF Sender!Invited, Sender!Reply
  <2>5. pc' = pc /\ pkt' = pkt /\ written' = written /\ expected' = expected
    BY <1>5, SenderAt DEF stub, progress
  <2>6. sent' < Sender!Blocks' /\ Sender!Blocks' = Sender!Blocks
    BY <1>1, <2>4, BlocksReach DEF Sender!Blocks
  <2> QED
    BY <1>1, <2>2, <2>4, <2>5, <2>6, Kept DEF InTurn, ProbesTurn, Quiet
<1>6. CASE Timeout
  <2>1. CASE NoInvitation
    <3>1. hpc' = "failed" /\ pc' = pc /\ rx' = <<>>
      BY <1>1, <2>1 DEF NoInvitation, Sender!Uninvited, stub
    <3> QED
      BY <1>1, <3>1 DEF InTurn, ProbeBack
  <2>2. CASE PromptAgain /\ ~NoInvitation
    <3>1. /\ tx = <<>> /\ hpc' = hpc /\ sent' = sent
      BY <1>1, <1>6, <2>2, TimeAt DEF host
    <3> QED
      BY <1>1, <1>2, <2>2, <3>1 DEF PromptAgain, PromptUnanswered, progress
  <2> QED
    BY <1>1, <1>6, <2>1, <2>2 DEF Timeout, StubGivesUp, ReadTimeout, NoResponse,
       Sender!Unanswered
<1>7. CASE Line
  <2>1. ~(Len(rx) > FifoDepth)
    BY <1>1, LinkAssumption
  <2>2. tx # <<>> /\ tx' = Tail(tx) /\ rx' = rx
    BY <1>1, <1>7, <2>1, LineAt
  <2>3. tx' = <<>>
    <3>1. tx = <<CRC_MODE>>
      BY <1>1, <2>2
    <3>2. Tail(<<CRC_MODE>>) = <<>>
      OBVIOUS
    <3> QED
      BY <2>2, <3>1, <3>2, Zenon
  <2> QED
    BY <1>1, <1>2, <1>7, <2>2, <2>3, LineAt DEF stub, host, progress
<1> QED
  BY <1>4, <1>5, <1>6, <1>7 DEF Works

(* Nothing is lost of a line with nothing on it. *)
LEMMA EmptyLine ==
  ASSUME WholePackets, Quiet
  PROVE  ~Line
<1>1. ~(Len(rx) > FifoDepth)
  BY LinkAssumption DEF Quiet
<1> QED
  BY <1>1, LineAt DEF Quiet

(* The probe sends its next packet, or EOT once the stub has all blocks.   *)
LEMMA FromProbesTurn ==
  ASSUME Safe, Served, WholePackets, ProbesTurn, Works
  PROVE  InTurn'
<1>1. /\ hpc = "send" /\ Quiet /\ rx = <<>> /\ tx = <<>> /\ pkt = <<>>
      /\ Fresh \/ Taken
      /\ pc = "marker" \/ (pc = "first" /\ sent < Sender!Blocks)
  BY DEF ProbesTurn, Quiet
<1>2. sent \in 0 .. Sender!Blocks /\ Sender!Blocks \in Nat
  BY BlocksReach DEF Served
<1>3. ~StubWork
  BY <1>1, StubAt DEF FirstMarker, NotASender, PacketMarker, EndOfTransfer,
     SenderCancels, UnknownMarker, Receive
<1>4. ~Timeout
  <2> SUFFICES ASSUME Timeout PROVE FALSE
    OBVIOUS
  <2> QED
    BY <1>1, TimeAt
<1>5. Sends
  BY <1>1, <1>3, <1>4, EmptyLine DEF Works
<1>6. UNCHANGED <<pc, pkt, written, expected>>
  BY <1>5, SenderAt DEF stub, progress
<1>7. CASE Sender!GiveUp
  <2>1. hpc' = "failed" /\ rx' = rx
    BY <1>7 DEF Sender!GiveUp
  <2> QED
    BY <1>1, <1>6, <2>1 DEF InTurn, ProbeBack
<1>8. CASE Sender!Transmit /\ sent < Sender!Blocks
  <2> DEFINE packet == Sender!BlockPacket(sent)
  <2>1. sent \in 0 .. Sender!Blocks - 1
    BY <1>2, <1>8
  <2>2. packet \in Seq(Byte) /\ Len(packet) \in Nat
    BY <2>1, PacketBytes
  <2>3. /\ hpc' = "await" /\ tx' = <<>> /\ sent' = sent
        /\ rx' = <<>> \o packet
    BY <1>1, <1>8 DEF Sender!Transmit, Sender!Current
  <2>4. rx' = packet
    BY <2>2, <2>3
  <2>5. pkt' = <<>> /\ Len(pkt') = 0
    BY <1>1, <1>6
  <2>6. Sender!BlockPacket(sent)' = packet /\ Sender!Blocks' = Sender!Blocks
    BY <2>3 DEF Sender!BlockPacket, Sender!Blocks
  <2> HIDE DEF packet
  <2>7. /\ Len(pkt') + Len(rx') = Len(packet)
        /\ \A i \in 1 .. Len(pkt') : FALSE
        /\ \A i \in 1 .. Len(rx') : rx'[i] = packet[Len(pkt') + i]
        /\ packet[1] = rx'[1]
    BY <2>2, <2>4, <2>5
  <2>8. Arrives(Sender!BlockPacket(sent))'
    BY <2>5, <2>6, <2>7 DEF Arrives
  <2>9. sent' < Sender!Blocks'
    BY <1>8, <2>3, <2>6
  <2>10. (Fresh \/ Taken)'
    BY <1>1, <1>6, <2>3, Kept
  <2>11. pc' \in {"first", "marker"}
    BY <1>1, <1>6
  <2> QED
    BY <2>3, <2>5, <2>8, <2>9, <2>10, <2>11 DEF InTurn, PacketComing
<1>9. CASE Sender!Transmit /\ ~(sent < Sender!Blocks)
  <2>1. /\ hpc' = "await" /\ tx' = <<>> /\ sent' = sent
        /\ rx' = <<>> \o <<Sender!EOT>>
    BY <1>1, <1>9 DEF Sender!Transmit, Sender!Current
  <2>2. rx' = <<EOT>>
    BY <2>1 DEF Sender!EOT, EOT
  <2>3. sent = Sender!Blocks /\ Sender!Blocks' = Sender!Blocks
    BY <1>2, <1>9 DEF Sender!Blocks
  <2>4. Fresh /\ pc = "marker"
    BY <1>1, <1>9 DEF Taken
  <2> QED
    BY <1>1, <1>6, <2>1, <2>2, <2>3, <2>4, Kept DEF InTurn, EndComing
<1> QED
  BY <1>1, <1>5, <1>7, <1>8, <1>9, SenderAt

(* EOT finds that everything has been written. *)
LEMMA FromEndComing ==
  ASSUME Safe, Served, WholePackets, EndComing, Works
  PROVE  InTurn'
<1>1. /\ hpc = "await" /\ tx = <<>> /\ rx = <<EOT>> /\ pc = "marker"
      /\ sent = Sender!Blocks /\ Fresh
  BY DEF EndComing
<1>2. rx # <<>> /\ Head(rx) = EOT
  BY <1>1
<1>3. written = len
  BY <1>1, AllWrite DEF Fresh, Served
<1>4. ~Sends
  BY <1>1, SenderAt DEF Sender!SkipReply, Sender!Acknowledged,
     Sender!AskedAgain, Sender!Cancelled, Sender!Reply
<1>5. ~Timeout
  BY <1>2, TimeAt
<1>6. ~Line
  BY <1>1, LineAt
<1>7. StubWork /\ hpc' = hpc
  BY <1>4, <1>5, <1>6 DEF Works, host
<1>8. EndOfTransfer
  BY <1>1, <1>2, <1>7, StubAt DEF PacketMarker, SenderCancels, UnknownMarker,
     SOH, STX, EOT, CAN
<1>9. pc' = "idle" /\ result' = "done"
  BY <1>3, <1>8 DEF EndOfTransfer, Finish
<1> QED
  BY <1>1, <1>7, <1>9 DEF InTurn, StubBack

(* The answer makes the probe go on or repeat itself; without one both     *)
(* sides wait, and either may be the first to give up.                     *)
LEMMA FromAnswering ==
  ASSUME Safe, Served, WholePackets, Answering, Works
  PROVE  InTurn'
<1>1. /\ hpc = "await" /\ rx = <<>> /\ pkt = <<>> /\ pc = "marker"
      /\ \/ (Fresh \/ Taken) /\ (tx = <<>> \/ tx = <<NAK>>)
         \/ Taken /\ tx = <<ACK>>
  BY DEF Answering
<1>2. tx # <<>> => Tail(tx) = <<>> /\ Head(tx) = tx[1]
  <2>1. CASE tx = <<NAK>>
    BY <2>1
  <2>2. CASE tx = <<ACK>>
    BY <2>2
  <2> QED
    BY <1>1, <2>1, <2>2
<1>3. ASSUME hpc' = "send", tx' = <<>>, rx' = <<>>, (Fresh \/ Taken)',
             pc' = pc, pkt' = pkt
      PROVE  InTurn'
  BY <1>1, <1>3 DEF InTurn, ProbesTurn, Quiet
<1>4. CASE StubWork /\ UNCHANGED host
  BY <1>1, <1>4, StubAt DEF PacketMarker, EndOfTransfer, SenderCancels,
     UnknownMarker, Receive
<1>5. CASE Sends
  <2>1. UNCHANGED <<pc, pkt, written, expected>>
    BY <1>5, SenderAt DEF stub, progress
  <2>2. CASE Sender!Acknowledged
    <3>1. tx # <<>> /\ Head(tx) = ACK /\ tx' = <<>> /\ rx' = <<>>
      BY <1>1, <1>2, <2>2 DEF Sender!Acknowledged, Sender!Reply, Sender!ACK, ACK
    <3>2. Taken
      <4>1. tx # <<NAK>>
        BY <1>2, <3>1 DEF ACK, NAK
      <4> QED
        BY <1>1, <3>1, <4>1
    <3>3. sent' = sent + 1 /\ hpc' = "send"
      BY <2>2, <3>2 DEF Sender!Acknowledged, Taken
    <3>4. Fresh'
      BY <2>1, <3>2, <3>3 DEF Fresh, Taken, Upto, Number
    <3> QED
      BY <1>3, <2>1, <3>1, <3>3, <3>4
  <2>3. CASE Sender!AskedAgain
    <3>1. hpc' = "send" /\ tx' = <<>> /\ rx' = <<>> /\ sent' = sent
      BY <1>1, <1>2, <2>3 DEF Sender!AskedAgain, Sender!Reply
    <3> QED
      BY <1>1, <1>3, <2>1, <3>1, Kept
  <2>4. ~Sender!SkipReply /\ ~Sender!Cancelled
    <3>1. tx # <<>> => Head(tx) \in {ACK, NAK}
      BY <1>1, <1>2
    <3> QED
      BY <1>1, <3>1 DEF Sender!SkipReply, Sender!Cancelled, Sender!Reply,
         Sender!ACK, Sender!NAK, Sender!CAN, ACK, NAK
  <2> QED
    BY <1>1, <1>5, <2>2, <2>3, <2>4, SenderAt
<1>6. CASE Timeout
  <2>1. CASE NoResponse
    <3>1. /\ hpc' = "send" /\ tx' = <<>> /\ rx' = <<>> /\ sent' = sent
          /\ UNCHANGED <<pc, pkt, written, expected>>
      BY <1>1, <2>1 DEF NoResponse, Sender!Unanswered, stub, progress
    <3> QED
      BY <1>1, <1>3, <3>1, Kept
  <2>2. CASE StubGivesUp /\ ~NoResponse
    <3>1. tx = <<>> /\ hpc' = hpc
      BY <1>1, <1>6, <2>2, TimeAt DEF host
    <3>2. pc' = "idle" /\ tx' = tx
      BY <2>2 DEF StubGivesUp, ReadTimeout, Finish
    <3>3. \A i \in 1 .. Len(tx') : FALSE
      BY <3>1, <3>2
    <3> QED
      BY <1>1, <3>1, <3>2, <3>3 DEF InTurn, StubBack
  <2> QED
    BY <1>1, <1>6, <2>1, <2>2 DEF Timeout, NoInvitation, Sender!Uninvited,
       PromptAgain, PromptUnanswered
<1>7. CASE Line
  <2>1. tx # <<>> /\ tx' = Tail(tx) /\ rx' = rx
    BY <1>1, <1>7, LineAt
  <2>2. /\ UNCHANGED <<hpc, sent, pc, pkt, written, expected>>
    BY <1>7, LineAt DEF stub, host, progress
  <2>3. tx' = <<>> /\ (Fresh \/ Taken)'
    BY <1>1, <1>2, <2>1, <2>2, Kept
  <2> QED
    BY <1>1, <2>1, <2>2, <2>3 DEF InTurn, Answering
<1> QED
  BY <1>4, <1>5, <1>6, <1>7 DEF Works

(* A packet that has arrived as a whole and passes its test is the one     *)
(* that was sent.                                                          *)
LEMMA IntactIsSent ==
  ASSUME sent \in 0 .. Sender!Blocks - 1, pkt \in Seq(Byte),
         Len(pkt) = Len(Sender!BlockPacket(sent)),
         pkt[1] = Sender!BlockPacket(sent)[1],
         \A i \in 1 .. Len(pkt) :
           pkt[i] \in {Sender!BlockPacket(sent)[i], Link!Noise},
         Intact(pkt)
  PROVE  pkt = Sender!BlockPacket(sent)
<1> DEFINE packet == Sender!BlockPacket(sent)
           hits == {i \in 2 .. Len(packet) : pkt[i] # packet[i]}
           copy == [i \in 1 .. Len(packet) |->
                      IF i \in hits THEN Link!Noise ELSE packet[i]]
<1>1. copy \in Damaged(sent)
  BY hits \in SUBSET (2 .. Len(packet)) DEF Damaged
<1>2. pkt = copy
  <2>0. packet \in Seq(Byte) /\ Len(packet) \in Nat
    BY PacketBytes
  <2>1. Len(pkt) = Len(packet) /\ pkt[1] = packet[1]
    OBVIOUS
  <2>2. \A i \in 1 .. Len(packet) : pkt[i] \in {packet[i], Link!Noise}
    OBVIOUS
  <2> HIDE DEF packet
  <2>3. \A i \in 1 .. Len(packet) : pkt[i] = copy[i]
    <3> SUFFICES ASSUME NEW i \in 1 .. Len(packet) PROVE pkt[i] = copy[i]
      OBVIOUS
    <3>1. i \in hits <=> pkt[i] # packet[i]
      BY <2>0, <2>1
    <3> HIDE DEF hits
    <3> QED
      BY <2>2, <3>1
  <2>4. pkt = [i \in 1 .. Len(packet) |-> pkt[i]]
    BY <2>0, <2>1
  <2> HIDE DEF hits
  <2> QED
    BY <2>3, <2>4
<1> HIDE DEF copy, hits
<1> QED
  BY <1>1, <1>2, DamageShows

(* What has arrived of it and what has not still make it up. *)
LEMMA StillArrives ==
  ASSUME sent' = sent, NEW packet, packet = Sender!BlockPacket(sent),
         Len(pkt') + Len(rx') = Len(packet),
         \A i \in 1 .. Len(pkt') : pkt'[i] \in {packet[i], Link!Noise},
         \A i \in 1 .. Len(rx') : rx'[i] \in {packet[Len(pkt') + i], Link!Noise},
         packet[1] = IF pkt' = <<>> THEN rx'[1] ELSE pkt'[1]
  PROVE  Arrives(Sender!BlockPacket(sent))'
<1>1. Sender!BlockPacket(sent)' = packet
  BY DEF Sender!BlockPacket
<1> QED
  BY <1>1 DEF Arrives, Link!Noise

(* The stub reads the packet, and answers it or programs it. *)
LEMMA FromPacketComing ==
  ASSUME Safe, Served, WholePackets, PacketComing, Works
  PROVE  InTurn'
<1> DEFINE packet == Sender!BlockPacket(sent)
<1>1. /\ hpc = "await" /\ tx = <<>> /\ sent < Sender!Blocks
      /\ Fresh \/ Taken
      /\ pc = "packet" \/ (pc \in {"first", "marker"} /\ pkt = <<>>)
      /\ Arrives(packet)
  BY DEF PacketComing
<1>2. sent \in 0 .. Sender!Blocks - 1
  BY <1>1, BlocksReach DEF Served
<1>3. /\ packet \in Seq(Byte) /\ packet[1] \in {SOH, STX}
      /\ Len(packet) = PacketLen(packet[1]) /\ packet[2] = Number(sent)
      /\ Len(packet) \in Nat \ {0}
  BY <1>2, PacketOfBlock, PacketAssumption DEF PacketLen, BlockLen
<1>4. rx \in Seq(Byte) /\ pkt \in Seq(Byte)
  BY DEF Safe, Typed, TypeOK
<1>5. /\ Len(pkt) + Len(rx) = Len(packet)
      /\ \A i \in 1 .. Len(pkt) : pkt[i] \in {packet[i], Link!Noise}
      /\ \A i \in 1 .. Len(rx) : rx[i] \in {packet[Len(pkt) + i], Link!Noise}
      /\ packet[1] = IF pkt = <<>> THEN rx[1] ELSE pkt[1]
  BY <1>1 DEF Arrives
<1>6. Sender!BlockPacket(sent) = packet
  OBVIOUS
<1> HIDE DEF packet
<1>7. pc = "packet" => /\ pkt # <<>> /\ pkt[1] = packet[1]
                       /\ Len(pkt) <= Len(packet)
                       /\ PacketLen(pkt[1]) = Len(packet)
  BY <1>3, <1>4, <1>5 DEF Safe, Typed, ThreadState
<1>8. rx = <<>> => PacketComplete
  BY <1>1, <1>3, <1>4, <1>5, <1>7 DEF PacketComplete
<1>9. ASSUME Arrives(Sender!BlockPacket(sent))', hpc' = hpc, sent' = sent,
             tx' = tx, pc' = "packet", written' = written, expected' = expected
      PROVE  InTurn'
  <2>1. sent' < Sender!Blocks' /\ (Fresh \/ Taken)'
    BY <1>1, <1>9, Kept DEF Sender!Blocks
  <2> QED
    BY <1>1, <1>9, <2>1 DEF InTurn, PacketComing
<1>10. ~Sends
  BY <1>1, SenderAt DEF Sender!SkipReply, Sender!Acknowledged,
     Sender!AskedAgain, Sender!Cancelled, Sender!Reply
<1>11. ~Timeout
  <2> SUFFICES ASSUME Timeout PROVE FALSE
    OBVIOUS
  <2>1. PacketComplete
    BY <1>8, TimeAt
  <2> QED
    BY <1>1, <2>1 DEF Timeout, NoInvitation, Sender!Uninvited, NoResponse,
       StubGivesUp, ReadTimeout, PromptAgain, PromptUnanswered, PacketComplete
<1>12. CASE Line
  <2>1. /\ pc = "packet" /\ rx # <<>> /\ rx' = [rx EXCEPT ![1] = Link!Noise]
        /\ tx' = tx
        /\ UNCHANGED <<hpc, sent, pc, pkt, written, expected>>
    BY <1>1, <1>12, LineAt DEF stub, host, progress
  <2>2. /\ Len(rx') = Len(rx)
        /\ \A i \in 1 .. Len(rx') : rx'[i] \in {rx[i], Link!Noise}
    BY <1>4, <2>1
  <2>3. Arrives(Sender!BlockPacket(sent))'
    BY <1>5, <1>6, <1>7, <2>1, <2>2, StillArrives
  <2> QED
    BY <1>9, <2>1, <2>3
<1>13. CASE StubWork /\ hpc' = hpc /\ sent' = sent
  <2>1. CASE pc \in {"first", "marker"}
    <3>1. pkt = <<>> /\ Len(pkt) = 0 /\ Len(rx) = Len(packet) /\ rx # <<>>
          /\ rx[1] = packet[1]
      BY <1>1, <1>3, <1>4, <1>5, <2>1
    <3>2. Head(rx) = packet[1] /\ Head(rx) \in {SOH, STX}
      BY <1>3, <1>4, <3>1, Shortened
    <3>3. FirstMarker \/ PacketMarker
      BY <1>13, <2>1, <3>2, StubAt DEF NotASender, EndOfTransfer,
         SenderCancels, UnknownMarker, SOH, STX, EOT, CAN
    <3>4. /\ rx' = Tail(rx) /\ pkt' = <<packet[1]>> /\ pc' = "packet"
          /\ tx' = tx /\ written' = written /\ expected' = expected
      BY <3>2, <3>3 DEF FirstMarker, PacketMarker, StartPacket, Receive
    <3>5. /\ Len(Tail(rx)) = Len(rx) - 1
          /\ \A i \in 1 .. Len(Tail(rx)) : Tail(rx)[i] = rx[i + 1]
      BY <1>4, <3>1, Shortened
    <3>6. /\ Len(pkt') = 1 /\ pkt' # <<>> /\ pkt'[1] = packet[1]
          /\ Len(pkt') + Len(rx') = Len(packet)
      BY <1>3, <3>1, <3>4, <3>5
    <3>7. \A i \in 1 .. Len(rx') : rx'[i] \in {packet[Len(pkt') + i], Link!Noise}
      <4> SUFFICES ASSUME NEW i \in 1 .. Len(Tail(rx))
                   PROVE  Tail(rx)[i] \in {packet[1 + i], Link!Noise}
        BY <3>4, <3>6
      <4>1. i + 1 \in 1 .. Len(rx) /\ Tail(rx)[i] = rx[i + 1]
            /\ Len(pkt) + (i + 1) = 1 + i
        BY <1>3, <3>1, <3>5
      <4> QED
        BY <1>5, <4>1
    <3>8. \A i \in 1 .. Len(pkt') : pkt'[i] \in {packet[i], Link!Noise}
      BY <3>6
    <3>9. Arrives(Sender!BlockPacket(sent))'
      BY <1>6, <1>13, <3>6, <3>7, <3>8, StillArrives
    <3> QED
      BY <1>9, <1>13, <3>4, <3>9
  <2>2. CASE ReadPacketByte
    <3>1. /\ rx # <<>> /\ rx' = Tail(rx) /\ pkt' = Append(pkt, Head(rx))
          /\ tx' = tx /\ pc = "packet" /\ pc' = pc /\ written' = written
          /\ expected' = expected
      BY <2>2 DEF ReadPacketByte, Receive
    <3>2. /\ Head(rx) = rx[1] /\ Len(rx) \in Nat \ {0}
          /\ Head(rx) \in Byte
          /\ Len(Tail(rx)) = Len(rx) - 1
          /\ \A i \in 1 .. Len(Tail(rx)) : Tail(rx)[i] = rx[i + 1]
      BY <1>4, <3>1, Shortened
    <3>3. /\ Len(pkt') = Len(pkt) + 1 /\ pkt'[Len(pkt) + 1] = rx[1]
          /\ \A i \in 1 .. Len(pkt) : pkt'[i] = pkt[i]
          /\ pkt' # <<>> /\ Len(pkt) \in Nat \ {0}
      BY <1>4, <1>7, <3>1, <3>2
    <3>4. Len(pkt') + Len(rx') = Len(packet) /\ pkt'[1] = packet[1]
      BY <1>3, <1>5, <1>7, <3>1, <3>2, <3>3
    <3>5. \A i \in 1 .. Len(pkt') : pkt'[i] \in {packet[i], Link!Noise}
      <4> SUFFICES ASSUME NEW i \in 1 .. Len(pkt')
                   PROVE  pkt'[i] \in {packet[i], Link!Noise}
        OBVIOUS
      <4>1. CASE i \in 1 .. Len(pkt)
        BY <1>5, <3>3, <4>1
      <4>2. CASE i = Len(pkt) + 1
        <5>1. rx[1] \in {packet[Len(pkt) + 1], Link!Noise}
          BY <1>5, <3>2
        <5> QED
          BY <3>3, <4>2, <5>1
      <4> QED
        BY <3>3, <4>1, <4>2
    <3>6. \A i \in 1 .. Len(rx') : rx'[i] \in {packet[Len(pkt') + i], Link!Noise}
      <4> SUFFICES ASSUME NEW i \in 1 .. Len(Tail(rx))
                   PROVE  Tail(rx)[i] \in {packet[Len(pkt) + 1 + i], Link!Noise}
        BY <3>1, <3>3
      <4>1. i + 1 \in 1 .. Len(rx) /\ Tail(rx)[i] = rx[i + 1]
            /\ Len(pkt) + (i + 1) = Len(pkt) + 1 + i
        BY <3>2, <3>3
      <4> QED
        BY <1>5, <4>1
    <3>7. Arrives(Sender!BlockPacket(sent))'
      BY <1>6, <1>13, <3>3, <3>4, <3>5, <3>6, StillArrives
    <3> QED
      BY <1>9, <1>13, <3>1, <3>7
  <2>3. CASE PacketComplete /\ ~ReadPacketByte
    <3>1. /\ pc = "packet" /\ Len(pkt) = Len(packet) /\ pkt[1] = packet[1]
          /\ rx = <<>>
      BY <1>3, <1>4, <1>5, <1>7, <2>3 DEF PacketComplete
    <3>2. Intact(pkt) => pkt = packet
      BY <1>2, <1>4, <1>5, <1>6, <3>1, IntactIsSent
    <3>3. Intact(pkt) => pkt[2] = Number(sent)
      BY <1>3, <3>2
    <3>4. /\ Number(sent) # Previous(Number(sent))
          /\ Number(sent) = Previous(Number(sent + 1))
          /\ Number(sent) # Number(sent + 1)
      BY <1>2, Numbering, BlocksReach
    <3>5. CASE BadPacket
      <4>1. /\ tx' = <<NAK>> /\ rx' = <<>> /\ pc' = "marker" /\ pkt' = <<>>
            /\ written' = written /\ expected' = expected
        BY <1>1, <3>1, <3>5 DEF BadPacket, Send, AwaitMarker, progress
      <4> QED
        BY <1>1, <1>13, <4>1, Kept DEF InTurn, Answering
    <3>6. CASE RepeatedPacket
      <4>1. /\ tx' = <<ACK>> /\ rx' = <<>> /\ pc' = "marker" /\ pkt' = <<>>
            /\ written' = written /\ expected' = expected
            /\ Intact(pkt) /\ pkt[2] = Previous(expected)
        BY <1>1, <3>1, <3>6 DEF RepeatedPacket, Send, AwaitMarker, progress
      <4>2. Taken
        BY <1>1, <3>3, <3>4, <4>1 DEF Fresh
      <4> QED
        BY <1>1, <1>13, <4>1, <4>2, Kept DEF InTurn, Answering
    <3>7. Intact(pkt) /\ pkt[2] # Previous(expected)
            => Fresh /\ pkt[2] = expected /\ written < len
      <4> SUFFICES ASSUME Intact(pkt), pkt[2] # Previous(expected)
                   PROVE  Fresh /\ pkt[2] = expected /\ written < len
        OBVIOUS
      <4>1. Fresh
        BY <1>1, <3>3, <3>4 DEF Taken
      <4>2. len = Len(Image)
        BY <3>1 DEF Served
      <4>3. Upto(sent) < Len(Image)
        BY <1>2, BlockWrites
      <4> QED
        BY <3>3, <4>1, <4>2, <4>3 DEF Fresh
    <3>8. CASE NextPacket
      <4>1. /\ tx' = <<>> /\ rx' = <<>> /\ pc' = "program" /\ pkt' = pkt
            /\ written' = written /\ expected' = expected
            /\ Intact(pkt) /\ pkt[2] # Previous(expected)
        BY <1>1, <3>1, <3>8 DEF NextPacket
      <4>2. Sender!BlockPacket(sent)' = packet /\ sent' < Sender!Blocks'
        BY <1>1, <1>6, <1>13 DEF Sender!BlockPacket, Sender!Blocks
      <4>3. Fresh'
        BY <1>13, <3>7, <4>1, Kept
      <4>4. pc' = "program" /\ pkt' = Sender!BlockPacket(sent)'
        BY <3>2, <4>1, <4>2
      <4>5. Quiet' /\ hpc' = "await" /\ sent' < Sender!Blocks'
        BY <1>1, <1>13, <4>1, <4>2 DEF Quiet
      <4> QED
        BY <4>3, <4>4, <4>5 DEF InTurn, Programming
    <3>9. ~UnwantedPacket
      <4> SUFFICES ASSUME UnwantedPacket PROVE FALSE
        OBVIOUS
      <4>1. /\ Intact(pkt) /\ pkt[2] # Previous(expected)
            /\ pkt[2] # expected \/ ~(written < len)
        BY DEF UnwantedPacket, Safe, Typed, TypeOK
      <4> QED
        BY <3>7, <4>1
    <3> QED
      BY <1>13, <2>3, <3>1, <3>5, <3>6, <3>8, <3>9, StubAt
  <2> QED
    BY <1>1, <1>13, <2>1, <2>2, <2>3, StubAt DEF BadPacket, RepeatedPacket,
       UnwantedPacket, NextPacket
<1> QED
  BY <1>10, <1>11, <1>12, <1>13 DEF Works, host
(* The block is programmed and acknowledged, or the chip has failed. *)
LEMMA FromProgramming ==
  ASSUME Safe, Served, WholePackets, Programming, Works
  PROVE  InTurn'
<1>1. /\ hpc = "await" /\ Quiet /\ rx = <<>> /\ tx = <<>>
      /\ sent < Sender!Blocks /\ Fresh /\ pc = "program"
      /\ pkt = Sender!BlockPacket(sent)
  BY DEF Programming, Quiet
<1>2. sent \in 0 .. Sender!Blocks - 1
  BY <1>1, BlocksReach DEF Served
<1>3. ~Sends
  BY <1>1, SenderAt DEF Sender!SkipReply, Sender!Acknowledged,
     Sender!AskedAgain, Sender!Cancelled, Sender!Reply
<1>4. ~Timeout
  BY <1>1 DEF Timeout, NoInvitation, Sender!Uninvited, NoResponse,
     StubGivesUp, ReadTimeout, PromptAgain, PromptUnanswered
<1>5. StubWork /\ hpc' = hpc /\ sent' = sent
  BY <1>1, <1>3, <1>4, EmptyLine DEF Works, host
<1>6. CASE SkipErasedPage \/ ProgramPage
  <2>1. /\ pc' = pc /\ pkt' = pkt /\ rx' = rx /\ tx' = tx
        /\ written' = written /\ expected' = expected
    BY <1>6 DEF SkipErasedPage, ProgramPage, PageDone
  <2>2. /\ Sender!BlockPacket(sent)' = Sender!BlockPacket(sent)
        /\ Sender!Blocks' = Sender!Blocks
    BY <1>5 DEF Sender!BlockPacket, Sender!Blocks
  <2>3. Fresh'
    BY <1>1, <1>5, <2>1, Kept
  <2>4. Quiet' /\ hpc' = "await" /\ sent' < Sender!Blocks'
    BY <1>1, <1>5, <2>1, <2>2 DEF Quiet
  <2>5. pc' = "program" /\ pkt' = Sender!BlockPacket(sent)'
    BY <1>1, <2>1, <2>2
  <2> QED
    BY <2>3, <2>4, <2>5 DEF InTurn, Programming
<1>7. CASE ProgramFails
  <2>1. Cancel /\ pc' = "idle"
    BY <1>7 DEF ProgramFails, Finish
  <2>2. Len(tx') = 2 /\ tx'[1] = CAN /\ tx'[2] = CAN
    BY <1>1, <2>1 DEF Cancel
  <2>3. \A i \in 1 .. Len(tx') : tx'[i] # ACK
    BY <2>2 DEF CAN, ACK
  <2> QED
    BY <1>1, <1>5, <2>1, <2>3 DEF InTurn, StubBack
<1>8. CASE FinishPacket
  <2>1. /\ tx' = <<ACK>> /\ rx' = <<>> /\ pc' = "marker" /\ pkt' = <<>>
        /\ written' = written + Chunk /\ expected' = Following(expected)
    BY <1>1, <1>8 DEF FinishPacket, Send, AwaitMarker
  <2>2. Chunk = Smaller(Len(Image) - Upto(sent), HostBlock)
    BY <1>1, <1>2, PacketOfBlock DEF Chunk, Fresh, Served
  <2>3. /\ written' = Upto(sent + 1) /\ expected' = Number(sent + 1)
    BY <1>1, <1>2, <2>1, <2>2, BlockWrites, Numbering, BlocksReach DEF Fresh
  <2>4. Taken'
    BY <1>1, <1>5, <2>3 DEF Taken, Upto, Number, Sender!Blocks
  <2> QED
    BY <1>1, <1>5, <2>1, <2>4 DEF InTurn, Answering
<1> QED
  BY <1>1, <1>5, <1>6, <1>7, <1>8, StubAt

(* The two sides stay in turn. *)
LEMMA TurnStep ==
  ASSUME Safe, Served, WholePackets, InTurn, [LinkNext]_linkVars
  PROVE  InTurn' /\ WholePackets'
<1>1. WholePackets'
  <2>1. conditions' = conditions
    BY DEF LinkNext, StubRuns, HostWork, HostCommand, HostRejected, Sends,
       Timeout, NoInvitation, NoResponse, StubGivesUp, PromptAgain, Line,
       linkVars
  <2> QED
    BY <2>1 DEF WholePackets
<1>2. CASE UNCHANGED linkVars
  BY <1>1, <1>2, Stutters
<1>3. CASE LinkNext /\ hpc = "idle"
  <2>1. Unopened
    BY <1>3 DEF InTurn, Inviting, ProbesTurn, PacketComing, Programming,
       EndComing, Answering, StubBack, ProbeBack, Delivered
  <2> QED
    BY <1>1, <1>3, <2>1, FromUnopened
<1>4. CASE LinkNext /\ hpc # "idle"
  <2>1. Works /\ ~Unopened
    BY <1>4, Opened DEF Unopened
  <2> QED
    BY <1>1, <2>1, FromInviting, FromProbesTurn, FromPacketComing,
       FromProgramming, FromEndComing, FromAnswering, FromStubBack,
       FromProbeBack, FromDelivered DEF InTurn
<1> QED
  BY <1>2, <1>3, <1>4

-----------------------------------------------------------------------------
(* The order of the image. *)

(* A page taken from the packet of the block that is due continues it. *)
LEMMA PageInOrder ==
  ASSUME Safe, Served, TakesImageInOrder, Programming, pageOff < Chunk, PageDone
  PROVE  TakesImageInOrder'
<1> DEFINE b == sent  h == HostBlock  x == b * h
<1>1. /\ b \in 0 .. Sender!Blocks - 1 /\ b \in Nat /\ pc = "program"
      /\ pkt = Sender!BlockPacket(b) /\ written = Upto(b)
      /\ op = "FLASH_XMODEM_DL" /\ off = Target /\ len = Len(Image)
  BY BlocksReach DEF Programming, Fresh, Served
<1>2. written = x /\ x \in Nat /\ h \in Nat \ {0}
  BY <1>1, BlockWrites, ImageSize
<1>3. /\ PagePart \in Nat /\ CurrentOff = off + Filled
      /\ CurrentOff \in Nat /\ CurrentOff + PagePart <= End
      /\ off \in Nat /\ Filled \in Nat
  BY <1>1, PageBounds
<1>4. written \in Nat /\ pageOff \in Nat /\ Filled = written + pageOff
  BY DEF Safe, Typed, TypeOK, Filled
<1>5. pageOff + PagePart <= h /\ PagePart <= PageSize /\ PageSize \in Nat
  <2>1. BlockLen(pkt[1]) = h
    BY <1>1, PacketOfBlock
  <2>2. Chunk <= h /\ Chunk \in Int
    <3>1. Chunk = Smaller(len - written, h) /\ len - written \in Int
      BY <1>1, <1>4, <2>1, ImageSize DEF Chunk
    <3> QED
      BY <1>2, <3>1 DEF Smaller
  <2>3. PagePart = Smaller(Chunk - pageOff, PageSize) /\ PageSize \in Nat
    BY GeometryAssumption DEF PagePart
  <2> QED
    BY <1>2, <1>3, <1>4, <2>2, <2>3 DEF Smaller
<1>6. \A k \in 0 .. PageSize - 1 : k < PagePart => PageData[k] = pkt[4 + pageOff + k]
  BY DEF PageData
<1>7. \A j \in 1 .. h : x + j <= Len(Image) => pkt[3 + j] = Image[x + j]
  BY <1>1, PacketOfBlock
<1>8. /\ off' = off /\ pc' = pc /\ Filled' = Filled + PagePart
  <2>1. /\ off' = off /\ pc' = pc /\ written' = written
        /\ pageOff' = pageOff + PagePart
    BY DEF PageDone, command
  <2> QED
    BY <1>3, <1>4, <2>1 DEF Filled
<1>9. \A a \in Addr : accepted'[a] =
        IF CurrentOff <= a /\ a < CurrentOff + PagePart
        THEN PageData[a - CurrentOff] ELSE accepted[a]
  BY DEF PageDone
<1> HIDE DEF x, h, b
<1>10. ASSUME NEW i \in 1 .. Len(Image), Target + i - 1 < off + Filled + PagePart
       PROVE  accepted'[Target + i - 1] = Image[i]
  <2> DEFINE a == Target + i - 1  k == a - CurrentOff  j == pageOff + k + 1
  <2>1. a \in Addr /\ a \in Nat
    <3>1. /\ Target \in Nat /\ Target + Len(Image) <= FlashSize
          /\ FlashSize \in Nat
      BY LinkAssumption, GeometryAssumption DEF Addr
    <3> QED
      BY <3>1, ImageSize DEF Addr
  <2>2. CASE a < CurrentOff
    <3>1. accepted[a] = Image[i]
      BY <1>1, <1>3, <2>2 DEF TakesImageInOrder
    <3>2. accepted'[a] = accepted[a]
      <4> HIDE DEF a
      <4> QED
        BY <1>3, <1>9, <2>1, <2>2
    <3> QED
      BY <3>1, <3>2
  <2>3. CASE ~(a < CurrentOff)
    <3>1. /\ CurrentOff <= a /\ a < CurrentOff + PagePart
          /\ k \in 0 .. PageSize - 1 /\ k < PagePart
      BY <1>3, <1>5, <1>10, <2>1, <2>3
    <3>2. accepted'[a] = PageData[k]
      <4>1. a - CurrentOff = k
        OBVIOUS
      <4> HIDE DEF a, k
      <4> QED
        BY <1>9, <2>1, <3>1, <4>1
    <3>3. j \in 1 .. h /\ 4 + pageOff + k = 3 + j /\ x + j = i
      BY <1>1, <1>2, <1>3, <1>4, <1>5, <3>1
    <3> HIDE DEF a, k, j
    <3>4. PageData[k] = pkt[3 + j]
      BY <1>6, <3>1, <3>3
    <3>5. pkt[3 + j] = Image[x + j]
      BY <1>7, <3>3
    <3> QED
      BY <3>2, <3>3, <3>4, <3>5 DEF a
  <2> QED
    BY <2>2, <2>3
<1>11. off' + Filled' = off + Filled + PagePart
  BY <1>3, <1>8
<1> QED
  BY <1>10, <1>11 DEF TakesImageInOrder

(* Nothing else moves what has been taken, until a command starts anew.    *)
LEMMA OrderStep ==
  ASSUME Safe, Served, InTurn, TakesImageInOrder, [LinkNext]_linkVars, Served'
  PROVE  TakesImageInOrder'
<1>1. [Next]_vars
  BY LinkStep DEF Safe, Served
<1>2. ASSUME op' = op, off' = off, accepted' = accepted, Filled' = Filled,
             pc # "erase"
      PROVE  TakesImageInOrder'
  BY <1>2 DEF TakesImageInOrder
<1>3. ASSUME op' = op, off' = off, Filled' = Filled, pc = "erase"
      PROVE  TakesImageInOrder'
  <2>1. Filled = 0
    BY <1>3 DEF Safe, Typed, ThreadState, Filled
  <2>2. op = "FLASH_XMODEM_DL" => off + Filled = Target
    BY <2>1, LinkAssumption DEF Served, Addr
  <2>3. \A i \in 1 .. Len(Image) : ~(Target + i - 1 < Target)
    BY LinkAssumption DEF Addr
  <2> QED
    BY <1>3, <2>2, <2>3 DEF TakesImageInOrder
<1>4. CASE QuietStep
  <2>1. StaysPut
    BY <1>4, QuietStaysPut DEF Safe
  <2> QED
    BY <1>2, <1>3, <2>1 DEF StaysPut
<1>5. CASE EraseRound \/ \E c \in FlashOps, o \in 0 .. Word - 1, n \in 0 .. Word - 1 :
                           StartCommand(c, o, n)
  <2>1. pc' = "erase"
    BY <1>5 DEF EraseRound, StartCommand
  <2> QED
    BY <2>1 DEF TakesImageInOrder
<1>6. CASE EraseFails \/ EraseCommandDone \/ ErasedForTransfer
  <2>1. pc = "erase" /\ command' = command /\ progress' = progress
    BY <1>6 DEF EraseFails, EraseCommandDone, ErasedForTransfer
  <2> QED
    BY <1>3, <2>1 DEF command, progress, Filled
<1>7. CASE ProgramFails \/ EndOfTransfer
  <2>1. pc # "erase" /\ command' = command /\ progress' = progress
    BY <1>7 DEF ProgramFails, EndOfTransfer
  <2> QED
    BY <1>2, <2>1 DEF command, progress, Filled
<1>8. CASE SkipErasedPage \/ ProgramPage
  <2>1. pc = "program" /\ pageOff < Chunk /\ PageDone
    BY <1>8 DEF SkipErasedPage, ProgramPage
  <2>2. Programming
    BY <2>1 DEF InTurn, Unopened, Inviting, ProbesTurn, PacketComing,
       EndComing, Answering, StubBack, ProbeBack, Delivered, Served
  <2> QED
    BY <2>1, <2>2, PageInOrder
<1> QED
  BY <1>1, <1>4, <1>5, <1>6, <1>7, <1>8 DEF Next, StubCommand, StubStep,
     StubWork, StubTimeout, QuietStep

(* Both sides keep to their turns, whatever is damaged, whichever replies  *)
(* are lost and whoever gives up.                                          *)
LEMMA SessionInTurn == LinkSafety => []LinkInv
<1>1. LinkInit => LinkInv
  <2> SUFFICES ASSUME LinkInit PROVE LinkInv
    OBVIOUS
  <2>1. Init /\ Safe /\ Served /\ hpc = "idle" /\ sent = 0
    BY LinkStart DEF LinkInit
  <2>2. Unopened /\ TakesImageInOrder
    BY <2>1 DEF Unopened, Served, TakesImageInOrder
  <2> QED
    BY <2>1, <2>2 DEF LinkInv, InTurn
<1>2. LinkInv /\ [LinkNext]_linkVars => LinkInv'
  <2> SUFFICES ASSUME LinkInv, [LinkNext]_linkVars PROVE LinkInv'
    OBVIOUS
  <2>1. Safe' /\ Served'
    BY LinkStep, SafeStep, ServedStep DEF LinkInv, Safe, Served
  <2>2. WholePackets' => WholePackets
    BY DEF WholePackets, LinkNext, StubRuns, HostWork, HostCommand,
       HostRejected, Sends, Timeout, NoInvitation, NoResponse, StubGivesUp,
       PromptAgain, Line, linkVars
  <2> QED
    BY <2>1, <2>2, TurnStep, OrderStep DEF LinkInv
<1> QED
  BY <1>1, <1>2, PTL DEF LinkSafety

(* As long as packets arrive whole, the stub takes each block of the image *)
(* once and in its order: a copy of a block that it has already taken is   *)
(* answered and not written again, and a damaged one is not taken.  A lost *)
(* byte can make it take the rest of a packet for another one, and with it *)
(* whatever packet the image itself contains.                              *)
THEOREM Order ==
  LinkSafety => [](WholePackets => TakesImageInOrder /\ AcceptedMeansWritten)
<1>1. LinkInv => (WholePackets => TakesImageInOrder /\ AcceptedMeansWritten)
  BY OrderSuffices DEF LinkInv, AcceptedMeansWritten
<1> QED
  BY <1>1, SessionInTurn, PTL

(* When xmodem_send then returns normally, the image is in the flash,      *)
(* however often packets were damaged or replies lost.                     *)
THEOREM Delivery ==
  LinkSafety => [](WholePackets => /\ hpc = "ok" => InPlace
                                   /\ SentMeansWritten)
<1>1. LinkInv /\ WholePackets /\ hpc = "ok" => InPlace
  <2> SUFFICES ASSUME LinkInv, WholePackets, hpc = "ok" PROVE InPlace
    OBVIOUS
  <2>1. Safe /\ Served /\ TakesImageInOrder /\ result = "done"
    BY DEF LinkInv, InTurn, Unopened, Inviting, ProbesTurn, PacketComing,
       Programming, EndComing, Answering, StubBack, ProbeBack, Delivered
  <2> QED
    BY <2>1, OrderSuffices
<1>2. LinkInv => (WholePackets => /\ hpc = "ok" => InPlace
                                  /\ SentMeansWritten)
  BY <1>1 DEF SentMeansWritten
<1> QED
  BY <1>2, SessionInTurn, PTL

=============================================================================
