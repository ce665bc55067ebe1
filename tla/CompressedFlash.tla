-------------------------- MODULE CompressedFlash --------------------------
(***************************************************************************)
(* FLASH_XMODEM_DL_Z (0x97), the compressed flash write of the stub:       *)
(* xmodem_receive_compressed_flash with xmodem_rx_next_packet, the loop of *)
(* w800_miniz_inflate_raw (src/src/w800_miniz.c) and the page writer       *)
(* inflate_flash_put_buffer.  The three call each other: inflating asks    *)
(* for a packet when its input is used up, and hands every piece of output *)
(* to the page writer before it goes on.                                   *)
(*                                                                         *)
(* DEFLATE itself (tinfl_decompress) is external.  A byte of the stream    *)
(* stands for a fixed sequence of output bytes, or ends the stream after   *)
(* it, or is invalid; what is kept is when the decoder stops: at the end   *)
(* of its input, at the end of the stream, or when the next output byte    *)
(* has no room in the dictionary.                                          *)
(***************************************************************************)
EXTENDS Stub
Ext == INSTANCE SequencesExt

CONSTANTS
  Expand(_),    \* the output a byte of the stream stands for
  Ends,         \* bytes that end the stream
  Invalid,      \* bytes no stream contains
  DictSize      \* TINFL_LZ_DICT_SIZE, a multiple of the page size

ASSUME StreamAssumption ==
  /\ DictSize \in Nat \ {0}
  /\ \A b \in Byte : Expand(b) \in Seq(Byte)
  /\ \A b \in Invalid : Expand(b) = <<>>
  /\ Ends \cap Invalid = {}

VARIABLES
  pc,           \* where the stub's thread stands
  off, len,     \* the range of the command
  status,       \* the status of the last OBK reply
  result,       \* how the last command ended
  tries,        \* prompts sent
  pkt,          \* marker and the packet bytes read so far
  expected,     \* expected_block
  pending,      \* pending_ack
  unread,       \* the part of inflate_input not yet consumed
  room,         \* bytes left in the dictionary before it wraps
  owed,         \* output decoded but not yet delivered
  over,         \* the decoder has seen the end of the stream
  verdict,      \* what tinfl_decompress returned last
  piece,        \* the rest of the buffer the page writer was called with
  page,         \* the page buffer
  written,      \* flash.written
  accepted,     \* history: the output the page writer has taken
  before        \* history: the flash when the command was accepted

command == <<off, len, before>>
reception == <<tries, pkt, expected, pending>>
decoder == <<unread, room, owed, over, verdict>>
writer == <<piece, page, written, accepted>>
vars == <<flash, size, pc, command, status, result, reception, decoder,
          writer, rx, tx>>

Points == {"idle", "wake", "first", "marker", "packet", "inflate", "put",
           "flush", "last", "finish"}
Verdicts == {"needs input", "has output", "done", "failed"}

Init ==
  /\ flash \in Flash /\ before = flash /\ size \in {0, FlashSize}
  /\ pc = "idle" /\ off = WriteMin /\ len = 0
  /\ status = "none" /\ result = "none"
  /\ tries = 0 /\ pkt = <<>> /\ expected = 1 /\ pending = FALSE
  /\ unread = <<>> /\ room = DictSize /\ owed = <<>> /\ over = FALSE
  /\ verdict = "needs input"
  /\ piece = <<>> /\ page = <<>> /\ written = 0 /\ accepted = <<>>
  /\ rx = <<>> /\ tx = <<>>

-----------------------------------------------------------------------------
(* handle_obk_frame.  Unlike 0x91, any offset from WriteMin on will do.    *)

(* Mutant: the lower limit is not checked. *)
AdmittedBelow(o, n) == InFlash(o, n)

Admitted(o, n) == InFlash(o, n) /\ o >= WriteMin

RejectCommand(o, n) ==
  /\ pc = "idle" /\ rx = <<>> /\ ~Admitted(o, n)
  /\ status' = "ADDR_ERROR"
  /\ UNCHANGED <<flash, size, pc, command, result, reception, decoder, writer,
                 rx, tx>>

StartCommand(o, n) ==
  /\ pc = "idle" /\ rx = <<>> /\ Admitted(o, n)
  /\ pc' = "wake" /\ off' = o /\ len' = n /\ before' = flash
  /\ status' = "SUCCESS" /\ result' = "none"
  /\ tries' = 0 /\ pkt' = <<>> /\ expected' = 1 /\ pending' = FALSE
  /\ unread' = <<>> /\ room' = DictSize /\ owed' = <<>> /\ over' = FALSE
  /\ verdict' = "needs input"
  /\ piece' = <<>> /\ page' = <<>> /\ written' = 0 /\ accepted' = <<>>
  /\ UNCHANGED <<flash, size, rx, tx>>

(* Back in main; nothing of the buffers is read again.                     *)
Finish(how) ==
  /\ pc' = "idle" /\ result' = how
  /\ pkt' = <<>> /\ pending' = FALSE
  /\ unread' = <<>> /\ owed' = <<>> /\ piece' = <<>> /\ page' = <<>>
  /\ UNCHANGED <<size, command, status, tries, expected, room, over, verdict,
                 written, accepted>>

(* Whatever goes wrong, the sender is told once. *)
Fail == Cancel /\ Finish("failed")

-----------------------------------------------------------------------------
(* xmodem_rx_next_packet. *)

SendPrompt ==
  /\ pc = "wake" /\ tries < MaxPrompts
  /\ Send(CRC_MODE)
  /\ tries' = tries + 1 /\ pc' = "first"
  /\ UNCHANGED <<flash, size, command, status, result, pkt, expected, pending,
                 decoder, writer, rx>>

PromptUnanswered ==
  /\ pc = "first" /\ Silent
  /\ pc' = "wake"
  /\ UNCHANGED <<flash, size, command, status, result, reception, decoder,
                 writer, rx, tx>>

NoSender ==
  /\ pc = "wake" /\ tries >= MaxPrompts
  /\ Fail
  /\ UNCHANGED <<flash, rx>>

AtMarker == pc \in {"first", "marker"}

PacketMarker ==
  /\ AtMarker /\ Receive /\ Head(rx) \in {SOH, STX}
  /\ pkt' = <<Head(rx)>> /\ pc' = "packet"
  /\ UNCHANGED <<flash, size, command, status, result, tries, expected,
                 pending, decoder, writer, tx>>

(* EOT is no better than CAN as long as the decoder wants input. *)
StreamBreaksOff ==
  /\ AtMarker /\ Receive /\ Head(rx) \in {CAN, EOT}
  /\ Fail
  /\ UNCHANGED flash

UnknownMarker ==
  /\ AtMarker /\ Receive /\ Head(rx) \notin {SOH, STX, CAN, EOT}
  /\ Send(NAK)
  /\ pc' = "marker"
  /\ UNCHANGED <<flash, size, command, status, result, reception, decoder,
                 writer>>

ReadPacketByte ==
  /\ pc = "packet" /\ Len(pkt) < PacketLen(pkt[1]) /\ Receive
  /\ pkt' = Append(pkt, Head(rx))
  /\ UNCHANGED <<flash, size, pc, command, status, result, tries, expected,
                 pending, decoder, writer, tx>>

(* Mutant: the waits for a marker and for EOT never end. *)
ReadTimeoutInPacket ==
  /\ Silent
  /\ pc = "packet" /\ Len(pkt) < PacketLen(pkt[1])
  /\ Fail
  /\ UNCHANGED <<flash, rx>>

ReadTimeout ==
  /\ Silent
  /\ \/ pc \in {"marker", "finish"}
     \/ pc = "packet" /\ Len(pkt) < PacketLen(pkt[1])
  /\ Fail
  /\ UNCHANGED <<flash, rx>>

PacketComplete == pc = "packet" /\ Len(pkt) = PacketLen(pkt[1])

AwaitMarker(answer) ==
  /\ Send(answer)
  /\ pc' = "marker" /\ pkt' = <<>>
  /\ UNCHANGED <<flash, size, command, status, result, tries, expected,
                 pending, decoder, writer, rx>>

BadPacket == PacketComplete /\ ~Intact(pkt) /\ AwaitMarker(NAK)

RepeatedPacket ==
  /\ PacketComplete /\ Intact(pkt) /\ pkt[2] = Previous(expected)
  /\ AwaitMarker(ACK)

OutOfSequence ==
  /\ PacketComplete /\ Intact(pkt)
  /\ pkt[2] \notin {Previous(expected), expected}
  /\ Fail
  /\ UNCHANGED <<flash, rx>>

(* Mutant: a repeated block is inflated once more. *)
NextOrRepeatedPacket ==
  /\ PacketComplete /\ Intact(pkt) /\ pkt[2] \in {Previous(expected), expected}
  /\ expected' = Following(expected) /\ pending' = TRUE
  /\ unread' = Payload(pkt) /\ pkt' = <<>> /\ pc' = "inflate"
  /\ UNCHANGED <<flash, size, command, status, result, tries, room, owed,
                 over, verdict, writer, rx, tx>>

(* The payload becomes the input; it is acknowledged only when the next    *)
(* packet is wanted, or at the end.                                        *)
NextPacket ==
  /\ PacketComplete /\ Intact(pkt)
  /\ pkt[2] = expected /\ pkt[2] # Previous(expected)
  /\ expected' = Following(expected) /\ pending' = TRUE
  /\ unread' = Payload(pkt) /\ pkt' = <<>> /\ pc' = "inflate"
  /\ UNCHANGED <<flash, size, command, status, result, tries, room, owed,
                 over, verdict, writer, rx, tx>>

-----------------------------------------------------------------------------
(* w800_miniz_inflate_raw: one call of tinfl_decompress. *)

Inflated(stream) == Ext!FlattenSeq([i \in 1 .. Len(stream) |-> Expand(stream[i])])

(* What is owed and what the next k bytes of input add to it. *)
Output(k) == owed \o Inflated(SubSeq(unread, 1, k))

(* The decoder stops after k bytes, at the latest. *)
Stops(k) ==
  \/ k = Len(unread) \/ Len(Output(k)) > room
  \/ IF k = 0 THEN over ELSE unread[k] \in Ends \cup Invalid

Consumed ==
  CHOOSE k \in 0 .. Len(unread) : Stops(k) /\ \A j \in 0 .. k - 1 : ~Stops(j)

(* What a call that takes k bytes of input leaves and delivers. *)
Decoded(k, out) ==
  LET ends == over \/ (k > 0 /\ unread[k] \in Ends)
  IN [unread  |-> SubSeq(unread, k + 1, Len(unread)),
      piece   |-> SubSeq(out, 1, Smaller(room, Len(out))),
      owed    |-> SubSeq(out, room + 1, Len(out)),
      over    |-> ends,
      verdict |-> CASE Len(out) > room -> "has output"
                    [] k > 0 /\ unread[k] \in Invalid -> "failed"
                    [] ends -> "done"
                    [] OTHER -> "needs input"]

(* The result of the next call of the decoder. *)
OneCall == {Decoded(k, out) : k \in {Consumed}, out \in {Output(Consumed)}}

(* Mutant: dictionary_pos is not set back. *)
RoomNeverWraps(n) == room - n

(* The dictionary is filled from its start again once it is full. *)
RoomAfter(n) == IF n = room THEN DictSize ELSE room - n

(* Mutant: the output is not compared with what is left to write. *)
InflateAnyLength ==
  /\ pc = "inflate"
  /\ \E d \in OneCall :
       /\ piece' = d.piece /\ owed' = d.owed /\ over' = d.over
       /\ unread' = d.unread /\ verdict' = d.verdict
       /\ room' = RoomAfter(Len(d.piece))
  /\ pc' = "put"
  /\ UNCHANGED <<flash, size, command, status, result, reception, page,
                 written, accepted, rx, tx>>

Inflate ==
  /\ pc = "inflate"
  /\ \E d \in OneCall :
       /\ Len(d.piece) <= len - written
       /\ piece' = d.piece /\ owed' = d.owed /\ over' = d.over
       /\ unread' = d.unread /\ verdict' = d.verdict
       /\ room' = RoomAfter(Len(d.piece))
  /\ pc' = "put"
  /\ UNCHANGED <<flash, size, command, status, result, reception, page,
                 written, accepted, rx, tx>>

(* write_inflate_output takes no part of an output that is too long. *)
InflateTooLong ==
  /\ pc = "inflate"
  /\ \E d \in OneCall : Len(d.piece) > len - written
  /\ Fail
  /\ UNCHANGED <<flash, rx>>

-----------------------------------------------------------------------------
(* inflate_flash_put_buffer and inflate_flash_flush. *)

CurrentOff == off + written
PageStart == CurrentOff - Len(page)

NeedsErase ==
  /\ page = <<>> /\ CurrentOff % SectorSize = 0
  /\ ~RangeIsErased(flash, CurrentOff, SectorSize)

(* Mutant: a block is erased, as 0x91 would. *)
EraseBlockAhead ==
  /\ pc = "put" /\ piece # <<>> /\ NeedsErase
  /\ \E stuck \in SUBSET Flaky :
       flash' = ChipErase(flash, CurrentOff, BlockSize, stuck)
  /\ RangeIsErased(flash', CurrentOff, SectorSize)
  /\ UNCHANGED <<size, pc, command, status, result, reception, decoder,
                 writer, rx, tx>>

EraseSector ==
  /\ pc = "put" /\ piece # <<>> /\ NeedsErase
  /\ \E stuck \in SUBSET Flaky :
       flash' = ChipErase(flash, CurrentOff, SectorSize, stuck)
  /\ RangeIsErased(flash', CurrentOff, SectorSize)
  /\ UNCHANGED <<size, pc, command, status, result, reception, decoder,
                 writer, rx, tx>>

EraseFails ==
  /\ pc = "put" /\ piece # <<>> /\ NeedsErase
  /\ \E stuck \in SUBSET Flaky :
       flash' = ChipErase(flash, CurrentOff, SectorSize, stuck)
  /\ ~RangeIsErased(flash', CurrentOff, SectorSize)
  /\ Fail
  /\ UNCHANGED rx

FillPage ==
  /\ pc = "put" /\ piece # <<>> /\ ~NeedsErase
  /\ LET n == Smaller(PageSize - Len(page), Len(piece))
         chunk == SubSeq(piece, 1, n)
     IN /\ page' = page \o chunk
        /\ piece' = SubSeq(piece, n + 1, Len(piece))
        /\ written' = written + n
        /\ accepted' = accepted \o chunk
  /\ pc' = IF Len(page') = PageSize THEN "flush" ELSE "put"
  /\ UNCHANGED <<flash, size, command, status, result, reception, decoder,
                 rx, tx>>

(* Mutant: the page buffer is not filled up. *)
PageDataUnfilled == [i \in 0 .. PageSize - 1 |->
                       IF i < Len(page) THEN page[i + 1] ELSE 0]

(* The page buffer, filled up with 0xFF. *)
PageData == [i \in 0 .. PageSize - 1 |->
               IF i < Len(page) THEN page[i + 1] ELSE FF]

Flushing == pc \in {"flush", "last"}

(* After the last page the stub waits for EOT; any other is in the middle  *)
(* of a piece.                                                             *)
PageFlushed ==
  /\ page' = <<>>
  /\ pc' = IF pc = "last" THEN "finish" ELSE "put"
  /\ IF pc = "last" /\ pending
     THEN Send(ACK) /\ pending' = FALSE
     ELSE UNCHANGED <<tx, pending>>
  /\ UNCHANGED <<size, command, status, result, tries, pkt, expected, decoder,
                 piece, written, accepted, rx>>

SkipErasedPage ==
  /\ Flushing /\ BufferIsErased(PageData, Len(page))
  /\ PageFlushed
  /\ UNCHANGED flash

ProgramPage ==
  /\ Flushing /\ ~BufferIsErased(PageData, Len(page))
  /\ \E stuck \in SUBSET Flaky :
       flash' = ChipProgram(flash, PageStart, PageData, stuck)
  /\ RangeMatches(flash', PageStart, PageData, Len(page))
  /\ PageFlushed

ProgramFails ==
  /\ Flushing /\ ~BufferIsErased(PageData, Len(page))
  /\ \E stuck \in SUBSET Flaky :
       flash' = ChipProgram(flash, PageStart, PageData, stuck)
  /\ ~RangeMatches(flash', PageStart, PageData, Len(page))
  /\ Fail
  /\ UNCHANGED rx

-----------------------------------------------------------------------------
(* Back in the inflate loop: the next call, the next packet or the end. *)

PieceDone == pc = "put" /\ piece = <<>>

InflateMore ==
  /\ PieceDone /\ verdict = "has output" /\ unread # <<>>
  /\ pc' = "inflate"
  /\ UNCHANGED <<flash, size, command, status, result, reception, decoder,
                 writer, rx, tx>>

(* Output may still be owed here: the loop looks at its input only.        *)
WantPacket ==
  /\ PieceDone
  /\ \/ verdict = "needs input"
     \/ verdict = "has output" /\ unread = <<>>
  /\ pc' = "marker" /\ pending' = FALSE
  /\ Send(ACK)
  /\ UNCHANGED <<flash, size, command, status, result, tries, pkt, expected,
                 decoder, writer, rx>>

(* Mutant: the length of the output is not compared. *)
StreamDoneAnyLength ==
  /\ PieceDone /\ verdict = "done"
  /\ pc' = "last"
  /\ UNCHANGED <<flash, size, command, status, result, reception, decoder,
                 writer, rx, tx>>

StreamDone ==
  /\ PieceDone /\ verdict = "done" /\ written = len
  /\ pc' = "last"
  /\ UNCHANGED <<flash, size, command, status, result, reception, decoder,
                 writer, rx, tx>>

StreamFails ==
  /\ PieceDone
  /\ \/ verdict = "failed"
     \/ verdict = "done" /\ written # len
  /\ Fail
  /\ UNCHANGED <<flash, rx>>

-----------------------------------------------------------------------------
(* xmodem_rx_finish. *)

EndOfTransfer ==
  /\ pc = "finish" /\ Receive /\ Head(rx) = EOT
  /\ Send(ACK) /\ Finish("done")
  /\ UNCHANGED flash

(* A repeated last block is not taken for one. *)
NoEndOfTransfer ==
  /\ pc = "finish" /\ Receive /\ Head(rx) # EOT
  /\ Fail
  /\ UNCHANGED flash

-----------------------------------------------------------------------------
(* main drops every byte that does not start a frame. *)
DropByte ==
  /\ pc = "idle" /\ Receive
  /\ UNCHANGED <<flash, size, pc, command, status, result, reception, decoder,
                 writer, tx>>

StubCommand(o, n) == RejectCommand(o, n) \/ StartCommand(o, n)

StubTimeout == PromptUnanswered \/ ReadTimeout

StubWork ==
  \/ SendPrompt \/ NoSender \/ PacketMarker \/ StreamBreaksOff
  \/ UnknownMarker \/ ReadPacketByte \/ BadPacket \/ RepeatedPacket
  \/ OutOfSequence \/ NextPacket
  \/ Inflate \/ InflateTooLong \/ EraseSector \/ EraseFails \/ FillPage
  \/ SkipErasedPage \/ ProgramPage \/ ProgramFails
  \/ InflateMore \/ WantPacket \/ StreamDone \/ StreamFails
  \/ EndOfTransfer \/ NoEndOfTransfer \/ DropByte

StubStep == StubWork \/ StubTimeout

Environment ==
  /\ rx' \in Seq(Byte) /\ tx' \in Seq(Byte)
  /\ UNCHANGED <<flash, size, pc, command, status, result, reception, decoder,
                 writer>>

Next ==
  \/ \E o \in 0 .. Word - 1, n \in 0 .. Word - 1 : StubCommand(o, n)
  \/ StubStep
  \/ Environment

Spec == Init /\ [][Next]_vars

-----------------------------------------------------------------------------
(* Properties. *)

TypeOK ==
  /\ flash \in Flash /\ before \in Flash /\ size \in {0, FlashSize}
  /\ pc \in Points /\ status \in Statuses /\ result \in Results
  /\ off \in Addr /\ len \in Nat /\ off >= WriteMin /\ off + len <= FlashSize
  /\ tries \in 0 .. MaxPrompts /\ pkt \in Seq(Byte)
  /\ expected \in 0 .. NumberMod - 1 /\ pending \in BOOLEAN
  /\ unread \in Seq(Byte) /\ room \in 1 .. DictSize /\ owed \in Seq(Byte)
  /\ over \in BOOLEAN /\ verdict \in Verdicts
  /\ piece \in Seq(Byte) /\ page \in Seq(Byte) /\ accepted \in Seq(Byte)
  /\ written \in 0 .. len
  /\ rx \in Seq(Byte) /\ tx \in Seq(Byte)

(* What one function of the write relies on and another one provides: the  *)
(* page writer is never handed more than is left of the announced length,  *)
(* its page buffer does not overflow and is a tail of what was accepted,   *)
(* the decoder starts every call with input, and no answer is due while a  *)
(* packet is read.                                                         *)
ThreadState ==
  /\ Len(accepted) = written /\ Len(piece) <= len - written
  /\ Len(page) <= (IF pc = "flush" THEN PageSize ELSE PageSize - 1)
  /\ page = SubSeq(accepted, written - Len(page) + 1, written)
  /\ pc = "inflate" => unread # <<>>
  /\ pc \in {"inflate", "put", "flush", "last"} => pending
  /\ pc \in {"wake", "first", "marker", "packet"} => ~pending
  /\ pc = "finish" => page = <<>> /\ written = len

Aligned == off % SectorSize = 0
Flushed == off + written - Len(page)

(* Of a write to a sector boundary, everything that has left the page      *)
(* buffer is in the flash, and the rest of the sectors opened so far is    *)
(* still erased, wherever packets, pieces of output and pages end.         *)
FlushedPrefix ==
  pc # "idle" /\ Aligned =>
    \A a \in Addr :
      /\ off <= a /\ a < Flushed => flash[a] = accepted[a - off + 1]
      /\ Flushed <= a /\ Base(a, SectorSize) < off + written => flash[a] = FF

WholeRangeWritten ==
  /\ written = len
  /\ \A i \in 1 .. len : flash[off + i - 1] = accepted[i]

(* A write to a sector boundary that ends well has the whole range in      *)
(* place, and the rest of the last sector erased.                          *)
DoneMeansComplete ==
  result = "done" /\ Aligned =>
    /\ WholeRangeWritten
    /\ \A a \in Addr :
         off + len <= a /\ Base(a, SectorSize) < off + len => flash[a] = FF

(* The write opens sectors only as the output reaches them: one that fails *)
(* half way has left the sectors behind the next output byte as they were, *)
(* and none reaches the first WriteMin units, for any offset it admits.    *)
UnreachedUntouched ==
  \A a \in Addr :
    \/ a < WriteMin
    \/ Aligned /\ (\/ a < off
                   \/ Base(a, SectorSize) > off + written
                   \/ Base(a, SectorSize) >= off + len)
    => flash[a] = before[a]

(* A write reported as done is in the flash, for any offset the command    *)
(* admits.                                                                 *)
DoneMeansWritten == result = "done" => WholeRangeWritten

=============================================================================
