----------------------------- MODULE RawFlash ------------------------------
(***************************************************************************)
(* The flash commands of the stub that change the chip directly:           *)
(*   FLASH_ERASE (0x04), FLASH_CHIP_ERASE (0x05) and FLASH_XMODEM_DL       *)
(*   (0x91), that is the handlers in handle_obk_frame, w800_flash_erase_   *)
(*   range and xmodem_receive_flash of src/src/w800_raw_stub.c.            *)
(*                                                                         *)
(* The stub is one thread that polls the UART, so its state is where that  *)
(* thread stands (pc) and its local variables.  The peer and the line are  *)
(* an open environment: rx, what the UART holds for the stub, and tx, what *)
(* the stub has sent, may change in any way between two steps of the stub. *)
(* Reading times out only while rx is empty.                               *)
(***************************************************************************)
EXTENDS Stub

VARIABLES
  pc,           \* where the stub's thread stands
  op,           \* the command being served
  off, len,     \* its range
  cursor,       \* "off" of w800_flash_erase_range
  status,       \* the status of the last OBK reply
  result,       \* how the last command ended
  tries,        \* prompts sent by xmodem_receive_flash
  pkt,          \* marker and the packet bytes read so far
  expected,     \* expected_block
  written,      \* payload bytes in the flash
  pageOff,      \* page_off
  accepted,     \* history: the bytes the transfer has put at each address
  before        \* history: the flash when the command was accepted

command == <<op, off, len, before>>
progress == <<tries, expected, written, pageOff, accepted>>
vars == <<flash, size, pc, command, cursor, status, result, pkt, progress,
          rx, tx>>

FlashOps == {"FLASH_ERASE", "FLASH_CHIP_ERASE", "FLASH_XMODEM_DL"}
Points == {"idle", "erase", "prompt", "first", "marker", "packet", "program"}

End == off + len

Init ==
  /\ flash \in Flash /\ before = flash /\ accepted = flash
  /\ size \in {0, FlashSize}
  /\ pc = "idle" /\ op = "FLASH_ERASE" /\ off = WriteMin /\ len = 0
  /\ cursor = 0 /\ status = "none" /\ result = "none"
  /\ tries = 0 /\ pkt = <<>> /\ expected = 1
  /\ written = 0 /\ pageOff = 0
  /\ rx = <<>> /\ tx = <<>>

-----------------------------------------------------------------------------
(* Range checks. *)

(* Mutant: FLASH_ERASE does not check the lower limit. *)
AdmittedAnywhere(c, o, n) ==
  CASE c = "FLASH_ERASE" ->
         InFlash(o, n) /\ o % SectorSize = 0 /\ n % SectorSize = 0
    [] c = "FLASH_XMODEM_DL" ->
         InFlash(o, n) /\ o >= WriteMin /\ o % SectorSize = 0
    [] OTHER -> size # 0

(* The conditions under which a frame <<c, o, n>> starts to change the chip. *)
Admitted(c, o, n) ==
  CASE c = "FLASH_ERASE" ->
         /\ InFlash(o, n) /\ o >= WriteMin
         /\ o % SectorSize = 0 /\ n % SectorSize = 0
    [] c = "FLASH_XMODEM_DL" ->
         InFlash(o, n) /\ o >= WriteMin /\ o % SectorSize = 0
    [] OTHER -> size # 0

RangeOf(c, o, n) ==
  IF c = "FLASH_CHIP_ERASE" THEN <<WriteMin, size - WriteMin>> ELSE <<o, n>>

-----------------------------------------------------------------------------
(* handle_obk_frame: a command that fails its checks is only answered. *)

RejectCommand(c, o, n) ==
  /\ pc = "idle" /\ rx = <<>>
  /\ ~Admitted(c, o, n)
  /\ status' = IF c = "FLASH_CHIP_ERASE" THEN "ERROR" ELSE "ADDR_ERROR"
  /\ UNCHANGED <<flash, size, pc, command, cursor, result, pkt, progress,
                 rx, tx>>

(* An accepted one enters w800_flash_erase_range; 0x91 replies before that. *)
StartCommand(c, o, n) ==
  /\ pc = "idle" /\ rx = <<>>
  /\ Admitted(c, o, n)
  /\ pc' = "erase"
  /\ op' = c /\ off' = RangeOf(c, o, n)[1] /\ len' = RangeOf(c, o, n)[2]
  /\ cursor' = off'
  /\ before' = flash
  /\ status' = IF c = "FLASH_XMODEM_DL" THEN "SUCCESS" ELSE "none"
  /\ result' = "none"
  /\ tries' = 0 /\ pkt' = <<>> /\ expected' = 1
  /\ written' = 0 /\ pageOff' = 0
  /\ UNCHANGED <<flash, size, accepted, rx, tx>>

(* The end of a command: back to the loop in main.  A packet that has been *)
(* dealt with leaves nothing behind that is read again.                    *)
Finish(how) == pc' = "idle" /\ result' = how /\ pkt' = <<>>
AwaitMarker == pc' = "marker" /\ pkt' = <<>>

-----------------------------------------------------------------------------
(* w800_flash_erase_range. *)

(* Mutant: the erased unit is not read back. *)
EraseRoundUnchecked ==
  /\ pc = "erase" /\ cursor < End
  /\ \E stuck \in SUBSET Flaky :
       LET unit == EraseSize(cursor, End) IN
         /\ flash' = ChipErase(flash, cursor, unit, stuck)
         /\ cursor' = cursor + unit
  /\ UNCHANGED <<size, pc, command, status, result, pkt, progress, rx, tx>>

EraseRound ==
  /\ pc = "erase" /\ cursor < End
  /\ \E stuck \in SUBSET Flaky :
       LET unit == EraseSize(cursor, End) IN
         /\ flash' = ChipErase(flash, cursor, unit, stuck)
         /\ RangeIsErased(flash', cursor, unit)
         /\ cursor' = cursor + unit
  /\ UNCHANGED <<size, pc, command, status, result, pkt, progress, rx, tx>>

EraseFails ==
  /\ pc = "erase" /\ cursor < End
  /\ \E stuck \in SUBSET Flaky :
       LET unit == EraseSize(cursor, End) IN
         /\ flash' = ChipErase(flash, cursor, unit, stuck)
         /\ ~RangeIsErased(flash', cursor, unit)
  /\ IF op = "FLASH_XMODEM_DL"
     THEN Cancel /\ UNCHANGED status
     ELSE status' = "ERROR" /\ UNCHANGED tx
  /\ Finish("failed")
  /\ UNCHANGED <<size, command, cursor, progress, rx>>

EraseCommandDone ==
  /\ pc = "erase" /\ cursor >= End /\ op # "FLASH_XMODEM_DL"
  /\ status' = "SUCCESS"
  /\ Finish("done")
  /\ UNCHANGED <<flash, size, command, cursor, progress, rx, tx>>

ErasedForTransfer ==
  /\ pc = "erase" /\ cursor >= End /\ op = "FLASH_XMODEM_DL"
  /\ pc' = "prompt"
  /\ UNCHANGED <<flash, size, command, cursor, status, result, pkt, progress,
                 rx, tx>>

-----------------------------------------------------------------------------
(* xmodem_receive_flash: invite the sender until its first byte. *)

SendPrompt ==
  /\ pc = "prompt" /\ tries < MaxPrompts
  /\ Send(CRC_MODE)
  /\ tries' = tries + 1
  /\ pc' = "first"
  /\ UNCHANGED <<flash, size, command, cursor, status, result, pkt, expected,
                 written, pageOff, accepted, rx>>

PromptUnanswered ==
  /\ pc = "first" /\ Silent
  /\ pc' = "prompt"
  /\ UNCHANGED <<flash, size, command, cursor, status, result, pkt, progress,
                 rx, tx>>

NoSender ==
  /\ pc = "prompt" /\ tries >= MaxPrompts
  /\ Cancel /\ Finish("failed")
  /\ UNCHANGED <<flash, size, command, cursor, status, progress, rx>>

StartPacket(marker) ==
  /\ pkt' = <<marker>>
  /\ pc' = "packet"
  /\ UNCHANGED <<flash, size, command, cursor, status, result, tries, expected,
                 written, pageOff, accepted, tx>>

FirstMarker ==
  /\ pc = "first" /\ Receive
  /\ Head(rx) \in {SOH, STX}
  /\ StartPacket(Head(rx))

NotASender ==
  /\ pc = "first" /\ Receive
  /\ Head(rx) \notin {SOH, STX}
  /\ Cancel /\ Finish("failed")
  /\ UNCHANGED <<flash, size, command, cursor, status, progress>>

-----------------------------------------------------------------------------
(* The packet loop. *)

PacketMarker ==
  /\ pc = "marker" /\ Receive
  /\ Head(rx) \in {SOH, STX}
  /\ StartPacket(Head(rx))

(* Mutant: EOT is accepted whatever has been written. *)
EndOfTransferAnywhere ==
  /\ pc = "marker" /\ Receive
  /\ Head(rx) = EOT
  /\ Send(ACK) /\ Finish("done")
  /\ UNCHANGED <<flash, size, command, cursor, status, progress>>

EndOfTransfer ==
  /\ pc = "marker" /\ Receive
  /\ Head(rx) = EOT
  /\ IF written = len THEN Send(ACK) /\ Finish("done")
                      ELSE Cancel /\ Finish("failed")
  /\ UNCHANGED <<flash, size, command, cursor, status, progress>>

SenderCancels ==
  /\ pc = "marker" /\ Receive
  /\ Head(rx) = CAN
  /\ Finish("failed")
  /\ UNCHANGED <<flash, size, command, cursor, status, progress, tx>>

UnknownMarker ==
  /\ pc = "marker" /\ Receive
  /\ Head(rx) \notin {SOH, STX, EOT, CAN}
  /\ Send(NAK)
  /\ UNCHANGED <<flash, size, pc, command, cursor, status, result, pkt,
                 progress>>

ReadPacketByte ==
  /\ pc = "packet" /\ Receive
  /\ Len(pkt) < PacketLen(pkt[1])
  /\ pkt' = Append(pkt, Head(rx))
  /\ UNCHANGED <<flash, size, pc, command, cursor, status, result, tries,
                 expected, written, pageOff, accepted, tx>>

(* Mutant: waiting for a marker never ends. *)
ReadTimeoutInPacket ==
  /\ Silent
  /\ pc = "packet" /\ Len(pkt) < PacketLen(pkt[1])
  /\ Finish("failed")
  /\ UNCHANGED <<flash, size, command, cursor, status, progress, rx, tx>>

(* Waiting for a marker or inside a packet, a timeout ends the transfer     *)
(* without a word to the sender.                                           *)
ReadTimeout ==
  /\ Silent
  /\ \/ pc = "marker"
     \/ pc = "packet" /\ Len(pkt) < PacketLen(pkt[1])
  /\ Finish("failed")
  /\ UNCHANGED <<flash, size, command, cursor, status, progress, rx, tx>>

PacketComplete == pc = "packet" /\ Len(pkt) = PacketLen(pkt[1])

BadPacket ==
  /\ PacketComplete /\ ~Intact(pkt)
  /\ Send(NAK)
  /\ AwaitMarker
  /\ UNCHANGED <<flash, size, command, cursor, status, result, progress, rx>>

(* Mutant: a repeated block is refused. *)
RepeatedPacketRefused ==
  /\ PacketComplete /\ Intact(pkt) /\ pkt[2] = Previous(expected)
  /\ Send(NAK)
  /\ AwaitMarker
  /\ UNCHANGED <<flash, size, command, cursor, status, result, progress, rx>>

RepeatedPacket ==
  /\ PacketComplete /\ Intact(pkt) /\ pkt[2] = Previous(expected)
  /\ Send(ACK)
  /\ AwaitMarker
  /\ UNCHANGED <<flash, size, command, cursor, status, result, progress, rx>>

(* Out of sequence, or beyond the announced length. *)
UnwantedPacket ==
  /\ PacketComplete /\ Intact(pkt) /\ pkt[2] # Previous(expected)
  /\ pkt[2] # expected \/ written >= len
  /\ Cancel /\ Finish("failed")
  /\ UNCHANGED <<flash, size, command, cursor, status, progress, rx>>

(* Mutant: a block beyond the announced length is taken. *)
NextPacketBeyondLength ==
  /\ PacketComplete /\ Intact(pkt) /\ pkt[2] # Previous(expected)
  /\ pkt[2] = expected
  /\ pageOff' = 0
  /\ pc' = "program"
  /\ UNCHANGED <<flash, size, command, cursor, status, result, tries, pkt,
                 expected, written, accepted, rx, tx>>

(* Mutant: the number of a block is not compared. *)
NextPacketAnyNumber ==
  /\ PacketComplete /\ Intact(pkt) /\ written < len
  /\ pageOff' = 0
  /\ pc' = "program"
  /\ UNCHANGED <<flash, size, command, cursor, status, result, tries, pkt,
                 expected, written, accepted, rx, tx>>

NextPacket ==
  /\ PacketComplete /\ Intact(pkt) /\ pkt[2] # Previous(expected)
  /\ pkt[2] = expected /\ written < len
  /\ pageOff' = 0
  /\ pc' = "program"
  /\ UNCHANGED <<flash, size, command, cursor, status, result, tries, pkt,
                 expected, written, accepted, rx, tx>>

-----------------------------------------------------------------------------
(* The page loop over the packet's payload. *)

Chunk == Smaller(len - written, BlockLen(pkt[1]))
CurrentOff == off + written + pageOff
PagePart == Smaller(Chunk - pageOff, PageSize)

(* Mutant: the page buffer is not filled up with 0xFF. *)
PageDataUnfilled == [i \in 0 .. PageSize - 1 |->
                       IF i < PagePart THEN pkt[4 + pageOff + i] ELSE 0]

(* The page buffer: payload, then 0xFF up to the size of a page. *)
PageData == [i \in 0 .. PageSize - 1 |->
               IF i < PagePart THEN pkt[4 + pageOff + i] ELSE FF]

PageDone ==
  /\ pageOff' = pageOff + PagePart
  /\ accepted' = [a \in Addr |->
       IF CurrentOff <= a /\ a < CurrentOff + PagePart
       THEN PageData[a - CurrentOff] ELSE accepted[a]]
  /\ UNCHANGED <<size, pc, command, cursor, status, result, tries, pkt,
                 expected, written, rx, tx>>

SkipErasedPage ==
  /\ pc = "program" /\ pageOff < Chunk
  /\ BufferIsErased(PageData, PagePart)
  /\ UNCHANGED flash
  /\ PageDone

ProgramPage ==
  /\ pc = "program" /\ pageOff < Chunk
  /\ ~BufferIsErased(PageData, PagePart)
  /\ \E stuck \in SUBSET Flaky :
       flash' = ChipProgram(flash, CurrentOff, PageData, stuck)
  /\ RangeMatches(flash', CurrentOff, PageData, PagePart)
  /\ PageDone

ProgramFails ==
  /\ pc = "program" /\ pageOff < Chunk
  /\ ~BufferIsErased(PageData, PagePart)
  /\ \E stuck \in SUBSET Flaky :
       flash' = ChipProgram(flash, CurrentOff, PageData, stuck)
  /\ ~RangeMatches(flash', CurrentOff, PageData, PagePart)
  /\ Cancel /\ Finish("failed")
  /\ UNCHANGED <<size, command, cursor, status, progress, rx>>

FinishPacket ==
  /\ pc = "program" /\ pageOff >= Chunk
  /\ written' = written + Chunk
  /\ expected' = Following(expected)
  /\ pageOff' = 0
  /\ Send(ACK)
  /\ AwaitMarker
  /\ UNCHANGED <<flash, size, command, cursor, status, result, tries,
                 accepted, rx>>

-----------------------------------------------------------------------------
(* main drops every byte that does not start a frame. *)
DropByte ==
  /\ pc = "idle" /\ Receive
  /\ UNCHANGED <<flash, size, pc, command, cursor, status, result, pkt,
                 progress, tx>>

StubCommand(c, o, n) == RejectCommand(c, o, n) \/ StartCommand(c, o, n)

StubTimeout == PromptUnanswered \/ ReadTimeout

StubWork ==
  \/ EraseRound \/ EraseFails \/ EraseCommandDone \/ ErasedForTransfer
  \/ SendPrompt \/ NoSender \/ FirstMarker \/ NotASender
  \/ PacketMarker \/ EndOfTransfer \/ SenderCancels \/ UnknownMarker
  \/ ReadPacketByte
  \/ BadPacket \/ RepeatedPacket \/ UnwantedPacket \/ NextPacket
  \/ SkipErasedPage \/ ProgramPage \/ ProgramFails \/ FinishPacket
  \/ DropByte

StubStep == StubWork \/ StubTimeout

Environment ==
  /\ rx' \in Seq(Byte) /\ tx' \in Seq(Byte)
  /\ UNCHANGED <<flash, size, pc, command, cursor, status, result, pkt,
                 progress>>

Next ==
  \/ \E c \in FlashOps, o \in 0 .. Word - 1, n \in 0 .. Word - 1 :
       StubCommand(c, o, n)
  \/ StubStep
  \/ Environment

Spec == Init /\ [][Next]_vars

-----------------------------------------------------------------------------
(* Properties. *)

TypeOK ==
  /\ flash \in Flash /\ before \in Flash /\ accepted \in Flash
  /\ size \in {0, FlashSize}
  /\ pc \in Points /\ op \in FlashOps
  /\ status \in Statuses /\ result \in Results
  /\ off \in Addr /\ len \in Nat /\ cursor \in Nat
  /\ off % SectorSize = 0 /\ off >= WriteMin /\ End <= FlashSize
  /\ tries \in 0 .. MaxPrompts
  /\ expected \in 0 .. NumberMod - 1
  /\ written \in 0 .. len /\ pageOff \in Nat
  /\ pkt \in Seq(Byte)
  /\ rx \in Seq(Byte) /\ tx \in Seq(Byte)

InTransfer == pc \in {"prompt", "first", "marker", "packet", "program"}
Filled == written + pageOff

(* What the stub's thread relies on at each point of its code: the erase   *)
(* cursor is on a sector, only 0x91 gets past the erasing, a packet is as  *)
(* long as its marker says before its page loop starts, and that loop      *)
(* stays inside both the packet and the range.                             *)
ThreadState ==
  /\ pc # "idle" => result = "none" /\ len > 0
  /\ pc = "erase" => /\ off <= cursor /\ cursor % SectorSize = 0
                     /\ written = 0 /\ pageOff = 0
  /\ InTransfer => op = "FLASH_XMODEM_DL"
  /\ pc \in {"prompt", "first", "marker", "packet"} => pageOff = 0
  /\ pc = "packet" => Len(pkt) \in 1 .. PacketLen(pkt[1])
  /\ pc = "program" => /\ Len(pkt) = PacketLen(pkt[1])
                       /\ written < len /\ pageOff <= Chunk

(* The cells of the sectors the command's range lies in. *)
InRangeSectors(a) == off <= a /\ Base(a, SectorSize) < End

(* While w800_flash_erase_range runs, everything behind its cursor is      *)
(* erased; while xmodem_receive_flash runs, the flash holds exactly the    *)
(* bytes it has taken from the sender, and is still erased from there to   *)
(* the end of the last sector, so that no page is programmed twice and a   *)
(* page program that wraps cannot have damaged what was already verified.  *)
VerifiedPrefix ==
  /\ pc = "erase" => \A a \in Addr : off <= a /\ a < cursor => flash[a] = FF
  /\ InTransfer =>
       \A a \in Addr :
         /\ off <= a /\ a < off + Filled => flash[a] = accepted[a]
         /\ off + Filled <= a /\ InRangeSectors(a) => flash[a] = FF

(* A command that ended well has put every unit of its range in place and  *)
(* left the rest of the last sector erased.                                *)
DoneMeansComplete ==
  pc = "idle" /\ result = "done" =>
    \A a \in Addr :
      /\ off <= a /\ a < End =>
           flash[a] = IF op = "FLASH_XMODEM_DL" THEN accepted[a] ELSE FF
      /\ End <= a /\ InRangeSectors(a) => flash[a] = FF

(* A command changes nothing outside the sectors of its range, neither     *)
(* when it fails half way nor through the wrap of a page program.          *)
OutsideUntouched ==
  \A a \in Addr : ~InRangeSectors(a) => flash[a] = before[a]

(* No command, failure or line error reaches the first WriteMin units,     *)
(* where the boot loader and the calibration data are.                     *)
ProtectedNeverWritten ==
  [][\A a \in Addr : a < WriteMin => flash'[a] = flash[a]]_vars

(* The stub fills a range only upwards and only in erased cells, and       *)
(* reports success only at its end: it implements FlashUpdate.             *)
Update == INSTANCE FlashUpdate WITH
  mem <- flash,
  phase <- IF pc = "idle" THEN "idle"
           ELSE IF pc = "erase" THEN "erasing" ELSE "filling",
  first <- off, count <- len,
  filling <- op = "FLASH_XMODEM_DL",
  filled <- Filled,
  outcome <- result

ImplementsUpdate == Update!Spec

=============================================================================
