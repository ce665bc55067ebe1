----------------------------- MODULE Dispatcher ----------------------------
(***************************************************************************)
(* Commands and their replies: main and handle_obk_frame of                *)
(* src/src/w800_raw_stub.c against execute_obk_command and change_obk_baud *)
(* of src/w800_custom_stub_probe.py.  Frames are read byte by byte over a  *)
(* line that loses and damages bytes, and two sides at different rates     *)
(* hear only garbage from each other.  A probe that fails ends, and may be *)
(* started again with --no-upload.  What the commands do is left to the    *)
(* modules of the commands; here they take their time and end, and a       *)
(* session that would follow the reply is not started.                     *)
(***************************************************************************)
EXTENDS Integers, Sequences

CONSTANTS
  Script,       \* the commands of the probe: their type, data, and the status
                \* that it asks for
  CmdBuf,       \* sizeof(cmd_buf)
  Supported,    \* rates, each as the four bytes that name it in a command
  FirstRate,    \* 115200
  Garbled,      \* what a damaged byte may arrive as
  FifoDepth,    \* bytes the UART holds for the stub
  FaultKinds,   \* what may go wrong
  MaxFaults,    \* and how often
  MaxRestarts,  \* how often the probe is started again
  MaxWaiting    \* prompts that nobody has read

SYNC == 0
FLASH_ERASE == 4
FLASH_CHIP_ERASE == 5
BAUD_CHANGE == 7
FLASH_CRC32 == 143
FLASH_ID == 144
GET_MAC == 149
Transfers == {145, 146, 150, 151, 152}

SUCCESS == 0
ERROR == 1
TYPE_ERROR == 3
LEN_ERROR == 4
CRC_ERROR == 5

MAGIC == 165
ACK_MAGIC == 90
Prompt == 67

(* test_obk_protocol begins with a SYNC.  No command of the probe has more *)
(* than nine bytes of data.                                                *)
ASSUME ScriptAssumption ==
  /\ Script \in Seq([type : (0 .. 255) \ Transfers, data : Seq(0 .. 255),
                     want : 0 .. 255])
  /\ Script # <<>> /\ Script[1].type = SYNC
  /\ \A i \in DOMAIN Script : Len(Script[i].data) <= 255

ASSUME LineAssumption ==
  /\ CmdBuf \in Nat /\ CmdBuf >= 255
  /\ FirstRate \in Supported /\ Supported \subseteq Seq(0 .. 255)
  /\ Garbled \subseteq 0 .. 255
  /\ FifoDepth \in Nat /\ MaxFaults \in Nat /\ MaxRestarts \in Nat
  /\ MaxWaiting \in Nat

VARIABLES
  spc,          \* where the stub stands
  prompts,      \* prompt_enabled
  toBoot,       \* prompts still to be sent before the loop of main
  frame,        \* the bytes of the frame, the magic included
  rate,         \* of the stub's UART
  hpc,          \* where the probe stands
  step,         \* the command of Script it has come to
  got,          \* the bytes of the reply, or the prompts in a row
  hostRate,     \* of the probe's port
  rx, tx,       \* the line to the stub, the line back
  faults, restarts,
  asked, executed, answered  \* history: commands sent, executed, and answered

stub == <<spc, prompts, toBoot, frame, rate, executed>>
host == <<hpc, step, got, hostRate, restarts, asked, answered>>
vars == <<stub, host, rx, tx, faults>>

Link == INSTANCE SerialLine WITH conditions <- [kinds |-> FaultKinds]

Sum(bytes) ==
  LET upto[n \in 0 .. Len(bytes)] ==
        IF n = 0 THEN 0 ELSE (upto[n - 1] + bytes[n]) % 256
  IN upto[Len(bytes)]

WithSum(bytes) == Append(bytes, Sum(bytes))

(* What the other side makes of it. *)
Heard(bytes) ==
  IF rate = hostRate THEN {bytes}
  ELSE {[i \in DOMAIN bytes |-> b] : b \in Garbled}

-----------------------------------------------------------------------------
(* The stub. *)

Type == frame[2]
DataLen == frame[3] + 256 * frame[4]
Data == SubSeq(frame, 5, 4 + DataLen)

Reply(data, status) ==
  \E bytes \in Heard(WithSum(<<ACK_MAGIC, Type, Len(data), 0>> \o data \o <<status>>)) :
    tx' = tx \o bytes

BootPrompt ==
  /\ spc = "boot"
  /\ tx' = Append(tx, Prompt) /\ toBoot' = toBoot - 1
  /\ spc' = IF toBoot = 1 THEN "main" ELSE "boot"
  /\ UNCHANGED <<prompts, frame, rate, executed, rx, host, faults>>

IdlePrompt ==
  /\ spc = "main" /\ rx = <<>> /\ prompts /\ Len(tx) < MaxWaiting
  /\ tx' = Append(tx, Prompt)
  /\ UNCHANGED <<stub, rx, host, faults>>

DropByte ==
  /\ spc = "main" /\ rx # <<>> /\ Head(rx) # MAGIC
  /\ rx' = Tail(rx)
  /\ UNCHANGED <<stub, tx, host, faults>>

StartFrame ==
  /\ spc = "main" /\ rx # <<>> /\ Head(rx) = MAGIC
  /\ rx' = Tail(rx)
  /\ prompts' = FALSE /\ spc' = "frame" /\ frame' = <<MAGIC>>
  /\ UNCHANGED <<toBoot, rate, executed, tx, host, faults>>

TooLong == Len(frame) = 4 /\ DataLen > CmdBuf
Complete == Len(frame) > 4 /\ Len(frame) = 5 + DataLen

FrameByte ==
  /\ spc = "frame" /\ ~TooLong /\ ~Complete /\ rx # <<>>
  /\ frame' = Append(frame, Head(rx)) /\ rx' = Tail(rx)
  /\ UNCHANGED <<spc, prompts, toBoot, rate, executed, tx, host, faults>>

BackToMain == spc' = "main" /\ frame' = <<>>

(* Mutant: the header is waited for without a limit. *)
FrameCutInData ==
  /\ spc = "frame" /\ Len(frame) > 3 /\ ~TooLong /\ ~Complete /\ rx = <<>>
  /\ BackToMain
  /\ UNCHANGED <<prompts, toBoot, rate, executed, rx, tx, host, faults>>

(* No reply to a frame that breaks off. *)
FrameCut ==
  /\ spc = "frame" /\ ~TooLong /\ ~Complete /\ rx = <<>>
  /\ BackToMain
  /\ UNCHANGED <<prompts, toBoot, rate, executed, rx, tx, host, faults>>

Refuse(status) ==
  /\ spc = "frame" /\ Reply(<<>>, status) /\ BackToMain
  /\ UNCHANGED <<prompts, toBoot, rate, executed, rx, host, faults>>

(* Mutant: the sum is not compared. *)
SumUnchecked == TRUE

SumFits == frame = WithSum(SubSeq(frame, 1, Len(frame) - 1))

LengthFits ==
  CASE Type = BAUD_CHANGE -> DataLen = 4
    [] Type = FLASH_CRC32 -> DataLen = 8
    [] Type = GET_MAC -> DataLen = 0
    [] Type \in Transfers \cup {FLASH_ERASE} -> DataLen >= 8
    [] OTHER -> TRUE

(* The rest of a frame that is too long stays in the line. *)
RefuseTooLong == TooLong /\ Refuse(LEN_ERROR)

RefuseDamaged == Complete /\ ~SumFits /\ Refuse(CRC_ERROR)

Valid == Complete /\ SumFits

RefuseLength == Valid /\ ~LengthFits /\ Refuse(LEN_ERROR)

Busy == {FLASH_ERASE, FLASH_CHIP_ERASE, FLASH_CRC32, FLASH_ID, GET_MAC} \cup Transfers

RefuseType ==
  /\ Valid /\ LengthFits
  /\ \/ Type \notin Busy \cup {SYNC, BAUD_CHANGE}
     \/ Type = BAUD_CHANGE /\ Data \notin Supported
  /\ Refuse(TYPE_ERROR)

Execute == executed' = Append(executed, <<Type, Data>>)

Sync ==
  /\ spc = "frame" /\ Valid /\ Type = SYNC
  /\ Execute /\ Reply(<<>>, SUCCESS) /\ BackToMain
  /\ UNCHANGED <<prompts, toBoot, rate, rx, host, faults>>

(* Mutant: any rate is taken, 0 among them. *)
AcceptAnyRate ==
  /\ spc = "frame" /\ Valid /\ Type = BAUD_CHANGE /\ LengthFits
  /\ Execute /\ Reply(<<>>, SUCCESS) /\ spc' = "switch"
  /\ UNCHANGED <<prompts, toBoot, frame, rate, rx, host, faults>>

(* Mutant: the rate changes while the reply is still in the FIFO. *)
AcceptRateAtOnce ==
  /\ spc = "frame" /\ Valid /\ Type = BAUD_CHANGE /\ LengthFits /\ Data \in Supported
  /\ Execute /\ rate' = Data /\ BackToMain
  /\ \E b \in Garbled : tx' = tx \o [i \in 1 .. 6 |-> b]
  /\ UNCHANGED <<prompts, toBoot, rx, host, faults>>

(* The reply goes out at the old rate. *)
AcceptRate ==
  /\ spc = "frame" /\ Valid /\ Type = BAUD_CHANGE /\ LengthFits /\ Data \in Supported
  /\ Execute /\ Reply(<<>>, SUCCESS) /\ spc' = "switch"
  /\ UNCHANGED <<prompts, toBoot, frame, rate, rx, host, faults>>

SetRate ==
  /\ spc = "switch"
  /\ rate' = Data /\ BackToMain
  /\ UNCHANGED <<prompts, toBoot, executed, rx, tx, host, faults>>

StartWork ==
  /\ spc = "frame" /\ Valid /\ Type \in Busy /\ LengthFits
  /\ Execute /\ spc' = "work"
  /\ UNCHANGED <<prompts, toBoot, frame, rate, rx, tx, host, faults>>

(* Operands, the chip and its MAC records may all be refused: ERROR stands *)
(* for ADDR_ERROR as well.                                                 *)
FinishWork ==
  /\ spc = "work"
  /\ \/ /\ Reply(CASE Type \in {FLASH_ID, FLASH_CRC32} -> <<0, 0, 0, 0>>
                   [] Type = GET_MAC -> <<0, 0, 0, 0, 0, 0>>
                   [] OTHER -> <<>>, SUCCESS)
        /\ UNCHANGED faults
     \/ Link!Fault("failed work") /\ Reply(<<>>, ERROR)
  /\ BackToMain
  /\ UNCHANGED <<prompts, toBoot, rate, executed, rx, host>>

StubWork ==
  \/ BootPrompt \/ IdlePrompt \/ DropByte
  \/ StartFrame \/ FrameByte \/ FrameCut
  \/ RefuseTooLong \/ RefuseDamaged \/ RefuseLength \/ RefuseType
  \/ Sync \/ AcceptRate \/ SetRate \/ StartWork \/ FinishWork

-----------------------------------------------------------------------------
(* The probe. *)

SyncCommand == [type |-> SYNC, data |-> <<>>, want |-> SUCCESS]

(* After a change of rate the probe sends a SYNC of its own. *)
Command ==
  IF hpc \in {"settle", "confirm"} THEN SyncCommand ELSE Script[step]

(* wait_for_cccc after an upload: four prompts in a row. *)
CountPrompt ==
  /\ hpc = "upload" /\ Len(got) < 4 /\ tx # <<>>
  /\ got' = IF Head(tx) = Prompt THEN Append(got, Prompt) ELSE <<>>
  /\ tx' = Tail(tx)
  /\ UNCHANGED <<hpc, step, hostRate, restarts, asked, answered, stub, rx, faults>>

Prompted ==
  /\ hpc = "upload" /\ Len(got) = 4
  /\ hpc' = "next"
  /\ UNCHANGED <<step, got, hostRate, restarts, asked, answered, stub, rx, tx, faults>>

(* reset_input_buffer discards what has arrived, not what is on its way.   *)
(* delay_loops(60000) of the stub is over before the probe, which sleeps   *)
(* 20 ms, goes on.                                                         *)
SendCommand ==
  /\ hpc \in {"next", "settle"} /\ step <= Len(Script)
  /\ hpc = "settle" => spc # "switch"
  /\ \E n \in 0 .. Len(tx) : tx' = SubSeq(tx, n + 1, Len(tx))
  /\ \E bytes \in Heard(WithSum(<<MAGIC, Command.type, Len(Command.data), 0>>
                                \o Command.data)) :
       rx' = rx \o bytes
  /\ hpc' = IF hpc = "settle" THEN "confirm" ELSE "reply"
  /\ got' = <<>>
  /\ asked' = Append(asked, <<Command.type, Command.data>>)
  /\ UNCHANGED <<step, hostRate, restarts, answered, stub, faults>>

Waiting == hpc \in {"reply", "confirm"}

(* Mutant: the type of the reply is not compared. *)
BadMagic == Len(got) = 4 /\ got[1] # ACK_MAGIC

BadHeader == Len(got) = 4 /\ <<got[1], got[2]>> # <<ACK_MAGIC, Command.type>>
ReplyComplete == Len(got) > 4 /\ Len(got) = 6 + got[3] + 256 * got[4]
Status == got[Len(got) - 1]
GoodReply ==
  /\ ReplyComplete /\ got[Len(got)] = Sum(SubSeq(got, 1, Len(got) - 1))
  /\ Status = Command.want

TakeReplyByte ==
  /\ Waiting /\ ~BadHeader /\ ~ReplyComplete /\ tx # <<>>
  /\ got' = Append(got, Head(tx)) /\ tx' = Tail(tx)
  /\ UNCHANGED <<hpc, step, hostRate, restarts, asked, answered, stub, rx, faults>>

RefuseReply ==
  /\ Waiting /\ (BadHeader \/ (ReplyComplete /\ ~GoodReply))
  /\ hpc' = "failed"
  /\ UNCHANGED <<step, got, hostRate, restarts, asked, answered, stub, rx, tx, faults>>

Record ==
  answered' = IF Status = SUCCESS
              THEN Append(answered, <<Command.type, Command.data>>) ELSE answered

ChangesRate == hpc = "reply" /\ Command.type = BAUD_CHANGE /\ Status = SUCCESS

AcceptReply ==
  /\ Waiting /\ GoodReply /\ ~ChangesRate
  /\ Record
  /\ step' = step + 1
  /\ hpc' = IF step = Len(Script) THEN "ok" ELSE "next"
  /\ UNCHANGED <<got, hostRate, restarts, asked, stub, rx, tx, faults>>

(* Mutant: the new rate is not confirmed. *)
FollowRateAtOnce ==
  /\ Waiting /\ GoodReply /\ ChangesRate
  /\ Record
  /\ hostRate' = Command.data /\ step' = step + 1
  /\ hpc' = IF step = Len(Script) THEN "ok" ELSE "next"
  /\ UNCHANGED <<got, restarts, asked, stub, rx, tx, faults>>

FollowRate ==
  /\ Waiting /\ GoodReply /\ ChangesRate
  /\ Record
  /\ hostRate' = Command.data /\ hpc' = "settle"
  /\ UNCHANGED <<step, got, restarts, asked, stub, rx, tx, faults>>

(* The stub has nothing left to do but wait. *)
Idle == rx = <<>> /\ (spc = "main" \/ (spc = "frame" /\ ~TooLong /\ ~Complete))

(* A reply is waited for much longer than bytes take, but erasing may take *)
(* longer still.                                                           *)
ReplyTimeout ==
  /\ Waiting /\ ~BadHeader /\ ~ReplyComplete /\ tx = <<>>
  /\ \/ Idle /\ UNCHANGED faults
     \/ spc = "work" /\ Link!Fault("slow work")
  /\ hpc' = "failed"
  /\ UNCHANGED <<step, got, hostRate, restarts, asked, answered, stub, rx, tx>>

(* The next probe opens the port at 115200 and drains it for 0.2 s.        *)
Restart ==
  /\ hpc = "failed" /\ restarts < MaxRestarts
  /\ spc = "work" \/ Idle
  /\ restarts' = restarts + 1
  /\ hpc' = "next" /\ step' = 1 /\ got' = <<>> /\ hostRate' = FirstRate
  /\ tx' = <<>>
  /\ UNCHANGED <<asked, answered, stub, rx, faults>>

HostWork ==
  \/ CountPrompt \/ Prompted \/ SendCommand \/ TakeReplyByte
  \/ RefuseReply \/ AcceptReply \/ FollowRate \/ ReplyTimeout \/ Restart

-----------------------------------------------------------------------------
Damage(line) == \E b \in Garbled \ {Head(line)} : line' = [line EXCEPT ![1] = b]

Line ==
  /\ \/ Link!LoseByte \/ Link!LoseReply
     \/ spc \in {"work", "switch"} /\ Link!Overrun
     \/ Link!Fault("damaged byte") /\ rx # <<>> /\ Damage(rx) /\ UNCHANGED tx
     \/ Link!Fault("damaged reply") /\ tx # <<>> /\ Damage(tx) /\ UNCHANGED rx
  /\ UNCHANGED <<stub, host>>

(* Just uploaded, or still running from an earlier use. *)
Init ==
  /\ \/ spc = "boot" /\ toBoot = 4 /\ prompts = TRUE /\ hpc = "upload"
     \/ spc = "main" /\ toBoot = 0 /\ prompts \in BOOLEAN /\ hpc = "next"
  /\ frame = <<>> /\ rate = FirstRate
  /\ step = 1 /\ got = <<>> /\ hostRate = FirstRate
  /\ rx = <<>> /\ tx = <<>> /\ faults = 0 /\ restarts = 0
  /\ asked = <<>> /\ executed = <<>> /\ answered = <<>>

Next == StubWork \/ HostWork \/ Line

(* Both programs run and all timers run out; nothing makes the line fail.  *)
Spec == Init /\ [][Next]_vars /\ WF_vars(StubWork) /\ WF_vars(HostWork)

-----------------------------------------------------------------------------
(* Properties. *)

TypeOK ==
  /\ spc \in {"boot", "main", "frame", "switch", "work"}
  /\ prompts \in BOOLEAN /\ toBoot \in 0 .. 4
  /\ frame \in Seq(0 .. 255) /\ Len(frame) <= 5 + CmdBuf
  /\ hpc \in {"upload", "next", "reply", "settle", "confirm", "ok", "failed"}
  /\ rate \in Supported /\ hostRate \in Seq(0 .. 255)
  /\ step \in 1 .. Len(Script) + 1 /\ got \in Seq(0 .. 255)
  /\ rx \in Seq(0 .. 255) /\ tx \in Seq(0 .. 255)
  /\ faults \in 0 .. MaxFaults /\ restarts \in 0 .. MaxRestarts

(* s is t with some elements left out. *)
Within(s, t) ==
  LET found[n \in 0 .. Len(t)] ==
        IF n = 0 THEN 0
        ELSE LET m == found[n - 1] IN
             IF m < Len(s) /\ s[m + 1] = t[n] THEN m + 1 ELSE m
  IN found[Len(t)] = Len(s)

(* No byte to the stub was lost or damaged, no reply damaged or late, and  *)
(* what one side hears of another rate cannot start a frame.  Replies may  *)
(* have been lost, and commands may have failed.                           *)
Clear ==
  /\ \/ faults = 0
     \/ FaultKinds \cap {"lost byte", "damaged byte", "damaged reply", "slow work"} = {}
  /\ restarts = 0 \/ MAGIC \notin Garbled

(* Whatever single byte is lost or damaged, and whatever remains of a      *)
(* frame that broke off: the stub executes only commands that the probe    *)
(* sent, with the data it sent, each once and in their order.              *)
OnlySentExecuted == faults <= 1 => Within(executed, asked)

(* A success that the probe reads was the answer to a command which the    *)
(* stub executed for it, not to an earlier one.                            *)
AnsweredWereExecuted == Within(answered, executed)

(* Between two commands of one probe both sides use the same rate, also    *)
(* when something went wrong while it was changed.                         *)
RatesAgree == hpc \in {"next", "ok"} /\ step > 1 => hostRate = rate

(* On a good line every command is answered: at the latest in the second   *)
(* run of the probe, since a prompt may get into the first reply of the    *)
(* first.                                                                  *)
ServedInTheEnd == [](faults = 0) => <>(hpc = "ok")

(* The stub is back in its loop after every frame, cut short or not.       *)
StubReturns == []<>(spc = "main")

=============================================================================
