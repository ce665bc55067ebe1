----------------------------- MODULE RawWrite ------------------------------
(***************************************************************************)
(* A raw flash write as the probe performs it: the command 0x91 and then   *)
(* Probe.xmodem_send of src/w800_custom_stub_probe.py, against the stub of *)
(* RawFlash, over a serial line that loses and damages bytes.              *)
(*                                                                         *)
(* rx is the line to the stub (its FIFO first, then the bytes on the way), *)
(* tx the line back (SerialLine).                                          *)
(***************************************************************************)
EXTENDS RawFlash

CONSTANTS
  Image,        \* what the probe writes
  Target,       \* and where
  HostBlock,    \* block_size of xmodem_send
  MaxRetries,   \* max_retries, fewer than the bytes of a packet
  FifoDepth,    \* bytes the UART holds for the stub
  MaxFaults,    \* how often something may go wrong
  Conditions    \* the conditions under which the write is made

Kinds == {"lost byte", "damaged marker", "damaged packet", "lost reply",
          "lost status", "slow erase"}

ASSUME LinkAssumption ==
  /\ Image \in Seq(Byte) \ {<<>>}
  /\ HostBlock \in {SohSize, StxSize} /\ MaxRetries \in Nat \ {0}
  /\ Target \in Addr /\ Target >= WriteMin /\ Target % SectorSize = 0
  /\ Target + Len(Image) <= FlashSize
  /\ FifoDepth \in Nat \ {0}
  /\ MaxFaults \in Nat

(* kinds: what may go wrong; extra: prompts that the stub may send while   *)
(* the probe is already answering one; patient: the stub waits longer for  *)
(* a byte than the probe for a reply; goodChip: no erase or program fails. *)
ASSUME ConditionsAssumption ==
  Conditions \subseteq [kinds : SUBSET Kinds, extra : Nat,
                        patient : BOOLEAN, goodChip : BOOLEAN]

VARIABLES
  conditions,   \* one of Conditions, fixed from the start
  hpc,          \* where xmodem_send stands
  sent,         \* blocks it counts as acknowledged
  attempt,      \* transmissions of the current block, or of EOT
  faults, extra \* what went wrong and surplus prompts, so far

host == <<hpc, sent, attempt>>
stub == <<flash, size, pc, command, cursor, status, result, pkt, progress>>
linkVars == <<vars, conditions, host, faults, extra>>

Sender == INSTANCE XmodemSend

Link == INSTANCE SerialLine

(* The block's packet as damage may leave it, its marker excepted. *)
Damaged(b) ==
  LET packet == Sender!BlockPacket(b) IN
  {[i \in 1 .. Len(packet) |-> IF i \in hits THEN Link!Noise ELSE packet[i]] :
     hits \in SUBSET (2 .. Len(packet))}

(* What is sent are bytes, and the checksum tells damage.                  *)
ASSUME PacketBytes ==
  /\ Link!Noise \in Byte
  /\ \A b \in 0 .. Sender!Blocks - 1 : Sender!BlockPacket(b) \in Seq(Byte)
ASSUME DamageShows ==
  \A b \in 0 .. Sender!Blocks - 1 :
    \A copy \in Damaged(b) : Intact(copy) => copy = Sender!BlockPacket(b)

-----------------------------------------------------------------------------
(* The probe. *)

(* execute_obk_command(0x91, ...) and its reply; a lost reply ends it. *)
HostCommand ==
  /\ hpc = "idle"
  /\ StartCommand("FLASH_XMODEM_DL", Target, Len(Image))
  /\ \/ hpc' = "start" /\ UNCHANGED faults
     \/ hpc' = "failed" /\ Link!Fault("lost status")
  /\ UNCHANGED <<conditions, sent, attempt, extra>>

HostRejected ==
  /\ hpc = "idle"
  /\ RejectCommand("FLASH_XMODEM_DL", Target, Len(Image))
  /\ hpc' = "failed"
  /\ UNCHANGED <<conditions, sent, attempt, faults, extra>>

Sends == Sender!Work /\ UNCHANGED <<stub, conditions, faults, extra>>

HostWork == HostCommand \/ HostRejected \/ Sends

-----------------------------------------------------------------------------
(* Time.  Erasing may take longer than initial_wait; every other timeout   *)
(* is far longer than a byte takes, so it passes only when nothing is on   *)
(* the line and nobody is about to send.                                   *)

NoInvitation ==
  /\ rx = <<>> /\ Sender!Uninvited
  /\ \/ pc = "idle" /\ UNCHANGED faults
     \/ pc = "erase" /\ Link!Fault("slow erase")
  /\ UNCHANGED <<stub, conditions, extra>>

NoResponse ==
  /\ rx = <<>> /\ Sender!Unanswered
  /\ pc \in {"idle", "marker", "packet"} /\ ~PacketComplete
  /\ UNCHANGED <<stub, conditions, faults, extra>>

(* A read of the stub times out; the code does not fix which of the two     *)
(* sides gives up first.                                                   *)
StubGivesUp ==
  /\ ReadTimeout
  /\ ~Sender!AnswerDue /\ (conditions.patient => hpc \in {"ok", "failed"})
  /\ UNCHANGED <<conditions, host, faults, extra>>

(* The probe may be late: its answer is not there when the next prompt is  *)
(* due, and it then finds one prompt more than it needs.                   *)
PromptAgain ==
  /\ PromptUnanswered
  /\ IF Sender!AnswerDue
     THEN extra < conditions.extra /\ extra' = extra + 1
     ELSE UNCHANGED extra
  /\ UNCHANGED <<conditions, host, faults>>

Timeout == NoInvitation \/ NoResponse \/ StubGivesUp \/ PromptAgain

-----------------------------------------------------------------------------
(* The line.  While the stub erases or programs it empties no FIFO. *)

Line ==
  /\ \/ Link!LoseByte \/ Link!LoseReply
     \/ Link!DamageByte(IF pc = "packet" THEN "damaged packet"
                        ELSE "damaged marker")
     \/ pc \in {"erase", "program"} /\ Link!Overrun
  /\ UNCHANGED <<stub, conditions, host, extra>>

-----------------------------------------------------------------------------
LinkInit ==
  /\ Init /\ conditions \in Conditions
  /\ hpc = "idle" /\ sent = 0 /\ attempt = 0
  /\ faults = 0 /\ extra = 0

(* The chip fails where the code reads back what it erased or programmed. *)
StubRuns ==
  /\ StubWork
  /\ conditions.goodChip => ~(pc \in {"erase", "program"} /\ result' = "failed")
  /\ UNCHANGED <<conditions, host, faults, extra>>

LinkNext == StubRuns \/ HostWork \/ Timeout \/ Line

LinkSafety == LinkInit /\ [][LinkNext]_linkVars

(* Both programs keep running and every timer runs out; nothing makes the  *)
(* line fail.                                                              *)
LinkSpec ==
  /\ LinkSafety
  /\ WF_linkVars(StubRuns)
  /\ WF_linkVars(HostWork)
  /\ WF_linkVars(Timeout)

-----------------------------------------------------------------------------
(* Properties. *)

InPlace == \A i \in 1 .. Len(Image) : flash[Target + i - 1] = Image[i]

(* The stub takes the blocks of the image each once and in their order,    *)
(* whatever the line loses, damages or makes the probe repeat.             *)
TakesImageInOrder ==
  pc # "erase" /\ op = "FLASH_XMODEM_DL" =>
    \A i \in 1 .. Len(Image) :
      Target + i - 1 < off + Filled => accepted[Target + i - 1] = Image[i]

(* When the stub ends the transfer with ACK the image is in the flash. *)
AcceptedMeansWritten == hpc # "idle" /\ result = "done" => InPlace

(* When xmodem_send returns normally the image is in the flash, as long as *)
(* at most one thing went wrong: a byte, a reply or a prompt.  Each copy   *)
(* of a block that the stub has already taken is acknowledged once more,   *)
(* and two such answers carry the probe past the last block and EOT while  *)
(* the stub has yet to see them.                                           *)
SentMeansWritten == hpc = "ok" /\ faults + extra <= 1 => InPlace

(* xmodem_send always comes back, and the stub always returns to its       *)
(* command loop.                                                           *)
BothReturn == <>[](hpc \in {"ok", "failed"} /\ pc = "idle")

(* What the retries are made for: damaged packets and lost replies. *)
Repairable ==
  /\ conditions.kinds \subseteq {"damaged packet", "lost reply"} /\ conditions.extra = 0
  /\ conditions.patient /\ conditions.goodChip

(* No byte is lost, no marker damaged and no prompt is one too many: every *)
(* packet arrives as a whole, damaged or not.                              *)
WholePackets ==
  /\ conditions.kinds \cap {"lost byte", "damaged marker"} = {}
  /\ conditions.extra = 0

(* A write survives what the protocol is made for: damaged packets and     *)
(* lost prompts and replies, fewer than the retries, are made good, and a  *)
(* block whose ACK was lost is not written twice.  (The probe itself fails *)
(* when the reply to EOT is the one that is lost.)                         *)
WriteLands == Repairable /\ size # 0 => <>(result = "done" /\ InPlace)

=============================================================================
