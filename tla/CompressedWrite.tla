-------------------------- MODULE CompressedWrite --------------------------
(***************************************************************************)
(* A compressed flash write as the probe performs it: the command 0x97 and *)
(* then Probe.xmodem_send of the compressed image, against the stub of     *)
(* CompressedFlash, over a serial line that loses and damages bytes.       *)
(***************************************************************************)
EXTENDS CompressedFlash

CONSTANTS
  Image,        \* the raw DEFLATE stream that the probe sends
  Target,       \* where what it stands for is to be written
  HostBlock,    \* block_size of xmodem_send
  MaxRetries,   \* max_retries, fewer than the bytes of a packet
  FifoDepth,    \* bytes the UART holds for the stub
  MaxFaults,    \* how often something may go wrong
  Conditions    \* the conditions under which the write is made

Kinds == {"lost byte", "damaged marker", "damaged packet", "lost reply",
          "lost status", "slow flash"}

(* The image is a whole stream: it ends with, and only with, its last byte. *)
ASSUME ImageAssumption ==
  /\ Image \in Seq(Byte \ Invalid) \ {<<>>}
  /\ \A i \in 1 .. Len(Image) : (Image[i] \in Ends) = (i = Len(Image))

Plain == Inflated(Image)

ASSUME LinkAssumption ==
  /\ HostBlock \in {SohSize, StxSize} /\ MaxRetries \in Nat \ {0}
  /\ Target \in Addr /\ Target >= WriteMin /\ Target % SectorSize = 0
  /\ Target + Len(Plain) <= FlashSize
  /\ FifoDepth \in Nat \ {0}
  /\ MaxFaults \in Nat

(* kinds: what may go wrong; extra: prompts that the stub may send while   *)
(* the probe is already answering one; patient: the stub waits longer for  *)
(* a byte than the probe for a reply; goodChip: no erase or program fails. *)
ASSUME ConditionsAssumption ==
  Conditions \subseteq [kinds : SUBSET Kinds, extra : Nat,
                        patient : BOOLEAN, goodChip : BOOLEAN]

VARIABLES
  conditions,   \* one of Conditions, fixed from the start
  hpc,          \* where xmodem_send stands
  sent,         \* blocks it counts as acknowledged
  attempt,      \* transmissions of the current block, or of EOT
  faults, extra \* what went wrong and surplus prompts, so far

host == <<hpc, sent, attempt>>
stub == <<flash, size, pc, command, status, result, reception, decoder,
          writer>>
linkVars == <<vars, conditions, host, faults, extra>>

Sender == INSTANCE XmodemSend
Link == INSTANCE SerialLine

(* The block's packet as damage may leave it, its marker excepted. *)
Damaged(b) ==
  LET packet == Sender!BlockPacket(b) IN
  {[i \in 1 .. Len(packet) |-> IF i \in hits THEN Link!Noise ELSE packet[i]] :
     hits \in SUBSET (2 .. Len(packet))}

(* What is sent are bytes, and the checksum tells damage.                  *)
ASSUME PacketBytes ==
  /\ Link!Noise \in Byte
  /\ \A b \in 0 .. Sender!Blocks - 1 : Sender!BlockPacket(b) \in Seq(Byte)
ASSUME DamageShows ==
  \A b \in 0 .. Sender!Blocks - 1 :
    \A copy \in Damaged(b) : Intact(copy) => copy = Sender!BlockPacket(b)

-----------------------------------------------------------------------------
(* The probe. *)

(* execute_obk_command(0x97, ...) and its reply; a lost reply ends it. *)
HostCommand ==
  /\ hpc = "idle"
  /\ StartCommand(Target, Len(Plain))
  /\ \/ hpc' = "start" /\ UNCHANGED faults
     \/ hpc' = "failed" /\ Link!Fault("lost status")
  /\ UNCHANGED <<conditions, sent, attempt, extra>>

HostRejected ==
  /\ hpc = "idle"
  /\ RejectCommand(Target, Len(Plain))
  /\ hpc' = "failed"
  /\ UNCHANGED <<conditions, sent, attempt, faults, extra>>

Sends == Sender!Work /\ UNCHANGED <<stub, conditions, faults, extra>>

HostWork == HostCommand \/ HostRejected \/ Sends

-----------------------------------------------------------------------------
(* Time.  A packet is answered when its output is in the flash, which may  *)
(* take longer than response_timeout; every other timeout is far longer    *)
(* than a byte takes.                                                      *)

Busy == pc \in {"inflate", "put", "flush", "last"}

NoInvitation ==
  /\ rx = <<>> /\ Sender!Uninvited
  /\ pc = "idle"
  /\ UNCHANGED <<stub, conditions, faults, extra>>

NoResponse ==
  /\ rx = <<>> /\ Sender!Unanswered
  /\ \/ pc \in {"idle", "marker", "packet", "finish"} /\ ~PacketComplete
        /\ UNCHANGED faults
     \/ Busy /\ Link!Fault("slow flash")
  /\ UNCHANGED <<stub, conditions, extra>>

(* As in RawWrite. *)
StubGivesUp ==
  /\ ReadTimeout
  /\ ~Sender!AnswerDue /\ (conditions.patient => hpc \in {"ok", "failed"})
  /\ UNCHANGED <<conditions, host, faults, extra>>

PromptAgain ==
  /\ PromptUnanswered
  /\ IF Sender!AnswerDue
     THEN extra < conditions.extra /\ extra' = extra + 1
     ELSE UNCHANGED extra
  /\ UNCHANGED <<conditions, host, faults>>

Timeout == NoInvitation \/ NoResponse \/ StubGivesUp \/ PromptAgain

-----------------------------------------------------------------------------
(* The line. *)

Line ==
  /\ \/ Link!LoseByte \/ Link!LoseReply
     \/ Link!DamageByte(IF pc = "packet" THEN "damaged packet"
                        ELSE "damaged marker")
     \/ Busy /\ Link!Overrun
  /\ UNCHANGED <<stub, conditions, host, extra>>

-----------------------------------------------------------------------------
LinkInit ==
  /\ Init /\ conditions \in Conditions
  /\ hpc = "idle" /\ sent = 0 /\ attempt = 0
  /\ faults = 0 /\ extra = 0

(* The chip fails where the code reads back what it erased or programmed. *)
StubRuns ==
  /\ StubWork
  /\ conditions.goodChip => ~(pc \in {"put", "flush", "last"} /\ result' = "failed")
  /\ UNCHANGED <<conditions, host, faults, extra>>

LinkNext == StubRuns \/ HostWork \/ Timeout \/ Line

LinkSafety == LinkInit /\ [][LinkNext]_linkVars

(* As in RawWrite: both programs keep running and every timer runs out. *)
LinkSpec ==
  /\ LinkSafety
  /\ WF_linkVars(StubRuns)
  /\ WF_linkVars(HostWork)
  /\ WF_linkVars(Timeout)

-----------------------------------------------------------------------------
(* Properties. *)

InPlace == \A i \in 1 .. Len(Plain) : flash[Target + i - 1] = Plain[i]

(* What the page writer takes is a prefix of what the stream was made      *)
(* from, wherever packets end and the dictionary wraps, and whatever the   *)
(* line loses, damages or makes the probe repeat.                          *)
OutputIsPrefix == accepted = SubSeq(Plain, 1, written)

(* When the stub ends the write with ACK, the plain image is in the flash. *)
AcceptedMeansWritten == hpc # "idle" /\ result = "done" => InPlace

(* When xmodem_send returns normally the plain image is in the flash, as   *)
(* long as at most one thing went wrong.  The ACK that is held back until  *)
(* the output is in the flash does not protect more than RawWrite's: a     *)
(* packet that the probe repeats meanwhile is acknowledged again.          *)
SentMeansWritten == hpc = "ok" /\ faults + extra <= 1 => InPlace

(* xmodem_send always comes back, and the stub always returns to its       *)
(* command loop.                                                           *)
BothReturn == <>[](hpc \in {"ok", "failed"} /\ pc = "idle")

(* What the retries are made for: damaged packets. *)
Repairable ==
  /\ conditions.kinds \subseteq {"damaged packet"} /\ conditions.extra = 0
  /\ conditions.patient /\ conditions.goodChip

(* No byte is lost, no marker damaged and no prompt is one too many, and   *)
(* the probe waits until the flash has what a packet stands for: every     *)
(* packet arrives as a whole, damaged or not, and one at a time.           *)
OneAtATime ==
  /\ conditions.kinds \cap {"lost byte", "damaged marker", "slow flash"} = {}
  /\ conditions.extra = 0

(* A whole stream of the announced length, sent to a good chip over a line *)
(* that damages packets no more often than the probe repeats them, is      *)
(* written and reported as done.                                           *)
StreamLands == Repairable /\ size # 0 => <>(result = "done" /\ InPlace)

=============================================================================
