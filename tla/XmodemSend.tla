---------------------------- MODULE XmodemSend -----------------------------
(***************************************************************************)
(* Probe.xmodem_send of src/w800_custom_stub_probe.py, the sender of every *)
(* write.  rx is the line to the stub, tx the line back.                   *)
(*                                                                         *)
(* When its timeouts pass depends on the stub it talks to; the sessions    *)
(* that use this module say so (NoInvitation and NoResponse).              *)
(***************************************************************************)
EXTENDS Xmodem

CONSTANTS
  Image,        \* what is sent
  HostBlock,    \* block_size of xmodem_send, SohSize or StxSize
  MaxRetries    \* max_retries

VARIABLES
  hpc,          \* where xmodem_send stands
  sent,         \* blocks it counts as acknowledged
  attempt,      \* transmissions of the current block, or of EOT
  rx, tx

Blocks == (Len(Image) + HostBlock - 1) \div HostBlock

(* The packet of block b (from 0), padded with 0xFF. *)
BlockPacket(b) ==
  Packet(IF HostBlock = StxSize THEN STX ELSE SOH,
         (b + 1) % NumberMod,
         [i \in 1 .. HostBlock |->
            IF b * HostBlock + i <= Len(Image) THEN Image[b * HostBlock + i]
            ELSE 255])

(* What is being sent: the current block, and EOT after the last one. *)
Current == IF sent < Blocks THEN BlockPacket(sent) ELSE <<EOT>>

Reply == tx # <<>> /\ tx' = Tail(tx)

(* wait_for_any skips every byte that it does not wait for. *)
SkipReply ==
  /\ Reply
  /\ \/ hpc = "start" /\ Head(tx) \notin {CRC_MODE, NAK}
     \/ hpc = "await" /\ Head(tx) \notin {ACK, NAK, CAN, CRC_MODE}
  /\ UNCHANGED <<rx, hpc, sent, attempt>>

(* The stub never opens with NAK, so the checksum mode is not reached. *)
Invited ==
  /\ hpc = "start" /\ Reply /\ Head(tx) = CRC_MODE
  /\ hpc' = "send"
  /\ UNCHANGED <<rx, sent, attempt>>

Transmit ==
  /\ hpc = "send" /\ attempt < MaxRetries
  /\ rx' = rx \o Current
  /\ attempt' = attempt + 1
  /\ hpc' = "await"
  /\ UNCHANGED <<tx, sent>>

GiveUp ==
  /\ hpc = "send" /\ attempt >= MaxRetries
  /\ hpc' = "failed"
  /\ UNCHANGED <<rx, tx, sent, attempt>>

Acknowledged ==
  /\ hpc = "await" /\ Reply /\ Head(tx) = ACK
  /\ IF sent < Blocks
     THEN sent' = sent + 1 /\ attempt' = 0 /\ hpc' = "send"
     ELSE hpc' = "ok" /\ UNCHANGED <<sent, attempt>>
  /\ UNCHANGED rx

(* NAK, and a prompt as well, makes the probe send again. *)
AskedAgain ==
  /\ hpc = "await" /\ Reply /\ Head(tx) \in {NAK, CRC_MODE}
  /\ hpc' = "send"
  /\ UNCHANGED <<rx, sent, attempt>>

(* The rest of what the stub has sent is drained. *)
Cancelled ==
  /\ hpc = "await" /\ tx # <<>> /\ Head(tx) = CAN
  /\ hpc' = "failed" /\ tx' = <<>>
  /\ UNCHANGED <<rx, sent, attempt>>

(* Mutant: a timeout starts counting the transmissions anew. *)
UnansweredForgetting ==
  /\ hpc = "await" /\ tx = <<>>
  /\ hpc' = "send" /\ attempt' = 0
  /\ UNCHANGED <<rx, tx, sent>>

Unanswered ==
  /\ hpc = "await" /\ tx = <<>>
  /\ hpc' = "send"
  /\ UNCHANGED <<rx, tx, sent, attempt>>

Uninvited ==
  /\ hpc = "start" /\ tx = <<>>
  /\ hpc' = "failed"
  /\ UNCHANGED <<rx, tx, sent, attempt>>

Work ==
  \/ SkipReply \/ Invited \/ Transmit \/ GiveUp
  \/ Acknowledged \/ AskedAgain \/ Cancelled

(* There is something to read that will be answered, or an answer is due.  *)
AnswerDue == hpc = "send" \/ (hpc \in {"start", "await"} /\ tx # <<>>)

=============================================================================
