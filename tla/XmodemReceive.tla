--------------------------- MODULE XmodemReceive ---------------------------
(***************************************************************************)
(* Probe.xmodem_receive of src/w800_custom_stub_probe.py, the receiver of  *)
(* every read.  up is the line to the stub, down the line to the probe.    *)
(* When its deadline passes depends on the stub it talks to; the sessions  *)
(* that use this module say so.                                            *)
(***************************************************************************)
EXTENDS Xmodem

VARIABLES
  expectedLen,  \* the argument expected_len, 0 for None; it never changes
  hpc,          \* where xmodem_receive stands
  packet,       \* marker and the packet bytes read so far
  output,       \* the payloads accepted
  expected,     \* expected_block
  up, down

Gets(bytes) == down # <<>> /\ Head(down) \in bytes /\ down' = Tail(down)
Answer(byte) == up' = Append(up, byte)

AskOnce ==
  /\ hpc = "ask" /\ Answer(CRC_MODE) /\ hpc' = "marker"
  /\ UNCHANGED <<packet, output, expected, down>>

TakeMarker ==
  /\ hpc = "marker" /\ Gets({SOH, STX})
  /\ packet' = <<Head(down)>> /\ hpc' = "packet"
  /\ UNCHANGED <<output, expected, up>>

TakeEot ==
  /\ hpc = "marker" /\ Gets({EOT}) /\ Answer(ACK)
  /\ hpc' = IF Len(output) < expectedLen THEN "failed" ELSE "ok"
  /\ UNCHANGED <<packet, output, expected>>

TakeCancel ==
  /\ hpc = "marker" /\ Gets({CAN}) /\ hpc' = "failed"
  /\ UNCHANGED <<packet, output, expected, up>>

SkipByte ==
  /\ hpc = "marker" /\ down # <<>> /\ Head(down) \notin {SOH, STX, EOT, CAN}
  /\ down' = Tail(down)
  /\ UNCHANGED <<hpc, packet, output, expected, up>>

PacketComplete == hpc = "packet" /\ Len(packet) = PacketLen(packet[1])

TakeByte ==
  /\ hpc = "packet" /\ ~PacketComplete /\ down # <<>>
  /\ packet' = Append(packet, Head(down)) /\ down' = Tail(down)
  /\ UNCHANGED <<hpc, output, expected, up>>

NextMarker == hpc' = "marker" /\ packet' = <<>> /\ UNCHANGED down

RefuseDamaged ==
  /\ PacketComplete /\ ~Intact(packet) /\ Answer(NAK) /\ NextMarker
  /\ UNCHANGED <<output, expected>>

(* Mutant: a repeated block is taken again. *)
TakeAnyBlock ==
  /\ PacketComplete /\ Intact(packet)
  /\ packet[2] \in {expected, Previous(expected)}
  /\ output' = output \o Payload(packet) /\ expected' = Following(expected)
  /\ Answer(ACK) /\ NextMarker

TakeBlock ==
  /\ PacketComplete /\ Intact(packet) /\ packet[2] = expected
  /\ output' = output \o Payload(packet) /\ expected' = Following(expected)
  /\ Answer(ACK) /\ NextMarker

(* Mutant: a repeated block is refused. *)
RefuseRepeated ==
  /\ PacketComplete /\ Intact(packet) /\ packet[2] = Previous(expected)
  /\ Answer(NAK) /\ NextMarker
  /\ UNCHANGED <<output, expected>>

TakeRepeated ==
  /\ PacketComplete /\ Intact(packet) /\ packet[2] = Previous(expected)
  /\ Answer(ACK) /\ NextMarker
  /\ UNCHANGED <<output, expected>>

RefuseOutOfOrder ==
  /\ PacketComplete /\ Intact(packet)
  /\ packet[2] \notin {expected, Previous(expected)}
  /\ up' = Append(Append(up, CAN), CAN)
  /\ hpc' = "failed" /\ packet' = <<>>
  /\ UNCHANGED <<output, expected, down>>

Work ==
  \/ AskOnce \/ TakeMarker \/ TakeEot \/ TakeCancel \/ SkipByte \/ TakeByte
  \/ RefuseDamaged \/ TakeBlock \/ TakeRepeated \/ RefuseOutOfOrder

(* There is something to read, or an answer to give. *)
AnswerDue ==
  hpc = "ask" \/ PacketComplete
  \/ (hpc \in {"marker", "packet"} /\ down # <<>>)

=============================================================================
