---------------------------- MODULE XmodemRead -----------------------------
(***************************************************************************)
(* A read once the stub has answered the command: xmodem_send_memory       *)
(* (FLASH_XMODEM_UL 0x92, RAW_XMODEM_UL 0x98) or xmodem_send_compressed_   *)
(* memory (FLASH_XMODEM_UL_Z 0x96) of src/src/w800_raw_stub.c against      *)
(* Probe.xmodem_receive of src/w800_custom_stub_probe.py, over a line that *)
(* loses and damages bytes.                                                *)
(*                                                                         *)
(* Of the compressor only this matters: it delivers the stream in pieces   *)
(* of any length, and fails only when a piece could not be sent.           *)
(*                                                                         *)
(* up is the line to the stub, down the line to the probe.                 *)
(*                                                                         *)
(* The checksum mode that NAK selects closes a packet with one byte where  *)
(* the probe reads the two of a CRC.  A CRC is one element of a packet     *)
(* here and that byte none, so that the byte which follows completes the   *)
(* packet for the probe, as on the wire.                                   *)
(***************************************************************************)
EXTENDS Xmodem

CONSTANTS
  Image,        \* the bytes of the range, or of the stream it deflates to
  MaxStarts,    \* waits for the receiver, 100 in the code
  MaxBlock,     \* XMODEM_MAX_RETRIES
  MaxEot,       \* transmissions of EOT, 10 in the code
  MaxFaults,    \* how often something may go wrong
  Conditions    \* the conditions under which the read is made

Kinds == {"lost byte", "damaged marker", "damaged packet",
          "lost request", "damaged request", "lost reply", "damaged reply"}

ASSUME ReadAssumption ==
  /\ Image \in Seq(0 .. 255) \ {<<>>} /\ SohSize <= StxSize
  /\ MaxStarts \in Nat \ {0} /\ MaxBlock \in Nat \ {0} /\ MaxEot \in Nat \ {0}
  /\ MaxFaults \in Nat

(* kinds: what may go wrong; noise: what a damaged byte may turn into;     *)
(* late: replies that may come after the stub has stopped waiting;         *)
(* patient: the probe outwaits all that the stub tries.                    *)
ASSUME ConditionsAssumption ==
  Conditions \subseteq [kinds : SUBSET Kinds, noise : SUBSET (0 .. 255),
                        late : Nat, patient : BOOLEAN]

(* A packet of the range in CRC mode. *)
PacketAt(from, number) ==
  Packet(STX, number, [i \in 1 .. StxSize |->
                         IF from + i <= Len(Image) THEN Image[from + i]
                         ELSE 255])

(* What damage may leave of it, its marker excepted. *)
Damaged(from, number, noise) ==
  LET p == PacketAt(from, number) IN
  UNION {{[i \in 1 .. Len(p) |-> IF i \in hits THEN hit[i] ELSE p[i]] :
            hit \in [hits -> noise]} : hits \in SUBSET (2 .. Len(p))}

(* The checksum tells damage. *)
ASSUME DamageShows ==
  \A c \in Conditions, from \in 0 .. Len(Image) - 1,
     number \in 0 .. NumberMod - 1 :
    \A copy \in Damaged(from, number, c.noise) :
      Intact(copy) => copy = PacketAt(from, number)

VARIABLES
  conditions,   \* one of Conditions, fixed from the start
  source,       \* "memory" (0x92, 0x98) or "deflate" (0x96), fixed as well
  pc,           \* where the stub stands
  useCrc,       \* use_crc and use_1k, which are always equal
  off, block,   \* bytes acknowledged, and the block number
  staged, made, \* 0x96: bytes in the packet (data_len), and bytes that the
                \* compressor has delivered
  tries,        \* tries or retry of the loop it is in
  result,       \* how it returned
  hpc,          \* where xmodem_receive stands
  packet,       \* marker and the packet bytes read so far
  output,       \* the payloads accepted
  expected,     \* expected_block
  up, down,     \* bytes on the way to the stub, and to the probe
  faults, late  \* what went wrong and late replies, so far

stub == <<pc, useCrc, off, block, staged, made, tries, result>>
host == <<hpc, packet, output, expected>>
given == <<conditions, source>>
vars == <<given, stub, host, up, down, faults, late>>

Init ==
  /\ conditions \in Conditions /\ source \in {"memory", "deflate"}
  /\ pc = "start" /\ useCrc = TRUE /\ off = 0 /\ block = 1
  /\ staged = 0 /\ made = 0
  /\ tries = 0 /\ result = "none"
  /\ hpc = "ask" /\ packet = <<>> /\ output = <<>> /\ expected = 1
  /\ up = <<>> /\ down = <<>>
  /\ faults = 0 /\ late = 0

-----------------------------------------------------------------------------
(* The stub. *)

Hears(bytes) == up # <<>> /\ Head(up) \in bytes /\ up' = Tail(up)
HearsOther(bytes) == up # <<>> /\ Head(up) \notin bytes /\ up' = Tail(up)
Say(byte) == down' = Append(down, byte)
SayCancel == down' = Append(Append(down, CAN), CAN)
Return(how) ==
  /\ pc' = "idle" /\ result' = how
  /\ UNCHANGED <<useCrc, off, block, staged, made, tries>>

(* 0x96 answers a CAN with two of its own, 0x92 and 0x98 do not. *)
HeedCancel ==
  /\ Return("failed")
  /\ IF source = "deflate" THEN SayCancel ELSE UNCHANGED down

(* After the start and after each block 0x96 goes on compressing. *)
Continue == IF source = "deflate" THEN "fill" ELSE "send"

ReceiverReady ==
  /\ pc = "start" /\ tries < MaxStarts /\ Hears({CRC_MODE, NAK})
  /\ useCrc' = (Head(up) = CRC_MODE) /\ pc' = Continue /\ tries' = 0
  /\ UNCHANGED <<off, block, staged, made, result, down>>

ReceiverCancels ==
  /\ pc = "start" /\ tries < MaxStarts /\ Hears({CAN}) /\ HeedCancel

(* Any other byte uses up one of the waits. *)
ReceiverUnclear ==
  /\ pc = "start" /\ tries < MaxStarts /\ HearsOther({CRC_MODE, NAK, CAN})
  /\ tries' = tries + 1
  /\ UNCHANGED <<pc, useCrc, off, block, staged, made, result, down>>

BlockSize == IF useCrc THEN StxSize ELSE SohSize

Smaller(m, n) == IF m < n THEN m ELSE n

(* xmodem_tx_put_buffer: a piece goes into the packet as far as it fits,   *)
(* and a full packet is sent.                                              *)
FillPacket ==
  /\ pc = "fill" /\ off + staged < made
  /\ staged' = Smaller(BlockSize, made - off)
  /\ pc' = IF staged' = BlockSize THEN "send" ELSE "fill"
  /\ UNCHANGED <<useCrc, off, block, made, tries, result, up, down>>

NextPiece ==
  /\ pc = "fill" /\ off + staged = made /\ made < Len(Image)
  /\ made' \in made + 1 .. Len(Image)
  /\ UNCHANGED <<pc, useCrc, off, block, staged, tries, result, up, down>>

(* Mutant: a packet that is not full is forgotten. *)
StreamEndsFull ==
  /\ pc = "fill" /\ off + staged = made /\ made = Len(Image)
  /\ pc' = "send" /\ staged' = 0
  /\ UNCHANGED <<useCrc, off, block, made, tries, result, up, down>>

(* xmodem_tx_finish: what is left goes into a last packet, if anything is. *)
StreamEnds ==
  /\ pc = "fill" /\ off + staged = made /\ made = Len(Image)
  /\ pc' = "send"
  /\ UNCHANGED <<useCrc, off, block, staged, made, tries, result, up, down>>

Chunk == IF source = "deflate" THEN staged
         ELSE Smaller(BlockSize, Len(Image) - off)

(* The range from off on, filled up with 0xFF to a block. *)
BlockData == [i \in 1 .. BlockSize |->
                IF i <= Chunk THEN Image[off + i] ELSE 255]

BlockPacket ==
  IF useCrc THEN Packet(STX, block, BlockData)
            ELSE <<SOH, block, Inverse(block)>> \o BlockData

SendBlock ==
  /\ pc = "send" /\ Chunk # 0 /\ tries < MaxBlock
  /\ down' = down \o BlockPacket
  /\ tries' = tries + 1 /\ pc' = "reply"
  /\ UNCHANGED <<useCrc, off, block, staged, made, result, up>>

Advance ==
  /\ off' = off + Chunk /\ staged' = 0 /\ tries' = 0 /\ pc' = Continue

(* Mutant: the block number outgrows its byte. *)
BlockAckedWide ==
  /\ pc = "reply" /\ Hears({ACK}) /\ Advance /\ block' = block + 1
  /\ UNCHANGED <<useCrc, made, result, down>>

(* Mutant: any answer counts as ACK. *)
BlockAnswered ==
  /\ pc = "reply" /\ HearsOther({CAN}) /\ Advance /\ block' = Following(block)
  /\ UNCHANGED <<useCrc, made, result, down>>

BlockAcked ==
  /\ pc = "reply" /\ Hears({ACK}) /\ Advance /\ block' = Following(block)
  /\ UNCHANGED <<useCrc, made, result, down>>

BlockCancelled ==
  /\ pc = "reply" /\ Hears({CAN}) /\ HeedCancel

SendEot ==
  /\ pc = "send" /\ Chunk = 0 /\ tries < MaxEot
  /\ Say(EOT)
  /\ tries' = tries + 1 /\ pc' = "eot"
  /\ UNCHANGED <<useCrc, off, block, staged, made, result, up>>

EotAcked ==
  /\ pc = "eot" /\ Hears({ACK}) /\ Return("done")
  /\ UNCHANGED down

(* What is neither ACK nor CAN makes the stub send again, and CAN does not *)
(* end the EOT loop either.                                                *)
Refused ==
  /\ \/ pc = "reply" /\ HearsOther({ACK, CAN})
     \/ pc = "eot" /\ HearsOther({ACK})
  /\ pc' = "send"
  /\ UNCHANGED <<useCrc, off, block, staged, made, tries, result, down>>

(* Nobody asked, or nobody acknowledged a block or EOT. *)
GivesUp ==
  /\ \/ pc = "start" /\ tries >= MaxStarts
     \/ pc = "send" /\ tries >= (IF Chunk # 0 THEN MaxBlock ELSE MaxEot)
  /\ SayCancel /\ Return("failed")
  /\ UNCHANGED up

(* main drops what does not start a frame. *)
DropByte == pc = "idle" /\ HearsOther({}) /\ UNCHANGED <<stub, down>>

StubWork ==
  /\ \/ ReceiverReady \/ ReceiverCancels \/ ReceiverUnclear
     \/ FillPacket \/ NextPiece \/ StreamEnds
     \/ SendBlock \/ BlockAcked \/ BlockCancelled
     \/ SendEot \/ EotAcked \/ Refused \/ GivesUp \/ DropByte
  /\ UNCHANGED <<given, host, faults, late>>

Probe == INSTANCE XmodemReceive WITH
           expectedLen <- IF source = "deflate" THEN 0 ELSE Len(Image)

HostWork == Probe!Work /\ UNCHANGED <<given, stub, faults, late>>

-----------------------------------------------------------------------------
(* Time. *)

(* A wait of the stub runs out. *)
StubTimeout ==
  /\ up = <<>>
  /\ IF Probe!AnswerDue THEN late < conditions.late /\ late' = late + 1 ELSE UNCHANGED late
  /\ \/ pc = "start" /\ tries < MaxStarts
        /\ tries' = tries + 1 /\ UNCHANGED pc
     \/ pc \in {"reply", "eot"} /\ pc' = "send" /\ UNCHANGED tries
  /\ UNCHANGED <<given, useCrc, off, block, staged, made, result, host, up,
                 down, faults>>

(* Mutant: no deadline between packets. *)
PacketTimeout ==
  /\ hpc = "packet" /\ ~Probe!PacketComplete /\ down = <<>>
  /\ conditions.patient => pc = "idle" /\ down = <<>>
  /\ hpc' = "failed"
  /\ UNCHANGED <<given, stub, packet, output, expected, up, down, faults, late>>

(* The probe's deadline moves with every block it acknowledges, not with   *)
(* what it refuses or skips, so it may pass while bytes are arriving.      *)
HostTimeout ==
  /\ hpc = "marker" \/ (hpc = "packet" /\ ~Probe!PacketComplete /\ down = <<>>)
  /\ conditions.patient => pc = "idle" /\ down = <<>>
  /\ hpc' = "failed"
  /\ UNCHANGED <<given, stub, packet, output, expected, up, down, faults, late>>

-----------------------------------------------------------------------------
(* The line. *)

Fault(kind) ==
  /\ kind \in conditions.kinds /\ faults < MaxFaults
  /\ faults' = faults + 1
  /\ UNCHANGED <<given, stub, host, late>>

LoseByte ==
  /\ Fault("lost byte") /\ down # <<>> /\ down' = Tail(down)
  /\ UNCHANGED up

DamageByte ==
  /\ Fault(IF hpc = "packet" THEN "damaged packet" ELSE "damaged marker")
  /\ down # <<>>
  /\ \E n \in conditions.noise \ {Head(down)} : down' = [down EXCEPT ![1] = n]
  /\ UNCHANGED up

LoseReply ==
  /\ Fault(IF pc = "start" THEN "lost request" ELSE "lost reply")
  /\ up # <<>> /\ up' = Tail(up)
  /\ UNCHANGED down

DamageReply ==
  /\ Fault(IF pc = "start" THEN "damaged request" ELSE "damaged reply")
  /\ up # <<>>
  /\ \E n \in conditions.noise \ {Head(up)} : up' = [up EXCEPT ![1] = n]
  /\ UNCHANGED down

Line == LoseByte \/ DamageByte \/ LoseReply \/ DamageReply

Next == StubWork \/ HostWork \/ StubTimeout \/ HostTimeout \/ Line

(* Both programs keep running and every timer runs out. *)
Spec ==
  /\ Init /\ [][Next]_vars
  /\ WF_vars(StubWork) /\ WF_vars(HostWork)
  /\ WF_vars(StubTimeout) /\ WF_vars(HostTimeout)

-----------------------------------------------------------------------------
(* Properties. *)

TypeOK ==
  /\ conditions \in Conditions /\ source \in {"memory", "deflate"}
  /\ pc \in {"start", "fill", "send", "reply", "eot", "idle"}
  /\ useCrc \in BOOLEAN /\ off \in 0 .. Len(Image) /\ block \in 0 .. NumberMod - 1
  /\ staged \in 0 .. StxSize /\ made \in 0 .. Len(Image)
  /\ tries \in Nat
  /\ pc = "start" => tries <= MaxStarts
  /\ pc = "reply" => tries <= MaxBlock
  /\ pc = "eot" => tries <= MaxEot
  /\ result \in {"none", "done", "failed"}
  /\ hpc \in {"ask", "marker", "packet", "ok", "failed"}
  /\ expected \in 0 .. NumberMod - 1
  /\ faults \in 0 .. MaxFaults /\ late \in 0 .. conditions.late

(* Whatever the line does, the probe takes each byte of the range once and *)
(* in its place; past its end it has the filling of the last block.        *)
TakesRangeInOrder ==
  \A i \in 1 .. Len(output) :
    output[i] = IF i <= Len(Image) THEN Image[i] ELSE 255

(* When the stub sees EOT acknowledged the probe has the whole range, as   *)
(* long as at most one thing went wrong.  A late reply and a further fault *)
(* leave it an ACK ahead of the probe, and it then ends a transfer whose   *)
(* last block the probe has refused.                                       *)
DoneMeansRead ==
  result = "done" /\ faults + late <= 1 => Len(output) >= Len(Image)

(* Both sides come back from every transfer.                               *)
BothReturn == <>[](pc = "idle" /\ hpc \in {"ok", "failed"})

(* What the retries are made for. *)
Repairable ==
  /\ conditions.kinds \subseteq {"damaged packet", "lost reply", "damaged reply"}
  /\ conditions.noise \cap {CAN, EOT, ACK} = {}
  /\ conditions.late = 0 /\ conditions.patient

(* No byte to the probe is lost, no marker damaged, no reply turned into an *)
(* ACK or the request into a NAK, and none comes late: every packet, damaged *)
(* or not, arrives as a whole, one at a time.                              *)
WholePackets ==
  /\ conditions.kinds \cap {"lost byte", "damaged marker"} = {}
  /\ ACK \in conditions.noise => "damaged reply" \notin conditions.kinds
  /\ NAK \in conditions.noise => "damaged request" \notin conditions.kinds
  /\ conditions.late = 0

(* Damaged packets and lost replies, fewer than the retries, do not keep a *)
(* patient probe from getting the range.                                   *)
ReadLands == Repairable => <>(hpc = "ok" /\ Len(output) >= Len(Image))

=============================================================================
