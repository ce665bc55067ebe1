-------------------------- MODULE XmodemReadProofs --------------------------
(***************************************************************************)
(* What holds of a read for every range or stream, every way in which the  *)
(* compressor delivers it, and any number of faults: types, and, as long   *)
(* as packets arrive whole and one at a time, that the probe takes each    *)
(* byte once and in order and that a success which either side reports is  *)
(* one.                                                                    *)
(***************************************************************************)
EXTENDS XmodemRead, SequenceLemmas

-----------------------------------------------------------------------------
(* Types. *)

(* What is on the line: bytes, and checksums. *)
Unit == (0 .. 255) \cup {Crc(s) : s \in Seq(0 .. 255)}

(* What the stub knows of the packet that it fills or sends. *)
Staging ==
  /\ pc = "start" => staged = 0
  /\ source = "memory" => pc # "fill"
  /\ source = "deflate" => off + staged <= made
  /\ pc = "fill" => staged < BlockSize
  /\ pc \in {"send", "reply", "eot"} =>
       Chunk = Smaller(BlockSize, Len(Image) - off)
  /\ pc = "reply" => off < Len(Image)
  /\ pc = "eot" => off = Len(Image)

GivenTyped ==
  /\ conditions \in Conditions /\ source \in {"memory", "deflate"}
  /\ faults \in 0 .. MaxFaults /\ late \in 0 .. conditions.late

StubTyped ==
  /\ pc \in {"start", "fill", "send", "reply", "eot", "idle"}
  /\ useCrc \in BOOLEAN /\ off \in 0 .. Len(Image) /\ block \in 0 .. NumberMod - 1
  /\ staged \in 0 .. StxSize /\ made \in 0 .. Len(Image)
  /\ tries \in Nat
  /\ pc = "start" => tries <= MaxStarts
  /\ pc = "reply" => tries <= MaxBlock
  /\ pc = "eot" => tries <= MaxEot
  /\ result \in {"none", "done", "failed"}
  /\ pc = "idle" <=> result # "none"
  /\ Staging

HostTyped ==
  /\ hpc \in {"ask", "marker", "packet", "ok", "failed"}
  /\ expected \in 0 .. NumberMod - 1
  /\ packet \in Seq(Unit) /\ output \in Seq(Unit)

LinesTyped == up \in Seq(Unit) /\ down \in Seq(Unit)

Typed == GivenTyped /\ StubTyped /\ HostTyped /\ LinesTyped

LEMMA Sizes ==
  /\ Image \in Seq(0 .. 255) /\ Len(Image) \in Nat \ {0}
  /\ SohSize \in Nat \ {0} /\ StxSize \in Nat \ {0} /\ SohSize <= StxSize
  /\ NumberMod \in 2 .. 256
  /\ MaxStarts \in Nat \ {0} /\ MaxBlock \in Nat \ {0} /\ MaxEot \in Nat \ {0}
  /\ MaxFaults \in Nat
<1>1. Image \in Seq(0 .. 255) /\ Image # <<>>
  BY ReadAssumption
<1>2. Len(Image) \in Nat \ {0}
  BY <1>1
<1> QED
  BY <1>1, <1>2, ReadAssumption, PacketAssumption

(* A block number and its neighbours. *)
LEMMA Numbers ==
  ASSUME NEW n \in 0 .. NumberMod - 1
  PROVE  /\ Following(n) \in 0 .. NumberMod - 1
         /\ Previous(Following(n)) = n
         /\ Following(n) # n /\ Previous(n) # n
<1> DEFINE m == NumberMod
<1>1. m \in Nat \ {0} /\ m >= 2 /\ n \in Nat /\ n < m
  BY PacketAssumption
<1>2. Following(n) = (n + 1) % m /\ \A x : Previous(x) = (x + m - 1) % m
  BY DEF Following, Previous
<1> HIDE DEF m
<1>3. \A x \in Nat : /\ x < m => x % m = x
                     /\ m <= x /\ x < m + m => x % m = x - m
  <2> SUFFICES ASSUME NEW x \in Nat
               PROVE  /\ x < m => x % m = x
                      /\ m <= x /\ x < m + m => x % m = x - m
    OBVIOUS
  <2> QED
    BY <1>1
<1>4. CASE n + 1 < m
  <2>1. Following(n) = n + 1
    BY <1>1, <1>2, <1>3, <1>4
  <2>2. Previous(n + 1) = n
    BY <1>1, <1>2, <1>3
  <2>3. Previous(n) = IF n = 0 THEN m - 1 ELSE n - 1
    <3>1. CASE n = 0
      <4>1. n + m - 1 = m - 1 /\ m - 1 \in Nat /\ m - 1 < m
        BY <1>1, <3>1
      <4> QED
        BY <1>2, <1>3, <3>1, <4>1
    <3>2. CASE n # 0
      <4>1. n + m - 1 \in Nat /\ m <= n + m - 1 /\ n + m - 1 < m + m
            /\ (n + m - 1) - m = n - 1
        BY <1>1, <3>2
      <4> QED
        BY <1>2, <1>3, <3>2, <4>1
    <3> QED
      BY <3>1, <3>2
  <2> QED
    BY <1>1, <1>4, <2>1, <2>2, <2>3 DEF m
<1>5. CASE n + 1 = m
  <2>1. Following(n) = 0
    BY <1>1, <1>2, <1>3, <1>5
  <2>2. Previous(0) = n
    <3>1. 0 + m - 1 = n
      BY <1>1, <1>5
    <3> QED
      BY <1>1, <1>2, <1>3, <3>1
  <2>3. Previous(n) # n
    <3>1. n + m - 1 \in Nat /\ m <= n + m - 1 /\ n + m - 1 < m + m
          /\ (n + m - 1) - m = n - 1
      BY <1>1, <1>5
    <3>2. Previous(n) = n - 1
      BY <1>2, <1>3, <3>1
    <3> QED
      BY <1>1, <3>2
  <2> QED
    BY <1>1, <1>5, <2>1, <2>2, <2>3 DEF m
<1> QED
  BY <1>1, <1>4, <1>5

(* What both sides say can be said on the line. *)
LEMMA UnitsTyped ==
  /\ Controls \subseteq Unit /\ 0 .. 255 \subseteq Unit
  /\ \A s \in Seq(0 .. 255) : Crc(s) \in Unit
  /\ \A n \in 0 .. NumberMod - 1 : n \in Unit /\ Inverse(n) \in Unit
BY Sizes DEF Unit, Controls, SOH, STX, EOT, ACK, NAK, CAN, CRC_MODE, Inverse

LEMMA Elements ==
  ASSUME NEW S, NEW T, S \subseteq T, NEW s \in Seq(S)
  PROVE  s \in Seq(T) /\ \A i \in 1 .. Len(s) : s[i] \in S
OBVIOUS

LEMMA BytesAreUnits == \A s \in Seq(0 .. 255) : s \in Seq(Unit)
<1>1. 0 .. 255 \subseteq Unit
  BY UnitsTyped
<1>2. \A S, T : S \subseteq T => \A s \in Seq(S) : s \in Seq(T)
  BY Elements, Zenon
<1> QED
  BY <1>1, <1>2, Zenon

(* A damaged sequence is one of the same elements. *)
LEMMA HeadReplaced ==
  ASSUME NEW S, NEW s \in Seq(S), NEW x \in S
  PROVE  /\ [s EXCEPT ![1] = x] \in Seq(S)
         /\ Len([s EXCEPT ![1] = x]) = Len(s)
         /\ \A i \in 1 .. Len(s) :
              [s EXCEPT ![1] = x][i] = IF i = 1 THEN x ELSE s[i]
<1>1. Len(s) \in Nat /\ s \in [1 .. Len(s) -> S]
  OBVIOUS
<1>2. [s EXCEPT ![1] = x] \in [1 .. Len(s) -> S]
  BY <1>1
<1>3. [s EXCEPT ![1] = x] \in Seq(S) /\ Len([s EXCEPT ![1] = x]) = Len(s)
  BY <1>1, <1>2
<1> QED
  BY <1>1, <1>3

(* The block that is sent, by its place in the range. *)
LEMMA BlockFacts ==
  ASSUME StubTyped, source \in {"memory", "deflate"}, pc \in {"send", "reply"}
  PROVE  /\ BlockSize \in Nat \ {0} /\ BlockSize <= StxSize
         /\ Chunk \in 0 .. BlockSize /\ Chunk <= Len(Image) - off
         /\ Chunk = 0 <=> off = Len(Image)
         /\ off + Chunk = IF off + BlockSize < Len(Image)
                          THEN off + BlockSize ELSE Len(Image)
         /\ BlockData \in Seq(0 .. 255) /\ Len(BlockData) = BlockSize
         /\ \A i \in 1 .. BlockSize :
              BlockData[i] = IF off + i <= Len(Image) THEN Image[off + i]
                             ELSE 255
<1>1. /\ BlockSize \in Nat \ {0} /\ BlockSize <= StxSize
      /\ off \in 0 .. Len(Image) /\ Len(Image) \in Nat
  BY Sizes DEF BlockSize, StubTyped
<1>2. Chunk = Smaller(BlockSize, Len(Image) - off)
  BY DEF StubTyped, Staging
<1>3. /\ Chunk \in 0 .. BlockSize /\ Chunk <= Len(Image) - off
      /\ Chunk = 0 <=> off = Len(Image)
      /\ off + Chunk = IF off + BlockSize < Len(Image)
                       THEN off + BlockSize ELSE Len(Image)
  BY <1>1, <1>2 DEF Smaller
<1>4. BlockData = [i \in 1 .. BlockSize |->
                     IF i <= Chunk THEN Image[off + i] ELSE 255]
  BY DEF BlockData
<1> HIDE DEF BlockSize, Chunk, BlockData
<1>5. ASSUME NEW i \in 1 .. BlockSize
      PROVE  /\ i <= Chunk <=> off + i <= Len(Image)
             /\ i <= Chunk => Image[off + i] \in 0 .. 255
  <2>1. i <= Chunk <=> off + i <= Len(Image)
    BY <1>1, <1>3
  <2>2. off + i <= Len(Image) => off + i \in 1 .. Len(Image)
    BY <1>1
  <2>3. \A j \in 1 .. Len(Image) : Image[j] \in 0 .. 255
    BY Sizes, Elements
  <2> QED
    BY <2>1, <2>2, <2>3
<1>6. BlockData \in [1 .. BlockSize -> 0 .. 255]
  <2> SUFFICES ASSUME NEW i \in 1 .. BlockSize
               PROVE (IF i <= Chunk THEN Image[off + i] ELSE 255) \in 0 .. 255
    BY <1>4
  <2> QED
    BY <1>5
<1>7. \A i \in 1 .. BlockSize :
        BlockData[i] = IF off + i <= Len(Image) THEN Image[off + i] ELSE 255
  BY <1>4, <1>5
<1>8. BlockData \in Seq(0 .. 255) /\ Len(BlockData) = BlockSize
  BY <1>1, <1>6
<1> QED
  BY <1>1, <1>3, <1>7, <1>8

LEMMA BlockPacketTyped ==
  ASSUME StubTyped, source \in {"memory", "deflate"}, pc \in {"send", "reply"}
  PROVE  BlockPacket \in Seq(Unit)
<1>1. BlockData \in Seq(0 .. 255) /\ BlockData \in Seq(Unit)
  BY BlockFacts, BytesAreUnits
<1>2. block \in 0 .. NumberMod - 1
  BY DEF StubTyped
<1>3. /\ <<STX, block, Inverse(block)>> \in Seq(Unit)
      /\ <<SOH, block, Inverse(block)>> \in Seq(Unit)
      /\ <<Crc(BlockData)>> \in Seq(Unit)
  <2>1. /\ STX \in Unit /\ SOH \in Unit /\ block \in Unit
        /\ Inverse(block) \in Unit /\ Crc(BlockData) \in Unit
    BY <1>1, <1>2, UnitsTyped DEF Controls
  <2> QED
    BY <2>1
<1> HIDE DEF BlockData
<1>4. /\ <<STX, block, Inverse(block)>> \o BlockData \o <<Crc(BlockData)>>
           \in Seq(Unit)
      /\ <<SOH, block, Inverse(block)>> \o BlockData \in Seq(Unit)
  BY <1>1, <1>3, Concatenation
<1> QED
  BY <1>4 DEF BlockPacket, Packet

(* Nothing but units comes onto the line. *)
LEMMA LinesStep ==
  ASSUME Typed, [Next]_vars
  PROVE  LinesTyped'
<1>1. up \in Seq(Unit) /\ down \in Seq(Unit)
  BY DEF Typed, LinesTyped
<1>2. /\ up # <<>> => Tail(up) \in Seq(Unit)
      /\ down # <<>> => Tail(down) \in Seq(Unit)
      /\ \A c \in Controls : /\ Append(up, c) \in Seq(Unit)
                             /\ Append(down, c) \in Seq(Unit)
  BY <1>1, UnitsTyped
<1>3. /\ Append(Append(up, CAN), CAN) \in Seq(Unit)
      /\ Append(Append(down, CAN), CAN) \in Seq(Unit)
  BY <1>1, UnitsTyped DEF Controls
<1>4. CASE UNCHANGED vars
  BY <1>1, <1>4 DEF vars, LinesTyped
<1>5. CASE StubWork
  <2>1. up' = up \/ (up # <<>> /\ up' = Tail(up))
    BY <1>5 DEF StubWork, ReceiverReady, ReceiverCancels, ReceiverUnclear,
       FillPacket, NextPiece, StreamEnds, SendBlock, BlockAcked,
       BlockCancelled, SendEot, EotAcked, Refused, GivesUp, DropByte, Hears,
       HearsOther
  <2>2. \/ down' = down \/ down' = Append(Append(down, CAN), CAN)
        \/ down' = Append(down, EOT)
        \/ SendBlock
    BY <1>5 DEF StubWork, ReceiverReady, ReceiverCancels, ReceiverUnclear,
       FillPacket, NextPiece, StreamEnds, BlockAcked,
       BlockCancelled, SendEot, EotAcked, Refused, GivesUp, DropByte, Say,
       SayCancel, HeedCancel
  <2>3. SendBlock => down' \in Seq(Unit)
    <3> SUFFICES ASSUME SendBlock PROVE down' \in Seq(Unit)
      OBVIOUS
    <3>1. BlockPacket \in Seq(Unit)
      BY BlockPacketTyped DEF SendBlock, Typed, GivenTyped
    <3> HIDE DEF BlockPacket
    <3> QED
      BY <1>1, <3>1, Concatenation DEF SendBlock
  <2>4. EOT \in Controls
    BY DEF Controls
  <2> QED
    BY <1>1, <1>2, <1>3, <2>1, <2>2, <2>3, <2>4 DEF LinesTyped
<1>6. CASE HostWork
  <2>1. \/ up' = up \/ up' = Append(Append(up, CAN), CAN)
        \/ \E c \in Controls : up' = Append(up, c)
    BY <1>6 DEF HostWork, Probe!Work, Probe!AskOnce, Probe!TakeMarker,
       Probe!TakeEot, Probe!TakeCancel, Probe!SkipByte, Probe!TakeByte,
       Probe!RefuseDamaged, Probe!TakeBlock, Probe!TakeRepeated,
       Probe!RefuseOutOfOrder, Probe!Answer, Probe!CRC_MODE, Probe!ACK,
       Probe!NAK, Probe!CAN, CAN, ACK, NAK, CRC_MODE, Controls
  <2>2. down' = down \/ (down # <<>> /\ down' = Tail(down))
    BY <1>6 DEF HostWork, Probe!Work, Probe!AskOnce, Probe!TakeMarker,
       Probe!TakeEot, Probe!TakeCancel, Probe!SkipByte, Probe!TakeByte,
       Probe!RefuseDamaged, Probe!TakeBlock, Probe!TakeRepeated,
       Probe!RefuseOutOfOrder, Probe!NextMarker, Probe!Gets
  <2> QED
    BY <1>1, <1>2, <1>3, <2>1, <2>2 DEF LinesTyped
<1>7. CASE StubTimeout \/ HostTimeout
  BY <1>1, <1>7 DEF StubTimeout, HostTimeout, LinesTyped
<1>8. CASE Line
  <2>1. \A n \in conditions.noise : n \in Unit
    <3>1. conditions.noise \in SUBSET (0 .. 255)
      BY ConditionsAssumption DEF Typed, GivenTyped
    <3> QED
      BY <3>1, UnitsTyped
  <2>2. \A n \in conditions.noise : /\ [up EXCEPT ![1] = n] \in Seq(Unit)
                                    /\ [down EXCEPT ![1] = n] \in Seq(Unit)
    BY <1>1, <2>1, HeadReplaced
  <2>3. \/ up' = up \/ (up # <<>> /\ up' = Tail(up))
        \/ \E n \in conditions.noise : up' = [up EXCEPT ![1] = n]
    BY <1>8 DEF Line, LoseByte, DamageByte, LoseReply, DamageReply
  <2>4. \/ down' = down \/ (down # <<>> /\ down' = Tail(down))
        \/ \E n \in conditions.noise : down' = [down EXCEPT ![1] = n]
    BY <1>8 DEF Line, LoseByte, DamageByte, LoseReply, DamageReply
  <2> QED
    BY <1>1, <1>2, <2>2, <2>3, <2>4 DEF LinesTyped
<1> QED
  BY <1>4, <1>5, <1>6, <1>7, <1>8 DEF Next

-----------------------------------------------------------------------------
(* The stub's own state. *)

LEMMA StubKept ==
  ASSUME StubTyped, UNCHANGED stub, source' = source
  PROVE  StubTyped'
BY DEF StubTyped, Staging, stub, Chunk, BlockSize

LEMMA ReturnTyped ==
  ASSUME StubTyped, source' = source, NEW how \in {"done", "failed"}, Return(how)
  PROVE  StubTyped'
BY DEF StubTyped, Staging, Return, Chunk, BlockSize

(* A wait is over, for whatever reason, and nothing has moved on.          *)
LEMMA WaitTyped ==
  ASSUME StubTyped, source' = source,
         UNCHANGED <<useCrc, off, block, staged, made, result>>,
         \/ pc = "start" /\ pc' = pc /\ tries < MaxStarts /\ tries' = tries + 1
         \/ pc \in {"reply", "eot"} /\ pc' = "send" /\ tries' = tries
  PROVE  StubTyped'
<1>1. /\ off' = off /\ block' = block /\ staged' = staged /\ made' = made
      /\ useCrc' = useCrc /\ result' = result /\ tries \in Nat
  BY DEF StubTyped
<1>2. CASE pc = "start" /\ pc' = pc /\ tries < MaxStarts /\ tries' = tries + 1
  <2>1. tries' \in Nat /\ tries' <= MaxStarts
    BY <1>1, <1>2, Sizes
  <2>2. Staging'
    BY <1>1, <1>2 DEF StubTyped, Staging, BlockSize
  <2> QED
    BY <1>1, <1>2, <2>1, <2>2 DEF StubTyped
<1>3. CASE pc \in {"reply", "eot"} /\ pc' = "send" /\ tries' = tries
  <2>1. Staging'
    BY <1>1, <1>3 DEF StubTyped, Staging, BlockSize, Chunk
  <2> QED
    BY <1>1, <1>3, <2>1 DEF StubTyped
<1> QED
  BY <1>2, <1>3

LEMMA ReadyTyped ==
  ASSUME StubTyped, source \in {"memory", "deflate"}, source' = source,
         ReceiverReady
  PROVE  StubTyped'
<1>1. /\ pc = "start" /\ pc' = Continue /\ tries' = 0 /\ useCrc' \in BOOLEAN
      /\ off' = off /\ block' = block /\ staged' = staged /\ made' = made
      /\ result' = result /\ staged = 0
  BY DEF ReceiverReady, StubTyped, Staging
<1>2. BlockSize' \in Nat \ {0}
  BY <1>1, Sizes DEF BlockSize
<1>3. Chunk' = IF source = "deflate" THEN 0
               ELSE Smaller(BlockSize', Len(Image) - off)
  BY <1>1 DEF Chunk, Smaller
<1>4. Staging'
  BY <1>1, <1>2, <1>3 DEF StubTyped, Staging, Continue, Smaller
<1> QED
  BY <1>1, <1>4 DEF StubTyped, Continue

LEMMA FillTyped ==
  ASSUME StubTyped, source \in {"memory", "deflate"}, source' = source,
         FillPacket \/ NextPiece \/ StreamEnds
  PROVE  StubTyped'
<1>1. /\ pc = "fill" /\ useCrc' = useCrc /\ off' = off /\ block' = block
      /\ tries' = tries /\ result' = result
  BY DEF FillPacket, NextPiece, StreamEnds
<1>2. /\ BlockSize \in Nat \ {0} /\ BlockSize <= StxSize /\ BlockSize' = BlockSize
      /\ off \in Nat /\ off <= Len(Image) /\ Len(Image) \in Nat
      /\ staged \in Nat /\ staged <= StxSize
      /\ made \in Nat /\ made <= Len(Image) /\ StxSize \in Nat
  BY <1>1, Sizes DEF BlockSize, StubTyped
<1>3. staged < BlockSize /\ source' = "deflate" /\ off + staged <= made
  BY <1>1 DEF StubTyped, Staging
<1>4. Chunk' = staged'
  BY <1>3 DEF Chunk
<1> HIDE DEF BlockSize, Chunk
<1>5. CASE FillPacket
  <2>1. /\ made' = made /\ staged' = Smaller(BlockSize, made - off)
        /\ pc' = IF staged' = BlockSize THEN "send" ELSE "fill"
        /\ off + staged < made
    BY <1>5 DEF FillPacket
  <2>2. /\ staged' \in 0 .. StxSize /\ staged' <= BlockSize
        /\ off + staged' <= made
        /\ staged' = BlockSize
             => staged' = Smaller(BlockSize, Len(Image) - off)
    BY <1>2, <2>1 DEF Smaller
  <2>3. Staging'
    BY <1>1, <1>2, <1>3, <1>4, <2>1, <2>2 DEF Staging
  <2> QED
    BY <1>1, <2>1, <2>2, <2>3 DEF StubTyped
<1>6. CASE NextPiece
  <2>1. /\ pc' = pc /\ staged' = staged /\ made' \in made + 1 .. Len(Image)
    BY <1>6 DEF NextPiece
  <2>2. made' \in 0 .. Len(Image) /\ made <= made'
    BY <1>2, <2>1
  <2>3. Staging'
    BY <1>1, <1>2, <1>3, <2>1, <2>2 DEF Staging
  <2> QED
    BY <1>1, <2>1, <2>2, <2>3 DEF StubTyped
<1>7. CASE StreamEnds
  <2>1. /\ pc' = "send" /\ staged' = staged /\ made' = made
        /\ off + staged = Len(Image) /\ made = Len(Image)
    BY <1>7 DEF StreamEnds
  <2>2. staged = Smaller(BlockSize, Len(Image) - off)
    BY <1>2, <1>3, <2>1 DEF Smaller
  <2>3. Staging'
    BY <1>1, <1>2, <1>3, <1>4, <2>1, <2>2 DEF Staging
  <2> QED
    BY <1>1, <2>1, <2>3 DEF StubTyped
<1> QED
  BY <1>5, <1>6, <1>7

LEMMA SendTyped ==
  ASSUME StubTyped, source \in {"memory", "deflate"}, source' = source,
         SendBlock \/ SendEot
  PROVE  StubTyped'
<1>1. /\ pc = "send" /\ useCrc' = useCrc /\ off' = off /\ block' = block
      /\ staged' = staged /\ made' = made /\ result' = result
      /\ tries' = tries + 1 /\ tries \in Nat
  BY DEF SendBlock, SendEot, StubTyped
<1>2. Chunk' = Chunk /\ BlockSize' = BlockSize
  BY <1>1 DEF Chunk, BlockSize
<1>3. Chunk = Smaller(BlockSize, Len(Image) - off)
      /\ (Chunk = 0 <=> off = Len(Image))
  BY <1>1, BlockFacts DEF StubTyped, Staging
<1>4. off \in 0 .. Len(Image) /\ Len(Image) \in Nat
  BY Sizes DEF StubTyped
<1>7. source = "deflate" => off' + staged' <= made'
  BY <1>1 DEF StubTyped, Staging
<1> HIDE DEF BlockSize, Chunk
<1>5. CASE SendBlock
  <2>1. pc' = "reply" /\ Chunk # 0 /\ tries' \in Nat /\ tries' <= MaxBlock
    BY <1>1, <1>5, Sizes DEF SendBlock
  <2>2. off' < Len(Image)
    BY <1>1, <1>3, <1>4, <2>1
  <2>3. Chunk' = Smaller(BlockSize', Len(Image) - off')
    BY <1>1, <1>2, <1>3
  <2>4. Staging'
    BY <1>7, <2>1, <2>2, <2>3 DEF Staging
  <2> QED
    BY <1>1, <2>1, <2>4 DEF StubTyped
<1>6. CASE SendEot
  <2>1. pc' = "eot" /\ Chunk = 0 /\ tries' \in Nat /\ tries' <= MaxEot
    BY <1>1, <1>6, Sizes DEF SendEot
  <2>2. off' = Len(Image)
    BY <1>1, <1>3, <2>1
  <2>3. Chunk' = Smaller(BlockSize', Len(Image) - off')
    BY <1>1, <1>2, <1>3
  <2>4. Staging'
    BY <1>7, <2>1, <2>2, <2>3 DEF Staging
  <2> QED
    BY <1>1, <2>1, <2>4 DEF StubTyped
<1> QED
  BY <1>5, <1>6

LEMMA AckedTyped ==
  ASSUME StubTyped, source \in {"memory", "deflate"}, source' = source,
         BlockAcked
  PROVE  StubTyped'
<1>1. /\ pc = "reply" /\ useCrc' = useCrc /\ made' = made /\ result' = result
      /\ off' = off + Chunk /\ staged' = 0 /\ tries' = 0 /\ pc' = Continue
      /\ block' = Following(block)
  BY DEF BlockAcked, Advance
<1>2. block' \in 0 .. NumberMod - 1
  BY <1>1, Numbers DEF StubTyped
<1>3. /\ BlockSize \in Nat \ {0} /\ BlockSize' = BlockSize
      /\ Chunk \in Nat /\ Chunk <= Len(Image) - off
  BY <1>1, BlockFacts DEF BlockSize
<1>4. /\ source = "deflate" => Chunk = staged
      /\ Chunk' = IF source = "deflate" THEN 0
                  ELSE Smaller(BlockSize', Len(Image) - off')
  BY <1>1 DEF Chunk
<1>5. off \in Nat /\ off <= Len(Image) /\ Len(Image) \in Nat
  BY Sizes DEF StubTyped
<1> HIDE DEF BlockSize, Chunk
<1>6. off' \in 0 .. Len(Image)
  BY <1>1, <1>3, <1>5
<1>7. source = "deflate" => off' + staged' <= made'
  <2>1. source = "deflate" => off + staged <= made
    BY DEF StubTyped, Staging
  <2> QED
    BY <1>1, <1>3, <1>4, <1>5, <2>1
<1>8. Staging'
  BY <1>1, <1>3, <1>4, <1>7 DEF Staging, Continue
<1> QED
  BY <1>1, <1>2, <1>6, <1>8, Sizes DEF StubTyped, Continue

LEMMA StubStep ==
  ASSUME Typed, [Next]_vars
  PROVE  StubTyped' /\ source' = source /\ conditions' = conditions
<1>1. StubTyped /\ source \in {"memory", "deflate"}
  BY DEF Typed, GivenTyped
<1>2. CASE UNCHANGED vars \/ HostWork \/ HostTimeout \/ Line
  <2>1. UNCHANGED stub /\ source' = source /\ conditions' = conditions
    BY <1>2 DEF vars, given, HostWork, HostTimeout, Line, LoseByte,
       DamageByte, LoseReply, DamageReply, Fault
  <2> QED
    BY <1>1, <2>1, StubKept
<1>3. CASE StubTimeout
  <2>1. /\ source' = source /\ conditions' = conditions
        /\ UNCHANGED <<useCrc, off, block, staged, made, result>>
        /\ \/ pc = "start" /\ pc' = pc /\ tries < MaxStarts /\ tries' = tries + 1
           \/ pc \in {"reply", "eot"} /\ pc' = "send" /\ tries' = tries
    BY <1>3 DEF StubTimeout, given
  <2> QED
    BY <1>1, <2>1, WaitTyped
<1>4. CASE StubWork
  <2>1. source' = source /\ conditions' = conditions
    BY <1>4 DEF StubWork, given
  <2>2. CASE ReceiverReady
    BY <1>1, <2>1, <2>2, ReadyTyped
  <2>3. CASE FillPacket \/ NextPiece \/ StreamEnds
    BY <1>1, <2>1, <2>3, FillTyped
  <2>4. CASE SendBlock \/ SendEot
    BY <1>1, <2>1, <2>4, SendTyped
  <2>5. CASE BlockAcked
    BY <1>1, <2>1, <2>5, AckedTyped
  <2>6. CASE ReceiverUnclear \/ Refused
    <3>1. /\ UNCHANGED <<useCrc, off, block, staged, made, result>>
          /\ \/ pc = "start" /\ pc' = pc /\ tries < MaxStarts /\ tries' = tries + 1
             \/ pc \in {"reply", "eot"} /\ pc' = "send" /\ tries' = tries
      BY <2>6 DEF ReceiverUnclear, Refused
    <3> QED
      BY <1>1, <2>1, <3>1, WaitTyped
  <2>7. CASE ReceiverCancels \/ BlockCancelled \/ EotAcked \/ GivesUp
    <3>1. \E how \in {"done", "failed"} : Return(how)
      BY <2>7 DEF ReceiverCancels, BlockCancelled, EotAcked, GivesUp, HeedCancel
    <3> QED
      BY <1>1, <2>1, <3>1, ReturnTyped
  <2>8. CASE DropByte
    BY <1>1, <2>1, <2>8, StubKept DEF DropByte
  <2> QED
    BY <1>4, <2>1, <2>2, <2>3, <2>4, <2>5, <2>6, <2>7, <2>8 DEF StubWork
<1> QED
  BY <1>2, <1>3, <1>4 DEF Next

-----------------------------------------------------------------------------
(* The probe's own state. *)

LEMMA SubSeqTyped ==
  ASSUME NEW S, NEW s \in Seq(S), NEW m \in Nat \ {0}, NEW n \in Int, n <= Len(s)
  PROVE  SubSeq(s, m, n) \in Seq(S)
OBVIOUS

(* The probe's actions, the environment's part left out. *)
LEMMA ProbeDefs ==
  /\ Probe!SOH = SOH /\ Probe!STX = STX /\ Probe!EOT = EOT /\ Probe!ACK = ACK
  /\ Probe!NAK = NAK /\ Probe!CAN = CAN /\ Probe!CRC_MODE = CRC_MODE
  /\ \A n : Probe!Following(n) = Following(n) /\ Probe!Previous(n) = Previous(n)
  /\ \A s : Probe!Payload(s) = Payload(s) /\ Probe!Intact(s) = Intact(s)
  /\ \A m : Probe!PacketLen(m) = PacketLen(m)
BY DEF Probe!SOH, Probe!STX, Probe!EOT, Probe!ACK, Probe!NAK, Probe!CAN,
   Probe!CRC_MODE, SOH, STX, EOT, ACK, NAK, CAN, CRC_MODE, Probe!Following,
   Following, Probe!Previous, Previous, Probe!Payload, Payload, Probe!Intact,
   Intact, Probe!PacketLen, PacketLen, Probe!BlockLen, BlockLen, Probe!Inverse,
   Inverse

LEMMA HostStep ==
  ASSUME Typed, [Next]_vars
  PROVE  HostTyped'
<1>1. HostTyped /\ down \in Seq(Unit)
  BY DEF Typed, LinesTyped
<1>2. CASE UNCHANGED host
  BY <1>1, <1>2 DEF HostTyped, host
<1>3. CASE HostTimeout
  BY <1>1, <1>3 DEF HostTyped, HostTimeout
<1>4. CASE HostWork
  <2>1. down # <<>> => Head(down) \in Unit
    BY <1>1
  <2>2. /\ hpc \in {"ask", "marker", "packet", "ok", "failed"}
        /\ expected \in 0 .. NumberMod - 1
        /\ packet \in Seq(Unit) /\ output \in Seq(Unit)
    BY <1>1 DEF HostTyped
  <2>3. hpc' \in {"ask", "marker", "packet", "ok", "failed"}
    BY <1>4, <2>2 DEF HostWork, Probe!Work, Probe!AskOnce, Probe!TakeMarker,
       Probe!TakeEot, Probe!TakeCancel, Probe!SkipByte, Probe!TakeByte,
       Probe!RefuseDamaged, Probe!TakeBlock, Probe!TakeRepeated,
       Probe!RefuseOutOfOrder, Probe!NextMarker
  <2>4. \/ packet' = packet \/ packet' = <<>>
        \/ down # <<>> /\ packet' = <<Head(down)>>
        \/ down # <<>> /\ packet' = Append(packet, Head(down))
    BY <1>4 DEF HostWork, Probe!Work, Probe!AskOnce, Probe!TakeMarker,
       Probe!TakeEot, Probe!TakeCancel, Probe!SkipByte, Probe!TakeByte,
       Probe!RefuseDamaged, Probe!TakeBlock, Probe!TakeRepeated,
       Probe!RefuseOutOfOrder, Probe!NextMarker, Probe!Gets
  <2>5. packet' \in Seq(Unit)
    <3>1. \A u \in Unit : <<u>> \in Seq(Unit) /\ Append(packet, u) \in Seq(Unit)
      BY <2>2
    <3>2. <<>> \in Seq(Unit)
      OBVIOUS
    <3> QED
      BY <2>1, <2>2, <2>4, <3>1, <3>2
  <2>6. \/ output' = output /\ expected' = expected
        \/ output' = output \o Payload(packet) /\ expected' = Following(expected)
    BY <1>4, ProbeDefs DEF HostWork, Probe!Work, Probe!AskOnce, Probe!TakeMarker,
       Probe!TakeEot, Probe!TakeCancel, Probe!SkipByte, Probe!TakeByte,
       Probe!RefuseDamaged, Probe!TakeBlock, Probe!TakeRepeated,
       Probe!RefuseOutOfOrder
  <2>7. Payload(packet) \in Seq(Unit)
    <3>1. Len(packet) - 1 \in Int /\ Len(packet) - 1 <= Len(packet)
      BY <2>2
    <3> QED
      BY <2>2, <3>1, SubSeqTyped DEF Payload
  <2> HIDE DEF Payload
  <2>8. output' \in Seq(Unit) /\ expected' \in 0 .. NumberMod - 1
    BY <2>2, <2>6, <2>7, Concatenation, Numbers
  <2> QED
    BY <2>3, <2>5, <2>8 DEF HostTyped
<1> QED
  BY <1>2, <1>3, <1>4 DEF Next, vars, StubWork, StubTimeout, Line, LoseByte,
     DamageByte, LoseReply, DamageReply, Fault

-----------------------------------------------------------------------------
(* All of it. *)

LEMMA GivenStep ==
  ASSUME Typed, [Next]_vars
  PROVE  GivenTyped'
<1>1. GivenTyped /\ conditions.late \in Nat /\ MaxFaults \in Nat
  BY ConditionsAssumption, Sizes DEF Typed, GivenTyped
<1>2. source' = source /\ conditions' = conditions
  BY StubStep
<1>3. faults' = faults \/ (faults < MaxFaults /\ faults' = faults + 1)
  BY DEF Next, vars, StubWork, HostWork, StubTimeout, HostTimeout, Line,
     LoseByte, DamageByte, LoseReply, DamageReply, Fault
<1>4. late' = late \/ (late < conditions.late /\ late' = late + 1)
  BY DEF Next, vars, StubWork, HostWork, StubTimeout, HostTimeout, Line,
     LoseByte, DamageByte, LoseReply, DamageReply, Fault
<1> QED
  BY <1>1, <1>2, <1>3, <1>4 DEF GivenTyped

LEMMA TypedStart == Init => Typed
<1> SUFFICES ASSUME Init PROVE Typed
  OBVIOUS
<1>1. conditions.late \in Nat
  BY ConditionsAssumption DEF Init
<1>2. GivenTyped
  BY <1>1, Sizes DEF Init, GivenTyped
<1>3. StubTyped
  BY Sizes DEF Init, StubTyped, Staging
<1>4. HostTyped /\ LinesTyped
  BY Sizes DEF Init, HostTyped, LinesTyped
<1> QED
  BY <1>2, <1>3, <1>4 DEF Typed

LEMMA TypedStep == Typed /\ [Next]_vars => Typed'
BY GivenStep, StubStep, HostStep, LinesStep DEF Typed

(* What the stub and the probe know of a read stays within its bounds,     *)
(* whatever the line loses or damages: neither ever sends more often than  *)
(* it means to, nor leaves the range.                                      *)
THEOREM TypeCorrect == Spec => []TypeOK
<1>1. Typed => TypeOK
  BY DEF Typed, GivenTyped, StubTyped, HostTyped, TypeOK
<1> QED
  BY <1>1, TypedStart, TypedStep, PTL DEF Spec

-----------------------------------------------------------------------------
(* Whose turn it is, as long as packets arrive whole.                      *)

(* All bytes of the range have been taken. *)
Complete == Len(output) >= Len(Image)

(* The probe has what the stub has seen acknowledged, ...                  *)
Fresh ==
  /\ expected = block
  /\ IF off < Len(Image) THEN Len(output) = off ELSE Complete

(* ... or the block that the stub still sends as well.                     *)
Taken ==
  /\ expected = Following(block)
  /\ off < Len(Image) /\ Len(output) = off + StxSize

(* A byte of a packet that may have been damaged. *)
May(byte) == {byte} \cup conditions.noise

(* The probe has read a part of the packet and the rest is on the line;    *)
(* bytes may be damaged, the marker is not.                                *)
Arrives(p) ==
  /\ Len(packet) + Len(down) = Len(p)
  /\ \A i \in 1 .. Len(packet) : packet[i] \in May(p[i])
  /\ \A i \in 1 .. Len(down) : down[i] \in May(p[Len(packet) + i])
  /\ p[1] = IF packet = <<>> THEN down[1] ELSE packet[1]

Alone(line) == line = <<>> \/ \E x \in Unit : line = <<x>>
Ready == hpc = "marker" /\ packet = <<>>

Asking ==
  /\ hpc = "ask" /\ packet = <<>> /\ pc = "start" /\ tries = 0
  /\ up = <<>> /\ down = <<>> /\ useCrc /\ Fresh

Requested ==
  /\ Ready /\ pc = "start" /\ useCrc /\ Fresh
  /\ Alone(up) /\ up # <<NAK>> /\ down = <<>>

StubsTurn ==
  /\ Ready /\ pc \in {"fill", "send"} /\ useCrc
  /\ Fresh \/ (Taken /\ pc = "send")
  /\ up = <<>> /\ down = <<>>

PacketComing ==
  /\ pc = "reply" /\ useCrc /\ up = <<>> /\ (Fresh \/ Taken)
  /\ (hpc = "packet" /\ packet # <<>>) \/ Ready
  /\ Arrives(PacketAt(off, block))

Answered ==
  /\ Ready /\ pc = "reply" /\ useCrc /\ (Fresh \/ Taken)
  /\ Alone(up) /\ (up = <<ACK>> => Taken) /\ down = <<>>

EotComing ==
  /\ Ready /\ pc = "eot" /\ Complete
  /\ up = <<>> /\ down = <<EOT>>

StubBack ==
  /\ Ready /\ pc = "idle" /\ result = "failed"
  /\ \A i \in 1 .. Len(down) : down[i] = CAN

(* What the probe has said last can only be about the request or a block.  *)
ProbeBack ==
  /\ hpc \in {"ok", "failed"} /\ (hpc = "ok" \/ result = "done" => Complete)
  /\ \/ Complete \/ pc = "idle" \/ up = <<>>
     \/ Alone(up) /\ pc \in {"start", "reply"}

InTurn ==
  \/ Asking \/ Requested \/ StubsTurn \/ PacketComing \/ Answered
  \/ EotComing \/ StubBack \/ ProbeBack

ReadInv == Typed /\ (WholePackets => InTurn /\ TakesRangeInOrder)

(* The stub's steps at each point of its code. *)
LEMMA StubAt ==
  ASSUME StubWork
  PROVE  /\ UNCHANGED host /\ UNCHANGED given
         /\ pc = "start" => \/ ReceiverReady \/ ReceiverCancels
                            \/ ReceiverUnclear \/ GivesUp
         /\ pc = "fill" => FillPacket \/ NextPiece \/ StreamEnds
         /\ pc = "send" => SendBlock \/ SendEot \/ GivesUp
         /\ pc = "reply" => BlockAcked \/ BlockCancelled \/ Refused
         /\ pc = "eot" => EotAcked \/ Refused
         /\ pc = "idle" => DropByte
BY DEF StubWork, ReceiverReady, ReceiverCancels, ReceiverUnclear, FillPacket,
   NextPiece, StreamEnds, SendBlock, BlockAcked, BlockCancelled, SendEot,
   EotAcked, Refused, GivesUp, DropByte

(* The probe's at each of its. *)
LEMMA HostAt ==
  ASSUME HostWork
  PROVE  /\ UNCHANGED stub /\ UNCHANGED given
         /\ hpc \in {"ask", "marker", "packet"}
         /\ hpc = "ask" => Probe!AskOnce
         /\ hpc = "marker" => \/ Probe!TakeMarker \/ Probe!TakeEot
                              \/ Probe!TakeCancel \/ Probe!SkipByte
         /\ hpc = "packet" => \/ Probe!TakeByte \/ Probe!RefuseDamaged
                              \/ Probe!TakeBlock \/ Probe!TakeRepeated
                              \/ Probe!RefuseOutOfOrder
BY DEF HostWork, Probe!Work, Probe!AskOnce, Probe!TakeMarker, Probe!TakeEot,
   Probe!TakeCancel, Probe!SkipByte, Probe!TakeByte, Probe!RefuseDamaged,
   Probe!TakeBlock, Probe!TakeRepeated, Probe!RefuseOutOfOrder,
   Probe!PacketComplete

(* The line damages what is inside of a packet, and loses or damages       *)
(* replies.                                                                *)
LEMMA LineAt ==
  ASSUME WholePackets, Line
  PROVE  /\ UNCHANGED stub /\ UNCHANGED host /\ UNCHANGED given
         /\ \/ up # <<>> /\ up' = Tail(up) /\ down' = down
            \/ /\ up # <<>> /\ down' = down
               /\ \E n \in conditions.noise :
                    /\ up' = [up EXCEPT ![1] = n]
                    /\ n = ACK => pc = "start"
                    /\ n = NAK => pc # "start"
            \/ /\ hpc = "packet" /\ down # <<>> /\ up' = up
               /\ \E n \in conditions.noise : down' = [down EXCEPT ![1] = n]
<1>1. UNCHANGED stub /\ UNCHANGED host /\ UNCHANGED given
  BY DEF Line, LoseByte, DamageByte, LoseReply, DamageReply, Fault
<1>2. ~LoseByte
  BY DEF WholePackets, LoseByte, Fault
<1>3. CASE DamageByte
  <2>1. hpc = "packet"
    BY <1>3 DEF WholePackets, DamageByte, Fault
  <2> QED
    BY <1>1, <1>3, <2>1 DEF DamageByte
<1>4. CASE LoseReply
  BY <1>1, <1>4 DEF LoseReply
<1>5. CASE DamageReply
  <2>1. PICK n \in conditions.noise :
          up # <<>> /\ up' = [up EXCEPT ![1] = n] /\ down' = down
    BY <1>5 DEF DamageReply
  <2>2. n = ACK => pc = "start"
    BY <1>5 DEF WholePackets, DamageReply, Fault
  <2>3. n = NAK => pc # "start"
    BY <1>5 DEF WholePackets, DamageReply, Fault
  <2> QED
    BY <1>1, <2>1, <2>2, <2>3
<1> QED
  BY <1>2, <1>3, <1>4, <1>5 DEF Line

(* The stub waits until nothing is due to be read. *)
LEMMA StubsTime ==
  ASSUME Typed, WholePackets, StubTimeout
  PROVE  /\ up = <<>> /\ up' = up /\ down' = down /\ UNCHANGED host
         /\ hpc # "ask" /\ ~Probe!PacketComplete
         /\ hpc \in {"marker", "packet"} => down = <<>>
         /\ UNCHANGED <<useCrc, off, block, result>>
         /\ \/ pc = "start" /\ pc' = pc
            \/ pc \in {"reply", "eot"} /\ pc' = "send"
<1>1. conditions.late = 0 /\ late \in 0 .. conditions.late
  BY DEF WholePackets, Typed, GivenTyped
<1>2. ~Probe!AnswerDue
  BY <1>1 DEF StubTimeout
<1> QED
  BY <1>2 DEF StubTimeout, Probe!AnswerDue

LEMMA HostsTime ==
  ASSUME HostTimeout
  PROVE  /\ hpc \in {"marker", "packet"} /\ hpc' = "failed"
         /\ UNCHANGED <<output, pc, off, result, up, down>>
BY DEF HostTimeout, stub

(* What the two sides have told each other stands as long as neither of    *)
(* them moves on.                                                          *)
LEMMA Kept ==
  ASSUME output' = output, expected' = expected, off' = off, block' = block
  PROVE  /\ Fresh => Fresh'
         /\ Taken => Taken'
         /\ Complete => Complete'
BY DEF Fresh, Taken, Complete

LEMMA NoResult ==
  ASSUME Typed, pc # "idle"
  PROVE  result = "none"
BY DEF Typed, StubTyped

(* The one byte on a line. *)
LEMMA AloneByte ==
  ASSUME NEW line, Alone(line), line # <<>>
  PROVE  /\ Head(line) \in Unit /\ line = <<Head(line)>> /\ Tail(line) = <<>>
         /\ \A n : [line EXCEPT ![1] = n] = <<n>>
<1>1. PICK x \in Unit : line = <<x>>
  BY DEF Alone
<1>2. ASSUME NEW n PROVE [line EXCEPT ![1] = n] = <<n>>
  <2> DEFINE S == {x, n}
  <2>1. line \in Seq(S) /\ n \in S /\ Len(line) = 1 /\ <<n>> \in Seq(S)
    BY <1>1
  <2> HIDE DEF S
  <2>2. /\ [line EXCEPT ![1] = n] \in Seq(S)
        /\ Len([line EXCEPT ![1] = n]) = 1
        /\ [line EXCEPT ![1] = n][1] = n
    BY <2>1, HeadReplaced
  <2> QED
    BY <2>1, <2>2, SameSequence
<1> QED
  BY <1>1, <1>2

LEMMA TwoCancels ==
  LET two == Append(Append(<<>>, CAN), CAN) IN \A i \in 1 .. Len(two) : two[i] = CAN
<1>1. ASSUME NEW S, NEW x \in S
      PROVE  LET two == Append(Append(<<>>, x), x) IN
             \A i \in 1 .. Len(two) : two[i] = x
  OBVIOUS
<1> QED
  BY <1>1, UnitsTyped DEF Controls

LEMMA Stutters ==
  ASSUME InTurn, UNCHANGED vars
  PROVE  InTurn'
<1>1. UNCHANGED <<pc, useCrc, off, block, tries, result, hpc, packet, output,
                  expected, up, down, conditions>>
  BY DEF vars, stub, host, given
<1>2. (Fresh => Fresh') /\ (Taken => Taken') /\ (Complete => Complete')
  BY <1>1, Kept
<1> QED
  BY <1>1, <1>2 DEF InTurn, Asking, Requested, StubsTurn, PacketComing,
     Answered, EotComing, StubBack, ProbeBack, Ready, Alone, Arrives, May

(* The probe asks. *)
LEMMA FromAsking ==
  ASSUME Typed, WholePackets, Asking, Next
  PROVE  InTurn'
<1>1. /\ hpc = "ask" /\ packet = <<>> /\ pc = "start" /\ tries = 0
      /\ up = <<>> /\ down = <<>> /\ useCrc /\ Fresh
  BY DEF Asking
<1>2. ~StubWork
  BY <1>1, StubAt, Sizes DEF ReceiverReady, ReceiverCancels, ReceiverUnclear,
     GivesUp, Hears, HearsOther
<1>3. ~StubTimeout /\ ~HostTimeout
  BY <1>1, StubsTime, HostsTime
<1>4. ~Line
  BY <1>1, LineAt
<1>5. CASE HostWork
  <2>1. Probe!AskOnce /\ UNCHANGED stub
    BY <1>1, <1>5, HostAt
  <2>2. /\ hpc' = "marker" /\ packet' = <<>> /\ up' = <<CRC_MODE>>
        /\ down' = <<>> /\ output' = output /\ expected' = expected
        /\ pc' = "start" /\ useCrc' = useCrc /\ off' = off /\ block' = block
    BY <1>1, <2>1, ProbeDefs DEF Probe!AskOnce, Probe!Answer, stub
  <2>3. CRC_MODE \in Unit /\ <<CRC_MODE>> # <<NAK>>
    BY UnitsTyped DEF Controls, CRC_MODE, NAK
  <2>4. Alone(up)' /\ up' # <<NAK>>
    BY <2>2, <2>3 DEF Alone
  <2>5. Fresh'
    BY <1>1, <2>2, Kept
  <2> QED
    BY <1>1, <2>2, <2>4, <2>5 DEF InTurn, Requested, Ready
<1> QED
  BY <1>2, <1>3, <1>4, <1>5 DEF Next

(* The request reaches the stub, or does not, or something else does.      *)
LEMMA FromRequested ==
  ASSUME Typed, WholePackets, Requested, Next
  PROVE  InTurn'
<1>1. /\ hpc = "marker" /\ packet = <<>> /\ pc = "start" /\ useCrc /\ Fresh
      /\ Alone(up) /\ up # <<NAK>> /\ down = <<>>
  BY DEF Requested, Ready
<1>2. result = "none"
  BY <1>1, NoResult
<1>3. ASSUME UNCHANGED host, pc' = "start", UNCHANGED <<useCrc, off, block>>,
             down' = <<>>, Alone(up'), up' # <<NAK>>
      PROVE  InTurn'
  <2>1. output' = output /\ expected' = expected /\ hpc' = hpc /\ packet' = packet
    BY <1>3 DEF host
  <2>2. Fresh'
    BY <1>1, <1>3, <2>1, Kept
  <2> QED
    BY <1>1, <1>3, <2>1, <2>2 DEF InTurn, Requested, Ready, Alone
<1>4. Alone(<<>>) /\ <<>> # <<NAK>>
  BY DEF Alone
<1>5. CASE StubWork
  <2>1. /\ hpc' = hpc /\ packet' = packet
        /\ output' = output /\ expected' = expected /\ UNCHANGED host
    BY <1>5, StubAt DEF host
  <2>2. up # <<>> => Tail(up) = <<>> /\ Head(up) # NAK
    BY <1>1, AloneByte
  <2>3. CASE ReceiverReady
    <3>1. /\ up # <<>> /\ Head(up) \in {CRC_MODE, NAK} /\ up' = Tail(up)
          /\ useCrc' = (Head(up) = CRC_MODE) /\ pc' = Continue
          /\ off' = off /\ block' = block /\ down' = down
      BY <2>3 DEF ReceiverReady, Hears
    <3>2. up' = <<>> /\ useCrc' /\ pc' \in {"fill", "send"}
      BY <2>2, <3>1 DEF Continue
    <3>3. Fresh'
      BY <1>1, <2>1, <3>1, Kept
    <3> QED
      BY <1>1, <2>1, <3>1, <3>2, <3>3 DEF InTurn, StubsTurn, Ready
  <2>4. CASE ReceiverUnclear
    <3>1. /\ up # <<>> /\ up' = Tail(up) /\ pc' = "start"
          /\ UNCHANGED <<useCrc, off, block>> /\ down' = <<>>
      BY <1>1, <2>4 DEF ReceiverUnclear, HearsOther
    <3> QED
      BY <1>3, <1>4, <2>1, <2>2, <3>1
  <2>5. CASE ReceiverCancels \/ GivesUp
    <3>1. /\ pc' = "idle" /\ result' = "failed"
          /\ down' = <<>> \/ down' = Append(Append(<<>>, CAN), CAN)
      BY <1>1, <2>5 DEF ReceiverCancels, GivesUp, HeedCancel, Return, SayCancel
    <3>2. \A i \in 1 .. Len(down') : down'[i] = CAN
      BY <3>1, TwoCancels
    <3> QED
      BY <1>1, <2>1, <3>1, <3>2 DEF InTurn, StubBack, Ready
  <2> QED
    BY <1>1, <1>5, <2>3, <2>4, <2>5, StubAt
<1>6. ~HostWork
  BY <1>1, HostAt DEF Probe!TakeMarker, Probe!TakeEot, Probe!TakeCancel,
     Probe!SkipByte, Probe!Gets
<1>7. CASE StubTimeout
  BY <1>1, <1>3, <1>4, <1>7, StubsTime
<1>8. CASE HostTimeout
  <2>1. /\ hpc' = "failed" /\ result' = "none" /\ pc' = "start" /\ up' = up
    BY <1>1, <1>2, <1>8, HostsTime
  <2> QED
    BY <1>1, <2>1 DEF InTurn, ProbeBack, Alone
<1>9. CASE Line
  <2>1. /\ UNCHANGED host /\ pc' = "start" /\ UNCHANGED <<useCrc, off, block>>
        /\ down' = <<>> /\ up # <<>>
        /\ \/ up' = Tail(up)
           \/ \E n \in conditions.noise : /\ up' = [up EXCEPT ![1] = n]
                                          /\ n # NAK
    BY <1>1, <1>9, LineAt DEF stub
  <2>2. conditions.noise \in SUBSET (0 .. 255)
    BY ConditionsAssumption DEF Typed, GivenTyped
  <2>3. up' = <<>> \/ \E n \in Unit : up' = <<n>> /\ n # NAK
    <3>1. Tail(up) = <<>> /\ \A n : [up EXCEPT ![1] = n] = <<n>>
      BY <1>1, <2>1, AloneByte
    <3>2. \A n \in conditions.noise : n \in Unit
      BY <2>2, UnitsTyped
    <3> QED
      BY ONLY <2>1, <3>1, <3>2
  <2>4. Alone(up') /\ up' # <<NAK>>
    BY <2>3 DEF Alone
  <2> QED
    BY <1>3, <2>1, <2>4
<1> QED
  BY <1>5, <1>6, <1>7, <1>8, <1>9 DEF Next

(* In CRC mode the stub sends what the range has at its place. *)
LEMMA SentIsPacketAt ==
  ASSUME StubTyped, source \in {"memory", "deflate"}, pc \in {"send", "reply"},
         useCrc
  PROVE  BlockPacket = PacketAt(off, block)
<1>1. /\ BlockData \in Seq(0 .. 255) /\ Len(BlockData) = StxSize
      /\ \A i \in 1 .. StxSize :
           BlockData[i] = IF off + i <= Len(Image) THEN Image[off + i] ELSE 255
  BY BlockFacts DEF BlockSize
<1>2. BlockData = [i \in 1 .. BlockSize |-> BlockData[i]] /\ BlockSize = StxSize
  BY DEF BlockData, BlockSize
<1> HIDE DEF BlockData, BlockSize
<1>3. BlockData = [i \in 1 .. StxSize |->
                     IF off + i <= Len(Image) THEN Image[off + i] ELSE 255]
  BY <1>1, <1>2
<1> QED
  BY <1>3 DEF BlockPacket, PacketAt

(* The stub fills and sends the next block, or again the one that was not  *)
(* acknowledged, or EOT.                                                   *)
LEMMA FromStubsTurn ==
  ASSUME Typed, WholePackets, StubsTurn, Next
  PROVE  InTurn'
<1>1. /\ hpc = "marker" /\ packet = <<>> /\ pc \in {"fill", "send"} /\ useCrc
      /\ Fresh \/ (Taken /\ pc = "send")
      /\ up = <<>> /\ down = <<>>
  BY DEF StubsTurn, Ready
<1>2. result = "none" /\ StubTyped /\ source \in {"memory", "deflate"}
  BY <1>1, NoResult DEF Typed, GivenTyped
<1>3. ~HostWork /\ ~StubTimeout /\ ~Line
  BY <1>1, HostAt, StubsTime, LineAt DEF Probe!TakeMarker, Probe!TakeEot,
     Probe!TakeCancel, Probe!SkipByte, Probe!Gets
<1>4. CASE HostTimeout
  <2>1. /\ hpc' = "failed" /\ result' = "none" /\ up' = <<>>
    BY <1>1, <1>2, <1>4, HostsTime
  <2> QED
    BY <2>1 DEF InTurn, ProbeBack
<1>5. CASE StubWork
  <2>1. /\ hpc' = "marker" /\ packet' = <<>>
        /\ output' = output /\ expected' = expected
    BY <1>1, <1>5, StubAt DEF host
  <2>2. CASE pc = "fill"
    <3>1. /\ pc' \in {"fill", "send"} /\ useCrc' = useCrc /\ off' = off
          /\ block' = block /\ up' = <<>> /\ down' = <<>>
      BY <1>1, <1>5, <2>2, StubAt DEF FillPacket, NextPiece, StreamEnds
    <3>2. Fresh'
      BY <1>1, <2>1, <2>2, <3>1, Kept
    <3> QED
      BY <1>1, <2>1, <3>1, <3>2 DEF InTurn, StubsTurn, Ready
  <2>3. CASE SendEot
    <3>1. /\ pc' = "eot" /\ Chunk = 0 /\ up' = <<>> /\ down' = <<EOT>>
      BY <1>1, <2>3 DEF SendEot, Say
    <3>2. off = Len(Image)
      BY <1>2, <2>3, <3>1, BlockFacts DEF SendEot
    <3>3. Complete
      BY <1>1, <1>2, <3>2 DEF Fresh, Taken, StubTyped
    <3>4. Complete'
      BY <2>1, <3>3 DEF Complete
    <3> QED
      BY <2>1, <3>1, <3>4 DEF InTurn, EotComing, Ready
  <2>4. CASE SendBlock
    <3>1. /\ pc' = "reply" /\ useCrc' = useCrc /\ off' = off /\ block' = block
          /\ up' = <<>> /\ down' = <<>> \o BlockPacket
      BY <1>1, <2>4 DEF SendBlock
    <3>2. /\ BlockPacket = PacketAt(off, block) /\ BlockPacket \in Seq(Unit)
      BY <1>1, <1>2, <2>4, SentIsPacketAt, BlockPacketTyped DEF SendBlock
    <3>3. down' = PacketAt(off, block) /\ down' \in Seq(Unit)
      BY <3>1, <3>2, NothingAdded
    <3>4. (Fresh \/ Taken)'
      BY <1>1, <2>1, <3>1, Kept
    <3>5. Arrives(PacketAt(off, block))'
      <4>1. packet' = <<>> /\ PacketAt(off, block)' = down'
        BY <2>1, <3>1, <3>3 DEF PacketAt
      <4>2. Len(packet') = 0 /\ Len(down') \in Nat
        BY <3>3, <4>1
      <4> QED
        BY <4>1, <4>2 DEF Arrives, May
    <3> QED
      BY <1>1, <2>1, <3>1, <3>4, <3>5 DEF InTurn, PacketComing, Ready
  <2>5. CASE GivesUp
    <3>1. /\ pc' = "idle" /\ result' = "failed"
          /\ down' = Append(Append(<<>>, CAN), CAN)
      BY <1>1, <2>5 DEF GivesUp, Return, SayCancel
    <3> QED
      BY <2>1, <3>1, TwoCancels DEF InTurn, StubBack, Ready
  <2> QED
    BY <1>1, <1>5, <2>2, <2>3, <2>4, <2>5, StubAt
<1> QED
  BY <1>3, <1>4, <1>5 DEF Next

(* The reply reaches the stub, or does not, or something else does.        *)
LEMMA FromAnswered ==
  ASSUME Typed, WholePackets, Answered, Next
  PROVE  InTurn'
<1>1. /\ hpc = "marker" /\ packet = <<>> /\ pc = "reply" /\ useCrc
      /\ Fresh \/ Taken
      /\ Alone(up) /\ (up = <<ACK>> => Taken) /\ down = <<>>
  BY DEF Answered, Ready
<1>2. result = "none" /\ StubTyped /\ source \in {"memory", "deflate"}
  BY <1>1, NoResult DEF Typed, GivenTyped
<1>3. Alone(<<>>) /\ <<>> # <<ACK>>
  BY DEF Alone
<1>4. ASSUME UNCHANGED host, pc' \in {"reply", "send"},
             UNCHANGED <<useCrc, off, block>>, down' = <<>>,
             IF pc' = "send" THEN up' = <<>>
             ELSE Alone(up') /\ (up' = <<ACK>> => Taken)
      PROVE  InTurn'
  <2>1. output' = output /\ expected' = expected /\ hpc' = hpc /\ packet' = packet
    BY <1>4 DEF host
  <2>2. (Fresh => Fresh') /\ (Taken => Taken')
    BY <1>1, <1>4, <2>1, Kept
  <2>3. CASE pc' = "send"
    BY <1>1, <1>4, <2>1, <2>2, <2>3 DEF InTurn, StubsTurn, Ready
  <2>4. CASE pc' = "reply"
    BY <1>1, <1>4, <2>1, <2>2, <2>4 DEF InTurn, Answered, Ready, Alone
  <2> QED
    BY <1>4, <2>3, <2>4
<1>5. CASE StubWork
  <2>1. /\ hpc' = "marker" /\ packet' = <<>>
        /\ output' = output /\ expected' = expected /\ UNCHANGED host
    BY <1>1, <1>5, StubAt DEF host
  <2>2. up # <<>> => Tail(up) = <<>> /\ up = <<Head(up)>>
    BY <1>1, AloneByte
  <2>3. CASE Refused
    <3>1. /\ up # <<>> /\ up' = Tail(up) /\ pc' = "send"
          /\ UNCHANGED <<useCrc, off, block>> /\ down' = <<>>
      BY <1>1, <2>3 DEF Refused, HearsOther
    <3> QED
      BY <1>4, <2>1, <2>2, <3>1
  <2>4. CASE BlockCancelled
    <3>1. /\ pc' = "idle" /\ result' = "failed"
          /\ down' = <<>> \/ down' = Append(Append(<<>>, CAN), CAN)
      BY <1>1, <2>4 DEF BlockCancelled, HeedCancel, Return, SayCancel
    <3>2. \A i \in 1 .. Len(down') : down'[i] = CAN
      BY <3>1, TwoCancels
    <3> QED
      BY <2>1, <3>1, <3>2 DEF InTurn, StubBack, Ready
  <2>5. CASE BlockAcked
    <3>1. /\ up # <<>> /\ Head(up) = ACK /\ up' = Tail(up) /\ down' = <<>>
          /\ off' = off + Chunk /\ block' = Following(block)
          /\ useCrc' = useCrc /\ pc' \in {"fill", "send"}
      BY <1>1, <2>5 DEF BlockAcked, Hears, Advance, Continue
    <3>2. Taken /\ up' = <<>>
      BY <1>1, <2>2, <3>1
    <3>3. Fresh'
      <4>1. /\ expected = Following(block) /\ off < Len(Image)
            /\ Len(output) = off + StxSize
        BY <3>2 DEF Taken
      <4>2. /\ BlockSize = StxSize
            /\ off + Chunk = IF off + BlockSize < Len(Image)
                             THEN off + BlockSize ELSE Len(Image)
        BY <1>1, <1>2, BlockFacts DEF BlockSize
      <4>3. off \in Nat /\ StxSize \in Nat /\ Len(Image) \in Nat
        BY <1>2, Sizes DEF StubTyped
      <4>4. IF off' < Len(Image) THEN Len(output') = off'
            ELSE Len(output') >= Len(Image)
        BY <2>1, <3>1, <4>1, <4>2, <4>3
      <4> QED
        BY <2>1, <3>1, <4>1, <4>4 DEF Fresh, Complete
    <3> QED
      BY <1>1, <2>1, <3>1, <3>2, <3>3 DEF InTurn, StubsTurn, Ready
  <2> QED
    BY <1>1, <1>5, <2>3, <2>4, <2>5, StubAt
<1>6. ~HostWork
  BY <1>1, HostAt DEF Probe!TakeMarker, Probe!TakeEot, Probe!TakeCancel,
     Probe!SkipByte, Probe!Gets
<1>7. CASE StubTimeout
  BY <1>1, <1>4, <1>7, StubsTime
<1>8. CASE HostTimeout
  <2>1. /\ hpc' = "failed" /\ result' = "none" /\ pc' = "reply" /\ up' = up
    BY <1>1, <1>2, <1>8, HostsTime
  <2> QED
    BY <1>1, <2>1 DEF InTurn, ProbeBack, Alone
<1>9. CASE Line
  <2>1. /\ UNCHANGED host /\ pc' = "reply" /\ UNCHANGED <<useCrc, off, block>>
        /\ down' = <<>> /\ up # <<>>
        /\ \/ up' = Tail(up)
           \/ \E n \in conditions.noise : /\ up' = [up EXCEPT ![1] = n]
                                          /\ n # ACK
    BY <1>1, <1>9, LineAt DEF stub
  <2>2. conditions.noise \in SUBSET (0 .. 255)
    BY ConditionsAssumption DEF Typed, GivenTyped
  <2>3. up' = <<>> \/ \E n \in Unit : up' = <<n>> /\ n # ACK
    <3>1. Tail(up) = <<>> /\ \A n : [up EXCEPT ![1] = n] = <<n>>
      BY <1>1, <2>1, AloneByte
    <3>2. \A n \in conditions.noise : n \in Unit
      BY <2>2, UnitsTyped
    <3> QED
      BY ONLY <2>1, <3>1, <3>2
  <2>4. Alone(up') /\ up' # <<ACK>>
    BY <2>3 DEF Alone
  <2> QED
    BY <1>4, <2>1, <2>4
<1> QED
  BY <1>5, <1>6, <1>7, <1>8, <1>9 DEF Next

(* EOT reaches the probe, which has the range and ends. *)
LEMMA FromEotComing ==
  ASSUME Typed, WholePackets, EotComing, Next
  PROVE  InTurn'
<1>1. /\ hpc = "marker" /\ packet = <<>> /\ pc = "eot" /\ Complete
      /\ up = <<>> /\ down = <<EOT>>
  BY DEF EotComing, Ready
<1>2. result = "none"
  BY <1>1, NoResult
<1>3. Head(down) = EOT /\ down # <<>>
  BY <1>1
<1>4. ~StubWork /\ ~StubTimeout /\ ~Line
  BY <1>1, <1>3, StubAt, StubsTime, LineAt DEF EotAcked, Refused, Hears,
     HearsOther
<1>5. ASSUME hpc' \in {"ok", "failed"}, output' = output PROVE InTurn'
  <2>1. Complete'
    BY <1>1, <1>5 DEF Complete
  <2> QED
    BY <1>5, <2>1 DEF InTurn, ProbeBack
<1>6. CASE HostTimeout
  BY <1>5, <1>6, HostsTime
<1>7. CASE HostWork
  <2>1. Probe!TakeEot
    BY <1>1, <1>3, <1>7, HostAt, ProbeDefs DEF Probe!TakeMarker,
       Probe!TakeCancel, Probe!SkipByte, Probe!Gets, SOH, STX, EOT, CAN
  <2> QED
    BY <1>5, <2>1 DEF Probe!TakeEot
<1> QED
  BY <1>4, <1>6, <1>7 DEF Next

(* The stub has given up, and the probe hears of it or times out. *)
LEMMA FromStubBack ==
  ASSUME Typed, WholePackets, StubBack, Next
  PROVE  InTurn'
<1>1. /\ hpc = "marker" /\ packet = <<>> /\ pc = "idle" /\ result = "failed"
      /\ \A i \in 1 .. Len(down) : down[i] = CAN
  BY DEF StubBack, Ready
<1>2. ASSUME hpc' = hpc, packet' = packet, UNCHANGED stub, down' = down
      PROVE  InTurn'
  BY <1>1, <1>2 DEF InTurn, StubBack, Ready, stub
<1>3. CASE StubWork
  <2>1. DropByte /\ UNCHANGED host
    BY <1>1, <1>3, StubAt
  <2> QED
    BY <1>2, <2>1 DEF DropByte, host
<1>4. CASE HostWork
  <2>1. down # <<>> => Head(down) = CAN
    <3>1. down \in Seq(Unit)
      BY DEF Typed, LinesTyped
    <3> QED
      BY <1>1, <3>1, Shortened
  <2>2. Probe!TakeCancel /\ UNCHANGED stub
    BY <1>1, <1>4, <2>1, HostAt, ProbeDefs DEF Probe!TakeMarker,
       Probe!TakeEot, Probe!SkipByte, Probe!Gets, SOH, STX, EOT, CAN
  <2>3. hpc' = "failed" /\ pc' = "idle" /\ result' = "failed"
    BY <1>1, <2>2 DEF Probe!TakeCancel, stub
  <2> QED
    BY <2>3 DEF InTurn, ProbeBack
<1>5. ~StubTimeout
  BY <1>1, StubsTime
<1>6. CASE HostTimeout
  <2>1. hpc' = "failed" /\ pc' = "idle" /\ result' = "failed"
    BY <1>1, <1>6, HostsTime
  <2> QED
    BY <2>1 DEF InTurn, ProbeBack
<1>7. CASE Line
  <2>1. UNCHANGED stub /\ UNCHANGED host /\ down' = down
    BY <1>1, <1>7, LineAt
  <2> QED
    BY <1>2, <2>1 DEF host
<1> QED
  BY <1>3, <1>4, <1>5, <1>6, <1>7 DEF Next

(* The probe has ended, and the stub notices or tries in vain. *)
LEMMA FromProbeBack ==
  ASSUME Typed, WholePackets, ProbeBack, Next
  PROVE  InTurn'
<1>1. /\ hpc \in {"ok", "failed"} /\ (hpc = "ok" \/ result = "done" => Complete)
      /\ \/ Complete \/ pc = "idle" \/ up = <<>>
         \/ Alone(up) /\ pc \in {"start", "reply"}
  BY DEF ProbeBack
<1>2. ~HostWork /\ ~HostTimeout
  BY <1>1, HostAt, HostsTime
<1>3. hpc' = hpc /\ output' = output
  BY <1>2, StubAt, StubsTime, LineAt DEF Next, host
<1>4. CASE Complete
  <2>1. Complete'
    BY <1>3, <1>4 DEF Complete
  <2> QED
    BY <1>1, <1>3, <2>1 DEF InTurn, ProbeBack
<1>5. ASSUME ~Complete, result' = "done" => result = "done",
             \/ pc' = "idle" \/ up' = <<>>
             \/ Alone(up') /\ pc' \in {"start", "reply"}
      PROVE  InTurn'
  BY <1>1, <1>3, <1>5 DEF InTurn, ProbeBack, Alone
<1>6. CASE ~Complete /\ StubWork
  <2>1. CASE pc = "idle"
    <3>1. DropByte
      BY <1>6, <2>1, StubAt
    <3> QED
      BY <1>5, <1>6, <2>1, <3>1 DEF DropByte, stub
  <2>2. CASE pc # "idle" /\ up = <<>>
    <3>1. ~(ReceiverReady \/ ReceiverCancels \/ ReceiverUnclear \/ BlockAcked
            \/ BlockCancelled \/ EotAcked \/ Refused)
      BY <2>2 DEF ReceiverReady, ReceiverCancels, ReceiverUnclear, BlockAcked,
         BlockCancelled, EotAcked, Refused, Hears, HearsOther
    <3>2. GivesUp \/ FillPacket \/ NextPiece \/ StreamEnds \/ SendBlock \/ SendEot
      BY <1>6, <2>2, <3>1, StubAt DEF Typed, StubTyped
    <3>3. up' = up /\ (result' = result \/ result' = "failed")
      BY <3>2 DEF GivesUp, FillPacket, NextPiece, StreamEnds, SendBlock,
         SendEot, Return
    <3> QED
      BY <1>5, <1>6, <2>2, <3>3
  <2>3. CASE pc # "idle" /\ up # <<>>
    <3>1. Alone(up) /\ pc \in {"start", "reply"}
      BY <1>1, <1>6, <2>3
    <3>2. Tail(up) = <<>>
      BY <2>3, <3>1, AloneByte
    <3>3. CASE GivesUp
      <4>1. pc' = "idle" /\ result' = "failed"
        BY <3>3 DEF GivesUp, Return
      <4> QED
        BY <1>5, <1>6, <4>1
    <3>4. CASE ~GivesUp
      <4>1. \/ ReceiverReady \/ ReceiverCancels \/ ReceiverUnclear
            \/ BlockAcked \/ BlockCancelled \/ (Refused /\ pc = "reply")
        BY <1>6, <3>1, <3>4, StubAt
      <4>2. up' = Tail(up) /\ (result' = result \/ result' = "failed")
        BY <4>1 DEF ReceiverReady, ReceiverCancels, ReceiverUnclear,
           BlockAcked, BlockCancelled, Refused, Hears, HearsOther, HeedCancel,
           Return
      <4> QED
        BY <1>5, <1>6, <3>2, <4>2
    <3> QED
      BY <3>3, <3>4
  <2> QED
    BY <2>1, <2>2, <2>3
<1>7. CASE ~Complete /\ StubTimeout
  <2>1. up' = <<>> /\ result' = result
    BY <1>7, StubsTime
  <2> QED
    BY <1>5, <1>7, <2>1
<1>8. CASE ~Complete /\ Line
  <2>1. /\ UNCHANGED stub
        /\ \/ up # <<>> /\ up' = Tail(up)
           \/ up # <<>> /\ \E n \in conditions.noise : up' = [up EXCEPT ![1] = n]
      BY <1>1, <1>8, LineAt
  <2>2. pc' = pc /\ result' = result
    BY <2>1 DEF stub
  <2>3. CASE pc = "idle"
    BY <1>5, <1>8, <2>2, <2>3
  <2>4. CASE pc # "idle"
    <3>1. Alone(up) /\ pc \in {"start", "reply"} /\ up # <<>>
      BY <1>1, <1>8, <2>1, <2>4
    <3>2. Tail(up) = <<>> /\ \A n : [up EXCEPT ![1] = n] = <<n>>
      BY <3>1, AloneByte
    <3>3. conditions.noise \in SUBSET (0 .. 255)
      BY ConditionsAssumption DEF Typed, GivenTyped
    <3>4. \A n \in conditions.noise : n \in Unit
      BY <3>3, UnitsTyped
    <3>5. up' = <<>> \/ \E n \in Unit : up' = <<n>>
      BY ONLY <2>1, <3>2, <3>4
    <3>6. Alone(up')
      BY <3>5 DEF Alone
    <3> QED
      BY <1>5, <1>8, <2>2, <3>1, <3>6
  <2> QED
    BY <2>3, <2>4
<1> QED
  BY <1>2, <1>4, <1>6, <1>7, <1>8 DEF Next

-----------------------------------------------------------------------------
(* What a packet carries. *)
LEMMA PacketParts ==
  ASSUME NEW from \in 0 .. Len(Image) - 1, NEW number \in 0 .. NumberMod - 1
  PROVE  LET p == PacketAt(from, number) IN
         /\ p \in Seq(Unit) /\ Len(p) = StxSize + 4
         /\ p[1] = STX /\ p[2] = number
         /\ \A i \in 1 .. StxSize :
              p[3 + i] = IF from + i <= Len(Image) THEN Image[from + i] ELSE 255
<1> DEFINE f == [i \in 1 .. StxSize |->
                   IF from + i <= Len(Image) THEN Image[from + i] ELSE 255]
           head == <<STX, number, Inverse(number)>>
           sum == <<Crc(f)>>
           most == head \o f
           p == most \o sum
<1>1. StxSize \in Nat /\ from \in Nat /\ Len(Image) \in Nat
  BY Sizes
<1>2. f \in Seq(0 .. 255) /\ Len(f) = StxSize
      /\ \A i \in 1 .. StxSize :
           f[i] = IF from + i <= Len(Image) THEN Image[from + i] ELSE 255
  <2>1. \A j \in 1 .. Len(Image) : Image[j] \in 0 .. 255
    BY Sizes, Elements
  <2>2. ASSUME NEW i \in 1 .. StxSize
        PROVE (IF from + i <= Len(Image) THEN Image[from + i] ELSE 255) \in 0 .. 255
    <3>1. from + i <= Len(Image) => from + i \in 1 .. Len(Image)
      BY <1>1
    <3> QED
      BY <2>1, <3>1
  <2>3. f \in [1 .. StxSize -> 0 .. 255]
    BY <2>2
  <2>4. \A i \in 1 .. StxSize :
          f[i] = IF from + i <= Len(Image) THEN Image[from + i] ELSE 255
    OBVIOUS
  <2> HIDE DEF f
  <2>5. f \in Seq(0 .. 255) /\ Len(f) = StxSize
    BY <1>1, <2>3
  <2> QED
    BY <2>4, <2>5
<1>3. PacketAt(from, number) = p
  BY DEF PacketAt, Packet
<1> HIDE DEF f
<1>4. f \in Seq(Unit)
  BY <1>2, BytesAreUnits
<1>5. /\ head \in Seq(Unit) /\ Len(head) = 3 /\ head[1] = STX /\ head[2] = number
  <2>1. STX \in Unit /\ number \in Unit /\ Inverse(number) \in Unit
    BY UnitsTyped DEF Controls
  <2> QED
    BY <2>1
<1>6. sum \in Seq(Unit) /\ Len(sum) = 1
  <2>1. Crc(f) \in Unit
    BY <1>2, UnitsTyped
  <2> QED
    BY <2>1
<1> HIDE DEF head, sum
<1>a. /\ most \in Seq(Unit) /\ Len(most) = Len(head) + Len(f)
      /\ \A i \in 1 .. Len(head) : most[i] = head[i]
      /\ \A i \in 1 .. Len(f) : most[Len(head) + i] = f[i]
  <2>1. head \in Seq(Unit) /\ f \in Seq(Unit) /\ most = head \o f
    BY <1>4, <1>5
  <2> HIDE DEF most
  <2> QED
    BY ONLY <2>1, Concatenation
<1> HIDE DEF most
<1>7. /\ most \in Seq(Unit) /\ Len(most) = 3 + StxSize
      /\ \A i \in 1 .. 3 : most[i] = head[i]
      /\ \A i \in 1 .. StxSize : most[3 + i] = f[i]
  BY <1>2, <1>5, <1>a
<1>b. /\ p \in Seq(Unit) /\ Len(p) = Len(most) + Len(sum)
      /\ \A i \in 1 .. Len(most) : p[i] = most[i]
  <2>1. most \in Seq(Unit) /\ sum \in Seq(Unit) /\ p = most \o sum
    BY <1>6, <1>7
  <2> HIDE DEF p
  <2> QED
    BY ONLY <2>1, Concatenation
<1> HIDE DEF p
<1>8. /\ p \in Seq(Unit) /\ Len(p) = 3 + StxSize + 1
      /\ \A i \in 1 .. 3 + StxSize : p[i] = most[i]
  BY <1>6, <1>7, <1>b
<1>9. p[1] = STX /\ p[2] = number
  BY <1>1, <1>5, <1>7, <1>8
<1>10. ASSUME NEW i \in 1 .. StxSize
       PROVE p[3 + i] = IF from + i <= Len(Image) THEN Image[from + i] ELSE 255
  <2>1. 3 + i \in 1 .. 3 + StxSize
    BY <1>1
  <2>2. p[3 + i] = most[3 + i]
    BY <1>8, <2>1, Zenon
  <2>3. most[3 + i] = f[i]
    BY <1>7, Zenon
  <2>4. f[i] = IF from + i <= Len(Image) THEN Image[from + i] ELSE 255
    BY <1>2, Zenon
  <2> QED
    BY <2>2, <2>3, <2>4, Zenon
<1> QED
  BY <1>1, <1>3, <1>8, <1>9, <1>10

(* A packet that has arrived as a whole and passes its test is the one     *)
(* that was sent.                                                          *)
LEMMA IntactIsSent ==
  ASSUME Typed, NEW from \in 0 .. Len(Image) - 1,
         NEW number \in 0 .. NumberMod - 1,
         Len(packet) = Len(PacketAt(from, number)),
         packet[1] = PacketAt(from, number)[1],
         \A i \in 1 .. Len(packet) : packet[i] \in May(PacketAt(from, number)[i]),
         Intact(packet)
  PROVE  packet = PacketAt(from, number)
<1> DEFINE p == PacketAt(from, number)
           noise == conditions.noise
           hits == {i \in 2 .. Len(p) : packet[i] # p[i]}
           hit == [i \in hits |-> packet[i]]
           copy == [i \in 1 .. Len(p) |-> IF i \in hits THEN hit[i] ELSE p[i]]
<1>1. packet \in Seq(Unit) /\ p \in Seq(Unit) /\ Len(p) \in Nat
  BY PacketParts DEF Typed, HostTyped
<1>2. /\ Len(packet) = Len(p) /\ packet[1] = p[1]
      /\ \A i \in 1 .. Len(p) : packet[i] = p[i] \/ packet[i] \in noise
  BY DEF May
<1>3. conditions \in Conditions
  BY DEF Typed, GivenTyped
<1>4. Damaged(from, number, noise) =
        UNION {{[i \in 1 .. Len(p) |-> IF i \in h THEN g[i] ELSE p[i]] :
                  g \in [h -> noise]} : h \in SUBSET (2 .. Len(p))}
  BY DEF Damaged
<1> HIDE DEF p, noise
<1>5. hits \in SUBSET (2 .. Len(p)) /\ hit \in [hits -> noise]
  BY <1>1, <1>2
<1>6. \A i \in 1 .. Len(p) : copy[i] = packet[i]
  <2> SUFFICES ASSUME NEW i \in 1 .. Len(p) PROVE copy[i] = packet[i]
    OBVIOUS
  <2>1. CASE i \in hits
    BY <2>1
  <2>2. CASE i \notin hits
    <3>1. packet[i] = p[i]
      BY <1>1, <1>2, <2>2
    <3> QED
      BY <2>2, <3>1
  <2> QED
    BY <2>1, <2>2
<1> HIDE DEF hits, hit
<1>7. copy \in Damaged(from, number, noise)
  <2> DEFINE With(h) == {[i \in 1 .. Len(p) |-> IF i \in h THEN g[i] ELSE p[i]] :
                           g \in [h -> noise]}
  <2>1. copy \in With(hits)
    BY <1>5, Zenon
  <2>2. Damaged(from, number, noise) = UNION {With(h) : h \in SUBSET (2 .. Len(p))}
    BY <1>4, Zenon
  <2> HIDE DEF copy, With
  <2> QED
    BY <1>5, <2>1, <2>2, Zenon
<1>8. copy = packet
  <2>1. packet = [i \in 1 .. Len(p) |-> packet[i]]
    BY <1>1, <1>2
  <2>2. copy = [i \in 1 .. Len(p) |-> copy[i]]
    OBVIOUS
  <2> HIDE DEF copy
  <2> QED
    BY <1>6, <2>1, <2>2
<1> HIDE DEF copy
<1> QED
  BY <1>3, <1>7, <1>8, DamageShows DEF p, noise

LEMMA ComingFacts ==
  ASSUME Typed, PacketComing
  PROVE  /\ off \in 0 .. Len(Image) - 1 /\ block \in 0 .. NumberMod - 1
         /\ packet \in Seq(Unit) /\ down \in Seq(Unit)
         /\ StxSize \in Nat \ {0}
         /\ PacketAt(off, block) \in Seq(Unit)
         /\ Len(PacketAt(off, block)) = StxSize + 4
         /\ PacketAt(off, block)[1] = STX
         /\ Len(packet) + Len(down) = StxSize + 4
         /\ packet # <<>> => /\ packet[1] = STX
                             /\ PacketLen(packet[1]) = StxSize + 4
<1>1. /\ off \in 0 .. Len(Image) /\ off < Len(Image)
      /\ block \in 0 .. NumberMod - 1
  BY DEF PacketComing, Typed, StubTyped, Staging
<1>2. off \in 0 .. Len(Image) - 1 /\ StxSize \in Nat \ {0}
  BY <1>1, Sizes
<1>3. packet \in Seq(Unit) /\ down \in Seq(Unit)
  BY DEF Typed, HostTyped, LinesTyped
<1>4. /\ PacketAt(off, block) \in Seq(Unit)
      /\ Len(PacketAt(off, block)) = StxSize + 4
      /\ PacketAt(off, block)[1] = STX
  BY <1>1, <1>2, PacketParts
<1>5. /\ Len(packet) + Len(down) = StxSize + 4
      /\ packet # <<>> => packet[1] = STX
  BY <1>4 DEF PacketComing, Arrives
<1>6. PacketLen(STX) = StxSize + 4
  BY DEF PacketLen, BlockLen
<1> QED
  BY <1>1, <1>2, <1>3, <1>4, <1>5, <1>6

(* When the probe has read all of it. *)
LEMMA WholeArrived ==
  ASSUME Typed, PacketComing, Probe!PacketComplete
  PROVE  /\ down = <<>>
         /\ Intact(packet) => /\ packet = PacketAt(off, block)
                              /\ packet[2] = block
<1> DEFINE p == PacketAt(off, block)
<1>1. packet # <<>> /\ Len(packet) = PacketLen(packet[1])
  BY ProbeDefs DEF Probe!PacketComplete, PacketComing, Ready
<1>2. /\ Len(packet) = Len(p) /\ Len(down) = 0 /\ packet[1] = p[1]
  BY <1>1, ComingFacts
<1>3. down = <<>>
  BY <1>2, ComingFacts
<1>4. \A i \in 1 .. Len(packet) : packet[i] \in May(p[i])
  BY DEF PacketComing, Arrives
<1>5. off \in 0 .. Len(Image) - 1 /\ block \in 0 .. NumberMod - 1
  BY ComingFacts
<1>6. p[2] = block
  BY <1>5, PacketParts
<1> QED
  BY <1>2, <1>3, <1>4, <1>5, <1>6, IntactIsSent

(* A block that is taken is the next one of the range. *)
LEMMA BlockTaken ==
  ASSUME Typed, PacketComing, Probe!TakeBlock
  PROVE  /\ expected = block /\ off < Len(Image) /\ Len(output) = off
         /\ Payload(packet) \in Seq(Unit) /\ Len(Payload(packet)) = StxSize
         /\ \A i \in 1 .. StxSize :
              Payload(packet)[i] = IF off + i <= Len(Image) THEN Image[off + i]
                                   ELSE 255
<1>1. /\ Probe!PacketComplete /\ Intact(packet) /\ packet[2] = expected
  BY ProbeDefs DEF Probe!TakeBlock
<1>2. packet = PacketAt(off, block) /\ packet[2] = block
  BY <1>1, WholeArrived
<1>3. off \in 0 .. Len(Image) - 1 /\ block \in 0 .. NumberMod - 1
      /\ StxSize \in Nat \ {0} /\ Len(Image) \in Nat
  BY ComingFacts, Sizes
<1>4. expected = block /\ off < Len(Image)
  BY <1>1, <1>2, <1>3
<1>5. Len(output) = off
  <2>1. Fresh
    BY <1>3, <1>4, Numbers DEF PacketComing, Taken
  <2> QED
    BY <1>4, <2>1 DEF Fresh
<1>6. /\ packet \in Seq(Unit) /\ Len(packet) = StxSize + 4
      /\ \A i \in 1 .. StxSize :
           packet[3 + i] = IF off + i <= Len(Image) THEN Image[off + i] ELSE 255
  BY <1>2, <1>3, PacketParts
<1>7. /\ SubSeq(packet, 4, Len(packet) - 1) \in Seq(Unit)
      /\ Len(SubSeq(packet, 4, Len(packet) - 1)) = StxSize
      /\ \A i \in 1 .. StxSize :
           SubSeq(packet, 4, Len(packet) - 1)[i] = packet[3 + i]
  BY <1>3, <1>6
<1> QED
  BY <1>4, <1>5, <1>6, <1>7 DEF Payload

(* The probe reads the packet and answers it. *)
LEMMA FromPacketComing ==
  ASSUME Typed, WholePackets, PacketComing, Next
  PROVE  InTurn'
<1> DEFINE p == PacketAt(off, block)
<1>1. /\ pc = "reply" /\ useCrc /\ up = <<>> /\ (Fresh \/ Taken)
      /\ (hpc = "packet" /\ packet # <<>>) \/ (hpc = "marker" /\ packet = <<>>)
  BY DEF PacketComing, Ready
<1>2. /\ off \in 0 .. Len(Image) - 1 /\ block \in 0 .. NumberMod - 1
      /\ packet \in Seq(Unit) /\ down \in Seq(Unit) /\ StxSize \in Nat \ {0}
      /\ p \in Seq(Unit) /\ Len(p) = StxSize + 4 /\ p[1] = STX
      /\ Len(packet) + Len(down) = Len(p)
      /\ packet # <<>> => packet[1] = STX /\ PacketLen(packet[1]) = Len(p)
  BY ComingFacts
<1>3. /\ \A i \in 1 .. Len(packet) : packet[i] \in May(p[i])
      /\ \A i \in 1 .. Len(down) : down[i] \in May(p[Len(packet) + i])
      /\ packet = <<>> => down[1] = p[1]
  BY DEF PacketComing, Arrives
<1>4. p = PacketAt(off, block)
  OBVIOUS
<1> HIDE DEF p
<1>5. ASSUME UNCHANGED stub, up' = up, hpc' = "packet", packet' # <<>>,
             output' = output, expected' = expected, conditions' = conditions,
             Len(packet') + Len(down') = Len(p), packet'[1] = p[1],
             \A i \in 1 .. Len(packet') : packet'[i] \in May(p[i]),
             \A i \in 1 .. Len(down') : down'[i] \in May(p[Len(packet') + i])
      PROVE  InTurn'
  <2>1. /\ pc' = "reply" /\ useCrc' /\ off' = off /\ block' = block /\ up' = <<>>
    BY <1>1, <1>5 DEF stub
  <2>2. (Fresh \/ Taken)'
    BY <1>1, <1>5, <2>1, Kept
  <2>3. Arrives(PacketAt(off, block))'
    BY <1>4, <1>5, <2>1 DEF Arrives, May
  <2> QED
    BY <1>5, <2>1, <2>2, <2>3 DEF InTurn, PacketComing
<1>6. ASSUME UNCHANGED stub, hpc' = "marker", packet' = <<>>, down' = <<>>,
             up' = <<NAK>> \/ (up' = <<ACK>> /\ Taken'), (Fresh \/ Taken)'
      PROVE  InTurn'
  <2>1. /\ pc' = "reply" /\ useCrc'
    BY <1>1, <1>6 DEF stub
  <2>2. ACK \in Unit /\ NAK \in Unit /\ <<NAK>> # <<ACK>>
    BY UnitsTyped DEF Controls, NAK, ACK
  <2>3. Alone(up') /\ (up' = <<ACK>> => Taken')
    BY <1>6, <2>2 DEF Alone
  <2> QED
    BY <1>6, <2>1, <2>3 DEF InTurn, Answered, Ready, Alone
<1>7. ~StubWork
  BY <1>1, StubAt DEF BlockAcked, BlockCancelled, Refused, Hears, HearsOther
<1>8. ~StubTimeout
  <2> SUFFICES ASSUME StubTimeout PROVE FALSE
    OBVIOUS
  <2>1. down = <<>> /\ ~Probe!PacketComplete
    BY <1>1, StubsTime
  <2>2. Len(packet) = Len(p) /\ packet # <<>>
    BY <1>2, <2>1
  <2> QED
    BY <1>1, <1>2, <2>1, <2>2, ProbeDefs DEF Probe!PacketComplete
<1>9. CASE HostTimeout
  <2>1. hpc' = "failed" /\ up' = <<>> /\ result' = "none"
    BY <1>1, <1>9, HostsTime, NoResult
  <2> QED
    BY <2>1 DEF InTurn, ProbeBack
<1>10. CASE Line
  <2>1. /\ UNCHANGED stub /\ UNCHANGED host /\ UNCHANGED given
        /\ hpc = "packet" /\ down # <<>> /\ up' = up
        /\ \E n \in conditions.noise : down' = [down EXCEPT ![1] = n]
    BY <1>1, <1>10, LineAt
  <2>2. PICK n \in conditions.noise : down' = [down EXCEPT ![1] = n]
    BY <2>1
  <2>3. n \in Unit
    <3>1. conditions.noise \in SUBSET (0 .. 255)
      BY ConditionsAssumption DEF Typed, GivenTyped
    <3> QED
      BY <3>1, UnitsTyped
  <2>4. /\ Len(down') = Len(down)
        /\ \A i \in 1 .. Len(down) : down'[i] = IF i = 1 THEN n ELSE down[i]
    BY <1>2, <2>2, <2>3, HeadReplaced
  <2>5. \A i \in 1 .. Len(down') : down'[i] \in May(p[Len(packet) + i])
    BY <1>3, <2>4 DEF May
  <2> QED
    BY <1>1, <1>2, <1>3, <1>5, <2>1, <2>4, <2>5 DEF host, given
<1>11. CASE HostWork
  <2>1. UNCHANGED stub /\ conditions' = conditions
    BY <1>11, HostAt DEF given
  <2>2. off' = off /\ block' = block
    BY <2>1 DEF stub
  <2>3. CASE hpc = "marker"
    <3>1. packet = <<>> /\ down # <<>> /\ Head(down) = STX /\ down[1] = p[1]
          /\ Len(packet) = 0 /\ Len(down) = Len(p)
      <4>1. packet = <<>> /\ Len(packet) = 0 /\ down[1] = p[1]
        BY <1>1, <1>3, <2>3
      <4>2. down # <<>>
        BY <1>2, <4>1
      <4> QED
        BY <1>2, <4>1, <4>2, Shortened
    <3>2. Probe!TakeMarker
      BY <1>11, <2>3, <3>1, HostAt, ProbeDefs DEF Probe!TakeEot,
         Probe!TakeCancel, Probe!SkipByte, Probe!Gets, SOH, STX, EOT, CAN
    <3>3. /\ packet' = <<STX>> /\ hpc' = "packet" /\ down' = Tail(down)
          /\ up' = up /\ output' = output /\ expected' = expected
      BY <3>1, <3>2, ProbeDefs DEF Probe!TakeMarker, Probe!Gets
    <3>4. /\ Len(Tail(down)) = Len(down) - 1
          /\ \A i \in 1 .. Len(Tail(down)) : Tail(down)[i] = down[i + 1]
      BY <1>2, <3>1, Shortened
    <3>5. Len(packet') = 1 /\ packet'[1] = p[1] /\ packet' # <<>>
      BY <1>2, <3>3
    <3>6. Len(packet') + Len(down') = Len(p)
      BY <1>2, <3>1, <3>3, <3>4, <3>5
    <3>7. \A i \in 1 .. Len(packet') : packet'[i] \in May(p[i])
      BY <3>5 DEF May
    <3>8. \A i \in 1 .. Len(down') : down'[i] \in May(p[Len(packet') + i])
      <4> SUFFICES ASSUME NEW i \in 1 .. Len(Tail(down))
                   PROVE  Tail(down)[i] \in May(p[1 + i])
        BY <3>3, <3>5
      <4>1. i + 1 \in 1 .. Len(down) /\ Len(packet) + (i + 1) = 1 + i
        BY <1>2, <3>1, <3>4
      <4> QED
        BY <1>3, <3>4, <4>1
    <3> QED
      BY <1>5, <2>1, <3>3, <3>5, <3>6, <3>7, <3>8
  <2>4. CASE Probe!TakeByte
    <3>1. /\ hpc = "packet" /\ down # <<>> /\ packet' = Append(packet, Head(down))
          /\ down' = Tail(down) /\ hpc' = hpc /\ up' = up
          /\ output' = output /\ expected' = expected
      BY <2>4 DEF Probe!TakeByte
    <3>2. /\ Head(down) = down[1] /\ Len(down) \in Nat \ {0}
          /\ Head(down) \in Unit
          /\ Len(Tail(down)) = Len(down) - 1
          /\ \A i \in 1 .. Len(Tail(down)) : Tail(down)[i] = down[i + 1]
      BY <1>2, <3>1, Shortened
    <3>3. packet # <<>> /\ Len(packet) \in Nat \ {0} /\ packet[1] = p[1]
      BY <1>1, <1>2, <3>1
    <3>4. /\ Len(packet') = Len(packet) + 1 /\ packet'[Len(packet) + 1] = down[1]
          /\ \A i \in 1 .. Len(packet) : packet'[i] = packet[i]
          /\ packet' # <<>>
      BY <1>2, <3>1, <3>2
    <3>5. Len(packet') + Len(down') = Len(p) /\ packet'[1] = p[1]
      BY <1>2, <3>1, <3>2, <3>3, <3>4
    <3>6. \A i \in 1 .. Len(packet') : packet'[i] \in May(p[i])
      <4> SUFFICES ASSUME NEW i \in 1 .. Len(packet')
                   PROVE  packet'[i] \in May(p[i])
        OBVIOUS
      <4>1. CASE i \in 1 .. Len(packet)
        BY <1>3, <3>4, <4>1
      <4>2. CASE i = Len(packet) + 1
        <5>1. down[1] \in May(p[Len(packet) + 1])
          BY <1>3, <3>2
        <5> QED
          BY <3>4, <4>2, <5>1
      <4> QED
        BY <3>3, <3>4, <4>1, <4>2
    <3>7. \A i \in 1 .. Len(down') : down'[i] \in May(p[Len(packet') + i])
      <4> SUFFICES ASSUME NEW i \in 1 .. Len(Tail(down))
                   PROVE  Tail(down)[i] \in May(p[Len(packet) + 1 + i])
        BY <3>1, <3>4
      <4>1. i + 1 \in 1 .. Len(down)
            /\ Len(packet) + (i + 1) = Len(packet) + 1 + i
        BY <3>2, <3>3
      <4> QED
        BY <1>3, <3>2, <4>1
    <3> QED
      BY <1>5, <2>1, <3>1, <3>4, <3>5, <3>6, <3>7
  <2>5. CASE Probe!RefuseDamaged
    <3>1. /\ Probe!PacketComplete /\ hpc' = "marker" /\ packet' = <<>>
          /\ down' = down /\ output' = output /\ expected' = expected
          /\ up' = <<NAK>>
      BY <1>1, <2>5, ProbeDefs DEF Probe!RefuseDamaged, Probe!Answer,
         Probe!NextMarker
    <3>2. down' = <<>>
      BY <3>1, WholeArrived
    <3>3. (Fresh \/ Taken)'
      BY <1>1, <2>2, <3>1, Kept
    <3> QED
      BY <1>6, <2>1, <3>1, <3>2, <3>3
  <2>6. CASE Probe!TakeBlock
    <3>1. /\ Probe!PacketComplete /\ hpc' = "marker" /\ packet' = <<>>
          /\ down' = down /\ output' = output \o Payload(packet)
          /\ expected' = Following(expected) /\ up' = <<ACK>>
      BY <1>1, <2>6, ProbeDefs DEF Probe!TakeBlock, Probe!Answer,
         Probe!NextMarker
    <3>2. down' = <<>>
      BY <3>1, WholeArrived
    <3>3. /\ expected = block /\ off < Len(Image) /\ Len(output) = off
          /\ Payload(packet) \in Seq(Unit) /\ Len(Payload(packet)) = StxSize
      BY <2>6, BlockTaken
    <3>4. Len(output') = off + StxSize
      <4>1. output \in Seq(Unit)
        BY DEF Typed, HostTyped
      <4> HIDE DEF Payload
      <4> QED
        BY <3>1, <3>3, <4>1, Concatenation
    <3>5. Taken'
      BY <2>2, <3>1, <3>3, <3>4 DEF Taken
    <3> QED
      BY <1>6, <2>1, <3>1, <3>2, <3>5
  <2>7. CASE Probe!TakeRepeated
    <3>1. /\ Probe!PacketComplete /\ hpc' = "marker" /\ packet' = <<>>
          /\ down' = down /\ output' = output /\ expected' = expected
          /\ up' = <<ACK>> /\ Intact(packet) /\ packet[2] = Previous(expected)
      BY <1>1, <2>7, ProbeDefs DEF Probe!TakeRepeated, Probe!Answer,
         Probe!NextMarker
    <3>2. down' = <<>> /\ block = Previous(expected)
      BY <3>1, WholeArrived
    <3>3. Taken
      BY <1>1, <1>2, <3>2, Numbers DEF Fresh
    <3>4. Taken'
      BY <2>2, <3>1, <3>3, Kept
    <3> QED
      BY <1>6, <2>1, <3>1, <3>2, <3>4
  <2>8. ~Probe!RefuseOutOfOrder
    <3> SUFFICES ASSUME Probe!RefuseOutOfOrder PROVE FALSE
      OBVIOUS
    <3>1. /\ Probe!PacketComplete /\ Intact(packet)
          /\ packet[2] # expected /\ packet[2] # Previous(expected)
      BY ProbeDefs DEF Probe!RefuseOutOfOrder
    <3>2. packet[2] = block
      BY <3>1, WholeArrived
    <3> QED
      BY <1>1, <1>2, <3>1, <3>2, Numbers DEF Fresh, Taken
  <2> QED
    BY <1>1, <1>11, <2>3, <2>4, <2>5, <2>6, <2>7, <2>8, HostAt
<1> QED
  BY <1>7, <1>8, <1>9, <1>10, <1>11 DEF Next

LEMMA TurnStep ==
  ASSUME Typed, WholePackets, InTurn, [Next]_vars
  PROVE  InTurn'
<1>1. CASE UNCHANGED vars
  BY <1>1, Stutters
<1>2. CASE Next
  BY <1>2, FromAsking, FromRequested, FromStubsTurn, FromPacketComing,
     FromAnswered, FromEotComing, FromStubBack, FromProbeBack DEF InTurn
<1> QED
  BY <1>1, <1>2

(* Only a block that is taken changes what the probe has. *)
LEMMA OrderStep ==
  ASSUME Typed, WholePackets, InTurn, TakesRangeInOrder, [Next]_vars
  PROVE  TakesRangeInOrder'
<1>1. CASE output' = output
  BY <1>1 DEF TakesRangeInOrder
<1>2. CASE output' # output
  <2>1. HostWork /\ Probe!TakeBlock
    BY <1>2, StubAt, StubsTime, HostsTime, LineAt DEF Next, vars, host,
       HostWork, Probe!Work, Probe!AskOnce, Probe!TakeMarker, Probe!TakeEot,
       Probe!TakeCancel, Probe!SkipByte, Probe!TakeByte, Probe!RefuseDamaged,
       Probe!TakeRepeated, Probe!RefuseOutOfOrder
  <2>2. hpc = "packet"
    BY <2>1 DEF Probe!TakeBlock, Probe!PacketComplete
  <2>3. PacketComing
    BY <2>2 DEF InTurn, Asking, Requested, StubsTurn, Answered, EotComing,
       StubBack, ProbeBack, Ready
  <2> DEFINE f == Payload(packet)
  <2>4. /\ Len(output) = off
        /\ f \in Seq(Unit) /\ Len(f) = StxSize
        /\ \A i \in 1 .. StxSize :
             f[i] = IF off + i <= Len(Image) THEN Image[off + i] ELSE 255
    BY <2>1, <2>3, BlockTaken
  <2>5. output' = output \o f
    BY <2>1, ProbeDefs DEF Probe!TakeBlock
  <2>6. output \in Seq(Unit) /\ off \in Nat /\ StxSize \in Nat
    BY Sizes DEF Typed, HostTyped, StubTyped
  <2> HIDE DEF f
  <2>7. /\ Len(output') = off + StxSize
        /\ \A i \in 1 .. off : output'[i] = output[i]
        /\ \A i \in 1 .. StxSize : output'[off + i] = f[i]
    <3>0. output \in Seq(Unit) /\ f \in Seq(Unit)
      BY <2>4, <2>6
    <3>1. /\ Len(output \o f) = Len(output) + Len(f)
          /\ \A i \in 1 .. Len(output) : (output \o f)[i] = output[i]
          /\ \A i \in 1 .. Len(f) : (output \o f)[Len(output) + i] = f[i]
      BY ONLY <3>0, Concatenation
    <3> QED
      BY <2>4, <2>5, <3>1
  <2>8. ASSUME NEW i \in 1 .. Len(output')
        PROVE  output'[i] = IF i <= Len(Image) THEN Image[i] ELSE 255
    <3>1. CASE i <= off
      <4>1. i \in 1 .. Len(output) /\ i \in 1 .. off
        BY <2>4, <2>6, <3>1
      <4> QED
        BY <2>7, <4>1 DEF TakesRangeInOrder
    <3>2. CASE off < i
      <4>1. i - off \in 1 .. StxSize /\ off + (i - off) = i
        BY <2>6, <2>7, <3>2
      <4>2. output'[i] = f[i - off]
        BY <2>7, <4>1
      <4> QED
        BY <2>4, <4>1, <4>2
    <3> QED
      BY <2>6, <3>1, <3>2
  <2> QED
    BY <2>8 DEF TakesRangeInOrder
<1> QED
  BY <1>1, <1>2

LEMMA ReadInTurn == Spec => []ReadInv
<1>1. Init => ReadInv
  <2> SUFFICES ASSUME Init PROVE ReadInv
    OBVIOUS
  <2>1. /\ hpc = "ask" /\ packet = <<>> /\ pc = "start" /\ tries = 0
        /\ up = <<>> /\ down = <<>> /\ useCrc = TRUE /\ output = <<>>
        /\ expected = block /\ off = 0
    BY DEF Init
  <2>2. Len(output) = 0 /\ Len(Image) \in Nat \ {0}
    BY <2>1, Sizes
  <2>3. Asking /\ TakesRangeInOrder
    BY <2>1, <2>2 DEF Asking, Fresh, TakesRangeInOrder
  <2> QED
    BY <2>3, TypedStart DEF ReadInv, InTurn
<1>2. ReadInv /\ [Next]_vars => ReadInv'
  <2> SUFFICES ASSUME ReadInv, [Next]_vars PROVE ReadInv'
    OBVIOUS
  <2>1. Typed /\ Typed'
    BY TypedStep DEF ReadInv
  <2>2. conditions' = conditions
    BY <2>1, StubStep
  <2>3. WholePackets' => WholePackets
    BY <2>2 DEF WholePackets
  <2> QED
    BY <2>1, <2>3, TurnStep, OrderStep DEF ReadInv
<1> QED
  BY <1>1, <1>2, PTL DEF Spec

(* As long as packets arrive whole, the probe takes each byte of the range *)
(* or of the stream once and in its place, whatever is damaged inside of a *)
(* packet, whichever replies are lost and whoever gives up: a copy of a    *)
(* block that it has is answered and not taken again.                      *)
THEOREM Order == Spec => [](WholePackets => TakesRangeInOrder)
<1>1. ReadInv => (WholePackets => TakesRangeInOrder)
  BY DEF ReadInv
<1> QED
  BY <1>1, ReadInTurn, PTL

(* A success that either side reports then means that the probe has all of *)
(* the range, after any number of faults.                                  *)
THEOREM Completeness ==
  Spec => [](WholePackets => /\ result = "done" \/ hpc = "ok"
                                  => Len(output) >= Len(Image)
                             /\ DoneMeansRead)
<1>1. ASSUME Typed, InTurn, result = "done" \/ hpc = "ok"
      PROVE  Complete
  <2>1. CASE ProbeBack
    BY <1>1, <2>1 DEF ProbeBack
  <2>2. CASE ~ProbeBack
    <3>1. hpc # "ok" /\ (pc # "idle" \/ result = "failed")
      BY <1>1, <2>2 DEF InTurn, Asking, Requested, StubsTurn, PacketComing,
         Answered, EotComing, StubBack, Ready
    <3> QED
      BY <1>1, <3>1, NoResult
  <2> QED
    BY <2>1, <2>2
<1>2. ReadInv => (WholePackets => /\ result = "done" \/ hpc = "ok"
                                       => Len(output) >= Len(Image)
                                  /\ DoneMeansRead)
  BY <1>1 DEF ReadInv, Complete, DoneMeansRead
<1> QED
  BY <1>2, ReadInTurn, PTL

=============================================================================
