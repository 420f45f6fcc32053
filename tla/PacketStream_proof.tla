------------------------- MODULE PacketStream_proof -------------------------
(***************************************************************************)
(* Theorems about PacketParser and PacketStream, for any length of the     *)
(* identification and any number of byte values: the parser implements     *)
(* FrameCollector, and at the end of the radio link it finds back to the   *)
(* frames and makes none up.                                               *)
(***************************************************************************)
EXTENDS PacketStream, SequenceTheorems, TLAPS

-----------------------------------------------------------------------------
(***************************************************************************)
(* In each state the buffer holds as many bytes as the counter says.       *)
(***************************************************************************)

ParserInv ==
    /\ ParserTypeOK
    /\ state \in {"WaitingForHead", "ReceivingSum", "ReceivingEnd"} => buffer = <<>>
    /\ state = "ReceivingId" =>
         Len(buffer) < IdLen /\ byteCount = 1 + Len(buffer) /\ packet.head = HeadByte
    /\ state = "ReceivingData" =>
         Len(buffer) < DataLen /\ byteCount = 1 + IdLen + Len(buffer)

LEMMA ByteFacts == 0 \in Byte /\ HeadByte \in Byte /\ IdLen \in Nat \ {0} /\ DataLen = 3
  BY PacketParserAssumption DEF Byte, DataLen

LEMMA AppendFacts ==
    ASSUME NEW q \in Seq(Byte), NEW b \in Byte
    PROVE  /\ Append(q, b) \in Seq(Byte)
           /\ Len(Append(q, b)) = Len(q) + 1
           /\ Append(q, b) = q \o <<b>>
           /\ Append(q, b) # <<>>
  OBVIOUS

LEMMA EmptyBuffer == <<>> \in Seq(Byte) /\ Len(<<>>) = 0
  BY EmptySeq

LEMMA TupleIsSeq ==
    ASSUME NEW n \in Nat, NEW f \in [1 .. n -> Byte]
    PROVE  f \in Seq(Byte) /\ Len(f) = n
  OBVIOUS

\* A buffer of the expected length goes into the packet as it is.
LEMMA SetWholeBuffer ==
    ASSUME NEW p \in PacketContent, NEW q \in Seq(Byte)
    PROVE  /\ Len(q) = IdLen => /\ SetIdentification(p, q) = [p EXCEPT !.id = q]
                                /\ SetIdentification(p, q) \in PacketContent
           /\ Len(q) = DataLen => /\ SetData(p, q) = [p EXCEPT !.data = q]
                                  /\ SetData(p, q) \in PacketContent
<1>1. SubSeq(q, 1, Len(q)) = q /\ q \in [1 .. Len(q) -> Byte] /\ Len(q) \in Nat
  BY SubSeqFull, LenProperties
<1>2. Len(q) = IdLen => SetIdentification(p, q) = [p EXCEPT !.id = q]
  BY <1>1, ByteFacts DEF SetIdentification
<1>3. Len(q) = IdLen => [p EXCEPT !.id = q] \in PacketContent
  BY <1>1 DEF PacketContent
<1>4. Len(q) = DataLen => SetData(p, q) = [p EXCEPT !.data = q]
  BY <1>1, ByteFacts DEF SetData
<1>5. Len(q) = DataLen => [p EXCEPT !.data = q] \in PacketContent
  BY <1>1 DEF PacketContent
<1>. QED
  BY <1>2, <1>3, <1>4, <1>5

LEMMA ParserInitInv == ParserInit => ParserInv
<1>. SUFFICES ASSUME ParserInit PROVE ParserInv
  OBVIOUS
<1>1. packet \in PacketContent
  BY ByteFacts DEF ParserInit, ClearedPacket, PacketContent
<1>2. buffer \in Seq(Byte)
  BY DEF ParserInit
<1>3. ParserTypeOK
  BY <1>1, <1>2 DEF ParserInit, ParserTypeOK, States
<1>. QED
  BY <1>3 DEF ParserInit, ParserInv

\* What parseByte returns is a Boolean.
LEMMA CompleteTyped ==
    ASSUME NEW b, ParseByte(b) PROVE complete' \in BOOLEAN
<1>1. WaitingForHead(b) => complete' \in BOOLEAN
  BY DEF WaitingForHead
<1>2. ReceivingId(b) => complete' \in BOOLEAN
  BY DEF ReceivingId, Receive
<1>3. ReceivingData(b) => complete' \in BOOLEAN
  BY DEF ReceivingData, Receive
<1>4. ReceivingSum(b) => complete' \in BOOLEAN
  BY DEF ReceivingSum
<1>5. ReceivingEnd(b) => complete' \in BOOLEAN
  BY DEF ReceivingEnd
<1>. QED
  BY <1>1, <1>2, <1>3, <1>4, <1>5 DEF ParseByte

LEMMA ParserStepInv == ParserInv /\ [ParserNext]_pvars => ParserInv'
<1>. SUFFICES ASSUME ParserInv, [ParserNext]_pvars PROVE ParserInv'
  OBVIOUS
<1>1. packet \in PacketContent /\ buffer \in Seq(Byte) /\ byteCount \in Nat
  BY DEF ParserInv, ParserTypeOK
<1>2. ASSUME NEW b \in Byte, WaitingForHead(b) PROVE ParserInv'
  <2>0. complete' \in BOOLEAN
    BY <1>2, CompleteTyped DEF ParseByte
  <2>1. packet' \in PacketContent
    BY <1>1, <1>2 DEF WaitingForHead, PacketContent
  <2>2. ParserTypeOK'
    <3>1. /\ state' \in States /\ buffer' \in Seq(Byte) /\ byteCount' \in Nat
      BY <1>1, <1>2 DEF WaitingForHead, States
    <3>. QED
      BY <2>0, <2>1, <3>1 DEF ParserTypeOK
  <2>3. buffer = <<>> /\ buffer' = <<>>
    BY <1>2 DEF WaitingForHead, ParserInv
  <2>4. state' = "ReceivingId" => packet'.head = HeadByte /\ byteCount' = 1
    BY <1>1, <1>2 DEF WaitingForHead, PacketContent
  <2>. QED
    BY <1>2, <2>2, <2>3, <2>4, EmptyBuffer, ByteFacts DEF WaitingForHead, ParserInv
<1>3. ASSUME NEW b \in Byte, ReceivingId(b) PROVE ParserInv'
  <2>0. complete' \in BOOLEAN
    BY <1>3, CompleteTyped DEF ParseByte
  <2>1. Len(buffer) \in Nat /\ Len(buffer) < IdLen /\ byteCount = 1 + Len(buffer)
        /\ packet.head = HeadByte
    BY <1>1, <1>3 DEF ReceivingId, ParserInv
  <2>2. CASE Len(buffer) + 1 = IdLen
    <3>1. /\ packet' = [packet EXCEPT !.id = Append(buffer, b)]
          /\ packet' \in PacketContent
          /\ state' = "ReceivingData" /\ buffer' = <<>> /\ byteCount' = 1 + IdLen
      <4>1. byteCount + 1 = 1 + IdLen /\ byteCount + 1 >= 1 + IdLen
        BY <2>1, <2>2, ByteFacts
      <4>2. /\ packet' = SetIdentification(packet, Append(buffer, b))
            /\ state' = "ReceivingData" /\ buffer' = <<>> /\ byteCount' = byteCount + 1
        BY <1>3, <4>1 DEF ReceivingId, Receive
      <4>. QED
        BY <1>1, <2>2, <4>1, <4>2, AppendFacts, SetWholeBuffer
    <3>2. ParserTypeOK'
      BY <1>1, <2>0, <3>1, EmptyBuffer, ByteFacts DEF ParserTypeOK, States
    <3>. QED
      BY <3>1, <3>2, EmptyBuffer, ByteFacts DEF ParserInv
  <2>3. CASE Len(buffer) + 1 # IdLen
    <3>1. /\ state' = "ReceivingId" /\ buffer' = Append(buffer, b)
          /\ byteCount' = byteCount + 1 /\ packet' = packet
      BY <1>1, <1>3, <2>1, <2>3, ByteFacts DEF ReceivingId, Receive
    <3>2. ParserTypeOK'
      BY <1>1, <2>0, <3>1, AppendFacts DEF ParserTypeOK, States
    <3>3. Len(buffer') = Len(buffer) + 1
      BY <1>1, <3>1, AppendFacts
    <3>. QED
      BY <2>1, <2>3, <3>1, <3>2, <3>3, ByteFacts DEF ParserInv
  <2>. QED
    BY <2>2, <2>3
<1>4. ASSUME NEW b \in Byte, ReceivingData(b) PROVE ParserInv'
  <2>0. complete' \in BOOLEAN
    BY <1>4, CompleteTyped DEF ParseByte
  <2>1. Len(buffer) \in Nat /\ Len(buffer) < DataLen /\ byteCount = 1 + IdLen + Len(buffer)
    BY <1>1, <1>4 DEF ReceivingData, ParserInv
  <2>2. CASE Len(buffer) + 1 = DataLen
    <3>1. /\ packet' \in PacketContent
          /\ state' = "ReceivingSum" /\ buffer' = <<>> /\ byteCount' \in Nat
      <4>1. byteCount + 1 >= 1 + IdLen + DataLen
        BY <2>1, <2>2, ByteFacts
      <4>2. /\ packet' = SetData(packet, Append(buffer, b))
            /\ state' = "ReceivingSum" /\ buffer' = <<>> /\ byteCount' = byteCount + 1
        BY <1>4, <4>1 DEF ReceivingData, Receive
      <4>3. Append(buffer, b) \in Seq(Byte) /\ Len(Append(buffer, b)) = DataLen
        BY <1>1, <2>2, AppendFacts
      <4>4. packet' \in PacketContent
        BY <1>1, <4>2, <4>3, SetWholeBuffer
      <4>5. byteCount' \in Nat
        BY <1>1, <4>2
      <4>. QED
        BY <4>2, <4>4, <4>5
    <3>2. ParserTypeOK'
      <4>1. state' \in States /\ buffer' \in Seq(Byte)
        BY <3>1, EmptyBuffer DEF States
      <4>. QED
        BY <2>0, <3>1, <4>1 DEF ParserTypeOK
    <3>. QED
      BY <3>1, <3>2 DEF ParserInv
  <2>3. CASE Len(buffer) + 1 # DataLen
    <3>1. /\ state' = "ReceivingData" /\ buffer' = Append(buffer, b)
          /\ byteCount' = byteCount + 1 /\ packet' = packet
      BY <1>1, <1>4, <2>1, <2>3, ByteFacts DEF ReceivingData, Receive
    <3>2. ParserTypeOK'
      BY <1>1, <2>0, <3>1, AppendFacts DEF ParserTypeOK, States
    <3>3. Len(buffer') = Len(buffer) + 1
      BY <1>1, <3>1, AppendFacts
    <3>. QED
      BY <2>1, <2>3, <3>1, <3>2, <3>3, ByteFacts DEF ParserInv
  <2>. QED
    BY <2>2, <2>3
<1>5. ASSUME NEW b \in Byte, ReceivingSum(b) PROVE ParserInv'
  <2>0. complete' \in BOOLEAN
    BY <1>5, CompleteTyped DEF ParseByte
  <2>1. packet' \in PacketContent
    BY <1>1, <1>5 DEF ReceivingSum, PacketContent
  <2>2. ParserTypeOK'
    <3>1. /\ state' \in States /\ buffer' \in Seq(Byte) /\ byteCount' \in Nat
      BY <1>1, <1>5 DEF ReceivingSum, States
    <3>. QED
      BY <2>0, <2>1, <3>1 DEF ParserTypeOK
  <2>. QED
    BY <1>5, <2>2 DEF ReceivingSum, ParserInv
<1>6. ASSUME NEW b \in Byte, ReceivingEnd(b) PROVE ParserInv'
  <2>0. complete' \in BOOLEAN
    BY <1>6, CompleteTyped DEF ParseByte
  <2>1. packet' \in PacketContent
    BY <1>1, <1>6, ByteFacts DEF ReceivingEnd, ClearedPacket, PacketContent
  <2>2. ParserTypeOK'
    <3>1. /\ state' = "WaitingForHead"
          /\ buffer' = buffer \/ buffer' = <<>>
          /\ byteCount' = byteCount \/ byteCount' = 0
      BY <1>6 DEF ReceivingEnd
    <3>2. state' \in States
      BY <3>1 DEF States
    <3>3. buffer' \in Seq(Byte)
      BY <1>1, <3>1, EmptyBuffer
    <3>4. byteCount' \in Nat
      BY <1>1, <3>1
    <3>. QED
      BY <2>0, <2>1, <3>2, <3>3, <3>4 DEF ParserTypeOK
  <2>. QED
    BY <1>6, <2>2 DEF ReceivingEnd, ParserInv
<1>7. CASE UNCHANGED pvars
  BY <1>7 DEF pvars, ParserInv, ParserTypeOK
<1>. QED
  BY <1>2, <1>3, <1>4, <1>5, <1>6, <1>7 DEF ParserNext, ParseByte

\* Every field of the packet keeps its length: no part ever takes more or
\* fewer bytes from the buffer than the packet has room for.
THEOREM ParserTypeCorrect == ParserSpec => []ParserTypeOK
<1>1. ParserInv => ParserTypeOK
  BY DEF ParserInv
<1>. QED
  BY <1>1, ParserInitInv, ParserStepInv, PTL DEF ParserSpec

-----------------------------------------------------------------------------
(***************************************************************************)
(* The refinement.  Collected is the abstract frame; each byte appends to  *)
(* it, skips, or finishes it.                                              *)
(***************************************************************************)

Collected == Filled \o buffer
Delivered == IF complete THEN Content ELSE <<>>

LEMMA ConcatAppend ==
    ASSUME NEW s \in Seq(Byte), NEW t \in Seq(Byte), NEW b \in Byte
    PROVE  s \o Append(t, b) = Append(s \o t, b)
<1>1. <<b>> \in Seq(Byte) /\ s \o t \in Seq(Byte)
  BY ConcatProperties
<1>. QED
  BY <1>1, AppendFacts, ConcatAssociative

\* The parts of a packet in the order of the frame, and their lengths.
Front(p) == <<p.head>> \o p.id
Parts(p) == <<p.head>> \o p.id \o p.data

LEMMA PartsTyped ==
    ASSUME NEW p \in PacketContent
    PROVE  /\ <<p.head>> \in Seq(Byte) /\ Len(<<p.head>>) = 1
           /\ Front(p) \in Seq(Byte) /\ Len(Front(p)) = 1 + IdLen
           /\ Parts(p) \in Seq(Byte) /\ Len(Parts(p)) = FrameLen - 2
           /\ Parts(p)[IdLen + 2] = p.data[1]
           /\ Parts(p)[IdLen + 3] = p.data[2]
           /\ Parts(p)[IdLen + 4] = p.data[3]
<1>1. p.head \in Byte /\ p.id \in [1 .. IdLen -> Byte] /\ p.data \in [1 .. DataLen -> Byte]
  BY DEF PacketContent
<1>2. <<p.head>> \in Seq(Byte) /\ Len(<<p.head>>) = 1
  BY <1>1
<1>3. p.id \in Seq(Byte) /\ Len(p.id) = IdLen
  BY <1>1, ByteFacts, TupleIsSeq
<1>4. p.data \in Seq(Byte) /\ Len(p.data) = 3
  BY <1>1, ByteFacts, TupleIsSeq
<1>5. Front(p) \in Seq(Byte) /\ Len(Front(p)) = 1 + IdLen
  BY <1>2, <1>3, ConcatProperties DEF Front
<1>6. Parts(p) = Front(p) \o p.data
  BY DEF Front, Parts
<1>7. /\ Parts(p) \in Seq(Byte) /\ Len(Parts(p)) = 1 + IdLen + 3
      /\ \A i \in 1 .. 1 + IdLen + 3 :
            Parts(p)[i] = IF i <= 1 + IdLen THEN Front(p)[i] ELSE p.data[i - (1 + IdLen)]
  <2>. DEFINE front == Front(p)
              data == p.data
  <2>1. /\ front \o data \in Seq(Byte)
        /\ Len(front \o data) = Len(front) + Len(data)
        /\ \A i \in 1 .. Len(front) + Len(data) :
             (front \o data)[i] = IF i <= Len(front) THEN front[i] ELSE data[i - Len(front)]
    BY <1>4, <1>5, ConcatProperties
  <2>. QED
    BY <1>4, <1>5, <1>6, <2>1
<1>8. ASSUME NEW i \in 2 .. 4 PROVE Parts(p)[IdLen + i] = p.data[i - 1]
  <2>1. IdLen + i \in 1 .. 1 + IdLen + 3
    BY ByteFacts
  <2>2. PICK j \in 1 .. 1 + IdLen + 3 : j = IdLen + i
    BY <2>1
  <2>3. Parts(p)[j] = IF j <= 1 + IdLen THEN Front(p)[j] ELSE p.data[j - (1 + IdLen)]
    BY <1>7
  <2>4. ~(j <= 1 + IdLen) /\ j - (1 + IdLen) = i - 1
    BY <2>2, ByteFacts
  <2>. QED
    BY <2>2, <2>3, <2>4
<1>9. /\ Parts(p)[IdLen + 2] = p.data[1]
      /\ Parts(p)[IdLen + 3] = p.data[2]
      /\ Parts(p)[IdLen + 4] = p.data[3]
  BY <1>8
<1>. QED
  BY <1>2, <1>5, <1>7, <1>9, ByteFacts DEF FrameLen

LEMMA ContentByte ==
    ASSUME NEW p \in PacketContent, NEW b \in Byte,
           NEW f, f = Append(Append(Parts(p), p.sum), b)
    PROVE  /\ Len(f) = FrameLen
           /\ ValidFrame(f) <=> ValidateChecksum(p) /\ b = 0
<1>1. p.sum \in Byte /\ Parts(p) \in Seq(Byte) /\ Len(Parts(p)) = IdLen + 4
      /\ FrameLen = IdLen + 6
  BY PartsTyped, ByteFacts DEF PacketContent, FrameLen
<1>2. /\ Append(Parts(p), p.sum) \in Seq(Byte) /\ Len(Append(Parts(p), p.sum)) = IdLen + 5
      /\ Append(Parts(p), p.sum)[IdLen + 5] = p.sum
      /\ \A i \in 1 .. IdLen + 4 : Append(Parts(p), p.sum)[i] = Parts(p)[i]
  BY <1>1, ByteFacts
<1>3. /\ Len(f) = IdLen + 6 /\ f[IdLen + 6] = b
      /\ \A i \in 1 .. IdLen + 5 : f[i] = Append(Parts(p), p.sum)[i]
  BY <1>2, ByteFacts
<1>4. f[IdLen + 5] = p.sum /\ \A i \in 1 .. IdLen + 4 : f[i] = Parts(p)[i]
  BY <1>2, <1>3, ByteFacts
<1>5. IdLen + 2 \in 1 .. IdLen + 4 /\ IdLen + 3 \in 1 .. IdLen + 4
      /\ IdLen + 4 \in 1 .. IdLen + 4
  BY ByteFacts
<1>6. f[IdLen + 2] = p.data[1] /\ f[IdLen + 3] = p.data[2] /\ f[IdLen + 4] = p.data[3]
  BY <1>4, <1>5, PartsTyped
<1>7. FrameLen - 1 = IdLen + 5
  BY <1>1, ByteFacts
<1>. QED
  BY <1>1, <1>3, <1>4, <1>6, <1>7 DEF ValidFrame, ValidateChecksum, Checksum

LEMMA CollectedByState ==
    ASSUME ParserInv
    PROVE  /\ packet \in PacketContent /\ buffer \in Seq(Byte)
           /\ Filled \in Seq(Byte)
           /\ state \in {"WaitingForHead", "ReceivingSum", "ReceivingEnd"} =>
                buffer = <<>> /\ Collected = Filled
           /\ state = "WaitingForHead" => Filled = <<>>
           /\ state = "ReceivingId"    => Filled = <<packet.head>>
           /\ state = "ReceivingData"  => Filled = Front(packet)
           /\ state = "ReceivingSum"   => Filled = Parts(packet)
           /\ state = "ReceivingEnd"   => Filled = Append(Parts(packet), packet.sum)
<1>1. packet \in PacketContent /\ buffer \in Seq(Byte) /\ state \in States
  BY DEF ParserInv, ParserTypeOK
<1>2. /\ state = "WaitingForHead" => Filled = <<>>
      /\ state = "ReceivingId"    => Filled = <<packet.head>>
      /\ state = "ReceivingData"  => Filled = Front(packet)
      /\ state = "ReceivingSum"   => Filled = Parts(packet)
      /\ state = "ReceivingEnd"   => Filled = Append(Parts(packet), packet.sum)
  BY DEF Filled, Front, Parts
<1>3. packet.sum \in Byte
  BY <1>1 DEF PacketContent
<1>4. Append(Parts(packet), packet.sum) \in Seq(Byte)
  BY <1>1, <1>3, PartsTyped, AppendFacts
<1>5. Filled \in Seq(Byte)
  BY <1>1, <1>2, <1>4, PartsTyped, EmptyBuffer DEF States
<1>6. state \in {"WaitingForHead", "ReceivingSum", "ReceivingEnd"} => buffer = <<>>
  BY DEF ParserInv
<1>7. Filled \o <<>> = Filled
  BY <1>5, ConcatEmptySeq
<1>. QED
  BY <1>1, <1>2, <1>5, <1>6, <1>7 DEF Collected

LEMMA CollectorInit == ParserInit => Collector!Init
<1>. SUFFICES ASSUME ParserInit PROVE Collector!Init
  OBVIOUS
<1>1. ParserInv
  BY ParserInitInv
<1>2. Collected = <<>>
  BY <1>1, CollectedByState DEF ParserInit
<1>3. Delivered = <<>>
  BY DEF ParserInit, Delivered
<1>. QED
  BY <1>2, <1>3 DEF Collector!Init, Collected, Delivered

\* What a step that completes no frame has to show: the byte was skipped, or
\* appended to a frame that has room for it.
LEMMA StepSkips ==
    ASSUME NEW b \in Byte, Collected = <<>>, b # HeadByte, Collected' = Collected,
           complete' = FALSE
    PROVE  Collector!Skip(b)
  BY DEF Collector!Skip, Collected

LEMMA StepCollects ==
    ASSUME NEW b \in Byte,
           IF Collected = <<>> THEN b = HeadByte ELSE Len(Collected) + 1 < FrameLen,
           Collected' = Append(Collected, b),
           complete' = FALSE
    PROVE  Collector!Collect(b)
  BY DEF Collector!Collect, Collected

LEMMA StepWaitingForHead ==
    ASSUME ParserInv, ParserInv', NEW b \in Byte, WaitingForHead(b)
    PROVE  Collector!Skip(b) \/ Collector!Collect(b)
<1>1. Collected = <<>> /\ complete' = FALSE
  BY CollectedByState DEF WaitingForHead
<1>2. CASE b # HeadByte
  <2>1. Collected' = Collected
    BY <1>2 DEF WaitingForHead, Collected, Filled
  <2>. QED
    BY <1>1, <1>2, <2>1, StepSkips
<1>3. CASE b = HeadByte
  <2>1. state' = "ReceivingId" /\ packet' = [packet EXCEPT !.head = b] /\ buffer' = <<>>
    BY <1>3, CollectedByState DEF WaitingForHead
  <2>2. packet'.head = b
    BY <2>1, CollectedByState DEF PacketContent
  <2>3. Collected' = <<b>>
    <3>1. Filled' = <<b>>
      BY <2>1, <2>2 DEF Filled
    <3>. QED
      BY <2>1, <3>1, ConcatEmptySeq, AppendFacts, EmptyBuffer DEF Collected
  <2>4. <<b>> = Append(<<>>, b)
    OBVIOUS
  <2>. QED
    BY <1>1, <1>3, <2>3, <2>4, StepCollects
<1>. QED
  BY <1>2, <1>3

\* A byte that goes to the buffer, or fills it and moves into the packet.
LEMMA StepBuffered ==
    ASSUME ParserInv, NEW b \in Byte, complete' = FALSE,
           state \in {"ReceivingId", "ReceivingData"},
           \/ Filled' = Filled /\ buffer' = Append(buffer, b)
           \/ Filled' = Filled \o Append(buffer, b) /\ buffer' = <<>>
    PROVE  Collector!Collect(b)
<1>1. /\ Filled \in Seq(Byte) /\ buffer \in Seq(Byte)
      /\ Append(buffer, b) \in Seq(Byte)
  BY CollectedByState, AppendFacts
<1>2. Filled \o Append(buffer, b) = Append(Collected, b)
  BY <1>1, ConcatAppend DEF Collected
<1>3. Filled \o Append(buffer, b) \in Seq(Byte)
  BY <1>1, ConcatProperties
<1>4. Collected' = Append(Collected, b)
  <2>1. CASE Filled' = Filled /\ buffer' = Append(buffer, b)
    BY <1>2, <2>1 DEF Collected
  <2>2. CASE Filled' = Filled \o Append(buffer, b) /\ buffer' = <<>>
    BY <1>2, <1>3, <2>2, ConcatEmptySeq DEF Collected
  <2>. QED
    BY <2>1, <2>2
<1>5. Len(Collected) = Len(Filled) + Len(buffer) /\ Collected \in Seq(Byte)
  BY <1>1, ConcatProperties DEF Collected
<1>6. Len(buffer) \in Nat
  BY <1>1, LenProperties
<1>7. Len(Collected) # 0 /\ Len(Collected) + 1 < FrameLen
  <2>1. CASE state = "ReceivingId"
    <3>1. Len(Filled) = 1 /\ Len(buffer) < IdLen
      BY <2>1, CollectedByState, PartsTyped DEF ParserInv
    <3>. QED
      BY <1>5, <1>6, <3>1, ByteFacts DEF FrameLen
  <2>2. CASE state = "ReceivingData"
    <3>1. Len(Filled) = 1 + IdLen /\ Len(buffer) < DataLen
      BY <2>2, CollectedByState, PartsTyped DEF ParserInv
    <3>. QED
      BY <1>5, <1>6, <3>1, ByteFacts DEF FrameLen
  <2>. QED
    BY <2>1, <2>2
<1>8. Collected # <<>>
  BY <1>7, EmptyBuffer
<1>. QED
  BY <1>4, <1>7, <1>8, StepCollects

LEMMA StepReceivingId ==
    ASSUME ParserInv, ParserInv', NEW b \in Byte, ReceivingId(b)
    PROVE  Collector!Collect(b)
<1>1. /\ complete' = FALSE /\ state = "ReceivingId" /\ Filled = <<packet.head>>
      /\ packet \in PacketContent /\ Append(buffer, b) \in Seq(Byte)
  BY CollectedByState, AppendFacts DEF ReceivingId, Receive
<1>2. CASE byteCount' < 1 + IdLen
  <2>1. byteCount + 1 \in Nat /\ byteCount' = byteCount + 1
    BY DEF ReceivingId, Receive, ParserInv, ParserTypeOK
  <2>2. state' = state /\ packet' = packet /\ buffer' = Append(buffer, b)
    BY <1>2, <2>1, ByteFacts DEF ReceivingId, Receive
  <2>3. Filled' = Filled
    BY <2>2 DEF Filled
  <2>. QED
    BY <1>1, <2>2, <2>3, StepBuffered
<1>3. CASE byteCount' >= 1 + IdLen
  <2>1. /\ packet' = SetIdentification(packet, Append(buffer, b))
        /\ state' = "ReceivingData" /\ buffer' = <<>>
    BY <1>3 DEF ReceivingId, Receive
  <2>2. Len(Append(buffer, b)) = IdLen
    <3>1. Len(buffer) \in Nat /\ Len(buffer) < IdLen /\ byteCount = 1 + Len(buffer)
          /\ Len(Append(buffer, b)) = Len(buffer) + 1
      BY <1>1, CollectedByState, LenProperties, AppendFacts DEF ParserInv
    <3>2. byteCount' = byteCount + 1
      BY DEF ReceivingId, Receive
    <3>. QED
      BY <1>3, <3>1, <3>2, ByteFacts
  <2>3. packet' = [packet EXCEPT !.id = Append(buffer, b)]
    BY <1>1, <2>1, <2>2, SetWholeBuffer
  <2>4. packet'.head = packet.head /\ packet'.id = Append(buffer, b)
    BY <1>1, <2>3 DEF PacketContent
  <2>5. Filled' = <<packet.head>> \o Append(buffer, b)
    BY <2>1, <2>4 DEF Filled
  <2>. QED
    BY <1>1, <2>1, <2>5, StepBuffered
<1>4. byteCount' \in Nat /\ IdLen \in Nat
  BY ByteFacts DEF ParserInv, ParserTypeOK
<1>. QED
  BY <1>2, <1>3, <1>4

LEMMA StepReceivingData ==
    ASSUME ParserInv, ParserInv', NEW b \in Byte, ReceivingData(b)
    PROVE  Collector!Collect(b)
<1>1. /\ complete' = FALSE /\ state = "ReceivingData" /\ Filled = Front(packet)
      /\ packet \in PacketContent /\ Append(buffer, b) \in Seq(Byte)
  BY CollectedByState, AppendFacts DEF ReceivingData, Receive
<1>2. CASE byteCount' < 1 + IdLen + DataLen
  <2>1. byteCount + 1 \in Nat /\ byteCount' = byteCount + 1
    BY DEF ReceivingData, Receive, ParserInv, ParserTypeOK
  <2>2. state' = state /\ packet' = packet /\ buffer' = Append(buffer, b)
    BY <1>2, <2>1, ByteFacts DEF ReceivingData, Receive
  <2>3. Filled' = Filled
    BY <2>2 DEF Filled
  <2>. QED
    BY <1>1, <2>2, <2>3, StepBuffered
<1>3. CASE byteCount' >= 1 + IdLen + DataLen
  <2>1. /\ packet' = SetData(packet, Append(buffer, b))
        /\ state' = "ReceivingSum" /\ buffer' = <<>>
    BY <1>3 DEF ReceivingData, Receive
  <2>2. Len(Append(buffer, b)) = DataLen
    <3>1. /\ Len(buffer) \in Nat /\ Len(buffer) < DataLen
          /\ byteCount = 1 + IdLen + Len(buffer)
          /\ Len(Append(buffer, b)) = Len(buffer) + 1
      BY <1>1, CollectedByState, LenProperties, AppendFacts DEF ParserInv
    <3>2. byteCount' = byteCount + 1
      BY DEF ReceivingData, Receive
    <3>. QED
      BY <1>3, <3>1, <3>2, ByteFacts
  <2>3. packet' = [packet EXCEPT !.data = Append(buffer, b)]
    BY <1>1, <2>1, <2>2, SetWholeBuffer
  <2>4. packet'.head = packet.head /\ packet'.id = packet.id
        /\ packet'.data = Append(buffer, b)
    BY <1>1, <2>3 DEF PacketContent
  <2>5. Filled' = Front(packet) \o Append(buffer, b)
    BY <2>1, <2>4 DEF Filled, Front
  <2>. QED
    BY <1>1, <2>1, <2>5, StepBuffered
<1>4. byteCount' \in Nat /\ IdLen \in Nat /\ DataLen \in Nat
  BY ByteFacts DEF ParserInv, ParserTypeOK
<1>. QED
  BY <1>2, <1>3, <1>4

LEMMA StepReceivingSum ==
    ASSUME ParserInv, ParserInv', NEW b \in Byte, ReceivingSum(b)
    PROVE  Collector!Collect(b)
<1>1. /\ packet \in PacketContent /\ Collected = Parts(packet)
      /\ state' = "ReceivingEnd" /\ packet' = [packet EXCEPT !.sum = b]
      /\ complete' = FALSE
  BY CollectedByState DEF ReceivingSum
<1>2. packet'.head = packet.head /\ packet'.id = packet.id /\ packet'.data = packet.data
      /\ packet'.sum = b
  BY <1>1 DEF PacketContent
<1>3. Parts(packet') = Parts(packet)
  BY <1>2 DEF Parts
<1>4. Filled' = Append(Parts(packet), b)
  BY <1>1, <1>2, <1>3 DEF Filled, Parts
<1>5. Collected' = Append(Collected, b)
  <2>1. buffer' = <<>> /\ Append(Parts(packet), b) \in Seq(Byte)
    BY <1>1, CollectedByState, PartsTyped, AppendFacts DEF ReceivingSum
  <2>. QED
    BY <1>1, <1>4, <2>1, ConcatEmptySeq DEF Collected
<1>6. Len(Collected) = FrameLen - 2 /\ FrameLen \in Nat /\ FrameLen > 2
  BY <1>1, PartsTyped, ByteFacts DEF FrameLen
<1>7. Collected # <<>> /\ Len(Collected) + 1 < FrameLen
  BY <1>6, EmptyBuffer
<1>. QED
  BY <1>1, <1>5, <1>7, StepCollects

LEMMA StepReceivingEnd ==
    ASSUME ParserInv, ParserInv', NEW b \in Byte, ReceivingEnd(b)
    PROVE  Collector!Finish(b)
<1>. DEFINE f == Append(Append(Parts(packet), packet.sum), b)
<1>1. /\ packet \in PacketContent
      /\ Collected = Append(Parts(packet), packet.sum)
      /\ state' = "WaitingForHead"
  BY CollectedByState DEF ReceivingEnd
<1>2. Len(f) = FrameLen /\ (ValidFrame(f) <=> ValidateChecksum(packet) /\ b = 0)
  BY <1>1, ContentByte
<1>3. Collected' = <<>>
  <2>1. buffer' = <<>>
    BY <1>1 DEF ParserInv
  <2>2. Filled' = <<>>
    BY <1>1 DEF Filled
  <2>. QED
    BY <2>1, <2>2, ConcatEmptySeq, EmptyBuffer DEF Collected
<1>4. Collected # <<>> /\ Len(Collected) + 1 = FrameLen
  <2>1. packet.sum \in Byte /\ Parts(packet) \in Seq(Byte)
    BY <1>1, PartsTyped DEF PacketContent
  <2>2. Collected \in Seq(Byte) /\ Len(Collected) = Len(Parts(packet)) + 1
        /\ Collected # <<>>
    BY <1>1, <2>1, AppendFacts
  <2>. QED
    BY <1>1, <2>2, PartsTyped, ByteFacts DEF FrameLen
<1>5. Delivered' = IF ValidFrame(f) THEN f ELSE <<>>
  <2>1. complete' <=> ValidFrame(f)
    BY <1>2 DEF ReceivingEnd
  <2>2. ASSUME complete' PROVE Content' = f
    <3>1. packet' = [packet EXCEPT !.end = b]
      BY <2>2 DEF ReceivingEnd
    <3>2. packet'.head = packet.head /\ packet'.id = packet.id /\ packet'.data = packet.data
          /\ packet'.sum = packet.sum /\ packet'.end = b
      BY <1>1, <3>1 DEF PacketContent
    <3>. QED
      BY <3>2 DEF Content, Parts
  <2>. HIDE DEF f
  <2>. QED
    BY <2>1, <2>2 DEF Delivered
<1>. QED
  BY <1>1, <1>3, <1>4, <1>5 DEF Collector!Finish, Collected, Delivered

\* The parser, whatever bytes it is fed, is the frame collector: it delivers
\* valid frames byte for byte and nothing else.
THEOREM ParserCollectsFrames == ParserSpec => CollectsFrames
<1>1. ParserInit => Collector!Init
  BY CollectorInit
<1>2. ParserInv /\ ParserInv' /\ [ParserNext]_pvars => [Collector!Next]_(Collector!fvars)
  <2>. SUFFICES ASSUME ParserInv, ParserInv', [ParserNext]_pvars
                PROVE  [Collector!Next]_(Collector!fvars)
    OBVIOUS
  <2>1. ASSUME NEW b \in Byte, ParseByte(b)
        PROVE  Collector!Skip(b) \/ Collector!Collect(b) \/ Collector!Finish(b)
    BY <2>1, StepWaitingForHead, StepReceivingId, StepReceivingData, StepReceivingSum,
       StepReceivingEnd DEF ParseByte
  <2>2. CASE UNCHANGED pvars
    BY <2>2 DEF pvars, Collector!fvars, Filled, Content
  <2>. QED
    BY <2>1, <2>2 DEF ParserNext, Collector!Next
<1>. QED
  BY <1>1, <1>2, ParserInitInv, ParserStepInv, PTL
  DEF ParserSpec, CollectsFrames, Collector!Spec

-----------------------------------------------------------------------------
(***************************************************************************)
(* The parser at the end of the link.  From here on it is only seen as the *)
(* collector: what matters of a byte is what it does to Collected.         *)
(***************************************************************************)

Skips(b) == Collected = <<>> /\ b # HeadByte /\ Collected' = <<>> /\ ~complete'

Collects(b) ==
    /\ IF Collected = <<>> THEN b = HeadByte ELSE Len(Collected) + 1 < FrameLen
    /\ Collected' = Append(Collected, b)
    /\ ~complete'

Finishes(b) ==
    /\ Collected # <<>>
    /\ Len(Collected) + 1 = FrameLen
    /\ Collected' = <<>>
    /\ complete' => ValidFrame(Append(Collected, b)) /\ Content' = Append(Collected, b)
    /\ ValidFrame(Append(Collected, b)) => complete'

LEMMA ContentNonempty ==
    ASSUME NEW p \in PacketContent
    PROVE  Append(Append(Parts(p), p.sum), p.end) # <<>>
<1>1. p.sum \in Byte /\ p.end \in Byte /\ Parts(p) \in Seq(Byte)
  BY PartsTyped DEF PacketContent
<1>2. Append(Parts(p), p.sum) \in Seq(Byte)
  BY <1>1, AppendFacts
<1>. QED
  BY <1>1, <1>2, AppendFacts

LEMMA ByteEffect ==
    ASSUME ParserInv, ParserInv', NEW b \in Byte, ParseByte(b)
    PROVE  Skips(b) \/ Collects(b) \/ Finishes(b)
<1>1. packet' \in PacketContent
  BY DEF ParserInv, ParserTypeOK
<1>2. Content' # <<>>
  <2>1. Append(Append(Parts(packet'), packet'.sum), packet'.end) # <<>>
    BY <1>1, ContentNonempty
  <2>. QED
    BY <2>1 DEF Content, Parts
<1>3. Delivered' = <<>> => ~complete'
  BY <1>2 DEF Delivered
<1>4. Collector!Skip(b) \/ Collector!Collect(b) \/ Collector!Finish(b)
  BY StepWaitingForHead, StepReceivingId, StepReceivingData, StepReceivingSum,
     StepReceivingEnd DEF ParseByte
<1>5. CASE Collector!Skip(b)
  BY <1>3, <1>5 DEF Collector!Skip, Skips, Collected, Delivered
<1>6. CASE Collector!Collect(b)
  BY <1>3, <1>6 DEF Collector!Collect, Collects, Collected, Delivered
<1>7. CASE Collector!Finish(b)
  <2>. DEFINE f == Append(Collected, b)
  <2>1. /\ Collected # <<>> /\ Len(Collected) + 1 = FrameLen /\ Collected' = <<>>
        /\ Delivered' = IF ValidFrame(f) THEN f ELSE <<>>
    BY <1>7 DEF Collector!Finish, Collected, Delivered
  <2>2. f # <<>>
    <3>1. Collected \in Seq(Byte)
      BY CollectedByState, ConcatProperties DEF Collected
    <3>. QED
      BY <3>1, AppendFacts
  <2>. HIDE DEF f
  <2>3. complete' => ValidFrame(f) /\ Content' = f
    BY <1>2, <2>1 DEF Delivered
  <2>4. ValidFrame(f) => complete'
    BY <2>1, <2>2 DEF Delivered
  <2>. USE DEF f
  <2>. QED
    BY <2>1, <2>3, <2>4 DEF Finishes
<1>. QED
  BY <1>4, <1>5, <1>6, <1>7

LEMMA CollectedTyped ==
    ASSUME ParserInv
    PROVE  Collected \in Seq(Byte) /\ Len(Collected) \in Nat
           /\ (Collected = <<>> <=> Len(Collected) = 0)
<1>1. Collected \in Seq(Byte)
  BY CollectedByState, ConcatProperties DEF Collected
<1>. QED
  BY <1>1, LenProperties, EmptySeq

\* A frame the transmitter sends, and the front parts of it.
LEMMA FrameFacts ==
    ASSUME NEW f \in Frames
    PROVE  /\ f \in Seq(Byte) /\ Len(f) = FrameLen /\ f[1] = HeadByte
           /\ ValidFrame(f) /\ f # <<>>
           /\ \A i \in 1 .. FrameLen : f[i] \in Byte
           /\ FrameLen \in Nat /\ FrameLen > 2
<1>1. f \in Seq(Byte) /\ Len(f) = FrameLen /\ f[1] = HeadByte /\ ValidFrame(f)
  BY PacketStreamAssumption
<1>2. FrameLen \in Nat /\ FrameLen > 2
  BY ByteFacts DEF FrameLen
<1>3. f # <<>>
  BY <1>1, <1>2, EmptySeq
<1>4. \A i \in 1 .. FrameLen : f[i] \in Byte
  BY <1>1, ElementOfSeq
<1>. QED
  BY <1>1, <1>2, <1>3, <1>4

LEMMA FrontOfFrame ==
    ASSUME NEW f \in Frames, NEW n \in 0 .. FrameLen - 1
    PROVE  /\ Len(SubSeq(f, 1, n)) = n
           /\ Append(SubSeq(f, 1, n), f[n + 1]) = SubSeq(f, 1, n + 1)
           /\ SubSeq(f, 1, 0) = <<>>
           /\ SubSeq(f, 1, FrameLen) = f
<1>1. f \in Seq(Byte) /\ Len(f) = FrameLen /\ FrameLen \in Nat
      /\ \A i \in 1 .. FrameLen : f[i] \in Byte
  BY FrameFacts
<1>2. n \in Int /\ 1 \in Int /\ \A i \in 1 .. n : f[i] \in Byte
  BY <1>1
<1>3. /\ SubSeq(f, 1, n) \in Seq(Byte)
      /\ Len(SubSeq(f, 1, n)) = n
  <2>1. /\ SubSeq(f, 1, n) \in Seq(Byte)
        /\ Len(SubSeq(f, 1, n)) = IF 1 <= n THEN n - 1 + 1 ELSE 0
    BY <1>2, SubSeqProperties
  <2>. QED
    BY <2>1
<1>4. Append(SubSeq(f, 1, n), f[n + 1]) = SubSeq(f, 1, n + 1)
  <2>1. n + 1 \in 1 .. Len(f) /\ 1 \in 1 .. Len(f) /\ n + 1 - 1 = n
    BY <1>1
  <2>2. SubSeq(f, 1, n + 1) = SubSeq(f, 1, n + 1 - 1) \o <<f[n + 1]>>
    BY <1>1, <2>1, SubSeqRecursiveSecond
  <2>3. f[n + 1] \in Byte
    BY <1>1, <2>1
  <2>. QED
    BY <1>3, <2>1, <2>2, <2>3, AppendFacts
<1>5. SubSeq(f, 1, 0) = <<>>
  BY SubSeqEmpty
<1>6. SubSeq(f, 1, FrameLen) = f
  BY <1>1, SubSeqFull
<1>. QED
  BY <1>3, <1>4, <1>5, <1>6

-----------------------------------------------------------------------------
(***************************************************************************)
(* Type correctness of the stream.                                         *)
(***************************************************************************)

StreamTyped == ParserInv /\ StreamTypeOK

LEMMA NextByte ==
    ASSUME StreamTypeOK, sending # <<>>, pos < FrameLen
    PROVE  sending \in Frames /\ pos + 1 \in 1 .. FrameLen /\ sending[pos + 1] \in Byte
<1>1. sending \in Frames
  BY DEF StreamTypeOK
<1>2. pos + 1 \in 1 .. FrameLen
  BY <1>1, FrameFacts DEF StreamTypeOK
<1>. QED
  BY <1>1, <1>2, FrameFacts

LEMMA StreamParses ==
    ASSUME StreamTyped, StreamNext PROVE [ParserNext]_pvars
<1>1. CASE Send
  <2>1. sending[pos + 1] \in Byte /\ ParseByte(sending[pos + 1])
    BY <1>1, NextByte DEF Send, StreamTyped
  <2>. QED
    BY <2>1 DEF ParserNext
<1>2. CASE (\E b \in Byte : Noise(b)) \/ TuneIn \/ Lose \/ NextFrame
  BY <1>2 DEF Noise, TuneIn, Lose, NextFrame, ParserNext
<1>. QED
  BY <1>1, <1>2 DEF StreamNext

LEMMA LengthFacts == FrameLen \in Nat /\ FrameLen > 2 /\ Gap \in Nat
  BY ByteFacts, PacketStreamAssumption DEF FrameLen

LEMMA StreamTypedInit == StreamInit => StreamTyped
<1>. SUFFICES ASSUME StreamInit PROVE StreamTyped
  OBVIOUS
<1>1. ParserInv /\ ParserTypeOK
  BY ParserInitInv DEF StreamInit, ParserInv
<1>2. noise \in BOOLEAN
  BY DEF StreamInit
<1>3. pos \in 0 .. FrameLen /\ intact \in 0 .. Gap /\ sending \in Frames \cup {<<>>}
  BY LengthFacts DEF StreamInit
<1>. QED
  BY <1>1, <1>2, <1>3 DEF StreamTyped, StreamTypeOK

LEMMA StreamTypedStep == StreamTyped /\ [StreamNext]_svars => StreamTyped'
<1>. SUFFICES ASSUME StreamTyped, [StreamNext]_svars PROVE StreamTyped'
  OBVIOUS
<1>1. ParserInv'
  <2>1. [ParserNext]_pvars
    BY StreamParses DEF svars
  <2>. QED
    BY <2>1, ParserStepInv DEF StreamTyped
<1>2. /\ noise \in BOOLEAN /\ sending \in Frames \cup {<<>>}
      /\ pos \in 0 .. FrameLen /\ intact \in 0 .. Gap
  BY DEF StreamTyped, StreamTypeOK
<1>3. noise' \in BOOLEAN
  BY <1>2 DEF StreamNext, Noise, TuneIn, Send, Lose, NextFrame, svars
<1>4. sending' \in Frames \cup {<<>>}
  BY <1>2 DEF StreamNext, Noise, TuneIn, Send, Lose, NextFrame, svars
<1>5. pos' \in 0 .. FrameLen
  <2>1. CASE pos' = pos \/ pos' = 0 \/ pos' \in 0 .. FrameLen - 1
    BY <1>2, <2>1, LengthFacts
  <2>2. CASE pos < FrameLen /\ pos' = pos + 1
    BY <1>2, <2>2, LengthFacts
  <2>. QED
    BY <2>1, <2>2 DEF StreamNext, Noise, TuneIn, Send, Lose, NextFrame, svars
<1>6. intact' \in 0 .. Gap
  <2>1. CASE intact' = intact \/ intact' = 0
    BY <1>2, <2>1, LengthFacts
  <2>2. CASE intact' = IF intact < Gap THEN intact + 1 ELSE Gap
    BY <1>2, <2>2, LengthFacts
  <2>. QED
    BY <2>1, <2>2 DEF StreamNext, Noise, TuneIn, Send, Lose, NextFrame, svars
<1>. QED
  BY <1>1, <1>3, <1>4, <1>5, <1>6 DEF StreamTyped, StreamTypeOK, ParserInv

\* Parser, transmitter and the count of undisturbed bytes keep their types.
THEOREM StreamTypeCorrect == StreamSpec => []StreamTypeOK
<1>1. StreamTyped => StreamTypeOK
  BY DEF StreamTyped
<1>. QED
  BY <1>1, StreamTypedInit, StreamTypedStep, PTL DEF StreamSpec

\* The parser is the frame collector here as well, whatever is sent and lost.
THEOREM StreamCollectsFrames == StreamSpec => CollectsFrames
<1>1. StreamInit => ParserInit
  BY DEF StreamInit
<1>2. StreamTyped /\ [StreamNext]_svars => [ParserNext]_pvars
  BY StreamParses DEF svars
<1>3. StreamSpec => ParserSpec
  BY <1>1, <1>2, StreamTypedInit, StreamTypedStep, PTL DEF StreamSpec, ParserSpec
<1>. QED
  BY <1>3, ParserCollectsFrames

-----------------------------------------------------------------------------
(***************************************************************************)
(* Resynchronisation.  Within a frame that has come through so far, the    *)
(* parser skips, is in step, or still collects a frame it began earlier.   *)
(* The last ends within that frame, so the next one finds the parser       *)
(* skipping and takes it into step.                                        *)
(***************************************************************************)

InStep ==
    IF pos < FrameLen THEN Collected = SubSeq(sending, 1, pos)
    ELSE Collected = <<>> /\ complete /\ Content = sending

Regaining ==
    /\ intact >= pos /\ pos < FrameLen =>
         \/ Collected = <<>>
         \/ Collected = SubSeq(sending, 1, pos)
         \/ Len(Collected) > pos
    /\ intact >= pos /\ pos = FrameLen => Collected = <<>>

StreamInv ==
    /\ StreamTyped
    /\ sending = <<>> => intact = 0 /\ pos = 0
    /\ HeadOnlyInFront /\ sending # <<>> =>
         /\ Regaining
         /\ intact >= pos + FrameLen => InStep

\* A byte of a frame of which the parser has collected all before it.
LEMMA InStepByte ==
    ASSUME StreamTyped, ParserInv', Send, Collected = SubSeq(sending, 1, pos)
    PROVE  /\ pos + 1 < FrameLen =>
                Collected' = SubSeq(sending, 1, pos + 1) /\ ~complete'
           /\ pos + 1 = FrameLen =>
                Collected' = <<>> /\ complete' /\ Content' = sending
<1>. DEFINE b == sending[pos + 1]
<1>1. /\ sending \in Frames /\ b \in Byte /\ ParseByte(b)
      /\ pos \in 0 .. FrameLen - 1
  BY NextByte, LengthFacts DEF Send, StreamTyped, StreamTypeOK
<1>2. /\ Len(Collected) = pos
      /\ Append(Collected, b) = SubSeq(sending, 1, pos + 1)
      /\ SubSeq(sending, 1, FrameLen) = sending
      /\ ValidFrame(sending) /\ sending[1] = HeadByte
  BY <1>1, FrontOfFrame, FrameFacts
<1>3. (Collected = <<>> <=> pos = 0)
  BY <1>2, CollectedTyped DEF StreamTyped
<1>. HIDE DEF b
<1>4. Skips(b) \/ Collects(b) \/ Finishes(b)
  BY <1>1, ByteEffect DEF StreamTyped
<1>5. ~Skips(b)
  <2>1. pos = 0 => b = HeadByte
    BY <1>2 DEF b
  <2>. QED
    BY <1>3, <2>1 DEF Skips
<1>6. CASE Collects(b)
  <2>1. pos + 1 < FrameLen
    BY <1>1, <1>2, <1>3, <1>6, LengthFacts DEF Collects
  <2>2. Collected' = SubSeq(sending, 1, pos + 1) /\ ~complete'
    BY <1>2, <1>6 DEF Collects
  <2>3. pos + 1 # FrameLen
    BY <1>1, <2>1, LengthFacts
  <2>. QED
    BY <2>2, <2>3
<1>7. CASE Finishes(b)
  <2>1. pos + 1 = FrameLen /\ Append(Collected, b) = sending
    BY <1>2, <1>7 DEF Finishes
  <2>2. Collected' = <<>> /\ complete' /\ Content' = sending
    BY <1>2, <1>7, <2>1 DEF Finishes
  <2>3. ~(pos + 1 < FrameLen)
    BY <1>1, <2>1, LengthFacts
  <2>. QED
    BY <2>2, <2>3
<1>. QED
  BY <1>4, <1>5, <1>6, <1>7

\* A later byte of a frame is skipped, for it is not a head byte.
LEMMA SkippedByte ==
    ASSUME StreamTyped, ParserInv', Send, HeadOnlyInFront, Collected = <<>>, pos # 0
    PROVE  Collected' = <<>> /\ ~complete'
<1>. DEFINE b == sending[pos + 1]
<1>1. sending \in Frames /\ b \in Byte /\ ParseByte(b) /\ pos + 1 \in 2 .. FrameLen
  BY NextByte, LengthFacts DEF Send, StreamTyped, StreamTypeOK
<1>2. b # HeadByte
  BY <1>1 DEF HeadOnlyInFront
<1>. HIDE DEF b
<1>3. Skips(b) \/ Collects(b) \/ Finishes(b)
  BY <1>1, ByteEffect DEF StreamTyped
<1>. QED
  BY <1>2, <1>3 DEF Skips, Collects, Finishes

LEMMA RegainingStep ==
    ASSUME StreamInv, ParserInv', Send, HeadOnlyInFront
    PROVE  Regaining' /\ (intact' >= pos' + FrameLen => InStep')
<1>1. /\ StreamTyped /\ sending \in Frames /\ sending # <<>>
      /\ pos \in Nat /\ intact \in Nat /\ pos < FrameLen /\ FrameLen \in Nat
      /\ pos' = pos + 1 /\ sending' = sending
  BY NextByte, LengthFacts DEF StreamInv, StreamTyped, StreamTypeOK, Send
<1>2. intact' \in Nat /\ intact' <= intact + 1
  BY LengthFacts DEF Send, StreamInv, StreamTyped, StreamTypeOK
<1>3. CASE Collected = SubSeq(sending, 1, pos)
  BY <1>1, <1>3, InStepByte, LengthFacts DEF Regaining, InStep
<1>4. CASE Collected # SubSeq(sending, 1, pos)
  <2>1. ~(intact >= pos + FrameLen) /\ ~(intact' >= pos' + FrameLen)
    BY <1>1, <1>2, <1>4 DEF StreamInv, InStep
  <2>2. SUFFICES ASSUME intact' >= pos'
                 PROVE  IF pos' < FrameLen THEN Collected' = <<>> \/ Len(Collected') > pos'
                        ELSE Collected' = <<>>
    BY <1>1, <2>1 DEF Regaining
  <2>3. Collected = <<>> \/ Len(Collected) > pos
    BY <1>1, <1>2, <1>4, <2>2 DEF StreamInv, Regaining
  <2>4. CASE Collected = <<>>
    <3>1. pos # 0
      <4>1. SubSeq(sending, 1, 0) = <<>>
        BY SubSeqEmpty
      <4>. QED
        BY <1>4, <2>4, <4>1
    <3>. QED
      BY <1>1, <2>4, <3>1, SkippedByte
  <2>5. CASE Len(Collected) > pos
    <3>. DEFINE b == sending[pos + 1]
    <3>1. b \in Byte /\ ParseByte(b)
      BY <1>1, NextByte DEF Send, StreamTyped
    <3>2. /\ Collected \in Seq(Byte) /\ Len(Collected) \in Nat /\ Collected # <<>>
      BY <1>1, <2>5, CollectedTyped DEF StreamTyped
    <3>3. Len(Append(Collected, b)) = Len(Collected) + 1
      BY <3>1, <3>2, AppendFacts
    <3>. HIDE DEF b
    <3>4. Collects(b) \/ Finishes(b)
      BY <1>1, <3>1, <3>2, ByteEffect DEF Skips, StreamTyped
    <3>5. CASE Collects(b)
      BY <1>1, <2>5, <3>2, <3>3, <3>5 DEF Collects
    <3>6. CASE Finishes(b)
      BY <3>6 DEF Finishes
    <3>. QED
      BY <3>4, <3>5, <3>6
  <2>. QED
    BY <2>3, <2>4, <2>5
<1>. QED
  BY <1>3, <1>4

LEMMA StreamInvInit == StreamInit => StreamInv
  BY StreamTypedInit DEF StreamInit, StreamInv

LEMMA StreamInvStep == StreamInv /\ [StreamNext]_svars => StreamInv'
<1>. SUFFICES ASSUME StreamInv, [StreamNext]_svars PROVE StreamInv'
  OBVIOUS
<1>1. /\ StreamTyped /\ StreamTyped' /\ ParserInv'
      /\ FrameLen \in Nat /\ FrameLen > 2
      /\ pos \in Nat /\ intact \in Nat
  BY StreamTypedStep, LengthFacts DEF StreamInv, StreamTyped, StreamTypeOK
<1>2. /\ \A f \in Frames : f # <<>>
      /\ SubSeq(sending', 1, 0) = <<>>
  BY FrameFacts, SubSeqEmpty
<1>3. Len(Collected) \in Nat /\ (Collected = <<>> <=> Len(Collected) = 0)
  BY <1>1, CollectedTyped DEF StreamTyped
<1>4. UNCHANGED pvars => UNCHANGED <<Collected, complete, Content>>
  BY DEF pvars, Collected, Filled, Content
<1>5. CASE Send
  BY <1>1, <1>5, RegainingStep DEF Send, StreamInv
<1>6. ASSUME NEW b \in Byte, Noise(b) PROVE StreamInv'
  BY <1>1, <1>6 DEF Noise, StreamInv
<1>7. CASE TuneIn
  <2>1. pos' \in 0 .. FrameLen - 1 /\ intact' = 0 /\ sending' # <<>> /\ Collected' = Collected
    BY <1>2, <1>4, <1>7 DEF TuneIn, StreamInv
  <2>2. ~(intact' >= pos' + FrameLen)
    <3>1. \A n \in 0 .. FrameLen - 1 : ~(0 >= n + FrameLen)
      BY LengthFacts
    <3>. QED
      BY <2>1, <3>1, Zenon
  <2>3. Regaining'
    BY <1>1, <1>3, <2>1 DEF Regaining
  <2>. QED
    BY <1>1, <2>1, <2>2, <2>3 DEF StreamInv
<1>8. CASE Lose
  <2>1. pos' = pos + 1 /\ intact' = 0 /\ sending' # <<>>
    BY <1>8 DEF Lose
  <2>. QED
    BY <1>1, <2>1 DEF StreamInv, Regaining
<1>9. CASE NextFrame
  <2>1. /\ pos = FrameLen /\ pos' = 0 /\ intact' = intact /\ sending # <<>>
        /\ sending' # <<>> /\ Collected' = Collected
    BY <1>1, <1>2, <1>4, <1>9 DEF NextFrame, StreamInv
  <2>2. HeadOnlyInFront /\ intact' >= FrameLen => Collected' = <<>>
    BY <1>1, <2>1 DEF StreamInv, Regaining
  <2>3. Regaining'
    BY <1>1, <1>3, <2>1 DEF Regaining
  <2>4. HeadOnlyInFront /\ intact' >= pos' + FrameLen => InStep'
    BY <1>1, <1>2, <2>1, <2>2 DEF InStep
  <2>. QED
    BY <1>1, <2>1, <2>3, <2>4 DEF StreamInv
<1>10. CASE UNCHANGED svars
  <2>1. UNCHANGED <<noise, sending, pos, intact, Collected, complete, Content>>
    BY <1>4, <1>10 DEF svars
  <2>. QED
    BY <1>1, <2>1 DEF StreamInv, Regaining, InStep
<1>. QED
  BY <1>5, <1>6, <1>7, <1>8, <1>9, <1>10 DEF StreamNext

\* Two frames' worth of undisturbed bytes bring the parser into step with the
\* transmitter, whatever was received before.
THEOREM ParserResynchronises == StreamSpec => []Resynchronises
<1>1. StreamInv => Resynchronises
  <2>. SUFFICES ASSUME StreamInv, HeadOnlyInFront, intact >= 2 * FrameLen, pos = FrameLen
                PROVE  complete /\ Content = sending
    BY DEF Resynchronises
  <2>1. intact \in Nat /\ FrameLen \in Nat /\ FrameLen > 2
    BY LengthFacts DEF StreamInv, StreamTyped, StreamTypeOK
  <2>2. sending # <<>> /\ intact >= pos + FrameLen
    BY <2>1 DEF StreamInv
  <2>. QED
    BY <2>1, <2>2 DEF StreamInv, InStep
<1>. QED
  BY <1>1, StreamInvInit, StreamInvStep, PTL DEF StreamSpec

-----------------------------------------------------------------------------
(***************************************************************************)
(* No phantoms.  Without noise the parser skips, is in step, or, after a   *)
(* loss, is one byte behind: the frame it collects then ends with the head *)
(* of the next one where the end byte is due.  A second loss before that   *)
(* would shift it once more; FrameLen - 1 bytes between two losses are     *)
(* what rules this out, and with fewer it does happen.                     *)
(***************************************************************************)

OneBehind ==
    /\ Collected # <<>>
    /\ IF pos = 0 THEN Len(Collected) = FrameLen - 1 /\ intact + 2 <= FrameLen
       ELSE Len(Collected) + 1 = pos /\ intact + 2 <= pos

Undeceived ==
    \/ Collected = <<>>
    \/ sending # <<>> /\ pos < FrameLen /\ Collected = SubSeq(sending, 1, pos)
    \/ sending # <<>> /\ OneBehind

QuietInv == StreamTyped /\ (HeadOnlyInFront /\ ~noise => Undeceived)

\* A frame that ends with a head byte is not delivered.
LEMMA BehindByte ==
    ASSUME StreamTyped, ParserInv', Send, OneBehind
    PROVE  Undeceived' /\ ~complete'
<1>. DEFINE b == sending[pos + 1]
<1>1. /\ sending \in Frames /\ b \in Byte /\ ParseByte(b) /\ sending[1] = HeadByte
      /\ pos \in 0 .. FrameLen - 1 /\ pos' = pos + 1 /\ sending' = sending
      /\ sending # <<>>
  BY NextByte, FrameFacts, LengthFacts DEF Send, StreamTyped, StreamTypeOK
<1>2. /\ Collected \in Seq(Byte) /\ Len(Collected) \in Nat /\ Collected # <<>>
  BY CollectedTyped DEF StreamTyped, OneBehind
<1>3. /\ Len(Append(Collected, b)) = Len(Collected) + 1
      /\ Append(Collected, b)[Len(Collected) + 1] = b
      /\ Append(Collected, b) # <<>>
  BY <1>1, <1>2, AppendProperties
<1>4. pos = 0 => b = HeadByte
  BY <1>1
<1>. HIDE DEF b
<1>5. Collects(b) \/ Finishes(b)
  BY <1>1, <1>2, ByteEffect DEF Skips, StreamTyped
<1>6. CASE pos = 0
  <2>1. Len(Collected) = FrameLen - 1
    BY <1>6 DEF OneBehind
  <2>2. Len(Collected) + 1 = FrameLen /\ ~(Len(Collected) + 1 < FrameLen)
    BY <2>1, LengthFacts
  <2>3. Finishes(b)
    BY <1>2, <1>5, <2>2 DEF Collects
  <2>4. Append(Collected, b)[FrameLen] # 0
    BY <1>3, <1>4, <1>6, <2>2, PacketParserAssumption
  <2>. QED
    BY <2>3, <2>4 DEF Finishes, ValidFrame, Undeceived
<1>7. CASE pos # 0
  <2>1. Len(Collected) + 1 = pos /\ intact + 2 <= pos
    BY <1>7 DEF OneBehind
  <2>2. Len(Collected) + 1 < FrameLen /\ Len(Collected) + 1 # FrameLen
    BY <1>1, <2>1, LengthFacts
  <2>3. Collects(b)
    BY <1>5, <2>2 DEF Finishes
  <2>4. Len(Collected') + 1 = pos' /\ Collected' # <<>>
    BY <1>1, <1>3, <2>1, <2>3 DEF Collects
  <2>5. intact' + 2 <= pos'
    <3>1. intact \in Nat /\ intact' \in Nat /\ intact' <= intact + 1 /\ pos \in Nat
      BY LengthFacts DEF Send, StreamTyped, StreamTypeOK
    <3>2. \A x, y, z \in Nat : x <= y + 1 /\ y + 2 <= z => x + 2 <= z + 1
      OBVIOUS
    <3>3. intact' + 2 <= pos + 1
      BY <2>1, <3>1, <3>2, Zenon
    <3>. QED
      BY <1>1, <3>3
  <2>6. pos' # 0
    BY <1>1, LengthFacts
  <2>. QED
    BY <1>1, <2>3, <2>4, <2>5, <2>6 DEF Collects, Undeceived, OneBehind
<1>. QED
  BY <1>6, <1>7

LEMMA QuietByte ==
    ASSUME QuietInv, ParserInv', Send, HeadOnlyInFront, ~noise
    PROVE  Undeceived' /\ (complete' => pos' = FrameLen /\ Content' = sending)
<1>1. /\ StreamTyped /\ sending # <<>> /\ sending' = sending
      /\ pos \in 0 .. FrameLen - 1 /\ pos' = pos + 1
  BY LengthFacts DEF Send, QuietInv, StreamTyped, StreamTypeOK
<1>2. CASE Collected = SubSeq(sending, 1, pos)
  <2>1. CASE pos + 1 < FrameLen
    BY <1>1, <1>2, <2>1, InStepByte DEF Undeceived
  <2>2. CASE pos + 1 = FrameLen
    BY <1>1, <1>2, <2>2, InStepByte DEF Undeceived
  <2>3. pos + 1 < FrameLen \/ pos + 1 = FrameLen
    BY <1>1, LengthFacts
  <2>. QED
    BY <2>1, <2>2, <2>3
<1>3. CASE Collected = <<>> /\ Collected # SubSeq(sending, 1, pos)
  <2>1. SubSeq(sending, 1, 0) = <<>>
    BY SubSeqEmpty
  <2>2. pos # 0
    BY <1>3, <2>1
  <2>. QED
    BY <1>1, <1>3, <2>2, SkippedByte DEF Undeceived
<1>4. CASE OneBehind
  BY <1>1, <1>4, BehindByte
<1>. QED
  BY <1>2, <1>3, <1>4 DEF QuietInv, Undeceived

LEMMA QuietInit == StreamInit => QuietInv
<1>. SUFFICES ASSUME StreamInit PROVE QuietInv
  OBVIOUS
<1>1. Collected = <<>>
  <2>1. ParserInv /\ state = "WaitingForHead"
    BY ParserInitInv DEF StreamInit, ParserInit
  <2>. QED
    BY <2>1, CollectedByState
<1>. QED
  BY <1>1, StreamTypedInit DEF QuietInv, Undeceived

LEMMA QuietStep ==
    ASSUME Gap >= FrameLen - 1 PROVE QuietInv /\ [StreamNext]_svars => QuietInv'
<1>. SUFFICES ASSUME QuietInv, [StreamNext]_svars, HeadOnlyInFront, ~noise'
              PROVE  Undeceived'
  BY StreamTypedStep DEF QuietInv
<1>1. /\ StreamTyped /\ ParserInv' /\ pos \in 0 .. FrameLen /\ intact \in 0 .. Gap
      /\ FrameLen \in Nat /\ FrameLen > 2 /\ Gap \in Nat
  BY StreamTypedStep, LengthFacts DEF QuietInv, StreamTyped, StreamTypeOK
<1>2. ~noise /\ Undeceived
  BY DEF QuietInv, StreamNext, Noise, TuneIn, Send, Lose, NextFrame, svars
<1>3. UNCHANGED pvars => Collected' = Collected
  BY DEF pvars, Collected, Filled
<1>4. CASE Send
  BY <1>1, <1>2, <1>4, QuietByte
<1>5. CASE \E b \in Byte : Noise(b)
  BY <1>5 DEF Noise
<1>6. CASE TuneIn
  BY <1>2, <1>3, <1>6 DEF TuneIn, Undeceived
<1>7. CASE Lose
  <2>1. /\ sending # <<>> /\ sending' = sending /\ pos < FrameLen /\ intact = Gap
        /\ pos' = pos + 1 /\ intact' = 0 /\ Collected' = Collected
    BY <1>3, <1>7 DEF Lose
  <2>2. ~OneBehind
    BY <1>1, <2>1 DEF OneBehind
  <2>3. CASE Collected = <<>>
    BY <2>1, <2>3 DEF Undeceived
  <2>4. CASE Collected # <<>> /\ Collected = SubSeq(sending, 1, pos)
    <3>1. sending \in Frames /\ pos \in 0 .. FrameLen - 1
      BY <1>1, <2>1 DEF StreamTyped, StreamTypeOK
    <3>2. Len(Collected) = pos /\ pos # 0
      BY <1>1, <2>4, <3>1, FrontOfFrame, CollectedTyped DEF StreamTyped
    <3>3. /\ pos' # 0 /\ Len(Collected') + 1 = pos' /\ intact' + 2 <= pos'
      BY <1>1, <2>1, <3>1, <3>2
    <3>. QED
      BY <2>1, <2>4, <3>3 DEF Undeceived, OneBehind
  <2>. QED
    BY <1>2, <2>2, <2>3, <2>4 DEF Undeceived
<1>8. CASE NextFrame
  <2>1. /\ pos = FrameLen /\ pos' = 0 /\ intact' = intact /\ Collected' = Collected
        /\ sending' \in Frames
    BY <1>3, <1>8 DEF NextFrame
  <2>2. CASE Collected = <<>>
    BY <2>1, <2>2 DEF Undeceived
  <2>3. CASE OneBehind
    <3>1. Collected # <<>> /\ Len(Collected) + 1 = FrameLen /\ intact + 2 <= FrameLen
      BY <1>1, <2>1, <2>3 DEF OneBehind
    <3>2. Len(Collected) \in Nat
      BY <1>1, CollectedTyped DEF StreamTyped
    <3>3. Len(Collected) = FrameLen - 1
      BY <1>1, <3>1, <3>2
    <3>4. sending' # <<>>
      BY <2>1, FrameFacts
    <3>. QED
      BY <2>1, <3>1, <3>3, <3>4 DEF Undeceived, OneBehind
  <2>4. ~(pos < FrameLen)
    BY <1>1, <2>1
  <2>. QED
    BY <1>2, <2>2, <2>3, <2>4 DEF Undeceived
<1>9. CASE UNCHANGED svars
  BY <1>2, <1>3, <1>9 DEF svars, Undeceived, OneBehind
<1>. QED
  BY <1>4, <1>5, <1>6, <1>7, <1>8, <1>9 DEF StreamNext

\* A byte lost now and then, or a start in the middle of a frame, never makes a
\* packet of the pieces of two frames: checksum and end byte suffice, as long as
\* two losses are at least FrameLen - 1 bytes apart.
THEOREM NoPhantoms ==
    ASSUME Gap >= FrameLen - 1 PROVE StreamSpec => NoPhantomPacket
<1>. DEFINE Genuine == HeadOnlyInFront /\ ~noise /\ Send /\ complete' =>
                           pos' = FrameLen /\ Content' = sending
<1>1. QuietInv /\ QuietInv' /\ [StreamNext]_svars => [Genuine]_svars
  BY QuietByte DEF QuietInv, StreamTyped
<1>2. QuietInv /\ [StreamNext]_svars => QuietInv'
  BY QuietStep
<1>. QED
  BY <1>1, <1>2, QuietInit, PTL DEF StreamSpec, NoPhantomPacket

=============================================================================
