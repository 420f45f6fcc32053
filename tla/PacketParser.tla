---------------------------- MODULE PacketParser ----------------------------
(***************************************************************************)
(* lamp::PacketParser (parser.h), fed one byte at a time from the UART:    *)
(* head, identification, data, checksum, end.  There is no timeout: a      *)
(* frame that was cut short is completed with the bytes of the next one.   *)
(***************************************************************************)
EXTENDS Naturals, Sequences

CONSTANTS
    ByteSize,       \* 256: number of values of a uint8_t
    HeadByte,       \* 0x53
    IdLen           \* 7: bytes of the identification, the magic one included

DataLen  == 3       \* command, intensity, hue
FrameLen == 1 + IdLen + DataLen + 2
Byte     == 0 .. ByteSize - 1

ASSUME PacketParserAssumption ==
    /\ ByteSize \in Nat \ {0}
    /\ IdLen \in Nat \ {0}
    /\ HeadByte \in Byte \ {0}

VARIABLES
    state,          \* _state
    packet,         \* _currentPacket, the 13 bytes by field
    buffer,         \* _receiveBuffer
    byteCount,      \* _byteCount
    complete        \* what parseByte returned for the last byte

pvars == <<state, packet, buffer, byteCount, complete>>

States == {"WaitingForHead", "ReceivingId", "ReceivingData", "ReceivingSum",
           "ReceivingEnd"}

PacketContent ==
    [head : Byte, id : [1 .. IdLen -> Byte], data : [1 .. DataLen -> Byte],
     sum : Byte, end : Byte]

ParserTypeOK ==
    /\ state \in States
    /\ packet \in PacketContent
    /\ buffer \in Seq(Byte)
    /\ byteCount \in Nat
    /\ complete \in BOOLEAN

ClearedPacket ==
    [head |-> 0, id |-> [i \in 1 .. IdLen |-> 0], data |-> [i \in 1 .. DataLen |-> 0],
     sum |-> 0, end |-> 0]

\* The sum is a uint8_t.
Checksum(data) == (data[1] + data[2] + data[3]) % ByteSize

ValidateChecksum(p) == p.sum = Checksum(p.data)

\* setIdentification and setData take their bytes off the front of the buffer,
\* and leave the packet alone when there are too few.
SetIdentification(p, q) ==
    IF Len(q) < IdLen THEN p ELSE [p EXCEPT !.id = SubSeq(q, 1, IdLen)]

\* Mutant: one byte too few is copied.
SetDataShort(p, q) ==
    IF Len(q) < DataLen THEN p ELSE [p EXCEPT !.data = SubSeq(q, 1, DataLen - 1)]

SetData(p, q) ==
    IF Len(q) < DataLen THEN p ELSE [p EXCEPT !.data = SubSeq(q, 1, DataLen)]

ParserInit ==
    /\ state = "WaitingForHead"
    /\ packet = ClearedPacket
    /\ buffer = <<>>
    /\ byteCount = 0
    /\ complete = FALSE

\* Mutant: the byte count of the last packet is not reset.
WaitingForHeadNoReset(b) ==
    /\ state = "WaitingForHead"
    /\ complete' = FALSE
    /\ IF b = HeadByte
       THEN /\ packet' = [packet EXCEPT !.head = b]
            /\ byteCount' = byteCount + 1
            /\ state' = "ReceivingId"
       ELSE UNCHANGED <<packet, byteCount, state>>
    /\ UNCHANGED buffer

WaitingForHead(b) ==
    /\ state = "WaitingForHead"
    /\ complete' = FALSE
    /\ IF b = HeadByte
       THEN /\ packet' = [packet EXCEPT !.head = b]
            /\ byteCount' = 1
            /\ state' = "ReceivingId"
       ELSE UNCHANGED <<packet, byteCount, state>>
    /\ UNCHANGED buffer

\* Mutant: a part is taken to be full one byte late.
ReceiveLate(b, full, filled, next) ==
    /\ complete' = FALSE
    /\ byteCount' = byteCount + 1
    /\ IF byteCount' > full
       THEN /\ packet' = filled
            /\ state' = next
            /\ buffer' = <<>>
       ELSE /\ buffer' = Append(buffer, b)
            /\ UNCHANGED <<packet, state>>

\* ReceivingId and ReceivingData: buffer a byte, hand a full part to the packet, which
\* then reads as filled.
Receive(b, full, filled, next) ==
    /\ complete' = FALSE
    /\ byteCount' = byteCount + 1
    /\ IF byteCount' >= full
       THEN /\ packet' = filled
            /\ state' = next
            /\ buffer' = <<>>
       ELSE /\ buffer' = Append(buffer, b)
            /\ UNCHANGED <<packet, state>>

ReceivingId(b) ==
    /\ state = "ReceivingId"
    /\ Receive(b, 1 + IdLen, SetIdentification(packet, Append(buffer, b)), "ReceivingData")

ReceivingData(b) ==
    /\ state = "ReceivingData"
    /\ Receive(b, 1 + IdLen + DataLen, SetData(packet, Append(buffer, b)), "ReceivingSum")

ReceivingSum(b) ==
    /\ state = "ReceivingSum"
    /\ complete' = FALSE
    /\ packet' = [packet EXCEPT !.sum = b]
    /\ byteCount' = byteCount + 1
    /\ state' = "ReceivingEnd"
    /\ UNCHANGED buffer

\* Mutant: neither the checksum nor the end byte decides.
ReceivingEndUnchecked(b) ==
    /\ state = "ReceivingEnd"
    /\ state' = "WaitingForHead"
    /\ complete' = TRUE
    /\ packet' = [packet EXCEPT !.end = b]
    /\ UNCHANGED <<buffer, byteCount>>

ReceivingEnd(b) ==
    /\ state = "ReceivingEnd"
    /\ state' = "WaitingForHead"
    /\ complete' = (ValidateChecksum(packet) /\ b = 0)
    /\ IF complete'
       THEN /\ packet' = [packet EXCEPT !.end = b]
            /\ UNCHANGED <<buffer, byteCount>>
       ELSE /\ packet' = ClearedPacket
            /\ buffer' = <<>>
            /\ byteCount' = 0

ParseByte(b) ==
    \/ WaitingForHead(b) \/ ReceivingId(b) \/ ReceivingData(b)
    \/ ReceivingSum(b) \/ ReceivingEnd(b)

ParserNext == \E b \in Byte : ParseByte(b)

ParserSpec == ParserInit /\ [][ParserNext]_pvars

-----------------------------------------------------------------------------
(***************************************************************************)
(* The parser implements FrameCollector: the frame collected so far is the *)
(* part of the packet that is already filled, followed by the buffer.      *)
(***************************************************************************)

Filled ==
    CASE state = "WaitingForHead" -> <<>>
      [] state = "ReceivingId"    -> <<packet.head>>
      [] state = "ReceivingData"  -> <<packet.head>> \o packet.id
      [] state = "ReceivingSum"   -> <<packet.head>> \o packet.id \o packet.data
      [] state = "ReceivingEnd"   ->
           Append(<<packet.head>> \o packet.id \o packet.data, packet.sum)

Content == Append(Append(<<packet.head>> \o packet.id \o packet.data, packet.sum), packet.end)

ValidFrame(f) ==
    /\ f[FrameLen - 1] = (f[IdLen + 2] + f[IdLen + 3] + f[IdLen + 4]) % ByteSize
    /\ f[FrameLen] = 0

Collector == INSTANCE FrameCollector WITH
    Head1     <- HeadByte,
    Valid     <- ValidFrame,
    frame     <- Filled \o buffer,
    delivered <- IF complete THEN Content ELSE <<>>

\* A packet is handed over exactly when the bytes since the last head byte are
\* a whole frame with a correct checksum and end byte, and then byte for byte;
\* nothing of an earlier or a discarded packet shows through.
CollectsFrames == Collector!Spec

=============================================================================
