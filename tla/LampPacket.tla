----------------------------- MODULE LampPacket -----------------------------
(***************************************************************************)
(* lamp::Packet (packet.h): the 13-byte frame the lamp, its remote control *)
(* and the controller exchange over the LC12S radio.                       *)
(*                                                                         *)
(* The header, end and checksum bytes belong to the framing (module        *)
(* PacketParser).  What the controller reads and writes is the 7-byte      *)
(* identification, the command and the two level bytes; an identification  *)
(* is a member of Ids, and IgnoredIds are those whose last ("magic") byte  *)
(* is 0xA4.                                                                *)
(***************************************************************************)
EXTENDS Naturals

CONSTANTS
    Ids,            \* identifications a packet can carry
    IgnoredIds,     \* those whose magic byte is 0xA4
    NoId,           \* the empty string under the NVS key "lampid"
    ZeroId,         \* the identification of a prepared, blank packet
    MaxLevel,       \* greatest intensity and hue of the protocol (0x17)
    MaxByte,        \* greatest value of a byte (255)
    OffLevel        \* both levels of a packet that is not ON (0x10)

ASSUME LampPacketAssumption ==
    /\ IgnoredIds \subseteq Ids
    /\ NoId \notin Ids \cup {ZeroId}
    /\ MaxLevel \in Nat
    /\ MaxByte \in Nat
    /\ MaxLevel < MaxByte
    /\ OffLevel \in 0 .. MaxLevel

\* The levels of the protocol.  The two bytes that carry them hold whatever the
\* sender put there: neither the setters nor the parser look at the range.
Levels == 0 .. MaxLevel
Bytes  == 0 .. MaxByte

\* What getCommnad() tells apart; any other byte, 0x00 included, is Unknown.
Commands == {"On", "Off", "Automatic", "Unknown"}

Packet == [id : Ids \cup {ZeroId}, cmd : Commands,
           intensity : Bytes, hue : Bytes]

\* prepare(): all zero between header and end.
BlankPacket == [id |-> ZeroId, cmd |-> "Unknown", intensity |-> 0, hue |-> 0]

SetIdentification(p, id) == [p EXCEPT !.id = id]

\* setIntensity and setYellow2White.
SetLevels(p, i, h) == [p EXCEPT !.intensity = i, !.hue = h]

\* setCommand: every command but ON overwrites both levels.
SetCommand(p, c) ==
    IF c = "On" THEN [p EXCEPT !.cmd = c]
                ELSE SetLevels([p EXCEPT !.cmd = c], OffLevel, OffLevel)

CanIgnoreMagic(p) == p.id \in IgnoredIds

=============================================================================
