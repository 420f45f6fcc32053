---------------------------- MODULE PacketStream ----------------------------
(***************************************************************************)
(* The parser at the end of the radio link.  At first the UART delivers    *)
(* any bytes whatever, or none: noise, other devices of the band.  Then a  *)
(* transmitter (external: the original remote control) is heard, from the  *)
(* middle of a frame on, which sends frames back to back, and the link may *)
(* lose a byte.  After a loss the next one waits until Gap bytes have come *)
(* through.                                                                *)
(***************************************************************************)
EXTENDS PacketParser

CONSTANTS
    Frames,         \* frames the transmitter sends
    Gap             \* bytes between two losses

VARIABLES
    noise,          \* some byte was not the transmitter's
    sending,        \* frame on the air, <<>> before the transmitter is heard
    pos,            \* its bytes already sent
    intact          \* bytes received since the start or the last loss, up to Gap

svars == <<pvars, noise, sending, pos, intact>>

\* A frame as the transmitter composes it (packet.h: prepare, computeChecksum).
Compose(id, data) ==
    Append(Append(<<HeadByte>> \o id \o data, Checksum(data)), 0)

ASSUME PacketStreamAssumption ==
    /\ Gap \in Nat
    /\ \A f \in Frames :
           f \in Seq(Byte) /\ Len(f) = FrameLen /\ f[1] = HeadByte /\ ValidFrame(f)

StreamTypeOK ==
    /\ ParserTypeOK
    /\ noise \in BOOLEAN
    /\ sending \in Frames \cup {<<>>}
    /\ pos \in 0 .. FrameLen
    /\ intact \in 0 .. Gap

StreamInit ==
    /\ ParserInit
    /\ noise = FALSE
    /\ sending = <<>>
    /\ pos = 0
    /\ intact = 0

Noise(b) ==
    /\ sending = <<>>
    /\ ParseByte(b)
    /\ noise' = TRUE
    /\ UNCHANGED <<sending, pos, intact>>

\* The transmitter is heard from any byte of a frame on.
TuneIn ==
    /\ sending = <<>>
    /\ sending' \in Frames
    /\ pos' \in 0 .. FrameLen - 1
    /\ UNCHANGED <<pvars, noise, intact>>

Send ==
    /\ sending # <<>>
    /\ pos < FrameLen
    /\ ParseByte(sending[pos + 1])
    /\ pos' = pos + 1
    /\ intact' = IF intact < Gap THEN intact + 1 ELSE Gap
    /\ UNCHANGED <<noise, sending>>

Lose ==
    /\ sending # <<>>
    /\ pos < FrameLen
    /\ intact = Gap
    /\ pos' = pos + 1
    /\ intact' = 0
    /\ UNCHANGED <<pvars, noise, sending>>

NextFrame ==
    /\ pos = FrameLen
    /\ sending' \in Frames
    /\ pos' = 0
    /\ UNCHANGED <<pvars, noise, intact>>

StreamNext == (\E b \in Byte : Noise(b)) \/ TuneIn \/ Send \/ Lose \/ NextFrame

StreamSpec == StreamInit /\ [][StreamNext]_svars

-----------------------------------------------------------------------------
(***************************************************************************)
(* Properties.                                                             *)
(***************************************************************************)

\* No byte of a frame but the first looks like the head of one.  Without this the
\* properties below do not hold: the parser can lock onto the head byte of an
\* identification in every repetition of a frame.
HeadOnlyInFront == \A f \in Frames : \A i \in 2 .. FrameLen : f[i] # HeadByte

\* Whatever bytes the parser (parser.h:29-85, without a timeout) was fed before,
\* after two frames' worth of undisturbed ones every frame is handed over with
\* its last byte.
Resynchronises ==
    HeadOnlyInFront /\ intact >= 2 * FrameLen /\ pos = FrameLen =>
        complete /\ Content = sending

\* A single lost byte, or a start in the middle of a frame, never makes a
\* packet out of the pieces of two (the checks of parser.h:71-82 suffice).
NoPhantomPacket ==
    [][HeadOnlyInFront /\ ~noise /\ Send /\ complete' =>
         pos' = FrameLen /\ Content' = sending]_svars

=============================================================================
