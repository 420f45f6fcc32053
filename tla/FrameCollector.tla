--------------------------- MODULE FrameCollector ---------------------------
(***************************************************************************)
(* What the parser of the lamp's protocol promises, whatever its internal  *)
(* states: bytes are skipped until a head byte, the head and the following *)
(* bytes are collected until a frame is full, and a full frame is either   *)
(* delivered unchanged, when it is valid, or discarded as a whole.         *)
(***************************************************************************)
EXTENDS Naturals, Sequences

CONSTANTS
    Byte,
    Head1,          \* first byte of every frame
    FrameLen,       \* length of a frame
    Valid(_)        \* what makes a full frame a packet

VARIABLES
    frame,          \* bytes collected so far, <<>> while skipping
    delivered       \* frame handed over by the last byte, or <<>>

fvars == <<frame, delivered>>

Init == frame = <<>> /\ delivered = <<>>

Skip(b) ==
    /\ frame = <<>>
    /\ b # Head1
    /\ delivered' = <<>>
    /\ UNCHANGED frame

Collect(b) ==
    /\ IF frame = <<>> THEN b = Head1 ELSE Len(frame) + 1 < FrameLen
    /\ frame' = Append(frame, b)
    /\ delivered' = <<>>

Finish(b) ==
    /\ frame # <<>>
    /\ Len(frame) + 1 = FrameLen
    /\ frame' = <<>>
    /\ delivered' = IF Valid(Append(frame, b)) THEN Append(frame, b) ELSE <<>>

Next == \E b \in Byte : Skip(b) \/ Collect(b) \/ Finish(b)

Spec == Init /\ [][Next]_fvars

=============================================================================
