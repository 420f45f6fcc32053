----------------------------- MODULE MCLampLink -----------------------------
(***************************************************************************)
(* Instances of LampLink for TLC: one lamp, and a stray transmitter whose  *)
(* packets carry the magic byte.                                           *)
(***************************************************************************)
EXTENDS LampLink

CONSTANTS a, c      \* identifications

\* No step reads idFailed or what an earlier one wrote to out, or the shown
\* identification in any way but to write it to out: states that differ in these
\* have the same successors, and no property of the run tells them apart.
LinkView == <<pc, learn, mylamp, lampIsOn, hue, intensity, kv, queue,
              lamp, rx, current, synced>>

\* A level beyond the protocol is followed for the brightness alone.
HueInRange == {hue, mylamp.hue, kv.hue, lamp.hue} \subseteq Levels

=============================================================================
