----------------------------- MODULE MCWebPage -----------------------------
(***************************************************************************)
(* Instances of WebPage for TLC.                                           *)
(***************************************************************************)
EXTENDS WebPage

CONSTANTS a     \* the lamp

Shown(info) == [info EXCEPT !.command = (@ = "Unknown")]

\* No step reads idFailed or what an earlier one wrote to out; of the packet under
\* construction only the address decides what the page is told, and of the
\* command in a report only whether there is one.
PageView == <<pc, learn, mylamp.id, lampIsOn, hue, intensity, strId, kv, queue,
              webPc, modes, mode, [i \in DOMAIN updates |-> Shown(updates[i])],
              server, Shown(lcs), http, history>>

\* Something else than the remote control is used.
RequestMade == http = Idle /\ (http' # Idle \/ Len(queue') > Len(queue))

KeyPressed == \E p \in RemotePacket : ReceivePacket(p)

Accountable == overlapped => onlyRemote /\ ~dropped

\* Once an input other than the remote control has come in another's way, or an
\* update was dropped, there is no further input until all is calm, and then a
\* key of the remote control only.
OneMishap == Accountable \/ (~RequestMade /\ (KeyPressed => Calm))

\* Such a mishap is followed for the brightness alone.
BrightnessOnly == Accountable \/ {hue, kv.hue, lcs.hue} = {0}

=============================================================================
