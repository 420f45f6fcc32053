------------------------------ MODULE WebTask ------------------------------
(***************************************************************************)
(* WebTask (web_task.cpp): the loop that starts and stops the HTTP server  *)
(* and keeps what its pages show, the found access points and the lamp's   *)
(* settings.  Once every 500 ms it looks at three queues, one message of   *)
(* each.  The handlers of the pages run on the task of the HTTP server,    *)
(* one request at a time, and share apinfo and lcs with the loop without a *)
(* lock; they are modelled where their effects are (modules Provisioning   *)
(* and WebPage).                                                           *)
(***************************************************************************)
EXTENDS RTOSQueue

CONSTANT WebQueueLen        \* capacity of _queue, _queueAP and _queueLcs (2)

ASSUME WebTaskAssumption == WebQueueLen \in Nat

VARIABLES
    webPc,          \* queue the loop looks at next, "ap", "lcs" or "mode"; "serve"
    modes,          \* _queue
    mode,           \* receivedMode
    aps,            \* _queueAP
    updates,        \* _queueLcs
    server,         \* pages served: "stopped", "Control", "Setting"
    lcs,            \* lamp settings as the Control page shows them
    apinfo,         \* access points as the Setting page lists them
    http            \* request in progress, Idle if none

webVars == <<webPc, modes, mode, aps, updates, server, lcs, apinfo, http>>

WebModes == {"ClearAPInfo", "Setting", "Control", "Unknown"}

Idle == [request |-> "none"]

UnknownLamp == [id |-> "", hue |-> 0, intensity |-> 0, command |-> "Unknown"]

WebInit ==
    /\ webPc = "ap"
    /\ modes = <<>>
    /\ mode = "Unknown"
    /\ aps = <<>>
    /\ updates = <<>>
    /\ server = "stopped"
    /\ lcs = UnknownLamp
    /\ apinfo = <<>>
    /\ http = Idle

WebReboot ==
    /\ webPc' = "ap"
    /\ modes' = <<>>
    /\ mode' = "Unknown"
    /\ aps' = <<>>
    /\ updates' = <<>>
    /\ server' = "stopped"
    /\ lcs' = UnknownLamp
    /\ apinfo' = <<>>
    /\ http' = Idle

-----------------------------------------------------------------------------
(***************************************************************************)
(* One iteration of the loop.                                              *)
(***************************************************************************)

TakeAp ==
    /\ webPc = "ap"
    /\ webPc' = "lcs"
    /\ IF aps = <<>> THEN UNCHANGED <<aps, apinfo>>
       ELSE /\ apinfo' = Append(apinfo, Head(aps))
            /\ aps' = Tail(aps)
    /\ UNCHANGED <<modes, mode, updates, server, lcs, http>>

TakeUpdate ==
    /\ webPc = "lcs"
    /\ webPc' = "mode"
    /\ IF updates = <<>> THEN UNCHANGED <<updates, lcs>>
       ELSE /\ lcs' = Head(updates)
            /\ updates' = Tail(updates)
    /\ UNCHANGED <<modes, mode, aps, server, apinfo, http>>

\* Mutant: ClearAPInfo is taken for a mode of the server.
TakeAnyMode ==
    /\ webPc = "mode"
    /\ IF modes = <<>> THEN webPc' = "ap" /\ UNCHANGED <<modes, mode>>
       ELSE /\ mode' = Head(modes)
            /\ modes' = Tail(modes)
            /\ webPc' = "serve"
    /\ UNCHANGED <<aps, updates, server, lcs, apinfo, http>>

\* There is no branch for ClearAPInfo.
TakeMode ==
    /\ webPc = "mode"
    /\ IF modes = <<>> THEN webPc' = "ap" /\ UNCHANGED <<modes, mode>>
       ELSE /\ mode' = Head(modes)
            /\ modes' = Tail(modes)
            /\ webPc' = IF mode' = "ClearAPInfo" THEN "ap" ELSE "serve"
    /\ UNCHANGED <<aps, updates, server, lcs, apinfo, http>>

\* Stopping the server waits for the handler of a request in progress (external:
\* httpd_stop); the server is then started anew with the pages of the mode.
Serve ==
    /\ webPc = "serve"
    /\ http = Idle
    /\ webPc' = "ap"
    /\ server' = IF mode = "Unknown" THEN "stopped" ELSE mode
    /\ UNCHANGED <<modes, mode, aps, updates, lcs, apinfo, http>>

WebLoop == TakeAp \/ TakeUpdate \/ TakeMode

\* A request for a page of the given kind can be handled now: the server handles
\* one at a time, and no more once it is being stopped.
Serves(page) == server = page /\ webPc # "serve" /\ http = Idle

=============================================================================
