---------------------------- MODULE Provisioning ----------------------------
(***************************************************************************)
(* How the controller gets into the user's network: WifiTask and WebTask,  *)
(* the handler of the configuration form (web_task.cpp:256-286), the five  *)
(* keys in NVS they share, and the start of the firmware                   *)
(* (application.cpp), where holding buttons A and B forgets the network.   *)
(*                                                                         *)
(* The three run concurrently: while the form's handler writes one key     *)
(* after the other, WifiTask may be reading them, and WebTask may be about *)
(* to stop the server.                                                     *)
(***************************************************************************)
EXTENDS WifiTask, WebTask

CONSTANTS
    Forms,          \* configurations users submit
    MaxForms,       \* bound: forms the server accepts between two starts
    MaxInFlight,    \* bound: forms submitted and not yet answered
    MaxMissed       \* delays of WifiTask in which WebTask may look at no mode

ASSUME ProvisioningAssumption ==
    /\ Forms \subseteq [Keys -> Values \cup {Empty}]
    /\ MaxForms \in Nat
    /\ MaxInFlight \in Nat
    /\ MaxMissed \in Nat

VARIABLES
    inbox,          \* forms received by the server and not yet handled
    accepted,       \* forms received since the start, up to MaxForms
    timing,         \* how the two loops, both with a period of 500 ms, keep step
    scanned         \* result of the last scan

provVars == <<wifiVars, webVars, inbox, accepted, timing, scanned>>

\* The order in which the handler writes the keys.
WriteOrder == <<"ssid", "pass", "ip", "gw", "mask">>

Handlers == {Idle} \cup [request : {"form"}, form : Forms, written : 0 .. 5]

ProvTypeOK ==
    /\ wifiPc \in {"poll", "read", "connect", "clear", "report"}
    /\ received \in Modes
    /\ {processit, staMade, connected, open, misread} \subseteq BOOLEAN
    /\ switches \in Seq({"Stop"}) /\ Len(switches) <= SwitchQueueLen
    /\ radio \in {"off", "AP", "STA"}
    /\ DOMAIN read \subseteq Keys
    /\ \A k \in DOMAIN read : read[k] \in Values \cup {Empty}
    /\ cfg \in [Keys -> Values \cup {Empty}]
    /\ modes \in Seq(WebModes) /\ Len(modes) <= WebQueueLen
    /\ mode \in WebModes
    /\ Len(aps) <= WebQueueLen
    /\ server \in {"stopped", "Setting", "Control"}
    /\ http \in Handlers
    /\ inbox \in 0 .. MaxForms
    /\ timing \in [looked : BOOLEAN, missed : 0 .. MaxMissed, slowForm : BOOLEAN]
    /\ scanned \in ScanResults \cup {<<>>}

InStep == [looked |-> FALSE, missed |-> 0, slowForm |-> FALSE]

ProvInit ==
    /\ WifiInit
    /\ WebInit
    /\ inbox = 0
    /\ accepted = 0
    /\ timing = InStep
    /\ scanned = <<>>

-----------------------------------------------------------------------------
(***************************************************************************)
(* WifiTask and WebTask.                                                   *)
(***************************************************************************)

\* WebTask::command and WebTask::apInfo.
Deliver ==
    /\ modes' = IF wifiOut'.mode = "none" THEN modes
                ELSE SendToBack(modes, wifiOut'.mode, WebQueueLen)
    /\ aps' = IF wifiOut'.ap = "none" THEN aps
              ELSE SendToBack(aps, wifiOut'.ap, WebQueueLen)

\* The loops of both tasks end with a delay of 500 ms, and what else they do
\* takes less.  So WebTask misses at most MaxMissed successive delays of
\* WifiTask, looks at its queues during a scan of all channels, and a form that
\* was being written at the end of one delay is finished at the end of the next.
KeepStep ==
    CASE wifiPc = "poll" ->
           /\ ~timing.slowForm
           /\ timing.looked \/ timing.missed < MaxMissed
           /\ timing' = [looked   |-> FALSE,
                         missed   |-> IF timing.looked THEN 0 ELSE timing.missed + 1,
                         slowForm |-> http # Idle]
      [] wifiPc = "clear" -> timing.looked /\ UNCHANGED timing
      [] wifiPc # "poll" /\ wifiPc' = "poll" -> timing' = [timing EXCEPT !.looked = FALSE]
      [] OTHER -> UNCHANGED timing

RunWifi ==
    /\ WifiStep
    /\ KeepStep
    /\ Deliver
    /\ scanned' = IF wifiPc = "poll" /\ wifiPc' = "clear" THEN found' ELSE scanned
    /\ UNCHANGED <<webPc, mode, updates, server, lcs, apinfo, http, inbox, accepted>>

LoseNetwork ==
    /\ Disconnected
    /\ UNCHANGED <<webVars, inbox, accepted, timing, scanned>>

\* Stopping the server closes its connections.
RunWeb ==
    /\ \/ Serve /\ inbox' = 0
       \/ WebLoop /\ UNCHANGED inbox
    /\ timing' = IF webPc = "mode" THEN [timing EXCEPT !.looked = TRUE, !.missed = 0]
                 ELSE timing
    /\ UNCHANGED <<wifiVars, accepted, scanned>>

-----------------------------------------------------------------------------
(***************************************************************************)
(* The configuration form.                                                 *)
(***************************************************************************)

\* A browser reaches the Setting page only over the access point, and a user
\* submits the form at most MaxInFlight times before it is answered.
FormArrives ==
    /\ radio = "AP"
    /\ server = "Setting"
    /\ accepted < MaxForms
    /\ inbox + (IF http = Idle THEN 0 ELSE 1) < MaxInFlight
    /\ inbox' = inbox + 1
    /\ accepted' = accepted + 1
    /\ UNCHANGED <<wifiVars, webVars, timing, scanned>>

FormStart(form) ==
    /\ Serves("Setting")
    /\ inbox > 0
    /\ inbox' = inbox - 1
    /\ http' = [request |-> "form", form |-> form, written |-> 0]
    /\ UNCHANGED <<wifiVars, webPc, modes, mode, aps, updates, server, lcs, apinfo, accepted, timing,
                   scanned>>

\* The body of the request does not arrive.
FormFails ==
    /\ Serves("Setting")
    /\ inbox > 0
    /\ inbox' = inbox - 1
    /\ UNCHANGED <<wifiVars, webVars, accepted, timing, scanned>>

FormWrite ==
    /\ http.request = "form"
    /\ http.written < Len(WriteOrder)
    /\ LET key == WriteOrder[http.written + 1]
       IN  cfg' \in Writes(key, http.form[key])
    /\ http' = [http EXCEPT !.written = @ + 1]
    /\ UNCHANGED <<wifiPc, received, processit, switches, radio, staMade, connected, read,
                   found, open, misread, wifiOut, webPc, modes, mode, aps, updates, server, lcs, apinfo,
                   inbox, accepted, timing, scanned>>

\* Mutant: the handler switches to the client mode without checking the
\* configuration first.
FormDoneClient ==
    /\ http.request = "form"
    /\ http.written = Len(WriteOrder)
    /\ SwitchMode("Client")
    /\ http' = Idle
    /\ timing' = [timing EXCEPT !.slowForm = FALSE]
    /\ UNCHANGED <<wifiPc, received, processit, radio, staMade, connected, read, found, cfg,
                   open, misread, wifiOut, webPc, modes, mode, aps, updates, server, lcs, apinfo,
                   inbox, accepted, scanned>>

FormDone ==
    /\ http.request = "form"
    /\ http.written = Len(WriteOrder)
    /\ SwitchMode("Stop")
    /\ http' = Idle
    /\ timing' = [timing EXCEPT !.slowForm = FALSE]
    /\ UNCHANGED <<wifiPc, received, processit, radio, staMade, connected, read, found, cfg,
                   open, misread, wifiOut, webPc, modes, mode, aps, updates, server, lcs, apinfo,
                   inbox, accepted, scanned>>

HandleForm == (\E f \in Forms : FormStart(f)) \/ FormFails \/ FormWrite \/ FormDone

-----------------------------------------------------------------------------
(***************************************************************************)
(* Resets.                                                                 *)
(***************************************************************************)

\* Application::init and run, with or without A and B held (checkRenewAP).  The
\* results of kv.init and of checkRenewAP's write are ignored.
Boot(renew) ==
    /\ WifiReboot
    /\ WebReboot
    /\ cfg' \in IF renew /\ open' THEN {cfg, [cfg EXCEPT !["ssid"] = Empty]} ELSE {cfg}
    /\ inbox' = 0
    /\ accepted' = 0
    /\ timing' = InStep
    /\ scanned' = <<>>

Reset == \E renew \in BOOLEAN : Boot(renew)

Restart == SecondStation /\ Boot(FALSE)

ProvNext ==
    \/ RunWifi \/ LoseNetwork \/ RunWeb
    \/ FormArrives \/ HandleForm
    \/ Reset \/ Restart

ProvSpec == ProvInit /\ [][ProvNext]_provVars

\* The loops of both tasks never block for ever, nor do the handlers.
ProvFairness ==
    /\ WF_provVars(RunWifi)
    /\ WF_provVars(RunWeb)
    /\ WF_provVars(HandleForm)
    /\ WF_provVars(Restart)

FairProvSpec == ProvSpec /\ ProvFairness

-----------------------------------------------------------------------------
(***************************************************************************)
(* Properties.                                                             *)
(***************************************************************************)

\* Nothing is under way: no form, no switch request, no message to WebTask.
Settled ==
    /\ wifiPc = "poll" /\ ~processit /\ switches = <<>>
    /\ http = Idle /\ inbox = 0
    /\ modes = <<>> /\ webPc # "serve"

\* Once settled, the pages fit the network: the Setting page with the access point
\* and only with it, the Control page in the user's network or without any, when
\* the driver could not be started; and the station counts as connected only if
\* it was started.  And unless a read failed, the controller does what NVS says
\* and nothing older: it runs the access point exactly when no network is stored,
\* and otherwise has read every key as it is stored now, however the writes of
\* several forms overlapped its reads and whichever of them failed.
SettledOnStored ==
    Settled =>
        /\ server = IF radio = "AP" THEN "Setting" ELSE "Control"
        /\ connected => radio = "STA"
        /\ ~misread =>
             IF cfg["ssid"] = Empty THEN radio = "AP" ELSE radio # "AP" /\ read = cfg

\* When no form arrives any more and all resets but those of the firmware's own
\* cease, everything settles: the restarts after a second station interface do
\* not go round in circles.
Settles ==
    <>[][(Reset => Restart) /\ ~FormArrives]_provVars => <>[]Settled

\* wifi_task.cpp:135 "clear web task AP info" and wifi_task.cpp:139 "send each AP
\* into WebTask": once settled, the list of the Setting page is the result of the
\* last scan, without the access points of an earlier one.
ListsLastScan ==
    Settled /\ aps = <<>> /\ radio = "AP" => apinfo = scanned

=============================================================================
