----------------------------- MODULE StatusLed -----------------------------
(***************************************************************************)
(* The status LED and the two tasks that post to it without knowing of     *)
(* each other: LC12STask tells it of the learn mode, WifiTask of the       *)
(* network.  The web page is seen by its effects only: it stores another   *)
(* configuration and queues the learn command.                             *)
(***************************************************************************)
EXTENDS LC12STask, WifiTask, LedTask

CONSTANT MaxForms       \* bound: configurations submitted between two starts

ASSUME StatusLedAssumption == None \notin BlinkModes

VARIABLES
    submitted,          \* configurations submitted since the start
    inbox,              \* of these, how many are not yet handled
    dropped             \* since the start, a request found the LED's queue full

statusVars == <<vars, wifiVars, ledVars, submitted, inbox, dropped>>

StatusInit ==
    /\ Init
    /\ WifiInit
    /\ LedInit
    /\ submitted = 0
    /\ inbox = 0
    /\ dropped = FALSE

-----------------------------------------------------------------------------
(***************************************************************************)
(* The tasks.                                                              *)
(***************************************************************************)

Tell(mode) ==
    IF mode \in BlinkModes
    THEN /\ Blink(mode)
         /\ dropped' = (dropped \/ Len(requests) = LedQueueLen)
    ELSE UNCHANGED <<ledVars, dropped>>

RunLcs ==
    /\ TaskStep \/ \E p \in RemotePacket : ReceivePacket(p)
    /\ Tell(out'.led)
    /\ UNCHANGED <<wifiVars, submitted, inbox>>

RunWifi ==
    /\ WifiStep
    /\ Tell(wifiOut'.led)
    /\ UNCHANGED <<vars, submitted, inbox>>

RunLed ==
    /\ LedTurn
    /\ UNCHANGED <<vars, wifiVars, submitted, inbox, dropped>>

LoseNetwork ==
    /\ Disconnected
    /\ UNCHANGED <<vars, ledVars, submitted, inbox, dropped>>

-----------------------------------------------------------------------------
(***************************************************************************)
(* The user, and resets.                                                   *)
(***************************************************************************)

\* The form of the Setting page, which only the access point serves.
Submit ==
    /\ radio = "AP"
    /\ submitted < MaxForms
    /\ submitted' = submitted + 1
    /\ inbox' = inbox + 1
    /\ UNCHANGED <<vars, wifiVars, ledVars, dropped>>

\* Its handler may run when the access point is down already, and the write of
\* any of the keys may fail.
Configure(v) ==
    /\ inbox > 0
    /\ inbox' = inbox - 1
    /\ \E stored \in IF open THEN SUBSET Keys ELSE {{}} :
         cfg' = [k \in Keys |-> IF k \in stored THEN v ELSE cfg[k]]
    /\ SwitchMode("Stop")
    /\ UNCHANGED <<vars, ledVars, submitted, dropped, wifiPc, received, processit, radio, staMade,
                   connected, read, found, open, misread, wifiOut>>

\* RECONFIG of the Control page, which is served in the user's network.
Reconfig ==
    /\ radio = "STA"
    /\ Command("learn")
    /\ UNCHANGED <<wifiVars, ledVars, submitted, inbox, dropped>>

Reboot ==
    /\ Crash
    /\ WifiReboot
    /\ LedReboot
    /\ submitted' = 0
    /\ inbox' = 0
    /\ dropped' = FALSE

\* With A and B held, the network is forgotten (checkRenewAP), if it can be.
PowerCycle ==
    /\ Reboot
    /\ cfg' \in IF open' THEN {cfg, [cfg EXCEPT !["ssid"] = Empty]} ELSE {cfg}

\* A second station interface makes the firmware restart.
Restart ==
    /\ SecondStation
    /\ Reboot
    /\ UNCHANGED cfg

StatusNext ==
    \/ RunLcs \/ RunWifi \/ RunLed \/ LoseNetwork
    \/ Submit
    \/ \E v \in Values \cup {Empty} : Configure(v)
    \/ Reconfig
    \/ PowerCycle \/ Restart

StatusSpec == StatusInit /\ [][StatusNext]_statusVars

-----------------------------------------------------------------------------
(***************************************************************************)
(* Properties.                                                             *)
(***************************************************************************)

\* Every task has done what it has to do, and the LED has taken every request.
AtRest ==
    /\ pc = "loop" /\ queue = <<>>
    /\ wifiPc = "poll" /\ ~processit /\ switches = <<>>
    /\ requests = <<>>
    /\ inbox = 0

\* What the LED tells is true once everything is at rest: it asks for the remote
\* only while the ID is to be learned, reports the access point only while that
\* runs, and an error only when it does not.  The two tasks overwrite each other's
\* modes, but neither leaves one behind that has ceased to hold.
LedTellsTruth ==
    AtRest /\ ~dropped =>
        /\ blinking = "LEARN"   => learn
        /\ blinking = "AP_MODE" => radio = "AP"
        /\ blinking = "ERROR"   => radio # "AP"
        /\ blinking # "NONE"

\* README.md, LED STATE: "- - - -" means "LAMP connected to wifi and works".
ClientMeansConnected ==
    AtRest /\ ~dropped /\ blinking = "CLIENT" => connected

=============================================================================
