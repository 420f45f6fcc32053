----------------------------- MODULE WifiTask -----------------------------
(***************************************************************************)
(* WifiTask (wifi_task.cpp, with the wrappers wifi_client.h,               *)
(* access_point.h and wifi_scanner.h): the task that decides between the   *)
(* configuration access point and the user's network, from the             *)
(* configuration in NVS.                                                   *)
(*                                                                         *)
(* An iteration of the loop is split where another task can see or change  *)
(* something in between: each key of the configuration is a read of its    *)
(* own, and so is each message to WebTask.                                 *)
(*                                                                         *)
(* Every access to NVS may fail, and nobody looks at the result: a read    *)
(* then gives the empty string, a write leaves the key as it was.  On a    *)
(* store that could not be opened every access fails.  A write that sets   *)
(* the value and fails to commit it is one that succeeds here if the next  *)
(* reset finds the value; if it does not, it differs from a failed write   *)
(* until then only, and up to then from a successful one not at all.       *)
(* Errors of the driver that ESP_ERROR_CHECK turns into a restart          *)
(* (external) are resets.                                                  *)
(***************************************************************************)
EXTENDS RTOSQueue

CONSTANTS
    Values,         \* non-empty values of a key
    Empty,          \* the empty string
    ScanResults,    \* possible results of a scan: sequences of access points
    SwitchQueueLen  \* capacity of _queue (2)

ASSUME WifiTaskAssumption ==
    /\ Empty \notin Values
    /\ SwitchQueueLen \in Nat \ {0}

VARIABLES
    wifiPc,         \* "poll", "read", "connect", "clear", "report", "startAP"
    received,       \* receivedMode
    processit,      \* received is to be processed in the next iteration
    switches,       \* _queue
    radio,          \* "off", "AP" or "STA"
    staMade,        \* the station interface exists
    connected,      \* WiFiClient::_isConnected
    read,           \* keys of the configuration read so far
    found,          \* access points of the last scan still to be reported
    cfg,            \* NVS: the five keys of the configuration
    open,           \* the store could be opened at the start
    misread,        \* history: a read of what is in force now failed
    wifiOut         \* what the last step sent to WebTask and LedTask

wifiVars == <<wifiPc, received, processit, switches, radio, staMade, connected,
              read, found, cfg, open, misread, wifiOut>>

Keys == {"ssid", "pass", "ip", "gw", "mask"}
Modes == {"AP", "Client", "Stop"}
NoKeys == [k \in {} |-> Empty]
Silence == [mode |-> "none", ap |-> "none", led |-> "none"]

\* Everything but NVS, when the tasks are created.
WifiReset ==
    /\ wifiPc = "poll"
    /\ received = "Stop"
    /\ processit = TRUE
    /\ switches = <<>>
    /\ radio = "off"
    /\ staMade = FALSE
    /\ connected = FALSE
    /\ read = NoKeys
    /\ found = <<>>
    /\ open \in BOOLEAN
    /\ misread = FALSE
    /\ wifiOut = Silence

WifiInit == WifiReset /\ cfg = [k \in Keys |-> Empty]

WifiReboot ==
    /\ wifiPc' = "poll"
    /\ received' = "Stop"
    /\ processit' = TRUE
    /\ switches' = <<>>
    /\ radio' = "off"
    /\ staMade' = FALSE
    /\ connected' = FALSE
    /\ read' = NoKeys
    /\ found' = <<>>
    /\ open' \in BOOLEAN
    /\ misread' = FALSE
    /\ wifiOut' = Silence

\* KeyVal::readString and writeString.
Reads(k)      == IF open THEN {cfg[k], Empty} ELSE {Empty}
Writes(k, v)  == IF open THEN {cfg, [cfg EXCEPT ![k] = v]} ELSE {cfg}

-----------------------------------------------------------------------------
(***************************************************************************)
(* The beginning of an iteration: a switch request that waits in the queue *)
(* replaces whatever was to be processed.                                  *)
(***************************************************************************)

Begin(m) ==
    /\ wifiPc = "poll"
    /\ IF switches # <<>>
       THEN Head(switches) = m /\ switches' = Tail(switches)
       ELSE processit /\ received = m /\ UNCHANGED switches

\* The wrappers of the driver.  disconnect() fails, and keeps the flag, when the
\* driver is already down.  The scanner lists at most 20 access points.  connect()
\* leaves the driver down when it cannot be started.
StopAccessPoint == radio' = "off"

StartAccessPoint == radio' = "AP"

Disconnect == connected' \in {connected, FALSE}

Scan == found' \in ScanResults

ConnectStation(ok) ==
    /\ radio' \in IF ok THEN {"STA"} ELSE {"STA", radio}
    /\ connected' = (ok \/ connected)

HandleStop ==
    /\ Begin("Stop")
    /\ StopAccessPoint
    /\ Disconnect
    /\ \E ssid \in Reads("ssid") :
         /\ received' = IF ssid = Empty THEN "AP" ELSE "Client"
         /\ wifiOut' = [Silence EXCEPT !.led = IF ssid = Empty THEN "AP_MODE" ELSE "CLIENT"]
         /\ misread' = (ssid # cfg["ssid"])
    /\ processit' = TRUE
    /\ UNCHANGED <<wifiPc, staMade, read, found, cfg, open>>

\* The station interface is never destroyed, and a second one is not created:
\* the library asserts (external), which sdkconfig.esp32dev:315 and 713 make a
\* restart.
SecondStation ==
    /\ staMade
    /\ Begin("Client") \/ Begin("AP")

\* Mutant: processit is not reset.
HandleClientAgain ==
    /\ Begin("Client")
    /\ ~staMade
    /\ received' = "Client"
    /\ StopAccessPoint
    /\ Disconnect
    /\ staMade' = TRUE
    /\ wifiPc' = "read"
    /\ read' = NoKeys
    /\ wifiOut' = Silence
    /\ UNCHANGED <<processit, found, cfg, open, misread>>

HandleClient ==
    /\ Begin("Client")
    /\ ~staMade
    /\ received' = "Client"
    /\ processit' = FALSE
    /\ StopAccessPoint
    /\ Disconnect
    /\ staMade' = TRUE
    /\ wifiPc' = "read"
    /\ read' = NoKeys
    /\ wifiOut' = Silence
    /\ UNCHANGED <<found, cfg, open, misread>>

\* ip, mask and gw in this order; ssid and pass are two arguments of one call,
\* which C++ evaluates in either order.
NextKeys ==
    LET done == DOMAIN read
    IN  CASE "ip"   \notin done -> {"ip"}
          [] "mask" \notin done -> {"mask"}
          [] "gw"   \notin done -> {"gw"}
          [] OTHER              -> {"ssid", "pass"} \ done

ReadKey ==
    /\ wifiPc = "read"
    /\ \E k \in NextKeys : \E v \in Reads(k) :
         /\ read' = [j \in DOMAIN read \cup {k} |-> IF j = k THEN v ELSE read[j]]
         /\ misread' = (misread \/ v # cfg[k])
    /\ wifiPc' = IF DOMAIN read' = Keys THEN "connect" ELSE "read"
    /\ wifiOut' = Silence
    /\ UNCHANGED <<received, processit, switches, radio, staMade, connected, found, cfg, open>>

\* The Control page is started whether or not the connection could be.
Connect(ok) ==
    /\ wifiPc = "connect"
    /\ wifiPc' = "poll"
    /\ ConnectStation(ok)
    /\ wifiOut' = [mode |-> "Control", ap |-> "none", led |-> IF ok THEN "none" ELSE "ERROR"]
    /\ UNCHANGED <<received, processit, switches, staMade, read, found, cfg, open, misread>>

\* The driver reports that the station lost its access point.  Nothing connects
\* it again.
Disconnected ==
    /\ radio = "STA"
    /\ connected
    /\ connected' = FALSE
    /\ wifiOut' = Silence
    /\ UNCHANGED <<wifiPc, received, processit, switches, radio, staMade, read, found, cfg,
                   open, misread>>

-----------------------------------------------------------------------------
(***************************************************************************)
(* The access point: scan, tell WebTask what was found, start.             *)
(***************************************************************************)

HandleAP ==
    /\ Begin("AP")
    /\ ~staMade
    /\ received' = "AP"
    /\ processit' = FALSE
    /\ Disconnect
    /\ Scan
    /\ wifiPc' = "clear"
    /\ wifiOut' = Silence
    /\ UNCHANGED <<radio, staMade, read, cfg, open, misread>>

ClearAPInfo ==
    /\ wifiPc = "clear"
    /\ wifiPc' = "report"
    /\ wifiOut' = [Silence EXCEPT !.mode = "ClearAPInfo"]
    /\ UNCHANGED <<received, processit, switches, radio, staMade, connected, read, found, cfg,
                   open, misread>>

ReportAP ==
    /\ wifiPc = "report"
    /\ found # <<>>
    /\ found' = Tail(found)
    /\ wifiOut' = [Silence EXCEPT !.ap = Head(found)]
    /\ UNCHANGED <<wifiPc, received, processit, switches, radio, staMade, connected, read, cfg,
                   open, misread>>

StartAP ==
    /\ wifiPc = "report"
    /\ found = <<>>
    /\ wifiPc' = "poll"
    /\ StartAccessPoint
    /\ wifiOut' = [Silence EXCEPT !.mode = "Setting"]
    /\ UNCHANGED <<received, processit, switches, staMade, connected, read, found, cfg,
                   open, misread>>

WifiStep ==
    \/ HandleStop \/ HandleClient \/ ReadKey
    \/ (\E ok \in BOOLEAN : Connect(ok))
    \/ HandleAP \/ ClearAPInfo \/ ReportAP \/ StartAP

\* switchMode, called by the handler of the configuration form.
SwitchMode(m) == switches' = SendToBack(switches, m, SwitchQueueLen)

=============================================================================
