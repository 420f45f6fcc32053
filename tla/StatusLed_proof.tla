-------------------------- MODULE StatusLed_proof --------------------------
(***************************************************************************)
(* Theorems about StatusLed, for any capacity of the three queues and any  *)
(* number of configurations.                                               *)
(***************************************************************************)
EXTENDS StatusLed, LC12STask_proof

\* The mode the LED ends up with when it is left alone: the one posted last.
Latest == IF requests = <<>> THEN blinking ELSE requests[Len(requests)]

\* What wifiPc says of the request in work.
WifiInWork ==
    /\ wifiPc \in {"read", "connect"} => received = "Client"
    /\ wifiPc \in {"clear", "report"} => received = "AP"
    /\ wifiPc # "poll" => ~processit
    /\ wifiPc \in {"read", "connect"} => radio = "off"

\* What the mode posted last says of the task that posted it: it still holds, or
\* the task has work left that makes it hold or replaces it.
LatestHolds ==
    /\ Latest = "LEARN"   => learn
    /\ Latest = "AP_MODE" => /\ received = "AP"
                             /\ processit \/ wifiPc \in {"clear", "report"} \/ radio = "AP"
    /\ Latest = "ERROR"   => radio # "AP" /\ ~processit /\ wifiPc = "poll"
    /\ Latest = "NONE"    => received = "Stop" /\ processit /\ wifiPc = "poll"

\* LedTellsTruth is about states at rest; what leads there is that no mode is
\* left behind in the queue, and that the form only ever asks to stop.
StatusInv ==
    /\ PairingInv
    /\ LedTypeOK
    /\ switches \in Seq({"Stop"})
    /\ WifiInWork
    /\ ~dropped => LatestHolds

-----------------------------------------------------------------------------
(***************************************************************************)
(* The LED's queue.                                                        *)
(***************************************************************************)

\* A request that is not dropped becomes the mode the LED ends up with.
LEMMA TellLatest ==
    ASSUME LedTypeOK, NEW m, Tell(m)
    PROVE  /\ LedTypeOK'
           /\ ~dropped' => ~dropped
           /\ m \in BlinkModes /\ ~dropped' => Latest' = m
           /\ m \notin BlinkModes => Latest' = Latest
<1>1. /\ requests \in Seq(BlinkModes) /\ Len(requests) \in Nat
      /\ Len(requests) <= LedQueueLen /\ LedQueueLen \in Nat
  BY LedTaskAssumption, LenProperties DEF LedTypeOK
<1>2. CASE m \notin BlinkModes
  BY <1>2 DEF Tell, ledVars, LedTypeOK, Latest
<1>3. CASE m \in BlinkModes /\ Len(requests) < LedQueueLen
  <2>1. requests' = Append(requests, m) /\ blinking' = blinking
    BY <1>3 DEF Tell, Blink, SendToBack
  <2>2. /\ requests' \in Seq(BlinkModes) /\ Len(requests') = Len(requests) + 1
        /\ requests'[Len(requests) + 1] = m
    BY <1>1, <1>3, <2>1, AppendProperties
  <2>3. requests' # <<>>
    BY <1>1, <2>2
  <2>4. ~dropped' => ~dropped
    BY <1>3 DEF Tell
  <2>. QED
    BY <1>1, <1>3, <2>1, <2>2, <2>3, <2>4 DEF LedTypeOK, Latest
<1>4. CASE m \in BlinkModes /\ Len(requests) = LedQueueLen
  <2>1. requests' = requests /\ blinking' = blinking
    BY <1>1, <1>4 DEF Tell, Blink, SendToBack
  <2>2. dropped'
    BY <1>4 DEF Tell
  <2>. QED
    BY <1>4, <2>1, <2>2 DEF LedTypeOK
<1>. QED
  BY <1>1, <1>2, <1>3, <1>4

\* A turn of the LED takes requests in order and so leaves the last one alone.
LEMMA TurnLatest ==
    ASSUME LedTypeOK, LedTurn PROVE LedTypeOK' /\ Latest' = Latest
<1>1. /\ requests \in Seq(BlinkModes) /\ requests # <<>>
      /\ Len(requests) <= LedQueueLen /\ LedQueueLen \in Nat
      /\ blinking' = Head(requests) /\ requests' = Tail(requests)
  BY LedTaskAssumption DEF LedTypeOK, LedTurn
<1>2. Len(requests) \in Nat /\ Len(requests) # 0
  BY <1>1, LenProperties, EmptySeq
<1>3. /\ Head(requests) = requests[1] /\ Head(requests) \in BlinkModes
      /\ requests' \in Seq(BlinkModes) /\ Len(requests') = Len(requests) - 1
      /\ \A i \in 1 .. Len(requests') : requests'[i] = requests[i + 1]
  BY <1>1, HeadTailProperties
<1>4. CASE requests' = <<>>
  BY <1>1, <1>2, <1>3, <1>4 DEF Latest, LedTypeOK
<1>5. CASE requests' # <<>>
  <2>1. Len(requests') \in 1 .. Len(requests') /\ Len(requests') + 1 = Len(requests)
    BY <1>2, <1>3, <1>5, LenProperties, EmptySeq
  <2>2. requests'[Len(requests')] = requests[Len(requests)]
    BY <1>3, <2>1
  <2>. QED
    BY <1>1, <1>2, <1>3, <1>5, <2>2 DEF Latest, LedTypeOK
<1>. QED
  BY <1>4, <1>5

-----------------------------------------------------------------------------
(***************************************************************************)
(* LC12STask: the LEARN mode is posted with the flag set, and the flag is  *)
(* not reset without posting another mode.                                 *)
(***************************************************************************)

LEMMA LcsTells ==
    ASSUME PairingInv, TypeOK', TaskStep \/ \E p \in RemotePacket : ReceivePacket(p)
    PROVE  /\ out'.led \in {"LEARN", "CLIENT", None}
           /\ out'.led = "LEARN" => learn'
           /\ learn /\ ~learn' => out'.led = "CLIENT"
<1>1. out'.led \in {"LEARN", "CLIENT", None}
  BY DEF TypeOK, Output
<1>2. None # "LEARN" /\ None # "CLIENT"
  BY StatusLedAssumption DEF BlinkModes
<1>3. ASSUME NEW p \in RemotePacket, ReceivePacket(p)
      PROVE  out'.led \in {"CLIENT", None} /\ (learn /\ ~learn' => out'.led = "CLIENT")
  <2>1. CASE LearnPacket(p)
    BY <2>1 DEF LearnPacket, NoOutput
  <2>2. CASE OwnPacket(p) \/ ForeignPacket(p)
    BY <2>2 DEF OwnPacket, ForeignPacket, NoOutput
  <2>. QED
    BY <1>3, <2>1, <2>2 DEF ReceivePacket
<1>4. ASSUME TaskStep
      PROVE  (out'.led = "LEARN" => learn') /\ (learn => learn')
  <2>1. CASE LearnDelayOver
    BY <2>1 DEF LearnDelayOver, local, PairingInv
  <2>2. CASE StartPaired \/ StartUnpaired \/ HandleToggleOff
    BY <1>2, <2>2 DEF StartPaired, StartUnpaired, HandleToggleOff, NoOutput
  <2>3. CASE HandleLearn
    BY <2>3 DEF HandleLearn
  <2>4. ASSUME NEW w, Emit(w, None), UNCHANGED learn
        PROVE  (out'.led = "LEARN" => learn') /\ (learn => learn')
    BY <1>2, <2>4 DEF Emit
  <2>. QED
    BY <1>4, <2>1, <2>2, <2>3, <2>4
    DEF TaskStep, HandleCommand, SaveHue, local, HandleToggleOn, HandleIncIntensity,
        HandleDecIntensity, StepIntensity, HandleOff, HandleOn, HandleHueIntensity
<1>. QED
  BY <1>1, <1>2, <1>3, <1>4

LEMMA StatusRunLcs ==
    ASSUME StatusInv, RunLcs PROVE StatusInv'
<1>1. PairingInv'
  BY PairingStep DEF RunLcs, StatusInv, Next
<1>2. UNCHANGED wifiVars
  BY DEF RunLcs
<1>3. /\ out'.led \in {"LEARN", "CLIENT", None}
      /\ out'.led = "LEARN" => learn'
      /\ learn /\ ~learn' => out'.led = "CLIENT"
  BY <1>1, LcsTells DEF RunLcs, StatusInv, PairingInv
<1>4. PICK m : m = out'.led /\ Tell(m)
  BY DEF RunLcs
<1>5. /\ LedTypeOK'
      /\ ~dropped' => ~dropped
      /\ m \in BlinkModes /\ ~dropped' => Latest' = m
      /\ m \notin BlinkModes => Latest' = Latest
  BY <1>4, TellLatest DEF StatusInv
<1>6. ASSUME ~dropped' PROVE LatestHolds'
  <2>1. LatestHolds
    BY <1>5, <1>6 DEF StatusInv
  <2>2. CASE m = None
    <3>1. Latest' = Latest /\ (learn => learn')
      BY <1>3, <1>4, <1>5, <2>2, StatusLedAssumption DEF BlinkModes
    <3>. QED
      BY <1>2, <2>1, <3>1 DEF LatestHolds, wifiVars
  <2>3. CASE m \in {"LEARN", "CLIENT"}
    <3>1. Latest' = m
      BY <1>5, <1>6, <2>3 DEF BlinkModes
    <3>. QED
      BY <1>3, <1>4, <2>3, <3>1 DEF LatestHolds
  <2>. QED
    BY <1>3, <1>4, <2>2, <2>3
<1>. QED
  BY <1>1, <1>2, <1>5, <1>6 DEF StatusInv, WifiInWork, wifiVars

-----------------------------------------------------------------------------
(***************************************************************************)
(* WifiTask.                                                               *)
(***************************************************************************)

\* What an iteration begins with: a request to stop, or what was left to do.
LEMMA BeginRequest ==
    ASSUME StatusInv, NEW m, Begin(m)
    PROVE  /\ wifiPc = "poll"
           /\ m = "Stop" \/ (processit /\ received = m)
           /\ switches' \in Seq({"Stop"})
<1>1. CASE switches # <<>>
  <2>1. Head(switches) \in {"Stop"} /\ Tail(switches) \in Seq({"Stop"})
    BY <1>1, HeadTailProperties DEF StatusInv
  <2>. QED
    BY <1>1, <2>1 DEF Begin
<1>2. CASE switches = <<>>
  BY <1>2 DEF Begin, StatusInv
<1>. QED
  BY <1>1, <1>2

\* A step that posts nothing keeps the mode; it must find it justified after.
LEMMA WifiTells ==
    ASSUME StatusInv, RunWifi
    PROVE  /\ PairingInv' /\ LedTypeOK' /\ learn' = learn
           /\ ~dropped' => LatestHolds
           /\ wifiOut'.led \in BlinkModes /\ ~dropped' => Latest' = wifiOut'.led
           /\ wifiOut'.led = "none" => Latest' = Latest
<1>1. PICK m : m = wifiOut'.led /\ Tell(m)
  BY DEF RunWifi
<1>2. /\ LedTypeOK'
      /\ ~dropped' => ~dropped
      /\ m \in BlinkModes /\ ~dropped' => Latest' = m
      /\ m \notin BlinkModes => Latest' = Latest
  BY <1>1, TellLatest DEF StatusInv
<1>3. PairingInv' /\ learn' = learn
  BY PairingStep DEF RunWifi, StatusInv, vars, local
<1>. QED
  BY <1>1, <1>2, <1>3 DEF StatusInv, BlinkModes

LEMMA StatusRunWifi ==
    ASSUME StatusInv, RunWifi PROVE StatusInv'
<1>1. /\ PairingInv' /\ LedTypeOK' /\ learn' = learn
      /\ ~dropped' => LatestHolds
      /\ wifiOut'.led \in BlinkModes /\ ~dropped' => Latest' = wifiOut'.led
      /\ wifiOut'.led = "none" => Latest' = Latest
  BY WifiTells
<1>2. SUFFICES ASSUME WifiStep
               PROVE  /\ switches' \in Seq({"Stop"})
                      /\ WifiInWork'
                      /\ ~dropped' => LatestHolds'
  BY <1>1 DEF RunWifi, StatusInv
<1>3. switches \in Seq({"Stop"}) /\ WifiInWork
  BY DEF StatusInv
<1>4. CASE HandleStop
  <2>1. wifiPc = "poll" /\ switches' \in Seq({"Stop"})
    BY <1>4, BeginRequest DEF HandleStop
  <2>2. WifiInWork'
    BY <1>4, <2>1 DEF HandleStop, WifiInWork
  <2>3. PICK ssid \in Reads("ssid") :
            /\ wifiOut'.led = IF ssid = Empty THEN "AP_MODE" ELSE "CLIENT"
            /\ received' = IF ssid = Empty THEN "AP" ELSE "Client"
    BY <1>4 DEF HandleStop, Silence
  <2>4. ~dropped' => LatestHolds'
    BY <1>1, <1>4, <2>3 DEF HandleStop, LatestHolds, BlinkModes
  <2>. QED
    BY <2>1, <2>2, <2>4
<1>5. CASE HandleClient
  <2>1. wifiPc = "poll" /\ processit /\ received = "Client" /\ switches' \in Seq({"Stop"})
    BY <1>5, BeginRequest DEF HandleClient
  <2>2. WifiInWork'
    BY <1>5 DEF HandleClient, StopAccessPoint, WifiInWork
  <2>3. Latest' = Latest
    BY <1>1, <1>5 DEF HandleClient, Silence
  <2>4. ~dropped' => LatestHolds'
    BY <1>1, <2>1, <2>3 DEF LatestHolds
  <2>. QED
    BY <2>1, <2>2, <2>4
<1>6. CASE HandleAP
  <2>1. wifiPc = "poll" /\ processit /\ received = "AP" /\ switches' \in Seq({"Stop"})
    BY <1>6, BeginRequest DEF HandleAP
  <2>2. WifiInWork'
    BY <1>6 DEF HandleAP, WifiInWork
  <2>3. Latest' = Latest
    BY <1>1, <1>6 DEF HandleAP, Silence
  <2>4. ~dropped' => LatestHolds'
    BY <1>1, <1>6, <2>1, <2>3 DEF HandleAP, LatestHolds
  <2>. QED
    BY <2>1, <2>2, <2>4
<1>7. CASE ReadKey
  <2>1. wifiPc = "read" /\ wifiPc' \in {"read", "connect"} /\ wifiOut'.led = "none"
        /\ UNCHANGED <<received, processit, switches, radio>>
    BY <1>7 DEF ReadKey, Silence
  <2>2. WifiInWork' /\ received = "Client"
    BY <1>3, <2>1 DEF WifiInWork
  <2>3. ~dropped' => LatestHolds'
    BY <1>1, <2>1, <2>2 DEF LatestHolds
  <2>. QED
    BY <1>3, <2>1, <2>2, <2>3
<1>8. ASSUME NEW ok \in BOOLEAN, Connect(ok)
      PROVE  switches' \in Seq({"Stop"}) /\ WifiInWork' /\ (~dropped' => LatestHolds')
  <2>1. /\ wifiPc = "connect" /\ wifiPc' = "poll" /\ radio' \in {"STA", radio}
        /\ wifiOut'.led \in {"none", "ERROR"}
        /\ UNCHANGED <<received, processit, switches>>
    BY <1>8 DEF Connect, ConnectStation
  <2>2. WifiInWork' /\ received = "Client" /\ ~processit /\ radio' # "AP"
    BY <1>3, <2>1 DEF WifiInWork
  <2>3. ~dropped' => LatestHolds'
    BY <1>1, <2>1, <2>2 DEF LatestHolds, BlinkModes
  <2>. QED
    BY <1>3, <2>1, <2>2, <2>3
<1>9. CASE ClearAPInfo \/ ReportAP
  <2>1. /\ wifiPc \in {"clear", "report"} /\ wifiPc' = "report" /\ wifiOut'.led = "none"
        /\ UNCHANGED <<received, processit, switches, radio>>
    BY <1>9 DEF ClearAPInfo, ReportAP, Silence
  <2>2. WifiInWork'
    BY <1>3, <2>1 DEF WifiInWork
  <2>3. ~dropped' => LatestHolds'
    BY <1>1, <2>1 DEF LatestHolds
  <2>. QED
    BY <1>3, <2>1, <2>2, <2>3
<1>10. CASE StartAP
  <2>1. /\ wifiPc = "report" /\ wifiPc' = "poll" /\ radio' = "AP" /\ wifiOut'.led = "none"
        /\ UNCHANGED <<received, processit, switches>>
    BY <1>10 DEF StartAP, StartAccessPoint, Silence
  <2>2. WifiInWork'
    BY <1>3, <2>1 DEF WifiInWork
  <2>3. ~dropped' => LatestHolds'
    BY <1>1, <2>1 DEF LatestHolds
  <2>. QED
    BY <1>3, <2>1, <2>2, <2>3
<1>. QED
  BY <1>2, <1>4, <1>5, <1>6, <1>7, <1>8, <1>9, <1>10 DEF WifiStep

-----------------------------------------------------------------------------
(***************************************************************************)
(* The other steps, and the invariant.                                     *)
(***************************************************************************)

LEMMA StatusRunLed ==
    ASSUME StatusInv, RunLed PROVE StatusInv'
<1>1. PairingInv' /\ learn' = learn
  BY PairingStep DEF RunLed, StatusInv, vars, local
<1>2. LedTypeOK' /\ Latest' = Latest
  BY TurnLatest DEF RunLed, StatusInv
<1>. QED
  BY <1>1, <1>2 DEF RunLed, StatusInv, WifiInWork, LatestHolds, wifiVars

LEMMA StatusUser ==
    ASSUME StatusInv,
           LoseNetwork \/ Submit \/ (\E v \in Values \cup {Empty} : Configure(v))
             \/ Reconfig \/ UNCHANGED statusVars
    PROVE  StatusInv'
<1>1. PairingInv' /\ learn' = learn
  <2>1. CASE Reconfig
    <3>1. PostRequest /\ learn' = learn
      BY <2>1 DEF Reconfig, PostRequest, PlainCommands, Command, Post, local
    <3>. QED
      BY <3>1, PairingStep DEF StatusInv, Next
  <2>2. CASE UNCHANGED vars
    BY <2>2, PairingStep DEF StatusInv, vars, local
  <2>. QED
    BY <2>1, <2>2 DEF LoseNetwork, Submit, Configure, statusVars
<1>2. UNCHANGED <<requests, blinking, dropped, wifiPc, received, processit, radio>>
  BY DEF LoseNetwork, Disconnected, Submit, Configure, Reconfig, statusVars, wifiVars, ledVars
<1>3. switches' \in Seq({"Stop"})
  <2>1. ASSUME NEW v, Configure(v) PROVE switches' \in Seq({"Stop"})
    BY <2>1, AppendProperties DEF Configure, SwitchMode, SendToBack, StatusInv
  <2>2. CASE UNCHANGED switches
    BY <2>2 DEF StatusInv
  <2>. QED
    BY <2>1, <2>2 DEF LoseNetwork, Disconnected, Submit, Reconfig, statusVars, wifiVars
<1>. QED
  BY <1>1, <1>2, <1>3 DEF StatusInv, LedTypeOK, WifiInWork, LatestHolds, Latest

LEMMA StatusReboot ==
    ASSUME StatusInv, Reboot PROVE StatusInv'
<1>1. PairingInv'
  BY PairingStep DEF Reboot, StatusInv, Next
<1>2. /\ requests' = <<>> /\ blinking' = "NONE" /\ switches' = <<>>
      /\ wifiPc' = "poll" /\ received' = "Stop" /\ processit'
  BY DEF Reboot, LedReboot, WifiReboot
<1>3. LedTypeOK'
  BY <1>2, LedTaskAssumption DEF LedTypeOK, BlinkModes
<1>. QED
  BY <1>1, <1>2, <1>3 DEF StatusInv, WifiInWork, LatestHolds, Latest

LEMMA StatusInvInit == StatusInit => StatusInv
<1>. SUFFICES ASSUME StatusInit PROVE StatusInv
  OBVIOUS
<1>1. PairingInv
  BY PairingInit DEF StatusInit
<1>2. /\ requests = <<>> /\ blinking = "NONE" /\ switches = <<>>
      /\ wifiPc = "poll" /\ received = "Stop" /\ processit
  BY DEF StatusInit, LedInit, WifiInit, WifiReset
<1>3. LedTypeOK
  BY <1>2, LedTaskAssumption DEF LedTypeOK, BlinkModes
<1>. QED
  BY <1>1, <1>2, <1>3 DEF StatusInv, WifiInWork, LatestHolds, Latest

LEMMA StatusStep == StatusInv /\ [StatusNext]_statusVars => StatusInv'
  BY StatusRunLcs, StatusRunWifi, StatusRunLed, StatusUser, StatusReboot
  DEF StatusNext, PowerCycle, Restart

\* The LED's queue holds modes of the LED, and never more than its capacity.
THEOREM LedTypeCorrect == StatusSpec => []LedTypeOK
<1>1. StatusInv => LedTypeOK
  BY DEF StatusInv
<1>. QED
  BY <1>1, StatusInvInit, StatusStep, PTL DEF StatusSpec

\* LC12STask and WifiTask post to the LED without knowing of each other, and yet,
\* as long as no request was dropped, neither leaves a mode behind that no longer
\* holds once everything is at rest.
THEOREM LedTruthful == StatusSpec => []LedTellsTruth
<1>1. StatusInv => LedTellsTruth
  <2>1. SUFFICES ASSUME StatusInv, AtRest, ~dropped
                 PROVE  /\ blinking = "LEARN"   => learn
                        /\ blinking = "AP_MODE" => radio = "AP"
                        /\ blinking = "ERROR"   => radio # "AP"
                        /\ blinking # "NONE"
    BY DEF LedTellsTruth
  <2>2. Latest = blinking /\ LatestHolds
    BY <2>1 DEF AtRest, StatusInv, Latest
  <2>. QED
    BY <2>1, <2>2 DEF AtRest, LatestHolds
<1>. QED
  BY <1>1, StatusInvInit, StatusStep, PTL DEF StatusSpec

=============================================================================
