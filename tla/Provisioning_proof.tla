------------------------- MODULE Provisioning_proof -------------------------
(***************************************************************************)
(* Theorems about Provisioning, for any networks, any number of forms and  *)
(* any results of the scans.                                               *)
(***************************************************************************)
EXTENDS Provisioning, SequenceTheorems, TLAPS

-----------------------------------------------------------------------------
(***************************************************************************)
(* Type correctness, task by task.                                         *)
(***************************************************************************)

\* The modes WifiTask sends to WebTask.
Posted == {"ClearAPInfo", "Setting", "Control"}

WifiTyped ==
    /\ wifiPc \in {"poll", "read", "connect", "clear", "report"}
    /\ received \in Modes
    /\ processit \in BOOLEAN /\ staMade \in BOOLEAN /\ connected \in BOOLEAN
    /\ open \in BOOLEAN /\ misread \in BOOLEAN
    /\ switches \in Seq({"Stop"}) /\ Len(switches) <= SwitchQueueLen
    /\ radio \in {"off", "AP", "STA"}
    /\ DOMAIN read \subseteq Keys
    /\ read = [k \in DOMAIN read |-> read[k]]
    /\ \A k \in DOMAIN read : read[k] \in Values \cup {Empty}
    /\ cfg \in [Keys -> Values \cup {Empty}]

WebTyped ==
    /\ modes \in Seq(Posted) /\ Len(modes) <= WebQueueLen
    /\ mode \in WebModes
    /\ webPc \in {"ap", "lcs", "mode", "serve"}
    /\ webPc = "serve" => mode \in {"Setting", "Control"}
    /\ server \in {"stopped", "Setting", "Control"}
    /\ \E S : aps \in Seq(S)
    /\ Len(aps) <= WebQueueLen

FormTyped ==
    /\ http \in Handlers
    /\ accepted \in 0 .. MaxForms
    /\ inbox \in Nat /\ inbox <= accepted

TimingTyped ==
    /\ timing \in [looked : BOOLEAN, missed : 0 .. MaxMissed, slowForm : BOOLEAN]
    /\ scanned \in ScanResults \cup {<<>>}

ProvTyped == WifiTyped /\ WebTyped /\ FormTyped /\ TimingTyped

LEMMA TypedTypeOK == ProvTyped => ProvTypeOK
<1>. SUFFICES ASSUME ProvTyped PROVE ProvTypeOK
  OBVIOUS
<1>1. modes \in Seq(WebModes)
  <2>1. modes \in Seq(Posted) /\ Posted \subseteq WebModes
    BY DEF ProvTyped, WebTyped, Posted, WebModes
  <2>. QED
    BY <2>1
<1>2. inbox \in 0 .. MaxForms
  BY ProvisioningAssumption DEF ProvTyped, FormTyped
<1>3. {processit, staMade, connected, open, misread} \subseteq BOOLEAN
  BY Zenon DEF ProvTyped, WifiTyped
<1>. QED
  BY <1>1, <1>2, <1>3, Zenon
  DEF ProvTyped, WifiTyped, WebTyped, FormTyped, TimingTyped, ProvTypeOK

\* A posted message stays within the capacity of its queue; when there is room,
\* it is the last one.
LEMMA SendTyped ==
    ASSUME NEW S, NEW q \in Seq(S), NEW m \in S, NEW n \in Nat, Len(q) <= n
    PROVE  /\ SendToBack(q, m, n) \in Seq(S)
           /\ Len(SendToBack(q, m, n)) <= n
           /\ Len(SendToBack(q, m, n)) <= Len(q) + 1
           /\ n # 0 => SendToBack(q, m, n) # <<>>
           /\ Len(q) < n => /\ SendToBack(q, m, n) # <<>>
                            /\ SendToBack(q, m, n)[Len(SendToBack(q, m, n))] = m
<1>1. Len(q) \in Nat /\ (q = <<>> <=> Len(q) = 0)
  BY LenProperties, EmptySeq
<1>2. CASE Len(q) < n
  <2>1. /\ Append(q, m) \in Seq(S) /\ Append(q, m) # <<>>
        /\ Len(Append(q, m)) = Len(q) + 1 /\ Append(q, m)[Len(q) + 1] = m
    BY AppendProperties
  <2>. QED
    BY <1>1, <1>2, <2>1 DEF SendToBack
<1>3. CASE ~(Len(q) < n)
  BY <1>1, <1>3 DEF SendToBack
<1>. QED
  BY <1>2, <1>3

LEMMA TakeTyped ==
    ASSUME NEW S, NEW q \in Seq(S), q # <<>>
    PROVE  /\ Head(q) \in S /\ Head(q) = q[1]
           /\ Tail(q) \in Seq(S)
           /\ Len(Tail(q)) = Len(q) - 1
           /\ Len(q) \in Nat \ {0}
           /\ Tail(q) = <<>> => Len(q) = 1
           /\ Tail(q) # <<>> => Tail(q)[Len(Tail(q))] = q[Len(q)]
<1>1. /\ Head(q) \in S /\ Head(q) = q[1] /\ Tail(q) \in Seq(S) /\ Len(Tail(q)) = Len(q) - 1
      /\ \A i \in 1 .. Len(Tail(q)) : Tail(q)[i] = q[i + 1]
  BY HeadTailProperties
<1>2. Len(q) \in Nat \ {0}
  BY LenProperties, EmptySeq
<1>3. Tail(q) = <<>> => Len(q) = 1
  <2>1. Len(<<>>) = 0
    OBVIOUS
  <2>2. \A n \in Nat : n - 1 = 0 => n = 1
    OBVIOUS
  <2>. QED
    BY <1>1, <1>2, <2>1, <2>2, Zenon
<1>4. ASSUME Tail(q) # <<>> PROVE Tail(q)[Len(Tail(q))] = q[Len(q)]
  <2>1. Len(Tail(q)) \in 1 .. Len(Tail(q)) /\ Len(Tail(q)) + 1 = Len(q)
    BY <1>1, <1>2, <1>4, LenProperties, EmptySeq
  <2>. QED
    BY <1>1, <2>1
<1>. QED
  BY <1>1, <1>2, <1>3, <1>4

\* What begins an iteration: the request that waits, or the one left to do.
LEMMA BeginTyped ==
    ASSUME WifiTyped, NEW m, Begin(m)
    PROVE  /\ switches' \in Seq({"Stop"}) /\ Len(switches') <= SwitchQueueLen
           /\ wifiPc = "poll"
           /\ m # "Stop" => switches = <<>> /\ switches' = <<>> /\ processit /\ received = m
<1>1. switches \in Seq({"Stop"}) /\ Len(switches) <= SwitchQueueLen /\ SwitchQueueLen \in Nat
  BY WifiTaskAssumption DEF WifiTyped
<1>2. CASE switches # <<>>
  <2>1. Head(switches) = m /\ switches' = Tail(switches)
    BY <1>2 DEF Begin
  <2>. QED
    BY <1>1, <1>2, <2>1, TakeTyped DEF Begin
<1>3. CASE switches = <<>>
  BY <1>1, <1>3 DEF Begin
<1>. QED
  BY <1>2, <1>3

LEMMA NextKeysTyped == NextKeys \subseteq Keys
BY DEF NextKeys, Keys

\* What a read gives is a value of the key or nothing.
LEMMA ReadsTyped ==
    ASSUME WifiTyped, NEW k \in Keys, NEW v \in Reads(k)
    PROVE  v \in Values \cup {Empty}
BY DEF Reads, WifiTyped

LEMMA WifiTypedStep ==
    ASSUME WifiTyped, WifiStep
    PROVE  /\ WifiTyped'
           /\ wifiOut'.mode \in {"none"} \cup Posted
<1>1. /\ cfg' = cfg /\ cfg \in [Keys -> Values \cup {Empty}]
      /\ wifiPc' \in {"poll", "read", "connect", "clear", "report"}
      /\ received' \in Modes
      /\ radio' \in {"off", "AP", "STA"}
  <2>1. CASE \E ok \in BOOLEAN : Connect(ok)
    <3>1. PICK ok \in BOOLEAN : Connect(ok)
      BY <2>1
    <3>2. radio' \in {"STA", radio}
      BY <3>1 DEF Connect, ConnectStation
    <3>. QED
      BY <3>1, <3>2 DEF Connect, WifiTyped
  <2>2. CASE ~(\E ok \in BOOLEAN : Connect(ok))
    BY <2>2 DEF WifiTyped, WifiStep, HandleStop, HandleClient, ReadKey, HandleAP,
       ClearAPInfo, ReportAP, StartAP, Begin, StopAccessPoint, StartAccessPoint, Modes
  <2>. QED
    BY <2>1, <2>2, Zenon
<1>2. processit' \in BOOLEAN
  BY DEF WifiTyped, WifiStep, HandleStop, HandleClient, ReadKey, Connect, HandleAP,
         ClearAPInfo, ReportAP, StartAP
<1>3. staMade' \in BOOLEAN
  BY DEF WifiTyped, WifiStep, HandleStop, HandleClient, ReadKey, Connect, HandleAP,
         ClearAPInfo, ReportAP, StartAP
<1>4. connected' \in BOOLEAN
  <2>1. CASE \E ok \in BOOLEAN : Connect(ok)
    <3>1. PICK ok \in BOOLEAN : connected' = (ok \/ connected)
      BY <2>1 DEF Connect, ConnectStation
    <3>2. (ok \/ connected) \in BOOLEAN
      OBVIOUS
    <3>. QED
      BY <3>1, <3>2, Zenon
  <2>2. CASE connected' \in {connected, FALSE}
    BY <2>2, Zenon DEF WifiTyped
  <2>3. CASE connected' = connected
    BY <2>3, Zenon DEF WifiTyped
  <2>. QED
    BY <2>1, <2>2, <2>3, Zenon
    DEF WifiStep, HandleStop, HandleClient, ReadKey, HandleAP,
        ClearAPInfo, ReportAP, StartAP, Disconnect
<1>5. switches' \in Seq({"Stop"}) /\ Len(switches') <= SwitchQueueLen
  <2>1. CASE HandleStop \/ HandleClient \/ HandleAP
    BY <2>1, BeginTyped DEF HandleStop, HandleClient, HandleAP
  <2>2. CASE switches' = switches
    BY <2>2 DEF WifiTyped
  <2>. QED
    BY <2>1, <2>2 DEF WifiStep, ReadKey, Connect, ClearAPInfo, ReportAP, StartAP
<1>6. /\ DOMAIN read' \subseteq Keys /\ read' = [k \in DOMAIN read' |-> read'[k]]
      /\ \A k \in DOMAIN read' : read'[k] \in Values \cup {Empty}
  <2>1. CASE ReadKey
    <3>0. PICK k \in NextKeys : \E v \in Reads(k) :
              read' = [j \in DOMAIN read \cup {k} |-> IF j = k THEN v ELSE read[j]]
      BY <2>1 DEF ReadKey
    <3>1. PICK v \in Reads(k) :
              read' = [j \in DOMAIN read \cup {k} |-> IF j = k THEN v ELSE read[j]]
      BY <3>0
    <3>2. k \in Keys /\ v \in Values \cup {Empty}
      BY ReadsTyped, NextKeysTyped
    <3>. QED
      BY <3>1, <3>2 DEF WifiTyped
  <2>2. CASE read' = NoKeys
    BY <2>2 DEF NoKeys
  <2>3. CASE read' = read
    BY <2>3 DEF WifiTyped
  <2>. QED
    BY <2>1, <2>2, <2>3
    DEF WifiStep, HandleStop, HandleClient, Connect, HandleAP, ClearAPInfo, ReportAP, StartAP
<1>7. open' \in BOOLEAN /\ misread' \in BOOLEAN
  <2>1. CASE HandleStop
    <3>1. PICK ssid \in Reads("ssid") : misread' = (ssid # cfg["ssid"])
      BY <2>1 DEF HandleStop
    <3>. QED
      BY <2>1, <3>1 DEF HandleStop, WifiTyped
  <2>2. CASE ReadKey
    <3>0. PICK k \in NextKeys : \E v \in Reads(k) : misread' = (misread \/ v # cfg[k])
      BY <2>2 DEF ReadKey
    <3>1. PICK v \in Reads(k) : misread' = (misread \/ v # cfg[k])
      BY <3>0
    <3>2. (misread \/ v # cfg[k]) \in BOOLEAN
      OBVIOUS
    <3>. QED
      BY <2>2, <3>1, <3>2, Zenon DEF ReadKey, WifiTyped
  <2>3. CASE open' = open /\ misread' = misread
    BY <2>3, Zenon DEF WifiTyped
  <2>. QED
    BY <2>1, <2>2, <2>3, Zenon
    DEF WifiStep, HandleClient, Connect, HandleAP, ClearAPInfo, ReportAP, StartAP
<1>8. wifiOut'.mode \in {"none"} \cup Posted
  BY DEF WifiStep, HandleStop, HandleClient, ReadKey, Connect, HandleAP,
         ClearAPInfo, ReportAP, StartAP, Silence, Posted
<1>. QED
  BY <1>1, <1>2, <1>3, <1>4, <1>5, <1>6, <1>7, <1>8, Zenon DEF WifiTyped

LEMMA DeliverTyped ==
    ASSUME WebTyped, Deliver, wifiOut'.mode \in {"none"} \cup Posted,
           UNCHANGED <<webPc, mode, server>>
    PROVE  WebTyped'
<1>. DEFINE out == wifiOut'
<1>1. WebQueueLen \in Nat
  BY WebTaskAssumption
<1>2. modes' \in Seq(Posted) /\ Len(modes') <= WebQueueLen
  <2>1. CASE out.mode = "none"
    BY <2>1 DEF Deliver, WebTyped
  <2>2. CASE out.mode # "none"
    <3>1. out.mode \in Posted /\ modes' = SendToBack(modes, out.mode, WebQueueLen)
      BY <2>2 DEF Deliver
    <3>. HIDE DEF out
    <3>. QED
      BY <1>1, <3>1, SendTyped DEF WebTyped
  <2>. QED
    BY <2>1, <2>2
<1>3. (\E S : aps' \in Seq(S)) /\ Len(aps') <= WebQueueLen
  <2>1. CASE out.ap = "none"
    BY <2>1 DEF Deliver, WebTyped
  <2>2. CASE out.ap # "none"
    <3>1. PICK S : aps \in Seq(S)
      BY DEF WebTyped
    <3>2. aps' = SendToBack(aps, out.ap, WebQueueLen) /\ Len(aps) <= WebQueueLen
      BY <2>2 DEF Deliver, WebTyped
    <3>. DEFINE T == S \cup {out.ap}
    <3>3. aps \in Seq(T) /\ out.ap \in T
      BY <3>1
    <3>. HIDE DEF out, T
    <3>4. aps' \in Seq(T) /\ Len(aps') <= WebQueueLen
      BY <1>1, <3>2, <3>3, SendTyped
    <3>. QED
      BY <3>4
  <2>. QED
    BY <2>1, <2>2
<1>4. /\ mode' \in WebModes /\ webPc' \in {"ap", "lcs", "mode", "serve"}
      /\ webPc' = "serve" => mode' \in {"Setting", "Control"}
      /\ server' \in {"stopped", "Setting", "Control"}
  BY DEF WebTyped
<1>. QED
  BY <1>2, <1>3, <1>4, Zenon DEF WebTyped

LEMMA KeepStepTyped ==
    ASSUME TimingTyped, KeepStep
    PROVE  timing' \in [looked : BOOLEAN, missed : 0 .. MaxMissed, slowForm : BOOLEAN]
<1>. DEFINE Step == [looked : BOOLEAN, missed : 0 .. MaxMissed, slowForm : BOOLEAN]
<1>1. timing \in Step /\ MaxMissed \in Nat
  BY ProvisioningAssumption DEF TimingTyped
<1>2. CASE wifiPc = "poll"
  <2>1. timing' = [looked   |-> FALSE,
                   missed   |-> IF timing.looked THEN 0 ELSE timing.missed + 1,
                   slowForm |-> http # Idle]
    BY <1>2 DEF KeepStep
  <2>2. timing.looked \/ timing.missed < MaxMissed
    BY <1>2 DEF KeepStep
  <2>3. (IF timing.looked THEN 0 ELSE timing.missed + 1) \in 0 .. MaxMissed
    BY <1>1, <2>2
  <2>4. (http # Idle) \in BOOLEAN
    OBVIOUS
  <2>. QED
    BY <2>1, <2>3, <2>4
<1>3. CASE wifiPc # "poll"
  BY <1>1, <1>3 DEF KeepStep
<1>. QED
  BY <1>2, <1>3

LEMMA LookTyped ==
    ASSUME TimingTyped
    PROVE  /\ [timing EXCEPT !.looked = TRUE, !.missed = 0]
                 \in [looked : BOOLEAN, missed : 0 .. MaxMissed, slowForm : BOOLEAN]
           /\ [timing EXCEPT !.looked = TRUE, !.missed = 0].looked = TRUE
           /\ [timing EXCEPT !.looked = TRUE, !.missed = 0].missed = 0
<1>. DEFINE Step == [looked : BOOLEAN, missed : 0 .. MaxMissed, slowForm : BOOLEAN]
            seen == [timing EXCEPT !.looked = TRUE]
<1>1. timing \in Step /\ 0 \in 0 .. MaxMissed
  BY ProvisioningAssumption DEF TimingTyped
<1>2. seen \in Step /\ seen.looked = TRUE
  BY <1>1
<1>3. seen = [timing EXCEPT !.looked = TRUE]
  OBVIOUS
<1>. HIDE DEF seen
<1>4. /\ [seen EXCEPT !.missed = 0] \in Step
      /\ [seen EXCEPT !.missed = 0].missed = 0 /\ [seen EXCEPT !.missed = 0].looked = TRUE
  BY <1>1, <1>2
<1>. QED
  BY <1>3, <1>4, Zenon

LEMMA WebTypedStep ==
    ASSUME WebTyped, Serve \/ WebLoop
    PROVE  WebTyped'
<1>1. CASE Serve
  BY <1>1 DEF Serve, WebTyped
<1>2. CASE TakeAp
  <2>1. (\E S : aps' \in Seq(S)) /\ Len(aps') <= WebQueueLen
    <3>1. PICK S : aps \in Seq(S)
      BY DEF WebTyped
    <3>2. CASE aps = <<>>
      BY <1>2, <3>2 DEF TakeAp, WebTyped
    <3>3. CASE aps # <<>>
      <4>1. aps' = Tail(aps) /\ Len(aps) <= WebQueueLen /\ WebQueueLen \in Nat
        BY <1>2, <3>3, WebTaskAssumption DEF TakeAp, WebTyped
      <4>2. Tail(aps) \in Seq(S) /\ Len(Tail(aps)) = Len(aps) - 1 /\ Len(aps) \in Nat \ {0}
        BY <3>1, <3>3, TakeTyped
      <4>3. \A n \in Nat, m \in Nat : n <= m => n - 1 <= m
        OBVIOUS
      <4>. QED
        BY <4>1, <4>2, <4>3, Zenon
    <3>. QED
      BY <3>2, <3>3
  <2>2. UNCHANGED <<modes, mode, server>> /\ webPc' = "lcs"
    BY <1>2 DEF TakeAp
  <2>. QED
    BY <2>1, <2>2 DEF WebTyped
<1>3. CASE TakeUpdate
  BY <1>3 DEF TakeUpdate, WebTyped
<1>4. CASE TakeMode
  <2>1. CASE modes = <<>>
    BY <1>4, <2>1 DEF TakeMode, WebTyped
  <2>2. CASE modes # <<>>
    <3>1. /\ Head(modes) \in Posted /\ Tail(modes) \in Seq(Posted)
          /\ Len(Tail(modes)) = Len(modes) - 1 /\ Len(modes) \in Nat \ {0}
      BY <2>2, TakeTyped DEF WebTyped
    <3>2. modes' \in Seq(Posted) /\ Len(modes') <= WebQueueLen
      <4>1. modes' = Tail(modes) /\ Len(modes) <= WebQueueLen /\ WebQueueLen \in Nat
        BY <1>4, <2>2, WebTaskAssumption DEF TakeMode, WebTyped
      <4>2. \A n \in Nat, m \in Nat : n <= m => n - 1 <= m
        OBVIOUS
      <4>. QED
        BY <3>1, <4>1, <4>2, Zenon
    <3>3. /\ mode' \in WebModes /\ webPc' \in {"ap", "lcs", "mode", "serve"}
          /\ webPc' = "serve" => mode' \in {"Setting", "Control"}
      BY <1>4, <2>2, <3>1 DEF TakeMode, Posted, WebModes
    <3>4. UNCHANGED <<aps, server>>
      BY <1>4 DEF TakeMode
    <3>. QED
      BY <3>2, <3>3, <3>4 DEF WebTyped
  <2>. QED
    BY <2>1, <2>2
<1>. QED
  BY <1>1, <1>2, <1>3, <1>4 DEF WebLoop

LEMMA FormTypedStep ==
    ASSUME WifiTyped, FormTyped, TimingTyped, FormArrives \/ HandleForm
    PROVE  WifiTyped' /\ FormTyped' /\ TimingTyped'
<1>. DEFINE Step == [looked : BOOLEAN, missed : 0 .. MaxMissed, slowForm : BOOLEAN]
<1>. USE ProvisioningAssumption
<1>0. /\ http \in Handlers /\ accepted \in 0 .. MaxForms
      /\ inbox \in Nat /\ inbox <= accepted
      /\ timing \in Step
  BY DEF FormTyped, TimingTyped
<1>1. CASE FormArrives
  BY <1>0, <1>1 DEF FormArrives, wifiVars, webVars, WifiTyped, FormTyped, TimingTyped
<1>2. CASE \E f \in Forms : FormStart(f)
  <2>1. PICK f \in Forms : FormStart(f)
    BY <1>2
  <2>2. http' \in Handlers
    <3>1. http' = [request |-> "form", form |-> f, written |-> 0]
      BY <2>1 DEF FormStart
    <3>. QED
      BY <3>1 DEF Handlers
  <2>3. inbox' \in Nat /\ inbox' <= accepted /\ accepted' = accepted
    BY <1>0, <2>1 DEF FormStart
  <2>4. WifiTyped'
    BY <2>1 DEF FormStart, wifiVars, WifiTyped
  <2>5. TimingTyped'
    BY <2>1 DEF FormStart, TimingTyped
  <2>. QED
    BY <1>0, <2>2, <2>3, <2>4, <2>5 DEF FormTyped
<1>3. CASE FormFails
  BY <1>0, <1>3 DEF FormFails, wifiVars, webVars, WifiTyped, FormTyped, TimingTyped
<1>4. CASE FormWrite
  <2>1. PICK f \in Forms, n \in 0 .. 5 : http = [request |-> "form", form |-> f, written |-> n]
    BY <1>0, <1>4 DEF FormWrite, Handlers, Idle
  <2>2. n < 5
    <3>1. Len(WriteOrder) = 5
      BY DEF WriteOrder
    <3>. QED
      BY <1>4, <2>1, <3>1 DEF FormWrite
  <2>3. http' = [request |-> "form", form |-> f, written |-> n + 1]
    BY <1>4, <2>1 DEF FormWrite
  <2>4. http' \in Handlers
    BY <2>2, <2>3 DEF Handlers
  <2>5. cfg' \in [Keys -> Values \cup {Empty}]
    <3>1. WriteOrder[n + 1] \in Keys
      BY <2>2 DEF WriteOrder, Keys
    <3>2. f \in [Keys -> Values \cup {Empty}] /\ cfg \in [Keys -> Values \cup {Empty}]
      BY DEF WifiTyped
    <3>3. cfg' \in {cfg, [cfg EXCEPT ![WriteOrder[n + 1]] = f[WriteOrder[n + 1]]]}
      BY <1>4, <2>1 DEF FormWrite, Writes
    <3>. QED
      BY <3>1, <3>2, <3>3
  <2>6. UNCHANGED <<wifiPc, received, processit, switches, radio, staMade, connected, read,
                    open, misread, inbox, accepted, timing, scanned>>
    BY <1>4 DEF FormWrite
  <2>7. WifiTyped'
    BY <2>5, <2>6, Zenon DEF WifiTyped
  <2>. QED
    BY <1>0, <2>4, <2>6, <2>7 DEF FormTyped, TimingTyped
<1>5. CASE FormDone
  <2>1. /\ http' = Idle /\ timing' = [timing EXCEPT !.slowForm = FALSE]
        /\ switches' = SendToBack(switches, "Stop", SwitchQueueLen)
        /\ UNCHANGED <<wifiPc, received, processit, radio, staMade, connected, read, cfg,
                       open, misread, inbox, accepted, scanned>>
    BY <1>5 DEF FormDone, SwitchMode
  <2>2. switches' \in Seq({"Stop"}) /\ Len(switches') <= SwitchQueueLen
    BY <2>1, WifiTaskAssumption, SendTyped DEF WifiTyped
  <2>3. WifiTyped'
    BY <2>1, <2>2 DEF WifiTyped
  <2>4. timing' \in Step /\ http' \in Handlers
    BY <1>0, <2>1 DEF Handlers
  <2>. QED
    BY <1>0, <2>1, <2>3, <2>4 DEF FormTyped, TimingTyped
<1>. QED
  BY <1>1, <1>2, <1>3, <1>4, <1>5 DEF HandleForm

LEMMA NoKeysTyped == DOMAIN NoKeys = {} /\ NoKeys = [k \in DOMAIN NoKeys |-> NoKeys[k]]
BY DEF NoKeys

LEMMA EmptyQueue == ASSUME NEW S, NEW n \in Nat PROVE <<>> \in Seq(S) /\ Len(<<>>) <= n
OBVIOUS

LEMMA BootTyped == (ProvTyped /\ Reset) => ProvTyped'
<1>. SUFFICES ASSUME ProvTyped, Reset PROVE ProvTyped'
  OBVIOUS
<1>1. PICK renew \in BOOLEAN : Boot(renew)
  BY DEF Reset
<1>2. cfg' \in [Keys -> Values \cup {Empty}]
  <2>1. cfg \in [Keys -> Values \cup {Empty}] /\ "ssid" \in Keys
    BY DEF ProvTyped, WifiTyped, Keys
  <2>2. cfg' \in {cfg, [cfg EXCEPT !["ssid"] = Empty]}
    BY <1>1 DEF Boot
  <2>. QED
    BY <2>1, <2>2
<1>3. WifiTyped'
  <2>1. switches' \in Seq({"Stop"}) /\ Len(switches') <= SwitchQueueLen
    BY <1>1, WifiTaskAssumption, EmptyQueue DEF Boot, WifiReboot
  <2>2. /\ processit' \in BOOLEAN /\ staMade' \in BOOLEAN /\ connected' \in BOOLEAN
        /\ open' \in BOOLEAN /\ misread' \in BOOLEAN
    BY <1>1, Zenon DEF Boot, WifiReboot
  <2>3. /\ DOMAIN read' \subseteq Keys /\ read' = [k \in DOMAIN read' |-> read'[k]]
        /\ \A k \in DOMAIN read' : read'[k] \in Values \cup {Empty}
    BY <1>1, NoKeysTyped DEF Boot, WifiReboot
  <2>4. /\ wifiPc' \in {"poll", "read", "connect", "clear", "report"}
        /\ received' \in Modes /\ radio' \in {"off", "AP", "STA"}
    BY <1>1 DEF Boot, WifiReboot, Modes
  <2>. QED
    BY <1>2, <2>1, <2>2, <2>3, <2>4, Zenon DEF WifiTyped
<1>4. WebTyped'
  BY <1>1, WebTaskAssumption DEF Boot, WebReboot, WebTyped, WebModes
<1>5. FormTyped'
  BY <1>1, ProvisioningAssumption DEF Boot, WebReboot, FormTyped, Handlers
<1>6. TimingTyped'
  BY <1>1, ProvisioningAssumption DEF Boot, InStep, TimingTyped
<1>. QED
  BY <1>3, <1>4, <1>5, <1>6 DEF ProvTyped

LEMMA TypedInit == ProvInit => ProvTyped
<1>. SUFFICES ASSUME ProvInit PROVE ProvTyped
  OBVIOUS
<1>1. WifiTyped
  <2>1. switches \in Seq({"Stop"}) /\ Len(switches) <= SwitchQueueLen
    BY WifiTaskAssumption, EmptyQueue DEF ProvInit, WifiInit, WifiReset
  <2>2. /\ processit \in BOOLEAN /\ staMade \in BOOLEAN /\ connected \in BOOLEAN
        /\ open \in BOOLEAN /\ misread \in BOOLEAN
    BY Zenon DEF ProvInit, WifiInit, WifiReset
  <2>3. /\ DOMAIN read \subseteq Keys /\ read = [k \in DOMAIN read |-> read[k]]
        /\ \A k \in DOMAIN read : read[k] \in Values \cup {Empty}
    BY NoKeysTyped DEF ProvInit, WifiInit, WifiReset
  <2>4. /\ wifiPc \in {"poll", "read", "connect", "clear", "report"}
        /\ received \in Modes /\ radio \in {"off", "AP", "STA"}
    BY DEF ProvInit, WifiInit, WifiReset, Modes
  <2>5. cfg \in [Keys -> Values \cup {Empty}]
    BY DEF ProvInit, WifiInit
  <2>. QED
    BY <2>1, <2>2, <2>3, <2>4, <2>5, Zenon DEF WifiTyped
<1>2. WebTyped
  BY WebTaskAssumption DEF ProvInit, WebInit, WebTyped, WebModes
<1>3. FormTyped
  BY ProvisioningAssumption DEF ProvInit, WebInit, FormTyped, Handlers
<1>4. TimingTyped
  BY ProvisioningAssumption DEF ProvInit, InStep, TimingTyped
<1>. QED
  BY <1>1, <1>2, <1>3, <1>4 DEF ProvTyped

LEMMA TypedStep == (ProvTyped /\ [ProvNext]_provVars) => ProvTyped'
<1>. SUFFICES ASSUME ProvTyped, [ProvNext]_provVars PROVE ProvTyped'
  OBVIOUS
<1>0. WifiTyped /\ WebTyped /\ FormTyped /\ TimingTyped
  BY DEF ProvTyped
<1>1. CASE RunWifi
  <2>1. WifiStep /\ KeepStep /\ Deliver
    BY <1>1 DEF RunWifi
  <2>2. WifiTyped' /\ wifiOut'.mode \in {"none"} \cup Posted
    BY <1>0, <2>1, WifiTypedStep
  <2>3. UNCHANGED <<webPc, mode, server, http, inbox, accepted>>
    BY <1>1 DEF RunWifi
  <2>4. WebTyped'
    BY <1>0, <2>1, <2>2, <2>3, DeliverTyped
  <2>5. FormTyped'
    BY <1>0, <2>3 DEF FormTyped
  <2>6. scanned' \in ScanResults \cup {<<>>}
    <3>1. CASE wifiPc = "poll" /\ wifiPc' = "clear"
      <4>1. HandleAP
        BY <2>1, <3>1 DEF WifiStep, HandleStop, HandleClient, ReadKey, Connect,
           ClearAPInfo, ReportAP, StartAP
      <4>. QED
        BY <1>1, <3>1, <4>1 DEF RunWifi, HandleAP, Scan
    <3>2. CASE ~(wifiPc = "poll" /\ wifiPc' = "clear")
      BY <1>0, <1>1, <3>2 DEF RunWifi, TimingTyped
    <3>. QED
      BY <3>1, <3>2
  <2>7. TimingTyped'
    <3>1. timing' \in [looked : BOOLEAN, missed : 0 .. MaxMissed, slowForm : BOOLEAN]
      BY <1>0, <2>1, KeepStepTyped
    <3>. QED
      BY <2>6, <3>1 DEF TimingTyped
  <2>. QED
    BY <2>2, <2>4, <2>5, <2>7 DEF ProvTyped
<1>2. CASE LoseNetwork
  <2>1. /\ connected' = FALSE
        /\ UNCHANGED <<wifiPc, received, processit, switches, radio, staMade, read, cfg,
                       open, misread>>
        /\ UNCHANGED <<webPc, modes, mode, aps, server, http, inbox, accepted, timing, scanned>>
    BY <1>2 DEF LoseNetwork, Disconnected, webVars
  <2>2. WifiTyped'
    BY <1>0, <2>1, Zenon DEF WifiTyped
  <2>3. WebTyped' /\ FormTyped' /\ TimingTyped'
    BY <1>0, <2>1 DEF WebTyped, FormTyped, TimingTyped
  <2>. QED
    BY <2>2, <2>3 DEF ProvTyped
<1>3. CASE RunWeb
  <2>1. Serve \/ WebLoop
    BY <1>3 DEF RunWeb
  <2>2. WebTyped'
    BY <1>0, <2>1, WebTypedStep
  <2>3. WifiTyped'
    BY <1>0, <1>3 DEF RunWeb, wifiVars, WifiTyped
  <2>4. http' = http /\ accepted' = accepted /\ inbox' \in {0, inbox}
    BY <1>3 DEF RunWeb, Serve, WebLoop, TakeAp, TakeUpdate, TakeMode
  <2>5. FormTyped'
    BY <1>0, <2>4 DEF FormTyped
  <2>6. TimingTyped'
    <3>1. timing' \in [looked : BOOLEAN, missed : 0 .. MaxMissed, slowForm : BOOLEAN]
      <4>1. CASE timing' = timing
        BY <1>0, <4>1 DEF TimingTyped
      <4>2. CASE timing' = [timing EXCEPT !.looked = TRUE, !.missed = 0]
        BY <1>0, <4>2, LookTyped
      <4>. QED
        BY <1>3, <4>1, <4>2 DEF RunWeb
    <3>. QED
      BY <1>0, <1>3, <3>1 DEF RunWeb, TimingTyped
  <2>. QED
    BY <2>2, <2>3, <2>5, <2>6 DEF ProvTyped
<1>4. CASE FormArrives \/ HandleForm
  <2>1. WifiTyped' /\ FormTyped' /\ TimingTyped'
    BY <1>0, <1>4, FormTypedStep
  <2>2. UNCHANGED <<webPc, modes, mode, aps, server>>
    BY <1>4 DEF FormArrives, HandleForm, FormStart, FormFails, FormWrite, FormDone, webVars
  <2>3. WebTyped'
    BY <1>0, <2>2 DEF WebTyped
  <2>. QED
    BY <2>1, <2>3 DEF ProvTyped
<1>5. CASE Reset \/ Restart
  BY <1>5, BootTyped DEF Restart, Reset
<1>6. CASE UNCHANGED provVars
  <2>1. /\ UNCHANGED <<wifiPc, received, processit, switches, radio, staMade, connected, read, cfg,
                       open, misread>>
        /\ UNCHANGED <<webPc, modes, mode, aps, server, http, inbox, accepted, timing, scanned>>
    BY <1>6 DEF provVars, wifiVars, webVars
  <2>2. WifiTyped'
    BY <1>0, <2>1, Zenon DEF WifiTyped
  <2>3. WebTyped' /\ FormTyped' /\ TimingTyped'
    BY <1>0, <2>1 DEF WebTyped, FormTyped, TimingTyped
  <2>. QED
    BY <2>2, <2>3 DEF ProvTyped
<1>. QED
  BY <1>1, <1>2, <1>3, <1>4, <1>5, <1>6 DEF ProvNext

\* Every state of the two tasks, the form's handler and the store is of its type:
\* in particular no queue outgrows its capacity, a switch request is always for
\* the mode "Stop" (wifi_task.cpp takes the others from itself), and what a form
\* leaves half written in NVS is still a value for each of the five keys.
THEOREM ProvTypeCorrect == ProvSpec => []ProvTypeOK
<1>1. ProvSpec => []ProvTyped
  BY TypedInit, TypedStep, PTL DEF ProvSpec
<1>. QED
  BY <1>1, TypedTypeOK, PTL

-----------------------------------------------------------------------------
(***************************************************************************)
(* The invariant behind SettledOnStored.  The last mode sent to WebTask,   *)
(* wherever it is, and the part of NVS already read, must be right at any  *)
(* moment in which nothing else is on its way; and there must be room for  *)
(* every mode that WifiTask sends, because it is dropped otherwise.        *)
(***************************************************************************)

\* What the server will show once WebTask has looked at all its modes.
Coming ==
    IF modes # <<>> THEN modes[Len(modes)]
    ELSE IF webPc = "serve" THEN mode ELSE server

\* Where in an iteration WifiTask is tells what it is processing.
Phase ==
    /\ wifiPc \in {"read", "connect"} => received = "Client"
    /\ wifiPc \in {"clear", "report"} => received = "AP"
    /\ wifiPc # "poll" => ~processit
    /\ ~processit => received # "Stop"

\* At most two modes wait, and a place is left whenever one is about to be sent:
\* WebTask takes one each time it looks, and looks after every other delay of
\* WifiTask at the latest.
RoomForModes ==
    /\ timing.looked => timing.missed = 0
    /\ Len(modes) <= 2
    /\ wifiPc = "poll" /\ timing.looked => Len(modes) <= 1
    /\ wifiPc = "poll" /\ processit /\ received # "Stop" /\ timing.missed = 0 => Len(modes) <= 1
    /\ wifiPc # "poll" => Len(modes) <= 1
    /\ wifiPc = "clear" /\ timing.looked => modes = <<>>

\* A mode that was processed is the radio's, and the server's or on its way there.
Announced ==
    wifiPc = "poll" /\ ~processit =>
        /\ received = "AP" => radio = "AP" /\ Coming = "Setting"
        /\ received = "Client" => radio # "AP" /\ Coming = "Control"

\* The flag of the connection is down until Connect and set by it alone, because a
\* station interface is made once; the radio is off while its configuration is read.
Online ==
    /\ ~staMade => ~connected
    /\ wifiPc # "poll" => ~connected
    /\ wifiPc \in {"read", "connect"} => staMade /\ radio = "off"
    /\ wifiPc = "poll" /\ ~processit /\ connected => radio = "STA"

ReadComplete ==
    \/ wifiPc = "connect"
    \/ wifiPc = "poll" /\ received = "Client" /\ ~processit
    => DOMAIN read = Keys

\* With no form being written, no request to start over and no failed read, what
\* WifiTask decided and what it read are what NVS holds.
Current ==
    switches = <<>> /\ http = Idle /\ ~misread =>
        /\ received = "AP" => cfg["ssid"] = Empty
        /\ received = "Client" =>
             /\ cfg["ssid"] # Empty
             /\ ~processit => \A k \in DOMAIN read : read[k] = cfg[k]

SettleInv ==
    ProvTyped /\ Phase /\ Announced /\ Online /\ ReadComplete /\ Current

\* No mode that WifiTask sends to WebTask finds the queue full.
NoModeDropped ==
    WifiStep /\ wifiOut'.mode # "none" => Len(modes) < WebQueueLen

\* The queue holds the two modes WifiTask may send before WebTask looks again, and
\* WebTask misses no two of its delays in a row (both loops wait 500 ms).
SlackAssumption == WebQueueLen >= 2 /\ MaxMissed <= 1

LEMMA InvSettled == SettleInv => SettledOnStored
<1>. SUFFICES ASSUME SettleInv, Settled
              PROVE  /\ server = IF radio = "AP" THEN "Setting" ELSE "Control"
                     /\ connected => radio = "STA"
                     /\ ~misread =>
                          IF cfg["ssid"] = Empty THEN radio = "AP"
                                                 ELSE radio # "AP" /\ read = cfg
  BY DEF SettledOnStored
<1>1. /\ wifiPc = "poll" /\ ~processit /\ switches = <<>>
      /\ http = Idle /\ Coming = server
  BY DEF Settled, Coming
<1>2. received \in {"AP", "Client"}
  BY <1>1 DEF SettleInv, ProvTyped, WifiTyped, Phase, Modes
<1>3. connected => radio = "STA"
  BY <1>1 DEF SettleInv, Online
<1>4. CASE received = "AP"
  BY <1>1, <1>3, <1>4 DEF SettleInv, Announced, Current
<1>5. CASE received = "Client"
  <2>1. radio # "AP" /\ server = "Control" /\ DOMAIN read = Keys
    BY <1>1, <1>5 DEF SettleInv, Announced, ReadComplete
  <2>2. ASSUME ~misread PROVE cfg["ssid"] # Empty /\ read = cfg
    <3>1. cfg["ssid"] # Empty /\ \A k \in DOMAIN read : read[k] = cfg[k]
      BY <1>1, <1>5, <2>2 DEF SettleInv, Current
    <3>2. read = [k \in DOMAIN read |-> read[k]] /\ cfg = [k \in Keys |-> cfg[k]]
      BY DEF SettleInv, ProvTyped, WifiTyped
    <3>. QED
      BY <2>1, <3>1, <3>2
  <2>. QED
    BY <1>3, <2>1, <2>2
<1>. QED
  BY <1>2, <1>4, <1>5

LEMMA WifiPhase ==
    ASSUME WifiTyped, Phase, WifiStep
    PROVE  Phase'
<1>1. CASE HandleStop
  BY <1>1 DEF HandleStop, Begin, Phase
<1>2. CASE HandleClient \/ HandleAP
  BY <1>2 DEF HandleClient, HandleAP, Phase
<1>3. CASE ReadKey \/ (\E ok \in BOOLEAN : Connect(ok)) \/ ClearAPInfo \/ ReportAP \/ StartAP
  BY <1>3 DEF ReadKey, Connect, ClearAPInfo, ReportAP, StartAP, Phase
<1>. QED
  BY <1>1, <1>2, <1>3 DEF WifiStep

LEMMA WifiOnline ==
    ASSUME WifiTyped, Online, WifiStep
    PROVE  Online'
<1>0. Disconnect => (connected' => connected)
  BY Zenon DEF Disconnect
<1>1. CASE HandleStop
  <2>1. /\ connected' => connected
        /\ wifiPc = "poll" /\ processit' = TRUE /\ UNCHANGED <<wifiPc, staMade>>
    BY <1>0, <1>1 DEF HandleStop, Begin
  <2>. QED
    BY <2>1 DEF Online
<1>2. CASE HandleClient \/ HandleAP
  <2>1. ~staMade /\ (connected' => connected)
    BY <1>0, <1>2 DEF HandleClient, HandleAP
  <2>2. /\ wifiPc' # "poll"
        /\ wifiPc' \in {"read", "connect"} => staMade' /\ radio' = "off"
    BY <1>2 DEF HandleClient, HandleAP, StopAccessPoint
  <2>3. ~connected'
    BY <2>1 DEF Online
  <2>. QED
    BY <2>2, <2>3 DEF Online
<1>3. CASE ReadKey \/ ClearAPInfo \/ ReportAP
  BY <1>3 DEF ReadKey, ClearAPInfo, ReportAP, Online
<1>4. CASE \E ok \in BOOLEAN : Connect(ok)
  <2>1. PICK ok \in BOOLEAN : Connect(ok)
    BY <1>4
  <2>2. /\ wifiPc = "connect" /\ wifiPc' = "poll" /\ staMade' = staMade
        /\ connected' = (ok \/ connected)
        /\ ok => radio' = "STA"
    BY <2>1 DEF Connect, ConnectStation
  <2>3. ~connected /\ staMade
    BY <2>2 DEF Online
  <2>. QED
    BY <2>2, <2>3 DEF Online
<1>5. CASE StartAP
  BY <1>5 DEF StartAP, StartAccessPoint, Online
<1>. QED
  BY <1>1, <1>2, <1>3, <1>4, <1>5 DEF WifiStep

\* What WifiTask reads or decides on is what NVS holds at that moment, or counted
\* as misread.
LEMMA WifiCurrent ==
    ASSUME WifiTyped, Phase, ReadComplete, Current, WifiStep, http' = http
    PROVE  ReadComplete' /\ Current'
<1>0. cfg' = cfg
  BY DEF WifiStep, HandleStop, HandleClient, ReadKey, Connect, HandleAP, ClearAPInfo,
         ReportAP, StartAP
<1>1. CASE HandleStop
  <2>1. PICK ssid \in Reads("ssid") :
            /\ received' = IF ssid = Empty THEN "AP" ELSE "Client"
            /\ misread' = (ssid # cfg["ssid"])
    BY <1>1 DEF HandleStop
  <2>2. processit' = TRUE /\ wifiPc' = "poll"
    BY <1>1 DEF HandleStop, Begin
  <2>3. ~misread' => received' = IF cfg["ssid"] = Empty THEN "AP" ELSE "Client"
    BY <2>1
  <2>. QED
    BY <1>0, <2>2, <2>3 DEF ReadComplete, Current
<1>2. CASE HandleClient
  <2>1. switches = <<>> /\ received = "Client"
    BY <1>2, BeginTyped DEF HandleClient
  <2>2. DOMAIN read' = {} /\ wifiPc' = "read" /\ received' = "Client" /\ misread' = misread
    BY <1>2, NoKeysTyped DEF HandleClient
  <2>. QED
    BY <1>0, <2>1, <2>2 DEF ReadComplete, Current
<1>3. CASE HandleAP
  <2>1. switches = <<>> /\ received = "AP"
    BY <1>3, BeginTyped DEF HandleAP
  <2>2. wifiPc' = "clear" /\ received' = "AP" /\ misread' = misread
    BY <1>3 DEF HandleAP
  <2>. QED
    BY <1>0, <2>1, <2>2 DEF ReadComplete, Current
<1>4. CASE ReadKey
  <2>0. PICK k \in NextKeys : \E v \in Reads(k) :
            /\ read' = [j \in DOMAIN read \cup {k} |-> IF j = k THEN v ELSE read[j]]
            /\ misread' = (misread \/ v # cfg[k])
    BY <1>4 DEF ReadKey
  <2>1. PICK v \in Reads(k) :
            /\ read' = [j \in DOMAIN read \cup {k} |-> IF j = k THEN v ELSE read[j]]
            /\ misread' = (misread \/ v # cfg[k])
    BY <2>0
  <2>2. ReadComplete'
    BY <1>4 DEF ReadKey, ReadComplete
  <2>3. /\ received = "Client" /\ ~processit
        /\ UNCHANGED <<received, processit, switches>>
    BY <1>4 DEF ReadKey, Phase
  <2>4. ~misread' => ~misread /\ v = cfg[k]
    BY <2>1
  <2>. QED
    BY <1>0, <2>1, <2>2, <2>3, <2>4 DEF Current
<1>5. CASE (\E ok \in BOOLEAN : Connect(ok)) \/ ClearAPInfo \/ ReportAP \/ StartAP
  <2>1. UNCHANGED <<received, processit, switches, read, misread>>
    BY <1>5 DEF Connect, ClearAPInfo, ReportAP, StartAP
  <2>2. wifiPc = "connect" \/ received = "AP"
    BY <1>5 DEF Connect, ClearAPInfo, ReportAP, StartAP, Phase
  <2>3. wifiPc' # "connect"
    BY <1>5 DEF Connect, ClearAPInfo, ReportAP, StartAP
  <2>. QED
    BY <1>0, <2>1, <2>2, <2>3 DEF ReadComplete, Current
<1>. QED
  BY <1>1, <1>2, <1>3, <1>4, <1>5 DEF WifiStep

\* A mode for which there is room arrives, and is then the last one.
LEMMA SentArrives ==
    ASSUME WebTyped, Len(modes) < WebQueueLen, Deliver, wifiOut'.mode \in Posted
    PROVE  /\ modes' # <<>> /\ modes'[Len(modes')] = wifiOut'.mode
           /\ Len(modes') \in Nat /\ Len(modes) \in Nat
           /\ Len(modes') <= Len(modes) + 1
<1>. DEFINE m == wifiOut'.mode
<1>1. /\ WebQueueLen \in Nat /\ modes \in Seq(Posted)
      /\ Len(modes) \in Nat /\ Len(modes) <= WebQueueLen
  BY WebTaskAssumption, LenProperties DEF WebTyped
<1>2. modes' = SendToBack(modes, m, WebQueueLen) /\ m \in Posted
  BY DEF Deliver, Posted
<1>. HIDE DEF m
<1>3. /\ modes' # <<>> /\ modes'[Len(modes')] = m
      /\ Len(modes') <= Len(modes) + 1 /\ modes' \in Seq(Posted)
  BY <1>1, <1>2, SendTyped
<1>4. Len(modes') \in Nat
  BY <1>3, LenProperties
<1>. QED
  BY <1>1, <1>3, <1>4 DEF m

LEMMA SentFits ==
    ASSUME SlackAssumption, WebTyped, Len(modes) <= 1, Deliver, wifiOut'.mode \in Posted
    PROVE  /\ Len(modes') <= 2
           /\ modes = <<>> => Len(modes') <= 1
<1>1. WebQueueLen \in Nat /\ WebQueueLen >= 2 /\ Len(modes) \in Nat
  BY WebTaskAssumption, LenProperties DEF SlackAssumption, WebTyped
<1>2. Len(modes) < WebQueueLen
  BY <1>1
<1>3. Len(modes') \in Nat /\ Len(modes') <= Len(modes) + 1
  BY <1>2, SentArrives
<1>4. modes = <<>> => Len(modes) = 0
  OBVIOUS
<1>. QED
  BY <1>1, <1>3, <1>4

LEMMA WifiRoom ==
    ASSUME SlackAssumption, ProvTyped, Phase, RoomForModes, WifiStep, KeepStep, Deliver
    PROVE  RoomForModes'
<1>0. /\ timing.missed \in Nat /\ timing.looked \in BOOLEAN
      /\ MaxMissed \in Nat /\ MaxMissed <= 1 /\ Len(modes) \in Nat
  BY ProvisioningAssumption, LenProperties
  DEF ProvTyped, TimingTyped, WebTyped, SlackAssumption
<1>1. CASE wifiPc = "poll"
  <2>1. HandleStop \/ HandleClient \/ HandleAP
    BY <1>1 DEF WifiStep, ReadKey, Connect, ClearAPInfo, ReportAP, StartAP
  <2>2. modes' = modes
    BY <2>1 DEF HandleStop, HandleClient, HandleAP, Silence, Deliver
  <2>3. /\ timing'.looked = FALSE
        /\ timing'.missed = IF timing.looked THEN 0 ELSE timing.missed + 1
        /\ timing.looked \/ timing.missed < MaxMissed
    BY <1>1 DEF KeepStep
  <2>4. timing'.missed = 0 => timing.looked
    BY <1>0, <2>3
  <2>5. CASE HandleStop
    <3>1. wifiPc' = "poll"
      BY <2>5 DEF HandleStop, Begin
    <3>. QED
      BY <1>1, <2>2, <2>3, <2>4, <3>1 DEF RoomForModes
  <2>6. CASE HandleClient \/ HandleAP
    <3>1. processit /\ received # "Stop"
      BY <2>6, BeginTyped DEF HandleClient, HandleAP, ProvTyped
    <3>2. Len(modes) <= 1
      <4>1. CASE timing.looked
        BY <1>1, <4>1 DEF RoomForModes
      <4>2. CASE ~timing.looked
        <5>1. timing.missed = 0
          BY <1>0, <2>3, <4>2
        <5>. QED
          BY <1>1, <3>1, <5>1 DEF RoomForModes
      <4>. QED
        BY <4>1, <4>2
    <3>3. wifiPc' # "poll"
      BY <2>6 DEF HandleClient, HandleAP
    <3>. QED
      BY <1>0, <2>2, <2>3, <3>2, <3>3 DEF RoomForModes
  <2>. QED
    BY <2>1, <2>5, <2>6
<1>2. CASE wifiPc = "clear"
  <2>1. ClearAPInfo
    BY <1>2 DEF WifiStep, HandleStop, HandleClient, HandleAP, Begin, ReadKey, Connect,
       ReportAP, StartAP
  <2>2. timing.looked /\ timing' = timing
    <3>1. wifiPc' # "poll"
      BY <2>1 DEF ClearAPInfo
    <3>. QED
      BY <1>2, <3>1 DEF KeepStep
  <2>3. modes = <<>> /\ Len(modes) <= 1
    BY <1>2, <2>2 DEF RoomForModes
  <2>4. wifiOut'.mode \in Posted /\ wifiPc' = "report"
    BY <2>1 DEF ClearAPInfo, Silence, Posted
  <2>5. Len(modes') <= 1 /\ Len(modes') <= 2
    BY <2>3, <2>4, SentFits DEF ProvTyped
  <2>. QED
    BY <2>2, <2>4, <2>5 DEF RoomForModes
<1>3. CASE wifiPc \in {"read", "connect", "report"} /\ wifiPc' = "poll"
  <2>1. (\E ok \in BOOLEAN : Connect(ok)) \/ StartAP
    BY <1>3 DEF WifiStep, HandleStop, HandleClient, HandleAP, Begin, ReadKey, ClearAPInfo, ReportAP
  <2>2. timing'.looked = FALSE
    <3>1. timing' = [timing EXCEPT !.looked = FALSE]
      BY <1>3 DEF KeepStep
    <3>. QED
      BY <3>1 DEF ProvTyped, TimingTyped
  <2>3. ~processit' /\ Len(modes) <= 1
    BY <1>3, <2>1 DEF Connect, StartAP, Phase, RoomForModes
  <2>4. wifiOut'.mode \in Posted
    BY <2>1 DEF Connect, StartAP, Silence, Posted
  <2>5. Len(modes') <= 2
    BY <2>3, <2>4, SentFits DEF ProvTyped
  <2>. QED
    BY <1>3, <2>2, <2>3, <2>5 DEF RoomForModes
<1>4. CASE wifiPc \in {"read", "connect", "report"} /\ wifiPc' # "poll"
  <2>1. ReadKey \/ ReportAP
    BY <1>4 DEF WifiStep, HandleStop, HandleClient, HandleAP, Begin, Connect, ClearAPInfo, StartAP
  <2>2. timing' = timing
    BY <1>4 DEF KeepStep
  <2>3. modes' = modes /\ wifiPc' # "clear"
    BY <2>1 DEF ReadKey, ReportAP, Silence, Deliver
  <2>. QED
    BY <1>4, <2>2, <2>3 DEF RoomForModes
<1>. QED
  BY <1>1, <1>2, <1>3, <1>4 DEF ProvTyped, WifiTyped

LEMMA WifiAnnounced ==
    ASSUME ProvTyped, Phase, Announced, Online, WifiStep, NoModeDropped, Deliver,
           UNCHANGED <<webPc, mode, server>>
    PROVE  Announced'
<1>1. CASE HandleStop
  BY <1>1 DEF HandleStop, Announced
<1>2. CASE HandleClient \/ HandleAP \/ ClearAPInfo \/ ReportAP
  BY <1>2 DEF HandleClient, HandleAP, ClearAPInfo, ReportAP, Announced
<1>3. CASE ReadKey
  <2>1. wifiPc' # "poll"
    BY <1>3 DEF ReadKey
  <2>. QED
    BY <2>1 DEF Announced
<1>4. CASE \E ok \in BOOLEAN : Connect(ok)
  <2>1. received' = "Client" /\ radio' # "AP"
    BY <1>4 DEF Connect, ConnectStation, Phase, Online
  <2>2. wifiOut'.mode = "Control"
    BY <1>4 DEF Connect
  <2>3. modes' # <<>> /\ modes'[Len(modes')] = "Control"
    <3>1. wifiOut'.mode \in Posted /\ Len(modes) < WebQueueLen
      BY <2>2 DEF Posted, NoModeDropped
    <3>. QED
      BY <2>2, <3>1, SentArrives DEF ProvTyped
  <2>. QED
    BY <2>1, <2>3 DEF Announced, Coming
<1>5. CASE StartAP
  <2>1. received' = "AP" /\ radio' = "AP"
    BY <1>5 DEF StartAP, StartAccessPoint, Phase
  <2>2. wifiOut'.mode = "Setting"
    BY <1>5 DEF StartAP, Silence
  <2>3. modes' # <<>> /\ modes'[Len(modes')] = "Setting"
    <3>1. wifiOut'.mode \in Posted /\ Len(modes) < WebQueueLen
      BY <2>2 DEF Posted, NoModeDropped
    <3>. QED
      BY <2>2, <3>1, SentArrives DEF ProvTyped
  <2>. QED
    BY <2>1, <2>3 DEF Announced, Coming
<1>. QED
  BY <1>1, <1>2, <1>3, <1>4, <1>5 DEF WifiStep

\* What the web server is to show does not depend on how far WebTask is.
LEMMA WebAnnounced ==
    ASSUME ProvTyped, Announced, RunWeb
    PROVE  Announced'
<1>0. UNCHANGED <<wifiPc, received, processit, radio>>
  BY DEF RunWeb, wifiVars
<1>1. CASE TakeMode
  <2>1. CASE modes = <<>>
    BY <1>0, <1>1, <2>1 DEF TakeMode, Coming, Announced
  <2>2. CASE modes # <<>>
    <3>1. /\ modes' = Tail(modes) /\ mode' = Head(modes)
          /\ webPc' = IF mode' = "ClearAPInfo" THEN "ap" ELSE "serve"
      BY <1>1, <2>2 DEF TakeMode
    <3>2. /\ Head(modes) = modes[1] /\ Tail(modes) \in Seq(Posted)
          /\ Tail(modes) = <<>> => Len(modes) = 1
          /\ Tail(modes) # <<>> => Tail(modes)[Len(Tail(modes))] = modes[Len(modes)]
      BY <2>2, TakeTyped DEF ProvTyped, WebTyped
    <3>3. Coming \in {"Setting", "Control"} => Coming' = Coming
      <4>1. CASE Tail(modes) # <<>>
        BY <2>2, <3>1, <3>2, <4>1 DEF Coming
      <4>2. CASE Tail(modes) = <<>>
        <5>1. Coming = mode'
          BY <2>2, <3>1, <3>2, <4>2 DEF Coming
        <5>. QED
          BY <3>1, <4>2, <5>1 DEF Coming
      <4>. QED
        BY <4>1, <4>2
    <3>. QED
      BY <1>0, <3>3 DEF Announced
  <2>. QED
    BY <2>1, <2>2
<1>2. CASE Serve
  <2>1. Coming' = Coming
    BY <1>2 DEF Serve, Coming, ProvTyped, WebTyped
  <2>. QED
    BY <1>0, <2>1 DEF Announced
<1>3. CASE TakeAp \/ TakeUpdate
  <2>1. Coming' = Coming
    BY <1>3 DEF TakeAp, TakeUpdate, Coming
  <2>. QED
    BY <1>0, <2>1 DEF Announced
<1>. QED
  BY <1>1, <1>2, <1>3 DEF RunWeb, WebLoop

\* A mode taken leaves room for the next.
LEMMA WebRoom ==
    ASSUME ProvTyped, RoomForModes, RunWeb
    PROVE  RoomForModes'
<1>0. /\ UNCHANGED <<wifiPc, received, processit>>
      /\ timing' = IF webPc = "mode" THEN [timing EXCEPT !.looked = TRUE, !.missed = 0] ELSE timing
  BY DEF RunWeb, wifiVars
<1>1. CASE TakeMode
  <2>1. timing'.looked = TRUE /\ timing'.missed = 0
    <3>1. timing' = [timing EXCEPT !.looked = TRUE, !.missed = 0]
      BY <1>0, <1>1 DEF TakeMode
    <3>. QED
      BY <3>1, LookTyped, Zenon DEF ProvTyped
  <2>2. /\ Len(modes') <= 1 /\ Len(modes') <= 2
        /\ Len(modes) <= 1 => modes' = <<>>
    <3>1. CASE modes = <<>>
      <4>1. modes' = <<>>
        BY <1>1, <3>1 DEF TakeMode
      <4>. QED
        BY <4>1
    <3>2. CASE modes # <<>>
      <4>1. modes' = Tail(modes)
        BY <1>1, <3>2 DEF TakeMode
      <4>2. /\ Len(modes) \in Nat \ {0} /\ Tail(modes) \in Seq(Posted)
            /\ Len(Tail(modes)) = Len(modes) - 1
        BY <3>2, TakeTyped DEF ProvTyped, WebTyped
      <4>3. Len(modes) <= 2
        BY DEF RoomForModes
      <4>4. \A n \in Nat \ {0} : n <= 2 => n - 1 <= 1 /\ n - 1 <= 2
        OBVIOUS
      <4>5. \A n \in Nat \ {0} : n <= 1 => n - 1 = 0
        OBVIOUS
      <4>6. Len(Tail(modes)) = 0 => Tail(modes) = <<>>
        BY <4>2, EmptySeq
      <4>. QED
        BY <4>1, <4>2, <4>3, <4>4, <4>5, <4>6, Zenon
    <3>. QED
      BY <3>1, <3>2
  <2>. QED
    BY <1>0, <2>1, <2>2 DEF RoomForModes
<1>2. CASE Serve \/ TakeAp \/ TakeUpdate
  <2>1. modes' = modes /\ timing' = timing
    BY <1>0, <1>2 DEF Serve, TakeAp, TakeUpdate
  <2>. QED
    BY <1>0, <2>1 DEF RoomForModes
<1>. QED
  BY <1>1, <1>2 DEF RunWeb, WebLoop

\* While a form is being handled, what NVS holds may be anything; the handler ends
\* with a request to start over, for which the queue has a place or a request.
LEMMA FormCurrent ==
    ASSUME ProvTyped, Current, FormArrives \/ HandleForm
    PROVE  Current'
<1>0. UNCHANGED <<received, processit, read, misread>>
  BY DEF FormArrives, HandleForm, FormStart, FormFails, FormWrite, FormDone, wifiVars
<1>1. CASE FormArrives \/ FormFails
  <2>1. UNCHANGED <<switches, http, cfg>>
    BY <1>1 DEF FormArrives, FormFails, wifiVars, webVars
  <2>. QED
    BY <1>0, <2>1 DEF Current
<1>2. CASE \E f \in Forms : FormStart(f)
  <2>1. PICK f \in Forms : http' = [request |-> "form", form |-> f, written |-> 0]
    BY <1>2 DEF FormStart
  <2>2. http'.request = "form"
    BY <2>1
  <2>. QED
    BY <2>2 DEF Current, Idle
<1>3. CASE FormWrite
  <2>1. PICK f \in Forms, n \in 0 .. 5 : http = [request |-> "form", form |-> f, written |-> n]
    BY <1>3 DEF FormWrite, ProvTyped, FormTyped, Handlers, Idle
  <2>2. http' = [request |-> "form", form |-> f, written |-> n + 1]
    BY <1>3, <2>1 DEF FormWrite
  <2>3. http'.request = "form"
    BY <2>2
  <2>. QED
    BY <2>3 DEF Current, Idle
<1>4. CASE FormDone
  <2>1. switches' = SendToBack(switches, "Stop", SwitchQueueLen)
    BY <1>4 DEF FormDone, SwitchMode
  <2>2. /\ switches \in Seq({"Stop"}) /\ Len(switches) <= SwitchQueueLen
        /\ SwitchQueueLen \in Nat /\ SwitchQueueLen # 0
    BY WifiTaskAssumption DEF ProvTyped, WifiTyped
  <2>3. switches' # <<>>
    BY <2>1, <2>2, SendTyped
  <2>. QED
    BY <2>3 DEF Current
<1>. QED
  BY <1>1, <1>2, <1>3, <1>4 DEF HandleForm

LEMMA FormSettling ==
    ASSUME ProvTyped, FormArrives \/ HandleForm
    PROVE  /\ UNCHANGED <<wifiPc, received, processit, radio, staMade, connected, read>>
           /\ UNCHANGED <<webPc, modes, mode, server>>
           /\ timing'.looked = timing.looked /\ timing'.missed = timing.missed
<1>1. /\ UNCHANGED <<wifiPc, received, processit, radio, staMade, connected, read>>
      /\ UNCHANGED <<webPc, modes, mode, server>>
  BY DEF FormArrives, HandleForm, FormStart, FormFails, FormWrite, FormDone, wifiVars, webVars
<1>2. timing' = timing \/ timing' = [timing EXCEPT !.slowForm = FALSE]
  BY DEF FormArrives, HandleForm, FormStart, FormFails, FormWrite, FormDone
<1>3. timing'.looked = timing.looked /\ timing'.missed = timing.missed
  BY <1>2 DEF ProvTyped, TimingTyped
<1>. QED
  BY <1>1, <1>3

LEMMA InvBoot ==
    ASSUME WifiReboot, WebReboot, timing' = InStep
    PROVE  Phase' /\ RoomForModes' /\ Announced' /\ Online' /\ ReadComplete' /\ Current'
<1>1. /\ wifiPc' = "poll" /\ received' = "Stop" /\ processit' = TRUE /\ modes' = <<>>
      /\ timing'.looked = FALSE /\ timing'.missed = 0 /\ connected' = FALSE
  BY DEF WifiReboot, WebReboot, InStep
<1>2. Len(modes') <= 2 /\ Len(modes') <= 1
  BY <1>1
<1>. QED
  BY <1>1, <1>2 DEF Phase, RoomForModes, Announced, Online, ReadComplete, Current

LEMMA InvInit == ProvInit => SettleInv /\ RoomForModes
<1>. SUFFICES ASSUME ProvInit PROVE SettleInv /\ RoomForModes
  OBVIOUS
<1>1. /\ wifiPc = "poll" /\ received = "Stop" /\ processit = TRUE /\ modes = <<>>
      /\ timing.looked = FALSE /\ timing.missed = 0 /\ connected = FALSE
  BY DEF ProvInit, WifiInit, WifiReset, WebInit, InStep
<1>2. Len(modes) <= 2 /\ Len(modes) <= 1
  BY <1>1
<1>3. Phase /\ RoomForModes /\ Announced /\ Online /\ ReadComplete /\ Current
  BY <1>1, <1>2 DEF Phase, RoomForModes, Announced, Online, ReadComplete, Current
<1>. QED
  BY <1>3, TypedInit DEF SettleInv

LEMMA SettleStep ==
    ASSUME SettleInv, [ProvNext]_provVars, [NoModeDropped]_provVars
    PROVE  SettleInv'
<1>0. ProvTyped /\ Phase /\ Announced /\ Online /\ ReadComplete /\ Current
  BY DEF SettleInv
<1>1. ProvTyped'
  BY <1>0, TypedStep
<1>2. CASE UNCHANGED provVars
  <2>1. /\ UNCHANGED <<wifiPc, received, processit, switches, radio, staMade, connected, read,
                       cfg, misread>>
        /\ UNCHANGED <<webPc, modes, mode, server, http>>
    BY <1>2 DEF provVars, wifiVars, webVars
  <2>2. Phase' /\ Announced' /\ Online' /\ ReadComplete' /\ Current'
    BY <1>0, <2>1 DEF Phase, Announced, Coming, Online, ReadComplete, Current
  <2>. QED
    BY <1>1, <2>2 DEF SettleInv
<1>3. CASE RunWifi /\ NoModeDropped
  <2>1. /\ WifiStep /\ Deliver /\ NoModeDropped
        /\ http' = http /\ UNCHANGED <<webPc, mode, server>>
    BY <1>3 DEF RunWifi
  <2>2. WifiTyped
    BY <1>0 DEF ProvTyped
  <2>3. Phase'
    BY <1>0, <2>1, <2>2, WifiPhase
  <2>4. ReadComplete' /\ Current'
    BY <1>0, <2>1, <2>2, WifiCurrent
  <2>5. Announced'
    BY <1>0, <2>1, WifiAnnounced
  <2>6. Online'
    BY <1>0, <2>1, <2>2, WifiOnline
  <2>. QED
    BY <1>1, <2>3, <2>4, <2>5, <2>6 DEF SettleInv
<1>4. CASE LoseNetwork
  <2>1. /\ UNCHANGED <<wifiPc, received, processit, switches, radio, staMade, read, cfg, misread>>
        /\ UNCHANGED <<webPc, modes, mode, server, http>>
        /\ connected' = FALSE
    BY <1>4 DEF LoseNetwork, Disconnected, webVars
  <2>2. Phase' /\ Announced' /\ Online' /\ ReadComplete' /\ Current'
    BY <1>0, <2>1 DEF Phase, Announced, Coming, Online, ReadComplete, Current
  <2>. QED
    BY <1>1, <2>2 DEF SettleInv
<1>5. CASE RunWeb
  <2>1. Announced'
    BY <1>0, <1>5, WebAnnounced
  <2>2. /\ UNCHANGED <<wifiPc, received, processit, switches, read, cfg, http, misread>>
        /\ UNCHANGED <<radio, staMade, connected>>
    BY <1>5 DEF RunWeb, wifiVars, Serve, WebLoop, TakeAp, TakeUpdate, TakeMode
  <2>3. Phase' /\ Online' /\ ReadComplete' /\ Current'
    BY <1>0, <2>2 DEF Phase, Online, ReadComplete, Current
  <2>. QED
    BY <1>1, <2>1, <2>3 DEF SettleInv
<1>6. CASE FormArrives \/ HandleForm
  <2>1. Current'
    BY <1>0, <1>6, FormCurrent
  <2>2. /\ UNCHANGED <<wifiPc, received, processit, radio, staMade, connected, read>>
        /\ UNCHANGED <<webPc, modes, mode, server>>
    BY <1>0, <1>6, FormSettling
  <2>3. Phase' /\ Announced' /\ Online' /\ ReadComplete'
    BY <1>0, <2>2 DEF Phase, Announced, Coming, Online, ReadComplete
  <2>. QED
    BY <1>1, <2>1, <2>3 DEF SettleInv
<1>7. CASE Reset \/ Restart
  <2>1. WifiReboot /\ WebReboot /\ timing' = InStep
    BY <1>7 DEF Reset, Restart, Boot
  <2>2. Phase' /\ Announced' /\ Online' /\ ReadComplete' /\ Current'
    BY <2>1, InvBoot
  <2>. QED
    BY <1>1, <2>2 DEF SettleInv
<1>. QED
  BY <1>2, <1>3, <1>4, <1>5, <1>6, <1>7 DEF ProvNext

\* With the room there is, no mode is dropped.
LEMMA RoomSuffices ==
    ASSUME SlackAssumption, ProvTyped, RoomForModes
    PROVE  NoModeDropped
<1>. SUFFICES ASSUME WifiStep, wifiOut'.mode # "none"
              PROVE  Len(modes) < WebQueueLen
  BY DEF NoModeDropped
<1>1. wifiPc # "poll"
  BY DEF WifiStep, HandleStop, HandleClient, HandleAP, ReadKey, Connect, ClearAPInfo,
     ReportAP, StartAP, Silence
<1>2. Len(modes) <= 1
  BY <1>1 DEF RoomForModes
<1>3. WebQueueLen \in Nat /\ WebQueueLen >= 2 /\ Len(modes) \in Nat
  BY WebTaskAssumption, LenProperties DEF SlackAssumption, ProvTyped, WebTyped
<1>. QED
  BY <1>2, <1>3

LEMMA RoomStep ==
    ASSUME SlackAssumption, SettleInv, RoomForModes, [ProvNext]_provVars
    PROVE  RoomForModes'
<1>0. ProvTyped /\ Phase
  BY DEF SettleInv
<1>1. CASE RunWifi
  BY <1>0, <1>1, WifiRoom DEF RunWifi
<1>2. CASE RunWeb
  BY <1>0, <1>2, WebRoom
<1>3. CASE FormArrives \/ HandleForm
  <2>1. /\ UNCHANGED <<wifiPc, received, processit, modes>>
        /\ timing'.looked = timing.looked /\ timing'.missed = timing.missed
    BY <1>0, <1>3, FormSettling
  <2>. QED
    BY <2>1 DEF RoomForModes
<1>4. CASE LoseNetwork \/ UNCHANGED provVars
  <2>1. UNCHANGED <<wifiPc, received, processit, modes, timing>>
    BY <1>4 DEF LoseNetwork, Disconnected, webVars, provVars, wifiVars
  <2>. QED
    BY <2>1 DEF RoomForModes
<1>5. CASE Reset \/ Restart
  BY <1>5, InvBoot DEF Reset, Restart, Boot
<1>. QED
  BY <1>1, <1>2, <1>3, <1>4, <1>5 DEF ProvNext

\* However the writes of overlapping forms, the reads of WifiTask, the messages to
\* WebTask and resets interleave (web_task.cpp:256-286, wifi_task.cpp:46-152), and
\* whichever accesses to NVS and starts of the driver fail (key_val.h:73-126,
\* application.cpp:56, wifi_client.h:106-111): a controller at rest shows the page
\* of the network it is in and counts as connected only in the user's; and unless
\* a read failed it runs the access point exactly when no network is stored, and
\* otherwise has read the stored network as it is now.  Nothing is assumed of
\* time: only a mode that finds WebTask's queue full (web_task.cpp:307) breaks it.
THEOREM SettledUnlessDropped ==
    ProvSpec /\ [][NoModeDropped]_provVars => []SettledOnStored
<1>1. SettleInv /\ [ProvNext]_provVars /\ [NoModeDropped]_provVars => SettleInv'
  BY SettleStep
<1>2. ProvInit => SettleInv
  BY InvInit
<1>. QED
  BY <1>1, <1>2, InvSettled, PTL DEF ProvSpec

\* The loops of WifiTask and WebTask, each with its delay of 500 ms
\* (wifi_task.cpp:152, web_task.cpp:290), keep step so far that WebTask misses no
\* two delays in a row; then no mode is dropped, and the same holds without that
\* assumption.
THEOREM SettledAsStored ==
    ASSUME SlackAssumption
    PROVE  ProvSpec => []SettledOnStored
<1>. DEFINE Inv == SettleInv /\ RoomForModes
<1>1. ProvInit => Inv
  BY InvInit
<1>2. Inv /\ [ProvNext]_provVars => Inv'
  <2>. SUFFICES ASSUME Inv, [ProvNext]_provVars PROVE Inv'
    OBVIOUS
  <2>1. NoModeDropped
    BY RoomSuffices DEF SettleInv
  <2>2. SettleInv'
    BY <2>1, SettleStep
  <2>3. RoomForModes'
    BY RoomStep
  <2>. QED
    BY <2>2, <2>3
<1>3. Inv => SettledOnStored
  BY InvSettled
<1>. QED
  BY <1>1, <1>2, <1>3, PTL DEF ProvSpec

=============================================================================
