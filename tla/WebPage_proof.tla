--------------------------- MODULE WebPage_proof ---------------------------
(***************************************************************************)
(* Theorems about WebPage, for any number of levels and byte values and any capacity of    *)
(* the queues; for its main one each queue must hold at least one message, *)
(* and only one lamp may be in the neighbourhood.                          *)
(***************************************************************************)
EXTENDS WebPage, LC12STask_proof

OneLamp == \A i, j \in Ids \ IgnoredIds : i = j

\* What lcs is once WebTask has read every update, and the sliders whose 255 is
\* then still in it.
Shown   == IF updates = <<>> THEN lcs ELSE updates[Len(updates)]
Ignored == IF updates = <<>> THEN ignored ELSE {}

\* The levels of the local copy once the slider that is under way is through.
SliderUnderWay == queue # <<>> /\ Head(queue).command = "hueintensity"

TargetIntensity ==
    IF http.request = "brightness" /\ http.value # Keep THEN http.value
    ELSE IF SliderUnderWay /\ Head(queue).intensity # Keep THEN Head(queue).intensity
    ELSE intensity

TargetHue ==
    IF http.request = "hue" /\ http.value # Keep THEN http.value
    ELSE IF SliderUnderWay /\ Head(queue).hue # Keep THEN Head(queue).hue
    ELSE hue

\* The page is on its way to what LC12STask is on its way to.
ShownAgrees ==
    Shown.command # "Unknown" =>
        /\ Shown.intensity = IF "brightness" \in Ignored THEN Keep ELSE TargetIntensity
        /\ Shown.hue = IF "hue" \in Ignored THEN Keep ELSE TargetHue
        /\ Shown.id = strId

\* No more than one input is under way, and no update while one is.
OneAtATime ==
    /\ pc = "start" => updates = <<>>
    /\ queue # <<>> \/ http # Idle => pc = "loop" /\ updates = <<>>
    /\ Len(queue) <= 1
    /\ queue # <<>> /\ http # Idle =>
           http.request = "reconfig" /\ Head(queue).command = "learn"

\* PageAgrees is about calm states; what leads there is that the page and the
\* local copy have the same settings ahead of them.
AgreementInv ==
    /\ onlyRemote => queue = <<>> /\ http = Idle
    /\ ~overlapped => OneAtATime
    /\ (overlapped => onlyRemote /\ ~dropped) => ShownAgrees

-----------------------------------------------------------------------------
(***************************************************************************)
(* The page implements the task, and every variable keeps its type.        *)
(***************************************************************************)

LEMMA RequestTyped ==
    ASSUME PageTypeOK
    PROVE  /\ http.request \in {"none", "brightness", "hue", "reconfig"}
           /\ http.request \in {"brightness", "hue"} => http.value \in Bytes
           /\ http # Idle => http.request # "none"
<1>1. http = Idle \/ http = [request |-> "reconfig"]
        \/ http \in [request : {"brightness", "hue"}, value : Bytes]
  BY DEF PageTypeOK
<1>2. CASE http = Idle
  BY <1>2 DEF Idle
<1>3. CASE http = [request |-> "reconfig"]
  BY <1>3
<1>4. CASE http \in [request : {"brightness", "hue"}, value : Bytes]
  BY <1>4
<1>. QED
  BY <1>1, <1>2, <1>3, <1>4

LEMMA PageStepOfTask == PageTypeOK /\ [PageNext]_pageVars => [Next]_vars
<1>. SUFFICES ASSUME PageTypeOK, [PageNext]_pageVars PROVE Next \/ UNCHANGED vars
  OBVIOUS
<1>1. ASSUME NEW c \in PlainCommands, Command(c) PROVE Next
  BY <1>1 DEF Next, PostRequest
<1>2. CASE PostSlider
  <2>1. http.request \in {"brightness", "hue"} => http.value \in Bytes
    BY RequestTyped
  <2>2. PICK v \in Bytes : v = http.value
    BY <1>2, <2>1 DEF PostSlider
  <2>3. Intensity(v) \/ Hue(v)
    BY <1>2, <2>2 DEF PostSlider
  <2>. QED
    BY <2>3 DEF Next, PostRequest, SliderValues
<1>3. CASE (\E c \in {"toggle", "incIntensity", "decIntensity"} : Button(c))
             \/ CommandOn \/ CommandOff \/ Reconfig
  BY <1>1, <1>3 DEF Button, CommandOn, CommandOff, Reconfig, PlainCommands
<1>4. CASE RunLcs \/ (\E p \in RemotePacket : RemoteKey(p)) \/ PowerCycle
  BY <1>4 DEF RunLcs, RemoteKey, PowerCycle, Next
<1>5. CASE RunWeb \/ NetworkUp \/ HideValues \/ UNCHANGED pageVars
             \/ \E v \in Bytes : BrightnessSlider(v) \/ HueSlider(v)
  BY <1>5 DEF RunWeb, NetworkUp, HideValues, BrightnessSlider, HueSlider, pageVars
<1>. QED
  BY <1>2, <1>3, <1>4, <1>5 DEF PageNext, HandleRequest

\* What a handler may leave in lcs: an update, or values that are hidden.
PageLcs == LCSInfo \cup [id : {"", NoId} \cup Ids, hue : Bytes, intensity : Bytes,
                         command : {"Unknown"}]

PageHttp == {Idle} \cup [request : {"brightness", "hue"}, value : Bytes]
                   \cup {[request |-> "reconfig"]}

HistoryTyped ==
    /\ {overlapped, onlyRemote, dropped} \subseteq BOOLEAN
    /\ ignored \subseteq {"brightness", "hue"}

\* The only mode WebTask is told of, once the network is up.
ModesTyped == modes \in {<<>>, <<"Control">>} /\ mode \in {"Unknown", "Control"}

\* An update that is not dropped is what the page will show.
LEMMA ReportShown ==
    ASSUME PageTypeOK, out'.web \in LCSInfo \cup {None}, Report
    PROVE  /\ updates' \in Seq(LCSInfo) /\ Len(updates') <= WebQueueLen
           /\ out'.web = None => updates' = updates
           /\ out'.web # None /\ (~Drops \/ updates = <<>>) /\ WebQueueLen # 0 =>
                  updates' # <<>> /\ updates'[Len(updates')] = out'.web
<1>1. /\ updates \in Seq(LCSInfo) /\ Len(updates) \in Nat
      /\ Len(updates) <= WebQueueLen /\ WebQueueLen \in Nat
  BY WebTaskAssumption, LenProperties DEF PageTypeOK
<1>2. CASE out'.web = None
  BY <1>1, <1>2 DEF Report
<1>3. CASE out'.web # None
  <2>1. /\ updates' = SendToBack(updates, out'.web, WebQueueLen)
        /\ ~Drops => Len(updates) # WebQueueLen
    BY <1>3 DEF Report, Drops
  <2>2. CASE Len(updates) < WebQueueLen
    <3>1. updates' = Append(updates, out'.web) /\ out'.web \in LCSInfo
      BY <1>3, <2>1, <2>2 DEF SendToBack
    <3>2. /\ updates' \in Seq(LCSInfo) /\ Len(updates') = Len(updates) + 1
          /\ updates'[Len(updates) + 1] = out'.web
      BY <1>1, <3>1, AppendProperties
    <3>3. updates' # <<>>
      BY <1>1, <3>2
    <3>. QED
      BY <1>1, <1>3, <2>1, <2>2, <3>2, <3>3
  <2>3. CASE ~(Len(updates) < WebQueueLen)
    <3>1. updates' = updates /\ Len(updates) = WebQueueLen
      BY <1>1, <2>1, <2>3 DEF SendToBack
    <3>. QED
      BY <1>1, <1>3, <2>1, <3>1
  <2>. QED
    BY <2>2, <2>3
<1>. QED
  BY <1>2, <1>3

\* Reading an update leaves what the page will show as it is.
LEMMA TakeShown ==
    ASSUME PageTypeOK, TakeUpdate
    PROVE  /\ updates' \in Seq(LCSInfo) /\ Len(updates') <= WebQueueLen
           /\ lcs' \in PageLcs
           /\ Shown' = Shown
           /\ updates # <<>> => updates' # updates
           /\ updates = <<>> => updates' = <<>>
<1>1. CASE updates = <<>>
  BY <1>1 DEF TakeUpdate, PageTypeOK, PageLcs, Shown
<1>2. CASE updates # <<>>
  <2>1. /\ updates \in Seq(LCSInfo)
        /\ Len(updates) <= WebQueueLen /\ WebQueueLen \in Nat
        /\ lcs' = Head(updates) /\ updates' = Tail(updates)
    BY <1>2, WebTaskAssumption DEF PageTypeOK, TakeUpdate
  <2>2. Len(updates) \in Nat /\ Len(updates) # 0
    BY <1>2, <2>1, LenProperties, EmptySeq
  <2>3. /\ Head(updates) = updates[1] /\ Head(updates) \in LCSInfo
        /\ updates' \in Seq(LCSInfo) /\ Len(updates') = Len(updates) - 1
        /\ \A i \in 1 .. Len(updates') : updates'[i] = updates[i + 1]
    BY <1>2, <2>1, HeadTailProperties
  <2>8. updates' # updates
    BY <2>2, <2>3
  <2>6. updates' \in Seq(LCSInfo) /\ Len(updates') <= WebQueueLen
    BY <2>1, <2>2, <2>3
  <2>7. lcs' \in PageLcs
    BY <2>1, <2>3, Zenon DEF PageLcs
  <2>4. CASE updates' = <<>>
    <3>1. Len(updates) = 1
      BY <2>2, <2>3, <2>4
    <3>. QED
      BY <1>2, <2>1, <2>3, <2>4, <2>6, <2>7, <2>8, <3>1 DEF Shown
  <2>5. CASE updates' # <<>>
    <3>1. Len(updates') \in 1 .. Len(updates') /\ Len(updates') + 1 = Len(updates)
      BY <2>2, <2>3, <2>5, LenProperties, EmptySeq
    <3>2. updates'[Len(updates')] = updates[Len(updates)]
      BY <2>3, <3>1
    <3>. QED
      BY <1>2, <2>5, <2>6, <2>7, <2>8, <3>2 DEF Shown
  <2>. QED
    BY <2>4, <2>5
<1>. QED
  BY <1>1, <1>2

LEMMA LcsSetters ==
    ASSUME NEW l \in PageLcs, NEW v \in Bytes
    PROVE  /\ [l EXCEPT !.intensity = v] \in PageLcs
           /\ [l EXCEPT !.hue = v] \in PageLcs
           /\ [l EXCEPT !.command = "Unknown"] \in PageLcs
<1>1. CASE l \in LCSInfo
  <2>1. /\ [l EXCEPT !.intensity = v] \in LCSInfo
        /\ [l EXCEPT !.hue = v] \in LCSInfo
        /\ [l EXCEPT !.command = "Unknown"] \in LCSInfo
    BY <1>1 DEF LCSInfo, Commands
  <2>. QED
    BY <2>1, Zenon DEF PageLcs
<1>2. CASE l \in [id : {"", NoId} \cup Ids, hue : Bytes, intensity : Bytes,
                  command : {"Unknown"}]
  <2>. DEFINE Hidden == [id : {"", NoId} \cup Ids, hue : Bytes, intensity : Bytes,
                         command : {"Unknown"}]
  <2>1. /\ [l EXCEPT !.intensity = v] \in Hidden
        /\ [l EXCEPT !.hue = v] \in Hidden
        /\ [l EXCEPT !.command = "Unknown"] \in Hidden
    BY <1>2
  <2>. QED
    BY <2>1, Zenon DEF PageLcs
<1>. QED
  BY <1>1, <1>2, Zenon DEF PageLcs

LEMMA UnknownLampTyped == UnknownLamp \in PageLcs
<1>1. UnknownLamp \in [id : {"", NoId} \cup Ids, hue : Bytes, intensity : Bytes,
                       command : {"Unknown"}]
  BY LevelFacts DEF UnknownLamp
<1>. QED
  BY <1>1, Zenon DEF PageLcs

LEMMA PageTypeParts ==
    PageTypeOK <=>
        /\ TypeOK
        /\ webPc \in {"ap", "lcs", "mode", "serve"}
        /\ updates \in Seq(LCSInfo) /\ Len(updates) <= WebQueueLen
        /\ server \in {"stopped", "Control"}
        /\ lcs \in PageLcs
        /\ http \in PageHttp
        /\ HistoryTyped
  BY Zenon DEF PageTypeOK, PageLcs, PageHttp, HistoryTyped

LEMMA PageTypeInit == PageInit => PageTypeOK /\ ModesTyped
<1>. SUFFICES ASSUME PageInit PROVE PageTypeOK /\ ModesTyped
  OBVIOUS
<1>1. TypeOK
  BY TypeInit DEF PageInit
<1>2. updates \in Seq(LCSInfo) /\ Len(updates) <= WebQueueLen
  BY WebTaskAssumption DEF PageInit, WebInit
<1>3. lcs \in PageLcs /\ http \in PageHttp
  BY UnknownLampTyped DEF PageInit, WebInit, PageHttp
<1>. QED
  BY <1>1, <1>2, <1>3, PageTypeParts DEF PageInit, WebInit, ModesTyped, HistoryTyped

\* Steps of the two tasks and the user that leave lcs and http alone.
LEMMA PageTypeReport ==
    ASSUME PageTypeOK, TypeOK', Report,
           UNCHANGED <<webPc, server, lcs, http>>, HistoryTyped'
    PROVE  PageTypeOK'
<1>1. out'.web \in LCSInfo \cup {None}
  BY DEF TypeOK, Output
<1>2. updates' \in Seq(LCSInfo) /\ Len(updates') <= WebQueueLen
  BY <1>1, ReportShown
<1>4. lcs \in PageLcs /\ http \in PageHttp
      /\ webPc \in {"ap", "lcs", "mode", "serve"} /\ server \in {"stopped", "Control"}
  BY PageTypeParts
<1>5. PageTypeOK'
  <2>1. /\ lcs' \in PageLcs /\ http' \in PageHttp
        /\ webPc' \in {"ap", "lcs", "mode", "serve"} /\ server' \in {"stopped", "Control"}
    BY <1>4
  <2>. QED
    BY <1>2, <2>1, Zenon DEF PageTypeOK, PageLcs, PageHttp, HistoryTyped
<1>. QED
  BY <1>5

LEMMA PageTypeUser ==
    ASSUME PageTypeOK, TypeOK', UNCHANGED <<webPc, server, updates>>,
           lcs' \in PageLcs, http' \in PageHttp, HistoryTyped'
    PROVE  PageTypeOK'
<1>1. /\ webPc' \in {"ap", "lcs", "mode", "serve"} /\ server' \in {"stopped", "Control"}
      /\ updates' \in Seq(LCSInfo) /\ Len(updates') <= WebQueueLen
  BY DEF PageTypeOK
<1>. QED
  BY <1>1, Zenon DEF PageTypeOK, PageLcs, PageHttp, HistoryTyped

LEMMA PageTypeWeb ==
    ASSUME PageTypeOK, ModesTyped, TypeOK', RunWeb PROVE PageTypeOK' /\ ModesTyped'
<1>1. lcs \in PageLcs /\ http \in PageHttp
  BY PageTypeParts
<1>2. UNCHANGED <<http, overlapped, onlyRemote, dropped>>
  BY DEF RunWeb, Serve, WebLoop, TakeAp, TakeUpdate, TakeMode
<1>3. /\ updates' \in Seq(LCSInfo) /\ Len(updates') <= WebQueueLen
      /\ lcs' \in PageLcs
  BY <1>1, TakeShown DEF RunWeb, Serve, WebLoop, TakeAp, TakeMode, PageTypeOK
<1>4. ModesTyped'
  <2>1. CASE TakeMode
    <3>1. CASE modes = <<>>
      BY <2>1, <3>1 DEF TakeMode, ModesTyped
    <3>2. CASE modes # <<>>
      <4>1. modes = <<"Control">> /\ mode' = Head(modes) /\ modes' = Tail(modes)
        BY <2>1, <3>2 DEF TakeMode, ModesTyped
      <4>2. Head(<<"Control">>) = "Control" /\ Tail(<<"Control">>) = <<>>
        OBVIOUS
      <4>. QED
        BY <4>1, <4>2 DEF ModesTyped
    <3>. QED
      BY <3>1, <3>2
  <2>2. CASE UNCHANGED <<modes, mode>>
    BY <2>2 DEF ModesTyped
  <2>. QED
    BY <2>1, <2>2 DEF RunWeb, Serve, WebLoop, TakeAp, TakeUpdate
<1>5. webPc' \in {"ap", "lcs", "mode", "serve"} /\ server' \in {"stopped", "Control"}
  BY DEF RunWeb, Serve, WebLoop, TakeAp, TakeUpdate, TakeMode, PageTypeOK, ModesTyped
<1>6. HistoryTyped' /\ http' \in PageHttp
  BY <1>1, <1>2, PageTypeParts DEF HistoryTyped, RunWeb
<1>. QED
  BY <1>3, <1>4, <1>5, <1>6, Zenon DEF PageTypeOK, PageLcs, PageHttp, HistoryTyped

LEMMA PageTypeStep ==
    PageTypeOK /\ ModesTyped /\ [PageNext]_pageVars => PageTypeOK' /\ ModesTyped'
<1>. SUFFICES ASSUME PageTypeOK, ModesTyped, [PageNext]_pageVars
              PROVE  PageTypeOK' /\ ModesTyped'
  OBVIOUS
<1>1. TypeOK'
  BY PageStepOfTask, TypeStep DEF PageTypeOK
<1>2. /\ lcs \in PageLcs /\ http \in PageHttp
      /\ HistoryTyped /\ (NoInput => HistoryTyped')
  BY PageTypeParts DEF NoInput, history, HistoryTyped
<1>3. UserInput /\ ignored' \subseteq {"brightness", "hue"} => HistoryTyped'
  BY <1>2 DEF UserInput, HistoryTyped
<1>4. CASE RunLcs
  <2>1. HistoryTyped'
    BY <1>2, <1>4 DEF RunLcs, HistoryTyped
  <2>. QED
    BY <1>1, <1>4, <2>1, PageTypeReport DEF RunLcs, ModesTyped
<1>5. ASSUME NEW p \in RemotePacket, RemoteKey(p) PROVE PageTypeOK' /\ ModesTyped'
  <2>1. HistoryTyped'
    BY <1>2, <1>5 DEF RemoteKey, HistoryTyped
  <2>. QED
    BY <1>1, <1>5, <2>1, PageTypeReport DEF RemoteKey, ModesTyped
<1>6. CASE RunWeb
  BY <1>1, <1>6, PageTypeWeb
<1>7. CASE NetworkUp
  BY <1>1, <1>2, <1>7, PageTypeUser DEF NetworkUp, ModesTyped
<1>8. CASE (\E c \in {"toggle", "incIntensity", "decIntensity"} : Button(c))
             \/ CommandOn \/ CommandOff
  <2>1. ignored' = ignored /\ UserInput
    BY <1>8 DEF Button, CommandOn, CommandOff
  <2>2. HistoryTyped'
    BY <1>2, <1>3, <2>1 DEF HistoryTyped
  <2>. QED
    BY <1>1, <1>2, <1>8, <2>2, PageTypeUser
    DEF Button, CommandOn, CommandOff, webVars, ModesTyped
<1>9. ASSUME NEW v \in Bytes, BrightnessSlider(v) \/ HueSlider(v)
      PROVE  PageTypeOK' /\ ModesTyped'
  <2>1. http' \in PageHttp
    BY <1>9 DEF BrightnessSlider, HueSlider, PageHttp
  <2>2. lcs' \in PageLcs
    BY <1>2, <1>9, LcsSetters DEF BrightnessSlider, HueSlider
  <2>3. HistoryTyped'
    BY <1>2, <1>3, <1>9 DEF BrightnessSlider, HueSlider, Slid, HistoryTyped
  <2>. QED
    BY <1>1, <1>9, <2>1, <2>2, <2>3, PageTypeUser
    DEF BrightnessSlider, HueSlider, ModesTyped
<1>10. CASE PostSlider
  <2>1. http' \in PageHttp
    BY <1>10 DEF PostSlider, PageHttp
  <2>. QED
    BY <1>1, <1>2, <1>10, <2>1, PageTypeUser DEF PostSlider, ModesTyped
<1>11. CASE Reconfig
  <2>1. http' \in PageHttp
    BY <1>11 DEF Reconfig, PageHttp
  <2>2. HistoryTyped'
    BY <1>2, <1>3, <1>11 DEF Reconfig, HistoryTyped
  <2>. QED
    BY <1>1, <1>2, <1>11, <2>1, <2>2, PageTypeUser DEF Reconfig, ModesTyped
<1>12. CASE HideValues
  <2>1. http' \in PageHttp /\ 0 \in Bytes
    BY <1>12, LevelFacts DEF HideValues, PageHttp
  <2>2. lcs' \in PageLcs
    BY <1>2, <1>12, <2>1, LcsSetters DEF HideValues
  <2>. QED
    BY <1>1, <1>2, <1>12, <2>1, <2>2, PageTypeUser DEF HideValues, ModesTyped
<1>13. CASE PowerCycle
  <2>1. updates' \in Seq(LCSInfo) /\ Len(updates') <= WebQueueLen
    BY <1>13, WebTaskAssumption DEF PowerCycle, WebReboot
  <2>2. lcs' \in PageLcs /\ http' \in PageHttp
    BY <1>13, UnknownLampTyped DEF PowerCycle, WebReboot, PageHttp
  <2>3. /\ webPc' = "ap" /\ server' = "stopped" /\ ModesTyped'
        /\ HistoryTyped'
    BY <1>13 DEF PowerCycle, WebReboot, ModesTyped, HistoryTyped
  <2>. QED
    BY <1>1, <2>1, <2>2, <2>3, Zenon DEF PageTypeOK, PageLcs, PageHttp, HistoryTyped
<1>14. CASE UNCHANGED pageVars
  BY <1>1, <1>2, <1>14, PageTypeUser DEF pageVars, webVars, NoInput, ModesTyped
<1>. QED
  BY <1>4, <1>5, <1>6, <1>7, <1>8, <1>9, <1>10, <1>11, <1>12, <1>13, <1>14
  DEF PageNext, HandleRequest

\* WebTask's copy of the settings holds what LC12STask reports or a handler may
\* write, and the queue of updates never more than its capacity.
THEOREM PageTypeCorrect == PageSpec => []PageTypeOK
  BY PageTypeInit, PageTypeStep, PTL DEF PageSpec

-----------------------------------------------------------------------------
(***************************************************************************)
(* Agreement of the page with the local copy.                              *)
(***************************************************************************)

\* The states PageAgrees is about, and what leads to them.
Accountable == overlapped => onlyRemote /\ ~dropped

PageInv ==
    /\ PageTypeOK
    /\ ModesTyped
    /\ PairingInv
    /\ AgreementInv

\* A report of the settings, with nothing else under way.
LEMMA ReportAgrees ==
    ASSUME PageTypeOK, Report, WebQueueLen # 0, NEW cmd,
           out'.web = WebInfo(strId', hue', intensity', cmd), out'.web \in LCSInfo,
           ~Drops \/ updates = <<>>,
           queue' = <<>>, http'.request \notin {"brightness", "hue"}
    PROVE  ShownAgrees'
<1>1. out'.web # None
  BY WebPageAssumption
<1>2. updates' # <<>> /\ updates'[Len(updates')] = out'.web
  BY <1>1, ReportShown
<1>3. Shown' = WebInfo(strId', hue', intensity', cmd)
  BY <1>2 DEF Shown
<1>4. TargetIntensity' = intensity' /\ TargetHue' = hue'
  BY DEF TargetIntensity, TargetHue, SliderUnderWay
<1>5. Ignored' = {}
  BY <1>2 DEF Ignored
<1>. QED
  BY <1>3, <1>4, <1>5 DEF ShownAgrees, WebInfo

\* A step that changes neither what will be shown nor what will be set.
LEMMA QuietAgrees ==
    ASSUME ShownAgrees, Shown' = Shown, Ignored' = Ignored, strId' = strId,
           TargetIntensity' = TargetIntensity, TargetHue' = TargetHue
    PROVE  ShownAgrees'
  BY DEF ShownAgrees

LEMMA PostEmpty ==
    ASSUME QueueLen # 0, queue = <<>>, NEW c, NEW h, NEW i, Post(c, h, i)
    PROVE  /\ queue' = <<[command |-> c, hue |-> h, intensity |-> i]>>
           /\ Head(queue') = [command |-> c, hue |-> h, intensity |-> i]
           /\ queue' # <<>> /\ Len(queue') = 1
           /\ UNCHANGED <<pc, strId, hue, intensity>>
  BY LC12STaskAssumption DEF Post, SendToBack, local

\* A command is taken from the queue only while the page's users take turns:
\* it is the only one, and no report is waiting.
LEMMA TakenAlone ==
    ASSUME PageInv, Accountable, NEW c, Take(c)
    PROVE  /\ ~overlapped /\ pc = "loop"
           /\ updates = <<>> /\ queue' = <<>>
           /\ http = Idle \/ (c = "learn" /\ http.request = "reconfig")
<1>1. queue # <<>> /\ pc = "loop" /\ Head(queue).command = c /\ queue' = Tail(queue)
  BY DEF Take
<1>2. ~overlapped
  BY <1>1 DEF Accountable, PageInv, AgreementInv
<1>3. OneAtATime
  BY <1>2 DEF PageInv, AgreementInv
<1>4. queue' = <<>>
  <2>1. queue \in Seq(LCSRequest) /\ Len(queue) <= 1
    BY <1>3 DEF OneAtATime, PageInv, PageTypeOK, TypeOK
  <2>2. Len(queue) \in Nat /\ Len(queue) # 0
    BY <1>1, <2>1, LenProperties, EmptySeq
  <2>3. Len(queue) = 1
    <3>1. \A n \in Nat : n # 0 /\ n <= 1 => n = 1
      OBVIOUS
    <3>. QED
      BY <2>1, <2>2, <3>1, Zenon
  <2>4. Tail(queue) \in Seq(LCSRequest) /\ Len(Tail(queue)) = Len(queue) - 1
    BY <1>1, <2>1, HeadTailProperties
  <2>5. Len(queue') = 0
    BY <1>1, <2>3, <2>4
  <2>. QED
    BY <1>1, <2>4, <2>5, EmptySeq
<1>. QED
  BY <1>1, <1>2, <1>3, <1>4 DEF OneAtATime

LEMMA IdleRequest == Idle.request \notin {"brightness", "hue", "reconfig"}
  BY DEF Idle

\* The handlers of LC12STask.  Those of the buttons report what they leave in
\* the local copy, the slider's sets what its handler has put into lcs.
LEMMA AgreesCommand ==
    ASSUME PageInv, TypeOK', WebQueueLen # 0, Accountable,
           HandleCommand, Report, UNCHANGED <<http, lcs, ignored>>
    PROVE  ShownAgrees'
<1>1. ShownAgrees /\ PageTypeOK /\ out'.web \in LCSInfo \cup {None}
  BY DEF PageInv, AgreementInv, Accountable, TypeOK, Output
<1>2. ASSUME NEW c, Take(c)
      PROVE  /\ updates = <<>> /\ queue' = <<>> /\ queue # <<>>
             /\ http'.request \notin {"brightness", "hue"}
             /\ Head(queue).command = c
  BY <1>2, TakenAlone, IdleRequest DEF Take
<1>3. ASSUME NEW c, Take(c), out'.web = WebInfo(strId', hue', intensity', "On")
      PROVE  ShownAgrees'
  <2>1. out'.web \in LCSInfo
    BY <1>3, WebInfoTyped DEF TypeOK, Commands
  <2>. QED
    BY <1>1, <1>2, <1>3, <2>1, ReportAgrees
<1>4. ASSUME NEW c, Take(c), out'.web = None, strId' = strId,
             TargetIntensity = intensity', TargetHue = hue'
      PROVE  ShownAgrees'
  <2>1. updates' = updates
    BY <1>1, <1>4, ReportShown
  <2>2. Shown' = Shown /\ Ignored' = Ignored
    BY <1>2, <1>4, <2>1 DEF Shown, Ignored
  <2>3. TargetIntensity' = intensity' /\ TargetHue' = hue'
    BY <1>2, <1>4 DEF TargetIntensity, TargetHue, SliderUnderWay
  <2>. QED
    BY <1>1, <1>4, <2>2, <2>3, QuietAgrees
<1>5. CASE HandleToggleOn
  BY <1>3, <1>5 DEF HandleToggleOn, Emit
<1>6. CASE HandleIncIntensity \/ HandleDecIntensity
  BY <1>3, <1>6 DEF HandleIncIntensity, HandleDecIntensity, StepIntensity, Emit
<1>7. ASSUME NEW c \in {"toggle", "off", "on", "learn"}, Take(c)
      PROVE  TargetIntensity = intensity /\ TargetHue = hue
  BY <1>2, <1>7 DEF TargetIntensity, TargetHue, SliderUnderWay
<1>8. CASE HandleToggleOff
  BY <1>4, <1>7, <1>8 DEF HandleToggleOff, NoOutput
<1>9. CASE HandleOff \/ HandleOn \/ HandleLearn
  BY <1>4, <1>7, <1>9 DEF HandleOff, HandleOn, HandleLearn, Emit
<1>10. CASE HandleHueIntensity
  <2>1. /\ Take("hueintensity") /\ strId' = strId /\ out'.web = None
        /\ hue' = IF Head(queue).hue # Keep THEN Head(queue).hue ELSE hue
        /\ intensity' = IF Head(queue).intensity # Keep THEN Head(queue).intensity
                        ELSE intensity
    BY <1>10 DEF HandleHueIntensity, Emit
  <2>2. TargetIntensity = intensity' /\ TargetHue = hue'
    BY <1>2, <2>1 DEF TargetIntensity, TargetHue, SliderUnderWay
  <2>. QED
    BY <1>4, <2>1, <2>2
<1>. QED
  BY <1>5, <1>6, <1>8, <1>9, <1>10 DEF HandleCommand

\* The start reports the stored settings; the other steps of LC12STask's own
\* change none.
LEMMA AgreesStart ==
    ASSUME PageInv, TypeOK', WebQueueLen # 0, Accountable, ~Drops \/ ~overlapped,
           StartPaired \/ StartUnpaired \/ LearnDelayOver \/ SaveHue,
           Report, UNCHANGED <<http, lcs, ignored>>
    PROVE  ShownAgrees'
<1>1. /\ ShownAgrees /\ PageTypeOK /\ out'.web \in LCSInfo \cup {None}
      /\ pc # "loop"
  BY DEF PageInv, AgreementInv, Accountable, TypeOK, Output,
         StartPaired, StartUnpaired, LearnDelayOver, SaveHue
<1>2. queue = <<>> /\ http = Idle
  BY <1>1 DEF PageInv, AgreementInv, Accountable, OneAtATime
<1>3. CASE StartPaired
  <2>1. /\ out'.web = WebInfo(strId', hue', intensity', "Startup")
        /\ pc = "start" /\ queue' = queue
    BY <1>3 DEF StartPaired, NoOutput
  <2>2. out'.web \in LCSInfo
    BY <2>1, WebInfoTyped DEF TypeOK
  <2>3. ~Drops \/ updates = <<>>
    BY <2>1 DEF PageInv, AgreementInv, OneAtATime
  <2>. QED
    BY <1>1, <1>2, <2>1, <2>2, <2>3, IdleRequest, ReportAgrees
<1>4. CASE StartUnpaired \/ LearnDelayOver \/ SaveHue
  <2>1. out'.web = None /\ UNCHANGED <<queue, strId, hue, intensity>>
    BY <1>4 DEF StartUnpaired, LearnDelayOver, SaveHue, NoOutput, Emit, local
  <2>2. updates' = updates
    BY <1>1, <2>1, ReportShown
  <2>. QED
    BY <1>1, <2>1, <2>2, QuietAgrees
    DEF Shown, Ignored, TargetIntensity, TargetHue, SliderUnderWay
<1>. QED
  BY <1>3, <1>4

LEMMA AgreementLcs ==
    ASSUME PageInv, TypeOK', WebQueueLen # 0, RunLcs
    PROVE  AgreementInv'
<1>1. /\ Report /\ TaskStep /\ UNCHANGED <<http, lcs, overlapped, onlyRemote, ignored>>
      /\ PageTypeOK /\ out'.web \in LCSInfo \cup {None}
  BY DEF RunLcs, PageInv, TypeOK, Output
<1>2. Accountable' => Accountable /\ (~Drops \/ ~overlapped)
  <2>1. dropped' = (dropped \/ Drops)
    BY DEF RunLcs
  <2>. QED
    BY <1>1, <2>1, Zenon DEF Accountable
<1>3. CASE StartPaired \/ StartUnpaired \/ LearnDelayOver \/ SaveHue
  <2>1. pc # "loop" /\ pc' # "start" /\ queue' = queue
    BY <1>3 DEF StartPaired, StartUnpaired, LearnDelayOver, SaveHue
  <2>2. ~overlapped' => OneAtATime'
    BY <1>1, <2>1 DEF PageInv, AgreementInv, OneAtATime
  <2>3. Accountable' => ShownAgrees'
    BY <1>1, <1>2, <1>3, AgreesStart
  <2>. QED
    BY <1>1, <2>1, <2>2, <2>3 DEF PageInv, AgreementInv, Accountable
<1>4. CASE HandleCommand
  <2>1. PICK c \in PlainCommands \cup {"hueintensity"} : Take(c)
    BY <1>4 DEF HandleCommand, HandleToggleOn, HandleToggleOff, HandleIncIntensity,
                HandleDecIntensity, HandleOff, HandleOn, HandleLearn,
                HandleHueIntensity, PlainCommands
  <2>2. ~onlyRemote
    BY <2>1 DEF Take, PageInv, AgreementInv
  <2>3. ASSUME ~overlapped' PROVE OneAtATime'
    <3>1. /\ updates = <<>> /\ queue' = <<>>
          /\ http = Idle \/ (c = "learn" /\ http.request = "reconfig")
      BY <1>1, <2>1, <2>3, TakenAlone DEF Accountable
    <3>2. CASE http = Idle
      <4>1. pc' # "start"
        BY <1>4 DEF HandleCommand, HandleToggleOn, HandleToggleOff, HandleIncIntensity,
                    HandleDecIntensity, HandleOff, HandleOn, HandleLearn,
                    HandleHueIntensity, StepIntensity, Take
      <4>. QED
        BY <1>1, <3>1, <3>2, <4>1 DEF OneAtATime
    <3>3. CASE c = "learn"
      <4>1. HandleLearn
        BY <1>4, <2>1, <3>3
        DEF HandleCommand, HandleToggleOn, HandleToggleOff, HandleIncIntensity,
            HandleDecIntensity, HandleOff, HandleOn, HandleHueIntensity, Take
      <4>2. out'.web = None /\ pc' = "loop"
        BY <4>1 DEF HandleLearn, Emit, Take
      <4>3. updates' = <<>>
        BY <1>1, <3>1, <4>2, ReportShown
      <4>. QED
        BY <1>1, <3>1, <4>2, <4>3 DEF OneAtATime
    <3>. QED
      BY <3>1, <3>2, <3>3
  <2>4. Accountable' => ShownAgrees'
    BY <1>1, <1>2, <1>4, AgreesCommand
  <2>. QED
    BY <1>1, <2>2, <2>3, <2>4 DEF AgreementInv, Accountable
<1>. QED
  BY <1>1, <1>3, <1>4 DEF TaskStep

\* With one lamp in the neighbourhood every key that is received is reported.
LEMMA KeyReported ==
    ASSUME OneLamp, PairingInv, NEW p \in RemotePacket, ReceivePacket(p)
    PROVE  /\ Accept(p)
           /\ out'.web = WebInfo(strId', hue', intensity', p.cmd)
           /\ out'.web \in LCSInfo
<1>1. /\ p.id \in Ids /\ p.cmd \in Commands
      /\ p.intensity \in Bytes /\ p.hue \in Bytes
  BY DEF RemotePacket
<1>2. ~ForeignPacket(p)
  <2>1. SUFFICES ASSUME ForeignPacket(p) PROVE FALSE
    OBVIOUS
  <2>3. mylamp.id \in Ids \ IgnoredIds
    BY <2>1 DEF ForeignPacket, Accept, PairingInv
  <2>4. p.id \in Ids \ IgnoredIds
    BY <1>1, <2>1 DEF ForeignPacket, Accept, CanIgnoreMagic
  <2>. QED
    BY <2>1, <2>3, <2>4 DEF ForeignPacket, OneLamp
<1>3. Accept(p) /\ out'.web = WebInfo(p.id, p.hue, p.intensity, p.cmd)
  BY <1>2 DEF ReceivePacket, LearnPacket, OwnPacket, NoOutput
<1>4. out'.web \in LCSInfo
  BY <1>1, <1>3, WebInfoTyped
<1>. QED
  BY <1>3, <1>4 DEF Accept

LEMMA AgreementRemote ==
    ASSUME OneLamp, PageInv, WebQueueLen # 0, NEW p \in RemotePacket, RemoteKey(p)
    PROVE  AgreementInv'
<1>1. /\ ReceivePacket(p) /\ Report /\ UNCHANGED <<http, lcs>>
      /\ PageTypeOK /\ PairingInv
  BY DEF RemoteKey, PageInv
<1>2. /\ Accept(p) /\ queue' = queue /\ pc' = "loop"
      /\ out'.web = WebInfo(strId', hue', intensity', p.cmd)
      /\ out'.web \in LCSInfo
  BY <1>1, KeyReported DEF Accept
<1>3. \/ Calm
      \/ /\ ~Calm /\ overlapped' /\ (onlyRemote' => onlyRemote)
         /\ ~dropped' => ~dropped /\ ~Drops
  BY Zenon DEF RemoteKey
<1>6. onlyRemote' => queue = <<>> /\ http = Idle
  BY <1>3 DEF Calm, PageInv, AgreementInv
<1>4. ~overlapped' => OneAtATime'
  <2>1. Len(<<>>) <= 1
    OBVIOUS
  <2>. QED
    BY <1>1, <1>2, <1>3, <2>1 DEF OneAtATime, Calm
<1>5. ASSUME Accountable' PROVE ShownAgrees'
  <2>1. queue' = <<>> /\ http' = Idle
    BY <1>1, <1>2, <1>3, <1>5, <1>6 DEF Accountable, Calm
  <2>2. ~Drops \/ updates = <<>>
    BY <1>3, <1>5 DEF Accountable, Calm
  <2>. QED
    BY <1>1, <1>2, <2>1, <2>2, IdleRequest, ReportAgrees
<1>. QED
  BY <1>1, <1>2, <1>4, <1>5, <1>6 DEF AgreementInv, Accountable

\* WebTask's own steps, and those of the user that only post a command.
LEMMA AgreementWeb ==
    ASSUME PageInv, RunWeb PROVE AgreementInv'
<1>1. /\ PageTypeOK
      /\ UNCHANGED <<vars, http, overlapped, onlyRemote, dropped>>
  BY DEF PageInv, RunWeb, Serve, WebLoop, TakeAp, TakeUpdate, TakeMode
<1>2. Shown' = Shown /\ Ignored' = Ignored /\ (updates = <<>> => updates' = <<>>)
  <2>1. CASE TakeUpdate
    BY <1>1, <2>1, TakeShown DEF RunWeb, Ignored
  <2>2. CASE UNCHANGED <<lcs, updates>>
    BY <2>2 DEF Shown, Ignored, RunWeb
  <2>. QED
    BY <2>1, <2>2 DEF RunWeb, Serve, WebLoop, TakeAp, TakeMode
<1>3. UNCHANGED <<pc, queue, strId, hue, intensity>>
  BY <1>1 DEF vars, local
<1>4. ShownAgrees => ShownAgrees'
  BY <1>1, <1>2, <1>3 DEF ShownAgrees, TargetIntensity, TargetHue, SliderUnderWay
<1>5. OneAtATime => OneAtATime'
  BY <1>1, <1>2, <1>3 DEF OneAtATime
<1>. QED
  BY <1>1, <1>3, <1>4, <1>5 DEF PageInv, AgreementInv

\* An input that is accounted for found nothing else under way.
LEMMA InputAlone ==
    ASSUME PageInv, UserInput
    PROVE  /\ ~onlyRemote'
           /\ Accountable' => ~overlapped'
           /\ ~overlapped' => /\ pc = "loop" /\ queue = <<>>
                              /\ updates = <<>> /\ http = Idle
                              /\ ShownAgrees
  BY DEF UserInput, Calm, Accountable, PageInv, AgreementInv

LEMMA AgreementCommand ==
    ASSUME PageInv, QueueLen # 0, UserInput, UNCHANGED <<updates, lcs, ignored>>,
           NEW c \in PlainCommands, Command(c),
           http' = http \/ (c = "learn" /\ http' = [request |-> "reconfig"])
    PROVE  AgreementInv'
<1>1. /\ ~onlyRemote' /\ (Accountable' => ~overlapped')
      /\ ~overlapped' => /\ pc = "loop" /\ queue = <<>> /\ updates = <<>>
                         /\ http = Idle /\ ShownAgrees
  BY InputAlone
<1>2. ASSUME ~overlapped' PROVE OneAtATime' /\ ShownAgrees'
  <2>1. /\ Head(queue') = [command |-> c, hue |-> 0, intensity |-> 0]
        /\ queue' # <<>> /\ Len(queue') = 1
        /\ UNCHANGED <<pc, strId, hue, intensity>>
    BY <1>1, <1>2, PostEmpty DEF Command
  <2>2. /\ Head(queue').command = c /\ c # "hueintensity"
        /\ http'.request \notin {"brightness", "hue"}
        /\ http' = Idle \/ (c = "learn" /\ http'.request = "reconfig")
    BY <1>1, <1>2, <2>1, IdleRequest DEF PlainCommands
  <2>3. OneAtATime'
    BY <1>1, <1>2, <2>1, <2>2 DEF OneAtATime
  <2>4. TargetIntensity' = intensity /\ TargetHue' = hue
    BY <2>1, <2>2 DEF TargetIntensity, TargetHue, SliderUnderWay
  <2>5. TargetIntensity = intensity /\ TargetHue = hue
    BY <1>1, <1>2, IdleRequest DEF TargetIntensity, TargetHue, SliderUnderWay
  <2>. QED
    BY <1>1, <1>2, <2>1, <2>3, <2>4, <2>5, QuietAgrees DEF Shown, Ignored
<1>. QED
  BY <1>1, <1>2 DEF AgreementInv, Accountable

LEMMA SliderFields ==
    ASSUME NEW l \in PageLcs, NEW v
    PROVE  /\ [l EXCEPT !.intensity = v].intensity = v
           /\ [l EXCEPT !.intensity = v].hue = l.hue
           /\ [l EXCEPT !.intensity = v].id = l.id
           /\ [l EXCEPT !.intensity = v].command = l.command
           /\ [l EXCEPT !.hue = v].hue = v
           /\ [l EXCEPT !.hue = v].intensity = l.intensity
           /\ [l EXCEPT !.hue = v].id = l.id
           /\ [l EXCEPT !.hue = v].command = l.command
           /\ [l EXCEPT !.command = v].command = v
<1>1. l \in LCSInfo
        \/ l \in [id : {"", NoId} \cup Ids, hue : Bytes, intensity : Bytes,
                  command : {"Unknown"}]
  BY Zenon DEF PageLcs
<1>2. CASE l \in LCSInfo
  BY <1>2 DEF LCSInfo
<1>3. CASE l \in [id : {"", NoId} \cup Ids, hue : Bytes, intensity : Bytes,
                  command : {"Unknown"}]
  BY <1>3
<1>. QED
  BY <1>1, <1>2, <1>3

\* The handler of a slider sets the level that its request will set.
LEMMA AgreementSlider ==
    ASSUME PageInv, NEW v \in Bytes, BrightnessSlider(v) \/ HueSlider(v)
    PROVE  AgreementInv'
<1>1. /\ UserInput /\ lcs \in PageLcs /\ updates' = updates
      /\ UNCHANGED <<pc, queue, strId, hue, intensity>>
  BY PageTypeParts DEF PageInv, BrightnessSlider, HueSlider, vars, local
<1>2. /\ ~onlyRemote' /\ (Accountable' => ~overlapped')
      /\ ~overlapped' => /\ pc = "loop" /\ queue = <<>> /\ updates = <<>>
                         /\ http = Idle /\ ShownAgrees
  BY <1>1, InputAlone
<1>3. ASSUME ~overlapped' PROVE OneAtATime'
  <2>1. Len(<<>>) <= 1
    OBVIOUS
  <2>. QED
    BY <1>1, <1>2, <1>3, <2>1 DEF OneAtATime
<1>4. ASSUME ~overlapped' PROVE ShownAgrees'
  <2>1. /\ Shown = lcs /\ Shown' = lcs' /\ Ignored = ignored /\ Ignored' = ignored'
        /\ TargetIntensity = intensity /\ TargetHue = hue
    BY <1>1, <1>2, <1>4, IdleRequest
    DEF Shown, Ignored, TargetIntensity, TargetHue, SliderUnderWay
  <2>2. CASE BrightnessSlider(v)
    <3>1. /\ v # Keep => TargetIntensity' = v
          /\ TargetHue' = hue
      BY <1>1, <1>2, <1>4, <2>2
      DEF BrightnessSlider, TargetIntensity, TargetHue, SliderUnderWay
    <3>2. lcs' = [lcs EXCEPT !.intensity = v]
      BY <2>2 DEF BrightnessSlider
    <3>3. /\ "brightness" \in ignored' <=> v = Keep
          /\ "hue" \in ignored' <=> "hue" \in ignored
      BY <2>2 DEF BrightnessSlider, Slid
    <3>. QED
      BY <1>1, <1>2, <1>4, <2>1, <3>1, <3>2, <3>3, SliderFields DEF ShownAgrees
  <2>3. CASE HueSlider(v)
    <3>1. /\ v # Keep => TargetHue' = v
          /\ TargetIntensity' = intensity
      BY <1>1, <1>2, <1>4, <2>3
      DEF HueSlider, TargetIntensity, TargetHue, SliderUnderWay
    <3>2. lcs' = [lcs EXCEPT !.hue = v]
      BY <2>3 DEF HueSlider
    <3>3. /\ "hue" \in ignored' <=> v = Keep
          /\ "brightness" \in ignored' <=> "brightness" \in ignored
      BY <2>3 DEF HueSlider, Slid
    <3>. QED
      BY <1>1, <1>2, <1>4, <2>1, <3>1, <3>2, <3>3, SliderFields DEF ShownAgrees
  <2>. QED
    BY <2>2, <2>3
<1>. QED
  BY <1>2, <1>3, <1>4 DEF AgreementInv, Accountable

LEMMA AgreementPost ==
    ASSUME PageInv, QueueLen # 0, PostSlider PROVE AgreementInv'
<1>1. /\ http.request \in {"brightness", "hue"} /\ http # Idle /\ http' = Idle
      /\ UNCHANGED <<updates, lcs, overlapped, onlyRemote, dropped, ignored>>
  BY IdleRequest DEF PostSlider, NoInput, history
<1>2. ~onlyRemote
  BY <1>1 DEF PageInv, AgreementInv
<1>3. ASSUME ~overlapped PROVE OneAtATime' /\ ShownAgrees'
  <2>1. queue = <<>> /\ pc = "loop" /\ updates = <<>> /\ ShownAgrees
    BY <1>1, <1>3 DEF PageInv, AgreementInv, OneAtATime
  <2>2. PICK v \in Bytes : v = http.value
    BY <1>1, RequestTyped DEF PageInv
  <2>4. CASE http.request = "brightness"
    <3>1. Post("hueintensity", Keep, v)
      BY <1>1, <2>2, <2>4 DEF PostSlider, Intensity
    <3>2. /\ Head(queue') = [command |-> "hueintensity", hue |-> Keep, intensity |-> v]
          /\ queue' # <<>> /\ Len(queue') = 1
          /\ UNCHANGED <<pc, strId, hue, intensity>>
      BY <2>1, <3>1, PostEmpty
    <3>3. OneAtATime'
      BY <1>1, <2>1, <3>2 DEF OneAtATime
    <3>4. TargetIntensity' = TargetIntensity /\ TargetHue' = TargetHue
      BY <1>1, <2>1, <2>2, <2>4, <3>2, IdleRequest DEF TargetIntensity, TargetHue, SliderUnderWay
    <3>. QED
      BY <1>1, <2>1, <3>2, <3>3, <3>4, QuietAgrees DEF Shown, Ignored
  <2>5. CASE http.request = "hue"
    <3>1. Post("hueintensity", v, Keep)
      BY <1>1, <2>2, <2>5 DEF PostSlider, Hue
    <3>2. /\ Head(queue') = [command |-> "hueintensity", hue |-> v, intensity |-> Keep]
          /\ queue' # <<>> /\ Len(queue') = 1
          /\ UNCHANGED <<pc, strId, hue, intensity>>
      BY <2>1, <3>1, PostEmpty
    <3>3. OneAtATime'
      BY <1>1, <2>1, <3>2 DEF OneAtATime
    <3>4. TargetIntensity' = TargetIntensity /\ TargetHue' = TargetHue
      BY <1>1, <2>1, <2>2, <2>5, <3>2, IdleRequest DEF TargetIntensity, TargetHue, SliderUnderWay
    <3>. QED
      BY <1>1, <2>1, <3>2, <3>3, <3>4, QuietAgrees DEF Shown, Ignored
  <2>. QED
    BY <1>1, <2>4, <2>5
<1>. QED
  BY <1>1, <1>2, <1>3 DEF AgreementInv, Accountable

LEMMA AgreementHide ==
    ASSUME PageInv, HideValues PROVE AgreementInv'
<1>1. /\ http # Idle /\ http' = Idle /\ lcs \in PageLcs
      /\ lcs' = [lcs EXCEPT !.command = "Unknown"]
      /\ UNCHANGED <<pc, queue, updates, overlapped, onlyRemote, dropped>>
  BY PageTypeParts, IdleRequest DEF PageInv, HideValues, NoInput, history, vars, local
<1>2. ~onlyRemote
  BY <1>1 DEF PageInv, AgreementInv
<1>3. ASSUME ~overlapped PROVE OneAtATime' /\ ShownAgrees'
  <2>1. updates = <<>> /\ OneAtATime
    BY <1>1, <1>3 DEF PageInv, AgreementInv, OneAtATime
  <2>2. Shown'.command = "Unknown"
    BY <1>1, <2>1, SliderFields DEF Shown
  <2>. QED
    BY <1>1, <2>1, <2>2 DEF OneAtATime, ShownAgrees
<1>. QED
  BY <1>1, <1>2, <1>3 DEF AgreementInv, Accountable

LEMMA AgreementPower ==
    ASSUME PowerCycle PROVE AgreementInv'
<1>1. /\ queue' = <<>> /\ updates' = <<>> /\ http' = Idle /\ lcs' = UnknownLamp
      /\ Len(<<>>) <= 1
  BY DEF PowerCycle, Crash, WebReboot
<1>2. OneAtATime'
  BY <1>1 DEF OneAtATime
<1>3. ShownAgrees'
  BY <1>1 DEF ShownAgrees, Shown, UnknownLamp
<1>. QED
  BY <1>1, <1>2, <1>3 DEF AgreementInv

LEMMA PageInvInit == PageInit => PageInv
<1>. SUFFICES ASSUME PageInit PROVE PageInv
  OBVIOUS
<1>1. /\ queue = <<>> /\ updates = <<>> /\ http = Idle /\ lcs = UnknownLamp
      /\ Len(<<>>) <= 1
  BY DEF PageInit, Init, WebInit
<1>2. OneAtATime /\ ShownAgrees
  BY <1>1 DEF OneAtATime, ShownAgrees, Shown, UnknownLamp
<1>. QED
  BY <1>1, <1>2, PageTypeInit, PairingInit DEF PageInv, AgreementInv, PageInit

LEMMA PageInvStep ==
    ASSUME OneLamp, QueueLen # 0, WebQueueLen # 0
    PROVE  PageInv /\ [PageNext]_pageVars => PageInv'
<1>. SUFFICES ASSUME PageInv, [PageNext]_pageVars PROVE PageInv'
  OBVIOUS
<1>1. /\ PageTypeOK' /\ ModesTyped' /\ PairingInv' /\ TypeOK'
  BY PageTypeStep, PageStepOfTask, PairingStep DEF PageInv, PairingInv
<1>2. AgreementInv'
  <2>1. CASE RunLcs
    BY <1>1, <2>1, AgreementLcs
  <2>2. CASE \E p \in RemotePacket : RemoteKey(p)
    BY <2>2, AgreementRemote
  <2>3. CASE RunWeb
    BY <2>3, AgreementWeb
  <2>4. CASE (\E c \in {"toggle", "incIntensity", "decIntensity"} : Button(c))
               \/ CommandOn \/ CommandOff \/ Reconfig
    BY <2>4, AgreementCommand
    DEF Button, CommandOn, CommandOff, Reconfig, webVars, PlainCommands
  <2>5. CASE (\E v \in Bytes : BrightnessSlider(v) \/ HueSlider(v))
               \/ PostSlider \/ HideValues \/ PowerCycle
    BY <2>5, AgreementSlider, AgreementPost, AgreementHide, AgreementPower
  <2>6. CASE NetworkUp \/ UNCHANGED pageVars
    <3>1. UNCHANGED <<vars, updates, lcs, http, history>>
      BY <2>6 DEF NetworkUp, NoInput, pageVars, webVars
    <3>2. UNCHANGED <<pc, queue, strId, hue, intensity>>
      BY <3>1 DEF vars, local
    <3>. QED
      BY <3>1, <3>2
      DEF PageInv, AgreementInv, OneAtATime, ShownAgrees, Shown, Ignored, history,
          TargetIntensity, TargetHue, SliderUnderWay
  <2>. QED
    BY <2>1, <2>2, <2>3, <2>4, <2>5, <2>6 DEF PageNext, HandleRequest
<1>. QED
  BY <1>1, <1>2 DEF PageInv

\* Whatever sequence of keys, buttons, sliders, commands and restarts: when all
\* is calm and, since the start or the last key of the remote that came while all
\* was calm, nobody was faster than the controller (or only the remote was in use,
\* and no update found its queue full), the page shows the settings of the local
\* copy, and 255 for a slider that was set to it.
THEOREM PageAgreement ==
    ASSUME OneLamp, QueueLen # 0, WebQueueLen # 0
    PROVE  PageSpec => []PageAgrees
<1>1. PageInv => PageAgrees
  <2>. SUFFICES ASSUME PageInv, Calm, Accountable, lcs.command # "Unknown"
                PROVE  Agrees
    BY DEF PageAgrees, Agrees, Accountable
  <2>1. Shown = lcs /\ Ignored = ignored /\ ShownAgrees
    BY DEF Calm, Shown, Ignored, PageInv, AgreementInv, Accountable
  <2>2. TargetIntensity = intensity /\ TargetHue = hue
    BY IdleRequest DEF Calm, TargetIntensity, TargetHue, SliderUnderWay
  <2>. QED
    BY <2>1, <2>2 DEF ShownAgrees, Values, Agrees
<1>2. PageInv /\ [PageNext]_pageVars => PageInv'
  BY PageInvStep
<1>. QED
  BY <1>1, <1>2, PageInvInit, PTL DEF PageSpec

=============================================================================
