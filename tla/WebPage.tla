------------------------------ MODULE WebPage ------------------------------
(***************************************************************************)
(* The Control page and the task behind it: LC12STask and WebTask, with    *)
(* the handlers of /slider, /values and /command (web_task.cpp:107-226).   *)
(*                                                                         *)
(* What the page shows is WebTask's own copy lcs of the settings.  It      *)
(* changes on two ways that do not wait for each other: a handler writes   *)
(* it and queues a request to LC12STask, and LC12STask queues an update    *)
(* for WebTask, which looks at its queue every 500 ms.                     *)
(***************************************************************************)
EXTENDS LC12STask, WebTask

ASSUME WebPageAssumption == None \notin LCSInfo

VARIABLES
    \* History since the start, or since a key of the remote control that came
    \* while nothing was under way:
    overlapped,     \* an input came while another was under way
    onlyRemote,     \* the remote control was the only input
    dropped,        \* an update found its queue full
    ignored         \* sliders last set to 255, since lcs was last replaced

history  == <<overlapped, onlyRemote, dropped, ignored>>
pageVars == <<vars, webVars, history>>

PageTypeOK ==
    /\ TypeOK
    /\ webPc \in {"ap", "lcs", "mode", "serve"}
    /\ updates \in Seq(LCSInfo) /\ Len(updates) <= WebQueueLen
    /\ server \in {"stopped", "Control"}
    /\ lcs \in LCSInfo \cup [id : {"", NoId} \cup Ids, hue : Bytes, intensity : Bytes,
                             command : {"Unknown"}]
    /\ http \in {Idle} \cup [request : {"brightness", "hue"}, value : Bytes]
                       \cup {[request |-> "reconfig"]}
    /\ {overlapped, onlyRemote, dropped} \subseteq BOOLEAN
    /\ ignored \subseteq {"brightness", "hue"}

PageInit ==
    /\ Init
    /\ WebInit
    /\ overlapped = FALSE
    /\ onlyRemote = TRUE
    /\ dropped = FALSE
    /\ ignored = {}

\* No input is under way: nothing waits in a queue or in a handler.
Calm ==
    /\ pc = "loop"
    /\ queue = <<>>
    /\ updates = <<>>
    /\ http = Idle

UserInput ==
    /\ overlapped' = (overlapped \/ ~Calm)
    /\ onlyRemote' = FALSE
    /\ UNCHANGED dropped

NoInput == UNCHANGED history

-----------------------------------------------------------------------------
(***************************************************************************)
(* LC12STask, which calls WebTask::lcsUpdate, and WebTask.                 *)
(***************************************************************************)

Report ==
    updates' = IF out'.web = None THEN updates
               ELSE SendToBack(updates, out'.web, WebQueueLen)

Drops == out'.web # None /\ Len(updates) = WebQueueLen

RunLcs ==
    /\ TaskStep
    /\ Report
    /\ dropped' = (dropped \/ Drops)
    /\ UNCHANGED <<webPc, modes, mode, aps, server, lcs, apinfo, http,
                   overlapped, onlyRemote, ignored>>

RunWeb ==
    /\ Serve \/ WebLoop
    /\ ignored' = IF updates' # updates THEN {} ELSE ignored
    /\ UNCHANGED <<vars, overlapped, onlyRemote, dropped>>

\* WifiTask has brought the network up.
NetworkUp ==
    /\ server = "stopped"
    /\ webPc # "serve"
    /\ modes = <<>>
    /\ modes' = <<"Control">>
    /\ NoInput
    /\ UNCHANGED <<vars, webPc, mode, aps, updates, server, lcs, apinfo, http>>

-----------------------------------------------------------------------------
(***************************************************************************)
(* The user: remote control, buttons, page.                                *)
(***************************************************************************)

RemoteKey(p) ==
    /\ ReceivePacket(p)
    /\ Report
    /\ overlapped' = ~Calm
    /\ onlyRemote' = (onlyRemote \/ Calm)
    /\ dropped' = ((dropped /\ ~Calm) \/ Drops)
    /\ UNCHANGED <<webPc, modes, mode, aps, server, lcs, apinfo, http, ignored>>

Button(c) ==
    /\ Command(c)
    /\ UserInput
    /\ UNCHANGED <<webVars, ignored>>

Slid(slider, v) == ignored' = IF v = Keep THEN ignored \cup {slider} ELSE ignored \ {slider}

\* Mutant: the handler leaves it to LC12STask to report the level.
BrightnessSliderNoCopy(v) ==
    /\ Serves("Control")
    /\ http' = [request |-> "brightness", value |-> v]
    /\ UserInput
    /\ UNCHANGED <<vars, webPc, modes, mode, aps, updates, server, lcs, apinfo, ignored>>

\* /slider writes the level into lcs and then queues it for LC12STask, any byte
\* the number in the request is cast to.
BrightnessSlider(v) ==
    /\ Serves("Control")
    /\ lcs' = [lcs EXCEPT !.intensity = v]
    /\ http' = [request |-> "brightness", value |-> v]
    /\ Slid("brightness", v)
    /\ UserInput
    /\ UNCHANGED <<vars, webPc, modes, mode, aps, updates, server, apinfo>>

HueSlider(v) ==
    /\ Serves("Control")
    /\ lcs' = [lcs EXCEPT !.hue = v]
    /\ http' = [request |-> "hue", value |-> v]
    /\ Slid("hue", v)
    /\ UserInput
    /\ UNCHANGED <<vars, webPc, modes, mode, aps, updates, server, apinfo>>

PostSlider ==
    /\ \/ http.request = "brightness" /\ Intensity(http.value)
       \/ http.request = "hue" /\ Hue(http.value)
    /\ http' = Idle
    /\ NoInput
    /\ UNCHANGED <<webPc, modes, mode, aps, updates, server, lcs, apinfo>>

\* /command ON: the levels in the body are not read.
CommandOn ==
    /\ Serves("Control")
    /\ Command("on")
    /\ UserInput
    /\ UNCHANGED <<webVars, ignored>>

CommandOff ==
    /\ Serves("Control")
    /\ Command("off")
    /\ UserInput
    /\ UNCHANGED <<webVars, ignored>>

\* /command RECONFIG queues the command and then hides the values.
Reconfig ==
    /\ Serves("Control")
    /\ Command("learn")
    /\ http' = [request |-> "reconfig"]
    /\ UserInput
    /\ UNCHANGED <<webPc, modes, mode, aps, updates, server, lcs, apinfo, ignored>>

HideValues ==
    /\ http.request = "reconfig"
    /\ lcs' = [lcs EXCEPT !.command = "Unknown"]
    /\ http' = Idle
    /\ NoInput
    /\ UNCHANGED <<vars, webPc, modes, mode, aps, updates, server, apinfo>>

HandleRequest ==
    \/ \E v \in Bytes : BrightnessSlider(v) \/ HueSlider(v)
    \/ PostSlider
    \/ CommandOn \/ CommandOff \/ Reconfig \/ HideValues

\* The answer to /values.
Values ==
    IF lcs.command = "Unknown" THEN [brightness |-> 0, hue |-> 0, id |-> "???"]
    ELSE [brightness |-> lcs.intensity, hue |-> lcs.hue, id |-> lcs.id]

PowerCycle ==
    /\ Crash
    /\ WebReboot
    /\ overlapped' = FALSE
    /\ onlyRemote' = TRUE
    /\ dropped' = FALSE
    /\ ignored' = {}

PageNext ==
    \/ RunLcs \/ RunWeb \/ NetworkUp
    \/ \E p \in RemotePacket : RemoteKey(p)
    \/ \E c \in {"toggle", "incIntensity", "decIntensity"} : Button(c)
    \/ HandleRequest
    \/ PowerCycle

PageSpec == PageInit /\ [][PageNext]_pageVars

-----------------------------------------------------------------------------
(***************************************************************************)
(* Properties, for a neighbourhood of one lamp.                            *)
(***************************************************************************)

\* A slider set to 255 leaves lcs with a level that LC12STask does not take: the
\* page then shows 255 until the next report, whatever the lamp has.
Agrees ==
    lcs.command # "Unknown" =>
        Values = [brightness |-> IF "brightness" \in ignored THEN Keep ELSE intensity,
                  hue        |-> IF "hue" \in ignored THEN Keep ELSE hue,
                  id         |-> strId]

\* Whatever sequence of keys, buttons, sliders, commands and restarts: as long
\* as each waits for the one before to be through, the page ends up with the
\* settings of the local copy.  Each command either reports what it changed or
\* was told of it by a handler that changed lcs in the same way.  The keys of
\* the remote control need not even wait: while nothing else is used, only an
\* update that found its queue full (web_task.cpp:316) leaves the page behind.
\* However far inputs in each other's way and dropped updates have taken page
\* and local copy apart, one key of the remote brings them together, if nothing
\* is under way when it comes.
PageAgrees ==
    Calm /\ (overlapped => onlyRemote /\ ~dropped) => Agrees

=============================================================================
