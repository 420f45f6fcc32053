----------------------------- MODULE LC12STask -----------------------------
(***************************************************************************)
(* LC12STask (lcs12c_task.cpp): the task that owns the radio link.  It     *)
(* learns the identification of the lamp from the packets of the original  *)
(* remote, keeps a local copy of the lamp's settings, and turns the        *)
(* commands the buttons and the web handlers queue into packets.           *)
(*                                                                         *)
(* One action is one packet handed over by the parser, one command taken   *)
(* from the queue, or one post by another task.  Only switching off with   *)
(* the button is two actions: it commits two NVS keys one after the other, *)
(* and a reset can fall between them.  The task runs forever; Crash is a   *)
(* reset or power loss at any point, after which only NVS is left.         *)
(*                                                                         *)
(* Every access to NVS may fail, and the task never looks at the result.   *)
(* A read that fails gives the default.  A write that fails leaves the key *)
(* as it was; one that sets the value and fails to commit it is lost or    *)
(* not when the controller restarts, and as the task reads NVS at its      *)
(* start only, that is settled here when the write is made.  A store that  *)
(* could not be opened is the case in which every access fails.            *)
(***************************************************************************)
EXTENDS LampPacket, RTOSQueue

CONSTANTS
    QueueLen,       \* capacity of _queue (10)
    None            \* absent part of an output

ASSUME LC12STaskAssumption ==
    /\ QueueLen \in Nat
    /\ None \notin Packet

VARIABLES
    pc,             \* "start", "delay" (500 ms of learn mode), "loop", "saveHue"
    learn,          \* lamp ID must be learned
    mylamp,         \* packet under construction, addressed to the own lamp
    lampIsOn,       \* flag of the toggle switch
    hue, intensity, \* local copy of the lamp's settings
    strId,          \* identification shown on the web page
    kv,             \* NVS: the keys "lampid", "lamintensity" and "lamphue"
    queue,          \* commands of the buttons and the web handlers
    out,            \* what the last step wrote: UART, WebTask, LedTask
    idFailed        \* history: the last access of this run to "lampid" failed

local == <<learn, mylamp, lampIsOn, hue, intensity, strId>>
vars  == <<pc, local, kv, queue, out, idFailed>>

PlainCommands == {"learn", "on", "off", "toggle", "incIntensity", "decIntensity"}

\* 255: "leave this level alone" in a hueintensity request.
Keep == MaxByte

\* What the handler of a slider passes on is any byte (atoi cast to uint8_t): the
\* levels of the page's slider, levels beyond them, and 255, which then reads as
\* "leave alone".
SliderValues == Bytes

LCSRequest ==
    [command : PlainCommands, hue : {0}, intensity : {0}]
      \cup [command : {"hueintensity"}, hue : SliderValues, intensity : SliderValues]

LCSInfo == [id : Ids \cup {NoId}, hue : Bytes, intensity : Bytes,
            command : Commands \cup {"Startup"}]

Output == [tx : Packet \cup {None}, web : LCSInfo \cup {None},
           led : {"LEARN", "CLIENT", None}]

TypeOK ==
    /\ pc \in {"start", "delay", "loop", "saveHue"}
    /\ learn \in BOOLEAN
    /\ mylamp \in Packet
    /\ lampIsOn \in BOOLEAN
    /\ hue \in Bytes
    /\ intensity \in Bytes
    /\ strId \in Ids \cup {NoId}
    /\ kv \in [lampid : Ids \cup {NoId}, intensity : Bytes, hue : Bytes]
    /\ queue \in Seq(LCSRequest)
    /\ Len(queue) <= QueueLen
    /\ out \in Output
    /\ idFailed \in BOOLEAN

-----------------------------------------------------------------------------
(***************************************************************************)
(* Start-up.                                                               *)
(***************************************************************************)

NoOutput == [tx |-> None, web |-> None, led |-> None]

\* A factory-new device: absent keys read as "" and 0.
Init ==
    /\ pc = "start"
    /\ learn = FALSE
    /\ mylamp = BlankPacket
    /\ lampIsOn = FALSE
    /\ hue = 0
    /\ intensity = 0
    /\ strId = NoId
    /\ kv = [lampid |-> NoId, intensity |-> 0, hue |-> 0]
    /\ queue = <<>>
    /\ out = NoOutput
    /\ idFailed = FALSE

WebInfo(id, h, i, cmd) ==
    [id |-> id, hue |-> h, intensity |-> i, command |-> cmd]

\* Mutant: the packet itself is marked as one of the start-up.
StartPairedMarked ==
    /\ pc = "start"
    /\ kv.lampid # NoId
    /\ pc' = "loop"
    /\ strId' = kv.lampid
    /\ hue' \in {kv.hue, 0}
    /\ intensity' \in {kv.intensity, 0}
    /\ mylamp' = SetCommand(SetLevels(SetIdentification(mylamp, kv.lampid), intensity', hue'),
                           "Startup")
    /\ out' = [NoOutput EXCEPT !.web = WebInfo(kv.lampid, hue', intensity', "Startup")]
    /\ UNCHANGED <<learn, lampIsOn, kv, queue, idFailed>>

\* The stored ID is read: resume with the stored settings, each as it is read,
\* and show them on the page.
StartPaired ==
    /\ pc = "start"
    /\ kv.lampid # NoId
    /\ pc' = "loop"
    /\ strId' = kv.lampid
    /\ hue' \in {kv.hue, 0}
    /\ intensity' \in {kv.intensity, 0}
    /\ mylamp' = SetLevels(SetIdentification(mylamp, kv.lampid), intensity', hue')
    /\ out' = [NoOutput EXCEPT !.web = WebInfo(kv.lampid, hue', intensity', "Startup")]
    /\ UNCHANGED <<learn, lampIsOn, kv, queue, idFailed>>

\* Mutant: learn mode is announced on the LED but the flag is not set.
StartUnpairedNoLearn ==
    /\ pc = "start"
    /\ pc' = "delay"
    /\ out' = NoOutput
    /\ idFailed' = (kv.lampid # NoId)
    /\ UNCHANGED <<local, kv, queue>>

\* Mutant: the packet is addressed before the ID is known to be there.
StartUnpairedAddressed ==
    /\ pc = "start"
    /\ pc' = "delay"
    /\ learn' = TRUE
    /\ mylamp' = SetIdentification(mylamp, NoId)
    /\ out' = NoOutput
    /\ idFailed' = (kv.lampid # NoId)
    /\ UNCHANGED <<lampIsOn, hue, intensity, strId, kv, queue>>

\* No ID is read: none is stored, or the read fails.
StartUnpaired ==
    /\ pc = "start"
    /\ pc' = "delay"
    /\ learn' = TRUE
    /\ out' = NoOutput
    /\ idFailed' = (kv.lampid # NoId)
    /\ UNCHANGED <<mylamp, lampIsOn, hue, intensity, strId, kv, queue>>

\* The 500 ms before learn mode is shown on the LED.
LearnDelayOver ==
    /\ pc = "delay"
    /\ pc' = "loop"
    /\ out' = [NoOutput EXCEPT !.led = "LEARN"]
    /\ UNCHANGED <<local, kv, queue, idFailed>>

-----------------------------------------------------------------------------
(***************************************************************************)
(* A packet from a remote control.  The settings and the shown ID follow   *)
(* every packet, the lamp's own packet and flag only those of the own lamp.*)
(***************************************************************************)

Accept(p) ==
    /\ pc = "loop"
    /\ ~CanIgnoreMagic(p)
    /\ strId' = p.id
    /\ hue' = p.hue
    /\ intensity' = p.intensity
    /\ UNCHANGED <<pc, queue>>

\* Mutant: mylamp is not brought up to the received levels.
SyncFlagOnly(p) ==
    /\ mylamp' = SetIdentification(mylamp, p.id)
    /\ lampIsOn' = CASE p.cmd = "On"  -> TRUE
                     [] p.cmd = "Off" -> FALSE
                     [] OTHER         -> lampIsOn

SyncOwnLamp(p) ==
    /\ mylamp' = SetLevels(SetIdentification(mylamp, p.id), p.intensity, p.hue)
    /\ lampIsOn' = CASE p.cmd = "On"  -> TRUE
                     [] p.cmd = "Off" -> FALSE
                     [] OTHER         -> lampIsOn

\* writeString to "lampid".
WriteId(id) ==
    \E ok \in BOOLEAN :
        /\ kv' = IF ok THEN [kv EXCEPT !.lampid = id] ELSE kv
        /\ idFailed' = ~ok

\* Mutant: every packet is learned, in learn mode or not.
LearnAnyPacket(p) ==
    /\ Accept(p)
    /\ SyncOwnLamp(p)
    /\ learn' = FALSE
    /\ WriteId(p.id)
    /\ out' = [NoOutput EXCEPT !.led = "CLIENT",
                               !.web = WebInfo(p.id, p.hue, p.intensity, p.cmd)]

\* Mutant: the LED is not told that learning is over.
LearnPacketDark(p) ==
    /\ learn
    /\ Accept(p)
    /\ SyncOwnLamp(p)
    /\ learn' = FALSE
    /\ WriteId(p.id)
    /\ out' = [NoOutput EXCEPT !.web = WebInfo(p.id, p.hue, p.intensity, p.cmd)]

LearnPacket(p) ==
    /\ learn
    /\ Accept(p)
    /\ SyncOwnLamp(p)
    /\ learn' = FALSE
    /\ WriteId(p.id)
    /\ out' = [NoOutput EXCEPT !.led = "CLIENT",
                               !.web = WebInfo(p.id, p.hue, p.intensity, p.cmd)]

OwnPacket(p) ==
    /\ ~learn
    /\ p.id = mylamp.id
    /\ Accept(p)
    /\ SyncOwnLamp(p)
    /\ out' = [NoOutput EXCEPT !.web = WebInfo(p.id, p.hue, p.intensity, p.cmd)]
    /\ UNCHANGED <<learn, kv, idFailed>>

ForeignPacket(p) ==
    /\ ~learn
    /\ p.id # mylamp.id
    /\ Accept(p)
    /\ out' = NoOutput
    /\ UNCHANGED <<learn, mylamp, lampIsOn, kv, idFailed>>

ReceivePacket(p) == LearnPacket(p) \/ OwnPacket(p) \/ ForeignPacket(p)

-----------------------------------------------------------------------------
(***************************************************************************)
(* A command from the queue.  Unless the ID must be learned, each ends     *)
(* with the transmission of mylamp, whatever it then holds.                *)
(***************************************************************************)

Take(command) ==
    /\ pc = "loop"
    /\ queue # <<>>
    /\ Head(queue).command = command
    /\ queue' = Tail(queue)

\* Mutant: mylamp is transmitted in learn mode as well.
EmitAlways(web, led) == out' = [tx |-> mylamp', web |-> web, led |-> led]

Emit(web, led) ==
    out' = [tx |-> IF learn' THEN None ELSE mylamp', web |-> web, led |-> led]

\* mylamp switched on with the settings of the local copy.
SwitchedOn == SetCommand(SetLevels(mylamp, intensity, hue), "On")

HandleToggleOn ==
    /\ Take("toggle")
    /\ ~lampIsOn
    /\ lampIsOn' = TRUE
    /\ mylamp' = SwitchedOn
    /\ UNCHANGED <<pc, learn, hue, intensity, strId, kv, idFailed>>
    /\ Emit(WebInfo(strId, hue, intensity, "On"), None)

\* Switching off stores the settings, one commit per key, and then transmits.
\* Either write may fail.
HandleToggleOff ==
    /\ Take("toggle")
    /\ lampIsOn
    /\ lampIsOn' = FALSE
    /\ mylamp' = SetCommand(mylamp, "Off")
    /\ kv' \in {kv, [kv EXCEPT !.intensity = intensity]}
    /\ pc' = "saveHue"
    /\ out' = NoOutput
    /\ UNCHANGED <<learn, hue, intensity, strId, idFailed>>

SaveHue ==
    /\ pc = "saveHue"
    /\ pc' = "loop"
    /\ kv' \in {kv, [kv EXCEPT !.hue = hue]}
    /\ UNCHANGED <<local, queue, idFailed>>
    /\ Emit(None, None)

\* Buttons A and B: a lamp taken to be off is first switched on.
StepIntensity(i) ==
    /\ lampIsOn' = TRUE
    /\ intensity' = i
    /\ mylamp' = [IF lampIsOn THEN mylamp ELSE SwitchedOn EXCEPT !.intensity = i]
    /\ UNCHANGED <<pc, learn, hue, strId, kv, idFailed>>
    /\ Emit(WebInfo(strId, hue, i, "On"), None)

\* Mutant: the comparison with the greatest level is off by one.
IncIntensityPastMax ==
    /\ Take("incIntensity")
    /\ StepIntensity(IF intensity <= MaxLevel THEN intensity + 1 ELSE intensity)

HandleIncIntensity ==
    /\ Take("incIntensity")
    /\ StepIntensity(IF intensity < MaxLevel THEN intensity + 1 ELSE intensity)

HandleDecIntensity ==
    /\ Take("decIntensity")
    /\ StepIntensity(IF intensity > 0 THEN intensity - 1 ELSE intensity)

HandleOff ==
    /\ Take("off")
    /\ lampIsOn' = FALSE
    /\ mylamp' = SetCommand(mylamp, "Off")
    /\ UNCHANGED <<pc, learn, hue, intensity, strId, kv, idFailed>>
    /\ Emit(None, None)

HandleOn ==
    /\ Take("on")
    /\ lampIsOn' = TRUE
    /\ mylamp' = SwitchedOn
    /\ UNCHANGED <<pc, learn, hue, intensity, strId, kv, idFailed>>
    /\ Emit(None, None)

\* Mutant: the stored ID is not erased.
LearnKeepsStoredId ==
    /\ Take("learn")
    /\ learn' = TRUE
    /\ UNCHANGED <<pc, mylamp, lampIsOn, hue, intensity, strId, kv, idFailed>>
    /\ Emit(None, "LEARN")

HandleLearn ==
    /\ Take("learn")
    /\ learn' = TRUE
    /\ WriteId(NoId)
    /\ UNCHANGED <<pc, mylamp, lampIsOn, hue, intensity, strId>>
    /\ Emit(None, "LEARN")

\* Mutant: the packet is changed, the local copy is not.
HueIntensityPacketOnly ==
    LET req == Head(queue)
    IN  /\ Take("hueintensity")
        /\ mylamp' = SetCommand(
               [mylamp EXCEPT
                  !.hue       = IF req.hue # Keep THEN req.hue ELSE @,
                  !.intensity = IF req.intensity # Keep THEN req.intensity ELSE @], "On")
        /\ lampIsOn' = TRUE
        /\ UNCHANGED <<pc, learn, hue, intensity, strId, kv, idFailed>>
        /\ Emit(None, None)

\* A slider: only a level that is not Keep changes, and a packet that is not
\* an ON packet becomes one.
HandleHueIntensity ==
    LET req    == Head(queue)
        set    == [mylamp EXCEPT
                     !.hue       = IF req.hue # Keep THEN req.hue ELSE @,
                     !.intensity = IF req.intensity # Keep THEN req.intensity ELSE @]
        wasOn  == mylamp.cmd = "On"
    IN  /\ Take("hueintensity")
        /\ hue' = IF req.hue # Keep THEN req.hue ELSE hue
        /\ intensity' = IF req.intensity # Keep THEN req.intensity ELSE intensity
        /\ mylamp' = IF wasOn THEN set
                     ELSE SetLevels(SetCommand(set, "On"), intensity', hue')
        /\ lampIsOn' = (lampIsOn \/ req.hue # Keep \/ ~wasOn)
        /\ UNCHANGED <<pc, learn, strId, kv, idFailed>>
        /\ Emit(None, None)

HandleCommand ==
    \/ HandleToggleOn \/ HandleToggleOff
    \/ HandleIncIntensity \/ HandleDecIntensity
    \/ HandleOff \/ HandleOn \/ HandleLearn \/ HandleHueIntensity

-----------------------------------------------------------------------------
(***************************************************************************)
(* The other tasks and the environment.                                    *)
(***************************************************************************)

Post(command, h, i) ==
    /\ queue' = SendToBack(queue, [command |-> command, hue |-> h, intensity |-> i],
                           QueueLen)
    /\ out' = NoOutput
    /\ UNCHANGED <<pc, local, kv, idFailed>>

Command(c)   == Post(c, 0, 0)
Hue(h)       == Post("hueintensity", h, Keep)
Intensity(i) == Post("hueintensity", Keep, i)

PostRequest ==
    \/ \E c \in PlainCommands : Command(c)
    \/ \E v \in SliderValues : Hue(v) \/ Intensity(v)

\* A reset: everything but NVS is initialised anew.
Crash ==
    /\ pc' = "start"
    /\ learn' = FALSE
    /\ mylamp' = BlankPacket
    /\ lampIsOn' = FALSE
    /\ hue' = 0
    /\ intensity' = 0
    /\ strId' = NoId
    /\ queue' = <<>>
    /\ out' = NoOutput
    /\ idFailed' = FALSE
    /\ UNCHANGED kv

TaskStep == StartPaired \/ StartUnpaired \/ LearnDelayOver \/ HandleCommand \/ SaveHue

RemotePacket == [id : Ids, cmd : Commands, intensity : Bytes, hue : Bytes]

Next ==
    \/ TaskStep
    \/ \E p \in RemotePacket : ReceivePacket(p)
    \/ PostRequest
    \/ Crash

Spec == Init /\ [][Next]_vars

\* loop() never blocks, so the task keeps taking commands.  A remote control in
\* use sends its packet again and again, its bytes wait in the UART driver, and
\* every iteration reads them before it takes a command: a packet cannot be put
\* off for ever by commands, even though a command disables reading for a while
\* (strong fairness).
Fairness ==
    /\ WF_vars(TaskStep)
    /\ SF_vars(\E p \in RemotePacket : LearnPacket(p))

FairSpec == Spec /\ Fairness

-----------------------------------------------------------------------------
(***************************************************************************)
(* Properties.                                                             *)
(***************************************************************************)

\* The task's idea of being paired and NVS disagree only after an access to the
\* stored ID failed: otherwise the ID must be learned exactly when none is stored,
\* and the packet under construction is addressed to the stored lamp.  A reset at
\* any point then resumes with the same lamp, or with learning.
PairingStored ==
    ~idFailed =>
        /\ pc \in {"delay", "loop", "saveHue"} => (learn <=> kv.lampid = NoId)
        /\ pc \in {"loop", "saveHue"} /\ ~learn => mylamp.id = kv.lampid

\* Whatever is written to the UART is addressed to a lamp that was learned, never
\* to an identification with the magic byte 0xA4 or to none; and unless NVS has
\* failed, to the lamp stored there.
TxToStoredLamp ==
    out.tx # None =>
        /\ out.tx.id \in Ids \ IgnoredIds
        /\ idFailed \/ out.tx.id = kv.lampid

\* The controller changes its lamp only on request, even when NVS fails.  Learn
\* mode begins with a learn command, or a start that read no ID; the lamp that
\* the task addresses changes in learn mode only, or with a start; and what is
\* stored changes only when it is forgotten by a learn command, or when an ID is
\* learned where none is stored or the task does not know of one.
NoSilentRepairing ==
    [][/\ learn' /\ ~learn =>
            \/ pc = "start" /\ (kv.lampid = NoId \/ idFailed')
            \/ Head(queue).command = "learn"
       /\ mylamp'.id # mylamp.id => learn \/ "start" \in {pc, pc'}
       /\ kv'.lampid # kv.lampid =>
            \/ kv'.lampid = NoId /\ Head(queue).command = "learn"
            \/ learn /\ ~learn' /\ (kv.lampid = NoId \/ idFailed)]_vars

\* Once a remote is in use, learn mode ends, provided resets cease, and it ends
\* with a stored ID unless the write of it failed.
PairingCompletes ==
    <>[][~Crash]_vars =>
        (learn \/ (pc = "start" /\ kv.lampid = NoId))
            ~> (~learn /\ (kv.lampid # NoId \/ idFailed))

\* With one lamp in the neighbourhood, an ON packet under construction always
\* carries the settings of the local copy, so sending it never changes a level
\* the user did not touch.
OnPacketCarriesSettings ==
    mylamp.cmd = "On" => mylamp.intensity = intensity /\ mylamp.hue = hue

\* The settings the task keeps, sends and stores are levels of the protocol.
InRange ==
    {hue, intensity, mylamp.hue, mylamp.intensity, kv.hue, kv.intensity} \subseteq Levels

Carried(m) == {m.hue, m.intensity}

\* They leave the range only when a level from outside does: one of a received
\* packet, or one of a slider's request that is neither a level nor 255.  No
\* number of button steps, restarts or half-stored settings takes them there.
RangeKept ==
    [][InRange /\ ~InRange' =>
         \/ \E p \in RemotePacket : ReceivePacket(p) /\ ~(Carried(p) \subseteq Levels)
         \/ /\ HandleHueIntensity
            /\ ~(Carried(Head(queue)) \subseteq Levels \cup {Keep})]_vars

-----------------------------------------------------------------------------
(***************************************************************************)
(* What the documents of the repository say, and the code does not do.     *)
(***************************************************************************)

\* README.md, HW Buttons: "A | Increasing the brightness intensity".  Button A
\* always sends an ON packet.  It does not after the lamp was switched on with
\* the remote: the task then takes the lamp to be on, but mylamp still holds
\* the command byte of the packet it sent last, OFF or none at all.
IncreaseIsSentAsOn ==
    [][HandleIncIntensity /\ ~learn => out'.tx.cmd = "On"]_vars

=============================================================================
