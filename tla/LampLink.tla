------------------------------ MODULE LampLink ------------------------------
(***************************************************************************)
(* The controller between its two neighbours on the radio channel: the     *)
(* lamp and the lamp's original remote control.  Both are external; their  *)
(* behaviour is the one the controller relies on.  A packet of the remote  *)
(* reaches the lamp at once, and the controller only when the UART task    *)
(* gets to it: in between the controller may transmit a packet of its own. *)
(* Either receiver may miss a packet.                                      *)
(***************************************************************************)
EXTENDS LC12STask

CONSTANTS
    LampId,         \* identification of the lamp
    RxLen           \* bound: packets waiting in the UART buffer

ASSUME LampLinkAssumption == LampId \in Ids \ IgnoredIds /\ RxLen \in Nat

VARIABLES
    lamp,           \* what the lamp shows
    rx,             \* packets in the UART buffer, not yet read
    current,        \* the lamp still shows the last of its packets in rx
    synced          \* the last packet either side acted on reached both

lvars == <<vars, lamp, rx, current, synced>>

\* What a lamp makes of a level beyond the protocol is not known; here it keeps the
\* byte, like any other level.
LampState == [mode : {"On", "Off", "Automatic"}, intensity : Bytes, hue : Bytes]

\* A lamp obeys the packets addressed to it, and has no use for a command byte
\* other than the three of the protocol.
Obeys(p) == p.id = LampId /\ p.cmd # "Unknown"

Shows(p) == [mode |-> p.cmd, intensity |-> p.intensity, hue |-> p.hue]

\* The remote control sends levels of the protocol, and sets both levels of any
\* packet but ON to 0x10.
RemoteSends ==
    {p \in RemotePacket :
        /\ p.cmd \in {"On", "Off", "Automatic"}
        /\ {p.intensity, p.hue} \subseteq Levels
        /\ p.cmd # "On" => p.intensity = OffLevel /\ p.hue = OffLevel}

LinkTypeOK ==
    /\ lamp \in LampState
    /\ rx \in Seq(RemoteSends)
    /\ Len(rx) <= RxLen
    /\ current \in BOOLEAN
    /\ synced \in BOOLEAN

LinkInit ==
    /\ Init
    /\ lamp = [mode |-> "Off", intensity |-> OffLevel, hue |-> OffLevel]
    /\ rx = <<>>
    /\ current = FALSE
    /\ synced = FALSE

\* Packets for the lamp that the task has yet to read.
Pending(q) == \E i \in DOMAIN q : q[i].id = LampId

\* A key of the remote control: lamp and controller may each miss the packet.
Remote(p) ==
    /\ p.id = LampId
    /\ Len(rx) < RxLen
    /\ \E lampHears, controllerHears \in BOOLEAN :
         /\ lampHears \/ controllerHears
         /\ lamp' = IF lampHears /\ Obeys(p) THEN Shows(p) ELSE lamp
         /\ rx' = IF controllerHears THEN Append(rx, p) ELSE rx
         /\ current' = (lampHears /\ controllerHears)
    /\ synced' = FALSE
    /\ UNCHANGED vars

\* A packet of some other transmitter.
Stray(p) ==
    /\ p.id # LampId
    /\ Len(rx) < RxLen
    /\ rx' = Append(rx, p)
    /\ UNCHANGED <<vars, lamp, current, synced>>

\* The task reads the oldest packet; packets with the magic byte are dropped.
Receive ==
    /\ rx # <<>>
    /\ ReceivePacket(Head(rx))
    /\ rx' = Tail(rx)
    /\ current' = (current /\ Pending(rx'))
    /\ synced' = (current /\ ~Pending(rx'))
    /\ UNCHANGED lamp

Ignore ==
    /\ pc = "loop"
    /\ rx # <<>>
    /\ CanIgnoreMagic(Head(rx))
    /\ rx' = Tail(rx)
    /\ UNCHANGED <<vars, lamp, current, synced>>

\* A step of the task; what it transmits reaches the lamp or is lost.
Silent ==
    /\ TaskStep
    /\ out'.tx = None
    /\ UNCHANGED <<lamp, rx, current, synced>>

Transmit ==
    /\ TaskStep
    /\ out'.tx # None
    /\ \E delivered \in BOOLEAN :
         /\ lamp' = IF delivered /\ Obeys(out'.tx) THEN Shows(out'.tx) ELSE lamp
         /\ synced' = (delivered /\ Obeys(out'.tx))
    /\ current' = FALSE
    /\ UNCHANGED rx

Request == PostRequest /\ UNCHANGED <<lamp, rx, current, synced>>

\* The UART buffer does not survive a reset of the controller; the lamp does.
Reset ==
    /\ Crash
    /\ rx' = <<>>
    /\ current' = FALSE
    /\ synced' = FALSE
    /\ UNCHANGED lamp

LinkNext ==
    \/ \E p \in RemoteSends : Remote(p) \/ Stray(p)
    \/ Receive \/ Ignore \/ Silent \/ Transmit \/ Request \/ Reset

LinkSpec == LinkInit /\ [][LinkNext]_lvars

-----------------------------------------------------------------------------
(***************************************************************************)
(* Properties, for a neighbourhood of one lamp.                            *)
(***************************************************************************)

Quiet == synced /\ ~Pending(rx) /\ ~learn /\ pc = "loop"

\* When the last packet of either side got through to both, the lamp shows the
\* levels of the local copy: button steps and the web page start from what the
\* user sees, through any number of remote packets, commands and restarts.
MirrorsLamp ==
    Quiet /\ lamp.mode = "On" => lamp.intensity = intensity /\ lamp.hue = hue

=============================================================================
