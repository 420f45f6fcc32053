--------------------------- MODULE LampLink_proof ---------------------------
(***************************************************************************)
(* Theorems about LampLink: the controller on the radio channel keeps the  *)
(* promises of LC12STask, and the lamp shows the local copy whenever their *)
(* last exchange got through.                                              *)
(***************************************************************************)
EXTENDS LampLink, LC12STask_proof

\* A neighbourhood of one lamp: LampId is the only identification that is heard.
OneLamp == \A i, j \in Ids \ IgnoredIds : i = j

\* The last packet of the lamp that is still unread in q is the one it obeyed.
ShowsLast(q) ==
    \E i \in DOMAIN q :
        /\ q[i].id = LampId
        /\ lamp = Shows(q[i])
        /\ \A j \in DOMAIN q : j > i => q[j].id # LampId

\* MirrorsLamp is not inductive alone: when a packet is read it relies on the
\* lamp having obeyed the last one unread, and a start from NVS on being out of
\* step until the next exchange.
LinkInv ==
    /\ SettingsInv
    /\ LinkTypeOK
    /\ pc = "start" => ~synced
    /\ current => ShowsLast(rx)
    /\ MirrorsLamp

-----------------------------------------------------------------------------
(***************************************************************************)
(* The UART buffer.                                                        *)
(***************************************************************************)

LEMMA RemotePacketsSent ==
    ASSUME NEW p \in RemoteSends
    PROVE  /\ p \in RemotePacket
           /\ p.cmd \in {"On", "Off", "Automatic"}
           /\ Shows(p) \in LampState
  BY DEF RemoteSends, RemotePacket, Shows, LampState

\* Reading a packet leaves a buffer of the packets behind it.
LEMMA ReadPacket ==
    ASSUME LinkTypeOK, rx # <<>>
    PROVE  /\ Head(rx) \in RemoteSends
           /\ Head(rx) = rx[1]
           /\ Tail(rx) \in Seq(RemoteSends)
           /\ Len(Tail(rx)) <= RxLen
           /\ Len(rx) \in Nat /\ Len(rx) >= 1
           /\ DOMAIN rx = 1 .. Len(rx)
           /\ DOMAIN Tail(rx) = 1 .. Len(rx) - 1
           /\ \A i \in 1 .. Len(rx) - 1 : Tail(rx)[i] = rx[i + 1]
<1>1. rx \in Seq(RemoteSends) /\ Len(rx) <= RxLen /\ RxLen \in Nat
  BY LampLinkAssumption DEF LinkTypeOK
<1>2. /\ Len(rx) \in Nat /\ Len(rx) # 0
      /\ DOMAIN rx = 1 .. Len(rx)
  BY <1>1, LenProperties, EmptySeq
<1>3. /\ Head(rx) \in RemoteSends /\ Tail(rx) \in Seq(RemoteSends)
      /\ Len(Tail(rx)) = Len(rx) - 1
      /\ \A i \in 1 .. Len(Tail(rx)) : Tail(rx)[i] = rx[i + 1]
  BY <1>1, HeadTailProperties
<1>4. DOMAIN Tail(rx) = 1 .. Len(Tail(rx))
  BY <1>3, LenProperties
<1>. QED
  BY <1>1, <1>2, <1>3, <1>4

\* While a packet of the lamp is left, the last one stays the last one.
LEMMA TailShows ==
    ASSUME LinkTypeOK, rx # <<>>, ShowsLast(rx), Pending(Tail(rx))
    PROVE  ShowsLast(Tail(rx))
<1>1. PICK i \in DOMAIN rx : /\ rx[i].id = LampId
                             /\ lamp = Shows(rx[i])
                             /\ \A j \in DOMAIN rx : j > i => rx[j].id # LampId
  BY DEF ShowsLast
<1>2. PICK k \in DOMAIN Tail(rx) : Tail(rx)[k].id = LampId
  BY DEF Pending
<1>3. i > k
  BY <1>1, <1>2, ReadPacket
<1>4. /\ i - 1 \in DOMAIN Tail(rx)
      /\ Tail(rx)[i - 1] = rx[i]
  BY <1>1, <1>2, <1>3, ReadPacket
<1>5. ASSUME NEW j \in DOMAIN Tail(rx), j > i - 1
      PROVE  Tail(rx)[j].id # LampId
  BY <1>1, <1>5, ReadPacket
<1>. QED
  BY <1>1, <1>4, <1>5 DEF ShowsLast

\* When the last packet of the lamp is read, it is the one the lamp obeyed.
LEMMA HeadShows ==
    ASSUME LinkTypeOK, rx # <<>>, ShowsLast(rx), ~Pending(Tail(rx))
    PROVE  lamp = Shows(Head(rx))
<1>1. PICK i \in DOMAIN rx : rx[i].id = LampId /\ lamp = Shows(rx[i])
  BY DEF ShowsLast
<1>2. i = 1
  <2>1. SUFFICES ASSUME i # 1 PROVE FALSE
    OBVIOUS
  <2>2. i - 1 \in DOMAIN Tail(rx) /\ Tail(rx)[i - 1] = rx[i]
    BY <1>1, <2>1, ReadPacket
  <2>. QED
    BY <1>1, <2>2 DEF Pending
<1>. QED
  BY <1>1, <1>2, ReadPacket

\* A packet for another receiver does not count as pending.
LEMMA SkipPending ==
    ASSUME LinkTypeOK, rx # <<>>, Head(rx).id # LampId, ~Pending(Tail(rx))
    PROVE  ~Pending(rx)
<1>1. SUFFICES ASSUME NEW i \in DOMAIN rx, rx[i].id = LampId PROVE FALSE
  BY DEF Pending
<1>2. i # 1
  BY <1>1, ReadPacket
<1>3. i - 1 \in DOMAIN Tail(rx) /\ Tail(rx)[i - 1] = rx[i]
  BY <1>2, ReadPacket
<1>. QED
  BY <1>1, <1>3 DEF Pending

LEMMA Appended ==
    ASSUME LinkTypeOK, NEW p \in RemoteSends, Len(rx) < RxLen
    PROVE  LET q == Append(rx, p)
           IN  /\ q \in Seq(RemoteSends)
               /\ Len(q) <= RxLen
               /\ Len(rx) \in Nat /\ Len(q) = Len(rx) + 1
               /\ DOMAIN rx = 1 .. Len(rx) /\ DOMAIN q = 1 .. Len(q)
               /\ \A i \in DOMAIN rx : q[i] = rx[i]
               /\ q[Len(q)] = p
<1>. DEFINE q == Append(rx, p)
<1>1. rx \in Seq(RemoteSends) /\ RxLen \in Nat
  BY LampLinkAssumption DEF LinkTypeOK
<1>2. /\ q \in Seq(RemoteSends) /\ Len(q) = Len(rx) + 1
      /\ \A i \in 1 .. Len(rx) : q[i] = rx[i]
      /\ q[Len(rx) + 1] = p
  BY <1>1, AppendProperties
<1>3. /\ Len(rx) \in Nat /\ DOMAIN rx = 1 .. Len(rx)
      /\ DOMAIN q = 1 .. Len(q)
  BY <1>1, <1>2, LenProperties
<1>. QED
  BY <1>1, <1>2, <1>3

-----------------------------------------------------------------------------
(***************************************************************************)
(* The link implements the task, and every variable keeps its type.        *)
(***************************************************************************)

LEMMA StepOfTask == LinkTypeOK /\ [LinkNext]_lvars => [Next]_vars
<1>. SUFFICES ASSUME LinkTypeOK, [LinkNext]_lvars PROVE Next \/ UNCHANGED vars
  OBVIOUS
<1>1. CASE Receive
  <2>1. Head(rx) \in RemotePacket
    BY <1>1, ReadPacket, RemotePacketsSent DEF Receive
  <2>. QED
    BY <1>1, <2>1 DEF Receive, Next
<1>2. CASE (\E p \in RemoteSends : Remote(p) \/ Stray(p)) \/ Ignore \/ UNCHANGED lvars
  BY <1>2 DEF Remote, Stray, Ignore, lvars
<1>3. CASE Silent \/ Transmit \/ Request \/ Reset
  BY <1>3 DEF Silent, Transmit, Request, Reset, Next
<1>. QED
  BY <1>1, <1>2, <1>3 DEF LinkNext

LEMMA LinkTypeInit == LinkInit => LinkTypeOK
<1>. SUFFICES ASSUME LinkInit PROVE LinkTypeOK
  OBVIOUS
<1>1. lamp \in LampState
  BY LevelFacts DEF LinkInit, LampState
<1>2. rx \in Seq(RemoteSends) /\ Len(rx) <= RxLen
  BY LampLinkAssumption DEF LinkInit
<1>. QED
  BY <1>1, <1>2 DEF LinkInit, LinkTypeOK

LEMMA LinkTypeStep ==
    ASSUME TypeOK', LinkTypeOK, [LinkNext]_lvars PROVE LinkTypeOK'
<1>1. lamp \in LampState /\ rx \in Seq(RemoteSends) /\ Len(rx) <= RxLen
  BY DEF LinkTypeOK
<1>2. ASSUME NEW p \in RemoteSends, Remote(p) PROVE LinkTypeOK'
  <2>1. lamp' \in LampState
    BY <1>1, <1>2, RemotePacketsSent DEF Remote
  <2>2. rx' \in Seq(RemoteSends) /\ Len(rx') <= RxLen
    BY <1>1, <1>2, Appended DEF Remote
  <2>3. current' \in BOOLEAN /\ synced' \in BOOLEAN
    BY <1>2 DEF Remote
  <2>. QED
    BY <2>1, <2>2, <2>3 DEF LinkTypeOK
<1>3. ASSUME NEW p \in RemoteSends, Stray(p) PROVE LinkTypeOK'
  BY <1>3, Appended DEF Stray, LinkTypeOK
<1>4. CASE Receive
  BY <1>4, ReadPacket DEF Receive, LinkTypeOK
<1>5. CASE Ignore
  BY <1>5, ReadPacket DEF Ignore, LinkTypeOK
<1>6. CASE Transmit
  <2>1. out'.tx \in Packet
    BY <1>6 DEF Transmit, TypeOK, Output
  <2>2. Obeys(out'.tx) => Shows(out'.tx) \in LampState
    BY <2>1 DEF Obeys, Shows, LampState, Packet, Commands
  <2>3. lamp' \in LampState /\ synced' \in BOOLEAN
    BY <1>1, <1>6, <2>2 DEF Transmit, Obeys
  <2>. QED
    BY <1>6, <2>3 DEF Transmit, LinkTypeOK
<1>7. CASE Silent \/ Request \/ UNCHANGED lvars
  BY <1>7 DEF Silent, Request, lvars, LinkTypeOK
<1>8. CASE Reset
  <2>1. rx' \in Seq(RemoteSends) /\ Len(rx') <= RxLen
    BY <1>8, LampLinkAssumption DEF Reset
  <2>. QED
    BY <1>8, <2>1 DEF Reset, LinkTypeOK
<1>. QED
  BY <1>2, <1>3, <1>4, <1>5, <1>6, <1>7, <1>8 DEF LinkNext

LEMMA LinkTypes ==
    LinkSpec => [](TypeOK /\ LinkTypeOK) /\ [][Next]_vars
<1>1. LinkInit => TypeOK /\ LinkTypeOK
  BY TypeInit, LinkTypeInit DEF LinkInit
<1>2. TypeOK /\ LinkTypeOK /\ [LinkNext]_lvars => TypeOK' /\ LinkTypeOK'
  BY StepOfTask, TypeStep, LinkTypeStep
<1>3. LinkTypeOK /\ [LinkNext]_lvars => [Next]_vars
  BY StepOfTask
<1>. QED
  BY <1>1, <1>2, <1>3, PTL DEF LinkSpec

\* The buffer holds what the remote control sends and never more than its
\* capacity, and a lamp that obeys a packet of the task is in one of its modes.
THEOREM LinkTypeCorrect == LinkSpec => []LinkTypeOK
  BY LinkTypes, PTL

\* On the channel the task does nothing that LC12STask does not allow, so what
\* is proved of LC12STask holds next to the lamp and its remote control as well.
THEOREM LinkImplementsTask == LinkSpec => Spec
<1>1. LinkInit => Init
  BY DEF LinkInit
<1>. QED
  BY <1>1, LinkTypes, PTL DEF LinkSpec, Spec

-----------------------------------------------------------------------------
(***************************************************************************)
(* The lamp shows the local copy.                                          *)
(***************************************************************************)

\* Whatever the task transmits is the packet under construction.
LEMMA TransmitsMylamp ==
    ASSUME TaskStep, out'.tx # None PROVE out'.tx = mylamp'
<1>1. ASSUME NEW w, NEW l, Emit(w, l) PROVE out'.tx = mylamp'
  BY <1>1 DEF Emit
<1>2. ~StartPaired /\ ~StartUnpaired /\ ~LearnDelayOver /\ ~HandleToggleOff
  BY DEF StartPaired, StartUnpaired, LearnDelayOver, HandleToggleOff, NoOutput
<1>. QED
  BY <1>1, <1>2
  DEF TaskStep, HandleCommand, SaveHue, HandleToggleOn, HandleIncIntensity,
      HandleDecIntensity, StepIntensity, HandleOff, HandleOn, HandleLearn,
      HandleHueIntensity

\* A step of the running task that transmits nothing is one of learn mode, or
\* the first half of switching off.
LEMMA SilentInLearnMode ==
    ASSUME PairingInv, TypeOK', TaskStep, out'.tx = None, pc # "start", pc' = "loop"
    PROVE  learn'
<1>1. mylamp' # None
  BY LC12STaskAssumption DEF TypeOK
<1>2. ASSUME NEW w, NEW l, Emit(w, l) PROVE learn'
  BY <1>1, <1>2 DEF Emit
<1>3. LearnDelayOver => learn'
  BY DEF LearnDelayOver, PairingInv, local
<1>4. ~StartPaired /\ ~StartUnpaired /\ ~HandleToggleOff
  BY DEF StartPaired, StartUnpaired, HandleToggleOff
<1>. QED
  BY <1>2, <1>3, <1>4
  DEF TaskStep, HandleCommand, SaveHue, HandleToggleOn, HandleIncIntensity,
      HandleDecIntensity, StepIntensity, HandleOff, HandleOn, HandleLearn,
      HandleHueIntensity

\* No step of the task leads back to the start.
LEMMA TaskStarted ==
    ASSUME TypeOK, TaskStep PROVE pc' # "start"
  BY DEF TaskStep, StartPaired, StartUnpaired, LearnDelayOver, HandleCommand, SaveHue,
         HandleToggleOn, HandleToggleOff, HandleIncIntensity, HandleDecIntensity,
         StepIntensity, HandleOff, HandleOn, HandleLearn, HandleHueIntensity, Take

\* What LinkInv says of the channel, beyond the invariants of its parts.
ChannelInv ==
    /\ pc = "start" => ~synced
    /\ current => ShowsLast(rx)
    /\ MirrorsLamp

LEMMA ChannelReceive ==
    ASSUME LinkInv, Receive PROVE ChannelInv'
<1>. DEFINE p == Head(rx)
<1>1. /\ pc = "loop" /\ pc' = pc
      /\ hue' = p.hue /\ intensity' = p.intensity
  BY DEF Receive, ReceivePacket, LearnPacket, OwnPacket, ForeignPacket, Accept
<1>2. rx # <<>> /\ rx' = Tail(rx) /\ lamp' = lamp /\ LinkTypeOK
  BY DEF Receive, LinkInv
<1>3. current' => ShowsLast(rx)'
  <2>1. SUFFICES ASSUME current' PROVE ShowsLast(rx)'
    OBVIOUS
  <2>2. ShowsLast(rx) /\ Pending(Tail(rx))
    BY <2>1 DEF Receive, LinkInv
  <2>. QED
    BY <1>2, <2>2, TailShows DEF ShowsLast
<1>4. MirrorsLamp'
  <2>1. SUFFICES ASSUME synced' PROVE lamp'.intensity = intensity' /\ lamp'.hue = hue'
    BY DEF MirrorsLamp, Quiet
  <2>2. ShowsLast(rx) /\ ~Pending(Tail(rx))
    BY <2>1 DEF Receive, LinkInv
  <2>3. lamp' = Shows(p)
    BY <1>2, <2>2, HeadShows
  <2>. QED
    BY <1>1, <2>3 DEF Shows
<1>. QED
  BY <1>1, <1>3, <1>4 DEF ChannelInv

LEMMA ChannelTransmit ==
    ASSUME LinkInv, OnPacketCarriesSettings', Transmit PROVE ChannelInv'
<1>1. pc' # "start" /\ ~current'
  BY TaskStarted DEF Transmit, LinkInv, SettingsInv, PairingInv
<1>2. ASSUME synced', lamp'.mode = "On"
      PROVE  lamp'.intensity = intensity' /\ lamp'.hue = hue'
  <2>1. lamp' = Shows(out'.tx)
    BY <1>2 DEF Transmit
  <2>2. out'.tx = mylamp'
    BY TransmitsMylamp DEF Transmit
  <2>3. mylamp'.cmd = "On"
    BY <1>2, <2>1, <2>2 DEF Shows
  <2>. QED
    BY <2>1, <2>2, <2>3 DEF Shows, OnPacketCarriesSettings
<1>. QED
  BY <1>1, <1>2 DEF ChannelInv, MirrorsLamp, Quiet

LEMMA ChannelSilent ==
    ASSUME LinkInv, TypeOK', Silent PROVE ChannelInv'
<1>1. pc' # "start"
  BY TaskStarted DEF Silent, LinkInv, SettingsInv, PairingInv
<1>2. current' => ShowsLast(rx)'
  BY DEF Silent, LinkInv, ShowsLast
<1>3. synced' /\ pc' = "loop" => learn'
  BY SilentInLearnMode DEF Silent, LinkInv, SettingsInv
<1>. QED
  BY <1>1, <1>2, <1>3 DEF ChannelInv, MirrorsLamp, Quiet

LEMMA ChannelRemote ==
    ASSUME LinkInv, NEW p \in RemoteSends, Remote(p) PROVE ChannelInv'
<1>1. ~synced'
  BY DEF Remote
<1>2. current' => ShowsLast(rx)'
  <2>1. SUFFICES ASSUME current' PROVE ShowsLast(rx)'
    OBVIOUS
  <2>2. rx' = Append(rx, p) /\ lamp' = Shows(p) /\ p.id = LampId
    BY <2>1, RemotePacketsSent DEF Remote, Obeys
  <2>3. /\ Len(rx') \in DOMAIN rx' /\ rx'[Len(rx')] = p
        /\ \A j \in DOMAIN rx' : ~(j > Len(rx'))
    BY <2>2, Appended DEF Remote, LinkInv
  <2>. QED
    BY <2>2, <2>3 DEF ShowsLast
<1>. QED
  BY <1>1, <1>2 DEF ChannelInv, MirrorsLamp, Quiet

LEMMA ChannelStray ==
    ASSUME LinkInv, NEW p \in RemoteSends, Stray(p) PROVE ChannelInv'
<1>1. /\ rx' = Append(rx, p) /\ p.id # LampId
      /\ UNCHANGED <<pc, learn, hue, intensity, lamp, current, synced>>
  BY DEF Stray, vars, local
<1>2. /\ DOMAIN rx \subseteq DOMAIN rx' /\ \A i \in DOMAIN rx : rx'[i] = rx[i]
      /\ \A j \in DOMAIN rx' : j \in DOMAIN rx \/ rx'[j] = p
  BY <1>1, Appended DEF Stray, LinkInv
<1>3. ShowsLast(rx) => ShowsLast(rx)'
  BY <1>1, <1>2 DEF ShowsLast
<1>4. Pending(rx) => Pending(rx)'
  BY <1>2 DEF Pending
<1>. QED
  BY <1>1, <1>3, <1>4 DEF ChannelInv, LinkInv, MirrorsLamp, Quiet

LEMMA ChannelIgnore ==
    ASSUME LinkInv, Ignore PROVE ChannelInv'
<1>1. /\ rx' = Tail(rx) /\ rx # <<>> /\ LinkTypeOK
      /\ UNCHANGED <<pc, learn, hue, intensity, lamp, current, synced>>
  BY DEF Ignore, LinkInv, vars, local
<1>2. Head(rx).id # LampId
  BY LampLinkAssumption DEF Ignore, CanIgnoreMagic
<1>3. ShowsLast(rx) => Pending(Tail(rx))
  BY <1>1, <1>2, SkipPending DEF ShowsLast, Pending
<1>4. ShowsLast(rx) => ShowsLast(rx)'
  BY <1>1, <1>3, TailShows DEF ShowsLast
<1>5. Pending(rx) => Pending(rx)'
  BY <1>1, <1>2, SkipPending
<1>. QED
  BY <1>1, <1>4, <1>5 DEF ChannelInv, LinkInv, MirrorsLamp, Quiet

LEMMA ChannelRest ==
    ASSUME LinkInv, Request \/ Reset \/ UNCHANGED lvars PROVE ChannelInv'
<1>1. CASE Reset
  BY <1>1 DEF Reset, ChannelInv, MirrorsLamp, Quiet
<1>2. CASE Request \/ UNCHANGED lvars
  <2>1. UNCHANGED <<pc, learn, hue, intensity, lamp, rx, current, synced>>
    BY <1>2 DEF Request, PostRequest, Command, Hue, Intensity, Post, lvars, vars, local
  <2>. QED
    BY <2>1 DEF LinkInv, ChannelInv, ShowsLast, MirrorsLamp, Quiet, Pending
<1>. QED
  BY <1>1, <1>2

LEMMA LinkStep ==
    ASSUME OneLamp, LinkInv, [LinkNext]_lvars PROVE LinkInv'
<1>1. Next \/ UNCHANGED vars
  BY StepOfTask DEF LinkInv
<1>2. SettingsInv'
  BY <1>1, PairingStep, SettingsReceive, SettingsCommand, SettingsRest
  DEF OneLamp, LinkInv, SettingsInv, Next, TaskStep
<1>3. TypeOK' /\ LinkTypeOK'
  BY <1>2, LinkTypeStep DEF LinkInv, SettingsInv, PairingInv
<1>4. ChannelInv'
  BY <1>2, <1>3, ChannelReceive, ChannelTransmit, ChannelSilent, ChannelRemote,
     ChannelStray, ChannelIgnore, ChannelRest
  DEF LinkNext, SettingsInv
<1>. QED
  BY <1>2, <1>3, <1>4 DEF LinkInv, ChannelInv

\* With one lamp in the neighbourhood: whenever the last exchange between the
\* controller and the channel got through, the lamp shows the local copy, for
\* any length of the UART buffer and any number of lost packets and resets.
THEOREM LampMirrored == ASSUME OneLamp PROVE LinkSpec => []MirrorsLamp
<1>1. LinkInit => LinkInv
  BY PairingInit, LinkTypeInit
  DEF LinkInit, LinkInv, SettingsInv, Init, BlankPacket, OnPacketCarriesSettings,
      MirrorsLamp, Quiet
<1>2. LinkInv /\ [LinkNext]_lvars => LinkInv'
  BY LinkStep
<1>3. LinkInv => MirrorsLamp
  BY DEF LinkInv
<1>. QED
  BY <1>1, <1>2, <1>3, PTL DEF LinkSpec

=============================================================================
