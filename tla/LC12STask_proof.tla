-------------------------- MODULE LC12STask_proof --------------------------
(***************************************************************************)
(* Theorems about LC12STask, for any set of identifications, any number of *)
(* levels and any queue length.                                            *)
(***************************************************************************)
EXTENDS LC12STask, SequenceTheorems, TLAPS

-----------------------------------------------------------------------------
(***************************************************************************)
(* The operators on packets stay within the packets.                       *)
(***************************************************************************)

LEMMA IdOfPacket == \A p \in Packet : p.id \in Ids \cup {ZeroId}
  BY DEF Packet

LEMMA SetIdentificationPacket ==
    ASSUME NEW p \in Packet, NEW id \in Ids \cup {ZeroId}
    PROVE  SetIdentification(p, id) \in Packet /\ SetIdentification(p, id).id = id
  BY DEF SetIdentification, Packet

LEMMA SetLevelsPacket ==
    ASSUME NEW p \in Packet, NEW i \in Bytes, NEW h \in Bytes
    PROVE  SetLevels(p, i, h) \in Packet /\ SetLevels(p, i, h).id = p.id
  BY DEF SetLevels, Packet

LEMMA SetCommandPacket ==
    ASSUME NEW p \in Packet, NEW c \in Commands
    PROVE  SetCommand(p, c) \in Packet /\ SetCommand(p, c).id = p.id
<1>1. OffLevel \in Bytes
  BY LampPacketAssumption DEF Bytes
<1>2. [p EXCEPT !.cmd = c] \in Packet /\ [p EXCEPT !.cmd = c].id = p.id
  BY DEF Packet
<1>. QED
  BY <1>1, <1>2, SetLevelsPacket DEF SetCommand

\* Posting keeps the queue within its capacity.
LEMMA PostQueue ==
    ASSUME NEW q \in Seq(LCSRequest), Len(q) <= QueueLen, NEW m \in LCSRequest
    PROVE  /\ SendToBack(q, m, QueueLen) \in Seq(LCSRequest)
           /\ Len(SendToBack(q, m, QueueLen)) <= QueueLen
  BY LC12STaskAssumption DEF SendToBack

\* Taking a command leaves a queue that is within its capacity.
LEMMA TakeQueue ==
    ASSUME NEW c, TypeOK, Take(c)
    PROVE  /\ pc = "loop"
           /\ Head(queue).command = c
           /\ Head(queue) \in LCSRequest
           /\ queue' \in Seq(LCSRequest)
           /\ Len(queue') <= QueueLen
<1>1. /\ queue \in Seq(LCSRequest) /\ Len(queue) <= QueueLen /\ queue # <<>>
      /\ queue' = Tail(queue)
  BY DEF Take, TypeOK
<1>2. /\ Head(queue) \in LCSRequest /\ Tail(queue) \in Seq(LCSRequest)
      /\ Len(Tail(queue)) = Len(queue) - 1 /\ Len(queue) \in Nat
  BY <1>1, HeadTailProperties, LenProperties
<1>. QED
  BY <1>1, <1>2, LC12STaskAssumption DEF Take

\* mylamp switched on is a packet for the same lamp.
LEMMA SwitchedOnTyped ==
    ASSUME TypeOK
    PROVE  SwitchedOn \in Packet /\ SwitchedOn.id = mylamp.id
<1>1. "On" \in Commands
  BY DEF Commands
<1>2. mylamp \in Packet /\ intensity \in Bytes /\ hue \in Bytes
  BY DEF TypeOK
<1>3. SetLevels(mylamp, intensity, hue) \in Packet
      /\ SetLevels(mylamp, intensity, hue).id = mylamp.id
  BY <1>2, SetLevelsPacket
<1>. QED
  BY <1>1, <1>3, SetCommandPacket DEF SwitchedOn

\* The output of a step that handled a command.
LEMMA EmitTyped ==
    ASSUME NEW w \in LCSInfo \cup {None}, NEW l \in {"LEARN", "CLIENT", None},
           mylamp' \in Packet, Emit(w, l)
    PROVE  out' \in Output
  BY DEF Emit, Output

LEMMA WebInfoTyped ==
    ASSUME NEW id \in Ids \cup {NoId}, NEW h \in Bytes, NEW i \in Bytes,
           NEW cmd \in Commands \cup {"Startup"}
    PROVE  WebInfo(id, h, i, cmd) \in LCSInfo
  BY DEF WebInfo, LCSInfo

LEMMA WriteIdTyped ==
    ASSUME TypeOK, NEW id \in Ids \cup {NoId}, WriteId(id)
    PROVE  /\ kv' \in [lampid : Ids \cup {NoId}, intensity : Bytes, hue : Bytes]
           /\ idFailed' \in BOOLEAN
           /\ kv'.lampid = IF idFailed' THEN kv.lampid ELSE id
           /\ kv'.intensity = kv.intensity /\ kv'.hue = kv.hue
<1>1. PICK ok \in BOOLEAN :
        kv' = (IF ok THEN [kv EXCEPT !.lampid = id] ELSE kv) /\ idFailed' = ~ok
  BY DEF WriteId
<1>2. CASE ok
  BY <1>1, <1>2 DEF TypeOK
<1>3. CASE ~ok
  BY <1>1, <1>3 DEF TypeOK
<1>. QED
  BY <1>1, <1>2, <1>3

LEMMA NoOutputTyped == NoOutput \in Output
  BY DEF NoOutput, Output

-----------------------------------------------------------------------------
(***************************************************************************)
(* Type correctness.                                                       *)
(***************************************************************************)

LEMMA BlankTyped == BlankPacket \in Packet
  BY LampPacketAssumption DEF BlankPacket, Packet, Bytes, Commands

LEMMA TypeInit == Init => TypeOK
<1>. SUFFICES ASSUME Init PROVE TypeOK
  OBVIOUS
<1>1. 0 \in Bytes
  BY LampPacketAssumption DEF Bytes
<1>2. kv \in [lampid : Ids \cup {NoId}, intensity : Bytes, hue : Bytes]
  BY <1>1 DEF Init
<1>3. queue \in Seq(LCSRequest) /\ Len(queue) <= QueueLen
  BY LC12STaskAssumption DEF Init
<1>. QED
  BY <1>1, <1>2, <1>3, BlankTyped, NoOutputTyped DEF Init, TypeOK

LEMMA TypeStart == TypeOK /\ (StartPaired \/ StartUnpaired \/ LearnDelayOver) => TypeOK'
<1>. SUFFICES ASSUME TypeOK, StartPaired \/ StartUnpaired \/ LearnDelayOver
              PROVE  TypeOK'
  OBVIOUS
<1>1. CASE StartPaired
  <2>1. kv.lampid \in Ids /\ intensity' \in Bytes /\ hue' \in Bytes
    BY <1>1, LampPacketAssumption DEF StartPaired, TypeOK, Bytes
  <2>2. mylamp' \in Packet
    BY <1>1, <2>1, SetIdentificationPacket, SetLevelsPacket DEF StartPaired, TypeOK
  <2>3. out' \in Output
    BY <1>1, <2>1, WebInfoTyped DEF StartPaired, NoOutput, Output
  <2>. QED
    BY <1>1, <2>1, <2>2, <2>3 DEF StartPaired, TypeOK
<1>2. CASE StartUnpaired
  BY <1>2, NoOutputTyped DEF StartUnpaired, TypeOK
<1>3. CASE LearnDelayOver
  <2>1. out' \in Output
    BY <1>3 DEF LearnDelayOver, NoOutput, Output
  <2>. QED
    BY <1>3, <2>1 DEF LearnDelayOver, local, TypeOK
<1>. QED
  BY <1>1, <1>2, <1>3

LEMMA TypeReceive ==
    ASSUME TypeOK, NEW p \in RemotePacket, ReceivePacket(p)
    PROVE  TypeOK'
<1>1. /\ p.id \in Ids /\ p.cmd \in Commands
      /\ p.intensity \in Bytes /\ p.hue \in Bytes
  BY DEF RemotePacket
<1>2. /\ pc' \in {"start", "delay", "loop", "saveHue"}
      /\ strId' \in Ids \cup {NoId} /\ hue' \in Bytes /\ intensity' \in Bytes
      /\ queue' \in Seq(LCSRequest) /\ Len(queue') <= QueueLen
  BY <1>1 DEF ReceivePacket, LearnPacket, OwnPacket, ForeignPacket, Accept, TypeOK
<1>3. ASSUME SyncOwnLamp(p)
      PROVE  mylamp' \in Packet /\ lampIsOn' \in BOOLEAN
  <2>1. SetIdentification(mylamp, p.id) \in Packet
    BY <1>1, SetIdentificationPacket DEF TypeOK
  <2>2. mylamp' \in Packet
    BY <1>1, <1>3, <2>1, SetLevelsPacket DEF SyncOwnLamp
  <2>3. lampIsOn' \in BOOLEAN
    BY <1>3 DEF SyncOwnLamp, TypeOK
  <2>. QED
    BY <2>2, <2>3
<1>4. WebInfo(p.id, p.hue, p.intensity, p.cmd) \in LCSInfo
  BY <1>1, WebInfoTyped
<1>5. CASE LearnPacket(p)
  <2>1. /\ learn' \in BOOLEAN /\ idFailed' \in BOOLEAN
        /\ kv' \in [lampid : Ids \cup {NoId}, intensity : Bytes, hue : Bytes]
    BY <1>1, <1>5, WriteIdTyped DEF LearnPacket
  <2>2. out' \in Output
    BY <1>4, <1>5 DEF LearnPacket, NoOutput, Output
  <2>. QED
    BY <1>2, <1>3, <1>5, <2>1, <2>2 DEF LearnPacket, TypeOK
<1>6. CASE OwnPacket(p)
  <2>1. out' \in Output
    BY <1>4, <1>6 DEF OwnPacket, NoOutput, Output
  <2>. QED
    BY <1>2, <1>3, <1>6, <2>1 DEF OwnPacket, TypeOK
<1>7. CASE ForeignPacket(p)
  BY <1>2, <1>7, NoOutputTyped DEF ForeignPacket, TypeOK
<1>. QED
  BY <1>5, <1>6, <1>7 DEF ReceivePacket

LEMMA TypeCommand == TypeOK /\ (HandleCommand \/ SaveHue) => TypeOK'
<1>. SUFFICES ASSUME TypeOK, HandleCommand \/ SaveHue
              PROVE  TypeOK'
  OBVIOUS
<1>1. "On" \in Commands /\ "Off" \in Commands
  BY DEF Commands
<1>2. SetCommand(mylamp, "Off") \in Packet
  BY <1>1, SetCommandPacket DEF TypeOK
<1>3. CASE HandleToggleOn
  <2>1. out' \in Output
    BY <1>1, <1>3, WebInfoTyped, EmitTyped, SwitchedOnTyped DEF HandleToggleOn, TypeOK
  <2>. QED
    BY <1>3, <2>1, TakeQueue, SwitchedOnTyped DEF HandleToggleOn, TypeOK
<1>4. CASE HandleToggleOff
  <2>1. kv' \in [lampid : Ids \cup {NoId}, intensity : Bytes, hue : Bytes]
    BY <1>4 DEF HandleToggleOff, TypeOK
  <2>. QED
    BY <1>2, <1>4, <2>1, TakeQueue, NoOutputTyped DEF HandleToggleOff, TypeOK
<1>5. CASE SaveHue
  <2>1. kv' \in [lampid : Ids \cup {NoId}, intensity : Bytes, hue : Bytes]
    BY <1>5 DEF SaveHue, TypeOK
  <2>2. out' \in Output
    BY <1>5, EmitTyped DEF SaveHue, local, TypeOK
  <2>. QED
    BY <1>5, <2>1, <2>2 DEF SaveHue, local, TypeOK
<1>6. ASSUME NEW i \in Bytes, NEW c, Take(c), StepIntensity(i)
      PROVE  TypeOK'
  <2>1. mylamp' \in Packet
    BY <1>6, SwitchedOnTyped DEF StepIntensity, TypeOK, Packet
  <2>2. out' \in Output
    BY <1>1, <1>6, <2>1, WebInfoTyped, EmitTyped DEF StepIntensity, TypeOK
  <2>. QED
    BY <1>6, <2>1, <2>2, TakeQueue DEF StepIntensity, TypeOK
<1>7. CASE HandleIncIntensity
  <2>1. (IF intensity < MaxLevel THEN intensity + 1 ELSE intensity) \in Bytes
    BY LampPacketAssumption DEF TypeOK, Bytes
  <2>. QED
    BY <1>6, <1>7, <2>1 DEF HandleIncIntensity
<1>8. CASE HandleDecIntensity
  <2>1. (IF intensity > 0 THEN intensity - 1 ELSE intensity) \in Bytes
    BY LampPacketAssumption DEF TypeOK, Bytes
  <2>. QED
    BY <1>6, <1>8, <2>1 DEF HandleDecIntensity
<1>9. CASE HandleOff
  <2>1. out' \in Output
    BY <1>2, <1>9, EmitTyped DEF HandleOff
  <2>. QED
    BY <1>2, <1>9, <2>1, TakeQueue DEF HandleOff, TypeOK
<1>10. CASE HandleOn
  <2>1. out' \in Output
    BY <1>10, SwitchedOnTyped, EmitTyped DEF HandleOn
  <2>. QED
    BY <1>10, <2>1, TakeQueue, SwitchedOnTyped DEF HandleOn, TypeOK
<1>11. CASE HandleLearn
  <2>1. out' \in Output
    BY <1>11, EmitTyped DEF HandleLearn, TypeOK
  <2>2. /\ kv' \in [lampid : Ids \cup {NoId}, intensity : Bytes, hue : Bytes]
        /\ idFailed' \in BOOLEAN
    BY <1>11, WriteIdTyped DEF HandleLearn
  <2>. QED
    BY <1>11, <2>1, <2>2, TakeQueue DEF HandleLearn, TypeOK
<1>12. CASE HandleHueIntensity
  <2>. DEFINE req == Head(queue)
              set == [mylamp EXCEPT
                        !.hue       = IF req.hue # Keep THEN req.hue ELSE @,
                        !.intensity = IF req.intensity # Keep THEN req.intensity ELSE @]
  <2>1. req.hue \in SliderValues /\ req.intensity \in SliderValues
    BY <1>12, TakeQueue DEF HandleHueIntensity, LCSRequest, PlainCommands
  <2>2. set \in Packet
    BY <2>1 DEF SliderValues, TypeOK, Packet
  <2>3. hue' \in Bytes /\ intensity' \in Bytes
    BY <1>12, <2>1 DEF HandleHueIntensity, SliderValues, TypeOK
  <2>4. mylamp' \in Packet
    <3>1. SetLevels(SetCommand(set, "On"), intensity', hue') \in Packet
      BY <1>1, <2>2, <2>3, SetCommandPacket, SetLevelsPacket
    <3>2. mylamp' = IF mylamp.cmd = "On" THEN set
                    ELSE SetLevels(SetCommand(set, "On"), intensity', hue')
      BY <1>12 DEF HandleHueIntensity
    <3>. QED
      BY <2>2, <3>1, <3>2
  <2>5. out' \in Output
    BY <1>12, <2>4, EmitTyped DEF HandleHueIntensity
  <2>6. lampIsOn' \in BOOLEAN
    BY <1>12 DEF HandleHueIntensity
  <2>. HIDE DEF req, set
  <2>. QED
    BY <1>12, <2>3, <2>4, <2>5, <2>6, TakeQueue DEF HandleHueIntensity, TypeOK
<1>. QED
  BY <1>3, <1>4, <1>5, <1>7, <1>8, <1>9, <1>10, <1>11, <1>12 DEF HandleCommand

LEMMA TypePost == TypeOK /\ PostRequest => TypeOK'
<1>. SUFFICES ASSUME TypeOK, PostRequest PROVE TypeOK'
  OBVIOUS
<1>1. ASSUME NEW m \in LCSRequest, Post(m.command, m.hue, m.intensity)
      PROVE  TypeOK'
  <2>1. m = [command |-> m.command, hue |-> m.hue, intensity |-> m.intensity]
    BY <1>1 DEF LCSRequest
  <2>2. queue' \in Seq(LCSRequest) /\ Len(queue') <= QueueLen
    BY <1>1, <2>1, PostQueue DEF Post, TypeOK
  <2>. QED
    BY <1>1, <2>2, NoOutputTyped DEF Post, local, TypeOK
<1>2. ASSUME NEW c \in PlainCommands, Command(c) PROVE TypeOK'
  <2>. DEFINE m == [command |-> c, hue |-> 0, intensity |-> 0]
  <2>1. m \in LCSRequest
    BY DEF LCSRequest
  <2>. QED
    BY <1>1, <1>2, <2>1 DEF Command
<1>3. Keep \in SliderValues
  BY LampPacketAssumption DEF SliderValues, Keep, Bytes
<1>4. ASSUME NEW v \in SliderValues, Hue(v) PROVE TypeOK'
  <2>. DEFINE m == [command |-> "hueintensity", hue |-> v, intensity |-> Keep]
  <2>1. m \in LCSRequest
    BY <1>3 DEF LCSRequest
  <2>. QED
    BY <1>1, <1>4, <2>1 DEF Hue
<1>5. ASSUME NEW v \in SliderValues, Intensity(v) PROVE TypeOK'
  <2>. DEFINE m == [command |-> "hueintensity", hue |-> Keep, intensity |-> v]
  <2>1. m \in LCSRequest
    BY <1>3 DEF LCSRequest
  <2>. QED
    BY <1>1, <1>5, <2>1 DEF Intensity
<1>. QED
  BY <1>2, <1>4, <1>5 DEF PostRequest

LEMMA TypeCrash == TypeOK /\ Crash => TypeOK'
<1>. SUFFICES ASSUME TypeOK, Crash PROVE TypeOK'
  OBVIOUS
<1>1. 0 \in Bytes
  BY LampPacketAssumption DEF Bytes
<1>2. queue' \in Seq(LCSRequest) /\ Len(queue') <= QueueLen
  BY LC12STaskAssumption DEF Crash
<1>. QED
  BY <1>1, <1>2, BlankTyped, NoOutputTyped DEF Crash, TypeOK

LEMMA TypeStep == TypeOK /\ [Next]_vars => TypeOK'
<1>1. TypeOK /\ UNCHANGED vars => TypeOK'
  BY DEF vars, local, TypeOK
<1>. QED
  BY <1>1, TypeStart, TypeReceive, TypeCommand, TypePost, TypeCrash DEF Next, TaskStep

\* Every variable keeps its type: levels stay within 0 .. 0x17 under the
\* buttons' increments and decrements, the queue within its capacity.
THEOREM TypeCorrect == Spec => []TypeOK
  BY TypeInit, TypeStep, PTL DEF Spec

-----------------------------------------------------------------------------
(***************************************************************************)
(* Pairing.  PairingStored is not inductive alone: a start from NVS relies *)
(* on learn mode being off before start-up and on during the delay, and the*)
(* addressee of a packet on the stored ID never having been an ignored one *)
(* and on the learned one being kept when NVS does not hold it.            *)
(***************************************************************************)

PairingInv ==
    /\ TypeOK
    /\ PairingStored
    /\ TxToStoredLamp
    /\ pc = "start" => ~learn /\ ~idFailed
    /\ pc = "delay" => learn
    /\ pc \in {"loop", "saveHue"} /\ ~learn => mylamp.id \in Ids \ IgnoredIds
    /\ kv.lampid \notin IgnoredIds

\* A step that sends nothing satisfies TxToStoredLamp.
LEMMA SilentStep ==
    ASSUME out'.tx = None PROVE TxToStoredLamp'
  BY DEF TxToStoredLamp

\* A handler that leaves the pairing alone keeps the invariant: what it sends
\* is addressed like the packet under construction before it.
LEMMA PairingKept ==
    ASSUME PairingInv, TypeOK', NEW w, NEW l, Emit(w, l),
           pc \in {"loop", "saveHue"}, pc' = "loop",
           mylamp'.id = mylamp.id, learn' = learn, kv'.lampid = kv.lampid,
           idFailed' = idFailed
    PROVE  PairingInv'
<1>1. PairingStored'
  BY DEF PairingInv, PairingStored
<1>2. TxToStoredLamp'
  BY DEF PairingInv, PairingStored, TxToStoredLamp, Emit
<1>. QED
  BY <1>1, <1>2 DEF PairingInv

LEMMA PairingInit == Init => PairingInv
  BY TypeInit, LampPacketAssumption
  DEF Init, PairingInv, PairingStored, TxToStoredLamp, NoOutput

LEMMA PairingStart ==
    PairingInv /\ (StartPaired \/ StartUnpaired \/ LearnDelayOver) => PairingInv'
<1>. SUFFICES ASSUME PairingInv, StartPaired \/ StartUnpaired \/ LearnDelayOver
              PROVE  PairingInv'
  OBVIOUS
<1>1. TypeOK'
  BY TypeStart DEF PairingInv
<1>2. TxToStoredLamp'
  BY SilentStep DEF StartPaired, StartUnpaired, LearnDelayOver, NoOutput
<1>3. CASE StartPaired
  <2>1. mylamp'.id = kv.lampid
    <3>1. kv.lampid \in Ids /\ intensity' \in Bytes /\ hue' \in Bytes
      BY <1>1, <1>3 DEF StartPaired, PairingInv, TypeOK
    <3>2. /\ SetIdentification(mylamp, kv.lampid) \in Packet
          /\ SetIdentification(mylamp, kv.lampid).id = kv.lampid
      BY <3>1, SetIdentificationPacket DEF PairingInv, TypeOK
    <3>. QED
      BY <1>3, <3>1, <3>2, SetLevelsPacket DEF StartPaired
  <2>2. kv.lampid \in Ids \ IgnoredIds
    BY <1>3 DEF StartPaired, PairingInv, TypeOK
  <2>. QED
    BY <1>1, <1>2, <1>3, <2>1, <2>2 DEF StartPaired, PairingInv, PairingStored
<1>4. CASE StartUnpaired
  BY <1>1, <1>2, <1>4 DEF StartUnpaired, PairingInv, PairingStored
<1>5. CASE LearnDelayOver
  BY <1>1, <1>2, <1>5 DEF LearnDelayOver, local, PairingInv, PairingStored
<1>. QED
  BY <1>3, <1>4, <1>5

LEMMA PairingReceive ==
    ASSUME PairingInv, NEW p \in RemotePacket, ReceivePacket(p)
    PROVE  PairingInv'
<1>1. TypeOK'
  BY TypeReceive DEF PairingInv
<1>2. TxToStoredLamp'
  <2>1. out'.tx = None
    <3>1. LearnPacket(p) => out'.tx = None
      BY DEF LearnPacket, NoOutput
    <3>2. OwnPacket(p) => out'.tx = None
      BY DEF OwnPacket, NoOutput
    <3>3. ForeignPacket(p) => out'.tx = None
      BY DEF ForeignPacket, NoOutput
    <3>. QED
      BY <3>1, <3>2, <3>3 DEF ReceivePacket
  <2>. QED
    BY <2>1, SilentStep
<1>3. pc = "loop" /\ pc' = "loop" /\ ~CanIgnoreMagic(p) /\ p.id \in Ids
  BY DEF ReceivePacket, LearnPacket, OwnPacket, ForeignPacket, Accept, RemotePacket
<1>4. ASSUME SyncOwnLamp(p) PROVE mylamp'.id = p.id
  <2>1. SetIdentification(mylamp, p.id) \in Packet
        /\ SetIdentification(mylamp, p.id).id = p.id
        /\ p.intensity \in Bytes /\ p.hue \in Bytes
    BY SetIdentificationPacket DEF PairingInv, TypeOK, RemotePacket
  <2>. QED
    BY <1>4, <2>1, SetLevelsPacket DEF SyncOwnLamp
<1>5. CASE LearnPacket(p)
  <2>1. kv'.lampid = IF idFailed' THEN kv.lampid ELSE p.id
    BY <1>3, <1>5, WriteIdTyped DEF LearnPacket, PairingInv
  <2>. QED
    BY <1>1, <1>2, <1>3, <1>4, <1>5, <2>1, LampPacketAssumption
    DEF LearnPacket, PairingInv, PairingStored, CanIgnoreMagic
<1>6. CASE OwnPacket(p)
  BY <1>1, <1>2, <1>3, <1>4, <1>6 DEF OwnPacket, PairingInv, PairingStored, CanIgnoreMagic
<1>7. CASE ForeignPacket(p)
  BY <1>1, <1>2, <1>3, <1>7 DEF ForeignPacket, PairingInv, PairingStored
<1>. QED
  BY <1>5, <1>6, <1>7 DEF ReceivePacket

\* Only packets change the addressee of the packet under construction.
LEMMA AddresseeKept ==
    ASSUME TypeOK, HandleCommand \/ SaveHue PROVE mylamp'.id = mylamp.id
<1>1. TypeOK' /\ mylamp \in Packet /\ "Off" \in Commands /\ "On" \in Commands
  BY TypeCommand DEF TypeOK, Commands
<1>2. SetCommand(mylamp, "Off").id = mylamp.id /\ SwitchedOn.id = mylamp.id
  BY <1>1, SetCommandPacket, SwitchedOnTyped
<1>3. CASE HandleToggleOn \/ HandleToggleOff \/ HandleOff \/ HandleOn
  BY <1>2, <1>3 DEF HandleToggleOn, HandleToggleOff, HandleOff, HandleOn
<1>4. CASE HandleLearn \/ SaveHue
  BY <1>4 DEF HandleLearn, SaveHue, local
<1>5. ASSUME NEW i, StepIntensity(i) PROVE mylamp'.id = mylamp.id
  BY <1>1, <1>2, <1>5, SwitchedOnTyped DEF StepIntensity, Packet
<1>6. CASE HandleIncIntensity \/ HandleDecIntensity
  BY <1>5, <1>6 DEF HandleIncIntensity, HandleDecIntensity
<1>7. CASE HandleHueIntensity
  <2>. DEFINE req == Head(queue)
              set == [mylamp EXCEPT
                        !.hue       = IF req.hue # Keep THEN req.hue ELSE @,
                        !.intensity = IF req.intensity # Keep THEN req.intensity ELSE @]
  <2>1. set.id = mylamp.id
    BY <1>1 DEF Packet
  <2>2. set \in Packet /\ hue' \in Bytes /\ intensity' \in Bytes
    <3>1. Head(queue) \in LCSRequest
      BY <1>7, TakeQueue DEF HandleHueIntensity
    <3>2. req.hue \in SliderValues /\ req.intensity \in SliderValues
      BY <1>7, <3>1 DEF HandleHueIntensity, Take, LCSRequest, PlainCommands
    <3>. QED
      BY <1>1, <3>2 DEF SliderValues, TypeOK, Packet
  <2>. HIDE DEF set
  <2>3. SetLevels(SetCommand(set, "On"), intensity', hue').id = mylamp.id
    BY <1>1, <2>1, <2>2, SetCommandPacket, SetLevelsPacket
  <2>. USE DEF set
  <2>4. mylamp' = IF mylamp.cmd = "On" THEN set
                  ELSE SetLevels(SetCommand(set, "On"), intensity', hue')
    BY <1>7 DEF HandleHueIntensity
  <2>. QED
    BY <2>1, <2>3, <2>4
<1>. QED
  BY <1>3, <1>4, <1>6, <1>7 DEF HandleCommand

LEMMA PairingCommand == PairingInv /\ (HandleCommand \/ SaveHue) => PairingInv'
<1>. SUFFICES ASSUME PairingInv, HandleCommand \/ SaveHue
              PROVE  PairingInv'
  OBVIOUS
<1>1. TypeOK' /\ mylamp'.id = mylamp.id
  BY TypeCommand, AddresseeKept DEF PairingInv
<1>2. CASE HandleToggleOn \/ HandleOff \/ HandleOn \/ HandleHueIntensity
  BY <1>1, <1>2, PairingKept
  DEF HandleToggleOn, HandleOff, HandleOn, HandleHueIntensity, Take
<1>3. CASE HandleIncIntensity \/ HandleDecIntensity
  BY <1>1, <1>3, PairingKept DEF HandleIncIntensity, HandleDecIntensity, StepIntensity, Take
<1>4. CASE HandleToggleOff
  <2>1. kv'.lampid = kv.lampid
    BY <1>4 DEF HandleToggleOff, PairingInv, TypeOK
  <2>2. TxToStoredLamp'
    BY <1>4, SilentStep DEF HandleToggleOff, NoOutput
  <2>. QED
    BY <1>1, <1>4, <2>1, <2>2 DEF HandleToggleOff, Take, PairingInv, PairingStored
<1>5. CASE SaveHue
  <2>1. kv'.lampid = kv.lampid
    BY <1>5 DEF SaveHue, PairingInv, TypeOK
  <2>. QED
    BY <1>1, <1>5, <2>1, PairingKept DEF SaveHue, local
<1>6. CASE HandleLearn
  <2>1. kv'.lampid = IF idFailed' THEN kv.lampid ELSE NoId
    BY <1>6, WriteIdTyped DEF HandleLearn, PairingInv
  <2>2. TxToStoredLamp'
    BY <1>6, SilentStep DEF HandleLearn, Emit
  <2>. QED
    BY <1>1, <1>6, <2>1, <2>2, LampPacketAssumption
    DEF HandleLearn, Take, PairingInv, PairingStored
<1>. QED
  BY <1>2, <1>3, <1>4, <1>5, <1>6 DEF HandleCommand

LEMMA PairingStep == PairingInv /\ [Next]_vars => PairingInv'
<1>1. PairingInv /\ PostRequest => PairingInv'
  <2>1. PostRequest => UNCHANGED <<pc, local, kv, idFailed>> /\ out' = NoOutput
    BY DEF PostRequest, Command, Hue, Intensity, Post
  <2>. QED
    BY <2>1, TypePost, SilentStep DEF PairingInv, PairingStored, local, NoOutput
<1>2. PairingInv /\ Crash => PairingInv'
  BY TypeCrash, SilentStep DEF PairingInv, PairingStored, Crash, NoOutput
<1>3. PairingInv /\ UNCHANGED vars => PairingInv'
  BY TypeStep DEF PairingInv, PairingStored, TxToStoredLamp, vars, local
<1>. QED
  BY <1>1, <1>2, <1>3, PairingStart, PairingReceive, PairingCommand
  DEF Next, TaskStep

\* Unless an access to it failed, the stored ID is absent exactly in learn mode,
\* and otherwise the one the packet under construction is addressed to: for any
\* order of learn commands, packets and resets, and any failures of NVS.
THEOREM PairedAsStored == Spec => []PairingStored
<1>1. PairingInv => PairingStored
  BY DEF PairingInv
<1>. QED
  BY <1>1, PairingInit, PairingStep, PTL DEF Spec

\* Every packet the controller sends is addressed to a lamp it has learned, and
\* to the one in NVS unless NVS has failed.
THEOREM TransmitsToLearnedLamp == Spec => []TxToStoredLamp
<1>1. PairingInv => TxToStoredLamp
  BY DEF PairingInv
<1>. QED
  BY <1>1, PairingInit, PairingStep, PTL DEF Spec

\* The lamp is replaced only on request, even when accesses to NVS fail: no packet
\* outside learn mode, no command but learn and no restart changes the stored or the
\* addressed identification.
THEOREM RepairsOnlyOnRequest == Spec => NoSilentRepairing
<1>. DEFINE Legal ==
       /\ learn' /\ ~learn =>
            \/ pc = "start" /\ (kv.lampid = NoId \/ idFailed')
            \/ Head(queue).command = "learn"
       /\ mylamp'.id # mylamp.id => learn \/ "start" \in {pc, pc'}
       /\ kv'.lampid # kv.lampid =>
            \/ kv'.lampid = NoId /\ Head(queue).command = "learn"
            \/ learn /\ ~learn' /\ (kv.lampid = NoId \/ idFailed)
<1>1. ASSUME PairingInv, [Next]_vars PROVE [Legal]_vars
  <2>1. ASSUME NEW p \in RemotePacket, ReceivePacket(p) PROVE Legal
    <3>1. CASE LearnPacket(p)
      BY <1>1, <3>1 DEF LearnPacket, Accept, PairingInv, PairingStored
    <3>2. CASE OwnPacket(p)
      <4>1. /\ SetIdentification(mylamp, p.id) \in Packet
            /\ SetIdentification(mylamp, p.id).id = p.id
            /\ p.intensity \in Bytes /\ p.hue \in Bytes
        BY <1>1, SetIdentificationPacket DEF PairingInv, TypeOK, RemotePacket
      <4>2. mylamp'.id = p.id
        BY <3>2, <4>1, SetLevelsPacket DEF OwnPacket, SyncOwnLamp
      <4>. QED
        BY <3>2, <4>2 DEF OwnPacket
    <3>3. CASE ForeignPacket(p)
      BY <3>3 DEF ForeignPacket
    <3>. QED
      BY <2>1, <3>1, <3>2, <3>3 DEF ReceivePacket
  <2>2. CASE HandleCommand \/ SaveHue
    <3>1. mylamp'.id = mylamp.id
      BY <1>1, <2>2, AddresseeKept DEF PairingInv
    <3>2. CASE HandleLearn
      <4>1. kv'.lampid \in {kv.lampid, NoId}
        BY <1>1, <3>2, WriteIdTyped DEF HandleLearn, PairingInv
      <4>. QED
        BY <3>1, <3>2, <4>1 DEF HandleLearn, Take
    <3>3. CASE HandleToggleOff \/ SaveHue
      BY <1>1, <3>1, <3>3 DEF HandleToggleOff, SaveHue, local, PairingInv, TypeOK
    <3>4. CASE UNCHANGED <<kv, learn>>
      BY <3>1, <3>4
    <3>. QED
      BY <2>2, <3>2, <3>3, <3>4
      DEF HandleCommand, HandleToggleOn, HandleIncIntensity, HandleDecIntensity,
          HandleOff, HandleOn, HandleHueIntensity, StepIntensity
  <2>3. CASE StartPaired \/ StartUnpaired \/ LearnDelayOver \/ PostRequest \/ Crash
             \/ UNCHANGED vars
    BY <2>3
    DEF StartPaired, StartUnpaired, LearnDelayOver, PostRequest, Command, Hue,
        Intensity, Post, Crash, local, vars
  <2>. QED
    BY <1>1, <2>1, <2>2, <2>3 DEF Next, TaskStep
<1>. QED
  BY <1>1, PairingInit, PairingStep, PTL DEF Spec, NoSilentRepairing

-----------------------------------------------------------------------------
(***************************************************************************)
(* With one lamp in the neighbourhood no packet is foreign: the settings   *)
(* of an ON packet and the local copy change together.                     *)
(***************************************************************************)

SettingsInv == PairingInv /\ OnPacketCarriesSettings

\* The fields of a packet that a setter changes.
LEMMA SettersOfLevels ==
    ASSUME NEW p \in Packet, NEW i \in Bytes, NEW h \in Bytes
    PROVE  /\ SetLevels(p, i, h).intensity = i
           /\ SetLevels(p, i, h).hue = h
           /\ SetCommand(p, "On").intensity = p.intensity
           /\ SetCommand(p, "On").hue = p.hue
           /\ SetCommand(p, "Off").cmd = "Off"
  BY DEF SetLevels, SetCommand, Packet

LEMMA SwitchedOnCarriesSettings ==
    ASSUME TypeOK
    PROVE  SwitchedOn.intensity = intensity /\ SwitchedOn.hue = hue
<1>1. /\ SetLevels(mylamp, intensity, hue) \in Packet
      /\ SetLevels(mylamp, intensity, hue).intensity = intensity
      /\ SetLevels(mylamp, intensity, hue).hue = hue
  BY SetLevelsPacket, SettersOfLevels DEF TypeOK
<1>. QED
  BY <1>1, SettersOfLevels DEF SwitchedOn, TypeOK

LEMMA SettingsReceive ==
    ASSUME \A i, j \in Ids \ IgnoredIds : i = j,
           SettingsInv, NEW p \in RemotePacket, ReceivePacket(p)
    PROVE  OnPacketCarriesSettings'
<1>1. p.id \in Ids /\ p.intensity \in Bytes /\ p.hue \in Bytes
  BY DEF RemotePacket
<1>2. ~ForeignPacket(p)
  <2>1. SUFFICES ASSUME ForeignPacket(p) PROVE FALSE
    OBVIOUS
  <2>2. mylamp.id \in Ids \ IgnoredIds
    BY <2>1 DEF ForeignPacket, Accept, SettingsInv, PairingInv
  <2>3. p.id \in Ids \ IgnoredIds
    BY <1>1, <2>1 DEF ForeignPacket, Accept, CanIgnoreMagic
  <2>. QED
    BY <2>1, <2>2, <2>3 DEF ForeignPacket
<1>3. SyncOwnLamp(p) /\ Accept(p)
  BY <1>2 DEF ReceivePacket, LearnPacket, OwnPacket
<1>4. SetIdentification(mylamp, p.id) \in Packet
  BY <1>1, SetIdentificationPacket DEF SettingsInv, PairingInv, TypeOK
<1>5. mylamp'.intensity = p.intensity /\ mylamp'.hue = p.hue
  BY <1>1, <1>3, <1>4, SettersOfLevels DEF SyncOwnLamp
<1>. QED
  BY <1>3, <1>5 DEF Accept, OnPacketCarriesSettings

LEMMA SettingsCommand ==
    SettingsInv /\ (HandleCommand \/ SaveHue) => OnPacketCarriesSettings'
<1>. SUFFICES ASSUME SettingsInv, HandleCommand \/ SaveHue
              PROVE  OnPacketCarriesSettings'
  OBVIOUS
<1>1. TypeOK /\ mylamp \in Packet /\ OnPacketCarriesSettings
  BY DEF SettingsInv, PairingInv, TypeOK
<1>2. 0 \in Bytes /\ SetCommand(mylamp, "Off").cmd = "Off"
  BY <1>1, SettersOfLevels, LampPacketAssumption DEF Bytes
<1>3. CASE HandleToggleOn \/ HandleOn
  BY <1>1, <1>3, SwitchedOnCarriesSettings
  DEF HandleToggleOn, HandleOn, OnPacketCarriesSettings
<1>4. CASE HandleToggleOff \/ HandleOff
  BY <1>2, <1>4 DEF HandleToggleOff, HandleOff, OnPacketCarriesSettings
<1>5. CASE SaveHue \/ HandleLearn
  BY <1>1, <1>5 DEF SaveHue, HandleLearn, local, OnPacketCarriesSettings
<1>6. ASSUME NEW i, StepIntensity(i) PROVE OnPacketCarriesSettings'
  <2>. DEFINE base == IF lampIsOn THEN mylamp ELSE SwitchedOn
  <2>1. base \in Packet /\ (base.cmd = "On" => base.hue = hue)
    BY <1>1, SwitchedOnTyped, SwitchedOnCarriesSettings DEF OnPacketCarriesSettings
  <2>2. mylamp' = [base EXCEPT !.intensity = i] /\ intensity' = i /\ hue' = hue
    BY <1>6 DEF StepIntensity
  <2>. HIDE DEF base
  <2>. QED
    BY <2>1, <2>2 DEF OnPacketCarriesSettings, Packet
<1>7. CASE HandleIncIntensity \/ HandleDecIntensity
  BY <1>6, <1>7 DEF HandleIncIntensity, HandleDecIntensity
<1>8. CASE HandleHueIntensity
  <2>. DEFINE req == Head(queue)
              set == [mylamp EXCEPT
                        !.hue       = IF req.hue # Keep THEN req.hue ELSE @,
                        !.intensity = IF req.intensity # Keep THEN req.intensity ELSE @]
  <2>1. /\ mylamp' = IF mylamp.cmd = "On" THEN set
                     ELSE SetLevels(SetCommand(set, "On"), intensity', hue')
        /\ hue' = IF req.hue # Keep THEN req.hue ELSE hue
        /\ intensity' = IF req.intensity # Keep THEN req.intensity ELSE intensity
    BY <1>8 DEF HandleHueIntensity
  <2>2. CASE mylamp.cmd = "On"
    BY <1>1, <2>1, <2>2 DEF OnPacketCarriesSettings, Packet
  <2>3. CASE mylamp.cmd # "On"
    <3>1. intensity' \in Bytes /\ hue' \in Bytes
      BY <1>1, <1>8, TypeCommand DEF HandleCommand, TypeOK
    <3>2. set \in Packet
      BY <1>1, <2>1, <3>1 DEF Packet
    <3>3. SetCommand(set, "On") \in Packet
      BY <3>2, SetCommandPacket DEF Commands
    <3>. HIDE DEF set
    <3>. QED
      BY <2>1, <2>3, <3>1, <3>3, SettersOfLevels DEF OnPacketCarriesSettings
  <2>. QED
    BY <2>2, <2>3
<1>. QED
  BY <1>3, <1>4, <1>5, <1>7, <1>8 DEF HandleCommand

LEMMA SettingsRest ==
    SettingsInv /\ (StartPaired \/ StartUnpaired \/ LearnDelayOver \/ PostRequest \/ Crash
                     \/ UNCHANGED vars)
      => OnPacketCarriesSettings'
<1>. SUFFICES ASSUME SettingsInv PROVE
       /\ StartPaired => OnPacketCarriesSettings'
       /\ Crash => OnPacketCarriesSettings'
       /\ StartUnpaired \/ LearnDelayOver \/ PostRequest \/ UNCHANGED vars
            => OnPacketCarriesSettings'
  OBVIOUS
<1>1. ASSUME StartPaired PROVE OnPacketCarriesSettings'
  <2>1. kv.lampid \in Ids /\ intensity' \in Bytes /\ hue' \in Bytes
    BY <1>1, TypeStart DEF StartPaired, SettingsInv, PairingInv, TypeOK
  <2>2. SetIdentification(mylamp, kv.lampid) \in Packet
    BY <2>1, SetIdentificationPacket DEF SettingsInv, PairingInv, TypeOK
  <2>. QED
    BY <1>1, <2>1, <2>2, SettersOfLevels DEF StartPaired, OnPacketCarriesSettings
<1>2. ASSUME Crash PROVE OnPacketCarriesSettings'
  BY <1>2 DEF Crash, BlankPacket, OnPacketCarriesSettings
<1>3. ASSUME StartUnpaired \/ LearnDelayOver \/ PostRequest \/ UNCHANGED vars
      PROVE  OnPacketCarriesSettings'
  <2>1. UNCHANGED <<mylamp, intensity, hue>>
    BY <1>3 DEF StartUnpaired, LearnDelayOver, PostRequest, Command, Hue, Intensity,
                Post, vars, local
  <2>. QED
    BY <2>1 DEF SettingsInv, OnPacketCarriesSettings
<1>. QED
  BY <1>1, <1>2, <1>3

\* With a single lamp around, an ON packet under construction never disagrees
\* with the local copy of the settings.
THEOREM OneLampSettings ==
    ASSUME \A i, j \in Ids \ IgnoredIds : i = j
    PROVE  Spec => []OnPacketCarriesSettings
<1>1. Init => SettingsInv
  BY PairingInit DEF SettingsInv, Init, BlankPacket, OnPacketCarriesSettings
<1>2. SettingsInv /\ [Next]_vars => SettingsInv'
  BY PairingStep, SettingsReceive, SettingsCommand, SettingsRest
  DEF SettingsInv, Next, TaskStep
<1>3. SettingsInv => OnPacketCarriesSettings
  BY DEF SettingsInv
<1>. QED
  BY <1>1, <1>2, <1>3, PTL DEF Spec

-----------------------------------------------------------------------------
(***************************************************************************)
(* The range of the levels: a step that is handed no level from outside    *)
(* the range keeps everything within it.                                   *)
(***************************************************************************)

PacketInRange(p) == p.intensity \in Levels /\ p.hue \in Levels

LEMMA LevelFacts ==
    /\ 0 \in Levels /\ OffLevel \in Levels
    /\ Levels \subseteq Bytes
    /\ \A l \in Levels : l < MaxLevel => l + 1 \in Levels
    /\ \A l \in Levels : l > 0 => l - 1 \in Levels
  BY LampPacketAssumption DEF Levels, Bytes

LEMMA SetLevelsInRange ==
    ASSUME NEW p \in Packet, NEW i \in Levels, NEW h \in Levels
    PROVE  PacketInRange(SetLevels(p, i, h))
  BY DEF PacketInRange, SetLevels, Packet

LEMMA SetCommandInRange ==
    ASSUME NEW p \in Packet, NEW c \in Commands, c # "On" \/ PacketInRange(p)
    PROVE  PacketInRange(SetCommand(p, c))
<1>1. [p EXCEPT !.cmd = c] \in Packet
      /\ (PacketInRange(p) => PacketInRange([p EXCEPT !.cmd = c]))
  BY DEF Packet, PacketInRange
<1>. QED
  BY <1>1, SetLevelsInRange, LevelFacts DEF SetCommand

LEMMA SwitchedOnInRange ==
    ASSUME TypeOK, InRange PROVE PacketInRange(SwitchedOn)
<1>1. "On" \in Commands /\ mylamp \in Packet /\ intensity \in Levels /\ hue \in Levels
      /\ intensity \in Bytes /\ hue \in Bytes
  BY DEF Commands, TypeOK, InRange
<1>2. PacketInRange(SetLevels(mylamp, intensity, hue))
      /\ SetLevels(mylamp, intensity, hue) \in Packet
  BY <1>1, SetLevelsInRange, SetLevelsPacket
<1>. QED
  BY <1>1, <1>2, SetCommandInRange DEF SwitchedOn

LEMMA RangeReceive ==
    ASSUME TypeOK, InRange, NEW p \in RemotePacket, ReceivePacket(p),
           Carried(p) \subseteq Levels
    PROVE  InRange'
<1>1. /\ p.id \in Ids /\ p.intensity \in Levels /\ p.hue \in Levels
  BY DEF RemotePacket, Carried
<1>2. hue' = p.hue /\ intensity' = p.intensity
  BY DEF ReceivePacket, LearnPacket, OwnPacket, ForeignPacket, Accept
<1>3. SyncOwnLamp(p) => PacketInRange(mylamp')
  <2>1. SetIdentification(mylamp, p.id) \in Packet
    BY <1>1, SetIdentificationPacket DEF TypeOK
  <2>. QED
    BY <1>1, <2>1, SetLevelsInRange DEF SyncOwnLamp
<1>4. PacketInRange(mylamp)
  BY DEF InRange, PacketInRange
<1>5. PacketInRange(mylamp')
  BY <1>3, <1>4 DEF ReceivePacket, LearnPacket, OwnPacket, ForeignPacket
<1>6. kv'.hue = kv.hue /\ kv'.intensity = kv.intensity
  BY <1>1, WriteIdTyped DEF ReceivePacket, LearnPacket, OwnPacket, ForeignPacket
<1>. QED
  BY <1>1, <1>2, <1>5, <1>6 DEF InRange, PacketInRange

LEMMA RangeCommand ==
    ASSUME TypeOK, InRange, HandleCommand \/ SaveHue,
           HandleHueIntensity => Carried(Head(queue)) \subseteq Levels \cup {Keep}
    PROVE  InRange'
<1>1. /\ mylamp \in Packet /\ PacketInRange(mylamp)
      /\ hue \in Levels /\ intensity \in Levels /\ kv.hue \in Levels /\ kv.intensity \in Levels
  BY DEF TypeOK, InRange, PacketInRange
<1>2. /\ "On" \in Commands /\ "Off" \in Commands
      /\ PacketInRange(SetCommand(mylamp, "Off"))
  BY <1>1, SetCommandInRange DEF Commands
<1>3. CASE HandleToggleOn \/ HandleOn
  BY <1>1, <1>3, SwitchedOnInRange DEF HandleToggleOn, HandleOn, InRange, PacketInRange
<1>4. CASE HandleOff \/ HandleToggleOff
  <2>1. kv'.hue \in Levels /\ kv'.intensity \in Levels
    BY <1>1, <1>4 DEF HandleOff, HandleToggleOff, TypeOK
  <2>. QED
    BY <1>1, <1>2, <1>4, <2>1 DEF HandleOff, HandleToggleOff, InRange, PacketInRange
<1>5. CASE HandleLearn \/ SaveHue
  <2>1. kv'.hue \in Levels /\ kv'.intensity \in Levels
    BY <1>1, <1>5, WriteIdTyped DEF HandleLearn, SaveHue, TypeOK
  <2>. QED
    BY <1>1, <1>5, <2>1 DEF HandleLearn, SaveHue, local, InRange, PacketInRange
<1>6. ASSUME NEW i \in Levels, StepIntensity(i) PROVE InRange'
  <2>. DEFINE base == IF lampIsOn THEN mylamp ELSE SwitchedOn
  <2>1. base \in Packet /\ PacketInRange(base)
    BY <1>1, SwitchedOnTyped, SwitchedOnInRange
  <2>2. mylamp' = [base EXCEPT !.intensity = i]
    BY <1>6 DEF StepIntensity
  <2>. HIDE DEF base
  <2>3. PacketInRange(mylamp')
    BY <1>6, <2>1, <2>2 DEF PacketInRange, Packet
  <2>. QED
    BY <1>1, <1>6, <2>3 DEF StepIntensity, InRange, PacketInRange
<1>7. CASE HandleIncIntensity \/ HandleDecIntensity
  BY <1>1, <1>6, <1>7, LevelFacts DEF HandleIncIntensity, HandleDecIntensity
<1>8. CASE HandleHueIntensity
  <2>. DEFINE req == Head(queue)
              set == [mylamp EXCEPT
                        !.hue       = IF req.hue # Keep THEN req.hue ELSE @,
                        !.intensity = IF req.intensity # Keep THEN req.intensity ELSE @]
  <2>1. req.hue \in Levels \cup {Keep} /\ req.intensity \in Levels \cup {Keep}
    BY <1>8 DEF Carried
  <2>2. /\ mylamp' = IF mylamp.cmd = "On" THEN set
                     ELSE SetLevels(SetCommand(set, "On"), intensity', hue')
        /\ hue' \in Levels /\ intensity' \in Levels /\ kv' = kv
    BY <1>1, <1>8, <2>1 DEF HandleHueIntensity
  <2>3. PacketInRange(set)
    BY <1>1, <2>1 DEF PacketInRange, Packet
  <2>4. set \in Packet
    BY <1>1, <2>1, LevelFacts DEF Packet
  <2>. HIDE DEF set
  <2>5. SetCommand(set, "On") \in Packet
    BY <1>2, <2>4, SetCommandPacket
  <2>6. PacketInRange(mylamp')
    BY <2>2, <2>3, <2>5, SetLevelsInRange
  <2>. QED
    BY <1>1, <2>2, <2>6 DEF InRange, PacketInRange
<1>. QED
  BY <1>3, <1>4, <1>5, <1>7, <1>8 DEF HandleCommand

LEMMA RangeRest ==
    ASSUME TypeOK, InRange,
           StartPaired \/ StartUnpaired \/ LearnDelayOver \/ PostRequest \/ Crash
             \/ UNCHANGED vars
    PROVE  InRange'
<1>1. CASE StartPaired
  <2>1. kv.lampid \in Ids /\ intensity' \in Levels /\ hue' \in Levels
    BY <1>1, LevelFacts DEF StartPaired, TypeOK, InRange
  <2>2. SetIdentification(mylamp, kv.lampid) \in Packet
    BY <2>1, SetIdentificationPacket DEF TypeOK
  <2>3. PacketInRange(mylamp')
    BY <1>1, <2>1, <2>2, SetLevelsInRange DEF StartPaired
  <2>. QED
    BY <1>1, <2>1, <2>3 DEF StartPaired, InRange, PacketInRange
<1>2. CASE Crash
  BY <1>2, LevelFacts DEF Crash, BlankPacket, InRange
<1>3. CASE StartUnpaired \/ LearnDelayOver \/ PostRequest \/ UNCHANGED vars
  <2>1. UNCHANGED <<mylamp, intensity, hue, kv>>
    BY <1>3 DEF StartUnpaired, LearnDelayOver, PostRequest, Command, Hue, Intensity,
                Post, vars, local
  <2>. QED
    BY <2>1 DEF InRange
<1>. QED
  BY <1>1, <1>2, <1>3

\* Levels leave 0 .. 0x17 only with a level that arrives from outside it, for any
\* number of levels and any width of the byte.
THEOREM LevelsKeepRange == Spec => RangeKept
<1>. DEFINE Legal == InRange /\ ~InRange' =>
       \/ \E p \in RemotePacket : ReceivePacket(p) /\ ~(Carried(p) \subseteq Levels)
       \/ /\ HandleHueIntensity
          /\ ~(Carried(Head(queue)) \subseteq Levels \cup {Keep})
<1>1. ASSUME TypeOK, [Next]_vars PROVE [Legal]_vars
  BY <1>1, RangeReceive, RangeCommand, RangeRest DEF Next, TaskStep
<1>. QED
  BY <1>1, TypeInit, TypeStep, PTL DEF Spec, RangeKept

=============================================================================
