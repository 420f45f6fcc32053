-------------------------- MODULE ButtonTask_proof --------------------------
(***************************************************************************)
(* Theorems about ButtonTask, for any delays, any bounce shorter than the  *)
(* pause of the loop, and any time the task may wait for the processor.    *)
(***************************************************************************)
EXTENDS ButtonTask, TLAPS

-----------------------------------------------------------------------------
(***************************************************************************)
(* The longest times ahead.                                                *)
(***************************************************************************)

\* Until the task does what it does next.
ToAct == delay + MaxLate - late

\* From there until isPressed returns, if it is the one of the polled button.
Reading == IF again THEN 0 ELSE Wait(Debounce)

\* Until the next time isPressed returns for X.
ToX ==
    ToAct +
    IF polled = "X" THEN Reading
    ELSE Wait(LoopDelay) + Wait(Debounce) +
         IF polled = "end" THEN 0
         ELSE Reading + Wait(StepDelay) +
              IF polled = "B" THEN 0 ELSE Wait(Debounce) + Wait(StepDelay)

\* A turn of the loop that toggles is followed by one that does not.
ClickedTurn == IF lastState THEN 0 ELSE Wait(LoopDelay) + Wait(Debounce)

\* Until the next time isPressed returns for A.
ToA ==
    ToAct +
    IF polled = "A" THEN Reading
    ELSE Wait(Debounce) + ClickedTurn +
         IF polled = "X" THEN Reading
         ELSE Wait(LoopDelay) + Wait(Debounce) +
              IF polled = "end" THEN 0 ELSE Reading + Wait(StepDelay)

-----------------------------------------------------------------------------
(***************************************************************************)
(* The inductive invariant.                                                *)
(***************************************************************************)

\* Between the two reads of X, `Debounce - delay + late' ticks after the first.
SecondRead ==
    polled = "X" /\ again =>
        /\ delay <= Debounce
        /\ ~x.closed => \/ spike + delay = Debounce + late
                        \/ x.since + delay <= Debounce + late

\* The press that was toggled is not toggled again: while X is closed it is known
\* to be; once it was taken for open the contact is at rest, and what isPressed
\* read low can only have been a spike.
NoSecondToggle ==
    served =>
        /\ x.closed => lastState
        /\ polled = "X" /\ (x.closed \/ ~lastState) => x.since + delay >= Bounce
        /\ polled = "X" /\ again /\ ~x.closed /\ ~lastState =>
               spike + delay = Debounce + late

\* X is looked at in time: it is not taken for closed long after it was opened,
\* and a press after a rest is toggled the next time isPressed returns.
InTime ==
    /\ ToX + Settling <= LongestPoll
    /\ ~x.closed /\ lastState => x.since + ToX <= LongestPoll
    /\ x.closed /\ rested /\ ~served => ~lastState /\ x.since + ToX <= LongestPoll

\* So is A.
SteppedInTime == aHeld + ToA <= LongestStep

ButtonInv ==
    /\ ButtonTypeOK
    /\ polled = "end" => ~again
    /\ SecondRead
    /\ NoSecondToggle
    /\ InTime
    /\ SteppedInTime

-----------------------------------------------------------------------------
(***************************************************************************)
(* The bounds.                                                             *)
(***************************************************************************)

LEMMA Delays ==
    /\ Debounce \in Nat /\ StepDelay \in Nat /\ LoopDelay \in Nat
    /\ Bounce \in Nat /\ SpikeGap \in Nat /\ MaxLate \in Nat
    /\ Debounce > 0 /\ StepDelay > 0 /\ LoopDelay > 0 /\ Bounce > 0
    /\ Bounce < LoopDelay
    /\ Debounce + MaxLate < SpikeGap
  BY ButtonTaskAssumption

LEMMA SettlingBound ==
    Settling \in Nat /\ Settling >= Bounce - 1 /\ Settling >= Debounce
  BY Delays DEF Settling

LEMMA PollBound ==
    /\ LongestPoll \in Nat /\ LongestPoll >= Bounce
    /\ LongestPoll = Settling + MaxLate + 3 * (Debounce + MaxLate)
                       + 2 * (StepDelay + MaxLate) + (LoopDelay + MaxLate)
  BY Delays, SettlingBound DEF LongestPoll, Wait

LEMMA StepBound ==
    /\ LongestStep \in Nat
    /\ LongestStep = 2 * (StepDelay + MaxLate) + 4 * (Debounce + MaxLate)
                       + 2 * (LoopDelay + MaxLate)
  BY Delays DEF LongestStep, Wait

LEMMA TypedValues ==
    ASSUME ButtonTypeOK
    PROVE  /\ delay \in Nat /\ late \in Nat /\ late <= MaxLate
           /\ x.since \in Nat /\ x.closed \in BOOLEAN
           /\ spike \in Nat /\ spike <= SpikeGap
           /\ aHeld \in Nat
           /\ polled \in {"X", "A", "B", "end"}
           /\ again \in BOOLEAN /\ lastState \in BOOLEAN
           /\ rested \in BOOLEAN /\ served \in BOOLEAN
  BY Delays, PollBound, StepBound DEF ButtonTypeOK

\* The time ahead is never negative.
LEMMA AheadTyped == ButtonTypeOK => ToX \in Nat /\ ToA \in Nat
  BY TypedValues, Delays DEF ToX, ToA, ToAct, Reading, ClickedTurn, Wait

LEMMA AheadTypedNext == ButtonTypeOK' => ToX' \in Nat /\ ToA' \in Nat
<1>1. ButtonTypeOK' => (ToX \in Nat /\ ToA \in Nat)'
  BY AheadTyped, PTL
<1>. QED
  BY <1>1

\* What the steps of the task do keeps the types.
LEMMA TaskTyped ==
    ASSUME ButtonTypeOK,
           polled' \in {"X", "A", "B", "end"},
           again' \in BOOLEAN, lastState' \in BOOLEAN, served' \in BOOLEAN,
           delay' \in {0, Debounce, StepDelay, LoopDelay}, late' \in {0, late},
           posted' \in {"none", "toggle", "incIntensity", "decIntensity"},
           spike' \in {0, spike}, aHeld' \in {0, aHeld}, UNCHANGED <<x, rested>>
    PROVE  ButtonTypeOK'
<1>1. \E pause \in {Debounce, StepDelay, LoopDelay} : delay' \in 0 .. pause
  <2>1. /\ 0 \in 0 .. Debounce /\ Debounce \in 0 .. Debounce
        /\ StepDelay \in 0 .. StepDelay /\ LoopDelay \in 0 .. LoopDelay
    BY Delays
  <2>. QED
    BY <2>1
<1>2. late' \in 0 .. MaxLate /\ spike' \in 0 .. SpikeGap /\ aHeld' \in 0 .. LongestStep + 1
  BY Delays, StepBound DEF ButtonTypeOK
<1>. QED
  BY <1>1, <1>2 DEF ButtonTypeOK

LEMMA ButtonInvInit == ButtonInit => ButtonInv
<1>. SUFFICES ASSUME ButtonInit PROVE ButtonInv
  OBVIOUS
<1>1. ButtonTypeOK
  <2>1. delay \in 0 .. Debounce /\ late \in 0 .. MaxLate
    BY Delays DEF ButtonInit
  <2>2. LongestPoll + 1 \in 0 .. LongestPoll + 1 /\ 0 \in 0 .. LongestStep + 1
    BY PollBound, StepBound
  <2>3. SpikeGap \in 0 .. SpikeGap
    BY Delays
  <2>. QED
    BY <2>1, <2>2, <2>3 DEF ButtonInit, ButtonTypeOK
<1>2. SecondRead /\ NoSecondToggle
  BY Delays, PollBound DEF ButtonInit, SecondRead, NoSecondToggle
<1>3. InTime
  BY Delays, PollBound, SettlingBound DEF ButtonInit, InTime, ToX, ToAct, Reading, Wait
<1>4. SteppedInTime
  BY Delays, StepBound
  DEF ButtonInit, SteppedInTime, ToA, ToAct, Reading, ClickedTurn, Wait
<1>. QED
  BY <1>1, <1>2, <1>3, <1>4 DEF ButtonInit, ButtonInv

-----------------------------------------------------------------------------
(***************************************************************************)
(* The reads.                                                              *)
(***************************************************************************)

\* The first low read: isPressed waits for the debounce time.
LEMMA FirstRead ==
    ASSUME ButtonInv, ~again, Read(TRUE) PROVE ButtonInv'
<1>1. /\ delay = 0 /\ delay' = Debounce /\ late' = 0
      /\ polled # "end" /\ again'
      /\ spike' = IF polled = "X" /\ ~x.closed THEN 0 ELSE spike
      /\ UNCHANGED <<polled, lastState, x, rested, served, aHeld>>
      /\ posted' = "none"
      /\ again' \in BOOLEAN
  BY Delays DEF Read, IsPressed, Sleep
<1>2. ButtonTypeOK /\ SecondRead /\ NoSecondToggle /\ InTime /\ SteppedInTime
  BY DEF ButtonInv
<1>3. ButtonTypeOK'
  BY <1>1, <1>2, TaskTyped, TypedValues
<1>4. SecondRead'
  BY <1>1, <1>2, TypedValues, Delays DEF SecondRead
<1>5. NoSecondToggle'
  BY <1>1, <1>2, TypedValues, Delays DEF NoSecondToggle
<1>6. ToX' <= ToX
  BY <1>1, <1>2, TypedValues, Delays, ~again DEF ToX, ToAct, Reading, Wait
<1>7. ToA' <= ToA
  <2>1. ToAct' = Debounce + MaxLate /\ ToAct <= MaxLate /\ ToAct \in Nat
    BY <1>1, <1>2, TypedValues, Delays DEF ToAct
  <2>2. Reading' = 0 /\ Reading = Debounce + MaxLate
    BY <1>1, ~again DEF Reading, Wait
  <2>3. ClickedTurn' = ClickedTurn /\ ClickedTurn \in Nat
    BY <1>1, Delays DEF ClickedTurn, Wait
  <2>. QED
    BY <1>1, <1>2, <2>1, <2>2, <2>3, TypedValues, Delays DEF ToA, Wait
<1>8. ToX \in Nat /\ ToA \in Nat /\ ToX' \in Nat /\ ToA' \in Nat
  BY <1>2, <1>3, AheadTyped, AheadTypedNext
<1>9. InTime' /\ SteppedInTime'
  BY <1>1, <1>2, <1>6, <1>7, <1>8, TypedValues, PollBound, StepBound, SettlingBound
  DEF InTime, SteppedInTime
<1>. QED
  BY <1>1, <1>3, <1>4, <1>5, <1>9 DEF ButtonInv

\* isPressed returns for X.  What it returns is arbitrary while the contact
\* bounces; later it is the state of the contact, but for a spike, and two reads
\* within the debounce time are not both one.
LEMMA PolledX ==
    ASSUME ButtonInv, polled = "X", NEW low \in BOOLEAN, low => again, Read(low)
    PROVE  ButtonInv'
<1>1. /\ delay = 0 /\ delay' = 0 /\ late' = late
      /\ again' = FALSE /\ lastState' = low
      /\ spike' = IF low /\ ~x.closed THEN 0 ELSE spike
      /\ UNCHANGED <<x, rested, aHeld>>
      /\ Steady /\ x.closed => low
      /\ Steady /\ ~x.closed /\ low => spike \in {0, SpikeGap}
  BY TypedValues DEF ButtonInv, Read, IsPressed, Polled, Click, GoOn, Sleep
<1>2. IF low /\ ~lastState THEN polled' = "end" /\ served' = TRUE /\ posted' = "toggle"
                           ELSE polled' = "A" /\ served' = served /\ posted' = "none"
  BY DEF Read, IsPressed, Polled, Click, GoOn
<1>3. ButtonTypeOK /\ SecondRead /\ NoSecondToggle /\ InTime /\ SteppedInTime
  BY DEF ButtonInv
<1>4. ButtonTypeOK'
  BY <1>1, <1>2, <1>3, TaskTyped, TypedValues
<1>5. SecondRead' /\ (polled' = "end" => ~again')
  BY <1>1, <1>2 DEF SecondRead
<1>6. NoSecondToggle'
  <2>1. CASE low /\ ~lastState
    BY <1>1, <1>2, <2>1 DEF NoSecondToggle
  <2>2. CASE ~(low /\ ~lastState)
    <3>1. served /\ x.closed => low
      BY <1>1, <1>3, TypedValues DEF NoSecondToggle, Steady
    <3>. QED
      BY <1>1, <1>2, <2>2, <3>1 DEF NoSecondToggle
  <2>. QED
    BY <2>1, <2>2
<1>7. ToX' + Settling <= LongestPoll
  BY <1>1, <1>2, <1>3, TypedValues, Delays, SettlingBound, PollBound
  DEF ToX, ToAct, Reading, Wait
<1>8. SteppedInTime'
  BY <1>1, <1>2, <1>3, TypedValues, Delays, StepBound
  DEF SteppedInTime, ToA, ToAct, Reading, ClickedTurn, Wait
<1>9. ~x.closed /\ low => x.since <= Settling \/ x.since <= Debounce + late
  BY <1>1, <1>3, TypedValues, Delays, SettlingBound DEF SecondRead, Steady
<1>10. ~x.closed /\ low => x.since + ToX' <= LongestPoll
  BY <1>1, <1>2, <1>3, <1>7, <1>9, TypedValues, Delays, SettlingBound, PollBound
  DEF ToX, ToAct, Reading, Wait
<1>11. x.closed /\ rested /\ ~served' => ~low /\ x.since <= Settling
  BY <1>1, <1>2, <1>3, TypedValues, Delays, SettlingBound DEF InTime, Steady
<1>12. ToX' \in Nat
  BY <1>4, AheadTypedNext
<1>13. InTime'
  BY <1>1, <1>3, <1>7, <1>10, <1>11, <1>12, TypedValues, SettlingBound, PollBound DEF InTime
<1>. QED
  BY <1>4, <1>5, <1>6, <1>8, <1>13 DEF ButtonInv

\* isPressed returns for A or B: X is left alone, and a held A is pressed.
LEMMA PolledAB ==
    ASSUME ButtonInv, polled \in {"A", "B"}, NEW low \in BOOLEAN, low => again, Read(low)
    PROVE  ButtonInv'
<1>1. /\ delay = 0 /\ delay' = (IF low THEN StepDelay ELSE 0)
      /\ late' = (IF low THEN 0 ELSE late)
      /\ again' = FALSE /\ polled' = (IF polled = "A" THEN "B" ELSE "end")
      /\ spike' = spike
      /\ aHeld' = IF polled = "A" /\ low THEN 0 ELSE aHeld
      /\ posted' \in {"none", "incIntensity", "decIntensity"}
      /\ UNCHANGED <<x, rested, lastState, served>>
      /\ polled = "A" /\ aHeld > 0 => low
  BY Delays DEF Read, IsPressed, Polled, StepUp, StepDown, GoOn, Sleep
<1>2. ButtonTypeOK /\ SecondRead /\ NoSecondToggle /\ InTime /\ SteppedInTime
  BY DEF ButtonInv
<1>3. ButtonTypeOK'
  BY <1>1, <1>2, TaskTyped, TypedValues
<1>4. SecondRead' /\ (polled' = "end" => ~again')
  BY <1>1 DEF SecondRead
<1>5. NoSecondToggle'
  BY <1>1, <1>2 DEF NoSecondToggle
<1>6. ToX' <= ToX
  BY <1>1, <1>2, TypedValues, Delays DEF ToX, ToAct, Reading, Wait
<1>7. ToX \in Nat /\ ToX' \in Nat
  BY <1>2, <1>3, AheadTyped, AheadTypedNext
<1>8. InTime'
  BY <1>1, <1>2, <1>6, <1>7, TypedValues, SettlingBound, PollBound DEF InTime
<1>9. SteppedInTime'
  BY <1>1, <1>2, TypedValues, Delays, StepBound
  DEF SteppedInTime, ToA, ToAct, Reading, ClickedTurn, Wait
<1>. QED
  BY <1>3, <1>4, <1>5, <1>8, <1>9 DEF ButtonInv

-----------------------------------------------------------------------------
(***************************************************************************)
(* The other steps.                                                        *)
(***************************************************************************)

LEMMA LoopEnds ==
    ASSUME ButtonInv, EndOfLoop PROVE ButtonInv'
<1>1. /\ delay = 0 /\ delay' = LoopDelay /\ late' = 0
      /\ polled = "end" /\ polled' = "X" /\ posted' = "none"
      /\ UNCHANGED <<again, lastState, x, rested, served, spike, aHeld>>
  BY Delays DEF EndOfLoop, GoOn, Sleep, env
<1>2. /\ ButtonTypeOK /\ SecondRead /\ NoSecondToggle /\ InTime /\ SteppedInTime
      /\ ~again
  BY <1>1 DEF ButtonInv
<1>3. ButtonTypeOK'
  BY <1>1, <1>2, TaskTyped, TypedValues
<1>4. SecondRead' /\ NoSecondToggle'
  BY <1>1, <1>2, TypedValues, Delays DEF SecondRead, NoSecondToggle
<1>5. ToX' <= ToX
  BY <1>1, <1>2, TypedValues, Delays DEF ToX, ToAct, Reading, Wait
<1>6. ToA' <= ToA
  BY <1>1, <1>2, TypedValues, Delays DEF ToA, ToAct, Reading, ClickedTurn, Wait
<1>7. ToX \in Nat /\ ToX' \in Nat /\ ToA \in Nat /\ ToA' \in Nat
  BY <1>2, <1>3, AheadTyped, AheadTypedNext
<1>8. InTime' /\ SteppedInTime'
  BY <1>1, <1>2, <1>5, <1>6, <1>7, TypedValues, SettlingBound, PollBound, StepBound
  DEF InTime, SteppedInTime
<1>. QED
  BY <1>1, <1>3, <1>4, <1>8 DEF ButtonInv

\* A tick brings everything ahead one tick nearer.
LEMMA TickPasses ==
    ASSUME ButtonInv, Tick PROVE ButtonInv'
<1>1. /\ UNCHANGED <<polled, again, lastState, rested, served>>
      /\ posted' = "none"
      /\ IF delay > 0 THEN delay' = delay - 1 /\ late' = late
                      ELSE late < MaxLate /\ late' = late + 1 /\ delay' = delay
      /\ spike' = IF spike < SpikeGap THEN spike + 1 ELSE SpikeGap
      /\ aHeld' \in {0, IF aHeld < LongestStep + 1 THEN aHeld + 1 ELSE LongestStep + 1}
  BY DEF Tick, UpTo
<1>2. ButtonTypeOK /\ SecondRead /\ NoSecondToggle /\ InTime /\ SteppedInTime
  BY DEF ButtonInv
<1>3. /\ x' \in [closed : BOOLEAN, since : 0 .. LongestPoll + 1]
      /\ x'.closed = x.closed
      /\ x'.since = IF x.since < LongestPoll + 1 THEN x.since + 1 ELSE LongestPoll + 1
  BY <1>2, PollBound DEF Tick, UpTo, ButtonTypeOK
<1>4. ButtonTypeOK'
  <2>1. PICK pause \in {Debounce, StepDelay, LoopDelay} : delay \in 0 .. pause
    BY <1>2 DEF ButtonTypeOK
  <2>2. delay' \in 0 .. pause /\ late' \in 0 .. MaxLate
    BY <1>1, <1>2, <2>1, TypedValues, Delays
  <2>3. spike' \in 0 .. SpikeGap /\ aHeld' \in 0 .. LongestStep + 1
    BY <1>1, <1>2, TypedValues, Delays, StepBound
  <2>. QED
    BY <1>1, <1>2, <1>3, <2>1, <2>2, <2>3 DEF ButtonTypeOK
<1>5. SecondRead'
  BY <1>1, <1>2, <1>3, TypedValues, Delays DEF SecondRead
<1>6. NoSecondToggle'
  BY <1>1, <1>2, <1>3, TypedValues, Delays, PollBound DEF NoSecondToggle
<1>7. ToX' = ToX - 1
  BY <1>1, <1>2, TypedValues, Delays DEF ToX, ToAct, Reading, Wait
<1>8. ToA' = ToA - 1
  BY <1>1, <1>2, TypedValues, Delays DEF ToA, ToAct, Reading, ClickedTurn, Wait
<1>9. ToX \in Nat /\ ToX' \in Nat /\ ToA \in Nat /\ ToA' \in Nat
  BY <1>2, <1>4, AheadTyped, AheadTypedNext
<1>10. InTime'
  BY <1>1, <1>2, <1>3, <1>7, <1>9, TypedValues, SettlingBound, PollBound DEF InTime
<1>11. SteppedInTime'
  BY <1>1, <1>2, <1>8, <1>9, TypedValues, StepBound DEF SteppedInTime
<1>. QED
  BY <1>1, <1>2, <1>4, <1>5, <1>6, <1>10, <1>11 DEF ButtonInv

\* The contact of X changes: from then on it may bounce.
LEMMA ContactChanges ==
    ASSUME ButtonInv, Press \/ Release PROVE ButtonInv'
<1>1. /\ UNCHANGED <<polled, again, lastState, delay, late, posted, spike, aHeld>>
      /\ x.since >= Bounce
      /\ x' = [closed |-> ~x.closed, since |-> 0]
      /\ IF x.closed THEN rested' = rested /\ served' = served
                     ELSE rested' = (x.since > LongestPoll) /\ served' = FALSE
  BY DEF Press, Release, Steady, task
<1>2. /\ ButtonTypeOK /\ SecondRead /\ NoSecondToggle /\ InTime /\ SteppedInTime
      /\ x.closed \in BOOLEAN
  BY TypedValues DEF ButtonInv
<1>3. x'.closed = ~x.closed /\ x'.since = 0
  BY <1>1
<1>4. ButtonTypeOK'
  <2>1. x' \in [closed : BOOLEAN, since : 0 .. LongestPoll + 1]
    BY <1>1, <1>2, PollBound
  <2>2. rested \in BOOLEAN /\ served \in BOOLEAN
    BY <1>2, TypedValues
  <2>3. rested' \in BOOLEAN /\ served' \in BOOLEAN
    <3>1. CASE Press
      <4>1. (x.since > LongestPoll) \in BOOLEAN
        OBVIOUS
      <4>. QED
        BY <3>1, <4>1, Zenon DEF Press
    <3>2. CASE Release
      BY <2>2, <3>2 DEF Release
    <3>. QED
      BY <3>1, <3>2
  <2>. QED
    BY <1>1, <1>2, <2>1, <2>3 DEF ButtonTypeOK
<1>5. ToX' = ToX /\ ToA' = ToA /\ ToX \in Nat /\ ToA \in Nat
  BY <1>1, <1>2, AheadTyped DEF ToX, ToA, ToAct, Reading, ClickedTurn
<1>6. SecondRead'
  BY <1>1, <1>2, <1>3, TypedValues, Delays DEF SecondRead
<1>7. NoSecondToggle'
  BY <1>1, <1>2, <1>3 DEF NoSecondToggle
<1>8. InTime'
  BY <1>1, <1>2, <1>3, <1>5, TypedValues, SettlingBound, PollBound DEF InTime
<1>9. SteppedInTime'
  BY <1>1, <1>2, <1>5 DEF SteppedInTime
<1>. QED
  BY <1>1, <1>2, <1>4, <1>6, <1>7, <1>8, <1>9 DEF ButtonInv

LEMMA ButtonStep == ButtonInv /\ [ButtonNext]_bvars => ButtonInv'
<1>. SUFFICES ASSUME ButtonInv, [ButtonNext]_bvars PROVE ButtonInv'
  OBVIOUS
<1>1. ASSUME NEW low \in BOOLEAN, Read(low) PROVE ButtonInv'
  <2>1. CASE low /\ ~again
    BY <1>1, <2>1, FirstRead
  <2>2. CASE low => again
    <3>1. polled \in {"X", "A", "B"}
      BY <1>1, TypedValues DEF Read, ButtonInv
    <3>. QED
      BY <1>1, <2>2, <3>1, PolledX, PolledAB
  <2>. QED
    BY <2>1, <2>2
<1>2. CASE UNCHANGED bvars
  BY <1>2
  DEF bvars, task, env, ButtonInv, ButtonTypeOK, SecondRead, NoSecondToggle, InTime,
      SteppedInTime, ToX, ToA, ToAct, Reading, ClickedTurn
<1>. QED
  BY <1>1, <1>2, LoopEnds, TickPasses, ContactChanges DEF ButtonNext

-----------------------------------------------------------------------------
(***************************************************************************)
(* Theorems.                                                               *)
(***************************************************************************)

\* Delays and waits stay within the longest of the code.
THEOREM ButtonTypeCorrect == ButtonSpec => []ButtonTypeOK
<1>1. ButtonInv => ButtonTypeOK
  BY DEF ButtonInv
<1>. QED
  BY <1>1, ButtonInvInit, ButtonStep, PTL DEF ButtonSpec

\* Button::click toggles the lamp once per press of X, for any contact that comes
\* to rest within the pause of the loop and any spikes further apart than the two
\* reads of isPressed.
THEOREM TogglesOncePerPress == ButtonSpec => OneTogglePerPress
<1>. DEFINE Once == posted' = "toggle" /\ posted # "toggle" => ~served
<1>1. ASSUME ButtonInv, [ButtonNext]_bvars PROVE [Once]_bvars
  <2>1. ASSUME NEW low \in BOOLEAN, Read(low) PROVE Once
    <3>1. SUFFICES ASSUME posted' = "toggle", served PROVE FALSE
      OBVIOUS
    <3>2. polled = "X" /\ low /\ again /\ ~lastState /\ delay = 0
      BY <2>1, <3>1 DEF Read, IsPressed, Polled, Click, StepUp, StepDown, GoOn
    <3>3. /\ ~x.closed /\ Steady
          /\ spike = Debounce + late
      BY <1>1, <3>1, <3>2, TypedValues, Delays DEF ButtonInv, NoSecondToggle, Steady
    <3>4. spike \in {0, SpikeGap}
      BY <2>1, <3>2, <3>3 DEF Read
    <3>. QED
      BY <1>1, <3>3, <3>4, TypedValues, Delays DEF ButtonInv
  <2>2. CASE EndOfLoop \/ Tick \/ Press \/ Release \/ UNCHANGED bvars
    BY <2>2 DEF EndOfLoop, GoOn, Tick, Press, Release, bvars, task
  <2>. QED
    BY <1>1, <2>1, <2>2 DEF ButtonNext
<1>. QED
  BY <1>1, ButtonInvInit, ButtonStep, PTL DEF ButtonSpec, OneTogglePerPress

\* A deliberate press of X is toggled within the longest time between two polls,
\* whatever is done with A and B.
THEOREM PressesToggled == ButtonSpec => []PressToggled
<1>1. ButtonInv => PressToggled
  BY AheadTyped, TypedValues, PollBound DEF ButtonInv, InTime, PressToggled
<1>. QED
  BY <1>1, ButtonInvInit, ButtonStep, PTL DEF ButtonSpec

\* A held button A is stepped in bounded time, whatever is done with X and B.
THEOREM HeldButtonStepped == ButtonSpec => []HeldIsStepped
<1>1. ButtonInv => HeldIsStepped
  BY AheadTyped, TypedValues, StepBound DEF ButtonInv, SteppedInTime, HeldIsStepped
<1>. QED
  BY <1>1, ButtonInvInit, ButtonStep, PTL DEF ButtonSpec

=============================================================================
