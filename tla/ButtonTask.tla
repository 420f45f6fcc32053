----------------------------- MODULE ButtonTask -----------------------------
(***************************************************************************)
(* ButtonTask (button_task.cpp) and Button (button.h): the task that polls *)
(* the three buttons and posts their commands to LC12STask, in time.       *)
(*                                                                         *)
(* Time is counted in ticks of FreeRTOS (10 ms).  The task reads pins only *)
(* between ticks and otherwise waits in vTaskDelay; when its delay is over *)
(* it may still have to wait for the processor.  A contact bounces after   *)
(* it was closed or opened: meanwhile a read of its pin returns anything.  *)
(* The pin of X also picks up spikes, shorter than a tick.  A is followed  *)
(* while it is held firmly; its other reads, and all of B, are arbitrary.  *)
(***************************************************************************)
EXTENDS Naturals

CONSTANTS
    Debounce,       \* _debounceTime, 20 ms
    StepDelay,      \* pause after a step of the intensity, 200 ms
    LoopDelay,      \* pause at the end of the loop, 50 ms
    Bounce,         \* ticks in which a contact may bounce
    SpikeGap,       \* ticks from a bounce or spike to the next spike
    MaxLate         \* ticks the task may wait for the processor

ASSUME ButtonTaskAssumption ==
    /\ {Debounce, StepDelay, LoopDelay, Bounce, SpikeGap} \subseteq Nat \ {0}
    /\ MaxLate \in Nat
    /\ Bounce < LoopDelay
    /\ Debounce + MaxLate < SpikeGap

VARIABLES
    polled,         \* button whose pin is read next, "X", "A", "B"; "end" of the loop
    again,          \* the read is the second one of isPressed
    lastState,      \* _lastState of X
    delay,          \* ticks left in vTaskDelay
    late,           \* ticks spent waiting for the processor since
    posted,         \* command the last step posted
    x,              \* X: closed or open, and the ticks since
    rested,         \* X was open for long before it was closed
    served,         \* the last press of X has been toggled
    spike,          \* ticks since X was last read low though open, up to SpikeGap
    aHeld           \* ticks for which A has been held, without a step

task == <<polled, again, lastState, delay, late, posted>>
env  == <<x, rested, served, spike, aHeld>>
bvars == <<task, env>>

\* The longest time from one delay to the next action of the task.
Wait(n) == n + MaxLate

\* Ticks after which X is no longer taken for what it was before: isPressed read
\* the pin in its bounce, or for the first time before it changed.
Settling == IF Bounce > Debounce THEN Bounce - 1 ELSE Debounce

\* Both A and B stepped between two polls of X, the first of which was wrong.
LongestPoll ==
    Settling + MaxLate + 3 * Wait(Debounce) + 2 * Wait(StepDelay) + Wait(LoopDelay)

\* A was stepped and B after it, and X was clicked in the next turn.
LongestStep ==
    2 * Wait(StepDelay) + 4 * Wait(Debounce) + 2 * Wait(LoopDelay)

ButtonTypeOK ==
    /\ polled \in {"X", "A", "B", "end"}
    /\ {again, lastState, rested, served} \subseteq BOOLEAN
    /\ \E pause \in {Debounce, StepDelay, LoopDelay} : delay \in 0 .. pause
    /\ late \in 0 .. MaxLate
    /\ posted \in {"none", "toggle", "incIntensity", "decIntensity"}
    /\ x \in [closed : BOOLEAN, since : 0 .. LongestPoll + 1]
    /\ spike \in 0 .. SpikeGap
    /\ aHeld \in 0 .. LongestStep + 1

ButtonInit ==
    /\ polled = "X"
    /\ again = FALSE
    /\ lastState = FALSE
    /\ delay = 0
    /\ late = 0
    /\ posted = "none"
    /\ x = [closed |-> FALSE, since |-> LongestPoll + 1]
    /\ rested = FALSE
    /\ served = TRUE
    /\ spike = SpikeGap
    /\ aHeld = 0

-----------------------------------------------------------------------------
(***************************************************************************)
(* The task.                                                               *)
(***************************************************************************)

Sleep(n) ==
    /\ delay' = n
    /\ late' = IF n > 0 THEN 0 ELSE late

\* A press is posted and followed by a pause, if any; then the task goes on.
GoOn(next, command, pause) ==
    /\ polled' = next
    /\ posted' = command
    /\ Sleep(pause)

\* Mutant: every press is a click.
ClickRepeats(pressed) ==
    /\ lastState' = pressed
    /\ IF pressed
       THEN GoOn("end", "toggle", 0) /\ served' = TRUE
       ELSE GoOn("A", "none", 0) /\ UNCHANGED served

\* Mutant: the release is not noted.
ClickOnce(pressed) ==
    /\ lastState' = (lastState \/ pressed)
    /\ IF pressed /\ ~lastState
       THEN GoOn("end", "toggle", 0) /\ served' = TRUE
       ELSE GoOn("A", "none", 0) /\ UNCHANGED served

\* Mutant: A and B are not looked at while X is pressed.
ClickAlone(pressed) ==
    /\ lastState' = pressed
    /\ IF pressed /\ ~lastState
       THEN GoOn("end", "toggle", 0) /\ served' = TRUE
       ELSE GoOn(IF pressed THEN "end" ELSE "A", "none", 0) /\ UNCHANGED served

Click(pressed) ==
    /\ lastState' = pressed
    /\ IF pressed /\ ~lastState
       THEN GoOn("end", "toggle", 0) /\ served' = TRUE
       ELSE GoOn("A", "none", 0) /\ UNCHANGED served

StepUp(pressed) ==
    IF pressed THEN GoOn("B", "incIntensity", StepDelay) /\ aHeld' = 0
               ELSE GoOn("B", "none", 0) /\ UNCHANGED aHeld

StepDown(pressed) ==
    IF pressed THEN GoOn("end", "decIntensity", StepDelay) ELSE GoOn("end", "none", 0)

\* What isPressed returned decides.
Polled(pressed) ==
    \/ polled = "X" /\ Click(pressed) /\ UNCHANGED aHeld
    \/ polled = "A" /\ StepUp(pressed) /\ UNCHANGED <<lastState, served>>
    \/ polled = "B" /\ StepDown(pressed) /\ UNCHANGED <<lastState, served, aHeld>>

\* Mutant: one low read is a press.
IsPressedAtOnce(low) ==
    /\ Polled(low)
    /\ UNCHANGED again

\* A low read counts when the pin is low again after the debounce time.
IsPressed(low) ==
    IF low /\ ~again
    THEN /\ again' = TRUE
         /\ posted' = "none"
         /\ Sleep(Debounce)
         /\ UNCHANGED <<polled, lastState, served, aHeld>>
    ELSE again' = FALSE /\ Polled(low)

Steady == x.since >= Bounce

Read(low) ==
    /\ polled # "end"
    /\ delay = 0
    /\ polled = "X" /\ Steady => low = x.closed \/ (low /\ spike \in {0, SpikeGap})
    /\ polled = "A" /\ aHeld > 0 => low
    /\ IsPressed(low)
    /\ spike' = IF polled = "X" /\ low /\ ~x.closed THEN 0 ELSE spike
    /\ UNCHANGED <<x, rested>>

\* Mutant: the pauses of a turn are added up at its end.
EndOfLoopAdds ==
    /\ polled = "end"
    /\ delay = 0
    /\ GoOn("X", "none", LoopDelay + StepDelay)
    /\ UNCHANGED <<again, lastState, env>>

EndOfLoop ==
    /\ polled = "end"
    /\ delay = 0
    /\ GoOn("X", "none", LoopDelay)
    /\ UNCHANGED <<again, lastState, env>>

-----------------------------------------------------------------------------
(***************************************************************************)
(* Time, and the fingers.                                                  *)
(***************************************************************************)

UpTo(bound, n) == IF n < bound THEN n + 1 ELSE bound

Tick ==
    /\ IF delay > 0 THEN delay' = delay - 1 /\ UNCHANGED late
       ELSE late < MaxLate /\ late' = late + 1 /\ UNCHANGED delay
    /\ posted' = "none"
    /\ x' = [x EXCEPT !.since = UpTo(LongestPoll + 1, @)]
    /\ spike' = UpTo(SpikeGap, spike)
    /\ aHeld' \in {0, UpTo(LongestStep + 1, aHeld)}
    /\ UNCHANGED <<polled, again, lastState, rested, served>>

\* A contact does not change again while it bounces.
Press ==
    /\ ~x.closed /\ Steady
    /\ x' = [closed |-> TRUE, since |-> 0]
    /\ rested' = (x.since > LongestPoll)
    /\ served' = FALSE
    /\ UNCHANGED <<task, spike, aHeld>>

Release ==
    /\ x.closed /\ Steady
    /\ x' = [closed |-> FALSE, since |-> 0]
    /\ UNCHANGED <<task, rested, served, spike, aHeld>>

ButtonNext ==
    \/ \E low \in BOOLEAN : Read(low)
    \/ EndOfLoop
    \/ Tick
    \/ Press \/ Release

ButtonSpec == ButtonInit /\ [][ButtonNext]_bvars

-----------------------------------------------------------------------------
(***************************************************************************)
(* Properties.                                                             *)
(***************************************************************************)

\* Button::click and the two reads of isPressed: a press of X toggles the lamp
\* once, however the contact bounces when it closes and when it opens; spikes
\* alone never do.
OneTogglePerPress == [][posted' = "toggle" /\ posted # "toggle" => ~served]_bvars

\* The polling loop misses no deliberate press of X: held for the longest time
\* between two polls, after as long a rest, it is toggled, whatever A and B do.
PressToggled == x.closed /\ rested /\ x.since > LongestPoll => served

\* A held button A is stepped in bounded time: neither B nor the presses of X,
\* whose branch skips A and B, keep it waiting.
HeldIsStepped == aHeld <= LongestStep

=============================================================================
