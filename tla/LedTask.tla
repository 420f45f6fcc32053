------------------------------ MODULE LedTask ------------------------------
(***************************************************************************)
(* LedTask (led_task.cpp): the status LED, which blinks in the mode last   *)
(* taken from a queue.  A turn of the loop takes one request, if there is  *)
(* one, and then blinks for up to 1.2 s.                                   *)
(***************************************************************************)
EXTENDS RTOSQueue

CONSTANT LedQueueLen        \* capacity of _queue (5)

ASSUME LedTaskAssumption == LedQueueLen \in Nat

VARIABLES
    requests,       \* _queue
    blinking        \* mode

ledVars == <<requests, blinking>>

BlinkModes == {"AP_MODE", "CLIENT", "ERROR", "LEARN", "NONE"}

LedTypeOK ==
    /\ requests \in Seq(BlinkModes)
    /\ Len(requests) <= LedQueueLen
    /\ blinking \in BlinkModes

LedInit == requests = <<>> /\ blinking = "NONE"

LedReboot == requests' = <<>> /\ blinking' = "NONE"

\* Mutant: the mode is taken whether or not there was a request; without one it is
\* a variable never assigned.
LedTurnUnchecked ==
    /\ blinking' = IF requests = <<>> THEN "unassigned" ELSE Head(requests)
    /\ requests' = IF requests = <<>> THEN <<>> ELSE Tail(requests)

\* A turn that finds the queue empty repeats the mode.
LedTurn ==
    /\ requests # <<>>
    /\ blinking' = Head(requests)
    /\ requests' = Tail(requests)

\* LedTask::mode, called by other tasks.
Blink(mode) ==
    /\ requests' = SendToBack(requests, mode, LedQueueLen)
    /\ UNCHANGED blinking

=============================================================================
