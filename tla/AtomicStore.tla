---------------------------- MODULE AtomicStore ----------------------------
(***************************************************************************)
(* What the tasks of the firmware rely on KeyVal for: a read returns a     *)
(* value the key holds as a whole, never parts of two, or the default, and *)
(* a write that was acknowledged survives every restart.  A write that was *)
(* not may or may not take effect, now or at the next restart.             *)
(***************************************************************************)
EXTENDS Naturals

CONSTANTS
    Key,
    Value,
    Default,            \* what a read that fails returns
    Returned(_, _)      \* how a read of a key returns its value

VARIABLES
    open,               \* the store could be opened
    value,              \* what each key holds
    kept,               \* what it may hold after a restart
    answer              \* the answer to the last call

svars == <<open, value, kept, answer>>

NoAnswer == [call |-> "none"]

Init ==
    /\ open \in BOOLEAN
    /\ value \in [Key -> Value]
    /\ kept = [k \in Key |-> {value[k]}]
    /\ answer = NoAnswer

\* Any read may fail, and all do on a store that is not open.
Read(k) ==
    /\ \E result \in {Default, Returned(k, value[k])} :
         /\ result # Default => open
         /\ answer' = [call |-> "read", key |-> k, result |-> result]
    /\ UNCHANGED <<open, value, kept>>

\* A write begins to take effect; a restart may undo it.
Store(k, v) ==
    /\ open
    /\ value' = [value EXCEPT ![k] = v]
    /\ \E old \in SUBSET kept[k] : kept' = [kept EXCEPT ![k] = old \cup {v}]
    /\ UNCHANGED <<open, answer>>

Acknowledge(k, v) ==
    /\ value[k] = v
    /\ kept' = [j \in Key |-> {value[j]}]
    /\ answer' = [call |-> "write", key |-> k, result |-> TRUE]
    /\ UNCHANGED <<open, value>>

Fail(k) ==
    /\ answer' = [call |-> "write", key |-> k, result |-> FALSE]
    /\ UNCHANGED <<open, value, kept>>

Restart ==
    /\ open' \in BOOLEAN
    /\ \A k \in Key : value'[k] \in kept[k]
    /\ DOMAIN value' = Key
    /\ kept' = [k \in Key |-> {value'[k]}]
    /\ answer' = NoAnswer

Next ==
    \/ \E k \in Key : Read(k) \/ Fail(k)
    \/ \E k \in Key, v \in Value : Store(k, v) \/ Acknowledge(k, v)
    \/ Restart

Spec == Init /\ [][Next]_svars

=============================================================================
