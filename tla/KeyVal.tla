------------------------------- MODULE KeyVal -------------------------------
(***************************************************************************)
(* KeyVal (key_val.h): the tasks' access to NVS, one mutex around every    *)
(* call.  A call is split at the calls of the NVS library it makes, each   *)
(* atomic and each of which may fail, on an open store too; on one that    *)
(* could not be opened all do.  A reset may fall between any two.          *)
(*                                                                         *)
(* A value is a sequence of characters, and a number one of length 1.  An  *)
(* absent key is one with the value "", which is the default the firmware  *)
(* reads with.                                                             *)
(***************************************************************************)
EXTENDS Naturals, Sequences

CONSTANTS
    Tasks,              \* tasks that call
    StringKeys,         \* keys with strings
    NumberKeys,         \* keys with numbers
    Char,               \* characters of a value
    Value,              \* what the tasks write
    NUL                 \* the character that ends a string

ASSUME KeyValAssumption ==
    /\ StringKeys \cap NumberKeys = {}
    /\ <<>> \in Value
    /\ Value \subseteq Seq(Char)
    /\ NUL \notin Char

VARIABLES
    open,               \* _isInitialized: nvs_open gave a handle
    mutex,              \* tasks inside a call
    call,               \* the call each task is making
    nvs,                \* values as the library returns them
    flash,              \* values that are committed
    answer              \* what the last call returned

kvvars == <<open, mutex, call, nvs, flash, answer>>

Key == StringKeys \cup NumberKeys
NoCall == [step |-> "none"]
NoAnswer == [call |-> "none"]

KeyValTypeOK ==
    /\ open \in BOOLEAN
    /\ \A t \in Tasks : call[t].step \in {"none", "set", "commit", "size", "get", "u32"}
    /\ mutex = {t \in Tasks : call[t] # NoCall}
    /\ \A t, u \in mutex : t = u
    /\ nvs \in [Key -> Value]
    /\ flash \in [Key -> Value]

\* init: nvs_flash_init or nvs_open may fail, which no caller looks at.
KeyValInit ==
    /\ open \in BOOLEAN
    /\ mutex = {}
    /\ call = [t \in Tasks |-> NoCall]
    /\ nvs = [k \in Key |-> <<>>]
    /\ flash = nvs
    /\ answer = NoAnswer

\* A reset: of a value that was set and not committed either survives.
KeyValReset ==
    /\ open' \in BOOLEAN
    /\ mutex' = {}
    /\ call' = [t \in Tasks |-> NoCall]
    /\ \E lost \in SUBSET {k \in Key : nvs[k] # flash[k]} :
         nvs' = [k \in Key |-> IF k \in lost THEN flash[k] ELSE nvs[k]]
    /\ flash' = nvs'
    /\ answer' = NoAnswer

-----------------------------------------------------------------------------
(***************************************************************************)
(* The calls.  The lock guard releases the mutex on every return.          *)
(***************************************************************************)

\* Mutant: the mutex is taken by writers only.
LockWriters(t, c) ==
    /\ t \notin mutex
    /\ call[t] = NoCall
    /\ mutex = {} \/ c.step # "set"
    /\ mutex' = mutex \cup {t}
    /\ call' = [call EXCEPT ![t] = c]
    /\ UNCHANGED <<open, nvs, flash, answer>>

Lock(t, c) ==
    /\ mutex = {}
    /\ call[t] = NoCall
    /\ mutex' = {t}
    /\ call' = [call EXCEPT ![t] = c]
    /\ UNCHANGED <<open, nvs, flash, answer>>

Write(t, k, v)   == Lock(t, [step |-> "set", key |-> k, value |-> v])
ReadString(t, k) == k \in StringKeys /\ Lock(t, [step |-> "size", key |-> k])
ReadUint32(t, k) == k \in NumberKeys /\ Lock(t, [step |-> "u32", key |-> k])

Return(t, a) ==
    /\ mutex' = mutex \ {t}
    /\ call' = [call EXCEPT ![t] = NoCall]
    /\ answer' = a

ReturnWrite(t, ok) == Return(t, [call |-> "write", key |-> call[t].key, result |-> ok])
ReturnRead(t, r)   == Return(t, [call |-> "read", key |-> call[t].key, result |-> r])

Proceed(t, c) ==
    /\ call' = [call EXCEPT ![t] = c]
    /\ UNCHANGED <<mutex, answer>>

\* nvs_set_str or nvs_set_u32.
Set(t) ==
    /\ call[t].step = "set"
    /\ UNCHANGED <<open, flash>>
    /\ \/ /\ open
          /\ nvs' = [nvs EXCEPT ![call[t].key] = call[t].value]
          /\ Proceed(t, [call[t] EXCEPT !.step = "commit"])
       \/ ReturnWrite(t, FALSE) /\ UNCHANGED nvs

\* Mutant: the result of nvs_commit is not looked at.
CommitUnchecked(t) ==
    /\ call[t].step = "commit"
    /\ UNCHANGED <<open, nvs>>
    /\ flash' \in {flash, nvs}
    /\ ReturnWrite(t, TRUE)

\* nvs_commit makes all that was set permanent.
Commit(t) ==
    /\ call[t].step = "commit"
    /\ UNCHANGED <<open, nvs>>
    /\ \/ flash' = nvs /\ ReturnWrite(t, TRUE)
       \/ UNCHANGED flash /\ ReturnWrite(t, FALSE)

\* nvs_get_str without a buffer, for the size of the value.
Size(t) ==
    /\ call[t].step = "size"
    /\ UNCHANGED <<open, nvs, flash>>
    /\ \/ /\ open
          /\ Proceed(t, [step |-> "get", key |-> call[t].key,
                         size |-> Len(nvs[call[t].key]) + 1])
       \/ ReturnRead(t, <<>>)

\* What a std::string of n characters holds after the library wrote v into it.
Filled(v, n) == [i \in 1 .. n |-> IF i <= Len(v) THEN v[i] ELSE NUL]

\* nvs_get_str with a buffer: it fails at least when the buffer has become too
\* short.  The final NUL counts as a character of the result, unless it is the
\* only one.
Get(t) ==
    LET v == nvs[call[t].key]
        n == call[t].size
    IN  /\ call[t].step = "get"
        /\ UNCHANGED <<open, nvs, flash>>
        /\ \/ Len(v) < n /\ ReturnRead(t, IF n = 1 THEN <<>> ELSE Filled(v, n))
           \/ ReturnRead(t, <<>>)

GetUint32(t) ==
    /\ call[t].step = "u32"
    /\ UNCHANGED <<open, nvs, flash>>
    /\ \/ open /\ ReturnRead(t, nvs[call[t].key])
       \/ ReturnRead(t, <<>>)

InCall(t) == Set(t) \/ Commit(t) \/ Size(t) \/ Get(t) \/ GetUint32(t)

KeyValNext ==
    \/ \E t \in Tasks :
         \/ InCall(t)
         \/ \E k \in Key, v \in Value : Write(t, k, v)
         \/ \E k \in Key : ReadString(t, k) \/ ReadUint32(t, k)
    \/ KeyValReset

KeyValSpec == KeyValInit /\ [][KeyValNext]_kvvars

-----------------------------------------------------------------------------
(***************************************************************************)
(* KeyVal implements AtomicStore.                                          *)
(***************************************************************************)

Returned(k, v) == IF k \in StringKeys /\ v # <<>> THEN Append(v, NUL) ELSE v

Store == INSTANCE AtomicStore WITH
    Default <- <<>>,
    value   <- nvs,
    kept    <- [k \in Key |-> {nvs[k], flash[k]}]

\* The mutex of key_val.h: however the calls of the tasks overlap and whichever
\* calls of the library fail, a read returns a value as a whole or the default
\* (key_val.h:102, 116, 123), and a write that returned true is what a restart
\* finds; one that returned false (key_val.h:66, 86) promises nothing.
ActsAtomically == Store!Spec

=============================================================================
