-------------------------- MODULE ConfigForm_proof --------------------------
(***************************************************************************)
(* Theorems about KeyVal and ConfigForm, for any tasks, keys, values and   *)
(* forms.  KeyVal: its state is well typed, at most one task is inside a   *)
(* call, and whatever the calls of the NVS library return and wherever a   *)
(* reset falls, it implements AtomicStore.  ConfigForm: it uses KeyVal as  *)
(* KeyVal allows, and each field ends up under its own key, however much   *)
(* of the body arrived.                                                    *)
(***************************************************************************)
EXTENDS ConfigForm, Integers, SequenceTheorems, WellFoundedInduction, TLAPS

-----------------------------------------------------------------------------
(***************************************************************************)
(* The store: its invariant.                                               *)
(***************************************************************************)

\* The calls a task may be in the middle of.
Calls ==
    [step : {"none"}]
      \cup [step : {"set", "commit"}, key : Key, value : Value]
      \cup [step : {"size"}, key : StringKeys]
      \cup [step : {"get"}, key : StringKeys, size : Nat]
      \cup [step : {"u32"}, key : NumberKeys]

Typed ==
    /\ open \in BOOLEAN
    /\ call \in [Tasks -> Calls]
    /\ nvs \in [Key -> Value]
    /\ flash \in [Key -> Value]

\* The mutex: whoever is inside is alone.
OneInside ==
    /\ mutex = {t \in Tasks : call[t] # NoCall}
    /\ \A t, u \in mutex : t = u

\* What a task has seen of the store still holds in its next step.
SeenStillHolds ==
    \A t \in Tasks :
        /\ call[t].step = "commit" => nvs[call[t].key] = call[t].value
        /\ call[t].step = "get" => open /\ call[t].size = Len(nvs[call[t].key]) + 1

KeyValInv == Typed /\ OneInside /\ SeenStillHolds

\* The steps a call may be in.
LEMMA CallSteps ==
    ASSUME NEW c \in Calls
    PROVE  /\ c.step \in {"none", "set", "commit", "size", "get", "u32"}
           /\ c = NoCall <=> c.step = "none"
           /\ c.step \in {"set", "commit"} => c.key \in Key /\ c.value \in Value
           /\ c.step \in {"size", "get"} => c.key \in StringKeys
           /\ c.step = "u32" => c.key \in NumberKeys
  BY DEF Calls, NoCall

\* The invariant implies what the runs check.
LEMMA InvTyped == KeyValInv => KeyValTypeOK
  BY CallSteps DEF KeyValInv, Typed, OneInside, KeyValTypeOK

LEMMA InvInit == KeyValInit => KeyValInv
<1> SUFFICES ASSUME KeyValInit PROVE KeyValInv
  OBVIOUS
<1>1. Typed
  BY KeyValAssumption DEF KeyValInit, Typed, Calls, NoCall
<1>2. OneInside
  BY DEF KeyValInit, OneInside
<1>3. SeenStillHolds
  BY DEF KeyValInit, SeenStillHolds, NoCall
<1> QED BY <1>1, <1>2, <1>3 DEF KeyValInv

-----------------------------------------------------------------------------
(***************************************************************************)
(* The invariant is kept by every step.                                    *)
(***************************************************************************)

\* A task that locks the mutex finds nobody inside.
LEMMA LockKeepsInv ==
    ASSUME KeyValInv, NEW t \in Tasks, NEW c \in Calls, Lock(t, c),
           c.step \in {"set", "size", "u32"}
    PROVE  KeyValInv'
<1>1. Typed'
  BY DEF KeyValInv, Typed, Lock
<1>2. call' = [call EXCEPT ![t] = c] /\ c # NoCall /\ \A u \in Tasks : call[u] = NoCall
  BY CallSteps DEF KeyValInv, OneInside, Lock
<1>3. OneInside'
  BY <1>2 DEF KeyValInv, Typed, OneInside, Lock
<1>4. SeenStillHolds'
  BY <1>2 DEF KeyValInv, Typed, SeenStillHolds, Lock, NoCall
<1> QED BY <1>1, <1>3, <1>4 DEF KeyValInv

\* Whoever is inside is the only one.
LEMMA Alone ==
    ASSUME KeyValInv, NEW t \in Tasks, call[t].step # "none"
    PROVE  mutex = {t} /\ \A u \in Tasks \ {t} : call[u] = NoCall
  BY DEF KeyValInv, OneInside, NoCall

\* A task that returns leaves nobody inside, whatever it did to the store.
LEMMA ReturnKeepsInv ==
    ASSUME KeyValInv, NEW t \in Tasks, call[t].step # "none", NEW a, Return(t, a),
           open' = open, nvs' \in [Key -> Value], flash' \in [Key -> Value]
    PROVE  KeyValInv'
<1>1. mutex = {t} /\ \A u \in Tasks \ {t} : call[u] = NoCall
  BY Alone
<1>2. call' = [u \in Tasks |-> NoCall] /\ mutex' = {}
  BY <1>1 DEF Return, KeyValInv, Typed
<1>3. Typed'
  BY <1>2 DEF KeyValInv, Typed, Calls, NoCall
<1>4. OneInside'
  BY <1>2 DEF OneInside
<1>5. SeenStillHolds'
  BY <1>2 DEF SeenStillHolds, NoCall
<1> QED BY <1>3, <1>4, <1>5 DEF KeyValInv

\* A task that proceeds inside its call stays the only one.
LEMMA ProceedKeepsInv ==
    ASSUME KeyValInv, NEW t \in Tasks, call[t].step # "none",
           NEW c \in Calls, c # NoCall, Proceed(t, c),
           open' = open, nvs' \in [Key -> Value], flash' \in [Key -> Value],
           c.step = "commit" => nvs'[c.key] = c.value,
           c.step = "get" => open /\ c.size = Len(nvs'[c.key]) + 1
    PROVE  KeyValInv'
<1>1. mutex = {t} /\ \A u \in Tasks \ {t} : call[u] = NoCall
  BY Alone
<1>2. call' = [call EXCEPT ![t] = c] /\ mutex' = {t} /\ call \in [Tasks -> Calls]
  BY <1>1 DEF Proceed, KeyValInv, Typed
<1>3. Typed'
  BY <1>2 DEF KeyValInv, Typed
<1>4. OneInside'
  BY <1>1, <1>2 DEF OneInside
<1>5. SeenStillHolds'
  BY <1>1, <1>2 DEF SeenStillHolds, NoCall
<1> QED BY <1>3, <1>4, <1>5 DEF KeyValInv

\* One case per call of the NVS library.
LEMMA InCallKeepsInv ==
    ASSUME KeyValInv, NEW t \in Tasks, InCall(t)
    PROVE  KeyValInv'
<1> USE DEF ReturnWrite, ReturnRead
<1>0. /\ call[t] \in Calls
      /\ nvs \in [Key -> Value] /\ flash \in [Key -> Value]
  BY DEF KeyValInv, Typed
<1>1. CASE Set(t)
  <2>1. /\ call[t].step = "set" /\ call[t].key \in Key /\ call[t].value \in Value
        /\ UNCHANGED <<open, flash>>
    BY <1>0, <1>1, CallSteps DEF Set
  <2>2. CASE /\ nvs' = [nvs EXCEPT ![call[t].key] = call[t].value]
             /\ Proceed(t, [call[t] EXCEPT !.step = "commit"])
    <3> DEFINE c == [call[t] EXCEPT !.step = "commit"]
    <3>1. c \in Calls /\ c # NoCall /\ c.step = "commit" /\ c.key = call[t].key /\ c.value = call[t].value
      BY <1>0, <2>1 DEF Calls, NoCall
    <3>2. nvs' \in [Key -> Value] /\ nvs'[c.key] = c.value
      BY <1>0, <2>1, <2>2, <3>1
    <3> HIDE DEF c
    <3>3. Proceed(t, c)
      BY <2>2 DEF c
    <3> QED BY <1>0, <2>1, <3>1, <3>2, <3>3, ProceedKeepsInv
  <2>3. CASE ReturnWrite(t, FALSE) /\ UNCHANGED nvs
    BY <1>0, <2>1, <2>3, ReturnKeepsInv
  <2> QED BY <1>1, <2>2, <2>3 DEF Set
<1>2. CASE Commit(t)
  BY <1>0, <1>2, ReturnKeepsInv DEF Commit
<1>3. CASE Size(t)
  <2>1. /\ call[t].step = "size" /\ call[t].key \in StringKeys
        /\ UNCHANGED <<open, nvs, flash>>
    BY <1>0, <1>3, CallSteps DEF Size
  <2>2. CASE open /\ Proceed(t, [step |-> "get", key |-> call[t].key,
                                 size |-> Len(nvs[call[t].key]) + 1])
    <3> DEFINE c == [step |-> "get", key |-> call[t].key, size |-> Len(nvs[call[t].key]) + 1]
    <3>1. nvs[call[t].key] \in Seq(Char)
      BY <1>0, <2>1, KeyValAssumption DEF Key
    <3>2. c \in Calls /\ c # NoCall
      BY <2>1, <3>1 DEF Calls, NoCall
    <3>3. Proceed(t, c)
      BY <2>2
    <3> QED BY <1>0, <2>1, <2>2, <3>2, <3>3, ProceedKeepsInv
  <2>3. CASE ReturnRead(t, <<>>)
    BY <1>0, <2>1, <2>3, ReturnKeepsInv
  <2> QED BY <1>3, <2>2, <2>3 DEF Size
<1>4. CASE Get(t)
  BY <1>0, <1>4, ReturnKeepsInv DEF Get
<1>5. CASE GetUint32(t)
  BY <1>0, <1>5, ReturnKeepsInv DEF GetUint32
<1> QED BY <1>1, <1>2, <1>3, <1>4, <1>5 DEF InCall

\* After a reset nobody is inside, and every key holds a value.
LEMMA ResetKeepsInv ==
    ASSUME KeyValInv, KeyValReset
    PROVE  KeyValInv'
<1>1. Typed'
  BY DEF KeyValInv, Typed, KeyValReset, Calls, NoCall
<1>2. OneInside'
  BY DEF OneInside, KeyValReset
<1>3. SeenStillHolds'
  BY DEF SeenStillHolds, KeyValReset, NoCall
<1> QED BY <1>1, <1>2, <1>3 DEF KeyValInv

LEMMA NextKeepsInv == KeyValInv /\ [KeyValNext]_kvvars => KeyValInv'
<1> SUFFICES ASSUME KeyValInv, [KeyValNext]_kvvars PROVE KeyValInv'
  OBVIOUS
<1>1. ASSUME NEW t \in Tasks, InCall(t) PROVE KeyValInv'
  BY <1>1, InCallKeepsInv
<1>2. ASSUME NEW t \in Tasks, NEW k \in Key, NEW v \in Value, Write(t, k, v) PROVE KeyValInv'
  <2> DEFINE c == [step |-> "set", key |-> k, value |-> v]
  <2>1. c \in Calls /\ Lock(t, c)
    BY <1>2 DEF Calls, Write
  <2> QED BY <2>1, LockKeepsInv
<1>3. ASSUME NEW t \in Tasks, NEW k \in Key, ReadString(t, k) PROVE KeyValInv'
  <2> DEFINE c == [step |-> "size", key |-> k]
  <2>1. c \in Calls /\ Lock(t, c)
    BY <1>3 DEF Calls, ReadString
  <2> QED BY <2>1, LockKeepsInv
<1>4. ASSUME NEW t \in Tasks, NEW k \in Key, ReadUint32(t, k) PROVE KeyValInv'
  <2> DEFINE c == [step |-> "u32", key |-> k]
  <2>1. c \in Calls /\ Lock(t, c)
    BY <1>4 DEF Calls, ReadUint32
  <2> QED BY <2>1, LockKeepsInv
<1>5. CASE KeyValReset
  BY <1>5, ResetKeepsInv
<1>6. CASE UNCHANGED kvvars
  BY <1>6 DEF KeyValInv, Typed, OneInside, SeenStillHolds, kvvars
<1> QED BY <1>1, <1>2, <1>3, <1>4, <1>5, <1>6 DEF KeyValNext

LEMMA InvHolds == KeyValSpec => []KeyValInv
<1> QED BY InvInit, NextKeepsInv, PTL DEF KeyValSpec

\* In every reachable state at most one task is inside a call of key_val.h, each
\* key holds a value some task wrote, in RAM and in flash.
THEOREM StoreTypeCorrect == KeyValSpec => []KeyValTypeOK
<1> QED BY InvHolds, InvTyped, PTL

-----------------------------------------------------------------------------
(***************************************************************************)
(* The refinement.                                                         *)
(***************************************************************************)

kept == [k \in Key |-> {nvs[k], flash[k]}]

LEMMA InitRefines == KeyValInit => Store!Init
  BY KeyValAssumption DEF KeyValInit, Store!Init, NoAnswer, Store!NoAnswer

\* Reading a string in two calls gives the whole of it with the final NUL.
LEMMA WholeString ==
    ASSUME NEW v \in Seq(Char)
    PROVE  (IF Len(v) + 1 = 1 THEN <<>> ELSE Filled(v, Len(v) + 1))
             = (IF v # <<>> THEN Append(v, NUL) ELSE v)
<1>1. Len(v) \in Nat
  OBVIOUS
<1>2. CASE v = <<>>
  BY <1>2
<1>3. CASE v # <<>>
  <2>1. Len(v) # 0
    BY <1>3
  <2>2. Filled(v, Len(v) + 1) = Append(v, NUL)
    <3> DEFINE n == Len(v) + 1
    <3>1. v \in Seq(Char \cup {NUL}) /\ NUL \in Char \cup {NUL}
      OBVIOUS
    <3>2. /\ Append(v, NUL) \in Seq(Char \cup {NUL}) /\ Len(Append(v, NUL)) = n
          /\ Append(v, NUL)[n] = NUL
          /\ \A i \in 1 .. Len(v) : Append(v, NUL)[i] = v[i]
      BY <3>1, AppendProperties
    <3>3. /\ Filled(v, n) \in Seq(Char \cup {NUL}) /\ Len(Filled(v, n)) = n
          /\ Filled(v, n)[n] = NUL
          /\ \A i \in 1 .. Len(v) : Filled(v, n)[i] = v[i]
      BY <1>1, <3>1 DEF Filled
    <3>4. \A i \in 1 .. n : Append(v, NUL)[i] = Filled(v, n)[i]
      BY <1>1, <3>2, <3>3
    <3> QED BY <1>1, <3>2, <3>3, <3>4, SeqEqual
  <2> QED BY <1>1, <1>3, <2>1, <2>2
<1> QED BY <1>2, <1>3

\* A write of the abstract store is one of its steps.
LEMMA WritesAreSteps ==
    ASSUME NEW k \in Key, NEW w \in Value, Store!Store(k, w) \/ Store!Acknowledge(k, w)
    PROVE  Store!Next
  BY DEF Store!Next

\* A read that returns the whole value of an open store, or the default.
LEMMA ReadsAreSteps ==
    ASSUME NEW k \in Key, NEW r, UNCHANGED <<open, nvs, flash>>,
           answer' = [call |-> "read", key |-> k, result |-> r],
           r = <<>> \/ (open /\ r = Returned(k, nvs[k]))
    PROVE  Store!Next
<1>1. Store!Read(k)
  BY DEF Store!Read
<1> QED BY <1>1 DEF Store!Next

LEMMA InCallRefines ==
    ASSUME KeyValInv, NEW t \in Tasks, InCall(t)
    PROVE  [Store!Next]_(Store!svars)
<1> DEFINE key == call[t].key
           v   == call[t].value
<1>0. /\ call[t] \in Calls
      /\ nvs \in [Key -> Value] /\ flash \in [Key -> Value]
  BY DEF KeyValInv, Typed
<1>1. CASE Set(t)
  <2>1. key \in Key /\ v \in Value /\ UNCHANGED <<open, flash>>
    BY <1>0, <1>1, CallSteps DEF Set
  <2>2. CASE /\ open
             /\ nvs' = [nvs EXCEPT ![call[t].key] = call[t].value]
             /\ Proceed(t, [call[t] EXCEPT !.step = "commit"])
    <3>1. {flash[key]} \in SUBSET kept[key]
      BY <2>1 DEF kept
    <3>2. [j \in Key |-> {nvs'[j], flash'[j]}] = [kept EXCEPT ![key] = {flash[key]} \cup {v}]
      BY <1>0, <2>1, <2>2 DEF kept
    <3>3. Store!Store(key, v)
      BY <2>1, <2>2, <3>1, <3>2 DEF Store!Store, kept, Proceed
    <3>4. PICK k \in Key, w \in Value : k = key /\ w = v
      BY <2>1
    <3>5. Store!Store(k, w)
      BY <3>3, <3>4 DEF Store!Store
    <3> QED BY <3>5, WritesAreSteps
  <2>3. CASE ReturnWrite(t, FALSE) /\ UNCHANGED nvs
    <3>1. Store!Fail(key)
      BY <2>1, <2>3 DEF Store!Fail, ReturnWrite, Return
    <3> QED BY <2>1, <3>1 DEF Store!Next
  <2> QED BY <1>1, <2>2, <2>3 DEF Set
<1>2. CASE Commit(t)
  <2>1. key \in Key /\ v \in Value /\ nvs[key] = v /\ UNCHANGED <<open, nvs>>
    BY <1>0, <1>2, CallSteps DEF Commit, KeyValInv, SeenStillHolds
  <2>2. CASE flash' = nvs /\ ReturnWrite(t, TRUE)
    <3>1. Store!Acknowledge(key, v)
      BY <2>1, <2>2 DEF Store!Acknowledge, ReturnWrite, Return
    <3>2. PICK k \in Key, w \in Value : k = key /\ w = v
      BY <2>1
    <3>3. Store!Acknowledge(k, w)
      BY <3>1, <3>2 DEF Store!Acknowledge
    <3> QED BY <3>3, WritesAreSteps
  <2>3. CASE UNCHANGED flash /\ ReturnWrite(t, FALSE)
    <3>1. Store!Fail(key)
      BY <2>1, <2>3 DEF Store!Fail, ReturnWrite, Return
    <3> QED BY <2>1, <3>1 DEF Store!Next
  <2> QED BY <1>2, <2>2, <2>3 DEF Commit
<1>3. CASE Size(t)
  <2>1. key \in Key /\ UNCHANGED <<open, nvs, flash>>
    BY <1>0, <1>3, CallSteps DEF Size, Key
  <2>2. CASE Proceed(t, [step |-> "get", key |-> call[t].key,
                         size |-> Len(nvs[call[t].key]) + 1])
    BY <2>1, <2>2 DEF Proceed, Store!svars
  <2>3. CASE ReturnRead(t, <<>>)
    BY <2>1, <2>3, ReadsAreSteps DEF ReturnRead, Return
  <2> QED BY <1>3, <2>2, <2>3 DEF Size
<1>4. CASE Get(t)
  <2>1. /\ key \in StringKeys /\ key \in Key /\ UNCHANGED <<open, nvs, flash>>
        /\ open /\ call[t].size = Len(nvs[key]) + 1
    BY <1>0, <1>4, CallSteps DEF Get, Key, KeyValInv, SeenStillHolds
  <2>2. nvs[key] \in Seq(Char)
    BY <1>0, <2>1, KeyValAssumption
  <2>3. ReturnRead(t, Returned(key, nvs[key])) \/ ReturnRead(t, <<>>)
    BY <1>4, <2>1, <2>2, WholeString DEF Get, Returned
  <2> QED BY <2>1, <2>3, ReadsAreSteps DEF ReturnRead, Return
<1>5. CASE GetUint32(t)
  <2>1. /\ key \in NumberKeys /\ key \in Key /\ key \notin StringKeys
        /\ UNCHANGED <<open, nvs, flash>>
    BY <1>0, <1>5, CallSteps, KeyValAssumption DEF GetUint32, Key
  <2>2. (open /\ ReturnRead(t, Returned(key, nvs[key]))) \/ ReturnRead(t, <<>>)
    BY <1>5, <2>1 DEF GetUint32, Returned
  <2> QED BY <2>1, <2>2, ReadsAreSteps DEF ReturnRead, Return
<1> QED BY <1>1, <1>2, <1>3, <1>4, <1>5 DEF InCall

LEMMA ResetRefines ==
    ASSUME KeyValInv, KeyValReset
    PROVE  Store!Restart
<1>1. nvs' \in [Key -> Value] /\ \A k \in Key : nvs'[k] \in {nvs[k], flash[k]}
  BY DEF KeyValReset, KeyValInv, Typed
<1>2. [k \in Key |-> {nvs'[k], flash'[k]}] = [k \in Key |-> {nvs'[k]}]
  BY DEF KeyValReset
<1>3. \A k \in Key : [j \in Key |-> {nvs[j], flash[j]}][k] = {nvs[k], flash[k]}
  OBVIOUS
<1>4. DOMAIN nvs' = Key
  BY <1>1
<1> QED BY <1>1, <1>2, <1>3, <1>4 DEF KeyValReset, Store!Restart, NoAnswer, Store!NoAnswer

\* Taking the mutex is no step of the abstract store.
LEMMA LockRefines ==
    ASSUME NEW t \in Tasks, NEW c, Lock(t, c)
    PROVE  UNCHANGED Store!svars
  BY DEF Lock, Store!svars

LEMMA NextRefines ==
    KeyValInv /\ [KeyValNext]_kvvars => [Store!Next]_(Store!svars)
<1> SUFFICES ASSUME KeyValInv, [KeyValNext]_kvvars PROVE [Store!Next]_(Store!svars)
  OBVIOUS
<1>1. ASSUME NEW t \in Tasks, InCall(t) PROVE [Store!Next]_(Store!svars)
  BY <1>1, InCallRefines
<1>2. ASSUME NEW t \in Tasks, NEW k \in Key, NEW v \in Value, Write(t, k, v)
      PROVE  UNCHANGED Store!svars
  BY <1>2, LockRefines DEF Write
<1>3. ASSUME NEW t \in Tasks, NEW k \in Key, ReadString(t, k) \/ ReadUint32(t, k)
      PROVE  UNCHANGED Store!svars
  BY <1>3, LockRefines DEF ReadString, ReadUint32
<1>4. CASE KeyValReset
  BY <1>4, ResetRefines DEF Store!Next
<1>5. CASE UNCHANGED kvvars
  BY <1>5 DEF kvvars, Store!svars
<1> QED BY <1>1, <1>2, <1>3, <1>4, <1>5 DEF KeyValNext

\* The tasks may rely on KeyVal (key_val.h) as on an atomic store: a read gives
\* a value as a whole, and an acknowledged write survives every reset, whatever
\* else fails.
THEOREM StoreIsAtomic == KeyValSpec => ActsAtomically
<1> QED BY InvHolds, InitRefines, NextRefines, PTL
        DEF KeyValSpec, ActsAtomically, Store!Spec

-----------------------------------------------------------------------------
(***************************************************************************)
(* The value under "lampid": the text of an identification, module HexId.  *)
(***************************************************************************)

Hex == INSTANCE HexId

\* A byte is its two digits.
LEMMA Digits ==
    ASSUME NEW b \in Hex!Byte
    PROVE  /\ b \div 16 \in Hex!Digit
           /\ b % 16 \in Hex!Digit
           /\ 16 * (b \div 16) + (b % 16) = b
  BY DEF Hex!Byte, Hex!Digit

\* The text has two digits for each byte.
LEMMA TextOfId ==
    ASSUME NEW n \in Nat, NEW id \in [1 .. n -> Hex!Byte]
    PROVE  /\ Hex!ArrayToString(id) \in Seq(Hex!Char)
           /\ Len(Hex!ArrayToString(id)) = 2 * n
           /\ \A i \in 1 .. n : /\ Hex!ArrayToString(id)[2 * i - 1] = id[i] \div 16
                                /\ Hex!ArrayToString(id)[2 * i] = id[i] % 16
  <1>1. id \in Seq(Hex!Byte) /\ Len(id) = n
    OBVIOUS
  <1>2. ASSUME NEW j \in 1 .. 2 * n
        PROVE  Hex!ArrayToString(id)[j] \in Hex!Digit
    <2>1. CASE j % 2 = 1
      <3>1. (j + 1) \div 2 \in 1 .. n
        BY <2>1
      <3> QED  BY <1>1, <2>1, <3>1, Digits DEF Hex!ArrayToString
    <2>2. CASE j % 2 # 1
      <3>1. j \div 2 \in 1 .. n
        BY <2>2
      <3> QED  BY <1>1, <2>2, <3>1, Digits DEF Hex!ArrayToString
    <2> QED  BY <2>1, <2>2
  <1>3. Hex!ArrayToString(id) = [j \in 1 .. 2 * n |-> Hex!ArrayToString(id)[j]]
    BY <1>1 DEF Hex!ArrayToString
  <1>4. Hex!ArrayToString(id) \in Seq(Hex!Char) /\ Len(Hex!ArrayToString(id)) = 2 * n
    BY <1>2, <1>3 DEF Hex!Char
  <1>5. ASSUME NEW i \in 1 .. n
        PROVE  /\ Hex!ArrayToString(id)[2 * i - 1] = id[i] \div 16
               /\ Hex!ArrayToString(id)[2 * i] = id[i] % 16
    <2>1. /\ 2 * i - 1 \in 1 .. 2 * n
          /\ (2 * i - 1) % 2 = 1
          /\ (2 * i - 1 + 1) \div 2 = i
          /\ 2 * i \in 1 .. 2 * n
          /\ (2 * i) % 2 # 1
          /\ (2 * i) \div 2 = i
      OBVIOUS
    <2> QED  BY <1>1, <2>1 DEF Hex!ArrayToString
  <1> QED  BY <1>4, <1>5

\* Whatever identification LC12STask learns and stores as text, it reads back
\* from NVS as it was, with the NUL that readString leaves at the end: the odd
\* length does not shift or drop a byte (packet.h:304).
THEOREM StoredIdReadsBack ==
    ASSUME NEW n \in Nat, NEW id \in [1 .. n -> Hex!Byte]
    PROVE  Hex!StringToID(Append(Hex!ArrayToString(id), Hex!NUL), n) = id
  <1> DEFINE text == Hex!ArrayToString(id)
             str  == Append(text, Hex!NUL)
  <1>1. /\ text \in Seq(Hex!Char)
        /\ Len(text) = 2 * n
        /\ \A i \in 1 .. n : text[2 * i - 1] = id[i] \div 16 /\ text[2 * i] = id[i] % 16
    BY TextOfId
  <1> HIDE DEF text
  <1>2. Len(str) = 2 * n + 1 /\ \A j \in 1 .. 2 * n : str[j] = text[j]
    BY <1>1 DEF Hex!Char
  <1> HIDE DEF str
  <1>3. Hex!StringToID(str, n) = [i \in 1 .. n |-> 16 * str[2 * i - 1] + str[2 * i]]
    <2>1. Len(str) \div 2 = n
      BY <1>2
    <2> QED  BY <2>1 DEF Hex!StringToID
  <1>4. ASSUME NEW i \in 1 .. n
        PROVE  16 * str[2 * i - 1] + str[2 * i] = id[i]
    <2>1. 2 * i - 1 \in 1 .. 2 * n /\ 2 * i \in 1 .. 2 * n
      OBVIOUS
    <2>2. str[2 * i - 1] = id[i] \div 16 /\ str[2 * i] = id[i] % 16
      BY <1>1, <1>2, <2>1
    <2> QED  BY <2>2, Digits
  <1>5. Hex!StringToID(str, n) = id
    BY <1>3, <1>4
  <1> QED  BY <1>5 DEF str, text

-----------------------------------------------------------------------------
(***************************************************************************)
(* Sequences one after the other.                                          *)
(***************************************************************************)

\* The first n of some sequences, one after the other, for every n.
Joins(seqs) ==
    LET first[n \in 0 .. Len(seqs)] ==
          IF n = 0 THEN <<>> ELSE first[n - 1] \o seqs[n]
    IN  first

Join(seqs) == Joins(seqs)[Len(seqs)]

\* A set of naturals has a least element; induction is done with it.
LEMMA LeastNat ==
    ASSUME NEW T \in SUBSET Nat, T # {}
    PROVE  \E n \in T : \A m \in T : n <= m
<1>1. PICK n \in T : \A m \in T : ~(<<m, n>> \in OpToRel(<, Nat))
  BY NatLessThanWellFounded, WFMin, Zenon
<1>2. \A m \in T : ~(m < n)
  BY <1>1 DEF OpToRel
<1>. QED
  BY <1>2

LEMMA InductionOnNat ==
    ASSUME NEW T \in SUBSET Nat, 0 \in T, \A n \in T : n + 1 \in T
    PROVE  T = Nat
<1>. SUFFICES ASSUME Nat \ T # {} PROVE FALSE
  OBVIOUS
<1>1. PICK n \in Nat \ T : \A m \in Nat \ T : n <= m
  <2>1. Nat \ T \in SUBSET Nat
    OBVIOUS
  <2>. QED
    BY <2>1, LeastNat
<1>2. n - 1 \in Nat /\ n - 1 + 1 = n /\ ~(n <= n - 1)
  BY <1>1
<1>. QED
  BY <1>1, <1>2

LEMMA JoinsRecursive ==
    ASSUME NEW seqs, Len(seqs) \in Nat
    PROVE  Joins(seqs) = [n \in 0 .. Len(seqs) |->
               IF n = 0 THEN <<>> ELSE Joins(seqs)[n - 1] \o seqs[n]]
<1>. DEFINE Defines(g, m) == g = [n \in 0 .. m |-> IF n = 0 THEN <<>> ELSE g[n - 1] \o seqs[n]]
            T == {m \in Nat : \E g : Defines(g, m)}
<1>1. 0 \in T
  <2>. DEFINE g == [n \in 0 .. 0 |-> <<>>]
  <2>1. Defines(g, 0)
    OBVIOUS
  <2>. HIDE DEF g, Defines
  <2>. QED
    BY <2>1
<1>2. ASSUME NEW m \in T PROVE m + 1 \in T
  <2>1. PICK g : Defines(g, m)
    OBVIOUS
  <2>. DEFINE h == [n \in 0 .. m + 1 |-> IF n = m + 1 THEN g[m] \o seqs[m + 1] ELSE g[n]]
  <2>2. ASSUME NEW n \in 0 .. m + 1
        PROVE  h[n] = IF n = 0 THEN <<>> ELSE h[n - 1] \o seqs[n]
    <3>1. CASE n = m + 1
      BY <3>1
    <3>2. CASE n # m + 1
      <4>1. n \in 0 .. m /\ h[n] = g[n]
        BY <3>2
      <4>2. g[n] = IF n = 0 THEN <<>> ELSE g[n - 1] \o seqs[n]
        BY <2>1, <4>1
      <4>3. n # 0 => h[n - 1] = g[n - 1]
        BY <4>1
      <4>. QED
        BY <4>1, <4>2, <4>3
    <3>. QED
      BY <3>1, <3>2
  <2>3. h = [n \in 0 .. m + 1 |-> h[n]]
    OBVIOUS
  <2>. HIDE DEF h
  <2>4. Defines(h, m + 1)
    BY <2>2, <2>3
  <2>. HIDE DEF Defines
  <2>. QED
    BY <2>4
<1>. HIDE DEF Defines
<1>3. T = Nat
  <2>. HIDE DEF T
  <2>. QED
    BY <1>1, <1>2, InductionOnNat DEF T
<1>4. PICK g : Defines(g, Len(seqs))
  BY <1>3
<1>5. Defines(CHOOSE f : Defines(f, Len(seqs)), Len(seqs))
  BY <1>4
<1>6. Joins(seqs) = CHOOSE f : Defines(f, Len(seqs))
  BY DEF Joins, Defines
<1>7. Defines(Joins(seqs), Len(seqs))
  BY <1>5, <1>6
<1>. QED
  BY <1>7 DEF Defines

\* The same up to a bound.
LEMMA InductionUpTo ==
    ASSUME NEW N \in Nat, NEW T, 0 \in T, \A n \in 0 .. N : n \in T /\ n # N => n + 1 \in T
    PROVE  \A n \in 0 .. N : n \in T
<1>. DEFINE U == {n \in Nat : n \in 0 .. N => n \in T}
<1>1. ASSUME NEW n \in U PROVE n + 1 \in U
  BY <1>1
<1>2. 0 \in U
  OBVIOUS
<1>. HIDE DEF U
<1>3. U = Nat
  BY <1>1, <1>2, InductionOnNat DEF U
<1>. QED
  BY <1>3 DEF U

\* The elements of two sequences in a row.
LEMMA InARow ==
    ASSUME NEW S, NEW s \in Seq(S), NEW t \in Seq(S)
    PROVE  /\ s \o t \in Seq(S)
           /\ Len(s) \in Nat /\ Len(t) \in Nat /\ Len(s \o t) = Len(s) + Len(t)
           /\ \A i \in 1 .. Len(s) : (s \o t)[i] = s[i]
           /\ \A i \in 1 .. Len(t) : (s \o t)[Len(s) + i] = t[i]
<1>1. /\ s \o t \in Seq(S)
      /\ Len(s) \in Nat /\ Len(t) \in Nat /\ Len(s \o t) = Len(s) + Len(t)
      /\ \A i \in 1 .. Len(s) + Len(t) : (s \o t)[i] = IF i <= Len(s) THEN s[i] ELSE t[i - Len(s)]
  BY ConcatProperties, LenProperties
<1>. DEFINE m == Len(s)
            n == Len(t)
            u == s \o t
<1>. HIDE DEF m, n, u
<1>2. m \in Nat /\ n \in Nat /\ \A i \in 1 .. m + n : u[i] = IF i <= m THEN s[i] ELSE t[i - m]
  BY <1>1 DEF m, n, u
<1>3. \A i \in 1 .. m : u[i] = s[i]
  BY <1>2
<1>4. \A i \in 1 .. n : u[m + i] = t[i]
  BY <1>2
<1>. QED
  BY <1>1, <1>3, <1>4 DEF m, n, u

\* What has been joined up to n, with the next sequence.
LEMMA JoinsStep ==
    ASSUME NEW S, NEW seqs \in Seq(Seq(S))
    PROVE  /\ Len(seqs) \in Nat
           /\ \A n \in 1 .. Len(seqs) : seqs[n] \in Seq(S)
           /\ Joins(seqs)[0] = <<>>
           /\ \A n \in 1 .. Len(seqs) : Joins(seqs)[n] = Joins(seqs)[n - 1] \o seqs[n]
           /\ \A n \in 0 .. Len(seqs) : n # Len(seqs) =>
                 /\ Joins(seqs)[n + 1] = Joins(seqs)[n] \o seqs[n + 1]
                 /\ seqs[n + 1] \in Seq(S)
<1>1. Len(seqs) \in Nat /\ \A n \in 1 .. Len(seqs) : seqs[n] \in Seq(S)
  OBVIOUS
<1>. DEFINE J == Joins(seqs)
            N == Len(seqs)
<1>2. J = [n \in 0 .. N |-> IF n = 0 THEN <<>> ELSE J[n - 1] \o seqs[n]]
  BY <1>1, JoinsRecursive
<1>. HIDE DEF J, N
<1>3. \A n \in 0 .. N : J[n] = IF n = 0 THEN <<>> ELSE J[n - 1] \o seqs[n]
  BY <1>2, Zenon
<1>4. N \in Nat
  BY <1>1 DEF N
<1>5. 0 \in 0 .. N /\ \A n \in 1 .. N : n \in 0 .. N /\ n # 0
  BY <1>4
<1>6. J[0] = <<>>
  BY <1>3, <1>5, Zenon
<1>7. \A n \in 1 .. N : J[n] = J[n - 1] \o seqs[n]
  BY <1>3, <1>5, Zenon
<1>8. ASSUME NEW n \in 0 .. N, n # N
      PROVE  J[n + 1] = J[n] \o seqs[n + 1] /\ seqs[n + 1] \in Seq(S)
  <2>1. PICK m \in 1 .. N : m = n + 1 /\ m - 1 = n
    BY <1>4, <1>8
  <2>2. J[m] = J[m - 1] \o seqs[m] /\ seqs[m] \in Seq(S)
    BY <1>1, <1>7, <2>1, Zenon DEF N
  <2>. QED
    BY <2>1, <2>2, Zenon
<1>. QED
  BY <1>1, <1>6, <1>7, <1>8, Zenon DEF J, N

\* FlattenSeq joins all of them.
LEMMA FlattenSeqJoins ==
    ASSUME NEW S, NEW seqs \in Seq(Seq(S))
    PROVE  FlattenSeq(seqs) = Join(seqs)
<1>. DEFINE J == Joins(seqs)
            N == Len(seqs)
            Defines(f) == f = [i \in 1 .. N |-> IF i = 1 THEN seqs[i] ELSE f[i - 1] \o seqs[i]]
            flat == CHOOSE f : Defines(f)
<1>1. /\ N \in Nat /\ J[0] = <<>>
      /\ \A n \in 1 .. N : J[n] = J[n - 1] \o seqs[n] /\ seqs[n] \in Seq(S)
  BY JoinsStep, Zenon
<1>2. FlattenSeq(seqs) = IF N = 0 THEN seqs ELSE flat[N]
  BY DEF FlattenSeq
<1>3. Join(seqs) = J[N]
  BY DEF Join
<1>4. N = 0 => seqs = <<>>
  OBVIOUS
<1>. HIDE DEF J, N
<1>5. N # 0 => J[1] = seqs[1]
  <2>. SUFFICES ASSUME N # 0 PROVE J[1] = seqs[1]
    OBVIOUS
  <2>1. PICK i \in 1 .. N : i = 1 /\ i - 1 = 0
    BY <1>1
  <2>2. J[i] = J[0] \o seqs[i] /\ seqs[i] \in Seq(S)
    BY <1>1, <2>1, Zenon
  <2>3. <<>> \o seqs[i] = seqs[i]
    BY <2>2, ConcatEmptySeq
  <2>. QED
    BY <1>1, <2>1, <2>2, <2>3, Zenon
<1>6. Defines(flat)
  <2>. DEFINE g == [i \in 1 .. N |-> J[i]]
  <2>1. ASSUME NEW i \in 1 .. N PROVE g[i] = IF i = 1 THEN seqs[i] ELSE g[i - 1] \o seqs[i]
    <3>1. CASE i = 1
      BY <1>1, <1>5, <3>1
    <3>2. CASE i # 1
      <4>1. i - 1 \in 1 .. N
        BY <1>1, <3>2
      <4>2. g[i] = J[i] /\ g[i - 1] = J[i - 1]
        BY <4>1
      <4>3. J[i] = J[i - 1] \o seqs[i]
        BY <1>1
      <4>. QED
        BY <3>2, <4>2, <4>3
    <3>. QED
      BY <3>1, <3>2
  <2>2. g = [i \in 1 .. N |-> g[i]]
    OBVIOUS
  <2>. HIDE DEF g
  <2>3. Defines(g)
    BY <2>1, <2>2
  <2>. HIDE DEF Defines
  <2>. QED
    BY <2>3
<1>. HIDE DEF flat
<1>7. \A i \in 1 .. N : flat[i] = IF i = 1 THEN seqs[i] ELSE flat[i - 1] \o seqs[i]
  BY <1>6, Zenon
<1>. DEFINE T == {n \in Nat : n # 0 => flat[n] = J[n]}
<1>8. 0 \in T
  OBVIOUS
<1>9. ASSUME NEW n \in 0 .. N, n \in T, n # N PROVE n + 1 \in T
  <2>1. PICK i \in 1 .. N : i = n + 1 /\ i - 1 = n
    BY <1>1, <1>9
  <2>2. J[i] = J[n] \o seqs[i] /\ flat[i] = IF i = 1 THEN seqs[i] ELSE flat[n] \o seqs[i]
    BY <1>1, <1>7, <2>1, Zenon
  <2>3. CASE n = 0
    <3>1. i = 1 /\ N # 0
      BY <1>1, <2>1, <2>3
    <3>2. flat[i] = J[i]
      BY <1>5, <2>2, <3>1
    <3>. QED
      BY <2>1, <3>2
  <2>4. CASE n # 0
    <3>1. i # 1 /\ flat[n] = J[n]
      BY <1>1, <1>9, <2>1, <2>4
    <3>2. flat[i] = J[i]
      BY <2>2, <3>1
    <3>. QED
      BY <1>1, <2>1, <3>2
  <2>. QED
    BY <2>3, <2>4
<1>. HIDE DEF T
<1>10. \A n \in 0 .. N : n \in T
  BY <1>1, <1>8, <1>9, InductionUpTo
<1>11. N # 0 => flat[N] = J[N]
  BY <1>1, <1>10 DEF T
<1>. QED
  BY <1>1, <1>2, <1>3, <1>4, <1>11, Zenon

LEMMA JoinsTyped ==
    ASSUME NEW S, NEW seqs \in Seq(Seq(S))
    PROVE  \A n \in 0 .. Len(seqs) : Joins(seqs)[n] \in Seq(S)
<1>. DEFINE J == Joins(seqs)
            N == Len(seqs)
            T == {n \in Nat : J[n] \in Seq(S)}
<1>1. /\ N \in Nat /\ J[0] = <<>>
      /\ \A n \in 0 .. N : n # N => J[n + 1] = J[n] \o seqs[n + 1] /\ seqs[n + 1] \in Seq(S)
  BY JoinsStep, Zenon
<1>. HIDE DEF J, N
<1>2. 0 \in T
  <2>1. J[0] \in Seq(S)
    BY <1>1, EmptySeq
  <2>. QED
    BY <2>1
<1>3. ASSUME NEW n \in 0 .. N, n \in T, n # N PROVE n + 1 \in T
  <2>1. n + 1 \in Nat
    BY <1>1, <1>3
  <2>2. J[n + 1] = J[n] \o seqs[n + 1] /\ seqs[n + 1] \in Seq(S)
    BY <1>1, <1>3, Zenon
  <2>3. J[n] \in Seq(S)
    BY <1>3
  <2>4. J[n + 1] \in Seq(S)
    BY <2>2, <2>3, InARow
  <2>. QED
    BY <2>1, <2>4
<1>. HIDE DEF T
<1>4. \A n \in 0 .. N : n \in T
  BY <1>1, <1>2, <1>3, InductionUpTo
<1>. QED
  BY <1>4, Zenon DEF T, J, N

\* What is joined so far stays in front of what follows.
Starts(s, t) == Len(s) <= Len(t) /\ \A p \in 1 .. Len(s) : t[p] = s[p]

LEMMA JoinsGrow ==
    ASSUME NEW S, NEW seqs \in Seq(Seq(S)), NEW m \in 0 .. Len(seqs)
    PROVE  \A n \in 0 .. Len(seqs) : m <= n => Starts(Joins(seqs)[m], Joins(seqs)[n])
<1>. DEFINE J == Joins(seqs)
            N == Len(seqs)
            T == {n \in Nat : m <= n => Starts(J[m], J[n])}
<1>1. /\ N \in Nat
      /\ \A n \in 0 .. N : n # N => J[n + 1] = J[n] \o seqs[n + 1] /\ seqs[n + 1] \in Seq(S)
  BY JoinsStep, Zenon
<1>2. \A n \in 0 .. N : J[n] \in Seq(S)
  BY JoinsTyped, Zenon
<1>3. m \in 0 .. N
  OBVIOUS
<1>. HIDE DEF J, N
<1>4. \A n \in 0 .. N : Starts(J[n], J[n]) /\ Len(J[n]) \in Nat
  BY <1>2 DEF Starts
<1>5. 0 \in T
  <2>1. m <= 0 => m = 0
    BY <1>1, <1>3
  <2>. QED
    BY <1>1, <1>4, <2>1
<1>6. ASSUME NEW n \in 0 .. N, n \in T, n # N PROVE n + 1 \in T
  <2>1. n + 1 \in Nat /\ n + 1 \in 0 .. N
    BY <1>1, <1>6
  <2>2. J[n + 1] = J[n] \o seqs[n + 1] /\ seqs[n + 1] \in Seq(S) /\ J[n] \in Seq(S)
    BY <1>1, <1>2, <1>6, Zenon
  <2>3. /\ Len(J[n + 1]) = Len(J[n]) + Len(seqs[n + 1])
        /\ Len(J[n]) \in Nat /\ Len(seqs[n + 1]) \in Nat
        /\ \A p \in 1 .. Len(J[n]) : J[n + 1][p] = J[n][p]
    <3>. DEFINE s == J[n]
                t == seqs[n + 1]
                u == J[n + 1]
    <3>1. u = s \o t /\ s \in Seq(S) /\ t \in Seq(S)
      BY <2>2, Zenon
    <3>. HIDE DEF s, t, u
    <3>2. /\ Len(u) = Len(s) + Len(t)
          /\ Len(s) \in Nat /\ Len(t) \in Nat
          /\ \A p \in 1 .. Len(s) : u[p] = s[p]
      BY <3>1, InARow
    <3>. QED
      BY <3>2, Zenon DEF s, t, u
  <2>4. CASE m = n + 1
    BY <1>4, <2>1, <2>4
  <2>5. CASE m <= n
    <3>1. Starts(J[m], J[n]) /\ Len(J[m]) \in Nat
      BY <1>3, <1>4, <1>6, <2>5
    <3>2. Len(J[m]) <= Len(J[n])
      BY <3>1 DEF Starts
    <3>3. ASSUME NEW p \in 1 .. Len(J[m]) PROVE J[n + 1][p] = J[m][p]
      <4>1. p \in 1 .. Len(J[n])
        BY <2>3, <3>1, <3>2
      <4>2. J[n + 1][p] = J[n][p] /\ J[n][p] = J[m][p]
        BY <2>3, <3>1, <4>1, Zenon DEF Starts
      <4>. QED
        BY <4>2
    <3>4. Len(J[m]) <= Len(J[n + 1])
      <4>. DEFINE a == Len(J[m])  b == Len(J[n])  c == Len(seqs[n + 1])  d == Len(J[n + 1])
      <4>1. a \in Nat /\ b \in Nat /\ c \in Nat /\ a <= b /\ d = b + c
        BY <2>3, <3>1, <3>2
      <4>. HIDE DEF a, b, c, d
      <4>2. a <= d
        BY <4>1
      <4>. QED
        BY <4>2 DEF a, d
    <3>. QED
      BY <2>1, <3>3, <3>4 DEF Starts
  <2>6. m <= n + 1 => m <= n \/ m = n + 1
    BY <1>1, <1>3
  <2>. QED
    BY <2>1, <2>4, <2>5, <2>6
<1>. HIDE DEF T
<1>7. \A n \in 0 .. N : n \in T
  BY <1>1, <1>5, <1>6, InductionUpTo
<1>. QED
  BY <1>7, Zenon DEF T, J, N

\* Every element of one of the sequences has its place in the whole, behind
\* those of the sequences before.
LEMMA JoinPlaces ==
    ASSUME NEW S, NEW seqs \in Seq(Seq(S)), NEW i \in 1 .. Len(seqs)
    PROVE  /\ Len(Joins(seqs)[i - 1]) \in Nat /\ Len(seqs[i]) \in Nat
           /\ Len(Joins(seqs)[i]) = Len(Joins(seqs)[i - 1]) + Len(seqs[i])
           /\ Len(Joins(seqs)[i]) <= Len(Join(seqs))
           /\ \A q \in 1 .. Len(seqs[i]) :
                 Join(seqs)[Len(Joins(seqs)[i - 1]) + q] = seqs[i][q]
<1>. DEFINE J == Joins(seqs)
            N == Len(seqs)
            s == seqs[i]
<1>1. N \in Nat /\ J[i] = J[i - 1] \o s /\ s \in Seq(S)
  BY JoinsStep
<1>2. i \in 0 .. N /\ i - 1 \in 0 .. N /\ N \in 0 .. N /\ i <= N
  BY <1>1
<1>3. J[i - 1] \in Seq(S)
  BY <1>2, JoinsTyped
<1>4. Starts(J[i], J[N])
  BY <1>2, JoinsGrow
<1>5. Join(seqs) = J[N]
  BY DEF Join
<1>. HIDE DEF J, N, s
<1>6. /\ Len(J[i]) = Len(J[i - 1]) + Len(s)
      /\ Len(J[i - 1]) \in Nat /\ Len(s) \in Nat
      /\ \A q \in 1 .. Len(s) : J[i][Len(J[i - 1]) + q] = s[q]
  BY <1>1, <1>3, InARow
<1>7. Len(J[i]) <= Len(J[N])
  BY <1>4 DEF Starts
<1>8. ASSUME NEW q \in 1 .. Len(s) PROVE J[N][Len(J[i - 1]) + q] = s[q]
  <2>1. Len(J[i - 1]) + q \in 1 .. Len(J[i])
    BY <1>6
  <2>. QED
    BY <1>4, <1>6, <2>1, Zenon DEF Starts
<1>. QED
  BY <1>5, <1>6, <1>7, <1>8, Zenon DEF J, s

\* There is nothing else in the whole.
LEMMA JoinCovered ==
    ASSUME NEW S, NEW seqs \in Seq(Seq(S)), NEW p \in 1 .. Len(Join(seqs))
    PROVE  \E i \in 1 .. Len(seqs) :
              p - Len(Joins(seqs)[i - 1]) \in 1 .. Len(seqs[i])
<1>. DEFINE J == Joins(seqs)
            N == Len(seqs)
            T == {n \in 0 .. N : p <= Len(J[n])}
<1>1. N \in Nat /\ J[0] = <<>> /\ Join(seqs) = J[N]
  BY JoinsStep DEF Join
<1>2. \A n \in 0 .. N : Len(J[n]) \in Nat
  BY JoinsTyped, LenProperties
<1>3. \A n \in 1 .. N : Len(J[n]) = Len(J[n - 1]) + Len(seqs[n]) /\ Len(seqs[n]) \in Nat
  BY JoinPlaces
<1>4. p \in 1 .. Len(J[N])
  BY <1>1
<1>. HIDE DEF J, N
<1>5. p \in Nat /\ p >= 1 /\ p <= Len(J[N]) /\ N \in 0 .. N
  BY <1>1, <1>2, <1>4
<1>6. PICK i \in T : \A n \in T : i <= n
  <2>1. N \in T /\ T \in SUBSET Nat
    BY <1>1, <1>5
  <2>. HIDE DEF T
  <2>. QED
    BY <2>1, LeastNat
<1>7. i # 0
  <2>1. Len(J[0]) = 0
    BY <1>1
  <2>. QED
    BY <1>5, <1>6, <2>1
<1>8. i \in 1 .. N /\ i - 1 \in 0 .. N /\ i - 1 \notin T
  BY <1>1, <1>6, <1>7
<1>9. p <= Len(J[i]) /\ ~(p <= Len(J[i - 1])) /\ Len(J[i - 1]) \in Nat
  BY <1>2, <1>6, <1>8
<1>10. p - Len(J[i - 1]) \in 1 .. Len(seqs[i])
  <2>1. Len(J[i]) = Len(J[i - 1]) + Len(seqs[i]) /\ Len(seqs[i]) \in Nat
    BY <1>3, <1>8, Zenon
  <2>. DEFINE a == Len(J[i - 1])  b == Len(seqs[i])  c == Len(J[i])
  <2>2. a \in Nat /\ b \in Nat /\ c = a + b /\ p <= c /\ ~(p <= a)
    BY <1>9, <2>1, Zenon
  <2>. HIDE DEF a, b, c
  <2>3. p - a \in 1 .. b
    BY <1>5, <2>2
  <2>. QED
    BY <2>3 DEF a, b
<1>. QED
  BY <1>8, <1>10, Zenon DEF J, N

-----------------------------------------------------------------------------
(***************************************************************************)
(* Where the fields are in the body.                                       *)
(***************************************************************************)

Sent == STRING \cup Char \cup Separators

LEMMA OneElement ==
    ASSUME NEW S, NEW x \in S
    PROVE  <<x>> \in Seq(S) /\ Len(<<x>>) = 1 /\ <<x>>[1] = x
  OBVIOUS

\* Neither a name nor what the browser sends for a value has a separator.
LEMMA NamesAndValues ==
    ASSUME NEW form \in Forms, NEW key \in FormKeys
    PROVE  /\ Name[key] \in Seq(Sent)
           /\ \A q \in 1 .. Len(Name[key]) : Name[key][q] \notin Separators
           /\ Encoded(form[key]) \in Seq(Sent)
           /\ \A q \in 1 .. Len(Encoded(form[key])) : Encoded(form[key])[q] \notin Separators
<1>1. Name[key] \in Seq(STRING) /\ \A q \in DOMAIN Name[key] : Name[key][q] \notin Separators
  BY ConfigFormAssumption
<1>2. Name[key] \in Seq(Sent) /\ \A q \in 1 .. Len(Name[key]) : Name[key][q] \notin Separators
  BY <1>1 DEF Sent
<1>. DEFINE v == form[key]
            S == Char \ Separators
            codes == [i \in DOMAIN v |-> Encode[v[i]]]
<1>3. v \in Seq(DOMAIN Encode)
  <2>1. form \in [FormKeys -> Seq(DOMAIN Encode)]
    BY ConfigFormAssumption
  <2>. QED
    BY <2>1
<1>4. \A c \in DOMAIN Encode : Encode[c] \in Seq(S)
  BY ConfigFormAssumption
<1>. HIDE DEF v, S
<1>5. codes \in Seq(Seq(S))
  <2>1. DOMAIN v = 1 .. Len(v) /\ Len(v) \in Nat
    BY <1>3
  <2>2. \A i \in 1 .. Len(v) : Encode[v[i]] \in Seq(S)
    BY <1>3, <1>4
  <2>3. codes = [i \in 1 .. Len(v) |-> Encode[v[i]]]
    BY <2>1
  <2>. HIDE DEF codes
  <2>. QED
    BY <2>1, <2>2, <2>3
<1>6. Encoded(v) = FlattenSeq(codes)
  BY DEF Encoded
<1>. HIDE DEF codes
<1>7. Len(codes) \in 0 .. Len(codes)
  BY <1>5
<1>8. Encoded(v) \in Seq(S)
  <2>1. FlattenSeq(codes) = Joins(codes)[Len(codes)]
    BY <1>5, FlattenSeqJoins DEF Join
  <2>2. Joins(codes)[Len(codes)] \in Seq(S)
    BY <1>5, <1>7, JoinsTyped
  <2>. QED
    BY <1>6, <2>1, <2>2
<1>9. Encoded(v) \in Seq(Sent) /\ \A q \in 1 .. Len(Encoded(v)) : Encoded(v)[q] \notin Separators
  BY <1>8 DEF S, Sent
<1>. QED
  BY <1>2, <1>9 DEF v

\* A name, "=" and a value.
LEMMA PairShape ==
    ASSUME NEW form \in Forms, NEW key \in FormKeys
    PROVE  LET pair == Pair(form, key)
               name == Name[key]
               sent == Encoded(form[key])
           IN  /\ pair \in Seq(Sent)
               /\ Len(name) \in Nat /\ Len(sent) \in Nat
               /\ Len(pair) = Len(name) + 1 + Len(sent)
               /\ \A q \in 1 .. Len(name) : pair[q] = name[q]
               /\ pair[Len(name) + 1] = "="
               /\ \A q \in 1 .. Len(sent) : pair[Len(name) + 1 + q] = sent[q]
               /\ \A q \in 1 .. Len(pair) : pair[q] # "&"
<1>. DEFINE pair == Pair(form, key)
            name == Name[key]
            sent == Encoded(form[key])
            sign == <<"=">>
            named == name \o sign
<1>1. /\ name \in Seq(Sent) /\ \A q \in 1 .. Len(name) : name[q] \notin Separators
      /\ sent \in Seq(Sent) /\ \A q \in 1 .. Len(sent) : sent[q] \notin Separators
  BY NamesAndValues
<1>2. sign \in Seq(Sent) /\ Len(sign) = 1 /\ sign[1] = "="
  <2>1. "=" \in Sent
    BY DEF Sent, Separators
  <2>. QED
    BY <2>1, OneElement
<1>3. pair = named \o sent
  BY DEF Pair
<1>4. named = name \o sign
  OBVIOUS
<1>. HIDE DEF pair, name, sent, sign, named
<1>5. /\ named \in Seq(Sent) /\ Len(name) \in Nat /\ Len(named) = Len(name) + 1
      /\ \A q \in 1 .. Len(name) : named[q] = name[q]
      /\ \A q \in 1 .. 1 : named[Len(name) + q] = sign[q]
  <2>1. name \in Seq(Sent) /\ sign \in Seq(Sent)
    BY <1>1, <1>2
  <2>2. /\ named \in Seq(Sent) /\ Len(name) \in Nat /\ Len(named) = Len(name) + Len(sign)
        /\ \A q \in 1 .. Len(name) : named[q] = name[q]
        /\ \A q \in 1 .. Len(sign) : named[Len(name) + q] = sign[q]
    BY <2>1, <1>4, InARow
  <2>. QED
    BY <1>2, <2>2, Zenon
<1>6. named[Len(name) + 1] = "="
  BY <1>2, <1>5
<1>7. /\ pair \in Seq(Sent) /\ Len(sent) \in Nat /\ Len(pair) = Len(named) + Len(sent)
      /\ \A q \in 1 .. Len(named) : pair[q] = named[q]
      /\ \A q \in 1 .. Len(sent) : pair[Len(named) + q] = sent[q]
  <2>1. named \in Seq(Sent) /\ sent \in Seq(Sent)
    BY <1>1, <1>5
  <2>. QED
    BY <1>3, <2>1, InARow
<1>. DEFINE n == Len(name)
            m == Len(sent)
            l == Len(pair)
            k == Len(named)
<1>8. n \in Nat /\ m \in Nat /\ k = n + 1 /\ l = k + m
  BY <1>5, <1>7
<1>9. /\ \A q \in 1 .. n : named[q] = name[q] /\ name[q] # "&"
      /\ named[n + 1] = "="
      /\ \A q \in 1 .. k : pair[q] = named[q]
      /\ \A q \in 1 .. m : pair[k + q] = sent[q] /\ sent[q] # "&"
  BY <1>1, <1>5, <1>6, <1>7 DEF Separators
<1>. HIDE DEF n, m, l, k
<1>10. l = n + 1 + m /\ n + 1 = k
  BY <1>8
<1>11. \A q \in 1 .. n : pair[q] = name[q] /\ pair[q] # "&"
  BY <1>8, <1>9
<1>12. pair[n + 1] = "="
  BY <1>8, <1>9
<1>13. \A q \in 1 .. m : pair[n + 1 + q] = sent[q] /\ pair[n + 1 + q] # "&"
  BY <1>9, <1>10
<1>14. ASSUME NEW q \in 1 .. l PROVE pair[q] # "&"
  <2>1. q \in 1 .. n \/ q = n + 1 \/ \E r \in 1 .. m : q = n + 1 + r
    <3>1. CASE q > n + 1
      <4>1. q - (n + 1) \in 1 .. m /\ q = n + 1 + (q - (n + 1))
        BY <1>8, <3>1
      <4>. QED
        BY <4>1
    <3>. QED
      BY <1>8, <3>1
  <2>. QED
    BY <1>11, <1>12, <1>13, <2>1
<1>. QED
  BY <1>7, <1>8, <1>10, <1>11, <1>12, <1>13, <1>14, Zenon DEF pair, name, sent, n, m, l

\* Position before the pair of a field.
Begin(form, i) == Len(Joins(Segments(form))[i - 1]) + (IF i = 1 THEN 0 ELSE 1)

LEMMA SegmentsTyped ==
    ASSUME NEW form \in Forms
    PROVE  /\ Len(FieldOrder) \in Nat /\ Len(Segments(form)) = Len(FieldOrder)
           /\ Segments(form) \in Seq(Seq(Sent))
           /\ \A i \in 1 .. Len(FieldOrder) : FieldOrder[i] \in FormKeys
<1>1. Len(FieldOrder) \in Nat /\ \A i \in 1 .. Len(FieldOrder) : FieldOrder[i] \in FormKeys
  BY ConfigFormAssumption
<1>. DEFINE N == Len(FieldOrder)
            seg(i) == (IF i = 1 THEN <<>> ELSE <<"&">>) \o Pair(form, FieldOrder[i])
<1>2. Segments(form) = [i \in 1 .. N |-> seg(i)]
  BY DEF Segments
<1>3. ASSUME NEW i \in 1 .. N PROVE seg(i) \in Seq(Sent)
  <2>. DEFINE front == IF i = 1 THEN <<>> ELSE <<"&">>
              pair  == Pair(form, FieldOrder[i])
  <2>1. pair \in Seq(Sent)
    BY <1>1, PairShape
  <2>2. "&" \in Sent
    BY DEF Sent, Separators
  <2>3. front \in Seq(Sent)
    BY <2>2, OneElement, EmptySeq
  <2>. HIDE DEF front, pair
  <2>4. front \o pair \in Seq(Sent)
    BY <2>1, <2>3, InARow
  <2>. QED
    BY <2>4 DEF front, pair
<1>. HIDE DEF seg
<1>4. [i \in 1 .. N |-> seg(i)] \in Seq(Seq(Sent)) /\ Len([i \in 1 .. N |-> seg(i)]) = N
  BY <1>1, <1>3
<1>. QED
  BY <1>1, <1>2, <1>4

LEMMA BodyJoins ==
    ASSUME NEW form \in Forms
    PROVE  Body(form) = Join(Segments(form))
  BY SegmentsTyped, FlattenSeqJoins DEF Body

\* One segment: the separator, unless it is the first one, and the pair.
LEMMA SegmentShape ==
    ASSUME NEW form \in Forms, NEW i \in 1 .. Len(FieldOrder)
    PROVE  LET seg  == Segments(form)[i]
               pair == Pair(form, FieldOrder[i])
               d    == IF i = 1 THEN 0 ELSE 1
           IN  /\ Len(pair) \in Nat /\ Len(seg) = d + Len(pair)
               /\ \A q \in 1 .. Len(pair) : seg[d + q] = pair[q]
               /\ i # 1 => seg[1] = "&"
<1>. DEFINE seg   == Segments(form)[i]
            pair  == Pair(form, FieldOrder[i])
            d     == IF i = 1 THEN 0 ELSE 1
            front == IF i = 1 THEN <<>> ELSE <<"&">>
<1>1. seg = front \o pair
  BY DEF Segments
<1>2. pair \in Seq(Sent)
  BY SegmentsTyped, PairShape
<1>3. "&" \in Sent
  BY DEF Sent, Separators
<1>4. front \in Seq(Sent) /\ Len(front) = d /\ (i # 1 => front[1] = "&")
  BY <1>3, OneElement, EmptySeq
<1>5. d \in Nat /\ (i # 1 => d = 1)
  OBVIOUS
<1>. HIDE DEF seg, pair, front, d
<1>6. front \in Seq(Sent)
  BY <1>4
<1>7. /\ Len(pair) \in Nat /\ Len(seg) = Len(front) + Len(pair)
      /\ \A q \in 1 .. Len(front) : seg[q] = front[q]
      /\ \A q \in 1 .. Len(pair) : seg[Len(front) + q] = pair[q]
  BY <1>1, <1>2, <1>6, InARow
<1>8. 1 \in 1 .. 1
  OBVIOUS
<1>9. i # 1 => seg[1] = "&"
  BY <1>4, <1>5, <1>7, <1>8, Zenon
<1>10. /\ Len(pair) \in Nat /\ Len(seg) = d + Len(pair)
       /\ \A q \in 1 .. Len(pair) : seg[d + q] = pair[q]
  BY <1>4, <1>7, Zenon
<1>. QED
  BY <1>9, <1>10, Zenon DEF seg, pair, d

\* The pair of a field is behind its begin, "&" is before it and behind it.
LEMMA PairPlaces ==
    ASSUME NEW form \in Forms, NEW i \in 1 .. Len(FieldOrder)
    PROVE  LET body == Body(form)
               pair == Pair(form, FieldOrder[i])
           IN  /\ body \in Seq(Sent) /\ Len(body) \in Nat /\ Len(pair) \in Nat
               /\ Begin(form, i) \in Nat
               /\ \A q \in 1 .. Len(pair) : body[Begin(form, i) + q] = pair[q]
               /\ i # 1 => Begin(form, i) \in 1 .. Len(body) /\ body[Begin(form, i)] = "&"
               /\ i = 1 => Begin(form, i) = 0
               /\ Begin(form, i) + Len(pair) = Len(Joins(Segments(form))[i])
               /\ Begin(form, i) + Len(pair) <= Len(body)
<1>. DEFINE segs == Segments(form)
            J    == Joins(segs)
            N    == Len(FieldOrder)
            body == Body(form)
            seg  == segs[i]
            pair == Pair(form, FieldOrder[i])
            d    == IF i = 1 THEN 0 ELSE 1
            a    == Len(J[i - 1])
            b    == Begin(form, i)
<1>1. N \in Nat /\ Len(segs) = N /\ segs \in Seq(Seq(Sent)) /\ i \in 1 .. Len(segs)
  BY SegmentsTyped
<1>2. body = J[N] /\ Join(segs) = body /\ J[0] = <<>>
  BY <1>1, JoinsStep, BodyJoins DEF Join
<1>3. b = a + d /\ d \in {0, 1} /\ (i = 1 <=> d = 0)
  BY DEF Begin
<1>4. i = 1 => a = 0
  BY <1>2
<1>5. /\ Len(pair) \in Nat /\ Len(seg) = d + Len(pair)
      /\ \A q \in 1 .. Len(pair) : seg[d + q] = pair[q]
      /\ i # 1 => seg[1] = "&"
  BY SegmentShape
<1>6. /\ a \in Nat /\ Len(seg) \in Nat /\ Len(J[i]) = a + Len(seg)
      /\ Len(J[i]) <= Len(body)
      /\ \A q \in 1 .. Len(seg) : body[a + q] = seg[q]
  <2>. HIDE DEF segs
  <2>1. /\ Len(J[i - 1]) \in Nat /\ Len(segs[i]) \in Nat /\ Len(J[i]) = Len(J[i - 1]) + Len(segs[i])
        /\ Len(J[i]) <= Len(Join(segs))
        /\ \A q \in 1 .. Len(segs[i]) : Join(segs)[Len(J[i - 1]) + q] = segs[i][q]
    BY <1>1, JoinPlaces
  <2>. QED
    BY <1>2, <2>1, Zenon
<1>7. body \in Seq(Sent) /\ Len(body) \in Nat
  <2>1. N \in 0 .. Len(segs)
    BY <1>1
  <2>2. body \in Seq(Sent)
    BY <1>1, <1>2, <2>1, JoinsTyped
  <2>. QED
    BY <2>2, LenProperties
<1>. HIDE DEF segs, J, N, body, seg, pair, d, a, b
<1>. DEFINE l == Len(pair)
            s == Len(seg)
            e == Len(J[i])
            z == Len(body)
<1>8. l \in Nat /\ s = d + l /\ a \in Nat /\ s \in Nat /\ e = a + s /\ e <= z /\ z \in Nat
  BY <1>5, <1>6, <1>7, Zenon
<1>9. /\ \A q \in 1 .. l : seg[d + q] = pair[q]
      /\ \A q \in 1 .. s : body[a + q] = seg[q]
  BY <1>5, <1>6, Zenon
<1>. HIDE DEF l, s, e, z
<1>10. ASSUME NEW q \in 1 .. l PROVE body[b + q] = pair[q]
  <2>1. d + q \in 1 .. s /\ a + (d + q) = b + q
    BY <1>3, <1>8
  <2>2. body[a + (d + q)] = seg[d + q] /\ seg[d + q] = pair[q]
    BY <1>9, <2>1
  <2>. QED
    BY <2>1, <2>2
<1>11. b \in Nat /\ b + l = e /\ (i = 1 => b = 0) /\ e <= z
  BY <1>3, <1>4, <1>8
<1>12. ASSUME i # 1 PROVE b \in 1 .. z /\ body[b] = "&"
  <2>1. d = 1 /\ 1 \in 1 .. s /\ b = a + 1 /\ b \in 1 .. z
    BY <1>3, <1>8, <1>12
  <2>2. body[a + 1] = seg[1] /\ seg[1] = "&"
    BY <1>5, <1>9, <1>12, <2>1
  <2>. QED
    BY <2>1, <2>2
<1>13. b + l <= z /\ l \in Nat /\ z \in Nat
  BY <1>8, <1>11
<1>. QED
  BY <1>7, <1>10, <1>11, <1>12, <1>13, Zenon DEF l, e, z, body, pair, b, J, segs

\* The fields are in their order, the next one behind the "&".
LEMMA PairsInOrder ==
    ASSUME NEW form \in Forms, NEW i \in 1 .. Len(FieldOrder)
    PROVE  LET last == Begin(form, i) + Len(Pair(form, FieldOrder[i]))
           IN  /\ \A j \in 1 .. Len(FieldOrder) : i < j => last < Begin(form, j)
               /\ i # Len(FieldOrder) =>
                     i + 1 \in 1 .. Len(FieldOrder) /\ Begin(form, i + 1) = last + 1
               /\ i = Len(FieldOrder) => last = Len(Body(form))
<1>. DEFINE segs == Segments(form)
            J    == Joins(segs)
            N    == Len(FieldOrder)
            last == Begin(form, i) + Len(Pair(form, FieldOrder[i]))
<1>1. N \in Nat /\ Len(segs) = N /\ segs \in Seq(Seq(Sent))
  BY SegmentsTyped
<1>2. last = Len(J[i])
  BY PairPlaces
<1>3. J[N] = Body(form)
  BY <1>1, BodyJoins DEF Join
<1>4. \A j \in 1 .. N : j # 1 => Begin(form, j) = Len(J[j - 1]) + 1
  BY DEF Begin
<1>5. \A n \in 0 .. N : Len(J[n]) \in Nat
  <2>. HIDE DEF segs
  <2>1. \A n \in 0 .. N : J[n] \in Seq(Sent)
    BY <1>1, JoinsTyped
  <2>. QED
    BY <2>1, LenProperties
<1>6. \A n \in 0 .. N : i <= n => Len(J[i]) <= Len(J[n])
  <2>. HIDE DEF segs
  <2>1. i \in 0 .. Len(segs)
    BY <1>1
  <2>2. \A n \in 0 .. Len(segs) : i <= n => Starts(J[i], J[n])
    BY <1>1, <2>1, JoinsGrow
  <2>. QED
    BY <1>1, <2>2, Zenon DEF Starts
<1>7. i \in 1 .. N
  OBVIOUS
<1>. HIDE DEF segs, J, N, last
<1>8. ASSUME NEW j \in 1 .. N, i < j PROVE last < Begin(form, j)
  <2>1. j # 1 /\ j - 1 \in 0 .. N /\ i <= j - 1
    BY <1>1, <1>7, <1>8
  <2>. DEFINE a == Len(J[i])  b == Len(J[j - 1])
  <2>2. a <= b /\ b \in Nat /\ a \in Nat
    BY <1>1, <1>5, <1>6, <1>7, <2>1
  <2>3. Begin(form, j) = b + 1 /\ last = a
    BY <1>2, <1>4, <2>1, Zenon
  <2>. HIDE DEF a, b
  <2>. QED
    BY <2>2, <2>3
<1>9. ASSUME i # N PROVE i + 1 \in 1 .. N /\ Begin(form, i + 1) = last + 1
  <2>1. PICK j \in 1 .. N : j = i + 1 /\ j # 1 /\ j - 1 = i
    BY <1>1, <1>7, <1>9
  <2>2. Begin(form, j) = Len(J[i]) + 1
    BY <1>4, <2>1
  <2>. QED
    BY <1>2, <2>1, <2>2
<1>10. i = N => last = Len(Body(form))
  BY <1>2, <1>3
<1>. QED
  BY <1>8, <1>9, <1>10, Zenon DEF N, last

\* A "&" of the body is the one before a field.
LEMMA SeparatorPlaces ==
    ASSUME NEW form \in Forms, NEW p \in 1 .. Len(Body(form)), Body(form)[p] = "&"
    PROVE  \E i \in 1 .. Len(FieldOrder) : i # 1 /\ p = Begin(form, i)
<1>. DEFINE segs == Segments(form)
            J    == Joins(segs)
            N    == Len(FieldOrder)
            body == Body(form)
<1>1. N \in Nat /\ Len(segs) = N /\ segs \in Seq(Seq(Sent)) /\ Join(segs) = body
  BY SegmentsTyped, BodyJoins
<1>2. PICK i \in 1 .. N : p - Len(J[i - 1]) \in 1 .. Len(segs[i])
  <2>. HIDE DEF segs
  <2>1. p \in 1 .. Len(Join(segs))
    BY <1>1
  <2>. QED
    BY <1>1, <2>1, JoinCovered
<1>. DEFINE seg  == segs[i]
            pair == Pair(form, FieldOrder[i])
            d    == IF i = 1 THEN 0 ELSE 1
            a    == Len(J[i - 1])
            l    == Len(pair)
            s    == Len(seg)
            b    == Begin(form, i)
            q    == p - a
<1>3. b = a + d /\ d \in {0, 1} /\ (i = 1 <=> d = 0)
  BY DEF Begin
<1>4. l \in Nat /\ s = d + l /\ \A r \in 1 .. l : seg[d + r] = pair[r]
  BY SegmentShape
<1>5. \A r \in 1 .. l : pair[r] # "&"
  BY SegmentsTyped, PairShape
<1>6. a \in Nat /\ \A r \in 1 .. s : body[a + r] = seg[r]
  <2>. HIDE DEF segs
  <2>1. i \in 1 .. Len(segs)
    BY <1>1
  <2>2. a \in Nat /\ \A r \in 1 .. s : Join(segs)[a + r] = seg[r]
    BY <1>1, <2>1, JoinPlaces
  <2>. QED
    BY <1>1, <2>2, Zenon
<1>7. p \in Nat /\ q = p - a /\ q \in 1 .. s /\ body[p] = "&"
  <2>1. Len(Body(form)) \in Nat
    BY PairPlaces
  <2>. QED
    BY <1>2, <2>1
<1>. HIDE DEF segs, J, N, body, seg, pair, d, a, l, s, b, q
<1>8. a + q = p /\ body[p] = seg[q]
  <2>1. a + q = p
    BY <1>6, <1>7
  <2>2. body[a + q] = seg[q]
    BY <1>6, <1>7
  <2>. QED
    BY <2>1, <2>2
<1>9. ~(q - d \in 1 .. l)
  <2>. SUFFICES ASSUME q - d \in 1 .. l PROVE FALSE
    OBVIOUS
  <2>1. d + (q - d) = q
    BY <1>3, <1>4, <1>7
  <2>2. seg[d + (q - d)] = pair[q - d] /\ pair[q - d] # "&"
    BY <1>4, <1>5
  <2>. QED
    BY <1>7, <1>8, <2>1, <2>2
<1>10. i # 1 /\ p = b
  BY <1>3, <1>4, <1>6, <1>7, <1>9
<1>. QED
  BY <1>10, Zenon DEF b, N

-----------------------------------------------------------------------------
(***************************************************************************)
(* What the parser finds in a body that is cut.                            *)
(***************************************************************************)

\* A name is told by the "=" behind it.
LEMMA NameMatch ==
    ASSUME NEW a \in Seq(Sent), \A q \in 1 .. Len(a) : a[q] \notin Separators,
           NEW c \in Seq(Sent), \A q \in 1 .. Len(c) : c[q] \notin Separators,
           NEW f, f[Len(a) + 1] = "=", f[Len(c) + 1] = "=",
           \A q \in 1 .. Len(a) : f[q] = a[q],
           \A q \in 1 .. Len(c) : f[q] = c[q]
    PROVE  a = c
<1>1. Len(a) \in Nat /\ Len(c) \in Nat
  OBVIOUS
<1>2. ~(Len(a) < Len(c))
  <2>. SUFFICES ASSUME Len(a) < Len(c) PROVE FALSE
    OBVIOUS
  <2>1. Len(a) + 1 \in 1 .. Len(c)
    BY <1>1
  <2>2. f[Len(a) + 1] = c[Len(a) + 1] /\ c[Len(a) + 1] \notin Separators
    BY <2>1
  <2>. QED
    BY <2>2 DEF Separators
<1>3. ~(Len(c) < Len(a))
  <2>. SUFFICES ASSUME Len(c) < Len(a) PROVE FALSE
    OBVIOUS
  <2>1. Len(c) + 1 \in 1 .. Len(a)
    BY <1>1
  <2>2. f[Len(c) + 1] = a[Len(c) + 1] /\ a[Len(c) + 1] \notin Separators
    BY <2>1
  <2>. QED
    BY <2>2 DEF Separators
<1>4. Len(a) = Len(c)
  BY <1>1, <1>2, <1>3
<1>5. \A q \in 1 .. Len(a) : a[q] = c[q]
  BY <1>4
<1>. QED
  BY <1>4, <1>5, SeqEqual

LEMMA SmallestIs ==
    ASSUME NEW S \in SUBSET Nat, NEW e \in S, \A m \in S : e <= m
    PROVE  Min(S) = e
<1>1. Min(S) \in S /\ \A m \in S : Min(S) <= m
  BY DEF Min
<1>2. Min(S) \in Nat /\ e \in Nat /\ Min(S) <= e /\ e <= Min(S)
  BY <1>1
<1>. QED
  BY <1>2

LEMMA LargestOfOne == ASSUME NEW e \in Nat PROVE Max({e}) = e
<1>1. Max({e}) \in {e}
  BY DEF Max
<1>. QED
  BY <1>1

\* The elements of a part of a sequence.
LEMMA InTheMiddle ==
    ASSUME NEW S, NEW s \in Seq(S), NEW b \in Nat, NEW l \in Nat, b + l <= Len(s)
    PROVE  /\ SubSeq(s, b + 1, b + l) \in Seq(S) /\ Len(SubSeq(s, b + 1, b + l)) = l
           /\ \A q \in 1 .. l : SubSeq(s, b + 1, b + l)[q] = s[b + q]
<1>. DEFINE m == b + 1
            e == b + l
            part == SubSeq(s, m, e)
<1>1. m \in Int /\ e \in Int /\ e - m + 1 = l /\ (m <= e <=> l # 0)
  OBVIOUS
<1>2. \A i \in m .. e : s[i] \in S
  OBVIOUS
<1>3. \A q \in 1 .. l : m + q - 1 = b + q
  OBVIOUS
<1>. HIDE DEF m, e
<1>4. /\ part \in Seq(S) /\ Len(part) = IF m <= e THEN e - m + 1 ELSE 0
      /\ \A q \in 1 .. e - m + 1 : part[q] = s[m + q - 1]
  BY <1>1, <1>2, SubSeqProperties
<1>. HIDE DEF part
<1>5. part \in Seq(S) /\ Len(part) = l /\ \A q \in 1 .. l : part[q] = s[b + q]
  BY <1>1, <1>3, <1>4
<1>. QED
  BY <1>5, Zenon DEF part, m, e

LEMMA BodyTyped ==
    ASSUME NEW form \in Forms
    PROVE  Body(form) \in Seq(Sent) /\ Len(Body(form)) \in Nat
<1>1. CASE Len(FieldOrder) = 0
  <2>1. Len(Segments(form)) = 0
    BY <1>1, SegmentsTyped
  <2>2. Body(form) = <<>>
    BY <2>1, SegmentsTyped, JoinsStep, BodyJoins DEF Join
  <2>. QED
    BY <2>2
<1>2. CASE Len(FieldOrder) # 0
  <2>1. 1 \in 1 .. Len(FieldOrder)
    BY <1>2, SegmentsTyped
  <2>. QED
    BY <2>1, PairPlaces
<1>. QED
  BY <1>1, <1>2

Cut(form, n) == SubSeq(Body(form), 1, n)

LEMMA CutShape ==
    ASSUME NEW form \in Forms, NEW n \in 1 .. Len(Body(form))
    PROVE  /\ n \in Nat /\ Len(Body(form)) \in Nat
           /\ Cut(form, n) \in Seq(Sent) /\ Len(Cut(form, n)) = n
           /\ \A p \in 1 .. n : Cut(form, n)[p] = Body(form)[p]
           /\ Breaks(Cut(form, n)) = {0, n + 1} \cup {p \in 1 .. n : Body(form)[p] = "&"}
<1>. DEFINE B == Body(form)
            C == Cut(form, n)
<1>1. B \in Seq(Sent) /\ Len(B) \in Nat
  BY BodyTyped
<1>. HIDE DEF B
<1>2. n \in Nat /\ n >= 1 /\ n <= Len(B)
  BY <1>1 DEF B
<1>3. \A p \in 1 .. n : B[p] \in Sent
  BY <1>1, <1>2
<1>4. /\ SubSeq(B, 1, n) \in Seq(Sent) /\ Len(SubSeq(B, 1, n)) = n
      /\ \A p \in 1 .. n : SubSeq(B, 1, n)[p] = B[p]
  BY <1>2, <1>3, SubSeqProperties
<1>5. C \in Seq(Sent) /\ Len(C) = n /\ \A p \in 1 .. n : C[p] = B[p]
  BY <1>4 DEF Cut, B
<1>. HIDE DEF C
<1>6. DOMAIN C = 1 .. n
  BY <1>5
<1>7. Breaks(C) = {0, n + 1} \cup {p \in 1 .. n : B[p] = "&"}
  BY <1>5, <1>6 DEF Breaks
<1>. QED
  BY <1>1, <1>2, <1>5, <1>7, Zenon DEF B, C

\* What is behind a "&" is a pair with the name only if the field has it.
LEMMA NamedInCut ==
    ASSUME NEW form \in Forms, NEW n \in 1 .. Len(Body(form)), NEW key \in FormKeys,
           NEW i \in 1 .. Len(FieldOrder),
           Begin(form, i) + Len(Name[key]) + 1 <= n
    PROVE  LET b == Begin(form, i)
               named == Append(Name[key], "=")
           IN  /\ Len(named) = Len(Name[key]) + 1
               /\ SubSeq(Cut(form, n), b + 1, b + Len(named)) = named <=> FieldOrder[i] = key
<1>. DEFINE B == Body(form)
            C == Cut(form, n)
            b == Begin(form, i)
            a == Name[key]
            k == FieldOrder[i]
            c == Name[k]
            named == Append(a, "=")
            found == SubSeq(C, b + 1, b + Len(named))
            pair == Pair(form, k)
<1>1. k \in FormKeys
  BY SegmentsTyped
<1>2. /\ a \in Seq(Sent) /\ \A q \in 1 .. Len(a) : a[q] \notin Separators
      /\ c \in Seq(Sent) /\ \A q \in 1 .. Len(c) : c[q] \notin Separators
  BY <1>1, NamesAndValues
<1>3. /\ n \in Nat /\ C \in Seq(Sent) /\ Len(C) = n
      /\ \A p \in 1 .. n : C[p] = B[p] /\ C[p] \in Sent
  BY CutShape, ElementOfSeq
<1>4. b \in Nat /\ \A q \in 1 .. Len(pair) : B[b + q] = pair[q]
  BY PairPlaces
<1>5. /\ Len(c) \in Nat /\ Len(Encoded(form[k])) \in Nat
      /\ Len(pair) = Len(c) + 1 + Len(Encoded(form[k]))
      /\ \A q \in 1 .. Len(c) : pair[q] = c[q]
      /\ pair[Len(c) + 1] = "="
  BY <1>1, PairShape
<1>6. Len(a) \in Nat
  BY <1>2
<1>7. /\ named \in Seq(Sent) /\ Len(named) = Len(a) + 1
      /\ \A q \in 1 .. Len(a) : named[q] = a[q]
      /\ named[Len(a) + 1] = "="
  <2>1. "=" \in Sent
    BY DEF Sent, Separators
  <2>. QED
    BY <1>2, <2>1, AppendProperties
<1>8. k = key <=> a = c
  BY <1>1, ConfigFormAssumption
<1>9. b + (Len(a) + 1) <= n
  BY <1>4, <1>3, <1>6
<1>. HIDE DEF B, C, b, a, k, c, named, pair
<1>10. /\ found \in Seq(Sent) /\ Len(found) = Len(named)
       /\ \A q \in 1 .. Len(named) : found[q] = C[b + q]
  <2>1. Len(a) + 1 \in Nat /\ b + (Len(a) + 1) <= Len(C)
    BY <1>3, <1>6, <1>9
  <2>. DEFINE l == Len(named)
  <2>2. l \in Nat /\ b + l <= Len(C)
    BY <1>7, <2>1
  <2>. HIDE DEF l
  <2>3. /\ SubSeq(C, b + 1, b + l) \in Seq(Sent) /\ Len(SubSeq(C, b + 1, b + l)) = l
        /\ \A q \in 1 .. l : SubSeq(C, b + 1, b + l)[q] = C[b + q]
    BY <1>3, <1>4, <2>2, InTheMiddle
  <2>. QED
    BY <2>3, Zenon DEF l
<1>. HIDE DEF found
<1>11. ASSUME k = key PROVE found = named
  <2>1. a = c
    BY <1>8, <1>11
  <2>2. ASSUME NEW q \in 1 .. Len(named) PROVE found[q] = named[q]
    <3>1. q \in 1 .. Len(a) + 1 /\ b + q \in 1 .. n /\ q \in 1 .. Len(pair)
      BY <1>3, <1>4, <1>5, <1>6, <1>7, <1>9, <2>1
    <3>2. found[q] = pair[q]
      BY <1>3, <1>4, <1>10, <3>1
    <3>3. CASE q = Len(a) + 1
      BY <1>5, <1>7, <2>1, <3>2, <3>3
    <3>4. CASE q \in 1 .. Len(a)
      BY <1>5, <1>7, <2>1, <3>2, <3>4
    <3>. QED
      BY <1>6, <3>1, <3>3, <3>4
  <2>. QED
    BY <1>7, <1>10, <2>2, SeqEqual
<1>12. ASSUME found = named PROVE k = key
  <2>. DEFINE f == [q \in 1 .. Len(a) + Len(c) + 1 |-> B[b + q]]
  <2>1. \A q \in 1 .. Len(a) + 1 : f[q] = named[q]
    <3>1. ASSUME NEW q \in 1 .. Len(a) + 1 PROVE f[q] = named[q]
      <4>1. q \in 1 .. Len(named) /\ b + q \in 1 .. n /\ q \in 1 .. Len(a) + Len(c) + 1
        BY <1>3, <1>4, <1>5, <1>6, <1>7, <1>9
      <4>2. f[q] = B[b + q] /\ C[b + q] = B[b + q] /\ found[q] = C[b + q]
        BY <1>3, <1>10, <4>1
      <4>. QED
        BY <1>12, <4>2
    <3>. QED
      BY <3>1
  <2>2. \A q \in 1 .. Len(c) + 1 : f[q] = pair[q]
    <3>1. ASSUME NEW q \in 1 .. Len(c) + 1 PROVE f[q] = pair[q]
      <4>1. q \in 1 .. Len(pair) /\ q \in 1 .. Len(a) + Len(c) + 1
        BY <1>5, <1>6
      <4>. QED
        BY <1>4, <4>1
    <3>. QED
      BY <3>1
  <2>. HIDE DEF f
  <2>3. (\A q \in 1 .. Len(a) : f[q] = a[q]) /\ f[Len(a) + 1] = "="
    <3>1. Len(a) + 1 \in 1 .. Len(a) + 1 /\ \A q \in 1 .. Len(a) : q \in 1 .. Len(a) + 1
      BY <1>6
    <3>. QED
      BY <1>7, <2>1, <3>1, Zenon
  <2>4. (\A q \in 1 .. Len(c) : f[q] = c[q]) /\ f[Len(c) + 1] = "="
    <3>1. Len(c) + 1 \in 1 .. Len(c) + 1 /\ \A q \in 1 .. Len(c) : q \in 1 .. Len(c) + 1
      BY <1>5
    <3>. QED
      BY <1>5, <2>2, <3>1, Zenon
  <2>5. a = c
    BY <1>2, <2>3, <2>4, NameMatch
  <2>. QED
    BY <1>8, <2>5
<1>. QED
  BY <1>7, <1>11, <1>12, Zenon DEF found, named, a, b, C, k

\* The field of a key is the only pair with its name, once its "=" has arrived.
LEMMA PairsOfCut ==
    ASSUME NEW form \in Forms, NEW n \in 1 .. Len(Body(form)),
           NEW i \in 1 .. Len(FieldOrder)
    PROVE  LET key == FieldOrder[i]
           IN  Pairs(Cut(form, n), key) = IF Begin(form, i) + Len(Name[key]) + 1 <= n
                                          THEN {Begin(form, i)} ELSE {}
<1>. DEFINE B == Body(form)
            C == Cut(form, n)
            N == Len(FieldOrder)
            key == FieldOrder[i]
            a == Len(Name[key])
            named == Append(Name[key], "=")
            P == Pairs(C, key)
<1>1. key \in FormKeys /\ N \in Nat
  BY SegmentsTyped
<1>2. a \in Nat
  BY <1>1, PairShape
<1>3. /\ n \in Nat /\ Len(B) \in Nat /\ n <= Len(B) /\ Len(C) = n
      /\ Breaks(C) = {0, n + 1} \cup {p \in 1 .. n : B[p] = "&"}
  BY CutShape
<1>4. Len(named) = a + 1
  <2>1. Name[key] \in Seq(STRING)
    BY <1>1, ConfigFormAssumption
  <2>. QED
    BY <2>1
<1>5. P = {p \in Breaks(C) : p + Len(named) <= Len(C) /\ SubSeq(C, p + 1, p + Len(named)) = named}
  BY DEF Pairs
<1>6. ASSUME NEW j \in 1 .. N, Begin(form, j) + a + 1 <= n
      PROVE  SubSeq(C, Begin(form, j) + 1, Begin(form, j) + Len(named)) = named <=> FieldOrder[j] = key
  BY <1>1, <1>6, NamedInCut
<1>7. \A j \in 1 .. N :
        /\ Begin(form, j) \in Nat
        /\ j = 1 => Begin(form, j) = 0
        /\ j # 1 => Begin(form, j) \in 1 .. Len(B) /\ B[Begin(form, j)] = "&"
  BY PairPlaces
<1>8. \A p \in 1 .. Len(B) : B[p] = "&" => \E j \in 1 .. N : p = Begin(form, j)
  BY SeparatorPlaces
<1>9. \A j \in 1 .. N : FieldOrder[j] = key => j = i
  <2>1. \A j \in 1 .. N : j \in DOMAIN FieldOrder
    BY ConfigFormAssumption
  <2>. QED
    BY <2>1, ConfigFormAssumption
<1>10. i \in 1 .. N
  OBVIOUS
<1>. HIDE DEF B, C, N, key, a, named, P
<1>11. ASSUME NEW p \in P
       PROVE  p = Begin(form, i) /\ Begin(form, i) + a + 1 <= n
  <2>1. p \in Breaks(C) /\ p + (a + 1) <= n /\ SubSeq(C, p + 1, p + Len(named)) = named
    BY <1>3, <1>4, <1>5
  <2>2. p = 0 \/ (p \in 1 .. n /\ B[p] = "&")
    BY <1>2, <1>3, <2>1
  <2>3. PICK j \in 1 .. N : p = Begin(form, j)
    <3>1. CASE p = 0
      <4>1. 1 \in 1 .. N
        BY <1>1, <1>10
      <4>. QED
        BY <1>7, <3>1, <4>1
    <3>2. CASE p \in 1 .. n /\ B[p] = "&"
      BY <1>3, <1>8, <3>2
    <3>. QED
      BY <2>2, <3>1, <3>2
  <2>4. Begin(form, j) + a + 1 <= n
    BY <1>2, <1>7, <2>1, <2>3
  <2>5. FieldOrder[j] = key
    BY <1>6, <2>1, <2>3, <2>4
  <2>. QED
    BY <1>9, <2>3, <2>4, <2>5
<1>12. ASSUME Begin(form, i) + a + 1 <= n PROVE Begin(form, i) \in P
  <2>. DEFINE b == Begin(form, i)
  <2>1. b \in Nat /\ (i = 1 => b = 0) /\ (i # 1 => b \in 1 .. Len(B) /\ B[b] = "&")
    BY <1>7, <1>10
  <2>2. b + a + 1 <= n
    BY <1>12
  <2>3. SubSeq(C, b + 1, b + Len(named)) = named
    BY <1>6, <1>10, <1>12 DEF key
  <2>. HIDE DEF b
  <2>4. b <= n /\ b + (a + 1) <= n
    BY <1>2, <1>3, <2>1, <2>2
  <2>5. b \in Breaks(C)
    BY <1>3, <2>1, <2>4
  <2>6. b + Len(named) <= Len(C)
    BY <1>3, <1>4, <2>4
  <2>. QED
    BY <1>5, <2>3, <2>5, <2>6, Zenon DEF b
<1>13. P = IF Begin(form, i) + a + 1 <= n THEN {Begin(form, i)} ELSE {}
  BY <1>11, <1>12
<1>. QED
  BY <1>13, Zenon DEF P, C, key, a

\* The pair of a field ends where the field does, or where the body is cut.
LEMMA EndOfCut ==
    ASSUME NEW form \in Forms, NEW n \in 1 .. Len(Body(form)),
           NEW i \in 1 .. Len(FieldOrder), Begin(form, i) <= n
    PROVE  LET last == Begin(form, i) + Len(Pair(form, FieldOrder[i]))
           IN  Min({p \in Breaks(Cut(form, n)) : p > Begin(form, i)})
                 = IF last < n THEN last + 1 ELSE n + 1
<1>. DEFINE B == Body(form)
            C == Cut(form, n)
            N == Len(FieldOrder)
            b == Begin(form, i)
            last == b + Len(Pair(form, FieldOrder[i]))
            S == {p \in Breaks(C) : p > b}
            e == IF last < n THEN last + 1 ELSE n + 1
<1>1. N \in Nat /\ i \in 1 .. N
  BY SegmentsTyped
<1>2. /\ n \in Nat /\ Len(B) \in Nat /\ n <= Len(B)
      /\ Breaks(C) = {0, n + 1} \cup {p \in 1 .. n : B[p] = "&"}
  BY CutShape
<1>3. b \in Nat /\ last \in Nat /\ b <= n /\ b <= last
  BY PairPlaces
<1>4. \A j \in 1 .. N : Begin(form, j) \in Nat /\ (j # 1 => B[Begin(form, j)] = "&")
  BY PairPlaces
<1>5. \A p \in 1 .. Len(B) : B[p] = "&" => \E j \in 1 .. N : p = Begin(form, j)
  BY SeparatorPlaces
<1>6. /\ \A j \in 1 .. N : i < j => last < Begin(form, j)
      /\ i # N => i + 1 \in 1 .. N /\ Begin(form, i + 1) = last + 1
      /\ i = N => last = Len(B)
  BY PairsInOrder
<1>7. \A j \in 1 .. N : j < i => Begin(form, j) < b
  <2>1. ASSUME NEW j \in 1 .. N, j < i PROVE Begin(form, j) < b
    <3>. DEFINE l == Len(Pair(form, FieldOrder[j]))
                c == Begin(form, j)
    <3>1. c + l < b
      BY <1>1, <2>1, PairsInOrder
    <3>2. c \in Nat /\ l \in Nat
      BY PairPlaces
    <3>. HIDE DEF l, c, b
    <3>3. c < b
      BY <1>3, <3>1, <3>2
    <3>. QED
      BY <3>3 DEF c
  <2>. QED
    BY <2>1
<1>. HIDE DEF B, C, N, b, last
<1>8. S \in SUBSET Nat
  BY <1>2
<1>9. e \in S
  <2>1. CASE last < n
    <3>1. i # N
      BY <1>2, <1>6, <2>1, <1>3
    <3>2. i + 1 \in 1 .. N /\ i + 1 # 1 /\ Begin(form, i + 1) = last + 1
      BY <1>1, <1>6, <3>1
    <3>3. B[last + 1] = "&"
      BY <1>4, <3>2
    <3>4. last + 1 \in 1 .. n /\ last + 1 > b
      BY <1>2, <1>3, <2>1
    <3>. QED
      BY <1>2, <2>1, <3>3, <3>4
  <2>2. CASE ~(last < n)
    BY <1>2, <1>3, <2>2
  <2>. QED
    BY <2>1, <2>2
<1>10. ASSUME NEW p \in S PROVE e <= p
  <2>1. p > b /\ (p = n + 1 \/ (p \in 1 .. n /\ B[p] = "&"))
    BY <1>2, <1>3
  <2>2. CASE p = n + 1
    BY <1>2, <1>3, <2>2
  <2>3. CASE p \in 1 .. n /\ B[p] = "&"
    <3>1. PICK j \in 1 .. N : p = Begin(form, j)
      BY <1>2, <1>5, <2>3
    <3>2. ~(j < i)
      <4>. SUFFICES ASSUME j < i PROVE FALSE
        OBVIOUS
      <4>1. p < b
        BY <1>7, <3>1
      <4>. QED
        BY <1>3, <2>1, <2>3, <4>1
    <3>3. j # i
      <4>. SUFFICES ASSUME j = i PROVE FALSE
        OBVIOUS
      <4>1. p = b
        BY <3>1 DEF b
      <4>. QED
        BY <1>3, <2>1, <4>1
    <3>4. i < j
      BY <1>1, <3>2, <3>3
    <3>5. last < p
      BY <1>6, <3>1, <3>4
    <3>. QED
      BY <1>2, <1>3, <2>3, <3>5
  <2>. QED
    BY <2>1, <2>2, <2>3
<1>. HIDE DEF S, e
<1>11. Min(S) = e
  BY <1>8, <1>9, <1>10, SmallestIs
<1>. QED
  BY <1>11, Zenon DEF S, e, C, b, last

\* Of a body that is cut anywhere a key gets the beginning of what was sent for
\* its field, of one that is complete the whole of it.
LEMMA ValueOfCut ==
    ASSUME NEW form \in Forms, NEW n \in 1 .. Len(Body(form)), NEW key \in FormKeys
    PROVE  LET sent == Encoded(form[key])
           IN  \E m \in 0 .. Len(sent) :
                  /\ GetValue(Cut(form, n), key) = SubSeq(sent, 1, m)
                  /\ n = Len(Body(form)) => m = Len(sent)
<1>. DEFINE B == Body(form)
            C == Cut(form, n)
            N == Len(FieldOrder)
            sent == Encoded(form[key])
            P == Pairs(C, key)
            a == Len(Name[key])
            l == Len(sent)
<1>1. PICK i \in 1 .. N : FieldOrder[i] = key
  <2>1. \E i \in DOMAIN FieldOrder : FieldOrder[i] = key
    BY ConfigFormAssumption DEF ToSet
  <2>2. DOMAIN FieldOrder = 1 .. N
    BY ConfigFormAssumption
  <2>. QED
    BY <2>1, <2>2
<1>. DEFINE b == Begin(form, i)
            pair == Pair(form, key)
            last == b + Len(pair)
<1>2. /\ n \in Nat /\ Len(B) \in Nat /\ n <= Len(B)
      /\ C \in Seq(Sent) /\ Len(C) = n /\ \A p \in 1 .. n : C[p] = B[p]
  BY CutShape
<1>3. /\ b \in Nat /\ last <= Len(B)
      /\ \A q \in 1 .. Len(pair) : B[b + q] = pair[q]
  BY <1>1, PairPlaces
<1>4. /\ a \in Nat /\ l \in Nat /\ Len(pair) = a + 1 + l
      /\ \A q \in 1 .. l : pair[a + 1 + q] = sent[q]
  BY PairShape
<1>5. P = IF b + a + 1 <= n THEN {b} ELSE {}
  BY <1>1, PairsOfCut
<1>6. b <= n => Min({p \in Breaks(C) : p > b}) = IF last < n THEN last + 1 ELSE n + 1
  BY <1>1, EndOfCut
<1>7. sent \in Seq(Sent)
  BY NamesAndValues
<1>8. GetValue(C, key) = IF P = {} THEN <<>>
                         ELSE SubSeq(C, Max(P) + a + 2,
                                     Min({p \in Breaks(C) : p > Max(P)}) - 1)
  BY DEF GetValue
<1>9. last = b + (a + 1 + l)
  BY <1>4
<1>. HIDE DEF B, C, N, sent, P, a, l, b, pair, last
<1>10. \A m \in 0 .. l : /\ SubSeq(sent, 1, m) \in Seq(Sent) /\ Len(SubSeq(sent, 1, m)) = m
                         /\ \A q \in 1 .. m : SubSeq(sent, 1, m)[q] = sent[q]
  <2>. SUFFICES ASSUME NEW m \in 0 .. l
                PROVE  /\ SubSeq(sent, 1, m) \in Seq(Sent) /\ Len(SubSeq(sent, 1, m)) = m
                       /\ \A q \in 1 .. m : SubSeq(sent, 1, m)[q] = sent[q]
    OBVIOUS
  <2>1. m \in Nat /\ 0 + m = m /\ 0 + m <= Len(sent) /\ 0 + 1 = 1 /\ \A q \in 1 .. m : 0 + q = q
    BY <1>4 DEF l
  <2>2. /\ SubSeq(sent, 0 + 1, 0 + m) \in Seq(Sent) /\ Len(SubSeq(sent, 0 + 1, 0 + m)) = m
        /\ \A q \in 1 .. m : SubSeq(sent, 0 + 1, 0 + m)[q] = sent[0 + q]
    BY <1>7, <2>1, InTheMiddle
  <2>. QED
    BY <2>1, <2>2
<1>11. CASE b + a + 1 <= n
  <2>1. P = {b} /\ P # {} /\ Max(P) = b
    BY <1>3, <1>5, <1>11, LargestOfOne
  <2>. DEFINE end == IF last < n THEN last ELSE n
              d   == b + a + 1
              m   == end - d
  <2>2. b <= n
    BY <1>2, <1>3, <1>4, <1>11
  <2>3. Min({p \in Breaks(C) : p > b}) - 1 = end
    <3>1. last \in Nat
      BY <1>3, <1>4, <1>9
    <3>. QED
      BY <1>2, <1>6, <2>2, <3>1
  <2>4. GetValue(C, key) = SubSeq(C, b + a + 2, end)
    BY <1>8, <2>1, <2>3
  <2>5. d \in Nat /\ d + 1 = b + a + 2 /\ d + m = end /\ m \in 0 .. l /\ d + m <= n /\ m \in Nat
    BY <1>2, <1>3, <1>4, <1>9, <1>11
  <2>6. n = Len(B) => m = l
    BY <1>2, <1>3, <1>4, <1>9
  <2>7. \A q \in 1 .. m : d + q \in 1 .. n /\ d + q = b + (a + 1 + q) /\ a + 1 + q \in 1 .. Len(pair) /\ q \in 1 .. l
    BY <1>2, <1>3, <1>4, <2>5
  <2>. HIDE DEF end, d, m
  <2>8. /\ SubSeq(C, d + 1, d + m) \in Seq(Sent) /\ Len(SubSeq(C, d + 1, d + m)) = m
        /\ \A q \in 1 .. m : SubSeq(C, d + 1, d + m)[q] = C[d + q]
    BY <1>2, <2>5, InTheMiddle
  <2>9. ASSUME NEW q \in 1 .. m PROVE SubSeq(C, d + 1, d + m)[q] = SubSeq(sent, 1, m)[q]
    <3>1. d + q \in 1 .. n /\ d + q = b + (a + 1 + q) /\ a + 1 + q \in 1 .. Len(pair) /\ q \in 1 .. l
      BY <2>7
    <3>2. SubSeq(C, d + 1, d + m)[q] = C[d + q] /\ C[d + q] = B[d + q]
      BY <1>2, <2>8, <3>1
    <3>3. B[b + (a + 1 + q)] = pair[a + 1 + q] /\ pair[a + 1 + q] = sent[q]
      BY <1>3, <1>4, <3>1
    <3>4. SubSeq(sent, 1, m)[q] = sent[q]
      BY <1>10, <2>5
    <3>. QED
      BY <3>1, <3>2, <3>3, <3>4
  <2>10. SubSeq(sent, 1, m) \in Seq(Sent) /\ Len(SubSeq(sent, 1, m)) = m
    BY <1>10, <2>5
  <2>11. SubSeq(C, d + 1, d + m) = SubSeq(sent, 1, m)
    BY <2>8, <2>9, <2>10, SeqEqual
  <2>12. GetValue(C, key) = SubSeq(sent, 1, m)
    BY <2>4, <2>5, <2>11
  <2>. QED
    BY <2>5, <2>6, <2>12, Zenon DEF B, C, sent, l
<1>12. CASE ~(b + a + 1 <= n)
  <2>1. GetValue(C, key) = <<>>
    BY <1>5, <1>8, <1>12
  <2>2. 0 \in 0 .. l
    BY <1>4
  <2>3. SubSeq(sent, 1, 0) = <<>>
    BY <1>10, <2>2
  <2>4. n # Len(B)
    BY <1>2, <1>3, <1>4, <1>9, <1>12
  <2>. QED
    BY <2>1, <2>2, <2>3, <2>4, Zenon DEF B, C, sent, l
<1>. QED
  BY <1>11, <1>12

-----------------------------------------------------------------------------
(***************************************************************************)
(* The form: its invariant.                                                *)
(***************************************************************************)

Requests ==
    [form : Forms, body : Seq(Sent), written : 0 .. Len(WriteOrder), stored : SUBSET FormKeys]

\* The request is some of what was sent for a form.
RequestTyped ==
    request # NoRequest =>
        /\ request \in Requests
        /\ \E n \in 1 .. Len(Body(request.form)) : request.body = Cut(request.form, n)

\* The server is inside a call only to write the next field.
InHand ==
    call[Server] # NoCall =>
        /\ request # NoRequest /\ request.written # Len(WriteOrder)
        /\ call[Server].step \in {"set", "commit"}
        /\ call[Server].key = WriteOrder[request.written + 1]
        /\ call[Server].value = GetValue(request.body, call[Server].key)

\* No other task writes a field.
OthersKeepOff ==
    \A t \in Tasks \ {Server} :
        call[t].step \in {"set", "commit"} => call[t].key \notin FormKeys

\* A field that was written stays as the body has it, in flash too.
StoredInFlash ==
    request # NoRequest =>
        \A k \in request.stored : /\ nvs[k] = GetValue(request.body, k)
                                  /\ flash[k] = nvs[k]

FormInv == KeyValInv /\ RequestTyped /\ InHand /\ OthersKeepOff /\ StoredInFlash

\* The form is stored under strings, in the order of the handler.
LEMMA FieldKeys ==
    /\ Server \in Tasks
    /\ Len(WriteOrder) \in Nat
    /\ \A i \in 1 .. Len(WriteOrder) : WriteOrder[i] \in FormKeys
    /\ FormKeys \subseteq StringKeys
    /\ FormKeys \subseteq Key
<1>1. WriteOrder \in Seq(StringKeys)
  BY ConfigFormAssumption
<1>2. DOMAIN WriteOrder = 1 .. Len(WriteOrder) /\ Len(WriteOrder) \in Nat
  BY <1>1
<1>3. FormKeys \subseteq StringKeys
  BY <1>1, <1>2 DEF FormKeys, ToSet
<1>. QED
  BY <1>2, <1>3, ConfigFormAssumption DEF FormKeys, ToSet, Key

\* What a field gets is a value of the store.
LEMMA FieldValue ==
    ASSUME NEW form \in Forms, NEW n \in 1 .. Len(Body(form)), NEW key \in FormKeys
    PROVE  GetValue(Cut(form, n), key) \in Value
<1>1. PICK m \in 0 .. Len(Encoded(form[key])) :
         GetValue(Cut(form, n), key) = SubSeq(Encoded(form[key]), 1, m)
  BY ValueOfCut
<1>. QED
  BY <1>1, ConfigFormAssumption

\* The invariant implies what the runs check.
LEMMA InvStored == FormInv => FieldsStored
<1>. SUFFICES ASSUME FormInv, Handled, NEW k \in request.stored
              PROVE  LET sent == Encoded(request.form[k])
                     IN  /\ nvs[k] = flash[k]
                         /\ IF request.body = Body(request.form) THEN nvs[k] = sent
                            ELSE IsPrefix(nvs[k], sent)
  BY DEF FieldsStored
<1>. DEFINE form == request.form
            sent == Encoded(form[k])
<1>1. form \in Forms /\ k \in FormKeys /\ request # NoRequest
  BY DEF FormInv, RequestTyped, Requests, Handled
<1>2. PICK n \in 1 .. Len(Body(form)) : request.body = Cut(form, n)
  BY <1>1 DEF FormInv, RequestTyped
<1>3. nvs[k] = flash[k] /\ nvs[k] = GetValue(request.body, k)
  BY <1>1 DEF FormInv, StoredInFlash
<1>. HIDE DEF form
<1>4. PICK m \in 0 .. Len(sent) : /\ GetValue(Cut(form, n), k) = SubSeq(sent, 1, m)
                                  /\ n = Len(Body(form)) => m = Len(sent)
  BY <1>1, ValueOfCut
<1>5. nvs[k] = SubSeq(sent, 1, m)
  BY <1>2, <1>3, <1>4
<1>6. IsPrefix(nvs[k], sent)
  <2>1. sent \in Seq(Sent)
    BY <1>1, NamesAndValues
  <2>. HIDE DEF sent
  <2>. DEFINE front == SubSeq(sent, 1, m)
  <2>2. Len(front) = m /\ m <= Len(sent) /\ front \in Seq(Sent)
    BY <2>1
  <2>. HIDE DEF front
  <2>3. SubSeq(front, 1, Len(front)) = front
    BY <2>2
  <2>4. nvs[k] = front /\ front = SubSeq(sent, 1, Len(front))
    BY <1>5, <2>2 DEF front
  <2>. QED
    BY <2>2, <2>3, <2>4, Zenon DEF IsPrefix
<1>7. ASSUME request.body = Body(form) PROVE nvs[k] = sent
  <2>1. n = Len(Body(form))
    BY <1>1, <1>2, <1>7, CutShape
  <2>2. sent \in Seq(Sent)
    BY <1>1, NamesAndValues
  <2>. HIDE DEF sent
  <2>3. Len(sent) \in Nat /\ m = Len(sent)
    BY <1>4, <2>1, <2>2
  <2>4. SubSeq(sent, 1, Len(sent)) = sent
    BY <2>2
  <2>. QED
    BY <1>5, <2>3, <2>4
<1>. QED
  BY <1>3, <1>6, <1>7, Zenon DEF form

LEMMA FormInvInit == FormInit => FormInv
<1>. SUFFICES ASSUME FormInit PROVE FormInv
  OBVIOUS
<1>1. KeyValInv
  BY InvInit DEF FormInit
<1>2. \A t \in Tasks : call[t] = NoCall
  BY DEF FormInit, KeyValInit
<1>3. RequestTyped /\ StoredInFlash
  BY DEF FormInit, RequestTyped, StoredInFlash
<1>4. InHand /\ OthersKeepOff
  BY <1>2, FieldKeys DEF InHand, OthersKeepOff, NoCall
<1>. QED
  BY <1>1, <1>3, <1>4 DEF FormInv

-----------------------------------------------------------------------------
(***************************************************************************)
(* The steps of the form are steps of the store.                           *)
(***************************************************************************)

\* The value the server writes is one of the store.
LEMMA WriteFieldWrites ==
    ASSUME FormInv, WriteField
    PROVE  LET key == WriteOrder[request.written + 1]
           IN  /\ key \in FormKeys
               /\ GetValue(request.body, key) \in Value
               /\ Write(Server, key, GetValue(request.body, key))
<1>. DEFINE key == WriteOrder[request.written + 1]
<1>1. /\ request # NoRequest /\ request.written # Len(WriteOrder)
      /\ Write(Server, key, GetValue(request.body, key))
  BY DEF WriteField, Handled
<1>2. /\ request \in Requests
      /\ \E n \in 1 .. Len(Body(request.form)) : request.body = Cut(request.form, n)
  BY <1>1 DEF FormInv, RequestTyped
<1>3. request.written + 1 \in 1 .. Len(WriteOrder) /\ request.form \in Forms
  BY <1>1, <1>2, FieldKeys DEF Requests
<1>4. key \in FormKeys
  BY <1>3, FieldKeys
<1>. HIDE DEF key
<1>5. GetValue(request.body, key) \in Value
  BY <1>2, <1>3, <1>4, FieldValue
<1>. QED
  BY <1>1, <1>4, <1>5 DEF key

LEMMA FormStepsRefine == FormInv /\ [FormNext]_formvars => [KeyValNext]_kvvars
<1>. SUFFICES ASSUME FormInv, [FormNext]_formvars PROVE [KeyValNext]_kvvars
  OBVIOUS
<1>1. ASSUME NEW f \in Forms, ReceiveForm(f) PROVE [KeyValNext]_kvvars
  BY <1>1 DEF ReceiveForm
<1>2. CASE WriteField
  <2>. DEFINE key == WriteOrder[request.written + 1]
              value == GetValue(request.body, key)
  <2>1. key \in Key /\ value \in Value /\ Write(Server, key, value) /\ Server \in Tasks
    BY <1>2, WriteFieldWrites, FieldKeys
  <2>. HIDE DEF key, value
  <2>. QED
    BY <2>1 DEF KeyValNext
<1>3. CASE ServerStep
  BY <1>3, FieldKeys DEF ServerStep, KeyValNext
<1>4. ASSUME NEW t \in Tasks \ {Server}, OtherTask(t) PROVE [KeyValNext]_kvvars
  <2>1. InCall(t) \/ (\E k \in Key : ReadString(t, k) \/ ReadUint32(t, k))
        \/ (\E k \in Key, v \in Value : Write(t, k, v))
    BY <1>4 DEF OtherTask
  <2>. QED
    BY <2>1 DEF KeyValNext
<1>5. CASE FormReset
  BY <1>5 DEF FormReset, KeyValNext
<1>6. CASE UNCHANGED formvars
  BY <1>6 DEF formvars
<1>. QED
  BY <1>1, <1>2, <1>3, <1>4, <1>5, <1>6 DEF FormNext

-----------------------------------------------------------------------------
(***************************************************************************)
(* The invariant is kept by every step.                                    *)
(***************************************************************************)

\* When nobody is inside, the parts about calls hold.
LEMMA NobodyInside ==
    ASSUME \A t \in Tasks : call[t] = NoCall
    PROVE  InHand /\ OthersKeepOff
  BY FieldKeys DEF InHand, OthersKeepOff, NoCall

LEMMA ReceiveFormKeepsInv ==
    ASSUME FormInv, NEW f \in Forms, ReceiveForm(f), KeyValInv'
    PROVE  FormInv'
<1>1. PICK n \in 1 .. Len(Body(f)) :
         request' = [form |-> f, body |-> SubSeq(Body(f), 1, n), written |-> 0, stored |-> {}]
  <2>1. Len(Body(f)) \in Nat /\ MaxBody \in Nat
    BY BodyTyped, ConfigFormAssumption
  <2>2. Min({Len(Body(f)), MaxBody}) <= Len(Body(f)) /\ Min({Len(Body(f)), MaxBody}) \in Nat
    BY <2>1 DEF Min
  <2>3. 1 .. Min({Len(Body(f)), MaxBody}) \subseteq 1 .. Len(Body(f))
    BY <2>1, <2>2
  <2>. QED
    BY <2>3 DEF ReceiveForm
<1>2. call' = call /\ nvs' = nvs /\ flash' = flash
  BY DEF ReceiveForm, kvvars
<1>3. request'.form = f /\ request'.body = Cut(f, n) /\ request'.stored = {}
  BY <1>1 DEF Cut
<1>4. RequestTyped'
  <2>1. Cut(f, n) \in Seq(Sent)
    BY CutShape
  <2>2. request' \in Requests
    BY <1>1, <2>1, FieldKeys DEF Requests, Cut
  <2>. QED
    BY <1>3, <2>2 DEF RequestTyped
<1>5. InHand'
  <2>1. call[Server] = NoCall
    BY DEF FormInv, InHand, ReceiveForm, Handled
  <2>. QED
    BY <1>2, <2>1 DEF InHand
<1>6. OthersKeepOff'
  BY <1>2 DEF FormInv, OthersKeepOff
<1>7. StoredInFlash'
  BY <1>3 DEF StoredInFlash
<1>. QED
  BY <1>4, <1>5, <1>6, <1>7 DEF FormInv

LEMMA WriteFieldKeepsInv ==
    ASSUME FormInv, WriteField, KeyValInv'
    PROVE  FormInv'
<1>. DEFINE key == WriteOrder[request.written + 1]
            c   == [step |-> "set", key |-> key, value |-> GetValue(request.body, key)]
<1>1. /\ request # NoRequest /\ request.written # Len(WriteOrder)
      /\ request' = request /\ nvs' = nvs /\ flash' = flash
      /\ call' = [call EXCEPT ![Server] = c]
  BY DEF WriteField, Handled, Write, Lock
<1>2. call'[Server] = c /\ \A t \in Tasks \ {Server} : call'[t] = call[t]
  BY <1>1, FieldKeys DEF FormInv, KeyValInv, Typed
<1>3. /\ c.step = "set" /\ c.key = key /\ c.value = GetValue(request.body, key)
  OBVIOUS
<1>. HIDE DEF c, key
<1>4. InHand'
  BY <1>1, <1>2, <1>3 DEF InHand, key
<1>5. OthersKeepOff'
  BY <1>2 DEF FormInv, OthersKeepOff
<1>6. RequestTyped' /\ StoredInFlash'
  BY <1>1 DEF FormInv, RequestTyped, StoredInFlash
<1>. QED
  BY <1>4, <1>5, <1>6 DEF FormInv

\* What another task sets is no field; a commit takes nothing from flash that
\* the store holds.
LEMMA OtherCallKeepsStored ==
    ASSUME FormInv, NEW t \in Tasks \ {Server}, InCall(t)
    PROVE  \A k \in FormKeys : nvs'[k] = nvs[k] /\ flash'[k] \in {flash[k], nvs[k]}
<1>1. Set(t) => call[t].key \notin FormKeys
  BY DEF FormInv, OthersKeepOff, Set
<1>2. nvs \in [Key -> Value] /\ FormKeys \subseteq Key
  BY FieldKeys DEF FormInv, KeyValInv, Typed
<1>. QED
  BY <1>1, <1>2 DEF InCall, Set, Commit, Size, Get, GetUint32

LEMMA OtherTaskKeepsInv ==
    ASSUME FormInv, NEW t \in Tasks \ {Server}, OtherTask(t), KeyValInv'
    PROVE  FormInv'
<1>1. request' = request
  BY DEF OtherTask
<1>2. RequestTyped'
  BY <1>1 DEF FormInv, RequestTyped
<1>3. \A k \in FormKeys : nvs'[k] = nvs[k] /\ flash'[k] \in {flash[k], nvs[k]}
  BY OtherCallKeepsStored DEF OtherTask, ReadString, ReadUint32, Write, Lock
<1>4. StoredInFlash'
  <2>1. request # NoRequest => request.stored \subseteq FormKeys
    BY DEF FormInv, RequestTyped, Requests
  <2>. QED
    BY <1>1, <1>3, <2>1 DEF FormInv, StoredInFlash
<1>5. call'[Server] = NoCall /\ \A u \in Tasks \ {Server, t} : call'[u] = NoCall
  <2>1. ASSUME NEW c, Lock(t, c) PROVE \A u \in Tasks \ {t} : call'[u] = NoCall
    <3>1. \A u \in Tasks : call[u] = NoCall
      BY <2>1 DEF FormInv, KeyValInv, OneInside, Lock
    <3>2. call' = [call EXCEPT ![t] = c]
      BY <2>1 DEF Lock
    <3>. QED
      BY <3>1, <3>2 DEF FormInv, KeyValInv, Typed
  <2>2. ASSUME InCall(t) PROVE \A u \in Tasks \ {t} : call'[u] = NoCall
    <3>1. call[t].step # "none"
      BY <2>2 DEF InCall, Set, Commit, Size, Get, GetUint32
    <3>2. \A u \in Tasks \ {t} : call[u] = NoCall
      BY <3>1, Alone DEF FormInv
    <3>3. PICK c : call' = [call EXCEPT ![t] = c]
      BY <2>2 DEF InCall, Set, Commit, Size, Get, GetUint32, Proceed, ReturnWrite, ReturnRead, Return
    <3>. QED
      BY <3>2, <3>3 DEF FormInv, KeyValInv, Typed
  <2>3. \A u \in Tasks \ {t} : call'[u] = NoCall
    BY <2>1, <2>2 DEF OtherTask, ReadString, ReadUint32, Write
  <2>. QED
    BY <2>3, FieldKeys
<1>6. InHand'
  BY <1>5 DEF InHand
<1>7. call'[t].step \in {"set", "commit"} => call'[t].key \notin FormKeys
  <2>1. call \in [Tasks -> Calls]
    BY DEF FormInv, KeyValInv, Typed
  <2>2. CASE InCall(t)
    <3>1. CASE Set(t)
      <4>1. call[t].key \notin FormKeys /\ call[t] \in Calls /\ call[t].step = "set"
        BY <2>1, <3>1 DEF FormInv, OthersKeepOff, Set
      <4>2. CASE Proceed(t, [call[t] EXCEPT !.step = "commit"])
        <5>1. [call[t] EXCEPT !.step = "commit"].key = call[t].key
          BY <4>1 DEF Calls
        <5>. QED
          BY <2>1, <4>1, <4>2, <5>1 DEF Proceed
      <4>3. CASE ReturnWrite(t, FALSE)
        BY <2>1, <4>3 DEF ReturnWrite, Return, NoCall
      <4>. QED
        BY <3>1, <4>2, <4>3 DEF Set
    <3>2. CASE Size(t)
      BY <2>1, <3>2 DEF Size, Proceed, ReturnRead, Return, NoCall
    <3>3. CASE Commit(t) \/ Get(t) \/ GetUint32(t)
      BY <2>1, <3>3 DEF Commit, Get, GetUint32, ReturnWrite, ReturnRead, Return, NoCall
    <3>. QED
      BY <2>2, <3>1, <3>2, <3>3 DEF InCall
  <2>3. ASSUME NEW k \in Key, ReadString(t, k) \/ ReadUint32(t, k) PROVE call'[t].step \notin {"set", "commit"}
    BY <2>1, <2>3 DEF ReadString, ReadUint32, Lock
  <2>4. ASSUME NEW k \in Key \ FormKeys, NEW v \in Value, Write(t, k, v) PROVE call'[t].key \notin FormKeys
    BY <2>1, <2>4 DEF Write, Lock
  <2>. QED
    BY <2>2, <2>3, <2>4 DEF OtherTask
<1>8. OthersKeepOff'
  BY <1>5, <1>7 DEF OthersKeepOff, NoCall
<1>. QED
  BY <1>2, <1>4, <1>6, <1>8 DEF FormInv

\* The request while its next field is being written.
LEMMA InProgress ==
    ASSUME FormInv, call[Server] # NoCall
    PROVE  LET key == WriteOrder[request.written + 1]
           IN  /\ request # NoRequest /\ request \in Requests
               /\ \E n \in 1 .. Len(Body(request.form)) : request.body = Cut(request.form, n)
               /\ request.written + 1 \in 0 .. Len(WriteOrder)
               /\ key \in FormKeys
               /\ call[Server] \in Calls /\ call[Server].step \in {"set", "commit"}
               /\ call[Server].key = key
               /\ call[Server].value = GetValue(request.body, key)
               /\ \A t \in Tasks \ {Server} : call[t] = NoCall
<1>1. /\ request # NoRequest /\ request.written # Len(WriteOrder)
      /\ call[Server].step \in {"set", "commit"}
      /\ call[Server].key = WriteOrder[request.written + 1]
      /\ call[Server].value = GetValue(request.body, call[Server].key)
  BY DEF FormInv, InHand
<1>2. /\ request \in Requests
      /\ \E n \in 1 .. Len(Body(request.form)) : request.body = Cut(request.form, n)
  BY <1>1 DEF FormInv, RequestTyped
<1>3. request.written + 1 \in 1 .. Len(WriteOrder)
  BY <1>1, <1>2, FieldKeys DEF Requests
<1>4. call[Server] \in Calls
  BY FieldKeys DEF FormInv, KeyValInv, Typed
<1>5. \A t \in Tasks \ {Server} : call[t] = NoCall
  BY <1>1, FieldKeys, Alone DEF FormInv
<1>. QED
  BY <1>1, <1>2, <1>3, <1>4, <1>5, FieldKeys

\* The value is set: the fields stored before have theirs.
LEMMA ServerSetsField ==
    ASSUME FormInv, KeyValInv', ServerStep, Set(Server),
           nvs' = [nvs EXCEPT ![call[Server].key] = call[Server].value],
           Proceed(Server, [call[Server] EXCEPT !.step = "commit"])
    PROVE  FormInv'
<1>. DEFINE key == WriteOrder[request.written + 1]
            c   == [call[Server] EXCEPT !.step = "commit"]
<1>1. call[Server] # NoCall /\ call[Server].step = "set"
  BY DEF Set, NoCall
<1>2. /\ request # NoRequest /\ request \in Requests
      /\ request.written # Len(WriteOrder)
      /\ key \in FormKeys
      /\ call[Server] \in Calls /\ call[Server].key = key
      /\ call[Server].value = GetValue(request.body, key)
      /\ \A t \in Tasks \ {Server} : call[t] = NoCall
  BY <1>1, InProgress DEF FormInv, InHand
<1>3. c.step = "commit" /\ c.key = key /\ c.value = GetValue(request.body, key)
  BY <1>1, <1>2 DEF Calls
<1>4. /\ call'[Server] = c /\ \A t \in Tasks \ {Server} : call'[t] = NoCall
  BY <1>2, FieldKeys DEF Proceed, FormInv, KeyValInv, Typed
<1>5. call'[Server] # NoCall
  BY <1>3, <1>4 DEF NoCall
<1>6. request' = request
  BY <1>5 DEF ServerStep
<1>7. /\ nvs'[key] = GetValue(request.body, key)
      /\ \A k \in FormKeys : k # key => nvs'[k] = nvs[k]
      /\ flash' = flash
  BY <1>2, FieldKeys DEF Set, FormInv, KeyValInv, Typed
<1>. HIDE DEF c, key
<1>8. RequestTyped'
  BY <1>6 DEF FormInv, RequestTyped
<1>9. InHand'
  BY <1>2, <1>3, <1>4, <1>6 DEF InHand, key
<1>10. OthersKeepOff'
  BY <1>4 DEF OthersKeepOff, NoCall
<1>11. StoredInFlash'
  <2>1. ASSUME NEW k \in request.stored
        PROVE  nvs'[k] = GetValue(request.body, k) /\ flash'[k] = nvs'[k]
    <3>1. k \in FormKeys /\ nvs[k] = GetValue(request.body, k) /\ flash[k] = nvs[k]
      BY <1>2 DEF FormInv, StoredInFlash, Requests
    <3>2. CASE k = key
      BY <1>7, <3>1, <3>2
    <3>3. CASE k # key
      BY <1>7, <3>1, <3>3
    <3>. QED
      BY <3>2, <3>3
  <2>. QED
    BY <1>6, <2>1 DEF StoredInFlash
<1>. QED
  BY <1>8, <1>9, <1>10, <1>11 DEF FormInv

\* The write of a field is over: it is stored if it succeeded, and then the
\* library committed what it was set to.
LEMMA ServerReturns ==
    ASSUME FormInv, KeyValInv', ServerStep, NEW ok \in BOOLEAN, ReturnWrite(Server, ok),
           call[Server] # NoCall, nvs' = nvs,
           IF ok THEN flash' = nvs /\ call[Server].step = "commit" ELSE flash' = flash
    PROVE  FormInv'
<1>. DEFINE key == WriteOrder[request.written + 1]
            r   == [request EXCEPT !.written = @ + 1,
                                   !.stored = IF ok THEN @ \cup {key} ELSE @]
<1>1. /\ request # NoRequest /\ request \in Requests
      /\ \E n \in 1 .. Len(Body(request.form)) : request.body = Cut(request.form, n)
      /\ request.written + 1 \in 0 .. Len(WriteOrder)
      /\ key \in FormKeys
      /\ call[Server].key = key
      /\ call[Server].value = GetValue(request.body, key)
      /\ \A t \in Tasks \ {Server} : call[t] = NoCall
  BY InProgress
<1>2. call'[Server] = NoCall /\ \A t \in Tasks \ {Server} : call'[t] = NoCall
  BY <1>1, FieldKeys DEF ReturnWrite, Return, FormInv, KeyValInv, Typed
<1>3. answer'.result = ok /\ answer'.key = key
  BY <1>1 DEF ReturnWrite, Return
<1>4. request' = r
  BY <1>2, <1>3 DEF ServerStep
<1>. HIDE DEF key
<1>5. /\ r \in Requests /\ r.form = request.form /\ r.body = request.body
      /\ r.stored = IF ok THEN request.stored \cup {key} ELSE request.stored
  BY <1>1 DEF Requests
<1>. HIDE DEF r
<1>6. RequestTyped'
  BY <1>1, <1>4, <1>5 DEF RequestTyped
<1>7. InHand' /\ OthersKeepOff'
  BY <1>2 DEF InHand, OthersKeepOff, NoCall
<1>8. StoredInFlash'
  <2>1. ok => nvs[key] = GetValue(request.body, key)
    BY <1>1, FieldKeys DEF FormInv, KeyValInv, SeenStillHolds
  <2>2. \A k \in request.stored : nvs[k] = GetValue(request.body, k) /\ flash[k] = nvs[k]
    BY <1>1 DEF FormInv, StoredInFlash
  <2>3. \A k \in r.stored : nvs'[k] = GetValue(r.body, k) /\ flash'[k] = nvs'[k]
    <3>1. CASE ok
      <4>1. flash' = nvs
        BY <3>1
      <4>. QED
        BY <1>5, <2>1, <2>2, <3>1, <4>1
    <3>2. CASE ~ok
      <4>1. flash' = flash
        BY <3>2
      <4>. QED
        BY <1>5, <2>2, <3>2, <4>1
    <3>. QED
      BY <3>1, <3>2
  <2>. QED
    BY <1>4, <2>3 DEF StoredInFlash
<1>. QED
  BY <1>6, <1>7, <1>8 DEF FormInv

LEMMA ServerStepKeepsInv ==
    ASSUME FormInv, ServerStep, KeyValInv'
    PROVE  FormInv'
<1>1. call[Server] # NoCall
  <2>1. call[Server].step \in {"set", "commit", "size", "get", "u32"}
    BY DEF ServerStep, InCall, Set, Commit, Size, Get, GetUint32
  <2>. QED
    BY <2>1 DEF NoCall
<1>2. call[Server].step \in {"set", "commit"}
  BY <1>1, InProgress
<1>3. CASE Set(Server)
  <2>1. CASE /\ nvs' = [nvs EXCEPT ![call[Server].key] = call[Server].value]
             /\ Proceed(Server, [call[Server] EXCEPT !.step = "commit"])
    BY <1>3, <2>1, ServerSetsField
  <2>2. CASE ReturnWrite(Server, FALSE) /\ UNCHANGED nvs
    <3>1. flash' = flash
      BY <1>3 DEF Set
    <3>. QED
      BY <1>1, <2>2, <3>1, ServerReturns
  <2>. QED
    BY <1>3, <2>1, <2>2 DEF Set
<1>4. CASE Commit(Server)
  <2>1. nvs' = nvs /\ call[Server].step = "commit"
    BY <1>4 DEF Commit
  <2>2. CASE flash' = nvs /\ ReturnWrite(Server, TRUE)
    BY <1>1, <2>1, <2>2, ServerReturns
  <2>3. CASE UNCHANGED flash /\ ReturnWrite(Server, FALSE)
    BY <1>1, <2>1, <2>3, ServerReturns
  <2>. QED
    BY <1>4, <2>2, <2>3 DEF Commit
<1>. QED
  BY <1>2, <1>3, <1>4 DEF ServerStep, InCall, Size, Get, GetUint32

LEMMA FormInvKept == FormInv /\ [FormNext]_formvars => FormInv'
<1>. SUFFICES ASSUME FormInv, [FormNext]_formvars PROVE FormInv'
  OBVIOUS
<1>1. KeyValInv'
  BY FormStepsRefine, NextKeepsInv DEF FormInv
<1>2. ASSUME NEW f \in Forms, ReceiveForm(f) PROVE FormInv'
  BY <1>1, <1>2, ReceiveFormKeepsInv
<1>3. CASE WriteField
  BY <1>1, <1>3, WriteFieldKeepsInv
<1>4. CASE ServerStep
  BY <1>1, <1>4, ServerStepKeepsInv
<1>5. ASSUME NEW t \in Tasks \ {Server}, OtherTask(t) PROVE FormInv'
  BY <1>1, <1>5, OtherTaskKeepsInv
<1>6. CASE FormReset
  <2>1. (\A t \in Tasks : call[t] = NoCall)' /\ request' = NoRequest
    BY <1>6 DEF FormReset, KeyValReset
  <2>2. InHand' /\ OthersKeepOff'
    BY <2>1, FieldKeys DEF InHand, OthersKeepOff, NoCall
  <2>3. RequestTyped' /\ StoredInFlash'
    BY <2>1 DEF RequestTyped, StoredInFlash
  <2>. QED
    BY <1>1, <2>2, <2>3 DEF FormInv
<1>7. CASE UNCHANGED formvars
  BY <1>1, <1>7 DEF FormInv, formvars, kvvars, RequestTyped, InHand, OthersKeepOff, StoredInFlash
<1>. QED
  BY <1>2, <1>3, <1>4, <1>5, <1>6, <1>7 DEF FormNext

LEMMA FormInvHolds == FormSpec => []FormInv
<1>. QED
  BY FormInvInit, FormInvKept, PTL DEF FormSpec

\* The handler of the form and the tasks beside it use the store as KeyVal allows:
\* what is proved of every use holds of this one.
THEOREM FormUsesStore == FormSpec => KeyValSpec
<1>1. FormInit => KeyValInit
  BY DEF FormInit
<1>. QED
  BY <1>1, FormInvHolds, FormStepsRefine, PTL DEF FormSpec, KeyValSpec

\* However the body is cut and whatever fails, a key whose write succeeded has
\* the beginning of what was sent for its own field, in RAM and in flash.
THEOREM FieldsArrive == FormSpec => []FieldsStored
<1>. QED
  BY FormInvHolds, InvStored, PTL

\* The store of key_val.h stays well typed under the handler of the form.
THEOREM FormTyped == FormSpec => []KeyValTypeOK
<1>. QED
  BY FormUsesStore, StoreTypeCorrect, PTL

\* The handler of the form may rely on an atomic store, and so may the tasks
\* that use it meanwhile.
THEOREM FormIsAtomic == FormSpec => ActsAtomically
<1>. QED
  BY FormUsesStore, StoreIsAtomic, PTL

=============================================================================
