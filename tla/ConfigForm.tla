----------------------------- MODULE ConfigForm -----------------------------
(***************************************************************************)
(* The way of a configuration from the form of the Setting page into NVS:  *)
(* the browser encodes the fields into one body (external), the handler of *)
(* POST "/" (web_task.cpp:256-274) takes what one call of httpd_req_recv   *)
(* returns of it, HttpReqest (http_request.h) picks the fields out, and    *)
(* KeyVal stores one after the other.  Another task uses the store         *)
(* meanwhile, any call of NVS may fail, and a reset may fall anywhere.     *)
(***************************************************************************)
EXTENDS KeyVal, SequencesExt

CONSTANTS
    Server,             \* the task of the HTTP server
    FieldOrder,         \* the fields of the page, in its order
    WriteOrder,         \* the keys, in the order of the handler
    Name,               \* the name of a field, which is its key
    Encode,             \* what the browser sends for a character
    Forms,              \* what users submit
    Numbers,            \* the numbers among the values
    MaxBody             \* characters the handler takes (299)

FormKeys == ToSet(WriteOrder)

\* What the browser sends for the value of a field.
Encoded(v) == FlattenSeq([i \in DOMAIN v |-> Encode[v[i]]])

Separators == {"&", "="}

\* Every name is the name of one field, and neither a name nor what the browser
\* sends for a value contains a separator.
ASSUME ConfigFormAssumption ==
    /\ Server \in Tasks
    /\ WriteOrder \in Seq(StringKeys)
    /\ FieldOrder \in Seq(FormKeys) /\ ToSet(FieldOrder) = FormKeys
    /\ \A i, j \in DOMAIN FieldOrder : FieldOrder[i] = FieldOrder[j] => i = j
    /\ \A k \in FormKeys : Name[k] \in Seq(STRING)
    /\ \A k \in FormKeys : \A i \in DOMAIN Name[k] : Name[k][i] \notin Separators
    /\ \A k, l \in FormKeys : Name[k] = Name[l] => k = l
    /\ \A c \in DOMAIN Encode : Encode[c] \in Seq(Char \ Separators)
    /\ Forms \subseteq [FormKeys -> Seq(DOMAIN Encode)]
    /\ \A f \in Forms, k \in FormKeys : \A n \in 0 .. Len(Encoded(f[k])) :
          SubSeq(Encoded(f[k]), 1, n) \in Value
    /\ Numbers \subseteq Value
    /\ MaxBody \in Nat

VARIABLE request        \* the form being handled, or the last one

formvars == <<kvvars, request>>

NoRequest == [form |-> <<>>]

-----------------------------------------------------------------------------
(***************************************************************************)
(* The body of the request: application/x-www-form-urlencoded.             *)
(***************************************************************************)

Pair(form, key) == Name[key] \o <<"=">> \o Encoded(form[key])

Segments(form) ==
    [i \in DOMAIN FieldOrder |->
        (IF i = 1 THEN <<>> ELSE <<"&">>) \o Pair(form, FieldOrder[i])]

Body(form) == FlattenSeq(Segments(form))

\* Positions where a pair ends, and those before which one begins.
Breaks(body) == {0, Len(body) + 1} \cup {i \in DOMAIN body : body[i] = "&"}

\* Begins of the pairs with the name of a key in front of their first "=".
Pairs(body, key) ==
    LET named == Append(Name[key], "=")
    IN  {i \in Breaks(body) : /\ i + Len(named) <= Len(body)
                              /\ SubSeq(body, i + 1, i + Len(named)) = named}

\* Mutant: the value begins with the "=".
GetValueWithEquals(body, key) ==
    LET pairs == Pairs(body, key)
        begin == Max(pairs)
        end   == Min({i \in Breaks(body) : i > begin})
    IN  IF pairs = {} THEN <<>> ELSE SubSeq(body, begin + Len(Name[key]) + 1, end - 1)

\* parseFormData and getValue: the last pair with the name counts, its value is
\* taken as it is, and without one the value is empty.
GetValue(body, key) ==
    LET pairs == Pairs(body, key)
        begin == Max(pairs)
        end   == Min({i \in Breaks(body) : i > begin})
    IN  IF pairs = {} THEN <<>> ELSE SubSeq(body, begin + Len(Name[key]) + 2, end - 1)

-----------------------------------------------------------------------------
(***************************************************************************)
(* The handler.                                                            *)
(***************************************************************************)

Handled == request # NoRequest /\ request.written = Len(WriteOrder)

FormInit == KeyValInit /\ request = NoRequest

\* One call of httpd_req_recv: some of the body has arrived.
ReceiveForm(form) ==
    /\ request = NoRequest \/ Handled
    /\ \E n \in 1 .. Min({Len(Body(form)), MaxBody}) :
         request' = [form |-> form, body |-> SubSeq(Body(form), 1, n),
                     written |-> 0, stored |-> {}]
    /\ UNCHANGED kvvars

WriteField ==
    /\ request # NoRequest /\ ~Handled
    /\ LET key == WriteOrder[request.written + 1]
       IN  Write(Server, key, GetValue(request.body, key))
    /\ UNCHANGED request

\* What writeString returns is not looked at.
ServerStep ==
    /\ InCall(Server)
    /\ request' = IF call'[Server] # NoCall THEN request
                  ELSE [request EXCEPT !.written = @ + 1,
                                       !.stored = IF answer'.result
                                                  THEN @ \cup {answer'.key} ELSE @]

OtherTask(t) ==
    /\ \/ InCall(t)
       \/ \E k \in Key : ReadString(t, k) \/ ReadUint32(t, k)
       \/ \E k \in Key \ FormKeys, v \in Value :
            /\ v \in Numbers <=> k \in NumberKeys
            /\ Write(t, k, v)
    /\ UNCHANGED request

FormReset == KeyValReset /\ request' = NoRequest

FormNext ==
    \/ \E f \in Forms : ReceiveForm(f)
    \/ WriteField \/ ServerStep
    \/ \E t \in Tasks \ {Server} : OtherTask(t)
    \/ FormReset

FormSpec == FormInit /\ [][FormNext]_formvars

-----------------------------------------------------------------------------
(***************************************************************************)
(* Properties.                                                             *)
(***************************************************************************)

\* Wherever the body is cut (web_task.cpp:258), no key gets anything but the
\* beginning of what the browser sent for its own field, the whole of it when
\* the body is complete; and it is in flash if its write succeeded, whatever
\* writes failed in between.
FieldsStored ==
    Handled =>
        \A k \in request.stored :
            LET sent == Encoded(request.form[k])
            IN  /\ nvs[k] = flash[k]
                /\ IF request.body = Body(request.form) THEN nvs[k] = sent
                   ELSE IsPrefix(nvs[k], sent)

\* README.md, installation, steps 13 and 14: "Configure the wifi network and
\* select submit", then "ESP-LAMP will connect to your wifi network": the store
\* holds what the user typed in.
SubmittedIsStored ==
    Handled /\ request.body = Body(request.form) =>
        \A k \in request.stored : nvs[k] = request.form[k]

=============================================================================
