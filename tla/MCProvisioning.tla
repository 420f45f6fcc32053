--------------------------- MODULE MCProvisioning ---------------------------
(***************************************************************************)
(* Instances of Provisioning for TLC.                                      *)
(***************************************************************************)
EXTENDS Provisioning

CONSTANTS x, y, ap1, ap2, ap3     \* values of keys, access points

All(v) == [k \in Keys |-> v]

\* Two networks, and a form whose SSID was left empty.
TwoNetworks == {All(x), All(y), [All(x) EXCEPT !["ssid"] = Empty]}

OneApFound   == {<<ap1>>}
ThreeApsFound == {<<ap1, ap2, ap3>>}

\* On an open store, the writes that fail are those of the key that decides on the
\* mode, and the reads those of this key and of one other.
OthersSucceed ==
    open =>
        /\ \A k \in DOMAIN read' \ (DOMAIN read \cup {"ssid", "gw"}) : read'[k] = cfg[k]
        /\ http.request = "form" /\ http'.request = "form" /\ http'.written > 1 =>
             LET key == WriteOrder[http'.written]
             IN  cfg'[key] = http.form[key]

\* One form is enough when the store is closed or a read has failed.
FewerForms ==
    ~open \/ misread => accepted' = accepted \/ accepted' <= 1

=============================================================================
