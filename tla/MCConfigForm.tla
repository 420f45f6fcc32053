---------------------------- MODULE MCConfigForm ----------------------------
(***************************************************************************)
(* Instances of ConfigForm for TLC: two fields and a number, characters    *)
(* that the browser sends as they are ("v") or not ("&").                  *)
(***************************************************************************)
EXTENDS ConfigForm

Fields == <<"ssid", "ip">>
Names  == [ssid |-> <<"s">>, ip |-> <<"i", "p">>]
Codes  == [c \in {"v", "&"} |-> IF c = "&" THEN <<"%", "6">> ELSE <<c>>]

Form(s, i) == [ssid |-> s, ip |-> i]

SomeForms == {Form(<<"v">>, <<"v">>), Form(<<"&">>, <<"v">>)}

\* What may be stored: every beginning of an encoded field.
Contents ==
    {<<>>, <<"v">>, <<"%">>, <<"%", "6">>, <<"1">>}

OneNumber == {<<"1">>}

=============================================================================
