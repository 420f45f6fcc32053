------------------------------- MODULE HexId -------------------------------
(***************************************************************************)
(* The text form in which the identification of the lamp is kept in NVS    *)
(* (packet.h: arrayToString, stringToID).  A character is the value of its *)
(* hexadecimal digit, and NUL is none of them: readString of KeyVal counts *)
(* the final NUL as a character of what it returns.                        *)
(***************************************************************************)
EXTENDS Integers, Sequences

Byte  == 0 .. 255
Digit == 0 .. 15
NUL   == 16
Char  == Digit \cup {NUL}

\* Two digits for a byte, the upper one first.
ArrayToString(id) ==
    [j \in 1 .. 2 * Len(id) |->
        IF j % 2 = 1 THEN id[(j + 1) \div 2] \div 16 ELSE id[j \div 2] % 16]

\* As many bytes as the string has pairs of digits, up to n; a byte beyond them is
\* not initialised, so it is no part of the result here.
StringToID(str, n) ==
    LET pairs == Len(str) \div 2
        count == IF pairs < n THEN pairs ELSE n
    IN  [i \in 1 .. count |-> 16 * str[2 * i - 1] + str[2 * i]]

=============================================================================
