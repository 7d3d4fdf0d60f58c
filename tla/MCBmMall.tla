------------------------------- MODULE MCBmMall -------------------------------
(***************************************************************************)
(* Instances of BmMall for TLC.  The names make Overlay() and the          *)
(* collation matter: <<"b">> laid over <<"B", "a">> is <<"b", "a">>, which *)
(* the table does not tell from <<"B", "a">>.                              *)
(***************************************************************************)
EXTENDS BmMall

CONSTANTS c1, c2

OneTerminal == {c1}
TwoTerminals == {c1, c2}
OneName == {<<"b">>}
TwoNames == {<<"B", "a">>, <<"b">>}
OneKey == {<<"k">>}
TwoKeys == {<<"k", "m">>, <<"x">>}
AllFaults == {"queue", "select", "insert", "books"}
NoFaults == {}
SecondOdd == {c2}
NoOdd == {}
NoRows == {}
OddRows == {<<[name |-> <<"b">>, key |-> <<"x">>]>>}
SmallLetters(name) == [i \in DOMAIN name |-> IF name[i] = "B" THEN "b" ELSE name[i]]
=============================================================================
