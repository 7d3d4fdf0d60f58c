---------------------------- MODULE MCBmEventLoop ----------------------------
(***************************************************************************)
(* Instances of BmEventLoop for TLC.                                       *)
(***************************************************************************)
EXTENDS BmEventLoop

CONSTANTS c1, c2, c3

OneTerminal == {c1}
ThreeTerminals == {c1, c2, c3}
AllFaults == {"calloc", "queue", "connect"}
NoFaults == {}
=============================================================================
