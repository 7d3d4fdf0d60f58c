------------------------------ MODULE MCBmQueue ------------------------------
(***************************************************************************)
(* Instances of BmQueue for TLC.                                           *)
(***************************************************************************)
EXTENDS BmQueue

CONSTANTS c1, c2, c3

OneClient == {c1}
ThreeClients == {c1, c2, c3}
AllFaults == {"calloc", "connect", "sql"}
NoFaults == {}
=============================================================================
