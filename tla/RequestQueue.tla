---------------------------- MODULE RequestQueue ----------------------------
(***************************************************************************)
(* What the linked list between the two threads of bm_server promises,     *)
(* seen from outside: requests are numbered in the order in which the main *)
(* thread takes them off the sockets, the worker answers those it holds    *)
(* oldest first and each at most once, and a request may disappear on its  *)
(* way in.  BmQueue is shown to implement this specification; that it may  *)
(* not implement it without Drop is what the run queue_loses_request       *)
(* shows.                                                                  *)
(***************************************************************************)
EXTENDS Naturals

VARIABLES
  accepted,  \* how many requests the main thread has handed over
  pending,   \* the requests the worker will still find in the list
  served     \* the requests whose handler has run

qvars == <<accepted, pending, served>>

QInit ==
  /\ accepted = 0
  /\ pending = {}
  /\ served = {}

Accept ==
  /\ accepted' = accepted + 1
  /\ pending' = pending \cup {accepted + 1}
  /\ UNCHANGED served

Drop ==
  /\ accepted' = accepted + 1
  /\ UNCHANGED <<pending, served>>

Serve(i) ==
  /\ i \in pending
  /\ \A j \in pending : i <= j
  /\ pending' = pending \ {i}
  /\ served' = served \cup {i}
  /\ UNCHANGED accepted

QNext == Accept \/ Drop \/ \E i \in pending : Serve(i)

QSpec == QInit /\ [][QNext]_qvars
=============================================================================
