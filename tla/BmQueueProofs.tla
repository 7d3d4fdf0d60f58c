--------------------------- MODULE BmQueueProofs ---------------------------
(***************************************************************************)
(* Theorems about BmQueue, for any set of clients and any number of        *)
(* requests: the type invariant, the shape of the list (IInv), the safety  *)
(* invariants that follow from it, the order of the answers, and that the  *)
(* list implements RequestQueue.                                           *)
(***************************************************************************)
EXTENDS BmQueue, TLAPS

Msg == [fd : Client, next : Nat]

-----------------------------------------------------------------------------
(* How the nodes the worker will still meet change with each step. *)

LEMMA InitInv == Init => IInv
  BY DEF Init, IInv, TypeOK, ListShape, WorkerPlace, OneReplyOwed, Held, Node, Null,
         Pending, Accepted, From, pTemp

USE DEF Node, Null, pTemp, mainVars, workerVars

(* A client writes a request. *)
LEMMA RequestInv ==
  ASSUME IInv, NEW c \in Client, Request(c)
  PROVE  IInv'
<1> USE DEF IInv, Request
<1>1. TypeOK'
  BY DEF TypeOK
<1>2. Pending' = Pending /\ Accepted' = Accepted /\ From(queFront)' = From(queFront)
  BY DEF Pending, Accepted, From
<1>3. ListShape' /\ WorkerPlace'
  BY <1>2 DEF ListShape, WorkerPlace
<1>4. OneReplyOwed'
  BY <1>2 DEF OneReplyOwed, Held
<1>5. QED
  BY <1>1, <1>3, <1>4

(* main() reads a request into a new node. *)
LEMMA ReadRequestInv ==
  ASSUME IInv, NEW c \in Client, ReadRequest(c)
  PROVE  IInv'
<1> USE DEF IInv, ReadRequest
<1>1. /\ heap' \in Seq(Msg) /\ Len(heap') = Len(heap) + 1
      /\ \A n \in Node : heap'[n] = heap[n]
      /\ heap'[Len(heap) + 1] = [fd |-> c, next |-> Null]
  BY DEF TypeOK, Msg
<1>2. TypeOK'
  BY <1>1 DEF TypeOK, Msg
<1>3. Accepted' = Accepted /\ Accepted = Len(heap)
  BY <1>1 DEF Accepted, TypeOK
<1>4. Pending' = Pending /\ From(queFront)' = From(queFront)
  BY DEF Pending, From
<1>5. ListShape'
  BY <1>1, <1>3, <1>4 DEF ListShape, TypeOK, From
<1>6. WorkerPlace'
  BY DEF WorkerPlace
<1>7. Pending \subseteq Node
  BY <1>3 DEF Pending, From, TypeOK, ListShape, WorkerPlace
<1>8. Held' = Pending \cup {Len(heap) + 1} /\ Held = Pending
  BY <1>1, <1>3, <1>4, <1>7 DEF Held, TypeOK
<1>9. OneReplyOwed'
  BY <1>1, <1>7, <1>8 DEF OneReplyOwed, TypeOK
<1>10. QED
  BY <1>2, <1>5, <1>6, <1>9

(* calloc() fails. *)
LEMMA CallocFailsInv ==
  ASSUME IInv, NEW batch \in SUBSET inbox, CallocFails(batch)
  PROVE  IInv'
<1> USE DEF IInv, CallocFails
<1>1. TypeOK'
  BY DEF TypeOK
<1>2. Pending' = Pending /\ Accepted' = Accepted /\ From(queFront)' = From(queFront)
  BY DEF Pending, Accepted, From
<1>3. ListShape' /\ WorkerPlace'
  BY <1>2 DEF ListShape, WorkerPlace
<1>4. OneReplyOwed'
  BY <1>2 DEF OneReplyOwed, Held
<1>5. QED
  BY <1>1, <1>3, <1>4

(* main() tests queFront. *)
LEMMA CheckFrontInv ==
  ASSUME IInv, CheckFront
  PROVE  IInv'
<1> USE DEF IInv, CheckFront
<1>1. TypeOK'
  BY DEF TypeOK
<1>2. Pending' = Pending /\ Accepted' = Accepted /\ From(queFront)' = From(queFront)
  BY DEF Pending, Accepted, From
<1>3. ListShape'
  BY <1>2 DEF ListShape, TypeOK
<1>4. WorkerPlace'
  BY DEF WorkerPlace
<1>5. OneReplyOwed'
  BY <1>2 DEF OneReplyOwed, Held
<1>6. QED
  BY <1>1, <1>3, <1>4, <1>5

(* main() starts a new list. *)
LEMMA SetFrontInv ==
  ASSUME IInv, SetFront
  PROVE  IInv'
<1> USE DEF IInv, SetFront
<1>1. TypeOK'
  BY DEF TypeOK, ListShape
<1>2. /\ Accepted' = Len(heap) /\ Accepted = Len(heap) - 1
      /\ From(queFront)' = {Len(heap)} /\ From(queFront) = {}
      /\ wpc \notin {"handle", "load", "store"}
  BY DEF Accepted, From, ListShape, WorkerPlace, TypeOK
<1>3. Pending' = {Len(heap)} /\ Pending = {}
  BY <1>2 DEF Pending
<1>4. ListShape'
  BY <1>2 DEF ListShape
<1>5. WorkerPlace'
  BY <1>2 DEF WorkerPlace, ListShape, TypeOK
<1>6. Held' = Held
  <2>1. Len(heap) \in Nat \ {0}
    BY DEF TypeOK, ListShape
  <2>2. Held = {Len(heap)}
    BY <1>2, <1>3, <2>1 DEF Held
  <2>3. Held' = {Len(heap)}
    BY <1>2, <1>3, <2>1 DEF Held
  <2>4. QED
    BY <2>2, <2>3
<1>7. OneReplyOwed'
  BY <1>6 DEF OneReplyOwed
<1>8. QED
  BY <1>1, <1>4, <1>5, <1>7

(* Link changes one pointer of one node. *)
LEMMA LinkHeap ==
  ASSUME IInv, Link
  PROVE  /\ heap' \in Seq(Msg) /\ Len(heap') = Len(heap)
         /\ Len(heap) \in Nat \ {0}
         /\ \A n \in Node : heap'[n].fd = heap[n].fd
         /\ \A n \in Node \ {queEnd} : heap'[n] = heap[n]
         /\ queEnd \in Node /\ heap'[queEnd].next = Len(heap)
<1> USE DEF IInv, Link
<1>1. Len(heap) \in Nat \ {0} /\ queEnd \in Node /\ heap \in [Node -> Msg]
  <2>1. heap \in Seq(Msg)
    BY DEF TypeOK, Msg
  <2>2. queEnd \in Node
    BY DEF TypeOK, ListShape
  <2>3. Len(heap) \in Nat \ {0}
    BY <2>1, <2>2
  <2>4. QED
    BY <2>1, <2>2, <2>3
<1>2. heap[queEnd] \in Msg
  BY <1>1
<1>3. heap' = [heap EXCEPT ![queEnd] = [heap[queEnd] EXCEPT !.next = Len(heap)]]
  OBVIOUS
<1>4. [heap[queEnd] EXCEPT !.next = Len(heap)] = [fd |-> heap[queEnd].fd, next |-> Len(heap)]
  BY <1>2 DEF Msg
<1>5. [fd |-> heap[queEnd].fd, next |-> Len(heap)] \in Msg
  BY <1>1, <1>2 DEF Msg
<1>6. heap \in Seq(Msg)
  BY DEF TypeOK, Msg
<1>7. heap' \in Seq(Msg) /\ Len(heap') = Len(heap)
  BY <1>1, <1>3, <1>4, <1>5, <1>6
<1>8. QED
  BY <1>1, <1>3, <1>4, <1>7

(* main() links the node to the one it appended last.  The interesting     *)
(* case is the worker having read the NULL of that one already: then the   *)
(* list is empty afterwards as before, and only Held shrinks.              *)
LEMMA LinkInv ==
  ASSUME IInv, Link
  PROVE  IInv'
<1> USE DEF IInv, Link
<1>1. /\ heap' \in Seq(Msg) /\ Len(heap') = Len(heap)
      /\ Len(heap) \in Nat \ {0}
      /\ \A n \in Node : heap'[n].fd = heap[n].fd
      /\ \A n \in Node \ {queEnd} : heap'[n] = heap[n]
      /\ queEnd \in Node /\ heap'[queEnd].next = Len(heap)
  BY LinkHeap
<1>2. TypeOK'
  BY <1>1 DEF TypeOK, Msg
<1>3. Accepted' = Len(heap) /\ Accepted = Len(heap) - 1 /\ queEnd = Len(heap) - 1
  BY <1>1 DEF Accepted, ListShape
<1>4. From(queFront)' = IF queFront = Null THEN {} ELSE queFront..Len(heap)
  BY DEF From
<1>5. ListShape'
  <2>1. heap'[Len(heap)].next = Null
    BY <1>1, <1>3 DEF ListShape
  <2>2. \A n \in From(queFront)' :
          heap'[n].next = IF n = Len(heap) THEN Null ELSE n + 1
    <3> SUFFICES ASSUME NEW n \in From(queFront)'
                 PROVE  heap'[n].next = IF n = Len(heap) THEN Null ELSE n + 1
      OBVIOUS
    <3>1. queFront \in Nat /\ queFront # Null /\ n \in queFront..Len(heap)
      BY <1>4 DEF TypeOK
    <3>2. CASE n = Len(heap)
      BY <3>2, <2>1
    <3>3. CASE n = queEnd
      BY <3>3, <1>1, <1>3
    <3>4. CASE n \in queFront..(queEnd - 1)
      <4>1. n \in From(queFront) /\ n \in Node \ {queEnd} /\ n # Len(heap)
        BY <3>1, <3>4, <1>1, <1>3 DEF From
      <4>2. heap[n].next = n + 1
        BY <4>1 DEF ListShape
      <4>3. QED
        BY <4>1, <4>2, <1>1
    <3>5. QED
      BY <3>1, <3>2, <3>3, <3>4, <1>1, <1>3
  <2>3. QED
    BY <1>1, <1>3, <2>1, <2>2 DEF ListShape, TypeOK
<1>6. WorkerPlace'
  BY <1>1, <1>3 DEF WorkerPlace, TypeOK
<1>7. Pending' \subseteq Pending \cup {Len(heap)} /\ Pending \subseteq Node
  <2>1. /\ queFront \in Nat /\ queFront <= queEnd /\ loaded \in Nat /\ queEnd \in Nat
        /\ wpc \in {"load", "store"} => cur \in Node /\ cur <= queEnd
        /\ wpc = "store" => loaded <= queEnd
        /\ Len(heap) \in Nat
    BY <1>1 DEF TypeOK, ListShape, WorkerPlace
  <2>2. CASE wpc = "load"
    BY <2>1, <2>2, <1>1, <1>3 DEF Pending
  <2>3. CASE wpc = "store"
    BY <2>1, <2>3, <1>1, <1>3 DEF Pending, From
  <2>4. CASE wpc \notin {"load", "store"}
    BY <2>1, <2>4, <1>1, <1>3 DEF Pending, From
  <2>5. QED
    BY <2>2, <2>3, <2>4
<1>8. Held' \subseteq Held /\ Held \subseteq Node
  BY <1>1, <1>3, <1>7 DEF Held
<1>9. OneReplyOwed'
  BY <1>1, <1>8 DEF OneReplyOwed
<1>10. QED
  BY <1>2, <1>5, <1>6, <1>9

-----------------------------------------------------------------------------
(* The worker connects to the database, or gives up. *)
LEMMA ConnectInv ==
  ASSUME IInv, Connect
  PROVE  IInv'
<1> USE DEF IInv, Connect
<1>1. TypeOK'
  BY DEF TypeOK
<1>2. Pending' = Pending /\ Accepted' = Accepted /\ From(queFront)' = From(queFront)
  BY DEF Pending, Accepted, From
<1>3. ListShape' /\ WorkerPlace'
  BY <1>2 DEF ListShape, WorkerPlace
<1>4. OneReplyOwed'
  BY <1>2 DEF OneReplyOwed, Held
<1>5. QED
  BY <1>1, <1>3, <1>4

(* The worker finds the list not empty. *)
LEMMA ReadFrontInv ==
  ASSUME IInv, ReadFront
  PROVE  IInv'
<1> USE DEF IInv, ReadFront
<1>1. TypeOK'
  BY DEF TypeOK
<1>2. Pending' = Pending /\ Accepted' = Accepted /\ From(queFront)' = From(queFront)
  BY DEF Pending, Accepted, From
<1>3. ListShape'
  BY <1>2 DEF ListShape
<1>4. WorkerPlace'
  BY DEF WorkerPlace
<1>5. OneReplyOwed'
  BY <1>2 DEF OneReplyOwed, Held
<1>6. QED
  BY <1>1, <1>3, <1>4, <1>5

(* The worker runs the handler: the only step after which waiting shrinks. *)
LEMMA HandleInv ==
  ASSUME IInv, Handle
  PROVE  IInv'
<1> USE DEF IInv, Handle
<1>1. /\ cur = queFront /\ cur \in Node /\ cur <= queEnd /\ cur \in Nat
      /\ queEnd \in Nat
  BY DEF TypeOK, ListShape, WorkerPlace
<1>2. Accepted' = Accepted /\ From(queFront)' = From(queFront)
  BY DEF Accepted, From
<1>3. Pending = cur..queEnd /\ Pending' = (cur + 1)..queEnd
  BY <1>1 DEF Pending, From
<1>4. Held' \subseteq Held /\ cur \in Held /\ cur \notin Held'
  BY <1>1, <1>2, <1>3 DEF Held, ListShape, TypeOK
<1>5. heap[cur].fd \notin inbox
  BY <1>4 DEF OneReplyOwed
<1>6. TypeOK'
  BY <1>1, <1>5 DEF TypeOK
<1>7. ListShape'
  BY <1>2 DEF ListShape
<1>8. WorkerPlace'
  BY <1>1 DEF WorkerPlace
<1>9. OneReplyOwed'
  BY <1>4 DEF OneReplyOwed
<1>10. QED
  BY <1>6, <1>7, <1>8, <1>9

(* The worker reads the next pointer of the node it has answered. *)
LEMMA LoadNextInv ==
  ASSUME IInv, LoadNext
  PROVE  IInv'
<1> USE DEF IInv, LoadNext
<1>1. /\ cur = queFront /\ cur \in Node /\ cur <= queEnd /\ cur \in Nat
      /\ queEnd \in Node
  BY DEF TypeOK, ListShape, WorkerPlace
<1>2. loaded' = IF cur = queEnd THEN Null ELSE cur + 1
  BY <1>1 DEF ListShape, From
<1>3. TypeOK'
  BY <1>1, <1>2 DEF TypeOK
<1>4. Accepted' = Accepted /\ From(queFront)' = From(queFront)
  BY DEF Accepted, From
<1>5. Pending' = Pending
  BY <1>1, <1>2 DEF Pending, From
<1>6. ListShape'
  BY <1>4 DEF ListShape
<1>7. WorkerPlace'
  BY <1>1, <1>2 DEF WorkerPlace
<1>8. OneReplyOwed'
  BY <1>4, <1>5 DEF OneReplyOwed, Held
<1>9. QED
  BY <1>3, <1>6, <1>7, <1>8

(* The worker stores it: the list begins one node later, or is empty.      *)
LEMMA StoreFrontInv ==
  ASSUME IInv, StoreFront
  PROVE  IInv'
<1> USE DEF IInv, StoreFront
<1>1. /\ cur = queFront /\ cur \in Node /\ cur <= queEnd /\ cur \in Nat
      /\ queEnd \in Node /\ cur \notin freed
      /\ loaded = Null \/ (loaded = cur + 1 /\ cur < queEnd)
  BY DEF TypeOK, ListShape, WorkerPlace
<1>2. TypeOK'
  BY DEF TypeOK
<1>3. Accepted' = Accepted
  BY DEF Accepted
<1>4. Pending' = Pending
  BY DEF Pending, From
<1>5. ListShape'
  BY <1>1, <1>3 DEF ListShape, From
<1>6. WorkerPlace'
  BY <1>1 DEF WorkerPlace, TypeOK
<1>7. OneReplyOwed'
  BY <1>3, <1>4 DEF OneReplyOwed, Held
<1>8. QED
  BY <1>2, <1>5, <1>6, <1>7

(* The worker frees the node. *)
LEMMA FreeInv ==
  ASSUME IInv, Free
  PROVE  IInv'
<1> USE DEF IInv, Free
<1>1. TypeOK'
  BY DEF TypeOK, WorkerPlace
<1>2. Pending' = Pending /\ Accepted' = Accepted /\ From(queFront)' = From(queFront)
  BY DEF Pending, Accepted, From
<1>3. ListShape'
  BY <1>2 DEF ListShape
<1>4. WorkerPlace'
  BY DEF WorkerPlace
<1>5. OneReplyOwed'
  BY <1>2 DEF OneReplyOwed, Held
<1>6. QED
  BY <1>1, <1>3, <1>4, <1>5

-----------------------------------------------------------------------------
LEMMA NextInv == IInv /\ [Next]_vars => IInv'
<1> SUFFICES ASSUME IInv, [Next]_vars
             PROVE  IInv'
  OBVIOUS
<1>1. CASE Next
  BY <1>1, RequestInv, ReadRequestInv, CallocFailsInv, CheckFrontInv, SetFrontInv,
     LinkInv, ConnectInv, ReadFrontInv, HandleInv, LoadNextInv, StoreFrontInv, FreeInv
     DEF Next, Main, Worker
<1>2. CASE UNCHANGED vars
  BY <1>2 DEF vars, IInv, TypeOK, ListShape, WorkerPlace, OneReplyOwed, Held,
     Pending, Accepted, From
<1>3. QED
  BY <1>1, <1>2

(* The inductive invariant holds in every reachable state.                 *)
THEOREM Inductive == Spec => []IInv
  BY InitInv, NextInv, PTL DEF Spec

(* Type correctness of the two threads' state.                             *)
THEOREM TypeCorrect == Spec => []TypeOK
<1>1. IInv => TypeOK
  BY DEF IInv
<1>2. QED
  BY <1>1, Inductive, PTL

(* The worker never touches a node it has freed, although main() may.      *)
THEOREM WorkerSafe == Spec => []WorkerReadsLive
<1>1. IInv => WorkerReadsLive
  BY DEF IInv, TypeOK, ListShape, WorkerPlace, WorkerReadsLive
<1>2. QED
  BY <1>1, Inductive, PTL

(* Without a lock, the two threads are never both about to store into      *)
(* queFront.                                                               *)
THEOREM OneWriter == Spec => []FrontHasOneWriter
<1>1. IInv => FrontHasOneWriter
  BY DEF IInv, ListShape, WorkerPlace, FrontHasOneWriter
<1>2. QED
  BY <1>1, Inductive, PTL

(* A store of main() into a freed node leaves the list intact: the list is *)
(* empty then.                                                             *)
THEOREM DanglingIsLast == Spec => []DanglingOnlyLast
<1>1. IInv => DanglingOnlyLast
  BY DEF IInv, TypeOK, ListShape, WorkerPlace, DanglingOnlyLast
<1>2. QED
  BY <1>1, Inductive, PTL

(* No client is owed two replies.                                          *)
THEOREM RepliesOwed == Spec => []OneReplyOwed
<1>1. IInv => OneReplyOwed
  BY DEF IInv
<1>2. QED
  BY <1>1, Inductive, PTL

-----------------------------------------------------------------------------
(* What each step does to the queue seen from outside: nothing, or append  *)
(* the next request, or append one that is lost, or answer the oldest.     *)
Nothing == UNCHANGED <<Accepted, Pending, served>>

Appended ==
  /\ Accepted' = Accepted + 1
  /\ Pending' = Pending \cup {Accepted + 1}
  /\ served' = served

Dropped ==
  /\ mpc = "link"
  /\ pTemp = Accepted + 1
  /\ queFront = Null \/ (wpc = "store" /\ loaded = Null)
  /\ Accepted' = Accepted + 1
  /\ Pending' = Pending
  /\ served' = served

Answered ==
  /\ cur \in Pending
  /\ \A j \in Pending : cur <= j
  /\ \A j \in served : j < cur
  /\ Accepted' = Accepted
  /\ Pending' = Pending \ {cur}
  /\ served' = served \cup {cur}

LEMMA SetFrontEffect ==
  ASSUME IInv, SetFront
  PROVE  Appended
<1> USE DEF IInv, SetFront
<1>1. /\ Len(heap) \in Nat \ {0}
      /\ Accepted' = Len(heap) /\ Accepted = Len(heap) - 1
      /\ From(queFront)' = {Len(heap)} /\ From(queFront) = {}
      /\ wpc \notin {"handle", "load", "store"}
  BY DEF Accepted, From, ListShape, WorkerPlace, TypeOK
<1>2. Pending' = {Len(heap)} /\ Pending = {}
  BY <1>1 DEF Pending
<1>3. QED
  BY <1>1, <1>2 DEF Appended

LEMMA LinkEffect ==
  ASSUME IInv, Link
  PROVE  Appended \/ Dropped
<1> USE DEF IInv, Link
<1>1. /\ Len(heap) \in Nat \ {0} /\ Len(heap') = Len(heap)
      /\ queEnd = Len(heap) - 1 /\ queEnd' = Len(heap)
      /\ Accepted = queEnd /\ Accepted' = Len(heap)
      /\ queFront \in Nat /\ queFront <= queEnd /\ loaded \in Nat
      /\ wpc = "load" => cur \in Nat /\ cur <= queEnd
      /\ wpc = "store" => loaded <= queEnd
  <2>1. Len(heap') = Len(heap) /\ Len(heap) \in Nat \ {0} /\ queEnd \in Node
    BY LinkHeap
  <2>2. queEnd = Accepted /\ Accepted = Len(heap) - 1 /\ queEnd' = Len(heap)
    BY DEF ListShape, Accepted
  <2>3. Accepted' = Len(heap)
    BY <2>1 DEF Accepted
  <2>4. queFront \in Nat /\ queFront <= queEnd /\ loaded \in Nat /\ cur \in Nat
    BY <2>1 DEF TypeOK, ListShape
  <2>5. /\ wpc = "load" => cur <= queEnd
        /\ wpc = "store" => loaded <= queEnd
    BY <2>1, <2>4 DEF WorkerPlace
  <2>6. QED
    BY <2>1, <2>2, <2>3, <2>4, <2>5
<1>2. CASE wpc = "load"
  <2>1. Pending' = Pending \cup {Accepted + 1}
    BY <1>1, <1>2 DEF Pending
  <2>2. QED
    BY <1>1, <2>1 DEF Appended
<1>3. CASE wpc = "store" /\ loaded = Null
  <2>1. Pending' = Pending
    BY <1>3 DEF Pending, From
  <2>2. QED
    BY <1>1, <1>3, <2>1 DEF Dropped
<1>4. CASE wpc = "store" /\ loaded # Null
  <2>1. Pending' = Pending \cup {Accepted + 1}
    BY <1>1, <1>4 DEF Pending, From
  <2>2. QED
    BY <1>1, <2>1 DEF Appended
<1>5. CASE wpc \notin {"load", "store"} /\ queFront = Null
  <2>1. Pending' = Pending
    BY <1>5 DEF Pending, From
  <2>2. QED
    BY <1>1, <1>5, <2>1 DEF Dropped
<1>6. CASE wpc \notin {"load", "store"} /\ queFront # Null
  <2>1. Pending' = Pending \cup {Accepted + 1}
    BY <1>1, <1>6 DEF Pending, From
  <2>2. QED
    BY <1>1, <2>1 DEF Appended
<1>7. QED
  BY <1>2, <1>3, <1>4, <1>5, <1>6

LEMMA HandleEffect ==
  ASSUME IInv, Handle
  PROVE  Answered
<1> USE DEF IInv, Handle
<1>1. /\ cur = queFront /\ cur \in Nat /\ cur <= queEnd /\ cur # Null
      /\ queEnd \in Nat
      /\ \A j \in served : j < cur
  BY DEF TypeOK, ListShape, WorkerPlace
<1>2. Accepted' = Accepted
  BY DEF Accepted
<1>3. Pending = cur..queEnd /\ Pending' = (cur + 1)..queEnd
  BY <1>1 DEF Pending, From
<1>4. QED
  BY <1>1, <1>2, <1>3 DEF Answered

LEMMA LoadNextEffect ==
  ASSUME IInv, LoadNext
  PROVE  Nothing
<1> USE DEF IInv, LoadNext
<1>1. /\ cur = queFront /\ cur \in Node /\ cur <= queEnd /\ cur \in Nat
      /\ queEnd \in Node
  BY DEF TypeOK, ListShape, WorkerPlace
<1>2. loaded' = IF cur = queEnd THEN Null ELSE cur + 1
  BY <1>1 DEF ListShape, From
<1>3. Pending' = Pending /\ Accepted' = Accepted
  BY <1>1, <1>2 DEF Pending, From, Accepted
<1>4. QED
  BY <1>3 DEF Nothing

LEMMA OtherEffect ==
  ASSUME IInv,
         \/ \E c \in Client : Request(c) \/ ReadRequest(c)
         \/ \E batch \in SUBSET inbox : CallocFails(batch)
         \/ CheckFront \/ Connect \/ ReadFront \/ StoreFront \/ Free
         \/ UNCHANGED vars
  PROVE  Nothing
<1> USE DEF Nothing
<1>1. ASSUME NEW c \in Client, Request(c)
      PROVE  Nothing
  BY <1>1 DEF Request, Pending, Accepted, From
<1>2. ASSUME NEW c \in Client, ReadRequest(c)
      PROVE  Nothing
  <2>1. Len(heap') = Len(heap) + 1
    BY <1>2 DEF ReadRequest, IInv, TypeOK
  <2>2. Accepted' = Accepted
    BY <1>2, <2>1 DEF ReadRequest, Accepted, IInv, TypeOK
  <2>3. QED
    BY <1>2, <2>2 DEF ReadRequest, Pending, From
<1>3. ASSUME NEW batch \in SUBSET inbox, CallocFails(batch)
      PROVE  Nothing
  BY <1>3 DEF CallocFails, Pending, Accepted, From
<1>4. CASE CheckFront
  BY <1>4 DEF CheckFront, Pending, Accepted, From
<1>5. CASE Connect
  BY <1>5 DEF Connect, Pending, Accepted, From
<1>6. CASE ReadFront
  BY <1>6 DEF ReadFront, Pending, Accepted, From
<1>7. CASE StoreFront
  BY <1>7 DEF StoreFront, Pending, Accepted, From
<1>8. CASE Free
  BY <1>8 DEF Free, Pending, Accepted, From
<1>9. CASE UNCHANGED vars
  BY <1>9 DEF vars, Pending, Accepted, From
<1>10. QED
  BY <1>1, <1>2, <1>3, <1>4, <1>5, <1>6, <1>7, <1>8, <1>9

LEMMA StepEffect == IInv /\ [Next]_vars => Nothing \/ Appended \/ Dropped \/ Answered
  BY SetFrontEffect, LinkEffect, HandleEffect, LoadNextEffect, OtherEffect
     DEF Next, Main, Worker

-----------------------------------------------------------------------------
(* The worker handles the nodes in the order in which main() read their    *)
(* requests, and no node twice.                                            *)
THEOREM AnswersInOrder == Spec => OldestFirst
<1> DEFINE InOrder == wpc = "handle" /\ wpc' # "handle" => \A j \in served : j < cur
<1>1. IInv => (wpc = "handle" => \A j \in served : j < cur)
  BY DEF IInv, WorkerPlace
<1>2. IInv /\ [Next]_vars => [InOrder]_vars
  BY <1>1
<1>3. QED
  BY <1>2, Inductive, PTL DEF Spec, OldestFirst

(* The window in which a request is lost is the only one, and costs one    *)
(* request each time it is met.                                            *)
THEOREM OnlyLossWindow == Spec => LossWindow
<1> DEFINE Window == Lost' # Lost =>
             /\ mpc = "link"
             /\ Lost' = Lost \cup {pTemp}
             /\ queFront = Null \/ (wpc = "store" /\ loaded = Null)
<1>1. ASSUME IInv, Nothing
      PROVE  Window
  BY <1>1 DEF Nothing, Lost
<1>2. IInv => Accepted \in Nat /\ Pending \subseteq 1..Accepted
              /\ served \subseteq 1..Accepted
  BY DEF IInv, Pending, From, TypeOK, ListShape, WorkerPlace
<1>3. ASSUME IInv, Appended
      PROVE  Window
  <2>1. Lost' = Lost
    BY <1>2, <1>3 DEF Appended, Lost
  <2>2. QED
    BY <2>1
<1>4. ASSUME IInv, Dropped
      PROVE  Window
  BY <1>2, <1>4 DEF Dropped, Lost
<1>5. ASSUME IInv, Answered
      PROVE  Window
  <2>1. Lost' = Lost
    BY <1>5 DEF Answered, Lost
  <2>2. QED
    BY <2>1
<1>6. IInv /\ [Next]_vars => [Window]_vars
  BY <1>1, <1>3, <1>4, <1>5, StepEffect
<1>7. QED
  BY <1>6, Inductive, PTL DEF Spec, LossWindow

(* The unlocked list between the two threads implements a first-in         *)
(* first-out queue that may drop a request on the way in.                  *)
THEOREM Refinement == Spec => ImplementsQueue
<1>1. Init => Queue!QInit
  BY DEF Init, Queue!QInit, Pending, Accepted, From
<1>2. IInv /\ [Next]_vars => [Queue!QNext]_(Queue!qvars)
  <2>1. ASSUME Nothing
        PROVE  UNCHANGED Queue!qvars
    BY <2>1 DEF Nothing, Queue!qvars
  <2>2. ASSUME Appended
        PROVE  Queue!Accept
    BY <2>2 DEF Appended, Queue!Accept
  <2>3. ASSUME Dropped
        PROVE  Queue!Drop
    BY <2>3 DEF Dropped, Queue!Drop
  <2>4. ASSUME Answered
        PROVE  \E i \in Pending : Queue!Serve(i)
    BY <2>4 DEF Answered, Queue!Serve
  <2>5. QED
    BY <2>1, <2>2, <2>3, <2>4, StepEffect DEF Queue!QNext
<1>3. QED
  BY <1>1, <1>2, Inductive, PTL DEF Spec, ImplementsQueue, Queue!QSpec
=============================================================================
