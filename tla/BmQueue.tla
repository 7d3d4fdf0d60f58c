------------------------------- MODULE BmQueue -------------------------------
(***************************************************************************)
(* The request queue of bm_server.c: a singly linked list of BM_MSG nodes  *)
(* that the main (epoll) thread appends to and the worker thread           *)
(* serve_clients() consumes.  The two threads share queFront and the nodes *)
(* and use no lock; queEnd is a local of main().  One action is one load   *)
(* or store of shared memory, in program order, which is what the          *)
(* unoptimised x86-64 build performs.                                      *)
(*                                                                         *)
(* A node is named by the number of calloc() calls that had succeeded when *)
(* it was allocated.  The code compares node addresses only with NULL, so  *)
(* an address that the allocator hands out a second time cannot be told    *)
(* from a fresh one and needs no other name.                               *)
(*                                                                         *)
(* Clients are those of bm_client: each writes one request and blocks in   *)
(* read() until the reply arrives.                                         *)
(***************************************************************************)
EXTENDS Naturals, Sequences

CONSTANTS
  Client,      \* connected clients; a client stands for its socket fd
  MaxRequests, \* bound: how many requests the clients write in all
  Faults       \* the calls that may fail in this instance

ASSUME FaultsAssumption == Faults \subseteq {"calloc", "connect", "sql"}

Null == 0

VARIABLES
  waiting,   \* clients blocked in read() for a reply
  inbox,     \* clients whose request is in the socket, not yet read by main
  sent,      \* how many requests were written so far (bounded by MaxRequests)
  heap,      \* heap[n] = the BM_MSG node n: its fd and its next pointer
  freed,     \* nodes the worker has passed to free()
  queFront,  \* shared: first node of the list, or Null
  queEnd,    \* local of main(): the node appended last, or Null
  mpc,       \* where the main thread is
  wpc,       \* where the worker thread is
  cur,       \* pTemp of serve_clients()
  loaded,    \* the value of pTemp->next the worker has read but not stored
  served     \* history: nodes whose handler has run

mainVars == <<queEnd, mpc>>
workerVars == <<wpc, cur, loaded, freed, served>>
vars == <<waiting, inbox, sent, heap, queFront, mainVars, workerVars>>

Node == 1..Len(heap)
pTemp == Len(heap)   \* the node main() allocated last

Init ==
  /\ waiting = {} /\ inbox = {} /\ sent = 0
  /\ heap = <<>> /\ freed = {}
  /\ queFront = Null /\ queEnd = Null
  /\ mpc = "epoll" /\ wpc = "start"
  /\ cur = Null /\ loaded = Null
  /\ served = {}

-----------------------------------------------------------------------------
(* Mutant: the client goes on without reading the reply. *)
RequestNoRead(c) ==
  /\ sent < MaxRequests
  /\ mpc # "crashed"
  /\ c \notin waiting
  /\ inbox' = inbox \cup {c}
  /\ sent' = sent + 1
  /\ UNCHANGED <<waiting, heap, queFront, mainVars, workerVars>>

(* The clients: show_hotlist(), client_login() and client_signup() write a *)
(* request and read the reply before they do anything else.                *)
Request(c) ==
  /\ sent < MaxRequests
  /\ mpc # "crashed"
  /\ c \notin waiting
  /\ waiting' = waiting \cup {c}
  /\ inbox' = inbox \cup {c}
  /\ sent' = sent + 1
  /\ UNCHANGED <<heap, queFront, mainVars, workerVars>>

-----------------------------------------------------------------------------
(* The main thread. *)

(* Mutant: the event is reported again after the request was read. *)
ReadRequestAgain(c) ==
  /\ mpc = "epoll"
  /\ c \in inbox
  /\ heap' = Append(heap, [fd |-> c, next |-> Null])
  /\ mpc' = "check"
  /\ UNCHANGED <<waiting, inbox, sent, queFront, queEnd, workerVars>>

(* read() the request, calloc() a node and fill it in; nobody else sees    *)
(* the node yet.                                                           *)
ReadRequest(c) ==
  /\ mpc = "epoll"
  /\ c \in inbox
  /\ inbox' = inbox \ {c}
  /\ heap' = Append(heap, [fd |-> c, next |-> Null])
  /\ mpc' = "check"
  /\ UNCHANGED <<waiting, sent, queFront, queEnd, workerVars>>

(* calloc() fails: the request just read is thrown away, and the break     *)
(* leaves the loop over evlist, so the edge-triggered events behind it in  *)
(* the list are never seen again either.                                   *)
CallocFails(batch) ==
  /\ "calloc" \in Faults
  /\ mpc = "epoll"
  /\ batch # {}
  /\ inbox' = inbox \ batch
  /\ UNCHANGED <<waiting, sent, heap, queFront, mainVars, workerVars>>

(* Mutant: a list of one node is taken for an empty one. *)
CheckFrontLast ==
  /\ mpc = "check"
  /\ mpc' = IF queFront \in {Null, queEnd} THEN "setFront" ELSE "link"
  /\ UNCHANGED <<waiting, inbox, sent, heap, queFront, queEnd, workerVars>>

(* if(queFront == NULL) *)
CheckFront ==
  /\ mpc = "check"
  /\ mpc' = IF queFront = Null THEN "setFront" ELSE "link"
  /\ UNCHANGED <<waiting, inbox, sent, heap, queFront, queEnd, workerVars>>

(* queFront = pTemp; queEnd = pTemp *)
SetFront ==
  /\ mpc = "setFront"
  /\ queFront' = pTemp
  /\ queEnd' = pTemp
  /\ mpc' = "epoll"
  /\ UNCHANGED <<waiting, inbox, sent, heap, workerVars>>

(* Mutant: queEnd is not advanced. *)
LinkKeepsEnd ==
  /\ mpc = "link"
  /\ heap' = [heap EXCEPT ![queEnd].next = pTemp]
  /\ mpc' = "epoll"
  /\ UNCHANGED <<waiting, inbox, sent, queFront, queEnd, workerVars>>

(* Mutant: the node goes to the head of the list. *)
LinkAtFront ==
  /\ mpc = "link"
  /\ heap' = [heap EXCEPT ![pTemp].next = queFront]
  /\ queFront' = pTemp
  /\ mpc' = "epoll"
  /\ UNCHANGED <<waiting, inbox, sent, queEnd, workerVars>>

(* queEnd->next = pTemp; queEnd = pTemp.  When queEnd was freed meanwhile  *)
(* the store is undefined: the page may be gone, or the write goes unseen. *)
Link ==
  /\ mpc = "link"
  /\ heap' = [heap EXCEPT ![queEnd].next = pTemp]
  /\ queEnd' = pTemp
  /\ \/ mpc' = "epoll"
     \/ queEnd \in freed /\ mpc' = "crashed"
  /\ UNCHANGED <<waiting, inbox, sent, queFront, workerVars>>

Main ==
  \/ \E c \in Client : ReadRequest(c)
  \/ \E batch \in SUBSET inbox : CallocFails(batch)
  \/ CheckFront \/ SetFront \/ Link

-----------------------------------------------------------------------------
(* The worker thread. *)

(* mysql_real_connect(): on failure the thread returns and nobody serves.  *)
Connect ==
  /\ wpc = "start"
  /\ mpc # "crashed"
  /\ \/ wpc' = "spin"
     \/ "connect" \in Faults /\ wpc' = "exited"
  /\ UNCHANGED <<waiting, inbox, sent, heap, queFront, mainVars, cur, loaded, freed, served>>

(* pTemp = *pFront; an empty list is polled again at once. *)
ReadFront ==
  /\ wpc = "spin"
  /\ mpc # "crashed"
  /\ queFront # Null
  /\ cur' = queFront
  /\ wpc' = "handle"
  /\ UNCHANGED <<waiting, inbox, sent, heap, queFront, mainVars, loaded, freed, served>>

(* The switch on msgtype: the handler writes its reply to pTemp->fd, or    *)
(* returns without one when a statement fails (on_type_hotlist() and       *)
(* on_type_signup_profile()).                                              *)
Handle ==
  /\ wpc = "handle"
  /\ mpc # "crashed"
  /\ \/ waiting' = waiting \ {heap[cur].fd}
     \/ "sql" \in Faults /\ UNCHANGED waiting
  /\ served' = served \cup {cur}
  /\ wpc' = "load"
  /\ UNCHANGED <<inbox, sent, heap, queFront, mainVars, cur, loaded, freed>>

(* *pFront = pTemp->next, first the load ... *)
LoadNext ==
  /\ wpc = "load"
  /\ mpc # "crashed"
  /\ loaded' = heap[cur].next
  /\ wpc' = "store"
  /\ UNCHANGED <<waiting, inbox, sent, heap, queFront, mainVars, cur, freed, served>>

(* Mutant: the node is freed while it is still the front of the list. *)
StoreFrontForgotten ==
  /\ wpc = "store"
  /\ mpc # "crashed"
  /\ wpc' = "free"
  /\ UNCHANGED <<waiting, inbox, sent, heap, queFront, mainVars, cur, loaded, freed, served>>

(* Mutant: the list is emptied after one request. *)
StoreFrontNull ==
  /\ wpc = "store"
  /\ mpc # "crashed"
  /\ queFront' = Null
  /\ wpc' = "free"
  /\ UNCHANGED <<waiting, inbox, sent, heap, mainVars, cur, loaded, freed, served>>

(* ... then the store. *)
StoreFront ==
  /\ wpc = "store"
  /\ mpc # "crashed"
  /\ queFront' = loaded
  /\ wpc' = "free"
  /\ UNCHANGED <<waiting, inbox, sent, heap, mainVars, cur, loaded, freed, served>>

Free ==
  /\ wpc = "free"
  /\ mpc # "crashed"
  /\ freed' = freed \cup {cur}
  /\ wpc' = "spin"
  /\ UNCHANGED <<waiting, inbox, sent, heap, queFront, mainVars, cur, loaded, served>>

Worker == Connect \/ ReadFront \/ Handle \/ LoadNext \/ StoreFront \/ Free

Next == (\E c \in Client : Request(c)) \/ Main \/ Worker

(* Both threads are scheduled by the kernel and neither waits for the      *)
(* other; the clients' users need not type anything.                       *)
Spec == Init /\ [][Next]_vars /\ WF_vars(Main) /\ WF_vars(Worker)

-----------------------------------------------------------------------------
(* The nodes the worker will still meet.  From any node of the list on,    *)
(* they are the interval up to queEnd, for main() links nodes in the order *)
(* in which it allocates them.                                             *)
From(n) == IF n = Null THEN {} ELSE n..queEnd

Pending ==
  CASE wpc = "load"  -> (cur + 1)..queEnd
    [] wpc = "store" -> From(loaded)
    [] OTHER         -> From(queFront)

(* The nodes main() is done with. *)
Accepted == IF mpc \in {"check", "setFront", "link"} THEN Len(heap) - 1 ELSE Len(heap)

(* Neither answered nor in the list: nobody will ever look at these. *)
Lost == (1..Accepted) \ (Pending \cup served)

-----------------------------------------------------------------------------
TypeOK ==
  /\ waiting \subseteq Client
  /\ inbox \subseteq waiting
  /\ sent \in Nat
  /\ heap \in Seq([fd : Client, next : Nat])
  /\ freed \subseteq Node
  /\ queFront \in Node \cup {Null}
  /\ queEnd \in Node \cup {Null}
  /\ mpc \in {"epoll", "check", "setFront", "link", "crashed"}
  /\ wpc \in {"start", "spin", "handle", "load", "store", "free", "exited"}
  /\ cur \in Node \cup {Null}
  /\ loaded \in Node \cup {Null}
  /\ served \subseteq Node

-----------------------------------------------------------------------------
(* The inductive invariant.                                                *)
(*                                                                         *)
(* The shape of the list: it is the interval queFront..queEnd, each node   *)
(* linked to the one allocated next, and main()'s local queEnd is the node *)
(* it appended last, whether or not the worker has freed it.               *)
ListShape ==
  /\ queEnd = Accepted
  /\ queFront <= queEnd
  /\ \A n \in From(queFront) : heap[n].next = IF n = queEnd THEN Null ELSE n + 1
  /\ mpc \in {"check", "setFront", "link"} => Len(heap) > 0 /\ heap[pTemp].next = Null
  /\ mpc = "setFront" => queFront = Null
  /\ mpc = "link" => queEnd # Null

(* The worker's place in the list: it is busy with the front, and what it  *)
(* has freed or answered lies before it.                                   *)
WorkerPlace ==
  /\ wpc \in {"handle", "load", "store"} => queFront # Null /\ cur = queFront
  /\ wpc = "store" => loaded = Null \/ (loaded = cur + 1 /\ cur < queEnd)
  /\ wpc = "free" =>
       /\ cur # Null /\ cur <= queEnd /\ cur \notin freed
       /\ queFront # Null => cur < queFront
  /\ \A n \in freed :
       n <= queEnd /\ (queFront # Null => n < queFront)
  /\ \A n \in served :
       /\ n <= queEnd
       /\ queFront # Null => n < queFront \/ (n = queFront /\ wpc \in {"load", "store"})

(* The nodes whose handler is still to run, linked or about to be.         *)
Held == Pending \cup (Node \ (1..Accepted))

(* serve_clients() never touches a node it has already freed: the node it  *)
(* is busy with, from reading *pFront to free(pTemp), is live.             *)
WorkerReadsLive ==
  wpc \in {"handle", "load", "store", "free"} => cur \in Node \ freed

(* Both threads write queFront without a lock.  They are never about to do *)
(* so at the same time: once main() has found the list empty, the worker   *)
(* has nothing left to store.                                              *)
FrontHasOneWriter ==
  mpc = "setFront" => wpc \notin {"handle", "load", "store"}

(* The one freed node main() may still write to is the last node of a list *)
(* that has run empty: queEnd->next = pTemp never lands in a freed node    *)
(* while the worker still has a list to follow.                            *)
DanglingOnlyLast ==
  mpc = "link" /\ queEnd \in freed => queFront = Null

(* A client is owed one reply at a time: the nodes the worker will still   *)
(* answer belong to different clients, each of which is blocked in read()  *)
(* and has nothing else in its socket.                                     *)
OneReplyOwed ==
  /\ \A n \in Held : heap[n].fd \in waiting \ inbox
  /\ \A m, n \in Held : heap[m].fd = heap[n].fd => m = n

IInv == TypeOK /\ ListShape /\ WorkerPlace /\ OneReplyOwed

(* Whenever the worker handles a node, main() read its request later than  *)
(* every request handled before: requests are handled in the order in      *)
(* which main() took them off the sockets, and no node a second time,      *)
(* whatever is lost between.                                               *)
OldestFirst ==
  [][wpc = "handle" /\ wpc' # "handle" => \A j \in served : j < cur]_vars

(* A request gets lost in one way only: main() found queFront set, and     *)
(* before it links the new node the worker has read (or already stored)    *)
(* the NULL of the last node.  At most one request is lost each time.      *)
LossWindow ==
  [][Lost' # Lost =>
       /\ mpc = "link"
       /\ Lost' = Lost \cup {pTemp}
       /\ queFront = Null \/ (wpc = "store" /\ loaded = Null)]_vars

(* Whatever is in the list is answered, unless the worker never got its    *)
(* database connection or the process died.                                *)
PendingIsServed ==
  \A n \in 1..MaxRequests :
    n \in Pending ~> (n \in served \/ wpc = "exited" \/ mpc = "crashed")

(* The list implements a first-in first-out queue that may drop a request  *)
(* on the way in.                                                          *)
Queue == INSTANCE RequestQueue WITH
           accepted <- Accepted, pending <- Pending, served <- served
ImplementsQueue == Queue!QSpec

(* "for循环对evlist中的事件一一进行处理" (bm_server.c:304, the loop deals with the   *)
(* events one by one): a client that has sent a request gets its reply.    *)
EveryRequestAnswered ==
  \A c \in Client : c \in waiting ~> (c \notin waiting \/ mpc = "crashed")
=============================================================================
