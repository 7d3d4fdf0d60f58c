-------------------------- MODULE BmEventLoopProofs --------------------------
(***************************************************************************)
(* Theorems about BmEventLoop, for any terminals and any number of         *)
(* descriptors.                                                            *)
(***************************************************************************)
EXTENDS BmEventLoop, TLAPS

USE DEF Listen, Fd, FdsOf, terminalVars, threadVars, historyVars

(* The initial state satisfies the invariant. *)
LEMMA InitInv == Init => IInv
<1> SUFFICES ASSUME Init PROVE IInv
  OBVIOUS
<1> USE DEF Init
<1>1. TypeOK
  BY DEF TypeOK
<1>2. Sessions /\ RepliesToAsker /\ EdgesMatchData /\ EndOfService /\ OneReplyOwed
  BY FreeAssumption DEF Sessions, RepliesToAsker, EdgesMatchData, EndOfService, OneReplyOwed
<1> QED
  BY <1>1, <1>2 DEF IInv

-----------------------------------------------------------------------------
(* The terminals. *)

(* A terminal connects; it had neither a connection nor a request before. *)
LEMMA ConnectInv ==
  ASSUME IInv, NEW c \in Client, Connect(c)
  PROVE  IInv'
<1> USE DEF IInv, Connect
<1>1. TypeOK'
  BY DEF TypeOK
<1>2. Sessions'
  BY FreeAssumption DEF TypeOK, Sessions
<1>3. OneReplyOwed'
  BY DEF TypeOK, OneReplyOwed
<1>4. RepliesToAsker' /\ EdgesMatchData' /\ EndOfService'
  BY DEF RepliesToAsker, EdgesMatchData, EndOfService
<1> QED
  BY <1>1, <1>2, <1>3, <1>4

(* An event is added for a terminal in its menu, which has none yet. *)
LEMMA RequestInv ==
  ASSUME IInv, NEW c \in Client, Request(c)
  PROVE  IInv'
<1> USE DEF IInv, Request
<1>1. TypeOK'
  BY DEF TypeOK
<1>2. c \notin unread /\ hangup[c] = "no"
  BY DEF TypeOK, Sessions
<1>3. FdsOf(c) \cap evlist = {}
  BY <1>2, FreeAssumption DEF TypeOK, EdgesMatchData
<1>4. Sessions'
  BY <1>2, <1>3, FreeAssumption DEF TypeOK, Sessions
<1>5. OneReplyOwed'
  BY DEF TypeOK, OneReplyOwed
<1>6. EdgesMatchData'
  BY FreeAssumption DEF TypeOK, EdgesMatchData
<1>7. RepliesToAsker' /\ EndOfService'
  BY DEF RepliesToAsker, EndOfService
<1> QED
  BY <1>1, <1>4, <1>5, <1>6, <1>7

(* The reply is read, and the terminal is back in its menu. *)
LEMMA ReadReplyInv ==
  ASSUME IInv, NEW c \in Client, ReadReply(c)
  PROVE  IInv'
<1> USE DEF IInv, ReadReply
<1>1. TypeOK'
  BY DEF TypeOK
<1>2. Sessions'
  BY FreeAssumption DEF TypeOK, Sessions, OneReplyOwed
<1>3. OneReplyOwed'
  BY DEF TypeOK, OneReplyOwed
<1>4. RepliesToAsker' /\ EdgesMatchData' /\ EndOfService'
  BY DEF RepliesToAsker, EdgesMatchData, EndOfService
<1> QED
  BY <1>1, <1>2, <1>3, <1>4

(* A terminal leaves, and its end is one more event. *)
LEMMA LeaveInv ==
  ASSUME IInv, NEW c \in Client, Leave(c)
  PROVE  IInv'
<1> USE DEF IInv, Leave
<1>1. TypeOK'
  BY DEF TypeOK
<1>2. Sessions'
  BY FreeAssumption DEF TypeOK, Sessions
<1>3. OneReplyOwed'
  BY DEF TypeOK, OneReplyOwed
<1>4. EdgesMatchData'
  BY FreeAssumption DEF TypeOK, EdgesMatchData
<1>5. RepliesToAsker' /\ EndOfService'
  BY DEF RepliesToAsker, EndOfService, Alive
<1> QED
  BY <1>1, <1>2, <1>3, <1>4, <1>5

-----------------------------------------------------------------------------
(* The main thread. *)

(* The ready list becomes evlist, which was empty. *)
LEMMA EpollWaitInv ==
  ASSUME IInv, EpollWait
  PROVE  IInv'
<1> USE DEF IInv, EpollWait
<1>1. TypeOK'
  BY DEF TypeOK
<1>2. Sessions'
  BY DEF Sessions
<1>3. EdgesMatchData'
  BY DEF Sessions, EdgesMatchData
<1>4. OneReplyOwed' /\ RepliesToAsker' /\ EndOfService'
  BY DEF OneReplyOwed, RepliesToAsker, EndOfService
<1> QED
  BY <1>1, <1>2, <1>3, <1>4

(* A free descriptor has no event and no request in the list. *)
LEMMA AcceptInv ==
  ASSUME IInv, NEW c \in Client, NEW f \in Fd, Accept(c, f)
  PROVE  IInv'
<1> USE DEF IInv, Accept, Done
<1>1. TypeOK'
  BY DEF TypeOK
<1>2. f \notin ready \cup evlist
  BY FreeAssumption DEF EdgesMatchData, TypeOK
<1>3. Sessions'
  <2>1. c \in Client /\ c # "free" /\ term[c] # "off" /\ \A g \in Fd : desc[g] # c
    BY FreeAssumption DEF Sessions
  <2>2. \A g \in Fd : desc'[g] = IF g = f THEN c ELSE desc[g]
    BY DEF TypeOK
  <2>3. \A b \in backlog' : term[b] # "off" /\ \A g \in Fd : desc'[g] # b
    BY <2>2 DEF Sessions
  <2>4. \A g \in Fd : desc'[g] # "free" => term[desc'[g]] # "off"
    BY <2>1, <2>2 DEF Sessions
  <2>5. \A g, e \in Fd : desc'[g] = desc'[e] => desc'[g] = "free" \/ g = e
    BY <2>1, <2>2 DEF Sessions
  <2>6. \A g \in ready' \cap evlist' : hangup[desc'[g]] # "no"
    BY <1>2, <2>2 DEF TypeOK, Sessions
  <2>7. mpc' = "epoll" => evlist' = {}
    OBVIOUS
  <2> QED
    BY <2>3, <2>4, <2>5, <2>6, <2>7 DEF Sessions
<1>4. RepliesToAsker'
  <2>1. \A i \in DOMAIN list : list[i] \in Requests
    BY DEF TypeOK
  <2>2. \A i \in DOMAIN list : list[i].from # "free"
    BY <2>1, FreeAssumption DEF Requests
  <2> QED
    BY <2>2 DEF TypeOK, RepliesToAsker
<1>5. EdgesMatchData'
  BY <1>2, FreeAssumption DEF TypeOK, EdgesMatchData
<1>6. OneReplyOwed' /\ EndOfService'
  BY DEF OneReplyOwed, EndOfService
<1> QED
  BY <1>1, <1>3, <1>4, <1>5, <1>6

(* The main thread stops in pthread_join(). *)
LEMMA AcceptFailsInv ==
  ASSUME IInv, AcceptFails
  PROVE  IInv'
  BY DEF IInv, AcceptFails, TypeOK, Sessions, OneReplyOwed, RepliesToAsker, EdgesMatchData,
         EndOfService

(* pthread_join() returns when the worker has. *)
LEMMA JoinedInv ==
  ASSUME IInv, Joined
  PROVE  IInv'
  BY DEF IInv, Joined, TypeOK, Sessions, OneReplyOwed, RepliesToAsker, EdgesMatchData,
         EndOfService

(* The worker starts to serve, or returns. *)
LEMMA WorkerConnectInv ==
  ASSUME IInv, WorkerConnect
  PROVE  IInv'
  BY DEF IInv, WorkerConnect, Alive, TypeOK, Sessions, OneReplyOwed, RepliesToAsker,
         EdgesMatchData, EndOfService

(* One request moves from its socket to the end of the list. *)
LEMMA ReadRequestInv ==
  ASSUME IInv, NEW f \in Fd, ReadRequest(f)
  PROVE  IInv'
<1> USE DEF IInv, ReadRequest, Done, Look
<1>1. desc[f] \in Client /\ desc[f] \in unread
  BY DEF TypeOK
<1>2. TypeOK'
  <2>1. list' \in Seq(Requests)
    <3>1. [fd |-> f, from |-> desc[f]] \in Requests
      BY <1>1 DEF Requests
    <3> QED
      BY <3>1 DEF TypeOK
  <2> QED
    BY <2>1 DEF TypeOK
<1>3. Sessions'
  BY <1>1 DEF TypeOK, Sessions
<1>4. EdgesMatchData'
  <2>1. \A g \in Fd : desc[g] = desc[f] => g = f
    BY <1>1, FreeAssumption DEF Sessions, TypeOK
  <2>2. f \in ready => hangup[desc[f]] # "no"
    BY DEF Sessions
  <2> QED
    BY <1>1, <2>1, <2>2, FreeAssumption DEF TypeOK, EdgesMatchData
<1>5. RepliesToAsker' /\ OneReplyOwed'
  <2>1. RepliesToAsker'
    BY <1>1 DEF TypeOK, RepliesToAsker
  <2>2. DOMAIN list' = DOMAIN list \cup {Len(list) + 1}
    BY DEF TypeOK
  <2>3. list'[Len(list) + 1].from = desc[f]
    BY DEF TypeOK
  <2>4. \A i \in DOMAIN list : list'[i] = list[i] /\ list[i].from # desc[f]
    BY <1>1 DEF TypeOK, OneReplyOwed
  <2>5. term[desc[f]] \in {"waiting", "gone"} /\ desc[f] \notin reply
    BY <1>1 DEF Sessions, OneReplyOwed
  <2>6. OneReplyOwed'
    BY <1>1, <2>2, <2>3, <2>4, <2>5 DEF TypeOK, OneReplyOwed
  <2> QED
    BY <2>1, <2>6
<1>6. EndOfService'
  BY DEF EndOfService
<1> QED
  BY <1>2, <1>3, <1>4, <1>5, <1>6

(* One request is read and lost. *)
LEMMA ReadRequestLostInv ==
  ASSUME IInv, NEW f \in Fd, ReadRequestLost(f)
  PROVE  IInv'
<1> USE DEF IInv, ReadRequestLost, Look
<1>1. desc[f] \in Client /\ desc[f] \in unread
  BY DEF TypeOK
<1>2. TypeOK'
  BY DEF TypeOK
<1>3. Sessions'
  BY <1>1 DEF TypeOK, Sessions
<1>4. EdgesMatchData'
  <2>1. \A g \in Fd : desc[g] = desc[f] => g = f
    BY <1>1, FreeAssumption DEF Sessions, TypeOK
  <2>2. f \in ready => hangup[desc[f]] # "no"
    BY DEF Sessions
  <2> QED
    BY <1>1, <2>1, <2>2, FreeAssumption DEF TypeOK, EdgesMatchData
<1>5. RepliesToAsker' /\ OneReplyOwed' /\ EndOfService'
  BY DEF RepliesToAsker, OneReplyOwed, EndOfService
<1> QED
  BY <1>2, <1>3, <1>4, <1>5

(* A break: what evlist still held is forgotten. *)
LEMMA CallocFailsInv ==
  ASSUME IInv, NEW f \in Fd, CallocFails(f)
  PROVE  IInv'
<1> USE DEF IInv, CallocFails, Look
<1>1. TypeOK'
  BY DEF TypeOK
<1>2. Sessions' /\ OneReplyOwed'
  BY DEF TypeOK, Sessions, OneReplyOwed
<1>3. EdgesMatchData'
  <2>1. desc[f] # "free"
    BY FreeAssumption DEF EdgesMatchData, TypeOK
  <2>2. \A g \in Fd : desc[g] = desc[f] => g = f
    BY <2>1 DEF Sessions
  <2>3. f \in ready => hangup[desc[f]] # "no"
    BY DEF Sessions
  <2> QED
    BY <2>1, <2>2, <2>3 DEF TypeOK, EdgesMatchData
<1>4. RepliesToAsker' /\ EndOfService'
  BY DEF RepliesToAsker, EndOfService
<1> QED
  BY <1>1, <1>2, <1>3, <1>4

(* End of file changes evlist only. *)
LEMMA ReadEofInv ==
  ASSUME IInv, NEW f \in Fd, ReadEof(f)
  PROVE  IInv'
<1> USE DEF IInv, ReadEof, Done, Look
<1>1. TypeOK'
  BY DEF TypeOK
<1>2. Sessions' /\ EdgesMatchData'
  BY DEF TypeOK, Sessions, EdgesMatchData
<1>3. OneReplyOwed' /\ RepliesToAsker' /\ EndOfService'
  BY DEF OneReplyOwed, RepliesToAsker, EndOfService
<1> QED
  BY <1>1, <1>2, <1>3

(* An event without data and without end of file is a reset. *)
LEMMA ReadFailsInv ==
  ASSUME IInv, NEW f \in Fd, ReadFails(f)
  PROVE  IInv'
<1> USE DEF IInv, ReadFails
<1>1. desc[f] \in Client /\ hangup[desc[f]] = "rst"
  BY DEF TypeOK, EdgesMatchData
<1>2. EndOfService'
  BY <1>1 DEF EndOfService
<1>3. TypeOK' /\ Sessions' /\ OneReplyOwed' /\ RepliesToAsker' /\ EdgesMatchData'
  BY DEF TypeOK, Sessions, OneReplyOwed, RepliesToAsker, EdgesMatchData
<1> QED
  BY <1>2, <1>3

-----------------------------------------------------------------------------
(* The worker writes a reply to the terminal that asked. *)
LEMMA ServeInv ==
  ASSUME IInv, Serve
  PROVE  IInv'
<1> USE DEF IInv
<1> DEFINE f == Head(list).fd
           c == desc[f]
<1> HIDE DEF c, f
<1>0. list \in Seq(Requests) /\ list # <<>>
  BY DEF Serve, TypeOK
<1>1. /\ 1 \in DOMAIN list /\ Head(list) = list[1] /\ f \in Fd /\ f = list[1].fd
      /\ list' = Tail(list)
      /\ UNCHANGED <<term, backlog, unread, hangup, desc, evlist, historyVars, threadVars>>
  <2>1. 1 \in DOMAIN list /\ Head(list) = list[1] /\ list[1] \in Requests
    BY <1>0
  <2>2. f = list[1].fd /\ f \in Fd
    BY <2>1 DEF Requests, f
  <2> QED
    BY <2>1, <2>2 DEF Serve
<1>2. c = list[1].from /\ c \in Client /\ c # "free"
  <2>1. desc[f] = list[1].from
    BY <1>1 DEF RepliesToAsker
  <2>2. list[1].from \in Client
    <3>1. list[1] \in Requests
      BY <1>0, <1>1
    <3> QED
      BY <3>1 DEF Requests
  <2> QED
    BY <2>1, <2>2, FreeAssumption DEF c
<1>3. /\ reply' = IF term[c] # "gone" THEN reply \cup {c} ELSE reply
      /\ ready' = IF term[c] = "gone" THEN ready \cup {f} ELSE ready
  BY <1>2 DEF Serve, c, f
<1>4. TypeOK'
  <2>1. list' \in Seq(Requests)
    BY <1>0, <1>1
  <2> QED
    BY <1>1, <1>2, <1>3, <2>1 DEF TypeOK
<1>5. /\ DOMAIN list' = 1..(Len(list) - 1)
      /\ \A i \in DOMAIN list' : i + 1 \in DOMAIN list /\ list'[i] = list[i + 1]
  BY <1>0, <1>1
<1>6. RepliesToAsker'
  BY <1>1, <1>5 DEF RepliesToAsker
<1>7. Sessions' /\ EdgesMatchData'
  <2>1. c = desc[f]
    BY DEF c
  <2>2. term[c] = "gone" => hangup[c] # "no"
    BY <1>2 DEF Sessions
  <2> QED
    BY <1>1, <1>2, <1>3, <2>1, <2>2 DEF Sessions, EdgesMatchData
<1>8. term[c] \in {"waiting", "gone"} /\ c \notin unread
  BY <1>1, <1>2 DEF OneReplyOwed
<1>9. \A i \in DOMAIN list' : list'[i].from # c
  BY <1>1, <1>2, <1>5 DEF OneReplyOwed
<1>10. OneReplyOwed'
  <2>1. \A i, j \in DOMAIN list' : list'[i].from = list'[j].from => i = j
    BY <1>0, <1>5 DEF OneReplyOwed
  <2> QED
    BY <1>1, <1>3, <1>5, <1>8, <1>9, <2>1 DEF OneReplyOwed
<1>11. EndOfService'
  BY <1>1 DEF EndOfService, Serve, Alive
<1> QED
  BY <1>4, <1>6, <1>7, <1>10, <1>11

-----------------------------------------------------------------------------
(* Every step keeps the invariant. *)
LEMMA NextInv == IInv /\ [Next]_vars => IInv'
<1> SUFFICES ASSUME IInv, [Next]_vars PROVE IInv'
  OBVIOUS
<1>1. CASE \E c \in Client : Connect(c) \/ Request(c) \/ ReadReply(c) \/ Leave(c)
  BY <1>1, ConnectInv, RequestInv, ReadReplyInv, LeaveInv
<1>2. CASE EpollWait
  BY <1>2, EpollWaitInv
<1>3. CASE \E c \in Client, f \in Fd : Accept(c, f)
  BY <1>3, AcceptInv
<1>4. CASE AcceptFails
  BY <1>4, AcceptFailsInv
<1>5. CASE \E f \in Fd : ReadRequest(f) \/ ReadRequestLost(f)
  BY <1>5, ReadRequestInv, ReadRequestLostInv
<1>8. CASE \E f \in Fd : CallocFails(f) \/ ReadEof(f) \/ ReadFails(f)
  BY <1>8, CallocFailsInv, ReadEofInv, ReadFailsInv
<1>9. CASE Joined \/ WorkerConnect
  BY <1>9, JoinedInv, WorkerConnectInv
<1>6. CASE Serve
  BY <1>6, ServeInv
<1>7. CASE UNCHANGED vars
  BY <1>7 DEF vars, IInv, TypeOK, Sessions, OneReplyOwed, RepliesToAsker, EdgesMatchData,
              EndOfService
<1> QED
  BY <1>1, <1>2, <1>3, <1>4, <1>5, <1>6, <1>7, <1>8, <1>9 DEF Next, Main

(* The table of connections, the pending events and the place of each      *)
(* request are invariant.                                                  *)
THEOREM Inductive == Spec => []IInv
  BY InitInv, NextInv, PTL DEF Spec

(* Type correctness of the terminals, the descriptor table and epoll.      *)
THEOREM TypeCorrect == Spec => []TypeOK
<1>1. IInv => TypeOK
  BY DEF IInv
<1> QED
  BY <1>1, Inductive, PTL

(* A descriptor number in the list still stands for the terminal that      *)
(* asked when its reply is written.                                        *)
THEOREM RepliesReachAsker == Spec => []RepliesToAsker
<1>1. IInv => RepliesToAsker
  BY DEF IInv
<1> QED
  BY <1>1, Inductive, PTL

(* A request that has not been read has an event, the end of a terminal    *)
(* has one until its descriptor is read from, unless a break dropped it,   *)
(* and no event is made up.                                                *)
THEOREM NoEdgeMissed == Spec => []EdgesMatchData
<1>1. IInv => EdgesMatchData
  BY DEF IInv
<1> QED
  BY <1>1, Inductive, PTL

(* A reset, a dangling queEnd, or a failed accept() with a worker that has *)
(* returned: nothing else in the loop ends the process or its service.     *)
THEOREM EndsKnown == Spec => []EndOfService
<1>1. IInv => EndOfService
  BY DEF IInv
<1> QED
  BY <1>1, Inductive, PTL
=============================================================================
