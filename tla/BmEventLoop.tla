----------------------------- MODULE BmEventLoop -----------------------------
(***************************************************************************)
(* The socket side of bm_server.c: main() waits in epoll_wait(), accepts   *)
(* terminals, reads their requests and hands them to the worker's list,    *)
(* here a sequence.  Connections are registered edge-triggered: an event   *)
(* is reported once, and what is not read then is not reported again.      *)
(*                                                                         *)
(* A terminal is one process of bm_client: it connects once, writes one    *)
(* request at a time, and leaves by its menu or by being killed.  The      *)
(* server listens on the loopback address, where one write() arrives whole.*)
(* TCP and epoll are external and modelled as the code meets them: a peer  *)
(* that closes with nothing unread sends FIN, one that leaves a reply      *)
(* unread sends RST, and either is reported as EPOLLIN.                    *)
(***************************************************************************)
EXTENDS Naturals, Sequences

CONSTANTS
  Client,   \* terminals
  MaxFds,   \* descriptors the process may still open for terminals
  Faults    \* what may go wrong in this instance

ASSUME MaxFdsAssumption == MaxFds \in Nat
ASSUME LoopFaultsAssumption == Faults \subseteq {"calloc", "queue", "connect", "accept"}
ASSUME FreeAssumption == "free" \notin Client

Listen == 0            \* server_sockfd
Fd == 1..MaxFds

VARIABLES
  term,     \* each terminal: off, in its menu, waiting for a reply, gone
  backlog,  \* connections the server has not accepted yet
  unread,   \* terminals whose request the server has not read yet
  hangup,   \* what the terminal's side sent at its end: "no", "fin", "rst"
  reply,    \* terminals with a reply they have not read yet
  desc,     \* the descriptor table: a terminal's connection, or "free"
  ready,    \* epoll's ready list: descriptors with an event to report
  evlist,   \* descriptors of evlist that the loop has not come to yet
  forgotten, \* history: descriptors whose event was in evlist at a break
  looked,   \* history: descriptors main() has read from after the end of
            \*   their terminal had arrived
  mpc,      \* the main thread: in epoll_wait(), in the loop over evlist, in
            \*   pthread_join(), exited, crashed on a read that failed, or
            \*   crashed on the dangling queEnd ("dangled")
  worker,   \* serve_clients(): connecting, serving, or returned
  list      \* the requests the worker will still find, oldest first

terminalVars == <<term, backlog, hangup, reply>>
threadVars == <<mpc, worker>>
historyVars == <<forgotten, looked>>
vars == <<term, backlog, unread, hangup, reply, desc, ready, evlist, forgotten, looked, mpc,
          worker, list>>

FdsOf(c) == {f \in Fd : desc[f] = c}

Alive == mpc \in {"epoll", "loop", "join"}

Init ==
  /\ term = [c \in Client |-> "off"]
  /\ backlog = {}
  /\ unread = {}
  /\ hangup = [c \in Client |-> "no"]
  /\ reply = {}
  /\ desc = [f \in Fd |-> "free"]
  /\ ready = {}
  /\ evlist = {}
  /\ forgotten = {}
  /\ looked = {}
  /\ mpc = "epoll"
  /\ worker = "start"
  /\ list = <<>>

-----------------------------------------------------------------------------
(* The terminals. *)

(* Mutant: the listening socket is edge-triggered too, as in line 224. *)
ConnectEdge(c) ==
  /\ Alive
  /\ term[c] = "off"
  /\ term' = [term EXCEPT ![c] = "menu"]
  /\ backlog' = backlog \cup {c}
  /\ ready' = ready \cup {Listen}
  /\ UNCHANGED <<unread, hangup, reply, desc, evlist, historyVars, threadVars, list>>

(* connect(): done by the server's kernel before accept(). *)
Connect(c) ==
  /\ Alive
  /\ term[c] = "off"
  /\ term' = [term EXCEPT ![c] = "menu"]
  /\ backlog' = backlog \cup {c}
  /\ UNCHANGED <<unread, hangup, reply, desc, ready, evlist, historyVars, threadVars, list>>

Request(c) ==
  /\ Alive
  /\ term[c] = "menu"
  /\ term' = [term EXCEPT ![c] = "waiting"]
  /\ unread' = unread \cup {c}
  /\ ready' = ready \cup FdsOf(c)
  /\ UNCHANGED <<backlog, hangup, reply, desc, evlist, historyVars, threadVars, list>>

ReadReply(c) ==
  /\ term[c] = "waiting"
  /\ c \in reply
  /\ term' = [term EXCEPT ![c] = "menu"]
  /\ reply' = reply \ {c}
  /\ UNCHANGED <<backlog, unread, hangup, desc, ready, evlist, historyVars, threadVars, list>>

(* Option 0 of the menu, or the process is killed. *)
Leave(c) ==
  /\ Alive
  /\ term[c] \in {"menu", "waiting"}
  /\ term' = [term EXCEPT ![c] = "gone"]
  /\ hangup' = [hangup EXCEPT ![c] = IF c \in reply THEN "rst" ELSE "fin"]
  /\ reply' = reply \ {c}
  /\ ready' = ready \cup FdsOf(c)
  /\ UNCHANGED <<backlog, unread, desc, evlist, historyVars, threadVars, list>>

-----------------------------------------------------------------------------
(* The main thread. *)

(* epoll_wait(): the listening socket is level-triggered, and reported     *)
(* while there is a connection to accept.                                  *)
EpollWait ==
  LET events == ready \cup (IF backlog # {} THEN {Listen} ELSE {})
  IN  /\ mpc = "epoll"
      /\ events # {}
      /\ evlist' = events
      /\ ready' = {}
      /\ mpc' = "loop"
      /\ UNCHANGED <<terminalVars, unread, desc, historyVars, worker, list>>

(* The loop has dealt with one event. *)
Done(f) ==
  /\ mpc = "loop"
  /\ f \in evlist
  /\ evlist' = evlist \ {f}
  /\ mpc' = IF evlist' = {} THEN "epoll" ELSE "loop"

(* Mutant: without the else of line 337 the new connection is read at once. *)
AcceptReads(c, f) ==
  /\ Done(Listen)
  /\ c \in backlog
  /\ desc[f] = "free" /\ \A g \in 1..(f - 1) : desc[g] # "free"
  /\ desc' = [desc EXCEPT ![f] = c]
  /\ backlog' = backlog \ {c}
  /\ ready' = ready \cup {f}
  /\ UNCHANGED <<term, unread, hangup, reply, historyVars, worker, list>>

(* accept() takes the lowest free descriptor; epoll_ctl() finds out at     *)
(* once what has arrived already.                                          *)
Accept(c, f) ==
  /\ Done(Listen)
  /\ c \in backlog
  /\ desc[f] = "free" /\ \A g \in 1..(f - 1) : desc[g] # "free"
  /\ desc' = [desc EXCEPT ![f] = c]
  /\ backlog' = backlog \ {c}
  /\ ready' = ready \cup (IF c \in unread \/ hangup[c] # "no" THEN {f} ELSE {})
  /\ UNCHANGED <<term, unread, hangup, reply, historyVars, worker, list>>

(* accept() fails because no descriptor is left, or it or epoll_ctl() for  *)
(* want of kernel memory ("accept"): the main thread goes to wait for the  *)
(* worker in pthread_join().                                               *)
AcceptFails ==
  /\ mpc = "loop"
  /\ Listen \in evlist
  /\ (\A f \in Fd : desc[f] # "free") \/ "accept" \in Faults
  /\ mpc' = "join"
  /\ UNCHANGED <<terminalVars, unread, desc, ready, evlist, historyVars, worker, list>>

(* pthread_join() returns only when the worker had no database connection; *)
(* exit(EXIT_FAILURE) ends the process then.                               *)
Joined ==
  /\ mpc = "join"
  /\ worker = "returned"
  /\ mpc' = "exited"
  /\ UNCHANGED <<terminalVars, unread, desc, ready, evlist, historyVars, worker, list>>

(* An end that has arrived is covered by the event that is being handled.  *)
Look(f) == looked' = IF hangup[desc[f]] # "no" THEN looked \cup {f} ELSE looked

(* The request is read whole and linked. *)
ReadRequest(f) ==
  /\ Done(f)
  /\ f # Listen
  /\ desc[f] \in unread
  /\ unread' = unread \ {desc[f]}
  /\ Look(f)
  /\ list' = Append(list, [fd |-> f, from |-> desc[f]])
  /\ UNCHANGED <<terminalVars, desc, ready, forgotten, worker>>

(* The request is read, but the worker empties the list before the node is *)
(* linked (BmQueue!LossWindow): the write behind queEnd goes to a freed    *)
(* node, which the program survives, or not.                               *)
ReadRequestLost(f) ==
  /\ "queue" \in Faults
  /\ mpc = "loop"
  /\ f \in evlist \ {Listen}
  /\ desc[f] \in unread
  /\ worker = "serving" /\ list = <<>>
  /\ unread' = unread \ {desc[f]}
  /\ Look(f)
  /\ evlist' = evlist \ {f}
  /\ mpc' \in {IF evlist' = {} THEN "epoll" ELSE "loop", "dangled"}
  /\ UNCHANGED <<terminalVars, desc, ready, forgotten, worker, list>>

(* calloc() fails, after a request or after two reads that failed: break   *)
(* drops the rest of evlist.                                               *)
CallocFails(f) ==
  /\ "calloc" \in Faults
  /\ mpc = "loop"
  /\ f \in evlist \ {Listen}
  /\ desc[f] \in unread \/ hangup[desc[f]] # "fin"
  /\ unread' = unread \ {desc[f]}
  /\ forgotten' = forgotten \cup (evlist \ {f, Listen})
  /\ Look(f)
  /\ evlist' = {}
  /\ mpc' = "epoll"
  /\ UNCHANGED <<terminalVars, desc, ready, worker, list>>

(* Mutant: break instead of continue. *)
ReadEofBreaks(f) ==
  /\ mpc = "loop"
  /\ f \in evlist \ {Listen}
  /\ desc[f] \notin unread /\ hangup[desc[f]] = "fin"
  /\ evlist' = {}
  /\ mpc' = "epoll"
  /\ UNCHANGED <<terminalVars, unread, desc, ready, historyVars, worker, list>>

(* Mutant: end of file closes the descriptor, as line 378 means to. *)
ReadEofCloses(f) ==
  /\ Done(f)
  /\ f # Listen
  /\ desc[f] \notin unread /\ hangup[desc[f]] = "fin"
  /\ desc' = [desc EXCEPT ![f] = "free"]
  /\ UNCHANGED <<terminalVars, unread, ready, historyVars, worker, list>>

(* End of file: read() returns 0 for the header, and fails for a body of   *)
(* 0 - 8 bytes, which is 2^64 - 8.  The sum is -1 and errno is EFAULT: the *)
(* message is printed, and the descriptor stays open.                      *)
ReadEof(f) ==
  /\ Done(f)
  /\ f # Listen
  /\ desc[f] \notin unread /\ hangup[desc[f]] = "fin"
  /\ Look(f)
  /\ UNCHANGED <<terminalVars, unread, desc, ready, forgotten, worker, list>>

(* A reset, or an event without anything behind it: both reads fail, the   *)
(* sum is -2, which is neither -1 nor 0, and memcpy() is called for 2^64-2 *)
(* bytes.                                                                  *)
ReadFails(f) ==
  /\ mpc = "loop"
  /\ f \in evlist \ {Listen}
  /\ desc[f] \notin unread /\ hangup[desc[f]] # "fin"
  /\ mpc' = "crashed"
  /\ UNCHANGED <<terminalVars, unread, desc, ready, evlist, historyVars, worker, list>>

Main ==
  \/ EpollWait
  \/ \E c \in Client, f \in Fd : Accept(c, f)
  \/ AcceptFails \/ Joined
  \/ \E f \in Fd : ReadRequest(f) \/ ReadRequestLost(f)
  \/ \E f \in Fd : CallocFails(f) \/ ReadEof(f) \/ ReadFails(f)

-----------------------------------------------------------------------------
(* The worker gets its database connection, or returns without one. *)
WorkerConnect ==
  /\ Alive
  /\ worker = "start"
  /\ \/ worker' = "serving"
     \/ "connect" \in Faults /\ worker' = "returned"
  /\ UNCHANGED <<terminalVars, unread, desc, ready, evlist, historyVars, mpc, list>>

(* The worker answers the oldest request.  A peer that has closed answers  *)
(* the reply with RST, which is one more event; end of file is still what  *)
(* the server reads then.                                                  *)
Serve ==
  /\ Alive
  /\ worker = "serving"
  /\ list # <<>>
  /\ list' = Tail(list)
  /\ LET f == Head(list).fd
         c == desc[f]
     IN  /\ reply' = IF c # "free" /\ term[c] # "gone" THEN reply \cup {c} ELSE reply
         /\ ready' = IF c # "free" /\ term[c] = "gone" THEN ready \cup {f} ELSE ready
  /\ UNCHANGED <<term, backlog, unread, hangup, desc, evlist, historyVars, threadVars>>

Next ==
  \/ \E c \in Client : Connect(c) \/ Request(c) \/ ReadReply(c) \/ Leave(c)
  \/ Main
  \/ WorkerConnect
  \/ Serve

(* Both threads are scheduled by the kernel and no one else has to move. *)
Spec ==
  /\ Init /\ [][Next]_vars
  /\ WF_vars(Main) /\ WF_vars(WorkerConnect) /\ WF_vars(Serve)

-----------------------------------------------------------------------------
Requests == [fd : Fd, from : Client]

TypeOK ==
  /\ term \in [Client -> {"off", "menu", "waiting", "gone"}]
  /\ backlog \subseteq Client
  /\ unread \subseteq Client
  /\ hangup \in [Client -> {"no", "fin", "rst"}]
  /\ reply \subseteq Client
  /\ desc \in [Fd -> Client \cup {"free"}]
  /\ ready \subseteq Fd
  /\ evlist \subseteq Fd \cup {Listen}
  /\ forgotten \subseteq Fd
  /\ looked \subseteq Fd
  /\ mpc \in {"epoll", "loop", "join", "exited", "crashed", "dangled"}
  /\ worker \in {"start", "serving", "returned"}
  /\ list \in Seq(Requests)

(* A request in the list carries a descriptor number, not a connection.    *)
(* The number still stands for the terminal that asked when the worker     *)
(* writes the reply, however late that is and whoever connected since:     *)
(* nobody reads another terminal's account.                                *)
RepliesToAsker == \A i \in DOMAIN list : desc[list[i].fd] = list[i].from

(* Edge triggering loses nothing but what a break drops.  A request that   *)
(* has not been read has an event, reported or about to be.  The end of a  *)
(* terminal has one until main() reads from the descriptor once: one read  *)
(* takes the request only when both share an event, and the end then stays *)
(* behind without any.  And an event has something behind it, so that      *)
(* read() never fails on an empty socket.                                  *)
EdgesMatchData ==
  \A f \in Fd :
    /\ desc[f] \in unread => f \in ready \cup evlist \cup forgotten
    /\ desc[f] # "free" /\ hangup[desc[f]] # "no" =>
         f \in ready \cup evlist \cup forgotten \cup looked
    /\ f \in ready \cup evlist => desc[f] \in unread \/ (desc[f] # "free" /\ hangup[desc[f]] # "no")

(* A terminal has one connection, in the backlog or under one descriptor.  *)
(* It has one request at a time, so that an event on top of one that is    *)
(* already in evlist can only be its end.                                  *)
Sessions ==
  /\ \A c \in backlog : term[c] # "off" /\ FdsOf(c) = {}
  /\ \A f \in Fd : desc[f] # "free" => term[desc[f]] # "off"
  /\ \A f, g \in Fd : desc[f] = desc[g] => desc[f] = "free" \/ f = g
  /\ \A c \in unread : term[c] \in {"waiting", "gone"}
  /\ \A c \in Client : term[c] = "gone" <=> hangup[c] # "no"
  /\ \A f \in ready \cap evlist : hangup[desc[f]] # "no"
  /\ mpc = "epoll" => evlist = {}

(* What can end the service, as far as the loop and the list go: a read    *)
(* fails only on a terminal that left its reply unread; the dangling       *)
(* queEnd is written to only while the worker is serving and its list is   *)
(* empty; the loop is left for pthread_join() only when accept() failed,   *)
(* and the process exits there only when the worker never got its          *)
(* database connection.                                                    *)
EndOfService ==
  /\ mpc = "crashed" => \E c \in Client : hangup[c] = "rst"
  /\ mpc = "dangled" => worker = "serving" /\ list = <<>>
  /\ mpc \in {"join", "exited"} => (\A f \in Fd : desc[f] # "free") \/ "accept" \in Faults
  /\ mpc = "exited" => worker = "returned"

(* A request is in one place: its socket, the list, or answered. *)
OneReplyOwed ==
  /\ reply \cap unread = {}
  /\ \A c \in reply : term[c] = "waiting"
  /\ \A i \in DOMAIN list :
       term[list[i].from] \in {"waiting", "gone"} /\ list[i].from \notin unread \cup reply
  /\ \A i, j \in DOMAIN list : list[i].from = list[j].from => i = j

IInv ==
  TypeOK /\ Sessions /\ OneReplyOwed /\ RepliesToAsker /\ EdgesMatchData /\ EndOfService

(* A request that was written is read, unless its event was dropped or the *)
(* main thread has left its loop.                                          *)
RequestsAreRead ==
  \A c \in Client :
    c \in unread ~>
      (c \notin unread \/ FdsOf(c) \cap forgotten # {} \/ mpc \notin {"epoll", "loop"})

(* "Therefor, we close the file descriptor only if EPOLLIN was not set.    *)
(* We'll read further bytes after the next epoll_wait()." (bm_server.c:418)*)
(* and "All file descriptors closed; bye" (bm_server.c:433): a terminal    *)
(* that has left does not keep its descriptor.                             *)
DescriptorsReleased ==
  \A c \in Client : term[c] = "gone" ~> (FdsOf(c) = {} /\ c \notin backlog) \/ ~Alive
=============================================================================
