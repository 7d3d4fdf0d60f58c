-------------------------------- MODULE BmMall --------------------------------
(***************************************************************************)
(* The shop: the terminals of bm_client (bm_client.c, bm_client_ui.c), the *)
(* request queue of bm_server as RequestQueue promises it, and the worker  *)
(* running the handlers of bm_services.c on the Accounts table.            *)
(*                                                                         *)
(* A terminal blocks in read() after each request, so it has at most one   *)
(* request or reply under way.  A reply is the account the server sends    *)
(* back; show_hotlist() ignores its contents.                              *)
(***************************************************************************)
EXTENDS BmAccounts, Functions

CONSTANTS
  Client,      \* terminals
  Names,       \* user names that are typed
  Keys,        \* passwords that are typed
  MayBeOdd,    \* terminals where a quote or a backslash may be typed
  OddInserts,  \* rows that an insert made of such a text may add
  MaxRequests, \* bound: requests sent by all terminals together
  Faults       \* what may go wrong in this instance

ASSUME MallFaultsAssumption == Faults \subseteq {"queue", "select", "insert", "books"}
ASSUME OddAssumption == MayBeOdd \subseteq Client
ASSUME TypedAssumption == \A s \in Names \cup Keys : s \in Seq(Range(s)) \ {<<>>}

Char == UNION {Range(s) : s \in Names \cup Keys}
Row == [name : Seq(Char), key : Seq(Char)]
ASSUME OddInsertsAssumption == \A rows \in OddInserts : rows \in Seq(Row)

Types == {"HOTLIST", "LOGIN", "SIGNUP_CHECK", "SIGNUP_PROFILE"}

VARIABLES
  ui,       \* where each terminal is: in the menu, filling in its profile,
            \*   waiting for the reply to a request of some type, or gone
  acnt,     \* the BM_ACNT of each terminal's main()
  typed,    \* history: the name its user typed at the last client_signup()
  queue,    \* requests the worker will still find
  reply,    \* replies written to each terminal's socket and not yet read
  table,    \* the Accounts table
  checked,  \* history: how many rows the terminal's last SIGNUP_CHECK
            \*   looked at
  dropped,  \* history: terminals whose request or reply a fault dropped
  sent,     \* requests sent so far (bounded by MaxRequests)
  odd       \* the terminals where quotes or backslashes are typed, settled
            \*   from the start

vars == <<ui, acnt, typed, queue, reply, table, checked, dropped, sent, odd>>

NoAccount == [name |-> <<>>, key |-> <<>>, state |-> UNLOGGED]

Init ==
  /\ ui = [c \in Client |-> "menu"]
  /\ acnt = [c \in Client |-> NoAccount]
  /\ typed = [c \in Client |-> <<>>]
  /\ queue = <<>>
  /\ reply = [c \in Client |-> <<>>]
  /\ table = <<>>
  /\ checked = [c \in Client |-> 0]
  /\ dropped = {}
  /\ sent = 0
  /\ odd \in SUBSET MayBeOdd

-----------------------------------------------------------------------------
(* The terminals send requests. *)

(* A fault leaves the terminal without an answer. *)
Drop(c) == dropped' = dropped \cup {c}

(* write() of a request of type t with account a; the queue may lose it on *)
(* the way in (RequestQueue!Drop).                                         *)
Send(c, t, a) ==
  /\ sent < MaxRequests
  /\ sent' = sent + 1
  /\ ui' = [ui EXCEPT ![c] = t]
  /\ acnt' = [acnt EXCEPT ![c] = a]
  /\ \/ /\ queue' = Append(queue, [client |-> c, msgtype |-> t, acnt |-> a])
        /\ UNCHANGED dropped
     \/ "queue" \in Faults /\ UNCHANGED queue /\ Drop(c)
  /\ UNCHANGED <<reply, table, checked, odd>>

(* show_hotlist() sends a fixed text; the account stays in the terminal. *)
ShowHotlist(c) ==
  /\ ui[c] = "menu"
  /\ Send(c, "HOTLIST", acnt[c])
  /\ UNCHANGED typed

(* Mutant: a terminal that is logged in may log in again. *)
LoginAgain(c, name, key) ==
  /\ ui[c] = "menu"
  /\ Send(c, "LOGIN", [acnt[c] EXCEPT !.name = name, !.key = key])
  /\ UNCHANGED typed

(* client_login() returns at once when the terminal is logged in.  The     *)
(* state goes out in host order.                                           *)
Login(c, name, key) ==
  /\ ui[c] = "menu"
  /\ acnt[c].state # LOGGED_IN
  /\ Send(c, "LOGIN", [acnt[c] EXCEPT !.name = name, !.key = key])
  /\ UNCHANGED typed

(* client_signup() up to the SIGNUP_CHECK: name and key are laid over      *)
(* those of the last login or sign-up of this terminal.  The password is   *)
(* typed twice, until the first characters are the same (bytes_read is the *)
(* 1 that scanf() returned); the first of the two is kept, and any key may *)
(* be it.                                                                  *)
Signup(c, name, key) ==
  /\ ui[c] = "menu"
  /\ typed' = [typed EXCEPT ![c] = name]
  /\ Send(c, "SIGNUP_CHECK", [acnt[c] EXCEPT !.name = Overlay(@, name), !.key = Overlay(@, key)])

(* The rest of the profile is typed in and SIGNUP_PROFILE is sent. *)
SendProfile(c) ==
  /\ ui[c] = "profile"
  /\ Send(c, "SIGNUP_PROFILE", acnt[c])
  /\ UNCHANGED typed

(* Option 0 of the menu. *)
Quit(c) ==
  /\ ui[c] = "menu"
  /\ ui' = [ui EXCEPT ![c] = "gone"]
  /\ UNCHANGED <<acnt, typed, queue, reply, table, checked, dropped, sent, odd>>

-----------------------------------------------------------------------------
(* The worker takes the oldest request. *)

Request == Head(queue)

(* write() of the account back to pTemp->fd with the given state, after    *)
(* htons(); the state went through ntohs() when the request was unpacked.  *)
Reply(state) ==
  reply' = [reply EXCEPT ![Request.client] = Append(@, [Request.acnt EXCEPT !.state = ntohs(state)])]

Serves(t) ==
  /\ queue # <<>>
  /\ Request.msgtype = t
  /\ queue' = Tail(queue)
  /\ UNCHANGED <<ui, acnt, typed, sent, odd>>

SelectFails == IF "select" \in Faults THEN BOOLEAN ELSE {FALSE}

(* The texts go into the statements as they were typed.  A quote or a      *)
(* backslash changes the statement, and its outcome is open: a select may  *)
(* find whatever it likes, and an insert may add other rows, or fail.      *)
Outcome(answer) == IF Request.client \in odd THEN BOOLEAN ELSE {answer}
Inserted ==
  {insert_usr(table, Request.acnt)}
    \cup (IF Request.client \in odd THEN {table \o rows : rows \in OddInserts} ELSE {})

(* Mutant: the break of the case is missing and a second reply is sent. *)
OnHotlistFallsThrough ==
  /\ Serves("HOTLIST")
  /\ reply' = [reply EXCEPT ![Request.client] = @ \o <<Request.acnt, Request.acnt>>]
  /\ UNCHANGED <<table, checked, dropped>>

(* on_type_hotlist() returns without a reply when its select fails. *)
OnHotlist ==
  /\ Serves("HOTLIST")
  /\ \/ Reply(ntohs(Request.acnt.state)) /\ UNCHANGED dropped
     \/ "books" \in Faults /\ UNCHANGED reply /\ Drop(Request.client)
  /\ UNCHANGED <<table, checked>>

(* Mutant: a wrong password is not answered. *)
OnLoginSilent ==
  /\ Serves("LOGIN")
  /\ IF usr_login(table, Request.acnt, FALSE) THEN Reply(LOGGED_IN) ELSE UNCHANGED reply
  /\ UNCHANGED <<table, checked, dropped>>

(* on_type_login(): a wrong password leaves the state as it was unpacked. *)
OnLogin ==
  /\ Serves("LOGIN")
  /\ \E failed1 \in SelectFails, failed2 \in SelectFails :
     \E registered \in Outcome(is_registered(table, Request.acnt, failed1)),
        matches \in Outcome(usr_login(table, Request.acnt, failed2)) :
       Reply(IF ~registered THEN UNLOGGED
             ELSE IF matches THEN LOGGED_IN
             ELSE ntohs(Request.acnt.state))
  /\ UNCHANGED <<table, checked, dropped>>

(* Mutant: the name is not looked up. *)
OnSignupCheckBlind ==
  /\ Serves("SIGNUP_CHECK")
  /\ Reply(UNLOGGED)
  /\ checked' = [checked EXCEPT ![Request.client] = Len(table)]
  /\ UNCHANGED <<table, dropped>>

OnSignupCheck ==
  /\ Serves("SIGNUP_CHECK")
  /\ \E failed \in SelectFails :
     \E registered \in Outcome(is_registered(table, Request.acnt, failed)) :
       /\ Reply(IF registered THEN ACNT_STATE_REGISTERED ELSE UNLOGGED)
       /\ checked' = [checked EXCEPT ![Request.client] = IF failed THEN 0 ELSE Len(table)]
  /\ UNCHANGED <<table, dropped>>

(* Mutant: the result of insert_usr() is ignored. *)
OnSignupProfileSure ==
  /\ Serves("SIGNUP_PROFILE")
  /\ \/ table' = insert_usr(table, Request.acnt)
     \/ "insert" \in Faults /\ UNCHANGED table
  /\ Reply(LOGGED_IN)
  /\ UNCHANGED <<checked, dropped>>

(* on_type_signup_profile() inserts without looking again, and returns     *)
(* without a reply when the insert fails.                                  *)
OnSignupProfile ==
  /\ Serves("SIGNUP_PROFILE")
  /\ \/ table' \in Inserted /\ Reply(LOGGED_IN) /\ UNCHANGED dropped
     \/ /\ "insert" \in Faults \/ Request.client \in odd
        /\ UNCHANGED <<table, reply>> /\ Drop(Request.client)
  /\ UNCHANGED checked

Worker == OnHotlist \/ OnLogin \/ OnSignupCheck \/ OnSignupProfile

-----------------------------------------------------------------------------
(* The terminals read replies. *)

Read(c, t, next) ==
  /\ ui[c] = t
  /\ reply[c] # <<>>
  /\ reply' = [reply EXCEPT ![c] = Tail(@)]
  /\ ui' = [ui EXCEPT ![c] = next]
  /\ UNCHANGED <<typed, queue, table, checked, dropped, sent, odd>>

Unpacked(c) == [Head(reply[c]) EXCEPT !.state = ntohs(@)]

ReadHotlist(c) == Read(c, "HOTLIST", "menu") /\ UNCHANGED acnt

ReadLogin(c) ==
  /\ Read(c, "LOGIN", "menu")
  /\ acnt' = [acnt EXCEPT ![c] = Unpacked(c)]

(* A name that is taken leads back to the menu, otherwise the profile is   *)
(* asked for.                                                              *)
ReadSignupCheck(c) ==
  /\ reply[c] # <<>>
  /\ Read(c, "SIGNUP_CHECK",
          IF Unpacked(c).state = ACNT_STATE_REGISTERED THEN "menu" ELSE "profile")
  /\ acnt' = [acnt EXCEPT ![c] = Unpacked(c)]

ReadSignupProfile(c) ==
  /\ Read(c, "SIGNUP_PROFILE", "menu")
  /\ acnt' = [acnt EXCEPT ![c] = Unpacked(c)]

ReadReply(c) ==
  ReadHotlist(c) \/ ReadLogin(c) \/ ReadSignupCheck(c) \/ ReadSignupProfile(c)

-----------------------------------------------------------------------------
Next ==
  \/ \E c \in Client :
       \/ ShowHotlist(c)
       \/ \E name \in Names, key \in Keys : Login(c, name, key) \/ Signup(c, name, key)
       \/ SendProfile(c)
       \/ Quit(c)
       \/ ReadReply(c)
  \/ Worker

(* The worker polls its list forever and a reply wakes up the terminal;    *)
(* what users type is up to them.                                          *)
Spec == Init /\ [][Next]_vars /\ WF_vars(Worker) /\ \A c \in Client : WF_vars(ReadReply(c))

-----------------------------------------------------------------------------
(* The states a terminal can be in: 2 (name taken) comes back as 512 after *)
(* a login with a wrong password, and as 2 after another.                  *)
States == {UNLOGGED, LOGGED_IN, ACNT_STATE_REGISTERED, ntohs(ACNT_STATE_REGISTERED)}

Account == [name : Seq(Char), key : Seq(Char), state : Nat]

TypeOK ==
  /\ ui \in [Client -> Types \cup {"menu", "profile", "gone"}]
  /\ acnt \in [Client -> Account]
  /\ \A c \in Client : acnt[c].state \in States
  /\ typed \in [Client -> Names \cup {<<>>}]
  /\ queue \in Seq([client : Client, msgtype : Types, acnt : Account])
  /\ reply \in [Client -> Seq(Account)]
  /\ table \in Seq(Row)
  /\ checked \in [Client -> 0..Len(table)]
  /\ dropped \subseteq Client
  /\ sent \in Nat
  /\ odd \subseteq MayBeOdd

(* A terminal has at most one request or reply under way, of the type and  *)
(* for the account it is waiting for: no reply reaches a terminal that is  *)
(* back in its menu, or one that asked something else.                     *)
Under(c) == {i \in DOMAIN queue : queue[i].client = c}
OneUnderWay ==
  \A c \in Client :
    /\ \A i, j \in Under(c) : i = j
    /\ \A i \in Under(c) : ui[c] = queue[i].msgtype /\ acnt[c] = queue[i].acnt
    /\ reply[c] # <<>> =>
         /\ ui[c] \in Types /\ Under(c) = {} /\ Len(reply[c]) = 1
         /\ Head(reply[c]).name = acnt[c].name
         /\ Head(reply[c]).key = acnt[c].key

(* A terminal that shows its menu as logged in holds a password of the     *)
(* Accounts table, in a row whose name the collation takes for its own,    *)
(* whatever was lost or refused before, at any terminal where neither a    *)
(* quote nor a backslash was typed.                                        *)
HasAccount(c) == \E i \in RowsOf(table, acnt[c].name) : table[i].key = acnt[c].key
LoggedInHasAccount ==
  \A c \in Client \ odd : ui[c] = "menu" /\ acnt[c].state = LOGGED_IN => HasAccount(c)

(* What makes it so: a login is only asked for by a terminal that is not   *)
(* logged in, a reply logs in only a name and a password the table holds,  *)
(* and the answer to a check logs in nobody.                               *)
Entitled(c) == c \in odd \/ HasAccount(c)
Sessions ==
  \A c \in Client :
    /\ ui[c] \in {"menu", "HOTLIST"} /\ acnt[c].state = LOGGED_IN => Entitled(c)
    /\ ui[c] = "LOGIN" => acnt[c].state # LOGGED_IN
    /\ reply[c] # <<>> /\ ui[c] # "HOTLIST" =>
         /\ Unpacked(c).state \in States
         /\ Unpacked(c).state = LOGGED_IN => ui[c] # "SIGNUP_CHECK" /\ Entitled(c)

(* A terminal without quotes or backslashes adds a row to a name that has  *)
(* one only when that one came in after the terminal's sign-up check had   *)
(* looked at the table (a check whose select fails looks at nothing).      *)
DuplicateNeedsOverlap ==
  [][table' # table /\ Request.client \notin odd =>
       \A i \in RowsOf(table, Request.acnt.name) : checked[Request.client] < i]_vars

(* A terminal that goes on with its profile, or may, was told of no row    *)
(* with its name: those there are came in after its check.                 *)
Unseen(c) == c \in odd \/ \A i \in RowsOf(table, acnt[c].name) : checked[c] < i
Checks ==
  \A c \in Client :
    /\ ui[c] = "profile" => Unseen(c)
    /\ ui[c] = "SIGNUP_PROFILE" /\ reply[c] = <<>> => Unseen(c)
    /\ ui[c] = "SIGNUP_CHECK" /\ reply[c] # <<>> =>
         Unpacked(c).state = ACNT_STATE_REGISTERED \/ Unseen(c)

IInv == TypeOK /\ OneUnderWay /\ Sessions /\ Checks

(* A terminal that waits for a reply gets one, unless a fault dropped its  *)
(* request or its reply: no terminal starves another, and none waits for   *)
(* something that is not on its way.                                       *)
EveryTerminalReturns ==
  \A c \in Client : ui[c] \in Types ~> ui[c] \in {"menu", "profile"} \/ c \in dropped

-----------------------------------------------------------------------------
(* "抱歉，名字: %s 已经被注册，请换个名字重新注册" (bm_client_ui.c:391, the name is taken,  *)
(* choose another one): no name is registered twice.                       *)
NamesUnique ==
  \A i, j \in DOMAIN table : table[i].name = table[j].name => i = j

(* "请输入用户名" (bm_client_ui.c:313, enter the user name): the name that is   *)
(* registered is the name that was typed.                                  *)
RegistersTypedName ==
  \A c \in Client : ui[c] = "SIGNUP_PROFILE" => acnt[c].name = typed[c]
=============================================================================
