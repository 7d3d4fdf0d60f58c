----------------------------- MODULE BmMallProofs -----------------------------
(***************************************************************************)
(* A terminal has one message under way, who is shown as logged in has an  *)
(* account, and a name gets a second row only after a check that could not *)
(* see the first, where no quotes are typed - for every set of terminals,  *)
(* names and passwords, every collation and every fault.                   *)
(***************************************************************************)
EXTENDS BmMall, SequenceTheorems, TLAPS

Requests == [client : Client, msgtype : Types, acnt : Account]

-----------------------------------------------------------------------------
(* The byte order of the states. *)
LEMMA ByteOrder ==
  /\ ntohs(0) = 0 /\ ntohs(1) = 256 /\ ntohs(256) = 1 /\ ntohs(2) = 512 /\ ntohs(512) = 2
  /\ States = {0, 1, 2, 512}
<1>1. /\ ntohs(0) = 0 /\ ntohs(1) = 256 /\ ntohs(256) = 1 /\ ntohs(2) = 512 /\ ntohs(512) = 2
  BY DEF ntohs
<1> QED
  BY <1>1 DEF States, UNLOGGED, LOGGED_IN, ACNT_STATE_REGISTERED

LEMMA ntohsType == ASSUME NEW x \in Nat PROVE ntohs(x) \in Nat
  BY DEF ntohs

(* What is typed is made of the characters in Char. *)
LEMMA TypedType == ASSUME NEW s \in Names \cup Keys PROVE s \in Seq(Char)
<1>1. s \in Seq(Range(s))
  BY TypedAssumption
<1>2. Range(s) \subseteq Char
  BY DEF Char
<1> QED
  BY <1>1, <1>2

LEMMA OverlayType ==
  ASSUME NEW S, NEW dst \in Seq(S), NEW src \in Seq(S)
  PROVE  Overlay(dst, src) \in Seq(S)
<1>1. SubSeq(dst, Len(src) + 1, Len(dst)) \in Seq(S)
  OBVIOUS
<1> QED
  BY <1>1 DEF Overlay

-----------------------------------------------------------------------------
LEMMA InitInv == Init => IInv
<1> SUFFICES ASSUME Init PROVE IInv
  OBVIOUS
<1> USE DEF Init
<1>1. TypeOK
  BY ByteOrder DEF TypeOK, NoAccount, UNLOGGED, Account, Types
<1>2. OneUnderWay
  BY DEF OneUnderWay, Under
<1>3. Sessions /\ Checks
  BY DEF Sessions, Checks, NoAccount, UNLOGGED, LOGGED_IN
<1> QED
  BY <1>1, <1>2, <1>3 DEF IInv

-----------------------------------------------------------------------------
(* A terminal in its menu, or in its profile, has nothing under way. *)
LEMMA NothingUnderWay ==
  ASSUME OneUnderWay, TypeOK, NEW c \in Client, ui[c] \in {"menu", "profile"}
  PROVE  Under(c) = {} /\ reply[c] = <<>>
<1>1. ui[c] \notin Types
  BY DEF Types
<1>2. \A i \in DOMAIN queue : queue[i].msgtype \in Types
  <2>1. queue \in Seq(Requests)
    BY DEF TypeOK, Requests
  <2>2. \A i \in DOMAIN queue : queue[i] \in Requests
    BY <2>1
  <2> QED
    BY <2>2 DEF Requests
<1> QED
  BY <1>1, <1>2 DEF OneUnderWay, Under

(* What any request does to the terminal that sends it. *)
LEMMA SendUnderWay ==
  ASSUME IInv, NEW c \in Client, NEW t \in Types, NEW a \in Account,
         ui[c] \in {"menu", "profile"}, Send(c, t, a)
  PROVE  OneUnderWay'
<1> USE DEF IInv
<1>1. Under(c) = {} /\ reply[c] = <<>>
  BY NothingUnderWay
<1>2. ui' = [ui EXCEPT ![c] = t] /\ acnt' = [acnt EXCEPT ![c] = a] /\ reply' = reply
  BY DEF Send
<1>3. \A d \in Client \ {c} : ui'[d] = ui[d] /\ acnt'[d] = acnt[d]
  BY <1>2 DEF TypeOK
<1>4. ui'[c] = t /\ acnt'[c] = a
  BY <1>2 DEF TypeOK
<1>5. CASE queue' = queue
  BY <1>1, <1>2, <1>3, <1>4, <1>5 DEF OneUnderWay, Under
<1>6. CASE queue' = Append(queue, [client |-> c, msgtype |-> t, acnt |-> a])
  <2> DEFINE n == Len(queue) + 1
  <2>1. /\ n \notin DOMAIN queue
        /\ DOMAIN queue' = DOMAIN queue \cup {n}
        /\ \A i \in DOMAIN queue : queue'[i] = queue[i]
        /\ queue'[n] = [client |-> c, msgtype |-> t, acnt |-> a]
    BY <1>6 DEF TypeOK
  <2> HIDE DEF n
  <2>2. \A d \in Client \ {c} : Under(d)' = Under(d)
    BY <2>1 DEF Under
  <2>3. Under(c)' = {n}
    BY <1>1, <2>1 DEF Under
  <2>4. \A d \in Client : Under(d) \subseteq DOMAIN queue
    BY DEF Under
  <2> QED
    BY <1>1, <1>2, <1>3, <1>4, <2>1, <2>2, <2>3, <2>4 DEF OneUnderWay
<1> QED
  BY <1>5, <1>6 DEF Send

LEMMA SendType ==
  ASSUME IInv, NEW c \in Client, NEW t \in Types, NEW a \in Account, a.state \in States,
         Send(c, t, a), typed' \in [Client -> Names \cup {<<>>}]
  PROVE  TypeOK'
<1> USE DEF IInv, Send
<1>1. /\ ui' \in [Client -> Types \cup {"menu", "profile", "gone"}]
      /\ acnt' \in [Client -> Account]
      /\ \A d \in Client : acnt'[d].state \in States
  BY DEF TypeOK
<1>2. queue' \in Seq(Requests)
  <2>1. queue \in Seq(Requests)
    BY DEF TypeOK, Requests
  <2>2. [client |-> c, msgtype |-> t, acnt |-> a] \in Requests
    BY DEF Requests
  <2> QED
    BY <2>1, <2>2
<1>3. dropped' \subseteq Client /\ sent' \in Nat
  BY DEF TypeOK, Drop
<1> QED
  BY <1>1, <1>2, <1>3 DEF TypeOK, Requests

(* The sessions of the other terminals stay as they are. *)
LEMMA SendSessions ==
  ASSUME IInv, NEW c \in Client, NEW t \in Types, NEW a \in Account,
         ui[c] \in {"menu", "profile"}, Send(c, t, a),
         t = "HOTLIST" => ui[c] = "menu" /\ a = acnt[c],
         t = "LOGIN" => a.state # LOGGED_IN,
         t = "SIGNUP_PROFILE" => ui[c] = "profile" /\ a = acnt[c]
  PROVE  Sessions' /\ Checks'
<1> USE DEF IInv
<1>1. reply[c] = <<>>
  BY NothingUnderWay
<1>2. /\ ui' = [ui EXCEPT ![c] = t] /\ acnt' = [acnt EXCEPT ![c] = a]
      /\ reply' = reply /\ table' = table /\ checked' = checked /\ odd' = odd
  BY DEF Send
<1>3. \A d \in Client \ {c} : ui'[d] = ui[d] /\ acnt'[d] = acnt[d]
  BY <1>2 DEF TypeOK
<1>4. ui'[c] = t /\ acnt'[c] = a
  BY <1>2 DEF TypeOK
<1>5. \A d \in Client \ {c} : /\ Entitled(d)' <=> Entitled(d)
                              /\ Unseen(d)' <=> Unseen(d)
                              /\ Unpacked(d)' = Unpacked(d)
  BY <1>2, <1>3 DEF Entitled, HasAccount, RowsOf, Unseen, Unpacked
<1>6. a = acnt[c] => (Entitled(c)' <=> Entitled(c)) /\ (Unseen(c)' <=> Unseen(c))
  BY <1>2, <1>4 DEF Entitled, HasAccount, RowsOf, Unseen
<1>7. t \notin {"menu", "profile"}
  BY DEF Types
<1>8. Sessions'
  BY <1>1, <1>2, <1>3, <1>4, <1>5, <1>6, <1>7 DEF Sessions
<1>9. Checks'
  BY <1>1, <1>2, <1>3, <1>4, <1>5, <1>6, <1>7 DEF Checks
<1> QED
  BY <1>8, <1>9

-----------------------------------------------------------------------------
(* The terminal whose request is served waits for the reply to it. *)
LEMMA Served ==
  ASSUME IInv, NEW t \in Types, Serves(t), NEW c, c = Request.client
  PROVE  /\ c \in Client /\ Request \in Requests
         /\ queue' \in Seq(Requests)
         /\ ui[c] = t /\ acnt[c] = Request.acnt /\ reply[c] = <<>>
         /\ Under(c)' = {}
         /\ \A i \in DOMAIN queue' :
              i \in Nat /\ i + 1 \in DOMAIN queue /\ queue'[i] = queue[i + 1]
<1> USE DEF IInv
<1>1. queue \in Seq(Requests) /\ queue # <<>> /\ queue' = Tail(queue) /\ Request.msgtype = t
  BY DEF TypeOK, Requests, Serves
<1>2. 1 \in DOMAIN queue /\ Request = queue[1] /\ Request \in Requests
  BY <1>1 DEF Request
<1>3. queue' \in Seq(Requests)
  BY <1>1
<1>4. \A i \in DOMAIN queue' : i \in Nat \ {0} /\ i + 1 \in DOMAIN queue /\ queue'[i] = queue[i + 1]
  BY <1>1
<1>5. c \in Client
  BY <1>2 DEF Requests
<1>6. 1 \in Under(c)
  BY <1>2 DEF Under
<1>7. ui[c] = t /\ acnt[c] = Request.acnt /\ reply[c] = <<>>
  BY <1>1, <1>2, <1>5, <1>6 DEF OneUnderWay
<1>8. Under(c)' = {}
  <2>1. \A i \in DOMAIN queue : i \in Under(c) => i = 1
    BY <1>5, <1>6 DEF OneUnderWay
  <2>2. \A i \in DOMAIN queue' : i + 1 # 1
    BY <1>4
  <2>3. \A i \in DOMAIN queue' : queue'[i].client # c
    BY <1>4, <2>1, <2>2 DEF Under
  <2> QED
    BY <2>3 DEF Under
<1> QED
  BY <1>2, <1>3, <1>4, <1>5, <1>7, <1>8

(* What a handler may do to the sockets: nothing, or one reply to the      *)
(* terminal whose request it serves.                                       *)
LEMMA ServeUnderWay ==
  ASSUME IInv, NEW t \in Types, Serves(t),
         reply' = reply \/ \E s \in Nat : Reply(s)
  PROVE  OneUnderWay'
<1> USE DEF IInv
<1> DEFINE c == Request.client
<1> HIDE DEF c
<1>1. PICK d : d = c
  OBVIOUS
<1>2. /\ d \in Client /\ Under(d)' = {} /\ ui[d] \in Types /\ reply[d] = <<>>
      /\ acnt[d] = Request.acnt
      /\ \A i \in DOMAIN queue' :
           i \in Nat /\ i + 1 \in DOMAIN queue /\ queue'[i] = queue[i + 1]
  BY <1>1, Served DEF c
<1>3. ui' = ui /\ acnt' = acnt /\ odd' = odd
  BY DEF Serves
<1>4. ASSUME NEW e \in Client
      PROVE  /\ \A i, j \in Under(e)' : i = j
             /\ \A i \in Under(e)' : ui'[e] = queue'[i].msgtype /\ acnt'[e] = queue'[i].acnt
  <2>1. \A i \in Under(e)' : i \in Nat /\ i + 1 \in Under(e) /\ queue'[i] = queue[i + 1]
    BY <1>2 DEF Under
  <2>2. \A i, j \in Under(e)' : i + 1 = j + 1
    BY <2>1 DEF OneUnderWay
  <2>3. \A i, j \in Under(e)' : i = j
    BY <2>1, <2>2
  <2> QED
    BY <1>3, <2>1, <2>3 DEF OneUnderWay
<1>5. ASSUME NEW e \in Client, e # d
      PROVE  reply'[e] = reply[e] /\ (Under(e) = {} => Under(e)' = {})
  <2>1. reply'[e] = reply[e]
    BY <1>1, <1>5 DEF Reply, TypeOK, c
  <2>2. Under(e) = {} => Under(e)' = {}
    BY <1>2 DEF Under
  <2> QED
    BY <2>1, <2>2
<1>6. reply'[d] # <<>> =>
        /\ Len(reply'[d]) = 1
        /\ Head(reply'[d]).name = acnt[d].name
        /\ Head(reply'[d]).key = acnt[d].key
  <2>1. CASE reply' = reply
    BY <1>2, <2>1
  <2>2. ASSUME NEW s \in Nat, Reply(s)
        PROVE  /\ Len(reply'[d]) = 1
               /\ Head(reply'[d]).name = acnt[d].name
               /\ Head(reply'[d]).key = acnt[d].key
    <3> DEFINE a == [Request.acnt EXCEPT !.state = ntohs(s)]
    <3>1. a.name = acnt[d].name /\ a.key = acnt[d].key
      <4>1. acnt[d] \in Account
        BY <1>2 DEF TypeOK
      <4> QED
        BY <1>2, <4>1 DEF Account
    <3> HIDE DEF a
    <3>2. reply'[d] = <<a>>
      <4>1. reply' = [reply EXCEPT ![d] = Append(@, a)]
        BY <1>1, <2>2 DEF Reply, a, c
      <4>2. reply'[d] = Append(reply[d], a)
        BY <1>2, <4>1 DEF TypeOK
      <4> QED
        BY <1>2, <4>2
    <3> QED
      BY <3>1, <3>2
  <2> QED
    BY <2>1, <2>2
<1> QED
  BY <1>2, <1>3, <1>4, <1>5, <1>6 DEF OneUnderWay

(* What a handler may do to the table: nothing, or one row for the account *)
(* it was sent.                                                            *)
LEMMA TableGrows ==
  ASSUME IInv, NEW t \in Types, Serves(t),
         table' = table \/ table' \in Inserted
  PROVE  /\ table \in Seq(Row) /\ table' \in Seq(Row)
         /\ DOMAIN table \subseteq DOMAIN table'
         /\ \A i \in DOMAIN table : table'[i] = table[i]
         /\ \A i \in DOMAIN table' \ DOMAIN table : i \in Nat /\ i > Len(table)
         /\ \A n \in 0..Len(table) : n \in 0..Len(table')
<1> USE DEF IInv
<1>1. table \in Seq(Row)
  BY DEF TypeOK, Row
<1>2. CASE table' = table
  BY <1>1, <1>2
<1>3. CASE table' \in Inserted
  <2>1. insert_usr(table, Request.acnt) = table \o <<[name |-> Request.acnt.name,
                                                      key |-> Request.acnt.key]>>
    BY <1>1 DEF insert_usr
  <2>2. [name |-> Request.acnt.name, key |-> Request.acnt.key] \in Row
    <3>1. Request.acnt \in Account
      BY Served DEF Requests
    <3> QED
      BY <3>1 DEF Account, Row
  <2>3. PICK rows \in Seq(Row) : table' = table \o rows
    <3>1. CASE table' = insert_usr(table, Request.acnt)
      <4>1. PICK r \in Row : table' = table \o <<r>>
        BY <2>1, <2>2, <3>1
      <4>2. <<r>> \in Seq(Row)
        OBVIOUS
      <4> QED
        BY <4>1, <4>2
    <3>2. CASE \E rows \in OddInserts : table' = table \o rows
      BY <3>2, OddInsertsAssumption
    <3> QED
      BY <1>3, <3>1, <3>2 DEF Inserted
  <2> QED
    BY <1>1, <2>3
<1> QED
  BY <1>2, <1>3

LEMMA ServeType ==
  ASSUME IInv, NEW t \in Types, Serves(t),
         table' = table \/ table' \in Inserted,
         reply' = reply \/ \E s \in Nat : Reply(s),
         \A e \in Client : checked'[e] \in 0..Len(table),
         \E f : checked' = [e \in Client |-> f[e]],
         dropped' \subseteq Client
  PROVE  TypeOK'
<1> USE DEF IInv
<1>1. PICK c : c = Request.client
  OBVIOUS
<1>2. c \in Client /\ Request \in Requests /\ queue' \in Seq(Requests)
  BY <1>1, Served
<1>3. reply' \in [Client -> Seq(Account)]
  <2>1. CASE reply' = reply
    BY <2>1 DEF TypeOK
  <2>2. ASSUME NEW s \in Nat, Reply(s)
        PROVE  reply' \in [Client -> Seq(Account)]
    <3>1. [Request.acnt EXCEPT !.state = ntohs(s)] \in Account
      BY <1>2, ntohsType DEF Requests, Account
    <3>2. PICK a \in Account : reply' = [reply EXCEPT ![c] = Append(@, a)]
      BY <1>1, <2>2, <3>1 DEF Reply
    <3>3. Append(reply[c], a) \in Seq(Account)
      BY <1>2 DEF TypeOK
    <3> QED
      BY <3>2, <3>3 DEF TypeOK
  <2> QED
    BY <2>1, <2>2
<1>4. table' \in Seq(Row) /\ checked' \in [Client -> 0..Len(table')]
  <2>1. table' \in Seq(Row) /\ \A n \in 0..Len(table) : n \in 0..Len(table')
    BY TableGrows
  <2> QED
    BY <2>1
<1> QED
  BY <1>2, <1>3, <1>4 DEF TypeOK, Requests, Row, Serves

(* The terminal unpacks the state the handler meant. *)
LEMMA ReplyState ==
  ASSUME IInv, NEW t \in Types, Serves(t), NEW s \in States, Reply(s),
         NEW c, c = Request.client
  PROVE  Unpacked(c)'.state = s
<1> USE DEF IInv
<1>1. c \in Client /\ Request \in Requests /\ reply[c] = <<>>
  BY Served
<1> DEFINE a == [Request.acnt EXCEPT !.state = ntohs(s)]
<1>2. a.state = ntohs(s) /\ a = [a EXCEPT !.state = a.state] /\ DOMAIN a = {"name", "key", "state"}
  BY <1>1 DEF Requests, Account
<1>3. ntohs(ntohs(s)) = s
  BY ByteOrder
<1>4. reply' = [reply EXCEPT ![c] = Append(@, a)]
  BY DEF Reply
<1> HIDE DEF a
<1>5. reply'[c] = Append(<<>>, a)
  BY <1>1, <1>4 DEF TypeOK
<1>6. Head(reply'[c]) = a
  BY <1>5
<1>7. Unpacked(c)' = [a EXCEPT !.state = ntohs(@)]
  BY <1>6 DEF Unpacked
<1> QED
  BY <1>2, <1>3, <1>7

LEMMA ServeOthers ==
  ASSUME IInv, NEW t \in Types, Serves(t),
         reply' = reply \/ \E s \in Nat : Reply(s),
         NEW d \in Client, d # Request.client
  PROVE  reply'[d] = reply[d] /\ Unpacked(d)' = Unpacked(d)
<1>1. reply'[d] = reply[d]
  <2>1. CASE reply' = reply
    BY <2>1
  <2>2. CASE \E s \in Nat : Reply(s)
    BY <2>2 DEF Reply, IInv, TypeOK
  <2> QED
    BY <2>1, <2>2
<1> QED
  BY <1>1 DEF Unpacked

(* A handler that logs in only who has an account keeps the sessions. *)
LEMMA ServeSessions ==
  ASSUME IInv, NEW t \in Types, Serves(t),
         table' = table \/ table' \in Inserted,
         NEW c, c = Request.client,
         \/ reply' = reply
         \/ t = "HOTLIST" /\ \E s \in Nat : Reply(s)
         \/ \E s \in States : /\ Reply(s)
                              /\ s = LOGGED_IN => t # "SIGNUP_CHECK" /\ Entitled(c)'
  PROVE  Sessions'
<1> USE DEF IInv
<1>1. c \in Client /\ ui[c] = t /\ reply[c] = <<>>
  BY Served
<1>2. ui' = ui /\ acnt' = acnt /\ odd' = odd
  BY DEF Serves
<1>3. \A d \in Client : Entitled(d) => Entitled(d)'
  <2>1. DOMAIN table \subseteq DOMAIN table' /\ \A i \in DOMAIN table : table'[i] = table[i]
    BY TableGrows
  <2> QED
    BY <1>2, <2>1 DEF Entitled, HasAccount, RowsOf
<1>4. reply' = reply \/ \E s \in Nat : Reply(s)
  BY ByteOrder
<1>5. \A d \in Client \ {c} : reply'[d] = reply[d] /\ Unpacked(d)' = Unpacked(d)
  BY <1>4, ServeOthers
<1>6. ASSUME reply'[c] # <<>>, ui[c] # "HOTLIST"
      PROVE  /\ Unpacked(c)'.state \in States
             /\ Unpacked(c)'.state = LOGGED_IN => ui[c] # "SIGNUP_CHECK" /\ Entitled(c)'
  <2>1. PICK s \in States : /\ Reply(s)
                            /\ s = LOGGED_IN => t # "SIGNUP_CHECK" /\ Entitled(c)'
    BY <1>1, <1>6
  <2>2. Unpacked(c)'.state = s
    BY <2>1, ReplyState
  <2> QED
    BY <1>1, <2>1, <2>2
<1>7. ASSUME NEW d \in Client
      PROVE  /\ ui[d] \in {"menu", "HOTLIST"} /\ acnt[d].state = LOGGED_IN => Entitled(d)'
             /\ ui[d] = "LOGIN" => acnt[d].state # LOGGED_IN
  BY <1>3 DEF Sessions
<1>8. ASSUME NEW d \in Client, d # c, reply'[d] # <<>>, ui[d] # "HOTLIST"
      PROVE  /\ Unpacked(d)'.state \in States
             /\ Unpacked(d)'.state = LOGGED_IN => ui[d] # "SIGNUP_CHECK" /\ Entitled(d)'
  BY <1>3, <1>5, <1>8 DEF Sessions
<1> QED
  BY <1>2, <1>6, <1>7, <1>8 DEF Sessions

(* A handler that tells a terminal of every row with its name keeps the    *)
(* checks.                                                                 *)
LEMMA ServeChecks ==
  ASSUME IInv, NEW t \in Types, Serves(t),
         table' = table \/ table' \in Inserted,
         reply' = reply \/ \E s \in Nat : Reply(s),
         NEW c, c = Request.client,
         \A d \in Client \ {c} : checked'[d] = checked[d],
         t = "SIGNUP_PROFILE" => reply'[c] # <<>> \/ Unseen(c)',
         t = "SIGNUP_CHECK" /\ reply'[c] # <<>> =>
           Unpacked(c)'.state = ACNT_STATE_REGISTERED \/ Unseen(c)'
  PROVE  Checks'
<1> USE DEF IInv
<1>1. c \in Client /\ ui[c] = t
  BY Served
<1>2. ui' = ui /\ acnt' = acnt /\ odd' = odd
  BY DEF Serves
<1>3. \A d \in Client \ {c} : reply'[d] = reply[d] /\ Unpacked(d)' = Unpacked(d)
  BY ServeOthers
<1>4. ASSUME NEW d \in Client, d # c, Unseen(d) PROVE Unseen(d)'
  <2>1. checked[d] \in 0..Len(table) /\ checked'[d] = checked[d] /\ acnt'[d] = acnt[d]
    BY <1>2, <1>4 DEF TypeOK
  <2>2. SUFFICES ASSUME d \notin odd, NEW i \in RowsOf(table, acnt[d].name)'
                 PROVE  checked[d] < i
    BY <1>2, <2>1 DEF Unseen
  <2>3. i \in DOMAIN table' /\ Collate(table'[i].name) = Collate(acnt[d].name)
    BY <1>2, <2>2 DEF RowsOf
  <2>4. CASE i \in DOMAIN table
    <3>1. table'[i] = table[i]
      BY <2>4, TableGrows
    <3> QED
      BY <1>4, <2>2, <2>3, <2>4, <3>1 DEF Unseen, RowsOf
  <2>5. CASE i \notin DOMAIN table
    <3>1. i \in Nat /\ i > Len(table) /\ table \in Seq(Row)
      BY <2>3, <2>5, TableGrows
    <3>2. Len(table) \in Nat
      BY <3>1
    <3> QED
      BY <2>1, <3>1, <3>2
  <2> QED
    BY <2>4, <2>5
<1>5. c \in Client /\ ui'[c] = t /\ t # "profile"
  BY <1>1, <1>2 DEF Types
<1>6. ASSUME NEW d \in Client, d # c
      PROVE  /\ ui'[d] = "profile" => Unseen(d)'
             /\ ui'[d] = "SIGNUP_PROFILE" /\ reply'[d] = <<>> => Unseen(d)'
             /\ ui'[d] = "SIGNUP_CHECK" /\ reply'[d] # <<>> =>
                  Unpacked(d)'.state = ACNT_STATE_REGISTERED \/ Unseen(d)'
  BY <1>2, <1>3, <1>4, <1>6 DEF Checks
<1> QED
  BY <1>5, <1>6 DEF Checks

-----------------------------------------------------------------------------
(* The handlers. *)
LEMMA HotlistInv == ASSUME IInv, OnHotlist PROVE IInv'
<1> USE DEF IInv
<1>1. Serves("HOTLIST") /\ table' = table /\ checked' = checked /\ "HOTLIST" \in Types
  BY DEF OnHotlist, Types
<1>2. PICK c : c = Request.client
  OBVIOUS
<1>3. c \in Client /\ Request \in Requests
  BY <1>1, <1>2, Served
<1>4. reply' = reply \/ \E s \in Nat : Reply(s)
  <2>1. ntohs(Request.acnt.state) \in Nat
    BY <1>3, ntohsType DEF Requests, Account
  <2> QED
    BY <2>1 DEF OnHotlist
<1>5. dropped' \subseteq Client
  BY <1>2, <1>3 DEF OnHotlist, Drop, TypeOK
<1>6. checked = [e \in Client |-> checked[e]] /\ \A e \in Client : checked'[e] \in 0..Len(table)
  BY <1>1 DEF TypeOK
<1>7. TypeOK'
  BY <1>1, <1>4, <1>5, <1>6, ServeType
<1>8. OneUnderWay'
  BY <1>1, <1>4, ServeUnderWay
<1>9. Sessions'
  BY <1>1, <1>2, <1>4, ServeSessions
<1>10. Checks'
  BY <1>1, <1>2, <1>4, ServeChecks
<1> QED
  BY <1>7, <1>8, <1>9, <1>10

(* usr_login() finds a row with the name and the password. *)
LEMMA LoginInv == ASSUME IInv, OnLogin PROVE IInv'
<1> USE DEF IInv
<1>1. /\ Serves("LOGIN") /\ table' = table /\ checked' = checked /\ "LOGIN" \in Types
      /\ dropped' = dropped
  BY DEF OnLogin, Types
<1>2. PICK c : c = Request.client
  OBVIOUS
<1>3. c \in Client /\ Request \in Requests /\ acnt[c] = Request.acnt /\ ui[c] = "LOGIN"
  BY <1>1, <1>2, Served
<1>4. acnt[c].state \in {0, 2, 512}
  BY <1>3, ByteOrder DEF Sessions, TypeOK, LOGGED_IN
<1>5. \E s \in States : Reply(s) /\ (s = LOGGED_IN => Entitled(c)')
  <2>1. PICK failed1 \in SelectFails, failed2 \in SelectFails :
          \E registered \in Outcome(is_registered(table, Request.acnt, failed1)),
             matches \in Outcome(usr_login(table, Request.acnt, failed2)) :
            Reply(IF ~registered THEN UNLOGGED
                  ELSE IF matches THEN LOGGED_IN
                  ELSE ntohs(Request.acnt.state))
    BY DEF OnLogin
  <2>5. PICK registered \in Outcome(is_registered(table, Request.acnt, failed1)),
             matches \in Outcome(usr_login(table, Request.acnt, failed2)) :
          Reply(IF ~registered THEN UNLOGGED
                ELSE IF matches THEN LOGGED_IN
                ELSE ntohs(Request.acnt.state))
    BY <2>1
  <2>6. c \notin odd => matches = usr_login(table, Request.acnt, failed2)
    BY <1>2, <2>5 DEF Outcome
  <2>2. CASE Reply(UNLOGGED)
    BY <2>2 DEF States, UNLOGGED, LOGGED_IN
  <2>3. CASE Reply(LOGGED_IN) /\ matches
    <3>1. acnt' = acnt /\ odd' = odd
      BY <1>1 DEF Serves
    <3>2. CASE c \in odd
      BY <2>3, <3>1, <3>2 DEF States, Entitled
    <3>3. CASE c \notin odd
      <4>1. PICK i \in DOMAIN table :
              RowsOf(table, Request.acnt.name) = {i} /\ table[i].key = Request.acnt.key
        BY <2>3, <2>6, <3>3 DEF usr_login
      <4>2. Entitled(c)'
        BY <1>1, <1>3, <3>1, <4>1 DEF Entitled, HasAccount
      <4> QED
        BY <2>3, <4>2 DEF States
    <3> QED
      BY <3>2, <3>3
  <2>4. CASE Reply(ntohs(Request.acnt.state))
    <3>1. ntohs(Request.acnt.state) \in {0, 512, 2}
      BY <1>3, <1>4, ByteOrder
    <3> QED
      BY <2>4, <3>1, ByteOrder DEF LOGGED_IN
  <2> QED
    BY <2>2, <2>3, <2>4, <2>5
<1>6. \E s \in Nat : Reply(s)
  BY <1>5, ByteOrder
<1>7. checked = [e \in Client |-> checked[e]] /\ \A e \in Client : checked'[e] \in 0..Len(table)
  BY <1>1 DEF TypeOK
<1>8. TypeOK'
  <2>1. dropped' \subseteq Client
    BY <1>1 DEF TypeOK
  <2> QED
    BY <1>1, <1>6, <1>7, <2>1, ServeType
<1>9. OneUnderWay'
  BY <1>1, <1>6, ServeUnderWay
<1>10. Sessions'
  BY <1>1, <1>2, <1>5, ServeSessions
<1>11. Checks'
  BY <1>1, <1>2, <1>6, ServeChecks
<1> QED
  BY <1>8, <1>9, <1>10, <1>11

(* A name that is not found has no row, unless the select failed, and then *)
(* nothing was looked at.                                                  *)
LEMMA SignupCheckInv == ASSUME IInv, OnSignupCheck PROVE IInv'
<1> USE DEF IInv
<1>1. Serves("SIGNUP_CHECK") /\ table' = table /\ "SIGNUP_CHECK" \in Types /\ dropped' = dropped
  BY DEF OnSignupCheck, Types
<1>2. PICK c : c = Request.client
  OBVIOUS
<1>3. c \in Client /\ Request \in Requests /\ acnt[c] = Request.acnt
  BY <1>1, <1>2, Served
<1>4. PICK failed \in SelectFails :
        \E registered \in Outcome(is_registered(table, Request.acnt, failed)) :
          /\ Reply(IF registered THEN ACNT_STATE_REGISTERED ELSE UNLOGGED)
          /\ checked' = [checked EXCEPT ![c] = IF failed THEN 0 ELSE Len(table)]
  BY <1>2 DEF OnSignupCheck
<1>5. PICK s \in {ACNT_STATE_REGISTERED, UNLOGGED} :
        Reply(s) /\ (s = UNLOGGED => c \in odd \/ ~is_registered(table, Request.acnt, failed))
  BY <1>2, <1>4 DEF ACNT_STATE_REGISTERED, UNLOGGED, Outcome
<1>6. s \in States /\ s # LOGGED_IN /\ s \in Nat
  BY <1>5 DEF States, ACNT_STATE_REGISTERED, UNLOGGED, LOGGED_IN
<1>7. Unpacked(c)'.state = s
  BY <1>1, <1>2, <1>5, <1>6, ReplyState
<1>8. table \in Seq(Row) /\ Len(table) \in Nat /\ DOMAIN table = 1..Len(table)
  BY DEF TypeOK, Row
<1>9. /\ checked'[c] = IF failed THEN 0 ELSE Len(table)
      /\ \A e \in Client \ {c} : checked'[e] = checked[e]
      /\ checked' = [e \in Client |-> checked'[e]]
      /\ \A e \in Client : checked'[e] \in 0..Len(table)
  <2> DEFINE n == IF failed THEN 0 ELSE Len(table)
  <2>1. n \in 0..Len(table)
    BY <1>8
  <2>2. checked' = [checked EXCEPT ![c] = n]
    BY <1>4
  <2> HIDE DEF n
  <2>3. /\ checked'[c] = n
        /\ \A e \in Client \ {c} : checked'[e] = checked[e]
        /\ checked' = [e \in Client |-> checked'[e]]
        /\ \A e \in Client : checked'[e] \in 0..Len(table)
    BY <1>3, <2>1, <2>2 DEF TypeOK
  <2> QED
    BY <2>3 DEF n
<1>10. s = UNLOGGED => Unseen(c)'
  <2>0. odd' = odd
    BY <1>1 DEF Serves
  <2>1. SUFFICES ASSUME s = UNLOGGED, c \notin odd, NEW i \in RowsOf(table, acnt[c].name)'
                 PROVE  checked'[c] < i
    BY <2>0 DEF Unseen
  <2>2. i \in RowsOf(table, acnt[c].name) /\ i \in 1..Len(table)
    <3>1. acnt' = acnt
      BY <1>1 DEF Serves
    <3> QED
      BY <1>1, <1>8, <2>1, <3>1 DEF RowsOf
  <2>3. failed
    BY <1>3, <1>5, <2>1, <2>2 DEF is_registered
  <2> QED
    BY <1>9, <2>2, <2>3
<1>11. TypeOK'
  <2>1. dropped' \subseteq Client
    BY <1>1 DEF TypeOK
  <2> QED
    BY <1>1, <1>5, <1>6, <1>9, <2>1, ServeType
<1>12. OneUnderWay'
  BY <1>1, <1>5, <1>6, ServeUnderWay
<1>13. Sessions'
  BY <1>1, <1>2, <1>5, <1>6, ServeSessions
<1>14. Checks'
  BY <1>1, <1>2, <1>5, <1>6, <1>7, <1>9, <1>10, ServeChecks
<1> QED
  BY <1>11, <1>12, <1>13, <1>14

(* The row is in the table before the reply that logs in. *)
LEMMA SignupProfileInv == ASSUME IInv, OnSignupProfile PROVE IInv'
<1> USE DEF IInv
<1>1. Serves("SIGNUP_PROFILE") /\ checked' = checked /\ "SIGNUP_PROFILE" \in Types
  BY DEF OnSignupProfile, Types
<1>2. PICK c : c = Request.client
  OBVIOUS
<1>3. /\ c \in Client /\ acnt[c] = Request.acnt /\ reply[c] = <<>> /\ ui[c] = "SIGNUP_PROFILE"
      /\ acnt' = acnt /\ odd' = odd
  BY <1>1, <1>2, Served DEF Serves
<1>4. \/ table' \in Inserted /\ Reply(LOGGED_IN) /\ dropped' = dropped
      \/ table' = table /\ reply' = reply /\ Drop(c)
  BY <1>2 DEF OnSignupProfile
<1>5. LOGGED_IN \in States /\ LOGGED_IN \in Nat
  BY DEF States, LOGGED_IN
<1>6. table' \in Inserted => Entitled(c)'
  <2>1. table \in Seq(Row) /\ odd' = odd
    BY <1>1 DEF TypeOK, Row, Serves
  <2> DEFINE r == [name |-> acnt[c].name, key |-> acnt[c].key]
  <2>2. table' \in Inserted => c \in odd \/ table' = Append(table, r)
    BY <1>2, <1>3 DEF Inserted, insert_usr
  <2>3. r.name = acnt[c].name /\ r.key = acnt[c].key
    OBVIOUS
  <2> HIDE DEF r
  <2>4. Len(table) + 1 \in DOMAIN Append(table, r) /\ Append(table, r)[Len(table) + 1] = r
    BY <2>1
  <2> QED
    BY <1>3, <2>1, <2>2, <2>3, <2>4 DEF Entitled, HasAccount, RowsOf
<1>7. reply'[c] # <<>> \/ Unseen(c)'
  <2>1. CASE Reply(LOGGED_IN)
    <3>1. reply \in [Client -> Seq(Account)]
      BY DEF TypeOK
    <3>2. PICK a : reply' = [reply EXCEPT ![c] = Append(@, a)]
      BY <1>2, <2>1 DEF Reply
    <3> QED
      BY <1>3, <3>1, <3>2
  <2>2. CASE table' = table
    BY <1>1, <1>3, <2>2 DEF Checks, Unseen, RowsOf
  <2> QED
    BY <1>4, <2>1, <2>2
<1>8. dropped' \subseteq Client
  BY <1>3, <1>4 DEF Drop, TypeOK
<1>9. checked = [e \in Client |-> checked[e]] /\ \A e \in Client : checked'[e] \in 0..Len(table)
  BY <1>1 DEF TypeOK
<1>10. TypeOK'
  BY <1>1, <1>4, <1>5, <1>8, <1>9, ServeType
<1>11. OneUnderWay'
  BY <1>1, <1>4, <1>5, ServeUnderWay
<1>12. Sessions'
  BY <1>1, <1>2, <1>4, <1>5, <1>6, ServeSessions
<1>13. Checks'
  BY <1>1, <1>2, <1>4, <1>5, <1>7, ServeChecks
<1> QED
  BY <1>10, <1>11, <1>12, <1>13

-----------------------------------------------------------------------------
(* The terminals send. *)
LEMMA ShowHotlistInv == ASSUME IInv, NEW c \in Client, ShowHotlist(c) PROVE IInv'
<1> USE DEF IInv
<1>1. /\ ui[c] = "menu" /\ Send(c, "HOTLIST", acnt[c]) /\ typed' = typed /\ "HOTLIST" \in Types
      /\ acnt[c] \in Account /\ acnt[c].state \in States
  BY DEF ShowHotlist, Types, TypeOK
<1>2. TypeOK'
  <2>1. typed' \in [Client -> Names \cup {<<>>}]
    BY <1>1 DEF TypeOK
  <2> QED
    BY <1>1, <2>1, SendType
<1>3. OneUnderWay' /\ Sessions' /\ Checks'
  BY <1>1, SendUnderWay, SendSessions
<1> QED
  BY <1>2, <1>3

LEMMA LoginSentInv ==
  ASSUME IInv, NEW c \in Client, NEW name \in Names, NEW key \in Keys, Login(c, name, key)
  PROVE  IInv'
<1> USE DEF IInv
<1>1. PICK a : a = [acnt[c] EXCEPT !.name = name, !.key = key]
  OBVIOUS
<1>2. /\ ui[c] = "menu" /\ Send(c, "LOGIN", a) /\ typed' = typed /\ "LOGIN" \in Types
      /\ acnt[c] \in Account /\ acnt[c].state \in States /\ acnt[c].state # LOGGED_IN
  BY <1>1 DEF Login, Types, TypeOK
<1>3. name \in Seq(Char) /\ key \in Seq(Char)
  BY TypedType
<1>4. a \in Account /\ a.state = acnt[c].state
  BY <1>1, <1>2, <1>3 DEF Account
<1>5. TypeOK'
  <2>1. typed' \in [Client -> Names \cup {<<>>}]
    BY <1>2 DEF TypeOK
  <2> QED
    BY <1>2, <1>4, <2>1, SendType
<1>6. OneUnderWay' /\ Sessions' /\ Checks'
  BY <1>2, <1>4, SendUnderWay, SendSessions
<1> QED
  BY <1>5, <1>6

LEMMA SignupInv ==
  ASSUME IInv, NEW c \in Client, NEW name \in Names, NEW key \in Keys, Signup(c, name, key)
  PROVE  IInv'
<1> USE DEF IInv
<1>1. PICK a : a = [acnt[c] EXCEPT !.name = Overlay(@, name), !.key = Overlay(@, key)]
  OBVIOUS
<1>2. /\ ui[c] = "menu" /\ Send(c, "SIGNUP_CHECK", a) /\ "SIGNUP_CHECK" \in Types
      /\ typed' = [typed EXCEPT ![c] = name]
      /\ acnt[c] \in Account /\ acnt[c].state \in States
  BY <1>1 DEF Signup, Types, TypeOK
<1>3. Overlay(acnt[c].name, name) \in Seq(Char) /\ Overlay(acnt[c].key, key) \in Seq(Char)
  <2>1. name \in Seq(Char) /\ key \in Seq(Char)
    BY TypedType
  <2>2. acnt[c].name \in Seq(Char) /\ acnt[c].key \in Seq(Char)
    BY <1>2 DEF Account
  <2> QED
    BY <2>1, <2>2, OverlayType
<1>4. a \in Account /\ a.state = acnt[c].state
  BY <1>1, <1>2, <1>3 DEF Account
<1>5. TypeOK'
  <2>1. typed' \in [Client -> Names \cup {<<>>}]
    BY <1>2 DEF TypeOK
  <2> QED
    BY <1>2, <1>4, <2>1, SendType
<1>6. OneUnderWay' /\ Sessions' /\ Checks'
  BY <1>2, <1>4, SendUnderWay, SendSessions
<1> QED
  BY <1>5, <1>6

LEMMA SendProfileInv == ASSUME IInv, NEW c \in Client, SendProfile(c) PROVE IInv'
<1> USE DEF IInv
<1>1. /\ ui[c] = "profile" /\ Send(c, "SIGNUP_PROFILE", acnt[c]) /\ typed' = typed
      /\ "SIGNUP_PROFILE" \in Types
      /\ acnt[c] \in Account /\ acnt[c].state \in States
  BY DEF SendProfile, Types, TypeOK
<1>2. TypeOK'
  <2>1. typed' \in [Client -> Names \cup {<<>>}]
    BY <1>1 DEF TypeOK
  <2> QED
    BY <1>1, <2>1, SendType
<1>3. OneUnderWay' /\ Sessions' /\ Checks'
  BY <1>1, SendUnderWay, SendSessions
<1> QED
  BY <1>2, <1>3

LEMMA QuitInv == ASSUME IInv, NEW c \in Client, Quit(c) PROVE IInv'
<1> USE DEF IInv
<1>1. Under(c) = {} /\ reply[c] = <<>>
  BY NothingUnderWay DEF Quit
<1>2. /\ ui' = [ui EXCEPT ![c] = "gone"]
      /\ UNCHANGED <<acnt, typed, queue, reply, table, checked, dropped, sent, odd>>
  BY DEF Quit
<1>3. TypeOK'
  BY <1>2 DEF TypeOK
<1>4. ui'[c] = "gone" /\ \A d \in Client \ {c} : ui'[d] = ui[d]
  BY <1>2 DEF TypeOK
<1>5. \A d \in Client : Under(d)' = Under(d) /\ Unpacked(d)' = Unpacked(d)
                        /\ (Entitled(d)' <=> Entitled(d)) /\ (Unseen(d)' <=> Unseen(d))
  BY <1>2 DEF Under, Unpacked, Entitled, HasAccount, RowsOf, Unseen
<1>6. OneUnderWay'
  BY <1>1, <1>2, <1>4, <1>5 DEF OneUnderWay
<1>7. Sessions'
  BY <1>1, <1>2, <1>4, <1>5 DEF Sessions
<1>8. Checks'
  BY <1>1, <1>2, <1>4, <1>5 DEF Checks
<1> QED
  BY <1>3, <1>6, <1>7, <1>8

-----------------------------------------------------------------------------
(* A terminal reads its reply: nothing else is under way for it. *)
LEMMA ReadInv ==
  ASSUME IInv, NEW c \in Client, NEW t \in Types, NEW next \in {"menu", "profile"},
         Read(c, t, next), NEW a \in Account, acnt' = [acnt EXCEPT ![c] = a],
         a.name = acnt[c].name, a.key = acnt[c].key, a.state \in States,
         next = "menu" /\ a.state = LOGGED_IN => Entitled(c),
         next = "profile" => Unseen(c)
  PROVE  IInv'
<1> USE DEF IInv
<1>1. /\ ui[c] = t /\ reply[c] # <<>>
      /\ reply' = [reply EXCEPT ![c] = Tail(@)] /\ ui' = [ui EXCEPT ![c] = next]
      /\ UNCHANGED <<typed, queue, table, checked, dropped, sent, odd>>
  BY DEF Read
<1>2. reply[c] \in Seq(Account) /\ Len(reply[c]) = 1 /\ Under(c) = {}
  BY <1>1 DEF TypeOK, OneUnderWay
<1>3. Tail(reply[c]) = <<>>
  <2>1. Tail(reply[c]) \in Seq(Account) /\ Len(Tail(reply[c])) = 0
    BY <1>1, <1>2
  <2> QED
    BY <2>1, EmptySeq
<1>4. ui'[c] = next /\ reply'[c] = <<>> /\ acnt'[c] = a
  BY <1>1, <1>3 DEF TypeOK
<1>5. \A d \in Client \ {c} : ui'[d] = ui[d] /\ reply'[d] = reply[d] /\ acnt'[d] = acnt[d]
  BY <1>1 DEF TypeOK
<1>6. \A d \in Client : Under(d)' = Under(d)
  BY <1>1 DEF Under
<1>7. \A d \in Client \ {c} : Unpacked(d)' = Unpacked(d)
  BY <1>5 DEF Unpacked
<1>8. \A d \in Client : (Entitled(d)' <=> Entitled(d)) /\ (Unseen(d)' <=> Unseen(d))
  <2>1. \A d \in Client : acnt'[d].name = acnt[d].name /\ acnt'[d].key = acnt[d].key
    BY <1>4, <1>5
  <2> QED
    BY <1>1, <2>1 DEF Entitled, HasAccount, RowsOf, Unseen
<1>9. TypeOK'
  BY <1>1, <1>3 DEF TypeOK
<1>10. OneUnderWay'
  BY <1>1, <1>2, <1>4, <1>5, <1>6 DEF OneUnderWay
<1>11. Sessions'
  BY <1>4, <1>5, <1>7, <1>8 DEF Sessions
<1>12. Checks'
  BY <1>1, <1>4, <1>5, <1>7, <1>8 DEF Checks
<1> QED
  BY <1>9, <1>10, <1>11, <1>12

(* What it unpacks is the account it sent, with another state. *)
LEMMA UnpackedAccount ==
  ASSUME IInv, NEW c \in Client, reply[c] # <<>>
  PROVE  /\ Unpacked(c) \in Account
         /\ Unpacked(c).name = acnt[c].name /\ Unpacked(c).key = acnt[c].key
<1>1. Head(reply[c]) \in Account
  BY DEF IInv, TypeOK
<1>2. ntohs(Head(reply[c]).state) \in Nat
  BY <1>1, ntohsType DEF Account
<1> QED
  BY <1>1, <1>2 DEF Unpacked, Account, IInv, OneUnderWay

LEMMA ReadReplyInv == ASSUME IInv, NEW c \in Client, ReadReply(c) PROVE IInv'
<1> USE DEF IInv
<1>1. CASE ReadHotlist(c)
  <2>1. Read(c, "HOTLIST", "menu") /\ acnt' = acnt /\ ui[c] = "HOTLIST" /\ "HOTLIST" \in Types
    BY <1>1 DEF ReadHotlist, Read, Types
  <2>2. acnt[c] \in Account /\ acnt[c].state \in States /\ acnt' = [acnt EXCEPT ![c] = acnt[c]]
    BY <2>1 DEF TypeOK
  <2>3. acnt[c].state = LOGGED_IN => Entitled(c)
    BY <2>1 DEF Sessions
  <2> QED
    BY <2>1, <2>2, <2>3, ReadInv
<1>2. CASE ReadLogin(c) \/ ReadSignupProfile(c)
  <2>1. PICK t \in {"LOGIN", "SIGNUP_PROFILE"} :
          Read(c, t, "menu") /\ acnt' = [acnt EXCEPT ![c] = Unpacked(c)]
    BY <1>2 DEF ReadLogin, ReadSignupProfile
  <2>2. ui[c] = t /\ reply[c] # <<>> /\ t \in Types /\ t # "HOTLIST"
    BY <2>1 DEF Read, Types
  <2>3. Unpacked(c).state \in States /\ (Unpacked(c).state = LOGGED_IN => Entitled(c))
    BY <2>2 DEF Sessions
  <2> QED
    BY <2>1, <2>2, <2>3, UnpackedAccount, ReadInv
<1>3. CASE ReadSignupCheck(c)
  <2>1. PICK next \in {"menu", "profile"} :
          /\ Read(c, "SIGNUP_CHECK", next) /\ acnt' = [acnt EXCEPT ![c] = Unpacked(c)]
          /\ next = "profile" => Unpacked(c).state # ACNT_STATE_REGISTERED
    BY <1>3 DEF ReadSignupCheck
  <2>2. ui[c] = "SIGNUP_CHECK" /\ reply[c] # <<>> /\ "SIGNUP_CHECK" \in Types
    BY <2>1 DEF Read, Types
  <2>3. Unpacked(c).state \in States /\ Unpacked(c).state # LOGGED_IN
    BY <2>2 DEF Sessions
  <2>4. next = "profile" => Unseen(c)
    BY <2>1, <2>2 DEF Checks
  <2> QED
    BY <2>1, <2>2, <2>3, <2>4, UnpackedAccount, ReadInv
<1> QED
  BY <1>1, <1>2, <1>3 DEF ReadReply

LEMMA StutterInv == ASSUME IInv, UNCHANGED vars PROVE IInv'
<1> USE DEF IInv, vars
<1>1. TypeOK' /\ OneUnderWay'
  BY DEF TypeOK, OneUnderWay, Under
<1>2. \A d \in Client : Unpacked(d)' = Unpacked(d) /\ (Entitled(d)' <=> Entitled(d))
                        /\ (Unseen(d)' <=> Unseen(d))
  BY DEF Unpacked, Entitled, HasAccount, RowsOf, Unseen
<1>3. Sessions' /\ Checks'
  BY <1>2 DEF Sessions, Checks
<1> QED
  BY <1>1, <1>3

-----------------------------------------------------------------------------
LEMMA NextInv == IInv /\ [Next]_vars => IInv'
<1> SUFFICES ASSUME IInv, [Next]_vars PROVE IInv'
  OBVIOUS
<1>1. CASE \E c \in Client : ShowHotlist(c) \/ SendProfile(c) \/ Quit(c) \/ ReadReply(c)
  BY <1>1, ShowHotlistInv, SendProfileInv, QuitInv, ReadReplyInv
<1>2. CASE \E c \in Client, name \in Names, key \in Keys :
             Login(c, name, key) \/ Signup(c, name, key)
  BY <1>2, LoginSentInv, SignupInv
<1>3. CASE Worker
  BY <1>3, HotlistInv, LoginInv, SignupCheckInv, SignupProfileInv DEF Worker
<1>4. CASE UNCHANGED vars
  BY <1>4, StutterInv
<1> QED
  BY <1>1, <1>2, <1>3, <1>4 DEF Next

(* What is under way, what the terminals show and what they were told of   *)
(* the table is invariant.                                                 *)
THEOREM Inductive == Spec => []IInv
  BY InitInv, NextInv, PTL DEF Spec

(* Type correctness; the state of a terminal is one of four, although it   *)
(* crosses the network in two byte orders.                                 *)
THEOREM TypeCorrect == Spec => []TypeOK
<1>1. IInv => TypeOK
  BY DEF IInv
<1> QED
  BY <1>1, Inductive, PTL

(* A terminal has one request or one reply under way, the one it waits for. *)
THEOREM OneMessage == Spec => []OneUnderWay
<1>1. IInv => OneUnderWay
  BY DEF IInv
<1> QED
  BY <1>1, Inductive, PTL

(* Who is shown as logged in has that name, as far as the collation can    *)
(* tell, and that password in the table, if no quotes are typed there.     *)
THEOREM SessionsHonest == Spec => []LoggedInHasAccount
<1>1. IInv => LoggedInHasAccount
  BY DEF IInv, Sessions, Entitled, LoggedInHasAccount
<1> QED
  BY <1>1, Inductive, PTL

(* A second row under a name, from a terminal where no quotes are typed,   *)
(* needs a row that came in after the terminal's check.                    *)
THEOREM OnlyOverlap == Spec => DuplicateNeedsOverlap
<1> DEFINE Overlaps ==
      table' # table /\ Request.client \notin odd =>
        \A i \in RowsOf(table, Request.acnt.name) : checked[Request.client] < i
<1>1. IInv /\ [Next]_vars => [Overlaps]_vars
  <2> SUFFICES ASSUME IInv, [Next]_vars, table' # table, Request.client \notin odd
               PROVE  Overlaps
    OBVIOUS
  <2>0. /\ \A c, t, a : ~Send(c, t, a)
        /\ \A c, t, next : ~Read(c, t, next)
        /\ \A c : ~Quit(c)
        /\ ~OnHotlist /\ ~OnLogin /\ ~OnSignupCheck
    BY DEF Send, Read, Quit, OnHotlist, OnLogin, OnSignupCheck
  <2>1. OnSignupProfile
    BY <2>0 DEF Next, Worker, ShowHotlist, Login, Signup, SendProfile, ReadReply, ReadHotlist,
                ReadLogin, ReadSignupCheck, ReadSignupProfile, vars
  <2>2. Serves("SIGNUP_PROFILE") /\ "SIGNUP_PROFILE" \in Types
    BY <2>1 DEF OnSignupProfile, Types
  <2>3. PICK c : c = Request.client
    OBVIOUS
  <2>4. /\ c \in Client /\ ui[c] = "SIGNUP_PROFILE" /\ reply[c] = <<>>
        /\ acnt[c] = Request.acnt
    BY <2>2, <2>3, Served
  <2> QED
    BY <2>3, <2>4 DEF IInv, Checks, Unseen
<1> QED
  BY <1>1, Inductive, PTL DEF Spec, DuplicateNeedsOverlap
=============================================================================
