----------------------------- MODULE InfoRecords -----------------------------
(***************************************************************************)
(* What the information system promises its users, without files, lists    *)
(* and terminals: accounts of three kinds, a mark for each student in each *)
(* course, three things that can happen to them, each at once, and what is *)
(* lost at most when the program is killed.  One running copy of InfoMngmt *)
(* implements this.                                                        *)
(***************************************************************************)
EXTENDS Naturals, Functions

CONSTANTS
  Account,   \* the accounts that can be made: [usrname, pwd, type]
  Pwd,       \* passwords
  NoMarks    \* course -> unset mark, for a new student

VARIABLES
  accounts,  \* accounts[k]: name -> [pwd, type], for students (1),
             \*   teachers (2) and administrators (3)
  marks,     \* student -> course -> mark
  crashes    \* how often the program was killed

rvars == <<accounts, marks, crashes>>

Extend(f, x, y) == [z \in DOMAIN f \cup {x} |-> IF z = x THEN y ELSE f[z]]

(* Everybody can make an account under a name that is free; a student      *)
(* starts with no marks.                                                   *)
Register(k, name, acnt) ==
  /\ name \notin DOMAIN accounts[k]
  /\ acnt.type % 4 = k
  /\ accounts' = [accounts EXCEPT ![k] = Extend(@, name, acnt)]
  /\ marks' = IF k = 1 THEN Extend(marks, name, NoMarks) ELSE marks
  /\ UNCHANGED crashes

(* The password of one account changes, and nothing else of it. *)
ChangePwd(k, name, pwd) ==
  /\ name \in DOMAIN accounts[k]
  /\ accounts' = [accounts EXCEPT ![k][name].pwd = pwd]
  /\ UNCHANGED <<marks, crashes>>

(* A teacher changes marks in one course; the students stay who they are.  *)
Grade(course) ==
  /\ DOMAIN marks' = DOMAIN marks
  /\ \A name \in DOMAIN marks : \A c \in DOMAIN marks[name] :
       c # course => marks'[name][c] = marks[name][c]
  /\ UNCHANGED <<accounts, crashes>>

(* A crash costs nothing, or one kind of accounts, or all marks, or the    *)
(* marks of the one student who was just signing in - never two of these.  *)
Kill ==
  /\ crashes' = crashes + 1
  /\ \/ UNCHANGED <<accounts, marks>>
     \/ \E k \in 1..3 : accounts' = [accounts EXCEPT ![k] = <<>>] /\ UNCHANGED marks
     \/ marks' = <<>> /\ UNCHANGED accounts
     \/ \E name \in DOMAIN marks :
          /\ marks[name] = NoMarks
          /\ marks' = Restrict(marks, DOMAIN marks \ {name})
          /\ UNCHANGED accounts

RInit ==
  /\ DOMAIN accounts = 1..3
  /\ \A k \in 1..3 : \A name \in DOMAIN accounts[k] : accounts[k][name].type % 4 = k
  /\ DOMAIN marks = DOMAIN accounts[1]
  /\ \A name \in DOMAIN marks : marks[name] = NoMarks
  /\ crashes = 0

RNext ==
  \/ Kill
  \/ \E k \in 1..3, acnt \in Account :
       Register(k, acnt.usrname, [pwd |-> acnt.pwd, type |-> acnt.type])
  \/ \E k \in 1..3 : \E name \in DOMAIN accounts[k], pwd \in Pwd : ChangePwd(k, name, pwd)
  \/ \E course \in DOMAIN NoMarks : Grade(course)

RSpec == RInit /\ [][RNext]_rvars
=============================================================================
