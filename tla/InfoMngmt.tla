------------------------------ MODULE InfoMngmt ------------------------------
(***************************************************************************)
(* The student information system of 01-infoMngmt: accounts in the text    *)
(* files std.txt, tch.txt and adm.txt, marks in scores.txt.  Every         *)
(* operation loads a whole file into a linked list, asks its user, and     *)
(* appends a record or writes the whole list back.  There is no lock: what *)
(* two copies of the program started in one directory do to the files is   *)
(* part of the model, and so is a copy that is killed.                     *)
(*                                                                         *)
(* A file is the sequence of its records.  The files are smaller than a    *)
(* stdio buffer: nothing is written before fclose(), and then all at once; *)
(* fopen(.., "w") empties the file at once.  Two copies that have opened   *)
(* one file both write from its beginning: where the second text ends      *)
(* inside a record of the first, what follows is words nobody has written  *)
(* in that order, and load_list() takes them for accounts of any type.     *)
(***************************************************************************)
EXTENDS Integers, Sequences

CONSTANTS
  Terminal,     \* running copies of the program
  Name, Pwd,    \* what users type as a name or a password
  Mark,         \* what teachers type as a mark
  TeacherType,  \* which of the teacher types may sign in here
  Word,         \* what fscanf() may read as a name or a password
  Size(_),      \* how many characters a word or a number is printed in
  StrayLists,   \* the lists of accounts load_list() may make of misplaced text
  StrayMarks,   \* the lists of mark records load_scores() may make of it
  MaxRecords,   \* bound: no record is appended to a file of that many
  MaxLoad,      \* bound: records of a file with misplaced text
  MaxCrashes    \* bound: how often a copy is killed

UNSET == 0
STUDENT == 1
ADMIN == 3
TEACH_CN == 2
TEACH_MH == 6
TEACH_EN == 10

ASSUME TeacherTypeAssumption == TeacherType \subseteq {TEACH_CN, TEACH_MH, TEACH_EN}
ASSUME MarkAssumption == UNSET \in Mark /\ Mark \subseteq Int
ASSUME WordAssumption == Name \subseteq Word /\ Pwd \subseteq Word

COURSENUMBER == 3
AnyAccount == [usrname : Word, pwd : Word, type : Int]
AnyRecord == [usrname : Word, marks : [0..(COURSENUMBER - 1) -> Int]]

ASSUME StrayAssumption ==
  StrayLists \subseteq Seq(AnyAccount) /\ StrayMarks \subseteq Seq(AnyRecord)

VARIABLES
  file,    \* file[k]: std.txt (1), tch.txt (2), adm.txt (3)
  scores,  \* scores.txt
  ap,      \* each copy's current account
  pc,      \* where each copy is
  h,       \* the list each copy has in memory
  want,    \* the type chosen in sign_in(), the file chosen in login()
  crashes, \* how many copies were killed (bounded by MaxCrashes)
  mixed,   \* the files with misplaced text after the records in file or scores
  tainted  \* the files that have ever been mixed

vars == <<file, scores, ap, pc, h, want, crashes, mixed, tainted>>

(* std.txt is 1, tch.txt 2 and adm.txt 3 in mixed; scores.txt is 0. *)
SCORES == 0

(* type & TYPEMASK: the menu of an account, and its file. *)
Kind(type) == type % 4

(* Mutant: the course is taken from the low bits. *)
CourseLow(type) == type % 4

(* The column of scores.txt a teacher fills in. *)
Course(type) == (type \div 4) % 4

NoMarks == [c \in 0..(COURSENUMBER - 1) |-> UNSET]
NoAcnt == [usrname |-> "", pwd |-> "", type |-> UNSET]

(* search_name() and search_sc_name(): the first record with the name. *)
Finds(list, i, name) ==
  /\ i \in DOMAIN list
  /\ list[i].usrname = name
  /\ \A j \in 1..(i - 1) : list[j].usrname # name

Has(list, name) == \E i \in DOMAIN list : list[i].usrname = name

(* The text of a record: "%s\n%s\n%d\n" of an account (user.c:226),        *)
(* "\n%s\n%d %d %d " of a student's marks (score.c:184).                   *)
Text(r) ==
  Size(r.usrname) +
    IF "pwd" \in DOMAIN r
    THEN Size(r.pwd) + Size(r.type) + 3
    ELSE Size(r.marks[0]) + Size(r.marks[1]) + Size(r.marks[2]) + 5

(* Where the records of a list end in its text. *)
Ends(list) ==
  LET end[i \in 0..Len(list)] == IF i = 0 THEN 0 ELSE end[i - 1] + Text(list[i])
  IN  end
Length(list) == Ends(list)[Len(list)]

(* The text of list ends inside a record of old. *)
Splits(old, list) ==
  \E m \in 1..Len(old) : Ends(old)[m - 1] < Length(list) /\ Length(list) < Ends(old)[m]

(* The records of old that follow the text of list. *)
Left(old, list) ==
  IF \E m \in 0..Len(old) : Ends(old)[m] = Length(list)
  THEN SubSeq(old, (CHOOSE m \in 0..Len(old) : Ends(old)[m] = Length(list)) + 1, Len(old))
  ELSE <<>>

(* What a file holds after list is written from its beginning. *)
WriteOver(old, list) == list \o Left(old, list)

(* Whether file k holds misplaced text then: what is left of a record that *)
(* was cut, or of the text that was misplaced before.                      *)
Mixes(k, old, list) ==
  /\ \/ mixed' = mixed \cup {k} /\ (Splits(old, list) \/ k \in mixed)
     \/ /\ mixed' = mixed \ {k}
        /\ ~Splits(old, list)
        /\ k \in mixed => Length(old) < Length(list)
  /\ tainted' = tainted \cup mixed'

(* What load_list() and load_scores() can make of a file; MaxLoad bounds   *)
(* what misplaced text may be read as.                                     *)
Loads(k) ==
  IF k \in mixed
  THEN {list \in {file[k] \o stray : stray \in StrayLists} : Len(list) <= MaxLoad}
  ELSE {file[k]}
LoadsScores ==
  IF SCORES \in mixed
  THEN {list \in {scores \o stray : stray \in StrayMarks} : Len(list) <= MaxLoad}
  ELSE {scores}

(* The shipped data: every file has accounts, every student a mark record. *)
Init ==
  \E n \in Name, p \in Pwd, type \in TeacherType :
    /\ file = << <<[usrname |-> n, pwd |-> p, type |-> STUDENT]>>,
                 <<[usrname |-> n, pwd |-> p, type |-> type]>>,
                 <<[usrname |-> n, pwd |-> p, type |-> ADMIN]>> >>
    /\ scores = <<[usrname |-> n, marks |-> NoMarks]>>
    /\ ap = [t \in Terminal |-> NoAcnt]
    /\ pc = [t \in Terminal |-> "start"]
    /\ h = [t \in Terminal |-> <<>>]
    /\ want = [t \in Terminal |-> UNSET]
    /\ crashes = 0
    /\ mixed = {}
    /\ tainted = {}

Goto(t, from, to) == pc[t] = from /\ pc' = [pc EXCEPT ![t] = to]

-----------------------------------------------------------------------------
(* login(): an empty list is refused; a wrong name or password is asked    *)
(* for again, without a way out.                                           *)
LoginLoad(t, kind) ==
  /\ Goto(t, "start", "login")
  /\ \E list \in Loads(kind) : list # <<>> /\ h' = [h EXCEPT ![t] = list]
  /\ UNCHANGED <<file, scores, ap, want, crashes, mixed, tainted>>

(* main() then shows the menu of the account's kind, and logs out an       *)
(* account of no kind.                                                     *)
LoginDone(t, i) ==
  LET known == Kind(h[t][i].type) # UNSET
  IN  /\ Goto(t, "login", IF known THEN "menu" ELSE "start")
      /\ Finds(h[t], i, h[t][i].usrname)
      /\ ap' = [ap EXCEPT ![t] = IF known THEN h[t][i] ELSE NoAcnt]
      /\ h' = [h EXCEPT ![t] = <<>>]
      /\ UNCHANGED <<file, scores, want, crashes, mixed, tainted>>

(* logout() *)
Logout(t) ==
  /\ Goto(t, "menu", "start")
  /\ ap' = [ap EXCEPT ![t] = NoAcnt]
  /\ UNCHANGED <<file, scores, h, want, crashes, mixed, tainted>>

-----------------------------------------------------------------------------
(* Mutant: the test for an empty list is missing. *)
SignInLoadAny(t, type) ==
  /\ Goto(t, "start", "sign_in")
  /\ \E list \in Loads(Kind(type)) : h' = [h EXCEPT ![t] = list]
  /\ want' = [want EXCEPT ![t] = type]
  /\ UNCHANGED <<file, scores, ap, crashes, mixed, tainted>>

(* sign_in(): students and teachers make their own account.                *)
SignInLoad(t, type) ==
  /\ Goto(t, "start", "sign_in")
  /\ \E list \in Loads(Kind(type)) : list # <<>> /\ h' = [h EXCEPT ![t] = list]
  /\ want' = [want EXCEPT ![t] = type]
  /\ UNCHANGED <<file, scores, ap, crashes, mixed, tainted>>

(* add_usr(): one append, which misplaced text before it swallows. *)
AddUsr(kind, acnt) ==
  /\ Len(file[kind]) < MaxRecords
  /\ file' = [file EXCEPT ![kind] = IF kind \in mixed THEN @ ELSE Append(@, acnt)]

(* Mutant: the account always goes to std.txt. *)
SignInStd(t, name, pwd) ==
  LET acnt == [usrname |-> name, pwd |-> pwd, type |-> want[t]]
  IN  /\ Goto(t, "sign_in", IF want[t] = STUDENT THEN "newstu" ELSE "menu")
      /\ ~Has(h[t], name)
      /\ AddUsr(STUDENT, acnt)
      /\ ap' = [ap EXCEPT ![t] = acnt]
      /\ h' = [h EXCEPT ![t] = <<>>]
      /\ want' = [want EXCEPT ![t] = UNSET]
      /\ UNCHANGED <<scores, crashes, mixed, tainted>>

SignIn(t, name, pwd) ==
  LET acnt == [usrname |-> name, pwd |-> pwd, type |-> want[t]]
  IN  /\ Goto(t, "sign_in", IF want[t] = STUDENT THEN "newstu" ELSE "menu")
      /\ ~Has(h[t], name)
      /\ AddUsr(Kind(want[t]), acnt)
      /\ ap' = [ap EXCEPT ![t] = acnt]
      /\ h' = [h EXCEPT ![t] = <<>>]
      /\ want' = [want EXCEPT ![t] = UNSET]
      /\ UNCHANGED <<scores, crashes, mixed, tainted>>

(* newstu_to_score() *)
NewStudent(t) ==
  /\ Goto(t, "newstu", "menu")
  /\ Len(scores) < MaxRecords
  /\ scores' = IF SCORES \in mixed
               THEN scores
               ELSE Append(scores, [usrname |-> ap[t].usrname, marks |-> NoMarks])
  /\ UNCHANGED <<file, ap, h, want, crashes, mixed, tainted>>

(* add_admin(), from the administrator's menu. *)
AddAdminLoad(t) ==
  /\ Kind(ap[t].type) = ADMIN
  /\ Goto(t, "menu", "add_admin")
  /\ \E list \in Loads(ADMIN) : list # <<>> /\ h' = [h EXCEPT ![t] = list]
  /\ UNCHANGED <<file, scores, ap, want, crashes, mixed, tainted>>

(* Mutant: the name is not looked up. *)
AddAdminAny(t, name, pwd) ==
  /\ Goto(t, "add_admin", "menu")
  /\ AddUsr(ADMIN, [usrname |-> name, pwd |-> pwd, type |-> ADMIN])
  /\ h' = [h EXCEPT ![t] = <<>>]
  /\ UNCHANGED <<scores, ap, want, crashes, mixed, tainted>>

AddAdmin(t, name, pwd) ==
  /\ Goto(t, "add_admin", "menu")
  /\ ~Has(h[t], name)
  /\ AddUsr(ADMIN, [usrname |-> name, pwd |-> pwd, type |-> ADMIN])
  /\ h' = [h EXCEPT ![t] = <<>>]
  /\ UNCHANGED <<scores, ap, want, crashes, mixed, tainted>>

-----------------------------------------------------------------------------
(* revise_pwd(), from every menu.                                          *)
ReviseLoad(t) ==
  /\ Goto(t, "menu", "revise")
  /\ \E list \in Loads(Kind(ap[t].type)) :
       Has(list, ap[t].usrname) /\ h' = [h EXCEPT ![t] = list]
  /\ UNCHANGED <<file, scores, ap, want, crashes, mixed, tainted>>

(* Mutant: the copy's own account keeps the old password. *)
ReviseOpenStale(t, pwd) ==
  /\ Goto(t, "revise", "revise_save")
  /\ \E i \in DOMAIN h[t] :
       /\ Finds(h[t], i, ap[t].usrname)
       /\ h' = [h EXCEPT ![t][i].pwd = pwd]
  /\ file' = [file EXCEPT ![Kind(ap[t].type)] = <<>>]
  /\ mixed' = mixed \ {Kind(ap[t].type)}
  /\ UNCHANGED <<scores, ap, want, crashes, tainted>>

(* The current password was right: the list gets the new one, and          *)
(* save_list_to_file() opens the file for writing.                         *)
ReviseOpen(t, pwd) ==
  /\ Goto(t, "revise", "revise_save")
  /\ \E i \in DOMAIN h[t] :
       /\ Finds(h[t], i, ap[t].usrname)
       /\ h' = [h EXCEPT ![t][i].pwd = pwd]
  /\ ap' = [ap EXCEPT ![t].pwd = pwd]
  /\ file' = [file EXCEPT ![Kind(ap[t].type)] = <<>>]
  /\ mixed' = mixed \ {Kind(ap[t].type)}
  /\ UNCHANGED <<scores, want, crashes, tainted>>

ReviseClose(t) ==
  /\ Goto(t, "revise_save", "menu")
  /\ file' = [file EXCEPT ![Kind(ap[t].type)] = WriteOver(@, h[t])]
  /\ Mixes(Kind(ap[t].type), file[Kind(ap[t].type)], h[t])
  /\ h' = [h EXCEPT ![t] = <<>>]
  /\ UNCHANGED <<scores, ap, want, crashes>>

(* Mutant: the list is not freed on this path. *)
ReviseRefusedKeeps(t) ==
  /\ Goto(t, "revise", "menu")
  /\ UNCHANGED <<file, scores, ap, h, want, crashes, mixed, tainted>>

(* Wrong password: getchar() meets the newline that scanf() left behind,   *)
(* so "try again? y/n" is always answered with no.                         *)
ReviseRefused(t) ==
  /\ Goto(t, "revise", "menu")
  /\ h' = [h EXCEPT ![t] = <<>>]
  /\ UNCHANGED <<file, scores, ap, want, crashes, mixed, tainted>>

-----------------------------------------------------------------------------
(* tch_a_score() and tch_input_scores(), from the teacher's menu.          *)
ScoresLoad(t, op) ==
  /\ Kind(ap[t].type) = TEACH_CN
  /\ Goto(t, "menu", op)
  /\ \E list \in LoadsScores : list # <<>> /\ h' = [h EXCEPT ![t] = list]
  /\ UNCHANGED <<file, scores, ap, want, crashes, mixed, tainted>>

(* A mark in the teacher's course; scores[3] of an account of type 14 is   *)
(* padding in front of the next pointer (on a 64-bit machine).             *)
WithMark(r, type, mark) ==
  [r EXCEPT !.marks = [c \in DOMAIN @ |-> IF c = Course(type) THEN mark ELSE @[c]]]

(* One student's mark in the teacher's course is typed in, and             *)
(* save_sc_list_to_file() opens the file for writing.                      *)
ReviseScoreOpen(t, i, mark) ==
  /\ Goto(t, "one_score", "scores_save")
  /\ Finds(h[t], i, h[t][i].usrname)
  /\ h' = [h EXCEPT ![t][i] = WithMark(@, ap[t].type, mark)]
  /\ scores' = <<>>
  /\ mixed' = mixed \ {SCORES}
  /\ UNCHANGED <<file, ap, want, crashes, tainted>>

(* The name is unknown, or the teacher looks without revising. *)
ReviseScoreNot(t) ==
  /\ Goto(t, "one_score", "menu")
  /\ h' = [h EXCEPT ![t] = <<>>]
  /\ UNCHANGED <<file, scores, ap, want, crashes, mixed, tainted>>

(* input_scores(): a mark for everybody. *)
InputScoresOpen(t, marks) ==
  /\ Goto(t, "all_scores", "scores_save")
  /\ h' = [h EXCEPT ![t] = [i \in DOMAIN h[t] |-> WithMark(h[t][i], ap[t].type, marks[i])]]
  /\ scores' = <<>>
  /\ mixed' = mixed \ {SCORES}
  /\ UNCHANGED <<file, ap, want, crashes, tainted>>

(* Mutant: the loop stops at the last node instead of after it. *)
ScoresCloseShort(t) ==
  /\ Goto(t, "scores_save", "menu")
  /\ scores' = WriteOver(scores, SubSeq(h[t], 1, Len(h[t]) - 1))
  /\ Mixes(SCORES, scores, SubSeq(h[t], 1, Len(h[t]) - 1))
  /\ h' = [h EXCEPT ![t] = <<>>]
  /\ UNCHANGED <<file, ap, want, crashes>>

ScoresClose(t) ==
  /\ Goto(t, "scores_save", "menu")
  /\ scores' = WriteOver(scores, h[t])
  /\ Mixes(SCORES, scores, h[t])
  /\ h' = [h EXCEPT ![t] = <<>>]
  /\ UNCHANGED <<file, ap, want, crashes>>

-----------------------------------------------------------------------------
(* A copy is killed, and started again: what it has not written is gone.   *)
Crash(t) ==
  /\ crashes < MaxCrashes
  /\ pc[t] # "start"
  /\ crashes' = crashes + 1
  /\ pc' = [pc EXCEPT ![t] = "start"]
  /\ ap' = [ap EXCEPT ![t] = NoAcnt]
  /\ h' = [h EXCEPT ![t] = <<>>]
  /\ want' = [want EXCEPT ![t] = UNSET]
  /\ UNCHANGED <<file, scores, mixed, tainted>>

Next ==
  \E t \in Terminal :
    \/ \E kind \in {STUDENT, TEACH_CN, ADMIN} : LoginLoad(t, kind)
    \/ \E i \in DOMAIN h[t] : LoginDone(t, i)
    \/ Logout(t)
    \/ \E type \in {STUDENT} \cup TeacherType : SignInLoad(t, type)
    \/ \E name \in Name, pwd \in Pwd : SignIn(t, name, pwd) \/ AddAdmin(t, name, pwd)
    \/ NewStudent(t)
    \/ AddAdminLoad(t)
    \/ ReviseLoad(t)
    \/ \E pwd \in Pwd : ReviseOpen(t, pwd)
    \/ ReviseClose(t)
    \/ ReviseRefused(t)
    \/ \E op \in {"one_score", "all_scores"} : ScoresLoad(t, op)
    \/ \E i \in DOMAIN h[t], mark \in Mark : ReviseScoreOpen(t, i, mark)
    \/ ReviseScoreNot(t)
    \/ \E marks \in [DOMAIN h[t] -> Mark] : InputScoresOpen(t, marks)
    \/ ScoresClose(t)
    \/ Crash(t)

Spec == Init /\ [][Next]_vars

-----------------------------------------------------------------------------
Account == [usrname : Name, pwd : Pwd, type : {STUDENT, ADMIN} \cup TeacherType]
Record == [usrname : Name, marks : [0..(COURSENUMBER - 1) -> Mark]]

(* As long as no file has held misplaced text, every record is one that a  *)
(* user has made.                                                          *)
KnownAccount == IF tainted = {} THEN Account ELSE AnyAccount
KnownRecord == IF tainted = {} THEN Record ELSE AnyRecord

(* Where a copy holds a list of accounts, or one of marks. *)
WithAccounts == {"login", "sign_in", "add_admin", "revise", "revise_save"}
WithScores == {"one_score", "all_scores", "scores_save"}

TypeOK ==
  /\ file \in [1..3 -> Seq(KnownAccount)]
  /\ scores \in Seq(KnownRecord)
  /\ ap \in [Terminal -> KnownAccount \cup {NoAcnt}]
  /\ pc \in [Terminal -> {"start", "newstu", "menu"} \cup WithAccounts \cup WithScores]
  /\ h \in [Terminal -> Seq(KnownAccount) \cup Seq(KnownRecord)]
  /\ \A t \in Terminal :
       /\ pc[t] \in WithAccounts => h[t] \in Seq(KnownAccount)
       /\ pc[t] \in WithScores => h[t] \in Seq(KnownRecord)
       /\ pc[t] \notin WithAccounts \cup WithScores => h[t] = <<>>
  /\ want \in [Terminal -> {UNSET, STUDENT} \cup TeacherType]
  /\ crashes \in Nat
  /\ mixed \subseteq tainted
  /\ tainted \subseteq 0..3

(* An account is only ever in the file its type stands for, whoever wrote  *)
(* it, and so is every list a copy will write back to that file - unless   *)
(* the text one copy saved there has ended inside a record of a longer     *)
(* text another copy had saved meanwhile; load_list() takes the rest for   *)
(* accounts of any type, and the next save makes them so.  Marks are only  *)
(* ever loaded by teachers.                                                *)
AllOf(list, k) == \A i \in DOMAIN list : Kind(list[i].type) = k
RecordsInTheirFile ==
  /\ \A k \in 1..3 \ tainted : AllOf(file[k], k)
  /\ \A t \in Terminal :
       /\ pc[t] \in {"revise", "revise_save"} =>
            Kind(ap[t].type) \in tainted \/ AllOf(h[t], Kind(ap[t].type))
       /\ pc[t] \in WithScores => Kind(ap[t].type) = TEACH_CN

(* Who is in a menu, or behind one, has an account of some kind, and who   *)
(* is signing in has chosen a type.                                        *)
InSession ==
  \A t \in Terminal :
    /\ pc[t] \notin {"start", "login", "sign_in"} =>
         ap[t] \in KnownAccount /\ Kind(ap[t].type) # UNSET
    /\ pc[t] = "sign_in" => want[t] # UNSET

(* Misplaced text follows the records of the copy that wrote last, and a   *)
(* copy saves what it has found its own account in.                        *)
MixedBehindRecords ==
  /\ \A k \in mixed \ {SCORES} : file[k] # <<>>
  /\ \A t \in Terminal : pc[t] = "revise_save" => h[t] # <<>>

IInv == TypeOK /\ RecordsInTheirFile /\ InSession /\ MixedBehindRecords

(* The copy that is about to write the file k, if any: it has read names   *)
(* that it takes for those of the file.                                    *)
Writes(t, k) ==
  \/ pc[t] = "sign_in" /\ Kind(want[t]) = k
  \/ pc[t] = "add_admin" /\ k = ADMIN
  \/ pc[t] \in {"revise", "revise_save"} /\ Kind(ap[t].type) = k

(* A file of accounts that was left empty - by a copy killed while it was  *)
(* saving a password - stays empty: nobody can log in, and nobody can sign *)
(* in, because sign_in() and add_admin() refuse an empty list.             *)
Dead(k) == file[k] = <<>> /\ \A t \in Terminal : ~Writes(t, k)
EmptyForever == [][\A k \in 1..3 : Dead(k) => Dead(k)']_vars

(* Running alone, the program registers no name that is taken ("usrname %s *)
(* has been occupied, input another one", user.c:319), whenever it is      *)
(* killed.                                                                 *)
Unique(list) == \A i, j \in DOMAIN list : list[i].usrname = list[j].usrname => i = j
NamesUnique == \A k \in 1..3 : Unique(file[k])

(* Who is logged in has an account with the password last set, except      *)
(* while it is being saved.                                                *)
Holds(list, acnt) == \E i \in DOMAIN list : list[i] = acnt
SessionRecorded ==
  \A t \in Terminal :
    pc[t] \notin {"start", "login", "sign_in", "revise_save"} =>
      Holds(file[Kind(ap[t].type)], ap[t])

(* What makes both so: what a copy that runs alone has loaded is what the  *)
(* file still holds, and what it is saving is the file with one password   *)
(* changed, its own.  So it always writes to an empty file, and no text is *)
(* ever misplaced.                                                         *)
Current ==
  \A t \in Terminal :
    /\ pc[t] = "login" => \E k \in 1..3 : h[t] = file[k]
    /\ pc[t] = "sign_in" => h[t] = file[Kind(want[t])]
    /\ pc[t] = "add_admin" => h[t] = file[ADMIN]
    /\ pc[t] = "revise" => h[t] = file[Kind(ap[t].type)]
    /\ pc[t] = "revise_save" =>
         /\ file[Kind(ap[t].type)] = <<>>
         /\ Unique(h[t]) /\ Holds(h[t], ap[t])
    /\ pc[t] = "scores_save" => scores = <<>>

AloneInv == IInv /\ tainted = {} /\ NamesUnique /\ SessionRecorded /\ Current

(* "everytime a new student registered, a initial record will be added to  *)
(* score" (score.h:18): a student who is not just signing in has a record, *)
(* unless scores.txt is being saved.                                       *)
StudentsHaveMarks ==
  (\A t \in Terminal : pc[t] \notin {"newstu", "scores_save"}) =>
    \A i \in DOMAIN file[STUDENT] : Has(scores, file[STUDENT][i].usrname)

-----------------------------------------------------------------------------
(* One running copy, seen from outside: what it is saving counts as saved, *)
(* and the new student's mark record as written.                           *)
self == CHOOSE t \in Terminal : TRUE

AccountList(k) ==
  IF pc[self] = "revise_save" /\ Kind(ap[self].type) = k THEN h[self] ELSE file[k]

MarkList ==
  CASE pc[self] = "scores_save" -> h[self]
    [] pc[self] = "newstu" -> Append(scores, [usrname |-> ap[self].usrname, marks |-> NoMarks])
    [] OTHER -> scores

Index(list, name) == CHOOSE i \in DOMAIN list : Finds(list, i, name)
NamesOf(list) == {list[i].usrname : i \in DOMAIN list}

AccountsIn(list) ==
  [name \in NamesOf(list) |->
     LET a == list[Index(list, name)] IN [pwd |-> a.pwd, type |-> a.type]]
MarksIn(list) == [name \in NamesOf(list) |-> list[Index(list, name)].marks]

accounts == [k \in 1..3 |-> AccountsIn(AccountList(k))]
marksOf == MarksIn(MarkList)

(* What makes it so, besides AloneInv: the marks a copy has loaded are     *)
(* those of the file, and the file has no marks of a name a student can    *)
(* still choose - once std.txt is lost, nobody can choose any.             *)
MarksCurrent ==
  /\ pc[self] \in {"one_score", "all_scores"} => h[self] = scores
  /\ pc[self] = "sign_in" => h[self] # <<>>
  /\ pc[self] = "newstu" => ap[self].type = STUDENT /\ ~Has(scores, ap[self].usrname)
  /\ AccountList(STUDENT) # <<>> => NamesOf(MarkList) \subseteq NamesOf(AccountList(STUDENT))

RefinesInv == AloneInv /\ MarksCurrent

(* One copy of the program implements InfoRecords, and a crash costs it no *)
(* more than InfoRecords allows.                                           *)
Records == INSTANCE InfoRecords WITH accounts <- accounts, marks <- marksOf
ImplementsRecords == Records!RSpec

(* Running alone, a teacher changes marks in the course he or she signed   *)
(* up for, and nobody else changes any.                                    *)
Teaches(type) ==
  CASE type = TEACH_CN -> {0} [] type = TEACH_MH -> {1} [] type = TEACH_EN -> {2} [] OTHER -> {}
OwnCourseOnly ==
  [][\A name \in DOMAIN marksOf \cap DOMAIN marksOf', c \in 0..(COURSENUMBER - 1) :
       marksOf[name][c] # marksOf'[name][c] => c \in Teaches(ap[self].type)]_vars
=============================================================================
