--------------------------- MODULE InfoRecordsProofs ---------------------------
(***************************************************************************)
(* A copy of the information system that runs alone implements InfoRecords *)
(* whatever is typed and whenever it is killed, and changes no mark in     *)
(* another course than that of the teacher who is logged in.               *)
(***************************************************************************)
EXTENDS InfoMngmtProofs, WellFoundedInduction

-----------------------------------------------------------------------------
(* search_name() on lists: which record of a name counts. *)
LEMMA Smallest == ASSUME NEW T, T \subseteq Nat, T # {} PROVE \E x \in T : \A y \in T : x <= y
<1> DEFINE R == {ss \in Nat \X Nat : ss[1] < ss[2]}
<1>1. IsWellFoundedOn(R, Nat)
  BY NatLessThanWellFounded DEF OpToRel
<1>2. PICK x \in T : \A y \in T : ~ (<<y, x>> \in R)
  <2> HIDE DEF R
  <2> QED
    BY <1>1, WFMin
<1>3. \A y \in T : ~(y < x)
  BY <1>2
<1> QED
  BY <1>3

LEMMA OneFirst ==
  ASSUME NEW S, NEW list \in Seq(S), NEW name, NEW i, NEW j,
         Finds(list, i, name), Finds(list, j, name)
  PROVE  i = j
<1>1. i \in Nat /\ j \in Nat /\ i >= 1 /\ j >= 1
  BY DEF Finds
<1>2. ~(i < j) /\ ~(j < i)
  BY <1>1 DEF Finds
<1> QED
  BY <1>1, <1>2

LEMMA IndexIs ==
  ASSUME NEW S, NEW list \in Seq(S), NEW name, NEW i, Finds(list, i, name)
  PROVE  Index(list, name) = i /\ name \in NamesOf(list)
<1>1. i \in DOMAIN list /\ list[i].usrname = name
  BY DEF Finds
<1>2. Index(list, name) \in DOMAIN list /\ Finds(list, Index(list, name), name)
  BY <1>1 DEF Index
<1> QED
  BY <1>1, <1>2, OneFirst DEF NamesOf

LEMMA IndexFinds ==
  ASSUME NEW S, NEW list \in Seq(S), NEW name \in NamesOf(list)
  PROVE  Finds(list, Index(list, name), name)
<1> DEFINE T == {i \in DOMAIN list : list[i].usrname = name}
<1>1. T # {} /\ T \subseteq Nat
  BY DEF NamesOf
<1>2. PICK i \in T : \A j \in T : i <= j
  <2> HIDE DEF T
  <2> QED
    BY <1>1, Smallest
<1>3. Finds(list, i, name)
  BY <1>2 DEF Finds
<1> QED
  BY <1>3, IndexIs

(* A list with the same names at the same places. *)
SameNames(list, new) ==
  DOMAIN new = DOMAIN list /\ \A i \in DOMAIN list : new[i].usrname = list[i].usrname

LEMMA SameIndex ==
  ASSUME NEW S, NEW list \in Seq(S), NEW new \in Seq(S), SameNames(list, new)
  PROVE  /\ NamesOf(new) = NamesOf(list)
         /\ \A name \in NamesOf(list) : Index(new, name) = Index(list, name)
<1>1. NamesOf(new) = NamesOf(list)
  BY DEF SameNames, NamesOf
<1>2. ASSUME NEW name \in NamesOf(list) PROVE Index(new, name) = Index(list, name)
  <2>1. Finds(list, Index(list, name), name)
    BY IndexFinds
  <2>2. PICK i : i = Index(list, name)
    OBVIOUS
  <2>3. Finds(new, i, name)
    <3>1. i \in DOMAIN list /\ \A j \in 1..(i - 1) : j \in DOMAIN list
      BY <2>1, <2>2 DEF Finds
    <3> QED
      BY <2>1, <2>2, <3>1 DEF Finds, SameNames
  <2> QED
    BY <2>2, <2>3, IndexIs
<1> QED
  BY <1>1, <1>2

(* What is appended under a new name is found, and hides nothing. *)
Appended(list, a, new) ==
  /\ a.usrname \notin NamesOf(list)
  /\ NamesOf(new) = NamesOf(list) \cup {a.usrname}
  /\ \A name \in NamesOf(list) : new[Index(new, name)] = list[Index(list, name)]
  /\ new[Index(new, a.usrname)] = a

LEMMA AppendIndex ==
  ASSUME NEW S, NEW list \in Seq(S), NEW a \in S, ~Has(list, a.usrname)
  PROVE  Appended(list, a, Append(list, a))
<1>0. PICK new : new = Append(list, a)
  OBVIOUS
<1>1. /\ new \in Seq(S) /\ Len(list) \in Nat
      /\ DOMAIN list = 1..Len(list) /\ DOMAIN new = 1..(Len(list) + 1)
      /\ \A i \in 1..Len(list) : new[i] = list[i]
      /\ new[Len(list) + 1] = a
  BY <1>0
<1>2. a.usrname \notin NamesOf(list)
  BY DEF Has, NamesOf
<1>3. NamesOf(new) = NamesOf(list) \cup {a.usrname}
  <2>1. \A i \in DOMAIN new : i \in DOMAIN list \/ i = Len(list) + 1
    BY <1>1
  <2>2. Len(list) + 1 \in DOMAIN new /\ \A i \in DOMAIN list : i \in DOMAIN new
    BY <1>1
  <2> QED
    BY <1>1, <2>1, <2>2 DEF NamesOf
<1>4. ASSUME NEW name \in NamesOf(list) PROVE new[Index(new, name)] = list[Index(list, name)]
  <2>1. PICK i : i = Index(list, name) /\ Finds(list, i, name)
    BY IndexFinds
  <2>2. Finds(new, i, name) /\ new[i] = list[i]
    BY <1>1, <2>1 DEF Finds
  <2>3. Index(new, name) = i
    BY <1>1, <2>2, IndexIs
  <2> QED
    BY <2>1, <2>2, <2>3
<1>5. new[Index(new, a.usrname)] = a
  <2>1. \A j \in 1..Len(list) : new[j].usrname # a.usrname
    BY <1>1 DEF Has
  <2>2. Finds(new, Len(list) + 1, a.usrname)
    BY <1>1, <2>1 DEF Finds
  <2>3. Index(new, a.usrname) = Len(list) + 1
    BY <1>1, <2>2, IndexIs
  <2> QED
    BY <1>1, <2>3
<1> QED
  BY <1>0, <1>2, <1>3, <1>4, <1>5 DEF Appended

-----------------------------------------------------------------------------
(* The same, seen as accounts and marks. *)
LEMMA AccountsDomain ==
  ASSUME NEW list
  PROVE  /\ DOMAIN AccountsIn(list) = NamesOf(list)
         /\ \A name \in NamesOf(list) :
              AccountsIn(list)[name] = [pwd |-> list[Index(list, name)].pwd,
                                        type |-> list[Index(list, name)].type]
  BY DEF AccountsIn

LEMMA MarksDomain ==
  ASSUME NEW list
  PROVE  /\ DOMAIN MarksIn(list) = NamesOf(list)
         /\ \A name \in NamesOf(list) : MarksIn(list)[name] = list[Index(list, name)].marks
  BY DEF MarksIn

LEMMA AccountsOfAppend ==
  ASSUME NEW list \in Seq(Account), NEW a \in Account, ~Has(list, a.usrname)
  PROVE  /\ a.usrname \notin DOMAIN AccountsIn(list)
         /\ AccountsIn(Append(list, a)) =
              Records!Extend(AccountsIn(list), a.usrname, [pwd |-> a.pwd, type |-> a.type])
<1>1. PICK new : new = Append(list, a)
  OBVIOUS
<1>2. PICK b : b = [pwd |-> a.pwd, type |-> a.type]
  OBVIOUS
<1>3. /\ a.usrname \notin NamesOf(list)
      /\ NamesOf(new) = NamesOf(list) \cup {a.usrname}
      /\ \A name \in NamesOf(list) : new[Index(new, name)] = list[Index(list, name)]
      /\ new[Index(new, a.usrname)] = a
  <2>1. Appended(list, a, new)
    BY <1>1, AppendIndex
  <2> QED
    BY <2>1 DEF Appended
<1>4. ASSUME NEW name \in NamesOf(list) PROVE AccountsIn(new)[name] = AccountsIn(list)[name]
  <2>1. name \in NamesOf(new) /\ new[Index(new, name)] = list[Index(list, name)]
    BY <1>3
  <2> QED
    BY <2>1, AccountsDomain
<1>5. AccountsIn(new)[a.usrname] = b
  BY <1>2, <1>3, AccountsDomain
<1>6. AccountsIn(new) = [name \in NamesOf(new) |-> AccountsIn(new)[name]]
  BY DEF AccountsIn
<1>7. AccountsIn(new) = Records!Extend(AccountsIn(list), a.usrname, b)
  <2>1. PICK f, g : f = AccountsIn(list) /\ g = AccountsIn(new)
    OBVIOUS
  <2>2. DOMAIN f = NamesOf(list)
    BY <2>1, AccountsDomain
  <2>3. g = [name \in DOMAIN f \cup {a.usrname} |-> g[name]]
    BY <1>3, <1>6, <2>1, <2>2
  <2>4. \A name \in DOMAIN f \cup {a.usrname} : g[name] = IF name = a.usrname THEN b ELSE f[name]
    BY <1>4, <1>5, <2>1, <2>2
  <2> QED
    BY <2>1, <2>3, <2>4 DEF Records!Extend
<1> QED
  BY <1>1, <1>2, <1>3, <1>7, AccountsDomain

MarksAdded(f, name, marks, g) ==
  /\ g = Records!Extend(f, name, marks)
  /\ name \in DOMAIN g /\ g[name] = marks
  /\ \A n \in DOMAIN f : g[n] = f[n]
  /\ f = Records!Restrict(g, DOMAIN g \ {name})

LEMMA MarksOfAppend ==
  ASSUME NEW list \in Seq(Record), NEW r \in Record, ~Has(list, r.usrname)
  PROVE  MarksAdded(MarksIn(list), r.usrname, r.marks, MarksIn(Append(list, r)))
<1>1. PICK new : new = Append(list, r)
  OBVIOUS
<1>2. PICK f, g : f = MarksIn(list) /\ g = MarksIn(new)
  OBVIOUS
<1>3. /\ r.usrname \notin NamesOf(list)
      /\ NamesOf(new) = NamesOf(list) \cup {r.usrname}
      /\ \A name \in NamesOf(list) : new[Index(new, name)] = list[Index(list, name)]
      /\ new[Index(new, r.usrname)] = r
  <2>1. Appended(list, r, new)
    BY <1>1, AppendIndex
  <2> QED
    BY <2>1 DEF Appended
<1>4. DOMAIN f = NamesOf(list) /\ DOMAIN g = NamesOf(list) \cup {r.usrname}
  BY <1>2, <1>3, MarksDomain
<1>5. \A name \in NamesOf(list) : g[name] = f[name]
  BY <1>2, <1>3, MarksDomain
<1>6. g[r.usrname] = r.marks
  BY <1>2, <1>3, MarksDomain
<1>7. f = [name \in DOMAIN f |-> f[name]] /\ g = [name \in DOMAIN g |-> g[name]]
  BY <1>2 DEF MarksIn
<1>8. g = Records!Extend(f, r.usrname, r.marks)
  BY <1>3, <1>4, <1>5, <1>6, <1>7 DEF Records!Extend
<1>9. f = Records!Restrict(g, DOMAIN g \ {r.usrname})
  <2>1. DOMAIN g \ {r.usrname} = DOMAIN f
    BY <1>3, <1>4
  <2>2. f = [name \in DOMAIN f |-> g[name]]
    BY <1>4, <1>5, <1>7
  <2> QED
    BY <2>1, <2>2 DEF Records!Restrict
<1> QED
  BY <1>1, <1>2, <1>3, <1>4, <1>5, <1>6, <1>8, <1>9 DEF MarksAdded

PwdSet(list, i, pwd, new) == new = [list EXCEPT ![i].pwd = pwd]

LEMMA AccountsOfPwd ==
  ASSUME NEW list \in Seq(Account), NEW name, NEW i, Finds(list, i, name), NEW pwd \in Pwd,
         NEW new, PwdSet(list, i, pwd, new)
  PROVE  /\ name \in DOMAIN AccountsIn(list)
         /\ AccountsIn(new) = [AccountsIn(list) EXCEPT ![name].pwd = pwd]
<1>1. new = [list EXCEPT ![i].pwd = pwd]
  BY DEF PwdSet
<1>2. i \in DOMAIN list /\ list[i] \in Account /\ list[i].usrname = name
  BY DEF Finds
<1>3. PICK b : b = [list[i] EXCEPT !.pwd = pwd]
  OBVIOUS
<1>4. b \in Account /\ b.usrname = name /\ b.type = list[i].type /\ b.pwd = pwd
  BY <1>2, <1>3, NewPwdOf DEF Account
<1>5. new \in Seq(Account) /\ DOMAIN new = DOMAIN list /\ new[i] = b
      /\ \A j \in DOMAIN list : j # i => new[j] = list[j]
  BY <1>1, <1>2, <1>3, <1>4
<1>6. SameNames(list, new)
  BY <1>2, <1>4, <1>5 DEF SameNames
<1>7. /\ NamesOf(new) = NamesOf(list)
      /\ \A n \in NamesOf(list) : Index(new, n) = Index(list, n)
  BY <1>5, <1>6, SameIndex
<1>8. Index(list, name) = i /\ name \in NamesOf(list)
  BY IndexIs
<1>9. PICK f, g : f = AccountsIn(list) /\ g = AccountsIn(new)
  OBVIOUS
<1>10. DOMAIN f = NamesOf(list) /\ DOMAIN g = NamesOf(list)
  BY <1>7, <1>9, AccountsDomain
<1>11. f = [n \in DOMAIN f |-> f[n]] /\ g = [n \in DOMAIN g |-> g[n]]
  BY <1>9 DEF AccountsIn
<1>12. ASSUME NEW n \in NamesOf(list), n # name PROVE g[n] = f[n]
  <2>1. Finds(list, Index(list, n), n)
    BY IndexFinds
  <2>2. Index(list, n) \in DOMAIN list /\ Index(list, n) # i
    BY <1>2, <1>12, <2>1 DEF Finds
  <2>3. new[Index(new, n)] = list[Index(list, n)]
    BY <1>5, <1>7, <2>2
  <2> QED
    BY <1>7, <1>9, <2>3, AccountsDomain
<1>13. f[name] = [pwd |-> list[i].pwd, type |-> list[i].type]
  BY <1>8, <1>9, AccountsDomain
<1>14. g[name] = [pwd |-> pwd, type |-> list[i].type]
  BY <1>4, <1>5, <1>7, <1>8, <1>9, AccountsDomain
<1>15. g = [f EXCEPT ![name].pwd = pwd]
  <2>1. [f[name] EXCEPT !.pwd = pwd] = g[name]
    BY <1>13, <1>14
  <2> QED
    BY <1>8, <1>10, <1>11, <1>12, <2>1
<1> QED
  BY <1>1, <1>8, <1>9, <1>10, <1>15

(* Marks typed in one course. *)
OneCourse(list, course, new) ==
  /\ SameNames(list, new)
  /\ \A i \in DOMAIN list : \A c \in 0..(COURSENUMBER - 1) :
       c # course => new[i].marks[c] = list[i].marks[c]

OneCourseSeen(f, course, g) ==
  /\ DOMAIN g = DOMAIN f
  /\ \A name \in DOMAIN f :
       /\ DOMAIN f[name] = 0..(COURSENUMBER - 1)
       /\ \A c \in DOMAIN f[name] : c # course => g[name][c] = f[name][c]

LEMMA MarksOfCourse ==
  ASSUME NEW list \in Seq(Record), NEW new \in Seq(Record), NEW course, OneCourse(list, course, new)
  PROVE  OneCourseSeen(MarksIn(list), course, MarksIn(new))
<1>1. /\ NamesOf(new) = NamesOf(list)
      /\ \A name \in NamesOf(list) : Index(new, name) = Index(list, name)
  BY SameIndex DEF OneCourse
<1>2. ASSUME NEW name \in NamesOf(list)
      PROVE  /\ DOMAIN MarksIn(list)[name] = 0..(COURSENUMBER - 1)
             /\ \A c \in 0..(COURSENUMBER - 1) :
                  c # course => MarksIn(new)[name][c] = MarksIn(list)[name][c]
  <2>1. PICK i : i = Index(list, name) /\ i \in DOMAIN list
    BY IndexFinds DEF Finds
  <2>2. list[i] \in Record
    BY <2>1
  <2>3. MarksIn(list)[name] = list[i].marks /\ MarksIn(new)[name] = new[i].marks
    BY <1>1, <2>1, MarksDomain
  <2>4. DOMAIN list[i].marks = 0..(COURSENUMBER - 1)
    BY <2>2 DEF Record
  <2> QED
    BY <2>1, <2>3, <2>4 DEF OneCourse
<1> QED
  <2>1. PICK f, g : f = MarksIn(list) /\ g = MarksIn(new)
    OBVIOUS
  <2>2. DOMAIN f = NamesOf(list) /\ DOMAIN g = NamesOf(list)
    BY <1>1, <2>1, MarksDomain
  <2> QED
    BY <1>2, <2>1, <2>2 DEF OneCourseSeen

-----------------------------------------------------------------------------
(* What the one copy shows of the files, before and after a step. *)
LEMMA SelfIs ==
  ASSUME NEW t, Alone(t)
  PROVE  self = t /\ t \in Terminal
  BY DEF Alone, self

LEMMA Lists ==
  ASSUME NEW t, Alone(t), NEW k
  PROVE  /\ AccountList(k) = IF pc[t] = "revise_save" /\ Kind(ap[t].type) = k THEN h[t] ELSE file[k]
         /\ AccountList(k)' =
              IF pc'[t] = "revise_save" /\ Kind(ap'[t].type) = k THEN h'[t] ELSE file'[k]
<1>1. self = t
  BY SelfIs
<1> QED
  BY <1>1 DEF AccountList

LEMMA MarkLists ==
  ASSUME NEW t, Alone(t)
  PROVE  /\ pc[t] = "scores_save" => MarkList = h[t]
         /\ pc'[t] = "scores_save" => MarkList' = h'[t]
         /\ pc[t] = "newstu" =>
              MarkList = Append(scores, [usrname |-> ap[t].usrname, marks |-> NoMarks])
         /\ pc'[t] = "newstu" =>
              MarkList' = Append(scores', [usrname |-> ap'[t].usrname, marks |-> NoMarks])
         /\ pc[t] \notin {"scores_save", "newstu"} => MarkList = scores
         /\ pc'[t] \notin {"scores_save", "newstu"} => MarkList' = scores'
<1>1. self = t
  BY SelfIs
<1> QED
  BY <1>1 DEF MarkList

LEMMA Seen ==
  /\ \A k \in 1..3 : accounts[k] = AccountsIn(AccountList(k)) /\ accounts'[k] = AccountsIn(AccountList(k)')
  /\ accounts = [k \in 1..3 |-> accounts[k]] /\ accounts' = [k \in 1..3 |-> accounts'[k]]
  /\ marksOf = MarksIn(MarkList) /\ marksOf' = MarksIn(MarkList')
  BY DEF accounts, marksOf, AccountsIn, MarksIn

(* A step that no one sees: the lists shown are the same. *)
Quiet ==
  /\ \A k \in 1..3 : AccountList(k)' = AccountList(k)
  /\ MarkList' = MarkList
  /\ crashes' = crashes

LEMMA SameFiles ==
  ASSUME NEW t, Alone(t), file' = file, pc[t] # "revise_save", pc'[t] # "revise_save"
  PROVE  \A k \in 1..3 : AccountList(k)' = AccountList(k)
<1>1. ASSUME NEW k \in 1..3 PROVE AccountList(k)' = AccountList(k)
  BY Lists
<1> QED
  BY <1>1

LEMMA SameAccounts ==
  ASSUME \A k \in 1..3 : AccountList(k)' = AccountList(k)
  PROVE  accounts' = accounts
<1>1. PICK f, g : f = accounts /\ g = accounts'
  OBVIOUS
<1>2. f = [k \in 1..3 |-> f[k]] /\ g = [k \in 1..3 |-> g[k]]
  BY <1>1, Seen
<1>3. \A k \in 1..3 : g[k] = f[k]
  BY <1>1, Seen
<1> QED
  BY <1>1, <1>2, <1>3

LEMMA QuietStep ==
  ASSUME Quiet
  PROVE  UNCHANGED <<accounts, marksOf, crashes>>
  BY SameAccounts, Seen DEF Quiet

(* Marks are of students, while there are accounts of students. *)
MarksOfStudents ==
  AccountList(STUDENT) # <<>> => NamesOf(MarkList) \subseteq NamesOf(AccountList(STUDENT))

LEMMA StudentsFrom ==
  ASSUME NEW al, NEW ml, AccountList(STUDENT)' = al, MarkList' = ml,
         al # <<>> => NamesOf(ml) \subseteq NamesOf(al)
  PROVE  MarksOfStudents'
<1>1. NamesOf(AccountList(STUDENT))' = NamesOf(al)
  BY DEF NamesOf
<1>2. NamesOf(MarkList)' = NamesOf(ml)
  BY DEF NamesOf
<1> QED
  BY <1>1, <1>2 DEF MarksOfStudents

LEMMA SameStudents ==
  ASSUME MarksOfStudents, AccountList(STUDENT)' = AccountList(STUDENT), MarkList' = MarkList
  PROVE  MarksOfStudents'
<1>1. PICK al, ml : al = AccountList(STUDENT) /\ ml = MarkList
  OBVIOUS
<1>2. al # <<>> => NamesOf(ml) \subseteq NamesOf(al)
  BY <1>1 DEF MarksOfStudents
<1>3. al = AccountList(STUDENT)' /\ ml = MarkList'
  BY <1>1
<1> QED
  BY <1>2, <1>3, StudentsFrom

(* It keeps the order between marks and accounts. *)
LEMMA QuietMarks ==
  ASSUME RefinesInv, Quiet, NEW t, Alone(t),
         pc'[t] \in {"one_score", "all_scores"} => h'[t] = scores',
         pc'[t] = "sign_in" => h'[t] # <<>>,
         pc'[t] \notin {"scores_save", "newstu"}
  PROVE  MarksCurrent'
<1>1. self = t
  BY SelfIs
<1>2. AccountList(STUDENT)' = AccountList(STUDENT) /\ MarkList' = MarkList
  BY DEF Quiet, STUDENT
<1>3. MarksOfStudents'
  BY <1>2, SameStudents DEF RefinesInv, MarksCurrent, MarksOfStudents
<1> QED
  BY <1>1, <1>3 DEF MarksCurrent, MarksOfStudents

(* Loading a list, or giving one up. *)
LEMMA QuietMenus ==
  ASSUME RefinesInv, NEW t, Alone(t),
         \/ \E kind \in {STUDENT, TEACH_CN, ADMIN} : LoginLoad(t, kind)
         \/ \E i \in DOMAIN h[t] : LoginDone(t, i)
         \/ Logout(t)
         \/ \E type \in {STUDENT} \cup TeacherType : SignInLoad(t, type)
         \/ AddAdminLoad(t) \/ ReviseLoad(t) \/ ReviseRefused(t) \/ ReviseScoreNot(t)
         \/ \E op \in {"one_score", "all_scores"} : ScoresLoad(t, op)
  PROVE  Quiet /\ MarksCurrent'
<1> USE DEF Goto, LoginLoad, LoginDone, Logout, SignInLoad, AddAdminLoad, ReviseLoad, ReviseRefused,
            ReviseScoreNot, ScoresLoad
<1>1. /\ t \in Terminal /\ pc \in [Terminal -> Places]
      /\ want \in [Terminal -> {UNSET, STUDENT} \cup TeacherType]
      /\ h \in [Terminal -> Seq(Account) \cup Seq(Record)]
  BY AloneTypes DEF Alone, RefinesInv
<1>2. file' = file /\ scores' = scores /\ crashes' = crashes
  OBVIOUS
<1>3. /\ pc[t] \notin {"revise_save", "scores_save", "newstu"}
      /\ pc'[t] \notin {"revise_save", "scores_save", "newstu"}
  BY <1>1
<1>4. pc'[t] \in {"one_score", "all_scores"} => h'[t] = scores'
  BY <1>1, AloneKnown DEF RefinesInv
<1>5. pc'[t] = "sign_in" => h'[t] # <<>>
  BY <1>1
<1> HIDE DEF LoginLoad, LoginDone, Logout, SignInLoad, AddAdminLoad, ReviseLoad, ReviseRefused,
            ReviseScoreNot, ScoresLoad
<1>6. (\A k \in 1..3 : AccountList(k)' = AccountList(k)) /\ MarkList' = MarkList
  BY <1>2, <1>3, SameFiles, MarkLists
<1>7. Quiet
  BY <1>2, <1>6 DEF Quiet
<1> QED
  BY <1>3, <1>4, <1>5, <1>7, QuietMarks

(* The record that was as good as written is written. *)
LEMMA QuietNewStudent ==
  ASSUME RefinesInv, NEW t, Alone(t), NewStudent(t)
  PROVE  Quiet /\ MarksCurrent'
<1>1. t \in Terminal /\ pc \in [Terminal -> Places]
  BY AloneTypes DEF Alone, RefinesInv
<1>2. /\ pc[t] = "newstu" /\ pc'[t] = "menu" /\ file' = file /\ crashes' = crashes
      /\ scores' = Append(scores, [usrname |-> ap[t].usrname, marks |-> NoMarks])
  BY <1>1, AloneKnown DEF NewStudent, Goto, RefinesInv
<1>3. Quiet
  <2>1. (\A k \in 1..3 : AccountList(k)' = AccountList(k)) /\ MarkList' = MarkList
    BY <1>2, SameFiles, MarkLists
  <2> QED
    BY <1>2, <2>1 DEF Quiet
<1> QED
  BY <1>2, <1>3, QuietMarks

LEMMA QuietReviseClose ==
  ASSUME RefinesInv, NEW t, Alone(t), ReviseClose(t)
  PROVE  Quiet /\ MarksCurrent'
<1> DEFINE k == Kind(ap[t].type)
<1>1. /\ t \in Terminal /\ pc[t] = "revise_save" /\ ap[t] \in Account /\ h[t] \in Seq(Account)
      /\ file[k] = <<>>
  BY AloneTypes DEF Alone, ReviseClose, Goto, WithAccounts, Current, RefinesInv, AloneInv
<1>2. WriteOver(file[k], h[t]) = h[t] /\ k \in 1..3
  BY <1>1, WriteOverEmpty, AccountKind
<1>3. file' = [file EXCEPT ![k] = h[t]] /\ scores' = scores /\ crashes' = crashes
  BY <1>2 DEF ReviseClose
<1>4. pc'[t] = "menu"
  BY <1>1 DEF ReviseClose, Goto, IInv, TypeOK, RefinesInv, AloneInv
<1>5. ASSUME NEW j \in 1..3 PROVE AccountList(j)' = AccountList(j)
  <2>1. AccountList(j)' = file'[j]
    BY <1>4, Lists
  <2>2. AccountList(j) = IF k = j THEN h[t] ELSE file[j]
    BY <1>1, Lists
  <2>3. file'[j] = IF k = j THEN h[t] ELSE file[j]
    BY <1>1, <1>2, <1>3, Unchanged DEF RefinesInv, AloneInv
  <2> QED
    BY <2>1, <2>2, <2>3
<1>6. Quiet
  BY <1>1, <1>3, <1>4, <1>5, MarkLists DEF Quiet
<1> QED
  BY <1>4, <1>6, QuietMarks

LEMMA QuietScoresClose ==
  ASSUME RefinesInv, NEW t, Alone(t), ScoresClose(t)
  PROVE  Quiet /\ MarksCurrent'
<1>1. /\ t \in Terminal /\ pc[t] = "scores_save" /\ h[t] \in Seq(Record)
      /\ pc'[t] = "menu" /\ file' = file /\ crashes' = crashes
  BY AloneTypes DEF Alone, ScoresClose, Goto, WithScores, RefinesInv
<1>2. scores = <<>>
  BY <1>1 DEF RefinesInv, AloneInv, Current
<1>3. scores' = h[t]
  BY <1>1, <1>2, WriteOverEmpty DEF ScoresClose
<1>4. Quiet
  <2>1. (\A k \in 1..3 : AccountList(k)' = AccountList(k)) /\ MarkList' = MarkList
    BY <1>1, <1>3, SameFiles, MarkLists
  <2> QED
    BY <1>1, <2>1 DEF Quiet
<1> QED
  BY <1>1, <1>4, QuietMarks

-----------------------------------------------------------------------------
(* The steps that are seen. *)
LEMMA AccountsStep ==
  ASSUME NEW k \in 1..3, NEW f, AccountsIn(AccountList(k)') = f,
         \A j \in 1..3 : j # k => AccountList(j)' = AccountList(j)
  PROVE  accounts' = [accounts EXCEPT ![k] = f]
<1>1. PICK g, g2 : g = accounts /\ g2 = accounts'
  OBVIOUS
<1>2. g = [j \in 1..3 |-> g[j]] /\ g2 = [j \in 1..3 |-> g2[j]]
  BY <1>1, Seen
<1>3. g2[k] = f /\ \A j \in 1..3 : j # k => g2[j] = g[j]
  BY <1>1, Seen
<1>4. g2 = [g EXCEPT ![k] = f]
  BY <1>2, <1>3
<1> QED
  BY <1>1, <1>4

(* Nobody's marks change, though names may come and go. *)
MarksKept == \A name \in DOMAIN marksOf \cap DOMAIN marksOf' : marksOf'[name] = marksOf[name]

LEMMA RegisterEffect ==
  ASSUME NEW k \in 1..3, NEW a \in Account, Kind(a.type) = k, AccountList(k) \in Seq(Account),
         ~Has(AccountList(k), a.usrname),
         AccountList(k)' = Append(AccountList(k), a),
         \A j \in 1..3 : j # k => AccountList(j)' = AccountList(j),
         marksOf' = IF k = 1 THEN Records!Extend(marksOf, a.usrname, NoMarks) ELSE marksOf,
         crashes' = crashes
  PROVE  Records!RNext
<1>1. PICK al, f : al = AccountList(k) /\ f = AccountsIn(al)
  OBVIOUS
<1>2. PICK b : b = [pwd |-> a.pwd, type |-> a.type]
  OBVIOUS
<1>3. /\ a.usrname \notin DOMAIN f
      /\ AccountsIn(Append(al, a)) = Records!Extend(f, a.usrname, b)
  BY <1>1, <1>2, AccountsOfAppend
<1>4. accounts[k] = f
  BY <1>1, Seen
<1>5. AccountsIn(AccountList(k)') = Records!Extend(accounts[k], a.usrname, b)
  BY <1>1, <1>3, <1>4
<1>6. accounts' = [accounts EXCEPT ![k] = Records!Extend(accounts[k], a.usrname, b)]
  BY <1>5, AccountsStep
<1>7. b.type % 4 = k
  BY <1>2 DEF Kind
<1>8. Records!Register(k, a.usrname, b)
  BY <1>3, <1>4, <1>6, <1>7 DEF Records!Register
<1> QED
  BY <1>2, <1>8 DEF Records!RNext

(* sign_in(), from a list that is the file. *)
LEMMA SignInEffect ==
  ASSUME RefinesInv, NEW t, Alone(t), NEW name \in Name, NEW pwd \in Pwd, SignIn(t, name, pwd)
  PROVE  Records!RNext /\ MarksKept /\ MarksCurrent'
<1> USE DEF RefinesInv, AloneInv
<1> DEFINE k == Kind(want[t])
<1>1. PICK a : a = [usrname |-> name, pwd |-> pwd, type |-> want[t]]
  OBVIOUS
<1>2. /\ t \in Terminal /\ pc[t] = "sign_in" /\ a \in Account /\ a.usrname = name /\ Kind(a.type) = k
      /\ k \in 1..3 /\ file[k] \in Seq(Account) /\ scores \in Seq(Record)
  <2>1. t \in Terminal /\ pc[t] = "sign_in"
    BY DEF Alone, SignIn, Goto
  <2>2. a \in Account /\ a.usrname = name /\ Kind(a.type) = k
    BY <1>1, <2>1 DEF IInv, TypeOK, InSession, Account
  <2> QED
    BY <2>1, <2>2, AccountKind, AloneKnown
<1>3. ~Has(file[k], a.usrname) /\ file[k] # <<>>
  BY <1>2, SelfIs DEF SignIn, Current, MarksCurrent
<1>4. /\ file' = [file EXCEPT ![k] = Append(file[k], a)] /\ ap' = [ap EXCEPT ![t] = a]
      /\ scores' = scores /\ crashes' = crashes
  BY <1>1, AloneKnown DEF SignIn, AddUsr
<1>5. pc' = [pc EXCEPT ![t] = IF a.type = STUDENT THEN "newstu" ELSE "menu"]
  BY <1>1 DEF SignIn, Goto
<1>6. a.type = STUDENT <=> k = 1
  <2>1. want[t] \in {UNSET, STUDENT} \cup TeacherType /\ want[t] = a.type
    BY <1>1, <1>2, Unchanged
  <2> QED
    BY <1>2, <2>1, Kinds
<1> HIDE DEF k
<1>7. file'[k] = Append(file[k], a) /\ \A j \in 1..3 : j # k => file'[j] = file[j]
  BY <1>2, <1>4, Unchanged
<1>8. ap'[t] = a /\ pc'[t] = IF k = 1 THEN "newstu" ELSE "menu"
  BY <1>2, <1>4, <1>5, <1>6 DEF IInv, TypeOK
<1>9. \A j : AccountList(j) = file[j] /\ AccountList(j)' = file'[j]
  BY <1>2, <1>8, Lists
<1>10. MarkList = scores /\ marksOf = MarksIn(scores)
  BY <1>2, MarkLists, Seen
<1>11. CASE k = 1
  <2>1. PICK r : r = [usrname |-> a.usrname, marks |-> NoMarks]
    OBVIOUS
  <2>2. r \in Record /\ r.usrname = a.usrname /\ r.marks = NoMarks
    <3>1. NoMarks \in [0..(COURSENUMBER - 1) -> Mark]
      BY MarkAssumption DEF NoMarks
    <3> QED
      BY <1>2, <2>1, <3>1 DEF Record, Account
  <2>3. NamesOf(scores) \subseteq NamesOf(file[1])
    BY <1>3, <1>9, <1>10, <1>11 DEF MarksCurrent, STUDENT
  <2>4. ~Has(scores, a.usrname)
    BY <1>3, <1>11, <2>3 DEF Has, NamesOf
  <2>5. MarkList' = Append(scores, r)
    BY <1>4, <1>8, <1>11, <2>1, MarkLists
  <2>6. /\ marksOf' = Records!Extend(marksOf, a.usrname, NoMarks)
        /\ \A n \in DOMAIN marksOf : marksOf'[n] = marksOf[n]
    <3>1. PICK f, g : f = MarksIn(scores) /\ g = MarksIn(Append(scores, r))
      OBVIOUS
    <3>2. MarksAdded(f, r.usrname, r.marks, g)
      BY <1>2, <2>2, <2>4, <3>1, MarksOfAppend
    <3>3. marksOf = f /\ marksOf' = g
      BY <1>10, <2>5, <3>1, Seen
    <3> QED
      BY <2>2, <3>2, <3>3 DEF MarksAdded
  <2>7. Records!RNext
    BY <1>2, <1>3, <1>4, <1>7, <1>9, <1>11, <2>6, RegisterEffect
  <2>8. NamesOf(Append(scores, r)) = NamesOf(scores) \cup {a.usrname}
    <3>1. Appended(scores, r, Append(scores, r))
      BY <1>2, <2>2, <2>4, AppendIndex
    <3> QED
      BY <2>2, <3>1 DEF Appended
  <2>9. NamesOf(Append(file[1], a)) = NamesOf(file[1]) \cup {a.usrname}
    <3>1. Appended(file[1], a, Append(file[1], a))
      BY <1>2, <1>3, <1>11, AppendIndex
    <3> QED
      BY <3>1 DEF Appended
  <2>10. NamesOf(MarkList') \subseteq NamesOf(AccountList(STUDENT)')
    BY <1>7, <1>9, <1>11, <2>3, <2>5, <2>8, <2>9 DEF STUDENT
  <2>11. MarksCurrent'
    BY <1>4, <1>6, <1>8, <1>11, <2>4, <2>10, SelfIs DEF MarksCurrent, NamesOf
  <2> QED
    BY <2>6, <2>7, <2>11 DEF MarksKept
<1>12. CASE k # 1
  <2>1. MarkList' = scores
    BY <1>4, <1>8, <1>12, MarkLists
  <2>2. marksOf' = marksOf
    BY <1>10, <2>1, Seen
  <2>3. Records!RNext
    BY <1>2, <1>3, <1>4, <1>7, <1>9, <1>12, <2>2, RegisterEffect
  <2>4. AccountList(STUDENT)' = AccountList(STUDENT)
    BY <1>7, <1>9, <1>12 DEF STUDENT
  <2>5. MarksOfStudents'
    BY <1>4, <1>10, <2>1, <2>4, SameStudents DEF MarksCurrent, MarksOfStudents
  <2>6. MarksCurrent'
    BY <1>8, <1>12, <2>5, SelfIs DEF MarksCurrent, MarksOfStudents
  <2> QED
    BY <2>2, <2>3, <2>6 DEF MarksKept
<1> QED
  BY <1>11, <1>12

LEMMA AddAdminEffect ==
  ASSUME RefinesInv, NEW t, Alone(t), NEW name \in Name, NEW pwd \in Pwd, AddAdmin(t, name, pwd)
  PROVE  Records!RNext /\ MarksKept /\ MarksCurrent'
<1> USE DEF RefinesInv, AloneInv
<1>1. PICK a : a = [usrname |-> name, pwd |-> pwd, type |-> ADMIN]
  OBVIOUS
<1>2. /\ t \in Terminal /\ pc[t] = "add_admin" /\ a \in Account /\ a.usrname = name
      /\ ADMIN = 3 /\ Kind(a.type) = ADMIN
  BY <1>1, Kinds DEF Alone, AddAdmin, Goto, Account, ADMIN
<1>3. ~Has(file[ADMIN], a.usrname) /\ file[ADMIN] \in Seq(Account)
  BY <1>2, AloneKnown DEF AddAdmin, Current
<1>4. /\ file' = [file EXCEPT ![ADMIN] = Append(file[ADMIN], a)]
      /\ scores' = scores /\ crashes' = crashes
  BY <1>1, AloneKnown DEF AddAdmin, AddUsr
<1>5. file'[ADMIN] = Append(file[ADMIN], a) /\ \A j \in 1..3 : j # ADMIN => file'[j] = file[j]
  BY <1>2, <1>4, Unchanged
<1>6. pc'[t] = "menu"
  BY <1>2 DEF AddAdmin, Goto, IInv, TypeOK
<1>7. \A j : AccountList(j) = file[j] /\ AccountList(j)' = file'[j]
  BY <1>2, <1>6, Lists
<1>8. MarkList' = MarkList
  BY <1>2, <1>4, <1>6, MarkLists
<1>9. marksOf' = marksOf
  BY <1>8, Seen
<1>10. Records!RNext
  <2>1. AccountList(ADMIN)' = Append(AccountList(ADMIN), a)
    BY <1>5, <1>7
  <2>2. \A j \in 1..3 : j # ADMIN => AccountList(j)' = AccountList(j)
    BY <1>5, <1>7
  <2>3. /\ ADMIN \in 1..3 /\ Kind(a.type) = ADMIN /\ AccountList(ADMIN) \in Seq(Account)
        /\ ~Has(AccountList(ADMIN), a.usrname)
    BY <1>2, <1>3, <1>7
  <2>4. marksOf' = IF ADMIN = 1 THEN Records!Extend(marksOf, a.usrname, NoMarks) ELSE marksOf
    BY <1>2, <1>9
  <2> QED
    BY <1>2, <1>4, <2>1, <2>2, <2>3, <2>4, RegisterEffect
<1>11. AccountList(STUDENT)' = AccountList(STUDENT)
  BY <1>2, <1>5, <1>7 DEF STUDENT
<1>12. MarksOfStudents'
  BY <1>8, <1>11, SameStudents DEF MarksCurrent, MarksOfStudents
<1>13. MarksCurrent'
  BY <1>6, <1>12, SelfIs DEF MarksCurrent, MarksOfStudents
<1> QED
  BY <1>9, <1>10, <1>13 DEF MarksKept

(* The password counts as changed when the file is opened for writing. *)
LEMMA ReviseOpenEffect ==
  ASSUME RefinesInv, NEW t, Alone(t), NEW pwd \in Pwd, ReviseOpen(t, pwd)
  PROVE  Records!RNext /\ MarksKept /\ MarksCurrent'
<1> USE DEF RefinesInv, AloneInv
<1>0. PICK k : k = Kind(ap[t].type)
  OBVIOUS
<1>1. /\ t \in Terminal /\ pc[t] = "revise" /\ ap[t] \in Account /\ h[t] \in Seq(Account)
      /\ h[t] = file[k]
  BY <1>0, AloneTypes DEF Alone, ReviseOpen, Goto, WithAccounts, Current
<1>2. k \in 1..3
  BY <1>0, <1>1, AccountKind
<1>3. PICK i \in DOMAIN h[t] :
        Finds(h[t], i, ap[t].usrname) /\ h' = [h EXCEPT ![t][i].pwd = pwd]
  BY DEF ReviseOpen
<1>4. PICK l : l = [h[t] EXCEPT ![i].pwd = pwd]
  OBVIOUS
<1>5. PICK a : a = [ap[t] EXCEPT !.pwd = pwd]
  OBVIOUS
<1>6. a.type = ap[t].type
  BY <1>1, <1>5, NewPwdOf DEF Account
<1>7. ap'[t] = a /\ h'[t] = l /\ pc'[t] = "revise_save" /\ scores' = scores /\ crashes' = crashes
  BY <1>1, <1>3, <1>4, <1>5 DEF ReviseOpen, Goto, IInv, TypeOK
<1>8. \A j \in 1..3 : j # k => file'[j] = file[j]
  BY <1>2, <1>0, <1>1, Unchanged DEF ReviseOpen
<1>9. AccountList(k)' = l /\ \A j \in 1..3 : j # k => AccountList(j)' = AccountList(j)
  <2>1. AccountList(k)' = l
    BY <1>0, <1>6, <1>7, Lists
  <2>2. ASSUME NEW j \in 1..3, j # k PROVE AccountList(j)' = file'[j] /\ AccountList(j) = file[j]
    BY <1>1, <1>6, <1>7, <2>2, <1>0, Lists
  <2> QED
    BY <1>8, <2>1, <2>2
<1>10. AccountList(k) = h[t]
  BY <1>0, <1>1, Lists
<1>11. MarkList' = MarkList
  BY <1>1, <1>7, MarkLists
<1>12. marksOf' = marksOf
  BY <1>11, Seen
<1>13. PICK f : f = AccountsIn(h[t])
  OBVIOUS
<1>14. ap[t].usrname \in DOMAIN f /\ AccountsIn(l) = [f EXCEPT ![ap[t].usrname].pwd = pwd]
  <2>1. PICK list, name : list = h[t] /\ name = ap[t].usrname
    OBVIOUS
  <2>2. list \in Seq(Account) /\ Finds(list, i, name) /\ l = [list EXCEPT ![i].pwd = pwd]
        /\ f = AccountsIn(list)
    BY <1>1, <1>3, <1>4, <1>13, <2>1
  <2>3. name \in DOMAIN f /\ AccountsIn(l) = [f EXCEPT ![name].pwd = pwd]
    <3>1. PwdSet(list, i, pwd, l)
      BY <2>2 DEF PwdSet
    <3>2. name \in DOMAIN AccountsIn(list) /\ AccountsIn(l) = [AccountsIn(list) EXCEPT ![name].pwd = pwd]
      BY <2>2, <3>1, AccountsOfPwd
    <3> QED
      BY <2>2, <3>2
  <2> QED
    BY <2>1, <2>3
<1>15. accounts[k] = f
  BY <1>2, <1>10, <1>13, Seen
<1>16. AccountsIn(AccountList(k)') = [f EXCEPT ![ap[t].usrname].pwd = pwd]
  BY <1>9, <1>14
<1>17. accounts' = [accounts EXCEPT ![k] = [f EXCEPT ![ap[t].usrname].pwd = pwd]]
  <2>1. PICK f2 : f2 = [f EXCEPT ![ap[t].usrname].pwd = pwd]
    OBVIOUS
  <2>2. AccountsIn(AccountList(k)') = f2
    BY <1>16, <2>1
  <2>3. accounts' = [accounts EXCEPT ![k] = f2]
    BY <1>2, <1>9, <2>2, AccountsStep
  <2> QED
    BY <2>1, <2>3
<1>18. Records!ChangePwd(k, ap[t].usrname, pwd)
  BY <1>7, <1>12, <1>14, <1>15, <1>17 DEF Records!ChangePwd
<1>19. Records!RNext
  BY <1>2, <1>14, <1>15, <1>18 DEF Records!RNext
<1>20. MarksOfStudents'
  <2>1. CASE k # STUDENT
    BY <1>9, <1>11, <2>1, SameStudents DEF MarksCurrent, MarksOfStudents, STUDENT
  <2>2. CASE k = STUDENT
    <3>1. i \in DOMAIN h[t] /\ h[t][i] \in Account
      BY <1>1
    <3>2. PICK b : b = [h[t][i] EXCEPT !.pwd = pwd]
      OBVIOUS
    <3>3. b \in Account /\ b.usrname = h[t][i].usrname
      BY <3>1, <3>2, NewPwdOf DEF Account
    <3>4. l = [h[t] EXCEPT ![i] = b]
      BY <1>4, <3>2
    <3>5. l \in Seq(Account) /\ SameNames(h[t], l)
      BY <1>1, <3>1, <3>3, <3>4 DEF SameNames
    <3>6. NamesOf(l) = NamesOf(h[t])
      BY <1>1, <3>5, SameIndex
    <3>7. l # <<>> => h[t] # <<>>
      BY <3>1
    <3>8. AccountList(STUDENT)' = l /\ AccountList(STUDENT) = h[t]
      BY <1>1, <1>6, <1>7, <2>2, <1>0, Lists
    <3>9. PICK ml : ml = MarkList
      OBVIOUS
    <3>10. h[t] # <<>> => NamesOf(ml) \subseteq NamesOf(h[t])
      BY <3>8, <3>9 DEF MarksCurrent
    <3>11. ml = MarkList'
      BY <1>11, <3>9
    <3> QED
      <4>1. l # <<>> => NamesOf(ml) \subseteq NamesOf(l)
        BY <3>6, <3>7, <3>10
      <4> QED
        BY <3>8, <3>11, <4>1, StudentsFrom
  <2> QED
    BY <2>1, <2>2
<1>21. MarksCurrent'
  BY <1>7, <1>20, SelfIs DEF MarksCurrent, MarksOfStudents
<1> QED
  BY <1>12, <1>19, <1>21 DEF MarksKept

(* Marks count as changed when the file is opened for writing: those of    *)
(* the teacher's course.                                                   *)
CourseStep(t) ==
  /\ Course(ap[t].type) \in Teaches(ap[t].type)
  /\ Records!Grade(Course(ap[t].type))
  /\ \A name \in DOMAIN marksOf : DOMAIN marksOf[name] = 0..(COURSENUMBER - 1)

LEMMA TeacherCourse ==
  ASSUME NEW type \in TeacherType
  PROVE  Course(type) \in Teaches(type) /\ Course(type) \in DOMAIN NoMarks
<1>1. type \in {TEACH_CN, TEACH_MH, TEACH_EN}
  BY TeacherTypeAssumption
<1>2. Course(TEACH_CN) = 0 /\ Course(TEACH_MH) = 1 /\ Course(TEACH_EN) = 2
  BY DEF Course, TEACH_CN, TEACH_MH, TEACH_EN
<1>3. TEACH_CN # TEACH_MH /\ TEACH_CN # TEACH_EN /\ TEACH_MH # TEACH_EN
  BY DEF TEACH_CN, TEACH_MH, TEACH_EN
<1>4. DOMAIN NoMarks = {0, 1, 2}
  BY DEF NoMarks, COURSENUMBER
<1> QED
  BY <1>1, <1>2, <1>3, <1>4 DEF Teaches

LEMMA GradeEffect ==
  ASSUME RefinesInv, NEW t, Alone(t), pc[t] \in {"one_score", "all_scores"},
         pc' = [pc EXCEPT ![t] = "scores_save"], NEW new \in Seq(Record), h' = [h EXCEPT ![t] = new],
         OneCourse(h[t], Course(ap[t].type), new),
         scores' = <<>>, file' = file, crashes' = crashes
  PROVE  Records!RNext /\ CourseStep(t) /\ MarksCurrent'
<1> USE DEF RefinesInv, AloneInv
<1>1. /\ t \in Terminal /\ ap[t] \in Account /\ h[t] \in Seq(Record) /\ Kind(ap[t].type) = TEACH_CN
      /\ pc'[t] = "scores_save" /\ h'[t] = new
  BY AloneTypes DEF Alone, IInv, WithScores, RecordsInTheirFile
<1>2. h[t] = scores
  BY <1>1, SelfIs DEF MarksCurrent
<1>3. ap[t].type \in TeacherType
  BY <1>1, AccountKind
<1>4. PICK course : course = Course(ap[t].type)
  OBVIOUS
<1>5. course \in Teaches(ap[t].type) /\ course \in DOMAIN NoMarks
  BY <1>3, <1>4, TeacherCourse
<1>6. MarkList = h[t] /\ MarkList' = new
  BY <1>1, <1>2, MarkLists
<1>7. PICK f, g : f = MarksIn(h[t]) /\ g = MarksIn(new)
  OBVIOUS
<1>8. f = marksOf /\ g = marksOf'
  BY <1>6, <1>7, Seen
<1>9. /\ DOMAIN g = DOMAIN f
      /\ \A name \in DOMAIN f :
           /\ DOMAIN f[name] = 0..(COURSENUMBER - 1)
           /\ \A c \in DOMAIN f[name] : c # course => g[name][c] = f[name][c]
  <2>1. OneCourseSeen(f, course, g)
    BY <1>1, <1>4, <1>7, MarksOfCourse
  <2> QED
    BY <2>1 DEF OneCourseSeen
<1>10. \A k \in 1..3 : AccountList(k)' = AccountList(k)
  BY <1>1, SameFiles
<1>11. accounts' = accounts
  BY <1>10, SameAccounts
<1>12. Records!Grade(course)
  BY <1>8, <1>9, <1>11 DEF Records!Grade
<1>13. Records!RNext
  BY <1>5, <1>12 DEF Records!RNext
<1>14. MarksOfStudents'
  <2>1. NamesOf(new) = NamesOf(h[t])
    BY <1>1, SameIndex DEF OneCourse
  <2>2. PICK al : al = AccountList(STUDENT)
    OBVIOUS
  <2>3. al # <<>> => NamesOf(h[t]) \subseteq NamesOf(al)
    BY <1>6, <2>2 DEF MarksCurrent
  <2>4. AccountList(STUDENT)' = al
    BY <1>10, <2>2 DEF STUDENT
  <2> QED
    <3>1. al # <<>> => NamesOf(new) \subseteq NamesOf(al)
      BY <2>1, <2>3
    <3> QED
      BY <1>6, <2>4, <3>1, StudentsFrom
<1>15. MarksCurrent'
  BY <1>1, <1>14, SelfIs DEF MarksCurrent, MarksOfStudents
<1> QED
  BY <1>4, <1>5, <1>8, <1>9, <1>12, <1>13, <1>15 DEF CourseStep

LEMMA ReviseScoreEffect ==
  ASSUME RefinesInv, NEW t, Alone(t), NEW i \in DOMAIN h[t], NEW mark \in Mark,
         ReviseScoreOpen(t, i, mark)
  PROVE  Records!RNext /\ CourseStep(t) /\ MarksCurrent'
<1>1. pc[t] = "one_score" /\ pc[t] \in WithScores /\ t \in Terminal
  BY DEF ReviseScoreOpen, Goto, WithScores, Alone
<1>2. h[t] \in Seq(Record) /\ ap[t].type \in TeacherType
  BY <1>1, HasScores, AloneKnown, AccountKind DEF RefinesInv, AloneInv
<1>3. PICK course : course = Course(ap[t].type)
  OBVIOUS
<1>4. PICK r : r = WithMark(h[t][i], ap[t].type, mark)
  OBVIOUS
<1>5. r \in Record /\ h[t][i] \in Record
  BY <1>2, <1>4, Element, NewMark, AloneKnown DEF RefinesInv
<1>6. /\ r.usrname = h[t][i].usrname
      /\ \A c \in 0..(COURSENUMBER - 1) : c # course => r.marks[c] = h[t][i].marks[c]
  BY <1>3, <1>4, <1>5 DEF Record, WithMark
<1>7. PICK l : l = [h[t] EXCEPT ![i] = r]
  OBVIOUS
<1>8. /\ l \in Seq(Record) /\ DOMAIN l = DOMAIN h[t] /\ l[i] = r
      /\ \A j \in DOMAIN h[t] : j # i => l[j] = h[t][j]
  BY <1>2, <1>5, <1>7
<1>9. h' = [h EXCEPT ![t] = l]
  BY <1>4, <1>7 DEF ReviseScoreOpen
<1>10. SameNames(h[t], l)
  BY <1>6, <1>8 DEF SameNames
<1>11. \A j \in DOMAIN h[t] : \A c \in 0..(COURSENUMBER - 1) :
         c # Course(ap[t].type) => l[j].marks[c] = h[t][j].marks[c]
  BY <1>3, <1>6, <1>8
<1>12. OneCourse(h[t], Course(ap[t].type), l)
  BY <1>10, <1>11 DEF OneCourse
<1>13. /\ pc' = [pc EXCEPT ![t] = "scores_save"] /\ scores' = <<>> /\ file' = file
       /\ crashes' = crashes
  BY DEF ReviseScoreOpen, Goto
<1> QED
  BY <1>1, <1>8, <1>9, <1>12, <1>13, GradeEffect

LEMMA InputScoresEffect ==
  ASSUME RefinesInv, NEW t, Alone(t), NEW marks \in [DOMAIN h[t] -> Mark], InputScoresOpen(t, marks)
  PROVE  Records!RNext /\ CourseStep(t) /\ MarksCurrent'
<1>1. pc[t] = "all_scores" /\ pc[t] \in WithScores /\ t \in Terminal
  BY DEF InputScoresOpen, Goto, WithScores, Alone
<1>2. h[t] \in Seq(Record) /\ ap[t].type \in TeacherType
  BY <1>1, HasScores, AloneKnown, AccountKind DEF RefinesInv, AloneInv
<1>3. PICK course : course = Course(ap[t].type)
  OBVIOUS
<1> DEFINE r(i) == WithMark(h[t][i], ap[t].type, marks[i])
<1>4. \A i \in DOMAIN h[t] : h[t][i] \in Record /\ r(i) \in Record
  BY <1>2, Element, NewMark, AloneKnown DEF RefinesInv
<1>5. \A i \in DOMAIN h[t] :
        /\ r(i).usrname = h[t][i].usrname
        /\ \A c \in 0..(COURSENUMBER - 1) : c # course => r(i).marks[c] = h[t][i].marks[c]
  BY <1>3, <1>4 DEF Record, WithMark
<1>6. PICK l : l = [i \in DOMAIN h[t] |-> r(i)]
  OBVIOUS
<1>7. h' = [h EXCEPT ![t] = l]
  BY <1>6 DEF InputScoresOpen
<1> HIDE DEF r
<1>8. l \in Seq(Record)
  <2>1. DOMAIN h[t] = 1..Len(h[t]) /\ Len(h[t]) \in Nat
    BY <1>2
  <2> QED
    BY <1>4, <1>6, <2>1
<1>9. SameNames(h[t], l)
  BY <1>5, <1>6 DEF SameNames
<1>10. \A j \in DOMAIN h[t] : \A c \in 0..(COURSENUMBER - 1) :
         c # Course(ap[t].type) => l[j].marks[c] = h[t][j].marks[c]
  BY <1>3, <1>5, <1>6
<1>11. OneCourse(h[t], Course(ap[t].type), l)
  BY <1>9, <1>10 DEF OneCourse
<1>12. /\ pc' = [pc EXCEPT ![t] = "scores_save"] /\ scores' = <<>> /\ file' = file
       /\ crashes' = crashes
  BY DEF InputScoresOpen, Goto
<1> QED
  BY <1>1, <1>7, <1>8, <1>11, <1>12, GradeEffect

LEMMA NobodyIn ==
  AccountsIn(<<>>) = <<>> /\ MarksIn(<<>>) = <<>> /\ NamesOf(<<>>) = {}
<1>1. NamesOf(<<>>) = {}
  BY DEF NamesOf
<1> QED
  BY <1>1 DEF AccountsIn, MarksIn

(* Killed: what is lost at most. *)
LEMMA CrashEffect ==
  ASSUME RefinesInv, NEW t, Alone(t), Crash(t)
  PROVE  Records!RNext /\ MarksKept /\ MarksCurrent'
<1> USE DEF RefinesInv, AloneInv
<1>1. /\ t \in Terminal /\ pc'[t] = "start" /\ file' = file /\ scores' = scores
      /\ crashes' = crashes + 1 /\ scores \in Seq(Record)
  BY AloneKnown, AloneTypes DEF Alone, Crash
<1>2. \A k : AccountList(k)' = file[k]
  BY <1>1, Lists
<1>3. MarkList' = scores
  BY <1>1, MarkLists
<1>4. pc[t] # "revise_save" => \A k \in 1..3 : AccountList(k)' = AccountList(k)
  BY <1>1, SameFiles
<1>5. pc[t] # "revise_save" => accounts' = accounts
  BY <1>4, SameAccounts
<1>6. pc[t] \notin {"scores_save", "newstu"} => MarkList' = MarkList /\ marksOf' = marksOf
  BY <1>3, MarkLists, Seen
<1>7. MarksOfStudents
  BY DEF MarksCurrent, MarksOfStudents
<1>8. MarksOfStudents' => MarksCurrent'
  BY <1>1, SelfIs DEF MarksCurrent, MarksOfStudents
<1>9. CASE pc[t] = "revise_save"
  <2>1. PICK k : k = Kind(ap[t].type)
    OBVIOUS
  <2>2. k \in 1..3 /\ file[k] = <<>>
    BY <1>1, <1>9, <2>1, AccountKind, AloneTypes DEF Current
  <2>3. \A j \in 1..3 : j # k => AccountList(j)' = AccountList(j)
    <3>1. ASSUME NEW j \in 1..3, j # k PROVE AccountList(j) = file[j]
      BY <2>1, <3>1, Lists
    <3> QED
      BY <1>2, <3>1
  <2>4. AccountList(k)' = <<>>
    BY <1>2, <2>2
  <2>5. accounts' = [accounts EXCEPT ![k] = <<>>]
    <3>1. AccountsIn(AccountList(k)') = <<>>
      BY <2>4, NobodyIn
    <3> QED
      BY <2>2, <2>3, <3>1, AccountsStep
  <2>6. Records!Kill
    BY <1>1, <1>6, <1>9, <2>2, <2>5 DEF Records!Kill
  <2>7. MarksOfStudents'
    <3>1. CASE k = STUDENT
      <4>1. file[STUDENT] = <<>>
        BY <2>2, <3>1
      <4>2. AccountList(STUDENT)' = <<>>
        BY <1>2, <4>1
      <4> QED
        BY <4>2 DEF MarksOfStudents
    <3>2. CASE k # STUDENT
      BY <1>6, <1>7, <1>9, <2>3, <3>2, SameStudents DEF STUDENT
    <3> QED
      BY <3>1, <3>2
  <2> QED
    BY <1>6, <1>8, <1>9, <2>6, <2>7 DEF Records!RNext, MarksKept
<1>10. CASE pc[t] = "scores_save"
  <2>1. scores = <<>>
    BY <1>1, <1>10 DEF Current
  <2>2. MarkList' = <<>>
    BY <1>3, <2>1
  <2>3. marksOf' = <<>>
    BY <2>2, NobodyIn, Seen
  <2>4. Records!Kill
    BY <1>1, <1>5, <1>10, <2>3 DEF Records!Kill
  <2>5. MarksOfStudents'
    BY <2>2, NobodyIn DEF MarksOfStudents, NamesOf
  <2> QED
    BY <1>8, <2>3, <2>4, <2>5 DEF Records!RNext, MarksKept
<1>11. CASE pc[t] = "newstu"
  <2>1. PICK r : r = [usrname |-> ap[t].usrname, marks |-> NoMarks]
    OBVIOUS
  <2>2. r \in Record /\ r.marks = NoMarks /\ r.usrname = ap[t].usrname
    <3>1. NoMarks \in [0..(COURSENUMBER - 1) -> Mark]
      BY MarkAssumption DEF NoMarks
    <3>2. ap[t] \in Account
      BY <1>1, <1>11, AloneTypes
    <3> QED
      BY <2>1, <3>1, <3>2 DEF Record, Account
  <2>3. ~Has(scores, r.usrname)
    BY <1>11, <2>2, SelfIs DEF MarksCurrent
  <2>4. PICK ml : ml = Append(scores, r)
    OBVIOUS
  <2>5. MarkList = ml
    BY <1>11, <2>1, <2>4, MarkLists
  <2>6. PICK f, g : f = MarksIn(scores) /\ g = MarksIn(ml)
    OBVIOUS
  <2>7. marksOf = g /\ marksOf' = f
    BY <1>3, <2>5, <2>6, Seen
  <2>8. /\ r.usrname \in DOMAIN g /\ g[r.usrname] = NoMarks
        /\ \A n \in DOMAIN f : g[n] = f[n]
        /\ f = Records!Restrict(g, DOMAIN g \ {r.usrname})
    <3>1. MarksAdded(f, r.usrname, r.marks, g)
      BY <1>1, <2>2, <2>3, <2>4, <2>6, MarksOfAppend
    <3> QED
      BY <2>2, <3>1 DEF MarksAdded
  <2>9. Records!Kill
    BY <1>1, <1>5, <1>11, <2>7, <2>8 DEF Records!Kill
  <2>10. NamesOf(scores) \subseteq NamesOf(ml)
    <3>1. Appended(scores, r, ml)
      BY <1>1, <2>2, <2>3, <2>4, AppendIndex
    <3> QED
      BY <3>1 DEF Appended
  <2>11. MarksOfStudents'
    <3>1. PICK al : al = AccountList(STUDENT)
      OBVIOUS
    <3>2. al # <<>> => NamesOf(ml) \subseteq NamesOf(al)
      BY <1>7, <2>5, <3>1 DEF MarksOfStudents
    <3>3. AccountList(STUDENT)' = al
      BY <1>4, <1>11, <3>1 DEF STUDENT
    <3> QED
      <4>1. PICK sc : sc = scores
        OBVIOUS
      <4>2. al # <<>> => NamesOf(sc) \subseteq NamesOf(al)
        BY <2>10, <3>2, <4>1
      <4>3. MarkList' = sc
        BY <1>3, <4>1
      <4> QED
        BY <3>3, <4>2, <4>3, StudentsFrom
  <2> QED
    BY <1>8, <2>7, <2>8, <2>9, <2>11 DEF Records!RNext, MarksKept
<1>12. CASE pc[t] \notin {"revise_save", "scores_save", "newstu"}
  <2>1. Records!Kill
    BY <1>1, <1>5, <1>6, <1>12 DEF Records!Kill
  <2>2. MarksOfStudents'
    BY <1>4, <1>6, <1>7, <1>12, SameStudents DEF STUDENT
  <2> QED
    BY <1>6, <1>8, <1>12, <2>1, <2>2 DEF Records!RNext, MarksKept
<1> QED
  BY <1>9, <1>10, <1>11, <1>12

-----------------------------------------------------------------------------
(* What every step is, seen from outside. *)
SeenStep(t) ==
  \/ UNCHANGED <<accounts, marksOf, crashes>>
  \/ Records!RNext /\ (MarksKept \/ CourseStep(t))

LEMMA EveryStep ==
  ASSUME RefinesInv, [Next]_vars, NEW t, Alone(t)
  PROVE  SeenStep(t) /\ MarksCurrent'
<1>1. CASE UNCHANGED vars
  <2>1. UNCHANGED <<accounts, marksOf, crashes>>
    BY <1>1 DEF vars, accounts, marksOf, AccountList, MarkList
  <2>2. MarksCurrent'
    BY <1>1 DEF vars, RefinesInv, MarksCurrent, AccountList, MarkList
  <2> QED
    BY <2>1, <2>2 DEF SeenStep
<1>2. ASSUME Quiet PROVE SeenStep(t)
  BY <1>2, QuietStep DEF SeenStep
<1>3. ASSUME Records!RNext, MarksKept \/ CourseStep(t) PROVE SeenStep(t)
  BY <1>3 DEF SeenStep
<1>4. CASE Next
  <2>1. \/ \E kind \in {STUDENT, TEACH_CN, ADMIN} : LoginLoad(t, kind)
        \/ \E i \in DOMAIN h[t] : LoginDone(t, i)
        \/ Logout(t)
        \/ \E type \in {STUDENT} \cup TeacherType : SignInLoad(t, type)
        \/ \E name \in Name, pwd \in Pwd : SignIn(t, name, pwd) \/ AddAdmin(t, name, pwd)
        \/ NewStudent(t)
        \/ AddAdminLoad(t)
        \/ ReviseLoad(t)
        \/ \E pwd \in Pwd : ReviseOpen(t, pwd)
        \/ ReviseClose(t)
        \/ ReviseRefused(t)
        \/ \E op \in {"one_score", "all_scores"} : ScoresLoad(t, op)
        \/ \E i \in DOMAIN h[t], mark \in Mark : ReviseScoreOpen(t, i, mark)
        \/ ReviseScoreNot(t)
        \/ \E marks \in [DOMAIN h[t] -> Mark] : InputScoresOpen(t, marks)
        \/ ScoresClose(t)
        \/ Crash(t)
    BY <1>4 DEF Next, Alone
  <2> QED
    BY <1>2, <1>3, <2>1, QuietMenus, QuietNewStudent, QuietReviseClose, QuietScoresClose, SignInEffect,
       AddAdminEffect, ReviseOpenEffect, ReviseScoreEffect, InputScoresEffect, CrashEffect
<1> QED
  BY <1>1, <1>4

LEMMA FirstRecords ==
  ASSUME Init, NEW t, Alone(t)
  PROVE  MarksCurrent /\ Records!RInit
<1>1. self = t /\ t \in Terminal
  BY SelfIs
<1>2. PICK n \in Name, p \in Pwd, type \in TeacherType :
        /\ file = << <<[usrname |-> n, pwd |-> p, type |-> STUDENT]>>,
                     <<[usrname |-> n, pwd |-> p, type |-> type]>>,
                     <<[usrname |-> n, pwd |-> p, type |-> ADMIN]>> >>
        /\ scores = <<[usrname |-> n, marks |-> NoMarks]>>
  BY DEF Init
<1>3. pc[t] = "start" /\ crashes = 0
  BY <1>1 DEF Init
<1>4. \A k : AccountList(k) = file[k]
  BY <1>3, Lists
<1>5. MarkList = scores
  BY <1>3, MarkLists
<1>6. \A k \in 1..3 : /\ DOMAIN file[k] = {1} /\ NamesOf(file[k]) = {n}
                      /\ Index(file[k], n) = 1 /\ Kind(file[k][1].type) = k
  <2>1. \A k \in 1..3 : file[k] \in Seq(Account) /\ DOMAIN file[k] = {1} /\ file[k][1].usrname = n
    <3>1. \A k \in 1..3 : file[k] \in Seq(Account)
      BY InitInv, FilesHold DEF Init, KnownAccount
    <3>2. \A k \in 1..3 : DOMAIN file[k] = {1} /\ file[k][1].usrname = n
      BY <1>2
    <3> QED
      BY <3>1, <3>2
  <2>2. \A k \in 1..3 : Kind(file[k][1].type) = k
    BY <2>1, InitInv, FilesHold DEF Init, AllOf
  <2>3. ASSUME NEW k \in 1..3 PROVE NamesOf(file[k]) = {n} /\ Index(file[k], n) = 1
    <3>1. Finds(file[k], 1, n)
      BY <2>1 DEF Finds
    <3> QED
      BY <2>1, <3>1, IndexIs DEF NamesOf
  <2> QED
    BY <2>1, <2>2, <2>3
<1>7. NamesOf(scores) = {n} /\ Index(scores, n) = 1
  <2>1. scores \in Seq(Record) /\ DOMAIN scores = {1} /\ scores[1].usrname = n
    BY <1>2, InitInv, FilesHold DEF Init, KnownRecord
  <2>2. Finds(scores, 1, n)
    BY <2>1 DEF Finds
  <2> QED
    BY <2>1, <2>2, IndexIs DEF NamesOf
<1>8. MarksCurrent
  <2>1. STUDENT \in 1..3
    BY DEF STUDENT
  <2>2. NamesOf(MarkList) \subseteq NamesOf(AccountList(STUDENT))
    BY <1>4, <1>5, <1>6, <1>7, <2>1
  <2> QED
    BY <1>1, <1>3, <2>2 DEF MarksCurrent
<1>9. DOMAIN marksOf = {n} /\ marksOf[n] = NoMarks
  <2>1. DOMAIN MarksIn(scores) = {n} /\ MarksIn(scores)[n] = scores[1].marks
    BY <1>7, MarksDomain
  <2> QED
    BY <1>2, <1>5, <2>1, Seen
<1>10. \A k \in 1..3 : DOMAIN accounts[k] = {n} /\ accounts[k][n].type % 4 = k
  <2>1. ASSUME NEW k \in 1..3 PROVE DOMAIN accounts[k] = {n} /\ accounts[k][n].type = file[k][1].type
    <3>1. DOMAIN AccountsIn(file[k]) = {n} /\ AccountsIn(file[k])[n].type = file[k][1].type
      <4>1. PICK list : list = file[k]
        OBVIOUS
      <4>2. NamesOf(list) = {n} /\ Index(list, n) = 1
        BY <1>6, <4>1
      <4>3. DOMAIN AccountsIn(list) = {n} /\ AccountsIn(list)[n].type = list[1].type
        <5>1. DOMAIN AccountsIn(list) = {n}
          BY <4>2, AccountsDomain
        <5>2. AccountsIn(list)[n] = [pwd |-> list[1].pwd, type |-> list[1].type]
          BY <4>2, AccountsDomain
        <5>3. PICK b : b = AccountsIn(list)[n]
          OBVIOUS
        <5>4. b.type = list[1].type
          BY <5>2, <5>3
        <5> QED
          BY <5>1, <5>3, <5>4
      <4> QED
        BY <4>1, <4>3
    <3> QED
      BY <1>4, <3>1, Seen
  <2> QED
    BY <1>6, <2>1 DEF Kind
<1>11. DOMAIN accounts = 1..3
  BY Seen
<1> QED
  BY <1>3, <1>8, <1>9, <1>10, <1>11 DEF Records!RInit

(* For a copy that runs alone, the marks it has loaded are those of the    *)
(* file, and no name that is free has marks already.                       *)
THEOREM RefinesInductive ==
  ASSUME NEW t, Alone(t)
  PROVE  Spec => []RefinesInv
<1>1. Init => RefinesInv
  BY InitInv, AloneInit, FirstRecords DEF RefinesInv, AloneInv
<1>2. RefinesInv /\ [Next]_vars => RefinesInv'
  BY NextInv, AloneNext, EveryStep DEF RefinesInv, AloneInv
<1> QED
  BY <1>1, <1>2, PTL DEF Spec

(* A copy that runs alone does what InfoRecords promises, and nothing else *)
(* is seen of it: each step in memory or on the files is one of an account *)
(* made, a password changed, a course graded, a crash, or nothing.         *)
THEOREM Refinement ==
  ASSUME NEW t, Alone(t)
  PROVE  Spec => ImplementsRecords
<1>1. Init => Records!RInit
  BY FirstRecords
<1>2. RefinesInv /\ [Next]_vars => [Records!RNext]_(Records!rvars)
  BY EveryStep DEF SeenStep, Records!rvars
<1> QED
  BY <1>1, <1>2, RefinesInductive, PTL DEF Spec, ImplementsRecords, Records!RSpec

(* Marks change in the course of the teacher who is logged in, and in no   *)
(* other, whatever is typed and whenever the copy is killed.               *)
THEOREM OwnCourse ==
  ASSUME NEW t, Alone(t)
  PROVE  Spec => OwnCourseOnly
<1> DEFINE Own == \A name \in DOMAIN marksOf \cap DOMAIN marksOf', c \in 0..(COURSENUMBER - 1) :
                    marksOf[name][c] # marksOf'[name][c] => c \in Teaches(ap[self].type)
<1>1. RefinesInv /\ [Next]_vars => Own
  <2> SUFFICES ASSUME RefinesInv, [Next]_vars PROVE Own
    OBVIOUS
  <2>1. SeenStep(t) /\ self = t
    BY EveryStep, SelfIs
  <2>2. CASE CourseStep(t)
    BY <2>1, <2>2 DEF CourseStep, Records!Grade
  <2>3. CASE MarksKept \/ marksOf' = marksOf
    BY <2>3 DEF MarksKept
  <2> QED
    BY <2>1, <2>2, <2>3 DEF SeenStep
<1> QED
  BY <1>1, RefinesInductive, PTL DEF Spec, OwnCourseOnly
=============================================================================
