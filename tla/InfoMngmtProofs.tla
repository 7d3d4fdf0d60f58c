---------------------------- MODULE InfoMngmtProofs ----------------------------
(***************************************************************************)
(* For every set of running copies, records stay in the file of their kind *)
(* until one copy's save cuts a record of another's, and an empty file     *)
(* stays empty; for a copy that runs alone, no record is ever cut, names   *)
(* are unique and who is logged in has an account.                         *)
(***************************************************************************)
EXTENDS InfoMngmt, SequenceTheorems, TLAPS

Places == {"start", "newstu", "menu"} \cup WithAccounts \cup WithScores

LEMMA Kinds ==
  /\ Kind(STUDENT) = 1 /\ Kind(ADMIN) = 3 /\ Kind(UNSET) = 0
  /\ UNSET \notin {STUDENT} \cup TeacherType
  /\ \A type \in TeacherType : Kind(type) = 2 /\ Course(type) \in 0..2
<1>1. \A type \in {TEACH_CN, TEACH_MH, TEACH_EN} :
        Kind(type) = 2 /\ Course(type) \in 0..2 /\ type # UNSET
  BY DEF TEACH_CN, TEACH_MH, TEACH_EN, Kind, Course, UNSET
<1>2. Kind(STUDENT) = 1 /\ Kind(ADMIN) = 3 /\ Kind(UNSET) = 0 /\ UNSET # STUDENT
  BY DEF STUDENT, ADMIN, UNSET, Kind
<1> QED
  BY <1>1, <1>2, TeacherTypeAssumption

LEMMA AccountKind ==
  ASSUME NEW a \in Account
  PROVE  Kind(a.type) \in 1..3 /\ (Kind(a.type) = TEACH_CN => a.type \in TeacherType)
<1>1. a.type \in {STUDENT, ADMIN} \cup TeacherType
  BY DEF Account
<1> QED
  BY <1>1, Kinds DEF TEACH_CN

(* What a user makes is known; what is known can be read. *)
LEMMA Known ==
  /\ Account \subseteq KnownAccount /\ KnownAccount \subseteq AnyAccount
  /\ Record \subseteq KnownRecord /\ KnownRecord \subseteq AnyRecord
<1>1. STUDENT \in Int /\ ADMIN \in Int /\ TeacherType \subseteq Int
  BY TeacherTypeAssumption DEF STUDENT, ADMIN, TEACH_CN, TEACH_MH, TEACH_EN
<1>2. Account \subseteq AnyAccount
  BY <1>1, WordAssumption DEF Account, AnyAccount
<1>3. Record \subseteq AnyRecord
  <2>1. ASSUME NEW r \in Record PROVE r \in AnyRecord
    <3>1. r.marks \in [0..(COURSENUMBER - 1) -> Int]
      BY MarkAssumption DEF Record
    <3> QED
      BY <3>1, WordAssumption DEF Record, AnyRecord
  <2> QED
    BY <2>1
<1> QED
  BY <1>2, <1>3 DEF KnownAccount, KnownRecord

LEMMA KnownKind ==
  ASSUME NEW a \in KnownAccount
  PROVE  a.type \in Int /\ Kind(a.type) \in 0..3
<1>1. a.type \in Int
  BY Known DEF AnyAccount
<1> QED
  BY <1>1 DEF Kind

LEMMA SeqGrows ==
  ASSUME NEW S, NEW T, S \subseteq T
  PROVE  Seq(S) \subseteq Seq(T)
<1>1. ASSUME NEW list \in Seq(S) PROVE list \in Seq(T)
  <2>1. list \in [1..Len(list) -> T] /\ Len(list) \in Nat
    OBVIOUS
  <2> QED
    BY <2>1
<1> QED
  BY <1>1

(* Once known, always known. *)
LEMMA KnownGrows ==
  ASSUME tainted \subseteq tainted'
  PROVE  /\ KnownAccount \subseteq KnownAccount' /\ KnownRecord \subseteq KnownRecord'
         /\ Seq(KnownAccount) \subseteq Seq(KnownAccount') /\ Seq(KnownRecord) \subseteq Seq(KnownRecord')
<1>1. /\ KnownAccount' = (IF tainted' = {} THEN Account ELSE AnyAccount)
      /\ KnownRecord' = (IF tainted' = {} THEN Record ELSE AnyRecord)
  BY DEF KnownAccount, KnownRecord
<1>2. KnownAccount \subseteq KnownAccount' /\ KnownRecord \subseteq KnownRecord'
  BY <1>1, Known DEF KnownAccount, KnownRecord
<1> QED
  BY <1>2, SeqGrows

LEMMA EmptyList == /\ <<>> \in Seq(KnownAccount) /\ <<>> \in Seq(KnownRecord)
                   /\ \A k : AllOf(<<>>, k)
  BY DEF AllOf

LEMMA Element ==
  ASSUME NEW S, NEW list \in Seq(S), NEW i \in DOMAIN list
  PROVE  list[i] \in S
  OBVIOUS

(* add_usr() keeps a file of its kind. *)
LEMMA AppendKind ==
  ASSUME NEW S, NEW list \in Seq(S), NEW a \in S
  PROVE  /\ Append(list, a) \in Seq(S) /\ Append(list, a) # <<>>
         /\ AllOf(list, Kind(a.type)) => AllOf(Append(list, a), Kind(a.type))
<1>1. PICK r \in Seq(S) : r = Append(list, a)
  <2>1. Append(list, a) \in Seq(S)
    OBVIOUS
  <2> QED
    BY <2>1
<1>2. /\ DOMAIN list = 1..Len(list) /\ DOMAIN r = 1..(Len(list) + 1) /\ Len(list) \in Nat
      /\ r[Len(list) + 1] = a /\ r # <<>>
      /\ \A i \in 1..Len(list) : r[i] = list[i]
  BY <1>1
<1>3. \A i \in DOMAIN r : r[i] = a \/ (i \in DOMAIN list /\ r[i] = list[i])
  BY <1>2
<1> QED
  BY <1>1, <1>2, <1>3 DEF AllOf

LEMMA ConcatType ==
  ASSUME NEW S, NEW list \in Seq(S), NEW rest \in Seq(S)
  PROVE  /\ list \o rest \in Seq(S)
         /\ list # <<>> => list \o rest # <<>>
         /\ \A i \in DOMAIN (list \o rest) :
              \/ i \in DOMAIN list /\ (list \o rest)[i] = list[i]
              \/ i - Len(list) \in DOMAIN rest /\ (list \o rest)[i] = rest[i - Len(list)]
  OBVIOUS

(* So does writing a list of that kind over it. *)
LEMMA WriteOverType ==
  ASSUME NEW S, NEW old \in Seq(S), NEW list \in Seq(S)
  PROVE  /\ WriteOver(old, list) \in Seq(S)
         /\ list # <<>> => WriteOver(old, list) # <<>>
         /\ \A k : AllOf(old, k) /\ AllOf(list, k) => AllOf(WriteOver(old, list), k)
<1>1. PICK rest : rest = Left(old, list)
  OBVIOUS
<1>2. rest \in Seq(S) /\ \A j \in DOMAIN rest : \E i \in DOMAIN old : rest[j] = old[i]
  <2>1. CASE rest = <<>>
    BY <2>1
  <2>2. CASE rest # <<>>
    <3>1. PICK m \in 0..Len(old) : rest = SubSeq(old, m + 1, Len(old))
      BY <1>1, <2>2 DEF Left
    <3>2. rest \in Seq(S)
      BY <3>1
    <3>3. \A j \in DOMAIN rest : j + m \in DOMAIN old /\ rest[j] = old[j + m]
      BY <3>1
    <3> QED
      BY <3>2, <3>3
  <2> QED
    BY <2>1, <2>2
<1>3. PICK new : new = list \o rest
  OBVIOUS
<1>4. WriteOver(old, list) = new
  BY <1>1, <1>3 DEF WriteOver
<1>5. /\ new \in Seq(S) /\ (list # <<>> => new # <<>>)
      /\ \A i \in DOMAIN new :
           \/ i \in DOMAIN list /\ new[i] = list[i]
           \/ i - Len(list) \in DOMAIN rest /\ new[i] = rest[i - Len(list)]
  BY <1>2, <1>3, ConcatType
<1>6. ASSUME NEW k, AllOf(old, k), AllOf(list, k) PROVE AllOf(new, k)
  BY <1>2, <1>5, <1>6 DEF AllOf
<1> QED
  BY <1>4, <1>5, <1>6

-----------------------------------------------------------------------------
LEMMA InitInv == Init => IInv
<1> SUFFICES ASSUME Init PROVE IInv
  OBVIOUS
<1>1. PICK n \in Name, p \in Pwd, type \in TeacherType :
        /\ file = << <<[usrname |-> n, pwd |-> p, type |-> STUDENT]>>,
                     <<[usrname |-> n, pwd |-> p, type |-> type]>>,
                     <<[usrname |-> n, pwd |-> p, type |-> ADMIN]>> >>
        /\ scores = <<[usrname |-> n, marks |-> NoMarks]>>
  BY DEF Init
<1>2. \A k \in 1..3 : file[k] \in Seq(KnownAccount) /\ AllOf(file[k], k)
  <2>1. \A x \in {STUDENT, type, ADMIN} :
          [usrname |-> n, pwd |-> p, type |-> x] \in KnownAccount
    BY Known DEF Account
  <2>2. ASSUME NEW a \in KnownAccount
        PROVE  <<a>> \in Seq(KnownAccount) /\ AllOf(<<a>>, Kind(a.type))
    BY DEF AllOf
  <2>3. /\ file[1] = <<[usrname |-> n, pwd |-> p, type |-> STUDENT]>>
        /\ file[2] = <<[usrname |-> n, pwd |-> p, type |-> type]>>
        /\ file[3] = <<[usrname |-> n, pwd |-> p, type |-> ADMIN]>>
    BY <1>1
  <2>4. /\ file[1] \in Seq(KnownAccount) /\ AllOf(file[1], 1)
        /\ file[2] \in Seq(KnownAccount) /\ AllOf(file[2], 2)
        /\ file[3] \in Seq(KnownAccount) /\ AllOf(file[3], 3)
    <3>1. Kind(STUDENT) = 1 /\ Kind(type) = 2 /\ Kind(ADMIN) = 3
      BY Kinds
    <3> QED
      BY <2>1, <2>2, <2>3, <3>1
  <2> QED
    BY <2>4
<1>3. file \in [1..3 -> Seq(KnownAccount)]
  <2>1. DOMAIN file = 1..3 /\ file = [k \in 1..3 |-> file[k]]
    BY <1>1
  <2> QED
    BY <1>2, <2>1
<1>4. scores \in Seq(KnownRecord)
  <2>1. NoMarks \in [0..(COURSENUMBER - 1) -> Mark]
    BY MarkAssumption DEF NoMarks
  <2>2. [usrname |-> n, marks |-> NoMarks] \in KnownRecord
    BY <2>1, Known DEF Record
  <2> QED
    BY <1>1, <2>2
<1>5. TypeOK
  BY <1>3, <1>4, EmptyList DEF Init, TypeOK, WithAccounts, WithScores
<1>6. RecordsInTheirFile /\ InSession /\ MixedBehindRecords
  BY <1>2 DEF Init, RecordsInTheirFile, InSession, MixedBehindRecords, WithScores
<1> QED
  BY <1>5, <1>6 DEF IInv

-----------------------------------------------------------------------------
(* What a step may do to the files. *)
FilesOK ==
  /\ file' \in [1..3 -> Seq(KnownAccount)] /\ scores' \in Seq(KnownRecord) /\ crashes' \in Nat
  /\ tainted \subseteq tainted' /\ mixed' \subseteq tainted' /\ tainted' \subseteq 0..3
  /\ \A k \in 1..3 \ tainted' : AllOf(file'[k], k)
  /\ \A k \in mixed' \ {SCORES} : file'[k] # <<>>

(* A step of one copy: it suffices to look at that copy and at the files. *)
LEMMA StepInv ==
  ASSUME IInv, FilesOK, NEW t \in Terminal, NEW p \in Places,
         NEW a \in KnownAccount \cup {NoAcnt}, NEW l, NEW w \in {UNSET, STUDENT} \cup TeacherType,
         pc' = [pc EXCEPT ![t] = p], ap' = [ap EXCEPT ![t] = a],
         h' = [h EXCEPT ![t] = l], want' = [want EXCEPT ![t] = w],
         p \in WithAccounts => l \in Seq(KnownAccount),
         p \in WithScores => l \in Seq(KnownRecord) /\ Kind(a.type) = TEACH_CN,
         p \notin WithAccounts \cup WithScores => l = <<>>,
         p \in {"revise", "revise_save"} =>
           Kind(a.type) \in tainted' \/ AllOf(l, Kind(a.type)),
         p = "revise_save" => l # <<>>,
         p \notin {"start", "login", "sign_in"} => a \in KnownAccount /\ Kind(a.type) # UNSET,
         p = "sign_in" => w # UNSET
  PROVE  IInv'
<1> USE DEF IInv
<1>0. PICK A, R, A2, R2 :
        /\ A = KnownAccount /\ R = KnownRecord /\ A2 = KnownAccount' /\ R2 = KnownRecord'
  OBVIOUS
<1>1. pc'[t] = p /\ ap'[t] = a /\ h'[t] = l /\ want'[t] = w
  BY DEF TypeOK
<1>2. \A u \in Terminal \ {t} :
        pc'[u] = pc[u] /\ ap'[u] = ap[u] /\ h'[u] = h[u] /\ want'[u] = want[u]
  BY DEF TypeOK
<1>3. A \subseteq A2 /\ R \subseteq R2 /\ Seq(A) \subseteq Seq(A2) /\ Seq(R) \subseteq Seq(R2)
  BY <1>0, KnownGrows DEF FilesOK
<1>4. /\ ap' \in [Terminal -> A2 \cup {NoAcnt}]
      /\ pc' \in [Terminal -> Places]
      /\ h' \in [Terminal -> Seq(A2) \cup Seq(R2)]
      /\ want' \in [Terminal -> {UNSET, STUDENT} \cup TeacherType]
  <2>1. l \in Seq(A) \cup Seq(R)
    BY <1>0, EmptyList
  <2>2. /\ ap \in [Terminal -> A \cup {NoAcnt}] /\ pc \in [Terminal -> Places]
        /\ h \in [Terminal -> Seq(A) \cup Seq(R)]
        /\ want \in [Terminal -> {UNSET, STUDENT} \cup TeacherType]
    BY <1>0 DEF TypeOK, Places
  <2> QED
    BY <1>0, <1>3, <2>1, <2>2
<1>5. \A u \in Terminal :
        /\ pc'[u] \in WithAccounts => h'[u] \in Seq(A2)
        /\ pc'[u] \in WithScores => h'[u] \in Seq(R2)
        /\ pc'[u] \notin WithAccounts \cup WithScores => h'[u] = <<>>
  <2>1. \A u \in Terminal :
          /\ pc'[u] \in WithAccounts => h'[u] \in Seq(A)
          /\ pc'[u] \in WithScores => h'[u] \in Seq(R)
          /\ pc'[u] \notin WithAccounts \cup WithScores => h'[u] = <<>>
    BY <1>0, <1>1, <1>2 DEF TypeOK
  <2> QED
    BY <1>3, <2>1
<1>6. TypeOK'
  <2>1. file' \in [1..3 -> Seq(A2)] /\ scores' \in Seq(R2)
    BY <1>0, <1>3 DEF FilesOK
  <2> QED
    BY <1>0, <1>4, <1>5, <2>1 DEF TypeOK, Places, FilesOK
<1>7. RecordsInTheirFile'
  <2>1. tainted \subseteq tainted' /\ \A k \in 1..3 \ tainted' : AllOf(file'[k], k)
    BY DEF FilesOK
  <2>2. ASSUME NEW u \in Terminal
        PROVE  /\ pc'[u] \in {"revise", "revise_save"} =>
                    Kind(ap'[u].type) \in tainted' \/ AllOf(h'[u], Kind(ap'[u].type))
               /\ pc'[u] \in WithScores => Kind(ap'[u].type) = TEACH_CN
    <3>1. CASE u = t
      BY <1>1, <3>1
    <3>2. CASE u # t
      BY <1>2, <2>1, <3>2 DEF RecordsInTheirFile
    <3> QED
      BY <3>1, <3>2
  <2> QED
    BY <2>1, <2>2 DEF RecordsInTheirFile, AllOf
<1>8. InSession'
  <2>1. \A u \in Terminal :
          /\ pc'[u] \notin {"start", "login", "sign_in"} =>
               ap'[u] \in A /\ Kind(ap'[u].type) # UNSET
          /\ pc'[u] = "sign_in" => want'[u] # UNSET
    BY <1>0, <1>1, <1>2 DEF InSession
  <2> QED
    BY <1>0, <1>3, <2>1 DEF InSession
<1>9. MixedBehindRecords'
  BY <1>1, <1>2 DEF MixedBehindRecords, FilesOK
<1> QED
  BY <1>6, <1>7, <1>8, <1>9

(* What the frame lemma asks of the parts a step leaves alone. *)
LEMMA Unchanged ==
  ASSUME IInv, NEW t \in Terminal
  PROVE  /\ pc[t] \in Places
         /\ ap[t] \in KnownAccount \cup {NoAcnt}
         /\ want[t] \in {UNSET, STUDENT} \cup TeacherType
         /\ ap = [ap EXCEPT ![t] = ap[t]]
         /\ h = [h EXCEPT ![t] = h[t]]
         /\ want = [want EXCEPT ![t] = want[t]]
         /\ file \in [1..3 -> Seq(KnownAccount)]
         /\ \A k \in 1..3 \ tainted : AllOf(file[k], k)
         /\ \A k \in mixed \ {SCORES} : file[k] # <<>>
         /\ scores \in Seq(KnownRecord)
         /\ crashes \in Nat /\ mixed \subseteq tainted /\ tainted \subseteq 0..3
  BY DEF IInv, TypeOK, RecordsInTheirFile, MixedBehindRecords, Places

LEMMA FilesStay ==
  ASSUME IInv, UNCHANGED <<file, scores, mixed, tainted>>, crashes' \in Nat
  PROVE  FilesOK
  BY DEF IInv, TypeOK, RecordsInTheirFile, MixedBehindRecords, FilesOK

(* load_list(): of a file that never held misplaced text it is what the    *)
(* file holds, and it is nothing only of an empty file.                    *)
LEMMA LoadsType ==
  ASSUME IInv, NEW k \in 1..3, NEW list \in Loads(k)
  PROVE  /\ list \in Seq(KnownAccount)
         /\ k \notin tainted => AllOf(list, k)
         /\ file[k] = <<>> => list = <<>>
         /\ mixed = {} => list = file[k]
<1>1. /\ file[k] \in Seq(KnownAccount) /\ (k \notin tainted => AllOf(file[k], k))
      /\ mixed \subseteq tainted /\ (k \in mixed => file[k] # <<>>)
  BY DEF IInv, TypeOK, RecordsInTheirFile, MixedBehindRecords, SCORES
<1>2. CASE k \notin mixed
  BY <1>1, <1>2 DEF Loads
<1>3. CASE k \in mixed
  <2>1. tainted # {} /\ k \in tainted /\ mixed # {} /\ file[k] # <<>>
    BY <1>1, <1>3
  <2>2. KnownAccount = AnyAccount
    BY <2>1 DEF KnownAccount
  <2>3. PICK stray \in StrayLists : list = file[k] \o stray
    BY <1>3 DEF Loads
  <2>4. stray \in Seq(KnownAccount)
    BY <2>2, StrayAssumption
  <2>5. list \in Seq(KnownAccount)
    BY <1>1, <2>3, <2>4, ConcatType
  <2> QED
    BY <2>1, <2>5
<1> QED
  BY <1>2, <1>3

LEMMA LoadsScoresType ==
  ASSUME IInv, NEW list \in LoadsScores
  PROVE  list \in Seq(KnownRecord) /\ (mixed = {} => list = scores)
<1>1. scores \in Seq(KnownRecord) /\ mixed \subseteq tainted
  BY DEF IInv, TypeOK
<1>2. CASE SCORES \notin mixed
  BY <1>1, <1>2 DEF LoadsScores
<1>3. CASE SCORES \in mixed
  <2>1. tainted # {} /\ mixed # {}
    BY <1>1, <1>3
  <2>2. KnownRecord = AnyRecord
    BY <2>1 DEF KnownRecord
  <2>3. PICK stray \in StrayMarks : list = scores \o stray
    BY <1>3 DEF LoadsScores
  <2>4. stray \in Seq(KnownRecord)
    BY <2>2, StrayAssumption
  <2> QED
    BY <1>1, <2>1, <2>3, <2>4, ConcatType
<1> QED
  BY <1>2, <1>3

LEMMA LoginLoadInv ==
  ASSUME IInv, NEW t \in Terminal, NEW kind \in {STUDENT, TEACH_CN, ADMIN}, LoginLoad(t, kind)
  PROVE  IInv'
<1>1. PICK list \in Loads(kind) : h' = [h EXCEPT ![t] = list]
  BY DEF LoginLoad
<1>2. list \in Seq(KnownAccount)
  BY <1>1, LoadsType DEF STUDENT, TEACH_CN, ADMIN
<1>3. "login" \in WithAccounts /\ "login" \notin WithScores /\ "login" \in Places
  BY DEF WithAccounts, WithScores, Places
<1>4. /\ pc' = [pc EXCEPT ![t] = "login"]
      /\ ap' = [ap EXCEPT ![t] = ap[t]] /\ want' = [want EXCEPT ![t] = want[t]]
  BY Unchanged DEF LoginLoad, Goto
<1>5. /\ ap[t] \in KnownAccount \cup {NoAcnt} /\ want[t] \in {UNSET, STUDENT} \cup TeacherType
      /\ FilesOK
  BY Unchanged, FilesStay DEF LoginLoad
<1> QED
  BY <1>1, <1>2, <1>3, <1>4, <1>5, StepInv

LEMMA LoginDoneInv ==
  ASSUME IInv, NEW t \in Terminal, NEW i \in DOMAIN h[t], LoginDone(t, i)
  PROVE  IInv'
<1>1. h[t][i] \in KnownAccount
  <2>1. h[t] \in Seq(KnownAccount)
    BY DEF IInv, TypeOK, LoginDone, Goto, WithAccounts
  <2> QED
    BY <2>1, Element
<1>2. PICK p, a :
        /\ p = (IF Kind(h[t][i].type) # UNSET THEN "menu" ELSE "start")
        /\ a = (IF Kind(h[t][i].type) # UNSET THEN h[t][i] ELSE NoAcnt)
  OBVIOUS
<1>3. /\ p \notin WithAccounts \cup WithScores /\ p \in Places
      /\ p \notin {"revise", "revise_save", "sign_in"}
  BY <1>2 DEF WithAccounts, WithScores, Places
<1>4. /\ a \in KnownAccount \cup {NoAcnt}
      /\ p \notin {"start", "login", "sign_in"} => a \in KnownAccount /\ Kind(a.type) # UNSET
  BY <1>1, <1>2
<1>5. /\ pc' = [pc EXCEPT ![t] = p] /\ h' = [h EXCEPT ![t] = <<>>]
      /\ ap' = [ap EXCEPT ![t] = a] /\ want' = [want EXCEPT ![t] = want[t]]
  BY <1>2, Unchanged DEF LoginDone, Goto
<1>6. want[t] \in {UNSET, STUDENT} \cup TeacherType /\ FilesOK
  BY Unchanged, FilesStay DEF LoginDone
<1> QED
  BY <1>3, <1>4, <1>5, <1>6, StepInv

LEMMA LogoutInv ==
  ASSUME IInv, NEW t \in Terminal, Logout(t)
  PROVE  IInv'
<1>1. "start" \notin WithAccounts \cup WithScores /\ "start" \in Places
  BY DEF WithAccounts, WithScores, Places
<1>2. h[t] = <<>>
  BY DEF IInv, TypeOK, Logout, Goto, WithAccounts, WithScores
<1>3. UNCHANGED <<file, scores, crashes, mixed, tainted>>
  BY DEF Logout
<1>4. /\ pc' = [pc EXCEPT ![t] = "start"] /\ h' = [h EXCEPT ![t] = h[t]]
      /\ ap' = [ap EXCEPT ![t] = NoAcnt] /\ want' = [want EXCEPT ![t] = want[t]]
  BY Unchanged DEF Logout, Goto
<1>5. /\ want[t] \in {UNSET, STUDENT} \cup TeacherType
      /\ FilesOK
  BY <1>3, Unchanged, FilesStay
<1> QED
  BY <1>1, <1>2, <1>4, <1>5, StepInv

LEMMA SignInLoadInv ==
  ASSUME IInv, NEW t \in Terminal, NEW type \in {STUDENT} \cup TeacherType, SignInLoad(t, type)
  PROVE  IInv'
<1>1. PICK list \in Loads(Kind(type)) : h' = [h EXCEPT ![t] = list]
  BY DEF SignInLoad
<1>2. list \in Seq(KnownAccount) /\ type # UNSET
  BY <1>1, Kinds, LoadsType
<1>3. "sign_in" \in WithAccounts /\ "sign_in" \notin WithScores /\ "sign_in" \in Places
  BY DEF WithAccounts, WithScores, Places
<1>4. /\ pc' = [pc EXCEPT ![t] = "sign_in"]
      /\ ap' = [ap EXCEPT ![t] = ap[t]] /\ want' = [want EXCEPT ![t] = type]
  BY Unchanged DEF SignInLoad, Goto
<1>5. ap[t] \in KnownAccount \cup {NoAcnt} /\ FilesOK
  BY Unchanged, FilesStay DEF SignInLoad
<1> QED
  BY <1>1, <1>2, <1>3, <1>4, <1>5, StepInv

(* What the files hold. *)
LEMMA FilesHold ==
  ASSUME IInv
  PROVE  /\ file \in [1..3 -> Seq(KnownAccount)] /\ scores \in Seq(KnownRecord)
         /\ \A k \in 1..3 \ tainted : AllOf(file[k], k)
         /\ \A k \in mixed \ {SCORES} : file[k] # <<>>
         /\ mixed \subseteq tainted /\ tainted \subseteq 0..3 /\ crashes \in Nat
  BY DEF IInv, TypeOK, RecordsInTheirFile, MixedBehindRecords

(* add_usr() *)
LEMMA AddUsrType ==
  ASSUME IInv, NEW a \in KnownAccount, Kind(a.type) # UNSET, AddUsr(Kind(a.type), a),
         UNCHANGED <<scores, crashes, mixed, tainted>>
  PROVE  FilesOK
<1>1. PICK k : k = Kind(a.type)
  OBVIOUS
<1>2. k \in 1..3 /\ file[k] \in Seq(KnownAccount) /\ (k \notin tainted => AllOf(file[k], k))
  <2>1. k \in 0..3 /\ k # 0
    BY <1>1, KnownKind DEF UNSET
  <2>2. k \in 1..3
    BY <2>1
  <2> QED
    BY <2>2, FilesHold
<1>3. PICK new : new = Append(file[k], a)
  OBVIOUS
<1>4. /\ new \in Seq(KnownAccount) /\ (k \notin tainted => AllOf(new, k))
      /\ new # <<>>
  BY <1>1, <1>2, <1>3, AppendKind
<1>5. file' = file \/ file' = [file EXCEPT ![k] = new]
  BY <1>1, <1>2, <1>3, FilesHold DEF AddUsr
<1> QED
  <2>1. file' \in [1..3 -> Seq(KnownAccount)]
    BY <1>2, <1>4, <1>5, FilesHold
  <2>2. \A j \in 1..3 : file'[j] = file[j] \/ (j = k /\ file'[j] = new)
    BY <1>2, <1>5, FilesHold
  <2>3. \A j \in 1..3 \ tainted' : AllOf(file'[j], j)
    BY <1>4, <2>2, FilesHold
  <2>4. \A j \in mixed' \ {SCORES} : file'[j] # <<>>
    <3>1. \A j \in mixed \ {SCORES} : j \in 1..3
      BY FilesHold DEF SCORES
    <3> QED
      BY <1>4, <2>2, <3>1, FilesHold
  <2> QED
    BY <2>1, <2>3, <2>4, FilesHold DEF FilesOK

LEMMA SignInInv ==
  ASSUME IInv, NEW t \in Terminal, NEW name \in Name, NEW pwd \in Pwd, SignIn(t, name, pwd)
  PROVE  IInv'
<1>1. PICK a, p :
        /\ a = [usrname |-> name, pwd |-> pwd, type |-> want[t]]
        /\ p = (IF want[t] = STUDENT THEN "newstu" ELSE "menu")
  OBVIOUS
<1>2. a \in KnownAccount /\ a.type = want[t] /\ Kind(a.type) # UNSET
  <2>1. want[t] \in {STUDENT} \cup TeacherType
    BY DEF IInv, TypeOK, InSession, SignIn, Goto
  <2>2. a \in Account /\ a.type = want[t]
    BY <1>1, <2>1 DEF Account
  <2> QED
    BY <2>1, <2>2, Known, Kinds DEF UNSET
<1>3. p \notin WithAccounts \cup WithScores /\ p \in Places
      /\ p \notin {"sign_in", "revise", "revise_save"}
  BY <1>1 DEF WithAccounts, WithScores, Places
<1>4. /\ AddUsr(Kind(a.type), a) /\ UNCHANGED <<scores, crashes, mixed, tainted>>
      /\ pc' = [pc EXCEPT ![t] = p] /\ h' = [h EXCEPT ![t] = <<>>]
      /\ ap' = [ap EXCEPT ![t] = a] /\ want' = [want EXCEPT ![t] = UNSET]
  BY <1>1, <1>2 DEF SignIn, Goto
<1>5. FilesOK
  BY <1>2, <1>4, AddUsrType
<1> QED
  BY <1>2, <1>3, <1>4, <1>5, StepInv

LEMMA NewStudentInv ==
  ASSUME IInv, NEW t \in Terminal, NewStudent(t)
  PROVE  IInv'
<1>1. ap[t] \in KnownAccount /\ Kind(ap[t].type) # UNSET /\ h[t] = <<>>
  BY DEF IInv, TypeOK, InSession, NewStudent, Goto, WithAccounts, WithScores
<1>2. "menu" \notin WithAccounts \cup WithScores /\ "menu" \in Places
  BY DEF WithAccounts, WithScores, Places
<1>3. scores' \in Seq(KnownRecord)
  <2>1. PICK r : r = [usrname |-> ap[t].usrname, marks |-> NoMarks]
    OBVIOUS
  <2>2. NoMarks \in [0..(COURSENUMBER - 1) -> Mark] /\ NoMarks \in [0..(COURSENUMBER - 1) -> Int]
    BY MarkAssumption DEF NoMarks
  <2>3. r \in KnownRecord
    BY <1>1, <2>1, <2>2 DEF KnownRecord, KnownAccount, Record, Account, AnyRecord, AnyAccount
  <2>4. scores' = scores \/ scores' = Append(scores, r)
    BY <2>1 DEF NewStudent
  <2> QED
    <3>1. ASSUME NEW list \in Seq(KnownRecord) PROVE Append(list, r) \in Seq(KnownRecord)
      BY <2>3
    <3> QED
      BY <2>4, <3>1, FilesHold
<1>4. /\ pc' = [pc EXCEPT ![t] = "menu"] /\ h' = [h EXCEPT ![t] = h[t]]
      /\ ap' = [ap EXCEPT ![t] = ap[t]] /\ want' = [want EXCEPT ![t] = want[t]]
  BY Unchanged DEF NewStudent, Goto
<1>5. want[t] \in {UNSET, STUDENT} \cup TeacherType
  BY Unchanged
<1>6. FilesOK
  BY <1>3 DEF NewStudent, IInv, TypeOK, RecordsInTheirFile, MixedBehindRecords, FilesOK
<1> QED
  BY <1>1, <1>2, <1>4, <1>5, <1>6, StepInv

LEMMA AddAdminLoadInv ==
  ASSUME IInv, NEW t \in Terminal, AddAdminLoad(t)
  PROVE  IInv'
<1>1. PICK list \in Loads(ADMIN) : h' = [h EXCEPT ![t] = list]
  BY DEF AddAdminLoad
<1>2. list \in Seq(KnownAccount)
  <2>1. ADMIN \in 1..3
    BY DEF ADMIN
  <2> QED
    BY <1>1, <2>1, LoadsType
<1>3. ap[t] \in KnownAccount /\ Kind(ap[t].type) # UNSET
  BY DEF IInv, InSession, AddAdminLoad, Goto
<1>4. "add_admin" \in WithAccounts /\ "add_admin" \notin WithScores /\ "add_admin" \in Places
  BY DEF WithAccounts, WithScores, Places
<1>5. /\ pc' = [pc EXCEPT ![t] = "add_admin"]
      /\ ap' = [ap EXCEPT ![t] = ap[t]] /\ want' = [want EXCEPT ![t] = want[t]]
  BY Unchanged DEF AddAdminLoad, Goto
<1>6. want[t] \in {UNSET, STUDENT} \cup TeacherType /\ FilesOK
  BY Unchanged, FilesStay DEF AddAdminLoad
<1> QED
  BY <1>1, <1>2, <1>3, <1>4, <1>5, <1>6, StepInv

LEMMA AddAdminInv ==
  ASSUME IInv, NEW t \in Terminal, NEW name \in Name, NEW pwd \in Pwd, AddAdmin(t, name, pwd)
  PROVE  IInv'
<1>1. PICK a : a = [usrname |-> name, pwd |-> pwd, type |-> ADMIN]
  OBVIOUS
<1>2. a \in KnownAccount /\ a.type = ADMIN /\ Kind(ADMIN) = ADMIN /\ ADMIN # UNSET
  <2>1. a \in Account /\ a.type = ADMIN
    BY <1>1 DEF Account
  <2> QED
    BY <2>1, Known, Kinds DEF ADMIN, UNSET
<1>3. "menu" \notin WithAccounts \cup WithScores /\ "menu" \in Places
  BY DEF WithAccounts, WithScores, Places
<1>4. AddUsr(Kind(a.type), a) /\ UNCHANGED <<scores, crashes, mixed, tainted>>
  BY <1>1, <1>2 DEF AddAdmin
<1>5. /\ pc' = [pc EXCEPT ![t] = "menu"] /\ h' = [h EXCEPT ![t] = <<>>]
      /\ ap' = [ap EXCEPT ![t] = ap[t]] /\ want' = [want EXCEPT ![t] = want[t]]
  BY Unchanged DEF AddAdmin, Goto
<1>6. /\ ap[t] \in KnownAccount /\ Kind(ap[t].type) # UNSET
      /\ want[t] \in {UNSET, STUDENT} \cup TeacherType
  BY Unchanged DEF IInv, InSession, AddAdmin, Goto
<1>7. FilesOK
  BY <1>2, <1>4, AddUsrType
<1> QED
  BY <1>3, <1>5, <1>6, <1>7, StepInv

-----------------------------------------------------------------------------
LEMMA ReviseLoadInv ==
  ASSUME IInv, NEW t \in Terminal, ReviseLoad(t)
  PROVE  IInv'
<1>1. PICK k : k = Kind(ap[t].type)
  OBVIOUS
<1>2. ap[t] \in KnownAccount /\ k \in 1..3 /\ k # UNSET
  <2>1. ap[t] \in KnownAccount /\ k # UNSET
    BY <1>1 DEF IInv, InSession, ReviseLoad, Goto
  <2> QED
    BY <1>1, <2>1, KnownKind DEF UNSET
<1>3. PICK list \in Loads(k) : h' = [h EXCEPT ![t] = list]
  BY <1>1 DEF ReviseLoad
<1>4. list \in Seq(KnownAccount) /\ (k \in tainted \/ AllOf(list, k))
  BY <1>2, <1>3, LoadsType
<1>5. "revise" \in WithAccounts /\ "revise" \notin WithScores /\ "revise" \in Places
  BY DEF WithAccounts, WithScores, Places
<1>6. /\ pc' = [pc EXCEPT ![t] = "revise"] /\ tainted' = tainted
      /\ ap' = [ap EXCEPT ![t] = ap[t]] /\ want' = [want EXCEPT ![t] = want[t]]
  BY Unchanged DEF ReviseLoad, Goto
<1>7. want[t] \in {UNSET, STUDENT} \cup TeacherType /\ FilesOK
  BY Unchanged, FilesStay DEF ReviseLoad
<1>8. Kind(ap[t].type) \in tainted' \/ AllOf(list, Kind(ap[t].type))
  BY <1>1, <1>4, <1>6
<1>9. Kind(ap[t].type) # UNSET
  BY <1>1, <1>2
<1> QED
  BY <1>2, <1>3, <1>4, <1>5, <1>6, <1>7, <1>8, <1>9, StepInv

(* A new password changes neither the name nor the type. *)
LEMMA NewPwdOf ==
  ASSUME NEW N, NEW P, NEW T, NEW a \in [usrname : N, pwd : P, type : T], NEW pwd \in P
  PROVE  LET b == [a EXCEPT !.pwd = pwd]
         IN  /\ b \in [usrname : N, pwd : P, type : T]
             /\ b.usrname = a.usrname /\ b.type = a.type /\ b.pwd = pwd
  OBVIOUS

LEMMA NewPwd ==
  ASSUME NEW a \in KnownAccount, NEW pwd \in Pwd
  PROVE  LET b == [a EXCEPT !.pwd = pwd]
         IN  b \in KnownAccount /\ b.usrname = a.usrname /\ b.type = a.type /\ b.pwd = pwd
<1>1. CASE tainted = {}
  BY <1>1, NewPwdOf DEF KnownAccount, Account
<1>2. CASE tainted # {}
  <2>1. pwd \in Word
    BY WordAssumption
  <2> QED
    BY <1>2, <2>1, NewPwdOf DEF KnownAccount, AnyAccount
<1> QED
  BY <1>1, <1>2

LEMMA ListWithPwd ==
  ASSUME NEW list \in Seq(KnownAccount), NEW i \in DOMAIN list, NEW pwd \in Pwd
  PROVE  LET new == [list EXCEPT ![i] = [list[i] EXCEPT !.pwd = pwd]]
         IN  new \in Seq(KnownAccount) /\ new # <<>> /\ \A k : AllOf(list, k) => AllOf(new, k)
<1>1. PICK b : b = [list[i] EXCEPT !.pwd = pwd]
  OBVIOUS
<1>2. b \in KnownAccount /\ b.type = list[i].type
  BY <1>1, Element, NewPwd
<1>3. PICK new : new = [list EXCEPT ![i] = b]
  OBVIOUS
<1>4. new \in Seq(KnownAccount)
  BY <1>2, <1>3
<1>5. DOMAIN new = DOMAIN list /\ new[i] = b /\ \A j \in DOMAIN list : j # i => new[j] = list[j]
  BY <1>3
<1>6. new # <<>>
  BY <1>4, <1>5
<1>7. ASSUME NEW k, AllOf(list, k) PROVE AllOf(new, k)
  BY <1>2, <1>5, <1>7 DEF AllOf
<1> QED
  BY <1>1, <1>3, <1>4, <1>6, <1>7

LEMMA ReviseOpenInv ==
  ASSUME IInv, NEW t \in Terminal, NEW pwd \in Pwd, ReviseOpen(t, pwd)
  PROVE  IInv'
<1>1. PICK k : k = Kind(ap[t].type)
  OBVIOUS
<1>2. /\ ap[t] \in KnownAccount /\ h[t] \in Seq(KnownAccount) /\ k # UNSET
      /\ k \in tainted \/ AllOf(h[t], k)
      /\ want[t] \in {UNSET, STUDENT} \cup TeacherType
  BY <1>1 DEF IInv, TypeOK, RecordsInTheirFile, InSession, ReviseOpen, Goto, WithAccounts
<1>3. k \in 1..3
  BY <1>1, <1>2, KnownKind DEF UNSET
<1>4. PICK i \in DOMAIN h[t] : h' = [h EXCEPT ![t][i].pwd = pwd]
  BY DEF ReviseOpen
<1>5. PICK l : l = [h[t] EXCEPT ![i] = [h[t][i] EXCEPT !.pwd = pwd]]
  OBVIOUS
<1>6. PICK a : a = [ap[t] EXCEPT !.pwd = pwd]
  OBVIOUS
<1>7. l \in Seq(KnownAccount) /\ l # <<>> /\ (k \in tainted \/ AllOf(l, k))
  BY <1>2, <1>5, ListWithPwd
<1>8. a \in KnownAccount /\ a.type = ap[t].type
  BY <1>2, <1>6, NewPwd
<1>9. /\ pc' = [pc EXCEPT ![t] = "revise_save"] /\ h' = [h EXCEPT ![t] = l]
      /\ ap' = [ap EXCEPT ![t] = a] /\ want' = [want EXCEPT ![t] = want[t]]
  BY <1>4, <1>5, <1>6, Unchanged DEF ReviseOpen, Goto
<1>10. /\ file' = [file EXCEPT ![k] = <<>>] /\ mixed' = mixed \ {k}
       /\ UNCHANGED <<scores, crashes, tainted>>
  BY <1>1 DEF ReviseOpen
<1>11. FilesOK
  BY <1>3, <1>10, EmptyList, Unchanged DEF FilesOK
<1>12. "revise_save" \in WithAccounts /\ "revise_save" \notin WithScores /\ "revise_save" \in Places
  BY DEF WithAccounts, WithScores, Places
<1>13. Kind(a.type) # UNSET /\ (Kind(a.type) \in tainted' \/ AllOf(l, Kind(a.type)))
  BY <1>1, <1>2, <1>7, <1>8, <1>10
<1> QED
  BY <1>2, <1>7, <1>8, <1>9, <1>11, <1>12, <1>13, StepInv

LEMMA ReviseCloseInv ==
  ASSUME IInv, NEW t \in Terminal, ReviseClose(t)
  PROVE  IInv'
<1>1. PICK k : k = Kind(ap[t].type)
  OBVIOUS
<1>2. /\ ap[t] \in KnownAccount /\ h[t] \in Seq(KnownAccount) /\ k # UNSET /\ h[t] # <<>>
      /\ k \in tainted \/ AllOf(h[t], k)
      /\ want[t] \in {UNSET, STUDENT} \cup TeacherType
  BY <1>1 DEF IInv, TypeOK, RecordsInTheirFile, InSession, MixedBehindRecords, ReviseClose, Goto,
              WithAccounts
<1>3. k \in 1..3
  BY <1>1, <1>2, KnownKind DEF UNSET
<1>4. PICK new : new = WriteOver(file[k], h[t])
  OBVIOUS
<1>5. new \in Seq(KnownAccount) /\ new # <<>> /\ (k \in tainted \/ AllOf(new, k))
  <2>1. file[k] \in Seq(KnownAccount) /\ (k \in tainted \/ AllOf(file[k], k))
    BY <1>3, Unchanged
  <2> QED
    BY <1>2, <1>4, <2>1, WriteOverType
<1>6. /\ pc' = [pc EXCEPT ![t] = "menu"] /\ h' = [h EXCEPT ![t] = <<>>]
      /\ ap' = [ap EXCEPT ![t] = ap[t]] /\ want' = [want EXCEPT ![t] = want[t]]
      /\ file' = [file EXCEPT ![k] = new]
  BY <1>1, <1>4, Unchanged DEF ReviseClose, Goto
<1>7. /\ mixed' \subseteq mixed \cup {k} /\ tainted' = tainted \cup mixed'
      /\ UNCHANGED <<scores, crashes>>
  BY <1>1 DEF ReviseClose, Mixes
<1>8. FilesOK
  BY <1>3, <1>5, <1>6, <1>7, Unchanged DEF FilesOK
<1>9. "menu" \notin WithAccounts \cup WithScores /\ "menu" \in Places
  BY DEF WithAccounts, WithScores, Places
<1> QED
  BY <1>1, <1>2, <1>6, <1>8, <1>9, StepInv

(* A copy goes back to its menu and leaves the files as they are. *)
LEMMA BackInv ==
  ASSUME IInv, NEW t \in Terminal, ReviseRefused(t) \/ ReviseScoreNot(t)
  PROVE  IInv'
<1>1. /\ ap[t] \in KnownAccount /\ Kind(ap[t].type) # UNSET
      /\ want[t] \in {UNSET, STUDENT} \cup TeacherType
  BY DEF IInv, TypeOK, InSession, ReviseRefused, ReviseScoreNot, Goto
<1>2. "menu" \notin WithAccounts \cup WithScores /\ "menu" \in Places
  BY DEF WithAccounts, WithScores, Places
<1>3. /\ pc' = [pc EXCEPT ![t] = "menu"] /\ h' = [h EXCEPT ![t] = <<>>]
      /\ ap' = [ap EXCEPT ![t] = ap[t]] /\ want' = [want EXCEPT ![t] = want[t]]
  BY Unchanged DEF ReviseRefused, ReviseScoreNot, Goto
<1>4. FilesOK
  BY Unchanged, FilesStay DEF ReviseRefused, ReviseScoreNot
<1> QED
  BY <1>1, <1>2, <1>3, <1>4, StepInv

-----------------------------------------------------------------------------
LEMMA ScoresLoadInv ==
  ASSUME IInv, NEW t \in Terminal, NEW op \in {"one_score", "all_scores"}, ScoresLoad(t, op)
  PROVE  IInv'
<1>1. ap[t] \in KnownAccount /\ Kind(ap[t].type) = TEACH_CN /\ Kind(ap[t].type) # UNSET
  BY DEF IInv, InSession, ScoresLoad, Goto
<1>2. op \in WithScores /\ op \notin WithAccounts /\ op \in Places
  BY DEF WithAccounts, WithScores, Places
<1>3. PICK list \in LoadsScores : h' = [h EXCEPT ![t] = list]
  BY DEF ScoresLoad
<1>4. list \in Seq(KnownRecord)
  BY LoadsScoresType
<1>5. /\ pc' = [pc EXCEPT ![t] = op]
      /\ ap' = [ap EXCEPT ![t] = ap[t]] /\ want' = [want EXCEPT ![t] = want[t]]
  BY Unchanged DEF ScoresLoad, Goto
<1>6. want[t] \in {UNSET, STUDENT} \cup TeacherType /\ FilesOK
  BY Unchanged, FilesStay DEF ScoresLoad
<1>7. op \notin {"revise", "revise_save", "sign_in"}
  OBVIOUS
<1> QED
  BY <1>1, <1>2, <1>3, <1>4, <1>5, <1>6, <1>7, StepInv

(* A mark goes into the teacher's column, if there is one. *)
LEMMA NewMark ==
  ASSUME NEW r \in KnownRecord, NEW type, NEW mark \in Mark
  PROVE  WithMark(r, type, mark) \in KnownRecord
<1>1. ASSUME NEW N, NEW M, NEW x \in [usrname : N, marks : [0..(COURSENUMBER - 1) -> M]], mark \in M
      PROVE  WithMark(x, type, mark) \in [usrname : N, marks : [0..(COURSENUMBER - 1) -> M]]
  <2>1. PICK marks : marks = [c \in DOMAIN x.marks |-> IF c = Course(type) THEN mark ELSE x.marks[c]]
    OBVIOUS
  <2>2. marks \in [0..(COURSENUMBER - 1) -> M]
    BY <1>1, <2>1
  <2>3. WithMark(x, type, mark) = [x EXCEPT !.marks = marks]
    BY <2>1 DEF WithMark
  <2> QED
    BY <2>2, <2>3
<1>2. CASE tainted = {}
  BY <1>1, <1>2 DEF KnownRecord, Record
<1>3. CASE tainted # {}
  <2>1. mark \in Int
    BY MarkAssumption
  <2> QED
    BY <1>1, <1>3, <2>1 DEF KnownRecord, AnyRecord
<1> QED
  BY <1>2, <1>3

(* Whoever has marks in memory is a teacher. *)
LEMMA HasScores ==
  ASSUME IInv, NEW t \in Terminal, pc[t] \in WithScores
  PROVE  /\ ap[t] \in KnownAccount /\ Kind(ap[t].type) = TEACH_CN /\ Kind(ap[t].type) # UNSET
         /\ h[t] \in Seq(KnownRecord)
<1>1. pc[t] \notin {"start", "login", "sign_in"}
  BY DEF WithScores
<1> QED
  BY <1>1 DEF IInv, TypeOK, RecordsInTheirFile, InSession

(* The list with new marks replaces the file. *)
LEMMA ScoresOpenInv ==
  ASSUME IInv, NEW t \in Terminal, pc[t] \in WithScores, NEW l \in Seq(KnownRecord),
         pc' = [pc EXCEPT ![t] = "scores_save"], h' = [h EXCEPT ![t] = l],
         scores' = <<>>, mixed' = mixed \ {SCORES}, UNCHANGED <<file, ap, want, crashes, tainted>>
  PROVE  IInv'
<1>1. ap[t] \in KnownAccount /\ Kind(ap[t].type) = TEACH_CN /\ Kind(ap[t].type) # UNSET
  BY HasScores
<1>2. "scores_save" \in WithScores /\ "scores_save" \notin WithAccounts /\ "scores_save" \in Places
  BY DEF WithAccounts, WithScores, Places
<1>3. /\ ap' = [ap EXCEPT ![t] = ap[t]] /\ want' = [want EXCEPT ![t] = want[t]]
      /\ want[t] \in {UNSET, STUDENT} \cup TeacherType
  BY Unchanged
<1>4. FilesOK
  BY EmptyList, Unchanged DEF FilesOK
<1> QED
  BY <1>1, <1>2, <1>3, <1>4, StepInv

LEMMA ReviseScoreOpenInv ==
  ASSUME IInv, NEW t \in Terminal, NEW i \in DOMAIN h[t], NEW mark \in Mark,
         ReviseScoreOpen(t, i, mark)
  PROVE  IInv'
<1>1. pc[t] \in WithScores
  BY DEF ReviseScoreOpen, Goto, WithScores
<1>2. h[t] \in Seq(KnownRecord)
  BY <1>1, HasScores
<1>3. PICK r : r = WithMark(h[t][i], ap[t].type, mark)
  OBVIOUS
<1>4. r \in KnownRecord
  BY <1>2, <1>3, Element, NewMark
<1>5. PICK l : l = [h[t] EXCEPT ![i] = r]
  OBVIOUS
<1>6. l \in Seq(KnownRecord)
  BY <1>2, <1>4, <1>5
<1>7. h' = [h EXCEPT ![t] = l]
  BY <1>3, <1>5 DEF ReviseScoreOpen
<1> QED
  BY <1>1, <1>6, <1>7, ScoresOpenInv DEF ReviseScoreOpen, Goto

LEMMA InputScoresOpenInv ==
  ASSUME IInv, NEW t \in Terminal, NEW marks \in [DOMAIN h[t] -> Mark], InputScoresOpen(t, marks)
  PROVE  IInv'
<1>1. pc[t] \in WithScores
  BY DEF InputScoresOpen, Goto, WithScores
<1>2. h[t] \in Seq(KnownRecord)
  BY <1>1, HasScores
<1> DEFINE r(i) == WithMark(h[t][i], ap[t].type, marks[i])
           l == [i \in DOMAIN h[t] |-> r(i)]
<1>3. \A i \in DOMAIN h[t] : r(i) \in KnownRecord
  BY <1>2, Element, NewMark
<1>4. h' = [h EXCEPT ![t] = l]
  BY DEF InputScoresOpen
<1> HIDE DEF r
<1>5. l \in Seq(KnownRecord)
  <2>1. DOMAIN h[t] = 1..Len(h[t]) /\ Len(h[t]) \in Nat
    BY <1>2
  <2> QED
    BY <1>3, <2>1
<1> HIDE DEF l
<1> QED
  BY <1>1, <1>4, <1>5, ScoresOpenInv DEF InputScoresOpen, Goto

LEMMA ScoresCloseInv ==
  ASSUME IInv, NEW t \in Terminal, ScoresClose(t)
  PROVE  IInv'
<1>1. ap[t] \in KnownAccount /\ Kind(ap[t].type) # UNSET /\ h[t] \in Seq(KnownRecord)
  BY HasScores DEF ScoresClose, Goto, WithScores
<1>2. "menu" \notin WithAccounts \cup WithScores /\ "menu" \in Places
  BY DEF WithAccounts, WithScores, Places
<1>3. scores' \in Seq(KnownRecord)
  BY <1>1, Unchanged, WriteOverType DEF ScoresClose
<1>4. /\ pc' = [pc EXCEPT ![t] = "menu"] /\ h' = [h EXCEPT ![t] = <<>>]
      /\ ap' = [ap EXCEPT ![t] = ap[t]] /\ want' = [want EXCEPT ![t] = want[t]]
  BY Unchanged DEF ScoresClose, Goto
<1>5. /\ mixed' \subseteq mixed \cup {SCORES} /\ tainted' = tainted \cup mixed'
      /\ UNCHANGED <<file, crashes>>
  BY DEF ScoresClose, Mixes
<1>6. want[t] \in {UNSET, STUDENT} \cup TeacherType
  BY Unchanged
<1>7. FilesOK
  BY <1>3, <1>5, Unchanged DEF FilesOK, SCORES
<1> QED
  BY <1>1, <1>2, <1>4, <1>6, <1>7, StepInv

-----------------------------------------------------------------------------
(* A killed copy starts again and owes the files nothing. *)
LEMMA CrashInv ==
  ASSUME IInv, NEW t \in Terminal, Crash(t)
  PROVE  IInv'
<1>1. "start" \notin WithAccounts \cup WithScores /\ "start" \in Places
  BY DEF WithAccounts, WithScores, Places
<1>2. /\ pc' = [pc EXCEPT ![t] = "start"] /\ h' = [h EXCEPT ![t] = <<>>]
      /\ ap' = [ap EXCEPT ![t] = NoAcnt] /\ want' = [want EXCEPT ![t] = UNSET]
  BY DEF Crash
<1>3. FilesOK
  BY Unchanged, FilesStay DEF Crash
<1>4. UNSET \in {UNSET, STUDENT} \cup TeacherType
  OBVIOUS
<1> QED
  BY <1>1, <1>2, <1>3, <1>4, StepInv

LEMMA StutterInv == ASSUME IInv, UNCHANGED vars PROVE IInv'
  BY DEF IInv, TypeOK, RecordsInTheirFile, InSession, MixedBehindRecords, KnownAccount, KnownRecord,
         vars

LEMMA NextInv == IInv /\ [Next]_vars => IInv'
<1> SUFFICES ASSUME IInv, [Next]_vars PROVE IInv'
  OBVIOUS
<1>1. CASE \E t \in Terminal :
             \/ \E kind \in {STUDENT, TEACH_CN, ADMIN} : LoginLoad(t, kind)
             \/ \E i \in DOMAIN h[t] : LoginDone(t, i)
             \/ Logout(t)
  BY <1>1, LoginLoadInv, LoginDoneInv, LogoutInv
<1>2. CASE \E t \in Terminal :
             \/ \E type \in {STUDENT} \cup TeacherType : SignInLoad(t, type)
             \/ \E name \in Name, pwd \in Pwd : SignIn(t, name, pwd) \/ AddAdmin(t, name, pwd)
             \/ NewStudent(t)
             \/ AddAdminLoad(t)
  BY <1>2, SignInLoadInv, SignInInv, AddAdminInv, NewStudentInv, AddAdminLoadInv
<1>3. CASE \E t \in Terminal :
             \/ ReviseLoad(t)
             \/ \E pwd \in Pwd : ReviseOpen(t, pwd)
             \/ ReviseClose(t)
             \/ ReviseRefused(t) \/ ReviseScoreNot(t)
  BY <1>3, ReviseLoadInv, ReviseOpenInv, ReviseCloseInv, BackInv
<1>4. CASE \E t \in Terminal :
             \/ \E op \in {"one_score", "all_scores"} : ScoresLoad(t, op)
             \/ \E i \in DOMAIN h[t], mark \in Mark : ReviseScoreOpen(t, i, mark)
             \/ \E marks \in [DOMAIN h[t] -> Mark] : InputScoresOpen(t, marks)
             \/ ScoresClose(t)
  BY <1>4, ScoresLoadInv, ReviseScoreOpenInv, InputScoresOpenInv, ScoresCloseInv
<1>5. CASE \E t \in Terminal : Crash(t)
  BY <1>5, CrashInv
<1>6. CASE UNCHANGED vars
  BY <1>6, StutterInv
<1> QED
  BY <1>1, <1>2, <1>3, <1>4, <1>5, <1>6 DEF Next

-----------------------------------------------------------------------------
(* What the copies hold, and where they may write it, is invariant.        *)
THEOREM Inductive == Spec => []IInv
  BY InitInv, NextInv, PTL DEF Spec

(* Type correctness of the files, the lists in memory and the sessions:    *)
(* what users have made until some text is misplaced, what fscanf() reads  *)
(* after that.                                                             *)
THEOREM TypeCorrect == Spec => []TypeOK
<1>1. IInv => TypeOK
  BY DEF IInv
<1> QED
  BY <1>1, Inductive, PTL

(* However many copies run and are killed, an account is only ever in the  *)
(* file of its kind, as long as no save of that file has ended inside a    *)
(* record of a longer text that another copy saved meanwhile.              *)
THEOREM KindsKeptApart == Spec => []RecordsInTheirFile
<1>1. IInv => RecordsInTheirFile
  BY DEF IInv
<1> QED
  BY <1>1, Inductive, PTL

(* A dead file is not written: every way to write it starts by loading it, *)
(* and none goes on from an empty list.                                    *)
LEMMA DeadStays ==
  ASSUME IInv, [Next]_vars, NEW k \in 1..3, Dead(k)
  PROVE  Dead(k)'
<1>1. /\ file \in [1..3 -> Seq(KnownAccount)] /\ ap \in [Terminal -> KnownAccount \cup {NoAcnt}]
      /\ pc \in [Terminal -> Places] /\ want \in [Terminal -> {UNSET, STUDENT} \cup TeacherType]
  BY DEF IInv, TypeOK, Places
<1>2. CASE \E t \in Terminal :
             \/ \E kind \in {STUDENT, TEACH_CN, ADMIN} : LoginLoad(t, kind)
             \/ \E i \in DOMAIN h[t] : LoginDone(t, i)
             \/ Logout(t) \/ NewStudent(t) \/ ReviseRefused(t) \/ ReviseScoreNot(t)
             \/ ScoresClose(t) \/ Crash(t)
  BY <1>1, <1>2 DEF LoginLoad, LoginDone, Logout, NewStudent, ReviseRefused, ReviseScoreNot,
                    ScoresClose, Crash, Goto, Dead, Writes
<1>3. CASE \E t \in Terminal :
             \/ \E op \in {"one_score", "all_scores"} : ScoresLoad(t, op)
             \/ \E i \in DOMAIN h[t], mark \in Mark : ReviseScoreOpen(t, i, mark)
             \/ \E marks \in [DOMAIN h[t] -> Mark] : InputScoresOpen(t, marks)
  BY <1>1, <1>3 DEF ScoresLoad, ReviseScoreOpen, InputScoresOpen, Goto, Dead, Writes
<1>4. ASSUME NEW t \in Terminal, NEW type \in {STUDENT} \cup TeacherType, SignInLoad(t, type)
      PROVE  Dead(k)'
  <2>1. PICK list \in Loads(Kind(type)) : list # <<>>
    BY <1>4 DEF SignInLoad
  <2>2. file[Kind(type)] # <<>>
    BY <2>1, Kinds, LoadsType
  <2> QED
    BY <1>1, <1>4, <2>2 DEF SignInLoad, Goto, Dead, Writes
<1>5. ASSUME NEW t \in Terminal, AddAdminLoad(t) PROVE Dead(k)'
  <2>1. PICK list \in Loads(ADMIN) : list # <<>>
    BY <1>5 DEF AddAdminLoad
  <2>2. file[ADMIN] # <<>>
    BY <2>1, LoadsType DEF ADMIN
  <2> QED
    BY <1>1, <1>5, <2>2 DEF AddAdminLoad, Goto, Dead, Writes
<1>6. ASSUME NEW t \in Terminal, ReviseLoad(t) PROVE Dead(k)'
  <2>0. PICK list \in Loads(Kind(ap[t].type)) : list # <<>>
    BY <1>6 DEF ReviseLoad, Has
  <2>1. file[Kind(ap[t].type)] # <<>> \/ Kind(ap[t].type) \notin 1..3
    BY <2>0, LoadsType
  <2> QED
    BY <1>1, <1>6, <2>1 DEF ReviseLoad, Goto, Dead, Writes
<1>7. ASSUME NEW t \in Terminal, NEW name \in Name, NEW pwd \in Pwd, SignIn(t, name, pwd)
      PROVE  Dead(k)'
  <2>1. Kind(want[t]) # k
    BY <1>7 DEF SignIn, Goto, Dead, Writes
  <2>2. file'[k] = file[k]
    BY <1>1, <1>7, <2>1 DEF SignIn, AddUsr
  <2>3. pc'[t] \in {"newstu", "menu"}
        /\ \A u \in Terminal \ {t} : pc'[u] = pc[u] /\ ap'[u] = ap[u] /\ want'[u] = want[u]
    BY <1>1, <1>7 DEF SignIn, Goto
  <2> QED
    BY <2>2, <2>3 DEF Dead, Writes
<1>8. ASSUME NEW t \in Terminal, NEW name \in Name, NEW pwd \in Pwd, AddAdmin(t, name, pwd)
      PROVE  Dead(k)'
  <2>1. k # ADMIN
    BY <1>8 DEF AddAdmin, Goto, Dead, Writes
  <2> QED
    BY <1>1, <1>8, <2>1 DEF AddAdmin, AddUsr, Goto, Dead, Writes
<1>9. ASSUME NEW t \in Terminal, NEW pwd \in Pwd, ReviseOpen(t, pwd)
      PROVE  Dead(k)'
  <2>1. k # Kind(ap[t].type) /\ ap[t] \in KnownAccount
    BY <1>9 DEF ReviseOpen, Goto, Dead, Writes, IInv, InSession
  <2>2. file'[k] = file[k]
    BY <1>1, <1>9, <2>1 DEF ReviseOpen
  <2>3. PICK a : a = [ap[t] EXCEPT !.pwd = pwd]
    OBVIOUS
  <2>4. a.type = ap[t].type
    BY <2>1, <2>3, NewPwd
  <2>5. /\ pc'[t] = "revise_save" /\ ap'[t] = a
        /\ \A u \in Terminal \ {t} : pc'[u] = pc[u] /\ ap'[u] = ap[u] /\ want'[u] = want[u]
    BY <1>1, <1>9, <2>3 DEF ReviseOpen, Goto
  <2>6. ~Writes(t, k)'
    BY <2>1, <2>4, <2>5 DEF Writes
  <2>7. \A u \in Terminal \ {t} : ~Writes(u, k)'
    BY <2>5 DEF Writes, Dead
  <2> QED
    BY <2>2, <2>6, <2>7 DEF Dead
<1>10. ASSUME NEW t \in Terminal, ReviseClose(t) PROVE Dead(k)'
  <2>1. k # Kind(ap[t].type)
    BY <1>10 DEF ReviseClose, Goto, Dead, Writes
  <2> QED
    BY <1>1, <1>10, <2>1 DEF ReviseClose, Goto, Dead, Writes
<1>11. CASE UNCHANGED vars
  BY <1>11 DEF vars, Dead, Writes
<1> QED
  BY <1>2, <1>3, <1>4, <1>5, <1>6, <1>7, <1>8, <1>9, <1>10, <1>11 DEF Next

(* An account file that a killed copy left empty is empty for good.        *)
THEOREM DeadForGood == Spec => EmptyForever
<1>1. IInv /\ [Next]_vars => [\A k \in 1..3 : Dead(k) => Dead(k)']_vars
  BY DeadStays
<1> QED
  BY <1>1, Inductive, PTL DEF Spec, EmptyForever

-----------------------------------------------------------------------------
(* A copy that runs alone. *)
LEMMA AppendUnique ==
  ASSUME NEW list \in Seq(Account), NEW a \in Account
  PROVE  /\ Holds(Append(list, a), a)
         /\ \A b : Holds(list, b) => Holds(Append(list, a), b)
         /\ Unique(list) /\ ~Has(list, a.usrname) => Unique(Append(list, a))
<1>1. PICK r : r = Append(list, a)
  OBVIOUS
<1>2. /\ DOMAIN list = 1..Len(list) /\ DOMAIN r = 1..(Len(list) + 1) /\ Len(list) \in Nat
      /\ r[Len(list) + 1] = a
      /\ \A i \in 1..Len(list) : r[i] = list[i]
  BY <1>1
<1>3. /\ Len(list) + 1 \in DOMAIN r
      /\ \A i \in DOMAIN list : i \in DOMAIN r /\ r[i] = list[i]
      /\ \A i \in DOMAIN r : i = Len(list) + 1 \/ i \in DOMAIN list
  BY <1>2
<1>4. Holds(r, a)
  BY <1>2, <1>3 DEF Holds
<1>5. \A b : Holds(list, b) => Holds(r, b)
  BY <1>3 DEF Holds
<1>6. ASSUME Unique(list), ~Has(list, a.usrname) PROVE Unique(r)
  BY <1>2, <1>3, <1>6 DEF Unique, Has
<1> QED
  BY <1>1, <1>4, <1>5, <1>6

LEMMA PwdUnique ==
  ASSUME NEW list \in Seq(KnownAccount), NEW i \in DOMAIN list, NEW pwd \in Pwd, Unique(list)
  PROVE  LET b == [list[i] EXCEPT !.pwd = pwd]
             new == [list EXCEPT ![i] = b]
         IN  Unique(new) /\ Holds(new, b)
<1>1. PICK b : b = [list[i] EXCEPT !.pwd = pwd]
  OBVIOUS
<1>2. b.usrname = list[i].usrname
  BY <1>1, Element, NewPwd
<1>3. PICK new : new = [list EXCEPT ![i] = b]
  OBVIOUS
<1>4. DOMAIN new = DOMAIN list /\ new[i] = b /\ \A j \in DOMAIN list : j # i => new[j] = list[j]
  BY <1>3
<1>5. Unique(new) /\ Holds(new, b)
  BY <1>2, <1>4 DEF Unique, Holds
<1> QED
  BY <1>1, <1>3, <1>5

(* What is saved over an empty file is the list, and no text is misplaced. *)
LEMMA WriteOverEmpty ==
  ASSUME NEW S, NEW list \in Seq(S), NEW k
  PROVE  /\ WriteOver(<<>>, list) = list
         /\ mixed = {} /\ tainted = {} /\ Mixes(k, <<>>, list) => mixed' = {} /\ tainted' = {}
<1>1. Len(<<>>) = 0 /\ 0..0 = {0} /\ 1..0 = {}
  OBVIOUS
<1>2. SubSeq(<<>>, 1, 0) = <<>>
  <2>1. SubSeq(<<>>, 1, 0) \in Seq(S) /\ Len(SubSeq(<<>>, 1, 0)) = 0
    OBVIOUS
  <2> QED
    BY <2>1, EmptySeq
<1>3. Left(<<>>, list) = <<>>
  BY <1>1, <1>2 DEF Left
<1>4. WriteOver(<<>>, list) = list
  BY <1>3, ConcatEmptySeq DEF WriteOver
<1>5. ~Splits(<<>>, list)
  BY <1>1 DEF Splits
<1> QED
  BY <1>4, <1>5 DEF Mixes

(* t is the only copy. *)
Alone(t) == Terminal = {t}

(* It reads only what users have made, and all of it. *)
LEMMA AloneKnown ==
  ASSUME AloneInv
  PROVE  /\ tainted = {} /\ mixed = {} /\ KnownAccount = Account /\ KnownRecord = Record
         /\ file \in [1..3 -> Seq(Account)] /\ scores \in Seq(Record)
         /\ \A k \in 1..3 : AllOf(file[k], k) /\ \A list \in Loads(k) : list = file[k]
         /\ \A list \in LoadsScores : list = scores
<1>1. tainted = {} /\ mixed = {} /\ IInv
  BY DEF AloneInv, IInv, TypeOK
<1>2. KnownAccount = Account /\ KnownRecord = Record
  BY <1>1 DEF KnownAccount, KnownRecord
<1> QED
  BY <1>1, <1>2 DEF IInv, TypeOK, RecordsInTheirFile, Loads, LoadsScores

LEMMA AloneTypes ==
  ASSUME AloneInv, NEW t \in Terminal
  PROVE  /\ ap \in [Terminal -> Account \cup {NoAcnt}] /\ pc \in [Terminal -> Places]
         /\ h \in [Terminal -> Seq(Account) \cup Seq(Record)]
         /\ want \in [Terminal -> {UNSET, STUDENT} \cup TeacherType]
         /\ pc[t] \in WithAccounts => h[t] \in Seq(Account)
         /\ pc[t] \in WithScores => h[t] \in Seq(Record)
         /\ pc[t] \notin {"start", "login", "sign_in"} => ap[t] \in Account
         /\ pc[t] = "sign_in" => want[t] # UNSET
<1>1. IInv /\ KnownAccount = Account /\ KnownRecord = Record
  BY AloneKnown DEF AloneInv
<1> QED
  BY <1>1 DEF IInv, TypeOK, InSession, Places

LEMMA AloneInit == ASSUME Init PROVE tainted = {} /\ NamesUnique /\ SessionRecorded /\ Current
<1>1. \A k \in 1..3 : Len(file[k]) = 1 /\ DOMAIN file[k] = {1}
  BY DEF Init
<1>2. NamesUnique
  BY <1>1 DEF NamesUnique, Unique
<1>3. SessionRecorded /\ Current
  BY DEF Init, SessionRecorded, Current
<1> QED
  BY <1>2, <1>3 DEF Init

(* Where nobody is logged in, only the names matter. *)
LEMMA AloneOutside ==
  ASSUME AloneInv, NEW t, Alone(t),
         \/ \E kind \in {STUDENT, TEACH_CN, ADMIN} : LoginLoad(t, kind)
         \/ \E type \in {STUDENT} \cup TeacherType : SignInLoad(t, type)
         \/ Logout(t) \/ Crash(t)
  PROVE  (tainted = {} /\ NamesUnique /\ SessionRecorded /\ Current)'
<1> USE DEF Alone, Goto
<1>1. file' = file /\ tainted' = {} /\ t \in Terminal
  BY AloneKnown DEF LoginLoad, SignInLoad, Logout, Crash
<1>2. /\ pc \in [Terminal -> Places] /\ want \in [Terminal -> {UNSET, STUDENT} \cup TeacherType]
      /\ h \in [Terminal -> Seq(Account) \cup Seq(Record)]
  BY <1>1, AloneTypes
<1>3. NamesUnique'
  BY <1>1 DEF NamesUnique, AloneInv
<1>4. pc'[t] \in {"start", "login", "sign_in"}
  BY <1>1, <1>2 DEF LoginLoad, SignInLoad, Logout, Crash
<1>5. pc'[t] = "login" => \E k \in 1..3 : h'[t] = file[k]
  <2>1. ASSUME NEW kind \in {STUDENT, TEACH_CN, ADMIN}, LoginLoad(t, kind)
        PROVE  \E k \in 1..3 : h'[t] = file[k]
    <3>1. kind \in 1..3
      BY DEF STUDENT, TEACH_CN, ADMIN
    <3>2. h' = [h EXCEPT ![t] = file[kind]]
      BY <2>1, <3>1, AloneKnown DEF LoginLoad
    <3> QED
      BY <1>1, <1>2, <3>1, <3>2
  <2> QED
    BY <1>1, <1>2, <2>1 DEF SignInLoad, Logout, Crash
<1>6. pc'[t] = "sign_in" => h'[t] = file[Kind(want'[t])]
  <2>1. ASSUME NEW type \in {STUDENT} \cup TeacherType, SignInLoad(t, type)
        PROVE  h'[t] = file[Kind(want'[t])]
    <3>1. h' = [h EXCEPT ![t] = file[Kind(type)]] /\ want'[t] = type
      <4>1. PICK list \in Loads(Kind(type)) : h' = [h EXCEPT ![t] = list]
        BY <2>1 DEF SignInLoad
      <4>2. list = file[Kind(type)]
        BY <4>1, Kinds, AloneKnown
      <4> QED
        BY <1>1, <1>2, <2>1, <4>1, <4>2 DEF SignInLoad
    <3> QED
      BY <1>1, <1>2, <3>1
  <2> QED
    BY <1>1, <1>2, <2>1 DEF LoginLoad, Logout, Crash
<1> QED
  BY <1>1, <1>3, <1>4, <1>5, <1>6 DEF SessionRecorded, Current

(* A session that leaves the account files alone is as recorded as before. *)
LEMMA AloneInside ==
  ASSUME AloneInv, NEW t, Alone(t), file' = file, ap' = ap, tainted' = {},
         pc[t] \notin {"start", "login", "sign_in", "revise_save"},
         pc'[t] \notin {"start", "login", "sign_in", "revise_save"},
         pc'[t] = "add_admin" => h'[t] = file[ADMIN],
         pc'[t] = "revise" => h'[t] = file[Kind(ap[t].type)],
         pc'[t] = "scores_save" => scores' = <<>>
  PROVE  (tainted = {} /\ NamesUnique /\ SessionRecorded /\ Current)'
<1>1. t \in Terminal
  BY DEF Alone
<1>2. NamesUnique'
  BY DEF NamesUnique, AloneInv
<1>3. Holds(file[Kind(ap[t].type)], ap[t])
  BY <1>1 DEF AloneInv, SessionRecorded
<1> QED
  BY <1>1, <1>2, <1>3 DEF Alone, SessionRecorded, Current

LEMMA AloneMenus ==
  ASSUME AloneInv, NEW t, Alone(t),
         \/ NewStudent(t) \/ AddAdminLoad(t) \/ ReviseLoad(t) \/ ReviseRefused(t)
         \/ ReviseScoreNot(t) \/ ScoresClose(t)
         \/ \E op \in {"one_score", "all_scores"} : ScoresLoad(t, op)
         \/ \E i \in DOMAIN h[t], mark \in Mark : ReviseScoreOpen(t, i, mark)
         \/ \E marks \in [DOMAIN h[t] -> Mark] : InputScoresOpen(t, marks)
  PROVE  (tainted = {} /\ NamesUnique /\ SessionRecorded /\ Current)'
<1> USE DEF Goto, NewStudent, AddAdminLoad, ReviseLoad, ReviseRefused, ReviseScoreNot, ScoresClose,
            ScoresLoad, ReviseScoreOpen, InputScoresOpen
<1>1. /\ t \in Terminal /\ pc \in [Terminal -> Places]
      /\ h \in [Terminal -> Seq(Account) \cup Seq(Record)]
  BY AloneTypes DEF Alone
<1>2. file' = file /\ ap' = ap
  OBVIOUS
<1>3. /\ pc[t] \notin {"start", "login", "sign_in", "revise_save"}
      /\ pc'[t] \notin {"start", "login", "sign_in", "revise_save"}
  BY <1>1
<1>4. pc'[t] = "add_admin" => h'[t] = file[ADMIN]
  <2>1. ASSUME AddAdminLoad(t) PROVE h'[t] = file[ADMIN]
    BY <1>1, <2>1, AloneKnown DEF ADMIN
  <2> QED
    BY <1>1, <2>1
<1>5. pc'[t] = "revise" => h'[t] = file[Kind(ap[t].type)]
  <2>1. ASSUME ReviseLoad(t) PROVE h'[t] = file[Kind(ap[t].type)]
    <3>1. Kind(ap[t].type) \in 1..3
      BY <1>1, <2>1, AloneTypes, AccountKind
    <3> QED
      BY <1>1, <2>1, <3>1, AloneKnown
  <2> QED
    BY <1>1, <2>1
<1>6. pc'[t] = "scores_save" => scores' = <<>>
  BY <1>1
<1>7. tainted' = {}
  <2>1. ASSUME ScoresClose(t) PROVE tainted' = {}
    <3>1. scores = <<>> /\ h[t] \in Seq(Record)
      BY <1>1, <2>1, AloneTypes DEF AloneInv, Current, WithScores
    <3> QED
      BY <2>1, <3>1, WriteOverEmpty, AloneKnown
  <2> QED
    BY <2>1, AloneKnown
<1> QED
  BY <1>2, <1>3, <1>4, <1>5, <1>6, <1>7, AloneInside

(* The account that logs in is one of the file it was read from. *)
LEMMA AloneLoginDone ==
  ASSUME AloneInv, NEW t, Alone(t), NEW i \in DOMAIN h[t], LoginDone(t, i)
  PROVE  (tainted = {} /\ NamesUnique /\ SessionRecorded /\ Current)'
<1> USE DEF LoginDone, Goto
<1>1. t \in Terminal /\ pc[t] = "login" /\ file' = file
  BY DEF Alone
<1>2. PICK k \in 1..3 : h[t] = file[k]
  BY <1>1 DEF AloneInv, Current
<1>3. Kind(h[t][i].type) = k /\ k # UNSET
  BY <1>2, AloneKnown DEF AllOf, UNSET
<1>4. pc'[t] = "menu" /\ ap'[t] = h[t][i]
  BY <1>1, <1>3, AloneTypes
<1>5. Holds(file[k], h[t][i])
  BY <1>2 DEF Holds
<1>6. NamesUnique'
  BY <1>1 DEF NamesUnique, AloneInv
<1>7. tainted' = {}
  BY AloneKnown
<1> QED
  BY <1>1, <1>3, <1>4, <1>5, <1>6, <1>7 DEF Alone, SessionRecorded, Current

LEMMA AloneSignIn ==
  ASSUME AloneInv, NEW t, Alone(t), NEW name \in Name, NEW pwd \in Pwd, SignIn(t, name, pwd)
  PROVE  (tainted = {} /\ NamesUnique /\ SessionRecorded /\ Current)'
<1>1. PICK a, k : a = [usrname |-> name, pwd |-> pwd, type |-> want[t]] /\ k = Kind(want[t])
  OBVIOUS
<1>2. t \in Terminal /\ pc[t] = "sign_in"
  BY DEF Alone, SignIn, Goto
<1>3. a \in Account /\ a.usrname = name /\ Kind(a.type) = k
  BY <1>1, <1>2, AloneTypes DEF Account
<1>4. k \in 1..3 /\ file[k] \in Seq(Account) /\ k \notin mixed
  BY <1>3, AccountKind, AloneKnown
<1>5. ~Has(file[k], a.usrname)
  BY <1>1, <1>2, <1>3 DEF SignIn, Current, AloneInv
<1>6. file' = [file EXCEPT ![k] = Append(file[k], a)] /\ ap' = [ap EXCEPT ![t] = a]
  BY <1>1, <1>4 DEF SignIn, AddUsr
<1>7. file'[k] = Append(file[k], a) /\ \A j \in 1..3 : j # k => file'[j] = file[j]
  BY <1>4, <1>6, AloneKnown
<1>8. ap'[t] = a /\ pc'[t] \in {"newstu", "menu"}
  BY <1>2, <1>6, AloneTypes DEF SignIn, Goto
<1>9. NamesUnique'
  BY <1>3, <1>4, <1>5, <1>7, AppendUnique DEF NamesUnique, AloneInv
<1>10. Holds(file'[k], a)
  BY <1>3, <1>4, <1>7, AppendUnique
<1>11. tainted' = {}
  BY AloneKnown DEF SignIn
<1> QED
  BY <1>2, <1>3, <1>8, <1>9, <1>10, <1>11 DEF Alone, SessionRecorded, Current

LEMMA AloneAddAdmin ==
  ASSUME AloneInv, NEW t, Alone(t), NEW name \in Name, NEW pwd \in Pwd, AddAdmin(t, name, pwd)
  PROVE  (tainted = {} /\ NamesUnique /\ SessionRecorded /\ Current)'
<1>1. PICK a : a = [usrname |-> name, pwd |-> pwd, type |-> ADMIN]
  OBVIOUS
<1>2. /\ t \in Terminal /\ pc[t] = "add_admin" /\ a \in Account /\ a.usrname = name
      /\ ADMIN \in 1..3
  BY <1>1 DEF Alone, AddAdmin, Goto, Account, ADMIN
<1>3. ~Has(file[ADMIN], a.usrname) /\ file[ADMIN] \in Seq(Account) /\ ADMIN \notin mixed
  BY <1>2, AloneKnown DEF AddAdmin, Current, AloneInv
<1>4. file' = [file EXCEPT ![ADMIN] = Append(file[ADMIN], a)] /\ ap' = ap
  BY <1>1, <1>3 DEF AddAdmin, AddUsr
<1>5. file'[ADMIN] = Append(file[ADMIN], a) /\ \A j \in 1..3 : j # ADMIN => file'[j] = file[j]
  BY <1>2, <1>4, AloneKnown
<1>6. pc'[t] = "menu"
  BY <1>2, AloneTypes DEF AddAdmin, Goto
<1>7. NamesUnique'
  BY <1>2, <1>3, <1>5, AppendUnique DEF NamesUnique, AloneInv
<1>8. Kind(ap[t].type) \in 1..3 /\ Holds(file[Kind(ap[t].type)], ap[t])
  BY <1>2, AccountKind, AloneTypes DEF SessionRecorded, AloneInv
<1>9. Holds(file'[Kind(ap[t].type)], ap[t])
  BY <1>2, <1>3, <1>5, <1>8, AppendUnique
<1>10. tainted' = {}
  BY AloneKnown DEF AddAdmin
<1> QED
  BY <1>2, <1>4, <1>6, <1>7, <1>9, <1>10 DEF Alone, SessionRecorded, Current

(* The account found by its name is the one that is logged in. *)
LEMMA AloneReviseOpen ==
  ASSUME AloneInv, NEW t, Alone(t), NEW pwd \in Pwd, ReviseOpen(t, pwd)
  PROVE  (tainted = {} /\ NamesUnique /\ SessionRecorded /\ Current)'
<1>1. PICK k : k = Kind(ap[t].type)
  OBVIOUS
<1>2. t \in Terminal /\ pc[t] = "revise"
  BY DEF Alone, ReviseOpen, Goto
<1>3. ap[t] \in Account /\ h[t] \in Seq(Account) /\ h[t] = file[k] /\ Holds(file[k], ap[t])
  BY <1>1, <1>2, AloneTypes DEF WithAccounts, Current, SessionRecorded, AloneInv
<1>4. k \in 1..3 /\ KnownAccount = Account
  BY <1>1, <1>3, AccountKind, AloneKnown
<1>5. Unique(h[t])
  BY <1>3, <1>4 DEF NamesUnique, AloneInv
<1>6. PICK i \in DOMAIN h[t] :
        Finds(h[t], i, ap[t].usrname) /\ h' = [h EXCEPT ![t][i].pwd = pwd]
  BY DEF ReviseOpen
<1>7. h[t][i] = ap[t]
  BY <1>3, <1>5, <1>6 DEF Finds, Holds, Unique
<1>8. PICK a, l : a = [ap[t] EXCEPT !.pwd = pwd] /\ l = [h[t] EXCEPT ![i] = a]
  OBVIOUS
<1>9. Unique(l) /\ Holds(l, a)
  BY <1>3, <1>4, <1>5, <1>7, <1>8, PwdUnique
<1>10. a.type = ap[t].type
  BY <1>3, <1>4, <1>8, NewPwd
<1>11. ap'[t] = a /\ h'[t] = l /\ pc'[t] = "revise_save"
  BY <1>2, <1>6, <1>7, <1>8, AloneTypes DEF ReviseOpen, Goto
<1>12. file'[k] = <<>> /\ \A j \in 1..3 : j # k => file'[j] = file[j]
  BY <1>1, <1>4, AloneKnown DEF ReviseOpen
<1>13. NamesUnique'
  <2>1. Unique(<<>>)
    BY DEF Unique
  <2> QED
    BY <1>12, <2>1 DEF NamesUnique, AloneInv
<1>14. file'[Kind(ap'[t].type)] = <<>>
  BY <1>1, <1>10, <1>11, <1>12
<1>15. tainted' = {}
  BY AloneKnown DEF ReviseOpen
<1> QED
  BY <1>2, <1>9, <1>11, <1>13, <1>14, <1>15 DEF Alone, SessionRecorded, Current

LEMMA AloneReviseClose ==
  ASSUME AloneInv, NEW t, Alone(t), ReviseClose(t)
  PROVE  (tainted = {} /\ NamesUnique /\ SessionRecorded /\ Current)'
<1>1. PICK k : k = Kind(ap[t].type)
  OBVIOUS
<1>2. t \in Terminal /\ pc[t] = "revise_save"
  BY DEF Alone, ReviseClose, Goto
<1>3. /\ ap[t] \in Account /\ h[t] \in Seq(Account)
      /\ file[k] = <<>> /\ Unique(h[t]) /\ Holds(h[t], ap[t])
  BY <1>1, <1>2, AloneTypes DEF WithAccounts, Current, AloneInv
<1>4. k \in 1..3
  BY <1>1, <1>3, AccountKind
<1>5. WriteOver(file[k], h[t]) = h[t] /\ tainted' = {}
  BY <1>1, <1>3, WriteOverEmpty, AloneKnown DEF ReviseClose
<1>6. file' = [file EXCEPT ![k] = h[t]] /\ ap' = ap
  BY <1>1, <1>5 DEF ReviseClose
<1>7. file'[k] = h[t] /\ \A j \in 1..3 : j # k => file'[j] = file[j]
  BY <1>4, <1>6, AloneKnown
<1>8. pc'[t] = "menu"
  BY <1>2, AloneTypes DEF ReviseClose, Goto
<1>9. NamesUnique'
  BY <1>3, <1>7 DEF NamesUnique, AloneInv
<1> QED
  BY <1>1, <1>2, <1>3, <1>5, <1>6, <1>7, <1>8, <1>9 DEF Alone, SessionRecorded, Current

LEMMA AloneNext ==
  ASSUME AloneInv, [Next]_vars, NEW t, Alone(t)
  PROVE  (tainted = {} /\ NamesUnique /\ SessionRecorded /\ Current)'
<1>1. CASE UNCHANGED vars
  BY <1>1 DEF AloneInv, NamesUnique, SessionRecorded, Current, vars
<1>2. CASE Next
  BY <1>2, AloneOutside, AloneMenus, AloneLoginDone, AloneSignIn, AloneAddAdmin, AloneReviseOpen,
     AloneReviseClose DEF Next, Alone
<1> QED
  BY <1>1, <1>2

(* What a copy that runs alone has loaded is what the file still holds, and *)
(* what it is saving is the file with its own password changed.             *)
THEOREM AloneInductive ==
  ASSUME NEW t, Alone(t)
  PROVE  Spec => []AloneInv
<1>1. Init => AloneInv
  BY InitInv, AloneInit DEF AloneInv
<1>2. AloneInv /\ [Next]_vars => AloneInv'
  BY NextInv, AloneNext DEF AloneInv
<1> QED
  BY <1>1, <1>2, PTL DEF Spec

(* A copy that runs alone gives out no name twice, whenever it is killed.  *)
THEOREM NamesOfOne ==
  ASSUME NEW t, Alone(t)
  PROVE  Spec => []NamesUnique
<1>1. AloneInv => NamesUnique
  BY DEF AloneInv
<1> QED
  BY <1>1, AloneInductive, PTL

(* Who is logged in to a copy that runs alone has that account, with the   *)
(* password last set.                                                      *)
THEOREM SessionOfOne ==
  ASSUME NEW t, Alone(t)
  PROVE  Spec => []SessionRecorded
<1>1. AloneInv => SessionRecorded
  BY DEF AloneInv
<1> QED
  BY <1>1, AloneInductive, PTL
=============================================================================
