----------------------------- MODULE MCInfoMngmt -----------------------------
(***************************************************************************)
(* Instances of InfoMngmt for TLC: one copy of the program, or two in the  *)
(* same directory.                                                         *)
(***************************************************************************)
EXTENDS InfoMngmt, TLC

CONSTANTS t1, t2, ann, bob, p, q

OneCopy == {t1}
TwoCopies == {t1, t2}
TwoNames == {ann, bob}
OnePwd == {p}
TwoPwds == {p, q}
OneMark == {0}
TwoMarks == {0, 1}
Chinese == {TEACH_CN}
Maths == {TEACH_MH}
ChineseOrEnglish == {TEACH_CN, TEACH_EN}
Words == Name \cup Pwd

(* All texts equally long, or as long as the digits of a type make them. *)
Same(x) == 1
Digits(x) == IF x = TEACH_EN THEN 2 ELSE 1

(* Misplaced text is read as nothing, or as one more account: of no kind,  *)
(* or an administrator's.                                                  *)
NoStrays == {<<>>}
Strays == NoStrays \cup
  {<<[usrname |-> n, pwd |-> p, type |-> k]>> : n \in Name, k \in {UNSET, ADMIN}}

Symmetry == Permutations(Terminal) \cup Permutations(Name) \cup Permutations(Pwd)
=============================================================================
