\* Two copies: does every student have a mark record?
CONSTANTS
  t1 = t1
  t2 = t2
  ann = ann
  bob = bob
  p = p
  q = q
  Terminal <- TwoCopies
  Name <- TwoNames
  Pwd <- OnePwd
  Mark <- TwoMarks
  TeacherType <- Chinese
  Word <- Words
  Size <- Same
  StrayLists <- NoStrays
  StrayMarks <- NoStrays
  MaxRecords = 3
  MaxLoad = 3
  MaxCrashes = 0
SPECIFICATION Spec
INVARIANTS StudentsHaveMarks
\* With all names taken sign_in() asks for another one forever.
CHECK_DEADLOCK FALSE
