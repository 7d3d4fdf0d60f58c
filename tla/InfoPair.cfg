\* Two copies in one directory, one crash; the records of English teachers are the longest.
CONSTANTS
  t1 = t1
  t2 = t2
  ann = ann
  bob = bob
  p = p
  q = q
  Terminal <- TwoCopies
  Name <- TwoNames
  Pwd <- OnePwd
  Mark <- OneMark
  TeacherType <- ChineseOrEnglish
  Word <- Words
  Size <- Digits
  StrayLists <- Strays
  StrayMarks <- NoStrays
  MaxRecords = 1
  MaxLoad = 2
  MaxCrashes = 1
SPECIFICATION Spec
SYMMETRY Symmetry
INVARIANTS RecordsInTheirFile
PROPERTIES EmptyForever
\* With all names taken sign_in() asks for another one forever.
CHECK_DEADLOCK FALSE
