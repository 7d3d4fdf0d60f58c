\* One copy, killed twice at any point: implements InfoRecords.
CONSTANTS
  t1 = t1
  t2 = t2
  ann = ann
  bob = bob
  p = p
  q = q
  Terminal <- OneCopy
  Name <- TwoNames
  Pwd <- TwoPwds
  Mark <- TwoMarks
  TeacherType <- Maths
  Word <- Words
  Size <- Same
  StrayLists <- NoStrays
  StrayMarks <- NoStrays
  MaxRecords = 2
  MaxLoad = 2
  MaxCrashes = 2
SPECIFICATION Spec
SYMMETRY Symmetry
INVARIANTS TypeOK NamesUnique SessionRecorded
PROPERTIES ImplementsRecords OwnCourseOnly
\* With all names taken sign_in() asks for another one forever.
CHECK_DEADLOCK FALSE
