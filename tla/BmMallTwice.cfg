\* Can a name be registered twice?
CONSTANTS
  c1 = c1
  c2 = c2
  Client <- TwoTerminals
  Names <- OneName
  Keys <- OneKey
  Collate <- SmallLetters
  MayBeOdd <- NoOdd
  OddInserts <- NoRows
  MaxRequests = 4
  Faults <- NoFaults
SPECIFICATION Spec
INVARIANTS NamesUnique
\* Terminals quit, and the requests are bounded.
CHECK_DEADLOCK FALSE
