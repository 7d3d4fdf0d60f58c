\* Is the name registered the name typed?
CONSTANTS
  c1 = c1
  c2 = c2
  Client <- OneTerminal
  Names <- TwoNames
  Keys <- OneKey
  Collate <- SmallLetters
  MayBeOdd <- NoOdd
  OddInserts <- NoRows
  MaxRequests = 3
  Faults <- NoFaults
SPECIFICATION Spec
INVARIANTS RegistersTypedName
\* Terminals quit, and the requests are bounded.
CHECK_DEADLOCK FALSE
