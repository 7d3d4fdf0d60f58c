\* Two terminals, quotes at the second or at none, two names, every fault.
CONSTANTS
  c1 = c1
  c2 = c2
  Client <- TwoTerminals
  Names <- TwoNames
  Keys <- TwoKeys
  Collate <- SmallLetters
  MayBeOdd <- SecondOdd
  OddInserts <- OddRows
  MaxRequests = 5
  Faults <- AllFaults
SPECIFICATION Spec
INVARIANTS TypeOK OneUnderWay LoggedInHasAccount
PROPERTIES DuplicateNeedsOverlap EveryTerminalReturns
\* Terminals quit, and the requests are bounded.
CHECK_DEADLOCK FALSE
