\* Up to 130 bytes, in calls of one and three bytes; the context is used twice.
CONSTANTS
  Word = 32
  Lengths <- SomeLengths
  MaxBytes = 130
  MaxResets = 1
SPECIFICATION Spec
INVARIANTS TypeOK ResultIsPaddedMessage IInv
\* A context that is not reset takes only so many bytes.
CHECK_DEADLOCK FALSE
