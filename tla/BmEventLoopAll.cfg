\* Three terminals, two descriptors; calloc(), the list and the database fail.
CONSTANTS
  c1 = c1
  c2 = c2
  c3 = c3
  Client <- ThreeTerminals
  MaxFds = 2
  Faults <- AllFaults
SPECIFICATION Spec
INVARIANTS TypeOK RepliesToAsker EdgesMatchData EndOfService IInv
PROPERTIES RequestsAreRead
\* The terminals leave, and the main thread may end in pthread_join().
CHECK_DEADLOCK FALSE
