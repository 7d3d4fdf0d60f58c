\* Is the descriptor of a terminal that has left released?
CONSTANTS
  c1 = c1
  c2 = c2
  c3 = c3
  Client <- OneTerminal
  MaxFds = 2
  Faults <- NoFaults
SPECIFICATION Spec
PROPERTIES DescriptorsReleased
\* The terminals leave, and the main thread may end in pthread_join().
CHECK_DEADLOCK FALSE
