\* One client and no failing call: is every request answered?
CONSTANTS
  c1 = c1
  c2 = c2
  c3 = c3
  Client <- OneClient
  MaxRequests = 3
  Faults <- NoFaults
SPECIFICATION Spec
PROPERTIES EveryRequestAnswered
CHECK_DEADLOCK FALSE
