\* Three clients, four requests, every fault: safety and progress of the
\* request list, and its refinement of RequestQueue.
CONSTANTS
  c1 = c1
  c2 = c2
  c3 = c3
  Client <- ThreeClients
  MaxRequests = 4
  Faults <- AllFaults
SPECIFICATION Spec
INVARIANTS TypeOK WorkerReadsLive FrontHasOneWriter DanglingOnlyLast OneReplyOwed IInv
PROPERTIES OldestFirst LossWindow PendingIsServed ImplementsQueue
\* The clients stop after MaxRequests and a crash stops the process.
CHECK_DEADLOCK FALSE
