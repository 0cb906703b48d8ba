SPECIFICATION Spec
CONSTANTS
  Counts <- MCCounts
  Requests <- MCRequests
  SerialCutoff = 3
  MaxThreads = 3
  Failures = {"spawn", "call"}
INVARIANTS
  TypeOK
  ReturnedAfterEveryCall
  LinesNotShared
  NoWorkerOutlivesTheCall
PROPERTIES
  Termination
  ImplementsForEach
\* the call ends
CHECK_DEADLOCK FALSE
