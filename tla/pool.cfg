SPECIFICATION Spec
CONSTANTS
  Tasks = {"recv", "send", "a", "b", "c", "d"}
  Uses <- ServerAndShort
  MaxIdle = 1
  Unsigned = 8
INVARIANTS TypeOK CountersAreExact LastWorkerStays
PROPERTIES EveryTaskRuns ShutdownEnds
CHECK_DEADLOCK FALSE
