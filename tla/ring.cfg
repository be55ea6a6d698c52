SPECIFICATION Spec
CONSTANTS
  Capacity = 8
  MaxBytes = 18
INVARIANTS TypeOK AssertsHold ThreadsKeepApart HandledInOrder
PROPERTY EveryByteHandled
