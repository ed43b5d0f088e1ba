SPECIFICATION Spec
CONSTANTS
  Workers = 3
  MaxItems = 4
INVARIANTS
  TypeOK
  ExactlyOnce
  ResultsInOrder
  NoWorkerOutlives
PROPERTIES
  CallEnds
CHECK_DEADLOCK FALSE
