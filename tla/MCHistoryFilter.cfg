SPECIFICATION Spec
CONSTANTS
  Null = Null
  AggregatedRows <- MCAggregated
  AnomalyRows <- MCAnomalies
CHECK_DEADLOCK FALSE
INVARIANTS
  RequestTypeOK
  AnomaliesKept
  OutputInOrder
  EveryRowRepresented
  AnswersWhole
PROPERTIES
  AnswersOnce
