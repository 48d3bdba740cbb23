SPECIFICATION Spec
CONSTANT
  Graphs <- SmallGraphs
INVARIANTS
  TypeOK
  VerdictCorrect
  RejectionIsBlamed
PROPERTY Terminates
CHECK_DEADLOCK FALSE
