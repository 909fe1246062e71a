SPECIFICATION Spec
CONSTANTS
  Images <- Programs
  Deadline = 600
INVARIANTS
  TypeOK
  EndsInTime
  ProductIsRight
  WordsAreExact
  SortIsRight
  CopyIsRight
  CombinedIsPair
PROPERTIES
  InterruptsLeaveNoTrace
