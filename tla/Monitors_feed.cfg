\* Every stream, sorted or not.
SPECIFICATION Spec
CONSTANTS
  Name <- MCName
  Stored <- PlainEvents
  CountRules <- MCCount
  PresentRules <- MCPresent
  ForbidRules <- MCForbid
  OrderRules <- MCOrder
  BeatRules <- MCBeat
  RelationRules <- MCRelation
  MaxLength = 5
  None = None
CHECK_DEADLOCK FALSE
INVARIANTS
  TypeOK
  SettledIsFinal
  ComparableInversionIsFinal
  CollapseIsBatch
  CommitsAtOnce
