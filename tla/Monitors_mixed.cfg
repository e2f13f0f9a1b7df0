\* Emitter stamps on some events only: a settled failure that passes.
SPECIFICATION Spec
CONSTANTS
  Name <- MCName
  Stored <- StampedEvents
  CountRules <- MCCount
  PresentRules <- MCPresent
  ForbidRules <- MCForbid
  OrderRules <- MCOrder
  BeatRules <- MCBeat
  RelationRules <- MCRelation
  MaxLength = 4
  None = None
CHECK_DEADLOCK FALSE
INVARIANTS
  InversionIsFinal
