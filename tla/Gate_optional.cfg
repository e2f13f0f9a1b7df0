\* The probe of an optional check cannot be reached.
SPECIFICATION Spec
CONSTANTS
  Name <- MCName
  Stored <- MCEvents
  CountRules <- MCCount
  PresentRules <- MCPresent
  ForbidRules <- MCForbid
  OrderRules <- MCOrder
  BeatRules <- MCBeat
  RelationRules <- MCRelation
  AggregateRules <- MCAggregate
  Externals <- MCExternals
  Gates <- MCGates
  Caps = {"dependent"}
  MaxLength = 2
  None = None
INVARIANTS
  VerdictIgnoresObservations
