\* Two generations, two plans of a cycle, and every gate result the adapter can be given.
SPECIFICATION CompletionSpec
CONSTANTS
  Name <- MCName
  Stored <- MCEvents
  CountRules <- MCCount
  PresentRules = {}
  ForbidRules <- MCForbid
  OrderRules = {}
  BeatRules = {}
  RelationRules <- MCRelation
  AggregateRules = {}
  Externals <- MCExternals
  Gates <- MCGates
  Caps = {"dependent", "sampled"}
  MaxLength = 2
  None = None
  Identity = {"store", "oracle", "other"}
  Emitter = "store"
  Reader <- MCReader
  Boundaries <- MCBoundaries
  Plans <- MCPlans
  MaxGenerations = 2
  Readings <- MCReadings
  MaxFaults = 1
CHECK_DEADLOCK FALSE
INVARIANTS
  CodingsAgree
  RefusedForAReason
  CompletionIsExact
  LineageUnbroken
