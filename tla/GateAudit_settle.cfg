\* Every kind of check over events that arrive in any order, and tool calls with the tools
\* that grade a gate by them.
SPECIFICATION AuditSpec
CONSTANTS
  Name <- MCName
  Stored <- MCEvents
  CountRules <- MCAuditCount
  PresentRules <- MCPresent
  ForbidRules <- MCForbid
  OrderRules <- MCOrder
  BeatRules <- MCBeat
  RelationRules <- MCRelation
  AggregateRules <- MCAggregate
  Externals <- MCExternals
  Gates <- MCAuditGates
  Caps = {"dependent"}
  MaxLength = 3
  Specs <- MCSpecs
  ErrorEvents <- MCErrors
  Ambient = {"signature"}
  Tools <- MCTools
  Keys <- MCKeys
  Needles <- MCNeedles
  Unit = 4
  Calls <- MCCalls
  ToolGates <- MCToolGates
  MaxCalls = 3
  Unreadable = Unreadable
  Renamed = "mutant"
  Stamped = TRUE
  None = None
INVARIANTS
  AuthorityDecides
  EasingIsNoticed
  CallsAreMatched
  MutantsDie
  AcceptedIsOfThisStream
PROPERTIES
  SettledGreenStays
