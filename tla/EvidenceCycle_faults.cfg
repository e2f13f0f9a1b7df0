\* Every budget from one step up: faults wherever they can fall.
SPECIFICATION FairSpec
CONSTANTS
  Source = {s1, s2, s3}
  Material = {m1}
  Finding = {f1}
  Self = c0
  Cycle = {c0, c1}
  Tiers = {"arrived"}
  Boundaries <- OneBoundary
  Budgets = {1, 2, 3, 4, 5, 6, 7, 8, 9, 12}
  MaxGenerations = 1
  None = None
CHECK_DEADLOCK FALSE
INVARIANTS
  RevisionBounded
  SourceRestored
  AnswersHold
  FirstCauseKept
PROPERTIES
  TerminalIsFinal
  ImplementsSafety
  EventuallyTerminal
