\* Reads that take no time: lag, throttling, truncation and late events.
SPECIFICATION FairSpec
CONSTANTS
  Wanted = {a}
  Offenders = {x}
  Kinds = {"counts", "absence", "order", "signed", "external"}
  Retries = 2
  Delay = 1
  Backoff = 2
  MaxDelay = 2
  ConfirmRounds = 1
  ConfirmDelay = 2
  Lookback = 4
  Future = 1
  Visibility = 3
  Skew = 1
  Latency = 0
  RetryAfters = {2}
  Horizon = 5
  None = None
CHECK_DEADLOCK FALSE
INVARIANTS
  LagIsNotAbsence
  LateOffenderCaught
  IrrevocableIsFinal
  RetriesHonourThrottle
PROPERTIES
  EventuallyReturns
