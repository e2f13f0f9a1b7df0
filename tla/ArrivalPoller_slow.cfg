\* Queries that take time: the documentation's blind-window claim.
SPECIFICATION Spec
CONSTANTS
  Wanted = {a}
  Offenders = {x}
  Kinds = {"counts"}
  Retries = 2
  Delay = 1
  Backoff = 2
  MaxDelay = 2
  ConfirmRounds = 1
  ConfirmDelay = 1
  Lookback = 8
  Future = 1
  Visibility = 3
  Skew = 1
  Latency = 2
  RetryAfters = {2}
  Horizon = 0
  None = None
CHECK_DEADLOCK FALSE
INVARIANTS
  LagIsNotAbsence
