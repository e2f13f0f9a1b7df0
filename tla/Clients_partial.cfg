\* A test leaves up to three records and counts once in the total.
SPECIFICATION Spec
CONSTANTS
  t1 = t1
  t2 = t2
  k1 = k1
  k2 = k2
  None = None
  Drivers = {"clickhouse"}
  PageSize = 2
  MaxRows = 6
  WalkRows = 6
  Scenarios <- MCLossy
  Retries = 2
  Batches <- MCBatches
CHECK_DEADLOCK FALSE
INVARIANTS
  ConfirmedIsComplete
