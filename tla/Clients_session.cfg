\* Every driver, with lost, late and repeated rows, outages and throttling.
SPECIFICATION Spec
CONSTANTS
  t1 = t1
  t2 = t2
  k1 = k1
  k2 = k2
  None = None
  Drivers = {"memory", "dropping", "jsonl", "openobserve", "clickhouse", "victorialogs", "otel"}
  PageSize = 2
  MaxRows = 3
  WalkRows = 3
  Scenarios <- MCScenarios
  Retries = 2
  Batches <- MCBatches
CHECK_DEADLOCK FALSE
INVARIANTS
  TypeOK
  CompleteIsExact
  VerdictIsHonest
  BuildFailsForALoss
  StrictCatchesLoss
  ChainIsExact
