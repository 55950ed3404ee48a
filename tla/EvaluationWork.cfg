SPECIFICATION Spec
CONSTANTS
  r1 = r1  r2 = r2  r3 = r3  c1 = c1  c2 = c2  c3 = c3
  None = None
  Runs = {r1, r2, r3}
  UnitOf <- UnitTable
  SpaceOf <- SpaceTable
  Pools = {"global"}
  PoolsOf <- PoolTable
  PoolLimit <- PoolLimits
  MaxPolicies = 2
  MaxGeneration = 3
  Calls = {c1, c2, c3}
  Buckets = {"global", "batch"}
  Kinds = {"tokens"}
  BucketsOf <- BucketTable
  Demand <- DemandTable
  Limit <- LimitTable
  SlotLimit <- SlotLimits
  Receipts <- Reports
  MaxRevisions = 2
  RunOf <- CallTable
  LogicalOf <- LogicalTable
  MaxSends = 2
INVARIANTS SlotsExact OneRunPerUnit WithinBudget
CHECK_DEADLOCK FALSE
