SPECIFICATION KernelSpec
CONSTANTS
  Activities = {a1}
  Effectful = {a1}
  Idempotent = {}
  Queryable = {a1}
  Workers = {w1, w2}
  Approvals = {}
  Subjects = {}
  Refreshes = {}
  PrepareOf <- NoTable
  ReplacementOf <- NoTable
  Receipts = {e1, e2}
  Results = {m1}
  None = None
  MaxRetries = 1
  MaxRenewals = 0
  MaxRequests = 0
  MaxAttempts = 1
  MaxClaims = 2
  MaxHuman = 1
SYMMETRY CallSymmetry
INVARIANTS RowsAgree FailureIsProven RunningIsCertain
PROPERTIES NotSentIsTrue LeaseExcludes
CHECK_DEADLOCK FALSE
