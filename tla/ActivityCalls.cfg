SPECIFICATION FairKernelSpec
CONSTANTS
  Activities = {a1, a2}
  Effectful = {a1}
  Idempotent = {}
  Queryable = {a1}
  Workers = {w1, w2}
  Approvals = {}
  Subjects = {}
  Refreshes = {}
  PrepareOf <- NoTable
  ReplacementOf <- NoTable
  Receipts = {e1}
  Results = {m1}
  None = None
  MaxRetries = 0
  MaxRenewals = 0
  MaxRequests = 0
  MaxAttempts = 1
  MaxClaims = 2
  MaxHuman = 0
INVARIANTS AtMostOneSend
PROPERTIES ActivitySettles FailureNotAssumed
CHECK_DEADLOCK FALSE
