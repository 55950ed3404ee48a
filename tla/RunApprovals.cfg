SPECIFICATION Spec
CONSTANTS
  a1 = a1  a2 = a2  a3 = a3  r1 = r1
  None = None
  Activities = {a1, a2, a3}
  Effectful = {}
  Approvals = {p1, p2}
  Subjects = {s1, s2}
  Refreshes = {r1}
  PrepareOf <- PrepareTable
  ReplacementOf <- ReplacementTable
  Receipts = {}
  Results = {}
  MaxRetries = 1
  MaxRenewals = 1
  MaxRequests = 2
SYMMETRY ApprovalSymmetry
INVARIANTS ApprovalWaitIsPending ActiveMatchesApproval
PROPERTIES DecisionFinal
CHECK_DEADLOCK FALSE
