SPECIFICATION Spec
CONSTANTS
  a1 = a1  a2 = a2  a3 = a3  r1 = r1
  None = None
  Activities = {a1, a2}
  Effectful = {a1, a2}
  Approvals = {}
  Subjects = {}
  Refreshes = {}
  PrepareOf <- NoTable
  ReplacementOf <- NoTable
  Receipts = {e1, e2}
  Results = {m1, m2}
  MaxRetries = 0
  MaxRenewals = 0
  MaxRequests = 0
SYMMETRY EvidenceSymmetry
INVARIANTS QuarantineHolds SuccessHasEvidence NoActivityLost
PROPERTIES SettlementFinal EvidenceFinal ResumeOnlyWhenCertain
CHECK_DEADLOCK FALSE
