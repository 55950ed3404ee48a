-------------------------- MODULE MCActivityExecution --------------------------
(* Small instances of ActivityExecution for TLC.                           *)
EXTENDS ActivityExecution, TLC

NoTable == <<>>

CallSymmetry == Permutations(Workers) \cup Permutations(Receipts)
=============================================================================
