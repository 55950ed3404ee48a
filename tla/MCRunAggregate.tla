---------------------------- MODULE MCRunAggregate ----------------------------
(* Small instances of RunAggregate.  The constants that are functions and  *)
(* the symmetry sets are given here, the rest in the configuration files.  *)
EXTENDS RunAggregate, TLC

CONSTANTS a1, a2, a3, r1

\* No renewals in this instance.
NoTable == [x \in {} |-> x]

\* Renewal r1 prepares with a2 and replaces by a3.
PrepareTable == r1 :> a2
ReplacementTable == r1 :> a3

EvidenceSymmetry ==
  Permutations(Activities) \cup Permutations(Receipts) \cup Permutations(Results)

ApprovalSymmetry == Permutations(Approvals) \cup Permutations(Subjects)
=============================================================================
