------------------------- MODULE MCEvaluationDispatch -------------------------
(* A small instance of EvaluationDispatch for TLC: two attempts of one     *)
(* work unit and a Run of another, which share a pool and the buckets of   *)
(* their batch.                                                            *)
EXTENDS EvaluationDispatch, TLC

CONSTANTS r1, r2, r3, c1, c2, c3

UnitTable == (r1 :> "u1") @@ (r2 :> "u1") @@ (r3 :> "u2")
SpaceTable == [r \in Runs |-> "batch"]
PoolTable == [r \in Runs |-> {"global"}]
PoolLimits == <<("global" :> 2), ("global" :> 1)>>

BucketTable == [c \in Calls |-> {"global", "batch"}]
DemandTable == (c1 :> ("tokens" :> 1)) @@ (c2 :> ("tokens" :> 1)) @@ (c3 :> ("tokens" :> 2))
LimitTable == ("global" :> NoReceipt) @@ ("batch" :> ("tokens" :> 3))
SlotLimits == <<("global" :> 2), ("global" :> 1)>>
Reports == {NoReceipt, "tokens" :> 1, "tokens" :> 2}

CallTable == (c1 :> r1) @@ (c2 :> r2) @@ (c3 :> r3)
LogicalTable == (c1 :> "l1") @@ (c2 :> "l1") @@ (c3 :> "l2")
=============================================================================
