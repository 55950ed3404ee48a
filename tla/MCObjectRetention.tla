--------------------------- MODULE MCObjectRetention ---------------------------
(* A small instance of ObjectRetention for TLC: a Run admitted in a session  *)
(* and a child of it in the same session, whose admission does not hold the  *)
(* session; or a batch attempt and its judge.  Each has an input.            *)
EXTENDS ObjectRetention, TLC

CONSTANTS r1, r2, b1, j1, s1, i1, i2, i3, i4

SessionTable == r1 :> s1 @@ r2 :> s1 @@ b1 :> None @@ j1 :> None
ParentTable == r1 :> None @@ r2 :> r1 @@ b1 :> None @@ j1 :> b1
OwnerTable == i1 :> r1 @@ i2 :> r2 @@ i3 :> b1 @@ i4 :> j1

WorkloadSet == { i1 :> 1 @@ i2 :> 1 @@ i3 :> 0 @@ i4 :> 0,
                 i1 :> 0 @@ i2 :> 0 @@ i3 :> 1 @@ i4 :> 1 }
=============================================================================
