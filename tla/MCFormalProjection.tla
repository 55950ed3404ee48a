-------------------------- MODULE MCFormalProjection --------------------------
(* Small instances of FormalProjection for TLC.                            *)
EXTENDS FormalProjection, TLC

PassSymmetry == Permutations(Appenders) \cup Permutations(Projectors) \cup Permutations(Runs)
=============================================================================
