--------------------------- MODULE MCDecisionArming ---------------------------
(* Small instances of DecisionArming for TLC.                              *)
EXTENDS DecisionArming, TLC

CONSTANTS k1, k2

AllSupport == [k \in Workers |-> Runs]
OneSupports == [k \in Workers |-> IF k = k1 THEN Runs ELSE {}]
WorkerSymmetry == Permutations(Workers)
=============================================================================
