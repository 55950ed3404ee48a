---------------------------- MODULE MCTimerDispatch ----------------------------
(* Small instances of TimerDispatch for TLC.                               *)
EXTENDS TimerDispatch, TLC

CONSTANTS t1, t2, t3, s1, s2

TwoStreams == t1 :> s1 @@ t2 :> s1 @@ t3 :> s2
DispatcherSymmetry == Permutations(Dispatchers)
=============================================================================
