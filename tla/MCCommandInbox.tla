---------------------------- MODULE MCCommandInbox ----------------------------
(* Small instances of CommandInbox for TLC.                                *)
EXTENDS CommandInbox, TLC

ReplicaSymmetry == Permutations(Kernels)
=============================================================================
