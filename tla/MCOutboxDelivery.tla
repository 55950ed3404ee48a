--------------------------- MODULE MCOutboxDelivery ---------------------------
(* Small instances of OutboxDelivery for TLC.                              *)
EXTENDS OutboxDelivery, TLC

OutboxSymmetry == Permutations(Rows) \cup Permutations(Dispatchers)
=============================================================================
