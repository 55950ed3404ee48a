------------------------------ MODULE EffectOnce ------------------------------
(***************************************************************************)
(* What the durable queues of the kernel promise their users.  An item     *)
(* that is registered is open until it is settled, and it is settled once: *)
(* either its effect happens in the very step that records it as done, or  *)
(* it is dropped and its effect never happens.  Leases, batches, replicas, *)
(* retries and crashes do not show.  CommandInbox and TimerDispatch are    *)
(* shown to implement this specification.                                  *)
(***************************************************************************)
EXTENDS Naturals

CONSTANT Items

VARIABLES
  outcome,         \* per item: "absent", "open", "done" or "dropped"
  effects          \* per item: how often its effect happened

vars == <<outcome, effects>>

Init ==
  /\ outcome = [i \in Items |-> "absent"]
  /\ effects = [i \in Items |-> 0]

Register(i) ==
  /\ outcome[i] = "absent"
  /\ outcome' = [outcome EXCEPT ![i] = "open"]
  /\ UNCHANGED effects

\* One transaction settles any number of open items, and their effects are
\* part of it.
Settle(done, dropped) ==
  /\ done \cap dropped = {}
  /\ \A i \in done \cup dropped : outcome[i] = "open"
  /\ outcome' = [i \in Items |-> IF i \in done THEN "done"
                                 ELSE IF i \in dropped THEN "dropped" ELSE outcome[i]]
  /\ effects' = [i \in Items |-> effects[i] + IF i \in done THEN 1 ELSE 0]

Next ==
  \/ \E i \in Items : Register(i)
  \/ \E done, dropped \in SUBSET Items : Settle(done, dropped)

Spec == Init /\ [][Next]_vars
=============================================================================
