----------------------------- MODULE CommandInbox -----------------------------
(***************************************************************************)
(* The durable command inbox and the orchestrator that works it off: rows  *)
(* are received once, kernel replicas pre-claim batches of them under a    *)
(* lease, and each command is then processed in one transaction of its     *)
(* own: claim the row, load the stream, decide, append at the version that *)
(* was loaded, record the result.  An exception rolls all of that back.    *)
(*                                                                         *)
(* One owner scope with one stream is modelled.  The scope's append lock   *)
(* is an advisory transaction lock: worker and effect commands take it     *)
(* before they load, every other command when it appends, and whoever took *)
(* it keeps it until the transaction ends, a lost race included.           *)
(***************************************************************************)
EXTENDS Naturals, FiniteSets

CONSTANTS
  Commands,        \* command identities of one stream
  Kernels,         \* replicas of the execution kernel
  Locked,          \* commands that take the append lock before they load
  Invalid,         \* commands the decider rejects
  Poison,          \* commands whose processing always raises
  None,
  MaxDeliveries,   \* max_claim_attempts
  MaxConflicts,    \* max_conflict_retries
  BatchLimit,      \* limit of load_pending
  MaxAppends,      \* bound on the appends of other writers
  MaxFaults        \* bound on crashes, deferrals and passing exceptions

\* An open transaction: lost races so far, the version it loaded, and
\* whether it holds the append lock.
Transactions ==
  [command : Commands, tries : Nat, read : Nat \cup {None}, locks : BOOLEAN]

ASSUME CommandAssumption ==
  /\ None \notin Nat /\ None \notin Transactions
  /\ Locked \subseteq Commands /\ Invalid \subseteq Commands /\ Poison \subseteq Commands
ASSUME InboxLimitAssumption ==
  /\ MaxDeliveries \in Nat \ {0} /\ MaxConflicts \in Nat \ {0} /\ BatchLimit \in Nat \ {0}
  /\ MaxAppends \in Nat /\ MaxFaults \in Nat

VARIABLES
  row,             \* status of the inbox row, "absent" before receive
  received_at,     \* the order of arrival
  attempts,        \* delivery_attempts
  lapsed,          \* processing rows whose claim_deadline has passed
  batch,           \* per replica: commands it pre-claimed and has not handled
  txn,             \* per replica: the open transaction, None outside one
  version,         \* the stream's version
  applied,         \* history: how often the command's events were appended
  arrivals, others, faults   \* counters of the environment

vars == <<row, received_at, attempts, lapsed, batch, txn, version, applied,
          arrivals, others, faults>>

Final == {"accepted", "rejected", "dead_lettered"}
RowStates == Final \cup {"absent", "received", "processing"}

Init ==
  /\ row = [c \in Commands |-> "absent"]
  /\ received_at = [c \in Commands |-> 0]
  /\ attempts = [c \in Commands |-> 0]
  /\ lapsed = {}
  /\ batch = [k \in Kernels |-> {}]
  /\ txn = [k \in Kernels |-> None]
  /\ version = 0
  /\ applied = [c \in Commands |-> 0]
  /\ arrivals = 0 /\ others = 0 /\ faults = 0

-----------------------------------------------------------------------------
(* Delivery.                                                               *)

\* A second receive of the same identity changes nothing.
Receive(c) ==
  /\ row[c] = "absent"
  /\ row' = [row EXCEPT ![c] = "received"]
  /\ arrivals' = arrivals + 1
  /\ received_at' = [received_at EXCEPT ![c] = arrivals + 1]
  /\ UNCHANGED <<attempts, lapsed, batch, txn, version, applied,
                 others, faults>>

\* Mutant of InTransaction: the command identity is not locked.
NeverInTransaction(c) == FALSE

\* A transaction holds the lock of its command and of its row.
InTransaction(c) == \E k \in Kernels : txn[k] # None /\ txn[k].command = c

\* Mutant of Eligible: a lapsed claim is never taken up again.
EligibleNewRow(c) == row[c] = "received" /\ ~InTransaction(c)

Eligible(c) ==
  /\ row[c] = "received" \/ (row[c] = "processing" /\ c \in lapsed)
  /\ ~InTransaction(c)

Earlier(c) == {d \in Commands : Eligible(d) /\ received_at[d] < received_at[c]}

\* ORDER BY received_at LIMIT BatchLimit
Pending == {c \in Commands : Eligible(c) /\ Cardinality(Earlier(c)) < BatchLimit}

\* load_pending commits its claims before any command is handled.
LoadPending(k) ==
  /\ batch[k] = {} /\ txn[k] = None /\ Pending # {}
  /\ batch' = [batch EXCEPT ![k] = Pending]
  /\ row' = [c \in Commands |-> IF c \in Pending THEN "processing" ELSE row[c]]
  /\ lapsed' = lapsed \ Pending
  /\ UNCHANGED <<received_at, attempts, txn, version, applied, arrivals, others, faults>>

LeaseLapses(c) ==
  /\ row[c] = "processing" /\ c \notin lapsed
  /\ lapsed' = lapsed \cup {c}
  /\ UNCHANGED <<row, received_at, attempts, batch, txn, version, applied,
                 arrivals, others, faults>>

-----------------------------------------------------------------------------
(* One command (handle_in_session, _process).                              *)

\* run_once handles its batch in the order of arrival.
NextInBatch(k, c) ==
  c \in batch[k] /\ \A d \in batch[k] : received_at[c] <= received_at[d]

\* A row with a result answers with it; a row out of budget is parked;
\* otherwise the row is claimed inside the transaction that now opens.
ClaimRow(k, c) ==
  /\ NextInBatch(k, c) /\ txn[k] = None /\ ~InTransaction(c)
  /\ IF row[c] \in Final \/ attempts[c] + 1 > MaxDeliveries
     THEN /\ row' = [row EXCEPT ![c] = IF @ \in Final THEN @ ELSE "dead_lettered"]
          /\ batch' = [batch EXCEPT ![k] = @ \ {c}]
          /\ UNCHANGED txn
     ELSE /\ txn' = [txn EXCEPT ![k] = [command |-> c, tries |-> 0, read |-> None,
                                        locks |-> FALSE]]
          /\ UNCHANGED <<row, batch>>
  /\ UNCHANGED <<received_at, attempts, lapsed, version, applied, arrivals, others, faults>>

Working(k) == txn[k] # None /\ txn[k].command \notin Poison

\* The result and the claim commit together, and the locks are released.
Complete(k, result) ==
  LET c == txn[k].command
  IN /\ row' = [row EXCEPT ![c] = result]
     /\ attempts' = [attempts EXCEPT ![c] = @ + 1]
     /\ txn' = [txn EXCEPT ![k] = None]
     /\ batch' = [batch EXCEPT ![k] = @ \ {c}]
     /\ lapsed' = lapsed \ {c}
     /\ UNCHANGED <<received_at, arrivals, others, faults>>

\* Mutant of HoldsLock: a lost race releases the append lock.
HoldsLockUntilLost(k) == txn[k] # None /\ txn[k].locks /\ txn[k].tries = 0

HoldsLock(k) == txn[k] # None /\ txn[k].locks

\* Nobody else's open transaction holds the scope's append lock.
LockFree(k) == \A o \in Kernels \ {k} : ~HoldsLock(o)

LockScope(k) ==
  /\ Working(k) /\ txn[k].command \in Locked /\ ~txn[k].locks /\ LockFree(k)
  /\ txn' = [txn EXCEPT ![k].locks = TRUE]
  /\ UNCHANGED <<row, received_at, attempts, lapsed, batch, version, applied,
                 arrivals, others, faults>>

LoadStream(k) ==
  /\ Working(k) /\ txn[k].read = None
  /\ txn[k].command \in Locked => txn[k].locks
  /\ txn' = [txn EXCEPT ![k].read = version]
  /\ UNCHANGED <<row, received_at, attempts, lapsed, batch, version, applied,
                 arrivals, others, faults>>

RejectInvalid(k) ==
  /\ Working(k) /\ txn[k].read # None /\ txn[k].command \in Invalid
  /\ Complete(k, "rejected")
  /\ UNCHANGED <<version, applied>>

Appending(k) ==
  /\ Working(k) /\ txn[k].read # None /\ txn[k].command \notin Invalid
  /\ LockFree(k)

AppendEvents(k) ==
  /\ Appending(k) /\ txn[k].read = version
  /\ version' = version + 1
  /\ applied' = [applied EXCEPT ![txn[k].command] = @ + 1]
  /\ Complete(k, "accepted")

\* Another writer was faster: decide again in the same transaction, which
\* now holds the append lock, and give up after MaxConflicts.
LoseRace(k) ==
  /\ Appending(k) /\ txn[k].read # version
  /\ IF txn[k].tries + 1 < MaxConflicts
     THEN /\ txn' = [txn EXCEPT ![k] = [command |-> @.command, tries |-> @.tries + 1,
                                        read |-> None, locks |-> TRUE]]
          /\ UNCHANGED <<row, received_at, attempts, lapsed, batch, arrivals,
                         others, faults>>
     ELSE Complete(k, "rejected")
  /\ UNCHANGED <<version, applied>>

\* Rollback: neither the claim nor its delivery attempt remains.
Rollback(k, rest) ==
  /\ txn' = [txn EXCEPT ![k] = None]
  /\ batch' = [batch EXCEPT ![k] = rest]
  /\ UNCHANGED <<row, received_at, attempts, lapsed, version, applied, arrivals, others>>

\* An exception leaves run_once, so the rest of the batch is dropped.
ProcessingRaises(k) ==
  LET fault == IF txn[k].command \in Poison THEN 0 ELSE 1
  IN /\ txn[k] # None
     /\ faults + fault <= MaxFaults
     /\ Rollback(k, {}) /\ faults' = faults + fault

Crash(k) ==
  /\ batch[k] # {} /\ faults < MaxFaults
  /\ Rollback(k, {}) /\ faults' = faults + 1

\* No capacity, a row locked by a peer, or a worker lease that ran out.
Defer(k) ==
  /\ txn[k] # None /\ faults < MaxFaults
  /\ Rollback(k, batch[k] \ {txn[k].command}) /\ faults' = faults + 1

\* Usage, provenance and evidence commands append to the same stream.
OtherAppends ==
  /\ others < MaxAppends
  /\ \A k \in Kernels : ~HoldsLock(k)
  /\ others' = others + 1 /\ version' = version + 1
  /\ UNCHANGED <<row, received_at, attempts, lapsed, batch, txn, applied, arrivals, faults>>

-----------------------------------------------------------------------------
ReplicaStep(k) ==
  \/ LoadPending(k) \/ (\E c \in Commands : ClaimRow(k, c)) \/ LockScope(k) \/ LoadStream(k)
  \/ RejectInvalid(k) \/ AppendEvents(k) \/ LoseRace(k)

Next ==
  \/ \E c \in Commands : Receive(c) \/ LeaseLapses(c)
  \/ \E k \in Kernels : ReplicaStep(k) \/ ProcessingRaises(k) \/ Crash(k) \/ Defer(k)
  \/ OtherAppends

Spec == Init /\ [][Next]_vars

PoisonRaises(k) == ProcessingRaises(k) /\ txn[k].command \in Poison

\* Replicas poll for ever and leases lapse; a transaction comes to its end.
Fairness ==
  /\ \A k \in Kernels : WF_vars(ReplicaStep(k)) /\ WF_vars(PoisonRaises(k))
  /\ \A c \in Commands : WF_vars(LeaseLapses(c))

FairSpec == Spec /\ Fairness

-----------------------------------------------------------------------------
(* Every part of the inbox state has its type.                             *)
InboxTypeOK ==
  /\ row \in [Commands -> RowStates]
  /\ received_at \in [Commands -> Nat]
  /\ attempts \in [Commands -> Nat]
  /\ lapsed \in SUBSET Commands
  /\ batch \in [Kernels -> SUBSET Commands]
  /\ txn \in [Kernels -> Transactions \cup {None}]
  /\ version \in Nat /\ applied \in [Commands -> Nat]
  /\ arrivals \in Nat /\ others \in Nat /\ faults \in Nat

(* Exactly once: the events of a command are on the stream once if and     *)
(* only if its inbox row says accepted, although leases lapse, batches     *)
(* overlap and replicas die between any two steps (inbox.claim, complete,  *)
(* handle_in_session in one transaction).                                  *)
ExactlyOnce ==
  \A c \in Commands : applied[c] = IF row[c] = "accepted" THEN 1 ELSE 0

\* The steps ResultFinal allows.
KeepsResults == \A c \in Commands : row[c] \in Final => row'[c] = row[c]

(* A result is final: no redelivery, lapsed lease or late replica replaces *)
(* the recorded result of a command (inbox.claim on a completed row).      *)
ResultFinal == [][KeepsResults]_vars

(* Every received command gets a result, as long as replicas stop crashing *)
(* at some point (load_pending's claim_deadline, run_once).                *)
CommandsComplete == \A c \in Commands : row[c] = "received" ~> row[c] \in Final

\* How a user of the inbox sees a row.
Outcome(c) ==
  CASE row[c] = "absent" -> "absent"
    [] row[c] \in {"received", "processing"} -> "open"
    [] row[c] = "accepted" -> "done"
    [] row[c] \in {"rejected", "dead_lettered"} -> "dropped"

Promise == INSTANCE EffectOnce
  WITH Items <- Commands, outcome <- [c \in Commands |-> Outcome(c)], effects <- applied

(* The inbox keeps the promise of EffectOnce: a command is settled once,    *)
(* and its events reach the stream in the step that records it as accepted, *)
(* whatever replicas, leases and races do in between (receive, claim,       *)
(* complete, handle_in_session).                                            *)
ImplementsEffectOnce == Promise!Spec

(* "a command whose processing keeps crashing mid-claim is parked as a     *)
(* dead_lettered terminal row instead of being retried forever"            *)
(* (postgres_inbox.py, the poison-pill cap in claim).                      *)
PoisonIsParked == \A c \in Poison : row[c] = "received" ~> row[c] = "dead_lettered"

(* No command is lost to contention: with at least two tries a command is  *)
(* rejected only if the decider refuses it, however many other writers     *)
(* append, because the first lost race leaves the append lock with the     *)
(* loser.  The commands a timer delivers once (RetryRun, ExpireApproval)   *)
(* depend on it (_process, the retry loop and CONCURRENCY_CONFLICT).       *)
ContentionLosesNothing ==
  MaxConflicts >= 2 =>
    \A c \in Commands : row[c] = "rejected" => c \in Invalid

=============================================================================
