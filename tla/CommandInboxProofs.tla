-------------------------- MODULE CommandInboxProofs --------------------------
(***************************************************************************)
(* Machine-checked proofs about the command inbox, for any number of       *)
(* commands and replicas, any batch size and any amount of contention.     *)
(***************************************************************************)
EXTENDS CommandInbox, TLAPS

\* What an open transaction may rely on: its row has no result yet, it lost a
\* race only if it holds the append lock since, and what it loaded under that
\* lock is current.
OpenTransactions ==
  \A k \in Kernels : txn[k] # None =>
    /\ row[txn[k].command] \notin Final
    /\ txn[k].tries > 0 => txn[k].locks
    /\ txn[k].locks /\ txn[k].read # None => txn[k].read = version
    /\ txn[k].command \in Locked /\ ~txn[k].locks => txn[k].read = None

\* The command lock and the append lock exclude.
LocksExclude ==
  \A k, o \in Kernels : k # o =>
    /\ txn[k] # None /\ txn[o] # None => txn[k].command # txn[o].command
    /\ ~(HoldsLock(k) /\ HoldsLock(o))

InboxInv ==
  InboxTypeOK /\ OpenTransactions /\ LocksExclude /\ ExactlyOnce /\ ContentionLosesNothing

-----------------------------------------------------------------------------
(* One replica acts at a time: its open transaction is a typed record, and *)
(* no other transaction is about the same command.                         *)
LEMMA OpenType ==
  ASSUME InboxTypeOK, NEW k \in Kernels, txn[k] # None
  PROVE  /\ txn[k] \in Transactions /\ txn[k].command \in Commands
         /\ txn[k].tries \in Nat /\ txn[k].read \in Nat \cup {None}
         /\ txn[k].locks \in BOOLEAN
BY Zenon DEF InboxTypeOK, Transactions

(* Recording a result ends the transaction and keeps the invariant, if the *)
(* result counts once (inbox.complete and the commit in handle).           *)
LEMMA CompleteKeeps ==
  ASSUME InboxInv, NEW k \in Kernels, txn[k] # None,
         NEW result \in {"accepted", "rejected"}, Complete(k, result),
         \/ /\ result = "accepted" /\ LockFree(k) /\ version' = version + 1
            /\ applied' = [applied EXCEPT ![txn[k].command] = @ + 1]
         \/ /\ result = "rejected" /\ UNCHANGED <<version, applied>>
            /\ MaxConflicts >= 2 => txn[k].command \in Invalid
  PROVE  InboxInv'
<1> USE DEF InboxInv
<1>1. /\ txn[k] \in Transactions /\ txn[k].command \in Commands
      /\ row[txn[k].command] \notin Final
  BY Zenon, OpenType DEF OpenTransactions
<1> DEFINE c == txn[k].command
<1>2. /\ row' = [row EXCEPT ![c] = result]
      /\ attempts' = [attempts EXCEPT ![c] = @ + 1]
      /\ txn' = [txn EXCEPT ![k] = None]
      /\ batch' = [batch EXCEPT ![k] = @ \ {c}]
      /\ lapsed' = lapsed \ {c}
      /\ UNCHANGED <<received_at, arrivals, others, faults>>
  BY Zenon DEF Complete
<1>3. InboxTypeOK'
  BY <1>1, <1>2 DEF InboxTypeOK, RowStates, Final
<1>4. OpenTransactions'
  <2> SUFFICES ASSUME NEW o \in Kernels, txn'[o] # None
               PROVE  /\ row'[txn'[o].command] \notin Final
                      /\ txn'[o].tries > 0 => txn'[o].locks
                      /\ txn'[o].locks /\ txn'[o].read # None => txn'[o].read = version'
                      /\ txn'[o].command \in Locked /\ ~txn'[o].locks => txn'[o].read = None
    BY Zenon DEF OpenTransactions
  <2>1. o # k /\ txn'[o] = txn[o] /\ txn[o] # None
    BY Zenon, <1>2 DEF InboxTypeOK
  <2>2. txn[o].command # c /\ txn[o].command \in Commands
    BY Zenon, <2>1, OpenType DEF LocksExclude
  <2>3. row'[txn[o].command] = row[txn[o].command]
    BY Zenon, <1>2, <2>2 DEF InboxTypeOK
  <2>4. version' = version \/ ~txn[o].locks
    BY Zenon, <2>1 DEF LockFree, HoldsLock
  <2> QED BY Zenon, <2>1, <2>3, <2>4 DEF OpenTransactions
<1>5. LocksExclude'
  BY Zenon, <1>2 DEF LocksExclude, HoldsLock, InboxTypeOK
<1>6. ExactlyOnce'
  BY <1>1, <1>2 DEF ExactlyOnce, InboxTypeOK, Final
<1>7. ContentionLosesNothing'
  BY Zenon, <1>1, <1>2 DEF ContentionLosesNothing, InboxTypeOK
<1> QED BY Zenon, <1>3, <1>4, <1>5, <1>6, <1>7

(* Rolling back keeps the invariant: nothing of the claim remains (the     *)
(* exception paths of handle, or the death of the replica).                *)
LEMMA RollbackKeeps ==
  ASSUME InboxInv, NEW k \in Kernels, NEW rest \in SUBSET Commands, Rollback(k, rest),
         faults' \in Nat
  PROVE  InboxInv'
<1> USE DEF InboxInv, Rollback
<1>1. InboxTypeOK'
  BY Zenon DEF InboxTypeOK
<1>2. OpenTransactions' /\ LocksExclude'
  BY Zenon DEF OpenTransactions, LocksExclude, HoldsLock, InboxTypeOK
<1>3. ExactlyOnce' /\ ContentionLosesNothing'
  BY Zenon DEF ExactlyOnce, ContentionLosesNothing
<1> QED BY Zenon, <1>1, <1>2, <1>3

(* A change to one open transaction keeps the invariant if it respects the *)
(* rules of OpenTransactions and takes the append lock only when it is     *)
(* free (LockScope, LoadStream and a lost race that is tried again).       *)
LEMMA WorkKeeps ==
  ASSUME InboxInv, NEW k \in Kernels, txn[k] # None, NEW t \in Transactions,
         txn' = [txn EXCEPT ![k] = t],
         t.command = txn[k].command,
         t.locks => LockFree(k) \/ txn[k].locks,
         t.tries > 0 => t.locks,
         t.locks /\ t.read # None => t.read = version,
         t.command \in Locked /\ ~t.locks => t.read = None,
         UNCHANGED <<row, received_at, attempts, lapsed, batch, version, applied,
                     arrivals, others, faults>>
  PROVE  InboxInv'
<1> USE DEF InboxInv
<1>1. InboxTypeOK'
  BY Zenon DEF InboxTypeOK
<1>2. OpenTransactions'
  BY Zenon DEF OpenTransactions, InboxTypeOK
<1>3. LocksExclude'
  BY Zenon, CommandAssumption DEF LocksExclude, HoldsLock, LockFree, InboxTypeOK
<1>4. ExactlyOnce' /\ ContentionLosesNothing'
  BY Zenon DEF ExactlyOnce, ContentionLosesNothing
<1> QED BY Zenon, <1>1, <1>2, <1>3, <1>4

-----------------------------------------------------------------------------
(* Every step of a replica keeps the invariant.                            *)
LEMMA ReplicaKeeps ==
  ASSUME InboxInv, NEW k \in Kernels, ReplicaStep(k)
  PROVE  InboxInv'
<1> USE DEF InboxInv
<1>1. CASE LoadPending(k)
  <2>1. Pending \subseteq Commands /\ \A c \in Pending : row[c] \in {"received", "processing"}
    BY Zenon DEF Pending, Eligible
  <2> HIDE DEF InboxInv
  <2>2. InboxTypeOK'
    BY Zenon, <1>1, <2>1 DEF LoadPending, InboxInv, InboxTypeOK, RowStates
  <2>3. OpenTransactions' /\ LocksExclude'
    BY Zenon, <1>1, <2>1, OpenType
       DEF LoadPending, InboxInv, OpenTransactions, LocksExclude, HoldsLock, Final
  <2>4. ExactlyOnce' /\ ContentionLosesNothing'
    BY Zenon, <1>1, <2>1 DEF LoadPending, InboxInv, ExactlyOnce, ContentionLosesNothing
  <2> QED BY Zenon, <2>2, <2>3, <2>4 DEF InboxInv
<1>2. ASSUME NEW c \in Commands, ClaimRow(k, c)
      PROVE  InboxInv'
  <2>1. CASE row[c] \in Final \/ attempts[c] + 1 > MaxDeliveries
    <3>1. /\ row' = [row EXCEPT ![c] = IF row[c] \in Final THEN row[c] ELSE "dead_lettered"]
          /\ batch' = [batch EXCEPT ![k] = @ \ {c}]
          /\ UNCHANGED <<txn, received_at, attempts, lapsed, version, applied,
                         arrivals, others, faults>>
      BY Zenon, <1>2, <2>1 DEF ClaimRow
    <3>2. \A o \in Kernels : txn[o] # None => txn[o].command # c
      BY Zenon, <1>2 DEF ClaimRow, InTransaction
    <3>3. InboxTypeOK'
      BY Zenon, <3>1 DEF InboxTypeOK, RowStates, Final
    <3>4. OpenTransactions' /\ LocksExclude'
      BY <3>1, <3>2 DEF OpenTransactions, LocksExclude, HoldsLock, InboxTypeOK
    <3>5. ExactlyOnce' /\ ContentionLosesNothing'
      BY Zenon, <3>1 DEF ExactlyOnce, ContentionLosesNothing, InboxTypeOK, Final
    <3> QED BY Zenon, <3>3, <3>4, <3>5
  <2>2. CASE ~(row[c] \in Final \/ attempts[c] + 1 > MaxDeliveries)
    <3> DEFINE t == [command |-> c, tries |-> 0, read |-> None, locks |-> FALSE]
    <3>1. /\ txn' = [txn EXCEPT ![k] = t]
          /\ UNCHANGED <<row, batch, received_at, attempts, lapsed, version, applied,
                         arrivals, others, faults>>
      BY Zenon, <1>2, <2>2 DEF ClaimRow
    <3>2. \A o \in Kernels : txn[o] # None => txn[o].command # c
      BY Zenon, <1>2 DEF ClaimRow, InTransaction
    <3>3. /\ t \in Transactions /\ t.command = c /\ t.tries = 0 /\ t.read = None
          /\ t.locks = FALSE
      BY Zenon DEF Transactions
    <3> HIDE DEF t
    <3>4. InboxTypeOK'
      BY Zenon, <3>1, <3>3 DEF InboxTypeOK
    <3>5. OpenTransactions'
      BY <2>2, <3>1, <3>3 DEF OpenTransactions, InboxTypeOK
    <3>6. LocksExclude'
      BY Zenon, <3>1, <3>2, <3>3 DEF LocksExclude, HoldsLock, InboxTypeOK
    <3>7. ExactlyOnce' /\ ContentionLosesNothing'
      BY Zenon, <3>1 DEF ExactlyOnce, ContentionLosesNothing
    <3> QED BY Zenon, <3>4, <3>5, <3>6, <3>7
  <2> QED BY Zenon, <2>1, <2>2
<1>3. CASE LockScope(k)
  <2> DEFINE t == [txn[k] EXCEPT !.locks = TRUE]
  <2>1. txn[k] # None /\ LockFree(k) /\ txn[k].command \in Locked /\ ~txn[k].locks
    BY Zenon, <1>3 DEF LockScope, Working
  <2>2. txn' = [txn EXCEPT ![k] = t]
    BY Zenon, <1>3 DEF LockScope
  <2>3. /\ t \in Transactions /\ t.command = txn[k].command /\ t.locks = TRUE
        /\ t.read = txn[k].read
    BY ZenonT(40), <2>1, OpenType DEF Transactions
  <2>4. t.read = None
    BY Zenon, <2>1, <2>3 DEF OpenTransactions
  <2> HIDE DEF t, InboxInv
  <2> QED BY ZenonT(40), <1>3, <2>1, <2>2, <2>3, <2>4, WorkKeeps DEF LockScope
<1>4. CASE LoadStream(k)
  <2> DEFINE t == [txn[k] EXCEPT !.read = version]
  <2>1. txn[k] # None /\ (txn[k].command \in Locked => txn[k].locks)
    BY Zenon, <1>4 DEF LoadStream, Working
  <2>2. txn' = [txn EXCEPT ![k] = t]
    BY Zenon, <1>4 DEF LoadStream
  <2>3. /\ t \in Transactions /\ t.command = txn[k].command /\ t.locks = txn[k].locks
        /\ t.read = version /\ t.tries = txn[k].tries
    BY Zenon, <2>1, OpenType DEF Transactions, InboxTypeOK
  <2>4. t.tries > 0 => t.locks
    BY Zenon, <2>1, <2>3 DEF OpenTransactions
  <2> HIDE DEF t, InboxInv
  <2> QED BY ZenonT(40), <1>4, <2>1, <2>2, <2>3, <2>4, WorkKeeps DEF LoadStream
<1>5. CASE RejectInvalid(k)
  BY Zenon, <1>5, CompleteKeeps DEF RejectInvalid, Working
<1>6. CASE AppendEvents(k)
  BY ZenonT(40), <1>6, CompleteKeeps DEF AppendEvents, Appending, Working
<1>7. CASE LoseRace(k)
  <2>1. /\ txn[k] # None /\ LockFree(k) /\ txn[k].read # None /\ txn[k].read # version
        /\ UNCHANGED <<version, applied>>
    BY Zenon, <1>7 DEF LoseRace, Appending, Working
  <2>2. ~txn[k].locks /\ ~(txn[k].tries > 0)
    BY Zenon, <2>1 DEF OpenTransactions
  <2>3. txn[k].tries = 0
    BY <2>1, <2>2, OpenType
  <2>4. CASE txn[k].tries + 1 < MaxConflicts
    <3> DEFINE t == [command |-> txn[k].command, tries |-> txn[k].tries + 1,
                     read |-> None, locks |-> TRUE]
    <3>1. txn' = [txn EXCEPT ![k] = t]
      BY Zenon, <1>7, <2>4 DEF LoseRace
    <3>2. /\ t \in Transactions /\ t.command = txn[k].command /\ t.locks = TRUE
          /\ t.read = None
      <4>1. txn[k] \in Transactions /\ txn[k].tries + 1 \in Nat
        BY <2>1, OpenType
      <4>2. txn[k].command \in Commands
        BY Zenon, <4>1 DEF Transactions
      <4> QED BY Zenon, <4>1, <4>2 DEF Transactions
    <3>3. UNCHANGED <<row, received_at, attempts, lapsed, batch, arrivals, others, faults>>
      BY Zenon, <1>7, <2>4 DEF LoseRace
    <3> HIDE DEF t, InboxInv
    <3> QED BY ZenonT(40), <2>1, <3>1, <3>2, <3>3, WorkKeeps
  <2>5. CASE ~(txn[k].tries + 1 < MaxConflicts)
    <3>1. Complete(k, "rejected")
      BY Zenon, <1>7, <2>5 DEF LoseRace
    <3>2. ~(MaxConflicts >= 2)
      BY <2>3, <2>5, InboxLimitAssumption
    <3> QED BY Zenon, <2>1, <3>1, <3>2, CompleteKeeps
  <2> QED BY Zenon, <2>4, <2>5
<1> QED BY Zenon, <1>1, <1>2, <1>3, <1>4, <1>5, <1>6, <1>7 DEF ReplicaStep

(* Every step keeps the invariant.                                         *)
LEMMA StepKeeps ==
  ASSUME InboxInv, [Next]_vars
  PROVE  InboxInv'
<1> USE DEF InboxInv
<1>1. ASSUME NEW c \in Commands, Receive(c)
      PROVE  InboxInv'
  <2>1. InboxTypeOK'
    BY <1>1 DEF Receive, InboxTypeOK, RowStates
  <2>2. OpenTransactions' /\ LocksExclude'
    BY Zenon, <1>1, OpenType DEF Receive, OpenTransactions, LocksExclude, HoldsLock, InboxTypeOK, Final
  <2>3. ExactlyOnce' /\ ContentionLosesNothing'
    BY Zenon, <1>1 DEF Receive, ExactlyOnce, ContentionLosesNothing, InboxTypeOK
  <2> QED BY Zenon, <2>1, <2>2, <2>3
<1>2. ASSUME NEW c \in Commands, LeaseLapses(c)
      PROVE  InboxInv'
  BY Zenon, <1>2 DEF LeaseLapses, InboxTypeOK, OpenTransactions, LocksExclude, HoldsLock, ExactlyOnce,
              ContentionLosesNothing
<1>3. ASSUME NEW k \in Kernels, ProcessingRaises(k) \/ Crash(k) \/ Defer(k)
      PROVE  InboxInv'
  <2>1. /\ faults' \in Nat
        /\ Rollback(k, {}) \/ Rollback(k, batch[k] \ {txn[k].command})
    BY <1>3 DEF ProcessingRaises, Crash, Defer, InboxTypeOK
  <2>2. {} \in SUBSET Commands /\ batch[k] \ {txn[k].command} \in SUBSET Commands
    BY Zenon DEF InboxTypeOK
  <2> HIDE DEF InboxInv
  <2> QED BY Zenon, <2>1, <2>2, RollbackKeeps
<1>4. CASE OtherAppends
  <2>1. InboxTypeOK'
    BY <1>4 DEF OtherAppends, InboxTypeOK
  <2>2. OpenTransactions' /\ LocksExclude'
    BY Zenon, <1>4 DEF OtherAppends, OpenTransactions, LocksExclude, HoldsLock
  <2>3. ExactlyOnce' /\ ContentionLosesNothing'
    BY Zenon, <1>4 DEF OtherAppends, ExactlyOnce, ContentionLosesNothing
  <2> QED BY Zenon, <2>1, <2>2, <2>3
<1>5. CASE UNCHANGED vars
  BY Zenon, <1>5 DEF vars, InboxTypeOK, OpenTransactions, LocksExclude, HoldsLock, ExactlyOnce,
              ContentionLosesNothing
<1> HIDE DEF InboxInv
<1> QED BY Zenon, <1>1, <1>2, <1>3, <1>4, <1>5, ReplicaKeeps DEF Next

(* InboxInv holds of every behaviour.                                      *)
THEOREM InboxInvariance == Spec => []InboxInv
<1>1. Init => InboxInv
  BY DEF Init, InboxInv, InboxTypeOK, RowStates, OpenTransactions, LocksExclude, HoldsLock,
         ExactlyOnce, ContentionLosesNothing
<1>2. InboxInv /\ [Next]_vars => InboxInv'
  BY Zenon, StepKeeps
<1> QED BY <1>1, <1>2, PTL DEF Spec

(* A command's events are on the stream once if and only if its row says   *)
(* accepted, for any number of replicas, crashes and lapsed leases         *)
(* (handle_in_session in one transaction).                                 *)
THEOREM ExactlyOnceTheorem == Spec => []ExactlyOnce
BY InboxInvariance, PTL DEF InboxInv

(* No command is rejected for contention, whatever the number of other     *)
(* writers and appends, once two tries are allowed: the first lost race    *)
(* leaves the append lock with the loser (_process, append).               *)
THEOREM ContentionTheorem == Spec => []ContentionLosesNothing
BY InboxInvariance, PTL DEF InboxInv

(* No step replaces a result: rows with one are neither loaded nor held by *)
(* an open transaction, and a late claim answers with it.                  *)
LEMMA ResultStep ==
  ASSUME InboxInv, [Next]_vars
  PROVE  KeepsResults
<1> USE DEF KeepsResults, Final
<1> InboxTypeOK /\ OpenTransactions
  BY Zenon DEF InboxInv
<1>1. ASSUME NEW c \in Commands, Receive(c) \/ LeaseLapses(c)
      PROVE  KeepsResults
  BY Zenon, <1>1 DEF Receive, LeaseLapses, InboxTypeOK
<1>2. ASSUME NEW k \in Kernels, ReplicaStep(k)
      PROVE  KeepsResults
  <2>1. CASE LoadPending(k)
    BY Zenon, <2>1 DEF LoadPending, Pending, Eligible
  <2>2. ASSUME NEW c \in Commands, ClaimRow(k, c)
        PROVE  KeepsResults
    BY Zenon, <2>2 DEF ClaimRow, InboxTypeOK
  <2>3. CASE LockScope(k) \/ LoadStream(k)
    BY Zenon, <2>3 DEF LockScope, LoadStream
  <2>4. ASSUME txn[k] # None, NEW result, Complete(k, result)
        PROVE  KeepsResults
    <3>1. row[txn[k].command] \notin Final /\ row' = [row EXCEPT ![txn[k].command] = result]
      BY Zenon, <2>4 DEF Complete, OpenTransactions
    <3> QED BY Zenon, <3>1 DEF InboxTypeOK
  <2>5. CASE RejectInvalid(k) \/ AppendEvents(k) \/ LoseRace(k)
    BY Zenon, <2>4, <2>5 DEF RejectInvalid, AppendEvents, LoseRace, Appending, Working
  <2> QED BY Zenon, <1>2, <2>1, <2>2, <2>3, <2>5 DEF ReplicaStep
<1>3. ASSUME NEW k \in Kernels, ProcessingRaises(k) \/ Crash(k) \/ Defer(k)
      PROVE  KeepsResults
  BY Zenon, <1>3 DEF ProcessingRaises, Crash, Defer, Rollback
<1>4. CASE OtherAppends \/ UNCHANGED vars
  BY Zenon, <1>4 DEF OtherAppends, vars
<1> QED BY Zenon, <1>1, <1>2, <1>3, <1>4 DEF Next

(* The recorded result of a command is never replaced (inbox.claim on a    *)
(* completed row, inbox.complete).                                         *)
THEOREM ResultFinalTheorem == Spec => ResultFinal
BY InboxInvariance, ResultStep, PTL DEF Spec, ResultFinal

-----------------------------------------------------------------------------
\* The rows as a user of the inbox sees them.
outcomes == [c \in Commands |-> Outcome(c)]

(* A row that changes only between "received" and "processing", or not at  *)
(* all, is not seen to change.                                             *)
LEMMA OutcomeKept ==
  ASSUME InboxTypeOK, InboxTypeOK', UNCHANGED applied,
         \A c \in Commands : \/ row'[c] = row[c]
                              \/ {row[c], row'[c]} \subseteq {"received", "processing"}
  PROVE  UNCHANGED Promise!vars
<1>1. \A c \in Commands : Outcome(c)' = Outcome(c)
  BY Zenon DEF Outcome, InboxTypeOK, RowStates, Final
<1> QED BY Zenon, <1>1 DEF Promise!vars

(* Recording the result of one open row is the abstract settlement of that *)
(* command, provided its events count exactly if it is accepted.           *)
LEMMA OutcomeSettled ==
  ASSUME InboxTypeOK, NEW c \in Commands, row[c] \in {"received", "processing"},
         NEW result \in Final, row' = [row EXCEPT ![c] = result],
         applied' = [d \in Commands |->
                       applied[d] + IF d = c /\ result = "accepted" THEN 1 ELSE 0]
  PROVE  Promise!Next
<1> DEFINE done == IF result = "accepted" THEN {c} ELSE {}
           dropped == {c} \ done
<1>1. done \in SUBSET Commands /\ dropped \in SUBSET Commands /\ done \cap dropped = {}
  BY Zenon
<1>2. \A i \in done \cup dropped : outcomes[i] = "open"
  BY Zenon DEF outcomes, Outcome
<1>3. \A i \in Commands :
        Outcome(i)' = IF i \in done THEN "done" ELSE IF i \in dropped THEN "dropped" ELSE outcomes[i]
  BY Zenon DEF outcomes, Outcome, Final, InboxTypeOK, RowStates
<1>4. Promise!Settle(done, dropped)
  BY Zenon, <1>1, <1>2, <1>3 DEF Promise!Settle, outcomes, InboxTypeOK
<1> QED BY Zenon, <1>1, <1>4 DEF Promise!Next

\* Only rows that were received are worked on.
Registered ==
  /\ \A k \in Kernels : \A c \in batch[k] : row[c] # "absent"
  /\ \A k \in Kernels : txn[k] # None => row[txn[k].command] # "absent"

(* No row vanishes, and batches and transactions take up received rows     *)
(* only (load_pending, claim).                                             *)
LEMMA RegisteredStep ==
  ASSUME InboxInv, Registered, [Next]_vars
  PROVE  Registered'
<1> InboxTypeOK /\ InboxTypeOK'
  BY Zenon, StepKeeps DEF InboxInv
<1>1. ASSUME NEW c \in Commands, Receive(c) \/ LeaseLapses(c)
      PROVE  Registered'
  BY <1>1, OpenType DEF Receive, LeaseLapses, InboxTypeOK, Registered
<1>2. ASSUME NEW k \in Kernels, LoadPending(k)
      PROVE  Registered'
  BY Zenon, <1>2, OpenType DEF LoadPending, Pending, Registered, InboxTypeOK
<1>3. ASSUME NEW k \in Kernels, NEW c \in Commands, ClaimRow(k, c)
      PROVE  Registered'
  <2>1. row[c] # "absent"
    BY Zenon, <1>3 DEF ClaimRow, NextInBatch, Registered
  <2>2. CASE row[c] \in Final \/ attempts[c] + 1 > MaxDeliveries
    BY <1>3, <2>1, <2>2, OpenType DEF ClaimRow, Registered, InboxTypeOK, Final
  <2>3. CASE ~(row[c] \in Final \/ attempts[c] + 1 > MaxDeliveries)
    BY <1>3, <2>1, <2>3 DEF ClaimRow, Registered, InboxTypeOK
  <2> QED BY Zenon, <2>2, <2>3
<1>4. ASSUME NEW k \in Kernels, LockScope(k) \/ LoadStream(k)
      PROVE  Registered'
  <2>1. txn[k] # None /\ txn[k] \in Transactions
    BY Zenon, <1>4, OpenType DEF LockScope, LoadStream, Working
  <2>2. txn'[k].command = txn[k].command /\ \A o \in Kernels \ {k} : txn'[o] = txn[o]
    BY ZenonT(40), <1>4, <2>1 DEF LockScope, LoadStream, InboxTypeOK, Transactions
  <2>3. UNCHANGED <<row, batch>>
    BY Zenon, <1>4 DEF LockScope, LoadStream
  <2> QED BY Zenon, <2>1, <2>2, <2>3 DEF Registered
<1>5. ASSUME NEW k \in Kernels, txn[k] # None, NEW result \in Final, Complete(k, result)
      PROVE  Registered'
  <2>1. /\ row' = [row EXCEPT ![txn[k].command] = result]
        /\ txn' = [txn EXCEPT ![k] = None]
        /\ batch' = [batch EXCEPT ![k] = @ \ {txn[k].command}]
    BY Zenon, <1>5 DEF Complete
  <2> QED BY Zenon, <2>1, OpenType DEF Registered, InboxTypeOK, Final
<1>6. ASSUME NEW k \in Kernels, RejectInvalid(k) \/ AppendEvents(k) \/ LoseRace(k)
      PROVE  Registered'
  <2>1. CASE Complete(k, "rejected") \/ Complete(k, "accepted")
    BY Zenon, <1>5, <1>6, <2>1 DEF RejectInvalid, AppendEvents, LoseRace, Appending, Working, Final
  <2>2. CASE /\ LoseRace(k)
             /\ txn' = [txn EXCEPT ![k] = [command |-> @.command, tries |-> @.tries + 1,
                                           read |-> None, locks |-> TRUE]]
             /\ UNCHANGED <<row, batch>>
    BY Zenon, <2>2 DEF LoseRace, Appending, Working, Registered, InboxTypeOK
  <2> QED BY Zenon, <1>6, <2>1, <2>2 DEF RejectInvalid, AppendEvents, LoseRace
<1>7. ASSUME NEW k \in Kernels, ProcessingRaises(k) \/ Crash(k) \/ Defer(k)
      PROVE  Registered'
  BY ZenonT(40), <1>7 DEF ProcessingRaises, Crash, Defer, Rollback, Registered, InboxTypeOK
<1>8. CASE OtherAppends \/ UNCHANGED vars
  BY Zenon, <1>8 DEF OtherAppends, vars, Registered
<1> QED BY Zenon, <1>1, <1>2, <1>3, <1>4, <1>6, <1>7, <1>8 DEF Next, ReplicaStep

(* Every step of the inbox is a step of EffectOnce or is not seen: only    *)
(* Receive registers, and only the recording of a result settles.          *)
LEMMA PromiseStep ==
  ASSUME InboxInv, Registered, [Next]_vars
  PROVE  [Promise!Next]_Promise!vars
<1> InboxTypeOK /\ InboxTypeOK' /\ OpenTransactions
  BY Zenon, StepKeeps DEF InboxInv
<1>1. ASSUME NEW c \in Commands, Receive(c)
      PROVE  Promise!Next
  <2>1. outcomes[c] = "absent"
    BY Zenon, <1>1 DEF Receive, outcomes, Outcome
  <2>2. \A i \in Commands : Outcome(i)' = IF i = c THEN "open" ELSE outcomes[i]
    BY Zenon, <1>1 DEF Receive, outcomes, Outcome, InboxTypeOK, RowStates, Final
  <2>3. Promise!Register(c)
    BY ZenonT(40), <1>1, <2>1, <2>2 DEF Promise!Register, outcomes, Receive
  <2> QED BY Zenon, <2>3 DEF Promise!Next
<1>2. ASSUME NEW c \in Commands, LeaseLapses(c)
      PROVE  UNCHANGED Promise!vars
  BY Zenon, <1>2, OutcomeKept DEF LeaseLapses
<1>3. ASSUME NEW k \in Kernels, LoadPending(k)
      PROVE  UNCHANGED Promise!vars
  <2>1. \A c \in Commands : \/ row'[c] = row[c]
                             \/ {row[c], row'[c]} \subseteq {"received", "processing"}
    BY Zenon, <1>3 DEF LoadPending, Pending, Eligible
  <2> QED BY Zenon, <1>3, <2>1, OutcomeKept DEF LoadPending
<1>4. ASSUME NEW k \in Kernels, NEW c \in Commands, ClaimRow(k, c)
      PROVE  Promise!Next \/ UNCHANGED Promise!vars
  <2>1. UNCHANGED applied /\ row[c] # "absent"
    BY Zenon, <1>4 DEF ClaimRow, NextInBatch, Registered
  <2>2. CASE row' = row
    BY Zenon, <2>1, <2>2, OutcomeKept
  <2>3. CASE row' # row
    <3>1. row[c] \notin Final /\ row' = [row EXCEPT ![c] = "dead_lettered"]
      BY Zenon, <1>4, <2>3 DEF ClaimRow, InboxTypeOK
    <3>2. row[c] \in {"received", "processing"} /\ "dead_lettered" \in Final
      BY Zenon, <2>1, <3>1 DEF InboxTypeOK, RowStates, Final
    <3>3. applied' = [d \in Commands |->
                        applied[d] + IF d = c /\ "dead_lettered" = "accepted" THEN 1 ELSE 0]
      BY <2>1 DEF InboxTypeOK
    <3> QED BY ZenonT(40), <3>1, <3>2, <3>3, OutcomeSettled
  <2> QED BY Zenon, <2>2, <2>3
<1>5. ASSUME NEW k \in Kernels, LockScope(k) \/ LoadStream(k)
      PROVE  UNCHANGED Promise!vars
  BY Zenon, <1>5, OutcomeKept DEF LockScope, LoadStream
<1>6. ASSUME NEW k \in Kernels, RejectInvalid(k) \/ AppendEvents(k) \/ LoseRace(k)
      PROVE  Promise!Next \/ UNCHANGED Promise!vars
  <2>1. txn[k] # None
    BY Zenon, <1>6 DEF RejectInvalid, AppendEvents, LoseRace, Appending, Working
  <2>2. txn[k].command \in Commands /\ row[txn[k].command] \in {"received", "processing"}
    BY Zenon, <2>1, OpenType DEF OpenTransactions, Registered, InboxTypeOK, RowStates, Final
  <2>3. CASE Complete(k, "rejected") /\ UNCHANGED applied
    <3>1. row' = [row EXCEPT ![txn[k].command] = "rejected"]
      BY Zenon, <2>3 DEF Complete
    <3>2. applied' = [d \in Commands |->
             applied[d] + IF d = txn[k].command /\ "rejected" = "accepted" THEN 1 ELSE 0]
      BY <2>3 DEF InboxTypeOK
    <3> QED BY ZenonT(40), <2>2, <3>1, <3>2, OutcomeSettled DEF Final
  <2>4. CASE AppendEvents(k)
    <3>1. row' = [row EXCEPT ![txn[k].command] = "accepted"]
      BY Zenon, <2>4 DEF AppendEvents, Complete
    <3>2. applied' = [d \in Commands |->
             applied[d] + IF d = txn[k].command /\ "accepted" = "accepted" THEN 1 ELSE 0]
      <4> DEFINE c == txn[k].command
      <4>1. applied' = [applied EXCEPT ![c] = @ + 1] /\ c \in Commands
        BY Zenon, <2>2, <2>4 DEF AppendEvents
      <4>2. applied \in [Commands -> Nat]
        BY Zenon DEF InboxTypeOK
      <4> HIDE DEF c
      <4>3. \A d \in Commands :
              applied'[d] = applied[d] + IF d = c /\ "accepted" = "accepted" THEN 1 ELSE 0
        BY <4>1, <4>2
      <4>4. applied' \in [Commands -> Nat]
        BY Zenon DEF InboxTypeOK
      <4> QED BY Zenon, <4>3, <4>4 DEF c
    <3> QED BY ZenonT(40), <2>2, <3>1, <3>2, OutcomeSettled DEF Final
  <2>5. CASE UNCHANGED <<row, applied>>
    BY Zenon, <2>5, OutcomeKept
  <2> QED BY Zenon, <1>6, <2>3, <2>4, <2>5 DEF RejectInvalid, LoseRace
<1>7. ASSUME NEW k \in Kernels, ProcessingRaises(k) \/ Crash(k) \/ Defer(k)
      PROVE  UNCHANGED Promise!vars
  BY Zenon, <1>7, OutcomeKept DEF ProcessingRaises, Crash, Defer, Rollback
<1>8. CASE OtherAppends \/ UNCHANGED vars
  BY Zenon, <1>8, OutcomeKept DEF OtherAppends, vars
<1> QED BY Zenon, <1>1, <1>2, <1>3, <1>4, <1>5, <1>6, <1>7, <1>8 DEF Next, ReplicaStep

(* The inbox implements EffectOnce for any number of commands, replicas,   *)
(* crashes and lost races: a command is settled once, and its events reach *)
(* the stream in that very step (receive, claim, complete,                 *)
(* handle_in_session).                                                     *)
THEOREM InboxImplementsEffectOnce == Spec => ImplementsEffectOnce
<1>1. Init => Promise!Init /\ Registered
  BY Zenon DEF Init, Promise!Init, Outcome, Registered
<1>2. InboxInv /\ Registered /\ [Next]_vars => Registered'
  BY Zenon, RegisteredStep
<1>3. InboxInv /\ Registered /\ [Next]_vars => [Promise!Next]_Promise!vars
  BY Zenon, PromiseStep
<1> QED BY <1>1, <1>2, <1>3, InboxInvariance, PTL DEF Spec, ImplementsEffectOnce, Promise!Spec

=============================================================================
