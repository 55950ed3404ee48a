--------------------------- MODULE FormalProjection ---------------------------
(***************************************************************************)
(* The formal projection of one owner scope: transactions append events    *)
(* whose positions come from a global sequence and become visible at the   *)
(* commit, projector passes fold the events behind the scope's checkpoint  *)
(* into one row per Run, failing scopes are quarantined, and a recovery    *)
(* deletes the projection and replays it.  A pass also records a notice in *)
(* the outbox for each approval it projects.                               *)
(***************************************************************************)
EXTENDS Naturals, FiniteSets, FiniteSetsExt, Sequences

CONSTANTS
  Runs,            \* streams of the scope
  Appenders,       \* transactions that append
  Projectors,      \* kernel replicas in their projectors lane
  Rebuilder,       \* the worker that processes a recovery request
  EventLimit,      \* events per pass
  Threshold,       \* _SCOPE_FAILURE_QUARANTINE_THRESHOLD
  MaxPosition,     \* bound on the sequence
  MaxFaults,       \* bound on failing passes and crashes
  MaxRecoveries    \* bound on recovery requests

Passes == Projectors \cup {Rebuilder}
Positions == 1..MaxPosition
Events == [position : Positions, run : Runs, asks : BOOLEAN]

ASSUME ProjectionAssumption ==
  /\ Rebuilder \notin Projectors
  /\ EventLimit \in Nat \ {0} /\ Threshold \in Nat \ {0}
  /\ MaxPosition \in Nat /\ MaxFaults \in Nat /\ MaxRecoveries \in Nat

VARIABLES
  sequence,        \* last value of execution_events.position
  open,            \* per appender: events inserted and not committed
  log,             \* committed events of the scope
  head,            \* execution_scope_head
  checkpoint,      \* last_position, 0 without a row
  row,             \* per Run: positions folded into its projection row, in order
  outbox,          \* per position: the row of its approval notice
  inserted,        \* history: how often that row was inserted
  poisoned,        \* the scope's quarantine: "no", "quarantined" or "rebuilding"
  stage,           \* per pass: where it stands
  batch,           \* per pass: the events it read
  streak,          \* per projector: consecutive failures in memory
  recovery,        \* stage of the recovery request
  target,          \* through_position of the rebuild
  faults, recoveries   \* counters of the environment

appendVars == <<sequence, open, log, head>>
noticeVars == <<outbox, inserted>>
passVars == <<stage, batch, streak>>
recoveryVars == <<recovery, target, recoveries>>
projectionVars ==
  <<appendVars, checkpoint, row, noticeVars, poisoned, passVars, recoveryVars, faults>>

\* _delete_scope leaves no rows.
NoRows == [r \in Runs |-> <<>>]

ProjectionInit ==
  /\ sequence = 0 /\ open = [a \in Appenders |-> {}] /\ log = {} /\ head = 0
  /\ checkpoint = 0 /\ row = NoRows
  /\ outbox = [p \in Positions |-> "absent"] /\ inserted = [p \in Positions |-> 0]
  /\ poisoned = "no"
  /\ stage = [k \in Passes |-> "idle"] /\ batch = [k \in Passes |-> {}]
  /\ streak = [k \in Projectors |-> 0]
  /\ recovery = "none" /\ target = 0
  /\ faults = 0 /\ recoveries = 0

-----------------------------------------------------------------------------
(* Appending.                                                              *)

\* The advisory transaction lock of the scope is free.
\* Mutant of ScopeLockFree: a lock per stream.
StreamLockFree(r) == \A a \in Appenders : \A e \in open[a] : e.run # r
ScopeLockFree(r) == \A a \in Appenders : open[a] = {}

\* The sequence assigns positions when rows are inserted, in the order of
\* the events of the command; with asks the last event requests approval.
AppendEvents(a, r, n, asks) ==
  LET first == sequence + 1
      last  == sequence + n
  IN /\ open[a] = {} /\ ScopeLockFree(r)
     /\ last <= MaxPosition
     /\ sequence' = last
     /\ open' = [open EXCEPT ![a] =
          {[position |-> p, run |-> r, asks |-> asks /\ p = last] : p \in first..last}]
     /\ UNCHANGED <<log, head, checkpoint, row, noticeVars, poisoned, passVars,
                    recoveryVars, faults>>

\* Mutant of HeadAfter: the watermark follows the first event.
HeadOfFirst(a) == Max({head, Min({e.position : e \in open[a]})})
HeadAfter(a) == Max({head} \cup {e.position : e \in open[a]})

\* Events and head watermark become visible together.
CommitAppend(a) ==
  /\ open[a] # {}
  /\ log' = log \cup open[a]
  /\ head' = HeadAfter(a)
  /\ open' = [open EXCEPT ![a] = {}]
  /\ UNCHANGED <<sequence, checkpoint, row, noticeVars, poisoned, passVars,
                 recoveryVars, faults>>

\* A sequence is not rolled back: its values are lost.
RollbackAppend(a) ==
  /\ open[a] # {}
  /\ open' = [open EXCEPT ![a] = {}]
  /\ UNCHANGED <<sequence, log, head, checkpoint, row, noticeVars, poisoned, passVars,
                 recoveryVars, faults>>

\* Another scope takes a position.
OtherScopeAppends ==
  /\ sequence < MaxPosition
  /\ sequence' = sequence + 1
  /\ UNCHANGED <<open, log, head, checkpoint, row, noticeVars, poisoned, passVars,
                 recoveryVars, faults>>

-----------------------------------------------------------------------------
(* A projector pass: list_pending, then run_once in one transaction.       *)

\* list_pending offers lagging scopes that are not quarantined.
ListPending(k) ==
  /\ stage[k] = "idle"
  /\ head > checkpoint /\ poisoned = "no"
  /\ stage' = [stage EXCEPT ![k] = "listed"]
  /\ UNCHANGED <<appendVars, checkpoint, row, noticeVars, poisoned, batch, streak,
                 recoveryVars, faults>>

\* The pass that holds the scope's projection lock.
Busy == \E k \in Passes : stage[k] = "reading"

\* read_scope: the first EventLimit visible events behind the checkpoint.
Unread(through) == {e \in log : checkpoint < e.position /\ e.position <= through}
Readable(through) ==
  {e \in Unread(through) :
     Cardinality({d \in Unread(through) : d.position < e.position}) < EventLimit}

\* Another pass is under way: this one returns at once.
YieldPass(k) ==
  /\ stage[k] = "listed" /\ Busy
  /\ stage' = [stage EXCEPT ![k] = "idle"]
  /\ UNCHANGED <<appendVars, checkpoint, row, noticeVars, poisoned, batch, streak,
                 recoveryVars, faults>>

BeginPass(k, through) ==
  /\ ~Busy
  /\ stage' = [stage EXCEPT ![k] = "reading"]
  /\ batch' = [batch EXCEPT ![k] = Readable(through)]
  /\ UNCHANGED <<appendVars, checkpoint, row, noticeVars, poisoned, streak,
                 recoveryVars, faults>>

\* _flush_run, _write_checkpoint: rows and checkpoint move together.
LastRead(k) == Max({checkpoint} \cup {e.position : e \in batch[k]})

\* A set of positions in increasing order: the i-th has i of them up to it.
UpTo(S, p) == {q \in S : q <= p}
Nth(S, i) == CHOOSE p \in S : Cardinality(UpTo(S, p)) = i
Sorted(S) == [i \in 1..Cardinality(S) |-> Nth(S, i)]

\* The events of a set that belong to a Run, in the order of their positions.
PositionsOf(events, r) == {e.position : e \in {d \in events : d.run = r}}
InOrder(events, r) == Sorted(PositionsOf(events, r))

RowAfter(k, r) == row[r] \o InOrder(batch[k], r)

\* _write_notice_outbox: an existing dedupe_key is left alone.
Notifies(k, p) ==
  k # Rebuilder /\ outbox[p] = "absent" /\ \E e \in batch[k] : e.position = p /\ e.asks

CommitPass(k) ==
  /\ stage[k] = "reading"
  /\ checkpoint' = LastRead(k)
  /\ row' = [r \in Runs |-> RowAfter(k, r)]
  /\ outbox' = [p \in Positions |-> IF Notifies(k, p) THEN "pending" ELSE outbox[p]]
  /\ inserted' = [p \in Positions |-> inserted[p] + IF Notifies(k, p) THEN 1 ELSE 0]
  /\ batch' = [batch EXCEPT ![k] = {}]
  /\ UNCHANGED <<appendVars, poisoned, recoveryVars, faults>>

\* A pass that commits ends the streak of failures.
CommitProjectorPass(k) ==
  /\ CommitPass(k)
  /\ stage' = [stage EXCEPT ![k] = "idle"]
  /\ streak' = [streak EXCEPT ![k] = 0]

\* An event that cannot be projected rolls the pass back.
\* Mutant of FailPass: the notices are committed by themselves.
FailPassNotified(k) ==
  /\ stage[k] = "reading" /\ faults < MaxFaults
  /\ stage' = [stage EXCEPT ![k] = "failed"]
  /\ batch' = [batch EXCEPT ![k] = {}]
  /\ outbox' = [p \in Positions |-> IF Notifies(k, p) THEN "pending" ELSE outbox[p]]
  /\ inserted' = [p \in Positions |-> inserted[p] + IF Notifies(k, p) THEN 1 ELSE 0]
  /\ faults' = faults + 1
  /\ UNCHANGED <<appendVars, checkpoint, row, poisoned, streak, recoveryVars>>
FailPass(k) ==
  /\ stage[k] = "reading" /\ faults < MaxFaults
  /\ stage' = [stage EXCEPT ![k] = "failed"]
  /\ batch' = [batch EXCEPT ![k] = {}]
  /\ faults' = faults + 1
  /\ UNCHANGED <<appendVars, checkpoint, row, noticeVars, poisoned, streak, recoveryVars>>

\* An existing quarantine row keeps its rebuilding flag.
QuarantinedNow == IF poisoned = "no" THEN "quarantined" ELSE poisoned

\* _record_scope_failure.
RecordScopeFailure(k) ==
  /\ stage[k] = "failed"
  /\ IF streak[k] + 1 < Threshold
     THEN /\ streak' = [streak EXCEPT ![k] = @ + 1]
          /\ UNCHANGED poisoned
     ELSE /\ streak' = [streak EXCEPT ![k] = 0]
          /\ poisoned' = QuarantinedNow
  /\ stage' = [stage EXCEPT ![k] = "idle"]
  /\ UNCHANGED <<appendVars, checkpoint, row, noticeVars, batch, recoveryVars, faults>>

\* The quarantine cannot be written: the streak stays for the next failure.
QuarantineFails(k) ==
  /\ stage[k] = "failed" /\ streak[k] + 1 >= Threshold /\ faults < MaxFaults
  /\ streak' = [streak EXCEPT ![k] = @ + 1]
  /\ stage' = [stage EXCEPT ![k] = "idle"]
  /\ faults' = faults + 1
  /\ UNCHANGED <<appendVars, checkpoint, row, noticeVars, poisoned, batch, recoveryVars>>

\* A replica dies and comes back: its transaction and its streak are gone.
CrashProjector(k) ==
  /\ faults < MaxFaults
  /\ stage[k] # "idle" \/ streak[k] > 0
  /\ stage' = [stage EXCEPT ![k] = "idle"]
  /\ streak' = [streak EXCEPT ![k] = 0]
  /\ batch' = [batch EXCEPT ![k] = {}]
  /\ faults' = faults + 1
  /\ UNCHANGED <<appendVars, checkpoint, row, noticeVars, poisoned, recoveryVars>>

-----------------------------------------------------------------------------
(* Recovery: mark, delete, replay, verify, clear.                          *)

RequestRecovery ==
  /\ recovery = "none" /\ recoveries < MaxRecoveries
  /\ head > 0 \/ poisoned # "no"
  /\ recovery' = "pending"
  /\ recoveries' = recoveries + 1
  /\ UNCHANGED <<appendVars, checkpoint, row, noticeVars, poisoned, passVars, target, faults>>

MarkScope ==
  /\ recovery = "pending"
  /\ poisoned' = "rebuilding"
  /\ recovery' = "marked"
  /\ UNCHANGED <<appendVars, checkpoint, row, noticeVars, passVars, target, recoveries, faults>>

\* The deletion waits for the projection lock; target is the latest visible position.
DeleteScope ==
  /\ recovery = "marked" /\ ~Busy
  /\ target' = Max({0} \cup {e.position : e \in log})
  /\ checkpoint' = 0
  /\ row' = NoRows
  /\ recovery' = "replaying"
  /\ UNCHANGED <<appendVars, noticeVars, poisoned, passVars, recoveries, faults>>

ReplayPass ==
  /\ recovery = "replaying" /\ stage[Rebuilder] = "idle"
  /\ BeginPass(Rebuilder, target)

\* The rebuild goes on until a pass of its own finds nothing.
CommitReplayPass ==
  /\ CommitPass(Rebuilder)
  /\ stage' = [stage EXCEPT ![Rebuilder] = IF batch[Rebuilder] = {} THEN "done" ELSE "idle"]
  /\ UNCHANGED streak

ReplayDone == stage[Rebuilder] = "done"

FinishReplay ==
  /\ recovery = "replaying" /\ ReplayDone
  /\ recovery' = "verified"
  /\ stage' = [stage EXCEPT ![Rebuilder] = "idle"]
  /\ UNCHANGED <<appendVars, checkpoint, row, noticeVars, poisoned, batch, streak, target,
                 recoveries, faults>>

ClearScope ==
  /\ recovery = "verified"
  /\ poisoned' = "no"
  /\ recovery' = "cleared"
  /\ UNCHANGED <<appendVars, checkpoint, row, noticeVars, passVars, target, recoveries, faults>>

\* The request is closed in the transaction that claimed it.
FinishRequest ==
  /\ recovery = "cleared"
  /\ recovery' = "none"
  /\ UNCHANGED <<appendVars, checkpoint, row, noticeVars, poisoned, passVars, target,
                 recoveries, faults>>

\* An exception ends the request and leaves the quarantine; a crash leaves
\* the request pending for the next worker.
RecoveryStops(next) ==
  /\ recovery \in {"marked", "replaying", "verified", "cleared"} /\ faults < MaxFaults
  /\ recovery' = next
  /\ stage' = [stage EXCEPT ![Rebuilder] = "idle"]
  /\ batch' = [batch EXCEPT ![Rebuilder] = {}]
  /\ faults' = faults + 1
  /\ UNCHANGED <<appendVars, checkpoint, row, noticeVars, poisoned, streak, target, recoveries>>

-----------------------------------------------------------------------------
(* The outbox of notices: delivery, and deletion after the retention time. *)

DeliverNotice(p) ==
  /\ outbox[p] = "pending"
  /\ outbox' = [outbox EXCEPT ![p] = "delivered"]
  /\ UNCHANGED <<appendVars, checkpoint, row, inserted, poisoned, passVars, recoveryVars, faults>>

PurgeOutbox(p) ==
  /\ outbox[p] = "delivered"
  /\ outbox' = [outbox EXCEPT ![p] = "absent"]
  /\ UNCHANGED <<appendVars, checkpoint, row, inserted, poisoned, passVars, recoveryVars, faults>>

-----------------------------------------------------------------------------
AppendStep ==
  \/ \E a \in Appenders :
       \/ \E r \in Runs, n \in 1..2, asks \in BOOLEAN : AppendEvents(a, r, n, asks)
       \/ CommitAppend(a)
       \/ RollbackAppend(a)
  \/ OtherScopeAppends

BeginProjectorPass(k) == stage[k] = "listed" /\ BeginPass(k, MaxPosition)

PassStep(k) ==
  ListPending(k) \/ YieldPass(k) \/ BeginProjectorPass(k) \/ CommitProjectorPass(k)
    \/ RecordScopeFailure(k)

RecoveryStep ==
  \/ MarkScope \/ DeleteScope \/ ReplayPass \/ CommitReplayPass
  \/ FinishReplay \/ ClearScope \/ FinishRequest

Faulty ==
  \/ \E k \in Projectors : FailPass(k) \/ QuarantineFails(k) \/ CrashProjector(k)
  \/ \E next \in {"none", "pending"} : RecoveryStops(next)

ProjectionNext ==
  \/ AppendStep
  \/ \E k \in Projectors : PassStep(k)
  \/ RequestRecovery \/ RecoveryStep
  \/ \E p \in Positions : DeliverNotice(p) \/ PurgeOutbox(p)
  \/ Faulty

ProjectionSpec == ProjectionInit /\ [][ProjectionNext]_projectionVars

\* Lanes poll for ever, and a started recovery goes on.
ProjectionFairness ==
  /\ \A k \in Projectors : WF_projectionVars(PassStep(k))
  /\ WF_projectionVars(RecoveryStep)

FairProjectionSpec == ProjectionSpec /\ ProjectionFairness

-----------------------------------------------------------------------------
(* No event is dropped, folded twice or folded out of order: the row of a  *)
(* Run has folded exactly the committed events of the Run up to the         *)
(* checkpoint, whatever commits, fails or is rebuilt meanwhile (append's    *)
(* scope lock, run_once, rebuild).                                          *)
ProjectionIsPrefix ==
  \A r \in Runs : row[r] = InOrder({e \in log : e.position <= checkpoint}, r)

(* Every committed event is projected sooner or later unless its scope is  *)
(* quarantined (list_pending by the head watermark, busy passes, streaks). *)
EventsProjected ==
  \A p \in Positions :
    (\E e \in log : e.position = p) ~> (p <= checkpoint \/ poisoned # "no")

(* As long as nobody rebuilds the scope, every approval request that has    *)
(* been projected has had its notice recorded exactly once, through         *)
(* failing, repeated and yielding passes and the deletion of delivered rows *)
(* (run_once, _write_notice_outbox).                                        *)
NoticeOnceUnlessRebuilt ==
  recoveries = 0 =>
    \A e \in log : inserted[e.position] = IF e.asks /\ e.position <= checkpoint THEN 1 ELSE 0
=============================================================================
