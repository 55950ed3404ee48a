# The execution kernel of OpenCitadel in TLA+

OpenCitadel runs agents whose tool calls change the outside world. Its execution
kernel (`api/app/{domain,application,infrastructure}/execution`) is an
event-sourced, multi-process system over PostgreSQL: commands arrive in a durable
inbox, a pure decider turns them into events, workers execute the Activities the
events ask for, and timers, people and a reconciler settle what workers leave
open. Around it, projectors fold the events into read models, an outbox announces
them, decision workers plan the next step, evaluation Runs share slots and
budgets, and collectors delete the private objects of Runs nobody needs. This
directory models these parts, checks small instances of them with TLC and proves
the central properties with TLAPS.

## The system

| part | code (`api/app/`) | module | state |
|---|---|---|---|
| Run aggregate | `domain/execution/run.py` | `RunAggregate` | modelled |
| External-effect decider | `domain/execution/effect.py` | `RunAggregate` | modelled |
| Activity rows, leases, fences, timeouts | `infrastructure/execution/postgres_activity_*.py`, `adapters/execution_ports.py` | `ActivityExecution` | modelled |
| Activity worker, tool calls | `application/execution/activity_worker.py`, `activities/tool_call.py` | `ActivityExecution` | one claim |
| Effect service, store, reconciler | `effect_service.py`, `postgres_effect_store.py`, `effect_reconciler.py` | `ActivityExecution` | without access control and evidence packages |
| Inbox, orchestrator, event append | `postgres_inbox*.py`, `inbox_worker.py`, `sqlalchemy_orchestrator.py`, `postgres_event_store.py` | `CommandInbox` | without capacity and purging |
| Durable timers | `postgres_timer_store.py` | `TimerDispatch` | modelled |
| Transactional outbox | `postgres_outbox.py`, `outbox_dispatcher.py` | `OutboxDelivery` | modelled |
| Formal projections, quarantine, rebuild | `postgres_formal_projector.py`, `postgres_recovery.py`, `projection_recovery.py` | `FormalProjection` | a row is the fold of its events |
| Decision arming, planners | `postgres_run_decision_source.py`, `decision_worker.py`, `decisions/base.py` | `DecisionArming` | without the contents of plans |
| Evaluation slots and lineage | `evaluation_execution.py`, `db_evaluation_{execution,lineage,batch}_repository.py` | `EvaluationSlots` | without batch tasks and judging |
| Budget ledger of model calls | `alembic/versions/0009evaluation_budget.py`, `budget_dispatch.py` | `BudgetLedger`, `EvaluationDispatch` | evaluation Runs |
| Private objects, admission, collection | `execution_object_{lifecycle,roots}.py`, `admission.py`, `alembic/versions/0045execution_object_retention.py` | `ObjectRetention` | without encryption and reading |
| Snapshots, context checkpoints, usage receipts, capacity of root Runs | same directories | - | not modelled, see below |
| Services, HTTP, UI, sandbox, deployment | the rest | - | not modelled: I/O, CRUD and presentation |

How the parts meet: a command is received (`CommandInbox.Receive`), a kernel
replica claims it and decides it against the stream in one transaction
(`ClaimRow` .. `AppendEvents`). That transaction also writes the task rows and
timers the events imply (`ActivityExecution.WriteCriticalRecords`,
`TimerDispatch.Schedule`), the outbox rows, and, for an evaluation Run, moves its
slot (`EvaluationSlots.Accept`). Workers poll the task rows, act, and send commands
back through the same path; the projector arms the decision of a Run with the row
it folds. All appends of one owner scope are serialised by an advisory transaction
lock; this is why `RunAggregate` and `ActivityExecution` treat one accepted command
as one step, it is what `CommandInbox` and `FormalProjection` look inside, and
admissions and collectors of `ObjectRetention` exclude each other by it, except where a
batch attempt is submitted.

## Modules

**`RunAggregate`** has one action per command of `decide`/`decide_effect`: the
guard is the decider's conditions, the primed variables what `evolve` does with the
events it returns. A rejected or absorbed command is a stuttering step. The
fields of `RunState` are variables of the same name; an Activity identity is
requested once, so lists of `(activity, ...)` tuples become functions of the
Activity, and `EffectState` becomes the `op_*` functions with the sets `awaiting`,
`abandoned`, `conflicts`. Payload text, digests and timestamps are dropped, failure
codes and wait reasons collapse to the classes the code tells apart (`drift` is
`TOOL_CONTRACT_CHANGED`, `TOOL_AUTHORIZATION_CHANGED` and the waits for them). Tests
on `RETRY_*` delays and timer due times are left to the timers. The generation a
command carries is the one of the Activity; a stale generation is a rejected
command.

**`ActivityExecution`** extends it by the operational side: rows
(`task`, `claim_generation`, `claimed_by`, `claim_attempts`, `leased`,
`call_started_at`), timers, commands in the inbox, worker slots with their program
position, and effect requests. Time is abstract: `LeaseExpires` and `TimeoutPasses`
may happen at any moment, and a heartbeat is the absence of an expiry. Each await of
the worker is a separate step, so a lease may lapse, a timer fire or another worker
reclaim between any two of them. `sends` counts the external calls and is read by
properties only. `Accepted(Command)` is a command of planner, user or retry timer.
A tool error or a denied capability is a result (`HandlerRefuses`); an exception is a
failure, or unknown where the call cannot be repeated; an observation that cannot be
stored makes the worker report a failure of a call that was made (`LoseObservation`),
which the decider then has to tell from a proven one. `Idempotent` includes calls that a
replay binding answers from a recording.

**`CommandInbox`** models rows, per-replica batches and open transactions. The
effects of a transaction become visible in its last step (`Complete`), a rollback
leaves nothing. `HoldsLock` is the scope's append lock: worker and effect commands take
it before loading, all others when they append; whoever took it, a lost race
included, keeps it to the end of the transaction. An accepted command stands for one
that appends events; an absorbed duplicate appends none and gets its result the
same way.

**`TimerDispatch`** models timer rows with their row locks: a dispatcher locks a
batch of due rows (skipping locked ones), fires them into the inbox one by one and
commits or rolls back as a whole; the transaction of a cancelling event waits for
the rows a dispatcher holds.

**`EffectOnce`** is the abstract promise of a durable queue: an item is open until it
is settled, it is settled once, and its effect happens in the very step that
records it as done, or never. `CommandInbox` and `TimerDispatch` both implement it:
`ImplementsEffectOnce` instantiates it with the row's status as the outcome and the
appended events, or the received command, as the effect.

**`OutboxDelivery`** has the claim generation, the lease, delivery outside any
transaction, the fenced acknowledgement and the release of a refused row.

**`FormalProjection`** gives each event a position from the global sequence when it is
appended and shows it at the commit. A pass lists scopes, tries the scope lock,
folds the events behind the checkpoint and records notices; a failing scope is
quarantined; a recovery empties the scope and replays it.

**`DecisionArming`** has the marker `decision_due_at`, the snapshot a worker loads and
plans from, the conditional disarm, the submission of the planned command, which may be
stale or refused, planner failures with back-off and quarantine, and the recovery of a
scope.

**`EvaluationSlots`**, **`BudgetLedger`** and **`EvaluationDispatch`**: the first has the
lease of an evaluation Run, the pools, the lineage of replacements and the inbox row
of its CreateRun; the second the reservations of the database function
`opencitadel_e05_operation`; the third composes them where they meet: a call is
reserved only for the current Run of its work unit while it runs, and a replacement
is planned and admitted only when the calls before it have receipts. Each
transaction locks the namespace or the policy head first and is one step. A
refusal raises, so nothing is kept of it. `reconcile` of a lease applies the accepted
state of the Run again, which returns at once and is a stutter.

**`ObjectRetention`** has the rows of `execution_object_runs` and `execution_objects`, the
storage, the roots, writers and collectors, for one owner scope. A step is one
transaction or one call of the storage. There are three kinds of admission. A user's
(`Held`) holds the row of its session from the upload to the commit (`agent_service.py`,
`patrol_remediation_service.py`), which is why `PurgeSession` waits for it. A child's
(`child_run.py`, `judge_service.py`) is guarded with its parent; the child may carry a
session (`scheduled_job_service.py:525`) but does not hold its row. Both hold the append
lock from the guard (`GuardPublication`) to the inbox row (`Publish`). A batch attempt's
(`Attempts`, `scheduler.py:349`) stores its request and commits (`Prepare`), and submits
it in another transaction, at once or in a later dispatch, without guard and lock
(`SubmitPrepared`). Runs of families other than agent and ask (outside `Contextual`) are
never collected; `RejectCreate` is the refusal together with the purge of its inbox row.
A record refused by the trigger because a slower collector recorded later is `AbortPass`.
`Family` is what the history of a Run may go back to, `Kin` the part of it that
admissions protect: children, and Runs admitted behind one session.

**`*Proofs`** hold the theorems; **`MC*`** the symmetry sets and tables of the
instances. Definitions whose comment begins with "Mutant of" are deliberately wrong
variants of the definition that follows them; each is used to confirm that a property
notices the corresponding mistake.

## Runs

| run | configuration | what it shows | distinct states |
|---|---|---|---|
| run_effects | `RunEffects.cfg` | evidence in any order: quarantine, finality, resumption | 188 k |
| run_approvals | `RunApprovals.cfg` | approvals, subjects, expiry, a renewal, a retry | 1.76 M |
| activity_effects | `ActivityEffects.cfg` | one external write from claim to reconciliation | 2.17 M |
| activity_calls | `ActivityCalls.cfg` | no second call, no assumed failure, every Activity settles | 906 k |
| inbox_delivery | `InboxDelivery.cfg` | exactly once, as `EffectOnce` promises; every command gets a result | 265 k |
| inbox_poison | `InboxPoison.cfg` | the delivery cap is not reached (violated, see below) | - |
| projection | `Projection.cfg` | read models are a prefix of the log and catch up; one notice per approval | 560 k |
| decisions | `Decisions.cfg` | no lost wake-up, quarantine stays, decisions are taken | 459 k |
| timers | `Timers.cfg` | a timer is settled once, none outlives its event, nobody waits for ever | 24 k |
| outbox | `Outbox.cfg` | at-least-once delivery with every duplicate explained | 169 k |
| evaluation_work | `EvaluationWork.cfg` | slots, one Run per work unit, budgets | 987 k |
| objects | `Objects.cfg` | roots keep their originals; late bytes go; only what is needed stays | 112 k |

*Bounds.* Two Activities are needed for one operation's evidence to meet
another's open question; two receipts and two results for a contradiction; two
subjects and approvals for a stale approval; three Activities for a renewal (it
prepares one and replaces by one). Two workers and two claims let a reclaim meet
its predecessor; a cap of one attempt makes dead letters reachable; one request of a
person meets the kernel's own. In the inbox three commands with a batch limit of two
make batches overlap and leave one waiting, and lost races are possible. Two
appenders, two projectors and one rebuild make positions commit out of order and
passes overlap a replay; a pass takes one event, so it yields half-way. Two decision
workers and three events let an event arrive between load and disarm twice; with
two attempts and three errors a failure is counted after the quarantine. Three
timers of two streams, one malformed, with batches of two: dispatchers overlap, and
a batch fails half-way. In the evaluation two attempts of one work unit and a Run
of another compete for a pool that a policy shrinks from two to one; their calls
fill a batch of three tokens, and receipts may tell nothing, the bound or more. The
objects are the inputs of a Run of a session and of a child of it in the same session, or
those of a batch attempt and of its judge (`Workloads` has one entry per pair), with one
collector whose batch holds one Run, so a protected Run stands in the way of the other;
results and Runs outside `Contextual` are not in this instance but in the proofs.

The bounds are constants named `Max...`: `MaxRetries`, `MaxRenewals`, `MaxAttempts`,
`MaxDeliveries`, `MaxConflicts`, `MaxSends`, `BatchLimit`, `BatchSize`, `Batch`,
`EventLimit`, `Threshold` and `MaxReplacements` are limits of the code; `MaxRequests`,
`MaxClaims`, `MaxHuman`, `MaxAppends`, `MaxFaults`, `MaxPosition`, `MaxRecoveries`,
`MaxEvents`, `MaxClock`, `MaxErrors`, `MaxRollbacks`, `MaxLapses`, `MaxFailures`,
`MaxPolicies`, `MaxRevisions`, `MaxGeneration` and `Workloads` only bound the instances.
No instance has an idempotent or replayed tool (`Idempotent` is empty): a call that may
be repeated safely is outside `AtMostOneSend` anyway. A retry of the whole Run is in
run_approvals and activity_effects. Symmetry is used over interchangeable model
values and never in a run with a liveness property. Deadlock is not checked: a Run ends, and a queue empties.

*Fairness* is weak fairness of what the kernel's lanes do in a loop for as long as
the kernel runs, and of time.

- `ActivitySettles`: time passes, due timers fire, the inbox is processed. Nothing
  is assumed of workers, planner, people, providers or the reconciler.
- `CommandsComplete`: a polling replica takes its next step and leases lapse; crashes
  and deferrals are finite in number.
- `EventsProjected`: projectors take their steps and a recovery that began goes on. A
  quarantined scope is excepted until somebody asks for its recovery.
- `DecisionsTaken`: the projector folds what is committed, workers load and plan. A
  Run whose planned command the decider refused is excepted.
- `TimersEnd`, `EventsCommit`: dispatchers and open transactions go on.
- `RowsDelivered`: dispatchers go on, the retry pause and leases pass.
- `LateBytesRemoved`, `KeptForACause`: `run_maintenance_loop` runs the collector every
  few seconds and swallows its exceptions; an admission that holds the scope lock
  commits or ends. Collectors only try that lock: with uploads bounded, an
  admission cannot be in the way at every attempt, which the code itself does not
  exclude.

## Finding

`PoisonIsParked` states the comment of `postgres_inbox.py:219`: a command whose
processing keeps crashing "is parked as a dead_lettered terminal row instead of being
retried forever". The attempt is counted in the transaction that
`SqlAlchemyExecutionOrchestrator.handle` rolls back when processing raises
(`sqlalchemy_orchestrator.py:153`), so the count never rises and the command returns
each time its pre-claim lapses. The existing tests commit the claim by itself and do
not go through `handle`. TLC shows the cycle.

## Observations

Behaviour met while modelling that no comment or test contradicts outright. The
properties are stated so that these cases are visible exceptions.

- A projector pass listed before a recovery's mark may replay the emptied scope with
  notices on; if retention has deleted the delivered row with the unique key, the
  notice goes out twice (`outbox_dispatcher.py:91`, `postgres_formal_projector.py:252`).
  Hence `NoticeOnceUnlessRebuilt`.
- A rebuild projects without notices and moves the checkpoint past events that no
  regular pass has seen; their notices are never written.
- A planner failure that was loaded before a rebuild and exhausts the budget after the
  replay clears `decision_due_at`; `recover_scope` (`postgres_run_decision_source.py:217`)
  then deletes the quarantine without arming the Run. `NoLostWakeup` excepts this
  case as `LateFailure`.
- A worker that loaded a Run before it was quarantined may count one more failure
  after a rebuild has replayed the row (`failed`, `postgres_run_decision_source.py:144`):
  the quarantine stays, its count rises and the recipients are notified again. Hence
  `BlockedStays` lets the count grow.
- A planner failure is timed by the start of `run_once`: in a batch longer than the
  five-second back-off, one bad moment may be counted twice.
- The id of a planned command is derived from Run, version and type
  (`decisions/base.py:348`). A command that the decider refuses at the current version
  is planned again with each load and answered with the refusal on record: the Run stays
  armed and does not move until another event arrives. Hence the exception in
  `DecisionsTaken`.
- A command that raises ends its batch: those behind it wait for the pre-claim to
  lapse each time (`inbox_worker.py:44`).
- A settled CreateRun row that is older than the retention of the inbox may be purged
  before the batch reconciler has read its result.
- An admission that was abandoned and is older than the grace period is tombstoned. A
  retry with the same idempotency key has the same Run identity and can never be
  admitted.
- A batch attempt is guarded when its request is stored and submitted in a later
  transaction (`scheduler.py:358`), possibly in a later dispatch (`scheduler.py:449`).
  In between no command is pending and no origin exists, so once the Run's row is older
  than `orphan_hours` (a day by default, at least one hour) a collector tombstones it,
  and the CreateRun that is then submitted belongs to a Run whose input can no longer be
  read. The trace has ten states: Register, PutBytes, MarkReady, GuardPublication,
  Prepare, PassGrace, ListRuns, CheckRun, SubmitPrepared. The comment in
  `0045execution_object_retention.py:95` ("its caller holds this scope lock through inbox
  publication") describes the other admissions. Hence `RootsKeepOriginals` excepts
  `Attempts`.
- A child of an automation Run may name a session whose row its admission does not hold
  (`child_run.py:59`). If the session is purged and a Run of it tombstoned first, the
  child joins a session part of which is gone, although `collection_is_retained` means to
  "keep a whole historical session when any Run remains a root". Hence `Kin` in
  `RootsKeepOriginals`; that a collector never tombstones part of a whole `Family` that
  something needs at that moment is `NeededNotTombstoned`.

## Proofs

All theorems hold for arbitrary sets of Activities, approvals, receipts, replicas,
Runs, calls, objects and so on, under the named assumptions of the modules: `None` is none
of the values, bounds are natural numbers, tables map where they should, and the
sets that are counted are finite.

`RunAggregateProofs` proves `Spec => []RunInv` with

    RunInv == TypeOK /\ Books /\ QuarantineHolds /\ NoActivityLost
                     /\ SuccessHasEvidence /\ ApprovalWaitIsPending

`Books` is the strengthening: conflicts and awaited operations are operations of the
Run, a wait reason is set only while the Run waits, an operation not yet seen has
revision 0, and an applied operation that is no longer awaited has a result. Without
these the other conjuncts are true but not inductive. The proof
goes by groups of commands, types first (`StepTypes`), then the books, then
each conjunct; for effects the lemma `EffectCases` reduces the three
observing commands to "a conflict was recorded" or "a receipt was recorded and
applied". The action properties (`SettlementFinal`, `EvidenceFinal`, `TerminalFrozen`,
`DecisionFinal`, `ResumeOnlyWhenCertain`) follow from the invariant and one lemma each
about a step. `TerminalFrozen` (an ended Run is not revived) and the types are proved
only, no run repeats them.

The last part of the module adds the memory of approvals and renewals:
`ActiveMatchesApproval`, and `RenewalsFormChain` (no Activity is renewed twice) by
`ChainInv`: a renewal identity is used once, a renewed Activity failed in the
generation of its renewal, an Activity that a renewal produces is requested only
with the renewal on record, and each renewal continues the chain of the one that
produced its Activity or begins a new one.

`ActivityExecutionProofs` proves `KernelSpec => []KernelInv` with

    KernelInv == KernelTypes /\ RunInv /\ Rows /\ Claims /\ Calls
                             /\ Certainty /\ WritesOnly

It looks at a step of the kernel from three sides. For the Run it is one of the
aggregate's commands or nothing (`FormalSteps`), so `RunInv` is kept by the
lemma of `RunAggregateProofs`, and `KernelSpec => Spec` (`KernelImplementsRun`) carries
every theorem about the aggregate over to the kernel. For a worker it is a step of its
program position (`SlotSteps`), for a row a change of its state, claim and marks
(`RowSteps`). Each conjunct is then kept by an argument on these views, without
going through the actions again. `Rows` says that rows and Run agree and that an
active Activity belongs to the attempt. `Claims` is the fence: claims of a row are
numbered and differ, the first claim finds nothing done, and no call is made before
`call_started_at` is set. `Calls` is why a write goes out once: the journal knows of
each send (`JournalKnows`), and whoever has a dispatch or may call a handler that is
not idempotent is alone and the first (`DispatchAlone`, `CallAlone`); neither is
inductive without the other and without `Claims`. `Certainty` adds to
`RunningIsCertain` that a failed Activity has no operation, an unsent one or one that
was not applied. From it follow `RowsAgree`, `AtMostOneSend`, `FailureIsProven`,
`RunningIsCertain` and the action properties `NotSentIsTrue`, `FailureNotAssumed` and
`LeaseExcludes`: all safety properties of the module.

`DecisionArmingProofs` proves `Spec => []ArmingInv`. `NoLostWakeup` excepts a spent
budget around a rebuild and is not inductive: a recovery may release the Run later.
`StrandedBySpending` says what remains true: a Run that needs a decision and has no
marker has had as many failures as its budget allows, and is blocked or a rebuild
has begun. It rests on `FailuresCounted` (a count on record never exceeds the
failures that happened, and a planner's quarantine without retry means a spent
budget) and `LoadedAt` (what a worker found idle is idle at the position it loaded,
so a disarm guarded by that position never takes the marker of a newer event).
`BlockedStays` follows from `FailuresCounted`: a further failure of a spent budget is
spent again.

`CommandInboxProofs` proves `Spec => []InboxInv`. The strengthening has two
parts. `OpenTransactions`: the command of an open transaction has no final row, a
transaction that lost a race holds the append lock, a lock holder that has read has
read the current version, and a command that locks first has not read before it holds
the lock. `LocksExclude`: two open transactions are about different commands and do
not both hold the append lock. Together they make `ExactlyOnce` and
`ContentionLosesNothing` inductive; from them follows that every step maps to a step
or a stutter of `EffectOnce` (`InboxImplementsEffectOnce`).

`TimerDispatchProofs`: a dispatcher holds exactly the rows of its batch, only pending
rows are locked, and the pending timers of a stream that is being settled are
those its transaction still has to visit or holds. This gives `NoTimerOutlivesEvent`,
`FiredIffReceived` and the refinement of `EffectOnce`.

`ProjectionOutboxProofs` has two parts, for the two ends of a notice: the outbox that
delivers it, and the projection that records it. The parts share no state.

The outbox: claims of a row differ in generation, and every lapse pays for
one belated sending, done or still to come; the sum of the sent and the still
possible duplicates is bounded by the causes (`SendingsPaid`), which is what makes
`DuplicatesExplained` inductive.

The projection: `ProjectionSpec => []ProjectionInv` with

    ProjectionInv == ProjectionTypeOK /\ AppendInv /\ ReadInv /\ NoticeInv
                                      /\ ProjectionIsPrefix

`AppendInv` is what the scope lock of `append` is for: one transaction at a time has
uncommitted events, and they are ahead of everything committed, so commits land in
the order of their positions. `ReadInv` is what the projection lock and `read_scope`
are for: at most one pass has read, its batch begins behind the checkpoint and skips
no committed event, and the checkpoint is not ahead of the log. Without both, a commit
could land inside or before a batch already read. `NoticeInv` says, until the first
recovery, that nothing ahead of the checkpoint has a notice. A row is the sorted
sequence of its positions; `Sorted` puts in place i the position with i positions up
to it, so that no recursion is needed. That each place is taken follows by counting
(ranks are distinct and as many as places, hence a bijection), which gives
`SortedOrders` (the sequence is increasing and complete) and `SortedConcat` (sorting a
set and then a later one is sorting both), the heart of `ProjectionIsPrefix`. From the
invariant also `NoticeOnceUnlessRebuilt` and, proved only, `HeadCoversLog`: the
watermark by which lagging scopes are found never misses an event.

`RebuildReplaysAll`, proved only, is about recovery: a quarantine is lifted only
when everything visible at the deletion is projected again. `RebuildInv` follows the
replay: the rebuilder is at work only while the recovery replays, a pass of its own that
read nothing means nothing is left up to the target (`EmptyReadable`: the limit of a pass
never makes it empty), and neither later commits, which are ahead of the target, nor
projector passes, which only advance the checkpoint, undo that.

`EvaluationDispatchProofs` proves `DispatchInv == SlotInv /\ LedgerInv /\ CallsCurrent`.
`SlotInv`: lease, journal and inbox of a Run agree (`AllAgree`), plans and
predecessors are failed and released Runs of the same unit, a unit has at most one
Run without a replacement, and the pools count the leases that are prepared or held.
`LedgerInv`: a call in flight has a bound of every kind its buckets limit, and what a
bucket has spent and reserved is exactly what its calls owe (`CountersExact`).
`CallsCurrent`: calls in flight are of a Run without a replacement; it is kept by the
admission of a replacement because the whole lineage must have its receipts. From it:
`SlotsExact`, `OneRunPerUnit`, `WithinBudget`, and, proved only, `WithdrawnNeverStarts`,
`PlansStayValid`, `CountersWithinLimit`, `CountersExact`, `CallSlotsExact`. The sum of
what calls owe is the cardinality of a set with one member per unit (`Units`), so
that a reservation adds a disjoint block (`UnitsWith`) and a settlement exchanges one
for another (`SettleExact`), where a recursive sum would need induction over the calls.

`ObjectRetentionProofs` proves `RetentionInv`: collectors list and delete only what is
tombstoned (`SweepsTombstones`), what was uploaded for a Run that is not tombstoned is
stored, an admission under way keeps its parent and, if it holds one, its session, and
what its guard saw stands while it has the lock (`AdmissionsHeld`), children have parents
(`Grounded`), and no Run in the kin of a needed Run other than a batch attempt is
tombstoned (`RootsLive`). Nothing is assumed of the time between the two transactions of
a batch attempt; a judge is covered because its own guard looks at the attempt it is a
child of. Family and kin also count Runs whose CreateRun is pending, which the code's
collection does not; the lemmas on closures show that the guard and the check of the
code, each on the smaller collection, suffice for the larger one. From it
`RootsKeepOriginals` and, proved only, `NeededNotTombstoned` (the check of a collector is
right at the moment it is made, whole sessions and batch attempts included) and
`TombstoneFinal`.

Only model-checked: the liveness properties, since the prover handles neither fairness
nor ENABLED: `ActivitySettles`, `CommandsComplete`, `EventsProjected`, `DecisionsTaken`,
`TimersEnd`, `EventsCommit`, `RowsDelivered`, `LateBytesRemoved` and `KeptForACause`
(and `PoisonIsParked`, which TLC refutes). Every safety property that a run checks is
also proved.

## Not modelled

- Snapshots and verified replay, hash chains, digests: a replay from a snapshot equals
  the replay of the stream because both fold the same `evolve`; what the code adds is
  the detection of tampering, a computation on data.
- Context checkpoints and preparation; usage and artifact provenance. They are receipt
  tables beside the stream; their appends are `OtherAppends` of `CommandInbox`.
- Capacity of root Runs, access control, runtime policy: conditions on data that refuse
  or defer a command. A deferral is a step of `CommandInbox` whatever its reason.
- Batching, drain, health and back-off timing of workers; deletion of old rows where no
  property depends on it.
- Batches and judges of the evaluation as such (tasks, scores, states of a case): only
  what they ask of slots, lineage and ledger appears. Budgets of ordinary Runs
  (`ordinary_budget_dispatch.py`) use the same ledger with other buckets.
- Encryption and reading of stored content, and the deletion of a whole team.
- Services, HTTP, UI, model adapters, sandbox, ops services, deployment: I/O, CRUD and
  presentation outside the kernel.

The hazards that no property covers are in `PROJECT.json` with a note.
