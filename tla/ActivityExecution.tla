--------------------------- MODULE ActivityExecution ---------------------------
(***************************************************************************)
(* The execution of Activities around the Run aggregate: the operational   *)
(* task rows, the workers that claim them under a lease, the fences the    *)
(* orchestrator puts before a worker's command, the timeout timers and     *)
(* dead-letter commands that settle what no worker settles, the external   *)
(* write a tool call makes through the effect service, and the requests    *)
(* by which the reconciler settles it later.                               *)
(*                                                                         *)
(* Every command here is decided under the owner scope's append lock, so a *)
(* command is one step; what a worker does between two commands is not.    *)
(* The action X of RunAggregate is the formal part of the step, and        *)
(* WriteCriticalRecords the operational part of the same transaction.      *)
(* Approvals and renewals touch no task row and stay in RunAggregate.      *)
(***************************************************************************)
EXTENDS RunAggregate

CONSTANTS
  Workers,         \* execution slots of the worker processes
  Idempotent,      \* Activities that may run again: the handler is idempotent, or a
                   \* replay binding answers the tool call from a recording
  Queryable,       \* operations whose provider can be asked for the outcome
  MaxAttempts,     \* max_claim_attempts
  MaxClaims,       \* bound on the claims of one Activity
  MaxHuman         \* bound on the requests people submit

ASSUME WorkerAssumption == None \notin Workers
ASSUME HandlerAssumption ==
  Idempotent \subseteq Activities \ Effectful /\ Queryable \subseteq Effectful
ASSUME LimitAssumption == MaxAttempts \in Nat /\ MaxClaims \in Nat /\ MaxHuman \in Nat

VARIABLES
  task,            \* status of the task row, "absent" before the request: open,
                   \* dead_lettered or the outcome
  claim_generation, claimed_by, claim_attempts,
  leased,          \* rows whose claim_deadline lies in the future
  call_started_at, \* rows with call_started_at set
  timed_out,       \* Activities whose timeout_at has passed
  timer,           \* the Activity's timeout timer
  inbox,           \* commands received and not yet processed: <<kind, Activity>>,
                   \* kind timeout, dead_letter or timeout_unknown
  worker,          \* each slot's Activity, claim and phase: idle, claimed, call_started,
                   \* started, called, prepared, dispatched, sent, or its outcome
  requests,        \* effect requests not yet finished: not_sent, query, fact, late,
                   \* resolution or abandon
  human,           \* number of requests people have submitted
  sends            \* history: how often the external call was made

taskVars == <<task, claim_generation, claimed_by, claim_attempts,
              leased, call_started_at, timed_out>>
kernelVars == <<taskVars, timer, inbox, worker, requests, human, sends>>
vars == <<runVars, kernelVars>>

Open == {"pending", "claimed", "call_started"}     \* rows somebody may still run
HumanKinds == {"query", "resolution", "abandon"}

Idle == [activity |-> None, claim |-> 0, recovered |-> FALSE, at |-> "idle", obs |-> None]

KernelInit ==
  /\ Init
  /\ task = [a \in Activities |-> "absent"]
  /\ claim_generation = [a \in Activities |-> 0]
  /\ claimed_by = [a \in Activities |-> None]
  /\ claim_attempts = [a \in Activities |-> 0]
  /\ leased = {} /\ call_started_at = {} /\ timed_out = {}
  /\ timer = [a \in Activities |-> "none"]
  /\ inbox = {}
  /\ worker = [w \in Workers |-> Idle]
  /\ requests = {} /\ human = 0
  /\ sends = [a \in Activities |-> 0]

-----------------------------------------------------------------------------
(* The operational half of an accepting transaction.                       *)

\* Rows the settlement UPDATE matches; evidence may also settle an unknown one.
Settleable(a) ==
  task[a] \in Open \cup {"dead_lettered"} \/ (task[a] = "unknown" /\ settled[a] = "unknown")

\* The rows this step settles, and the rows the end of the Run closes.
SettledNow == {a \in Activities : settled'[a] # settled[a]}
ClosedNow == IF Live /\ status' \in Terminal THEN {a \in Activities : task[a] \in Open} ELSE {}

\* Mutant of TaskAfter: the settlement UPDATE matches open rows only.
TaskAfterOpenOnly(a) ==
  IF a \in SettledNow /\ task[a] \in Open THEN settled'[a]
  ELSE IF a \in ClosedNow THEN "cancelled" ELSE task[a]

TaskAfter(a) ==
  IF a \in SettledNow THEN settled'[a]
  ELSE IF a \in ClosedNow THEN "cancelled" ELSE task[a]

\* Settlement without a matching row raises and rolls the transaction back.
WriteCriticalRecords ==
  /\ \A a \in SettledNow : Settleable(a)
  /\ task' = [a \in Activities |-> TaskAfter(a)]
  /\ claimed_by' = [a \in Activities |-> IF a \in SettledNow \cup ClosedNow
                                         THEN None ELSE claimed_by[a]]
  /\ leased' = leased \ (SettledNow \cup ClosedNow)
  /\ timer' = [a \in Activities |->
                 IF timer[a] = "pending" /\ (a \in SettledNow \/ (Live /\ status' \in Terminal))
                 THEN "cancelled" ELSE timer[a]]
  /\ UNCHANGED <<claim_generation, claim_attempts, call_started_at, timed_out>>

\* A lifecycle command as the orchestrator accepts it.
Accepted(Command) ==
  Command /\ WriteCriticalRecords /\ UNCHANGED <<inbox, worker, requests, human, sends>>

-----------------------------------------------------------------------------
(* The planner, which acts on an idle running Run, and the user.           *)

\* Activities of this attempt; their identities are derived from the attempt.
Attempted == {a \in Activities : generation[a] = retry_generation}
AllSucceeded == \A a \in Attempted : settled[a] = "succeeded"

PlanActivity(a) ==
  /\ active = {} /\ AllSucceeded /\ Known(a)
  /\ RequestActivity(a, None)
  /\ task' = [task EXCEPT ![a] = "pending"]
  /\ timer' = [timer EXCEPT ![a] = "pending"]
  /\ UNCHANGED <<claim_generation, claimed_by, claim_attempts, leased, call_started_at,
                 timed_out, inbox, worker, requests, human, sends>>

FailedWith(code) == \E a \in Attempted : settled[a] = "failed" /\ failure[a] = code

\* fail_for_activity: drift waits for a renewal, any other failure retries or ends;
\* a missing or invalid model decision and the iteration limit end the Run as well.
PlanRun ==
  /\ status = "running" /\ active = {}
  /\ \/ AllSucceeded /\ Accepted(CompleteRun)
     \/ FailedWith("drift") /\ Accepted(WaitRun)
     \/ FailedWith("other") /\ Accepted(FailRunRetryable)
     \/ (FailedWith("other") \/ AllSucceeded) /\ Accepted(FailRun)

PlannerStep == Accepted(StartRun) \/ PlanRun \/ \E a \in Activities : PlanActivity(a)

\* The retry timer is delivered like a command of the user.
ClientStep == Accepted(CreateRun) \/ Accepted(ResumeRun) \/ Accepted(RetryRun) \/ Accepted(CancelRun)

-----------------------------------------------------------------------------
(* Claims and leases (postgres_activity_store).                            *)

Claimable(a) == task[a] = "pending" \/ (task[a] \in {"claimed", "call_started"} /\ a \notin leased)

OverBudget(a) == claim_attempts[a] + 1 > MaxAttempts /\ a \notin call_started_at

ClaimTask(w, a) ==
  /\ worker[w] = Idle
  /\ Claimable(a) /\ ~OverBudget(a) /\ claim_generation[a] < MaxClaims
  /\ task' = [task EXCEPT ![a] = "claimed"]
  /\ claim_generation' = [claim_generation EXCEPT ![a] = @ + 1]
  /\ claimed_by' = [claimed_by EXCEPT ![a] = w]
  /\ claim_attempts' = [claim_attempts EXCEPT ![a] = @ + 1]
  /\ leased' = leased \cup {a}
  /\ worker' = [worker EXCEPT ![w] = [activity |-> a, claim |-> claim_generation[a] + 1,
                                      recovered |-> a \in call_started_at,
                                      at |-> "claimed", obs |-> None]]
  /\ UNCHANGED <<runVars, call_started_at, timed_out, timer, inbox, requests, human, sends>>

\* The poison-pill cap parks the row and sends the command that settles it.
DeadLetterTask(a) ==
  /\ Claimable(a) /\ OverBudget(a)
  /\ task' = [task EXCEPT ![a] = "dead_lettered"]
  /\ claim_attempts' = [claim_attempts EXCEPT ![a] = @ + 1]
  /\ claimed_by' = [claimed_by EXCEPT ![a] = None]
  /\ leased' = leased \ {a}
  /\ inbox' = inbox \cup {<<"dead_letter", a>>}
  /\ UNCHANGED <<runVars, claim_generation, call_started_at, timed_out,
                 timer, worker, requests, human, sends>>

\* Mutants of Owned: no fence at all, and a fence that forgets whose lease it is.
OwnedUnfenced(w) == worker[w].activity # None
OwnedByAnybody(w) ==
  LET a == worker[w].activity
  IN /\ a # None
     /\ task[a] \in {"claimed", "call_started"}
     /\ a \in leased /\ a \notin timed_out

\* The lease as the database sees it: _owned_task, authorize_activity_command
\* and authorize_effect_command test the same row.
Owned(w) ==
  LET a == worker[w].activity
  IN /\ a # None
     /\ task[a] \in {"claimed", "call_started"}
     /\ claimed_by[a] = w /\ claim_generation[a] = worker[w].claim
     /\ a \in leased /\ a \notin timed_out

At(w, phase) == worker[w].at = phase
Goto(w, phase) == worker' = [worker EXCEPT ![w].at = phase]

\* defer(); an unconsumed attempt is given back.
DeferTask(w, consume) ==
  LET a == worker[w].activity
  IN /\ Owned(w)
     /\ task' = [task EXCEPT ![a] = "pending"]
     /\ claimed_by' = [claimed_by EXCEPT ![a] = None]
     /\ leased' = leased \ {a}
     /\ claim_attempts' = [claim_attempts EXCEPT ![a] = IF consume THEN @ ELSE @ - 1]
     /\ worker' = [worker EXCEPT ![w] = Idle]
     /\ UNCHANGED <<runVars, claim_generation, call_started_at, timed_out,
                    timer, inbox, requests, human, sends>>

\* A crash, a lost lease or a rejected command: the slot gives up its claim
\* without telling anybody.
WorkerStops(w) ==
  /\ worker[w] # Idle
  /\ worker' = [worker EXCEPT ![w] = Idle]
  /\ UNCHANGED <<runVars, taskVars, timer, inbox, requests, human, sends>>

LeaseExpires(a) ==
  /\ a \in leased
  /\ leased' = leased \ {a}
  /\ UNCHANGED <<runVars, task, claim_generation, claimed_by, claim_attempts, call_started_at,
                 timed_out, timer, inbox, worker, requests, human, sends>>

-----------------------------------------------------------------------------
(* One claim, from the lease to the outcome (activity_worker).             *)

\* Mutant of RecoveryUnsafe: a recovered claim always runs again.
RecoveryAlwaysSafe(w) == FALSE

\* A call that may have been made and cannot be repeated ends unknown.
RecoveryUnsafe(w) ==
  worker[w].recovered /\ worker[w].activity \notin Idempotent \cup Effectful

ClassifyRecovery(w) ==
  /\ At(w, "claimed") /\ RecoveryUnsafe(w)
  /\ Goto(w, "unknown")
  /\ UNCHANGED <<runVars, taskVars, timer, inbox, requests, human, sends>>

MarkRowCallStarted(w) ==
  LET a == worker[w].activity
  IN /\ At(w, "claimed") /\ ~RecoveryUnsafe(w)
     /\ Owned(w) /\ task[a] = "claimed"
     /\ task' = [task EXCEPT ![a] = "call_started"]
     /\ call_started_at' = call_started_at \cup {a}
     /\ Goto(w, "call_started")
     /\ UNCHANGED <<runVars, claim_generation, claimed_by, claim_attempts, leased, timed_out,
                    timer, inbox, requests, human, sends>>

SubmitCallStarted(w) ==
  /\ At(w, "call_started") /\ Owned(w)
  /\ MarkActivityCallStarted(worker[w].activity)
  /\ Goto(w, "started")
  /\ UNCHANGED <<taskVars, timer, inbox, requests, human, sends>>

\* A handler that writes through no operation makes its call.
HandlerCalls(w) ==
  LET a == worker[w].activity
  IN /\ At(w, "started") /\ a \notin Effectful
     /\ sends' = [sends EXCEPT ![a] = @ + 1]
     /\ Goto(w, "called")
     /\ UNCHANGED <<runVars, taskVars, timer, inbox, requests, human>>

HandlerReturns(w, outcome) ==
  /\ At(w, "called")
  /\ Goto(w, outcome)
  /\ UNCHANGED <<runVars, taskVars, timer, inbox, requests, human, sends>>

\* The claim ends before any call.  An invalid policy snapshot, a drifted contract or
\* a rejected command is a failure, a tool error or a denied capability a result the
\* model can correct, and an exception where nothing can be repeated proves nothing.
HandlerRefuses(w) ==
  /\ \/ At(w, "claimed") /\ Goto(w, "failed")
     \/ /\ At(w, "started") \/ At(w, "prepared")
        /\ Goto(w, "failed") \/ Goto(w, "succeeded")
     \/ /\ At(w, "started") /\ worker[w].activity \notin Idempotent \cup Effectful
        /\ Goto(w, "unknown")
  /\ UNCHANGED <<runVars, taskVars, timer, inbox, requests, human, sends>>

SubmitOutcome(w) ==
  LET a == worker[w].activity
  IN /\ Owned(w)
     /\ \/ At(w, "succeeded") /\ CompleteActivity(a)
        \/ At(w, "failed") /\ \E code \in {"drift", "other"} : FailActivity(a, code)
        \/ At(w, "unknown") /\ MarkActivityOutcomeUnknown(a)
     /\ WriteCriticalRecords
     /\ worker' = [worker EXCEPT ![w] = Idle]
     /\ UNCHANGED <<inbox, requests, human, sends>>

-----------------------------------------------------------------------------
(* Timeouts and dead letters: settlement without a worker.                 *)

TimeoutPasses(a) ==
  /\ task[a] \in Open \cup {"dead_lettered"} /\ a \notin timed_out
  /\ timed_out' = timed_out \cup {a}
  /\ UNCHANGED <<runVars, task, claim_generation, claimed_by, claim_attempts, leased,
                 call_started_at, timer, inbox, worker, requests, human, sends>>

\* Mutant of FireTimer: the timer is marked fired and its command is not received.
FireTimerUnsent(a) ==
  /\ timer[a] = "pending" /\ a \in timed_out
  /\ timer' = [timer EXCEPT ![a] = "fired"]
  /\ UNCHANGED <<runVars, taskVars, inbox, worker, requests, human, sends>>

FireTimer(a) ==
  /\ timer[a] = "pending" /\ a \in timed_out
  /\ timer' = [timer EXCEPT ![a] = "fired"]
  /\ inbox' = inbox \cup {<<"timeout", a>>}
  /\ UNCHANGED <<runVars, taskVars, worker, requests, human, sends>>

\* The fence for commands that carry no lease.
Trusted(kind, a) ==
  CASE kind = "dead_letter" -> task[a] = "dead_lettered" /\ a \notin call_started_at
    [] kind = "timeout" -> a \in timed_out /\ timer[a] = "fired"
    [] kind = "timeout_unknown" -> a \in timed_out /\ timer[a] = "fired" /\ a \in call_started_at

\* Mutant of Redirects: every timeout is a failure.
NeverRedirects(a) == FALSE

\* A formally started call that cannot be repeated must not be called failed; a
\* replay binding proves that there was no real call.
Redirects(a) ==
  a \in active /\ generation[a] = retry_generation /\ a \in started /\ a \notin Idempotent

\* FailActivity from the timer or from the dead-letter cap.
ProcessFailure(kind, a) ==
  /\ kind \in {"timeout", "dead_letter"} /\ <<kind, a>> \in inbox
  /\ IF Trusted(kind, a) /\ ~Redirects(a) /\ CanFailActivity(a)
     THEN FailActivity(a, "other") /\ WriteCriticalRecords
     ELSE UNCHANGED <<runVars, taskVars, timer>>
  /\ inbox' = (inbox \ {<<kind, a>>})
                 \cup (IF Trusted(kind, a) /\ Redirects(a) THEN {<<"timeout_unknown", a>>} ELSE {})
  /\ UNCHANGED <<worker, requests, human, sends>>

ProcessTimeoutUnknown(a) ==
  /\ <<"timeout_unknown", a>> \in inbox
  /\ IF Trusted("timeout_unknown", a) /\ CanMarkOutcomeUnknown(a)
     THEN MarkActivityOutcomeUnknown(a) /\ WriteCriticalRecords
     ELSE UNCHANGED <<runVars, taskVars, timer>>
  /\ inbox' = inbox \ {<<"timeout_unknown", a>>}
  /\ UNCHANGED <<worker, requests, human, sends>>

-----------------------------------------------------------------------------
(* The external write of a tool call (effect_service.invoke).              *)

Request(a, kind, revision, obs) ==
  [operation |-> a, kind |-> kind, revision |-> revision, obs |-> obs, running |-> FALSE]

\* The requests project_effect_events adds for the operation as it now stands.
AutoRequests(a) ==
  IF a \in abandoned' THEN {}
  ELSE CASE op_state'[a] = "prepared" -> {Request(a, "not_sent", op_revision'[a], None)}
         [] op_state'[a] \in Uncertain /\ a \in Queryable ->
              {Request(a, "query", op_revision'[a], None)}
         [] OTHER -> {}

\* A final fact the worker recorded is reconciled if the worker goes no further.
FactRequests(a) ==
  IF op_state'[a] \in FinalOp THEN {Request(a, "fact", op_revision'[a], None)} ELSE {}

\* Receipts nobody has used for operation a.
Fresh(a) ==
  Receipts \ (op_receipts[a]
     \cup {worker[w].obs.receipt : w \in {v \in Workers : worker[v].activity = a /\ worker[v].obs # None}}
     \cup {q.obs.receipt : q \in {r \in requests : r.operation = a /\ r.obs # None}})

\* recover() and the second look after Prepare: an operation on record, unless
\* it is merely prepared, decides the outcome without another call.
JournalDecides(a) ==
  op_state[a] \notin {"absent", "prepared"} \/ a \in conflicts \/ a \in abandoned

JournalOutcome(a) ==
  IF op_state[a] = "applied" /\ op_result[a] # None /\ a \notin conflicts \cup abandoned
  THEN "succeeded" ELSE "unknown"

ReadJournal(w) ==
  LET a == worker[w].activity
  IN /\ At(w, "started") \/ At(w, "prepared")
     /\ a \in Effectful /\ JournalDecides(a)
     /\ Goto(w, JournalOutcome(a))
     /\ UNCHANGED <<runVars, taskVars, timer, inbox, requests, human, sends>>

PrepareOperation(w) ==
  LET a == worker[w].activity
  IN /\ At(w, "started") /\ a \in Effectful /\ Owned(w)
     /\ \/ PrepareEffectOperation(a) /\ requests' = requests \cup AutoRequests(a)
        \/ op_state[a] = "prepared" /\ ~JournalDecides(a) /\ ~Quarantined
             /\ UNCHANGED <<runVars, requests>>
     /\ Goto(w, "prepared")
     /\ UNCHANGED <<taskVars, timer, inbox, human, sends>>

DispatchOperation(w) ==
  LET a == worker[w].activity
  IN /\ At(w, "prepared") /\ Owned(w)
     /\ StartEffectDispatch(a)
     /\ requests' = requests \cup AutoRequests(a)
     /\ Goto(w, "dispatched")
     /\ UNCHANGED <<taskVars, timer, inbox, human, sends>>

\* What the send reports: a complete result, success without one, or nothing
\* that proves an outcome.
Replies ==
  {<<"applied", m>> : m \in Results \cup {None}} \cup {<<"unknown", None>>}

\* The lease may have lapsed since the dispatch committed.
SendOperation(w) ==
  LET a == worker[w].activity
  IN /\ At(w, "dispatched")
     /\ sends' = [sends EXCEPT ![a] = @ + 1]
     /\ \E e \in Fresh(a), r \in Replies :
          worker' = [worker EXCEPT ![w].at = "sent",
                       ![w].obs = [receipt |-> e, state |-> r[1], source |-> "observed",
                                   result |-> r[2]]]
     /\ UNCHANGED <<runVars, taskVars, timer, inbox, requests, human>>

\* The observation is for the revision the dispatch produced.
DispatchRevision == 2

RecordObservation(w) ==
  LET a == worker[w].activity
      o == worker[w].obs
  IN /\ At(w, "sent") /\ Owned(w) /\ op_revision[a] = DispatchRevision
     /\ RecordEffectObservation(a, o)
     /\ requests' = requests \cup AutoRequests(a) \cup FactRequests(a)
     /\ worker' = [worker EXCEPT ![w].obs = None,
                      ![w].at = IF o.state = "applied" /\ o.result # None
                                THEN "succeeded" ELSE "unknown"]
     /\ UNCHANGED <<taskVars, timer, inbox, human, sends>>

\* Without authority the observation is kept for the reconciler instead.
DeferObservation(w) ==
  LET a == worker[w].activity
  IN /\ At(w, "sent") /\ (~Owned(w) \/ op_revision[a] # DispatchRevision)
     /\ requests' = requests \cup {Request(a, "late", op_revision[a], worker[w].obs)}
     /\ worker' = [worker EXCEPT ![w].obs = None, ![w].at = "unknown"]
     /\ UNCHANGED <<runVars, taskVars, timer, inbox, human, sends>>

\* The observation cannot be stored: the handler's exception makes the worker
\* report a failure, although the call was made.
LoseObservation(w) ==
  /\ At(w, "sent")
  /\ worker' = [worker EXCEPT ![w].obs = None, ![w].at = "failed"]
  /\ UNCHANGED <<runVars, taskVars, timer, inbox, requests, human, sends>>

-----------------------------------------------------------------------------
(* Requests about an operation and the reconciler that works them off.     *)

Observed(e, state, result) ==
  [receipt |-> e, state |-> state, source |-> "observed", result |-> result]

\* What a provider may answer to a query.
Answers(e) ==
  {Observed(e, "applied", m) : m \in Results \cup {None}}
    \cup {Observed(e, s, None) : s \in {"pending", "unknown", "not_applied"}}

\* submit_query: "query" is an allowed action of the operation.
MayAskAgain(a) == a \in Queryable \ (conflicts \cup abandoned) /\ op_state[a] \in Uncertain

\* submit_resolution: a confirmed fact is not overwritten, only completed.
MayAttest(a, o) ==
  /\ a \notin conflicts \cup abandoned
  /\ op_state[a] \in FinalOp =>
       op_state[a] = "applied" /\ o.state = "applied" /\ a \in awaiting /\ o.result # None

SubmitRequest(a, kind) ==
  /\ human < MaxHuman /\ op_state[a] # "absent"
  /\ \/ /\ kind = "abandon" \/ (kind = "query" /\ MayAskAgain(a))
        /\ requests' = requests \cup {Request(a, kind, op_revision[a], None)}
     \/ kind = "resolution" /\ \E e \in Fresh(a) :
          \E o \in {Observed(e, "applied", m) : m \in Results \cup {None}}
                   \cup {Observed(e, "not_applied", None)} :
            /\ MayAttest(a, o)
            /\ requests' = requests \cup {Request(a, kind, op_revision[a], o)}
  /\ human' = human + 1
  /\ UNCHANGED <<runVars, taskVars, timer, inbox, worker, sends>>

\* claim_request: only what a person decided need not wait for the task row.
MayClaim(q) ==
  ~q.running /\ (q.kind \in {"resolution", "abandon"} \/ task[q.operation] \in Outcomes)

\* The operation as process_pending reads it before it prepares a command.
Readable(q) ==
  LET a == q.operation
  IN /\ q.kind # "late" => q.revision = op_revision[a]
     /\ q.kind = "not_sent" => op_state[a] = "prepared"
     /\ q.kind = "fact" => op_state[a] \in FinalOp
     /\ q.kind = "query" => a \notin abandoned \cup conflicts /\ op_state[a] \notin FinalOp

\* The observation the request is answered with.
Evidence(q) ==
  LET a == q.operation
  IN CASE q.kind = "not_sent" ->
            {[receipt |-> e, state |-> "not_applied", source |-> "kernel_not_sent",
              result |-> None] : e \in Fresh(a)}
       [] q.kind = "fact" -> {Observed(e, op_state[a], op_result[a]) : e \in Fresh(a)}
       [] q.kind = "query" -> UNION {Answers(e) : e \in Fresh(a)}
       [] OTHER -> {q.obs}

ClaimRequest(q) ==
  /\ MayClaim(q) /\ Readable(q)
  /\ \E o \in Evidence(q) :
       requests' = (requests \ {q}) \cup {[q EXCEPT !.running = TRUE, !.obs = o]}
  /\ UNCHANGED <<runVars, taskVars, timer, inbox, worker, human, sends>>

\* The claim's two minutes are over before the command is decided.
RequestLapses(q) ==
  /\ q.running
  /\ requests' = (requests \ {q})
        \cup {[q EXCEPT !.running = FALSE,
                       !.obs = IF q.kind \in {"late", "resolution"} THEN q.obs ELSE None]}
  /\ UNCHANGED <<runVars, taskVars, timer, inbox, worker, human, sends>>

\* No answer from the provider, or evidence that cannot be read: the request
\* is given up, which proves nothing about the write.
GiveUpRequest(q) ==
  /\ q.running
  /\ requests' = requests \ {q}
  /\ UNCHANGED <<runVars, taskVars, timer, inbox, worker, human, sends>>

\* The command a request stands for, decided at the revision the request names;
\* a late observation adopts the current one.
Resolvable(q) ==
  LET a == q.operation
  IN /\ q.kind # "late" => q.revision = op_revision[a]
     /\ IF q.kind = "abandon" THEN a \notin abandoned
        ELSE CanObserve(a, q.obs)
               /\ (op_state[a] = "prepared" => q.obs.source = "kernel_not_sent")

Resolve(q) ==
  LET a == q.operation
  IN CASE q.kind = "abandon" -> AbandonEffectResolution(a)
       [] q.kind = "resolution" /\ a \in awaiting /\ q.obs.result # None ->
            SupplyActivityResult(a, q.obs)
       [] OTHER -> ResolveActivityOutcome(a, q.obs)

FinishRequest(q) ==
  /\ q.running /\ Resolvable(q)
  /\ Resolve(q) /\ WriteCriticalRecords
  /\ requests' = (requests \ {q}) \cup AutoRequests(q.operation)
  /\ UNCHANGED <<inbox, worker, human, sends>>

\* The operation moved on: the request fails and is not repeated.
FailRequest(q) ==
  /\ \/ MayClaim(q) /\ ~Readable(q)
     \/ q.running /\ ~Resolvable(q)
  /\ requests' = requests \ {q}
  /\ UNCHANGED <<runVars, taskVars, timer, inbox, worker, human, sends>>

-----------------------------------------------------------------------------
WorkerStep ==
  \E w \in Workers :
     \/ \E a \in Activities : ClaimTask(w, a)
     \/ \E consume \in BOOLEAN : DeferTask(w, consume)
     \/ WorkerStops(w) \/ ClassifyRecovery(w) \/ MarkRowCallStarted(w)
     \/ SubmitCallStarted(w)
     \/ \E outcome \in {"succeeded", "failed", "unknown"} : HandlerReturns(w, outcome)
     \/ HandlerCalls(w) \/ HandlerRefuses(w) \/ SubmitOutcome(w)

EffectCallStep ==
  \E w \in Workers :
     \/ ReadJournal(w) \/ PrepareOperation(w) \/ DispatchOperation(w)
     \/ SendOperation(w) \/ RecordObservation(w) \/ DeferObservation(w) \/ LoseObservation(w)

ClockStep == \E a \in Activities : LeaseExpires(a) \/ TimeoutPasses(a)

SettlementStep ==
  \E a \in Activities :
     \/ DeadLetterTask(a) \/ FireTimer(a)
     \/ \E kind \in {"timeout", "dead_letter"} : ProcessFailure(kind, a)
     \/ ProcessTimeoutUnknown(a)

ReconcilerStep ==
  \/ \E a \in Activities, kind \in HumanKinds : SubmitRequest(a, kind)
  \/ \E q \in requests : \/ ClaimRequest(q) \/ RequestLapses(q) \/ GiveUpRequest(q)
                          \/ FinishRequest(q) \/ FailRequest(q)

KernelNext ==
  \/ PlannerStep \/ ClientStep \/ WorkerStep \/ EffectCallStep
  \/ ClockStep \/ SettlementStep \/ ReconcilerStep

KernelSpec == KernelInit /\ [][KernelNext]_vars

\* Time passes, due timers fire and received commands are processed; nothing is
\* assumed of workers, planners, people or the reconciler.
Fairness ==
  \A a \in Activities :
     /\ WF_vars(TimeoutPasses(a)) /\ WF_vars(FireTimer(a))
     /\ WF_vars(ProcessFailure("timeout", a)) /\ WF_vars(ProcessTimeoutUnknown(a))

FairKernelSpec == KernelSpec /\ Fairness

-----------------------------------------------------------------------------
(* The task rows agree with the formal history: a formally active Activity *)
(* has a row that its settlement will find, and a settled one has the row  *)
(* of its outcome, whichever of worker, timer, dead-letter cap, person or  *)
(* reconciler settled it (_write_critical_records, "formal Activity        *)
(* settlement has no active operational task").                            *)
RowsAgree ==
  \A a \in Activities :
     /\ a \in active => task[a] \in Open \cup {"dead_lettered"}
     /\ settled[a] # "none" => task[a] = settled[a]
     /\ task[a] \in Open => a \in active

(* One call per Activity: whatever crashes, reclaims, deferrals and lost   *)
(* answers happen, a handler that is not idempotent makes its external     *)
(* call at most once (recovered_after_call_started in the worker,          *)
(* decide_effect "operation cannot be sent again").                        *)
AtMostOneSend == \A a \in Activities \ Idempotent : sends[a] <= 1

(* A failed write is a proven failure: an Activity that settled failed has *)
(* never sent its write, unless evidence on record says that the write was *)
(* not applied (_decide_FailActivity, authorize_effect_command,            *)
(* decide_effect).                                                         *)
FailureIsProven ==
  \A a \in Effectful :
     settled[a] = "failed" /\ sends[a] > 0 => op_state[a] = "not_applied"

(* Planning never builds on an open question: unless the Run waits for     *)
(* outside evidence, an operation whose outcome or result is still missing *)
(* belongs to the Activity that is being executed (_decide_FailActivity,   *)
(* _decide_MarkActivityOutcomeUnknown, decide_effect).                     *)
RunningIsCertain ==
  Live /\ wait_reason \notin UnknownReasons =>
     \A a \in Activities : op_state[a] \in Uncertain \/ a \in awaiting => a \in active

\* The steps the action properties below allow.
FailsUncalled ==
  \A a \in Activities \ Idempotent :
     (inbox' # inbox /\ settled[a] = "none" /\ settled'[a] = "failed") => sends[a] = 0

ProvesUnsent ==
  \A a \in Activities :
     op_state[a] = "prepared" /\ op_state'[a] # "prepared" =>
        \/ op_state'[a] = "sending" /\ a \in active
        \/ op_state'[a] = "not_applied" /\ sends[a] = 0
             /\ \A w \in Workers : worker[w].activity = a => ~At(w, "dispatched")

RespectsLeases ==
  \A a \in Activities :
     (a \in active /\ a \in leased /\ a \notin timed_out /\ a \notin active') =>
        \/ status' \in Terminal
        \/ op_receipts'[a] # op_receipts[a]
        \/ \E w \in Workers :
             /\ claimed_by[a] = w /\ worker[w].activity = a
             /\ worker[w].claim = claim_generation[a] /\ worker'[w] = Idle

(* A timeout or a dead letter never declares a call failed that may have   *)
(* been made and cannot be repeated (PostgresActivityTimeoutGuard.redirect,*)
(* "a counter is not evidence that an external side effect failed").       *)
FailureNotAssumed == [][FailsUncalled]_vars

(* An unsent operation stays unsent: once the task of a prepared operation *)
(* is settled or closed no worker can dispatch it, so the reconciler's     *)
(* kernel_not_sent proof is true (claim_request, authorize_effect_command).*)
NotSentIsTrue == [][ProvesUnsent]_vars

(* A lost claim settles nothing: while the row is leased to a worker whose *)
(* time is not up, nobody but that worker, an end of the Run or evidence   *)
(* about the operation takes the Activity out of the active set            *)
(* (authorize_activity_command, claim).                                    *)
LeaseExcludes == [][RespectsLeases]_vars

(* Every Activity settles: even if every worker is gone, the timer's       *)
(* command takes an active Activity out of the active set                  *)
(* (_decide_RequestActivity, redirect, _trusted_timeout_or_dead_letter).   *)
ActivitySettles == \A a \in Activities : a \in active ~> a \notin active

=============================================================================
