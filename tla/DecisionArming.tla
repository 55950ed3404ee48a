---------------------------- MODULE DecisionArming ----------------------------
(***************************************************************************)
(* How a Run gets its next decision: the projector arms the Run's row when *)
(* an event leaves it to the planner, decision workers load the armed rows,*)
(* plan from what they loaded, submit commands, disarm the Runs they found *)
(* idle and count planner failures, while events, other workers and a      *)
(* rebuild of the scope go on.                                             *)
(***************************************************************************)
EXTENDS Naturals, FiniteSets, Sequences, SequencesExt

CONSTANTS
  Runs, Workers,
  Supports,        \* [Workers -> SUBSET Runs]: definitions a worker has
  None,
  MaxAttempts,     \* planner failures before quarantine (3)
  MaxEvents,       \* bound on the events of a Run
  MaxClock,        \* bound on time
  MaxErrors,       \* bound on exceptions of the planner
  MaxFaults        \* bound on corrupt rows, missing definitions, refused commands,
                   \* crashes and rebuilds

\* A row of ExecutionPoisonedRunORM; without next it is never offered again.
QuarantineRows ==
  [reason : {"planner", "corrupt"}, next : Nat \cup {None}, count : Nat]

ASSUME ArmingAssumption ==
  /\ Supports \in [Workers -> SUBSET Runs]
  /\ None \notin Nat /\ None \notin QuarantineRows
  /\ MaxAttempts \in Nat \ {0} /\ MaxEvents \in Nat /\ MaxClock \in Nat
  /\ MaxErrors \in Nat /\ MaxFaults \in Nat

\* What an event leaves the Run in: "decide" and "idle" look alike to the
\* projector (queued, or running with nothing active), only the planner
\* tells them apart; "busy" is running with Activities, or waiting.
States == {"decide", "idle", "busy", "ended"}

VARIABLES
  history,         \* per Run: the state after each event of its stream
  position,        \* per Run: last_event_position of its row, 0 without a row
  due,             \* per Run: decision_due_at
  poison,          \* per Run: its quarantine row, or None
  scope,           \* "ok" or "rebuilding"
  target,          \* per Run: events the rebuild must replay
  clock,
  active, todo, submitting, idle, armed, now,   \* per worker: run_once under way
  refused,         \* <<Run, stream version>> whose planned command the decider refused
  errors, rebuilt, faults   \* what the environment did so far

counters == <<refused, errors, rebuilt, faults>>
rowVars == <<position, due>>
scopeVars == <<scope, target>>
workerVars == <<active, todo, submitting, idle, armed, now>>
vars == <<history, rowVars, poison, scopeVars, clock, workerVars, counters>>

Init ==
  /\ history = [r \in Runs |-> <<>>]
  /\ position = [r \in Runs |-> 0] /\ due = [r \in Runs |-> None]
  /\ poison = [r \in Runs |-> None]
  /\ scope = "ok" /\ target = [r \in Runs |-> 0]
  /\ clock = 0 /\ refused = {} /\ errors = 0 /\ rebuilt = FALSE /\ faults = 0
  /\ active = [k \in Workers |-> FALSE] /\ todo = [k \in Workers |-> {}]
  /\ submitting = [k \in Workers |-> None]
  /\ idle = [k \in Workers |-> {}]
  /\ armed = [k \in Workers |-> [r \in Runs |-> None]]
  /\ now = [k \in Workers |-> 0]

-----------------------------------------------------------------------------
(* The stream and the projector.                                           *)

CanAppend(r) == Len(history[r]) < MaxEvents /\ "ended" \notin ToSet(history[r])

\* An Activity's outcome, a timer or a person moves the Run.
EventArrives(r, s) ==
  /\ CanAppend(r)
  /\ history[r] = <<>> => s = "decide"
  /\ history' = [history EXCEPT ![r] = Append(@, s)]
  /\ UNCHANGED <<rowVars, poison, scopeVars, clock, workerVars, counters>>

Arms(r, p) == history[r][p] \in {"decide", "idle"}

\* _flush_run with a batch that ends at event p.
Project(r, p) ==
  /\ position[r] < p
  /\ position' = [position EXCEPT ![r] = p]
  /\ due' = [due EXCEPT ![r] = IF Arms(r, p) THEN 0 ELSE None]
  /\ UNCHANGED <<history, poison, scopeVars, clock, workerVars, counters>>

Tick ==
  /\ clock < MaxClock
  /\ clock' = clock + 1
  /\ UNCHANGED <<history, rowVars, poison, scopeVars, workerVars, counters>>

-----------------------------------------------------------------------------
(* A decision worker's run_once.                                           *)

Past(t) == t # None /\ t <= clock

\* load_ready.
\* Mutant of Loadable: a Run that failed once is never offered again.
LoadableUnlessFailed(k, r) ==
  /\ r \in Supports[k] /\ scope = "ok"
  /\ position[r] > 0 /\ history[r][position[r]] # "ended"
  /\ Past(due[r]) /\ poison[r] = None
Loadable(k, r) ==
  /\ r \in Supports[k]
  /\ scope = "ok"
  /\ position[r] > 0 /\ history[r][position[r]] # "ended"
  /\ Past(due[r])
  /\ poison[r] # None => Past(poison[r].next)

\* _quarantine: for ever, whatever the count was.
SetAside(r) ==
  [reason |-> "corrupt", next |-> None, count |-> IF poison[r] = None THEN 0 ELSE poison[r].count]

\* Rows that cannot be decoded are set aside in the same transaction.
LoadReady(k, corrupt) ==
  LET ready == {r \in Runs : Loadable(k, r)}
  IN /\ ~active[k] /\ ready # {} /\ corrupt \subseteq ready
     /\ faults + Cardinality(corrupt) <= MaxFaults
     /\ active' = [active EXCEPT ![k] = TRUE]
     /\ todo' = [todo EXCEPT ![k] = ready \ corrupt]
     /\ idle' = [idle EXCEPT ![k] = {}]
     /\ armed' = [armed EXCEPT ![k] =
          [r \in Runs |-> IF r \in ready THEN position[r] ELSE None]]
     /\ now' = [now EXCEPT ![k] = clock]
     /\ poison' = [r \in Runs |-> IF r \in corrupt THEN SetAside(r) ELSE poison[r]]
     /\ faults' = faults + Cardinality(corrupt)
     /\ UNCHANGED <<history, rowVars, scopeVars, clock, submitting, refused, errors, rebuilt>>

\* What the planner was given.
Candidate(k, r) == history[r][armed[k][r]]

Planning(k, r) == r \in todo[k] /\ submitting[k] = None

\* succeeded: the failures of a planner that works again are forgotten.
\* Mutant of Forgiven: spent budgets too.
ForgivenAlways(r) == poison[r] # None /\ poison[r].reason = "planner"
Forgiven(r) == poison[r] # None /\ poison[r].reason = "planner" /\ poison[r].next # None

Succeed(r) == poison' = [poison EXCEPT ![r] = IF Forgiven(r) THEN None ELSE @]

PlanIdle(k, r) ==
  /\ Planning(k, r) /\ Candidate(k, r) = "idle"
  /\ Succeed(r)
  /\ todo' = [todo EXCEPT ![k] = @ \ {r}]
  /\ idle' = [idle EXCEPT ![k] = @ \cup {r}]
  /\ UNCHANGED <<history, rowVars, scopeVars, clock, active, submitting, armed, now, counters>>

PlanCommand(k, r) ==
  /\ Planning(k, r) /\ Candidate(k, r) = "decide"
  /\ Succeed(r)
  /\ todo' = [todo EXCEPT ![k] = @ \ {r}]
  /\ submitting' = [submitting EXCEPT ![k] = r]
  /\ UNCHANGED <<history, rowVars, scopeVars, clock, active, idle, armed, now, counters>>

\* DefinitionUnavailable: the marker and the budget are left alone.
PlanUnavailable(k, r) ==
  /\ Planning(k, r) /\ faults < MaxFaults
  /\ todo' = [todo EXCEPT ![k] = @ \ {r}]
  /\ faults' = faults + 1
  /\ UNCHANGED <<history, rowVars, poison, scopeVars, clock, active, submitting, idle, armed, now,
                 refused, errors, rebuilt>>

MayCount(k, r) ==
  position[r] = armed[k][r] /\ due[r] # None /\ due[r] <= now[k]

BackOff(attempt) == 2 ^ (attempt - 1)

\* failed: a retry after a growing pause, then quarantine for ever.
PlanRaises(k, r) ==
  LET attempt == IF poison[r] = None THEN 1 ELSE poison[r].count + 1
      retryAt == IF attempt < MaxAttempts THEN now[k] + BackOff(attempt) ELSE None
  IN /\ Planning(k, r) /\ errors < MaxErrors
     /\ attempt < MaxAttempts => retryAt \in 0..MaxClock
     /\ todo' = [todo EXCEPT ![k] = @ \ {r}]
     /\ IF MayCount(k, r)
        THEN /\ poison' = [poison EXCEPT ![r] =
                  [reason |-> "planner", next |-> retryAt, count |-> attempt]]
             /\ due' = [due EXCEPT ![r] = retryAt]
        ELSE UNCHANGED <<poison, due>>
     /\ errors' = errors + 1
     /\ UNCHANGED <<history, position, scopeVars, clock, active, submitting, idle, armed, now,
                    refused, rebuilt, faults>>

\* The command carries the stream version it was planned at.
Fresh(k, r) == Len(history[r]) = armed[k][r]

\* The command's id is derived from that version: asked again, a refused command
\* returns the refusal on record.
Refused(k, r) == <<r, armed[k][r]>> \in refused

SubmitAccepted(k, r, s) ==
  /\ submitting[k] = r /\ Fresh(k, r) /\ ~Refused(k, r) /\ CanAppend(r)
  /\ history' = [history EXCEPT ![r] = Append(@, s)]
  /\ submitting' = [submitting EXCEPT ![k] = None]
  /\ UNCHANGED <<rowVars, poison, scopeVars, clock, active, todo, idle, armed, now, counters>>

SubmitRejected(k, r) ==
  /\ submitting[k] = r /\ (~Fresh(k, r) \/ Refused(k, r))
  /\ submitting' = [submitting EXCEPT ![k] = None]
  /\ UNCHANGED <<history, rowVars, poison, scopeVars, clock, active, todo, idle, armed, now, counters>>

\* The decider does not accept what the planner asks for.
SubmitRefused(k, r) ==
  /\ submitting[k] = r /\ Fresh(k, r) /\ ~Refused(k, r) /\ faults < MaxFaults
  /\ submitting' = [submitting EXCEPT ![k] = None]
  /\ refused' = refused \cup {<<r, armed[k][r]>>}
  /\ faults' = faults + 1
  /\ UNCHANGED <<history, rowVars, poison, scopeVars, clock, active, todo, idle, armed, now,
                 errors, rebuilt>>

\* disarm, guarded by the position that was loaded.
\* Mutant of Disarmed: whatever was found idle.
DisarmedUnguarded(k, r) == r \in idle[k]
Disarmed(k, r) == r \in idle[k] /\ position[r] <= armed[k][r]

\* The positions of a batch are not read after it.
Forget(k) ==
  /\ active' = [active EXCEPT ![k] = FALSE]
  /\ todo' = [todo EXCEPT ![k] = {}]
  /\ submitting' = [submitting EXCEPT ![k] = None]
  /\ idle' = [idle EXCEPT ![k] = {}]
  /\ armed' = [armed EXCEPT ![k] = [r \in Runs |-> None]]
  /\ now' = [now EXCEPT ![k] = 0]

FinishBatch(k) ==
  /\ active[k] /\ todo[k] = {} /\ submitting[k] = None
  /\ due' = [r \in Runs |-> IF Disarmed(k, r) THEN None ELSE due[r]]
  /\ Forget(k)
  /\ UNCHANGED <<history, position, poison, scopeVars, clock, counters>>

CrashWorker(k) ==
  /\ active[k] /\ faults < MaxFaults
  /\ Forget(k)
  /\ faults' = faults + 1
  /\ UNCHANGED <<history, rowVars, poison, scopeVars, clock, refused, errors, rebuilt>>

-----------------------------------------------------------------------------
(* A rebuild of the scope: rows are deleted and replayed, then quarantined *)
(* Runs whose inputs verify are released.                                  *)

DeleteScope ==
  /\ scope = "ok" /\ faults < MaxFaults
  /\ scope' = "rebuilding"
  /\ target' = [r \in Runs |-> Len(history[r])]
  /\ position' = [r \in Runs |-> 0]
  /\ due' = [r \in Runs |-> None]
  /\ rebuilt' = TRUE
  /\ faults' = faults + 1
  /\ UNCHANGED <<history, poison, clock, workerVars, refused, errors>>

\* recover_scope and clear; verified are the Runs that decode.
RecoverScope(verified) ==
  /\ scope = "rebuilding"
  /\ \A r \in Runs : position[r] >= target[r]
  /\ poison' = [r \in Runs |->
       IF poison[r] = None \/ r \in verified THEN None ELSE SetAside(r)]
  /\ scope' = "ok"
  /\ UNCHANGED <<history, rowVars, target, clock, workerVars, counters>>

-----------------------------------------------------------------------------
Load(k) == \E corrupt \in SUBSET Runs : LoadReady(k, corrupt)

Plan(k) ==
  \/ \E r \in Runs : PlanIdle(k, r) \/ PlanCommand(k, r) \/ SubmitRejected(k, r)
  \/ \E r \in Runs, s \in States : SubmitAccepted(k, r, s)
  \/ FinishBatch(k)

Faulty ==
  \/ \E k \in Workers, r \in Runs : PlanUnavailable(k, r) \/ PlanRaises(k, r) \/ SubmitRefused(k, r)
  \/ \E k \in Workers : CrashWorker(k)
  \/ DeleteScope

Next ==
  \/ \E r \in Runs, s \in States : EventArrives(r, s)
  \/ \E r \in Runs : \E p \in 1..Len(history[r]) : Project(r, p)
  \/ Tick
  \/ \E k \in Workers : Load(k) \/ Plan(k)
  \/ \E verified \in SUBSET Runs : RecoverScope(verified)
  \/ Faulty

Spec == Init /\ [][Next]_vars

\* The projectors and decisions lanes poll for ever.
Fairness ==
  /\ WF_vars(Tick)
  /\ \A r \in Runs : WF_vars(\E p \in 1..Len(history[r]) : Project(r, p))
  /\ \A k \in Workers : WF_vars(Load(k) \/ Plan(k))

FairSpec == Spec /\ Fairness

-----------------------------------------------------------------------------
\* Quarantined until an administrator's recovery.
Blocked(r) == poison[r] # None /\ poison[r].next = None

CaughtUp(r) == position[r] > 0 /\ position[r] = Len(history[r])

\* The known gap: a failure counted after a rebuild's replay is forgiven by
\* the recovery without arming the Run again.
LateFailure == rebuilt /\ errors >= MaxAttempts

(* No wake-up is lost: a Run whose projected state needs a decision stays  *)
(* armed until its stream moves on, unless it is quarantined; a stale       *)
(* disarm or failure never takes the marker of a newer event, and a rebuild *)
(* arms again what it deleted, except where the planner failed as often as  *)
(* its budget allows around that rebuild (_flush_run, disarm, failed).      *)
NoLostWakeup ==
  \A r \in Runs :
    CaughtUp(r) /\ Last(history[r]) = "decide"
      => due[r] # None \/ Blocked(r) \/ LateFailure

\* The planner of the Run failed as often as it may.
Spent(r) == Blocked(r) /\ poison[r].reason = "planner"

\* The steps BlockedStays allows.
KeepsBlocked ==
  \A r \in Runs :
    Spent(r) => (Spent(r)' /\ poison'[r].count >= poison[r].count) \/ scope' # scope

(* A Run whose planner failed too often stays quarantined, with no failure *)
(* forgotten, until a recovery of its scope, although another worker that  *)
(* loaded it earlier may still fail or succeed with it, even after a       *)
(* rebuild replayed its row (failed, succeeded, recover_scope).            *)
BlockedStays == [][KeepsBlocked]_vars

(* A Run that waits for a decision gets one, or some event moves it, or it  *)
(* is quarantined, or its scope is, or a late failure stranded it, or the   *)
(* decider refused the command planned for it (run_once, load_ready, the    *)
(* retry pause).                                                            *)
DecisionsTaken ==
  \A r \in Runs : \A n \in 1..(MaxEvents - 1) :
    (Len(history[r]) = n /\ Last(history[r]) = "decide")
      ~> \/ Len(history[r]) > n \/ Blocked(r) \/ scope # "ok" \/ LateFailure
         \/ <<r, n>> \in refused
=============================================================================
