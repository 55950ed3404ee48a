------------------------ MODULE ActivityExecutionProofs ------------------------
(***************************************************************************)
(* Machine-checked proofs about the execution of Activities, for every set *)
(* of Activities, workers, receipts and results and for every bound.       *)
(*                                                                         *)
(* What the kernel does to the Run is a step of the Run aggregate          *)
(* (FormalSteps), so that everything proved in RunAggregateProofs holds of *)
(* the kernel too.  What it does to the worker slots is one of few moves   *)
(* (SlotSteps).  The invariants are proved over these two views.           *)
(***************************************************************************)
EXTENDS ActivityExecution, RunAggregateProofs

-----------------------------------------------------------------------------
(* Types of the operational state.                                         *)

Finished == {"succeeded", "failed", "unknown"}
\* Phases of a claim whose call is formally started.
Late == {"started", "called", "prepared", "dispatched", "sent"}
Phases == {"idle", "claimed", "call_started"} \cup Late \cup Finished

Slots ==
  [activity : Activities \cup {None}, claim : Nat, recovered : BOOLEAN, at : Phases,
   obs : Observations \cup {None}]

Kinds == {"not_sent", "query", "fact", "late", "resolution", "abandon"}
RequestRows ==
  [operation : Activities, kind : Kinds, revision : Nat, obs : Observations \cup {None},
   running : BOOLEAN]

\* Requests that carry the observation they will be decided with.
Answered(q) ==
  q.kind \in {"late", "resolution"} \/ (q.running /\ q.kind # "abandon")

RowTypes ==
  /\ task \in [Activities -> Open \cup Outcomes \cup {"absent", "dead_lettered"}]
  /\ claim_generation \in [Activities -> Nat]
  /\ claimed_by \in [Activities -> Workers \cup {None}]
  /\ leased \subseteq Activities /\ call_started_at \subseteq Activities

SlotTypes ==
  /\ worker \in [Workers -> Slots]
  /\ \A w \in Workers : worker[w].at # "idle" => worker[w].activity # None
  /\ \A w \in Workers : worker[w].at = "sent" => worker[w].obs \in Observations

RequestTypes ==
  /\ requests \subseteq RequestRows
  /\ \A q \in requests : Answered(q) => q.obs \in Observations

KernelTypes ==
  TypeOK /\ RowTypes /\ SlotTypes /\ RequestTypes /\ sends \in [Activities -> Nat]

-----------------------------------------------------------------------------
(* The inductive invariant.                                                *)

\* Only the current claim of a row is leased, a row exists for what was
\* requested, and what is active was requested in this attempt.
Rows ==
  /\ RowsAgree
  /\ \A a \in leased : task[a] \in {"claimed", "call_started"}
  /\ \A a \in Activities : generation[a] = None => task[a] = "absent"
  /\ \A a \in active : generation[a] = retry_generation

\* Claims of one Activity are numbered, a new one with a new number.
ClaimsNumbered ==
  \A w \in Workers : worker[w].activity # None =>
     worker[w].claim <= claim_generation[worker[w].activity]
ClaimsDistinct ==
  \A w, v \in Workers :
     w # v /\ worker[w].activity # None /\ worker[w].activity = worker[v].activity =>
        worker[w].claim # worker[v].claim

\* Nothing was done for an Activity without a row.
NoRowNoWork ==
  \A a \in Activities : task[a] = "absent" =>
     a \notin call_started_at /\ \A w \in Workers : worker[w].activity # a

\* A current claim that did not find a started call knows that there was none.
FirstClaim ==
  \A w \in Workers :
     worker[w].at = "claimed" /\ ~worker[w].recovered
       /\ worker[w].claim = claim_generation[worker[w].activity]
     => worker[w].activity \notin call_started_at

\* A call leaves its mark before it is made.
MarkedFirst ==
  \A a \in Activities : a \notin call_started_at =>
     /\ sends[a] = 0
     /\ \A w \in Workers : worker[w].activity = a =>
          worker[w].at \notin Late \cup {"call_started"}

Claims == ClaimsNumbered /\ ClaimsDistinct /\ NoRowNoWork /\ FirstClaim /\ MarkedFirst

Unsent(a) == op_state[a] \in {"absent", "prepared"}
\* Handlers that make their call themselves and may make it only once.
Single == Activities \ (Effectful \cup Idempotent)

\* The journal knows of every send.
JournalKnows ==
  \A a \in Activities : Unsent(a) =>
     /\ a \in Effectful => sends[a] = 0
     /\ \A w \in Workers : worker[w].activity = a => worker[w].at # "dispatched"
WritesPrepared ==
  \A w \in Workers : worker[w].at \in {"prepared", "dispatched"} =>
     worker[w].activity \in Effectful

\* Whoever is about to make a call that must not be repeated is alone and the first.
DispatchAlone ==
  \A w \in Workers : worker[w].at = "dispatched" =>
     /\ sends[worker[w].activity] = 0
     /\ \A v \in Workers : v # w /\ worker[v].activity = worker[w].activity =>
          worker[v].at # "dispatched"
CallAlone ==
  \A w \in Workers :
     worker[w].at \in {"call_started", "started"} /\ worker[w].activity \in Single =>
       /\ sends[worker[w].activity] = 0
       /\ \A v \in Workers : v # w /\ worker[v].activity = worker[w].activity =>
            worker[v].at \notin {"call_started", "started"}

\* What is not formally started was not called.
StartedFirst ==
  \A a \in active \ started :
     /\ sends[a] = 0
     /\ \A w \in Workers : worker[w].activity = a => worker[w].at \notin Late

Calls ==
  AtMostOneSend /\ JournalKnows /\ WritesPrepared /\ DispatchAlone /\ CallAlone /\ StartedFirst

\* What the formal history alone says of failures and open questions.
Certainty ==
  /\ RunningIsCertain
  /\ \A a \in Activities : settled[a] = "failed" =>
       op_state[a] \in {"absent", "prepared", "not_applied"}
  /\ \A a \in awaiting : op_state[a] = "applied"

\* Only handlers that write through the effect service have operations.
WritesOnly == Operations \subseteq Effectful

KernelInv ==
  KernelTypes /\ RunInv /\ Rows /\ Claims /\ Calls /\ Certainty /\ WritesOnly

-----------------------------------------------------------------------------
(* What the kernel does to the Run.                                        *)

\* The commands of the aggregate as the kernel issues them: dispatches and
\* observations of a worker come under its lease, so the Activity is active.
FormalStep ==
  \/ LifecycleStep \/ ActivityStep
  \/ \E a \in Activities :
       \/ a \in Effectful /\ PrepareEffectOperation(a)
       \/ a \in active /\ StartEffectDispatch(a)
       \/ AbandonEffectResolution(a)
       \/ \E o \in Observations :
            \/ a \in active /\ RecordEffectObservation(a, o)
            \/ ResolveActivityOutcome(a, o) \/ SupplyActivityResult(a, o)

(* A worker that owns a lease works for an active Activity (_owned_task,   *)
(* authorize_activity_command).                                            *)
LEMMA OwnedActive ==
  ASSUME RowsAgree, SlotTypes, NEW w \in Workers, Owned(w)
  PROVE  worker[w].activity \in active /\ worker[w].activity \in Activities
<1>1. worker[w].activity \in Activities
  BY DEF Owned, SlotTypes, Slots
<1> QED BY Zenon, <1>1 DEF Owned, RowsAgree, Open

(* Planner and client steps are lifecycle commands or requests.            *)
LEMMA PlannerFormal ==
  ASSUME PlannerStep \/ ClientStep
  PROVE  FormalStep
<1>1. ASSUME NEW a \in Activities, PlanActivity(a)
      PROVE  FormalStep
  <2>1. Known(a) /\ RequestActivity(a, None)
    BY Zenon, <1>1 DEF PlanActivity
  <2>2. ActivityStep
    BY Zenon, <2>1 DEF ActivityStep
  <2> QED BY Zenon, <2>2 DEF FormalStep
<1>2. CASE PlanRun \/ Accepted(StartRun) \/ ClientStep
  <2>1. LifecycleStep
    BY Zenon, <1>2 DEF PlanRun, ClientStep, Accepted, LifecycleStep
  <2> QED BY Zenon, <2>1 DEF FormalStep
<1> QED BY Zenon, <1>1, <1>2 DEF PlannerStep

(* The steps of a claim that change the Run are commands of the aggregate. *)
LEMMA WorkerFormal ==
  ASSUME KernelTypes, RowsAgree, NEW w \in Workers,
         \/ SubmitCallStarted(w) \/ SubmitOutcome(w) \/ PrepareOperation(w)
         \/ DispatchOperation(w) \/ RecordObservation(w)
  PROVE  FormalStep \/ UNCHANGED runVars
<1> DEFINE a == worker[w].activity
<1>1. Owned(w)
  BY Zenon DEF SubmitCallStarted, SubmitOutcome, PrepareOperation, DispatchOperation,
               RecordObservation
<1>2. a \in active /\ a \in Activities
  BY Zenon, <1>1, OwnedActive DEF KernelTypes
<1>3. CASE SubmitCallStarted(w) \/ SubmitOutcome(w)
  <2>1. ActivityStep
    BY Zenon, <1>2, <1>3 DEF SubmitCallStarted, SubmitOutcome, ActivityStep
  <2> QED BY Zenon, <2>1 DEF FormalStep
<1>4. CASE PrepareOperation(w)
  BY Zenon, <1>2, <1>4 DEF PrepareOperation, FormalStep
<1>5. CASE DispatchOperation(w)
  BY Zenon, <1>2, <1>5 DEF DispatchOperation, FormalStep
<1>6. CASE RecordObservation(w)
  <2>1. worker[w].obs \in Observations
    BY Zenon, <1>6 DEF RecordObservation, At, KernelTypes, SlotTypes
  <2> QED BY Zenon, <1>2, <1>6, <2>1 DEF RecordObservation, FormalStep
<1> QED BY Zenon, <1>3, <1>4, <1>5, <1>6

(* A finished request is an abandonment or evidence on the operation it    *)
(* names (process_pending).                                                *)
LEMMA RequestFormal ==
  ASSUME KernelTypes, NEW q \in requests, FinishRequest(q)
  PROVE  FormalStep
<1> DEFINE a == q.operation
<1>1. a \in Activities /\ q.kind \in Kinds
  BY DEF KernelTypes, RequestTypes, RequestRows
<1>2. CASE q.kind = "abandon"
  <2>1. AbandonEffectResolution(a)
    BY <1>2 DEF FinishRequest, Resolve
  <2> QED BY Zenon, <1>1, <2>1 DEF FormalStep
<1>3. CASE q.kind # "abandon"
  <2>1. q.obs \in Observations
    BY Zenon, <1>3 DEF FinishRequest, KernelTypes, RequestTypes, Answered
  <2>2. ResolveActivityOutcome(a, q.obs) \/ SupplyActivityResult(a, q.obs)
    BY <1>3 DEF FinishRequest, Resolve
  <2> QED BY Zenon, <1>1, <2>1, <2>2 DEF FormalStep
<1> QED BY Zenon, <1>2, <1>3

(* Every kernel step is a command of the aggregate or leaves the Run alone *)
(* (the orchestrator's decide and append).                                 *)
LEMMA FormalSteps ==
  ASSUME KernelTypes, RowsAgree, [KernelNext]_vars
  PROVE  FormalStep \/ UNCHANGED runVars
<1>1. CASE WorkerStep \/ EffectCallStep
  <2>1. PICK w \in Workers :
          \/ UNCHANGED runVars
          \/ SubmitCallStarted(w) \/ SubmitOutcome(w) \/ PrepareOperation(w)
          \/ DispatchOperation(w) \/ RecordObservation(w)
    BY Zenon, <1>1
       DEF WorkerStep, EffectCallStep, ClaimTask, DeferTask, WorkerStops, ClassifyRecovery,
           MarkRowCallStarted, HandlerReturns, HandlerCalls, HandlerRefuses, ReadJournal,
           SendOperation, DeferObservation, LoseObservation
  <2> QED BY Zenon, <2>1, WorkerFormal
<1>2. CASE SettlementStep
  <2>1. PICK a \in Activities :
          \/ UNCHANGED runVars
          \/ FailActivity(a, "other") \/ MarkActivityOutcomeUnknown(a)
    BY Zenon, <1>2
       DEF SettlementStep, DeadLetterTask, FireTimer, ProcessFailure, ProcessTimeoutUnknown
  <2>2. ActivityStep \/ UNCHANGED runVars
    BY Zenon, <2>1 DEF ActivityStep
  <2> QED BY Zenon, <2>2 DEF FormalStep
<1>3. CASE ReconcilerStep
  <2>1. UNCHANGED runVars \/ \E q \in requests : FinishRequest(q)
    BY Zenon, <1>3
       DEF ReconcilerStep, SubmitRequest, ClaimRequest, RequestLapses, GiveUpRequest, FailRequest
  <2> QED BY Zenon, <2>1, RequestFormal
<1>4. CASE ClockStep \/ UNCHANGED vars
  BY Zenon, <1>4 DEF ClockStep, LeaseExpires, TimeoutPasses, vars
<1> QED BY Zenon, <1>1, <1>2, <1>3, <1>4, PlannerFormal DEF KernelNext

(* The commands the kernel issues are commands of the aggregate.           *)
LEMMA FormalNext ==
  ASSUME FormalStep \/ UNCHANGED runVars
  PROVE  [Next]_runVars
<1>1. CASE LifecycleStep \/ ActivityStep \/ UNCHANGED runVars
  BY Zenon, <1>1 DEF Next
<1>2. ASSUME ~LifecycleStep, ~ActivityStep, FormalStep
      PROVE  EffectStep
  BY Zenon, <1>2 DEF FormalStep, EffectStep
<1> QED BY Zenon, <1>1, <1>2 DEF Next

-----------------------------------------------------------------------------
(* What the kernel does to the worker slots and to the calls.              *)

callVars == <<claim_generation, call_started_at, sends>>

\* The slot keeps its claim and goes to another phase.
Moves(w, from, to) ==
  /\ worker[w].at = from /\ worker'[w].at = to
  /\ worker'[w].activity = worker[w].activity
  /\ worker'[w].claim = worker[w].claim
  /\ worker'[w].recovered = worker[w].recovered

Takes(w, a) ==
  /\ task[a] \in Open
  /\ claim_generation' = [claim_generation EXCEPT ![a] = @ + 1]
  /\ worker'[w].activity = a /\ worker'[w].claim = claim_generation[a] + 1
  /\ worker'[w].recovered = (a \in call_started_at) /\ worker'[w].at = "claimed"
  /\ UNCHANGED <<call_started_at, sends>>

Marks(w) ==
  LET a == worker[w].activity
  IN /\ Moves(w, "claimed", "call_started")
     /\ Owned(w) /\ ~RecoveryUnsafe(w)
     /\ call_started_at' = call_started_at \cup {a}
     /\ UNCHANGED <<claim_generation, sends>>

\* The external call, by the handler or through the effect service.
Sends(w) ==
  LET a == worker[w].activity
  IN /\ \/ Moves(w, "started", "called") /\ a \notin Effectful
        \/ Moves(w, "dispatched", "sent")
     /\ sends' = [sends EXCEPT ![a] = @ + 1]
     /\ UNCHANGED <<claim_generation, call_started_at>>

\* Everything else a claim does on its way.
Advances(w) ==
  /\ UNCHANGED callVars
  /\ \/ worker'[w] = Idle
     \/ \E from \in Phases \ {"idle"}, to \in Finished : Moves(w, from, to)
     \/ Moves(w, "call_started", "started") /\ worker[w].activity \in started'
     \/ Moves(w, "started", "prepared") /\ worker[w].activity \in Effectful
     \/ /\ Moves(w, "prepared", "dispatched")
        /\ Unsent(worker[w].activity) /\ op_state'[worker[w].activity] = "sending"

SlotStep(w) ==
  /\ \A v \in Workers \ {w} : worker'[v] = worker[v]
  /\ (\E a \in Activities : Takes(w, a)) \/ Marks(w) \/ Sends(w) \/ Advances(w)

(* A slot that changes its phase changes nothing else.                     *)
LEMMA GotoMoves ==
  ASSUME SlotTypes, NEW w \in Workers, NEW to \in Phases, Goto(w, to)
  PROVE  /\ Moves(w, worker[w].at, to)
         /\ \A v \in Workers \ {w} : worker'[v] = worker[v]
         /\ worker' \in [Workers -> Slots]
         /\ worker'[w].obs = worker[w].obs
BY ZenonT(40) DEF SlotTypes, Slots, Goto, Moves

(* A slot that gives up is idle and leaves the others alone.               *)
LEMMA StopMoves ==
  ASSUME SlotTypes, NEW w \in Workers, worker' = [worker EXCEPT ![w] = Idle]
  PROVE  /\ worker'[w] = Idle /\ \A v \in Workers \ {w} : worker'[v] = worker[v]
         /\ worker' \in [Workers -> Slots]
<1>1. Idle \in Slots
  BY DEF Idle, Slots, Phases
<1> QED BY <1>1 DEF SlotTypes

(* A slot that gives up its observation goes to its outcome.               *)
LEMMA ObservedMoves ==
  ASSUME SlotTypes, NEW w \in Workers, NEW to \in Phases, At(w, "sent"),
         worker' = [worker EXCEPT ![w].obs = None, ![w].at = to]
  PROVE  /\ Moves(w, "sent", to)
         /\ \A v \in Workers \ {w} : worker'[v] = worker[v]
         /\ worker' \in [Workers -> Slots]
BY ZenonT(40) DEF SlotTypes, Slots, At, Moves

(* The send gives the slot an observation of the right type.               *)
LEMMA SendMoves ==
  ASSUME SlotTypes, NEW w \in Workers, SendOperation(w)
  PROVE  /\ Moves(w, "dispatched", "sent")
         /\ \A v \in Workers \ {w} : worker'[v] = worker[v]
         /\ worker' \in [Workers -> Slots]
         /\ worker'[w].obs \in Observations
<1>1. PICK e \in Fresh(worker[w].activity), r \in Replies :
        worker' = [worker EXCEPT ![w].at = "sent",
                     ![w].obs = [receipt |-> e, state |-> r[1], source |-> "observed",
                                 result |-> r[2]]]
  BY Zenon DEF SendOperation
<1> DEFINE o == [receipt |-> e, state |-> r[1], source |-> "observed", result |-> r[2]]
<1>2. e \in Receipts
  BY Zenon DEF Fresh
<1>3. r[1] \in {"applied", "unknown"} /\ r[2] \in Results \cup {None}
  BY DEF Replies
<1>4. o \in Observations
  BY <1>2, <1>3 DEF Observations
<1>5. worker[w].at = "dispatched" /\ worker \in [Workers -> Slots]
  BY Zenon DEF SendOperation, At, SlotTypes
<1> HIDE DEF o
<1> QED BY ZenonT(40), <1>1, <1>4, <1>5 DEF Moves, Slots, Phases, Late, o

(* A claim that is given up or submitted leaves its slot idle.             *)
LEMMA DropSlots ==
  ASSUME SlotTypes, NEW w \in Workers,
         \/ \E consume \in BOOLEAN : DeferTask(w, consume)
         \/ WorkerStops(w) \/ SubmitOutcome(w)
  PROVE  SlotStep(w) /\ SlotTypes'
<1>1. worker' = [worker EXCEPT ![w] = Idle] /\ UNCHANGED callVars
  BY Zenon DEF DeferTask, WorkerStops, SubmitOutcome, WriteCriticalRecords, taskVars, callVars
<1>2. /\ worker'[w] = Idle /\ \A v \in Workers \ {w} : worker'[v] = worker[v]
      /\ worker' \in [Workers -> Slots]
  BY Zenon, <1>1, StopMoves
<1>3. Idle.at = "idle"
  BY DEF Idle
<1>4. SlotTypes'
  BY Zenon, <1>2, <1>3 DEF SlotTypes
<1> QED BY Zenon, <1>1, <1>2, <1>4 DEF SlotStep, Advances

(* A phase that is left for another one keeps the types.                   *)
LEMMA MoveTypes ==
  ASSUME SlotTypes, NEW w \in Workers, NEW from \in Phases \ {"idle"}, NEW to \in Phases \ {"sent"},
         Moves(w, from, to), \A v \in Workers \ {w} : worker'[v] = worker[v],
         worker' \in [Workers -> Slots]
  PROVE  SlotTypes'
BY Zenon DEF SlotTypes, Moves

(* The steps of a claim that end in a decision.                            *)
LEMMA FinishSlots ==
  ASSUME SlotTypes, NEW w \in Workers,
         \/ ClassifyRecovery(w) \/ HandlerRefuses(w) \/ ReadJournal(w)
         \/ \E outcome \in Finished : HandlerReturns(w, outcome)
         \/ RecordObservation(w) \/ DeferObservation(w) \/ LoseObservation(w)
  PROVE  SlotStep(w) /\ SlotTypes'
<1>1. UNCHANGED callVars
  BY Zenon DEF ClassifyRecovery, HandlerRefuses, ReadJournal, HandlerReturns, RecordObservation,
               DeferObservation, LoseObservation, taskVars, callVars
<1>2. \E from \in Phases \ {"idle"}, to \in Finished :
        /\ Moves(w, from, to) /\ \A v \in Workers \ {w} : worker'[v] = worker[v]
        /\ worker' \in [Workers -> Slots]
  <2>0. Finished \subseteq Phases /\ {"succeeded", "failed", "unknown"} \subseteq Finished
          /\ \A a : JournalOutcome(a) \in Finished
    BY Zenon DEF Finished, Phases, JournalOutcome
  <2>1. CASE RecordObservation(w) \/ DeferObservation(w) \/ LoseObservation(w)
    <3>1. PICK to \in Finished :
            At(w, "sent") /\ worker' = [worker EXCEPT ![w].obs = None, ![w].at = to]
      BY Zenon, <2>1, <2>0 DEF RecordObservation, DeferObservation, LoseObservation, Finished
    <3>2. "sent" \in Phases \ {"idle"}
      BY Zenon DEF Phases, Late
    <3> QED BY Zenon, <2>0, <3>1, <3>2, ObservedMoves
  <2>2. CASE \/ ClassifyRecovery(w) \/ HandlerRefuses(w) \/ ReadJournal(w)
             \/ \E outcome \in Finished : HandlerReturns(w, outcome)
    <3>1. PICK to \in Finished : Goto(w, to)
      BY Zenon, <2>2, <2>0 DEF ClassifyRecovery, HandlerRefuses, ReadJournal, HandlerReturns
    <3>2. worker[w].at \in Phases \ {"idle"}
      BY Zenon, <2>2 DEF ClassifyRecovery, HandlerRefuses, ReadJournal, HandlerReturns, At,
                         Phases, Late
    <3> QED BY Zenon, <2>0, <3>1, <3>2, GotoMoves
  <2> QED BY Zenon, <2>1, <2>2
<1>3. Finished \subseteq Phases \ {"sent"}
  BY Zenon DEF Finished, Phases
<1>4. SlotTypes'
  BY Zenon, <1>2, <1>3, MoveTypes
<1> QED BY Zenon, <1>1, <1>2, <1>4 DEF SlotStep, Advances

(* The steps that take a claim to its call.                                *)
LEMMA CallSlots ==
  ASSUME SlotTypes, NEW w \in Workers,
         \/ MarkRowCallStarted(w) \/ SubmitCallStarted(w) \/ HandlerCalls(w)
         \/ PrepareOperation(w)
  PROVE  SlotStep(w) /\ SlotTypes'
<1> USE DEF callVars, taskVars
<1>0. {"claimed", "call_started", "started", "called", "prepared"}
        \subseteq Phases \ {"idle", "sent"}
  BY Zenon DEF Phases, Late
<1>1. CASE MarkRowCallStarted(w)
  <2>1. Goto(w, "call_started") /\ worker[w].at = "claimed"
    BY Zenon, <1>1 DEF MarkRowCallStarted, At
  <2>2. /\ Moves(w, "claimed", "call_started") /\ \A v \in Workers \ {w} : worker'[v] = worker[v]
        /\ worker' \in [Workers -> Slots]
    BY Zenon, <1>0, <2>1, GotoMoves
  <2>3. Marks(w)
    BY Zenon, <1>1, <2>2 DEF MarkRowCallStarted, Marks
  <2> QED BY Zenon, <1>0, <2>2, <2>3, MoveTypes DEF SlotStep
<1>2. CASE SubmitCallStarted(w)
  <2>1. Goto(w, "started") /\ worker[w].at = "call_started" /\ UNCHANGED callVars
          /\ worker[w].activity \in started'
    BY Zenon, <1>2 DEF SubmitCallStarted, At, MarkActivityCallStarted
  <2>2. /\ Moves(w, "call_started", "started") /\ \A v \in Workers \ {w} : worker'[v] = worker[v]
        /\ worker' \in [Workers -> Slots]
    BY Zenon, <1>0, <2>1, GotoMoves
  <2> QED BY Zenon, <1>0, <2>1, <2>2, MoveTypes DEF SlotStep, Advances
<1>3. CASE HandlerCalls(w)
  <2>1. Goto(w, "called") /\ worker[w].at = "started"
    BY Zenon, <1>3 DEF HandlerCalls, At
  <2>2. /\ Moves(w, "started", "called") /\ \A v \in Workers \ {w} : worker'[v] = worker[v]
        /\ worker' \in [Workers -> Slots]
    BY Zenon, <1>0, <2>1, GotoMoves
  <2>3. Sends(w)
    BY Zenon, <1>3, <2>2 DEF HandlerCalls, Sends
  <2> QED BY Zenon, <1>0, <2>2, <2>3, MoveTypes DEF SlotStep
<1>4. CASE PrepareOperation(w)
  <2>1. Goto(w, "prepared") /\ worker[w].at = "started" /\ UNCHANGED callVars
          /\ worker[w].activity \in Effectful
    BY Zenon, <1>4 DEF PrepareOperation, At
  <2>2. /\ Moves(w, "started", "prepared") /\ \A v \in Workers \ {w} : worker'[v] = worker[v]
        /\ worker' \in [Workers -> Slots]
    BY Zenon, <1>0, <2>1, GotoMoves
  <2> QED BY Zenon, <1>0, <2>1, <2>2, MoveTypes DEF SlotStep, Advances
<1> QED BY Zenon, <1>1, <1>2, <1>3, <1>4

(* Dispatch and send of an operation.                                      *)
LEMMA SendSlots ==
  ASSUME KernelTypes, NEW w \in Workers, DispatchOperation(w) \/ SendOperation(w)
  PROVE  SlotStep(w) /\ SlotTypes'
<1>0. SlotTypes /\ {"prepared", "dispatched"} \subseteq Phases \ {"idle", "sent"}
  BY Zenon DEF KernelTypes, Phases, Late
<1>1. CASE DispatchOperation(w)
  <2>1. /\ Goto(w, "dispatched") /\ worker[w].at = "prepared" /\ UNCHANGED callVars
        /\ StartEffectDispatch(worker[w].activity)
    BY Zenon, <1>1 DEF DispatchOperation, At, callVars, taskVars
  <2>2. /\ Moves(w, "prepared", "dispatched") /\ \A v \in Workers \ {w} : worker'[v] = worker[v]
        /\ worker' \in [Workers -> Slots]
    BY Zenon, <1>0, <2>1, GotoMoves
  <2>3. worker[w].activity \in Activities
    BY <1>0, <2>1, NoneAssumption DEF SlotTypes, Slots
  <2>4. Unsent(worker[w].activity) /\ op_state'[worker[w].activity] = "sending"
    BY Zenon, <2>1, <2>3 DEF StartEffectDispatch, CanStartDispatch, Unsent, KernelTypes, TypeOK
  <2> QED BY Zenon, <1>0, <2>1, <2>2, <2>4, MoveTypes DEF SlotStep, Advances
<1>2. CASE SendOperation(w)
  <2>1. /\ Moves(w, "dispatched", "sent") /\ \A v \in Workers \ {w} : worker'[v] = worker[v]
        /\ worker' \in [Workers -> Slots] /\ worker'[w].obs \in Observations
    BY Zenon, <1>0, <1>2, SendMoves
  <2>2. SlotTypes'
    BY Zenon, <1>0, <2>1 DEF SlotTypes, Moves
  <2>3. Sends(w)
    BY Zenon, <1>2, <2>1 DEF SendOperation, Sends, taskVars
  <2> QED BY Zenon, <2>1, <2>2, <2>3 DEF SlotStep
<1> QED BY Zenon, <1>1, <1>2

(* A claim.                                                                *)
LEMMA TakeSlots ==
  ASSUME KernelTypes, NEW w \in Workers, NEW a \in Activities, ClaimTask(w, a)
  PROVE  SlotStep(w) /\ SlotTypes'
<1> DEFINE slot == [activity |-> a, claim |-> claim_generation[a] + 1,
                    recovered |-> a \in call_started_at, at |-> "claimed", obs |-> None]
<1>1. worker' = [worker EXCEPT ![w] = slot] /\ worker \in [Workers -> Slots]
  BY Zenon DEF ClaimTask, KernelTypes, SlotTypes
<1>2. slot \in Slots
  BY DEF KernelTypes, RowTypes, Slots, Phases
<1>3. /\ slot.activity = a /\ slot.claim = claim_generation[a] + 1 /\ slot.at = "claimed"
      /\ slot.recovered = (a \in call_started_at)
  BY Zenon
<1> HIDE DEF slot
<1>4. /\ worker'[w] = slot /\ \A v \in Workers \ {w} : worker'[v] = worker[v]
      /\ worker' \in [Workers -> Slots]
  BY Zenon, <1>1, <1>2
<1>5. SlotTypes'
  BY Zenon, <1>3, <1>4, NoneAssumption DEF KernelTypes, SlotTypes
<1>6. task[a] \in Open
  BY Zenon DEF ClaimTask, Claimable, Open
<1>7. Takes(w, a)
  BY Zenon, <1>3, <1>4, <1>6 DEF ClaimTask, Takes
<1> QED BY Zenon, <1>4, <1>5, <1>7 DEF SlotStep

(* Every kernel step leaves the slots and the calls alone or moves one     *)
(* slot (the phases of activity_worker and effect_service.invoke).         *)
LEMMA SlotSteps ==
  ASSUME KernelTypes, [KernelNext]_vars
  PROVE  /\ UNCHANGED <<worker, callVars>> \/ \E w \in Workers : SlotStep(w)
         /\ SlotTypes'
<1> USE DEF callVars, taskVars
<1>0. SlotTypes
  BY Zenon DEF KernelTypes
<1>1. CASE WorkerStep \/ EffectCallStep
  <2>1. PICK w \in Workers :
          \/ \E a \in Activities : ClaimTask(w, a)
          \/ \/ \E consume \in BOOLEAN : DeferTask(w, consume)
             \/ WorkerStops(w) \/ SubmitOutcome(w)
          \/ \/ ClassifyRecovery(w) \/ HandlerRefuses(w) \/ ReadJournal(w)
             \/ \E outcome \in Finished : HandlerReturns(w, outcome)
             \/ RecordObservation(w) \/ DeferObservation(w) \/ LoseObservation(w)
          \/ \/ MarkRowCallStarted(w) \/ SubmitCallStarted(w) \/ HandlerCalls(w)
             \/ PrepareOperation(w)
          \/ DispatchOperation(w) \/ SendOperation(w)
    BY Zenon, <1>1 DEF WorkerStep, EffectCallStep, Finished
  <2> QED BY Zenon, <1>0, <2>1, TakeSlots, DropSlots, FinishSlots, CallSlots, SendSlots
<1>2. ASSUME UNCHANGED <<worker, callVars>>
      PROVE  SlotTypes'
  BY Zenon, <1>0, <1>2 DEF SlotTypes
<1>3. CASE PlannerStep \/ ClientStep
  <2>1. UNCHANGED <<worker, callVars>>
    BY Zenon, <1>3 DEF PlannerStep, ClientStep, PlanRun, PlanActivity, Accepted,
                       WriteCriticalRecords
  <2> QED BY Zenon, <1>2, <2>1
<1>4. CASE SettlementStep \/ ClockStep
  <2>1. UNCHANGED <<worker, callVars>>
    BY Zenon, <1>4 DEF SettlementStep, ClockStep, DeadLetterTask, FireTimer, ProcessFailure,
                       ProcessTimeoutUnknown, LeaseExpires, TimeoutPasses, WriteCriticalRecords
  <2> QED BY Zenon, <1>2, <2>1
<1>5. CASE ReconcilerStep \/ UNCHANGED vars
  <2>1. UNCHANGED <<worker, callVars>>
    BY Zenon, <1>5 DEF ReconcilerStep, SubmitRequest, ClaimRequest, RequestLapses, GiveUpRequest,
                       FinishRequest, FailRequest, WriteCriticalRecords, vars, kernelVars
  <2> QED BY Zenon, <1>2, <2>1
<1> QED BY Zenon, <1>1, <1>3, <1>4, <1>5 DEF KernelNext

-----------------------------------------------------------------------------
(* What the kernel does to the task rows.                                  *)

rowVars == <<task, claimed_by, leased>>

\* The commands whose transaction settles or closes task rows.
SettlingCommand ==
  \/ LifecycleStep
  \/ \E a \in Activities :
       \/ CompleteActivity(a) \/ MarkActivityOutcomeUnknown(a)
       \/ \E code \in {"drift", "other"} : FailActivity(a, code)
       \/ AbandonEffectResolution(a)
       \/ \E o \in Observations : EvidenceStep(a, o)

\* Claim, deferral, call mark and dead letter: an open row stays open or is
\* parked, and only a claimed row is leased.
RowMoves(a, to) ==
  /\ UNCHANGED runVars
  /\ task[a] \in Open /\ to \in Open \cup {"dead_lettered"}
  /\ task' = [task EXCEPT ![a] = to]
  /\ leased' \subseteq leased \cup {a}
  /\ a \in leased' => to \in {"claimed", "call_started"}
  /\ claimed_by' \in [Activities -> Workers \cup {None}]

RowStep ==
  \/ UNCHANGED <<rowVars, active, settled, generation, retry_generation>>
  \/ UNCHANGED <<task, claimed_by, runVars>> /\ leased' \subseteq leased
  \/ \E a \in Activities : PlanActivity(a)
  \/ \E a \in Activities, to \in Open \cup {"dead_lettered"} : RowMoves(a, to)
  \/ SettlingCommand /\ WriteCriticalRecords

(* Claims, deferrals, call marks and dead letters move a row.              *)
LEMMA TaskMoves ==
  ASSUME KernelTypes, NEW a \in Activities,
         \/ DeadLetterTask(a)
         \/ \E w \in Workers :
              \/ ClaimTask(w, a)
              \/ /\ worker[w].activity = a
                 /\ MarkRowCallStarted(w) \/ \E consume \in BOOLEAN : DeferTask(w, consume)
  PROVE  RowStep
<1>0. claimed_by \in [Activities -> Workers \cup {None}]
  BY Zenon DEF KernelTypes, RowTypes
<1>1. CASE DeadLetterTask(a)
  <2>1. RowMoves(a, "dead_lettered")
    BY Zenon, <1>0, <1>1 DEF DeadLetterTask, Claimable, RowMoves, Open
  <2> QED BY Zenon, <2>1 DEF RowStep
<1>2. ASSUME NEW w \in Workers, ClaimTask(w, a)
      PROVE  RowStep
  <2>1. RowMoves(a, "claimed")
    BY Zenon, <1>0, <1>2 DEF ClaimTask, Claimable, RowMoves, Open
  <2> QED BY Zenon, <2>1 DEF RowStep, Open
<1>3. ASSUME NEW w \in Workers, worker[w].activity = a, MarkRowCallStarted(w)
      PROVE  RowStep
  <2>1. RowMoves(a, "call_started")
    BY Zenon, <1>0, <1>3 DEF MarkRowCallStarted, RowMoves, Open
  <2> QED BY Zenon, <2>1 DEF RowStep, Open
<1>4. ASSUME NEW w \in Workers, worker[w].activity = a, NEW consume \in BOOLEAN,
             DeferTask(w, consume)
      PROVE  RowStep
  <2>1. RowMoves(a, "pending")
    BY Zenon, <1>0, <1>4 DEF DeferTask, Owned, RowMoves, Open
  <2> QED BY Zenon, <2>1 DEF RowStep, Open
<1> QED BY Zenon, <1>1, <1>2, <1>3, <1>4

(* The command of a finished request settles rows or leaves them alone.    *)
LEMMA RequestSettles ==
  ASSUME KernelTypes, NEW q \in requests, FinishRequest(q)
  PROVE  SettlingCommand /\ WriteCriticalRecords
<1> DEFINE a == q.operation
<1>1. a \in Activities /\ q.kind \in Kinds
  BY DEF KernelTypes, RequestTypes, RequestRows
<1>2. CASE q.kind = "abandon"
  <2>1. AbandonEffectResolution(a)
    BY <1>2 DEF FinishRequest, Resolve
  <2> QED BY Zenon, <1>1, <2>1 DEF SettlingCommand, FinishRequest
<1>3. CASE q.kind # "abandon"
  <2>1. q.obs \in Observations
    BY Zenon, <1>3 DEF FinishRequest, KernelTypes, RequestTypes, Answered
  <2>2. ResolveActivityOutcome(a, q.obs) \/ SupplyActivityResult(a, q.obs)
    BY <1>3 DEF FinishRequest, Resolve
  <2>3. EvidenceStep(a, q.obs)
    BY Zenon, <2>2 DEF EvidenceStep, ResolveActivityOutcome, SupplyActivityResult
  <2> QED BY Zenon, <1>1, <2>1, <2>3 DEF SettlingCommand, FinishRequest
<1> QED BY Zenon, <1>2, <1>3

(* Every kernel step treats the rows in one of these ways.                 *)
LEMMA RowSteps ==
  ASSUME KernelTypes, [KernelNext]_vars
  PROVE  RowStep
<1> USE DEF rowVars, taskVars
<1>1. CASE PlannerStep \/ ClientStep
  BY Zenon, <1>1
     DEF PlannerStep, ClientStep, PlanRun, Accepted, RowStep, SettlingCommand, LifecycleStep
<1>2. CASE WorkerStep
  <2>1. PICK w \in Workers :
          \/ \E a \in Activities : ClaimTask(w, a)
          \/ MarkRowCallStarted(w) \/ \E consume \in BOOLEAN : DeferTask(w, consume)
          \/ SubmitOutcome(w)
          \/ UNCHANGED <<rowVars, active, settled, generation, retry_generation>>
    BY Zenon, <1>2
       DEF WorkerStep, WorkerStops, ClassifyRecovery, SubmitCallStarted, HandlerReturns,
           HandlerCalls, HandlerRefuses, MarkActivityCallStarted, runVars, lifecycleVars,
           activityVars
  <2>2. CASE MarkRowCallStarted(w) \/ \E consume \in BOOLEAN : DeferTask(w, consume)
    <3>1. worker[w].activity \in Activities
      BY Zenon, <2>2 DEF MarkRowCallStarted, DeferTask, Owned, KernelTypes, SlotTypes, Slots
    <3> QED BY Zenon, <2>2, <3>1, TaskMoves
  <2>3. CASE SubmitOutcome(w)
    <3>1. worker[w].activity \in Activities
      BY Zenon, <2>3 DEF SubmitOutcome, Owned, KernelTypes, SlotTypes, Slots
    <3> QED BY Zenon, <2>3, <3>1 DEF SubmitOutcome, RowStep, SettlingCommand
  <2> QED BY Zenon, <2>1, <2>2, <2>3, TaskMoves DEF RowStep
<1>3. CASE EffectCallStep
  <2>1. UNCHANGED <<rowVars, active, settled, generation, retry_generation>>
    BY Zenon, <1>3
       DEF EffectCallStep, ReadJournal, PrepareOperation, DispatchOperation, SendOperation,
           RecordObservation, DeferObservation, LoseObservation, PrepareEffectOperation,
           StartEffectDispatch,
           RecordEffectObservation, RecordConflict, runVars, lifecycleVars, activityVars
  <2> QED BY Zenon, <2>1 DEF RowStep
<1>4. CASE SettlementStep
  <2>1. PICK a \in Activities :
          \/ DeadLetterTask(a) \/ UNCHANGED <<rowVars, runVars>>
          \/ FailActivity(a, "other") /\ WriteCriticalRecords
          \/ MarkActivityOutcomeUnknown(a) /\ WriteCriticalRecords
    BY Zenon, <1>4 DEF SettlementStep, FireTimer, ProcessFailure, ProcessTimeoutUnknown
  <2> QED BY Zenon, <2>1, TaskMoves DEF RowStep, SettlingCommand, runVars, lifecycleVars,
                                       activityVars
<1>5. CASE ReconcilerStep
  <2>1. UNCHANGED <<rowVars, runVars>> \/ \E q \in requests : FinishRequest(q)
    BY Zenon, <1>5
       DEF ReconcilerStep, SubmitRequest, ClaimRequest, RequestLapses, GiveUpRequest, FailRequest
  <2> QED BY Zenon, <2>1, RequestSettles DEF RowStep, runVars, lifecycleVars, activityVars
<1>6. CASE ClockStep
  BY Zenon, <1>6 DEF ClockStep, LeaseExpires, TimeoutPasses, RowStep
<1>7. CASE UNCHANGED vars
  BY Zenon, <1>7 DEF vars, kernelVars, runVars, lifecycleVars, activityVars, RowStep
<1> QED BY Zenon, <1>1, <1>2, <1>3, <1>4, <1>5, <1>6, <1>7 DEF KernelNext

(* A settling command requests nothing, every Activity it takes out of the *)
(* active set is settled or its Run ends, and only an idle Run starts      *)
(* another attempt.                                                        *)
LEMMA SettlingFrame ==
  ASSUME RunInv, SettlingCommand
  PROVE  /\ active' \subseteq active
         /\ \A a \in active \ active' :
              settled'[a] # settled[a] \/ (Live /\ status' \in Terminal)
         /\ generation' = generation
         /\ retry_generation' = retry_generation \/ active' = {}
<1> USE DEF activityVars, lifecycleVars, Live
<1>0. TypeOK /\ NoActivityLost
  BY Zenon DEF RunInv
<1>1. CASE LifecycleStep
  BY Zenon, <1>1
     DEF LifecycleStep, CreateRun, StartRun, WaitRun, ResumeRun, CanRetryRun, RetryRun, CompleteRun,
         FailRunRetryable, FailRun, CancelRun, RunEnded, RunIs, Terminal
<1>2. ASSUME NEW a \in Activities, NEW x \in Outcomes, NEW c,
             ActivitySettled(a, x, c), UNCHANGED retry_generation
      PROVE  /\ active' \subseteq active
             /\ \A b \in active \ active' : settled'[b] # settled[b]
             /\ generation' = generation /\ retry_generation' = retry_generation
  <2>1. a \in active => settled[a] = "none" /\ settled'[a] = x /\ x # "none"
    BY Zenon, <1>0, <1>2 DEF ActivitySettled, NoActivityLost, TypeOK, Outcomes
  <2> QED BY Zenon, <1>2, <2>1 DEF ActivitySettled
<1>3. ASSUME NEW a \in Activities,
             \/ CompleteActivity(a) \/ MarkActivityOutcomeUnknown(a)
             \/ \E code \in {"drift", "other"} : FailActivity(a, code)
      PROVE  \E x \in Outcomes, c \in {"none", "drift", "other"} :
               ActivitySettled(a, x, c) /\ UNCHANGED retry_generation
  BY Zenon, <1>3 DEF CompleteActivity, MarkActivityOutcomeUnknown, FailActivity, Outcomes
<1>4. ASSUME NEW a \in Activities, NEW o \in Observations, EvidenceStep(a, o)
      PROVE  UNCHANGED retry_generation /\ (UNCHANGED activityVars
               \/ \E x \in Outcomes, c \in {"none", "other"} : ActivitySettled(a, x, c))
  <2>1. EvidenceSettles(a, o)
    BY Zenon, <1>0, <1>4, EvidenceOutcome
  <2>2. UNCHANGED retry_generation
    BY Zenon, <1>4 DEF EvidenceStep, RecordConflict, ApplyEvidence
  <2> QED BY Zenon, <2>1, <2>2 DEF EvidenceSettles, Outcomes
<1>5. ASSUME NEW a \in Activities, AbandonEffectResolution(a)
      PROVE  UNCHANGED <<activityVars, retry_generation>>
  BY Zenon, <1>5 DEF AbandonEffectResolution
<1>6. CASE UNCHANGED <<activityVars, retry_generation>>
  BY Zenon, <1>6
<1> QED BY Zenon, <1>1, <1>2, <1>3, <1>4, <1>5, <1>6 DEF SettlingCommand

(* The transaction of a settling command keeps rows and history in step    *)
(* (_write_critical_records).                                              *)
LEMMA SettlingRows ==
  ASSUME KernelTypes, RunInv, RunInv', KeepsSettlements, Rows,
         SettlingCommand, WriteCriticalRecords
  PROVE  /\ Rows' /\ RowTypes'
         /\ \A a \in Activities : task'[a] = "absent" => task[a] = "absent"
<1>0. /\ active' \subseteq active
      /\ \A a \in active \ active' : settled'[a] # settled[a] \/ (Live /\ status' \in Terminal)
      /\ generation' = generation
      /\ retry_generation' = retry_generation \/ active' = {}
  BY Zenon, SettlingFrame
<1>1. /\ task' = [a \in Activities |-> TaskAfter(a)]
      /\ claimed_by' = [a \in Activities |-> IF a \in SettledNow \cup ClosedNow
                                             THEN None ELSE claimed_by[a]]
      /\ leased' = leased \ (SettledNow \cup ClosedNow)
      /\ UNCHANGED <<claim_generation, call_started_at>>
      /\ \A a \in SettledNow : Settleable(a)
  BY Zenon DEF WriteCriticalRecords
<1>2. /\ settled' \in [Activities -> Outcomes \cup {"none"}]
      /\ settled \in [Activities -> Outcomes \cup {"none"}] /\ active \subseteq Activities
      /\ \A a \in active' : settled'[a] = "none"
      /\ \A a \in active : settled[a] = "none"
      /\ status' \in Terminal => active' = {}
  BY Zenon DEF RunInv, TypeOK, NoActivityLost, Live
<1>3. \A a \in SettledNow : settled'[a] \in Outcomes
  BY Zenon, <1>2 DEF SettledNow, KeepsSettlements, Outcomes
<1>4. /\ Outcomes \cap (Open \cup {"absent", "dead_lettered", "none"}) = {}
      /\ "cancelled" \in Outcomes /\ "unknown" \in Outcomes
  BY DEF Outcomes, Open
<1>5. /\ \A a \in SettledNow : task'[a] = settled'[a] /\ task[a] # "absent"
      /\ \A a \in ClosedNow \ SettledNow : task'[a] = "cancelled"
      /\ \A a \in Activities \ (SettledNow \cup ClosedNow) : task'[a] = task[a]
      /\ \A a \in SettledNow \cup ClosedNow : task'[a] \in Outcomes
  <2>1. SettledNow \subseteq Activities /\ ClosedNow \subseteq Activities
    BY Zenon DEF SettledNow, ClosedNow
  <2>2. \A a \in SettledNow : task[a] # "absent"
    BY Zenon, <1>1, <1>4, <2>1 DEF Settleable, Open
  <2> QED BY Zenon, <1>1, <1>3, <1>4, <2>1, <2>2 DEF TaskAfter
<1>6. \A a \in Activities : a \in SettledNow <=> settled'[a] # settled[a]
  BY Zenon DEF SettledNow
<1>7. \A a \in ClosedNow : Live /\ status' \in Terminal /\ task[a] \in Open
  BY Zenon DEF ClosedNow
<1>8. \A a \in Activities : Live /\ status' \in Terminal /\ task[a] \in Open => a \in ClosedNow
  BY Zenon DEF ClosedNow
<1>9. RowsAgree'
  <2> SUFFICES ASSUME NEW a \in Activities
               PROVE  /\ a \in active' => task'[a] \in Open \cup {"dead_lettered"}
                      /\ settled'[a] # "none" => task'[a] = settled'[a]
                      /\ task'[a] \in Open => a \in active'
    BY Zenon DEF RowsAgree
  <2>0. /\ a \in active => task[a] \in Open \cup {"dead_lettered"}
        /\ settled[a] # "none" => task[a] = settled[a]
        /\ task[a] \in Open => a \in active
    BY Zenon DEF Rows, RowsAgree
  <2>1. ASSUME a \in active'
        PROVE  task'[a] \in Open \cup {"dead_lettered"}
    <3>1. a \notin SettledNow /\ a \notin ClosedNow
      BY Zenon, <2>1, <1>0, <1>2, <1>6, <1>7
    <3> QED BY Zenon, <2>0, <2>1, <3>1, <1>0, <1>5
  <2>2. ASSUME settled'[a] # "none"
        PROVE  task'[a] = settled'[a]
    <3>1. CASE a \in SettledNow
      BY Zenon, <3>1, <1>5
    <3>2. CASE a \notin SettledNow
      <4>1. settled[a] = settled'[a] /\ task[a] = settled[a] /\ task[a] \in Outcomes
        BY Zenon, <2>0, <2>2, <3>2, <1>2, <1>6
      <4>2. a \notin ClosedNow
        BY Zenon, <4>1, <1>4, <1>7
      <4> QED BY Zenon, <4>1, <4>2, <3>2, <1>5
    <3> QED BY Zenon, <3>1, <3>2
  <2>3. ASSUME task'[a] \in Open
        PROVE  a \in active'
    <3>1. a \notin SettledNow \cup ClosedNow
      BY Zenon, <2>3, <1>4, <1>5
    <3>2. task[a] \in Open /\ a \in active
      BY Zenon, <2>0, <2>3, <3>1, <1>5
    <3> QED BY Zenon, <3>1, <3>2, <1>0, <1>6, <1>8
  <2> QED BY Zenon, <2>1, <2>2, <2>3
<1>10. Rows'
  <2>1. \A a \in leased' : task'[a] \in {"claimed", "call_started"}
    BY Zenon, <1>1, <1>5 DEF Rows, KernelTypes, RowTypes
  <2>2. \A a \in Activities : generation'[a] = None => task'[a] = "absent"
    BY Zenon, <1>0, <1>4, <1>5, <1>7 DEF Rows, Open
  <2>3. \A a \in active' : generation'[a] = retry_generation'
    BY Zenon, <1>0 DEF Rows
  <2> QED BY Zenon, <1>9, <2>1, <2>2, <2>3 DEF Rows
<1>11. RowTypes'
  <2>1. task' \in [Activities -> Open \cup Outcomes \cup {"absent", "dead_lettered"}]
    <3>1. \A a \in Activities : task'[a] \in Open \cup Outcomes \cup {"absent", "dead_lettered"}
      BY Zenon, <1>5 DEF KernelTypes, RowTypes
    <3>2. \A a \in Activities : task'[a] = TaskAfter(a)
      BY Zenon, <1>1
    <3> QED BY Zenon, <3>1, <3>2, <1>1
  <2>2. claimed_by' \in [Activities -> Workers \cup {None}]
    BY Zenon, <1>1 DEF KernelTypes, RowTypes
  <2> QED BY Zenon, <1>1, <2>1, <2>2 DEF KernelTypes, RowTypes
<1>12. \A a \in Activities : task'[a] = "absent" => task[a] = "absent"
  BY Zenon, <1>4, <1>5
<1> QED BY Zenon, <1>10, <1>11, <1>12

(* An Activity that is requested has no row yet.                           *)
LEMMA PlannedIsNew ==
  ASSUME RunInv, Rows, NEW a \in Activities, PlanActivity(a)
  PROVE  generation[a] = None /\ task[a] = "absent" /\ settled[a] = "none"
<1>1. Live /\ a \notin active /\ settled[a] = "none"
  BY Zenon DEF PlanActivity, RequestActivity, Live, Terminal
<1> QED BY Zenon, <1>1 DEF RunInv, NoActivityLost, Rows

(* Every step keeps rows and history in step, and no row disappears.       *)
LEMMA StepRows ==
  ASSUME KernelTypes, RunInv, RunInv', KeepsSettlements, Rows, RowStep
  PROVE  /\ Rows'
         /\ task' \in [Activities -> Open \cup Outcomes \cup {"absent", "dead_lettered"}]
         /\ claimed_by' \in [Activities -> Workers \cup {None}]
         /\ leased' \subseteq Activities
         /\ \A a \in Activities : task'[a] = "absent" => task[a] = "absent"
<1>0. /\ task \in [Activities -> Open \cup Outcomes \cup {"absent", "dead_lettered"}]
      /\ claimed_by \in [Activities -> Workers \cup {None}]
      /\ leased \subseteq Activities
      /\ active \subseteq Activities
      /\ generation \in [Activities -> Nat \cup {None}] /\ retry_generation \in Nat
  BY Zenon DEF KernelTypes, RowTypes, TypeOK
<1>1. CASE UNCHANGED <<rowVars, active, settled, generation, retry_generation>>
  BY Zenon, <1>0, <1>1 DEF Rows, RowsAgree, rowVars
<1>2. CASE UNCHANGED <<task, claimed_by, runVars>> /\ leased' \subseteq leased
  BY Zenon, <1>0, <1>2 DEF Rows, RowsAgree, runVars, lifecycleVars, activityVars
<1>3. ASSUME NEW a \in Activities, PlanActivity(a)
      PROVE  /\ Rows'
             /\ task' \in [Activities -> Open \cup Outcomes \cup {"absent", "dead_lettered"}]
             /\ \A b \in Activities : task'[b] = "absent" => task[b] = "absent"
             /\ UNCHANGED <<claimed_by, leased>>
  <2>1. generation[a] = None /\ task[a] = "absent" /\ settled[a] = "none"
    BY Zenon, <1>3, PlannedIsNew
  <2>2. /\ task' = [task EXCEPT ![a] = "pending"]
        /\ active' = active \cup {a}
        /\ generation' = [generation EXCEPT ![a] = retry_generation]
        /\ UNCHANGED <<claimed_by, leased, settled, retry_generation>>
    BY Zenon, <1>3 DEF PlanActivity, RequestActivity, lifecycleVars
  <2>3. retry_generation # None /\ a \notin leased
    BY Zenon, <1>0, <2>1, NoneAssumption DEF Rows
  <2>4. task'[a] = "pending" /\ \A b \in Activities \ {a} : task'[b] = task[b]
    BY Zenon, <1>0, <2>2
  <2>5. /\ generation'[a] = retry_generation
        /\ \A b \in Activities \ {a} : generation'[b] = generation[b]
    BY Zenon, <1>0, <2>2
  <2>6. RowsAgree'
    BY Zenon, <1>0, <2>1, <2>2, <2>4 DEF Rows, RowsAgree, Open
  <2>7. Rows'
    BY Zenon, <1>0, <2>2, <2>3, <2>4, <2>5, <2>6 DEF Rows
  <2> QED BY Zenon, <1>0, <2>2, <2>4, <2>7 DEF Open
<1>4. ASSUME NEW a \in Activities, NEW to \in Open \cup {"dead_lettered"}, RowMoves(a, to)
      PROVE  /\ Rows'
             /\ task' \in [Activities -> Open \cup Outcomes \cup {"absent", "dead_lettered"}]
             /\ \A b \in Activities : task'[b] = "absent" => task[b] = "absent"
             /\ leased' \subseteq leased \cup {a}
  <2>1. /\ task'[a] = to /\ \A b \in Activities \ {a} : task'[b] = task[b]
        /\ task[a] \in Open /\ task' = [task EXCEPT ![a] = to]
        /\ leased' \subseteq leased \cup {a}
        /\ a \in leased' => to \in {"claimed", "call_started"}
        /\ UNCHANGED <<active, settled, generation, retry_generation>>
    BY Zenon, <1>0, <1>4 DEF RowMoves, runVars, lifecycleVars, activityVars
  <2>2. a \in active /\ settled[a] = "none" /\ generation[a] # None /\ to # "absent"
    BY Zenon, <2>1 DEF Rows, RowsAgree, RunInv, NoActivityLost, Open
  <2>3. RowsAgree'
    BY Zenon, <1>4, <2>1, <2>2 DEF Rows, RowsAgree
  <2>4. Rows'
    BY Zenon, <1>0, <2>1, <2>2, <2>3 DEF Rows
  <2> QED BY Zenon, <1>0, <2>1, <2>2, <2>4
<1>5. CASE SettlingCommand /\ WriteCriticalRecords
  BY Zenon, <1>5, SettlingRows DEF RowTypes
<1> QED BY Zenon, <1>0, <1>1, <1>2, <1>3, <1>4, <1>5 DEF RowStep, RowMoves

-----------------------------------------------------------------------------
(* Types of requests and of the call records.                              *)

\* Requests of the right type, with the observations they need.
WellFormed(q) == q \in RequestRows /\ (Answered(q) => q.obs \in Observations)

(* A request without an observation is well formed unless it must bring it.*)
LEMMA RequestForm ==
  ASSUME NEW a \in Activities, NEW kind \in Kinds, NEW n \in Nat,
         NEW o \in Observations \cup {None},
         kind \in {"late", "resolution"} => o \in Observations
  PROVE  WellFormed(Request(a, kind, n, o))
BY DEF WellFormed, Request, RequestRows, Answered

(* Requests the effect projection adds are well formed.                    *)
LEMMA ProjectedForm ==
  ASSUME TypeOK', NEW a \in Activities
  PROVE  \A q \in AutoRequests(a) \cup FactRequests(a) : WellFormed(q)
<1>1. op_revision'[a] \in Nat
  BY Zenon DEF TypeOK
<1>2. \A kind \in {"not_sent", "query", "fact"} :
        WellFormed(Request(a, kind, op_revision'[a], None))
  BY <1>1, RequestForm DEF Kinds
<1>3. AutoRequests(a) \cup FactRequests(a) \subseteq
        {Request(a, kind, op_revision'[a], None) : kind \in {"not_sent", "query", "fact"}}
  BY DEF AutoRequests, FactRequests
<1> QED BY Zenon, <1>2, <1>3

(* What a request is answered with is an observation.                      *)
LEMMA EvidenceForm ==
  ASSUME KernelTypes, NEW q \in requests, Readable(q), NEW o \in Evidence(q)
  PROVE  /\ o \in Observations \cup {None}
         /\ q.kind # "abandon" => o \in Observations
<1>1. /\ q.operation \in Activities /\ q.kind \in Kinds /\ q.obs \in Observations \cup {None}
      /\ q.kind \in {"late", "resolution"} => q.obs \in Observations
  BY DEF KernelTypes, RequestTypes, RequestRows, Answered
<1>2. Fresh(q.operation) \subseteq Receipts
  BY Zenon DEF Fresh
<1>3. ASSUME NEW e \in Receipts, NEW s \in {"pending", "unknown", "applied", "not_applied"},
             NEW m \in Results \cup {None}
      PROVE  Observed(e, s, m) \in Observations
  BY DEF Observed, Observations
<1>4. ASSUME NEW e \in Receipts
      PROVE  [receipt |-> e, state |-> "not_applied", source |-> "kernel_not_sent",
              result |-> None] \in Observations
  BY DEF Observations
<1>5. CASE q.kind = "not_sent"
  <2>1. Evidence(q) = {[receipt |-> e, state |-> "not_applied", source |-> "kernel_not_sent",
                        result |-> None] : e \in Fresh(q.operation)}
    BY <1>5 DEF Evidence
  <2> QED BY Zenon, <1>2, <1>4, <2>1
<1>6. CASE q.kind = "fact"
  <2>1. Evidence(q) = {Observed(e, op_state[q.operation], op_result[q.operation]) :
                         e \in Fresh(q.operation)}
    BY <1>6 DEF Evidence
  <2>2. /\ op_state[q.operation] \in {"pending", "unknown", "applied", "not_applied"}
        /\ op_result[q.operation] \in Results \cup {None}
    BY Zenon, <1>1, <1>6 DEF Readable, FinalOp, KernelTypes, TypeOK
  <2>3. \A e \in Receipts :
          Observed(e, op_state[q.operation], op_result[q.operation]) \in Observations
    BY Zenon, <1>3, <2>2
  <2> QED BY Zenon, <1>2, <2>1, <2>3
<1>7. CASE q.kind = "query"
  <2>1. Evidence(q) = UNION {Answers(e) : e \in Fresh(q.operation)}
    BY <1>7 DEF Evidence
  <2>2. \A e \in Receipts : Answers(e) \subseteq Observations
    <3> SUFFICES ASSUME NEW e \in Receipts, NEW x \in Answers(e) PROVE x \in Observations
      BY Zenon
    <3>1. \/ \E m \in Results \cup {None} : x = Observed(e, "applied", m)
          \/ \E s \in {"pending", "unknown", "not_applied"} : x = Observed(e, s, None)
      BY Zenon DEF Answers
    <3> QED BY Zenon, <1>3, <3>1
  <2> QED BY Zenon, <1>2, <2>1, <2>2
<1>8. CASE q.kind \in {"late", "resolution", "abandon"}
  <2>1. Evidence(q) = {q.obs}
    BY <1>8 DEF Evidence
  <2> QED BY Zenon, <1>1, <1>8, <2>1
<1> QED BY Zenon, <1>1, <1>5, <1>6, <1>7, <1>8 DEF Kinds

(* People's requests are well formed (submit_query, submit_resolution).    *)
LEMMA SubmittedForm ==
  ASSUME KernelTypes, NEW a \in Activities, NEW kind \in HumanKinds, SubmitRequest(a, kind)
  PROVE  \A q \in requests' \ requests : WellFormed(q)
<1>1. op_revision[a] \in Nat /\ Fresh(a) \subseteq Receipts
  BY Zenon DEF KernelTypes, TypeOK, Fresh
<1>2. CASE requests' = requests \cup {Request(a, kind, op_revision[a], None)}
           /\ kind \in {"abandon", "query"}
  <2>1. WellFormed(Request(a, kind, op_revision[a], None))
    BY <1>1, <1>2, RequestForm DEF Kinds
  <2> QED BY Zenon, <1>2, <2>1
<1>3. ASSUME NEW e \in Fresh(a),
             NEW o \in {Observed(e, "applied", m) : m \in Results \cup {None}}
                         \cup {Observed(e, "not_applied", None)},
             kind = "resolution",
             requests' = requests \cup {Request(a, kind, op_revision[a], o)}
      PROVE  \A q \in requests' \ requests : WellFormed(q)
  <2>1. o \in Observations
    BY <1>1, <1>3 DEF Observed, Observations
  <2>2. WellFormed(Request(a, kind, op_revision[a], o))
    BY <1>1, <1>3, <2>1, RequestForm DEF Kinds
  <2> QED BY Zenon, <1>3, <2>2
<1> QED BY Zenon, <1>2, <1>3 DEF SubmitRequest

(* Every step keeps the requests well formed.                              *)
LEMMA StepRequests ==
  ASSUME KernelTypes, TypeOK', [KernelNext]_vars
  PROVE  RequestTypes'
<1>0. /\ requests \subseteq RequestRows
      /\ \A q \in requests : Answered(q) => q.obs \in Observations
      /\ \A q \in requests : q.operation \in Activities
  BY DEF KernelTypes, RequestTypes, RequestRows
<1>1. SUFFICES \A q \in requests' \ requests : WellFormed(q)
  <2>1. \A q \in requests' : WellFormed(q)
    BY Zenon, <1>0, <1>1 DEF WellFormed
  <2> QED BY Zenon, <2>1 DEF RequestTypes, WellFormed, Answered
<1>2. CASE UNCHANGED requests
  BY Zenon, <1>2
<1>3. CASE EffectCallStep
  <2>1. PICK w \in Workers :
          \/ UNCHANGED requests
          \/ PrepareOperation(w) \/ DispatchOperation(w) \/ RecordObservation(w)
          \/ DeferObservation(w)
    BY Zenon, <1>3 DEF EffectCallStep, ReadJournal, SendOperation, LoseObservation
  <2> DEFINE a == worker[w].activity
  <2>2. CASE PrepareOperation(w) \/ DispatchOperation(w) \/ RecordObservation(w)
    <3>1. a \in Activities
      BY Zenon, <2>2
         DEF PrepareOperation, DispatchOperation, RecordObservation, Owned, KernelTypes, SlotTypes,
             Slots
    <3>2. requests' \subseteq requests \cup AutoRequests(a) \cup FactRequests(a)
      BY Zenon, <2>2 DEF PrepareOperation, DispatchOperation, RecordObservation
    <3> QED BY Zenon, <3>1, <3>2, ProjectedForm
  <2>3. CASE DeferObservation(w)
    <3>1. a \in Activities /\ worker[w].obs \in Observations
      BY Zenon, <2>3 DEF DeferObservation, At, KernelTypes, SlotTypes, Slots
    <3>2. WellFormed(Request(a, "late", op_revision[a], worker[w].obs))
      BY <3>1, RequestForm DEF Kinds, KernelTypes, TypeOK
    <3> QED BY Zenon, <2>3, <3>2 DEF DeferObservation
  <2> QED BY Zenon, <2>1, <2>2, <2>3
<1>4. CASE ReconcilerStep
  <2>1. ASSUME NEW q \in requests, ClaimRequest(q)
        PROVE  \A p \in requests' \ requests : WellFormed(p)
    <3>1. PICK o \in Evidence(q) :
            requests' = (requests \ {q}) \cup {[q EXCEPT !.running = TRUE, !.obs = o]}
      BY Zenon, <2>1 DEF ClaimRequest
    <3>2. /\ o \in Observations \cup {None}
          /\ q.kind # "abandon" => o \in Observations
      BY Zenon, <2>1, <3>1, EvidenceForm DEF ClaimRequest
    <3>3. WellFormed([q EXCEPT !.running = TRUE, !.obs = o])
      BY Zenon, <1>0, <3>2 DEF WellFormed, RequestRows, Answered
    <3> QED BY Zenon, <3>1, <3>3
  <2>2. ASSUME NEW q \in requests, RequestLapses(q)
        PROVE  \A p \in requests' \ requests : WellFormed(p)
    <3> DEFINE o == IF q.kind \in {"late", "resolution"} THEN q.obs ELSE None
    <3>1. /\ o \in Observations \cup {None}
          /\ q.kind \in {"late", "resolution"} => o \in Observations
      BY Zenon, <1>0 DEF Answered
    <3>2. WellFormed([q EXCEPT !.running = FALSE, !.obs = o])
      BY Zenon, <1>0, <3>1 DEF WellFormed, RequestRows, Answered
    <3>3. requests' = (requests \ {q}) \cup {[q EXCEPT !.running = FALSE, !.obs = o]}
      BY Zenon, <2>2 DEF RequestLapses
    <3> QED BY Zenon, <3>2, <3>3
  <2>3. ASSUME NEW q \in requests, FinishRequest(q)
        PROVE  \A p \in requests' \ requests : WellFormed(p)
    BY Zenon, <1>0, <2>3, ProjectedForm DEF FinishRequest
  <2>4. ASSUME NEW q \in requests, GiveUpRequest(q) \/ FailRequest(q)
        PROVE  \A p \in requests' \ requests : WellFormed(p)
    BY Zenon, <2>4 DEF GiveUpRequest, FailRequest
  <2> QED BY Zenon, <1>4, <2>1, <2>2, <2>3, <2>4, SubmittedForm DEF ReconcilerStep
<1>5. CASE PlannerStep \/ ClientStep \/ WorkerStep \/ ClockStep \/ SettlementStep \/ UNCHANGED vars
  <2>1. UNCHANGED requests
    BY Zenon, <1>5
       DEF PlannerStep, PlanRun, PlanActivity, ClientStep, Accepted, WorkerStep, ClaimTask,
           DeferTask, WorkerStops, ClassifyRecovery, MarkRowCallStarted, SubmitCallStarted,
           HandlerReturns, HandlerCalls, HandlerRefuses, SubmitOutcome, ClockStep, LeaseExpires,
           TimeoutPasses, SettlementStep, DeadLetterTask, FireTimer, ProcessFailure,
           ProcessTimeoutUnknown, vars, kernelVars
  <2> QED BY Zenon, <2>1, <1>2
<1> QED BY Zenon, <1>3, <1>4, <1>5 DEF KernelNext

(* Every step keeps the types of claims, call marks and sends.             *)
LEMMA StepCalls ==
  ASSUME KernelTypes, UNCHANGED <<worker, callVars>> \/ \E w \in Workers : SlotStep(w)
  PROVE  /\ claim_generation' \in [Activities -> Nat]
         /\ call_started_at' \subseteq Activities
         /\ sends' \in [Activities -> Nat]
<1>0. /\ claim_generation \in [Activities -> Nat] /\ call_started_at \subseteq Activities
      /\ sends \in [Activities -> Nat]
  BY Zenon DEF KernelTypes, RowTypes
<1>1. CASE UNCHANGED <<worker, callVars>>
  BY Zenon, <1>0, <1>1 DEF callVars
<1>2. ASSUME NEW w \in Workers, SlotStep(w)
      PROVE  /\ claim_generation' \in [Activities -> Nat]
             /\ call_started_at' \subseteq Activities
             /\ sends' \in [Activities -> Nat]
  <2>1. ASSUME NEW a \in Activities, Takes(w, a)
        PROVE  claim_generation' \in [Activities -> Nat] /\ UNCHANGED <<call_started_at, sends>>
    BY <1>0, <2>1 DEF Takes
  <2>2. worker[w].at # "idle" => worker[w].activity \in Activities
    BY Zenon DEF KernelTypes, SlotTypes, Slots
  <2>3. CASE Marks(w)
    BY Zenon, <1>0, <2>2, <2>3 DEF Marks, Moves
  <2>4. CASE Sends(w)
    <3>1. worker[w].activity \in Activities
      BY Zenon, <2>2, <2>4 DEF Sends, Moves
    <3>2. sends' = [sends EXCEPT ![worker[w].activity] = @ + 1]
          /\ UNCHANGED <<claim_generation, call_started_at>>
      BY Zenon, <2>4 DEF Sends
    <3> QED BY <1>0, <3>1, <3>2
  <2>5. CASE Advances(w)
    BY Zenon, <1>0, <2>5 DEF Advances, callVars
  <2> QED BY Zenon, <1>0, <1>2, <2>1, <2>3, <2>4, <2>5 DEF SlotStep
<1> QED BY Zenon, <1>1, <1>2

-----------------------------------------------------------------------------
(* What a step never undoes.                                               *)

(* An operation that was sent is never unsent again, and a started call of *)
(* an Activity that stays active stays started (evolve, evolve_effect).    *)
LEMMA CallHistory ==
  ASSUME TypeOK, FormalStep \/ UNCHANGED runVars
  PROVE  /\ \A a \in Activities : Unsent(a)' => Unsent(a)
         /\ \A a \in active' : a \in started => a \in started'
<1> USE DEF Unsent
<1>1. CASE UNCHANGED runVars
  BY Zenon, <1>1 DEF runVars, activityVars, effectVars
<1>2. CASE LifecycleStep \/ ActivityStep
  <2>1. UNCHANGED op_state
    BY Zenon, <1>2, EffectFrame DEF effectVars
  <2>2. CASE LifecycleStep
    BY Zenon, <2>1, <2>2
       DEF LifecycleStep, CreateRun, StartRun, WaitRun, ResumeRun, RetryRun, CompleteRun,
           FailRunRetryable, FailRun, CancelRun, RunEnded, activityVars
  <2>3. CASE ActivityStep
    BY Zenon, <2>1, <2>3
       DEF ActivityStep, RequestActivity, MarkActivityCallStarted, CompleteActivity, FailActivity,
           MarkActivityOutcomeUnknown, ActivitySettled
  <2> QED BY Zenon, <1>2, <2>2, <2>3
<1>3. ASSUME NEW a \in Activities,
             PrepareEffectOperation(a) \/ StartEffectDispatch(a) \/ AbandonEffectResolution(a)
      PROVE  /\ \A b \in Activities : Unsent(b)' => Unsent(b)
             /\ \A b \in active' : b \in started => b \in started'
  BY Zenon, <1>3
     DEF PrepareEffectOperation, StartEffectDispatch, AbandonEffectResolution, TypeOK, activityVars
<1>4. ASSUME NEW a \in Activities, NEW o \in Observations, EvidenceStep(a, o)
      PROVE  /\ \A b \in Activities : Unsent(b)' => Unsent(b)
             /\ \A b \in active' : b \in started => b \in started'
  <2>1. EvidenceSettles(a, o)
    BY Zenon, <1>4, EvidenceOutcome
  <2>2. \A b \in active' : b \in started => b \in started'
    BY Zenon, <2>1 DEF EvidenceSettles, ActivitySettled, activityVars
  <2>3. o.state \notin {"absent", "prepared"}
    BY Zenon DEF Observations
  <2>4. \A b \in Activities : Unsent(b)' => Unsent(b)
    BY Zenon, <1>4, <2>3 DEF EvidenceStep, RecordConflict, RecordReceipt, TypeOK
  <2> QED BY Zenon, <2>2, <2>4
<1>5. ASSUME FormalStep, ~LifecycleStep, ~ActivityStep
      PROVE  \E a \in Activities :
               \/ PrepareEffectOperation(a) \/ StartEffectDispatch(a)
               \/ AbandonEffectResolution(a)
               \/ \E o \in Observations : EvidenceStep(a, o)
  BY Zenon, <1>5
     DEF FormalStep, EvidenceStep, RecordEffectObservation, ResolveActivityOutcome,
         SupplyActivityResult
<1> QED BY Zenon, <1>1, <1>2, <1>3, <1>4, <1>5

(* What becomes active had no row before: Activities are requested once.   *)
LEMMA NewlyActive ==
  ASSUME RunInv, Rows, RowStep
  PROVE  \A a \in active' : a \in active \/ task[a] = "absent"
<1>1. ASSUME NEW a \in Activities, PlanActivity(a)
      PROVE  active' = active \cup {a} /\ task[a] = "absent"
  BY Zenon, <1>1, PlannedIsNew DEF PlanActivity, RequestActivity
<1>2. CASE SettlingCommand /\ WriteCriticalRecords
  BY Zenon, <1>2, SettlingFrame
<1> QED BY Zenon, <1>1, <1>2 DEF RowStep, RowMoves, runVars, activityVars

-----------------------------------------------------------------------------
(* Claims.                                                                 *)

(* A new claim is the newest one of its row (claim).                       *)
LEMMA TakesClaim ==
  ASSUME KernelTypes, Claims, NEW w \in Workers, NEW a \in Activities, Takes(w, a),
         \A v \in Workers \ {w} : worker'[v] = worker[v],
         \A b \in Activities : task'[b] = "absent" => task[b] = "absent"
  PROVE  Claims'
<1>0. /\ claim_generation \in [Activities -> Nat]
      /\ \A v \in Workers : worker[v].claim \in Nat /\ worker[v].activity \in Activities \cup {None}
      /\ \A v \in Workers : worker[v].at # "idle" => worker[v].activity # None
      /\ None \notin Activities
  BY Zenon, NoneAssumption DEF KernelTypes, RowTypes, SlotTypes, Slots
<1>1. /\ worker'[w].activity = a /\ worker'[w].claim = claim_generation[a] + 1
      /\ worker'[w].at = "claimed" /\ worker'[w].recovered = (a \in call_started_at)
      /\ UNCHANGED <<call_started_at, sends>> /\ task[a] # "absent"
  BY Zenon DEF Takes, Open
<1>2. claim_generation'[a] = claim_generation[a] + 1
      /\ \A b \in Activities \ {a} : claim_generation'[b] = claim_generation[b]
  BY Zenon, <1>0 DEF Takes
<1>3. \A v \in Workers : worker[v].activity = a =>
        worker[v].claim <= claim_generation'[a] /\ worker[v].claim # claim_generation'[a]
  <2> SUFFICES ASSUME NEW v \in Workers, worker[v].activity = a
               PROVE  worker[v].claim <= claim_generation'[a]
                        /\ worker[v].claim # claim_generation'[a]
    BY Zenon
  <2>1. worker[v].claim <= claim_generation[a]
    BY Zenon, <1>0 DEF Claims, ClaimsNumbered
  <2>2. worker[v].claim \in Nat /\ claim_generation[a] \in Nat
    BY Zenon, <1>0
  <2> QED BY <1>2, <2>1, <2>2
<1>4. claim_generation'[a] <= claim_generation'[a]
  BY <1>0, <1>2
<1>5. ClaimsNumbered'
  <2> SUFFICES ASSUME NEW v \in Workers, worker'[v].activity # None
               PROVE  worker'[v].claim <= claim_generation'[worker'[v].activity]
    BY Zenon DEF ClaimsNumbered
  <2>1. CASE v = w
    BY Zenon, <1>1, <1>2, <1>4, <2>1
  <2>2. CASE v # w
    <3>1. worker'[v] = worker[v] /\ worker[v].activity \in Activities
      BY Zenon, <1>0, <2>2
    <3>2. worker[v].claim <= claim_generation[worker[v].activity]
      BY Zenon, <1>0, <3>1 DEF Claims, ClaimsNumbered
    <3> QED BY Zenon, <1>2, <1>3, <3>1, <3>2
  <2> QED BY Zenon, <2>1, <2>2
<1>6. ClaimsDistinct'
  <2> SUFFICES ASSUME NEW v \in Workers, NEW u \in Workers, v # u, worker'[v].activity # None,
                      worker'[v].activity = worker'[u].activity
               PROVE  worker'[v].claim # worker'[u].claim
    BY Zenon DEF ClaimsDistinct
  <2>0. worker'[w].claim = claim_generation'[a]
    BY Zenon, <1>1, <1>2
  <2>1. CASE v = w
    <3>1. worker'[u] = worker[u] /\ worker[u].activity = a
      BY Zenon, <1>1, <2>1
    <3> QED BY Zenon, <1>3, <2>0, <2>1, <3>1
  <2>2. CASE u = w
    <3>1. worker'[v] = worker[v] /\ worker[v].activity = a
      BY Zenon, <1>1, <2>2
    <3> QED BY Zenon, <1>3, <2>0, <2>2, <3>1
  <2>3. CASE v # w /\ u # w
    BY Zenon, <2>3 DEF Claims, ClaimsDistinct
  <2> QED BY Zenon, <2>1, <2>2, <2>3
<1>7. NoRowNoWork'
  <2> SUFFICES ASSUME NEW b \in Activities, task'[b] = "absent"
               PROVE  b \notin call_started_at' /\ \A v \in Workers : worker'[v].activity # b
    BY Zenon DEF NoRowNoWork
  <2>1. task[b] = "absent" /\ b # a
    BY Zenon, <1>1
  <2>2. b \notin call_started_at /\ \A v \in Workers : worker[v].activity # b
    BY Zenon, <2>1 DEF Claims, NoRowNoWork
  <2>3. \A v \in Workers : worker'[v].activity # b
    BY Zenon, <1>1, <2>1, <2>2
  <2> QED BY Zenon, <1>1, <2>2, <2>3
<1>8. FirstClaim'
  <2> SUFFICES ASSUME NEW v \in Workers, worker'[v].at = "claimed", ~worker'[v].recovered,
                      worker'[v].claim = claim_generation'[worker'[v].activity]
               PROVE  worker'[v].activity \notin call_started_at
    BY Zenon, <1>1 DEF FirstClaim
  <2>1. CASE v = w
    BY Zenon, <1>1, <2>1
  <2>2. CASE v # w
    <3>1. worker'[v] = worker[v] /\ worker[v].activity \in Activities \ {a}
      BY Zenon, <1>0, <1>3, <2>2
    <3> QED BY Zenon, <1>2, <3>1 DEF Claims, FirstClaim
  <2> QED BY Zenon, <2>1, <2>2
<1>9. MarkedFirst'
  <2> SUFFICES ASSUME NEW b \in Activities, b \notin call_started_at'
               PROVE  /\ sends'[b] = 0
                      /\ \A v \in Workers : worker'[v].activity = b =>
                           worker'[v].at \notin Late \cup {"call_started"}
    BY Zenon DEF MarkedFirst
  <2>1. /\ sends[b] = 0
        /\ \A v \in Workers : worker[v].activity = b =>
             worker[v].at \notin Late \cup {"call_started"}
    BY Zenon, <1>1 DEF Claims, MarkedFirst
  <2>2. worker'[w].at \notin Late \cup {"call_started"}
    BY Zenon, <1>1 DEF Late
  <2>3. \A v \in Workers : worker'[v].activity = b =>
          worker'[v].at \notin Late \cup {"call_started"}
    BY Zenon, <2>1, <2>2
  <2> QED BY Zenon, <1>1, <2>1, <2>3
<1> QED BY Zenon, <1>5, <1>6, <1>7, <1>8, <1>9 DEF Claims

\* A slot goes on with its claim or gives it up.
KeepsClaim(w) ==
  \/ worker'[w] = Idle
  \/ /\ worker'[w].activity = worker[w].activity /\ worker'[w].claim = worker[w].claim
     /\ worker'[w].recovered = worker[w].recovered

(* Work on a claim leaves the numbering of the claims alone.               *)
LEMMA ClaimsKept ==
  ASSUME Claims, NEW w \in Workers, KeepsClaim(w), UNCHANGED claim_generation,
         \A v \in Workers \ {w} : worker'[v] = worker[v],
         \A b \in Activities : task'[b] = "absent" => task[b] = "absent",
         call_started_at' \ call_started_at \subseteq {a \in Activities : task[a] # "absent"}
  PROVE  ClaimsNumbered' /\ ClaimsDistinct' /\ NoRowNoWork'
<1>1. \A v \in Workers :
        \/ worker'[v].activity = None
        \/ worker'[v].activity = worker[v].activity /\ worker'[v].claim = worker[v].claim
  <2>1. Idle.activity = None
    BY DEF Idle
  <2>2. \/ worker'[w].activity = None
        \/ worker'[w].activity = worker[w].activity /\ worker'[w].claim = worker[w].claim
    BY Zenon, <2>1 DEF KeepsClaim
  <2> QED BY Zenon, <2>2
<1>2. ClaimsNumbered'
  BY Zenon, <1>1 DEF Claims, ClaimsNumbered
<1>3. ClaimsDistinct'
  <2> SUFFICES ASSUME NEW v \in Workers, NEW u \in Workers, v # u, worker'[v].activity # None,
                      worker'[v].activity = worker'[u].activity
               PROVE  worker'[v].claim # worker'[u].claim
    BY Zenon DEF ClaimsDistinct
  <2>1. /\ worker'[v].activity = worker[v].activity /\ worker'[v].claim = worker[v].claim
        /\ worker'[u].activity = worker[u].activity /\ worker'[u].claim = worker[u].claim
    BY Zenon, <1>1
  <2> QED BY Zenon, <2>1 DEF Claims, ClaimsDistinct
<1>4. NoRowNoWork'
  <2> SUFFICES ASSUME NEW b \in Activities, task'[b] = "absent"
               PROVE  b \notin call_started_at' /\ \A v \in Workers : worker'[v].activity # b
    BY Zenon DEF NoRowNoWork
  <2>1. b \notin call_started_at /\ \A v \in Workers : worker[v].activity # b
    BY Zenon DEF Claims, NoRowNoWork
  <2>2. \A v \in Workers : worker'[v].activity # b
    BY Zenon, <1>1, <2>1, NoneAssumption
  <2> QED BY Zenon, <2>1, <2>2
<1> QED BY Zenon, <1>2, <1>3, <1>4

(* The call mark is set under the current claim, which becomes the only    *)
(* one that knows of no call (mark_call_started).                          *)
LEMMA MarksClaim ==
  ASSUME KernelTypes, Claims, NEW w \in Workers, Marks(w),
         \A v \in Workers \ {w} : worker'[v] = worker[v],
         \A b \in Activities : task'[b] = "absent" => task[b] = "absent"
  PROVE  Claims'
<1> DEFINE a == worker[w].activity
<1>1. /\ worker'[w].at = "call_started" /\ worker'[w].activity = a
      /\ worker'[w].claim = worker[w].claim /\ worker'[w].recovered = worker[w].recovered
      /\ call_started_at' = call_started_at \cup {a}
      /\ UNCHANGED <<claim_generation, sends>>
  BY Zenon DEF Marks, Moves
<1>2. a # None /\ task[a] # "absent" /\ worker[w].claim = claim_generation[a]
  BY Zenon DEF Marks, Owned
<1>3. a \in Activities /\ None \notin Activities
  BY Zenon, <1>2, NoneAssumption DEF KernelTypes, SlotTypes, Slots
<1>4. ClaimsNumbered' /\ ClaimsDistinct' /\ NoRowNoWork'
  <2>1. KeepsClaim(w)
    BY Zenon, <1>1 DEF KeepsClaim
  <2>2. call_started_at' \ call_started_at \subseteq {b \in Activities : task[b] # "absent"}
    BY Zenon, <1>1, <1>2, <1>3
  <2> QED BY Zenon, <1>1, <2>1, <2>2, ClaimsKept
<1>5. FirstClaim'
  <2> SUFFICES ASSUME NEW v \in Workers, worker'[v].at = "claimed", ~worker'[v].recovered,
                      worker'[v].claim = claim_generation'[worker'[v].activity]
               PROVE  worker'[v].activity \notin call_started_at'
    BY Zenon DEF FirstClaim
  <2>1. v # w /\ worker'[v] = worker[v]
    BY Zenon, <1>1
  <2>2. worker[v].activity # a
    <3>1. SUFFICES ASSUME worker[v].activity = a PROVE FALSE
      BY Zenon
    <3>2. worker[v].claim = worker[w].claim
      BY Zenon, <1>1, <1>2, <2>1, <3>1
    <3> QED BY Zenon, <1>2, <2>1, <3>1, <3>2 DEF Claims, ClaimsDistinct
  <2>3. worker[v].activity \notin call_started_at
    BY Zenon, <1>1, <2>1 DEF Claims, FirstClaim
  <2> QED BY Zenon, <1>1, <2>1, <2>2, <2>3
<1>6. MarkedFirst'
  <2> SUFFICES ASSUME NEW b \in Activities, b \notin call_started_at'
               PROVE  /\ sends'[b] = 0
                      /\ \A v \in Workers : worker'[v].activity = b =>
                           worker'[v].at \notin Late \cup {"call_started"}
    BY Zenon DEF MarkedFirst
  <2>1. b # a /\ b \notin call_started_at
    BY Zenon, <1>1
  <2>2. /\ sends[b] = 0
        /\ \A v \in Workers : worker[v].activity = b =>
             worker[v].at \notin Late \cup {"call_started"}
    BY Zenon, <2>1 DEF Claims, MarkedFirst
  <2> QED BY Zenon, <1>1, <2>1, <2>2
<1> QED BY Zenon, <1>4, <1>5, <1>6 DEF Claims

(* Calls and the rest of a claim's way find the call mark set.             *)
LEMMA WorkClaim ==
  ASSUME KernelTypes, Claims, NEW w \in Workers, Sends(w) \/ Advances(w),
         \A v \in Workers \ {w} : worker'[v] = worker[v],
         \A b \in Activities : task'[b] = "absent" => task[b] = "absent"
  PROVE  Claims'
<1> DEFINE a == worker[w].activity
<1>0. Idle.at = "idle"
  BY DEF Idle
<1>1. UNCHANGED <<claim_generation, call_started_at>> /\ KeepsClaim(w)
  BY Zenon DEF Sends, Advances, Moves, KeepsClaim, callVars
<1>2. worker'[w].at # "claimed"
  BY Zenon, <1>0 DEF Sends, Advances, Moves, Finished
<1>3. worker'[w].at \in Late \cup {"call_started"} =>
        worker[w].at \in Late \cup {"call_started"} /\ worker'[w].activity = a
  BY Zenon, <1>0 DEF Sends, Advances, Moves, Finished, Late
<1>4. \A b \in Activities : sends'[b] = sends[b] \/ (b = a /\ worker[w].at \in Late)
  <2>1. CASE Sends(w)
    <3>1. worker[w].at \in Late
      BY Zenon, <2>1 DEF Sends, Moves, Late
    <3>2. \A b \in Activities \ {a} : sends'[b] = sends[b]
      BY Zenon, <2>1 DEF Sends, KernelTypes
    <3> QED BY Zenon, <3>1, <3>2
  <2>2. CASE Advances(w)
    BY Zenon, <2>2 DEF Advances, callVars
  <2> QED BY Zenon, <2>1, <2>2
<1>5. ClaimsNumbered' /\ ClaimsDistinct' /\ NoRowNoWork'
  BY Zenon, <1>1, ClaimsKept
<1>6. FirstClaim'
  BY Zenon, <1>1, <1>2 DEF Claims, FirstClaim
<1>7. MarkedFirst'
  <2> SUFFICES ASSUME NEW b \in Activities, b \notin call_started_at'
               PROVE  /\ sends'[b] = 0
                      /\ \A v \in Workers : worker'[v].activity = b =>
                           worker'[v].at \notin Late \cup {"call_started"}
    BY Zenon DEF MarkedFirst
  <2>1. /\ sends[b] = 0
        /\ \A v \in Workers : worker[v].activity = b =>
             worker[v].at \notin Late \cup {"call_started"}
    BY Zenon, <1>1 DEF Claims, MarkedFirst
  <2>2. \A v \in Workers : worker'[v].activity = b =>
          worker'[v].at \notin Late \cup {"call_started"}
    BY Zenon, <1>3, <2>1
  <2>3. sends'[b] = sends[b]
    BY Zenon, <1>4, <2>1
  <2> QED BY Zenon, <2>1, <2>2, <2>3
<1> QED BY Zenon, <1>5, <1>6, <1>7 DEF Claims

(* Every step keeps the claims in order.                                   *)
LEMMA StepClaims ==
  ASSUME KernelTypes, Claims,
         UNCHANGED <<worker, callVars>> \/ \E w \in Workers : SlotStep(w),
         \A b \in Activities : task'[b] = "absent" => task[b] = "absent"
  PROVE  Claims'
<1>1. CASE UNCHANGED <<worker, callVars>>
  BY Zenon, <1>1
     DEF Claims, ClaimsNumbered, ClaimsDistinct, NoRowNoWork, FirstClaim, MarkedFirst, callVars
<1>2. ASSUME NEW w \in Workers, SlotStep(w)
      PROVE  Claims'
  BY Zenon, <1>2, TakesClaim, MarksClaim, WorkClaim DEF SlotStep
<1> QED BY Zenon, <1>1, <1>2

-----------------------------------------------------------------------------
(* Calls.                                                                  *)

\* What CallHistory and NewlyActive say of a step.
KeepsHistory ==
  /\ \A a \in Activities : Unsent(a)' => Unsent(a)
  /\ \A a \in active' \ started' :
       a \in active \ started \/ (a \in Activities /\ task[a] = "absent")

(* An Activity that is not formally started after a step was not called    *)
(* before it: it was not started then, or it was not even requested.       *)
LEMMA NotCalled ==
  ASSUME Claims, Calls, KeepsHistory
  PROVE  \A a \in active' \ started' :
           /\ sends[a] = 0
           /\ \A w \in Workers : worker[w].activity = a => worker[w].at \notin Late
<1> SUFFICES ASSUME NEW a \in active' \ started'
             PROVE  /\ sends[a] = 0
                    /\ \A w \in Workers : worker[w].activity = a => worker[w].at \notin Late
  BY Zenon
<1>1. CASE a \in active \ started
  BY Zenon, <1>1 DEF Calls, StartedFirst
<1>2. CASE a \in Activities /\ task[a] = "absent"
  <2>1. a \notin call_started_at /\ \A w \in Workers : worker[w].activity # a
    BY Zenon, <1>2 DEF Claims, NoRowNoWork
  <2>2. sends[a] = 0
    BY Zenon, <1>2, <2>1 DEF Claims, MarkedFirst
  <2> QED BY Zenon, <2>1, <2>2
<1> QED BY Zenon, <1>1, <1>2 DEF KeepsHistory

(* Steps that bring no slot closer to a call.                              *)
LEMMA QuietCalls ==
  ASSUME Claims, Calls, KeepsHistory, UNCHANGED sends,
         \A v \in Workers : \/ worker'[v] = worker[v]
                            \/ worker'[v].at \in Finished \cup {"idle", "claimed"}
  PROVE  Calls'
<1>0. \A v \in Workers : worker'[v].at \in Late \cup {"call_started"} => worker'[v] = worker[v]
  BY Zenon DEF Late, Finished
<1>1. {"dispatched", "prepared", "started"} \subseteq Late
  BY Zenon DEF Late
<1>2. AtMostOneSend'
  BY Zenon DEF Calls, AtMostOneSend
<1>3. JournalKnows'
  BY Zenon, <1>0, <1>1 DEF Calls, JournalKnows, KeepsHistory
<1>4. WritesPrepared'
  BY Zenon, <1>0, <1>1 DEF Calls, WritesPrepared
<1>5. DispatchAlone'
  <2> SUFFICES ASSUME NEW w \in Workers, worker'[w].at = "dispatched"
               PROVE  /\ sends[worker'[w].activity] = 0
                      /\ \A v \in Workers : v # w /\ worker'[v].activity = worker'[w].activity =>
                           worker'[v].at # "dispatched"
    BY Zenon DEF DispatchAlone
  <2>1. worker'[w] = worker[w]
    BY Zenon, <1>0, <1>1
  <2> QED BY Zenon, <1>0, <1>1, <2>1 DEF Calls, DispatchAlone
<1>6. CallAlone'
  <2> SUFFICES ASSUME NEW w \in Workers, worker'[w].at \in {"call_started", "started"},
                      worker'[w].activity \in Single
               PROVE  /\ sends[worker'[w].activity] = 0
                      /\ \A v \in Workers : v # w /\ worker'[v].activity = worker'[w].activity =>
                           worker'[v].at \notin {"call_started", "started"}
    BY Zenon DEF CallAlone
  <2>1. worker'[w] = worker[w]
    BY Zenon, <1>0, <1>1
  <2> QED BY Zenon, <1>0, <1>1, <2>1 DEF Calls, CallAlone
<1>7. StartedFirst'
  BY Zenon, <1>0, NotCalled DEF StartedFirst
<1> QED BY Zenon, <1>2, <1>3, <1>4, <1>5, <1>6, <1>7 DEF Calls

(* The mark of a call that cannot be repeated is set by a claim that found *)
(* none, so nobody has called or is about to (RecoveryUnsafe).             *)
LEMMA MarkCalls ==
  ASSUME KernelTypes, Claims, Calls, KeepsHistory, NEW w \in Workers, Marks(w),
         \A v \in Workers \ {w} : worker'[v] = worker[v]
  PROVE  Calls'
<1> DEFINE a == worker[w].activity
<1>0. /\ worker[w].at = "claimed" /\ worker'[w].at = "call_started" /\ worker'[w].activity = a
      /\ UNCHANGED sends
  BY Zenon DEF Marks, Moves
<1>1. a \in Activities /\ worker[w].claim = claim_generation[a]
  BY Zenon DEF Marks, Owned, KernelTypes, SlotTypes, Slots
<1>2. \A v \in Workers : worker'[v].activity = worker[v].activity
  BY Zenon, <1>0
<1>3. \A v \in Workers : worker'[v].at = worker[v].at \/ (v = w /\ worker'[v].at = "call_started")
  BY Zenon, <1>0
<1>4. AtMostOneSend' /\ WritesPrepared'
  BY Zenon, <1>0, <1>2, <1>3 DEF Calls, AtMostOneSend, WritesPrepared
<1>5. JournalKnows' /\ DispatchAlone'
  <2>1. \A v \in Workers : worker'[v].at = "dispatched" <=> worker[v].at = "dispatched"
    BY Zenon, <1>0, <1>3
  <2>2. JournalKnows'
    BY Zenon, <1>0, <1>2, <2>1 DEF Calls, JournalKnows, KeepsHistory
  <2>3. DispatchAlone'
    BY Zenon, <1>0, <1>2, <2>1 DEF Calls, DispatchAlone
  <2> QED BY Zenon, <2>2, <2>3
<1>6. a \in Single => /\ sends[a] = 0
                     /\ \A v \in Workers : worker[v].activity = a =>
                          worker[v].at \notin {"call_started", "started"}
  <2> SUFFICES ASSUME a \in Single
               PROVE  /\ sends[a] = 0
                      /\ \A v \in Workers : worker[v].activity = a =>
                           worker[v].at \notin {"call_started", "started"}
    BY Zenon
  <2>1. ~worker[w].recovered
    BY Zenon DEF Marks, RecoveryUnsafe, Single
  <2>2. a \notin call_started_at
    BY Zenon, <1>0, <1>1, <2>1 DEF Claims, FirstClaim
  <2> QED BY Zenon, <1>1, <2>2 DEF Claims, MarkedFirst, Late
<1>7. CallAlone'
  <2> SUFFICES ASSUME NEW v \in Workers, worker'[v].at \in {"call_started", "started"},
                      worker[v].activity \in Single
               PROVE  /\ sends[worker[v].activity] = 0
                      /\ \A u \in Workers : u # v /\ worker[u].activity = worker[v].activity =>
                           worker'[u].at \notin {"call_started", "started"}
    BY Zenon, <1>0, <1>2 DEF CallAlone
  <2>1. CASE v = w
    <3>1. \A u \in Workers : u # w => worker'[u].at = worker[u].at
      BY Zenon, <1>3
    <3> QED BY Zenon, <1>6, <2>1, <3>1
  <2>2. CASE v # w
    <3>1. worker[v].at \in {"call_started", "started"}
      BY Zenon, <1>3, <2>2
    <3>2. worker[v].activity # a
      BY Zenon, <1>6, <3>1
    <3>3. \A u \in Workers : worker[u].activity = worker[v].activity => worker'[u].at = worker[u].at
      BY Zenon, <1>3, <3>2
    <3> QED BY Zenon, <3>1, <3>3 DEF Calls, CallAlone
  <2> QED BY Zenon, <2>1, <2>2
<1>8. StartedFirst'
  BY Zenon, <1>0, <1>2, <1>3, NotCalled DEF StartedFirst, Late
<1> QED BY Zenon, <1>4, <1>5, <1>7, <1>8 DEF Calls

(* The formal mark of the started call comes before the call.              *)
LEMMA StartCalls ==
  ASSUME Claims, Calls, KeepsHistory, NEW w \in Workers, UNCHANGED sends,
         Moves(w, "call_started", "started"), worker[w].activity \in started',
         \A v \in Workers \ {w} : worker'[v] = worker[v]
  PROVE  Calls'
<1>0. /\ worker[w].at = "call_started" /\ worker'[w].at = "started"
      /\ worker'[w].activity = worker[w].activity
  BY Zenon DEF Moves
<1>2. \A v \in Workers : worker'[v].activity = worker[v].activity
  BY Zenon, <1>0
<1>3. \A v \in Workers \ {w} : worker'[v].at = worker[v].at
  BY Zenon
<1>4. AtMostOneSend' /\ WritesPrepared'
  BY Zenon, <1>0, <1>2, <1>3 DEF Calls, AtMostOneSend, WritesPrepared
<1>5. JournalKnows' /\ DispatchAlone'
  <2>1. \A v \in Workers : worker'[v].at = "dispatched" <=> worker[v].at = "dispatched"
    BY Zenon, <1>0, <1>3
  <2>2. JournalKnows'
    BY Zenon, <1>0, <1>2, <2>1 DEF Calls, JournalKnows, KeepsHistory
  <2>3. DispatchAlone'
    BY Zenon, <1>0, <1>2, <2>1 DEF Calls, DispatchAlone
  <2> QED BY Zenon, <2>2, <2>3
<1>6. CallAlone'
  <2>1. \A v \in Workers : worker'[v].at \in {"call_started", "started"} <=>
                           worker[v].at \in {"call_started", "started"}
    BY Zenon, <1>0, <1>3
  <2> QED BY Zenon, <1>2, <2>1 DEF Calls, CallAlone
<1>7. StartedFirst'
  <2>1. \A a \in active' \ started', v \in Workers : worker'[v].activity = a => v # w
    BY Zenon, <1>2
  <2> QED BY Zenon, <1>2, <1>3, <2>1, NotCalled DEF StartedFirst
<1> QED BY Zenon, <1>4, <1>5, <1>6, <1>7 DEF Calls

(* Preparing and dispatching: an operation is dispatched once, before any  *)
(* send (decide_effect, "operation cannot be sent again").                 *)
LEMMA DispatchCalls ==
  ASSUME KernelTypes, Claims, Calls, KeepsHistory, NEW w \in Workers, UNCHANGED sends,
         \/ Moves(w, "started", "prepared") /\ worker[w].activity \in Effectful
         \/ /\ Moves(w, "prepared", "dispatched")
            /\ Unsent(worker[w].activity) /\ op_state'[worker[w].activity] = "sending",
         \A v \in Workers \ {w} : worker'[v] = worker[v]
  PROVE  Calls'
<1> DEFINE a == worker[w].activity
<1>0. /\ worker[w].at \in {"started", "prepared"} /\ worker'[w].at \in {"prepared", "dispatched"}
      /\ worker'[w].activity = a
      /\ worker'[w].at = "dispatched" =>
           worker[w].at = "prepared" /\ Unsent(a) /\ op_state'[a] = "sending"
  BY Zenon DEF Moves
<1>1. a \in Effectful /\ a \in Activities /\ a \notin Single
  BY Zenon, EffectfulAssumption DEF Calls, WritesPrepared, Moves, Single
<1>2. \A v \in Workers : worker'[v].activity = worker[v].activity
  BY Zenon, <1>0
<1>3. \A v \in Workers \ {w} : worker'[v].at = worker[v].at
  BY Zenon
<1>4. AtMostOneSend' /\ WritesPrepared'
  BY Zenon, <1>1, <1>2, <1>3 DEF Calls, AtMostOneSend, WritesPrepared
<1>5. worker'[w].at = "dispatched" =>
        /\ sends[a] = 0 /\ ~Unsent(a)'
        /\ \A v \in Workers : worker[v].activity = a => worker[v].at # "dispatched"
  BY Zenon, <1>0, <1>1 DEF Calls, JournalKnows, Unsent
<1>6. JournalKnows'
  <2> SUFFICES ASSUME NEW b \in Activities, Unsent(b)'
               PROVE  /\ b \in Effectful => sends[b] = 0
                      /\ \A v \in Workers : worker[v].activity = b => worker'[v].at # "dispatched"
    BY Zenon, <1>2 DEF JournalKnows
  <2>1. /\ b \in Effectful => sends[b] = 0
        /\ \A v \in Workers : worker[v].activity = b => worker[v].at # "dispatched"
    BY Zenon DEF Calls, JournalKnows, KeepsHistory
  <2>2. ASSUME NEW v \in Workers, worker[v].activity = b
        PROVE  worker'[v].at # "dispatched"
    <3>1. CASE v = w
      <4>1. a = b
        BY Zenon, <2>2, <3>1
      <4>2. op_state'[a] \in {"absent", "prepared"}
        BY Zenon, <4>1 DEF Unsent
      <4> QED BY Zenon, <1>0, <3>1, <4>2
    <3>2. CASE v # w
      BY Zenon, <1>3, <2>1, <2>2, <3>2
    <3> QED BY Zenon, <3>1, <3>2
  <2> QED BY Zenon, <2>1, <2>2
<1>7. DispatchAlone'
  <2> SUFFICES ASSUME NEW v \in Workers, worker'[v].at = "dispatched"
               PROVE  /\ sends[worker[v].activity] = 0
                      /\ \A u \in Workers : u # v /\ worker[u].activity = worker[v].activity =>
                           worker'[u].at # "dispatched"
    BY ZenonT(40), <1>2 DEF DispatchAlone
  <2>1. CASE v = w
    BY Zenon, <1>3, <1>5, <2>1
  <2>2. CASE v # w
    BY Zenon, <1>3, <1>5, <2>2 DEF Calls, DispatchAlone
  <2> QED BY Zenon, <2>1, <2>2
<1>8. CallAlone'
  <2>1. \A v \in Workers : worker'[v].at \in {"call_started", "started"} =>
                           worker[v].at \in {"call_started", "started"}
    BY Zenon, <1>0, <1>3
  <2> QED BY Zenon, <1>2, <2>1 DEF Calls, CallAlone
<1>9. StartedFirst'
  <2>1. worker[w].at \in Late
    BY Zenon, <1>0 DEF Late
  <2>2. \A b \in active' \ started', v \in Workers : worker[v].activity = b => v # w
    BY Zenon, <2>1, NotCalled
  <2> QED BY Zenon, <1>2, <1>3, <2>2, NotCalled DEF StartedFirst
<1> QED BY Zenon, <1>4, <1>6, <1>7, <1>8, <1>9 DEF Calls

(* The call itself: whoever makes a call that must not be repeated is the  *)
(* first, and nobody else is about to.                                     *)
LEMMA SendCalls ==
  ASSUME KernelTypes, Claims, Calls, KeepsHistory, NEW w \in Workers, Sends(w),
         \A v \in Workers \ {w} : worker'[v] = worker[v]
  PROVE  Calls'
<1> DEFINE a == worker[w].activity
<1>0. /\ worker[w].at \in {"started", "dispatched"} /\ worker'[w].at \in {"called", "sent"}
      /\ worker'[w].activity = a
      /\ worker[w].at = "started" => a \notin Effectful
  BY Zenon DEF Sends, Moves
<1>1. a \in Activities /\ worker[w].at \in Late /\ (worker[w].at = "dispatched" => a \in Effectful)
  BY Zenon, <1>0 DEF KernelTypes, SlotTypes, Slots, Late, Calls, WritesPrepared
<1>2. \A v \in Workers : worker'[v].activity = worker[v].activity
  BY Zenon, <1>0
<1>3. \A v \in Workers \ {w} : worker'[v].at = worker[v].at
  BY Zenon
<1>4. sends'[a] = sends[a] + 1 /\ \A b \in Activities \ {a} : sends'[b] = sends[b]
  BY Zenon, <1>1 DEF Sends, KernelTypes
<1>5. a \notin Idempotent => sends[a] = 0
  <2>1. CASE worker[w].at = "dispatched"
    BY Zenon, <2>1 DEF Calls, DispatchAlone
  <2>2. CASE worker[w].at = "started"
    BY Zenon, <1>0, <1>1, <2>2 DEF Calls, CallAlone, Single
  <2> QED BY Zenon, <1>0, <2>1, <2>2
<1>6. AtMostOneSend'
  <2> SUFFICES ASSUME NEW b \in Activities \ Idempotent PROVE sends'[b] <= 1
    BY Zenon DEF AtMostOneSend
  <2>1. CASE b = a
    BY <1>4, <1>5, <2>1
  <2>2. CASE b # a
    BY Zenon, <1>4, <2>2 DEF Calls, AtMostOneSend
  <2> QED BY Zenon, <2>1, <2>2
<1>7. \A v \in Workers : worker'[v].at \in {"call_started", "started", "prepared", "dispatched"} =>
        v # w /\ worker'[v].at = worker[v].at
  BY Zenon, <1>0, <1>3
<1>8. JournalKnows'
  <2> SUFFICES ASSUME NEW b \in Activities, Unsent(b)'
               PROVE  /\ b \in Effectful => sends'[b] = 0
                      /\ \A v \in Workers : worker[v].activity = b => worker'[v].at # "dispatched"
    BY Zenon, <1>2 DEF JournalKnows
  <2>1. /\ b \in Effectful => sends[b] = 0
        /\ \A v \in Workers : worker[v].activity = b => worker[v].at # "dispatched"
    BY Zenon DEF Calls, JournalKnows, KeepsHistory
  <2>2. b \in Effectful => b # a
    BY Zenon, <1>0, <2>1
  <2> QED BY Zenon, <1>4, <1>7, <2>1, <2>2
<1>9. WritesPrepared'
  BY Zenon, <1>2, <1>7 DEF Calls, WritesPrepared
<1>10. DispatchAlone'
  <2> SUFFICES ASSUME NEW v \in Workers, worker'[v].at = "dispatched"
               PROVE  /\ sends'[worker[v].activity] = 0
                      /\ \A u \in Workers : u # v /\ worker[u].activity = worker[v].activity =>
                           worker'[u].at # "dispatched"
    BY ZenonT(40), <1>2 DEF DispatchAlone
  <2>1. v # w /\ worker[v].at = "dispatched" /\ worker[v].activity \in Effectful
    BY Zenon, <1>7 DEF Calls, WritesPrepared
  <2>2. /\ sends[worker[v].activity] = 0
        /\ \A u \in Workers : u # v /\ worker[u].activity = worker[v].activity =>
             worker[u].at # "dispatched"
    BY Zenon, <2>1 DEF Calls, DispatchAlone
  <2>3. worker[v].activity # a
    BY Zenon, <1>0, <2>1, <2>2
  <2> QED BY Zenon, <1>4, <1>7, <2>1, <2>2, <2>3, EffectfulAssumption
<1>11. CallAlone'
  <2> SUFFICES ASSUME NEW v \in Workers, worker'[v].at \in {"call_started", "started"},
                      worker[v].activity \in Single
               PROVE  /\ sends'[worker[v].activity] = 0
                      /\ \A u \in Workers : u # v /\ worker[u].activity = worker[v].activity =>
                           worker'[u].at \notin {"call_started", "started"}
    BY Zenon, <1>2 DEF CallAlone
  <2>1. v # w /\ worker[v].at \in {"call_started", "started"}
    BY Zenon, <1>7
  <2>2. /\ sends[worker[v].activity] = 0
        /\ \A u \in Workers : u # v /\ worker[u].activity = worker[v].activity =>
             worker[u].at \notin {"call_started", "started"}
    BY Zenon, <2>1 DEF Calls, CallAlone
  <2>3. worker[v].activity # a
    <3>1. CASE worker[w].at = "started"
      BY Zenon, <2>1, <2>2, <3>1
    <3>2. CASE worker[w].at = "dispatched"
      BY Zenon, <1>1, <3>2 DEF Single
    <3> QED BY Zenon, <1>0, <3>1, <3>2
  <2>4. \A u \in Workers : u # v /\ worker[u].activity = worker[v].activity =>
          worker'[u].at \notin {"call_started", "started"}
    BY Zenon, <1>7, <2>2
  <2> QED BY Zenon, <1>4, <2>2, <2>3, <2>4 DEF Single
<1>12. StartedFirst'
  <2> SUFFICES ASSUME NEW b \in active' \ started'
               PROVE  /\ sends'[b] = 0
                      /\ \A v \in Workers : worker[v].activity = b => worker'[v].at \notin Late
    BY Zenon, <1>2 DEF StartedFirst
  <2>1. /\ sends[b] = 0
        /\ \A v \in Workers : worker[v].activity = b => worker[v].at \notin Late
    BY Zenon, NotCalled
  <2>2. b # a /\ b \in Activities
    BY Zenon, <1>1, <2>1 DEF KeepsHistory, KernelTypes, TypeOK
  <2> QED BY Zenon, <1>3, <1>4, <2>1, <2>2
<1> QED BY Zenon, <1>6, <1>8, <1>9, <1>10, <1>11, <1>12 DEF Calls

(* Every step keeps the calls in order.                                    *)
LEMMA StepSends ==
  ASSUME KernelTypes, Claims, Calls, KeepsHistory,
         UNCHANGED <<worker, callVars>> \/ \E w \in Workers : SlotStep(w)
  PROVE  Calls'
<1>1. CASE UNCHANGED <<worker, callVars>>
  BY Zenon, <1>1, QuietCalls DEF callVars
<1>2. ASSUME NEW w \in Workers, SlotStep(w)
      PROVE  Calls'
  <2>0. \A v \in Workers \ {w} : worker'[v] = worker[v]
    BY Zenon, <1>2 DEF SlotStep
  <2>1. CASE UNCHANGED sends /\ worker'[w].at \in Finished \cup {"idle", "claimed"}
    BY Zenon, <2>0, <2>1, QuietCalls
  <2>2. CASE Advances(w)
    <3>1. Idle.at = "idle" /\ UNCHANGED sends
      BY <2>2 DEF Idle, Advances, callVars
    <3>2. CASE \/ worker'[w] = Idle
               \/ \E from \in Phases \ {"idle"}, to \in Finished : Moves(w, from, to)
      BY Zenon, <2>1, <3>1, <3>2 DEF Moves
    <3> QED BY Zenon, <2>0, <2>2, <3>1, <3>2, StartCalls, DispatchCalls DEF Advances
  <2>3. ASSUME NEW a \in Activities, Takes(w, a)
        PROVE  Calls'
    BY Zenon, <2>1, <2>3 DEF Takes
  <2> QED BY Zenon, <1>2, <2>0, <2>2, <2>3, MarkCalls, SendCalls DEF SlotStep
<1> QED BY Zenon, <1>1, <1>2

-----------------------------------------------------------------------------
(* Failures and open questions.                                            *)

(* Commands about the Run or an Activity leave no open question behind     *)
(* while the Run goes on.                                                  *)
LEMMA CommandCertainty ==
  ASSUME RunInv, Certainty, LifecycleStep \/ ActivityStep
  PROVE  Certainty'
<1> USE DEF RunInv, TypeOK
<1>0. /\ op_state' = op_state /\ awaiting' = awaiting
      /\ wait_reason # None => status = "waiting"
      /\ None \notin UnknownReasons /\ awaiting \subseteq Operations
  BY Zenon, EffectFrame, NoneAssumption DEF effectVars, UnknownReasons, Books
<1>1. CASE LifecycleStep
  <2>1. ~Live' \/ (Live /\ wait_reason \notin UnknownReasons /\ active' = active)
    BY Zenon, <1>0, <1>1
       DEF LifecycleStep, CreateRun, StartRun, WaitRun, ResumeRun, CanRetryRun, RetryRun,
           CompleteRun, FailRunRetryable, FailRun, CancelRun, RunEnded, RunIs, Live, Terminal,
           activityVars, UnknownReasons
  <2>2. \A a \in Activities : settled'[a] = "failed" => settled[a] = "failed"
    BY Zenon, <1>1
       DEF LifecycleStep, CreateRun, StartRun, WaitRun, ResumeRun, RetryRun, CompleteRun,
           FailRunRetryable, FailRun, CancelRun, activityVars
  <2> QED BY Zenon, <1>0, <2>1, <2>2 DEF Certainty, RunningIsCertain
<1>2. ASSUME NEW a \in Activities,
             CompleteActivity(a) \/ \E c \in {"drift", "other"} : FailActivity(a, c)
      PROVE  Certainty'
  <2>1. /\ active' = active \ {a} /\ UNCHANGED <<status, wait_reason>>
        /\ op_state[a] \notin Uncertain /\ a \notin awaiting
    BY Zenon, <1>0, <1>2
       DEF CompleteActivity, FailActivity, CanCompleteActivity, CanFailActivity, ActivitySettled,
           lifecycleVars, Certainty, Uncertain, Operations
  <2>2. \A b \in Activities : settled'[b] = "failed" =>
          settled[b] = "failed" \/ op_state[b] \in {"absent", "prepared", "not_applied"}
    BY Zenon, <1>2 DEF CompleteActivity, FailActivity, CanFailActivity, ActivitySettled
  <2> QED BY Zenon, <1>0, <2>1, <2>2 DEF Certainty, RunningIsCertain, Live
<1>3. ASSUME NEW a \in Activities, MarkActivityOutcomeUnknown(a)
      PROVE  Certainty'
  <2>1. wait_reason' \in UnknownReasons
    BY Zenon, <1>3 DEF MarkActivityOutcomeUnknown, RunIs, UnknownReasons
  <2>2. \A b \in Activities : settled'[b] = "failed" => settled[b] = "failed"
    BY Zenon, <1>3 DEF MarkActivityOutcomeUnknown, ActivitySettled
  <2> QED BY Zenon, <1>0, <2>1, <2>2 DEF Certainty, RunningIsCertain
<1>4. ASSUME NEW a \in Activities,
             MarkActivityCallStarted(a) \/ \E s \in Subjects \cup {None} : RequestActivity(a, s)
      PROVE  Certainty'
  <2>1. active \subseteq active' /\ UNCHANGED <<status, wait_reason, settled>>
    BY Zenon, <1>4 DEF MarkActivityCallStarted, RequestActivity, lifecycleVars
  <2> QED BY Zenon, <1>0, <2>1 DEF Certainty, RunningIsCertain, Live
<1> QED BY Zenon, <1>1, <1>2, <1>3, <1>4 DEF ActivityStep

(* Dispatch opens a question about an active Activity only.                *)
LEMMA DispatchCertainty ==
  ASSUME RunInv, Certainty, NEW a \in Activities,
         \/ PrepareEffectOperation(a) \/ AbandonEffectResolution(a)
         \/ a \in active /\ StartEffectDispatch(a)
  PROVE  Certainty'
<1> USE DEF RunInv, TypeOK
<1>1. /\ UNCHANGED <<status, wait_reason, active, settled, awaiting>>
      /\ \A b \in Activities \ {a} : op_state'[b] = op_state[b]
  BY Zenon
     DEF PrepareEffectOperation, AbandonEffectResolution, StartEffectDispatch, lifecycleVars,
         activityVars
<1>2. \/ op_state'[a] = op_state[a]
      \/ op_state'[a] = "prepared" /\ op_state[a] = "absent"
      \/ op_state'[a] = "sending" /\ op_state[a] = "prepared" /\ a \in active
  BY Zenon
     DEF PrepareEffectOperation, AbandonEffectResolution, StartEffectDispatch, CanStartDispatch
<1>3. op_state'[a] = op_state[a] \/ a \notin awaiting
  BY Zenon, <1>2 DEF Certainty
<1>4. RunningIsCertain'
  BY Zenon, <1>1, <1>2, <1>3 DEF Certainty, RunningIsCertain, Live, Uncertain
<1>5. \A b \in Activities : settled'[b] = "failed" =>
        op_state'[b] \in {"absent", "prepared", "not_applied"}
  BY Zenon, <1>1, <1>2 DEF Certainty, NoActivityLost
<1>6. \A b \in awaiting' : op_state'[b] = "applied"
  BY Zenon, <1>1, <1>3 DEF Certainty
<1> QED BY Zenon, <1>4, <1>5, <1>6 DEF Certainty

(* A receipt neither reopens a question nor reverses a failure, and only   *)
(* the kernel's own proof answers an unsent operation (decide_effect).     *)
LEMMA ReceiptFacts ==
  ASSUME RunInv, Certainty, NEW a \in Activities, NEW o \in Observations,
         CanObserve(a, o), RecordReceipt(a, o),
         op_state[a] = "prepared" => o.source = "kernel_not_sent"
  PROVE  /\ \A b \in Activities \ {a} : op_state'[b] = op_state[b]
         /\ op_state'[a] = o.state
         /\ \A b : b # a => (b \in awaiting' <=> b \in awaiting)
         /\ a \in awaiting' <=> o.state = "applied" /\ ResultAfter(a, o) = None
         /\ op_state'[a] \in Uncertain \/ a \in awaiting' =>
              op_state[a] \in Uncertain \/ a \in awaiting
         /\ settled[a] = "failed" => op_state'[a] = "not_applied"
<1> USE DEF RunInv, TypeOK
<1>1. /\ \A b \in Activities \ {a} : op_state'[b] = op_state[b]
      /\ op_state'[a] = o.state
  BY Zenon DEF RecordReceipt
<1>2. /\ \A b : b # a => (b \in awaiting' <=> b \in awaiting)
      /\ a \in awaiting' <=> o.state = "applied" /\ ResultAfter(a, o) = None
  BY Zenon DEF RecordReceipt
<1>3. op_state[a] = "prepared" => o.state = "not_applied"
  BY Zenon DEF Observations
<1>4. op_state[a] \in FinalOp => o.state = op_state[a]
  BY Zenon DEF RecordReceipt, Contradicts
<1>5. op_state[a] \in Uncertain \cup FinalOp \cup {"prepared"}
  BY Zenon DEF CanObserve, OpStates, Uncertain, FinalOp
<1>6. op_state[a] = "applied" /\ a \notin awaiting => ResultAfter(a, o) # None
  BY Zenon DEF Books, ResultAfter
<1>7. op_state'[a] \in Uncertain \/ a \in awaiting' =>
        op_state[a] \in Uncertain \/ a \in awaiting
  BY Zenon, <1>1, <1>2, <1>3, <1>4, <1>5, <1>6 DEF Uncertain, FinalOp
<1>8. settled[a] = "failed" => op_state'[a] = "not_applied"
  BY Zenon, <1>1, <1>3, <1>4 DEF Certainty, CanObserve, FinalOp
<1> QED BY Zenon, <1>1, <1>2, <1>7, <1>8

(* Evidence settles its Activity by what it says, and ends the wait only   *)
(* when no other operation is open (OtherUnknown).                         *)
LEMMA EvidenceCertainty ==
  ASSUME RunInv, Certainty, NEW a \in Activities, NEW o \in Observations,
         \/ a \in active /\ RecordEffectObservation(a, o)
         \/ ResolveActivityOutcome(a, o) \/ SupplyActivityResult(a, o)
  PROVE  Certainty'
<1> USE DEF RunInv, TypeOK
<1>1. CASE RecordConflict(a, o)
  <2>1. /\ UNCHANGED <<settled, active, op_state, awaiting>>
        /\ ~Live' \/ wait_reason' \in UnknownReasons
    BY Zenon, <1>1
       DEF RecordConflict, activityVars, RunIs, UnknownReasons, Live
  <2> QED BY Zenon, <2>1 DEF Certainty, RunningIsCertain
<1>2. CASE /\ RecordReceipt(a, o) /\ CanObserve(a, o)
           /\ op_state[a] = "prepared" => o.source = "kernel_not_sent"
           /\ \/ a \in active /\ UNCHANGED <<lifecycleVars, activityVars>>
              \/ ApplyEvidence(a, o)
  <2>0. /\ \A b \in Activities \ {a} : op_state'[b] = op_state[b]
        /\ op_state'[a] = o.state
        /\ \A b : b # a => (b \in awaiting' <=> b \in awaiting)
        /\ a \in awaiting' <=> o.state = "applied" /\ ResultAfter(a, o) = None
        /\ op_state'[a] \in Uncertain \/ a \in awaiting' =>
             op_state[a] \in Uncertain \/ a \in awaiting
        /\ settled[a] = "failed" => op_state'[a] = "not_applied"
    BY Zenon, <1>2, ReceiptFacts
  <2>1. ASSUME NEW b \in awaiting'
        PROVE  op_state'[b] = "applied"
    <3>1. CASE b = a
      BY Zenon, <2>0, <2>1, <3>1
    <3>2. CASE b # a
      <4>1. b \in awaiting /\ b \in Activities
        BY Zenon, <2>0, <2>1, <3>2
      <4>2. op_state[b] = "applied"
        BY Zenon, <4>1 DEF Certainty
      <4> QED BY Zenon, <2>0, <3>2, <4>1, <4>2
    <3> QED BY Zenon, <3>1, <3>2
  <2>2. CASE UNCHANGED <<lifecycleVars, activityVars>>
    <3>1. RunningIsCertain'
      BY Zenon, <2>0, <2>2 DEF Certainty, RunningIsCertain, Live, lifecycleVars, activityVars
    <3>2. \A b \in Activities : settled'[b] = "failed" =>
            op_state'[b] \in {"absent", "prepared", "not_applied"}
      BY Zenon, <2>0, <2>2 DEF Certainty, activityVars
    <3> QED BY Zenon, <2>1, <3>1, <3>2 DEF Certainty
  <2>3. CASE wait_reason' \in UnknownReasons /\ UNCHANGED activityVars
    <3>1. RunningIsCertain'
      BY Zenon, <2>3 DEF RunningIsCertain
    <3>2. \A b \in Activities : settled'[b] = "failed" =>
            op_state'[b] \in {"absent", "prepared", "not_applied"}
      BY Zenon, <2>0, <2>3 DEF Certainty, activityVars
    <3> QED BY Zenon, <2>1, <3>1, <3>2 DEF Certainty
  <2>4. ASSUME NEW x, NEW c, ActivitySettled(a, x, c), ResumeIfResolved(a),
               op_state'[a] \notin Uncertain, a \notin awaiting',
               x = "failed" => op_state'[a] = "not_applied"
        PROVE  Certainty'
    <3>1. /\ active' = active \ {a} /\ settled'[a] = x
          /\ \A b \in Activities \ {a} : settled'[b] = settled[b]
      BY Zenon, <2>4 DEF ActivitySettled
    <3>2. \A b \in Activities : settled'[b] = "failed" =>
            op_state'[b] \in {"absent", "prepared", "not_applied"}
      BY Zenon, <2>0, <2>4, <3>1 DEF Certainty
    <3>3. CASE UNCHANGED <<status, wait_reason>>
      <4>1. RunningIsCertain'
        BY Zenon, <2>0, <2>4, <3>1, <3>3 DEF Certainty, RunningIsCertain, Live
      <4> QED BY Zenon, <2>1, <3>2, <4>1 DEF Certainty
    <3>4. CASE ~OtherUnknown(a)
      <4>1. \A b \in Activities \ {a} : op_state[b] \notin Uncertain /\ b \notin awaiting
        BY Zenon, <3>4 DEF OtherUnknown, Books, Operations, Uncertain
      <4>2. RunningIsCertain'
        BY Zenon, <2>0, <2>4, <4>1 DEF RunningIsCertain
      <4> QED BY Zenon, <2>1, <3>2, <4>2 DEF Certainty
    <3> QED BY Zenon, <2>4, <3>3, <3>4 DEF ResumeIfResolved
  <2>5. CASE ApplyEvidence(a, o)
    <3>1. \/ UNCHANGED <<lifecycleVars, activityVars>>
          \/ wait_reason' \in UnknownReasons /\ UNCHANGED activityVars
          \/ /\ o.state = "applied" /\ o.result # None
             /\ ActivitySettled(a, "succeeded", "none") /\ ResumeIfResolved(a)
          \/ /\ o.state = "not_applied"
             /\ ActivitySettled(a, "failed", "other") /\ ResumeIfResolved(a)
      BY Zenon, <2>5 DEF ApplyEvidence, RunIs, UnknownReasons
    <3>2. CASE /\ o.state = "applied" /\ o.result # None
               /\ ActivitySettled(a, "succeeded", "none") /\ ResumeIfResolved(a)
      <4>1. ResultAfter(a, o) # None
        BY Zenon, <3>2 DEF ResultAfter
      <4>2. op_state'[a] \notin Uncertain /\ a \notin awaiting'
        BY Zenon, <2>0, <3>2, <4>1 DEF Uncertain
      <4> QED BY Zenon, <2>4, <3>2, <4>2
    <3>3. CASE /\ o.state = "not_applied"
               /\ ActivitySettled(a, "failed", "other") /\ ResumeIfResolved(a)
      <4>1. op_state'[a] \notin Uncertain /\ a \notin awaiting' /\ op_state'[a] = "not_applied"
        BY Zenon, <2>0, <3>3 DEF Uncertain
      <4> QED BY Zenon, <2>4, <3>3, <4>1
    <3> QED BY Zenon, <2>2, <2>3, <3>1, <3>2, <3>3
  <2> QED BY Zenon, <1>2, <2>2, <2>5
<1> QED BY Zenon, <1>1, <1>2
        DEF RecordEffectObservation, ResolveActivityOutcome, SupplyActivityResult

(* Every step keeps failures proven and planning certain.                  *)
LEMMA StepCertainty ==
  ASSUME RunInv, Certainty, FormalStep \/ UNCHANGED runVars
  PROVE  Certainty'
<1>1. CASE UNCHANGED runVars
  BY Zenon, <1>1
     DEF Certainty, RunningIsCertain, Live, runVars, lifecycleVars, activityVars, effectVars
<1> QED BY Zenon, <1>1, CommandCertainty, DispatchCertainty, EvidenceCertainty DEF FormalStep

(* Operations are prepared for such handlers only (effect_service.invoke). *)
LEMMA StepWrites ==
  ASSUME TypeOK, WritesOnly, FormalStep \/ UNCHANGED runVars
  PROVE  WritesOnly'
<1> USE DEF WritesOnly, Operations
<1>1. CASE LifecycleStep \/ ActivityStep
  BY Zenon, <1>1, EffectFrame DEF effectVars
<1>2. CASE UNCHANGED runVars
  BY Zenon, <1>2 DEF runVars, effectVars
<1>3. ASSUME NEW a \in Effectful, op_state \in [Activities -> OpStates],
             \A b \in Activities \ {a} : op_state'[b] = op_state[b]
      PROVE  WritesOnly'
  BY Zenon, <1>3
<1>4. ASSUME NEW a \in Activities, NEW o \in Observations, EvidenceStep(a, o)
      PROVE  WritesOnly'
  BY Zenon, <1>3, <1>4 DEF EvidenceStep, CanObserve, RecordConflict, RecordReceipt, TypeOK
<1>5. ASSUME NEW a \in Activities,
             \/ a \in Effectful /\ PrepareEffectOperation(a)
             \/ StartEffectDispatch(a) \/ AbandonEffectResolution(a)
      PROVE  WritesOnly'
  BY Zenon, <1>3, <1>5
     DEF PrepareEffectOperation, StartEffectDispatch, CanStartDispatch, AbandonEffectResolution,
         TypeOK
<1> QED BY Zenon, <1>1, <1>2, <1>4, <1>5
        DEF FormalStep, EvidenceStep, RecordEffectObservation, ResolveActivityOutcome,
            SupplyActivityResult

-----------------------------------------------------------------------------
(* The theorems.                                                           *)

(* An empty kernel satisfies the invariant.                                *)
LEMMA KernelStart ==
  ASSUME KernelInit
  PROVE  KernelInv
<1> USE DEF KernelInit
<1>1. RunInv /\ TypeOK
  BY Zenon, InitialInv DEF RunInv
<1>2. /\ active = {} /\ settled = [a \in Activities |-> "none"] /\ awaiting = {}
      /\ op_state = [a \in Activities |-> "absent"]
  BY Zenon DEF Init
<1>3. RowTypes /\ RequestTypes /\ sends \in [Activities -> Nat]
  BY DEF RowTypes, RequestTypes
<1>4. Idle \in Slots /\ Idle.at = "idle" /\ Idle.activity = None
  BY DEF Idle, Slots, Phases
<1>5. SlotTypes
  BY Zenon, <1>4 DEF SlotTypes
<1>6. Rows
  BY Zenon, <1>2 DEF Rows, RowsAgree, Open
<1>7. \A w \in Workers : worker[w].activity = None /\ worker[w].at = "idle"
  BY Zenon, <1>4
<1>8. Claims
  BY Zenon, <1>7, NoneAssumption
     DEF Claims, ClaimsNumbered, ClaimsDistinct, NoRowNoWork, FirstClaim, MarkedFirst, Late
<1>9. AtMostOneSend
  BY DEF AtMostOneSend
<1>10. Calls
  BY Zenon, <1>2, <1>7, <1>9
     DEF Calls, JournalKnows, WritesPrepared, DispatchAlone, CallAlone, StartedFirst
<1>11. Certainty /\ WritesOnly
  BY Zenon, <1>2 DEF Certainty, RunningIsCertain, WritesOnly, Operations, Uncertain
<1> QED BY Zenon, <1>1, <1>3, <1>5, <1>6, <1>8, <1>10, <1>11 DEF KernelInv, KernelTypes

(* Every kernel step keeps the invariant.                                  *)
LEMMA KernelStep ==
  ASSUME KernelInv, [KernelNext]_vars
  PROVE  KernelInv'
<1>0. /\ KernelTypes /\ RunInv /\ Rows /\ Claims /\ Calls /\ Certainty /\ WritesOnly
      /\ TypeOK /\ RowsAgree
  BY Zenon DEF KernelInv, KernelTypes, Rows
<1>1. FormalStep \/ UNCHANGED runVars
  BY Zenon, <1>0, FormalSteps
<1>2. [Next]_runVars
  BY Zenon, <1>1, FormalNext
<1>3. RunInv' /\ TypeOK' /\ KeepsSettlements
  BY Zenon, <1>0, <1>2, StepInv, SettlementsKept DEF RunInv
<1>4. RowStep
  BY Zenon, <1>0, RowSteps
<1>5. /\ UNCHANGED <<worker, callVars>> \/ \E w \in Workers : SlotStep(w)
      /\ SlotTypes'
  BY Zenon, <1>0, SlotSteps
<1>6. /\ Rows'
      /\ task' \in [Activities -> Open \cup Outcomes \cup {"absent", "dead_lettered"}]
      /\ claimed_by' \in [Activities -> Workers \cup {None}]
      /\ leased' \subseteq Activities
      /\ \A a \in Activities : task'[a] = "absent" => task[a] = "absent"
  BY Zenon, <1>0, <1>3, <1>4, StepRows
<1>7. /\ claim_generation' \in [Activities -> Nat]
      /\ call_started_at' \subseteq Activities
      /\ sends' \in [Activities -> Nat]
  BY Zenon, <1>0, <1>5, StepCalls
<1>8. RequestTypes'
  BY Zenon, <1>0, <1>3, StepRequests
<1>9. KernelTypes'
  BY Zenon, <1>3, <1>5, <1>6, <1>7, <1>8 DEF KernelTypes, RowTypes
<1>10. KeepsHistory
  <2>1. /\ \A a \in Activities : Unsent(a)' => Unsent(a)
        /\ \A a \in active' : a \in started => a \in started'
    BY Zenon, <1>0, <1>1, CallHistory
  <2>2. \A a \in active' : a \in active \/ task[a] = "absent"
    BY Zenon, <1>0, <1>4, NewlyActive
  <2>3. active' \subseteq Activities
    BY Zenon, <1>3 DEF TypeOK
  <2> QED BY Zenon, <2>1, <2>2, <2>3 DEF KeepsHistory
<1>11. Claims'
  BY Zenon, <1>0, <1>5, <1>6, StepClaims
<1>12. Calls'
  BY Zenon, <1>0, <1>5, <1>10, StepSends
<1>13. Certainty' /\ WritesOnly'
  BY Zenon, <1>0, <1>1, StepCertainty, StepWrites
<1> QED BY Zenon, <1>3, <1>6, <1>9, <1>11, <1>12, <1>13 DEF KernelInv

(* KernelInv is inductive.                                                 *)
THEOREM KernelInvariance == KernelSpec => []KernelInv
<1>1. KernelInit => KernelInv
  BY Zenon, KernelStart
<1>2. KernelInv /\ [KernelNext]_vars => KernelInv'
  BY Zenon, KernelStep
<1> QED BY <1>1, <1>2, PTL DEF KernelSpec

(* The kernel implements the Run aggregate: seen through the aggregate's   *)
(* variables every behaviour of workers, timers, planner and reconciler is *)
(* one of accepted commands, so every theorem about the aggregate holds of *)
(* the kernel (the orchestrator's decide and append).                      *)
THEOREM KernelImplementsRun == KernelSpec => Spec
<1>1. KernelInit => Init
  BY Zenon DEF KernelInit
<1>2. KernelInv /\ [KernelNext]_vars => [Next]_runVars
  BY Zenon, FormalSteps, FormalNext DEF KernelInv, Rows
<1> QED BY <1>1, <1>2, KernelInvariance, PTL DEF KernelSpec, Spec

(* Task rows and formal history always agree (_write_critical_records).    *)
THEOREM RowsAgreeTheorem == KernelSpec => []RowsAgree
<1>1. KernelInv => RowsAgree
  BY Zenon DEF KernelInv, Rows
<1> QED BY <1>1, KernelInvariance, PTL

(* However many workers crash, lose leases and reclaim, a call that cannot *)
(* be repeated is made at most once (recovered_after_call_started,         *)
(* decide_effect).                                                         *)
THEOREM AtMostOneSendTheorem == KernelSpec => []AtMostOneSend
<1>1. KernelInv => AtMostOneSend
  BY Zenon DEF KernelInv, Calls
<1> QED BY <1>1, KernelInvariance, PTL

(* A failed write was never sent, or is known not to have been applied     *)
(* (_decide_FailActivity, decide_effect).                                  *)
THEOREM FailureIsProvenTheorem == KernelSpec => []FailureIsProven
<1>1. KernelInv => FailureIsProven
  <2> SUFFICES ASSUME KernelInv, NEW a \in Effectful, settled[a] = "failed", sends[a] > 0
               PROVE  op_state[a] = "not_applied"
    BY Zenon DEF FailureIsProven
  <2>1. a \in Activities /\ sends[a] # 0
    <3>1. a \in Activities
      BY Zenon, EffectfulAssumption
    <3> QED BY <3>1
  <2>2. ~Unsent(a)
    BY Zenon, <2>1 DEF KernelInv, Calls, JournalKnows
  <2> QED BY Zenon, <2>1, <2>2 DEF KernelInv, Certainty, Unsent
<1> QED BY <1>1, KernelInvariance, PTL

(* Unless the Run waits for evidence, every open question belongs to an    *)
(* Activity that is being executed (_decide_FailActivity, decide_effect).  *)
THEOREM RunningIsCertainTheorem == KernelSpec => []RunningIsCertain
<1>1. KernelInv => RunningIsCertain
  BY Zenon DEF KernelInv, Certainty
<1> QED BY <1>1, KernelInvariance, PTL

(* An unsent operation leaves that state by the dispatch of an active      *)
(* Activity or by a true proof that nothing was sent.                      *)
LEMMA UnsentStep ==
  ASSUME KernelInv, [KernelNext]_vars
  PROVE  ProvesUnsent
<1> SUFFICES ASSUME NEW a \in Activities, op_state[a] = "prepared", op_state'[a] # "prepared"
             PROVE  \/ op_state'[a] = "sending" /\ a \in active
                    \/ /\ op_state'[a] = "not_applied" /\ sends[a] = 0
                       /\ \A w \in Workers : worker[w].activity = a => ~At(w, "dispatched")
  BY Zenon DEF ProvesUnsent
<1>0. op_state \in [Activities -> OpStates]
  BY Zenon DEF KernelInv, KernelTypes, TypeOK
<1>1. FormalStep
  <2>1. ~UNCHANGED runVars
    BY Zenon DEF runVars, effectVars
  <2> QED BY Zenon, <2>1, FormalSteps DEF KernelInv, Rows
<1>2. ~(LifecycleStep \/ ActivityStep)
  BY Zenon, EffectFrame DEF effectVars
<1>3. PICK b \in Activities :
        \/ PrepareEffectOperation(b) \/ AbandonEffectResolution(b)
        \/ b \in active /\ StartEffectDispatch(b)
        \/ \E o \in Observations :
             \/ RecordEffectObservation(b, o) \/ ResolveActivityOutcome(b, o)
             \/ SupplyActivityResult(b, o)
  BY Zenon, <1>1, <1>2 DEF FormalStep
<1>4. CASE PrepareEffectOperation(b) \/ AbandonEffectResolution(b)
  BY Zenon, <1>0, <1>4 DEF PrepareEffectOperation, AbandonEffectResolution
<1>5. CASE b \in active /\ StartEffectDispatch(b)
  BY Zenon, <1>0, <1>5 DEF StartEffectDispatch
<1>6. ASSUME NEW o \in Observations,
             \/ RecordEffectObservation(b, o) \/ ResolveActivityOutcome(b, o)
             \/ SupplyActivityResult(b, o)
      PROVE  op_state'[a] = "not_applied"
  <2>1. RecordReceipt(b, o) \/ UNCHANGED op_state
    BY Zenon, <1>6
       DEF RecordEffectObservation, ResolveActivityOutcome, SupplyActivityResult, RecordConflict
  <2>2. a = b /\ op_state'[a] = o.state
    BY Zenon, <1>0, <2>1 DEF RecordReceipt
  <2>3. o.source = "kernel_not_sent"
    BY Zenon, <1>6, <2>2
       DEF RecordEffectObservation, ResolveActivityOutcome, SupplyActivityResult
  <2> QED BY Zenon, <2>2, <2>3 DEF Observations
<1>7. sends[a] = 0 /\ \A w \in Workers : worker[w].activity = a => ~At(w, "dispatched")
  <2>1. Unsent(a) /\ a \in Effectful
    BY Zenon DEF KernelInv, WritesOnly, Operations, Unsent
  <2> QED BY Zenon, <2>1 DEF KernelInv, Calls, JournalKnows, At
<1> QED BY Zenon, <1>3, <1>4, <1>5, <1>6, <1>7

(* The reconciler's proof that a write was not sent is always true         *)
(* (claim_request, authorize_effect_command).                              *)
THEOREM NotSentTheorem == KernelSpec => NotSentIsTrue
<1>1. KernelInv /\ [KernelNext]_vars => ProvesUnsent
  BY Zenon, UnsentStep
<1> QED BY <1>1, KernelInvariance, PTL DEF KernelSpec, NotSentIsTrue

(* Timeouts and dead letters settle Activities without a started call.     *)
LEMMA FailureStep ==
  ASSUME KernelInv, [KernelNext]_vars
  PROVE  FailsUncalled
<1> SUFFICES ASSUME NEW a \in Activities \ Idempotent, inbox' # inbox,
                    settled[a] = "none", settled'[a] = "failed"
             PROVE  sends[a] = 0
  BY Zenon DEF FailsUncalled
<1>0. settled \in [Activities -> Outcomes \cup {"none"}] /\ settled' # settled
  BY Zenon DEF KernelInv, KernelTypes, TypeOK
<1>1. SettlementStep
  BY Zenon
     DEF KernelNext, PlannerStep, PlanRun, PlanActivity, ClientStep, Accepted, WorkerStep,
         ClaimTask, DeferTask, WorkerStops, ClassifyRecovery, MarkRowCallStarted,
         SubmitCallStarted, HandlerReturns, HandlerCalls, HandlerRefuses, SubmitOutcome,
         EffectCallStep, ReadJournal, PrepareOperation, DispatchOperation, SendOperation,
         RecordObservation, DeferObservation, LoseObservation, ClockStep, LeaseExpires,
         TimeoutPasses,
         ReconcilerStep, SubmitRequest, ClaimRequest, RequestLapses, GiveUpRequest,
         FinishRequest, FailRequest, vars, kernelVars
<1>2. PICK b \in Activities :
        \/ ~Redirects(b) /\ FailActivity(b, "other")
        \/ MarkActivityOutcomeUnknown(b)
  BY Zenon, <1>0, <1>1
     DEF SettlementStep, DeadLetterTask, FireTimer, ProcessFailure, ProcessTimeoutUnknown,
         runVars, activityVars
<1>3. a = b /\ ~Redirects(a) /\ a \in active
  BY Zenon, <1>0, <1>2
     DEF FailActivity, CanFailActivity, MarkActivityOutcomeUnknown, ActivitySettled
<1>4. generation[a] = retry_generation
  BY Zenon, <1>3 DEF KernelInv, Rows
<1>5. a \in active \ started
  BY Zenon, <1>3, <1>4 DEF Redirects
<1> QED BY Zenon, <1>5 DEF KernelInv, Calls, StartedFirst

(* A timeout or dead letter never declares a call failed that may have     *)
(* been made and cannot be repeated (redirect).                            *)
THEOREM FailureNotAssumedTheorem == KernelSpec => FailureNotAssumed
<1>1. KernelInv /\ [KernelNext]_vars => FailsUncalled
  BY Zenon, FailureStep
<1> QED BY <1>1, KernelInvariance, PTL DEF KernelSpec, FailureNotAssumed

(* What takes a leased Activity whose time is not up out of the active set.*)
LEMMA LeaseStep ==
  ASSUME KernelInv, [KernelNext]_vars
  PROVE  RespectsLeases
<1> SUFFICES ASSUME NEW a \in Activities, a \in active, a \in leased, a \notin timed_out,
                    a \notin active'
             PROVE  \/ status' \in Terminal
                    \/ op_receipts'[a] # op_receipts[a]
                    \/ \E w \in Workers :
                         /\ claimed_by[a] = w /\ worker[w].activity = a
                         /\ worker[w].claim = claim_generation[a] /\ worker'[w] = Idle
  BY Zenon DEF RespectsLeases
<1>0. task[a] \in {"claimed", "call_started"}
  BY Zenon DEF KernelInv, Rows
<1>1. CASE PlannerStep \/ ClientStep
  <2>1. LifecycleStep \/ \E b \in Activities : PlanActivity(b)
    BY Zenon, <1>1 DEF PlannerStep, PlanRun, ClientStep, Accepted, LifecycleStep
  <2>2. LifecycleStep
    BY Zenon, <2>1 DEF PlanActivity, RequestActivity
  <2> QED BY Zenon, <2>2
          DEF LifecycleStep, CreateRun, StartRun, WaitRun, ResumeRun, RetryRun, CompleteRun,
              FailRunRetryable, FailRun, CancelRun, RunEnded, RunIs, activityVars, Terminal
<1>2. CASE WorkerStep
  <2>1. PICK w \in Workers : SubmitOutcome(w)
    BY Zenon, <1>2
       DEF WorkerStep, ClaimTask, DeferTask, WorkerStops, ClassifyRecovery, MarkRowCallStarted,
           SubmitCallStarted, MarkActivityCallStarted, HandlerReturns, HandlerCalls,
           HandlerRefuses, runVars, activityVars
  <2>2. active' = active \ {worker[w].activity}
    BY Zenon, <2>1
       DEF SubmitOutcome, CompleteActivity, FailActivity, MarkActivityOutcomeUnknown,
           ActivitySettled
  <2>3. worker[w].activity = a
    BY Zenon, <2>2
  <2>4. worker'[w] = Idle
    BY Zenon, <2>1 DEF SubmitOutcome, KernelInv, KernelTypes, SlotTypes
  <2>5. claimed_by[a] = w /\ claim_generation[a] = worker[w].claim
    BY Zenon, <2>1, <2>3 DEF SubmitOutcome, Owned
  <2> QED BY Zenon, <2>3, <2>4, <2>5
<1>3. CASE EffectCallStep
  BY Zenon, <1>3
     DEF EffectCallStep, ReadJournal, PrepareOperation, DispatchOperation, SendOperation,
         RecordObservation, DeferObservation, LoseObservation, PrepareEffectOperation,
           StartEffectDispatch,
         RecordEffectObservation, RecordConflict, runVars, activityVars
<1>4. CASE SettlementStep
  <2>1. PICK b \in Activities :
          \/ FailActivity(b, "other") /\ \E kind \in {"timeout", "dead_letter"} : Trusted(kind, b)
          \/ MarkActivityOutcomeUnknown(b) /\ Trusted("timeout_unknown", b)
    BY Zenon, <1>4
       DEF SettlementStep, DeadLetterTask, FireTimer, ProcessFailure, ProcessTimeoutUnknown,
           runVars, activityVars
  <2>2. a = b
    BY Zenon, <2>1 DEF FailActivity, MarkActivityOutcomeUnknown, ActivitySettled
  <2>3. ASSUME NEW kind \in {"timeout", "dead_letter", "timeout_unknown"}, Trusted(kind, a)
        PROVE  FALSE
    BY Zenon, <1>0, <2>3 DEF Trusted
  <2> QED BY Zenon, <2>1, <2>2, <2>3
<1>5. CASE ReconcilerStep
  <2>1. PICK q \in requests : FinishRequest(q)
    BY Zenon, <1>5
       DEF ReconcilerStep, SubmitRequest, ClaimRequest, RequestLapses, GiveUpRequest, FailRequest,
           runVars, activityVars
  <2>3. q.operation \in Activities /\ q.kind \in Kinds
    BY Zenon DEF KernelInv, KernelTypes, RequestTypes, RequestRows
  <2>4. q.kind # "abandon"
    <3>1. SUFFICES ASSUME q.kind = "abandon" PROVE FALSE
      BY Zenon
    <3>2. AbandonEffectResolution(q.operation)
      BY <2>1, <3>1 DEF FinishRequest, Resolve
    <3> QED BY Zenon, <3>2 DEF AbandonEffectResolution, activityVars
  <2>5. q.obs \in Observations
    BY Zenon, <2>1, <2>4 DEF FinishRequest, KernelInv, KernelTypes, RequestTypes, Answered
  <2>6. EvidenceStep(q.operation, q.obs)
    <3>1. ResolveActivityOutcome(q.operation, q.obs) \/ SupplyActivityResult(q.operation, q.obs)
      BY <2>1, <2>4 DEF FinishRequest, Resolve
    <3> QED BY Zenon, <3>1 DEF EvidenceStep, ResolveActivityOutcome, SupplyActivityResult
  <2>7. EvidenceSettles(q.operation, q.obs)
    BY Zenon, <2>3, <2>5, <2>6, EvidenceOutcome DEF KernelInv, KernelTypes
  <2>8. a = q.operation
    BY Zenon, <2>7 DEF EvidenceSettles, ActivitySettled, activityVars
  <2>9. q.obs.receipt \notin op_receipts[a] /\ q.obs.receipt \in op_receipts'[a]
    <3>1. op_receipts' = [op_receipts EXCEPT ![a] = @ \cup {q.obs.receipt}]
      BY Zenon, <2>6, <2>8 DEF EvidenceStep, RecordConflict, RecordReceipt, NewReceipt
    <3>2. op_receipts \in [Activities -> SUBSET Receipts]
      BY Zenon DEF KernelInv, KernelTypes, TypeOK
    <3>3. q.obs.receipt \notin op_receipts[a]
      BY Zenon, <2>6, <2>8 DEF EvidenceStep, CanObserve
    <3> QED BY Zenon, <3>1, <3>2, <3>3
  <2> QED BY Zenon, <2>9
<1>6. CASE ClockStep \/ UNCHANGED vars
  BY Zenon, <1>6 DEF ClockStep, LeaseExpires, TimeoutPasses, vars, runVars, activityVars
<1> QED BY Zenon, <1>1, <1>2, <1>3, <1>4, <1>5, <1>6 DEF KernelNext

(* Nobody but the holder of a lease, the end of the Run or evidence        *)
(* settles a leased Activity in time (authorize_activity_command).         *)
THEOREM LeaseExcludesTheorem == KernelSpec => LeaseExcludes
<1>1. KernelInv /\ [KernelNext]_vars => RespectsLeases
  BY Zenon, LeaseStep
<1> QED BY <1>1, KernelInvariance, PTL DEF KernelSpec, LeaseExcludes

=============================================================================
