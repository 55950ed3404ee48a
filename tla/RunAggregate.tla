----------------------------- MODULE RunAggregate -----------------------------
(***************************************************************************)
(* The Run aggregate of the execution kernel: the pure decider of          *)
(* domain/execution/run.py together with the external-effect decider of    *)
(* domain/execution/effect.py.  One action is one accepted command that    *)
(* emits events, that is, decide() followed by evolve() of every event it  *)
(* returns.  A command that is rejected or absorbed as a duplicate emits   *)
(* nothing and is a stuttering step here; modules that compose the         *)
(* aggregate use the CanX guards to tell acceptance from rejection.        *)
(*                                                                         *)
(* An Activity identity is requested at most once, so an Activity has one  *)
(* generation and at most one effect operation: both are kept as functions *)
(* of the Activity.                                                        *)
(***************************************************************************)
EXTENDS Naturals, Sequences, FiniteSets

CONSTANTS
  Activities,      \* Activity identities
  Effectful,       \* the Activities whose handler writes through the effect service
  Approvals,       \* approval identities
  Subjects,        \* digests of tool approval subjects
  Refreshes,       \* identities of tool-intent renewals
  PrepareOf,       \* [Refreshes -> Activities]: uuid5(refresh_id, "prepare")
  ReplacementOf,   \* [Refreshes -> Activities]: uuid5(refresh_id, "replacement")
  Receipts,        \* receipt identities of external observations
  Results,         \* references to stored result material
  None,            \* the absent value (Python's None)
  MaxRetries,      \* the planner's retry budget (max_retries)
  MaxRenewals,     \* renewals one intent may have (20 in the code)
  MaxRequests      \* bound on the approval requests of one behaviour

ASSUME NoneAssumption ==
  /\ None \notin Activities /\ None \notin Approvals
  /\ None \notin Subjects /\ None \notin Results
  /\ None \notin Nat
  /\ None \notin {"external_outcome_unknown", "result_material_missing",
                  "drift", "approval", "retry"}

ASSUME EffectfulAssumption == Effectful \subseteq Activities

ASSUME BoundAssumption ==
  MaxRetries \in Nat /\ MaxRenewals \in Nat /\ MaxRequests \in Nat

\* The uuid5 identities that two renewals derive are different.
ASSUME RefreshAssumption ==
  /\ PrepareOf \in [Refreshes -> Activities] /\ ReplacementOf \in [Refreshes -> Activities]
  /\ \A r, q \in Refreshes :
       r # q => {PrepareOf[r], ReplacementOf[r]} \cap {PrepareOf[q], ReplacementOf[q]} = {}

VARIABLES
  status, wait_reason, retry_generation,
  active,          \* active_activity_ids
  started,         \* started_activity_ids
  generation,      \* activity_generations: None until requested
  settled,         \* settled_activities: "none" until settled
  failure,         \* activity_failure_codes, "drift" standing for the renewable ones
  subject,         \* activity_subjects
  refreshes,       \* tool_intent_refreshes
  pending,         \* pending_approval_id
  pending_subject, \* pending_approval_subject_digest
  decision,        \* approval_decisions
  approval_subjects,
  op_state,        \* state of the Activity's effect operation, "absent" before Prepare
  op_revision, op_receipts, op_result,
  awaiting,        \* operations with awaiting_result
  abandoned,       \* operations with abandoned
  conflicts        \* operations with integrity_conflict

lifecycleVars == <<status, wait_reason, retry_generation>>
activityVars  == <<active, started, generation, settled, failure, subject>>
approvalVars  == <<pending, pending_subject, decision, approval_subjects>>
effectVars    == <<op_state, op_revision, op_receipts, op_result,
                   awaiting, abandoned, conflicts>>
runVars       == <<lifecycleVars, activityVars, approvalVars, refreshes, effectVars>>

Statuses   == {"new", "queued", "running", "waiting", "completed", "failed", "cancelled"}
Terminal   == {"completed", "failed", "cancelled"}
\* "drift" stands for the reasons the planners pass to WaitRun: contract_changed,
\* authorization_changed and tool_intent_refresh_failed.
\* The reasons that only evidence about the outside world may end.
UnknownReasons == {"external_outcome_unknown", "result_material_missing"}
Reasons    == UnknownReasons \cup {"drift", "approval", "retry"}
Outcomes   == {"succeeded", "failed", "unknown", "cancelled"}
OpStates   == {"absent", "prepared", "sending", "pending", "unknown", "applied", "not_applied"}
Uncertain  == {"sending", "pending", "unknown"}
FinalOp    == {"applied", "not_applied"}

\* An EffectObservation that passes _paired_result.  Every source but the
\* kernel's own proof that nothing was sent is treated alike.
Observations ==
  {o \in [receipt : Receipts, state : {"pending", "unknown", "applied", "not_applied"},
          source : {"observed", "kernel_not_sent"}, result : Results \cup {None}] :
     o.source = "kernel_not_sent" => o.state = "not_applied"}

RefreshRecords ==
  [refresh : Refreshes, activity : Activities, root : Activities,
   expected : Subjects \cup {None}, generation : Nat]

Live == status \notin Terminal
Quarantined == conflicts # {}
Operations == {a \in Activities : op_state[a] # "absent"}

Init ==
  /\ status = "new" /\ wait_reason = None /\ retry_generation = 0
  /\ active = {} /\ started = {}
  /\ generation = [a \in Activities |-> None]
  /\ settled = [a \in Activities |-> "none"]
  /\ failure = [a \in Activities |-> "none"]
  /\ subject = [a \in Activities |-> None]
  /\ refreshes = <<>>
  /\ pending = None /\ pending_subject = None
  /\ decision = [p \in Approvals |-> "none"]
  /\ approval_subjects = <<>>
  /\ op_state = [a \in Activities |-> "absent"]
  /\ op_revision = [a \in Activities |-> 0]
  /\ op_receipts = [a \in Activities |-> {}]
  /\ op_result = [a \in Activities |-> None]
  /\ awaiting = {} /\ abandoned = {} /\ conflicts = {}

-----------------------------------------------------------------------------
(* Events, as evolve() applies them to the variables they own.             *)

RunIs(s, r) ==                       \* RunStarted, RunWaiting, RunResumed, ...
  status' = s /\ wait_reason' = r

ActivitySettled(a, outcome, code) ==
  /\ active' = active \ {a}
  /\ started' = started \ {a}
  /\ settled' = [settled EXCEPT ![a] = outcome]
  /\ failure' = [failure EXCEPT ![a] = code]
  /\ UNCHANGED <<generation, subject>>

\* Mutant of RunEnded: the pending approval survives the Run.
RunEndedKeepsApproval(s) ==
  /\ RunIs(s, None)
  /\ active' = {} /\ started' = {}
  /\ UNCHANGED <<retry_generation, generation, subject, pending, pending_subject>>

\* RunCompleted, RunFailed and RunCancelled clear the live state of the Run.
RunEnded(s) ==
  /\ RunIs(s, None)
  /\ active' = {} /\ started' = {}
  /\ pending' = None /\ pending_subject' = None
  /\ UNCHANGED <<retry_generation, generation, subject>>

-----------------------------------------------------------------------------
(* Lifecycle commands.                                                     *)

CreateRun ==
  /\ status = "new"
  /\ RunIs("queued", None)
  /\ UNCHANGED <<retry_generation, activityVars, approvalVars, refreshes, effectVars>>

StartRun ==
  /\ status = "queued" /\ ~Quarantined
  /\ RunIs("running", None)
  /\ UNCHANGED <<retry_generation, activityVars, approvalVars, refreshes, effectVars>>

WaitRun ==
  /\ status = "running"
  /\ RunIs("waiting", "drift")
  /\ UNCHANGED <<retry_generation, activityVars, approvalVars, refreshes, effectVars>>

ResumeRun ==
  /\ status = "waiting" /\ ~Quarantined
  /\ wait_reason \notin UnknownReasons \cup {"retry"}
  /\ RunIs("running", None)
  /\ UNCHANGED <<retry_generation, activityVars, approvalVars, refreshes, effectVars>>

CanRetryRun ==
  /\ status = "waiting" /\ wait_reason = "retry"
  /\ active = {} /\ ~Quarantined

RetryRun ==
  /\ CanRetryRun
  /\ RunIs("queued", None)
  /\ retry_generation' = retry_generation + 1
  /\ UNCHANGED <<activityVars, approvalVars, refreshes, effectVars>>

CompleteRun ==
  /\ status = "running" /\ active = {} /\ ~Quarantined
  /\ RunEnded("completed")
  /\ UNCHANGED <<settled, failure, decision, approval_subjects, refreshes, effectVars>>

\* A retryable failure leaves a pending approval in place; MaxRetries is the
\* planner's own test before it asks for a retryable failure.
FailRunRetryable ==
  /\ status \in {"running", "waiting"} /\ ~Quarantined
  /\ wait_reason \notin UnknownReasons
  /\ retry_generation < MaxRetries
  /\ RunIs("waiting", "retry")
  /\ UNCHANGED <<retry_generation, activityVars, approvalVars, refreshes, effectVars>>

FailRun ==
  /\ status \in {"running", "waiting"}
  /\ RunEnded("failed")
  /\ UNCHANGED <<settled, failure, decision, approval_subjects, refreshes, effectVars>>

CancelRun ==
  /\ status \in {"queued", "running", "waiting"}
  /\ RunEnded("cancelled")
  /\ settled' = [a \in Activities |-> IF a \in active THEN "cancelled" ELSE settled[a]]
  /\ failure' = [a \in Activities |-> IF a \in active THEN "other" ELSE failure[a]]
  /\ UNCHANGED <<decision, approval_subjects, refreshes, effectVars>>

-----------------------------------------------------------------------------
(* Approvals.                                                              *)

RequestApproval(p, a, s) ==
  /\ status = "running" /\ active = {} /\ ~Quarantined
  /\ decision[p] = "none"
  /\ Len(approval_subjects) < MaxRequests
  /\ RunIs("waiting", "approval")
  /\ pending' = p /\ pending_subject' = s
  /\ approval_subjects' = IF s = None THEN approval_subjects
                          ELSE Append(approval_subjects, <<p, a, s>>)
  /\ UNCHANGED <<retry_generation, activityVars, decision, refreshes, effectVars>>

\* Mutant of AwaitsDecision: any approval may be decided while one is awaited.
AwaitsAnyDecision(p) == status = "waiting" /\ wait_reason = "approval"

AwaitsDecision(p) == status = "waiting" /\ wait_reason = "approval" /\ pending = p

ExpireApproval(p) ==
  /\ AwaitsDecision(p)
  /\ decision' = [decision EXCEPT ![p] = "expired"]
  /\ RunEnded("cancelled")
  /\ UNCHANGED <<settled, failure, approval_subjects, refreshes, effectVars>>

ApproveRequest(p, s) ==
  /\ AwaitsDecision(p) /\ pending_subject = s /\ ~Quarantined
  /\ decision' = [decision EXCEPT ![p] = "approved"]
  /\ RunIs("running", None)
  /\ pending' = None /\ pending_subject' = None
  /\ UNCHANGED <<retry_generation, activityVars, approval_subjects, refreshes, effectVars>>

RejectRequest(p, s) ==
  /\ AwaitsDecision(p) /\ pending_subject = s /\ ~Quarantined
  /\ decision' = [decision EXCEPT ![p] = "rejected"]
  /\ RunEnded("cancelled")
  /\ UNCHANGED <<settled, failure, approval_subjects, refreshes, effectVars>>

-----------------------------------------------------------------------------
(* Activities.                                                             *)

\* Positions of the approved subjects bound to Activity a.
BoundTo(a) ==
  {i \in 1..Len(approval_subjects) :
     approval_subjects[i][2] = a /\ decision[approval_subjects[i][1]] = "approved"}

Latest(S) == CHOOSE i \in S : \A j \in S : j <= i

MatchesApproval(a, s) ==
  BoundTo(a) # {} => s = approval_subjects[Latest(BoundTo(a))][3]

\* Mutant of RequestActivity: the approved subject is not compared.
RequestActivityUnmatched(a, s) ==
  /\ status = "running" /\ ~Quarantined
  /\ a \notin active /\ settled[a] = "none"
  /\ active' = active \cup {a}
  /\ generation' = [generation EXCEPT ![a] = retry_generation]
  /\ subject' = [subject EXCEPT ![a] = s]
  /\ UNCHANGED <<lifecycleVars, started, settled, failure, approvalVars, refreshes, effectVars>>

RequestActivity(a, s) ==
  /\ status = "running" /\ ~Quarantined
  /\ a \notin active /\ settled[a] = "none"
  /\ MatchesApproval(a, s)
  /\ active' = active \cup {a}
  /\ generation' = [generation EXCEPT ![a] = retry_generation]
  /\ subject' = [subject EXCEPT ![a] = s]
  /\ UNCHANGED <<lifecycleVars, started, settled, failure, approvalVars, refreshes, effectVars>>

\* Mutant of CanMarkCallStarted: the Activity need not be active.
CanMarkAnyCallStarted(a) == Live

CanMarkCallStarted(a) == Live /\ a \in active

MarkActivityCallStarted(a) ==
  /\ CanMarkCallStarted(a)
  /\ started' = started \cup {a}
  /\ UNCHANGED <<lifecycleVars, active, generation, settled, failure, subject,
                 approvalVars, refreshes, effectVars>>

\* Mutant of CanCompleteActivity: the operation's evidence is not consulted.
CanCompleteWithoutEvidence(a) == Live /\ a \in active

CanCompleteActivity(a) ==
  /\ Live /\ a \in active
  /\ op_state[a] # "absent" =>
       op_state[a] = "applied" /\ a \notin awaiting /\ a \notin conflicts

CompleteActivity(a) ==
  /\ CanCompleteActivity(a)
  /\ ActivitySettled(a, "succeeded", "none")
  /\ UNCHANGED <<lifecycleVars, approvalVars, refreshes, effectVars>>

\* Mutant of CanFailActivity: the operation's evidence is not consulted.
CanFailWithoutEvidence(a) == Live /\ a \in active

CanFailActivity(a) ==
  Live /\ a \in active /\ op_state[a] \in {"absent", "prepared", "not_applied"}

FailActivity(a, code) ==
  /\ CanFailActivity(a)
  /\ ActivitySettled(a, "failed", code)
  /\ UNCHANGED <<lifecycleVars, approvalVars, refreshes, effectVars>>

CanMarkOutcomeUnknown(a) == Live /\ a \in active

MarkActivityOutcomeUnknown(a) ==
  /\ CanMarkOutcomeUnknown(a)
  /\ ActivitySettled(a, "unknown", "other")
  /\ RunIs("waiting", "external_outcome_unknown")
  /\ UNCHANGED <<retry_generation, approvalVars, refreshes, effectVars>>

-----------------------------------------------------------------------------
(* Renewal of a tool intent whose contract or authorization drifted.       *)

\* Renewals of this generation that produced Activity a.
Producing(a) ==
  {i \in 1..Len(refreshes) :
     /\ a \in {PrepareOf[refreshes[i].refresh], ReplacementOf[refreshes[i].refresh]}
     /\ refreshes[i].generation = retry_generation}

RootOf(a) == IF Producing(a) = {} THEN a ELSE refreshes[Latest(Producing(a))].root

RenewalsOf(root) ==
  {i \in 1..Len(refreshes) :
     refreshes[i].root = root /\ refreshes[i].generation = retry_generation}

\* No renewal of the intent is newer than the one that produced a.
NotSuperseded(a) ==
  IF Producing(a) = {} THEN RenewalsOf(RootOf(a)) = {}
  ELSE Latest(RenewalsOf(RootOf(a))) = Latest(Producing(a))

RecordedSubject(a) ==
  IF subject[a] = None /\ Producing(a) # {}
       /\ a = PrepareOf[refreshes[Latest(Producing(a))].refresh]
  THEN refreshes[Latest(Producing(a))].expected
  ELSE subject[a]

RefreshToolIntent(r, a, s) ==
  /\ \A i \in 1..Len(refreshes) : refreshes[i].refresh # r
  /\ status = "waiting" /\ wait_reason = "drift"
  /\ active = {} /\ ~Quarantined
  /\ settled[a] = "failed" /\ generation[a] = retry_generation
  /\ NotSuperseded(a)
  /\ s = RecordedSubject(a)
  /\ failure[a] = "drift"
  /\ op_state[a] \in {"absent", "prepared", "not_applied"}
  /\ Cardinality({i \in 1..Len(refreshes) : refreshes[i].root = RootOf(a)}) < MaxRenewals
  /\ refreshes' = Append(refreshes, [refresh |-> r, activity |-> a, root |-> RootOf(a),
                                     expected |-> s, generation |-> retry_generation])
  /\ RunIs("running", None)
  /\ UNCHANGED <<retry_generation, activityVars, approvalVars, effectVars>>

-----------------------------------------------------------------------------
(* External effects (decide_effect, evolve_effect).                        *)

PrepareEffectOperation(a) ==
  /\ ~Quarantined /\ Live
  /\ op_state[a] = "absent" /\ a \in active
  /\ op_state' = [op_state EXCEPT ![a] = "prepared"]
  /\ op_revision' = [op_revision EXCEPT ![a] = 1]
  /\ UNCHANGED <<lifecycleVars, activityVars, approvalVars, refreshes,
                 op_receipts, op_result, awaiting, abandoned, conflicts>>

CanStartDispatch(a) ==
  ~Quarantined /\ Live /\ op_state[a] = "prepared" /\ a \notin abandoned

StartEffectDispatch(a) ==
  /\ CanStartDispatch(a)
  /\ op_state' = [op_state EXCEPT ![a] = "sending"]
  /\ op_revision' = [op_revision EXCEPT ![a] = @ + 1]
  /\ UNCHANGED <<lifecycleVars, activityVars, approvalVars, refreshes,
                 op_receipts, op_result, awaiting, abandoned, conflicts>>

AbandonEffectResolution(a) ==
  /\ op_state[a] # "absent" /\ a \notin abandoned
  /\ abandoned' = abandoned \cup {a}
  /\ op_revision' = [op_revision EXCEPT ![a] = @ + 1]
  /\ UNCHANGED <<lifecycleVars, activityVars, approvalVars, refreshes,
                 op_state, op_receipts, op_result, awaiting, conflicts>>

\* Mutant of Contradicts: a different result is no contradiction.
ContradictsStateOnly(a, o) == op_state[a] \in FinalOp /\ o.state # op_state[a]

\* An observation disagrees with a final outcome already on record.
Contradicts(a, o) ==
  /\ op_state[a] \in FinalOp
  /\ \/ o.state # op_state[a]
     \/ op_result[a] # None /\ o.result # None /\ o.result # op_result[a]

NewReceipt(a, o) ==
  /\ op_receipts' = [op_receipts EXCEPT ![a] = @ \cup {o.receipt}]
  /\ op_revision' = [op_revision EXCEPT ![a] = @ + 1]

\* EffectIntegrityConflict, and the RunWaiting that quarantines a live Run.
RecordConflict(a, o) ==
  /\ Contradicts(a, o)
  /\ NewReceipt(a, o)
  /\ conflicts' = conflicts \cup {a}
  /\ IF Live THEN RunIs("waiting", "external_outcome_unknown")
     ELSE UNCHANGED <<status, wait_reason>>
  /\ UNCHANGED <<retry_generation, activityVars, approvalVars, refreshes,
                 op_state, op_result, awaiting, abandoned>>

ResultAfter(a, o) == IF o.result # None THEN o.result ELSE op_result[a]

\* EffectReceiptRecorded or EffectResultAttached.
RecordReceipt(a, o) ==
  /\ ~Contradicts(a, o)
  /\ NewReceipt(a, o)
  /\ op_state' = [op_state EXCEPT ![a] = o.state]
  /\ op_result' = [op_result EXCEPT ![a] = ResultAfter(a, o)]
  /\ awaiting' = IF o.state = "applied" /\ ResultAfter(a, o) = None
                 THEN awaiting \cup {a} ELSE awaiting \ {a}
  /\ UNCHANGED <<abandoned, conflicts>>

CanObserve(a, o) ==
  op_state[a] # "absent" /\ o.receipt \notin op_receipts[a]

\* The worker's own observation: evidence only, whatever the Run's status.
RecordEffectObservation(a, o) ==
  /\ CanObserve(a, o) /\ op_state[a] # "prepared"
  /\ \/ RecordConflict(a, o)
     \/ /\ RecordReceipt(a, o)
        /\ UNCHANGED <<lifecycleVars, activityVars, approvalVars, refreshes>>

\* Mutant of MaySettle: a settled Activity is settled again.
MaySettleAgain(a) == Live /\ a \notin conflicts /\ a \notin abandoned

\* Evidence that may still settle the Activity of operation a.
MaySettle(a) ==
  Live /\ a \notin conflicts /\ a \notin abandoned /\ settled[a] \in {"none", "unknown"}

\* Mutants of OtherUnknown: conflicts, or all but conflicts, are overlooked.
OtherUnknownUnlessConflict(a) ==
  \E b \in Operations \ {a} : op_state[b] \in Uncertain \/ b \in awaiting
OtherConflict(a) == \E b \in Operations \ {a} : b \in conflicts

OtherUnknown(a) ==
  \E b \in Operations \ {a} :
     op_state[b] \in Uncertain \/ b \in awaiting \/ b \in conflicts

ResumeIfResolved(a) ==
  IF status = "waiting" /\ wait_reason \in UnknownReasons /\ ~OtherUnknown(a)
  THEN RunIs("running", None)
  ELSE UNCHANGED <<status, wait_reason>>

\* What an accepted receipt does to the Activity and to the Run.
ApplyEvidence(a, o) ==
  \/ /\ ~MaySettle(a)
     /\ UNCHANGED <<lifecycleVars, activityVars>>
  \/ /\ MaySettle(a) /\ o.state = "applied" /\ o.result # None
     /\ ActivitySettled(a, "succeeded", "none")
     /\ ResumeIfResolved(a)
     /\ UNCHANGED retry_generation
  \/ /\ MaySettle(a) /\ o.state = "not_applied"
     /\ ActivitySettled(a, "failed", "other")
     /\ ResumeIfResolved(a)
     /\ UNCHANGED retry_generation
  \/ /\ MaySettle(a) /\ o.state = "applied" /\ o.result = None
     /\ RunIs("waiting", "result_material_missing")
     /\ UNCHANGED <<retry_generation, activityVars>>
  \/ /\ MaySettle(a) /\ o.state \in {"pending", "unknown"}
     /\ RunIs("waiting", "external_outcome_unknown")
     /\ UNCHANGED <<retry_generation, activityVars>>

\* An unsent operation is resolved only by the kernel's own proof that it was
\* never sent.
ResolveActivityOutcome(a, o) ==
  /\ CanObserve(a, o)
  /\ op_state[a] = "prepared" => o.source = "kernel_not_sent"
  /\ \/ RecordConflict(a, o)
     \/ /\ RecordReceipt(a, o)
        /\ ApplyEvidence(a, o)
        /\ UNCHANGED <<approvalVars, refreshes>>

SupplyActivityResult(a, o) ==
  /\ CanObserve(a, o) /\ op_state[a] # "prepared"
  /\ \/ RecordConflict(a, o)
     \/ /\ op_state[a] = "applied" /\ a \in awaiting
        /\ o.state = "applied" /\ o.result # None
        /\ RecordReceipt(a, o)
        /\ ApplyEvidence(a, o)
        /\ UNCHANGED <<approvalVars, refreshes>>

-----------------------------------------------------------------------------
LifecycleStep ==
  \/ CreateRun \/ StartRun \/ WaitRun \/ ResumeRun \/ RetryRun
  \/ CompleteRun \/ FailRunRetryable \/ FailRun \/ CancelRun

ApprovalStep ==
  \E p \in Approvals, s \in Subjects \cup {None} :
     \/ \E a \in Activities : RequestApproval(p, a, s)
     \/ ApproveRequest(p, s) \/ RejectRequest(p, s)
     \/ ExpireApproval(p)

\* Planners name the Activities of a renewal only once the renewal is on record.
Known(a) ==
  (\E r \in Refreshes : a \in {PrepareOf[r], ReplacementOf[r]}) => Producing(a) # {}

ActivityStep ==
  \E a \in Activities :
     \/ \E s \in Subjects \cup {None} : Known(a) /\ RequestActivity(a, s)
     \/ MarkActivityCallStarted(a) \/ CompleteActivity(a)
     \/ \E code \in {"drift", "other"} : FailActivity(a, code)
     \/ MarkActivityOutcomeUnknown(a)

RenewalStep ==
  \E r \in Refreshes, a \in Activities, s \in Subjects \cup {None} :
     RefreshToolIntent(r, a, s)

EffectStep ==
  \E a \in Activities :
     \/ a \in Effectful /\ PrepareEffectOperation(a)
     \/ StartEffectDispatch(a)
     \/ AbandonEffectResolution(a)
     \/ \E o \in Observations : \/ RecordEffectObservation(a, o)
                               \/ ResolveActivityOutcome(a, o)
                               \/ SupplyActivityResult(a, o)

Next == LifecycleStep \/ ApprovalStep \/ ActivityStep \/ RenewalStep \/ EffectStep

Spec == Init /\ [][Next]_runVars

-----------------------------------------------------------------------------
(* Types.  Every variable keeps the type RunState declares for it.         *)
TypeOK ==
  /\ status \in Statuses
  /\ wait_reason \in Reasons \cup {None}
  /\ retry_generation \in Nat
  /\ active \in SUBSET Activities /\ started \in SUBSET Activities
  /\ generation \in [Activities -> Nat \cup {None}]
  /\ settled \in [Activities -> Outcomes \cup {"none"}]
  /\ failure \in [Activities -> {"none", "drift", "other"}]
  /\ subject \in [Activities -> Subjects \cup {None}]
  /\ refreshes \in Seq(RefreshRecords)
  /\ pending \in Approvals \cup {None}
  /\ pending_subject \in Subjects \cup {None}
  /\ decision \in [Approvals -> {"none", "approved", "rejected", "expired"}]
  /\ approval_subjects \in Seq(Approvals \X Activities \X Subjects)
  /\ op_state \in [Activities -> OpStates]
  /\ op_revision \in [Activities -> Nat]
  /\ op_receipts \in [Activities -> SUBSET Receipts]
  /\ op_result \in [Activities -> Results \cup {None}]
  /\ awaiting \in SUBSET Activities
  /\ abandoned \in SUBSET Activities
  /\ conflicts \in SUBSET Activities

(* Quarantine.  "Contradictory outcomes or business results quarantine the *)
(* live Run": while any operation carries an integrity conflict, a live    *)
(* Run is waiting for outside evidence, whatever commands, timers or       *)
(* receipts of other operations arrive (run.py decide, effect.py).         *)
QuarantineHolds ==
  Quarantined /\ Live => status = "waiting" /\ wait_reason \in UnknownReasons

(* Evidence behind success.  An Activity that settled succeeded and had an *)
(* external operation has that operation on record as applied, with its    *)
(* result material, however late receipts interleave with the settlement   *)
(* (_decide_CompleteActivity, decide_effect).                              *)
SuccessHasEvidence ==
  \A a \in Operations : settled[a] = "succeeded" =>
     op_state[a] = "applied" /\ a \notin awaiting

(* No Activity is lost.  In a live Run every requested Activity is either  *)
(* still active or settled, and never both; a formally started Activity is *)
(* active; an ended Run has none left (evolve of the settle events and of  *)
(* the terminal events).                                                   *)
NoActivityLost ==
  /\ \A a \in Activities : a \in active => generation[a] # None /\ settled[a] = "none"
  /\ Live => \A a \in Activities : generation[a] # None => a \in active \/ settled[a] # "none"
  /\ started \subseteq active
  /\ ~Live => active = {}

(* An approval that is waited for is really pending: undecided, and with   *)
(* no Activity running beside it (_decide_RequestApproval,                 *)
(* _decide_DecideApproval, evolve of ApprovalDecided).                     *)
ApprovalWaitIsPending ==
  /\ pending # None => Live /\ decision[pending] = "none"
  /\ status = "waiting" /\ wait_reason = "approval" => pending # None /\ active = {}

(* A running Activity is the approved one: whenever an approved subject is *)
(* bound to an active Activity, the Activity carries the subject that was  *)
(* approved last (_decide_RequestActivity; _decide_RequestApproval only on *)
(* an idle Run).                                                           *)
ActiveMatchesApproval == \A a \in active : MatchesApproval(a, subject[a])

(* Renewals of one intent form a chain: no Activity is renewed twice, so a *)
(* drifted tool call has at most one live replacement                      *)
(* (_decide_RefreshToolIntent).                                            *)
RenewalsFormChain ==
  \A i, j \in 1..Len(refreshes) :
     i # j => refreshes[i].activity # refreshes[j].activity

\* The steps the action properties below allow.
KeepsSettlements ==
  \A a \in Activities :
     /\ settled[a] \in {"succeeded", "failed", "cancelled"} => settled'[a] = settled[a]
     /\ settled[a] = "unknown" => settled'[a] \in {"unknown", "succeeded", "failed"}

KeepsEvidence ==
  \A a \in Activities :
     /\ op_state[a] \in FinalOp =>
          /\ op_state'[a] = op_state[a]
          /\ op_result[a] # None => op_result'[a] = op_result[a]
     /\ op_receipts[a] \subseteq op_receipts'[a]
     /\ op_revision'[a] \in {op_revision[a], op_revision[a] + 1}

KeepsEnded ==
  ~Live => /\ UNCHANGED <<lifecycleVars, activityVars, approvalVars, refreshes>>
           /\ \A a \in Activities : op_state[a] = "absent" => op_state'[a] = "absent"

KeepsDecisions ==
  \A p \in Approvals : decision[p] # "none" => decision'[p] = decision[p]

ResumesCertain ==
  wait_reason \in UnknownReasons /\ status' \in {"running", "queued"} =>
     /\ conflicts' = {} /\ awaiting' = {}
     /\ \A a \in Activities : op_state'[a] \notin Uncertain

(* Settlements are final: only an unknown outcome is ever replaced, and    *)
(* only by success or failure; a cancelled, failed or succeeded Activity   *)
(* keeps its outcome (_is_duplicate_settlement, decide_effect).            *)
SettlementFinal == [][KeepsSettlements]_runVars

(* Recorded outcomes are final: a later receipt can neither change an      *)
(* applied or not_applied operation nor replace its result; it can only    *)
(* add to the evidence (decide_effect, evolve_effect).                     *)
EvidenceFinal == [][KeepsEvidence]_runVars

(* An ended Run is never revived: late receipts may extend the evidence of *)
(* its operations, but its status, its Activities and its approvals stay   *)
(* as they were (decide on TERMINAL_STATUSES, _validate_event).            *)
TerminalFrozen == [][KeepsEnded]_runVars

(* A decision on an approval is taken once (the identity check of          *)
(* _decide_RequestApproval, the pending check of _decide_DecideApproval).  *)
DecisionFinal == [][KeepsDecisions]_runVars

(* The wait for outside evidence ends in running only when the evidence is *)
(* complete: no operation is left uncertain, without its result or in      *)
(* conflict (other_unknown in decide_effect; _decide_ResumeRun and         *)
(* _decide_FailRun refuse these reasons).                                  *)
ResumeOnlyWhenCertain == [][ResumesCertain]_runVars

=============================================================================
