-------------------------- MODULE RunAggregateProofs --------------------------
(***************************************************************************)
(* Machine-checked proofs about the Run aggregate, for every set of        *)
(* Activities, approvals, receipts and results and for every bound.        *)
(***************************************************************************)
EXTENDS RunAggregate, WellFoundedInduction, SequenceTheorems, TLAPS

-----------------------------------------------------------------------------
(* Latest: a bounded, nonempty set of positions has a greatest element.    *)

(* The position Latest chooses among renewals or approvals is one of them. *)
LEMMA LatestMember ==
  ASSUME NEW n \in Nat, NEW S, S \subseteq 1..n, S # {}
  PROVE  Latest(S) \in S /\ \A j \in S : j <= Latest(S)
<1> DEFINE T == {m \in Nat : \E i \in S : m = n - i}
<1>1. \A i \in S : n - i \in T
  <2> TAKE i \in S
  <2>1. i \in 1..n
    BY Zenon
  <2>2. n - i \in Nat
    BY <2>1
  <2> QED BY Zenon, <2>2
<1> T \subseteq Nat /\ T # {}
  BY Zenon, <1>1
<1>2. PICK m \in T : \A k \in T : ~(<<k, m>> \in OpToRel(<, Nat))
  <2> HIDE DEF T
  <2> QED BY Zenon, NatLessThanWellFounded, WFMin
<1>3. \A k \in T : ~(k < m)
  BY Zenon, <1>2 DEF OpToRel
<1>4. PICK i \in S : m = n - i
  BY Zenon
<1>5. \A j \in S : j <= i
  <2> TAKE j \in S
  <2>1. i \in 1..n /\ j \in 1..n
    BY Zenon
  <2>2. ~(n - j < m)
    BY Zenon, <1>1, <1>3
  <2> QED BY <2>1, <2>2, <1>4
<1> QED BY Zenon, <1>5 DEF Latest

-----------------------------------------------------------------------------
(* How evidence arrives.                                                   *)

\* What RecordEffectObservation, ResolveActivityOutcome and
\* SupplyActivityResult have in common.
EvidenceStep(a, o) ==
  /\ CanObserve(a, o)
  /\ \/ RecordConflict(a, o)
     \/ /\ RecordReceipt(a, o)
        /\ UNCHANGED <<lifecycleVars, activityVars>> \/ ApplyEvidence(a, o)
        /\ UNCHANGED <<approvalVars, refreshes>>

(* Every effect command prepares, dispatches or abandons an operation, or  *)
(* records evidence (the branches of decide_effect).                       *)
LEMMA EffectCases ==
  ASSUME EffectStep
  PROVE  \E a \in Activities :
           \/ PrepareEffectOperation(a) \/ StartEffectDispatch(a)
           \/ AbandonEffectResolution(a)
           \/ \E o \in Observations : EvidenceStep(a, o)
<1>1. PICK a \in Activities :
        \/ PrepareEffectOperation(a) \/ StartEffectDispatch(a)
        \/ AbandonEffectResolution(a)
        \/ \E o \in Observations : \/ RecordEffectObservation(a, o)
                                  \/ ResolveActivityOutcome(a, o)
                                  \/ SupplyActivityResult(a, o)
  BY Zenon DEF EffectStep
<1>2. ASSUME NEW o \in Observations,
             \/ RecordEffectObservation(a, o)
             \/ ResolveActivityOutcome(a, o)
             \/ SupplyActivityResult(a, o)
      PROVE  EvidenceStep(a, o)
  BY Zenon, <1>2 DEF EvidenceStep, RecordEffectObservation, ResolveActivityOutcome,
                     SupplyActivityResult
<1> QED BY Zenon, <1>1, <1>2

-----------------------------------------------------------------------------
(* Types.                                                                  *)

(* The root of a renewed intent is an Activity (root_of in                 *)
(* _decide_RefreshToolIntent).                                             *)
LEMMA RootType ==
  ASSUME TypeOK, NEW a \in Activities
  PROVE  RootOf(a) \in Activities
<1>1. CASE Producing(a) = {}
  BY Zenon, <1>1 DEF RootOf
<1>2. CASE Producing(a) # {}
  <2>1. Len(refreshes) \in Nat /\ Producing(a) \subseteq 1..Len(refreshes)
    BY Zenon, LenProperties DEF Producing, TypeOK
  <2>2. Latest(Producing(a)) \in 1..Len(refreshes)
    BY Zenon, <1>2, <2>1, LatestMember
  <2>3. refreshes[Latest(Producing(a))] \in RefreshRecords
    BY Zenon, <2>2, ElementOfSeq DEF TypeOK
  <2> QED BY Zenon, <1>2, <2>3 DEF RootOf, RefreshRecords
<1> QED BY Zenon, <1>1, <1>2

(* Lifecycle commands keep the types.                                      *)
LEMMA LifecycleTypes ==
  ASSUME TypeOK, LifecycleStep
  PROVE  TypeOK'
<1> USE DEF TypeOK, lifecycleVars, activityVars, approvalVars, effectVars,
            RunIs, RunEnded, Statuses, Reasons, UnknownReasons, Outcomes
<1>1. CASE CreateRun
  BY Zenon, <1>1 DEF CreateRun
<1>2. CASE StartRun
  BY Zenon, <1>2 DEF StartRun
<1>3. CASE WaitRun
  BY Zenon, <1>3 DEF WaitRun
<1>4. CASE ResumeRun
  BY Zenon, <1>4 DEF ResumeRun
<1>5. CASE RetryRun
  BY <1>5 DEF RetryRun
<1>6. CASE CompleteRun
  BY Zenon, <1>6 DEF CompleteRun
<1>7. CASE FailRunRetryable
  BY Zenon, <1>7 DEF FailRunRetryable
<1>8. CASE FailRun
  BY Zenon, <1>8 DEF FailRun
<1>9. CASE CancelRun
  BY Zenon, <1>9 DEF CancelRun
<1> QED BY Zenon, <1>1, <1>2, <1>3, <1>4, <1>5, <1>6, <1>7, <1>8, <1>9 DEF LifecycleStep

(* Approval commands keep the types.                                       *)
LEMMA ApprovalTypes ==
  ASSUME TypeOK, ApprovalStep
  PROVE  TypeOK'
<1> USE DEF TypeOK, lifecycleVars, activityVars, approvalVars, effectVars,
            RunIs, RunEnded, Statuses, Reasons, UnknownReasons
<1>1. PICK p \in Approvals, s \in Subjects \cup {None} :
        \/ \E a \in Activities : RequestApproval(p, a, s)
        \/ ApproveRequest(p, s) \/ RejectRequest(p, s) \/ ExpireApproval(p)
  BY Zenon DEF ApprovalStep
<1>2. ASSUME NEW a \in Activities, RequestApproval(p, a, s)
      PROVE  TypeOK'
  <2>1. approval_subjects' \in Seq(Approvals \X Activities \X Subjects)
    <3>1. CASE s = None
      BY Zenon, <1>2, <3>1 DEF RequestApproval
    <3>2. CASE s # None
      <4>1. <<p, a, s>> \in Approvals \X Activities \X Subjects
        BY Zenon, <3>2
      <4> QED BY Zenon, <1>2, <3>2, <4>1, AppendProperties DEF RequestApproval
    <3> QED BY Zenon, <3>1, <3>2
  <2> QED BY Zenon, <1>2, <2>1 DEF RequestApproval
<1>3. CASE ApproveRequest(p, s)
  BY Zenon, <1>3 DEF ApproveRequest
<1>4. CASE RejectRequest(p, s)
  BY Zenon, <1>4 DEF RejectRequest
<1>5. CASE ExpireApproval(p)
  BY Zenon, <1>5 DEF ExpireApproval
<1> QED BY Zenon, <1>1, <1>2, <1>3, <1>4, <1>5

(* Activity commands keep the types.                                       *)
LEMMA ActivityTypes ==
  ASSUME TypeOK, ActivityStep
  PROVE  TypeOK'
<1> USE DEF TypeOK, lifecycleVars, activityVars, approvalVars, effectVars,
            RunIs, ActivitySettled, Statuses, Reasons, UnknownReasons, Outcomes
<1>1. PICK a \in Activities :
        \/ \E s \in Subjects \cup {None} : RequestActivity(a, s)
        \/ MarkActivityCallStarted(a) \/ CompleteActivity(a)
        \/ \E code \in {"drift", "other"} : FailActivity(a, code)
        \/ MarkActivityOutcomeUnknown(a)
  BY Zenon DEF ActivityStep
<1>2. ASSUME NEW s \in Subjects \cup {None}, RequestActivity(a, s)
      PROVE  TypeOK'
  BY Zenon, <1>2 DEF RequestActivity
<1>3. CASE MarkActivityCallStarted(a)
  BY Zenon, <1>3 DEF MarkActivityCallStarted
<1>4. CASE CompleteActivity(a)
  BY Zenon, <1>4 DEF CompleteActivity
<1>5. ASSUME NEW code \in {"drift", "other"}, FailActivity(a, code)
      PROVE  TypeOK'
  BY Zenon, <1>5 DEF FailActivity
<1>6. CASE MarkActivityOutcomeUnknown(a)
  BY Zenon, <1>6 DEF MarkActivityOutcomeUnknown
<1> QED BY Zenon, <1>1, <1>2, <1>3, <1>4, <1>5, <1>6

(* A renewal keeps the types.                                              *)
LEMMA RenewalTypes ==
  ASSUME TypeOK, RenewalStep
  PROVE  TypeOK'
<1>1. PICK r \in Refreshes, a \in Activities, s \in Subjects \cup {None} :
        RefreshToolIntent(r, a, s)
  BY Zenon DEF RenewalStep
<1>2. [refresh |-> r, activity |-> a, root |-> RootOf(a), expected |-> s,
       generation |-> retry_generation] \in RefreshRecords
  BY Zenon, RootType DEF RefreshRecords, TypeOK
<1>3. refreshes' \in Seq(RefreshRecords)
  BY Zenon, <1>1, <1>2, AppendProperties DEF RefreshToolIntent, TypeOK
<1> QED BY Zenon, <1>1, <1>3 DEF RefreshToolIntent, TypeOK, lifecycleVars, activityVars,
             approvalVars, effectVars, RunIs, Statuses

(* What evidence does to the Activity and to the Run keeps their types.    *)
LEMMA EvidenceTypes ==
  ASSUME TypeOK, NEW a \in Activities, NEW o \in Observations, EvidenceStep(a, o)
  PROVE  TypeOK'
<1> USE DEF TypeOK, lifecycleVars, activityVars, approvalVars, effectVars
<1>1. o.receipt \in Receipts /\ o.result \in Results \cup {None} /\ o.state \in OpStates
  BY Zenon DEF Observations, OpStates
<1>2. CASE RecordConflict(a, o)
  BY <1>1, <1>2 DEF RecordConflict, NewReceipt, RunIs, Statuses, Reasons, UnknownReasons
<1>3. CASE /\ RecordReceipt(a, o)
           /\ UNCHANGED <<lifecycleVars, activityVars>> \/ ApplyEvidence(a, o)
           /\ UNCHANGED <<approvalVars, refreshes>>
  <2>1. /\ op_state' \in [Activities -> OpStates]
        /\ op_revision' \in [Activities -> Nat]
        /\ op_receipts' \in [Activities -> SUBSET Receipts]
        /\ op_result' \in [Activities -> Results \cup {None}]
        /\ awaiting' \in SUBSET Activities
        /\ abandoned' \in SUBSET Activities /\ conflicts' \in SUBSET Activities
    BY <1>1, <1>3 DEF RecordReceipt, NewReceipt, ResultAfter
  <2>2. CASE UNCHANGED <<lifecycleVars, activityVars>>
    BY Zenon, <1>3, <2>1, <2>2
  <2>3. CASE ApplyEvidence(a, o)
    BY ZenonT(40), <1>3, <2>1, <2>3 DEF ApplyEvidence, ActivitySettled, ResumeIfResolved, RunIs,
         Statuses, Reasons, UnknownReasons, Outcomes
  <2> QED BY Zenon, <1>3, <2>2, <2>3
<1> QED BY Zenon, <1>2, <1>3 DEF EvidenceStep

(* Every step keeps the types.                                             *)
LEMMA StepTypes ==
  ASSUME TypeOK, [Next]_runVars
  PROVE  TypeOK'
<1>1. CASE EffectStep
  <2>1. PICK a \in Activities :
           \/ PrepareEffectOperation(a) \/ StartEffectDispatch(a)
           \/ AbandonEffectResolution(a)
           \/ \E o \in Observations : EvidenceStep(a, o)
    BY Zenon, <1>1, EffectCases
  <2> USE DEF TypeOK, lifecycleVars, activityVars, approvalVars, OpStates
  <2>2. CASE PrepareEffectOperation(a)
    BY Zenon, <2>2 DEF PrepareEffectOperation
  <2>3. CASE StartEffectDispatch(a)
    BY <2>3 DEF StartEffectDispatch
  <2>4. CASE AbandonEffectResolution(a)
    BY <2>4 DEF AbandonEffectResolution
  <2> QED BY Zenon, <2>1, <2>2, <2>3, <2>4, EvidenceTypes
<1>2. CASE UNCHANGED runVars
  BY Zenon, <1>2 DEF runVars, TypeOK, lifecycleVars, activityVars, approvalVars, effectVars
<1> QED BY Zenon, <1>1, <1>2, LifecycleTypes, ApprovalTypes, ActivityTypes, RenewalTypes DEF Next

(* RunState's declared types hold in every reachable state of every        *)
(* instance of the aggregate.                                              *)
THEOREM TypeCorrect == Spec => []TypeOK
<1>1. Init => TypeOK
  BY EmptySeq DEF Init, TypeOK, Statuses, OpStates
<1>2. TypeOK /\ [Next]_runVars => TypeOK'
  BY Zenon, StepTypes
<1> QED BY <1>1, <1>2, PTL DEF Spec

-----------------------------------------------------------------------------
(* The inductive invariant.                                                *)

\* What the safety properties need to know about operations and waiting: an
\* operation that was never prepared has no history, one that is applied has
\* its result or is waiting for it, and only a waiting Run has a reason to.
Books ==
  /\ conflicts \subseteq Operations /\ awaiting \subseteq Operations
  /\ wait_reason # None => status = "waiting"
  /\ \A a \in Activities : op_state[a] = "absent" => op_revision[a] = 0
  /\ \A a \in Activities : op_state[a] = "applied" /\ a \notin awaiting => op_result[a] # None

RunInv ==
  TypeOK /\ Books /\ QuarantineHolds /\ NoActivityLost /\ SuccessHasEvidence
         /\ ApprovalWaitIsPending

(* Only effect commands touch the operations.                              *)
LEMMA EffectFrame ==
  ASSUME LifecycleStep \/ ApprovalStep \/ ActivityStep \/ RenewalStep
  PROVE  UNCHANGED effectVars
<1>1. CASE LifecycleStep
  BY Zenon, <1>1
     DEF LifecycleStep, CreateRun, StartRun, WaitRun, ResumeRun, RetryRun, CompleteRun,
              FailRunRetryable, FailRun, CancelRun
<1>2. CASE ApprovalStep
  BY Zenon, <1>2 DEF ApprovalStep, RequestApproval, ApproveRequest, RejectRequest, ExpireApproval
<1>3. CASE ActivityStep
  BY Zenon, <1>3 DEF ActivityStep, RequestActivity, MarkActivityCallStarted, CompleteActivity,
              FailActivity, MarkActivityOutcomeUnknown
<1>4. CASE RenewalStep
  BY Zenon, <1>4 DEF RenewalStep, RefreshToolIntent
<1> QED BY Zenon, <1>1, <1>2, <1>3, <1>4

(* A command that is no effect command leaves the Run with a reason to     *)
(* wait only if it leaves it waiting, and does not move a quarantined Run  *)
(* unless it ends it (the quarantine checks of decide and of the handlers).*)
LEMMA CommandStatus ==
  ASSUME TypeOK, Books, QuarantineHolds,
         LifecycleStep \/ ApprovalStep \/ ActivityStep \/ RenewalStep
  PROVE  /\ wait_reason' # None => status' = "waiting"
         /\ Quarantined /\ Live' => status' = "waiting" /\ wait_reason' \in UnknownReasons
<1> USE DEF Books, RunIs, RunEnded, Live, Terminal, UnknownReasons, QuarantineHolds, Statuses
<1>1. CASE LifecycleStep
  BY Zenon, <1>1, NoneAssumption
     DEF LifecycleStep, CreateRun, StartRun, WaitRun, ResumeRun, CanRetryRun, RetryRun,
         CompleteRun, FailRunRetryable, FailRun, CancelRun
<1>2. CASE ApprovalStep
  BY Zenon, <1>2
     DEF ApprovalStep, RequestApproval, ApproveRequest, RejectRequest, ExpireApproval
<1>3. CASE ActivityStep
  BY Zenon, <1>3 DEF ActivityStep, RequestActivity, MarkActivityCallStarted, CompleteActivity,
              FailActivity, MarkActivityOutcomeUnknown, lifecycleVars
<1>4. CASE RenewalStep
  BY Zenon, <1>4 DEF RenewalStep, RefreshToolIntent
<1> QED BY Zenon, <1>1, <1>2, <1>3, <1>4

(* Evidence keeps the books and the quarantine: a conflict stops a live    *)
(* Run, and only the last uncertain operation's evidence resumes it        *)
(* (other_unknown in decide_effect).                                       *)
LEMMA EvidenceBooks ==
  ASSUME TypeOK, Books, QuarantineHolds,
         NEW a \in Activities, NEW o \in Observations, EvidenceStep(a, o)
  PROVE  Books' /\ QuarantineHolds'
<1>0. /\ o.receipt \in Receipts /\ o.result \in Results \cup {None}
      /\ o.state \in OpStates \ {"absent"}
  BY Zenon DEF Observations, OpStates
<1>1. op_state[a] # "absent"
  BY Zenon DEF EvidenceStep, CanObserve
<1>2. CASE RecordConflict(a, o)
  BY Zenon, <1>0, <1>1, <1>2
     DEF TypeOK, Books, QuarantineHolds, RecordConflict, NewReceipt, RunIs, Live, Quarantined,
         Operations, UnknownReasons, Terminal
<1>3. CASE /\ RecordReceipt(a, o)
           /\ UNCHANGED <<lifecycleVars, activityVars>> \/ ApplyEvidence(a, o)
  <2>1. /\ conflicts' = conflicts
        /\ \A b \in Activities \ {a} :
             /\ op_state'[b] = op_state[b] /\ op_result'[b] = op_result[b]
             /\ op_revision'[b] = op_revision[b] /\ (b \in awaiting' <=> b \in awaiting)
        /\ op_state'[a] = o.state
        /\ op_result'[a] = ResultAfter(a, o)
        /\ a \in awaiting' <=> o.state = "applied" /\ ResultAfter(a, o) = None
    BY Zenon, <1>3 DEF RecordReceipt, NewReceipt, TypeOK
  <2>2. /\ conflicts' \subseteq Operations' /\ awaiting' \subseteq Operations'
        /\ \A b \in Activities : op_state'[b] = "absent" => op_revision'[b] = 0
        /\ \A b \in Activities :
             op_state'[b] = "applied" /\ b \notin awaiting' => op_result'[b] # None
    <3>1. awaiting' \subseteq Activities
      BY Zenon, <1>3 DEF RecordReceipt, TypeOK
    <3> QED BY ZenonT(40), <1>0, <1>1, <2>1, <3>1 DEF Books, Operations, TypeOK
  <2>3. CASE UNCHANGED <<lifecycleVars, activityVars>>
    BY Zenon, <2>1, <2>2, <2>3 DEF Books, QuarantineHolds, Quarantined, Live, lifecycleVars
  <2>4. CASE ApplyEvidence(a, o)
    <3>1. wait_reason' # None => status' = "waiting"
      BY Zenon, <2>4 DEF ApplyEvidence, ResumeIfResolved, RunIs, Books, lifecycleVars
    <3>2. ASSUME Quarantined, Live', ~(status' = status /\ wait_reason' = wait_reason)
          PROVE  status' = "waiting" /\ wait_reason' \in UnknownReasons
      <4>1. MaySettle(a)
        BY Zenon, <2>4, <3>2 DEF ApplyEvidence, lifecycleVars
      <4>2. OtherUnknown(a)
        BY Zenon, <4>1, <3>2 DEF OtherUnknown, MaySettle, Quarantined, Books
      <4> QED BY Zenon, <2>4, <3>2, <4>1, <4>2
              DEF ApplyEvidence, ResumeIfResolved, RunIs, UnknownReasons
    <3> QED BY Zenon, <2>1, <2>2, <3>1, <3>2 DEF Books, QuarantineHolds, Quarantined, Live
  <2> QED BY Zenon, <1>3, <2>3, <2>4
<1> QED BY Zenon, <1>2, <1>3 DEF EvidenceStep

(* Every step keeps the books and the quarantine.                          *)
LEMMA StepBooks ==
  ASSUME TypeOK, Books, QuarantineHolds, [Next]_runVars
  PROVE  Books' /\ QuarantineHolds'
<1>1. CASE LifecycleStep \/ ApprovalStep \/ ActivityStep \/ RenewalStep
  BY ZenonT(40), <1>1, EffectFrame, CommandStatus
     DEF Books, QuarantineHolds, Quarantined, Operations, effectVars
<1>2. CASE EffectStep
  <2>1. PICK a \in Activities :
           \/ PrepareEffectOperation(a) \/ StartEffectDispatch(a)
           \/ AbandonEffectResolution(a)
           \/ \E o \in Observations : EvidenceStep(a, o)
    BY Zenon, <1>2, EffectCases
  <2> USE DEF TypeOK, Books, QuarantineHolds, Quarantined, Operations, Live, lifecycleVars
  <2>2. CASE PrepareEffectOperation(a)
    BY Zenon, <2>2 DEF PrepareEffectOperation
  <2>3. CASE StartEffectDispatch(a)
    BY Zenon, <2>3 DEF StartEffectDispatch, CanStartDispatch
  <2>4. CASE AbandonEffectResolution(a)
    BY ZenonT(40), <2>4 DEF AbandonEffectResolution
  <2> QED BY Zenon, <2>1, <2>2, <2>3, <2>4, EvidenceBooks
<1>3. CASE UNCHANGED runVars
  BY Zenon, <1>3 DEF runVars, lifecycleVars, effectVars, Books, QuarantineHolds, Quarantined,
              Operations, Live
<1> QED BY Zenon, <1>1, <1>2, <1>3 DEF Next

(* A command that is no effect command loses no Activity (evolve of the    *)
(* request, settle and terminal events).                                   *)
LEMMA CommandActivities ==
  ASSUME TypeOK, NoActivityLost,
         LifecycleStep \/ ApprovalStep \/ ActivityStep \/ RenewalStep
  PROVE  NoActivityLost'
<1> USE NoneAssumption DEF TypeOK, NoActivityLost, Live, Terminal, RunIs, RunEnded, activityVars
<1>1. CASE LifecycleStep
  <2>1. CASE CancelRun
    BY Zenon, <2>1 DEF CancelRun
  <2> QED BY Zenon, <1>1, <2>1
             DEF LifecycleStep, CreateRun, StartRun, WaitRun, ResumeRun, CanRetryRun,
                RetryRun, CompleteRun, FailRunRetryable, FailRun
<1>2. CASE ApprovalStep
  BY ZenonT(40), <1>2
     DEF ApprovalStep, RequestApproval, ApproveRequest, RejectRequest, ExpireApproval,
              AwaitsDecision
<1>3. CASE ActivityStep
  <2>1. PICK a \in Activities :
          \/ \E s \in Subjects \cup {None} : RequestActivity(a, s)
          \/ MarkActivityCallStarted(a) \/ CompleteActivity(a)
          \/ \E code \in {"drift", "other"} : FailActivity(a, code)
          \/ MarkActivityOutcomeUnknown(a)
    BY Zenon, <1>3 DEF ActivityStep
  <2> USE DEF lifecycleVars, ActivitySettled
  <2>2. ASSUME NEW s \in Subjects \cup {None}, RequestActivity(a, s)
        PROVE  NoActivityLost'
    BY ZenonT(40), <2>2 DEF RequestActivity
  <2>3. CASE MarkActivityCallStarted(a)
    BY ZenonT(40), <2>3 DEF MarkActivityCallStarted, CanMarkCallStarted
  <2>4. CASE CompleteActivity(a)
    BY Zenon, <2>4 DEF CompleteActivity, CanCompleteActivity
  <2>5. ASSUME NEW code \in {"drift", "other"}, FailActivity(a, code)
        PROVE  NoActivityLost'
    BY Zenon, <2>5 DEF FailActivity, CanFailActivity
  <2>6. CASE MarkActivityOutcomeUnknown(a)
    BY ZenonT(40), <2>6 DEF MarkActivityOutcomeUnknown, CanMarkOutcomeUnknown
  <2> QED BY Zenon, <2>1, <2>2, <2>3, <2>4, <2>5, <2>6
<1>4. CASE RenewalStep
  BY ZenonT(40), <1>4 DEF RenewalStep, RefreshToolIntent
<1> QED BY Zenon, <1>1, <1>2, <1>3, <1>4

\* Evidence either leaves the Activities alone or settles the one it is about,
\* as succeeded only when the result material came with it.
EvidenceSettles(a, o) ==
  \/ UNCHANGED activityVars
  \/ /\ Live /\ settled[a] \in {"none", "unknown"}
     /\ ActivitySettled(a, "succeeded", "none")
     /\ o.state = "applied" /\ o.result # None
     /\ op_state'[a] = "applied" /\ a \notin awaiting'
  \/ /\ Live /\ settled[a] \in {"none", "unknown"}
     /\ ActivitySettled(a, "failed", "other")
     /\ op_state'[a] = "not_applied"

(* What evidence does to Activities, and that it never ends or revives a   *)
(* Run (decide_effect on a terminal Run keeps the receipt only).           *)
LEMMA EvidenceOutcome ==
  ASSUME TypeOK, NEW a \in Activities, NEW o \in Observations, EvidenceStep(a, o)
  PROVE  EvidenceSettles(a, o) /\ (Live' <=> Live)
<1>0. o.result # None => ResultAfter(a, o) # None
  BY Zenon DEF ResultAfter
<1>1. CASE RecordConflict(a, o)
  BY Zenon, <1>1 DEF RecordConflict, EvidenceSettles, Live, Terminal, RunIs
<1>2. CASE /\ RecordReceipt(a, o)
           /\ UNCHANGED <<lifecycleVars, activityVars>>
  BY Zenon, <1>2 DEF EvidenceSettles, Live, lifecycleVars
<1>3. CASE RecordReceipt(a, o) /\ ApplyEvidence(a, o)
  <2>1. op_state'[a] = o.state /\ (a \in awaiting' => ResultAfter(a, o) = None)
    BY Zenon, <1>3 DEF RecordReceipt, TypeOK
  <2>2. EvidenceSettles(a, o)
    BY Zenon, <1>0, <1>3, <2>1 DEF ApplyEvidence, EvidenceSettles, MaySettle
  <2>3. Live' <=> Live
    BY Zenon, <1>3 DEF ApplyEvidence, MaySettle, ResumeIfResolved, RunIs, Live, Terminal, lifecycleVars
  <2> QED BY Zenon, <2>2, <2>3
<1> QED BY Zenon, <1>1, <1>2, <1>3 DEF EvidenceStep

(* Every step keeps track of every Activity.                               *)
LEMMA StepActivities ==
  ASSUME TypeOK, NoActivityLost, [Next]_runVars
  PROVE  NoActivityLost'
<1>1. CASE EffectStep
  <2>1. PICK a \in Activities :
           \/ PrepareEffectOperation(a) \/ StartEffectDispatch(a)
           \/ AbandonEffectResolution(a)
           \/ \E o \in Observations : EvidenceStep(a, o)
    BY Zenon, <1>1, EffectCases
  <2>2. ASSUME NEW o \in Observations, EvidenceStep(a, o)
        PROVE  NoActivityLost'
    <3>1. EvidenceSettles(a, o) /\ (Live' <=> Live)
      BY Zenon, <2>2, EvidenceOutcome
    <3> QED BY ZenonT(40), <3>1
               DEF EvidenceSettles, ActivitySettled, NoActivityLost, TypeOK, activityVars
  <2>3. CASE PrepareEffectOperation(a) \/ StartEffectDispatch(a) \/ AbandonEffectResolution(a)
    BY Zenon, <2>3 DEF PrepareEffectOperation, StartEffectDispatch, AbandonEffectResolution,
                NoActivityLost, activityVars, lifecycleVars, Live
  <2> QED BY Zenon, <2>1, <2>2, <2>3
<1>2. CASE UNCHANGED runVars
  BY Zenon, <1>2 DEF runVars, NoActivityLost, activityVars, lifecycleVars, Live
<1> QED BY Zenon, <1>1, <1>2, CommandActivities DEF Next

(* Every step keeps the evidence behind success: neither a settlement by   *)
(* the worker nor one by evidence, nor a later receipt, leaves a succeeded *)
(* Activity without its applied operation and its result.                  *)
LEMMA StepEvidence ==
  ASSUME TypeOK, Books, NoActivityLost, SuccessHasEvidence, [Next]_runVars
  PROVE  SuccessHasEvidence'
<1> USE DEF SuccessHasEvidence, Operations
<1>1. CASE LifecycleStep \/ ApprovalStep \/ ActivityStep \/ RenewalStep
  <2>1. op_state' = op_state /\ awaiting' = awaiting
    BY Zenon, <1>1, EffectFrame DEF effectVars
  <2>2. \A b \in Activities : settled'[b] = "succeeded" =>
          settled[b] = "succeeded" \/ op_state[b] = "absent"
            \/ (op_state[b] = "applied" /\ b \notin awaiting)
    <3> USE DEF TypeOK, activityVars, ActivitySettled
    <3>1. CASE LifecycleStep
      BY ZenonT(40), <3>1
         DEF LifecycleStep, CreateRun, StartRun, WaitRun, ResumeRun, RetryRun, CompleteRun,
                  FailRunRetryable, FailRun, CancelRun
    <3>2. CASE ApprovalStep
      BY Zenon, <3>2
         DEF ApprovalStep, RequestApproval, ApproveRequest, RejectRequest, ExpireApproval
    <3>3. CASE ActivityStep
      BY ZenonT(40), <3>3
         DEF ActivityStep, RequestActivity, MarkActivityCallStarted, CompleteActivity,
                  CanCompleteActivity, FailActivity, MarkActivityOutcomeUnknown
    <3>4. CASE RenewalStep
      BY Zenon, <3>4 DEF RenewalStep, RefreshToolIntent
    <3> QED BY Zenon, <1>1, <3>1, <3>2, <3>3, <3>4
  <2> QED BY Zenon, <2>1, <2>2
<1>2. CASE EffectStep
  <2>1. PICK a \in Activities :
           \/ PrepareEffectOperation(a) \/ StartEffectDispatch(a)
           \/ AbandonEffectResolution(a)
           \/ \E o \in Observations : EvidenceStep(a, o)
    BY Zenon, <1>2, EffectCases
  <2>2. ASSUME NEW o \in Observations, EvidenceStep(a, o)
        PROVE  SuccessHasEvidence'
    <3>1. \A b \in Activities \ {a} :
            /\ op_state'[b] = op_state[b] /\ (b \in awaiting' <=> b \in awaiting)
            /\ settled'[b] = settled[b]
      <4>1. EvidenceSettles(a, o)
        BY ZenonT(40), <2>2, EvidenceOutcome
      <4> QED BY ZenonT(40), <2>2, <4>1
                 DEF EvidenceStep, RecordConflict, RecordReceipt, EvidenceSettles,
                   ActivitySettled, activityVars, TypeOK
    <3>2. op_state[a] = "applied" /\ a \notin awaiting
            => op_state'[a] = "applied" /\ a \notin awaiting'
      <4> SUFFICES ASSUME op_state[a] = "applied", a \notin awaiting
                   PROVE  op_state'[a] = "applied" /\ a \notin awaiting'
        BY Zenon
      <4>1. CASE RecordConflict(a, o)
        BY Zenon, <4>1 DEF RecordConflict
      <4>2. CASE RecordReceipt(a, o)
        <5>1. o.state = "applied"
          BY Zenon, <4>2 DEF RecordReceipt, Contradicts, FinalOp
        <5>2. op_result[a] # None
          BY Zenon DEF Books
        <5>3. ResultAfter(a, o) # None
          BY Zenon, <5>2 DEF ResultAfter
        <5> QED BY Zenon, <4>2, <5>1, <5>3 DEF RecordReceipt, TypeOK
      <4> QED BY Zenon, <2>2, <4>1, <4>2 DEF EvidenceStep
    <3>3. settled'[a] = "succeeded" =>
            settled[a] = "succeeded" \/ (op_state'[a] = "applied" /\ a \notin awaiting')
      <4>1. EvidenceSettles(a, o)
        BY Zenon, <2>2, EvidenceOutcome
      <4> QED BY Zenon, <4>1 DEF EvidenceSettles, ActivitySettled, activityVars, TypeOK
    <3>4. op_state[a] # "absent"
      BY Zenon, <2>2 DEF EvidenceStep, CanObserve
    <3> QED BY Zenon, <3>1, <3>2, <3>3, <3>4 DEF TypeOK
  <2>3. CASE PrepareEffectOperation(a) \/ StartEffectDispatch(a) \/ AbandonEffectResolution(a)
    BY ZenonT(40), <2>3 DEF PrepareEffectOperation, StartEffectDispatch, CanStartDispatch,
                AbandonEffectResolution, NoActivityLost, activityVars, TypeOK
  <2> QED BY Zenon, <2>1, <2>2, <2>3
<1>3. CASE UNCHANGED runVars
  BY Zenon, <1>3 DEF runVars, activityVars, effectVars
<1> QED BY Zenon, <1>1, <1>2, <1>3 DEF Next

(* Every step leaves an approval that is waited for pending and alone      *)
(* (_decide_RequestApproval on an idle Run; evolve clears a decided one).  *)
LEMMA StepApprovals ==
  ASSUME TypeOK, ApprovalWaitIsPending, [Next]_runVars
  PROVE  ApprovalWaitIsPending'
<1> USE NoneAssumption
    DEF TypeOK, ApprovalWaitIsPending, Live, Terminal, RunIs, RunEnded, lifecycleVars,
        activityVars, approvalVars, UnknownReasons
<1>1. CASE LifecycleStep
  BY ZenonT(40), <1>1
     DEF LifecycleStep, CreateRun, StartRun, WaitRun, ResumeRun, CanRetryRun, RetryRun,
              CompleteRun, FailRunRetryable, FailRun, CancelRun
<1>2. CASE ApprovalStep
  <2>1. PICK p \in Approvals, s \in Subjects \cup {None} :
          \/ \E a \in Activities : RequestApproval(p, a, s)
          \/ ApproveRequest(p, s) \/ RejectRequest(p, s) \/ ExpireApproval(p)
    BY Zenon, <1>2 DEF ApprovalStep
  <2>2. CASE \E a \in Activities : RequestApproval(p, a, s)
    BY ZenonT(40), <2>2 DEF RequestApproval
  <2>3. CASE ApproveRequest(p, s) \/ RejectRequest(p, s) \/ ExpireApproval(p)
    BY Zenon, <2>3 DEF ApproveRequest, RejectRequest, ExpireApproval
  <2> QED BY Zenon, <2>1, <2>2, <2>3
<1>3. CASE ActivityStep
  BY Zenon, <1>3 DEF ActivityStep, RequestActivity, MarkActivityCallStarted, CompleteActivity,
              FailActivity, MarkActivityOutcomeUnknown, ActivitySettled,
              CanMarkCallStarted, CanMarkOutcomeUnknown, CanCompleteActivity, CanFailActivity
<1>4. CASE RenewalStep
  BY Zenon, <1>4 DEF RenewalStep, RefreshToolIntent
<1>5. CASE EffectStep
  <2>1. PICK a \in Activities :
           \/ PrepareEffectOperation(a) \/ StartEffectDispatch(a)
           \/ AbandonEffectResolution(a)
           \/ \E o \in Observations : EvidenceStep(a, o)
    BY Zenon, <1>5, EffectCases
  <2>2. ASSUME NEW o \in Observations, EvidenceStep(a, o)
        PROVE  ApprovalWaitIsPending'
    BY Zenon, <2>2 DEF EvidenceStep, RecordConflict, ApplyEvidence, MaySettle, ResumeIfResolved,
                ActivitySettled
  <2>3. CASE PrepareEffectOperation(a) \/ StartEffectDispatch(a) \/ AbandonEffectResolution(a)
    BY Zenon, <2>3 DEF PrepareEffectOperation, StartEffectDispatch, AbandonEffectResolution
  <2> QED BY Zenon, <2>1, <2>2, <2>3
<1>6. CASE UNCHANGED runVars
  BY ZenonT(40), <1>6 DEF runVars
<1> QED BY Zenon, <1>1, <1>2, <1>3, <1>4, <1>5, <1>6 DEF Next

-----------------------------------------------------------------------------
(* The invariants.                                                         *)

(* A Run that was never created satisfies the invariant.                   *)
LEMMA InitialInv ==
  ASSUME Init
  PROVE  RunInv
<1>1. TypeOK
  BY Zenon, EmptySeq DEF Init, TypeOK, Statuses, OpStates
<1> QED BY Zenon, <1>1, NoneAssumption
        DEF RunInv, Init, Books, QuarantineHolds, Quarantined, NoActivityLost,
            SuccessHasEvidence, ApprovalWaitIsPending, Operations

(* Every command keeps the invariant.                                      *)
LEMMA StepInv ==
  ASSUME RunInv, [Next]_runVars
  PROVE  RunInv'
BY Zenon, StepTypes, StepBooks, StepActivities, StepEvidence, StepApprovals DEF RunInv

(* RunInv is inductive.                                                    *)
THEOREM Invariance == Spec => []RunInv
<1>1. Init => RunInv
  BY Zenon, InitialInv
<1>2. RunInv /\ [Next]_runVars => RunInv'
  BY Zenon, StepInv
<1> QED BY <1>1, <1>2, PTL DEF Spec

(* A live Run with contradictory evidence waits for outside evidence until *)
(* it ends, whatever else arrives (the quarantine of decide and            *)
(* decide_effect).                                                         *)
THEOREM QuarantineTheorem == Spec => []QuarantineHolds
BY Invariance, PTL DEF RunInv

(* No Activity is ever lost or held twice (evolve).                        *)
THEOREM NoActivityLostTheorem == Spec => []NoActivityLost
BY Invariance, PTL DEF RunInv

(* Success of an Activity with an external operation always rests on an    *)
(* applied operation and its result (_decide_CompleteActivity,             *)
(* decide_effect).                                                         *)
THEOREM SuccessHasEvidenceTheorem == Spec => []SuccessHasEvidence
BY Invariance, PTL DEF RunInv

(* A Run that waits for an approval has one pending and undecided, and no  *)
(* Activity beside it (_decide_RequestApproval, evolve).                   *)
THEOREM ApprovalWaitTheorem == Spec => []ApprovalWaitIsPending
BY Invariance, PTL DEF RunInv

-----------------------------------------------------------------------------
(* The action properties.                                                  *)

(* Settlements are kept: a worker settles only active Activities, which    *)
(* are unsettled, and evidence only unsettled or unknown ones.             *)
LEMMA SettlementsKept ==
  ASSUME RunInv, [Next]_runVars
  PROVE  KeepsSettlements
<1> USE DEF KeepsSettlements, activityVars
<1> TypeOK /\ NoActivityLost
  BY Zenon DEF RunInv
<1>1. CASE LifecycleStep
  BY Zenon, <1>1
     DEF LifecycleStep, CreateRun, StartRun, WaitRun, ResumeRun, RetryRun, CompleteRun,
              FailRunRetryable, FailRun, CancelRun, NoActivityLost
<1>2. CASE ApprovalStep
  BY Zenon, <1>2
     DEF ApprovalStep, RequestApproval, ApproveRequest, RejectRequest, ExpireApproval
<1>3. CASE ActivityStep
  <2>1. PICK a \in Activities :
          \/ UNCHANGED settled
          \/ a \in active /\ \E x \in Outcomes, c \in {"none", "drift", "other"} :
                               ActivitySettled(a, x, c)
    BY Zenon, <1>3 DEF ActivityStep, RequestActivity, MarkActivityCallStarted, CompleteActivity,
                CanCompleteActivity, FailActivity, CanFailActivity, MarkActivityOutcomeUnknown,
                CanMarkOutcomeUnknown, Outcomes
  <2> QED BY ZenonT(40), <2>1 DEF ActivitySettled, NoActivityLost, TypeOK
<1>4. CASE RenewalStep
  BY ZenonT(40), <1>4 DEF RenewalStep, RefreshToolIntent
<1>5. CASE EffectStep
  <2>1. PICK a \in Activities :
           \/ PrepareEffectOperation(a) \/ StartEffectDispatch(a)
           \/ AbandonEffectResolution(a)
           \/ \E o \in Observations : EvidenceStep(a, o)
    BY ZenonT(40), <1>5, EffectCases
  <2>2. ASSUME NEW o \in Observations, EvidenceStep(a, o)
        PROVE  KeepsSettlements
    <3>1. EvidenceSettles(a, o)
      BY ZenonT(40), <2>2, EvidenceOutcome
    <3> QED BY Zenon, <3>1 DEF EvidenceSettles, ActivitySettled, TypeOK
  <2>3. CASE PrepareEffectOperation(a) \/ StartEffectDispatch(a) \/ AbandonEffectResolution(a)
    BY Zenon, <2>3 DEF PrepareEffectOperation, StartEffectDispatch, AbandonEffectResolution
  <2> QED BY Zenon, <2>1, <2>2, <2>3
<1>6. CASE UNCHANGED runVars
  BY Zenon, <1>6 DEF runVars
<1> QED BY Zenon, <1>1, <1>2, <1>3, <1>4, <1>5, <1>6 DEF Next

(* Only an unknown outcome is ever replaced, and only by success or        *)
(* failure (_is_duplicate_settlement, decide_effect).                      *)
THEOREM SettlementFinalTheorem == Spec => SettlementFinal
BY Invariance, SettlementsKept, PTL DEF Spec, SettlementFinal

(* Final outcomes, results, receipts and revisions are kept: the receipt   *)
(* that would change one is a conflict instead.                            *)
LEMMA EvidenceKeptStep ==
  ASSUME RunInv, [Next]_runVars
  PROVE  KeepsEvidence
<1> USE DEF KeepsEvidence
<1> TypeOK /\ Books
  BY Zenon DEF RunInv
<1>1. CASE LifecycleStep \/ ApprovalStep \/ ActivityStep \/ RenewalStep
  BY Zenon, <1>1, EffectFrame DEF effectVars
<1>2. CASE EffectStep
  <2>1. PICK a \in Activities :
           \/ PrepareEffectOperation(a) \/ StartEffectDispatch(a)
           \/ AbandonEffectResolution(a)
           \/ \E o \in Observations : EvidenceStep(a, o)
    BY Zenon, <1>2, EffectCases
  <2> USE DEF TypeOK, FinalOp
  <2>2. ASSUME NEW o \in Observations, EvidenceStep(a, o)
        PROVE  KeepsEvidence
    <3>1. CASE RecordConflict(a, o)
      BY ZenonT(40), <3>1 DEF RecordConflict, NewReceipt
    <3>2. CASE RecordReceipt(a, o)
      BY Zenon, <3>2 DEF RecordReceipt, NewReceipt, Contradicts, ResultAfter
    <3> QED BY Zenon, <2>2, <3>1, <3>2 DEF EvidenceStep
  <2>3. CASE PrepareEffectOperation(a)
    BY <2>3 DEF PrepareEffectOperation, Books
  <2>4. CASE StartEffectDispatch(a)
    BY Zenon, <2>4 DEF StartEffectDispatch, CanStartDispatch
  <2>5. CASE AbandonEffectResolution(a)
    BY Zenon, <2>5 DEF AbandonEffectResolution
  <2> QED BY Zenon, <2>1, <2>2, <2>3, <2>4, <2>5
<1>3. CASE UNCHANGED runVars
  BY Zenon, <1>3 DEF runVars, effectVars
<1> QED BY Zenon, <1>1, <1>2, <1>3 DEF Next

(* No receipt, however late, changes a recorded outcome or its result      *)
(* (decide_effect, evolve_effect).                                         *)
THEOREM EvidenceFinalTheorem == Spec => EvidenceFinal
BY Invariance, EvidenceKeptStep, PTL DEF Spec, EvidenceFinal

(* An ended Run accepts nothing but evidence and abandonment.              *)
LEMMA EndedStep ==
  ASSUME RunInv, [Next]_runVars
  PROVE  KeepsEnded
<1> SUFFICES ASSUME ~Live PROVE KeepsEnded
  BY Zenon DEF KeepsEnded
<1> USE DEF KeepsEnded, Live, Terminal
<1> TypeOK /\ NoActivityLost
  BY Zenon DEF RunInv
<1>1. ~LifecycleStep
  BY Zenon DEF LifecycleStep, CreateRun, StartRun, WaitRun, ResumeRun, CanRetryRun, RetryRun,
         CompleteRun, FailRunRetryable, FailRun, CancelRun
<1>2. ~ApprovalStep
  BY Zenon DEF ApprovalStep, RequestApproval, ApproveRequest, RejectRequest, ExpireApproval,
         AwaitsDecision
<1>3. ~ActivityStep
  BY Zenon DEF ActivityStep, RequestActivity, MarkActivityCallStarted, CompleteActivity,
         FailActivity, MarkActivityOutcomeUnknown, CanMarkCallStarted, CanCompleteActivity,
         CanFailActivity, CanMarkOutcomeUnknown
<1>4. ~RenewalStep
  BY ZenonT(40) DEF RenewalStep, RefreshToolIntent
<1>5. CASE EffectStep
  <2>1. PICK a \in Activities :
           \/ PrepareEffectOperation(a) \/ StartEffectDispatch(a)
           \/ AbandonEffectResolution(a)
           \/ \E o \in Observations : EvidenceStep(a, o)
    BY ZenonT(40), <1>5, EffectCases
  <2>2. ASSUME NEW o \in Observations, EvidenceStep(a, o)
        PROVE  KeepsEnded
    <3>1. op_state[a] # "absent"
      BY Zenon, <2>2 DEF EvidenceStep, CanObserve
    <3>2. CASE RecordConflict(a, o)
      BY Zenon, <3>2 DEF RecordConflict, lifecycleVars
    <3>3. CASE /\ RecordReceipt(a, o)
               /\ UNCHANGED <<lifecycleVars, activityVars>> \/ ApplyEvidence(a, o)
               /\ UNCHANGED <<approvalVars, refreshes>>
      <4>1. UNCHANGED <<lifecycleVars, activityVars>>
        BY Zenon, <3>3 DEF ApplyEvidence, MaySettle
      <4> QED BY Zenon, <3>1, <3>3, <4>1 DEF RecordReceipt, TypeOK
    <3> QED BY Zenon, <2>2, <3>2, <3>3 DEF EvidenceStep
  <2>3. CASE PrepareEffectOperation(a) \/ StartEffectDispatch(a) \/ AbandonEffectResolution(a)
    BY Zenon, <2>3 DEF PrepareEffectOperation, StartEffectDispatch, CanStartDispatch,
                AbandonEffectResolution
  <2> QED BY Zenon, <2>1, <2>2, <2>3
<1>6. CASE UNCHANGED runVars
  BY ZenonT(40), <1>6 DEF runVars, effectVars
<1> QED BY Zenon, <1>1, <1>2, <1>3, <1>4, <1>5, <1>6 DEF Next

(* No command or receipt revives an ended Run or gives it a new operation  *)
(* (decide on TERMINAL_STATUSES, decide_effect).                           *)
THEOREM TerminalFrozenTheorem == Spec => TerminalFrozen
BY Invariance, EndedStep, PTL DEF Spec, TerminalFrozen

(* A decided approval is never decided again: only the pending one is, and *)
(* it is undecided.                                                        *)
LEMMA DecisionStep ==
  ASSUME RunInv, [Next]_runVars
  PROVE  KeepsDecisions
<1> USE DEF KeepsDecisions, approvalVars
<1> TypeOK /\ ApprovalWaitIsPending
  BY Zenon DEF RunInv
<1>1. CASE LifecycleStep
  BY ZenonT(40), <1>1
     DEF LifecycleStep, CreateRun, StartRun, WaitRun, ResumeRun, RetryRun, CompleteRun,
              FailRunRetryable, FailRun, CancelRun
<1>2. CASE ApprovalStep
  BY ZenonT(40), <1>2, NoneAssumption
     DEF ApprovalStep, RequestApproval, ApproveRequest, RejectRequest, ExpireApproval,
         AwaitsDecision, ApprovalWaitIsPending, TypeOK
<1>3. CASE ActivityStep
  BY Zenon, <1>3 DEF ActivityStep, RequestActivity, MarkActivityCallStarted, CompleteActivity,
              FailActivity, MarkActivityOutcomeUnknown
<1>4. CASE RenewalStep
  BY ZenonT(40), <1>4 DEF RenewalStep, RefreshToolIntent
<1>5. CASE EffectStep
  BY Zenon, <1>5, EffectCases
     DEF EvidenceStep, RecordConflict, PrepareEffectOperation, StartEffectDispatch,
         AbandonEffectResolution
<1>6. CASE UNCHANGED runVars
  BY Zenon, <1>6 DEF runVars
<1> QED BY Zenon, <1>1, <1>2, <1>3, <1>4, <1>5, <1>6 DEF Next

(* An approval is decided once (_decide_DecideApproval,                    *)
(* _decide_ExpireApproval).                                                *)
THEOREM DecisionFinalTheorem == Spec => DecisionFinal
BY Invariance, DecisionStep, PTL DEF Spec, DecisionFinal

(* The wait for evidence ends in running only with the last evidence.      *)
LEMMA ResumeStep ==
  ASSUME RunInv, [Next]_runVars
  PROVE  ResumesCertain
<1> SUFFICES ASSUME wait_reason \in UnknownReasons, status' \in {"running", "queued"}
             PROVE  ResumesCertain
  BY Zenon DEF ResumesCertain
<1> TypeOK /\ Books
  BY Zenon DEF RunInv
<1>0. status = "waiting"
  BY Zenon, NoneAssumption DEF Books, UnknownReasons
<1>1. ~LifecycleStep
  BY Zenon, <1>0
     DEF LifecycleStep, CreateRun, StartRun, WaitRun, ResumeRun, CanRetryRun, RetryRun,
         CompleteRun, FailRunRetryable, FailRun, CancelRun, RunIs, RunEnded, UnknownReasons
<1>2. ~ApprovalStep
  BY Zenon, <1>0
     DEF ApprovalStep, RequestApproval, ApproveRequest, RejectRequest, ExpireApproval,
         AwaitsDecision, UnknownReasons
<1>3. ~ActivityStep
  BY Zenon, <1>0 DEF ActivityStep, RequestActivity, MarkActivityCallStarted, CompleteActivity,
         FailActivity, MarkActivityOutcomeUnknown, lifecycleVars, RunIs
<1>4. ~RenewalStep
  BY Zenon, <1>0 DEF RenewalStep, RefreshToolIntent, UnknownReasons
<1>5. CASE EffectStep
  <2>1. PICK a \in Activities :
           \/ PrepareEffectOperation(a) \/ StartEffectDispatch(a)
           \/ AbandonEffectResolution(a)
           \/ \E o \in Observations : EvidenceStep(a, o)
    BY Zenon, <1>5, EffectCases
  <2>2. ASSUME NEW o \in Observations, EvidenceStep(a, o)
        PROVE  ResumesCertain
    <3>1. RecordReceipt(a, o) /\ ApplyEvidence(a, o) /\ MaySettle(a) /\ ~OtherUnknown(a)
      BY Zenon, <1>0, <2>2 DEF EvidenceStep, RecordConflict, ApplyEvidence, ResumeIfResolved, RunIs,
                         Live, Terminal, lifecycleVars
    <3>2. o.state = "not_applied" \/ (o.state = "applied" /\ o.result # None)
      BY Zenon, <1>0, <3>1 DEF ApplyEvidence, RunIs
    <3>3. \A b \in Activities \ {a} :
            op_state[b] \notin Uncertain /\ b \notin awaiting /\ b \notin conflicts
      BY Zenon, <3>1 DEF OtherUnknown, Operations, Books, Uncertain
    <3>4. a \notin conflicts /\ conflicts' = conflicts
      BY Zenon, <3>1 DEF MaySettle, RecordReceipt
    <3>5. a \notin awaiting' /\ awaiting' \subseteq awaiting \cup {a}
      BY Zenon, <3>1, <3>2 DEF RecordReceipt, ResultAfter
    <3>6. \A b \in Activities : op_state'[b] = IF b = a THEN o.state ELSE op_state[b]
      BY Zenon, <3>1 DEF RecordReceipt, TypeOK
    <3>7. conflicts' = {} /\ awaiting' = {}
      BY ZenonT(40), <3>3, <3>4, <3>5 DEF TypeOK
    <3>8. \A b \in Activities : op_state'[b] \notin Uncertain
      BY Zenon, <3>2, <3>3, <3>6 DEF Uncertain
    <3> QED BY Zenon, <3>7, <3>8 DEF ResumesCertain
  <2>3. CASE PrepareEffectOperation(a) \/ StartEffectDispatch(a) \/ AbandonEffectResolution(a)
    BY Zenon, <1>0, <2>3 DEF PrepareEffectOperation, StartEffectDispatch, AbandonEffectResolution,
                      lifecycleVars
  <2> QED BY Zenon, <2>1, <2>2, <2>3
<1>6. CASE UNCHANGED runVars
  BY Zenon, <1>0, <1>6 DEF runVars, lifecycleVars
<1> QED BY Zenon, <1>1, <1>2, <1>3, <1>4, <1>5, <1>6 DEF Next

(* A Run that waits for outside evidence runs again only when no operation *)
(* is uncertain, without its result or in conflict (other_unknown in       *)
(* decide_effect).                                                         *)
THEOREM ResumeTheorem == Spec => ResumeOnlyWhenCertain
BY Invariance, ResumeStep, PTL DEF Spec, ResumeOnlyWhenCertain

-----------------------------------------------------------------------------
(* The memory of renewals and approvals: the renewals of a drifted tool    *)
(* intent form a chain, and a running Activity is the one that was         *)
(* approved.                                                               *)

\* The Activities a renewal produces, and those of any renewal.
Produces(r) == {PrepareOf[r], ReplacementOf[r]}
Produced == UNION {Produces(r) : r \in Refreshes}

\* Renewal identities are used once.
RefreshOnce ==
  \A i, j \in 1..Len(refreshes) : i # j => refreshes[i].refresh # refreshes[j].refresh

\* A renewed Activity failed in the generation of its renewal.
RenewedFailed ==
  \A i \in 1..Len(refreshes) :
     /\ settled[refreshes[i].activity] = "failed"
     /\ generation[refreshes[i].activity] = refreshes[i].generation

\* A requested Activity of a renewal has its renewal on record.
ProducedKnown ==
  \A a \in Produced : generation[a] # None =>
     \E j \in 1..Len(refreshes) :
        a \in Produces(refreshes[j].refresh) /\ refreshes[j].generation = generation[a]

\* A renewal continues the chain of the renewal that produced its Activity, or
\* begins one with an Activity no renewal produces.
RootsLinked ==
  \A i \in 1..Len(refreshes) :
     \/ refreshes[i].activity \notin Produced /\ refreshes[i].root = refreshes[i].activity
     \/ \E j \in 1..(i - 1) :
          /\ refreshes[i].activity \in Produces(refreshes[j].refresh)
          /\ refreshes[j].generation = refreshes[i].generation
          /\ refreshes[j].root = refreshes[i].root

ChainInv == RefreshOnce /\ RenewedFailed /\ ProducedKnown /\ RootsLinked /\ RenewalsFormChain

-----------------------------------------------------------------------------
(* Every command but a renewal leaves the renewals alone, and gives a      *)
(* generation only to an Activity it requests (evolve).                    *)
LEMMA RenewalFrame ==
  ASSUME TypeOK, LifecycleStep \/ ApprovalStep \/ ActivityStep \/ EffectStep \/ UNCHANGED runVars
  PROVE  /\ UNCHANGED refreshes
         /\ \/ UNCHANGED generation
            \/ \E a \in Activities :
                 /\ settled[a] = "none" /\ Known(a)
                 /\ generation' = [generation EXCEPT ![a] = retry_generation]
<1> USE DEF activityVars
<1>1. CASE LifecycleStep
  BY Zenon, <1>1
     DEF LifecycleStep, CreateRun, StartRun, WaitRun, ResumeRun, RetryRun, CompleteRun,
         FailRunRetryable, FailRun, CancelRun, RunEnded
<1>2. CASE ApprovalStep
  BY Zenon, <1>2
     DEF ApprovalStep, RequestApproval, ApproveRequest, RejectRequest, ExpireApproval, RunEnded
<1>3. CASE ActivityStep
  BY Zenon, <1>3
     DEF ActivityStep, RequestActivity, MarkActivityCallStarted, CompleteActivity, FailActivity,
         MarkActivityOutcomeUnknown, ActivitySettled
<1>4. CASE EffectStep
  BY ZenonT(40), <1>4, EffectCases
     DEF EvidenceStep, RecordConflict, PrepareEffectOperation, StartEffectDispatch,
         AbandonEffectResolution, ApplyEvidence, ActivitySettled
<1>5. CASE UNCHANGED runVars
  BY Zenon, <1>5 DEF runVars
<1> QED BY Zenon, <1>1, <1>2, <1>3, <1>4, <1>5

(* Such a command keeps the chains.                                        *)
LEMMA FrameChain ==
  ASSUME RunInv, ChainInv, [Next]_runVars,
         LifecycleStep \/ ApprovalStep \/ ActivityStep \/ EffectStep \/ UNCHANGED runVars
  PROVE  ChainInv'
<1> TypeOK
  BY Zenon DEF RunInv
<1>1. /\ refreshes' = refreshes
      /\ \/ generation' = generation
         \/ \E a \in Activities :
              /\ settled[a] = "none" /\ Known(a)
              /\ generation' = [generation EXCEPT ![a] = retry_generation]
  BY Zenon, RenewalFrame
<1>2. KeepsSettlements
  BY Zenon, SettlementsKept
<1>3. \A i \in 1..Len(refreshes) : refreshes[i] \in RefreshRecords
  BY Zenon, ElementOfSeq DEF TypeOK
<1>4. RefreshOnce' /\ RootsLinked' /\ RenewalsFormChain'
  BY ZenonT(40), <1>1 DEF ChainInv, RefreshOnce, RootsLinked, RenewalsFormChain, Produces, Produced
<1>5. RenewedFailed'
  <2> SUFFICES ASSUME NEW i \in 1..Len(refreshes)
               PROVE  /\ settled'[refreshes[i].activity] = "failed"
                      /\ generation'[refreshes[i].activity] = refreshes[i].generation
    BY Zenon, <1>1 DEF RenewedFailed
  <2>1. refreshes[i].activity \in Activities
    BY Zenon, <1>3 DEF RefreshRecords
  <2>2. /\ settled[refreshes[i].activity] = "failed"
        /\ generation[refreshes[i].activity] = refreshes[i].generation
    BY Zenon DEF ChainInv, RenewedFailed
  <2>3. settled'[refreshes[i].activity] = "failed"
    BY Zenon, <1>2, <2>1, <2>2 DEF KeepsSettlements
  <2>4. generation'[refreshes[i].activity] = generation[refreshes[i].activity]
    BY Zenon, <1>1, <2>1, <2>2 DEF TypeOK
  <2> QED BY Zenon, <2>2, <2>3, <2>4
<1>6. ProducedKnown'
  <2> SUFFICES ASSUME NEW a \in Produced, generation'[a] # None
               PROVE  \E j \in 1..Len(refreshes) :
                        /\ a \in Produces(refreshes[j].refresh)
                        /\ refreshes[j].generation = generation'[a]
    BY Zenon, <1>1 DEF ProducedKnown, Produces, Produced
  <2>1. a \in Activities
    BY RefreshAssumption DEF Produced, Produces
  <2>2. CASE generation'[a] = generation[a]
    BY Zenon, <2>2 DEF ChainInv, ProducedKnown
  <2>3. CASE generation'[a] # generation[a]
    <3>1. Known(a) /\ generation'[a] = retry_generation
      BY Zenon, <1>1, <2>1, <2>3 DEF TypeOK
    <3>2. Producing(a) # {}
      BY Zenon, <3>1 DEF Known, Produced, Produces
    <3> QED BY Zenon, <3>1, <3>2 DEF Producing, Produces
  <2> QED BY Zenon, <2>2, <2>3
<1> QED BY Zenon, <1>4, <1>5, <1>6 DEF ChainInv

(* An Activity that may be renewed was not renewed before: the renewal on  *)
(* record would be newer than the one that produced it                     *)
(* (_decide_RefreshToolIntent).                                            *)
LEMMA NotRenewedYet ==
  ASSUME TypeOK, ChainInv, NEW a \in Activities,
         generation[a] = retry_generation, NotSuperseded(a)
  PROVE  \A i \in 1..Len(refreshes) : refreshes[i].activity # a
<1> SUFFICES ASSUME NEW i \in 1..Len(refreshes), refreshes[i].activity = a
             PROVE  FALSE
  BY Zenon
<1>0. Len(refreshes) \in Nat /\ \A k \in 1..Len(refreshes) : refreshes[k] \in RefreshRecords
  BY Zenon, ElementOfSeq, LenProperties DEF TypeOK
<1>1. refreshes[i].generation = retry_generation
  BY Zenon DEF ChainInv, RenewedFailed
<1>2. Producing(a) \subseteq 1..Len(refreshes)
  BY Zenon DEF Producing
<1>3. CASE a \notin Produced
  <2>1. Producing(a) = {}
    BY Zenon, <1>0, <1>3 DEF Producing, Produced, Produces, RefreshRecords
  <2>2. refreshes[i].root = a
    <3>1. \A j \in 1..(i - 1) : a \notin Produces(refreshes[j].refresh)
      BY <1>0, <1>3 DEF Produced, RefreshRecords
    <3> QED BY Zenon, <3>1 DEF ChainInv, RootsLinked
  <2> QED BY Zenon, <1>1, <2>1, <2>2 DEF NotSuperseded, RootOf, RenewalsOf
<1>4. CASE a \in Produced
  <2>1. PICK j \in 1..(i - 1) :
          /\ a \in Produces(refreshes[j].refresh)
          /\ refreshes[j].generation = refreshes[i].generation
          /\ refreshes[j].root = refreshes[i].root
    BY Zenon, <1>4 DEF ChainInv, RootsLinked
  <2>2. j \in 1..Len(refreshes) /\ j < i
    BY <1>0, <2>1
  <2>3. j \in Producing(a)
    BY Zenon, <1>1, <2>1, <2>2 DEF Producing, Produces
  <2>4. \A k \in Producing(a) : k = j
    <3> SUFFICES ASSUME NEW k \in Producing(a), k # j PROVE FALSE
      BY Zenon
    <3>1. k \in 1..Len(refreshes) /\ a \in Produces(refreshes[k].refresh)
      BY Zenon DEF Producing, Produces
    <3>2. refreshes[k].refresh # refreshes[j].refresh
      BY Zenon, <2>2, <3>1 DEF ChainInv, RefreshOnce
    <3>3. refreshes[k].refresh \in Refreshes /\ refreshes[j].refresh \in Refreshes
      BY Zenon, <1>0, <2>2, <3>1 DEF RefreshRecords
    <3> QED BY ZenonT(40), <2>1, <3>1, <3>2, <3>3, RefreshAssumption DEF Produces
  <2>5. Latest(Producing(a)) = j
    BY Zenon, <1>0, <1>2, <2>3, <2>4, LatestMember
  <2>6. RootOf(a) = refreshes[j].root
    BY Zenon, <2>3, <2>5 DEF RootOf
  <2>7. i \in RenewalsOf(RootOf(a)) /\ RenewalsOf(RootOf(a)) \subseteq 1..Len(refreshes)
    BY Zenon, <1>1, <2>1, <2>6 DEF RenewalsOf
  <2>8. i <= Latest(RenewalsOf(RootOf(a)))
    BY Zenon, <1>0, <2>7, LatestMember
  <2>9. Latest(RenewalsOf(RootOf(a))) = j
    BY Zenon, <2>3, <2>5 DEF NotSuperseded
  <2> QED BY <2>2, <2>8, <2>9
<1> QED BY Zenon, <1>3, <1>4

(* A renewal keeps the chains.                                             *)
LEMMA RenewalChain ==
  ASSUME TypeOK, ChainInv, RenewalStep
  PROVE  ChainInv'
<1>1. PICK r \in Refreshes, a \in Activities, s \in Subjects \cup {None} :
        RefreshToolIntent(r, a, s)
  BY Zenon DEF RenewalStep
<1> DEFINE n == Len(refreshes)
           record == [refresh |-> r, activity |-> a, root |-> RootOf(a), expected |-> s,
                      generation |-> retry_generation]
<1>2. refreshes \in Seq(RefreshRecords) /\ n \in Nat
  BY Zenon, LenProperties DEF TypeOK
<1>3. record \in RefreshRecords
  BY Zenon, RootType DEF RefreshRecords, TypeOK
<1>4. /\ Len(refreshes') = n + 1 /\ refreshes'[n + 1] = record
      /\ \A i \in 1..n : refreshes'[i] = refreshes[i]
  BY SMTT(30), <1>1, <1>2, <1>3, AppendProperties DEF RefreshToolIntent
<1>5. /\ settled' = settled /\ generation' = generation
      /\ settled[a] = "failed" /\ generation[a] = retry_generation /\ NotSuperseded(a)
      /\ \A i \in 1..n : refreshes[i].refresh # r
  BY Zenon, <1>1 DEF RefreshToolIntent, activityVars
<1>6. \A i \in 1..n : refreshes[i].activity # a
  BY Zenon, <1>5, NotRenewedYet
<1>7. 1..(n + 1) = (1..n) \cup {n + 1} /\ n + 1 \notin 1..n
  BY <1>2
<1>8. \A i \in 1..n : refreshes[i] \in RefreshRecords
  BY Zenon, <1>2, ElementOfSeq
<1> HIDE DEF n
<1>9. RefreshOnce'
  BY <1>4, <1>5, <1>7 DEF ChainInv, RefreshOnce, n
<1>10. RenewalsFormChain'
  BY <1>4, <1>6, <1>7 DEF ChainInv, RenewalsFormChain, n
<1>11. RenewedFailed'
  BY <1>4, <1>5, <1>7 DEF ChainInv, RenewedFailed, n
<1>12. ProducedKnown'
  BY <1>4, <1>5, <1>7 DEF ChainInv, ProducedKnown, Produced, Produces, n
<1>13. RootsLinked'
  <2>1. ASSUME NEW i \in 1..n
        PROVE  \/ /\ refreshes'[i].activity \notin Produced
                  /\ refreshes'[i].root = refreshes'[i].activity
               \/ \E j \in 1..(i - 1) :
                    /\ refreshes'[i].activity \in Produces(refreshes'[j].refresh)
                    /\ refreshes'[j].generation = refreshes'[i].generation
                    /\ refreshes'[j].root = refreshes'[i].root
    <3>1. \A j \in 1..(i - 1) : j \in 1..n
      BY <1>2
    <3> QED BY ZenonT(40), <1>4, <3>1 DEF ChainInv, RootsLinked, n
  <2>2. CASE a \notin Produced
    <3>1. Producing(a) = {}
      BY Zenon, <1>8, <2>2 DEF Producing, Produced, Produces, RefreshRecords, n
    <3> QED BY <1>4, <1>7, <2>1, <2>2, <3>1 DEF RootsLinked, RootOf, Produced, Produces
  <2>3. CASE a \in Produced
    <3>1. Producing(a) # {}
      <4>1. generation[a] # None
        BY Zenon, <1>5, NoneAssumption DEF TypeOK
      <4>2. PICK j \in 1..n :
              a \in Produces(refreshes[j].refresh) /\ refreshes[j].generation = generation[a]
        BY Zenon, <2>3, <4>1 DEF ChainInv, ProducedKnown, n
      <4> QED BY Zenon, <1>5, <4>2 DEF Producing, Produces, n
    <3>2. Producing(a) \subseteq 1..n
      BY Zenon DEF Producing, n
    <3>3. Latest(Producing(a)) \in Producing(a)
      BY Zenon, <1>2, <3>1, <3>2, LatestMember
    <3> DEFINE j == Latest(Producing(a))
    <3>4. /\ j \in 1..n /\ a \in Produces(refreshes[j].refresh)
          /\ refreshes[j].generation = retry_generation
      BY ZenonT(40), <3>3 DEF Producing, Produces, n
    <3>5. RootOf(a) = refreshes[j].root
      BY Zenon, <3>1 DEF RootOf
    <3> HIDE DEF j
    <3>6. j \in 1..((n + 1) - 1)
      BY <1>2, <3>4
    <3>7. \E k \in 1..((n + 1) - 1) :
            /\ refreshes'[n + 1].activity \in Produces(refreshes'[k].refresh)
            /\ refreshes'[k].generation = refreshes'[n + 1].generation
            /\ refreshes'[k].root = refreshes'[n + 1].root
      BY <1>4, <3>4, <3>5, <3>6
    <3> QED BY ZenonT(40), <1>4, <1>7, <2>1, <3>7 DEF RootsLinked, Produced, Produces
  <2> QED BY Zenon, <2>2, <2>3
<1> QED BY Zenon, <1>9, <1>10, <1>11, <1>12, <1>13 DEF ChainInv

(* No Activity is renewed twice, so a drifted tool call has at most one    *)
(* live replacement, however renewals, retries and late failures           *)
(* interleave (_decide_RefreshToolIntent).                                 *)
THEOREM RenewalsFormChainTheorem == Spec => []RenewalsFormChain
<1>1. Init => ChainInv
  <2> SUFFICES ASSUME Init PROVE ChainInv
    BY Zenon
  <2>1. \A i \in 1..Len(refreshes) : FALSE
    BY DEF Init
  <2>2. ProducedKnown
    BY RefreshAssumption DEF Init, ProducedKnown, Produced, Produces
  <2> QED BY Zenon, <2>1, <2>2 DEF ChainInv, RefreshOnce, RenewedFailed, RootsLinked, RenewalsFormChain
<1>2. RunInv /\ ChainInv /\ [Next]_runVars => ChainInv'
  BY Zenon, FrameChain, RenewalChain DEF Next, RunInv
<1>3. ChainInv => RenewalsFormChain
  BY Zenon DEF ChainInv
<1> QED BY <1>1, <1>2, <1>3, Invariance, PTL DEF Spec

-----------------------------------------------------------------------------
(* Approved subjects.                                                      *)

(* Approvals and their subjects change only in a Run with no Activity      *)
(* beside them, or that ends (_decide_RequestApproval, evolve).            *)
LEMMA StepMatches ==
  ASSUME RunInv, ActiveMatchesApproval, [Next]_runVars
  PROVE  ActiveMatchesApproval'
<1> TypeOK /\ ApprovalWaitIsPending
  BY Zenon DEF RunInv
<1>0. ASSUME approval_subjects' = approval_subjects, decision' = decision,
             \A a \in active' : a \in active /\ subject'[a] = subject[a]
      PROVE  ActiveMatchesApproval'
  BY ZenonT(40), <1>0 DEF ActiveMatchesApproval, MatchesApproval, BoundTo
<1>1. ASSUME active' = {}
      PROVE  ActiveMatchesApproval'
  BY Zenon, <1>1 DEF ActiveMatchesApproval
<1> USE DEF approvalVars, activityVars
<1>2. CASE LifecycleStep
  <2>1. active' = {} \/ UNCHANGED <<approval_subjects, decision, active, subject>>
    BY Zenon, <1>2
       DEF LifecycleStep, CreateRun, StartRun, WaitRun, ResumeRun, RetryRun, CompleteRun,
           FailRunRetryable, FailRun, CancelRun, RunEnded
  <2> QED BY Zenon, <1>0, <1>1, <2>1
<1>3. CASE ApprovalStep
  <2>1. active' = {}
    BY Zenon, <1>3
       DEF ApprovalStep, RequestApproval, ApproveRequest, RejectRequest, ExpireApproval,
           RunEnded, AwaitsDecision, ApprovalWaitIsPending
  <2> QED BY Zenon, <1>1, <2>1
<1>4. CASE ActivityStep
  <2>1. PICK a \in Activities :
          \/ \E s \in Subjects \cup {None} : RequestActivity(a, s)
          \/ UNCHANGED <<approval_subjects, decision, subject>> /\ active' \subseteq active
    BY Zenon, <1>4
       DEF ActivityStep, MarkActivityCallStarted, CompleteActivity, FailActivity,
           MarkActivityOutcomeUnknown, ActivitySettled
  <2>2. ASSUME NEW s \in Subjects \cup {None}, RequestActivity(a, s)
        PROVE  ActiveMatchesApproval'
    <3>1. /\ approval_subjects' = approval_subjects /\ decision' = decision
          /\ active' = active \cup {a} /\ MatchesApproval(a, s)
          /\ \A b \in Activities : subject'[b] = IF b = a THEN s ELSE subject[b]
      BY Zenon, <2>2 DEF RequestActivity, TypeOK
    <3>2. \A b \in active' : b \in Activities /\ MatchesApproval(b, subject'[b])
      BY Zenon, <3>1 DEF ActiveMatchesApproval, TypeOK
    <3>3. \A b, t : MatchesApproval(b, t)' <=> MatchesApproval(b, t)
      BY Zenon, <3>1 DEF MatchesApproval, BoundTo
    <3> QED BY ZenonT(40), <3>2, <3>3 DEF ActiveMatchesApproval, MatchesApproval
  <2> QED BY Zenon, <1>0, <2>1, <2>2
<1>5. CASE RenewalStep
  BY Zenon, <1>0, <1>5 DEF RenewalStep, RefreshToolIntent
<1>6. CASE EffectStep
  <2>1. UNCHANGED <<approval_subjects, decision, subject>> /\ active' \subseteq active
    BY ZenonT(40), <1>6, EffectCases
       DEF EvidenceStep, RecordConflict, PrepareEffectOperation, StartEffectDispatch,
           AbandonEffectResolution, ApplyEvidence, ActivitySettled
  <2> QED BY Zenon, <1>0, <2>1
<1>7. CASE UNCHANGED runVars
  BY Zenon, <1>0, <1>7 DEF runVars
<1> QED BY Zenon, <1>2, <1>3, <1>4, <1>5, <1>6, <1>7 DEF Next

(* A running Activity carries the subject that was approved last for it    *)
(* (_decide_RequestActivity, _decide_RequestApproval).                     *)
THEOREM ActiveMatchesApprovalTheorem == Spec => []ActiveMatchesApproval
<1>1. Init => ActiveMatchesApproval
  BY Zenon DEF Init, ActiveMatchesApproval
<1>2. RunInv /\ ActiveMatchesApproval /\ [Next]_runVars => ActiveMatchesApproval'
  BY Zenon, StepMatches
<1> QED BY <1>1, <1>2, Invariance, PTL DEF Spec
=============================================================================
