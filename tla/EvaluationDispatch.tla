-------------------------- MODULE EvaluationDispatch --------------------------
(* Evaluation Runs at work: the slots and the lineage of EvaluationSlots   *)
(* together with the ledger of BudgetLedger.  They meet twice: a physical  *)
(* model call is reserved only for the current Run of its work unit, while *)
(* it holds its slot and runs; and a replacement is admitted only when no  *)
(* call of the lineage is without a receipt.                               *)
EXTENDS EvaluationSlots, BudgetLedger

CONSTANTS
  RunOf,      \* RunOf[c]: the Run that makes call c
  LogicalOf,  \* LogicalOf[c]: the logical call, shared by the work unit
  MaxSends    \* sends of a logical call, over all attempts (3 in the code)

ASSUME DispatchAssumption ==
  /\ \A c \in Calls : RunOf[c] \in Runs
  /\ MaxSends \in Nat \ {0}

vars == <<slotVars, ledgerVars>>

Init == SlotsInit /\ LedgerInit

\* before_activity, and the same conditions of reserve_in_uow.
MayWork(r) == IsOpen(r) /\ Current(r) /\ phase[r] = "held" /\ status[r] = "running"

\* evaluation_model_logical_calls.sends
Sends(l) == Cardinality({c \in Calls : LogicalOf[c] = l /\ call[c] # "none"})

\* before_send: the permit for call c is the commit of this step.
BeforeSend(c) ==
  /\ MayWork(RunOf[c])
  /\ Sends(LogicalOf[c]) < MaxSends
  /\ Reserve(c)
  /\ UNCHANGED slotVars

\* after_send, also long after the Run ended or was replaced.
AfterSend(c, x) == Settle(c, x) /\ UNCHANGED slotVars

\* mark_unknown
LoseTrack(c) == MarkUnknown(c) /\ UNCHANGED slotVars

\* Mutant of CallsSettled: a call nobody heard of again counts as settled.
CallsNotSending(r) == \A c \in Calls : RunOf[c] = r => call[c] # "dispatching"

\* Every call made for Run r has its receipt.
CallsSettled(r) == \A c \in Calls : RunOf[c] = r => ~InFlight(c)

\* Every call made for the lineage of r has its receipt.
LineageSettled(r) ==
  \A s \in Runs : UnitOf[s] = UnitOf[r] /\ lineage[s] # None => CallsSettled(s)

Admit(r) ==
  /\ AdmitInitial(r) \/ AdmitReplacement(r, LineageSettled(r))
  /\ UNCHANGED ledgerVars

Plan(r, p) == PlanReplacement(r, p, CallsSettled(p)) /\ UNCHANGED ledgerVars

RunStep(r) ==
  /\ \/ \E t \in Working \cup Ended \cup {"retry", "waiting"}, d \in BOOLEAN : Accept(r, t, d)
     \/ Refuse(r)
     \/ Withdraw(r)
  /\ UNCHANGED ledgerVars

Control ==
  \/ (\E r \in Runs : CloseNamespace(SpaceOf[r])) /\ UNCHANGED ledgerVars
  \/ ActivateSlots /\ UNCHANGED ledgerVars
  \/ ActivatePhysical /\ UNCHANGED slotVars

CallStep(c) == BeforeSend(c) \/ LoseTrack(c) \/ \E x \in Receipts : AfterSend(c, x)

Next ==
  \/ \E r \in Runs : Admit(r) \/ RunStep(r)
  \/ \E r, p \in Runs : Plan(r, p)
  \/ \E c \in Calls : CallStep(c)
  \/ Control

Spec == Init /\ [][Next]_vars

-----------------------------------------------------------------------------

(* One Run per work unit: however attempts fail, wait and are replaced, no *)
(* two Runs of a work unit need a slot at once, and the calls in flight    *)
(* for the unit are all of the one Run that has no replacement             *)
(* (assert_current, link_replacement, accepted, reserve_in_uow).           *)
OneRunPerUnit ==
  /\ \A r, s \in Runs : UnitOf[r] = UnitOf[s] /\ NeedsSlot(r) /\ NeedsSlot(s) => r = s
  /\ \A c \in Calls : InFlight(c) => Current(RunOf[c])
=============================================================================
