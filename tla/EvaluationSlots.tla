---------------------------- MODULE EvaluationSlots ----------------------------
(* The execution slots of evaluation Runs and the ancestry of their        *)
(* replacements.  A batch (or the judge) admits a Run in one transaction   *)
(* that records its place in the lineage of the work unit, takes a slot in *)
(* every pool and hands the CreateRun command to the inbox.  From then on  *)
(* each accepted command moves the slot with the status of the Run, in the *)
(* transaction that appends the events: a Run that waits or has ended      *)
(* holds none.                                                             *)
(*                                                                         *)
(* Every transaction here takes the namespace lock first, so each is one   *)
(* step.  A refusal takes the transaction back (the command is deferred,   *)
(* the admission is tried again later): the step does not happen.          *)
EXTENDS Integers, FiniteSets

CONSTANTS
  Runs,           \* evaluation Runs with a budget binding
  UnitOf,         \* UnitOf[r]: work unit (case, configuration, repetition) of r
  SpaceOf,        \* SpaceOf[r]: budget namespace of r, part of the work unit
  Pools,          \* keys of evaluation_execution_pools
  PoolsOf,        \* PoolsOf[r]: global, requester and workspace-purpose pool
  PoolLimit,      \* PoolLimit[v][p]: limit of p under policy v, where limited
  None,
  MaxPolicies,    \* bound on the revisions of the execution policy
  MaxGeneration   \* bound on the generation of a lease

ASSUME SlotsAssumption ==
  /\ IsFiniteSet(Runs)
  /\ None \notin Runs
  /\ \A r \in Runs : PoolsOf[r] \subseteq Pools
  /\ \A r, s \in Runs : UnitOf[r] = UnitOf[s] => SpaceOf[r] = SpaceOf[s]
  /\ MaxPolicies \in Nat \ {0}
  /\ MaxGeneration \in Nat \ {0}

VARIABLES
  phase,       \* lease of the Run: none, prepared, held, released
  generation,  \* generation of the lease
  status,      \* status in the journal and in lease.state; new: no events
  doubtful,    \* failed or waiting for a retry with an unknown settlement
  inbox,       \* CreateRun of the Run: none, received, accepted, rejected
  lineage,     \* None, the Run itself for a root, else its predecessor
  planned,     \* replacement planned for a failed attempt: <<run, generation>>
  open,        \* namespaces that are open
  policy,      \* revision of the execution policy
  occupied     \* evaluation_execution_pools

slotVars == <<phase, generation, status, doubtful, inbox, lineage, planned,
              open, policy, occupied>>

Ended == {"completed", "failed", "cancelled"}
Working == {"queued", "running"}
NoPlan == <<None, 0>>
MaxReplacements == 2        \* attempt > 2: case_attempt_limit

SlotsInit ==
  /\ phase = [r \in Runs |-> "none"]
  /\ generation = [r \in Runs |-> 0]
  /\ status = [r \in Runs |-> "new"]
  /\ doubtful = {}
  /\ inbox = [r \in Runs |-> "none"]
  /\ lineage = [r \in Runs |-> None]
  /\ planned = [r \in Runs |-> NoPlan]
  /\ open = {SpaceOf[r] : r \in Runs}
  /\ policy = 1
  /\ occupied = [p \in Pools |-> 0]

-----------------------------------------------------------------------------

IsOpen(r) == SpaceOf[r] \in open

\* acquire: the limit check of all pools comes before the first increment.
HasRoom(r) ==
  \A p \in PoolsOf[r] \cap DOMAIN PoolLimit[policy] : occupied[p] < PoolLimit[policy][p]

Occupy(r) ==
  occupied' = [p \in Pools |-> IF p \in PoolsOf[r] THEN occupied[p] + 1 ELSE occupied[p]]

Vacate(r) ==
  occupied' = [p \in Pools |-> IF p \in PoolsOf[r] THEN occupied[p] - 1 ELSE occupied[p]]

HasChild(r) == \E s \in Runs \ {r} : lineage[s] = r

\* assert_current
Current(r) == lineage[r] # None /\ ~HasChild(r)

\* require_unadmitted: neither events nor a command of the Run.
Unadmitted(r) == status[r] = "new" /\ inbox[r] = "none"

\* prepare and receive, after the lineage of r was recorded in the same
\* transaction.  A repeated admission finds the lease and changes nothing.
Prepare(r) ==
  /\ phase[r] = "none"
  /\ IsOpen(r)
  /\ HasRoom(r)
  /\ Occupy(r)
  /\ phase' = [phase EXCEPT ![r] = "prepared"]
  /\ generation' = [generation EXCEPT ![r] = 1]
  /\ inbox' = [inbox EXCEPT ![r] = "received"]
  /\ UNCHANGED <<status, doubtful, planned, open, policy>>

\* First attempt of a work unit: ensure_initial anchors the unit.
AdmitInitial(r) ==
  /\ planned[r] = NoPlan
  /\ lineage[r] = None /\ Unadmitted(r)
  /\ \A s \in Runs : UnitOf[s] = UnitOf[r] => lineage[s] = None
  /\ lineage' = [lineage EXCEPT ![r] = r]
  /\ Prepare(r)

\* The batch plans the next attempt r of a work unit whose current attempt
\* p failed; settled(p) says that no call of p is without a receipt.
PlanReplacement(r, p, settled) ==
  /\ r # p /\ UnitOf[r] = UnitOf[p]
  /\ planned[r] = NoPlan /\ lineage[r] = None
  /\ \A s \in Runs : planned[s][1] # p
  /\ Cardinality({s \in Runs : UnitOf[s] = UnitOf[r] /\ planned[s] # NoPlan}) < MaxReplacements
  /\ phase[p] = "released" /\ status[p] = "failed"
  /\ p \notin doubtful /\ settled
  /\ planned' = [planned EXCEPT ![r] = <<p, generation[p]>>]
  /\ UNCHANGED <<phase, generation, status, doubtful, inbox, lineage, open, policy, occupied>>

\* Its admission: link_replacement, then prepare; settled says that no call
\* of the whole lineage is without a receipt.
AdmitReplacement(r, settled) ==
  LET p == planned[r][1] IN
  /\ p # None
  /\ lineage[r] = None /\ Unadmitted(r)
  /\ lineage[p] # None
  /\ generation[p] = planned[r][2]
  /\ phase[p] = "released" /\ status[p] \in {"failed", "retry"}
  /\ p \notin doubtful /\ settled
  /\ ~HasChild(p)
  /\ lineage' = [lineage EXCEPT ![r] = p]
  /\ Prepare(r)

-----------------------------------------------------------------------------

\* Status changes an accepted command may bring; retry is the wait for the
\* retry timer, waiting every other wait.  A Run that waits for its retry may
\* also take late evidence; on an ended Run evidence settles no Activity and
\* frees or takes no slot, so that such a command changes nothing here.
MayMove(s, t) ==
  \/ s = "new" /\ t = "queued"
  \/ s = "queued" /\ t \in {"running", "waiting", "cancelled"}
  \/ s = "running" /\ t \in {"retry", "waiting"} \cup Ended
  \/ s = "waiting" /\ t \in {"running", "retry", "failed", "cancelled"}
  \/ s = "retry" /\ t \in {"queued", "waiting", "failed", "cancelled"}
  \/ s = "retry" /\ t = "retry"

\* accepted, target held: the Run is to work, so it must be admissible, and
\* it needs a slot unless it has one.
TakeUp(r) ==
  /\ IsOpen(r)
  /\ Current(r)
  /\ phase' = [phase EXCEPT ![r] = "held"]
  /\ IF phase[r] = "released"
     THEN /\ HasRoom(r) /\ Occupy(r)
          /\ generation[r] < MaxGeneration
          /\ generation' = [generation EXCEPT ![r] = @ + 1]
     ELSE UNCHANGED <<occupied, generation>>

\* Mutant of LayDown: a slot is given back whether or not the Run has one.
LayDownAgain(r) ==
  /\ phase' = [phase EXCEPT ![r] = "released"]
  /\ Vacate(r) /\ generation' = [generation EXCEPT ![r] = @ + 1]

\* accepted, target released: no admission check.
LayDown(r) ==
  /\ phase' = [phase EXCEPT ![r] = "released"]
  /\ IF phase[r] # "released"
     THEN Vacate(r) /\ generation' = [generation EXCEPT ![r] = @ + 1]
     ELSE UNCHANGED <<occupied, generation>>

\* A command of the Run is accepted and brings it to status t; doubt says
\* whether the new state records an unknown settlement (late evidence may
\* settle it), which matters where a replacement may follow.
Accept(r, t, doubt) ==
  /\ phase[r] # "none"
  /\ MayMove(status[r], t)
  /\ status[r] = "new" => inbox[r] = "received"
  /\ inbox' = [inbox EXCEPT ![r] = "accepted"]
  /\ IF t \in Working THEN TakeUp(r) ELSE LayDown(r)
  /\ status' = [status EXCEPT ![r] = t]
  /\ doubt => t \in {"failed", "retry"}
  /\ doubtful' = IF doubt THEN doubtful \cup {r} ELSE doubtful \ {r}
  /\ UNCHANGED <<lineage, planned, open, policy>>

\* The kernel rejects or dead-letters CreateRun; the slot stays taken.
Refuse(r) ==
  /\ inbox[r] = "received"
  /\ inbox' = [inbox EXCEPT ![r] = "rejected"]
  /\ UNCHANGED <<phase, generation, status, doubtful, lineage, planned, open, policy, occupied>>

\* withdraw_unaccepted, called for a stopped case and for a refused command.
Withdraw(r) ==
  /\ inbox[r] \in {"received", "rejected"}
  /\ status[r] = "new"
  /\ phase[r] = "prepared"
  /\ inbox' = [inbox EXCEPT ![r] = "rejected"]
  /\ Vacate(r)
  /\ phase' = [phase EXCEPT ![r] = "released"]
  /\ generation' = [generation EXCEPT ![r] = @ + 1]
  /\ UNCHANGED <<status, doubtful, lineage, planned, open, policy>>

\* close, refused by the caller's own conditions while judge work is left.
CloseNamespace(n) ==
  /\ n \in open
  /\ open' = open \ {n}
  /\ UNCHANGED <<phase, generation, status, doubtful, inbox, lineage, planned, policy, occupied>>

\* activate: the next execution policy, whose limits may be lower than what
\* is occupied.
ActivateSlots ==
  /\ policy < MaxPolicies
  /\ policy' = policy + 1
  /\ UNCHANGED <<phase, generation, status, doubtful, inbox, lineage, planned, open, occupied>>

-----------------------------------------------------------------------------

\* Types of the slot state.
SlotsTypeOK ==
  /\ phase \in [Runs -> {"none", "prepared", "held", "released"}]
  /\ generation \in [Runs -> Nat]
  /\ status \in [Runs -> {"new", "retry", "waiting"} \cup Working \cup Ended]
  /\ doubtful \subseteq Runs
  /\ inbox \in [Runs -> {"none", "received", "accepted", "rejected"}]
  /\ lineage \in [Runs -> Runs \cup {None}]
  /\ planned \in [Runs -> (Runs \cup {None}) \X Nat]
  /\ open \subseteq {SpaceOf[r] : r \in Runs}
  /\ policy \in 1..MaxPolicies
  /\ occupied \in [Pools -> Int]

\* By its journal the Run is at work, or it is admitted and not yet begun.
NeedsSlot(r) == status[r] \in Working \/ (status[r] = "new" /\ phase[r] = "prepared")

(* The pools count exactly the Runs that need a slot: those queued or      *)
(* running by the journal and those admitted whose CreateRun is neither    *)
(* accepted nor withdrawn; a Run that waits, has ended or was withdrawn    *)
(* is counted nowhere, so no slot leaks and none is given back twice       *)
(* (prepare, accepted, withdraw_unaccepted).                               *)
SlotsExact ==
  \A p \in Pools : occupied[p] = Cardinality({r \in Runs : p \in PoolsOf[r] /\ NeedsSlot(r)})

(* A withdrawn or refused admission never starts (withdraw_unaccepted,     *)
(* "Only the exact original never-accepted Create may be withdrawn").      *)
WithdrawnNeverStarts == \A r \in Runs : inbox[r] = "rejected" => status[r] = "new"

(* A planned replacement keeps its ground: its predecessor stays failed    *)
(* and released at the generation the plan names, so link_replacement is   *)
(* not refused as stale (replace_attempt, link_replacement).               *)
PlansStayValid ==
  \A r \in Runs : planned[r] # NoPlan =>
    LET p == planned[r][1] IN
    /\ status[p] = "failed" /\ phase[p] = "released"
    /\ generation[p] = planned[r][2]
=============================================================================
