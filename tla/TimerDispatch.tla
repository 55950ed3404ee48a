----------------------------- MODULE TimerDispatch -----------------------------
(***************************************************************************)
(* Durable timers: a command's transaction schedules a timer, a later       *)
(* event's transaction cancels it, and dispatchers fire due timers into the *)
(* command inbox, a batch in one transaction with its rows locked.          *)
(***************************************************************************)
EXTENDS Naturals, FiniteSets

CONSTANTS
  Timers,
  Dispatchers,
  Streams,         \* Runs: one transaction of a stream at a time (scope lock)
  StreamOf,        \* [Timers -> Streams]: stream whose event cancels the timer
  Malformed,       \* timers whose envelope is refused with a ValueError
  Nobody,
  BatchSize,
  MaxRollbacks     \* bound on failing transactions

ASSUME TimerAssumption ==
  /\ StreamOf \in [Timers -> Streams] /\ Malformed \subseteq Timers
  /\ Nobody \notin Dispatchers \cup Streams /\ Dispatchers \cap Streams = {}
  /\ BatchSize \in Nat \ {0} /\ MaxRollbacks \in Nat

VARIABLES
  status,          \* per timer, committed: "none", "pending", "fired", "cancelled", "dead"
  purged,          \* timers whose row is deleted (status keeps what it last said)
  due,             \* per timer: due_at has passed
  lock,            \* per timer: transaction that holds its row
  inbox,           \* timers whose command is in the inbox, committed
  batch,           \* per dispatcher: claimed rows not yet dealt with
  result,          \* per dispatcher: uncommitted outcome of its claimed rows
  settled,         \* streams whose cancelling event is committed
  cancelling,      \* per stream: timers its open transaction has still to visit
  open,            \* streams with an open settling transaction
  rollbacks

streamVars == <<settled, cancelling, open>>
dispatchVars == <<batch, result>>
vars == <<status, purged, due, lock, inbox, dispatchVars, streamVars, rollbacks>>

NoResult == [t \in {} |-> "fired"]

Init ==
  /\ status = [t \in Timers |-> "none"] /\ due = [t \in Timers |-> FALSE] /\ purged = {}
  /\ lock = [t \in Timers |-> Nobody] /\ inbox = {}
  /\ batch = [d \in Dispatchers |-> {}] /\ result = [d \in Dispatchers |-> NoResult]
  /\ settled = {} /\ cancelling = [s \in Streams |-> {}] /\ open = {}
  /\ rollbacks = 0

Held(x) == {t \in Timers : lock[t] = x}
\* Mutant of Unlock: the locks outlive the transaction.
UnlockNothing(x) == UNCHANGED lock
Unlock(x) == lock' = [t \in Timers |-> IF lock[t] = x THEN Nobody ELSE lock[t]]

-----------------------------------------------------------------------------
\* _write_critical_records: the timer is committed with the request.
Schedule(t) ==
  /\ status[t] = "none" /\ StreamOf[t] \notin open \cup settled
  /\ status' = [status EXCEPT ![t] = "pending"]
  /\ UNCHANGED <<purged, due, lock, inbox, dispatchVars, streamVars, rollbacks>>

TimePasses(t) ==
  /\ status[t] # "none" /\ ~due[t]
  /\ due' = [due EXCEPT ![t] = TRUE]
  /\ UNCHANGED <<purged, status, lock, inbox, dispatchVars, streamVars, rollbacks>>

\* Retention deletes rows that have ended.
PurgeCompleted(t) ==
  /\ status[t] \in {"fired", "cancelled", "dead"} /\ due[t] /\ t \notin purged
  /\ purged' = purged \cup {t}
  /\ UNCHANGED <<status, due, lock, inbox, dispatchVars, streamVars, rollbacks>>

-----------------------------------------------------------------------------
(* A dispatcher's transaction.                                             *)

\* claim_due: FOR UPDATE SKIP LOCKED.
Claimable(t) == status[t] = "pending" /\ due[t] /\ lock[t] = Nobody

ClaimDue(d, claims) ==
  /\ batch[d] = {} /\ DOMAIN result[d] = {}
  /\ claims # {} /\ Cardinality(claims) <= BatchSize
  /\ \A t \in claims : Claimable(t)
  /\ lock' = [t \in Timers |-> IF t \in claims THEN d ELSE lock[t]]
  /\ batch' = [batch EXCEPT ![d] = claims]
  /\ UNCHANGED <<purged, status, due, inbox, result, streamVars, rollbacks>>

\* receive and mark_fired, or mark_dead_lettered for this timer alone.
FireOne(d, t) ==
  /\ t \in batch[d]
  /\ batch' = [batch EXCEPT ![d] = @ \ {t}]
  /\ result' = [result EXCEPT ![d] =
       [u \in DOMAIN @ \cup {t} |-> IF u # t THEN @[u] ELSE IF t \in Malformed THEN "dead" ELSE "fired"]]
  /\ UNCHANGED <<purged, status, due, lock, inbox, streamVars, rollbacks>>

\* Mutant of CommitBatch: the command arrives, the row stays pending.
CommitBatchUnmarked(d) ==
  /\ batch[d] = {} /\ DOMAIN result[d] # {}
  /\ inbox' = inbox \cup {t \in DOMAIN result[d] : result[d][t] = "fired"}
  /\ Unlock(d)
  /\ result' = [result EXCEPT ![d] = NoResult]
  /\ UNCHANGED <<purged, status, due, batch, streamVars, rollbacks>>
CommitBatch(d) ==
  /\ batch[d] = {} /\ DOMAIN result[d] # {}
  /\ status' = [t \in Timers |-> IF t \in DOMAIN result[d] THEN result[d][t] ELSE status[t]]
  /\ inbox' = inbox \cup {t \in DOMAIN result[d] : result[d][t] = "fired"}
  /\ Unlock(d)
  /\ result' = [result EXCEPT ![d] = NoResult]
  /\ UNCHANGED <<purged, due, batch, streamVars, rollbacks>>

\* What a failed transaction leaves in the inbox: nothing.
\* Mutant of InboxAfterRollback: each command was committed by itself.
InboxAfterEach(d) == inbox \cup {t \in DOMAIN result[d] : result[d][t] = "fired"}
InboxAfterRollback(d) == inbox

\* Any other exception, or a crash, takes the whole batch back.
RollbackBatch(d) ==
  /\ Held(d) # {} /\ rollbacks < MaxRollbacks
  /\ inbox' = InboxAfterRollback(d)
  /\ Unlock(d)
  /\ batch' = [batch EXCEPT ![d] = {}]
  /\ result' = [result EXCEPT ![d] = NoResult]
  /\ rollbacks' = rollbacks + 1
  /\ UNCHANGED <<purged, status, due, streamVars>>

-----------------------------------------------------------------------------
(* The transaction of an event that cancels.                               *)

BeginSettle(s) ==
  /\ s \notin open \cup settled
  /\ open' = open \cup {s}
  /\ cancelling' = [cancelling EXCEPT ![s] =
       {t \in Timers : StreamOf[t] = s /\ status[t] = "pending"}]
  /\ UNCHANGED <<purged, status, due, lock, inbox, dispatchVars, settled, rollbacks>>

\* cancel_matching waits for a locked row and tests it again.
\* Mutant of MayVisit: a locked row is passed over.
MayVisitLocked(s, t) == TRUE
MayVisit(s, t) == lock[t] = Nobody

CancelMatching(s, t) ==
  /\ t \in cancelling[s] /\ MayVisit(s, t)
  /\ cancelling' = [cancelling EXCEPT ![s] = @ \ {t}]
  /\ lock' = IF status[t] = "pending" /\ lock[t] = Nobody THEN [lock EXCEPT ![t] = s] ELSE lock
  /\ UNCHANGED <<purged, status, due, inbox, dispatchVars, settled, open, rollbacks>>

CommitSettle(s) ==
  /\ s \in open /\ cancelling[s] = {}
  /\ status' = [t \in Timers |-> IF lock[t] = s THEN "cancelled" ELSE status[t]]
  /\ Unlock(s)
  /\ open' = open \ {s}
  /\ settled' = settled \cup {s}
  /\ UNCHANGED <<purged, due, inbox, dispatchVars, cancelling, rollbacks>>

RollbackSettle(s) ==
  /\ s \in open /\ rollbacks < MaxRollbacks
  /\ Unlock(s)
  /\ open' = open \ {s}
  /\ cancelling' = [cancelling EXCEPT ![s] = {}]
  /\ rollbacks' = rollbacks + 1
  /\ UNCHANGED <<purged, status, due, inbox, dispatchVars, settled>>

-----------------------------------------------------------------------------
DispatchStep(d) ==
  \/ \E claims \in SUBSET Timers : ClaimDue(d, claims)
  \/ \E t \in Timers : FireOne(d, t)
  \/ CommitBatch(d)

SettleStep(s) == (\E t \in Timers : CancelMatching(s, t)) \/ CommitSettle(s)

Next ==
  \/ \E t \in Timers : Schedule(t) \/ TimePasses(t) \/ PurgeCompleted(t)
  \/ \E d \in Dispatchers : DispatchStep(d) \/ RollbackBatch(d)
  \/ \E s \in Streams : BeginSettle(s) \/ SettleStep(s) \/ RollbackSettle(s)

Spec == Init /\ [][Next]_vars

\* The timers lane polls for ever, transactions end, and time passes.
Fairness ==
  /\ \A d \in Dispatchers : WF_vars(DispatchStep(d))
  /\ \A s \in Streams : WF_vars(SettleStep(s))
  /\ \A t \in Timers : WF_vars(TimePasses(t))

FairSpec == Spec /\ Fairness

-----------------------------------------------------------------------------
(* Timers and transactions keep their types.                               *)
TimerTypeOK ==
  /\ status \in [Timers -> {"none", "pending", "fired", "cancelled", "dead"}]
  /\ due \in [Timers -> BOOLEAN] /\ lock \in [Timers -> Dispatchers \cup Streams \cup {Nobody}]
  /\ purged \subseteq Timers /\ inbox \subseteq Timers /\ settled \subseteq Streams /\ open \subseteq Streams
  /\ cancelling \in [Streams -> SUBSET Timers]
  /\ batch \in [Dispatchers -> SUBSET Timers]
  /\ result \in [Dispatchers -> UNION {[T -> {"fired", "dead"}] : T \in SUBSET Timers}]
  /\ rollbacks \in 0..MaxRollbacks

(* A timer has fired exactly when its command is in the inbox: a batch that *)
(* fails after some of its timers, and a cancellation that meets a claim,   *)
(* leave neither a command without its timer nor the reverse (fire_due,     *)
(* cancel_matching).                                                        *)
FiredIffReceived == \A t \in Timers : t \in inbox <=> status[t] = "fired"

(* Once the cancelling event is committed none of its timers is pending: a  *)
(* claim that was rolled back cannot fire the timer afterwards              *)
(* (cancel_matching against claim_due's row locks).                         *)
NoTimerOutlivesEvent ==
  \A t \in Timers : StreamOf[t] \in settled => status[t] # "pending"

\* How the Run that scheduled a timer sees it.
Outcome(t) ==
  CASE status[t] = "none" -> "absent"
    [] status[t] = "pending" -> "open"
    [] status[t] = "fired" -> "done"
    [] status[t] \in {"cancelled", "dead"} -> "dropped"

Promise == INSTANCE EffectOnce
  WITH Items <- Timers, outcome <- [t \in Timers |-> Outcome(t)],
       effects <- [t \in Timers |-> IF t \in inbox THEN 1 ELSE 0]

(* The timers keep the promise of EffectOnce: a timer is settled once, and  *)
(* its command reaches the inbox in the step that records it as fired;      *)
(* cancelled and dead timers never reach it, and nothing brings a settled   *)
(* or purged timer back (claim_due, fire_due, cancel_matching).             *)
ImplementsEffectOnce == Promise!Spec

(* A scheduled timer comes to an end: fired, cancelled or dead-lettered     *)
(* (claim_due, fire_due after failing batches).                             *)
TimersEnd == \A t \in Timers : (status[t] = "pending") ~> (status[t] # "pending")

(* The event's own transaction is not held up for ever by dispatchers that  *)
(* lock the rows it cancels (cancel_matching waits, claim_due skips).       *)
EventsCommit == \A s \in Streams : (s \in open) ~> (s \notin open)
=============================================================================
