---------------------------- MODULE OutboxDelivery ----------------------------
(***************************************************************************)
(* The transactional outbox: rows written with the events they announce,   *)
(* dispatchers that claim a batch under a lease, deliver row by row outside *)
(* any transaction and acknowledge under the claim's generation, retries    *)
(* with a pause, and the deletion of delivered rows.                        *)
(***************************************************************************)
EXTENDS Naturals, FiniteSets, Functions

CONSTANTS
  Rows, Dispatchers,
  BatchSize,
  MaxLapses,       \* bound on the claims of a row that lapse under their holder
  MaxFailures      \* bound on failing deliveries, failing acknowledgements and crashes

ASSUME OutboxAssumption ==
  /\ IsFiniteSet(Dispatchers)
  /\ BatchSize \in Nat \ {0} /\ MaxLapses \in Nat /\ MaxFailures \in Nat

VARIABLES
  status,          \* per row: "unwritten", "undelivered", "delivered", "purged"
  generation,      \* per row: claim_generation
  leased,          \* per row: claim_deadline lies ahead
  available,       \* per row: available_at has passed
  claims,          \* per dispatcher: claims of its batch left, row -> generation
  delivered,       \* per dispatcher: the row delivered and not yet acknowledged
  published,       \* history: per row, how often its message went out
  overruns,        \* history: per row, claims that lapsed under their holder
  lapsedAt,        \* history: per row, the last generation that did
  unanswered,      \* history: per row, messages that went out unacknowledged
  failures         \* counter of the environment

rowVars == <<status, generation, leased, available>>
lapseVars == <<overruns, lapsedAt>>
history == <<published, lapseVars, unanswered>>
vars == <<rowVars, claims, delivered, history, failures>>

NoClaims == [m \in {} |-> 0]

Init ==
  /\ status = [m \in Rows |-> "unwritten"]
  /\ generation = [m \in Rows |-> 0]
  /\ leased = [m \in Rows |-> FALSE]
  /\ available = [m \in Rows |-> TRUE]
  /\ claims = [d \in Dispatchers |-> NoClaims]
  /\ delivered = [d \in Dispatchers |-> {}]
  /\ published = [m \in Rows |-> 0]
  /\ overruns = [m \in Rows |-> 0] /\ lapsedAt = [m \in Rows |-> 0]
  /\ unanswered = [m \in Rows |-> 0]
  /\ failures = 0

-----------------------------------------------------------------------------
\* The orchestrator or the projector commits the row with its events.
WriteRow(m) ==
  /\ status[m] = "unwritten"
  /\ status' = [status EXCEPT ![m] = "undelivered"]
  /\ UNCHANGED <<generation, leased, available, claims, delivered, history, failures>>

\* Mutant of Claimable: the lease is not looked at.
ClaimableWhileLeased(m) == status[m] = "undelivered" /\ available[m]
\* Mutant of Claimable: a row is claimed once.
ClaimableOnce(m) == status[m] = "undelivered" /\ generation[m] = 0
Claimable(m) == status[m] = "undelivered" /\ available[m] /\ ~leased[m]

\* claim_batch, committed at once: at most BatchSize rows that no other
\* claim_batch has locked.
ClaimBatch(d, batch) ==
  /\ DOMAIN claims[d] = {} /\ delivered[d] = {}
  /\ batch # {} /\ Cardinality(batch) <= BatchSize
  /\ \A m \in batch : Claimable(m)
  /\ generation' = [m \in Rows |-> generation[m] + IF m \in batch THEN 1 ELSE 0]
  /\ leased' = [m \in Rows |-> leased[m] \/ m \in batch]
  /\ claims' = [claims EXCEPT ![d] = [m \in batch |-> generation[m] + 1]]
  /\ UNCHANGED <<status, available, delivered, history, failures>>

\* The row is what this claim left it: neither reclaimed nor delivered.
\* Mutant of Owns: any undelivered row.
OwnsUndelivered(d, m) == status[m] = "undelivered"
Owns(d, m) == status[m] = "undelivered" /\ generation[m] = claims[d][m]

\* The claim is dealt with, whatever its acknowledgement said.
Drop(d, m) == claims' = [claims EXCEPT ![d] = Restrict(@, DOMAIN @ \ {m})]

\* _deliver returns.
Deliver(d, m) ==
  /\ m \in DOMAIN claims[d] /\ delivered[d] = {}
  /\ published' = [published EXCEPT ![m] = @ + 1]
  /\ delivered' = [delivered EXCEPT ![d] = {m}]
  /\ UNCHANGED <<rowVars, claims, lapseVars, unanswered, failures>>

MarkDelivered(d, m) ==
  /\ delivered[d] = {m}
  /\ IF Owns(d, m)
     THEN /\ status' = [status EXCEPT ![m] = "delivered"]
          /\ leased' = [leased EXCEPT ![m] = FALSE]
     ELSE UNCHANGED <<status, leased>>
  /\ Drop(d, m)
  /\ delivered' = [delivered EXCEPT ![d] = {}]
  /\ UNCHANGED <<generation, available, history, failures>>

\* _deliver raises, before or after the message went out: mark_failed.
DeliveryFails(d, m, sent) ==
  /\ m \in DOMAIN claims[d] /\ delivered[d] = {} /\ failures < MaxFailures
  /\ published' = [published EXCEPT ![m] = @ + IF sent THEN 1 ELSE 0]
  /\ unanswered' = [unanswered EXCEPT ![m] = @ + IF sent THEN 1 ELSE 0]
  /\ IF Owns(d, m)
     THEN /\ available' = [available EXCEPT ![m] = FALSE]
          /\ leased' = [leased EXCEPT ![m] = FALSE]
     ELSE UNCHANGED <<available, leased>>
  /\ Drop(d, m)
  /\ failures' = failures + 1
  /\ UNCHANGED <<status, generation, delivered, lapseVars>>

\* An acknowledgement that raises, or a crash, drops the rest of the batch.
AbandonBatch(d) ==
  /\ DOMAIN claims[d] # {} /\ failures < MaxFailures
  /\ claims' = [claims EXCEPT ![d] = NoClaims]
  /\ delivered' = [delivered EXCEPT ![d] = {}]
  /\ unanswered' = [m \in Rows |-> unanswered[m] + IF m \in delivered[d] THEN 1 ELSE 0]
  /\ failures' = failures + 1
  /\ UNCHANGED <<rowVars, published, lapseVars>>

\* The pause after a failure ends.
RetryTimePasses(m) ==
  /\ ~available[m]
  /\ available' = [available EXCEPT ![m] = TRUE]
  /\ UNCHANGED <<status, generation, leased, claims, delivered, history, failures>>

\* A row whose claim nobody will acknowledge.
Abandoned(m) ==
  leased[m] /\ \A d \in Dispatchers :
    ~(m \in DOMAIN claims[d] /\ claims[d][m] = generation[m])

\* The claim's deadline passes, with its holder still at work or not.
ClaimLapses(m) ==
  /\ leased[m]
  /\ leased' = [leased EXCEPT ![m] = FALSE]
  /\ IF Abandoned(m)
     THEN UNCHANGED lapseVars
     ELSE /\ overruns[m] < MaxLapses
          /\ overruns' = [overruns EXCEPT ![m] = @ + 1]
          /\ lapsedAt' = [lapsedAt EXCEPT ![m] = generation[m]]
  /\ UNCHANGED <<status, generation, available, claims, delivered, published, unanswered, failures>>

PurgeCompleted(m) ==
  /\ status[m] = "delivered"
  /\ status' = [status EXCEPT ![m] = "purged"]
  /\ UNCHANGED <<generation, leased, available, claims, delivered, history, failures>>

-----------------------------------------------------------------------------
DispatchStep(d) ==
  \/ \E batch \in SUBSET Rows : ClaimBatch(d, batch)
  \/ \E m \in Rows : Deliver(d, m) \/ MarkDelivered(d, m)

Next ==
  \/ \E m \in Rows : WriteRow(m) \/ RetryTimePasses(m) \/ ClaimLapses(m) \/ PurgeCompleted(m)
  \/ \E d \in Dispatchers : DispatchStep(d) \/ AbandonBatch(d)
  \/ \E d \in Dispatchers, m \in Rows, sent \in BOOLEAN : DeliveryFails(d, m, sent)

Spec == Init /\ [][Next]_vars

\* The outbox lane polls for ever, and time passes.
Fairness ==
  /\ \A d \in Dispatchers : WF_vars(DispatchStep(d))
  /\ \A m \in Rows : WF_vars(RetryTimePasses(m)) /\ WF_vars(ClaimLapses(m))

FairSpec == Spec /\ Fairness

-----------------------------------------------------------------------------
(* Rows and claims keep their types.                                       *)
OutboxTypeOK ==
  /\ status \in [Rows -> {"unwritten", "undelivered", "delivered", "purged"}]
  /\ generation \in [Rows -> Nat] /\ leased \in [Rows -> BOOLEAN]
  /\ available \in [Rows -> BOOLEAN] /\ published \in [Rows -> Nat]
  /\ claims = [d \in Dispatchers |-> claims[d]]
  /\ \A d \in Dispatchers :
       DOMAIN claims[d] \subseteq Rows /\ claims[d] \in [DOMAIN claims[d] -> Nat]
  /\ delivered \in [Dispatchers -> SUBSET Rows]
  /\ overruns \in [Rows -> 0..MaxLapses] /\ lapsedAt \in [Rows -> Nat]
  /\ unanswered \in [Rows -> Nat] /\ failures \in 0..MaxFailures

(* At least once, and no more often than its history explains: a row that   *)
(* counts as delivered went out, and a message goes out again only because  *)
(* a claim lapsed under its holder or the answer to a delivery was lost     *)
(* (claim_batch, dispatch_batch, mark_delivered).                           *)
DuplicatesExplained ==
  \A m \in Rows :
    published[m] \in (IF status[m] \in {"delivered", "purged"} THEN 1 ELSE 0)
                     ..(1 + overruns[m] + unanswered[m])

(* As long as its own lease has not lapsed, the last claim keeps its row:   *)
(* the late answer of an earlier claim neither settles the row nor opens it *)
(* to a further dispatcher (the generation in mark_delivered, mark_failed). *)
LastClaimHolds ==
  \A d \in Dispatchers : \A m \in DOMAIN claims[d] :
    claims[d][m] = generation[m] /\ lapsedAt[m] # generation[m]
      => leased[m] /\ status[m] = "undelivered"

(* Every row written is delivered, when deliveries fail and dispatchers die *)
(* finitely often (retry pause, lease, redelivery).                         *)
RowsDelivered == \A m \in Rows : (status[m] = "undelivered") ~> (status[m] \in {"delivered", "purged"})
=============================================================================
