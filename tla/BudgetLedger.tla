----------------------------- MODULE BudgetLedger -----------------------------
(* The ledger of physical model calls, the database function               *)
(* opencitadel_e05_operation: before a request goes to a provider its      *)
(* upper bound in tokens and money is reserved in every bucket it falls    *)
(* under (global, provider, user, workspace, purpose, batch); afterwards   *)
(* the receipt replaces the bound.  A call nobody heard of keeps both its  *)
(* reservation and its slot, and a receipt that does not tell an amount    *)
(* keeps the reservation of that amount for ever.                          *)
(*                                                                         *)
(* The function locks the policy head and then the buckets in key order,   *)
(* so each operation is one step.  A refusal is an exception, which takes  *)
(* the caller's transaction back: the step does not happen.                *)
EXTENDS Integers, FiniteSets

CONSTANTS
  Calls,        \* call identities, each allocated for one send
  Buckets,      \* keys of evaluation_budget_buckets
  Kinds,        \* what is budgeted: tokens and money
  BucketsOf,    \* BucketsOf[c]: the buckets of the demand of c
  Demand,       \* Demand[c]: the bound of each kind that has one
  Limit,        \* Limit[b]: the budget of each kind that has one
  SlotLimit,    \* SlotLimit[v][b]: concurrency under revision v, where limited
  Receipts,     \* what a provider may report: amounts of some of the kinds
  MaxRevisions  \* bound on the revisions of the physical policy

ASSUME LedgerAssumption ==
  /\ IsFiniteSet(Calls)
  /\ \A c \in Calls : BucketsOf[c] \subseteq Buckets
  /\ \A c \in Calls : \A k \in DOMAIN Demand[c] : Demand[c][k] \in Nat
  /\ \A b \in Buckets : DOMAIN Limit[b] \subseteq Kinds
  /\ \A b \in Buckets : \A k \in DOMAIN Limit[b] : Limit[b][k] \in Nat
  /\ \A x \in Receipts : \A k \in DOMAIN x : x[k] \in Nat
  /\ MaxRevisions \in Nat \ {0}

VARIABLES
  call,      \* state of the reservation: none, dispatching, unknown, settled
  receipt,   \* the settlement of a settled call
  spent,     \* per bucket and kind
  reserved,  \* per bucket and kind
  slots,     \* calls in flight per bucket
  breached,  \* buckets in which a call cost more than its bound
  revision   \* revision of the physical policy

ledgerVars == <<call, receipt, spent, reserved, slots, breached, revision>>

\* The settlement column before there is one.
NoReceipt == [k \in {} |-> 0]

InFlight(c) == call[c] \in {"dispatching", "unknown"}

\* coalesce(amount, 0)
Amount(x, k) == IF k \in DOMAIN x THEN x[k] ELSE 0

LedgerInit ==
  /\ call = [c \in Calls |-> "none"]
  /\ receipt = [c \in Calls |-> NoReceipt]
  /\ spent = [b \in Buckets |-> [k \in Kinds |-> 0]]
  /\ reserved = [b \in Buckets |-> [k \in Kinds |-> 0]]
  /\ slots = [b \in Buckets |-> 0]
  /\ breached = {}
  /\ revision = 1

-----------------------------------------------------------------------------

\* Bucket b has room for call c.
Fits(c, b) ==
  /\ b \notin breached
  /\ b \in DOMAIN SlotLimit[revision] => slots[b] + 1 <= SlotLimit[revision][b]
  /\ \A k \in DOMAIN Limit[b] :
        /\ k \in DOMAIN Demand[c]
        /\ spent[b][k] + reserved[b][k] + Demand[c][k] <= Limit[b][k]

\* Operation reserve of a new identity; all buckets take it or none.
Reserve(c) ==
  /\ call[c] = "none"
  /\ \A b \in BucketsOf[c] : Fits(c, b)
  /\ call' = [call EXCEPT ![c] = "dispatching"]
  /\ reserved' = [b \in Buckets |-> IF b \in BucketsOf[c]
                    THEN [k \in Kinds |-> reserved[b][k] + Amount(Demand[c], k)]
                    ELSE reserved[b]]
  /\ slots' = [b \in Buckets |-> IF b \in BucketsOf[c] THEN slots[b] + 1 ELSE slots[b]]
  /\ UNCHANGED <<receipt, spent, breached, revision>>

\* Operation unknown: the caller lost track of the call; everything is kept.
MarkUnknown(c) ==
  /\ call[c] = "dispatching"
  /\ call' = [call EXCEPT ![c] = "unknown"]
  /\ UNCHANGED <<receipt, spent, reserved, slots, breached, revision>>

\* The receipt x costs more than the demand of c allowed for.
Exceeds(c, x) == \E k \in DOMAIN x \cap DOMAIN Demand[c] : x[k] > Demand[c][k]

\* Mutant of Settle: an amount the receipt does not tell is released as well.
SettleReleasesAll(c, x) ==
  /\ InFlight(c)
  /\ call' = [call EXCEPT ![c] = "settled"]
  /\ receipt' = [receipt EXCEPT ![c] = x]
  /\ reserved' = [b \in Buckets |-> IF b \in BucketsOf[c]
                    THEN [k \in Kinds |-> reserved[b][k] - Amount(Demand[c], k)]
                    ELSE reserved[b]]
  /\ spent' = [b \in Buckets |-> IF b \in BucketsOf[c]
                 THEN [k \in Kinds |-> spent[b][k] + Amount(x, k)] ELSE spent[b]]
  /\ slots' = [b \in Buckets |-> IF b \in BucketsOf[c] THEN slots[b] - 1 ELSE slots[b]]
  /\ breached' = IF Exceeds(c, x) THEN breached \cup BucketsOf[c] ELSE breached
  /\ UNCHANGED revision

\* Operation settle, also of a call marked unknown; a repeated receipt
\* changes nothing and a different one is refused.
Settle(c, x) ==
  /\ InFlight(c)
  /\ call' = [call EXCEPT ![c] = "settled"]
  /\ receipt' = [receipt EXCEPT ![c] = x]
  /\ reserved' = [b \in Buckets |-> IF b \in BucketsOf[c]
                    THEN [k \in Kinds |-> IF k \in DOMAIN x
                            THEN reserved[b][k] - Amount(Demand[c], k) ELSE reserved[b][k]]
                    ELSE reserved[b]]
  /\ spent' = [b \in Buckets |-> IF b \in BucketsOf[c]
                 THEN [k \in Kinds |-> spent[b][k] + Amount(x, k)] ELSE spent[b]]
  /\ slots' = [b \in Buckets |-> IF b \in BucketsOf[c] THEN slots[b] - 1 ELSE slots[b]]
  /\ breached' = IF Exceeds(c, x) THEN breached \cup BucketsOf[c] ELSE breached
  /\ UNCHANGED revision

\* Activation of the next physical policy: only the slot limits change.
ActivatePhysical ==
  /\ revision < MaxRevisions
  /\ revision' = revision + 1
  /\ UNCHANGED <<call, receipt, spent, reserved, slots, breached>>

-----------------------------------------------------------------------------

\* Types of the ledger; the counters may be any integers, their signs are
\* for the properties.
LedgerTypeOK ==
  /\ call \in [Calls -> {"none", "dispatching", "unknown", "settled"}]
  /\ receipt \in [Calls -> Receipts \cup {NoReceipt}]
  /\ spent \in [Buckets -> [Kinds -> Int]]
  /\ reserved \in [Buckets -> [Kinds -> Int]]
  /\ slots \in [Buckets -> Int]
  /\ breached \subseteq Buckets
  /\ revision \in 1..MaxRevisions

(* The counters stay within the budget: as long as no call in a bucket     *)
(* cost more than its bound, what was spent and what is still reserved     *)
(* there never exceed the limit of the bucket, whatever is in flight,      *)
(* unknown or settled without an amount (opencitadel_e05_operation).       *)
CountersWithinLimit ==
  \A b \in Buckets \ breached : \A k \in DOMAIN Limit[b] :
    spent[b][k] + reserved[b][k] <= Limit[b][k]

\* Calls that were sent and count in bucket b.
Sent(b) == {c \in Calls : call[c] # "none" /\ b \in BucketsOf[c]}

\* What each call has cost or may still cost of kind k.
Owed(k) ==
  [c \in Calls |-> IF call[c] = "settled" /\ k \in DOMAIN receipt[c]
                   THEN receipt[c][k] ELSE Amount(Demand[c], k)]

\* One member for every unit that the calls of S owe: as many as the sum.
Units(S, owed) == UNION {{c} \X (1..owed[c]) : c \in S}

(* The budget of a batch holds: as long as no call cost more than its      *)
(* bound, the receipts so far together with the bounds of every call in    *)
(* flight, lost or settled without an amount stay within the limit of each *)
(* bucket (opencitadel_e05_operation).                                     *)
WithinBudget ==
  \A b \in Buckets \ breached : \A k \in DOMAIN Limit[b] :
    Cardinality(Units(Sent(b), Owed(k))) <= Limit[b][k]

(* A slot is counted for every call in flight and for nothing else: calls  *)
(* marked unknown keep theirs, settled ones gave it back once              *)
(* (opencitadel_e05_operation, slots+1 and slots-1).                       *)
CallSlotsExact ==
  \A b \in Buckets : slots[b] = Cardinality({c \in Calls : b \in BucketsOf[c] /\ InFlight(c)})
=============================================================================
