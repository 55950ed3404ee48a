----------------------- MODULE EvaluationDispatchProofs -----------------------
(***************************************************************************)
(* Machine-checked proofs about evaluation Runs at work, for every set of  *)
(* Runs, pools, calls and buckets and for every bound: slots are neither   *)
(* leaked nor given back twice, one Run works for a work unit, and the     *)
(* budget counters stay within their limits.                               *)
(***************************************************************************)
EXTENDS EvaluationDispatch, FiniteSetTheorems, TLAPS

\* Calls in flight that bucket b counts.
Flying(b) == {c \in Calls : b \in BucketsOf[c] /\ InFlight(c)}

\* A call in flight has a bound of every kind its buckets limit.
BoundsKnown ==
  \A c \in Calls : InFlight(c) =>
     \A b \in BucketsOf[c] : DOMAIN Limit[b] \subseteq DOMAIN Demand[c]

\* The counters of a bucket are what its calls owe, neither more nor less.
CountersExact ==
  \A b \in Buckets : \A k \in Kinds :
    /\ IsFiniteSet(Units(Sent(b), Owed(k)))
    /\ spent[b][k] + reserved[b][k] = Cardinality(Units(Sent(b), Owed(k)))

LedgerInv ==
  LedgerTypeOK /\ CallSlotsExact /\ BoundsKnown /\ CountersWithinLimit /\ CountersExact

-----------------------------------------------------------------------------
(* The ledger.                                                             *)

(* An amount that is not told counts as zero (coalesce in                  *)
(* opencitadel_e05_operation).                                             *)
LEMMA AmountType ==
  ASSUME NEW x, \A k \in DOMAIN x : x[k] \in Nat, NEW k
  PROVE  Amount(x, k) \in Nat /\ (k \in DOMAIN x => Amount(x, k) = x[k])
BY Zenon DEF Amount

(* The calls in flight are finitely many.                                  *)
LEMMA FlyingFinite ==
  ASSUME NEW b
  PROVE  IsFiniteSet(Flying(b)) /\ Cardinality(Flying(b)) \in Nat
BY Zenon, LedgerAssumption, FS_Subset, FS_CardinalityType DEF Flying

\* None of the units is one of call c.
NoneOf(c, O) == \A u \in O : u[1] # c

\* The units O and n units of call c.
Plus(O, c, n) == O \cup ({c} \X (1..n))

(* Units of one call more: the count grows by what the call owes.          *)
LEMMA CountUnits ==
  ASSUME NEW c, NEW n \in Nat, NEW O, IsFiniteSet(O), NoneOf(c, O)
  PROVE  /\ IsFiniteSet(Plus(O, c, n))
         /\ Cardinality(Plus(O, c, n)) = Cardinality(O) + n
<1> DEFINE A == {c}
           B == 1..n
           P == A \X B
<1>1. IsFiniteSet(A) /\ Cardinality(A) = 1
  BY Zenon, FS_Singleton
<1>2. IsFiniteSet(B) /\ Cardinality(B) = n
  BY FS_Interval
<1>3. IsFiniteSet(P) /\ Cardinality(P) = 1 * n
  <2> HIDE DEF A, B
  <2>1. IsFiniteSet(P) /\ Cardinality(P) = Cardinality(A) * Cardinality(B)
    BY Zenon, <1>1, <1>2, FS_Product
  <2> QED BY Zenon, <1>1, <1>2, <2>1
<1>4. O \cap P = {}
  <2> SUFFICES ASSUME NEW u \in O, u \in P PROVE FALSE
    BY Zenon
  <2>1. u[1] = c
    OBVIOUS
  <2> QED BY Zenon, <2>1 DEF NoneOf
<1>5. Cardinality(O \cap P) = 0
  BY Zenon, <1>4, FS_EmptySet
<1> HIDE DEF P
<1>6. /\ IsFiniteSet(O \cup P) /\ Cardinality(O) \in Nat
      /\ Cardinality(O \cup P) = Cardinality(O) + Cardinality(P) - Cardinality(O \cap P)
  BY Zenon, <1>3, FS_Union, FS_CardinalityType
<1>7. Cardinality(O \cup P) = Cardinality(O) + n
  BY <1>3, <1>5, <1>6
<1> QED BY Zenon, <1>6, <1>7 DEF P, Plus

(* The units of a set are those of one call and those of the others.       *)
LEMMA UnitsWith ==
  ASSUME NEW S, NEW f, NEW c \in S
  PROVE  Units(S, f) = Plus(Units(S \ {c}, f), c, f[c])
BY Zenon DEF Units, Plus

\* A call outside the set adds no units.
LEMMA UnitsWithout ==
  ASSUME NEW S, NEW f, NEW c, c \notin S
  PROVE  Units(S, f) = Units(S \ {c}, f)
<1>1. S = S \ {c}
  BY Zenon
<1> QED BY Zenon, <1>1

\* Without a call in the set, none of the units is one of it.
LEMMA UnitsOfOthers ==
  ASSUME NEW S, NEW f, NEW c
  PROVE  NoneOf(c, Units(S \ {c}, f))
<1> SUFFICES ASSUME NEW u \in Units(S \ {c}, f) PROVE u[1] # c
  BY Zenon DEF NoneOf
<1>1. PICK d \in S \ {c} : u \in {d} \X (1..f[d])
  BY Zenon DEF Units
<1> QED BY Zenon, <1>1

(* What a step of call c leaves alone: what the other calls owe.           *)
LEMMA OthersKeep ==
  ASSUME NEW c \in Calls, NEW b, NEW k,
         \A d \in Calls : d # c => call'[d] = call[d] /\ receipt'[d] = receipt[d]
  PROVE  Units(Sent(b)' \ {c}, Owed(k)') = Units(Sent(b) \ {c}, Owed(k))
<1>1. Sent(b)' \ {c} = Sent(b) \ {c}
  BY Zenon DEF Sent
<1>2. \A d \in Sent(b) \ {c} : Owed(k)'[d] = Owed(k)[d]
  BY Zenon DEF Owed, Sent
<1>3. Units(Sent(b) \ {c}, Owed(k)') = Units(Sent(b) \ {c}, Owed(k))
  BY Zenon, <1>2 DEF Units
<1> QED BY Zenon, <1>1, <1>3

(* A reservation adds the bound of the call to the counters of its buckets *)
(* and to what is owed there (operation reserve).                          *)
LEMMA ReserveExact ==
  ASSUME LedgerTypeOK, CountersExact, NEW c \in Calls, Reserve(c)
  PROVE  CountersExact'
<1> SUFFICES ASSUME NEW b \in Buckets, NEW k \in Kinds
             PROVE  /\ IsFiniteSet(Units(Sent(b), Owed(k))')
                    /\ spent'[b][k] + reserved'[b][k] = Cardinality(Units(Sent(b), Owed(k))')
  BY Zenon DEF CountersExact
<1> DEFINE O == Units(Sent(b) \ {c}, Owed(k))
           n == Amount(Demand[c], k)
<1>1. /\ call[c] = "none" /\ call'[c] = "dispatching"
      /\ \A d \in Calls : d # c => call'[d] = call[d] /\ receipt'[d] = receipt[d]
  BY Zenon DEF Reserve, LedgerTypeOK
<1>2. O' = O
  BY Zenon, <1>1, OthersKeep
<1>3. n \in Nat
  BY Zenon, LedgerAssumption, AmountType
<1>4. /\ IsFiniteSet(Units(Sent(b), Owed(k)))
      /\ spent[b][k] + reserved[b][k] = Cardinality(Units(Sent(b), Owed(k)))
  BY Zenon DEF CountersExact
<1>5. c \notin Sent(b) /\ (c \in Sent(b)' <=> b \in BucketsOf[c])
  BY Zenon, <1>1 DEF Sent
<1>6. Units(Sent(b), Owed(k)) = O /\ NoneOf(c, O)
  BY Zenon, <1>5, UnitsWithout, UnitsOfOthers
<1>7. CASE b \notin BucketsOf[c]
  <2>1. Units(Sent(b), Owed(k))' = O'
    BY Zenon, <1>5, <1>7, UnitsWithout
  <2>2. spent' = spent /\ reserved'[b] = reserved[b]
    BY Zenon, <1>7 DEF Reserve
  <2> QED BY Zenon, <1>2, <1>4, <1>6, <2>1, <2>2
<1>8. CASE b \in BucketsOf[c]
  <2>1. Owed(k)'[c] = n
    BY Zenon, <1>1 DEF Owed
  <2>2. Units(Sent(b), Owed(k))' = Plus(O', c, Owed(k)'[c])
    BY Zenon, <1>5, <1>8, UnitsWith
  <2>3. spent' = spent /\ reserved'[b][k] = reserved[b][k] + n
    BY Zenon, <1>8 DEF Reserve
  <2>4. spent[b][k] \in Int /\ reserved[b][k] \in Int
    BY Zenon DEF LedgerTypeOK
  <2> HIDE DEF O, n
  <2>5. /\ IsFiniteSet(Plus(O, c, n))
        /\ Cardinality(Plus(O, c, n)) = Cardinality(O) + n
    BY Zenon, <1>3, <1>4, <1>6, CountUnits
  <2>6. Units(Sent(b), Owed(k))' = Plus(O, c, n)
    BY Zenon, <1>2, <2>1, <2>2
  <2>7. spent[b][k] + (reserved[b][k] + n) = Cardinality(O) + n
    <3>1. spent[b][k] + reserved[b][k] = Cardinality(O)
      BY Zenon, <1>4, <1>6
    <3> QED BY <1>3, <2>4, <3>1
  <2> QED BY Zenon, <2>3, <2>5, <2>6, <2>7
<1> QED BY Zenon, <1>7, <1>8

(* A receipt replaces the bound of each amount it tells, in the counters   *)
(* as in what is owed (operation settle).                                  *)
LEMMA SettleExact ==
  ASSUME LedgerTypeOK, CountersExact, NEW c \in Calls, NEW x \in Receipts, Settle(c, x)
  PROVE  CountersExact'
<1> SUFFICES ASSUME NEW b \in Buckets, NEW k \in Kinds
             PROVE  /\ IsFiniteSet(Units(Sent(b), Owed(k))')
                    /\ spent'[b][k] + reserved'[b][k] = Cardinality(Units(Sent(b), Owed(k))')
  BY Zenon DEF CountersExact
<1> DEFINE O == Units(Sent(b) \ {c}, Owed(k))
           n == Amount(Demand[c], k)
           m == IF k \in DOMAIN x THEN x[k] ELSE n
<1>1. /\ call[c] \in {"dispatching", "unknown"} /\ call'[c] = "settled" /\ receipt'[c] = x
      /\ \A d \in Calls : d # c => call'[d] = call[d] /\ receipt'[d] = receipt[d]
  BY Zenon DEF Settle, LedgerTypeOK, InFlight
<1>2. O' = O
  BY Zenon, <1>1, OthersKeep
<1>3. n \in Nat /\ m \in Nat
  BY Zenon, LedgerAssumption, AmountType
<1>4. /\ IsFiniteSet(Units(Sent(b), Owed(k)))
      /\ spent[b][k] + reserved[b][k] = Cardinality(Units(Sent(b), Owed(k)))
  BY Zenon DEF CountersExact
<1>5. (c \in Sent(b) <=> b \in BucketsOf[c]) /\ (c \in Sent(b)' <=> b \in BucketsOf[c])
  BY Zenon, <1>1 DEF Sent
<1>6. CASE b \notin BucketsOf[c]
  <2>1. Units(Sent(b), Owed(k)) = O /\ Units(Sent(b), Owed(k))' = O'
    BY Zenon, <1>5, <1>6, UnitsWithout
  <2>2. spent'[b] = spent[b] /\ reserved'[b] = reserved[b]
    BY Zenon, <1>6 DEF Settle
  <2> QED BY Zenon, <1>2, <1>4, <2>1, <2>2
<1>7. CASE b \in BucketsOf[c]
  <2>1. Owed(k)[c] = n /\ Owed(k)'[c] = m
    BY Zenon, <1>1 DEF Owed
  <2>2. /\ Units(Sent(b), Owed(k)) = Plus(O, c, n)
        /\ Units(Sent(b), Owed(k))' = Plus(O, c, m)
        /\ NoneOf(c, O)
    <3>1. Units(Sent(b), Owed(k)) = Plus(O, c, Owed(k)[c])
      BY Zenon, <1>5, <1>7, UnitsWith
    <3>2. Units(Sent(b), Owed(k))' = Plus(O', c, Owed(k)'[c])
      BY Zenon, <1>5, <1>7, UnitsWith
    <3>3. NoneOf(c, O)
      BY Zenon, UnitsOfOthers
    <3> HIDE DEF O, n, m
    <3> QED BY Zenon, <1>2, <2>1, <3>1, <3>2, <3>3
  <2>3. /\ spent'[b][k] = spent[b][k] + Amount(x, k)
        /\ reserved'[b][k] = IF k \in DOMAIN x THEN reserved[b][k] - n ELSE reserved[b][k]
    BY Zenon, <1>7 DEF Settle
  <2>4. spent[b][k] \in Int /\ reserved[b][k] \in Int
    BY Zenon DEF LedgerTypeOK
  <2>5. Amount(x, k) = IF k \in DOMAIN x THEN m ELSE 0
    BY Zenon DEF Amount
  <2>6. k \notin DOMAIN x => m = n
    BY Zenon
  <2> HIDE DEF O, n, m
  <2>7. IsFiniteSet(O)
    <3>1. O \in SUBSET Units(Sent(b), Owed(k))
      BY Zenon, <2>2 DEF Plus
    <3> QED BY Zenon, <1>4, <3>1, FS_Subset
  <2>8. /\ Cardinality(Units(Sent(b), Owed(k))) = Cardinality(O) + n
        /\ IsFiniteSet(Units(Sent(b), Owed(k))')
        /\ Cardinality(Units(Sent(b), Owed(k))') = Cardinality(O) + m
    BY Zenon, <1>3, <2>2, <2>7, CountUnits
  <2>9. Cardinality(O) \in Nat
    BY Zenon, <2>7, FS_CardinalityType
  <2>10. spent[b][k] + reserved[b][k] = Cardinality(O) + n
    BY Zenon, <1>4, <2>8
  <2>11. spent'[b][k] + reserved'[b][k] = Cardinality(O) + m
    <3>1. CASE k \in DOMAIN x
      <4>1. spent'[b][k] = spent[b][k] + m /\ reserved'[b][k] = reserved[b][k] - n
        BY <2>3, <2>5, <3>1
      <4> QED BY <1>3, <2>4, <2>9, <2>10, <4>1
    <3>2. CASE k \notin DOMAIN x
      <4>1. spent'[b][k] = spent[b][k] + 0 /\ reserved'[b][k] = reserved[b][k] /\ m = n
        BY Zenon, <2>3, <2>5, <2>6, <3>2
      <4> QED BY <1>3, <2>4, <2>9, <2>10, <4>1
    <3> QED BY Zenon, <3>1, <3>2
  <2> QED BY Zenon, <2>8, <2>11
<1> QED BY Zenon, <1>6, <1>7

(* A reservation keeps the ledger in order: every bucket was tested before *)
(* the first one changes (operation reserve).                              *)
LEMMA ReserveKeeps ==
  ASSUME LedgerInv, NEW c \in Calls, Reserve(c)
  PROVE  LedgerInv'
<1> USE DEF LedgerInv
<1>0. /\ \A k \in Kinds : Amount(Demand[c], k) \in Nat
      /\ \A k \in DOMAIN Demand[c] : Amount(Demand[c], k) = Demand[c][k]
  BY Zenon, LedgerAssumption, AmountType
<1>1. /\ call' \in [Calls -> {"none", "dispatching", "unknown", "settled"}]
      /\ \A d \in Calls : call'[d] = IF d = c THEN "dispatching" ELSE call[d]
  BY Zenon DEF Reserve, LedgerTypeOK
<1>2. LedgerTypeOK'
  BY <1>0, <1>1 DEF Reserve, LedgerTypeOK
<1>3. \A d \in Calls : InFlight(d)' <=> d = c \/ InFlight(d)
  BY Zenon, <1>1 DEF InFlight
<1>4. CallSlotsExact'
  <2> SUFFICES ASSUME NEW b \in Buckets
               PROVE  slots'[b] = Cardinality(Flying(b)')
    BY Zenon DEF CallSlotsExact, Flying
  <2>1. slots[b] = Cardinality(Flying(b))
    BY Zenon DEF CallSlotsExact, Flying
  <2>2. CASE b \in BucketsOf[c]
    <3>1. Flying(b)' = Flying(b) \cup {c} /\ c \notin Flying(b)
      BY Zenon, <1>3, <2>2 DEF Flying, Reserve, InFlight
    <3>2. Cardinality(Flying(b) \cup {c}) = Cardinality(Flying(b)) + 1
      BY Zenon, <3>1, FlyingFinite, FS_AddElement
    <3>3. slots'[b] = slots[b] + 1
      BY Zenon, <2>2 DEF Reserve
    <3> QED BY Zenon, <2>1, <3>1, <3>2, <3>3
  <2>3. CASE b \notin BucketsOf[c]
    <3>1. Flying(b)' = Flying(b)
      BY Zenon, <1>3, <2>3 DEF Flying
    <3> QED BY Zenon, <2>1, <2>3, <3>1 DEF Reserve
  <2> QED BY Zenon, <2>2, <2>3
<1>5. BoundsKnown'
  BY Zenon, <1>3, LedgerAssumption DEF BoundsKnown, Reserve, Fits
<1>6. CountersWithinLimit'
  <2> SUFFICES ASSUME NEW b \in Buckets, b \notin breached, NEW k \in DOMAIN Limit[b]
               PROVE  spent[b][k] + reserved'[b][k] <= Limit[b][k]
    BY ZenonT(40) DEF CountersWithinLimit, Reserve
  <2>0. k \in Kinds /\ spent[b][k] + reserved[b][k] <= Limit[b][k]
    BY Zenon, LedgerAssumption DEF CountersWithinLimit
  <2>1. spent[b][k] \in Int /\ reserved[b][k] \in Int /\ Limit[b][k] \in Nat
    BY Zenon, <2>0, LedgerAssumption DEF LedgerTypeOK
  <2>2. CASE b \in BucketsOf[c]
    <3>1. /\ k \in DOMAIN Demand[c]
          /\ spent[b][k] + reserved[b][k] + Demand[c][k] <= Limit[b][k]
      BY Zenon, <2>2 DEF Reserve, Fits
    <3>2. reserved'[b][k] = reserved[b][k] + Demand[c][k]
      BY Zenon, <1>0, <2>0, <2>2, <3>1 DEF Reserve
    <3>3. Demand[c][k] \in Nat
      BY Zenon, <3>1, LedgerAssumption
    <3> QED BY <2>1, <3>1, <3>2, <3>3
  <2>3. CASE b \notin BucketsOf[c]
    BY Zenon, <2>0, <2>3 DEF Reserve
  <2> QED BY Zenon, <2>2, <2>3
<1>7. CountersExact'
  BY Zenon, ReserveExact
<1> QED BY Zenon, <1>2, <1>4, <1>5, <1>6, <1>7

(* A receipt keeps the ledger in order: what is spent was reserved, or the *)
(* bucket is marked as breached (operation settle).                        *)
LEMMA SettleKeeps ==
  ASSUME LedgerInv, NEW c \in Calls, NEW x \in Receipts, Settle(c, x)
  PROVE  LedgerInv'
<1> USE DEF LedgerInv
<1>0. /\ \A k \in Kinds : Amount(Demand[c], k) \in Nat /\ Amount(x, k) \in Nat
      /\ \A k \in DOMAIN Demand[c] : Amount(Demand[c], k) = Demand[c][k]
      /\ \A k \in DOMAIN x : Amount(x, k) = x[k]
      /\ \A k : k \notin DOMAIN x => Amount(x, k) = 0
  BY Zenon, LedgerAssumption, AmountType DEF Amount
<1>1. /\ call' \in [Calls -> {"none", "dispatching", "unknown", "settled"}]
      /\ \A d \in Calls : call'[d] = IF d = c THEN "settled" ELSE call[d]
  BY Zenon DEF Settle, LedgerTypeOK
<1>2. LedgerTypeOK'
  <2>1. receipt' \in [Calls -> Receipts \cup {NoReceipt}]
    BY Zenon DEF Settle, LedgerTypeOK
  <2>2. spent' \in [Buckets -> [Kinds -> Int]] /\ reserved' \in [Buckets -> [Kinds -> Int]]
    BY <1>0 DEF Settle, LedgerTypeOK
  <2>3. slots' \in [Buckets -> Int] /\ breached' \subseteq Buckets /\ revision' = revision
    BY LedgerAssumption DEF Settle, LedgerTypeOK
  <2> QED BY Zenon, <1>1, <2>1, <2>2, <2>3 DEF LedgerTypeOK
<1>3. InFlight(c) /\ \A d \in Calls : InFlight(d)' <=> d # c /\ InFlight(d)
  BY Zenon, <1>1 DEF InFlight, Settle
<1>4. CallSlotsExact'
  <2> SUFFICES ASSUME NEW b \in Buckets
               PROVE  slots'[b] = Cardinality(Flying(b)')
    BY Zenon DEF CallSlotsExact, Flying
  <2>1. slots[b] = Cardinality(Flying(b))
    BY Zenon DEF CallSlotsExact, Flying
  <2>2. CASE b \in BucketsOf[c]
    <3>1. Flying(b)' = Flying(b) \ {c} /\ c \in Flying(b)
      BY Zenon, <1>3, <2>2 DEF Flying
    <3>2. Cardinality(Flying(b) \ {c}) = Cardinality(Flying(b)) - 1
      BY Zenon, <3>1, FlyingFinite, FS_RemoveElement
    <3>3. slots'[b] = slots[b] - 1
      BY Zenon, <2>2 DEF Settle
    <3> QED BY Zenon, <2>1, <3>1, <3>2, <3>3
  <2>3. CASE b \notin BucketsOf[c]
    <3>1. Flying(b)' = Flying(b)
      BY Zenon, <1>3, <2>3 DEF Flying
    <3> QED BY Zenon, <2>1, <2>3, <3>1 DEF Settle
  <2> QED BY Zenon, <2>2, <2>3
<1>5. BoundsKnown'
  BY Zenon, <1>3 DEF BoundsKnown
<1>6. CountersWithinLimit'
  <2> SUFFICES ASSUME NEW b \in Buckets, b \notin breached', NEW k \in DOMAIN Limit[b]
               PROVE  spent'[b][k] + reserved'[b][k] <= Limit[b][k]
    BY Zenon DEF CountersWithinLimit
  <2>0. k \in Kinds /\ b \notin breached /\ spent[b][k] + reserved[b][k] <= Limit[b][k]
    BY Zenon, LedgerAssumption DEF CountersWithinLimit, Settle
  <2>1. spent[b][k] \in Int /\ reserved[b][k] \in Int /\ Limit[b][k] \in Nat
    BY ZenonT(40), <2>0, LedgerAssumption DEF LedgerTypeOK
  <2>2. CASE b \in BucketsOf[c]
    <3>1. k \in DOMAIN Demand[c] /\ Demand[c][k] \in Nat
      BY Zenon, <1>3, <2>2, LedgerAssumption DEF BoundsKnown
    <3>2. spent'[b][k] = spent[b][k] + Amount(x, k)
      BY Zenon, <2>0, <2>2 DEF Settle
    <3>3. CASE k \in DOMAIN x
      <4>1. reserved'[b][k] = reserved[b][k] - Demand[c][k]
        BY Zenon, <1>0, <2>0, <2>2, <3>1, <3>3 DEF Settle
      <4>2. x[k] \in Nat /\ x[k] <= Demand[c][k]
        BY <2>2, <3>1, <3>3, LedgerAssumption DEF Settle, Exceeds
      <4> QED BY SMTT(30), <1>0, <2>0, <2>1, <3>1, <3>2, <3>3, <4>1, <4>2
    <3>4. CASE k \notin DOMAIN x
      <4>1. reserved'[b][k] = reserved[b][k]
        BY Zenon, <2>0, <2>2, <3>4 DEF Settle
      <4> QED BY SMTT(30), <1>0, <2>0, <2>1, <3>2, <3>4, <4>1
    <3> QED BY Zenon, <3>3, <3>4
  <2>3. CASE b \notin BucketsOf[c]
    BY Zenon, <2>0, <2>3 DEF Settle
  <2> QED BY Zenon, <2>2, <2>3
<1>7. CountersExact'
  BY Zenon, SettleExact
<1> QED BY Zenon, <1>2, <1>4, <1>5, <1>6, <1>7

(* Losing track of a call, a new physical policy and everything else keep  *)
(* the ledger in order.                                                    *)
LEMMA LedgerKeeps ==
  ASSUME LedgerInv, [Next]_vars
  PROVE  LedgerInv'
<1>1. ASSUME NEW c \in Calls, MarkUnknown(c)
      PROVE  LedgerInv'
  <2>1. /\ call' \in [Calls -> {"none", "dispatching", "unknown", "settled"}]
        /\ \A d \in Calls : InFlight(d)' <=> InFlight(d)
    BY Zenon, <1>1 DEF MarkUnknown, LedgerInv, LedgerTypeOK, InFlight
  <2>2. \A b \in Buckets : Flying(b)' = Flying(b)
    BY Zenon, <2>1 DEF Flying
  <2>3. UNCHANGED <<receipt, spent, reserved, slots, breached, revision>>
    BY Zenon, <1>1 DEF MarkUnknown
  <2>4. CallSlotsExact'
    BY Zenon, <2>2, <2>3 DEF LedgerInv, CallSlotsExact, Flying
  <2>5. \A b \in Buckets, k \in Kinds : Units(Sent(b), Owed(k))' = Units(Sent(b), Owed(k))
    BY Zenon, <1>1, <2>3 DEF Sent, Owed, MarkUnknown, LedgerInv, LedgerTypeOK
  <2>6. CountersExact'
    BY Zenon, <2>3, <2>5 DEF LedgerInv, CountersExact
  <2> QED BY Zenon, <2>1, <2>3, <2>4, <2>6
          DEF LedgerInv, LedgerTypeOK, BoundsKnown, CountersWithinLimit
<1>2. ASSUME UNCHANGED <<call, receipt, spent, reserved, slots, breached>>,
             revision' \in 1..MaxRevisions
      PROVE  LedgerInv'
  <2>1. LedgerTypeOK' /\ BoundsKnown' /\ CountersWithinLimit'
    BY Zenon, <1>2 DEF LedgerInv, LedgerTypeOK, InFlight, BoundsKnown, CountersWithinLimit
  <2>2. CallSlotsExact'
    BY Zenon, <1>2 DEF LedgerInv, CallSlotsExact, InFlight
  <2>3. CountersExact'
    BY Zenon, <1>2 DEF LedgerInv, CountersExact, Sent, Owed
  <2> QED BY Zenon, <2>1, <2>2, <2>3 DEF LedgerInv
<1>3. CASE ActivatePhysical \/ UNCHANGED ledgerVars
  <2>1. revision \in 1..MaxRevisions
    BY Zenon DEF LedgerInv, LedgerTypeOK
  <2>2. revision' \in 1..MaxRevisions
    BY <1>3, <2>1, LedgerAssumption DEF ActivatePhysical, ledgerVars
  <2> QED BY Zenon, <1>2, <1>3, <2>2 DEF ActivatePhysical, ledgerVars
<1>4. \/ \E c \in Calls : Reserve(c) \/ MarkUnknown(c) \/ \E x \in Receipts : Settle(c, x)
      \/ ActivatePhysical
      \/ UNCHANGED ledgerVars
  BY Zenon DEF Next, vars, Admit, RunStep, Plan, CallStep, BeforeSend, LoseTrack, AfterSend,
               Control
<1> QED BY Zenon, <1>1, <1>3, <1>4, ReserveKeeps, SettleKeeps

-----------------------------------------------------------------------------
(* Slots and lineage.                                                      *)

\* The lease, the journal and the inbox of Run r agree.
Agrees(r) ==
  /\ phase[r] = "none" <=> lineage[r] = None
  /\ phase[r] = "none" => status[r] = "new" /\ inbox[r] = "none"
  /\ phase[r] = "prepared" => status[r] = "new"
  /\ phase[r] = "held" <=> status[r] \in Working
  /\ phase[r] # "none" /\ status[r] = "new" => inbox[r] \in {"received", "rejected"}
  /\ phase[r] = "released" /\ status[r] = "new" => inbox[r] = "rejected"
  /\ status[r] # "new" => inbox[r] = "accepted"

AllAgree == \A r \in Runs : Agrees(r)

\* A plan names a failed attempt of the same work unit.
PlansGrounded ==
  \A r \in Runs : planned[r] # NoPlan =>
    /\ planned[r][1] \in Runs \ {r} /\ UnitOf[planned[r][1]] = UnitOf[r]
    /\ status[planned[r][1]] = "failed" /\ phase[planned[r][1]] = "released"
    /\ generation[planned[r][1]] = planned[r][2]

\* A predecessor is a failed Run in the lineage of the same work unit.
AncestryGrounded ==
  \A r \in Runs : lineage[r] \notin {None, r} =>
    /\ lineage[lineage[r]] # None /\ UnitOf[lineage[r]] = UnitOf[r]
    /\ status[lineage[r]] = "failed" /\ phase[lineage[r]] = "released"

\* A work unit has at most one Run without a replacement.
OneCurrent ==
  \A r, s \in Runs : UnitOf[r] = UnitOf[s] /\ Current(r) /\ Current(s) => r = s

\* The Runs that pool p counts, by their leases.
Using(p) == {r \in Runs : p \in PoolsOf[r] /\ phase[r] \in {"prepared", "held"}}

PoolsCount == \A p \in Pools : occupied[p] = Cardinality(Using(p))

SlotInv ==
  SlotsTypeOK /\ AllAgree /\ PlansGrounded /\ AncestryGrounded /\ OneCurrent /\ PoolsCount

\* Calls in flight belong to a Run without a replacement.
CallsCurrent == \A c \in Calls : InFlight(c) => Current(RunOf[c])

(* The Runs a pool counts are finitely many.                               *)
LEMMA UsingFinite ==
  ASSUME NEW p
  PROVE  IsFiniteSet(Using(p)) /\ Cardinality(Using(p)) \in Nat
BY Zenon, SlotsAssumption, FS_Subset, FS_CardinalityType DEF Using

(* A slot is counted when a lease without one is prepared or held          *)
(* (acquire).                                                              *)
LEMMA OccupyCounts ==
  ASSUME SlotsTypeOK, PoolsCount, NEW r \in Runs, NEW v \in {"prepared", "held"},
         phase[r] \notin {"prepared", "held"}, phase' = [phase EXCEPT ![r] = v], Occupy(r)
  PROVE  PoolsCount'
<1> SUFFICES ASSUME NEW p \in Pools PROVE occupied'[p] = Cardinality(Using(p)')
  BY Zenon DEF PoolsCount
<1>1. \A s \in Runs : phase'[s] = IF s = r THEN v ELSE phase[s]
  BY Zenon DEF SlotsTypeOK
<1>2. occupied[p] = Cardinality(Using(p))
  BY Zenon DEF PoolsCount
<1>3. CASE p \in PoolsOf[r]
  <2>1. Using(p)' = Using(p) \cup {r} /\ r \notin Using(p)
    BY Zenon, <1>1, <1>3 DEF Using
  <2>2. Cardinality(Using(p) \cup {r}) = Cardinality(Using(p)) + 1
    BY Zenon, <2>1, UsingFinite, FS_AddElement
  <2>3. occupied'[p] = occupied[p] + 1
    BY Zenon, <1>3 DEF Occupy
  <2> QED BY Zenon, <1>2, <2>1, <2>2, <2>3
<1>4. CASE p \notin PoolsOf[r]
  <2>1. Using(p)' = Using(p)
    BY Zenon, <1>1, <1>4 DEF Using
  <2> QED BY Zenon, <1>2, <1>4, <2>1 DEF Occupy
<1> QED BY Zenon, <1>3, <1>4

(* A slot is given back when a lease with one is released (accepted,       *)
(* withdraw_unaccepted).                                                   *)
LEMMA VacateCounts ==
  ASSUME SlotsTypeOK, PoolsCount, NEW r \in Runs,
         phase[r] \in {"prepared", "held"}, phase' = [phase EXCEPT ![r] = "released"], Vacate(r)
  PROVE  PoolsCount'
<1> SUFFICES ASSUME NEW p \in Pools PROVE occupied'[p] = Cardinality(Using(p)')
  BY Zenon DEF PoolsCount
<1>1. \A s \in Runs : phase'[s] = IF s = r THEN "released" ELSE phase[s]
  BY Zenon DEF SlotsTypeOK
<1>2. occupied[p] = Cardinality(Using(p))
  BY Zenon DEF PoolsCount
<1>3. CASE p \in PoolsOf[r]
  <2>1. Using(p)' = Using(p) \ {r} /\ r \in Using(p)
    BY <1>1, <1>3 DEF Using
  <2>2. Cardinality(Using(p) \ {r}) = Cardinality(Using(p)) - 1
    BY Zenon, <2>1, UsingFinite, FS_RemoveElement
  <2>3. occupied'[p] = occupied[p] - 1
    BY Zenon, <1>3 DEF Vacate
  <2> QED BY Zenon, <1>2, <2>1, <2>2, <2>3
<1>4. CASE p \notin PoolsOf[r]
  <2>1. Using(p)' = Using(p)
    BY Zenon, <1>1, <1>4 DEF Using
  <2> QED BY Zenon, <1>2, <1>4, <2>1 DEF Vacate
<1> QED BY Zenon, <1>3, <1>4

(* The counts stay when no lease gains or loses its slot.                  *)
LEMMA KeepCounts ==
  ASSUME PoolsCount, UNCHANGED occupied,
         \A s \in Runs : phase'[s] \in {"prepared", "held"} <=> phase[s] \in {"prepared", "held"}
  PROVE  PoolsCount'
BY Zenon DEF PoolsCount, Using

(* A Run outside the lineage has no replacement.                           *)
LEMMA UnlinkedChildless ==
  ASSUME SlotInv, NEW r \in Runs, lineage[r] = None
  PROVE  ~HasChild(r)
BY Zenon, SlotsAssumption DEF SlotInv, AncestryGrounded, HasChild

(* An admission takes one slot and changes no other Run (prepare).         *)
LEMMA PrepareKeeps ==
  ASSUME SlotInv, NEW r \in Runs, NEW q \in Runs, lineage[r] = None, Prepare(r),
         lineage' = [lineage EXCEPT ![r] = q]
  PROVE  SlotsTypeOK' /\ AllAgree' /\ PlansGrounded' /\ PoolsCount'
<1> USE DEF SlotInv
<1>1. /\ \A s \in Runs : phase'[s] = IF s = r THEN "prepared" ELSE phase[s]
      /\ \A s \in Runs : generation'[s] = IF s = r THEN 1 ELSE generation[s]
      /\ \A s \in Runs : inbox'[s] = IF s = r THEN "received" ELSE inbox[s]
      /\ \A s \in Runs : lineage'[s] = IF s = r THEN q ELSE lineage[s]
      /\ UNCHANGED <<status, doubtful, planned, open, policy>>
  BY Zenon DEF Prepare, SlotsTypeOK
<1>2. SlotsTypeOK'
  BY SMTT(30) DEF Prepare, Occupy, SlotsTypeOK
<1>3. AllAgree'
  <2> SUFFICES ASSUME NEW s \in Runs PROVE Agrees(s)'
    BY Zenon DEF AllAgree
  <2>1. Agrees(s) /\ Agrees(r)
    BY Zenon DEF AllAgree
  <2> QED BY <1>1, <2>1, SlotsAssumption DEF Agrees, Prepare, Working
<1>4. PlansGrounded'
  <2> SUFFICES ASSUME NEW s \in Runs, planned[s] # NoPlan
               PROVE  /\ planned[s][1] \in Runs \ {s} /\ UnitOf[planned[s][1]] = UnitOf[s]
                      /\ status[planned[s][1]] = "failed"
                      /\ phase'[planned[s][1]] = "released"
                      /\ generation'[planned[s][1]] = planned[s][2]
    BY Zenon, <1>1 DEF PlansGrounded
  <2>1. /\ planned[s][1] \in Runs \ {s} /\ UnitOf[planned[s][1]] = UnitOf[s]
        /\ status[planned[s][1]] = "failed" /\ phase[planned[s][1]] = "released"
        /\ generation[planned[s][1]] = planned[s][2]
    BY Zenon DEF PlansGrounded
  <2>2. planned[s][1] # r
    BY Zenon, <2>1 DEF Prepare
  <2> QED BY Zenon, <1>1, <2>1, <2>2
<1>5. PoolsCount'
  BY ZenonT(40), OccupyCounts DEF Prepare
<1> QED BY Zenon, <1>2, <1>3, <1>4, <1>5

(* An admission leaves the Run it admits the only one of its work unit     *)
(* without a replacement, and no call of a replaced Run in flight          *)
(* (ensure_initial, link_replacement).                                     *)
LEMMA AdmitKeeps ==
  ASSUME SlotInv, CallsCurrent, NEW r \in Runs, Admit(r)
  PROVE  SlotInv' /\ CallsCurrent'
<1> USE DEF SlotInv
<1>0. lineage[r] = None /\ ~HasChild(r)
  BY Zenon, UnlinkedChildless DEF Admit, AdmitInitial, AdmitReplacement
<1>1. \A c \in Calls : InFlight(c)' <=> InFlight(c)
  BY Zenon DEF Admit, ledgerVars, InFlight
<1>2. CASE AdmitInitial(r)
  <2>1. lineage' = [lineage EXCEPT ![r] = r] /\ Prepare(r)
    BY Zenon, <1>2 DEF AdmitInitial
  <2>2. \A s \in Runs : lineage'[s] = IF s = r THEN r ELSE lineage[s]
    BY Zenon, <2>1 DEF SlotsTypeOK
  <2>3. \A s \in Runs : HasChild(s)' <=> HasChild(s)
    BY Zenon, <1>0, <2>2, SlotsAssumption DEF HasChild
  <2>4. \A s \in Runs : Current(s)' <=> s = r \/ Current(s)
    <3> TAKE s \in Runs
    <3>1. HasChild(s)' <=> HasChild(s)
      BY Zenon, <2>3
    <3>2. lineage'[s] = IF s = r THEN r ELSE lineage[s]
      BY Zenon, <2>2
    <3>3. r # None
      BY Zenon, SlotsAssumption
    <3> QED BY Zenon, <1>0, <3>1, <3>2, <3>3 DEF Current
  <2>5. SlotsTypeOK' /\ AllAgree' /\ PlansGrounded' /\ PoolsCount'
    BY ZenonT(40), <1>0, <2>1, PrepareKeeps
  <2>6. AncestryGrounded'
    <3> SUFFICES ASSUME NEW s \in Runs, lineage'[s] \notin {None, s}
                 PROVE  /\ lineage'[lineage'[s]] # None /\ UnitOf[lineage'[s]] = UnitOf[s]
                        /\ status'[lineage'[s]] = "failed" /\ phase'[lineage'[s]] = "released"
      BY Zenon DEF AncestryGrounded
    <3>1. s # r /\ lineage'[s] = lineage[s]
      BY Zenon, <2>2
    <3>2. lineage[s] \in Runs /\ lineage[s] # r
      BY Zenon, <1>0, <3>1 DEF SlotsTypeOK, HasChild
    <3>3. lineage'[lineage[s]] = lineage[lineage[s]] /\ phase'[lineage[s]] = phase[lineage[s]]
      BY Zenon, <2>1, <2>2, <3>2 DEF Prepare, SlotsTypeOK
    <3> QED BY ZenonT(40), <2>1, <3>1, <3>3 DEF AncestryGrounded, Prepare
  <2>7. OneCurrent'
    <3>1. \A s \in Runs : UnitOf[s] = UnitOf[r] => ~Current(s)
      BY Zenon, <1>2 DEF AdmitInitial, Current
    <3> QED BY Zenon, <2>4, <3>1 DEF OneCurrent
  <2>8. CallsCurrent'
    BY Zenon, <1>1, <2>4, DispatchAssumption DEF CallsCurrent
  <2> QED BY Zenon, <2>5, <2>6, <2>7, <2>8
<1>3. CASE AdmitReplacement(r, LineageSettled(r))
  <2> DEFINE p == planned[r][1]
  <2>1. /\ lineage' = [lineage EXCEPT ![r] = p] /\ Prepare(r) /\ p # None
        /\ lineage[p] # None /\ ~HasChild(p) /\ LineageSettled(r)
    BY Zenon, <1>3 DEF AdmitReplacement
  <2>2. /\ p \in Runs \ {r} /\ UnitOf[p] = UnitOf[r]
        /\ status[p] = "failed" /\ phase[p] = "released"
    BY SMTT(30), <2>1 DEF PlansGrounded, NoPlan
  <2> HIDE DEF p
  <2>3. \A s \in Runs : lineage'[s] = IF s = r THEN p ELSE lineage[s]
    BY Zenon, <2>1 DEF SlotsTypeOK
  <2>4. \A s \in Runs : HasChild(s)' <=> s = p \/ HasChild(s)
    BY Zenon, <1>0, <2>2, <2>3, SlotsAssumption DEF HasChild
  <2>5. \A s \in Runs : Current(s)' <=> s = r \/ (Current(s) /\ s # p)
    <3> TAKE s \in Runs
    <3>1. HasChild(s)' <=> s = p \/ HasChild(s)
      BY Zenon, <2>4
    <3>2. lineage'[s] = IF s = r THEN p ELSE lineage[s]
      BY Zenon, <2>3
    <3>3. p # None /\ r # p
      BY Zenon, <2>2, SlotsAssumption
    <3>4. CASE s = r
      BY Zenon, <1>0, <3>1, <3>2, <3>3, <3>4 DEF Current
    <3>5. CASE s # r
      BY Zenon, <3>1, <3>2, <3>5 DEF Current
    <3> QED BY Zenon, <3>4, <3>5
  <2>6. SlotsTypeOK' /\ AllAgree' /\ PlansGrounded' /\ PoolsCount'
    BY ZenonT(40), <1>0, <2>1, <2>2, PrepareKeeps
  <2>7. AncestryGrounded'
    <3> SUFFICES ASSUME NEW s \in Runs, lineage'[s] \notin {None, s}
                 PROVE  /\ lineage'[lineage'[s]] # None /\ UnitOf[lineage'[s]] = UnitOf[s]
                        /\ status'[lineage'[s]] = "failed" /\ phase'[lineage'[s]] = "released"
      BY Zenon DEF AncestryGrounded
    <3>0. \A t \in Runs \ {r} : lineage'[t] = lineage[t] /\ phase'[t] = phase[t]
      BY Zenon, <2>1, <2>3 DEF Prepare, SlotsTypeOK
    <3>1. status' = status
      BY Zenon, <2>1 DEF Prepare
    <3>2. CASE s = r
      BY Zenon, <2>1, <2>2, <2>3, <3>0, <3>1, <3>2
    <3>3. CASE s # r
      <4>1. lineage'[s] = lineage[s] /\ lineage[s] \in Runs /\ lineage[s] # r
        BY Zenon, <1>0, <2>3, <3>3 DEF SlotsTypeOK, HasChild
      <4> QED BY SMTT(30), <3>0, <3>1, <4>1 DEF AncestryGrounded
    <3> QED BY Zenon, <3>2, <3>3
  <2>8. OneCurrent'
    <3>1. Current(p)
      BY Zenon, <2>1 DEF Current
    <3>2. \A s \in Runs : UnitOf[s] = UnitOf[r] /\ Current(s) => s = p
      BY Zenon, <2>2, <3>1 DEF OneCurrent
    <3> QED BY Zenon, <2>5, <3>2 DEF OneCurrent
  <2>9. CallsCurrent'
    <3>1. \A c \in Calls : RunOf[c] = p => ~InFlight(c)
      BY Zenon, <2>1, <2>2 DEF LineageSettled, CallsSettled
    <3> QED BY Zenon, <1>1, <2>5, <3>1, DispatchAssumption DEF CallsCurrent
  <2> QED BY Zenon, <2>6, <2>7, <2>8, <2>9
<1> QED BY Zenon, <1>2, <1>3 DEF Admit

(* A step of Run r that leaves lineage and plans alone, and a failed Run   *)
(* as it is, keeps what they rest on.                                      *)
LEMMA GroundKept ==
  ASSUME SlotInv, CallsCurrent, NEW r \in Runs, status[r] # "failed",
         UNCHANGED <<lineage, planned, call>>,
         \A s \in Runs \ {r} : /\ phase'[s] = phase[s] /\ status'[s] = status[s]
                               /\ generation'[s] = generation[s]
  PROVE  PlansGrounded' /\ AncestryGrounded' /\ OneCurrent' /\ CallsCurrent'
<1> USE DEF SlotInv
<1>1. PlansGrounded'
  BY DEF PlansGrounded
<1>2. AncestryGrounded'
  <2>1. \A s \in Runs : lineage[s] \in Runs \cup {None}
    BY Zenon DEF SlotsTypeOK
  <2> QED BY ZenonT(40), <2>1 DEF AncestryGrounded
<1>3. OneCurrent'
  BY Zenon DEF OneCurrent, Current, HasChild
<1>4. CallsCurrent'
  BY Zenon DEF CallsCurrent, Current, HasChild, InFlight
<1> QED BY Zenon, <1>1, <1>2, <1>3, <1>4

(* An accepted command moves the slot with the status (accepted).          *)
LEMMA AcceptKeeps ==
  ASSUME SlotInv, CallsCurrent, NEW r \in Runs, NEW d \in BOOLEAN,
         NEW t \in Working \cup Ended \cup {"retry", "waiting"},
         Accept(r, t, d), UNCHANGED ledgerVars
  PROVE  SlotInv' /\ CallsCurrent'
<1> USE DEF SlotInv
<1> DEFINE v == IF t \in Working THEN "held" ELSE "released"
<1>0. /\ MayMove(status[r], t) /\ status[r] # "failed" /\ phase[r] # "none"
      /\ status[r] = "new" => inbox[r] = "received"
      /\ t # "new" /\ Agrees(r)
  BY Zenon DEF Accept, MayMove, AllAgree, Working, Ended
<1>1. phase' = [phase EXCEPT ![r] = v] /\ status' = [status EXCEPT ![r] = t]
      /\ inbox' = [inbox EXCEPT ![r] = "accepted"]
  BY Zenon DEF Accept, TakeUp, LayDown
<1>2. UNCHANGED <<lineage, planned, open, policy>>
  BY Zenon DEF Accept
<1>3. /\ generation' \in [Runs -> Nat]
      /\ \A s \in Runs \ {r} : generation'[s] = generation[s]
  BY DEF Accept, TakeUp, LayDown, SlotsTypeOK
<1>4. occupied' \in [Pools -> Int] /\ doubtful' \subseteq Runs
  BY DEF Accept, TakeUp, LayDown, Occupy, Vacate, SlotsTypeOK
<1>5. v \in {"held", "released"}
  BY Zenon
<1>6. PoolsCount'
  <2>1. CASE t \in Working /\ phase[r] = "released"
    <3>1. Occupy(r) /\ phase' = [phase EXCEPT ![r] = "held"]
      BY Zenon, <2>1 DEF Accept, TakeUp
    <3> QED BY ZenonT(40), <2>1, <3>1, OccupyCounts
  <2>2. CASE t \in Working /\ phase[r] # "released"
    <3>1. UNCHANGED occupied /\ phase' = [phase EXCEPT ![r] = "held"]
      BY Zenon, <2>2 DEF Accept, TakeUp
    <3>2. phase[r] \in {"prepared", "held"}
      BY Zenon, <1>0, <2>2 DEF SlotsTypeOK
    <3> QED BY Zenon, <3>1, <3>2, KeepCounts DEF SlotsTypeOK
  <2>3. CASE t \notin Working /\ phase[r] # "released"
    <3>1. Vacate(r) /\ phase' = [phase EXCEPT ![r] = "released"]
      BY Zenon, <2>3 DEF Accept, LayDown
    <3>2. phase[r] \in {"prepared", "held"}
      BY Zenon, <1>0, <2>3 DEF SlotsTypeOK
    <3> QED BY ZenonT(40), <3>1, <3>2, VacateCounts
  <2>4. CASE t \notin Working /\ phase[r] = "released"
    <3>1. UNCHANGED occupied /\ phase' = [phase EXCEPT ![r] = "released"]
      BY Zenon, <2>4 DEF Accept, LayDown
    <3> QED BY Zenon, <2>4, <3>1, KeepCounts DEF SlotsTypeOK
  <2> QED BY Zenon, <2>1, <2>2, <2>3, <2>4
<1>7. SlotsTypeOK'
  BY ZenonT(40), <1>1, <1>2, <1>3, <1>4, <1>5 DEF SlotsTypeOK
<1>8. AllAgree'
  <2> SUFFICES ASSUME NEW s \in Runs PROVE Agrees(s)'
    BY Zenon DEF AllAgree
  <2>1. /\ phase'[s] = IF s = r THEN v ELSE phase[s]
        /\ status'[s] = IF s = r THEN t ELSE status[s]
        /\ inbox'[s] = IF s = r THEN "accepted" ELSE inbox[s]
        /\ lineage'[s] = lineage[s]
    BY Zenon, <1>1, <1>2 DEF SlotsTypeOK
  <2>2. CASE s = r
    BY Zenon, <1>0, <2>1, <2>2 DEF Agrees
  <2>3. CASE s # r
    <3>1. Agrees(s)
      BY Zenon DEF AllAgree
    <3> QED BY Zenon, <2>1, <2>3, <3>1 DEF Agrees
  <2> QED BY Zenon, <2>2, <2>3
<1>9. PlansGrounded' /\ AncestryGrounded' /\ OneCurrent' /\ CallsCurrent'
  <2>1. \A s \in Runs \ {r} : phase'[s] = phase[s] /\ status'[s] = status[s]
    BY Zenon, <1>1 DEF SlotsTypeOK
  <2>2. UNCHANGED call
    BY Zenon DEF ledgerVars
  <2> QED BY Zenon, <1>0, <1>2, <1>3, <2>1, <2>2, GroundKept
<1> QED BY Zenon, <1>6, <1>7, <1>8, <1>9

(* A refused or withdrawn CreateRun leaves the Run where it never began    *)
(* (withdraw_unaccepted).                                                  *)
LEMMA RefuseKeeps ==
  ASSUME SlotInv, CallsCurrent, NEW r \in Runs, Refuse(r) \/ Withdraw(r), UNCHANGED ledgerVars
  PROVE  SlotInv' /\ CallsCurrent'
<1> USE DEF SlotInv
<1>0. Agrees(r) /\ status[r] = "new" /\ phase[r] \in {"prepared", "held", "released"}
  BY Zenon DEF Refuse, Withdraw, AllAgree, Agrees, SlotsTypeOK
<1>1. /\ inbox' = [inbox EXCEPT ![r] = "rejected"]
      /\ UNCHANGED <<status, doubtful, lineage, planned, open, policy, call>>
  BY Zenon DEF Refuse, Withdraw, ledgerVars
<1>2. /\ PoolsCount' /\ SlotsTypeOK'
      /\ \A s \in Runs \ {r} : phase'[s] = phase[s] /\ generation'[s] = generation[s]
      /\ phase'[r] \in {phase[r], "released"}
  <2>1. CASE Refuse(r)
    <3>1. PoolsCount'
      BY Zenon, <2>1, KeepCounts DEF Refuse
    <3> QED BY Zenon, <1>1, <2>1, <3>1 DEF Refuse, SlotsTypeOK
  <2>2. CASE Withdraw(r)
    <3>1. PoolsCount'
      BY ZenonT(40), <2>2, VacateCounts DEF Withdraw
    <3> QED BY SMTT(30), <1>1, <2>2, <3>1 DEF Withdraw, Vacate, SlotsTypeOK
  <2> QED BY Zenon, <2>1, <2>2
<1>3. AllAgree'
  <2> SUFFICES ASSUME NEW s \in Runs PROVE Agrees(s)'
    BY Zenon DEF AllAgree
  <2>1. /\ inbox'[s] = IF s = r THEN "rejected" ELSE inbox[s]
        /\ status'[s] = status[s] /\ lineage'[s] = lineage[s]
    BY Zenon, <1>1 DEF SlotsTypeOK
  <2>2. CASE s = r
    BY Zenon, <1>0, <1>2, <2>1, <2>2 DEF Agrees, Working
  <2>3. CASE s # r
    <3>1. Agrees(s)
      BY Zenon DEF AllAgree
    <3> QED BY Zenon, <1>2, <2>1, <2>3, <3>1 DEF Agrees
  <2> QED BY Zenon, <2>2, <2>3
<1>4. PlansGrounded' /\ AncestryGrounded' /\ OneCurrent' /\ CallsCurrent'
  BY Zenon, <1>0, <1>1, <1>2, GroundKept
<1> QED BY Zenon, <1>2, <1>3, <1>4

(* A plan is made for a failed attempt (retry_predecessor,                 *)
(* replace_attempt).                                                       *)
LEMMA PlanKeeps ==
  ASSUME SlotInv, CallsCurrent, NEW r \in Runs, NEW p \in Runs, Plan(r, p)
  PROVE  SlotInv' /\ CallsCurrent'
<1> USE DEF SlotInv
<1>1. /\ UNCHANGED <<phase, generation, status, doubtful, inbox, lineage, open, policy,
                     occupied, call>>
      /\ planned' = [planned EXCEPT ![r] = <<p, generation[p]>>]
      /\ r # p /\ UnitOf[r] = UnitOf[p] /\ phase[p] = "released" /\ status[p] = "failed"
  BY Zenon DEF Plan, PlanReplacement, ledgerVars
<1>2. <<p, generation[p]>> \in (Runs \cup {None}) \X Nat
  BY Zenon DEF SlotsTypeOK
<1>3. SlotsTypeOK'
  BY Zenon, <1>1, <1>2 DEF SlotsTypeOK
<1>4. \A s \in Runs : planned'[s] = IF s = r THEN <<p, generation[p]>> ELSE planned[s]
  BY Zenon, <1>1 DEF SlotsTypeOK
<1>5. PlansGrounded'
  BY SMTT(30), <1>1, <1>4 DEF PlansGrounded
<1>6. AllAgree' /\ AncestryGrounded' /\ OneCurrent' /\ PoolsCount' /\ CallsCurrent'
  BY <1>1 DEF AllAgree, Agrees, AncestryGrounded, OneCurrent, PoolsCount, Using, Current,
              HasChild, CallsCurrent, InFlight
<1> QED BY Zenon, <1>3, <1>5, <1>6

(* Calls and the control plane move no slot, and a call goes out only for  *)
(* the Run without a replacement (reserve_in_uow).                         *)
LEMMA CallKeeps ==
  ASSUME SlotInv, LedgerInv, CallsCurrent,
         (\E c \in Calls : CallStep(c)) \/ Control \/ UNCHANGED vars
  PROVE  SlotInv' /\ CallsCurrent'
<1> USE DEF SlotInv
<1>0. UNCHANGED <<phase, generation, status, doubtful, inbox, lineage, planned, occupied>>
  BY Zenon DEF CallStep, BeforeSend, LoseTrack, AfterSend, Control, CloseNamespace, ActivateSlots,
         slotVars, vars
<1>1. open' \subseteq open /\ policy' \in 1..MaxPolicies
  BY SMTT(30), SlotsAssumption
     DEF CallStep, BeforeSend, LoseTrack, AfterSend, Control, CloseNamespace, ActivateSlots,
         slotVars, vars, SlotsTypeOK
<1>2. SlotsTypeOK'
  BY Zenon, <1>0, <1>1 DEF SlotsTypeOK
<1>3. AllAgree' /\ PlansGrounded' /\ AncestryGrounded' /\ OneCurrent' /\ PoolsCount'
  BY SMTT(30), <1>0 DEF AllAgree, Agrees, PlansGrounded, AncestryGrounded, OneCurrent, PoolsCount, Using,
              Current, HasChild
<1>4. CallsCurrent'
  <2>1. \A c \in Calls : InFlight(c)' => InFlight(c) \/ Current(RunOf[c])
    <3>1. CASE UNCHANGED call
      BY Zenon, <3>1 DEF InFlight
    <3>2. ASSUME NEW c \in Calls, CallStep(c)
          PROVE  \A e \in Calls : InFlight(e)' => InFlight(e) \/ Current(RunOf[e])
      BY Zenon, <3>2 DEF CallStep, BeforeSend, Reserve, MayWork, LoseTrack, MarkUnknown, AfterSend,
                  Settle, InFlight, LedgerInv, LedgerTypeOK
    <3> QED BY Zenon, <3>1, <3>2 DEF Control, ActivatePhysical, ledgerVars, vars
  <2>2. \A r \in Runs : Current(r)' <=> Current(r)
    BY Zenon, <1>0 DEF Current, HasChild
  <2> QED BY Zenon, <2>1, <2>2, DispatchAssumption DEF CallsCurrent
<1> QED BY Zenon, <1>2, <1>3, <1>4

-----------------------------------------------------------------------------
(* The invariants.                                                         *)

DispatchInv == SlotInv /\ LedgerInv /\ CallsCurrent

(* DispatchInv is inductive.                                               *)
THEOREM DispatchInvariance == Spec => []DispatchInv
<1>1. Init => DispatchInv
  <2> SUFFICES ASSUME Init PROVE DispatchInv
    BY Zenon
  <2> USE DEF Init, SlotsInit, LedgerInit
  <2>1. SlotsTypeOK /\ LedgerTypeOK
    BY SMTT(30), SlotsAssumption, LedgerAssumption DEF SlotsTypeOK, LedgerTypeOK, NoPlan
  <2>2. AllAgree /\ PlansGrounded /\ AncestryGrounded /\ OneCurrent
    BY Zenon DEF AllAgree, Agrees, PlansGrounded, AncestryGrounded, OneCurrent, Current, Working
  <2>3. PoolsCount
    <3>1. \A p \in Pools : Using(p) = {}
      BY Zenon DEF Using
    <3> QED BY ZenonT(40), <3>1, FS_EmptySet DEF PoolsCount
  <2>4. CallSlotsExact
    <3>1. \A b \in Buckets : Flying(b) = {}
      BY Zenon DEF Flying, InFlight
    <3> QED BY ZenonT(40), <3>1, FS_EmptySet DEF CallSlotsExact, Flying
  <2>5. BoundsKnown /\ CallsCurrent
    BY Zenon DEF BoundsKnown, CallsCurrent, InFlight
  <2>6. CountersWithinLimit
    BY LedgerAssumption DEF CountersWithinLimit
  <2>7. CountersExact
    <3>1. \A b \in Buckets, k \in Kinds : Units(Sent(b), Owed(k)) = {}
      BY Zenon DEF Units, Sent
    <3>2. IsFiniteSet({}) /\ 0 + 0 = Cardinality({})
      <4>1. 0 + 0 = 0
        OBVIOUS
      <4> QED BY Zenon, <4>1, FS_EmptySet
    <3>3. \A b \in Buckets, k \in Kinds : spent[b][k] = 0 /\ reserved[b][k] = 0
      BY Zenon
    <3> QED BY Zenon, <3>1, <3>2, <3>3 DEF CountersExact
  <2> QED BY Zenon, <2>1, <2>2, <2>3, <2>4, <2>5, <2>6, <2>7 DEF DispatchInv, SlotInv, LedgerInv
<1>2. DispatchInv /\ [Next]_vars => DispatchInv'
  <2> SUFFICES ASSUME DispatchInv, [Next]_vars PROVE DispatchInv'
    BY Zenon
  <2> SlotInv /\ LedgerInv /\ CallsCurrent
    BY Zenon DEF DispatchInv
  <2>1. LedgerInv'
    BY Zenon, LedgerKeeps
  <2>2. ASSUME NEW r \in Runs, RunStep(r)
        PROVE  SlotInv' /\ CallsCurrent'
    BY Zenon, <2>2, AcceptKeeps, RefuseKeeps DEF RunStep
  <2>3. SlotInv' /\ CallsCurrent'
    BY Zenon, <2>2, AdmitKeeps, PlanKeeps, CallKeeps DEF Next
  <2> QED BY Zenon, <2>1, <2>3 DEF DispatchInv
<1> QED BY <1>1, <1>2, PTL DEF Spec

(* By the journal or by its lease, the same Runs need a slot.              *)
LEMMA NeedsSlotPhase ==
  ASSUME SlotInv, NEW r \in Runs
  PROVE  NeedsSlot(r) <=> phase[r] \in {"prepared", "held"}
BY Zenon DEF SlotInv, AllAgree, Agrees, NeedsSlot

(* The pools count exactly the Runs that need a slot: no slot leaks and    *)
(* none is given back twice (prepare, accepted, withdraw_unaccepted).      *)
THEOREM SlotsExactTheorem == Spec => []SlotsExact
<1>1. DispatchInv => SlotsExact
  <2> SUFFICES ASSUME DispatchInv, NEW p \in Pools
               PROVE  occupied[p] = Cardinality({r \in Runs : p \in PoolsOf[r] /\ NeedsSlot(r)})
    BY Zenon DEF SlotsExact
  <2>1. Using(p) = {r \in Runs : p \in PoolsOf[r] /\ NeedsSlot(r)}
    BY Zenon, NeedsSlotPhase DEF DispatchInv, Using
  <2> QED BY ZenonT(40), <2>1 DEF DispatchInv, SlotInv, PoolsCount
<1> QED BY <1>1, DispatchInvariance, PTL

(* No two Runs of a work unit need a slot at once, and calls in flight are *)
(* of the one Run that has no replacement (assert_current,                 *)
(* link_replacement, accepted, reserve_in_uow).                            *)
THEOREM OneRunPerUnitTheorem == Spec => []OneRunPerUnit
<1>1. DispatchInv => OneRunPerUnit
  <2> SUFFICES ASSUME DispatchInv PROVE OneRunPerUnit
    BY Zenon
  <2> SlotInv /\ CallsCurrent
    BY Zenon DEF DispatchInv
  <2>1. ASSUME NEW r \in Runs, NeedsSlot(r)
        PROVE  Current(r)
    <3>1. phase[r] \in {"prepared", "held"}
      BY Zenon, <2>1, NeedsSlotPhase
    <3>2. lineage[r] # None
      BY Zenon, <3>1 DEF SlotInv, AllAgree, Agrees
    <3>3. ~HasChild(r)
      BY Zenon, <3>1, SlotsAssumption DEF SlotInv, AncestryGrounded, HasChild
    <3> QED BY Zenon, <3>2, <3>3 DEF Current
  <2> QED BY Zenon, <2>1 DEF SlotInv, OneCurrent, CallsCurrent, OneRunPerUnit
<1> QED BY <1>1, DispatchInvariance, PTL

(* A withdrawn or refused admission never starts (withdraw_unaccepted).    *)
THEOREM WithdrawnNeverStartsTheorem == Spec => []WithdrawnNeverStarts
<1>1. DispatchInv => WithdrawnNeverStarts
  BY Zenon DEF DispatchInv, SlotInv, AllAgree, Agrees, WithdrawnNeverStarts
<1> QED BY <1>1, DispatchInvariance, PTL

(* A planned replacement keeps its ground until it is admitted             *)
(* (replace_attempt, link_replacement).                                    *)
THEOREM PlansStayValidTheorem == Spec => []PlansStayValid
<1>1. DispatchInv => PlansStayValid
  BY Zenon DEF DispatchInv, SlotInv, PlansGrounded, PlansStayValid
<1> QED BY <1>1, DispatchInvariance, PTL

(* What is spent and reserved in a bucket no call overran stays within its *)
(* limit (opencitadel_e05_operation).                                      *)
THEOREM CountersTheorem == Spec => []CountersWithinLimit
<1>1. DispatchInv => CountersWithinLimit
  BY Zenon DEF DispatchInv, LedgerInv
<1> QED BY <1>1, DispatchInvariance, PTL

(* What a bucket has spent and reserved is exactly what its calls have cost *)
(* or may still cost (reserve, unknown, settle).                           *)
THEOREM CountersExactTheorem == Spec => []CountersExact
<1>1. DispatchInv => CountersExact
  BY Zenon DEF DispatchInv, LedgerInv
<1> QED BY <1>1, DispatchInvariance, PTL

(* The receipts and the bounds of the calls of a bucket that no call       *)
(* overran stay within its limit, for any calls, demands and receipts      *)
(* (opencitadel_e05_operation).                                            *)
THEOREM WithinBudgetTheorem == Spec => []WithinBudget
<1>1. DispatchInv => WithinBudget
  <2> SUFFICES ASSUME DispatchInv, NEW b \in Buckets \ breached, NEW k \in DOMAIN Limit[b]
               PROVE  Cardinality(Units(Sent(b), Owed(k))) <= Limit[b][k]
    BY Zenon DEF WithinBudget
  <2>1. k \in Kinds
    BY Zenon, LedgerAssumption
  <2>2. spent[b][k] + reserved[b][k] = Cardinality(Units(Sent(b), Owed(k)))
    BY Zenon, <2>1 DEF DispatchInv, LedgerInv, CountersExact
  <2>3. spent[b][k] + reserved[b][k] <= Limit[b][k]
    BY Zenon DEF DispatchInv, LedgerInv, CountersWithinLimit
  <2> QED BY Zenon, <2>2, <2>3
<1> QED BY <1>1, DispatchInvariance, PTL

(* A slot of a bucket is counted for every call in flight and for nothing  *)
(* else (opencitadel_e05_operation).                                       *)
THEOREM CallSlotsTheorem == Spec => []CallSlotsExact
<1>1. DispatchInv => CallSlotsExact
  BY Zenon DEF DispatchInv, LedgerInv
<1> QED BY <1>1, DispatchInvariance, PTL
=============================================================================
