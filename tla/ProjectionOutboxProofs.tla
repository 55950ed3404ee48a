------------------------- MODULE ProjectionOutboxProofs -------------------------
(***************************************************************************)
(* Machine-checked proofs about the outbox and about the projection that   *)
(* records its notices there.  First the outbox, for any number of rows,   *)
(* any finite number of dispatchers and any number of lapses and failures; *)
(* then the projection of a scope, for any Runs, appenders and projectors  *)
(* and any bounds on positions, batches, faults and recoveries.            *)
(***************************************************************************)
EXTENDS OutboxDelivery, FormalProjection, FiniteSetTheorems, WellFoundedInduction, TLAPS

-----------------------------------------------------------------------------
(* The outbox: the inductive invariant.                                    *)

\* Dispatcher d has a claim on row m that is not dealt with.
Holds(d, m) == m \in DOMAIN claims[d]

\* Claims bear generations of their row, no two of them the same; what is
\* delivered is held and went out; a lapse is one of a claim that was made.
ClaimsDiffer ==
  /\ \A d \in Dispatchers : \A m \in Rows :
       /\ Holds(d, m) => claims[d][m] \in Nat /\ claims[d][m] <= generation[m]
       /\ m \in delivered[d] => Holds(d, m) /\ published[m] > 0
  /\ \A d, e \in Dispatchers : \A m \in Rows :
       Holds(d, m) /\ Holds(e, m) /\ claims[d][m] = claims[e][m] => d = e
  /\ \A m \in Rows : lapsedAt[m] <= generation[m]

\* The claim of d on m is the last one and has not lapsed.
Current(d, m) == claims[d][m] = generation[m] /\ lapsedAt[m] # generation[m]

\* Dispatchers that may still send the row although their claim lapsed.
Belated(m) == {d \in Dispatchers : Holds(d, m) /\ m \notin delivered[d] /\ ~Current(d, m)}

Ended(m) == status[m] \in {"delivered", "purged"}

\* The one sending that needs no explanation: of the row's last claim.
Regular(m) ==
  IF Ended(m) \/ \E d \in Dispatchers : m \in delivered[d] /\ Current(d, m) THEN 1 ELSE 0

\* Every lapse pays for one belated sending, done or still to come.
SendingsPaid ==
  \A m \in Rows :
    published[m] + Cardinality(Belated(m)) <= overruns[m] + unanswered[m] + Regular(m)

EndedWentOut == \A m \in Rows : Ended(m) => published[m] > 0

OutboxInv ==
  OutboxTypeOK /\ ClaimsDiffer /\ LastClaimHolds /\ SendingsPaid /\ EndedWentOut

-----------------------------------------------------------------------------
(* Counting dispatchers: subsets are no larger, and one dispatcher more or *)
(* less counts for one.                                                    *)
LEMMA Counting ==
  ASSUME NEW S \in SUBSET Dispatchers, NEW T \in SUBSET Dispatchers
  PROVE  /\ Cardinality(S) \in Nat /\ Cardinality(T) \in Nat
         /\ T \subseteq S => Cardinality(T) <= Cardinality(S)
         /\ \A d \in Dispatchers :
              /\ T \subseteq S \cup {d} => Cardinality(T) <= Cardinality(S) + 1
              /\ d \in S /\ T \subseteq S \ {d} => Cardinality(T) + 1 <= Cardinality(S)
<1>1. IsFiniteSet(S) /\ IsFiniteSet(T)
  BY Zenon, FS_Subset, OutboxAssumption
<1>2. Cardinality(S) \in Nat /\ Cardinality(T) \in Nat
  BY Zenon, <1>1, FS_CardinalityType
<1>3. T \subseteq S => Cardinality(T) <= Cardinality(S)
  BY Zenon, <1>1, FS_Subset
<1>4. ASSUME NEW d \in Dispatchers, T \subseteq S \cup {d}
      PROVE  Cardinality(T) <= Cardinality(S) + 1
  <2>0. /\ IsFiniteSet(S \cup {d})
        /\ Cardinality(S \cup {d}) = IF d \in S THEN Cardinality(S) ELSE Cardinality(S) + 1
    BY Zenon, <1>1, FS_AddElement, Zenon
  <2>1. IsFiniteSet(S \cup {d}) /\ Cardinality(S \cup {d}) <= Cardinality(S) + 1
    BY <1>2, <2>0
  <2>2. Cardinality(T) <= Cardinality(S \cup {d}) /\ Cardinality(S \cup {d}) \in Nat
    BY Zenon, <1>4, <2>1, FS_Subset, FS_CardinalityType
  <2> QED BY <1>2, <2>1, <2>2
<1>5. ASSUME NEW d \in Dispatchers, d \in S, T \subseteq S \ {d}
      PROVE  Cardinality(T) + 1 <= Cardinality(S)
  <2>0. /\ IsFiniteSet(S \ {d})
        /\ Cardinality(S \ {d}) = IF d \in S THEN Cardinality(S) - 1 ELSE Cardinality(S)
    BY Zenon, <1>1, FS_RemoveElement, Zenon
  <2>1. IsFiniteSet(S \ {d}) /\ Cardinality(S \ {d}) = Cardinality(S) - 1
    BY Zenon, <1>5, <2>0
  <2>2. Cardinality(T) <= Cardinality(S \ {d})
    BY Zenon, <1>5, <2>1, FS_Subset
  <2> QED BY <1>2, <2>1, <2>2
<1> QED BY Zenon, <1>2, <1>3, <1>4, <1>5

(* The quantities SendingsPaid compares are natural numbers.               *)
LEMMA PaidTypes ==
  ASSUME OutboxTypeOK, NEW m \in Rows
  PROVE  /\ published[m] \in Nat /\ overruns[m] \in Nat /\ unanswered[m] \in Nat
         /\ Regular(m) \in {0, 1} /\ Belated(m) \in SUBSET Dispatchers
         /\ Cardinality(Belated(m)) \in Nat
<1>1. Belated(m) \in SUBSET Dispatchers
  BY Zenon DEF Belated
<1>2. Cardinality(Belated(m)) \in Nat
  BY Zenon, <1>1, Counting
<1> QED BY <1>1, <1>2, OutboxAssumption DEF OutboxTypeOK, Regular

(* A row stays paid if nobody becomes belated, its regular sending is not  *)
(* lost, and every message that goes out is put down as unanswered.        *)
LEMMA StaysPaid ==
  ASSUME OutboxInv, OutboxTypeOK', NEW m \in Rows, NEW n \in Nat,
         published'[m] = published[m] + n, unanswered'[m] = unanswered[m] + n,
         overruns'[m] = overruns[m],
         Belated(m)' \subseteq Belated(m), Regular(m) <= Regular(m)'
  PROVE  published'[m] + Cardinality(Belated(m)') <= overruns'[m] + unanswered'[m] + Regular(m)'
<1>1. /\ published[m] \in Nat /\ overruns[m] \in Nat /\ unanswered[m] \in Nat
      /\ Regular(m) \in {0, 1} /\ Belated(m) \in SUBSET Dispatchers
      /\ Cardinality(Belated(m)) \in Nat
  BY Zenon, PaidTypes DEF OutboxInv
<1>2. Regular(m)' \in {0, 1}
  BY Zenon DEF Regular
<1>3. Cardinality(Belated(m)') \in Nat /\ Cardinality(Belated(m)') <= Cardinality(Belated(m))
  BY Zenon, <1>1, Counting
<1>4. published[m] + Cardinality(Belated(m)) <= overruns[m] + unanswered[m] + Regular(m)
  BY Zenon DEF OutboxInv, SendingsPaid
<1> QED BY <1>1, <1>2, <1>3, <1>4

(* Dropping a claim touches no other claim.                                *)
LEMMA DropEffect ==
  ASSUME OutboxTypeOK, NEW d \in Dispatchers, NEW m \in Rows, Drop(d, m)
  PROVE  /\ claims' = [e \in Dispatchers |-> claims'[e]]
         /\ \A e \in Dispatchers :
              DOMAIN claims'[e] \subseteq Rows /\ claims'[e] \in [DOMAIN claims'[e] -> Nat]
         /\ \A e \in Dispatchers, n \in Rows :
              /\ Holds(e, n)' <=> Holds(e, n) /\ ~(e = d /\ n = m)
              /\ Holds(e, n)' => claims'[e][n] = claims[e][n]
<1> DEFINE r == [n \in DOMAIN claims[d] \ {m} |-> claims[d][n]]
<1>1. claims' = [claims EXCEPT ![d] = r]
  BY Zenon DEF Drop, Restrict
<1>2. claims = [e \in Dispatchers |-> claims[e]]
  BY Zenon DEF OutboxTypeOK
<1>3. \A e \in Dispatchers : claims'[e] = IF e = d THEN r ELSE claims[e]
  BY Zenon, <1>1, <1>2
<1>4. claims' = [e \in Dispatchers |-> claims'[e]]
  BY Zenon, <1>1, <1>2
<1>5. DOMAIN r = DOMAIN claims[d] \ {m} /\ \A n \in DOMAIN r : r[n] = claims[d][n]
  BY Zenon
<1>6. DOMAIN r \subseteq Rows /\ r \in [DOMAIN r -> Nat]
  BY Zenon DEF OutboxTypeOK
<1> HIDE DEF r
<1>7. \A e \in Dispatchers :
        DOMAIN claims'[e] \subseteq Rows /\ claims'[e] \in [DOMAIN claims'[e] -> Nat]
  BY Zenon, <1>3, <1>6 DEF OutboxTypeOK
<1>8. \A e \in Dispatchers, n \in Rows :
        /\ Holds(e, n)' <=> Holds(e, n) /\ ~(e = d /\ n = m)
        /\ Holds(e, n)' => claims'[e][n] = claims[e][n]
  BY Zenon, <1>3, <1>5 DEF Holds
<1> QED BY Zenon, <1>4, <1>7, <1>8

-----------------------------------------------------------------------------
(* The row is written, its pause ends, it is purged: no claim is touched.  *)
LEMMA RowKeeps ==
  ASSUME OutboxInv, NEW m \in Rows, WriteRow(m) \/ RetryTimePasses(m) \/ PurgeCompleted(m)
  PROVE  OutboxInv'
<1> USE DEF history, lapseVars
<1> OutboxTypeOK /\ ClaimsDiffer /\ LastClaimHolds /\ SendingsPaid /\ EndedWentOut
  BY Zenon DEF OutboxInv
<1>1. UNCHANGED <<generation, leased, claims, delivered, published, overruns, lapsedAt,
                  unanswered, failures>>
  BY Zenon DEF WriteRow, RetryTimePasses, PurgeCompleted
<1>2. /\ status' \in [Rows -> {"unwritten", "undelivered", "delivered", "purged"}]
      /\ \A n \in Rows :
           /\ status'[n] \in {"delivered", "purged"} <=> status[n] \in {"delivered", "purged"}
           /\ status[n] = "undelivered" => status'[n] = "undelivered"
  <2>1. status \in [Rows -> {"unwritten", "undelivered", "delivered", "purged"}]
    BY Zenon DEF OutboxTypeOK
  <2>2. CASE WriteRow(m)
    BY Zenon, <2>1, <2>2 DEF WriteRow
  <2>3. CASE RetryTimePasses(m)
    BY Zenon, <2>1, <2>3 DEF RetryTimePasses
  <2>4. CASE PurgeCompleted(m)
    BY Zenon, <2>1, <2>4 DEF PurgeCompleted
  <2> QED BY Zenon, <2>2, <2>3, <2>4
<1>3. available' \in [Rows -> BOOLEAN]
  <2>1. CASE RetryTimePasses(m)
    BY Zenon, <2>1, Zenon DEF RetryTimePasses, OutboxTypeOK
  <2>2. CASE UNCHANGED available
    BY Zenon, <2>2 DEF OutboxTypeOK
  <2> QED BY Zenon, <2>1, <2>2 DEF WriteRow, RetryTimePasses, PurgeCompleted
<1>4. OutboxTypeOK'
  BY Zenon, <1>1, <1>2, <1>3 DEF OutboxTypeOK
<1>5. ClaimsDiffer' /\ LastClaimHolds'
  <2>1. ClaimsDiffer'
    BY Zenon, <1>1 DEF ClaimsDiffer, Holds
  <2>2. \A d \in Dispatchers : DOMAIN claims[d] \subseteq Rows
    BY Zenon DEF OutboxTypeOK
  <2>3. LastClaimHolds'
    BY Zenon, <1>1, <1>2, <2>2 DEF LastClaimHolds
  <2> QED BY Zenon, <2>1, <2>3
<1>6. SendingsPaid'
  <2> SUFFICES ASSUME NEW n \in Rows
               PROVE  published'[n] + Cardinality(Belated(n)')
                        <= overruns'[n] + unanswered'[n] + Regular(n)'
    BY Zenon DEF SendingsPaid
  <2>1. Belated(n)' = Belated(n) /\ Regular(n)' = Regular(n)
    BY Zenon, <1>1, <1>2 DEF Belated, Regular, Holds, Current, Ended
  <2> QED BY Zenon, <1>1, <2>1 DEF SendingsPaid
<1>7. EndedWentOut'
  BY Zenon, <1>1, <1>2 DEF EndedWentOut, Ended
<1> QED BY Zenon, <1>4, <1>5, <1>6, <1>7 DEF OutboxInv

(* A new claim: whoever held the row before has lapsed, so it was belated  *)
(* already (claim_batch).                                                  *)
LEMMA ClaimKeeps ==
  ASSUME OutboxInv, NEW d \in Dispatchers, NEW taken \in SUBSET Rows, ClaimBatch(d, taken)
  PROVE  OutboxInv'
<1> USE DEF history, lapseVars
<1> OutboxTypeOK /\ ClaimsDiffer /\ LastClaimHolds /\ SendingsPaid /\ EndedWentOut
  BY Zenon DEF OutboxInv
<1> DEFINE c == [m \in taken |-> generation[m] + 1]
<1>1. /\ generation' = [m \in Rows |-> generation[m] + IF m \in taken THEN 1 ELSE 0]
      /\ claims' = [claims EXCEPT ![d] = c]
      /\ DOMAIN claims[d] = {} /\ delivered[d] = {}
      /\ UNCHANGED <<status, available, delivered, published, overruns, lapsedAt, unanswered,
                     failures>>
  BY Zenon DEF ClaimBatch
<1>2. \A m \in Rows : /\ m \in taken => status[m] = "undelivered" /\ leased[m] = FALSE
                      /\ leased'[m] = (leased[m] \/ m \in taken)
  BY Zenon DEF ClaimBatch, Claimable, OutboxTypeOK
<1>3. leased' \in [Rows -> BOOLEAN]
  BY Zenon DEF ClaimBatch, OutboxTypeOK
<1>4. \A m \in Rows : generation'[m] = generation[m] + IF m \in taken THEN 1 ELSE 0
  BY Zenon, <1>1
<1>5. DOMAIN c = taken /\ c \in [taken -> Nat] /\ \A m \in taken : c[m] = generation'[m]
  BY <1>4 DEF OutboxTypeOK
<1> HIDE DEF c
<1>6. \A e \in Dispatchers : claims'[e] = IF e = d THEN c ELSE claims[e]
  BY Zenon, <1>1 DEF OutboxTypeOK
<1>7. OutboxTypeOK'
  <2>1. claims' = [e \in Dispatchers |-> claims'[e]]
    BY Zenon, <1>1 DEF OutboxTypeOK
  <2>2. \A e \in Dispatchers :
          DOMAIN claims'[e] \subseteq Rows /\ claims'[e] \in [DOMAIN claims'[e] -> Nat]
    BY Zenon, <1>5, <1>6 DEF OutboxTypeOK
  <2>3. generation' \in [Rows -> Nat]
    BY <1>1 DEF OutboxTypeOK
  <2> QED BY Zenon, <1>1, <1>3, <2>1, <2>2, <2>3 DEF OutboxTypeOK
<1>8. \A e \in Dispatchers, m \in Rows :
        /\ e # d => (Holds(e, m)' <=> Holds(e, m)) /\ claims'[e][m] = claims[e][m]
        /\ Holds(d, m)' <=> m \in taken
        /\ m \in taken => claims'[d][m] = generation'[m]
        /\ ~Holds(d, m) /\ m \notin delivered[d]
  BY Zenon, <1>1, <1>5, <1>6 DEF Holds
<1>9. ClaimsDiffer'
  <2>1. \A m \in Rows : generation[m] \in Nat /\ lapsedAt[m] \in Nat
    BY Zenon DEF OutboxTypeOK
  <2> QED BY <1>1, <1>4, <1>8, <2>1 DEF ClaimsDiffer
<1>10. ASSUME NEW e \in Dispatchers, NEW m \in Rows, e # d, Holds(e, m)
       PROVE  Current(e, m)' <=> Current(e, m)
  <2>1. CASE m \in taken
    <3>1. ~Current(e, m)
      BY Zenon, <1>2, <1>10, <2>1 DEF LastClaimHolds, Current, Holds
    <3>2. claims[e][m] \in Nat /\ claims[e][m] <= generation[m] /\ generation[m] \in Nat
      BY Zenon, <1>10 DEF ClaimsDiffer, OutboxTypeOK
    <3> QED BY <1>4, <1>8, <1>10, <2>1, <3>1, <3>2 DEF Current
  <2>2. CASE m \notin taken
    <3>1. generation'[m] = generation[m]
      BY <1>4, <2>2 DEF OutboxTypeOK
    <3> QED BY Zenon, <1>1, <1>8, <1>10, <3>1 DEF Current
  <2> QED BY Zenon, <2>1, <2>2
<1>11. LastClaimHolds'
  <2> SUFFICES ASSUME NEW e \in Dispatchers, NEW m \in Rows, Holds(e, m)', Current(e, m)'
               PROVE  leased'[m] /\ status'[m] = "undelivered"
    BY Zenon, <1>7 DEF LastClaimHolds, Holds, Current, OutboxTypeOK
  <2>1. CASE e = d
    BY ZenonT(40), <1>1, <1>2, <1>8, <2>1
  <2>2. CASE e # d
    BY ZenonT(40), <1>1, <1>2, <1>8, <1>10, <2>2 DEF LastClaimHolds, Holds, Current
  <2> QED BY Zenon, <2>1, <2>2
<1>12. SendingsPaid'
  <2> SUFFICES ASSUME NEW m \in Rows
               PROVE  published'[m] + Cardinality(Belated(m)')
                        <= overruns'[m] + unanswered'[m] + Regular(m)'
    BY Zenon DEF SendingsPaid
  <2>1. m \in taken => Current(d, m)'
    <3>1. generation[m] \in Nat /\ lapsedAt[m] \in Nat /\ lapsedAt[m] <= generation[m]
      BY Zenon DEF OutboxTypeOK, ClaimsDiffer
    <3> QED BY <1>1, <1>4, <1>8, <3>1 DEF Current
  <2>2. Belated(m)' \subseteq Belated(m)
    BY Zenon, <1>1, <1>8, <1>10, <2>1 DEF Belated
  <2>3. \A e \in Dispatchers : m \in delivered[e] => (Current(e, m)' <=> Current(e, m))
    BY Zenon, <1>8, <1>10 DEF ClaimsDiffer
  <2>4. Regular(m)' = Regular(m)
    BY Zenon, <1>1, <2>3 DEF Regular, Ended
  <2>5. 0 \in Nat /\ published'[m] = published[m] + 0 /\ unanswered'[m] = unanswered[m] + 0
        /\ overruns'[m] = overruns[m] /\ Regular(m) <= Regular(m)'
    BY <1>1, <2>4, PaidTypes
  <2> QED BY Zenon, <1>7, <2>2, <2>5, StaysPaid
<1>13. EndedWentOut'
  BY Zenon, <1>1 DEF EndedWentOut, Ended
<1> QED BY Zenon, <1>7, <1>9, <1>11, <1>12, <1>13 DEF OutboxInv

(* A delivery is either belated, and then paid for by a lapse, or the      *)
(* regular one of the last claim (_deliver).                               *)
LEMMA DeliverKeeps ==
  ASSUME OutboxInv, NEW d \in Dispatchers, NEW m \in Rows, Deliver(d, m)
  PROVE  OutboxInv'
<1> USE DEF rowVars, lapseVars
<1> OutboxTypeOK /\ ClaimsDiffer /\ LastClaimHolds /\ SendingsPaid /\ EndedWentOut
  BY Zenon DEF OutboxInv
<1>1. /\ Holds(d, m) /\ delivered[d] = {}
      /\ published' = [published EXCEPT ![m] = @ + 1]
      /\ delivered' = [delivered EXCEPT ![d] = {m}]
      /\ UNCHANGED <<status, generation, leased, available, claims, overruns, lapsedAt,
                     unanswered, failures>>
  BY Zenon DEF Deliver, Holds
<1>2. \A n \in Rows : published[n] \in Nat /\ published'[n] = published[n] + IF n = m THEN 1 ELSE 0
  BY <1>1 DEF OutboxTypeOK
<1>3. \A e \in Dispatchers : delivered'[e] = IF e = d THEN {m} ELSE delivered[e]
  BY Zenon, <1>1 DEF OutboxTypeOK
<1>4. OutboxTypeOK'
  BY <1>1 DEF OutboxTypeOK
<1>5. \A e \in Dispatchers, n \in Rows :
        (Holds(e, n)' <=> Holds(e, n)) /\ (Current(e, n)' <=> Current(e, n))
  BY Zenon, <1>1 DEF Holds, Current
<1>6. ClaimsDiffer'
  <2>1. \A e \in Dispatchers, n \in Rows : n \in delivered'[e] => Holds(e, n) /\ published'[n] > 0
    <3> SUFFICES ASSUME NEW e \in Dispatchers, NEW n \in Rows, n \in delivered'[e]
                 PROVE  Holds(e, n) /\ published'[n] > 0
      BY Zenon
    <3>1. CASE e = d
      BY <1>1, <1>2, <1>3, <3>1
    <3>2. CASE e # d
      BY <1>2, <1>3, <3>2 DEF ClaimsDiffer
    <3> QED BY Zenon, <3>1, <3>2
  <2> QED BY Zenon, <1>1, <2>1 DEF ClaimsDiffer, Holds
<1>7. LastClaimHolds'
  BY Zenon, <1>1 DEF LastClaimHolds
<1>8. SendingsPaid'
  <2> SUFFICES ASSUME NEW n \in Rows
               PROVE  published'[n] + Cardinality(Belated(n)')
                        <= overruns'[n] + unanswered'[n] + Regular(n)'
    BY Zenon DEF SendingsPaid
  <2>1. /\ published[n] \in Nat /\ overruns[n] \in Nat /\ unanswered[n] \in Nat
        /\ Regular(n) \in {0, 1} /\ Belated(n) \in SUBSET Dispatchers
        /\ Cardinality(Belated(n)) \in Nat
    BY Zenon, PaidTypes
  <2>2. Belated(n)' \in SUBSET Dispatchers /\ Regular(n)' \in {0, 1}
    BY Zenon DEF Belated, Regular
  <2>3. Belated(n)' \subseteq Belated(n) /\ (n = m => d \notin Belated(n)')
    BY <1>3, <1>1, <1>5 DEF Belated
  <2>4. published[n] + Cardinality(Belated(n)) <= overruns[n] + unanswered[n] + Regular(n)
    BY Zenon DEF SendingsPaid
  <2>5. Cardinality(Belated(n)') \in Nat /\ Cardinality(Belated(n)') <= Cardinality(Belated(n))
    BY Zenon, <2>1, <2>2, <2>3, Counting
  <2>6. Regular(n)' >= Regular(n)
    <3>1. \A e \in Dispatchers : n \in delivered[e] => n \in delivered'[e]
      BY Zenon, <1>1, <1>3
    <3> QED BY <1>1, <1>5, <3>1 DEF Regular, Ended
  <2>7. CASE n # m
    BY <1>1, <1>2, <2>1, <2>2, <2>4, <2>5, <2>6, <2>7
  <2>8. CASE n = m /\ ~Current(d, m)
    <3>1. d \in Belated(n)
      BY Zenon, <1>1, <2>8 DEF Belated
    <3>2. Cardinality(Belated(n)') + 1 <= Cardinality(Belated(n))
      <4>1. Belated(n)' \subseteq Belated(n) \ {d}
        BY Zenon, <2>3, <2>8
      <4> QED BY Zenon, <2>1, <2>2, <3>1, <4>1, Counting
    <3> QED BY <1>1, <1>2, <2>1, <2>2, <2>4, <2>5, <2>6, <2>8, <3>2
  <2>9. CASE n = m /\ Current(d, m)
    <3>1. ~Ended(m)
      BY Zenon, <1>1, <2>9 DEF LastClaimHolds, Holds, Current, Ended
    <3>2. \A e \in Dispatchers : m \in delivered[e] => ~Current(e, m)
      <4> SUFFICES ASSUME NEW e \in Dispatchers, m \in delivered[e], Current(e, m)
                   PROVE  FALSE
        BY Zenon
      <4>1. Holds(e, m) /\ claims[e][m] = claims[d][m]
        BY Zenon, <2>9 DEF ClaimsDiffer, Current
      <4>2. e = d
        BY Zenon, <1>1, <4>1 DEF ClaimsDiffer
      <4> QED BY Zenon, <1>1, <4>2
    <3>3. Regular(n) = 0
      BY Zenon, <2>9, <3>1, <3>2 DEF Regular
    <3>4. Current(d, m)' /\ m \in delivered'[d]
      BY Zenon, <1>3, <1>5, <2>9
    <3>5. Regular(n)' = 1
      BY Zenon, <2>9, <3>4 DEF Regular
    <3> QED BY <1>1, <1>2, <2>1, <2>4, <2>5, <2>9, <3>3, <3>5
  <2> QED BY Zenon, <2>7, <2>8, <2>9
<1>9. EndedWentOut'
  BY <1>1, <1>2 DEF EndedWentOut, Ended
<1> QED BY Zenon, <1>4, <1>6, <1>7, <1>8, <1>9 DEF OutboxInv

(* An acknowledgement settles the row only for its last claim, and a claim *)
(* that finds the row taken over was belated (mark_delivered).             *)
LEMMA MarkKeeps ==
  ASSUME OutboxInv, NEW d \in Dispatchers, NEW m \in Rows, MarkDelivered(d, m)
  PROVE  OutboxInv'
<1> USE DEF history, lapseVars
<1> OutboxTypeOK /\ ClaimsDiffer /\ LastClaimHolds /\ SendingsPaid /\ EndedWentOut
  BY Zenon DEF OutboxInv
<1>1. /\ delivered[d] = {m} /\ Drop(d, m)
      /\ delivered' = [delivered EXCEPT ![d] = {}]
      /\ UNCHANGED <<generation, available, published, overruns, lapsedAt, unanswered, failures>>
  BY Zenon DEF MarkDelivered
<1>2. Holds(d, m) /\ published[m] > 0
  BY Zenon, <1>1 DEF ClaimsDiffer
<1>3. /\ claims' = [e \in Dispatchers |-> claims'[e]]
      /\ \A e \in Dispatchers :
           DOMAIN claims'[e] \subseteq Rows /\ claims'[e] \in [DOMAIN claims'[e] -> Nat]
      /\ \A e \in Dispatchers, n \in Rows :
           /\ Holds(e, n)' <=> Holds(e, n) /\ ~(e = d /\ n = m)
           /\ Holds(e, n)' => claims'[e][n] = claims[e][n]
  BY Zenon, <1>1, DropEffect
<1>4. \A e \in Dispatchers : delivered'[e] = IF e = d THEN {} ELSE delivered[e]
  BY Zenon, <1>1 DEF OutboxTypeOK
<1>5. /\ status' \in [Rows -> {"unwritten", "undelivered", "delivered", "purged"}]
      /\ leased' \in [Rows -> BOOLEAN]
      /\ \A n \in Rows :
           \/ status'[n] = status[n] /\ leased'[n] = leased[n]
           \/ n = m /\ Owns(d, m) /\ status'[n] = "delivered"
      /\ Owns(d, m) => status'[m] = "delivered"
  <2>1. CASE Owns(d, m)
    <3>1. status' = [status EXCEPT ![m] = "delivered"] /\ leased' = [leased EXCEPT ![m] = FALSE]
      BY Zenon, <2>1 DEF MarkDelivered
    <3>2. leased' \in [Rows -> BOOLEAN]
      BY Zenon, <3>1, Zenon DEF OutboxTypeOK
    <3> QED BY ZenonT(40), <2>1, <3>1, <3>2 DEF OutboxTypeOK
  <2>2. CASE ~Owns(d, m)
    BY Zenon, <2>2 DEF MarkDelivered, OutboxTypeOK
  <2> QED BY Zenon, <2>1, <2>2
<1>6. OutboxTypeOK'
  BY ZenonT(40), <1>1, <1>3, <1>5 DEF OutboxTypeOK
<1>7. \A e \in Dispatchers, n \in Rows :
        Holds(e, n)' => Holds(e, n) /\ (Current(e, n)' <=> Current(e, n))
  BY Zenon, <1>1, <1>3 DEF Current
<1>8. ClaimsDiffer'
  BY <1>1, <1>3, <1>4 DEF ClaimsDiffer
<1>9. LastClaimHolds'
  <2> SUFFICES ASSUME NEW e \in Dispatchers, NEW n \in Rows, Holds(e, n)', Current(e, n)'
               PROVE  leased'[n] /\ status'[n] = "undelivered"
    BY Zenon, <1>6 DEF LastClaimHolds, Holds, Current, OutboxTypeOK
  <2>1. Holds(e, n) /\ Current(e, n) /\ ~(e = d /\ n = m)
    BY Zenon, <1>3, <1>7
  <2>2. leased[n] /\ status[n] = "undelivered"
    BY Zenon, <2>1 DEF LastClaimHolds, Holds, Current
  <2>3. ~(n = m /\ Owns(d, m))
    BY Zenon, <1>2, <2>1 DEF ClaimsDiffer, Current, Owns
  <2> QED BY Zenon, <1>5, <2>2, <2>3
<1>10. SendingsPaid'
  <2> SUFFICES ASSUME NEW n \in Rows
               PROVE  published'[n] + Cardinality(Belated(n)')
                        <= overruns'[n] + unanswered'[n] + Regular(n)'
    BY Zenon DEF SendingsPaid
  <2>1. Belated(n)' \subseteq Belated(n)
    <3> SUFFICES ASSUME NEW e \in Belated(n)'
                 PROVE  e \in Belated(n)
      BY Zenon
    <3>1. e \in Dispatchers /\ Holds(e, n)' /\ n \notin delivered'[e] /\ ~Current(e, n)'
      BY Zenon DEF Belated
    <3>2. Holds(e, n) /\ ~Current(e, n) /\ ~(e = d /\ n = m)
      BY Zenon, <1>3, <1>7, <3>1
    <3>3. n \notin delivered[e]
      BY Zenon, <1>1, <1>4, <3>1, <3>2
    <3> QED BY Zenon, <3>1, <3>2, <3>3 DEF Belated
  <2>2. Regular(n) <= Regular(n)'
    <3>1. Ended(n) => Ended(n)'
      BY Zenon, <1>5 DEF Ended
    <3>2. ASSUME NEW e \in Dispatchers, n \in delivered[e], Current(e, n)
          PROVE  Ended(n)' \/ (n \in delivered'[e] /\ Current(e, n)')
      <4>1. CASE e = d
        <5>1. n = m /\ Owns(d, m)
          BY Zenon, <1>1, <1>2, <3>2, <4>1 DEF LastClaimHolds, Current, Holds, Owns
        <5> QED BY Zenon, <1>5, <5>1 DEF Ended
      <4>2. CASE e # d
        BY Zenon, <1>3, <1>4, <1>7, <3>2, <4>2 DEF ClaimsDiffer
      <4> QED BY Zenon, <4>1, <4>2
    <3> QED BY <3>1, <3>2 DEF Regular
  <2>3. 0 \in Nat /\ published'[n] = published[n] + 0 /\ unanswered'[n] = unanswered[n] + 0
        /\ overruns'[n] = overruns[n]
    BY <1>1, PaidTypes
  <2> QED BY Zenon, <1>6, <2>1, <2>2, <2>3, StaysPaid
<1>11. EndedWentOut'
  BY Zenon, <1>1, <1>2, <1>5 DEF EndedWentOut, Ended
<1> QED BY Zenon, <1>6, <1>8, <1>9, <1>10, <1>11 DEF OutboxInv

(* A delivery that fails puts down what may have gone out as unanswered,   *)
(* and opens the row again only for its last claim (mark_failed).          *)
LEMMA FailureKeeps ==
  ASSUME OutboxInv, NEW d \in Dispatchers, NEW m \in Rows, NEW sent \in BOOLEAN,
         DeliveryFails(d, m, sent)
  PROVE  OutboxInv'
<1> USE DEF lapseVars
<1> OutboxTypeOK /\ ClaimsDiffer /\ LastClaimHolds /\ SendingsPaid /\ EndedWentOut
  BY Zenon DEF OutboxInv
<1> DEFINE s == IF sent THEN 1 ELSE 0
<1>1. /\ Holds(d, m) /\ delivered[d] = {} /\ Drop(d, m)
      /\ published' = [published EXCEPT ![m] = @ + s]
      /\ unanswered' = [unanswered EXCEPT ![m] = @ + s]
      /\ failures' = failures + 1 /\ failures < MaxFailures
      /\ UNCHANGED <<status, generation, delivered, overruns, lapsedAt>>
  BY Zenon DEF DeliveryFails, Holds
<1>2. s \in Nat
  BY Zenon
<1> HIDE DEF s
<1>3. /\ claims' = [e \in Dispatchers |-> claims'[e]]
      /\ \A e \in Dispatchers :
           DOMAIN claims'[e] \subseteq Rows /\ claims'[e] \in [DOMAIN claims'[e] -> Nat]
      /\ \A e \in Dispatchers, n \in Rows :
           /\ Holds(e, n)' <=> Holds(e, n) /\ ~(e = d /\ n = m)
           /\ Holds(e, n)' => claims'[e][n] = claims[e][n]
  BY Zenon, <1>1, DropEffect
<1>4. \A n \in Rows : /\ published[n] \in Nat /\ unanswered[n] \in Nat
                      /\ published'[n] = published[n] + IF n = m THEN s ELSE 0
                      /\ unanswered'[n] = unanswered[n] + IF n = m THEN s ELSE 0
  BY <1>1, <1>2 DEF OutboxTypeOK
<1>5. /\ leased' \in [Rows -> BOOLEAN] /\ available' \in [Rows -> BOOLEAN]
      /\ \A n \in Rows : leased'[n] = leased[n] \/ (n = m /\ Owns(d, m))
  <2>1. CASE Owns(d, m)
    <3>1. leased' = [leased EXCEPT ![m] = FALSE] /\ available' = [available EXCEPT ![m] = FALSE]
      BY Zenon, <2>1 DEF DeliveryFails
    <3>2. leased' \in [Rows -> BOOLEAN] /\ available' \in [Rows -> BOOLEAN]
      BY Zenon, <3>1, Zenon DEF OutboxTypeOK
    <3> QED BY ZenonT(40), <2>1, <3>1, <3>2 DEF OutboxTypeOK
  <2>2. CASE ~Owns(d, m)
    BY Zenon, <2>2 DEF DeliveryFails, OutboxTypeOK
  <2> QED BY Zenon, <2>1, <2>2
<1>6. OutboxTypeOK'
  <2>1. published' \in [Rows -> Nat] /\ unanswered' \in [Rows -> Nat]
    BY <1>1, <1>2 DEF OutboxTypeOK
  <2>2. failures' \in 0..MaxFailures
    BY <1>1, OutboxAssumption DEF OutboxTypeOK
  <2> QED BY Zenon, <1>1, <1>3, <1>5, <2>1, <2>2 DEF OutboxTypeOK
<1>7. \A e \in Dispatchers, n \in Rows :
        Holds(e, n)' => Holds(e, n) /\ (Current(e, n)' <=> Current(e, n))
  BY Zenon, <1>1, <1>3 DEF Current
<1>8. ClaimsDiffer'
  BY SMTT(30), <1>1, <1>2, <1>3, <1>4 DEF ClaimsDiffer
<1>9. LastClaimHolds'
  <2> SUFFICES ASSUME NEW e \in Dispatchers, NEW n \in Rows, Holds(e, n)', Current(e, n)'
               PROVE  leased'[n] /\ status'[n] = "undelivered"
    BY Zenon, <1>6 DEF LastClaimHolds, Holds, Current, OutboxTypeOK
  <2>1. Holds(e, n) /\ Current(e, n) /\ ~(e = d /\ n = m)
    BY Zenon, <1>3, <1>7
  <2>2. leased[n] /\ status[n] = "undelivered"
    BY Zenon, <2>1 DEF LastClaimHolds, Holds, Current
  <2>3. ~(n = m /\ Owns(d, m))
    BY Zenon, <1>1, <2>1 DEF ClaimsDiffer, Current, Owns
  <2> QED BY Zenon, <1>1, <1>5, <2>2, <2>3
<1>10. SendingsPaid'
  <2> SUFFICES ASSUME NEW n \in Rows
               PROVE  published'[n] + Cardinality(Belated(n)')
                        <= overruns'[n] + unanswered'[n] + Regular(n)'
    BY Zenon DEF SendingsPaid
  <2>1. Belated(n)' \subseteq Belated(n)
    BY Zenon, <1>1, <1>7 DEF Belated
  <2>2. Regular(n)' = Regular(n)
    <3>1. \A e \in Dispatchers : n \in delivered[e] => (Current(e, n)' <=> Current(e, n))
      BY Zenon, <1>1, <1>3, <1>7 DEF ClaimsDiffer
    <3> QED BY Zenon, <1>1, <3>1 DEF Regular, Ended
  <2>3. PICK k \in Nat : published'[n] = published[n] + k /\ unanswered'[n] = unanswered[n] + k
    BY Zenon, <1>2, <1>4
  <2>4. overruns'[n] = overruns[n] /\ Regular(n) <= Regular(n)'
    BY <1>1, <2>2, PaidTypes
  <2> QED BY Zenon, <1>6, <2>1, <2>3, <2>4, StaysPaid
<1>11. EndedWentOut'
  BY <1>1, <1>2, <1>4 DEF EndedWentOut, Ended
<1> QED BY Zenon, <1>6, <1>8, <1>9, <1>10, <1>11 DEF OutboxInv

(* A batch that is abandoned leaves at most one message unanswered, and it *)
(* is put down as such (a crash, or an acknowledgement that raises).       *)
LEMMA AbandonKeeps ==
  ASSUME OutboxInv, NEW d \in Dispatchers, AbandonBatch(d)
  PROVE  OutboxInv'
<1> USE DEF rowVars, lapseVars
<1> OutboxTypeOK /\ ClaimsDiffer /\ LastClaimHolds /\ SendingsPaid /\ EndedWentOut
  BY Zenon DEF OutboxInv
<1>1. /\ claims' = [claims EXCEPT ![d] = NoClaims]
      /\ delivered' = [delivered EXCEPT ![d] = {}]
      /\ unanswered' = [m \in Rows |-> unanswered[m] + IF m \in delivered[d] THEN 1 ELSE 0]
      /\ failures' = failures + 1 /\ failures < MaxFailures
      /\ UNCHANGED <<status, generation, leased, available, published, overruns, lapsedAt>>
  BY Zenon DEF AbandonBatch
<1>2. DOMAIN NoClaims = {} /\ NoClaims \in [{} -> Nat]
  BY Zenon DEF NoClaims
<1>3. \A e \in Dispatchers : /\ claims'[e] = IF e = d THEN NoClaims ELSE claims[e]
                             /\ delivered'[e] = IF e = d THEN {} ELSE delivered[e]
  BY Zenon, <1>1 DEF OutboxTypeOK
<1>4. OutboxTypeOK'
  <2>1. claims' = [e \in Dispatchers |-> claims'[e]]
    BY Zenon, <1>1 DEF OutboxTypeOK
  <2>2. \A e \in Dispatchers :
          DOMAIN claims'[e] \subseteq Rows /\ claims'[e] \in [DOMAIN claims'[e] -> Nat]
    BY ZenonT(40), <1>2, <1>3 DEF OutboxTypeOK
  <2>3. delivered' \in [Dispatchers -> SUBSET Rows] /\ unanswered' \in [Rows -> Nat]
    BY <1>1 DEF OutboxTypeOK
  <2>4. failures' \in 0..MaxFailures
    BY <1>1, OutboxAssumption DEF OutboxTypeOK
  <2> QED BY Zenon, <1>1, <2>1, <2>2, <2>3, <2>4 DEF OutboxTypeOK
<1>5. \A e \in Dispatchers, n \in Rows :
        /\ Holds(e, n)' <=> Holds(e, n) /\ e # d
        /\ Holds(e, n)' => claims'[e][n] = claims[e][n] /\ (Current(e, n)' <=> Current(e, n))
  BY Zenon, <1>1, <1>2, <1>3 DEF Holds, Current
<1>6. ClaimsDiffer'
  BY <1>1, <1>3, <1>5 DEF ClaimsDiffer
<1>7. LastClaimHolds'
  <2> SUFFICES ASSUME NEW e \in Dispatchers, NEW n \in Rows, Holds(e, n)', Current(e, n)'
               PROVE  leased'[n] /\ status'[n] = "undelivered"
    BY Zenon, <1>4 DEF LastClaimHolds, Holds, Current, OutboxTypeOK
  <2>1. Holds(e, n) /\ Current(e, n)
    BY Zenon, <1>5
  <2> QED BY Zenon, <1>1, <2>1 DEF LastClaimHolds, Holds, Current
<1>8. SendingsPaid'
  <2> SUFFICES ASSUME NEW n \in Rows
               PROVE  published'[n] + Cardinality(Belated(n)')
                        <= overruns'[n] + unanswered'[n] + Regular(n)'
    BY Zenon DEF SendingsPaid
  <2>1. /\ published[n] \in Nat /\ overruns[n] \in Nat /\ unanswered[n] \in Nat
        /\ Regular(n) \in {0, 1} /\ Belated(n) \in SUBSET Dispatchers
        /\ Cardinality(Belated(n)) \in Nat
    BY Zenon, PaidTypes
  <2>2. Belated(n)' \subseteq Belated(n) /\ Belated(n)' \in SUBSET Dispatchers
    BY Zenon, <1>3, <1>5 DEF Belated
  <2>3. Cardinality(Belated(n)') \in Nat /\ Cardinality(Belated(n)') <= Cardinality(Belated(n))
    BY Zenon, <2>1, <2>2, Counting
  <2>4. Regular(n)' \in {0, 1} /\ (n \notin delivered[d] => Regular(n)' = Regular(n))
    <3>1. \A e \in Dispatchers : n \in delivered[e] /\ e # d =>
            n \in delivered'[e] /\ (Current(e, n)' <=> Current(e, n))
      BY Zenon, <1>3, <1>5 DEF ClaimsDiffer
    <3>2. \A e \in Dispatchers : n \in delivered'[e] => n \in delivered[e] /\ e # d
      BY Zenon, <1>3
    <3> QED BY Zenon, <1>1, <3>1, <3>2 DEF Regular, Ended
  <2>5. published[n] + Cardinality(Belated(n)) <= overruns[n] + unanswered[n] + Regular(n)
    BY Zenon DEF SendingsPaid
  <2>6. unanswered'[n] = unanswered[n] + IF n \in delivered[d] THEN 1 ELSE 0
    BY Zenon, <1>1
  <2> QED BY <1>1, <2>1, <2>3, <2>4, <2>5, <2>6
<1>9. EndedWentOut'
  BY Zenon, <1>1 DEF EndedWentOut, Ended
<1> QED BY Zenon, <1>4, <1>6, <1>7, <1>8, <1>9 DEF OutboxInv

(* A lapse under its holder makes that claim belated or its sending an     *)
(* irregular one, and pays for it; nobody else is concerned.               *)
LEMMA LapseKeeps ==
  ASSUME OutboxInv, NEW m \in Rows, ClaimLapses(m)
  PROVE  OutboxInv'
<1> USE DEF lapseVars
<1> OutboxTypeOK /\ ClaimsDiffer /\ LastClaimHolds /\ SendingsPaid /\ EndedWentOut
  BY Zenon DEF OutboxInv
<1>1. /\ leased' = [leased EXCEPT ![m] = FALSE]
      /\ UNCHANGED <<status, generation, available, claims, delivered, published, unanswered,
                     failures>>
  BY Zenon DEF ClaimLapses
<1>2. leased' \in [Rows -> BOOLEAN]
  BY Zenon, <1>1, Zenon DEF OutboxTypeOK
<1>3. \A n \in Rows : n # m => leased'[n] = leased[n]
  BY Zenon, <1>1 DEF OutboxTypeOK
<1>4. EndedWentOut'
  BY Zenon, <1>1 DEF EndedWentOut, Ended
<1>5. CASE Abandoned(m)
  <2>1. UNCHANGED <<overruns, lapsedAt>>
    BY Zenon, <1>5 DEF ClaimLapses
  <2>2. OutboxTypeOK'
    BY Zenon, <1>1, <1>2, <2>1 DEF OutboxTypeOK
  <2>3. ClaimsDiffer'
    BY Zenon, <1>1, <2>1 DEF ClaimsDiffer, Holds
  <2>4. LastClaimHolds'
    <3> SUFFICES ASSUME NEW e \in Dispatchers, NEW n \in Rows, Holds(e, n), Current(e, n)
                 PROVE  leased'[n] /\ status'[n] = "undelivered"
      BY Zenon, <1>1, <2>1 DEF LastClaimHolds, Holds, Current, OutboxTypeOK
    <3>1. leased[n] /\ status[n] = "undelivered"
      BY Zenon DEF LastClaimHolds, Holds, Current
    <3>2. n # m
      BY Zenon, <1>5 DEF Abandoned, Holds, Current
    <3> QED BY Zenon, <1>1, <1>3, <3>1, <3>2
  <2>5. SendingsPaid'
    BY Zenon, <1>1, <2>1 DEF SendingsPaid, Belated, Regular, Holds, Current, Ended
  <2> QED BY Zenon, <1>4, <2>2, <2>3, <2>4, <2>5 DEF OutboxInv
<1>6. CASE ~Abandoned(m)
  <2>1. /\ overruns[m] < MaxLapses /\ overruns' = [overruns EXCEPT ![m] = @ + 1]
        /\ lapsedAt' = [lapsedAt EXCEPT ![m] = generation[m]] /\ leased[m]
    BY Zenon, <1>6 DEF ClaimLapses
  <2>2. PICK d \in Dispatchers : Holds(d, m) /\ claims[d][m] = generation[m]
    BY Zenon, <1>6, <2>1 DEF Abandoned, Holds
  <2>3. \A e \in Dispatchers : Holds(e, m) /\ claims[e][m] = generation[m] => e = d
    BY Zenon, <2>2 DEF ClaimsDiffer
  <2>4. OutboxTypeOK'
    BY <1>1, <1>2, <2>1, OutboxAssumption DEF OutboxTypeOK
  <2>5. \A n \in Rows : lapsedAt'[n] = IF n = m THEN generation[n] ELSE lapsedAt[n]
    BY Zenon, <2>1 DEF OutboxTypeOK
  <2>6. \A e \in Dispatchers, n \in Rows :
          /\ Holds(e, n)' <=> Holds(e, n)
          /\ n # m => (Current(e, n)' <=> Current(e, n))
          /\ ~Current(e, m)'
    BY Zenon, <1>1, <2>5 DEF Holds, Current
  <2>7. ClaimsDiffer'
    <3>1. \A n \in Rows : lapsedAt'[n] <= generation[n]
      BY SMTT(30), <2>5 DEF ClaimsDiffer, OutboxTypeOK
    <3> QED BY Zenon, <1>1, <3>1 DEF ClaimsDiffer, Holds
  <2>8. LastClaimHolds'
    <3> SUFFICES ASSUME NEW e \in Dispatchers, NEW n \in Rows, Holds(e, n)', Current(e, n)'
                 PROVE  leased'[n] /\ status'[n] = "undelivered"
      BY Zenon, <2>4 DEF LastClaimHolds, Holds, Current, OutboxTypeOK
    <3>1. n # m /\ Holds(e, n) /\ Current(e, n)
      BY Zenon, <2>6
    <3> QED BY Zenon, <1>1, <1>3, <3>1 DEF LastClaimHolds, Holds, Current
  <2>9. SendingsPaid'
    <3> SUFFICES ASSUME NEW n \in Rows
                 PROVE  published'[n] + Cardinality(Belated(n)')
                          <= overruns'[n] + unanswered'[n] + Regular(n)'
      BY Zenon DEF SendingsPaid
    <3>1. /\ published[n] \in Nat /\ overruns[n] \in Nat /\ unanswered[n] \in Nat
          /\ Regular(n) \in {0, 1} /\ Belated(n) \in SUBSET Dispatchers
          /\ Cardinality(Belated(n)) \in Nat
      BY Zenon, PaidTypes
    <3>2. published[n] + Cardinality(Belated(n)) <= overruns[n] + unanswered[n] + Regular(n)
      BY Zenon DEF SendingsPaid
    <3>3. CASE n # m
      <4>1. Belated(n)' = Belated(n) /\ Regular(n)' = Regular(n)
        BY Zenon, <1>1, <2>6, <3>3 DEF Belated, Regular, Ended
      <4>2. overruns'[n] = overruns[n]
        BY Zenon, <2>1, <3>3 DEF OutboxTypeOK
      <4> QED BY Zenon, <1>1, <3>2, <4>1, <4>2
    <3>4. CASE n = m
      <4>1. overruns'[n] = overruns[n] + 1
        BY Zenon, <2>1, <3>4 DEF OutboxTypeOK
      <4>2. Belated(n)' \subseteq Belated(n) \cup {d} /\ Belated(n)' \in SUBSET Dispatchers
        BY Zenon, <1>1, <2>3, <2>6, <3>4 DEF Belated, Current
      <4>3. Regular(n)' \in {0, 1} /\ (Ended(n) => Regular(n)' = 1)
        BY Zenon, <1>1 DEF Regular, Ended
      <4>4. CASE m \in delivered[d]
        <5>1. d \notin Belated(n)'
          BY Zenon, <1>1, <3>4, <4>4 DEF Belated
        <5>2. Cardinality(Belated(n)') \in Nat /\ Cardinality(Belated(n)') <= Cardinality(Belated(n))
          <6>1. Belated(n)' \subseteq Belated(n)
            BY Zenon, <4>2, <5>1
          <6> QED BY Zenon, <3>1, <4>2, <6>1, Counting
        <5> QED BY <1>1, <3>1, <3>2, <4>1, <4>3, <5>2
      <4>5. CASE m \notin delivered[d]
        <5>1. Cardinality(Belated(n)') \in Nat
              /\ Cardinality(Belated(n)') <= Cardinality(Belated(n)) + 1
          BY Zenon, <3>1, <4>2, Counting
        <5>2. Regular(n)' >= Regular(n)
          <6>1. \A e \in Dispatchers : m \in delivered[e] => ~Current(e, m)
            BY Zenon, <2>3, <4>5 DEF ClaimsDiffer, Current
          <6> QED BY <3>1, <3>4, <4>3, <6>1 DEF Regular
        <5> QED BY SMTT(30), <1>1, <3>1, <3>2, <4>1, <4>3, <5>1, <5>2
      <4> QED BY Zenon, <4>4, <4>5
    <3> QED BY Zenon, <3>3, <3>4
  <2> QED BY Zenon, <1>4, <2>4, <2>7, <2>8, <2>9 DEF OutboxInv
<1> QED BY Zenon, <1>5, <1>6

-----------------------------------------------------------------------------
(* OutboxInv holds of every behaviour.                                     *)
THEOREM OutboxInvariance == Spec => []OutboxInv
<1>1. Init => OutboxInv
  <2> SUFFICES ASSUME Init PROVE OutboxInv
    BY Zenon
  <2> USE DEF Init
  <2>1. DOMAIN NoClaims = {} /\ NoClaims \in [{} -> Nat]
    BY Zenon DEF NoClaims
  <2>2. OutboxTypeOK
    BY <2>1, OutboxAssumption DEF OutboxTypeOK
  <2>3. \A d \in Dispatchers, m \in Rows : ~Holds(d, m) /\ m \notin delivered[d] /\ ~Ended(m)
    BY Zenon, <2>1 DEF Holds, Ended
  <2>4. ClaimsDiffer /\ LastClaimHolds
    BY <2>1, <2>3 DEF ClaimsDiffer, LastClaimHolds
  <2>5. \A m \in Rows : Belated(m) = {} /\ Regular(m) = 0
    BY Zenon, <2>3 DEF Belated, Regular, Ended
  <2>6. SendingsPaid /\ EndedWentOut
    BY <2>5, FS_EmptySet DEF SendingsPaid, EndedWentOut, Ended
  <2> QED BY Zenon, <2>2, <2>4, <2>6 DEF OutboxInv
<1>2. OutboxInv /\ [Next]_vars => OutboxInv'
  <2> SUFFICES ASSUME OutboxInv, [Next]_vars PROVE OutboxInv'
    BY Zenon
  <2>1. CASE UNCHANGED vars
    <3>1. UNCHANGED <<status, generation, leased, available, claims, delivered, published,
                      overruns, lapsedAt, unanswered, failures>>
      BY Zenon, <2>1 DEF vars, rowVars, history, lapseVars
    <3>2. OutboxTypeOK'
      BY Zenon, <3>1 DEF OutboxInv, OutboxTypeOK
    <3>3. ClaimsDiffer' /\ LastClaimHolds' /\ EndedWentOut'
      BY Zenon, <3>1 DEF OutboxInv, ClaimsDiffer, LastClaimHolds, Holds, EndedWentOut, Ended
    <3>4. \A m \in Rows : Belated(m)' = Belated(m) /\ Regular(m)' = Regular(m)
      BY Zenon, <3>1 DEF Belated, Regular, Holds, Current, Ended
    <3>5. SendingsPaid'
      BY Zenon, <3>1, <3>4 DEF OutboxInv, SendingsPaid
    <3> QED BY Zenon, <3>2, <3>3, <3>5 DEF OutboxInv
  <2> QED BY Zenon, <2>1, RowKeeps, LapseKeeps, ClaimKeeps, DeliverKeeps, MarkKeeps, FailureKeeps,
             AbandonKeeps DEF Next, DispatchStep
<1> QED BY <1>1, <1>2, PTL DEF Spec

(* A message goes out at least once before its row counts as delivered,    *)
(* and again only for a lapse or a lost answer, for any number of          *)
(* dispatchers (claim_batch, dispatch_batch, mark_delivered, mark_failed). *)
THEOREM DuplicatesExplainedTheorem == Spec => []DuplicatesExplained
<1>1. OutboxInv => DuplicatesExplained
  <2> SUFFICES ASSUME OutboxInv, NEW m \in Rows
               PROVE  published[m] \in (IF status[m] \in {"delivered", "purged"} THEN 1 ELSE 0)
                                       ..(1 + overruns[m] + unanswered[m])
    BY Zenon DEF DuplicatesExplained
  <2>1. /\ published[m] \in Nat /\ overruns[m] \in Nat /\ unanswered[m] \in Nat
        /\ Regular(m) \in {0, 1} /\ Cardinality(Belated(m)) \in Nat
    BY Zenon, PaidTypes DEF OutboxInv
  <2>2. published[m] + Cardinality(Belated(m)) <= overruns[m] + unanswered[m] + Regular(m)
    BY Zenon DEF OutboxInv, SendingsPaid
  <2>3. status[m] \in {"delivered", "purged"} => published[m] > 0
    BY Zenon DEF OutboxInv, EndedWentOut, Ended
  <2> QED BY <2>1, <2>2, <2>3
<1> QED BY <1>1, OutboxInvariance, PTL

(* The last claim keeps its row until its own lease lapses, for any number *)
(* of late answers (the generation in mark_delivered and mark_failed).     *)
THEOREM LastClaimTheorem == Spec => []LastClaimHolds
BY OutboxInvariance, PTL DEF OutboxInv

-----------------------------------------------------------------------------
(* The projection: the inductive invariant.                                *)

Stages == {"idle", "listed", "reading", "failed", "done"}
RecoveryStages == {"none", "pending", "marked", "replaying", "verified", "cleared"}

ProjectionTypeOK ==
  /\ sequence \in 0..MaxPosition
  /\ open \in [Appenders -> SUBSET Events]
  /\ log \in SUBSET Events
  /\ head \in 0..MaxPosition
  /\ checkpoint \in 0..MaxPosition
  /\ outbox \in [Positions -> {"absent", "pending", "delivered"}]
  /\ inserted \in [Positions -> Nat]
  /\ poisoned \in {"no", "quarantined", "rebuilding"}
  /\ stage \in [Passes -> Stages]
  /\ batch \in [Passes -> SUBSET Events]
  /\ streak \in [Projectors -> Nat]
  /\ recovery \in RecoveryStages
  /\ target \in 0..MaxPosition
  /\ recoveries \in Nat

\* The scope lock: one transaction at a time has uncommitted events.
OneWriter == \A a, b \in Appenders : open[a] # {} /\ open[b] # {} => a = b

\* Positions are given out in commit order, so that a commit lands after
\* everything that can have been read.
OpenAhead ==
  \A a \in Appenders : \A e \in open[a] :
    e.position <= sequence /\ \A d \in log : d.position < e.position
LogBehind == \A e \in log : e.position <= sequence
OnePerPosition == \A d, e \in log : d.position = e.position => d = e
OpenOnePerPosition ==
  \A a \in Appenders : \A d, e \in open[a] : d.position = e.position => d = e

\* The checkpoint is not ahead of the log.
CheckpointRead == checkpoint = 0 \/ \E e \in log : checkpoint <= e.position

\* One pass at a time, and only a reading pass has a batch.
OneReader == \A j, k \in Passes : stage[j] = "reading" /\ stage[k] = "reading" => j = k
OnlyReaderHolds == \A k \in Passes : batch[k] # {} => stage[k] = "reading"

\* A batch starts behind the checkpoint and skips no committed event.
Contiguous(events) ==
  /\ events \subseteq log
  /\ \A e \in events : checkpoint < e.position
  /\ \A e \in events : \A d \in log :
       checkpoint < d.position /\ d.position <= e.position => d \in events
BatchesContiguous == \A k \in Passes : Contiguous(batch[k])

\* Without a recovery the rebuilder does nothing.
RebuilderIdle == recovery = "none" /\ stage[Rebuilder] = "idle"

\* Nothing ahead of the checkpoint has a notice yet, and a notice that was
\* never recorded has no row.
NoticesBehind ==
  /\ \A p \in Positions : inserted[p] = 0 => outbox[p] = "absent"
  /\ \A p \in Positions : checkpoint < p => inserted[p] = 0

\* What NoticeOnceUnlessRebuilt says of each committed event.
NoticeOnce ==
  \A e \in log : inserted[e.position] = IF e.asks /\ e.position <= checkpoint THEN 1 ELSE 0

(* The head watermark list_pending compares the checkpoint with is never   *)
(* behind a committed event.                                               *)
HeadCoversLog == \A e \in log : e.position <= head

AppendInv ==
  /\ OneWriter /\ OpenAhead /\ LogBehind
  /\ OnePerPosition /\ OpenOnePerPosition /\ HeadCoversLog

ReadInv == CheckpointRead /\ OneReader /\ OnlyReaderHolds /\ BatchesContiguous

NoticeInv == recoveries = 0 => RebuilderIdle /\ NoticesBehind /\ NoticeOnce

ProjectionInv ==
  ProjectionTypeOK /\ AppendInv /\ ReadInv /\ NoticeInv /\ ProjectionIsPrefix

-----------------------------------------------------------------------------
(* Greatest positions and sorted sets of positions.                        *)

(* What LastRead, HeadAfter and DeleteScope take the maximum of is never    *)
(* empty, so that the maximum is one of its positions.                      *)
LEMMA MaxMember ==
  ASSUME NEW n \in Nat, NEW S, S \subseteq 0..n, S # {}
  PROVE  Max(S) \in S /\ \A j \in S : j <= Max(S)
<1> DEFINE T == {m \in Nat : \E i \in S : m = n - i}
<1>1. \A i \in S : n - i \in T
  <2> TAKE i \in S
  <2>1. i \in 0..n
    BY Zenon
  <2>2. n - i \in Nat
    BY <2>1
  <2> QED BY Zenon, <2>2
<1> T \subseteq Nat /\ T # {}
  BY Zenon, <1>1
<1>2. PICK m \in T : \A k \in T : ~(<<k, m>> \in OpToRel(<, Nat))
  <2> HIDE DEF T
  <2> QED BY Zenon, NatLessThanWellFounded, WFMin
<1>3. \A k \in T : ~(k < m)
  BY Zenon, <1>2 DEF OpToRel
<1>4. PICK i \in S : m = n - i
  BY Zenon
<1>5. \A j \in S : j <= i /\ i >= j
  <2> TAKE j \in S
  <2>1. i \in 0..n /\ j \in 0..n
    BY Zenon
  <2>2. ~(n - j < m)
    BY Zenon, <1>1, <1>3
  <2> QED BY <2>1, <2>2, <1>4
<1>6. Max(S) \in S /\ \A j \in S : Max(S) >= j
  BY Zenon, <1>5 DEF Max
<1> QED
  <2> SUFFICES ASSUME NEW j \in S PROVE j <= Max(S)
    BY Zenon, <1>6
  <2>1. Max(S) \in 0..n /\ j \in 0..n /\ Max(S) >= j
    BY Zenon, <1>6
  <2> QED BY <2>1

\* A rank is one of 1..Cardinality(S), and two positions differ in rank.
LEMMA RankType ==
  ASSUME NEW n \in Nat, NEW S, S \subseteq 1..n, NEW p \in S
  PROVE  /\ IsFiniteSet(S) /\ IsFiniteSet(UpTo(S, p))
         /\ Cardinality(UpTo(S, p)) \in 1..Cardinality(S)
<1>1. IsFiniteSet(1..n)
  BY FS_Interval
<1>2. IsFiniteSet(S)
  BY Zenon, <1>1, FS_Subset
<1>3. UpTo(S, p) \in SUBSET S /\ p \in UpTo(S, p)
  <2>1. p \in 1..n
    BY Zenon
  <2>2. p <= p
    BY <2>1
  <2> QED BY Zenon, <2>2 DEF UpTo
<1>4. IsFiniteSet(UpTo(S, p)) /\ Cardinality(UpTo(S, p)) <= Cardinality(S)
  BY Zenon, <1>2, <1>3, FS_Subset
<1>5. Cardinality(S) \in Nat /\ Cardinality(UpTo(S, p)) \in Nat
  BY Zenon, <1>2, <1>4, FS_CardinalityType
<1>6. Cardinality(UpTo(S, p)) # 0
  BY Zenon, <1>3, <1>4, FS_EmptySet
<1>7. Cardinality(UpTo(S, p)) \in 1..Cardinality(S)
  BY <1>4, <1>5, <1>6
<1> QED BY Zenon, <1>2, <1>4, <1>7

\* The smaller of two positions has the smaller rank.
LEMMA RankGrows ==
  ASSUME NEW n \in Nat, NEW S, S \subseteq 1..n, NEW p \in S, NEW q \in S, p < q
  PROVE  Cardinality(UpTo(S, p)) < Cardinality(UpTo(S, q))
<1>1. p \in 1..n /\ q \in 1..n
  BY Zenon
<1>2. UpTo(S, p) \subseteq UpTo(S, q)
  <2> SUFFICES ASSUME NEW o \in UpTo(S, p) PROVE o \in UpTo(S, q)
    BY Zenon
  <2>1. o \in S /\ o <= p
    BY Zenon DEF UpTo
  <2>2. o \in 1..n
    BY Zenon, <2>1
  <2>3. o <= q
    BY <1>1, <2>1, <2>2
  <2> QED BY Zenon, <2>1, <2>3 DEF UpTo
<1>3. q \in UpTo(S, q) /\ q \notin UpTo(S, p)
  <2>1. q <= q /\ ~(q <= p)
    BY <1>1
  <2> QED BY Zenon, <2>1 DEF UpTo
<1>4. /\ IsFiniteSet(UpTo(S, q)) /\ IsFiniteSet(UpTo(S, p))
      /\ Cardinality(UpTo(S, p)) <= Cardinality(UpTo(S, q))
      /\ Cardinality(UpTo(S, p)) # Cardinality(UpTo(S, q))
  BY Zenon, RankType, <1>2, <1>3, FS_Subset
<1>5. Cardinality(UpTo(S, p)) \in Nat /\ Cardinality(UpTo(S, q)) \in Nat
  BY Zenon, <1>4, FS_CardinalityType
<1> QED BY <1>4, <1>5

\* Two positions of a set have different ranks.
LEMMA RankUnique ==
  ASSUME NEW n \in Nat, NEW S, S \subseteq 1..n, NEW p \in S, NEW q \in S,
         Cardinality(UpTo(S, p)) = Cardinality(UpTo(S, q))
  PROVE  p = q
<1>1. p \in 1..n /\ q \in 1..n
  BY Zenon
<1>2. /\ Cardinality(UpTo(S, p)) \in 1..Cardinality(S)
      /\ Cardinality(UpTo(S, q)) \in 1..Cardinality(S)
  BY Zenon, RankType
<1>3. ~(p < q) /\ ~(q < p)
  <2>1. ~(Cardinality(UpTo(S, p)) < Cardinality(UpTo(S, q)))
    BY <1>2
  <2>2. ~(Cardinality(UpTo(S, q)) < Cardinality(UpTo(S, p)))
    BY <1>2
  <2> QED BY Zenon, <2>1, <2>2, RankGrows
<1> QED BY <1>1, <1>3

\* Every rank is taken, by the pigeonhole principle.
LEMMA NthMember ==
  ASSUME NEW n \in Nat, NEW S, S \subseteq 1..n, NEW i \in 1..Cardinality(S)
  PROVE  Nth(S, i) \in S /\ Cardinality(UpTo(S, Nth(S, i))) = i
<1> DEFINE c == Cardinality(S)
           f == [p \in S |-> Cardinality(UpTo(S, p))]
<1>1. IsFiniteSet(S)
  <2>1. IsFiniteSet(1..n)
    BY FS_Interval
  <2> QED BY Zenon, <2>1, FS_Subset
<1>2. c \in Nat
  BY Zenon, <1>1, FS_CardinalityType
<1>3. f \in Injection(S, 1..c)
  <2>1. f \in [S -> 1..c]
    BY Zenon, RankType
  <2>2. \A p, q \in S : f[p] = f[q] => p = q
    BY Zenon, RankUnique
  <2> QED BY Zenon, <2>1, <2>2 DEF Injection, IsInjective
<1>4. IsFiniteSet(1..c) /\ Cardinality(1..c) = c
  BY <1>2, FS_Interval
<1>5. f \in Surjection(S, 1..c)
  <2> HIDE DEF f
  <2> QED BY Zenon, <1>3, <1>4, FS_Injection
<1>6. PICK p \in S : f[p] = i
  BY Zenon, <1>5 DEF Surjection
<1> QED BY Zenon, <1>6 DEF Nth

\* A sorted set is a sequence of its own positions, as long as the set.
LEMMA SortedType ==
  ASSUME NEW n \in Nat, NEW S, S \subseteq 1..n
  PROVE  /\ IsFiniteSet(S) /\ Cardinality(S) \in Nat
         /\ Sorted(S) \in [1..Cardinality(S) -> S]
         /\ Sorted(S) \in Seq(1..n) /\ Len(Sorted(S)) = Cardinality(S)
<1>1. IsFiniteSet(1..n)
  BY FS_Interval
<1>2. IsFiniteSet(S)
  BY Zenon, <1>1, FS_Subset
<1>3. Cardinality(S) \in Nat
  BY Zenon, <1>2, FS_CardinalityType
<1>4. Sorted(S) \in [1..Cardinality(S) -> S]
  BY Zenon, NthMember DEF Sorted
<1>5. Sorted(S) \in [1..Cardinality(S) -> 1..n]
  BY Zenon, <1>4
<1>6. Sorted(S) \in Seq(1..n) /\ Len(Sorted(S)) = Cardinality(S)
  BY <1>3, <1>5
<1> QED BY Zenon, <1>2, <1>3, <1>4, <1>6

(* Sorted lists every position of the set once and in increasing order:     *)
(* the order in which read_scope returns events.                            *)
THEOREM SortedOrders ==
  ASSUME NEW n \in Nat, NEW S, S \subseteq 1..n
  PROVE  /\ Sorted(S) \in [1..Cardinality(S) -> S]
         /\ \A p \in S : \E i \in 1..Cardinality(S) : Sorted(S)[i] = p
         /\ \A i, j \in 1..Cardinality(S) : i < j => Sorted(S)[i] < Sorted(S)[j]
<1>1. \A i \in 1..Cardinality(S) :
        /\ Sorted(S)[i] \in S
        /\ Cardinality(UpTo(S, Sorted(S)[i])) = i
  BY Zenon, NthMember DEF Sorted
<1>2. ASSUME NEW p \in S
      PROVE  \E i \in 1..Cardinality(S) : Sorted(S)[i] = p
  <2> DEFINE i == Cardinality(UpTo(S, p))
  <2>1. i \in 1..Cardinality(S)
    BY Zenon, RankType
  <2>2. Sorted(S)[i] \in S /\ Cardinality(UpTo(S, Sorted(S)[i])) = Cardinality(UpTo(S, p))
    BY Zenon, <1>1, <2>1
  <2>3. Sorted(S)[i] = p
    BY Zenon, <2>2, RankUnique
  <2> QED BY Zenon, <2>1, <2>3
<1>3. ASSUME NEW i \in 1..Cardinality(S), NEW j \in 1..Cardinality(S), i < j
      PROVE  Sorted(S)[i] < Sorted(S)[j]
  <2> DEFINE p == Sorted(S)[i]
             q == Sorted(S)[j]
  <2>1. /\ p \in S /\ Cardinality(UpTo(S, p)) = i
        /\ q \in S /\ Cardinality(UpTo(S, q)) = j
    BY Zenon, <1>1
  <2>2. p \in 1..n /\ q \in 1..n
    BY Zenon, <2>1
  <2> HIDE DEF p, q
  <2>3. ~(j < i) /\ i # j
    BY <1>3
  <2>4. ~(q < p)
    BY Zenon, <2>1, <2>3, RankGrows
  <2>5. p # q
    BY Zenon, <2>1, <2>3
  <2>6. p < q
    BY <2>2, <2>4, <2>5
  <2> QED BY Zenon, <2>6 DEF p, q
<1> QED BY Zenon, <1>2, <1>3, SortedType

\* What makes a sequence the concatenation of two others.
LEMMA ConcatPointwise ==
  ASSUME NEW V, NEW s \in Seq(V), NEW t \in Seq(V), NEW u \in Seq(V),
         Len(u) = Len(s) + Len(t),
         \A i \in 1..Len(s) : u[i] = s[i],
         \A j \in 1..Len(t) : u[Len(s) + j] = t[j]
  PROVE  u = s \o t
<1> DEFINE w == s \o t
<1>1. w \in Seq(V) /\ Len(w) = Len(s) + Len(t)
  OBVIOUS
<1>2. \A i \in 1..Len(s) : w[i] = s[i]
  OBVIOUS
<1>3. \A i \in 1..Len(w) :
        i \notin 1..Len(s) => i - Len(s) \in 1..Len(t) /\ i = Len(s) + (i - Len(s))
  BY <1>1
<1>4. \A j \in 1..Len(t) : w[Len(s) + j] = t[j]
  OBVIOUS
<1> HIDE DEF w
<1>5. \A i \in 1..Len(w) : u[i] = w[i]
  BY Zenon, <1>2, <1>3, <1>4
<1> QED BY <1>1, <1>5 DEF w

\* Every position of S comes before every position of T.
Precedes(S, T) == \A s \in S, t \in T : s < t

\* A batch that starts behind everything sorted so far is appended.
LEMMA SortedConcat ==
  ASSUME NEW n \in Nat, NEW S, S \subseteq 1..n, NEW T, T \subseteq 1..n, Precedes(S, T)
  PROVE  Sorted(S \cup T) = Sorted(S) \o Sorted(T)
<1> DEFINE U == S \cup T
<1>0. \A s \in S, t \in T : s < t
  BY Zenon DEF Precedes
<1>1. U \subseteq 1..n
  BY Zenon
<1>2. S \cap T = {}
  <2> SUFFICES ASSUME NEW s \in S, s \in T PROVE FALSE
    BY Zenon
  <2>1. s \in 1..n /\ s < s
    BY Zenon, <1>0
  <2> QED BY <2>1
<1>3. /\ IsFiniteSet(S) /\ IsFiniteSet(T)
      /\ Cardinality(S) \in Nat /\ Cardinality(T) \in Nat
  BY Zenon, SortedType
<1>4. Cardinality(U) = Cardinality(S) + Cardinality(T)
  <2>1. Cardinality(U) = Cardinality(S) + Cardinality(T) - Cardinality(S \cap T)
    BY Zenon, <1>3, FS_Union
  <2>2. Cardinality(S \cap T) = 0
    BY Zenon, <1>2, FS_EmptySet
  <2> QED BY <2>1, <2>2, <1>3
<1>5. \A p \in S : UpTo(U, p) = UpTo(S, p)
  <2> TAKE p \in S
  <2>1. \A t \in T : ~(t <= p)
    <3> TAKE t \in T
    <3>1. p < t /\ p \in 1..n /\ t \in 1..n
      BY Zenon, <1>0
    <3> QED BY <3>1
  <2> QED BY Zenon, <2>1 DEF UpTo
<1>6. \A p \in T : Cardinality(UpTo(U, p)) = Cardinality(S) + Cardinality(UpTo(T, p))
  <2> TAKE p \in T
  <2>1. \A s \in S : s <= p
    <3> TAKE s \in S
    <3>1. s < p /\ p \in 1..n /\ s \in 1..n
      BY Zenon, <1>0
    <3> QED BY <3>1
  <2>2. UpTo(U, p) = S \cup UpTo(T, p)
    BY Zenon, <2>1 DEF UpTo
  <2>3. S \cap UpTo(T, p) = {}
    BY Zenon, <1>2 DEF UpTo
  <2>4. IsFiniteSet(UpTo(T, p)) /\ Cardinality(UpTo(T, p)) \in Nat
    BY Zenon, RankType, FS_CardinalityType
  <2>5. Cardinality(UpTo(U, p)) =
          Cardinality(S) + Cardinality(UpTo(T, p)) - Cardinality(S \cap UpTo(T, p))
    BY Zenon, <1>3, <2>2, <2>4, FS_Union
  <2>6. Cardinality(S \cap UpTo(T, p)) = 0
    BY Zenon, <2>3, FS_EmptySet
  <2> QED BY <2>4, <2>5, <2>6, <1>3
<1>7. \A i \in 1..Cardinality(S) : Nth(U, i) = Nth(S, i)
  <2> TAKE i \in 1..Cardinality(S)
  <2>1. Nth(S, i) \in S /\ Cardinality(UpTo(U, Nth(S, i))) = i
    BY Zenon, NthMember, <1>5
  <2>2. i \in 1..Cardinality(U)
    BY <1>3, <1>4
  <2>3. Nth(U, i) \in U /\ Cardinality(UpTo(U, Nth(U, i))) = i
    BY Zenon, NthMember, <1>1, <2>2
  <2> QED BY Zenon, RankUnique, <1>1, <2>1, <2>3
<1>8. \A j \in 1..Cardinality(T) : Nth(U, Cardinality(S) + j) = Nth(T, j)
  <2> TAKE j \in 1..Cardinality(T)
  <2>1. Nth(T, j) \in T /\ Cardinality(UpTo(U, Nth(T, j))) = Cardinality(S) + j
    BY Zenon, NthMember, <1>6
  <2>2. Cardinality(S) + j \in 1..Cardinality(U)
    BY <1>3, <1>4
  <2>3. /\ Nth(U, Cardinality(S) + j) \in U
        /\ Cardinality(UpTo(U, Nth(U, Cardinality(S) + j))) = Cardinality(S) + j
    BY Zenon, NthMember, <1>1, <2>2
  <2> QED BY Zenon, RankUnique, <1>1, <2>1, <2>3
<1> DEFINE s == Sorted(S)
           t == Sorted(T)
           u == Sorted(U)
<1>9. /\ s \in Seq(1..n) /\ Len(s) = Cardinality(S)
      /\ t \in Seq(1..n) /\ Len(t) = Cardinality(T)
      /\ u \in Seq(1..n) /\ Len(u) = Cardinality(U)
  BY Zenon, <1>1, SortedType
<1>10. \A i \in 1..Len(s) : u[i] = s[i]
  <2> SUFFICES ASSUME NEW i \in 1..Len(s) PROVE u[i] = s[i]
    BY Zenon
  <2>1. i \in 1..Cardinality(S) /\ i \in 1..Cardinality(U)
    BY <1>3, <1>4, <1>9
  <2> QED BY Zenon, <2>1, <1>7 DEF Sorted
<1>11. \A j \in 1..Len(t) : u[Len(s) + j] = t[j]
  <2> SUFFICES ASSUME NEW j \in 1..Len(t) PROVE u[Len(s) + j] = t[j]
    BY Zenon
  <2>1. j \in 1..Cardinality(T) /\ Cardinality(S) + j \in 1..Cardinality(U)
    BY <1>3, <1>4, <1>9
  <2> QED BY Zenon, <2>1, <1>8, <1>9 DEF Sorted
<1> HIDE DEF s, t, u
<1>12. u = s \o t
  <2>1. Len(u) = Len(s) + Len(t)
    BY Zenon, <1>4, <1>9
  <2> QED BY Zenon, <1>9, <1>10, <1>11, <2>1, ConcatPointwise
<1> QED BY Zenon, <1>12 DEF s, t, u

-----------------------------------------------------------------------------
(* Types.                                                                  *)

\* The fields of an event have their types.
LEMMA EventFields ==
  ASSUME NEW e \in Events
  PROVE  e.position \in Positions /\ e.position \in 0..MaxPosition /\ e.run \in Runs
BY ProjectionAssumption DEF Events, Positions

\* HeadAfter, LastRead and the target of a rebuild.
LEMMA MaxWithEvents ==
  ASSUME NEW x \in 0..MaxPosition, NEW E \in SUBSET Events
  PROVE  LET m == Max({x} \cup {e.position : e \in E})
         IN  /\ m \in 0..MaxPosition /\ x <= m
             /\ \A e \in E : e.position <= m
             /\ m = x \/ \E e \in E : e.position = m
<1> DEFINE S == {x} \cup {e.position : e \in E}
<1>1. S \subseteq 0..MaxPosition /\ S # {}
  BY Zenon, EventFields
<1>2. Max(S) \in S /\ \A j \in S : j <= Max(S)
  <2> HIDE DEF S
  <2> QED BY Zenon, <1>1, MaxMember, ProjectionAssumption
<1> QED BY Zenon, <1>1, <1>2

\* A checkpoint moves to the last position read, or stays.
LEMMA LastReadIs ==
  ASSUME ProjectionTypeOK, NEW k \in Passes
  PROVE  /\ LastRead(k) \in 0..MaxPosition /\ checkpoint <= LastRead(k)
         /\ \A e \in batch[k] : e.position <= LastRead(k)
         /\ LastRead(k) = checkpoint \/ \E e \in batch[k] : e.position = LastRead(k)
<1>1. checkpoint \in 0..MaxPosition /\ batch[k] \in SUBSET Events
  BY Zenon DEF ProjectionTypeOK
<1> QED BY Zenon, <1>1, MaxWithEvents DEF LastRead

\* The initial state has its types.
LEMMA ProjectionTypeInit ==
  ASSUME ProjectionInit
  PROVE  ProjectionTypeOK
<1>1. 0 \in 0..MaxPosition /\ 0 \in Nat
  BY ProjectionAssumption
<1> QED BY Zenon, <1>1 DEF ProjectionInit, ProjectionTypeOK, Stages, RecoveryStages

\* Appending, committing and rolling back keep the types.
LEMMA AppendTypes ==
  ASSUME ProjectionTypeOK, AppendStep
  PROVE  ProjectionTypeOK'
<1> USE DEF appendVars, noticeVars, passVars, recoveryVars
<1>1. ASSUME NEW a \in Appenders, NEW r \in Runs, NEW n \in 1..2, NEW asks \in BOOLEAN,
             AppendEvents(a, r, n, asks)
      PROVE  ProjectionTypeOK'
  <2> DEFINE last == sequence + n
             new == {[position |-> p, run |-> r, asks |-> asks /\ p = last] :
                       p \in (sequence + 1)..last}
  <2>1. sequence \in 0..MaxPosition /\ last <= MaxPosition
    BY Zenon, <1>1 DEF AppendEvents, ProjectionTypeOK
  <2>2. last \in 0..MaxPosition /\ \A p \in (sequence + 1)..last : p \in Positions
    BY <2>1, ProjectionAssumption DEF Positions
  <2>3. \A p \in (sequence + 1)..last :
          [position |-> p, run |-> r, asks |-> asks /\ p = last] \in Events
    <3> TAKE p \in (sequence + 1)..last
    <3>1. p \in Positions /\ (asks /\ p = last) \in BOOLEAN
      BY Zenon, <2>2
    <3> QED BY <3>1 DEF Events
  <2>4. new \in SUBSET Events
    BY Zenon, <2>3
  <2>5. sequence' = last /\ open' = [open EXCEPT ![a] = new]
    BY Zenon, <1>1 DEF AppendEvents
  <2> HIDE DEF new, last
  <2>6. open' \in [Appenders -> SUBSET Events]
    BY Zenon, <2>4, <2>5 DEF ProjectionTypeOK
  <2> QED BY Zenon, <1>1, <2>2, <2>5, <2>6 DEF AppendEvents, ProjectionTypeOK
<1>2. ASSUME NEW a \in Appenders, CommitAppend(a)
      PROVE  ProjectionTypeOK'
  <2>1. open[a] \in SUBSET Events /\ head \in 0..MaxPosition
    BY Zenon DEF ProjectionTypeOK
  <2>2. HeadAfter(a) \in 0..MaxPosition
    BY Zenon, <2>1, MaxWithEvents DEF HeadAfter
  <2>3. log' \in SUBSET Events
    BY Zenon, <1>2, <2>1 DEF ProjectionTypeOK, CommitAppend
  <2>4. open' \in [Appenders -> SUBSET Events]
    BY Zenon, <1>2 DEF ProjectionTypeOK, CommitAppend
  <2> QED BY Zenon, <1>2, <2>2, <2>3, <2>4 DEF CommitAppend, ProjectionTypeOK
<1>3. ASSUME NEW a \in Appenders, RollbackAppend(a)
      PROVE  ProjectionTypeOK'
  <2>1. open' \in [Appenders -> SUBSET Events]
    BY Zenon, <1>3 DEF ProjectionTypeOK, RollbackAppend
  <2> QED BY Zenon, <1>3, <2>1 DEF RollbackAppend, ProjectionTypeOK
<1>4. ASSUME OtherScopeAppends
      PROVE  ProjectionTypeOK'
  <2>1. sequence \in 0..MaxPosition /\ sequence < MaxPosition
    BY Zenon, <1>4 DEF ProjectionTypeOK, OtherScopeAppends
  <2>2. sequence + 1 \in 0..MaxPosition
    BY <2>1, ProjectionAssumption
  <2> QED BY Zenon, <1>4, <2>2 DEF OtherScopeAppends, ProjectionTypeOK
<1> QED BY Zenon, <1>1, <1>2, <1>3, <1>4 DEF AppendStep

\* A pass that commits keeps the types.
LEMMA CommitPassTypes ==
  ASSUME ProjectionTypeOK, NEW k \in Passes, CommitPass(k),
         stage' \in [Passes -> Stages], streak' \in [Projectors -> Nat]
  PROVE  ProjectionTypeOK'
<1> USE DEF appendVars, recoveryVars
<1>1. checkpoint' \in 0..MaxPosition
  BY Zenon, LastReadIs DEF CommitPass
<1>2. outbox' \in [Positions -> {"absent", "pending", "delivered"}]
  BY Zenon DEF CommitPass, ProjectionTypeOK
<1>3. inserted' \in [Positions -> Nat]
  <2>1. \A p \in Positions : inserted[p] \in Nat
    BY Zenon DEF ProjectionTypeOK
  <2>2. \A p \in Positions : inserted[p] + (IF Notifies(k, p) THEN 1 ELSE 0) \in Nat
    <3> TAKE p \in Positions
    <3> HIDE DEF Notifies
    <3> QED BY <2>1
  <2> QED BY Zenon, <2>2 DEF CommitPass
<1>4. batch' \in [Passes -> SUBSET Events]
  BY Zenon DEF CommitPass, ProjectionTypeOK
<1> QED BY Zenon, <1>1, <1>2, <1>3, <1>4 DEF CommitPass, ProjectionTypeOK

\* Only stage and batch of a beginning pass move.
LEMMA BeginPassTypes ==
  ASSUME ProjectionTypeOK, NEW k \in Passes, NEW through, BeginPass(k, through)
  PROVE  ProjectionTypeOK'
<1> USE DEF appendVars, noticeVars, recoveryVars
<1>1. Readable(through) \in SUBSET Events
  BY Zenon DEF Readable, Unread, ProjectionTypeOK
<1>2. batch' \in [Passes -> SUBSET Events]
  BY Zenon, <1>1 DEF BeginPass, ProjectionTypeOK
<1>3. stage' \in [Passes -> Stages]
  BY Zenon DEF BeginPass, ProjectionTypeOK, Stages
<1> QED BY Zenon, <1>2, <1>3 DEF BeginPass, ProjectionTypeOK

\* Every step of a projector pass keeps the types.
LEMMA PassTypes ==
  ASSUME ProjectionTypeOK, NEW k \in Projectors, PassStep(k)
  PROVE  ProjectionTypeOK'
<1> USE DEF appendVars, noticeVars, recoveryVars
<1>0. k \in Passes
  BY Zenon DEF Passes
<1>1. CASE ListPending(k)
  BY Zenon, <1>1 DEF ListPending, ProjectionTypeOK, Stages
<1>2. CASE YieldPass(k)
  BY Zenon, <1>2 DEF YieldPass, ProjectionTypeOK, Stages
<1>3. CASE BeginProjectorPass(k)
  BY Zenon, <1>0, <1>3, BeginPassTypes DEF BeginProjectorPass
<1>4. CASE CommitProjectorPass(k)
  <2>1. stage' \in [Passes -> Stages]
    BY Zenon, <1>4 DEF CommitProjectorPass, ProjectionTypeOK, Stages
  <2>2. 0 \in Nat
    OBVIOUS
  <2>3. streak' \in [Projectors -> Nat]
    BY Zenon, <1>4, <2>2 DEF CommitProjectorPass, ProjectionTypeOK
  <2> QED BY Zenon, <1>0, <1>4, <2>1, <2>3, CommitPassTypes DEF CommitProjectorPass
<1>5. CASE RecordScopeFailure(k)
  <2>1. stage' \in [Passes -> Stages]
    BY Zenon, <1>5 DEF RecordScopeFailure, ProjectionTypeOK, Stages
  <2>2. streak[k] \in Nat /\ streak \in [Projectors -> Nat]
    BY Zenon DEF ProjectionTypeOK
  <2>3. streak[k] + 1 \in Nat /\ 0 \in Nat
    BY <2>2
  <2>4. streak' \in [Projectors -> Nat]
    BY Zenon, <1>5, <2>2, <2>3 DEF RecordScopeFailure
  <2>5. poisoned' \in {"no", "quarantined", "rebuilding"}
    BY Zenon, <1>5 DEF RecordScopeFailure, QuarantinedNow, ProjectionTypeOK
  <2> QED BY Zenon, <1>5, <2>1, <2>4, <2>5 DEF RecordScopeFailure, ProjectionTypeOK
<1> QED BY Zenon, <1>1, <1>2, <1>3, <1>4, <1>5 DEF PassStep

\* Every step of a recovery keeps the types.
LEMMA RecoveryTypes ==
  ASSUME ProjectionTypeOK, RequestRecovery \/ RecoveryStep
  PROVE  ProjectionTypeOK'
<1> USE DEF appendVars, noticeVars, passVars, recoveryVars
<1>0. Rebuilder \in Passes
  BY Zenon DEF Passes
<1>1. CASE RequestRecovery
  <2>1. recoveries \in Nat
    BY Zenon DEF ProjectionTypeOK
  <2>2. recoveries + 1 \in Nat
    BY <2>1
  <2> QED BY Zenon, <1>1, <2>2 DEF RequestRecovery, ProjectionTypeOK, RecoveryStages
<1>2. CASE MarkScope
  BY Zenon, <1>2 DEF MarkScope, ProjectionTypeOK, RecoveryStages
<1>3. CASE DeleteScope
  <2>1. 0 \in 0..MaxPosition
    BY ProjectionAssumption
  <2>2. log \in SUBSET Events
    BY Zenon DEF ProjectionTypeOK
  <2>3. target' \in 0..MaxPosition
    BY Zenon, <1>3, <2>1, <2>2, MaxWithEvents DEF DeleteScope
  <2> QED BY Zenon, <1>3, <2>1, <2>3 DEF DeleteScope, ProjectionTypeOK, RecoveryStages
<1>4. CASE ReplayPass
  BY Zenon, <1>0, <1>4, BeginPassTypes DEF ReplayPass
<1>5. CASE CommitReplayPass
  <2>1. stage' \in [Passes -> Stages]
    BY Zenon, <1>5 DEF CommitReplayPass, ProjectionTypeOK, Stages
  <2>2. streak' \in [Projectors -> Nat]
    BY Zenon, <1>5 DEF CommitReplayPass, ProjectionTypeOK
  <2> QED BY Zenon, <1>0, <1>5, <2>1, <2>2, CommitPassTypes DEF CommitReplayPass
<1>6. CASE FinishReplay
  BY Zenon, <1>6 DEF FinishReplay, ProjectionTypeOK, Stages, RecoveryStages
<1>7. CASE ClearScope
  BY Zenon, <1>7 DEF ClearScope, ProjectionTypeOK, RecoveryStages
<1>8. CASE FinishRequest
  BY Zenon, <1>8 DEF FinishRequest, ProjectionTypeOK, RecoveryStages
<1> QED
  BY Zenon, <1>1, <1>2, <1>3, <1>4, <1>5, <1>6, <1>7, <1>8 DEF RecoveryStep

\* Failing passes, crashes and stopped recoveries keep the types.
LEMMA FaultTypes ==
  ASSUME ProjectionTypeOK, Faulty
  PROVE  ProjectionTypeOK'
<1> USE DEF appendVars, noticeVars, recoveryVars
<1>1. ASSUME NEW k \in Projectors, FailPass(k)
      PROVE  ProjectionTypeOK'
  BY Zenon, <1>1 DEF FailPass, ProjectionTypeOK, Stages
<1>2. ASSUME NEW k \in Projectors, QuarantineFails(k)
      PROVE  ProjectionTypeOK'
  <2>1. streak[k] \in Nat /\ streak \in [Projectors -> Nat]
    BY Zenon DEF ProjectionTypeOK
  <2>2. streak[k] + 1 \in Nat
    BY <2>1
  <2>3. streak' \in [Projectors -> Nat]
    BY Zenon, <1>2, <2>1, <2>2 DEF QuarantineFails
  <2>4. stage' \in [Passes -> Stages]
    BY Zenon, <1>2 DEF QuarantineFails, ProjectionTypeOK, Stages
  <2> QED BY Zenon, <1>2, <2>3, <2>4 DEF QuarantineFails, ProjectionTypeOK
<1>3. ASSUME NEW k \in Projectors, CrashProjector(k)
      PROVE  ProjectionTypeOK'
  <2>1. 0 \in Nat
    OBVIOUS
  <2>2. streak' \in [Projectors -> Nat]
    BY Zenon, <1>3, <2>1 DEF CrashProjector, ProjectionTypeOK
  <2>3. stage' \in [Passes -> Stages]
    BY Zenon, <1>3 DEF CrashProjector, ProjectionTypeOK, Stages
  <2>4. batch' \in [Passes -> SUBSET Events]
    BY Zenon, <1>3 DEF CrashProjector, ProjectionTypeOK
  <2> QED BY Zenon, <1>3, <2>2, <2>3, <2>4 DEF CrashProjector, ProjectionTypeOK
<1>4. ASSUME NEW next \in {"none", "pending"}, RecoveryStops(next)
      PROVE  ProjectionTypeOK'
  <2>1. recovery' \in RecoveryStages
    BY Zenon, <1>4 DEF RecoveryStops, RecoveryStages
  <2>2. stage' \in [Passes -> Stages]
    BY Zenon, <1>4 DEF RecoveryStops, ProjectionTypeOK, Stages
  <2>3. batch' \in [Passes -> SUBSET Events]
    BY Zenon, <1>4 DEF RecoveryStops, ProjectionTypeOK
  <2> QED BY Zenon, <1>4, <2>1, <2>2, <2>3 DEF RecoveryStops, ProjectionTypeOK
<1> QED BY Zenon, <1>1, <1>2, <1>3, <1>4 DEF Faulty

\* Every step keeps the types.
LEMMA ProjectionTypeNext ==
  ASSUME ProjectionTypeOK, [ProjectionNext]_projectionVars
  PROVE  ProjectionTypeOK'
<1>1. CASE UNCHANGED projectionVars
  BY Zenon, <1>1
  DEF ProjectionTypeOK, projectionVars, appendVars, noticeVars, passVars, recoveryVars
<1>2. ASSUME NEW p \in Positions, DeliverNotice(p) \/ PurgeOutbox(p)
      PROVE  ProjectionTypeOK'
  <2>1. outbox' \in [Positions -> {"absent", "pending", "delivered"}]
    BY Zenon, <1>2 DEF DeliverNotice, PurgeOutbox, ProjectionTypeOK
  <2> QED BY Zenon, <1>2, <2>1
  DEF DeliverNotice, PurgeOutbox, ProjectionTypeOK, appendVars, passVars, recoveryVars
<1> QED
  BY Zenon, <1>1, <1>2, AppendTypes, PassTypes, RecoveryTypes, FaultTypes
  DEF ProjectionNext

-----------------------------------------------------------------------------
(* Appending: the scope lock puts commits in the order of the positions.   *)

\* The empty log is in order.
LEMMA AppendInit ==
  ASSUME ProjectionInit
  PROVE  AppendInv
BY Zenon DEF ProjectionInit, AppendInv, OneWriter, OpenAhead, LogBehind, OnePerPosition,
             OpenOnePerPosition, HeadCoversLog

\* Only appending transactions touch the log.
LEMMA LogUntouched ==
  ASSUME [ProjectionNext]_projectionVars, ~AppendStep
  PROVE  UNCHANGED appendVars
<1>1. CASE UNCHANGED projectionVars
  BY Zenon, <1>1 DEF projectionVars
<1>2. ASSUME NEW k \in Projectors, PassStep(k)
      PROVE  UNCHANGED appendVars
  BY Zenon, <1>2 DEF PassStep, ListPending, YieldPass, BeginProjectorPass, BeginPass,
                     CommitProjectorPass, CommitPass, RecordScopeFailure
<1>3. CASE RequestRecovery \/ RecoveryStep
  BY Zenon, <1>3 DEF RequestRecovery, RecoveryStep, MarkScope, DeleteScope, ReplayPass,
       BeginPass, CommitReplayPass, CommitPass, FinishReplay, ClearScope, FinishRequest
<1>4. ASSUME NEW p \in Positions, DeliverNotice(p) \/ PurgeOutbox(p)
      PROVE  UNCHANGED appendVars
  BY Zenon, <1>4 DEF DeliverNotice, PurgeOutbox
<1>5. CASE Faulty
  BY Zenon, <1>5 DEF Faulty, FailPass, QuarantineFails, CrashProjector, RecoveryStops
<1> QED BY Zenon, <1>1, <1>2, <1>3, <1>4, <1>5 DEF ProjectionNext

\* New events get positions beyond the log, and nobody else has any open.
LEMMA AppendEventsKeeps ==
  ASSUME ProjectionTypeOK, AppendInv, NEW a \in Appenders, NEW r \in Runs, NEW n \in 1..2,
         NEW asks \in BOOLEAN, AppendEvents(a, r, n, asks)
  PROVE  AppendInv'
<1> DEFINE last == sequence + n
           event(p) == [position |-> p, run |-> r, asks |-> asks /\ p = last]
           new == {event(p) : p \in (sequence + 1)..last}
<1>1. /\ sequence' = last /\ open' = [open EXCEPT ![a] = new]
      /\ log' = log /\ head' = head
      /\ \A b \in Appenders : open[b] = {}
  BY Zenon DEF AppendEvents, ScopeLockFree
<1>2. sequence \in 0..MaxPosition
  BY Zenon DEF ProjectionTypeOK
<1>3. \A e \in new : e.position \in (sequence + 1)..last /\ e = event(e.position)
  OBVIOUS
<1>4. open'[a] = new /\ \A b \in Appenders : b # a => open'[b] = {}
  BY Zenon, <1>1 DEF ProjectionTypeOK
<1>5. \A e \in log : e.position <= sequence /\ e.position \in Nat
  <2> TAKE e \in log
  <2>1. e \in Events
    BY Zenon DEF ProjectionTypeOK
  <2>2. e.position \in Nat
    BY <2>1 DEF Events, Positions
  <2> QED BY Zenon, <2>2 DEF AppendInv, LogBehind
<1>6. OneWriter'
  BY Zenon, <1>4 DEF OneWriter
<1>7. OpenAhead'
  <2> SUFFICES ASSUME NEW b \in Appenders, NEW e \in open'[b]
               PROVE  e.position <= sequence' /\ \A d \in log' : d.position < e.position
    BY Zenon DEF OpenAhead
  <2>1. e \in new
    BY Zenon, <1>4
  <2>2. e.position \in (sequence + 1)..last
    BY Zenon, <1>3, <2>1
  <2> HIDE DEF new, event
  <2>3. e.position <= last /\ \A d \in log : d.position < e.position
    BY <1>2, <1>5, <2>2
  <2> QED BY Zenon, <1>1, <2>3
<1>8. LogBehind'
  <2> SUFFICES ASSUME NEW e \in log PROVE e.position <= last
    BY Zenon, <1>1 DEF LogBehind
  <2>1. e.position <= sequence /\ e.position \in Nat
    BY Zenon, <1>5
  <2> QED BY <1>2, <2>1
<1>9. OnePerPosition' /\ HeadCoversLog'
  BY Zenon, <1>1 DEF AppendInv, OnePerPosition, HeadCoversLog
<1>10. OpenOnePerPosition'
  <2> SUFFICES ASSUME NEW b \in Appenders, NEW d \in open'[b], NEW e \in open'[b],
                      d.position = e.position
               PROVE  d = e
    BY Zenon DEF OpenOnePerPosition
  <2>1. d \in new /\ e \in new
    BY Zenon, <1>4
  <2>2. d = event(d.position) /\ e = event(e.position)
    BY Zenon, <1>3, <2>1
  <2> HIDE DEF new, event
  <2> QED BY Zenon, <2>2
<1> QED BY Zenon, <1>6, <1>7, <1>8, <1>9, <1>10 DEF AppendInv

\* A commit adds its events at the end of the log and moves the head.
LEMMA CommitAppendKeeps ==
  ASSUME ProjectionTypeOK, AppendInv, NEW a \in Appenders, CommitAppend(a)
  PROVE  AppendInv'
<1>1. /\ log' = log \cup open[a] /\ head' = HeadAfter(a) /\ sequence' = sequence
      /\ open[a] # {} /\ open' = [open EXCEPT ![a] = {}]
  BY Zenon DEF CommitAppend
<1>2. \A b \in Appenders : open'[b] = {}
  <2> TAKE b \in Appenders
  <2>1. b = a \/ open[b] = {}
    BY Zenon, <1>1 DEF AppendInv, OneWriter
  <2> QED BY Zenon, <1>1, <2>1 DEF ProjectionTypeOK
<1>3. OneWriter' /\ OpenAhead' /\ OpenOnePerPosition'
  BY Zenon, <1>2 DEF OneWriter, OpenAhead, OpenOnePerPosition
<1>4. LogBehind'
  BY Zenon, <1>1 DEF LogBehind, OpenAhead, AppendInv
<1>5. OnePerPosition'
  <2>1. \A d \in log, e \in open[a] : d.position < e.position /\ d.position # e.position
    <3> SUFFICES ASSUME NEW d \in log, NEW e \in open[a]
                 PROVE  d.position < e.position /\ d.position # e.position
      BY Zenon
    <3>1. d.position < e.position
      BY Zenon DEF AppendInv, OpenAhead
    <3>2. d \in Events /\ e \in Events
      BY Zenon DEF ProjectionTypeOK
    <3>3. d.position \in Nat /\ e.position \in Nat
      BY <3>2 DEF Events, Positions
    <3> QED BY <3>1, <3>3
  <2> QED BY Zenon, <1>1, <2>1 DEF AppendInv, OnePerPosition, OpenOnePerPosition
<1>6. HeadCoversLog'
  <2>1. head \in 0..MaxPosition /\ open[a] \in SUBSET Events /\ log \in SUBSET Events
    BY Zenon DEF ProjectionTypeOK
  <2>2. /\ HeadAfter(a) \in 0..MaxPosition /\ head <= HeadAfter(a)
        /\ \A e \in open[a] : e.position <= HeadAfter(a)
    BY Zenon, <2>1, MaxWithEvents DEF HeadAfter
  <2>3. \A e \in log : e.position <= HeadAfter(a)
    <3> TAKE e \in log
    <3>1. e.position \in 0..MaxPosition
      BY Zenon, <2>1, EventFields
    <3>2. e.position <= head
      BY Zenon DEF AppendInv, HeadCoversLog
    <3> QED BY <2>1, <2>2, <3>1, <3>2
  <2> QED BY Zenon, <1>1, <2>2, <2>3 DEF HeadCoversLog
<1> QED BY Zenon, <1>3, <1>4, <1>5, <1>6 DEF AppendInv

\* Every step keeps the log in order.
LEMMA AppendNext ==
  ASSUME ProjectionTypeOK, AppendInv, [ProjectionNext]_projectionVars
  PROVE  AppendInv'
<1>1. ASSUME NEW a \in Appenders, RollbackAppend(a)
      PROVE  AppendInv'
  <2>1. \A b \in Appenders : open'[b] = {} \/ open'[b] = open[b]
    BY Zenon, <1>1 DEF RollbackAppend, ProjectionTypeOK
  <2> QED BY Zenon, <1>1, <2>1
          DEF RollbackAppend, AppendInv, OneWriter, OpenAhead, LogBehind,
              OnePerPosition, OpenOnePerPosition, HeadCoversLog
<1>2. CASE OtherScopeAppends
  <2>1. sequence' = sequence + 1 /\ UNCHANGED <<open, log, head>>
    BY Zenon, <1>2 DEF OtherScopeAppends
  <2>2. \A e \in Events : e.position <= sequence => e.position <= sequence'
    <3> SUFFICES ASSUME NEW e \in Events, e.position <= sequence
                 PROVE  e.position <= sequence'
      BY Zenon
    <3>1. e.position \in 0..MaxPosition /\ sequence \in 0..MaxPosition
      BY Zenon, EventFields DEF ProjectionTypeOK
    <3> QED BY <2>1, <3>1
  <2> QED BY Zenon, <2>1, <2>2
          DEF ProjectionTypeOK, AppendInv, OneWriter, OpenAhead, LogBehind,
              OnePerPosition, OpenOnePerPosition, HeadCoversLog
<1>3. CASE AppendStep
  BY Zenon, <1>1, <1>2, <1>3, AppendEventsKeeps, CommitAppendKeeps DEF AppendStep
<1>4. CASE ~AppendStep
  BY Zenon, <1>4, LogUntouched
  DEF appendVars, AppendInv, OneWriter, OpenAhead, LogBehind,
      OnePerPosition, OpenOnePerPosition, HeadCoversLog
<1> QED BY Zenon, <1>3, <1>4

-----------------------------------------------------------------------------
(* Reading: what a pass holds is the next stretch of the log.              *)

\* Nobody reads in the initial state.
LEMMA ReadInit ==
  ASSUME ProjectionInit
  PROVE  ReadInv
<1>1. \A k \in Passes : batch[k] = {} /\ stage[k] # "reading"
  BY Zenon DEF ProjectionInit
<1> QED BY Zenon, <1>1 DEF ProjectionInit, ReadInv, CheckpointRead, OneReader,
             OnlyReaderHolds, BatchesContiguous, Contiguous

\* A step that starts and ends no pass and leaves log and checkpoint alone.
LEMMA QuietRead ==
  ASSUME ReadInv, UNCHANGED <<log, checkpoint, batch>>,
         \A k \in Passes : stage'[k] = "reading" <=> stage[k] = "reading"
  PROVE  ReadInv'
BY Zenon DEF ReadInv, CheckpointRead, OneReader, OnlyReaderHolds, BatchesContiguous,
             Contiguous

\* A pass that ends without a commit.
LEMMA DropRead ==
  ASSUME ProjectionTypeOK, ReadInv, UNCHANGED <<log, checkpoint>>,
         NEW k \in Passes, NEW next, next # "reading",
         stage' = [stage EXCEPT ![k] = next], batch' = [batch EXCEPT ![k] = {}]
  PROVE  ReadInv'
<1>1. /\ stage'[k] # "reading" /\ batch'[k] = {}
      /\ \A j \in Passes : j # k => stage'[j] = stage[j] /\ batch'[j] = batch[j]
  BY Zenon DEF ProjectionTypeOK
<1>2. CheckpointRead'
  BY Zenon DEF ReadInv, CheckpointRead
<1>3. OneReader' /\ OnlyReaderHolds'
  BY Zenon, <1>1 DEF ReadInv, OneReader, OnlyReaderHolds
<1>4. BatchesContiguous'
  <2> SUFFICES ASSUME NEW j \in Passes PROVE Contiguous(batch[j])'
    BY Zenon DEF BatchesContiguous
  <2>1. CASE j = k
    BY Zenon, <1>1, <2>1 DEF Contiguous
  <2>2. CASE j # k
    BY Zenon, <1>1, <2>2 DEF ReadInv, BatchesContiguous, Contiguous
  <2> QED BY Zenon, <2>1, <2>2
<1> QED BY Zenon, <1>2, <1>3, <1>4 DEF ReadInv

\* Who else holds a batch while a pass reads: nobody.
LEMMA OtherBatchesEmpty ==
  ASSUME ReadInv, NEW k \in Passes, stage[k] = "reading" \/ ~Busy, NEW j \in Passes, j # k
  PROVE  stage[j] # "reading" /\ batch[j] = {}
BY Zenon DEF ReadInv, OneReader, OnlyReaderHolds, Busy

(* The first EventLimit events behind the checkpoint leave no gap: between  *)
(* two of them there is no other (read_scope's ORDER BY and LIMIT).         *)
LEMMA ReadableContiguous ==
  ASSUME ProjectionTypeOK, AppendInv, NEW through \in Nat
  PROVE  Contiguous(Readable(through))
<1> DEFINE U == Unread(through)
           Before(e) == {d \in U : d.position < e.position}
<1>1. U \subseteq log /\ log \subseteq Events
  BY Zenon DEF Unread, ProjectionTypeOK
<1>2. IsFiniteSet(U)
  <2> DEFINE f == [e \in U |-> e.position]
  <2>1. f \in [U -> Positions]
    BY Zenon, <1>1, EventFields
  <2>2. \A d, e \in U : f[d] = f[e] => d = e
    BY Zenon, <1>1 DEF AppendInv, OnePerPosition
  <2>3. f \in Injection(U, Positions)
    BY Zenon, <2>1, <2>2 DEF Injection, IsInjective
  <2>4. IsFiniteSet(Positions)
    BY FS_Interval, ProjectionAssumption DEF Positions
  <2> HIDE DEF f
  <2> QED BY Zenon, <2>3, <2>4, FS_Injection
<1>3. ASSUME NEW e \in Readable(through), NEW d \in log,
             checkpoint < d.position, d.position <= e.position
      PROVE  d \in Readable(through)
  <2>1. e \in U /\ Cardinality(Before(e)) < EventLimit
    BY Zenon DEF Readable
  <2>2. e.position <= through
    BY Zenon, <2>1 DEF Unread
  <2>3. e.position \in 0..MaxPosition /\ d.position \in 0..MaxPosition
    BY Zenon, <1>1, <2>1, EventFields
  <2>4. d.position <= through
    BY <1>3, <2>2, <2>3
  <2>5. d \in U
    BY Zenon, <1>3, <2>4 DEF Unread
  <2>6. Before(d) \in SUBSET Before(e)
    <3> SUFFICES ASSUME NEW c \in U, c.position < d.position PROVE c.position < e.position
      BY Zenon
    <3>1. c.position \in 0..MaxPosition
      BY Zenon, <1>1, EventFields
    <3> QED BY <1>3, <2>3, <3>1
  <2>7. Before(e) \in SUBSET U
    BY Zenon
  <2> HIDE DEF U, Before
  <2>8. IsFiniteSet(Before(e)) /\ Cardinality(Before(e)) \in Nat
    BY Zenon, <1>2, <2>7, FS_Subset, FS_CardinalityType
  <2>9. Cardinality(Before(d)) <= Cardinality(Before(e)) /\ Cardinality(Before(d)) \in Nat
    BY Zenon, <2>6, <2>8, FS_Subset, FS_CardinalityType
  <2>10. Cardinality(Before(d)) < EventLimit
    BY <2>1, <2>8, <2>9, ProjectionAssumption
  <2> QED BY Zenon, <2>5, <2>10 DEF Readable, U, Before
<1>4. Readable(through) \subseteq log /\ \A e \in Readable(through) : checkpoint < e.position
  BY Zenon DEF Readable, Unread
<1> QED BY Zenon, <1>3, <1>4 DEF Contiguous

\* A pass that begins is the only one, and its batch has no gap.
LEMMA BeginRead ==
  ASSUME ProjectionTypeOK, AppendInv, ReadInv, NEW k \in Passes, NEW through \in Nat,
         BeginPass(k, through)
  PROVE  ReadInv'
<1>1. /\ ~Busy /\ UNCHANGED <<log, checkpoint>>
      /\ stage' = [stage EXCEPT ![k] = "reading"]
      /\ batch' = [batch EXCEPT ![k] = Readable(through)]
  BY Zenon DEF BeginPass, appendVars
<1>2. /\ stage'[k] = "reading" /\ batch'[k] = Readable(through)
      /\ \A j \in Passes : j # k => stage'[j] # "reading" /\ batch'[j] = {}
  BY Zenon, <1>1, OtherBatchesEmpty DEF ProjectionTypeOK
<1>3. CheckpointRead'
  BY Zenon, <1>1 DEF ReadInv, CheckpointRead
<1>4. OneReader' /\ OnlyReaderHolds'
  BY Zenon, <1>2 DEF OneReader, OnlyReaderHolds
<1>5. BatchesContiguous'
  <2> SUFFICES ASSUME NEW j \in Passes PROVE Contiguous(batch[j])'
    BY Zenon DEF BatchesContiguous
  <2>1. CASE j = k
    <3>1. Contiguous(Readable(through))
      BY Zenon, ReadableContiguous
    <3> QED BY Zenon, <1>1, <1>2, <2>1, <3>1 DEF Contiguous
  <2>2. CASE j # k
    BY Zenon, <1>2, <2>2 DEF Contiguous
  <2> QED BY Zenon, <2>1, <2>2
<1> QED BY Zenon, <1>3, <1>4, <1>5 DEF ReadInv

\* A pass that commits leaves nobody reading and a checkpoint in the log.
LEMMA CommitRead ==
  ASSUME ProjectionTypeOK, ReadInv, NEW k \in Passes, CommitPass(k),
         NEW next, next # "reading", stage' = [stage EXCEPT ![k] = next]
  PROVE  ReadInv'
<1>1. /\ stage[k] = "reading" /\ log' = log /\ checkpoint' = LastRead(k)
      /\ batch' = [batch EXCEPT ![k] = {}]
  BY Zenon DEF CommitPass, appendVars
<1>2. \A j \in Passes : stage'[j] # "reading" /\ batch'[j] = {}
  BY Zenon, <1>1, OtherBatchesEmpty DEF ProjectionTypeOK
<1>3. CheckpointRead'
  <2>1. CASE LastRead(k) = checkpoint
    BY Zenon, <1>1, <2>1 DEF ReadInv, CheckpointRead
  <2>2. CASE \E e \in batch[k] : e.position = LastRead(k)
    <3>1. PICK e \in batch[k] : e.position = LastRead(k)
      BY Zenon, <2>2
    <3>2. e \in log
      BY Zenon DEF ReadInv, BatchesContiguous, Contiguous
    <3>3. LastRead(k) \in 0..MaxPosition
      BY Zenon, LastReadIs
    <3>4. LastRead(k) <= e.position
      BY <3>1, <3>3
    <3> QED BY Zenon, <1>1, <3>2, <3>4 DEF CheckpointRead
  <2> QED BY Zenon, <2>1, <2>2, LastReadIs
<1> QED BY Zenon, <1>2, <1>3 DEF ReadInv, OneReader, OnlyReaderHolds, BatchesContiguous,
                                 Contiguous

\* A commit lands ahead of everything a pass has read.
LEMMA CommitAppendRead ==
  ASSUME ProjectionTypeOK, AppendInv, ReadInv, NEW a \in Appenders, CommitAppend(a)
  PROVE  ReadInv'
<1>1. log' = log \cup open[a] /\ UNCHANGED <<checkpoint, stage, batch>>
  BY Zenon DEF CommitAppend, passVars
<1>2. CheckpointRead'
  BY Zenon, <1>1 DEF ReadInv, CheckpointRead
<1>3. OneReader' /\ OnlyReaderHolds'
  BY Zenon, <1>1 DEF ReadInv, OneReader, OnlyReaderHolds
<1>4. BatchesContiguous'
  <2> SUFFICES ASSUME NEW k \in Passes PROVE Contiguous(batch[k])'
    BY Zenon DEF BatchesContiguous
  <2>1. Contiguous(batch[k])
    BY Zenon DEF ReadInv, BatchesContiguous
  <2>2. \A d \in open[a], e \in batch[k] : ~(d.position <= e.position)
    <3> SUFFICES ASSUME NEW d \in open[a], NEW e \in batch[k]
                 PROVE  ~(d.position <= e.position)
      BY Zenon
    <3>1. e \in log
      BY Zenon, <2>1 DEF Contiguous
    <3>2. e.position < d.position
      BY Zenon, <3>1 DEF AppendInv, OpenAhead
    <3>3. e \in Events /\ d \in Events
      BY Zenon, <3>1 DEF ProjectionTypeOK
    <3>4. e.position \in 0..MaxPosition /\ d.position \in 0..MaxPosition
      BY Zenon, <3>3, EventFields
    <3> QED BY <3>2, <3>4
  <2> QED BY Zenon, <1>1, <2>1, <2>2 DEF Contiguous
<1> QED BY Zenon, <1>2, <1>3, <1>4 DEF ReadInv

\* Every step of a projector pass keeps batches contiguous.
LEMMA PassRead ==
  ASSUME ProjectionTypeOK, AppendInv, ReadInv, NEW k \in Projectors, PassStep(k)
  PROVE  ReadInv'
<1> USE DEF appendVars
<1>0. k \in Passes
  BY Zenon DEF Passes
<1>1. CASE ListPending(k) \/ YieldPass(k) \/ RecordScopeFailure(k)
  <2>1. \A j \in Passes : stage'[j] = "reading" <=> stage[j] = "reading"
    BY Zenon, <1>0, <1>1 DEF ListPending, YieldPass, RecordScopeFailure, ProjectionTypeOK
  <2>2. UNCHANGED <<log, checkpoint, batch>>
    BY Zenon, <1>1 DEF ListPending, YieldPass, RecordScopeFailure
  <2> QED BY Zenon, <2>1, <2>2, QuietRead
<1>2. CASE BeginProjectorPass(k)
  BY Zenon, <1>0, <1>2, BeginRead, ProjectionAssumption DEF BeginProjectorPass
<1>3. CASE CommitProjectorPass(k)
  BY Zenon, <1>0, <1>3, CommitRead DEF CommitProjectorPass
<1> QED BY Zenon, <1>1, <1>2, <1>3 DEF PassStep

\* Every step of a recovery keeps batches contiguous.
LEMMA RecoveryRead ==
  ASSUME ProjectionTypeOK, AppendInv, ReadInv, RequestRecovery \/ RecoveryStep
  PROVE  ReadInv'
<1> USE DEF appendVars, passVars
<1>0. Rebuilder \in Passes
  BY Zenon DEF Passes
<1>1. CASE RequestRecovery \/ MarkScope \/ ClearScope \/ FinishRequest
  <2>1. UNCHANGED <<log, checkpoint, batch, stage>>
    BY Zenon, <1>1 DEF RequestRecovery, MarkScope, ClearScope, FinishRequest
  <2> QED BY Zenon, <2>1, QuietRead
<1>2. CASE FinishReplay
  <2>1. \A j \in Passes : stage'[j] = "reading" <=> stage[j] = "reading"
    BY Zenon, <1>0, <1>2 DEF FinishReplay, ReplayDone, ProjectionTypeOK
  <2>2. UNCHANGED <<log, checkpoint, batch>>
    BY Zenon, <1>2 DEF FinishReplay
  <2> QED BY Zenon, <2>1, <2>2, QuietRead
<1>3. CASE DeleteScope
  <2>1. \A k \in Passes : stage'[k] # "reading" /\ batch'[k] = {}
    BY Zenon, <1>3 DEF DeleteScope, Busy, ReadInv, OnlyReaderHolds
  <2>2. checkpoint' = 0
    BY Zenon, <1>3 DEF DeleteScope
  <2> QED BY Zenon, <2>1, <2>2 DEF ReadInv, CheckpointRead, OneReader, OnlyReaderHolds,
                                  BatchesContiguous, Contiguous
<1>4. CASE ReplayPass
  <2>1. target \in Nat
    <3>1. target \in 0..MaxPosition
      BY Zenon DEF ProjectionTypeOK
    <3> QED BY <3>1
  <2> QED BY Zenon, <1>0, <1>4, <2>1, BeginRead DEF ReplayPass
<1>5. CASE CommitReplayPass
  <2>1. (IF batch[Rebuilder] = {} THEN "done" ELSE "idle") # "reading"
    BY Zenon
  <2> QED BY Zenon, <1>0, <1>5, <2>1, CommitRead DEF CommitReplayPass
<1> QED BY Zenon, <1>1, <1>2, <1>3, <1>4, <1>5 DEF RecoveryStep

\* Every step keeps batches contiguous.
LEMMA ReadNext ==
  ASSUME ProjectionTypeOK, AppendInv, ReadInv, [ProjectionNext]_projectionVars
  PROVE  ReadInv'
<1>1. ASSUME UNCHANGED <<log, checkpoint, batch, stage>>
      PROVE  ReadInv'
  BY Zenon, <1>1, QuietRead
<1>2. CASE UNCHANGED projectionVars
  BY Zenon, <1>1, <1>2 DEF projectionVars, appendVars, passVars
<1>3. CASE AppendStep
  <2>1. ASSUME NEW a \in Appenders, NEW r \in Runs, NEW n \in 1..2, NEW asks \in BOOLEAN,
               AppendEvents(a, r, n, asks)
        PROVE  ReadInv'
    BY Zenon, <1>1, <2>1 DEF AppendEvents, passVars
  <2>2. ASSUME NEW a \in Appenders, RollbackAppend(a)
        PROVE  ReadInv'
    BY Zenon, <1>1, <2>2 DEF RollbackAppend, passVars
  <2>3. CASE OtherScopeAppends
    BY Zenon, <1>1, <2>3 DEF OtherScopeAppends, passVars
  <2> QED BY Zenon, <1>3, <2>1, <2>2, <2>3, CommitAppendRead DEF AppendStep
<1>4. ASSUME NEW p \in Positions, DeliverNotice(p) \/ PurgeOutbox(p)
      PROVE  ReadInv'
  BY Zenon, <1>1, <1>4 DEF DeliverNotice, PurgeOutbox, appendVars, passVars
<1>5. CASE Faulty
  <2>1. ASSUME NEW k \in Projectors, FailPass(k) \/ CrashProjector(k)
        PROVE  ReadInv'
    <3>1. k \in Passes /\ "failed" # "reading" /\ "idle" # "reading"
      BY Zenon DEF Passes
    <3> QED BY Zenon, <2>1, <3>1, DropRead DEF FailPass, CrashProjector, appendVars
  <2>2. ASSUME NEW k \in Projectors, QuarantineFails(k)
        PROVE  ReadInv'
    <3>1. \A j \in Passes : stage'[j] = "reading" <=> stage[j] = "reading"
      BY Zenon, <2>2 DEF QuarantineFails, ProjectionTypeOK, Passes
    <3>2. UNCHANGED <<log, checkpoint, batch>>
      BY Zenon, <2>2 DEF QuarantineFails, appendVars
    <3> QED BY Zenon, <3>1, <3>2, QuietRead
  <2>3. ASSUME NEW next \in {"none", "pending"}, RecoveryStops(next)
        PROVE  ReadInv'
    <3>1. Rebuilder \in Passes /\ "idle" # "reading"
      BY Zenon DEF Passes
    <3> QED BY Zenon, <2>3, <3>1, DropRead DEF RecoveryStops, appendVars
  <2> QED BY Zenon, <1>5, <2>1, <2>2, <2>3 DEF Faulty
<1> QED
  BY Zenon, <1>2, <1>3, <1>4, <1>5, PassRead, RecoveryRead DEF ProjectionNext

-----------------------------------------------------------------------------
(* Notices.                                                                *)

\* No notice is recorded in the initial state.
LEMMA NoticeInit ==
  ASSUME ProjectionInit
  PROVE  NoticeInv
<1>1. Rebuilder \in Passes
  BY Zenon DEF Passes
<1> QED BY Zenon, <1>1 DEF ProjectionInit, NoticeInv, RebuilderIdle, NoticesBehind, NoticeOnce

\* A step that leaves log, checkpoint, notices and the recovery alone.
LEMMA QuietNotice ==
  ASSUME NoticeInv, UNCHANGED <<log, checkpoint, outbox, inserted, recovery, recoveries>>,
         stage'[Rebuilder] = stage[Rebuilder]
  PROVE  NoticeInv'
BY Zenon DEF NoticeInv, RebuilderIdle, NoticesBehind, NoticeOnce

\* What is committed is ahead of the checkpoint.
LEMMA CommitAheadOfCheckpoint ==
  ASSUME ProjectionTypeOK, AppendInv, ReadInv, NEW a \in Appenders, NEW e \in open[a]
  PROVE  e.position \in Positions /\ checkpoint < e.position /\ ~(e.position <= checkpoint)
<1>1. e \in Events /\ checkpoint \in 0..MaxPosition
  BY Zenon DEF ProjectionTypeOK
<1>2. e.position \in Positions
  BY Zenon, <1>1, EventFields
<1>3. e.position \in Nat /\ 0 < e.position
  BY <1>2 DEF Positions
<1>4. CASE checkpoint = 0
  BY <1>2, <1>3, <1>4
<1>5. CASE \E d \in log : checkpoint <= d.position
  <2>1. PICK d \in log : checkpoint <= d.position
    BY Zenon, <1>5
  <2>2. d.position < e.position
    BY Zenon DEF AppendInv, OpenAhead
  <2>3. d \in Events
    BY Zenon DEF ProjectionTypeOK
  <2>4. d.position \in 0..MaxPosition
    BY Zenon, <2>3, EventFields
  <2> QED BY <1>1, <1>2, <1>3, <2>1, <2>2, <2>4
<1> QED BY Zenon, <1>4, <1>5 DEF ReadInv, CheckpointRead

\* Events just committed have no notice and are owed none yet.
LEMMA CommitAppendNotice ==
  ASSUME ProjectionTypeOK, AppendInv, ReadInv, NoticeInv, NEW a \in Appenders, CommitAppend(a)
  PROVE  NoticeInv'
<1>1. /\ log' = log \cup open[a]
      /\ UNCHANGED <<checkpoint, outbox, inserted, stage, recovery, recoveries>>
  BY Zenon DEF CommitAppend, noticeVars, passVars, recoveryVars
<1> SUFFICES ASSUME recoveries = 0 PROVE (RebuilderIdle /\ NoticesBehind /\ NoticeOnce)'
  BY Zenon, <1>1 DEF NoticeInv
<1>2. RebuilderIdle' /\ NoticesBehind'
  BY Zenon, <1>1 DEF NoticeInv, RebuilderIdle, NoticesBehind
<1>3. ASSUME NEW e \in open[a]
      PROVE  inserted[e.position] = IF e.asks /\ e.position <= checkpoint THEN 1 ELSE 0
  BY Zenon, CommitAheadOfCheckpoint DEF NoticeInv, NoticesBehind
<1>4. NoticeOnce'
  BY Zenon, <1>1, <1>3 DEF NoticeInv, NoticeOnce
<1> QED BY Zenon, <1>2, <1>4

(* A pass that commits records exactly the notices its batch asks for:      *)
(* nothing in the batch had one, and nothing between the old and the new    *)
(* checkpoint is missing from the batch.                                    *)
LEMMA CommitPassNotice ==
  ASSUME ProjectionTypeOK, AppendInv, ReadInv, NoticeInv, recoveries = 0,
         NEW k \in Projectors, CommitPass(k)
  PROVE  NoticesBehind' /\ NoticeOnce'
<1>1. /\ log' = log /\ checkpoint' = LastRead(k)
      /\ outbox' = [p \in Positions |-> IF Notifies(k, p) THEN "pending" ELSE outbox[p]]
      /\ inserted' = [p \in Positions |-> inserted[p] + IF Notifies(k, p) THEN 1 ELSE 0]
  BY Zenon DEF CommitPass, appendVars
<1>2. k \in Passes /\ k # Rebuilder
  BY Zenon, ProjectionAssumption DEF Passes
<1>3. /\ LastRead(k) \in 0..MaxPosition /\ checkpoint <= LastRead(k)
      /\ \A e \in batch[k] : e.position <= LastRead(k)
      /\ LastRead(k) = checkpoint \/ \E e \in batch[k] : e.position = LastRead(k)
  BY Zenon, <1>2, LastReadIs
<1>4. Contiguous(batch[k])
  BY Zenon, <1>2 DEF ReadInv, BatchesContiguous
<1>5. NoticesBehind /\ NoticeOnce
  BY Zenon DEF NoticeInv
<1>6. checkpoint \in 0..MaxPosition /\ \A p \in Positions : inserted[p] \in Nat
  BY Zenon DEF ProjectionTypeOK
<1>7. \A p \in Positions : Notifies(k, p) => checkpoint < p /\ p <= LastRead(k) /\ inserted[p] = 0
  BY Zenon, <1>3, <1>4, <1>5 DEF Notifies, Contiguous, NoticesBehind
<1>8. \A p \in Positions : inserted'[p] = IF Notifies(k, p) THEN 1 ELSE inserted[p]
  <2> SUFFICES ASSUME NEW p \in Positions
               PROVE  inserted'[p] = IF Notifies(k, p) THEN 1 ELSE inserted[p]
    BY Zenon
  <2>1. inserted'[p] = inserted[p] + IF Notifies(k, p) THEN 1 ELSE 0
    BY Zenon, <1>1
  <2>2. inserted[p] \in Nat /\ (Notifies(k, p) => inserted[p] = 0)
    BY Zenon, <1>6, <1>7
  <2> QED BY <2>1, <2>2
<1>9. NoticesBehind'
  <2>1. ASSUME NEW p \in Positions, inserted'[p] = 0
        PROVE  outbox'[p] = "absent"
    <3>1. ~Notifies(k, p)
      <4>1. 1 # 0
        OBVIOUS
      <4> QED BY Zenon, <1>8, <2>1, <4>1
    <3> QED BY Zenon, <1>1, <1>5, <1>8, <2>1, <3>1 DEF NoticesBehind
  <2>2. ASSUME NEW p \in Positions, LastRead(k) < p
        PROVE  inserted'[p] = 0
    <3>1. ~(p <= LastRead(k)) /\ checkpoint < p
      BY <1>3, <1>6, <2>2 DEF Positions
    <3> QED BY Zenon, <1>5, <1>7, <1>8, <3>1 DEF NoticesBehind
  <2> QED BY Zenon, <1>1, <2>1, <2>2 DEF NoticesBehind
<1>10. NoticeOnce'
  <2> SUFFICES ASSUME NEW e \in log
               PROVE  inserted'[e.position] =
                        IF e.asks /\ e.position <= LastRead(k) THEN 1 ELSE 0
    BY Zenon, <1>1 DEF NoticeOnce
  <2>1. e \in Events
    BY Zenon DEF ProjectionTypeOK
  <2>2. e.position \in Positions /\ e.position \in 0..MaxPosition
    BY Zenon, <2>1, EventFields
  <2>3. inserted[e.position] = IF e.asks /\ e.position <= checkpoint THEN 1 ELSE 0
    BY Zenon, <1>5 DEF NoticeOnce
  <2>4. CASE e.position <= checkpoint
    <3>1. e.position <= LastRead(k) /\ ~(checkpoint < e.position)
      BY <1>3, <1>6, <2>2, <2>4
    <3>2. ~Notifies(k, e.position)
      BY Zenon, <1>7, <2>2, <3>1
    <3> QED BY Zenon, <1>8, <2>2, <2>3, <2>4, <3>1, <3>2
  <2>5. CASE checkpoint < e.position /\ e.position <= LastRead(k)
    <3>1. e \in batch[k]
      <4>1. LastRead(k) # checkpoint
        BY <1>6, <2>2, <2>5
      <4>2. PICK d \in batch[k] : d.position = LastRead(k)
        BY Zenon, <1>3, <4>1
      <4> QED BY Zenon, <1>4, <2>5, <4>2 DEF Contiguous
    <3>2. inserted[e.position] = 0 /\ outbox[e.position] = "absent"
      BY Zenon, <1>5, <2>2, <2>5 DEF NoticesBehind
    <3>3. Notifies(k, e.position) <=> e.asks
      BY Zenon, <1>2, <1>4, <3>1, <3>2 DEF Notifies, Contiguous, AppendInv, OnePerPosition
    <3> QED BY Zenon, <1>8, <2>2, <2>5, <3>2, <3>3
  <2>6. CASE ~(e.position <= LastRead(k))
    <3>1. ~(e.position <= checkpoint)
      BY <1>3, <1>6, <2>2, <2>6
    <3>2. ~Notifies(k, e.position)
      BY Zenon, <1>7, <2>2, <2>6
    <3> QED BY Zenon, <1>8, <2>2, <2>3, <2>6, <3>1, <3>2
  <2>7. e.position <= checkpoint \/ checkpoint < e.position
    BY <1>6, <2>2
  <2> QED BY Zenon, <2>4, <2>5, <2>6, <2>7
<1> QED BY Zenon, <1>9, <1>10

\* Every step of a projector, failing ones included, keeps notices exact.
LEMMA PassNotice ==
  ASSUME ProjectionTypeOK, AppendInv, ReadInv, NoticeInv, NEW k \in Projectors,
         PassStep(k) \/ FailPass(k) \/ QuarantineFails(k) \/ CrashProjector(k)
  PROVE  NoticeInv'
<1> USE DEF appendVars, noticeVars, recoveryVars
<1>1. k # Rebuilder /\ Rebuilder \in Passes
  BY Zenon, ProjectionAssumption DEF Passes
<1>2. stage'[Rebuilder] = stage[Rebuilder] /\ UNCHANGED <<log, recovery, recoveries>>
  BY Zenon, <1>1
  DEF PassStep, ListPending, YieldPass, BeginProjectorPass, BeginPass, CommitProjectorPass,
      CommitPass, RecordScopeFailure, FailPass, QuarantineFails, CrashProjector,
      ProjectionTypeOK
<1>3. CASE CommitProjectorPass(k)
  <2> SUFFICES ASSUME recoveries = 0 PROVE (RebuilderIdle /\ NoticesBehind /\ NoticeOnce)'
    BY Zenon, <1>2 DEF NoticeInv
  <2>1. RebuilderIdle'
    BY Zenon, <1>2 DEF NoticeInv, RebuilderIdle
  <2> QED BY Zenon, <1>3, <2>1, CommitPassNotice DEF CommitProjectorPass
<1>4. CASE ~CommitProjectorPass(k)
  <2>1. UNCHANGED <<checkpoint, outbox, inserted>>
    BY Zenon, <1>4
    DEF PassStep, ListPending, YieldPass, BeginProjectorPass, BeginPass,
        RecordScopeFailure, FailPass, QuarantineFails, CrashProjector
  <2> QED BY Zenon, <1>2, <2>1, QuietNotice
<1> QED BY Zenon, <1>3, <1>4

\* A recovery step is preceded by a request, which the counter remembers.
LEMMA RecoveryNotice ==
  ASSUME ProjectionTypeOK, NoticeInv,
         \/ RequestRecovery \/ RecoveryStep
         \/ \E next \in {"none", "pending"} : RecoveryStops(next)
  PROVE  NoticeInv'
<1>1. CASE RequestRecovery
  <2>1. recoveries \in Nat /\ recoveries' = recoveries + 1
    BY Zenon, <1>1 DEF RequestRecovery, ProjectionTypeOK
  <2>2. recoveries' # 0
    BY <2>1
  <2> QED BY Zenon, <2>2 DEF NoticeInv
<1>2. CASE RecoveryStep \/ \E next \in {"none", "pending"} : RecoveryStops(next)
  <2>1. recoveries' = recoveries
    BY Zenon, <1>2
    DEF RecoveryStep, RecoveryStops, MarkScope, DeleteScope, ReplayPass, BeginPass,
        CommitReplayPass, CommitPass, FinishReplay, ClearScope, FinishRequest, recoveryVars
  <2>2. ~RebuilderIdle
    BY Zenon, <1>2
    DEF RecoveryStep, RecoveryStops, MarkScope, DeleteScope, ReplayPass, CommitReplayPass,
        CommitPass, FinishReplay, ClearScope, FinishRequest, RebuilderIdle
  <2> QED BY Zenon, <2>1, <2>2 DEF NoticeInv
<1> QED BY Zenon, <1>1, <1>2

\* Delivering or purging a row does not look like a notice never recorded.
LEMMA OutboxNotice ==
  ASSUME ProjectionTypeOK, NoticeInv, NEW p \in Positions, DeliverNotice(p) \/ PurgeOutbox(p)
  PROVE  NoticeInv'
<1>1. UNCHANGED <<log, checkpoint, inserted, stage, recovery, recoveries>>
  BY Zenon DEF DeliverNotice, PurgeOutbox, appendVars, passVars, recoveryVars
<1>2. outbox[p] # "absent" /\ \A q \in Positions : q # p => outbox'[q] = outbox[q]
  BY Zenon DEF DeliverNotice, PurgeOutbox, ProjectionTypeOK
<1> QED BY Zenon, <1>1, <1>2 DEF NoticeInv, RebuilderIdle, NoticesBehind, NoticeOnce

\* Every step keeps notices exact until a recovery is requested.
LEMMA NoticeNext ==
  ASSUME ProjectionTypeOK, AppendInv, ReadInv, NoticeInv, [ProjectionNext]_projectionVars
  PROVE  NoticeInv'
<1> USE DEF noticeVars, passVars, recoveryVars
<1>1. CASE UNCHANGED projectionVars
  BY Zenon, <1>1, QuietNotice DEF projectionVars, appendVars
<1>2. CASE AppendStep
  <2>1. ASSUME NEW a \in Appenders, NEW r \in Runs, NEW n \in 1..2, NEW asks \in BOOLEAN,
               AppendEvents(a, r, n, asks)
        PROVE  NoticeInv'
    BY Zenon, <2>1, QuietNotice DEF AppendEvents
  <2>2. ASSUME NEW a \in Appenders, RollbackAppend(a)
        PROVE  NoticeInv'
    BY Zenon, <2>2, QuietNotice DEF RollbackAppend
  <2>3. CASE OtherScopeAppends
    BY Zenon, <2>3, QuietNotice DEF OtherScopeAppends
  <2> QED BY Zenon, <1>2, <2>1, <2>2, <2>3, CommitAppendNotice DEF AppendStep
<1>3. CASE Faulty
  BY Zenon, <1>3, PassNotice, RecoveryNotice DEF Faulty
<1> QED BY Zenon, <1>1, <1>2, <1>3, PassNotice, RecoveryNotice, OutboxNotice
        DEF ProjectionNext

-----------------------------------------------------------------------------
(* Rows.                                                                   *)

\* The positions of events are positions.
LEMMA PositionsOfType ==
  ASSUME NEW E \in SUBSET Events, NEW r
  PROVE  PositionsOf(E, r) \subseteq 1..MaxPosition
BY Zenon, EventFields DEF PositionsOf, Positions

\* The empty sequence is what a scope without events folds to.
LEMMA InOrderEmpty ==
  ASSUME NEW r
  PROVE  InOrder({}, r) = <<>>
<1>1. PositionsOf({}, r) = {}
  BY Zenon DEF PositionsOf
<1>2. Cardinality({}) = 0
  BY Zenon, FS_EmptySet
<1>3. InOrder({}, r) = Sorted({})
  BY Zenon, <1>1 DEF InOrder
<1>4. Sorted({}) \in [1..0 -> {}]
  <2>1. Sorted({}) \in [1..Cardinality({}) -> {}]
    BY Zenon, ProjectionAssumption, SortedType
  <2> QED BY Zenon, <1>2, <2>1
<1> QED BY <1>3, <1>4

\* Positions of the model.
PositionSet(S) == S \subseteq 1..MaxPosition

\* SortedConcat for positions of the model.
LEMMA PositionsConcat ==
  ASSUME NEW S, NEW T, PositionSet(S), PositionSet(T), Precedes(S, T)
  PROVE  Sorted(S \cup T) = Sorted(S) \o Sorted(T)
<1>1. MaxPosition \in Nat
  BY Zenon, ProjectionAssumption
<1>2. S \subseteq 1..MaxPosition /\ T \subseteq 1..MaxPosition
  BY Zenon DEF PositionSet
<1> QED BY ZenonT(30), <1>1, <1>2, SortedConcat

\* Two sets of events that lie behind each other sort one after the other.
LEMMA InOrderConcat ==
  ASSUME NEW D \in SUBSET Events, NEW E \in SUBSET Events, NEW r,
         \A d \in D, e \in E : d.position < e.position
  PROVE  InOrder(D \cup E, r) = InOrder(D, r) \o InOrder(E, r)
<1>1. PositionsOf(D \cup E, r) = PositionsOf(D, r) \cup PositionsOf(E, r)
  BY Zenon DEF PositionsOf
<1>2. Precedes(PositionsOf(D, r), PositionsOf(E, r))
  BY Zenon DEF PositionsOf, Precedes
<1>3. PositionSet(PositionsOf(D, r)) /\ PositionSet(PositionsOf(E, r))
  BY Zenon, PositionsOfType DEF PositionSet
<1> QED BY Zenon, <1>1, <1>2, <1>3, PositionsConcat DEF InOrder

\* The committed events up to a position.
LogUpTo(n) == {e \in log : e.position <= n}

\* A pass that commits extends every row by exactly the events it passes over.
LEMMA CommitPassPrefix ==
  ASSUME ProjectionTypeOK, ReadInv, ProjectionIsPrefix, NEW k \in Passes, CommitPass(k)
  PROVE  ProjectionIsPrefix'
<1>1. /\ log' = log /\ checkpoint' = LastRead(k)
      /\ row' = [r \in Runs |-> row[r] \o InOrder(batch[k], r)]
  BY Zenon DEF CommitPass, RowAfter, appendVars
<1>2. /\ LastRead(k) \in 0..MaxPosition /\ checkpoint <= LastRead(k)
      /\ \A e \in batch[k] : e.position <= LastRead(k)
      /\ LastRead(k) = checkpoint \/ \E e \in batch[k] : e.position = LastRead(k)
  BY Zenon, LastReadIs
<1>3. Contiguous(batch[k])
  BY Zenon DEF ReadInv, BatchesContiguous
<1>4. checkpoint \in 0..MaxPosition /\ \A e \in log : e.position \in 0..MaxPosition
  BY Zenon, EventFields DEF ProjectionTypeOK
<1>5. LogUpTo(LastRead(k)) = LogUpTo(checkpoint) \cup batch[k]
  <2>1. ASSUME NEW e \in log, e.position <= LastRead(k), ~(e.position <= checkpoint)
        PROVE  e \in batch[k]
    <3>1. checkpoint < e.position /\ LastRead(k) # checkpoint
      BY <1>2, <1>4, <2>1
    <3>2. PICK d \in batch[k] : d.position = LastRead(k)
      BY Zenon, <1>2, <3>1
    <3> QED BY Zenon, <1>3, <2>1, <3>1, <3>2 DEF Contiguous
  <2>2. ASSUME NEW e \in log, e.position <= checkpoint
        PROVE  e.position <= LastRead(k)
    BY <1>2, <1>4, <2>2
  <2> QED BY Zenon, <1>2, <1>3, <2>1, <2>2 DEF LogUpTo, Contiguous
<1>6. \A d \in LogUpTo(checkpoint), e \in batch[k] : d.position < e.position
  <2> SUFFICES ASSUME NEW d \in LogUpTo(checkpoint), NEW e \in batch[k]
               PROVE  d.position < e.position
    BY Zenon
  <2>1. d \in log /\ d.position <= checkpoint /\ e \in log /\ checkpoint < e.position
    BY Zenon, <1>3 DEF LogUpTo, Contiguous
  <2>2. d.position \in 0..MaxPosition /\ e.position \in 0..MaxPosition
    BY Zenon, <1>4, <2>1
  <2> QED BY <1>4, <2>1, <2>2
<1>7. LogUpTo(checkpoint) \in SUBSET Events /\ batch[k] \in SUBSET Events
  BY Zenon DEF LogUpTo, ProjectionTypeOK
<1>8. ASSUME NEW r \in Runs
      PROVE  row'[r] = InOrder(LogUpTo(LastRead(k)), r)
  <2>1. row[r] = InOrder(LogUpTo(checkpoint), r)
    BY Zenon DEF ProjectionIsPrefix, LogUpTo
  <2>2. InOrder(LogUpTo(checkpoint) \cup batch[k], r) =
          InOrder(LogUpTo(checkpoint), r) \o InOrder(batch[k], r)
    BY Zenon, <1>6, <1>7, InOrderConcat
  <2>3. row'[r] = row[r] \o InOrder(batch[k], r)
    BY Zenon, <1>1
  <2> QED BY Zenon, <1>5, <2>1, <2>2, <2>3
<1> QED BY Zenon, <1>1, <1>8 DEF ProjectionIsPrefix, LogUpTo

\* Every step keeps each row the fold of the log up to the checkpoint.
LEMMA PrefixNext ==
  ASSUME ProjectionTypeOK, AppendInv, ReadInv, ProjectionIsPrefix,
         [ProjectionNext]_projectionVars
  PROVE  ProjectionIsPrefix'
<1>1. ASSUME UNCHANGED <<log, checkpoint, row>>
      PROVE  ProjectionIsPrefix'
  BY Zenon, <1>1 DEF ProjectionIsPrefix
<1>2. ASSUME NEW a \in Appenders, CommitAppend(a)
      PROVE  ProjectionIsPrefix'
  <2>1. log' = log \cup open[a] /\ UNCHANGED <<checkpoint, row>>
    BY Zenon, <1>2 DEF CommitAppend
  <2>2. {e \in log' : e.position <= checkpoint'} = {e \in log : e.position <= checkpoint}
    BY Zenon, <2>1, CommitAheadOfCheckpoint
  <2> QED BY Zenon, <2>1, <2>2 DEF ProjectionIsPrefix
<1>3. CASE AppendStep
  BY Zenon, <1>1, <1>2, <1>3
  DEF AppendStep, AppendEvents, RollbackAppend, OtherScopeAppends
<1>4. ASSUME NEW k \in Projectors, PassStep(k)
      PROVE  ProjectionIsPrefix'
  <2>1. k \in Passes
    BY Zenon DEF Passes
  <2> QED BY Zenon, <1>1, <1>4, <2>1, CommitPassPrefix
          DEF PassStep, ListPending, YieldPass, BeginProjectorPass, BeginPass,
              CommitProjectorPass, RecordScopeFailure, appendVars
<1>5. CASE DeleteScope
  <2>1. log' = log /\ checkpoint' = 0 /\ row' = [r \in Runs |-> <<>>]
    BY Zenon, <1>5 DEF DeleteScope, NoRows, appendVars
  <2>2. {e \in log' : e.position <= checkpoint'} = {}
    <3> SUFFICES ASSUME NEW e \in log PROVE ~(e.position <= 0)
      BY Zenon, <2>1
    <3>1. e.position \in Positions
      BY Zenon, EventFields DEF ProjectionTypeOK
    <3> QED BY <3>1 DEF Positions
  <2> QED BY Zenon, <2>1, <2>2, InOrderEmpty DEF ProjectionIsPrefix
<1>6. CASE RequestRecovery \/ RecoveryStep
  <2>1. Rebuilder \in Passes
    BY Zenon DEF Passes
  <2> QED BY Zenon, <1>1, <1>5, <1>6, <2>1, CommitPassPrefix
          DEF RequestRecovery, RecoveryStep, MarkScope, ReplayPass, BeginPass,
              CommitReplayPass, FinishReplay, ClearScope, FinishRequest, appendVars
<1>7. CASE Faulty
  BY Zenon, <1>1, <1>7
  DEF Faulty, FailPass, QuarantineFails, CrashProjector, RecoveryStops, appendVars
<1>8. ASSUME NEW p \in Positions, DeliverNotice(p) \/ PurgeOutbox(p)
      PROVE  ProjectionIsPrefix'
  BY Zenon, <1>1, <1>8 DEF DeliverNotice, PurgeOutbox, appendVars
<1>9. CASE UNCHANGED projectionVars
  BY Zenon, <1>1, <1>9 DEF projectionVars, appendVars
<1> QED BY Zenon, <1>3, <1>4, <1>6, <1>7, <1>8, <1>9 DEF ProjectionNext

-----------------------------------------------------------------------------
(* The inductive invariant, and what follows from it.                      *)

(* The projection keeps its inductive invariant: commits in the order of    *)
(* their positions, one reader whose batch is the next stretch of the log,  *)
(* rows that fold exactly the prefix the checkpoint names (append,          *)
(* run_once, rebuild).                                                      *)
THEOREM ProjectionInvariance == ProjectionSpec => []ProjectionInv
<1>1. ProjectionInit => ProjectionInv
  <2> SUFFICES ASSUME ProjectionInit PROVE ProjectionInv
    BY Zenon
  <2>1. ProjectionIsPrefix
    <3>1. {e \in log : e.position <= checkpoint} = {} /\ \A r \in Runs : row[r] = <<>>
      BY Zenon DEF ProjectionInit, NoRows
    <3> QED BY Zenon, <3>1, InOrderEmpty DEF ProjectionIsPrefix
  <2> QED BY Zenon, <2>1, ProjectionTypeInit, AppendInit, ReadInit, NoticeInit
          DEF ProjectionInv
<1>2. ProjectionInv /\ [ProjectionNext]_projectionVars => ProjectionInv'
  BY Zenon, ProjectionTypeNext, AppendNext, ReadNext, NoticeNext, PrefixNext
  DEF ProjectionInv
<1> QED BY <1>1, <1>2, PTL DEF ProjectionSpec

(* The row of a Run has folded exactly the committed events of the Run up   *)
(* to the checkpoint, in order, for any number of appenders, projectors and *)
(* Runs, whatever fails, crashes or is rebuilt meanwhile.                   *)
THEOREM ProjectionIsPrefixTheorem == ProjectionSpec => []ProjectionIsPrefix
<1>1. ProjectionInv => ProjectionIsPrefix
  BY Zenon DEF ProjectionInv
<1> QED BY <1>1, ProjectionInvariance, PTL

(* Until somebody asks for a rebuild, every projected approval request has  *)
(* had its notice recorded exactly once.                                    *)
THEOREM NoticeOnceUnlessRebuiltTheorem == ProjectionSpec => []NoticeOnceUnlessRebuilt
<1>1. ProjectionInv => NoticeOnceUnlessRebuilt
  BY Zenon DEF ProjectionInv, NoticeInv, NoticeOnce, NoticeOnceUnlessRebuilt
<1> QED BY <1>1, ProjectionInvariance, PTL

(* A committed event behind which the checkpoint lags makes list_pending    *)
(* offer the scope: the head watermark is never behind the log.             *)
THEOREM HeadCoversLogTheorem == ProjectionSpec => []HeadCoversLog
<1>1. ProjectionInv => HeadCoversLog
  BY Zenon DEF ProjectionInv, AppendInv
<1> QED BY <1>1, ProjectionInvariance, PTL

-----------------------------------------------------------------------------
(* Rebuilding: what a finished replay has replayed.                        *)

\* Everything visible when the scope was deleted is projected again.
Replayed == \A e \in log : e.position <= target => e.position <= checkpoint

\* The target of a rebuild is not ahead of the log.
TargetVisible == target = 0 \/ \E e \in log : target <= e.position

\* The rebuilder works for a replaying recovery only; a replay without a
\* batch, a finished one and a recovery past it have replayed everything.
RebuildInv ==
  /\ TargetVisible
  /\ stage[Rebuilder] \in {"reading", "done"} => recovery = "replaying"
  /\ stage[Rebuilder] = "reading" /\ batch[Rebuilder] = {} => Replayed
  /\ stage[Rebuilder] = "done" => Replayed
  /\ recovery \in {"verified", "cleared"} => Replayed

(* A recovery lifts the quarantine of a scope only when every event that    *)
(* was visible at the deletion is projected again, also when projector      *)
(* passes and commits mix with the replay: rebuild ends with an empty pass  *)
(* of its own, and the limit of read_scope makes no pass empty.             *)
RebuildReplaysAll == recovery \in {"verified", "cleared"} => Replayed

\* read_scope returns nothing only when there is nothing left to read.
LEMMA EmptyReadable ==
  ASSUME ProjectionTypeOK, NEW through \in Nat, Readable(through) = {}
  PROVE  Unread(through) = {}
<1> DEFINE P == {n \in Nat : \E e \in Unread(through) : e.position = n}
<1>1. \A e \in Unread(through) : e.position \in Nat /\ e.position \in P
  <2> TAKE e \in Unread(through)
  <2>1. e \in Events
    BY Zenon DEF Unread, ProjectionTypeOK
  <2>2. e.position \in 0..MaxPosition
    BY Zenon, <2>1, EventFields
  <2>3. e.position \in Nat
    BY <2>2
  <2> QED BY Zenon, <2>3
<1> SUFFICES ASSUME NEW d \in Unread(through) PROVE FALSE
  BY Zenon
<1>2. P \subseteq Nat /\ P # {}
  BY Zenon, <1>1
<1>3. PICK n \in P : \A m \in P : ~(<<m, n>> \in OpToRel(<, Nat))
  <2> HIDE DEF P
  <2> QED BY Zenon, <1>2, NatLessThanWellFounded, WFMin
<1>4. \A m \in P : ~(m < n)
  BY Zenon, <1>2, <1>3 DEF OpToRel
<1>5. PICK e \in Unread(through) : e.position = n
  BY Zenon
<1>6. {c \in Unread(through) : c.position < e.position} = {}
  BY Zenon, <1>1, <1>4, <1>5
<1>7. Cardinality({c \in Unread(through) : c.position < e.position}) = 0
  BY Zenon, <1>6, FS_EmptySet
<1>8. Cardinality({c \in Unread(through) : c.position < e.position}) < EventLimit
  <2>1. 0 < EventLimit
    BY ProjectionAssumption
  <2> QED BY Zenon, <1>7, <2>1
<1> QED BY Zenon, <1>8 DEF Readable

\* A rebuild whose pass found nothing has replayed everything.
LEMMA NothingLeft ==
  ASSUME ProjectionTypeOK, Readable(target) = {}
  PROVE  Replayed
<1>1. target \in 0..MaxPosition /\ checkpoint \in 0..MaxPosition
  BY Zenon DEF ProjectionTypeOK
<1>2. target \in Nat
  BY <1>1
<1>3. Unread(target) = {}
  BY Zenon, <1>2, EmptyReadable
<1> SUFFICES ASSUME NEW e \in log, e.position <= target PROVE e.position <= checkpoint
  BY Zenon DEF Replayed
<1>4. e.position \in 0..MaxPosition
  BY Zenon, EventFields DEF ProjectionTypeOK
<1>5. ~(checkpoint < e.position)
  BY Zenon, <1>3 DEF Unread
<1> QED BY <1>1, <1>4, <1>5

\* A checkpoint that moves on loses nothing.
LEMMA CommitPassReplayed ==
  ASSUME ProjectionTypeOK, Replayed, NEW k \in Passes, CommitPass(k)
  PROVE  Replayed'
<1>1. log' = log /\ target' = target /\ checkpoint' = LastRead(k)
  BY Zenon DEF CommitPass, appendVars, recoveryVars
<1> SUFFICES ASSUME NEW e \in log, e.position <= target PROVE e.position <= LastRead(k)
  BY Zenon, <1>1 DEF Replayed
<1>2. e.position \in 0..MaxPosition
  BY Zenon, EventFields DEF ProjectionTypeOK
<1>3. e.position <= checkpoint
  BY Zenon DEF Replayed
<1>4. checkpoint \in 0..MaxPosition
  BY Zenon DEF ProjectionTypeOK
<1>5. LastRead(k) \in 0..MaxPosition /\ checkpoint <= LastRead(k)
  BY Zenon, LastReadIs
<1> QED BY <1>2, <1>3, <1>4, <1>5

\* What is committed during a rebuild is ahead of its target.
LEMMA CommitAheadOfTarget ==
  ASSUME ProjectionTypeOK, AppendInv, TargetVisible, NEW a \in Appenders, NEW e \in open[a]
  PROVE  ~(e.position <= target)
<1>1. e \in Events /\ target \in 0..MaxPosition
  BY Zenon DEF ProjectionTypeOK
<1>2. e.position \in Positions
  BY Zenon, <1>1, EventFields
<1>3. CASE target = 0
  BY <1>2, <1>3 DEF Positions
<1>4. CASE \E d \in log : target <= d.position
  <2>1. PICK d \in log : target <= d.position
    BY Zenon, <1>4
  <2>2. d.position < e.position
    BY Zenon DEF AppendInv, OpenAhead
  <2>3. d.position \in 0..MaxPosition
    BY Zenon, EventFields DEF ProjectionTypeOK
  <2> QED BY <1>1, <1>2, <2>1, <2>2, <2>3 DEF Positions
<1> QED BY Zenon, <1>3, <1>4 DEF TargetVisible

\* A step of somebody else that loses nothing of a replay.
LEMMA OthersRebuild ==
  ASSUME RebuildInv, TargetVisible', Replayed => Replayed', recovery' = recovery,
         stage'[Rebuilder] = stage[Rebuilder], batch'[Rebuilder] = batch[Rebuilder]
  PROVE  RebuildInv'
BY Zenon DEF RebuildInv

\* A step that leaves the log, the checkpoint and the recovery alone.
LEMMA QuietRebuild ==
  ASSUME RebuildInv, UNCHANGED <<log, checkpoint, target, recovery>>,
         stage'[Rebuilder] = stage[Rebuilder], batch'[Rebuilder] = batch[Rebuilder]
  PROVE  RebuildInv'
<1>1. TargetVisible' /\ (Replayed => Replayed')
  BY Zenon DEF RebuildInv, TargetVisible, Replayed
<1> QED BY Zenon, <1>1, OthersRebuild

\* Appending does not reach back behind the target.
LEMMA AppendRebuild ==
  ASSUME ProjectionTypeOK, AppendInv, RebuildInv, AppendStep
  PROVE  RebuildInv'
<1>1. ASSUME NEW a \in Appenders, CommitAppend(a)
      PROVE  RebuildInv'
  <2>1. log' = log \cup open[a] /\ UNCHANGED <<checkpoint, target, recovery, stage, batch>>
    BY Zenon, <1>1 DEF CommitAppend, passVars, recoveryVars
  <2>2. TargetVisible
    BY Zenon DEF RebuildInv
  <2>3. TargetVisible'
    BY Zenon, <2>1, <2>2 DEF TargetVisible
  <2>4. Replayed => Replayed'
    BY Zenon, <2>1, <2>2, CommitAheadOfTarget DEF Replayed
  <2> QED BY Zenon, <2>1, <2>3, <2>4, OthersRebuild
<1>2. ASSUME NEW a \in Appenders, NEW r \in Runs, NEW n \in 1..2, NEW asks \in BOOLEAN,
             AppendEvents(a, r, n, asks)
      PROVE  RebuildInv'
  BY Zenon, <1>2, QuietRebuild DEF AppendEvents, passVars, recoveryVars
<1>3. ASSUME NEW a \in Appenders, RollbackAppend(a)
      PROVE  RebuildInv'
  BY Zenon, <1>3, QuietRebuild DEF RollbackAppend, passVars, recoveryVars
<1>4. CASE OtherScopeAppends
  BY Zenon, <1>4, QuietRebuild DEF OtherScopeAppends, passVars, recoveryVars
<1> QED BY Zenon, <1>1, <1>2, <1>3, <1>4 DEF AppendStep

\* A projector may commit a pass in the middle of a replay.
LEMMA PassRebuild ==
  ASSUME ProjectionTypeOK, RebuildInv, NEW k \in Projectors,
         PassStep(k) \/ FailPass(k) \/ QuarantineFails(k) \/ CrashProjector(k)
  PROVE  RebuildInv'
<1> USE DEF appendVars, recoveryVars
<1>0. k \in Passes /\ Rebuilder \in Passes /\ k # Rebuilder
  BY Zenon, ProjectionAssumption DEF Passes
<1>1. ASSUME NEW s, stage' = [stage EXCEPT ![k] = s]
      PROVE  stage'[Rebuilder] = stage[Rebuilder]
  BY Zenon, <1>0, <1>1 DEF ProjectionTypeOK
<1>2. ASSUME NEW b, batch' = [batch EXCEPT ![k] = b]
      PROVE  batch'[Rebuilder] = batch[Rebuilder]
  BY Zenon, <1>0, <1>2 DEF ProjectionTypeOK
<1>3. CASE ListPending(k) \/ YieldPass(k) \/ RecordScopeFailure(k) \/ QuarantineFails(k)
  BY Zenon, <1>1, <1>3, QuietRebuild
  DEF ListPending, YieldPass, RecordScopeFailure, QuarantineFails
<1>4. CASE BeginProjectorPass(k) \/ FailPass(k) \/ CrashProjector(k)
  BY Zenon, <1>1, <1>2, <1>4, QuietRebuild
  DEF BeginProjectorPass, BeginPass, FailPass, CrashProjector
<1>5. CASE CommitProjectorPass(k)
  <2>1. /\ CommitPass(k) /\ UNCHANGED <<log, target, recovery>>
        /\ stage'[Rebuilder] = stage[Rebuilder] /\ batch'[Rebuilder] = batch[Rebuilder]
    BY Zenon, <1>1, <1>2, <1>5 DEF CommitProjectorPass, CommitPass
  <2>2. TargetVisible'
    BY Zenon, <2>1 DEF RebuildInv, TargetVisible
  <2> QED BY Zenon, <1>0, <2>1, <2>2, CommitPassReplayed, OthersRebuild
<1> QED BY Zenon, <1>3, <1>4, <1>5 DEF PassStep

\* The steps of a recovery, up to the empty pass that ends the replay.
LEMMA RecoveryRebuild ==
  ASSUME ProjectionTypeOK, RebuildInv, RequestRecovery \/ RecoveryStep
  PROVE  RebuildInv'
<1> USE DEF appendVars, passVars
<1>0. Rebuilder \in Passes
  BY Zenon DEF Passes
<1>1. CASE RequestRecovery \/ MarkScope \/ FinishRequest
  <2>1. /\ UNCHANGED <<log, target, stage>> /\ recovery # "replaying"
        /\ recovery' \in {"pending", "marked", "none"}
    BY Zenon, <1>1 DEF RequestRecovery, MarkScope, FinishRequest
  <2> QED BY Zenon, <2>1 DEF RebuildInv, TargetVisible
<1>2. CASE DeleteScope
  <2>1. /\ UNCHANGED <<log, stage>> /\ recovery = "marked" /\ recovery' = "replaying"
        /\ target' = Max({0} \cup {e.position : e \in log})
    BY Zenon, <1>2 DEF DeleteScope
  <2>2. 0 \in 0..MaxPosition /\ log \in SUBSET Events
    BY ProjectionAssumption DEF ProjectionTypeOK
  <2>3. target' = 0 \/ \E e \in log : e.position = target'
    BY Zenon, <2>1, <2>2, MaxWithEvents
  <2>4. \A e \in log : e.position = target' => target' <= e.position
    <3> TAKE e \in log
    <3>1. e.position \in 0..MaxPosition
      BY Zenon, EventFields DEF ProjectionTypeOK
    <3> QED BY <3>1
  <2>5. TargetVisible'
    BY Zenon, <2>1, <2>3, <2>4 DEF TargetVisible
  <2> QED BY Zenon, <2>1, <2>5 DEF RebuildInv
<1>3. CASE ReplayPass
  <2>1. /\ UNCHANGED <<log, checkpoint, target, recovery>> /\ recovery = "replaying"
        /\ stage'[Rebuilder] = "reading" /\ batch'[Rebuilder] = Readable(target)
    BY Zenon, <1>0, <1>3 DEF ReplayPass, BeginPass, recoveryVars, ProjectionTypeOK
  <2>2. batch'[Rebuilder] = {} => Replayed'
    BY Zenon, <2>1, NothingLeft DEF Replayed
  <2> QED BY Zenon, <2>1, <2>2 DEF RebuildInv, TargetVisible
<1>4. CASE CommitReplayPass
  <2>1. /\ CommitPass(Rebuilder) /\ stage[Rebuilder] = "reading"
        /\ UNCHANGED <<log, target, recovery>>
        /\ stage'[Rebuilder] = IF batch[Rebuilder] = {} THEN "done" ELSE "idle"
    BY Zenon, <1>0, <1>4
    DEF CommitReplayPass, CommitPass, recoveryVars, ProjectionTypeOK
  <2>2. recovery' = "replaying" /\ TargetVisible'
    BY Zenon, <2>1 DEF RebuildInv, TargetVisible
  <2>3. batch[Rebuilder] = {} => Replayed'
    BY Zenon, <1>0, <2>1, CommitPassReplayed DEF RebuildInv
  <2> QED BY Zenon, <2>1, <2>2, <2>3 DEF RebuildInv
<1>5. CASE FinishReplay
  <2>1. /\ UNCHANGED <<log, checkpoint, target>> /\ stage[Rebuilder] = "done"
        /\ stage'[Rebuilder] = "idle"
    BY Zenon, <1>0, <1>5 DEF FinishReplay, ReplayDone, ProjectionTypeOK
  <2> QED BY Zenon, <2>1 DEF RebuildInv, TargetVisible, Replayed
<1>6. CASE ClearScope
  <2>1. UNCHANGED <<log, checkpoint, target, stage>> /\ recovery = "verified"
    BY Zenon, <1>6 DEF ClearScope
  <2> QED BY Zenon, <2>1 DEF RebuildInv, TargetVisible, Replayed
<1> QED BY Zenon, <1>1, <1>2, <1>3, <1>4, <1>5, <1>6 DEF RecoveryStep

\* Every step keeps what is known of the replay.
LEMMA RebuildNext ==
  ASSUME ProjectionTypeOK, AppendInv, RebuildInv, [ProjectionNext]_projectionVars
  PROVE  RebuildInv'
<1>1. ASSUME NEW next \in {"none", "pending"}, RecoveryStops(next)
      PROVE  RebuildInv'
  <2>1. /\ UNCHANGED <<log, target>> /\ recovery' \in {"none", "pending"}
        /\ stage'[Rebuilder] = "idle"
    BY Zenon, <1>1 DEF RecoveryStops, appendVars, ProjectionTypeOK, Passes
  <2> QED BY Zenon, <2>1 DEF RebuildInv, TargetVisible
<1>2. CASE Faulty
  BY Zenon, <1>1, <1>2, PassRebuild DEF Faulty
<1>3. ASSUME NEW p \in Positions, DeliverNotice(p) \/ PurgeOutbox(p)
      PROVE  RebuildInv'
  BY Zenon, <1>3, QuietRebuild
  DEF DeliverNotice, PurgeOutbox, appendVars, passVars, recoveryVars
<1>4. CASE UNCHANGED projectionVars
  BY Zenon, <1>4, QuietRebuild DEF projectionVars, appendVars, passVars, recoveryVars
<1> QED BY Zenon, <1>2, <1>3, <1>4, AppendRebuild, PassRebuild, RecoveryRebuild
        DEF ProjectionNext

(* A quarantine is lifted only after a complete replay, for any number of   *)
(* projectors, appenders and recoveries and any limit of a pass (rebuild).  *)
THEOREM RebuildReplaysAllTheorem == ProjectionSpec => []RebuildReplaysAll
<1>1. ProjectionInit => RebuildInv
  BY Zenon DEF ProjectionInit, RebuildInv, TargetVisible, Passes
<1>2. ProjectionInv /\ RebuildInv /\ [ProjectionNext]_projectionVars => RebuildInv'
  BY Zenon, RebuildNext DEF ProjectionInv
<1>3. RebuildInv => RebuildReplaysAll
  BY Zenon DEF RebuildInv, RebuildReplaysAll
<1> QED BY <1>1, <1>2, <1>3, ProjectionInvariance, PTL DEF ProjectionSpec
=============================================================================
