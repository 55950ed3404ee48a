-------------------------- MODULE TimerDispatchProofs --------------------------
(***************************************************************************)
(* Machine-checked proofs about the durable timers, for any number of      *)
(* timers, dispatchers and streams and any batch size.                     *)
(***************************************************************************)
EXTENDS TimerDispatch, TLAPS

\* A dispatcher holds exactly the rows of its batch, dealt with or not.
BatchIsHeld ==
  \A d \in Dispatchers :
    batch[d] \cup DOMAIN result[d] = Held(d) /\ batch[d] \cap DOMAIN result[d] = {}

\* Only a pending row is ever locked, so whoever holds one decides its fate.
LockedIsPending == \A t \in Timers : lock[t] # Nobody => status[t] = "pending"

\* A settling transaction misses no row: the pending timers of its stream are
\* those it still has to visit and those it holds.
SettleReachesAll ==
  \A s \in open : \A t \in Timers :
    StreamOf[t] = s /\ status[t] = "pending" => t \in cancelling[s] \/ lock[t] = s

TimerInv ==
  /\ TimerTypeOK /\ BatchIsHeld /\ LockedIsPending /\ SettleReachesAll
  /\ FiredIffReceived /\ NoTimerOutlivesEvent

-----------------------------------------------------------------------------
(* Ending a transaction frees its rows and no others.                      *)
LEMMA UnlockHeld ==
  ASSUME TimerTypeOK, NEW x, Unlock(x)
  PROVE  /\ lock' \in [Timers -> Dispatchers \cup Streams \cup {Nobody}]
         /\ \A t \in Timers : lock'[t] = IF lock[t] = x THEN Nobody ELSE lock[t]
         /\ \A d \in Dispatchers : d # x => Held(d)' = Held(d)
         /\ x \in Dispatchers => Held(x)' = {}
BY Zenon, TimerAssumption DEF Unlock, TimerTypeOK, Held

(* The steps of a timer itself: it is scheduled, becomes due, is purged.   *)
LEMMA TimerKeeps ==
  ASSUME TimerInv, NEW t \in Timers, Schedule(t) \/ TimePasses(t) \/ PurgeCompleted(t)
  PROVE  TimerInv'
<1> USE DEF TimerInv
<1>1. CASE Schedule(t)
  <2> USE <1>1 DEF Schedule, dispatchVars, streamVars
  <2>1. TimerTypeOK' /\ BatchIsHeld'
    BY Zenon DEF TimerTypeOK, BatchIsHeld, Held
  <2>2. LockedIsPending' /\ FiredIffReceived'
    BY Zenon DEF TimerTypeOK, LockedIsPending, FiredIffReceived
  <2>3. SettleReachesAll' /\ NoTimerOutlivesEvent'
    BY ZenonT(40) DEF TimerTypeOK, SettleReachesAll, NoTimerOutlivesEvent
  <2> QED BY Zenon, <2>1, <2>2, <2>3
<1>2. CASE TimePasses(t) \/ PurgeCompleted(t)
  <2> USE <1>2 DEF TimePasses, PurgeCompleted, dispatchVars, streamVars
  <2>1. due' \in [Timers -> BOOLEAN] /\ purged' \subseteq Timers
    <3>1. CASE TimePasses(t)
      BY Zenon, <3>1, Zenon DEF TimerTypeOK
    <3>2. CASE PurgeCompleted(t)
      BY Zenon, <3>2 DEF TimerTypeOK
    <3> QED BY Zenon, <3>1, <3>2
  <2>2. TimerTypeOK' /\ BatchIsHeld'
    BY <2>1 DEF TimerTypeOK, BatchIsHeld, Held
  <2>3. LockedIsPending' /\ FiredIffReceived' /\ SettleReachesAll' /\ NoTimerOutlivesEvent'
    BY Zenon DEF LockedIsPending, FiredIffReceived, SettleReachesAll, NoTimerOutlivesEvent
  <2> QED BY Zenon, <2>2, <2>3
<1> QED BY Zenon, <1>1, <1>2

(* A dispatcher claims only free pending rows and deals with what it       *)
(* claimed (claim_due, the loop of fire_due).                              *)
LEMMA ClaimKeeps ==
  ASSUME TimerInv, NEW d \in Dispatchers, NEW claims \in SUBSET Timers, ClaimDue(d, claims)
  PROVE  TimerInv'
<1> USE DEF TimerInv, ClaimDue, streamVars
<1>1. TimerTypeOK'
  BY Zenon DEF TimerTypeOK
<1>2. BatchIsHeld'
  <2>1. Held(d)' = claims /\ \A e \in Dispatchers \ {d} : Held(e)' = Held(e)
    BY TimerAssumption DEF TimerTypeOK, BatchIsHeld, Held, Claimable
  <2> QED BY Zenon, <2>1 DEF TimerTypeOK, BatchIsHeld
<1>3. LockedIsPending' /\ FiredIffReceived' /\ NoTimerOutlivesEvent'
  BY Zenon DEF TimerTypeOK, LockedIsPending, FiredIffReceived, NoTimerOutlivesEvent, Claimable
<1>4. SettleReachesAll'
  BY TimerAssumption DEF TimerTypeOK, SettleReachesAll, Claimable
<1> QED BY Zenon, <1>1, <1>2, <1>3, <1>4

LEMMA FireKeeps ==
  ASSUME TimerInv, NEW d \in Dispatchers, NEW t \in Timers, FireOne(d, t)
  PROVE  TimerInv'
<1> USE DEF TimerInv, streamVars
<1> DEFINE r == [u \in DOMAIN result[d] \cup {t} |->
                   IF u # t THEN result[d][u] ELSE IF t \in Malformed THEN "dead" ELSE "fired"]
<1>1. /\ t \in batch[d] /\ batch' = [batch EXCEPT ![d] = @ \ {t}]
      /\ result' = [result EXCEPT ![d] = r]
      /\ UNCHANGED <<purged, status, due, lock, inbox, streamVars, rollbacks>>
  BY Zenon DEF FireOne
<1>2. PICK T \in SUBSET Timers : result[d] \in [T -> {"fired", "dead"}]
  BY DEF TimerTypeOK
<1>3. r \in [T \cup {t} -> {"fired", "dead"}] /\ DOMAIN r = DOMAIN result[d] \cup {t}
  <2>1. DOMAIN result[d] = T /\ \A u \in T : result[d][u] \in {"fired", "dead"}
    BY Zenon, <1>2
  <2>2. \A u \in T \cup {t} : r[u] \in {"fired", "dead"}
    BY Zenon, <2>1
  <2> QED BY Zenon, <2>1, <2>2
<1> HIDE DEF r
<1>4. r \in UNION {[S -> {"fired", "dead"}] : S \in SUBSET Timers}
  BY Zenon, <1>3
<1>5. TimerTypeOK'
  BY Zenon, <1>1, <1>4 DEF TimerTypeOK
<1>6. BatchIsHeld'
  <2> SUFFICES ASSUME NEW e \in Dispatchers
               PROVE  /\ batch'[e] \cup DOMAIN result'[e] = Held(e)'
                      /\ batch'[e] \cap DOMAIN result'[e] = {}
    BY Zenon DEF BatchIsHeld
  <2>1. Held(e)' = Held(e)
    BY Zenon, <1>1 DEF Held
  <2>2. CASE e = d
    <3>1. batch'[e] = batch[d] \ {t} /\ result'[e] = r
      BY Zenon, <1>1, <2>2 DEF TimerTypeOK
    <3>2. batch[d] \cup DOMAIN result[d] = Held(d) /\ batch[d] \cap DOMAIN result[d] = {}
      BY Zenon DEF BatchIsHeld
    <3> QED BY ZenonT(40), <1>1, <1>3, <2>1, <2>2, <3>1, <3>2
  <2>3. CASE e # d
    BY Zenon, <1>1, <2>1, <2>3 DEF BatchIsHeld, TimerTypeOK
  <2> QED BY Zenon, <2>2, <2>3
<1>7. LockedIsPending' /\ FiredIffReceived' /\ SettleReachesAll' /\ NoTimerOutlivesEvent'
  BY Zenon, <1>1 DEF LockedIsPending, FiredIffReceived, SettleReachesAll, NoTimerOutlivesEvent
<1> QED BY Zenon, <1>5, <1>6, <1>7

(* What a dispatcher commits concerns the rows it holds alone: they were    *)
(* pending, and each of them ends as fired with its command or as dead.     *)
LEMMA CommitBatchEffect ==
  ASSUME TimerInv, NEW d \in Dispatchers, CommitBatch(d), NEW t \in Timers
  PROVE  /\ lock[t] = d => /\ status[t] = "pending" /\ t \notin inbox
                           /\ status'[t] \in {"fired", "dead"}
                           /\ t \in inbox' <=> status'[t] = "fired"
         /\ lock[t] # d => status'[t] = status[t] /\ (t \in inbox' <=> t \in inbox)
<1>1. /\ status' = [u \in Timers |-> IF u \in DOMAIN result[d] THEN result[d][u] ELSE status[u]]
      /\ inbox' = inbox \cup {u \in DOMAIN result[d] : result[d][u] = "fired"}
      /\ batch[d] = {}
  BY Zenon DEF CommitBatch
<1>2. PICK T \in SUBSET Timers : result[d] \in [T -> {"fired", "dead"}]
  BY DEF TimerInv, TimerTypeOK
<1>3. DOMAIN result[d] = {u \in Timers : lock[u] = d}
  BY Zenon, <1>1 DEF TimerInv, BatchIsHeld, Held
<1>4. d # Nobody
  BY Zenon, TimerAssumption
<1>5. lock[t] = d => status[t] = "pending" /\ t \notin inbox
  BY Zenon, <1>4 DEF TimerInv, LockedIsPending, FiredIffReceived
<1> QED BY Zenon, <1>1, <1>2, <1>3, <1>5

LEMMA CommitBatchKeeps ==
  ASSUME TimerInv, NEW d \in Dispatchers, CommitBatch(d)
  PROVE  TimerInv'
<1>1. /\ Unlock(d) /\ result' = [result EXCEPT ![d] = NoResult]
      /\ batch[d] = {} /\ UNCHANGED <<purged, due, batch, settled, cancelling, open, rollbacks>>
      /\ DOMAIN status' = Timers /\ status' = [t \in Timers |-> status'[t]]
      /\ inbox' = inbox \cup {u \in DOMAIN result[d] : result[d][u] = "fired"}
  BY Zenon DEF CommitBatch, streamVars
<1>2. d # Nobody /\ d \notin Streams
  BY Zenon, TimerAssumption
<1>3. \A t \in Timers :
        /\ lock[t] = d => /\ status[t] = "pending" /\ t \notin inbox
                          /\ status'[t] \in {"fired", "dead"}
                          /\ t \in inbox' <=> status'[t] = "fired"
        /\ lock[t] # d => status'[t] = status[t] /\ (t \in inbox' <=> t \in inbox)
  BY Zenon, CommitBatchEffect, Zenon
<1>4. /\ lock' \in [Timers -> Dispatchers \cup Streams \cup {Nobody}]
      /\ \A t \in Timers : lock'[t] = IF lock[t] = d THEN Nobody ELSE lock[t]
      /\ \A e \in Dispatchers : e # d => Held(e)' = Held(e)
      /\ Held(d)' = {}
  BY Zenon, <1>1, UnlockHeld DEF TimerInv
<1> USE DEF TimerInv
<1>5. TimerTypeOK'
  <2>1. NoResult \in [{} -> {"fired", "dead"}]
    BY Zenon DEF NoResult
  <2>2. NoResult \in UNION {[T -> {"fired", "dead"}] : T \in SUBSET Timers}
    BY Zenon, <2>1
  <2>3. result' \in [Dispatchers -> UNION {[T -> {"fired", "dead"}] : T \in SUBSET Timers}]
    BY Zenon, <1>1, <2>2 DEF TimerTypeOK
  <2>4. status' \in [Timers -> {"none", "pending", "fired", "cancelled", "dead"}]
    BY Zenon, <1>1, <1>3 DEF TimerTypeOK
  <2>5. inbox' \subseteq Timers
    <3>1. DOMAIN result[d] \subseteq Timers
      BY Zenon DEF BatchIsHeld, Held
    <3> QED BY Zenon, <1>1, <3>1 DEF TimerTypeOK
  <2> QED BY Zenon, <1>1, <1>4, <2>3, <2>4, <2>5 DEF TimerTypeOK
<1>6. BatchIsHeld'
  <2>1. DOMAIN NoResult = {}
    BY Zenon DEF NoResult
  <2> QED BY Zenon, <1>1, <1>4, <2>1 DEF BatchIsHeld, TimerTypeOK
<1>7. LockedIsPending'
  BY Zenon, <1>1, <1>2, <1>3, <1>4 DEF LockedIsPending
<1>8. FiredIffReceived'
  BY Zenon, <1>3 DEF FiredIffReceived
<1>9. SettleReachesAll'
  BY <1>1, <1>2, <1>3, <1>4 DEF SettleReachesAll, TimerTypeOK
<1>10. NoTimerOutlivesEvent'
  BY Zenon, <1>1, <1>3 DEF NoTimerOutlivesEvent
<1> QED BY Zenon, <1>5, <1>6, <1>7, <1>8, <1>9, <1>10

LEMMA RollbackBatchKeeps ==
  ASSUME TimerInv, NEW d \in Dispatchers, RollbackBatch(d)
  PROVE  TimerInv'
<1> USE DEF TimerInv
<1>1. /\ Unlock(d) /\ result' = [result EXCEPT ![d] = NoResult]
      /\ batch' = [batch EXCEPT ![d] = {}] /\ rollbacks' = rollbacks + 1
      /\ rollbacks < MaxRollbacks
      /\ UNCHANGED <<purged, status, inbox, due, settled, cancelling, open>>
  BY Zenon DEF RollbackBatch, InboxAfterRollback, streamVars
<1>2. d # Nobody /\ d \notin Streams
  BY Zenon, TimerAssumption
<1>3. NoResult \in [{} -> {"fired", "dead"}]
  BY Zenon DEF NoResult
<1>4. NoResult \in UNION {[T -> {"fired", "dead"}] : T \in SUBSET Timers} /\ DOMAIN NoResult = {}
  BY Zenon, <1>3
<1>5. /\ lock' \in [Timers -> Dispatchers \cup Streams \cup {Nobody}]
      /\ \A t \in Timers : lock'[t] = IF lock[t] = d THEN Nobody ELSE lock[t]
      /\ \A e \in Dispatchers : e # d => Held(e)' = Held(e)
      /\ Held(d)' = {}
  BY Zenon, <1>1, UnlockHeld
<1>6. TimerTypeOK'
  <2>1. result' \in [Dispatchers -> UNION {[T -> {"fired", "dead"}] : T \in SUBSET Timers}]
    BY ZenonT(40), <1>1, <1>4 DEF TimerTypeOK
  <2>2. batch' \in [Dispatchers -> SUBSET Timers]
    BY Zenon, <1>1 DEF TimerTypeOK
  <2>3. rollbacks' \in 0..MaxRollbacks
    BY <1>1, TimerAssumption DEF TimerTypeOK
  <2> QED BY Zenon, <1>1, <1>5, <2>1, <2>2, <2>3 DEF TimerTypeOK
<1>7. BatchIsHeld'
  BY Zenon, <1>1, <1>4, <1>5 DEF BatchIsHeld, TimerTypeOK
<1>8. LockedIsPending' /\ FiredIffReceived' /\ NoTimerOutlivesEvent'
  BY Zenon, <1>1, <1>5 DEF LockedIsPending, FiredIffReceived, NoTimerOutlivesEvent
<1>9. SettleReachesAll'
  BY <1>1, <1>2, <1>5 DEF SettleReachesAll, TimerTypeOK
<1> QED BY Zenon, <1>6, <1>7, <1>8, <1>9

-----------------------------------------------------------------------------
(* The settling transaction of a stream: what it opens with covers every   *)
(* pending timer, a visit takes the row or finds it ended, and the commit  *)
(* leaves none pending (cancel_matching).                                  *)
LEMMA VisitKeeps ==
  ASSUME TimerInv, NEW s \in Streams,
         BeginSettle(s) \/ \E t \in Timers : CancelMatching(s, t)
  PROVE  TimerInv'
<1> USE DEF TimerInv, dispatchVars
<1>1. s # Nobody /\ s \notin Dispatchers
  BY Zenon, TimerAssumption
<1>2. CASE BeginSettle(s)
  <2> USE <1>2 DEF BeginSettle
  <2>1. TimerTypeOK' /\ BatchIsHeld'
    BY Zenon DEF TimerTypeOK, BatchIsHeld, Held
  <2>2. LockedIsPending' /\ FiredIffReceived' /\ NoTimerOutlivesEvent'
    BY Zenon DEF LockedIsPending, FiredIffReceived, NoTimerOutlivesEvent
  <2>3. SettleReachesAll'
    BY DEF SettleReachesAll, TimerTypeOK
  <2> QED BY Zenon, <2>1, <2>2, <2>3
<1>3. ASSUME NEW t \in Timers, CancelMatching(s, t)
      PROVE  TimerInv'
  <2> USE <1>1, <1>3 DEF CancelMatching, MayVisit
  <2>1. TimerTypeOK'
    BY Zenon DEF TimerTypeOK
  <2>2. BatchIsHeld'
    <3>1. \A d \in Dispatchers : Held(d)' = Held(d)
      BY ZenonT(40), TimerAssumption DEF TimerTypeOK, Held
    <3> QED BY Zenon, <3>1 DEF BatchIsHeld
  <2>3. LockedIsPending' /\ FiredIffReceived' /\ NoTimerOutlivesEvent'
    BY Zenon DEF TimerTypeOK, LockedIsPending, FiredIffReceived, NoTimerOutlivesEvent
  <2>4. SettleReachesAll'
    <3> SUFFICES ASSUME NEW o \in open', NEW u \in Timers, StreamOf[u] = o, status'[u] = "pending"
                 PROVE  u \in cancelling'[o] \/ lock'[u] = o
      BY Zenon DEF SettleReachesAll
    <3>1. o \in Streams /\ (u \in cancelling[o] \/ lock[u] = o)
      BY Zenon DEF SettleReachesAll, TimerTypeOK
    <3>2. CASE u = t /\ o = s
      BY Zenon, <3>2 DEF TimerTypeOK
    <3>3. CASE u # t \/ o # s
      BY ZenonT(40), <3>1, <3>3, TimerAssumption DEF TimerTypeOK
    <3> QED BY Zenon, <3>2, <3>3
  <2> QED BY Zenon, <2>1, <2>2, <2>3, <2>4
<1> QED BY Zenon, <1>2, <1>3

LEMMA EndSettleKeeps ==
  ASSUME TimerInv, NEW s \in Streams, CommitSettle(s) \/ RollbackSettle(s)
  PROVE  TimerInv'
<1> USE DEF TimerInv, dispatchVars
<1>1. s # Nobody /\ s \notin Dispatchers /\ s \in open /\ Unlock(s) /\ open' = open \ {s}
  BY Zenon, TimerAssumption DEF CommitSettle, RollbackSettle
<1>2. /\ lock' \in [Timers -> Dispatchers \cup Streams \cup {Nobody}]
      /\ \A t \in Timers : lock'[t] = IF lock[t] = s THEN Nobody ELSE lock[t]
      /\ \A d \in Dispatchers : Held(d)' = Held(d)
  BY Zenon, <1>1, UnlockHeld
<1>3. UNCHANGED <<purged, due, inbox, batch, result>>
  BY Zenon DEF CommitSettle, RollbackSettle
<1>4. BatchIsHeld'
  BY Zenon, <1>2, <1>3 DEF BatchIsHeld
<1>5. CASE CommitSettle(s)
  <2>1. /\ status' = [t \in Timers |-> IF lock[t] = s THEN "cancelled" ELSE status[t]]
        /\ settled' = settled \cup {s} /\ cancelling[s] = {} /\ UNCHANGED <<cancelling, rollbacks>>
    BY Zenon, <1>5 DEF CommitSettle
  <2>2. TimerTypeOK'
    BY Zenon, <1>1, <1>2, <1>3, <2>1 DEF TimerTypeOK
  <2>3. LockedIsPending' /\ FiredIffReceived'
    BY Zenon, <1>1, <1>2, <1>3, <2>1 DEF LockedIsPending, FiredIffReceived, TimerTypeOK
  <2>4. SettleReachesAll'
    BY ZenonT(40), <1>1, <1>2, <2>1 DEF SettleReachesAll, TimerTypeOK
  <2>5. NoTimerOutlivesEvent'
    BY Zenon, <1>1, <2>1 DEF SettleReachesAll, NoTimerOutlivesEvent, TimerTypeOK
  <2> QED BY Zenon, <1>4, <2>2, <2>3, <2>4, <2>5
<1>6. CASE RollbackSettle(s)
  <2>1. /\ cancelling' = [cancelling EXCEPT ![s] = {}] /\ rollbacks' = rollbacks + 1
        /\ rollbacks < MaxRollbacks /\ UNCHANGED <<status, settled>>
    BY Zenon, <1>6 DEF RollbackSettle
  <2>2. TimerTypeOK'
    BY <1>1, <1>2, <1>3, <2>1, TimerAssumption DEF TimerTypeOK
  <2>3. LockedIsPending' /\ FiredIffReceived' /\ NoTimerOutlivesEvent'
    BY Zenon, <1>2, <1>3, <2>1 DEF LockedIsPending, FiredIffReceived, NoTimerOutlivesEvent
  <2>4. SettleReachesAll'
    BY ZenonT(40), <1>1, <1>2, <2>1 DEF SettleReachesAll, TimerTypeOK
  <2> QED BY Zenon, <1>4, <2>2, <2>3, <2>4
<1> QED BY Zenon, <1>5, <1>6

(* TimerInv holds of every behaviour: from it, a timer has fired exactly    *)
(* when its command is in the inbox.                                        *)
THEOREM TimerInvariance == Spec => []TimerInv
<1>1. Init => TimerInv
  <2> SUFFICES ASSUME Init PROVE TimerInv
    BY Zenon
  <2> USE DEF Init
  <2>1. NoResult \in [{} -> {"fired", "dead"}] /\ DOMAIN NoResult = {}
    BY Zenon DEF NoResult
  <2>2. NoResult \in UNION {[T -> {"fired", "dead"}] : T \in SUBSET Timers}
    BY ZenonT(40), <2>1
  <2>3. TimerTypeOK
    BY <2>2, TimerAssumption DEF TimerTypeOK
  <2>4. BatchIsHeld
    BY Zenon, <2>1, TimerAssumption DEF BatchIsHeld, Held
  <2>5. LockedIsPending /\ SettleReachesAll /\ FiredIffReceived /\ NoTimerOutlivesEvent
    BY Zenon DEF LockedIsPending, SettleReachesAll, FiredIffReceived, NoTimerOutlivesEvent
  <2> QED BY Zenon, <2>3, <2>4, <2>5 DEF TimerInv
<1>2. TimerInv /\ [Next]_vars => TimerInv'
  <2> SUFFICES ASSUME TimerInv, [Next]_vars PROVE TimerInv'
    BY Zenon
  <2>1. CASE UNCHANGED vars
    BY Zenon, <2>1 DEF vars, dispatchVars, streamVars, TimerInv, TimerTypeOK, BatchIsHeld, Held,
                LockedIsPending, SettleReachesAll, FiredIffReceived, NoTimerOutlivesEvent
  <2> QED BY Zenon, <2>1, TimerKeeps, ClaimKeeps, FireKeeps, CommitBatchKeeps, RollbackBatchKeeps,
             VisitKeeps, EndSettleKeeps DEF Next, DispatchStep, SettleStep
<1> QED BY <1>1, <1>2, PTL DEF Spec

(* Once the cancelling event is committed none of its timers is pending,   *)
(* for any number of dispatchers racing it (cancel_matching, claim_due).   *)
THEOREM NoTimerOutlivesEventTheorem == Spec => []NoTimerOutlivesEvent
BY TimerInvariance, PTL DEF TimerInv

(* A timer has fired exactly when its command is in the inbox (fire_due).  *)
THEOREM FiredIffReceivedTheorem == Spec => []FiredIffReceived
BY TimerInvariance, PTL DEF TimerInv

-----------------------------------------------------------------------------
(* A step that neither ends nor schedules a timer is not seen.             *)
LEMMA NotSeen ==
  ASSUME UNCHANGED <<status, inbox>>
  PROVE  UNCHANGED Promise!vars
BY DEF Promise!vars, Outcome

(* A step that ends pending timers, each with its command or without, is   *)
(* the abstract settlement of those timers.                                *)
LEMMA EndsSettle ==
  ASSUME TimerTypeOK, TimerTypeOK', FiredIffReceived, FiredIffReceived',
         \A t \in Timers : \/ status'[t] = status[t]
                           \/ /\ status[t] = "pending"
                              /\ status'[t] \in {"fired", "cancelled", "dead"}
  PROVE  Promise!Next
<1> DEFINE ended == {t \in Timers : status'[t] # status[t]}
           done == {t \in ended : status'[t] = "fired"}
           dropped == ended \ done
           before == [t \in Timers |-> Outcome(t)]
<1>1. \A t \in Timers : (t \in done => status[t] = "pending" /\ status'[t] = "fired")
                     /\ (t \in dropped => status[t] = "pending" /\ status'[t] \in {"cancelled", "dead"})
                     /\ (t \notin done \cup dropped => status'[t] = status[t])
  BY Zenon
<1>2. done \in SUBSET Timers /\ dropped \in SUBSET Timers /\ done \cap dropped = {}
  BY Zenon
<1> HIDE DEF ended, done, dropped
<1>3. \A t \in done \cup dropped : before[t] = "open"
  BY Zenon, <1>1, <1>2 DEF Outcome
<1>4. \A t \in Timers :
        Outcome(t)' = IF t \in done THEN "done" ELSE IF t \in dropped THEN "dropped" ELSE before[t]
  BY ZenonT(40), <1>1, <1>2 DEF Outcome, TimerTypeOK
<1>5. \A t \in Timers : (IF t \in inbox THEN 1 ELSE 0)' =
                       (IF t \in inbox THEN 1 ELSE 0) + IF t \in done THEN 1 ELSE 0
  <2> SUFFICES ASSUME NEW t \in Timers
               PROVE  (IF t \in inbox' THEN 1 ELSE 0) =
                      (IF t \in inbox THEN 1 ELSE 0) + IF t \in done THEN 1 ELSE 0
    BY Zenon
  <2>1. t \in inbox' <=> t \in inbox \/ t \in done
    BY Zenon, <1>1 DEF FiredIffReceived
  <2>2. ~(t \in inbox /\ t \in done)
    BY Zenon, <1>1 DEF FiredIffReceived
  <2> QED BY <2>1, <2>2
<1>6. Promise!Settle(done, dropped)
  BY Zenon, <1>2, <1>3, <1>4, <1>5 DEF Promise!Settle
<1> QED BY Zenon, <1>2, <1>6 DEF Promise!Next, Promise!Settle

(* Every step of the timers is a step of EffectOnce or is not seen.        *)
LEMMA PromiseStep ==
  ASSUME TimerInv, TimerInv', [Next]_vars
  PROVE  [Promise!Next]_Promise!vars
<1> TimerTypeOK /\ TimerTypeOK' /\ FiredIffReceived /\ FiredIffReceived' /\ LockedIsPending
  BY Zenon DEF TimerInv
<1>1. ASSUME NEW t \in Timers, Schedule(t)
      PROVE  Promise!Next
  <2> DEFINE before == [u \in Timers |-> Outcome(u)]
  <2>1. before[t] = "absent"
    BY Zenon, <1>1 DEF Schedule, Outcome
  <2>2. \A u \in Timers : Outcome(u)' = IF u = t THEN "open" ELSE before[u]
    BY Zenon, <1>1 DEF Schedule, Outcome, TimerTypeOK
  <2>3. UNCHANGED inbox
    BY Zenon, <1>1 DEF Schedule
  <2>4. Promise!Register(t)
    BY ZenonT(40), <2>1, <2>2, <2>3 DEF Promise!Register
  <2> QED BY Zenon, <2>4 DEF Promise!Next
<1>2. ASSUME NEW t \in Timers, TimePasses(t) \/ PurgeCompleted(t)
      PROVE  UNCHANGED Promise!vars
  BY Zenon, <1>2, NotSeen DEF TimePasses, PurgeCompleted
<1>3. ASSUME NEW d \in Dispatchers, CommitBatch(d)
      PROVE  Promise!Next
  <2>1. \A t \in Timers : \/ status'[t] = status[t]
                          \/ status[t] = "pending" /\ status'[t] \in {"fired", "cancelled", "dead"}
    BY Zenon, <1>3, CommitBatchEffect
  <2> QED BY Zenon, <2>1, EndsSettle
<1>4. ASSUME NEW d \in Dispatchers, NEW t \in Timers, FireOne(d, t)
      PROVE  UNCHANGED Promise!vars
  BY Zenon, <1>4, NotSeen DEF FireOne
<1>5. ASSUME NEW d \in Dispatchers, NEW claims \in SUBSET Timers, ClaimDue(d, claims)
      PROVE  UNCHANGED Promise!vars
  BY Zenon, <1>5, NotSeen DEF ClaimDue
<1>6. ASSUME NEW d \in Dispatchers, RollbackBatch(d)
      PROVE  UNCHANGED Promise!vars
  BY Zenon, <1>6, NotSeen DEF RollbackBatch, InboxAfterRollback
<1>7. ASSUME NEW s \in Streams, CommitSettle(s)
      PROVE  Promise!Next
  <2>1. \A t \in Timers : \/ status'[t] = status[t]
                          \/ status[t] = "pending" /\ status'[t] \in {"fired", "cancelled", "dead"}
    BY Zenon, <1>7, TimerAssumption DEF CommitSettle, LockedIsPending
  <2> QED BY Zenon, <2>1, EndsSettle
<1>8. ASSUME NEW s \in Streams,
             BeginSettle(s) \/ RollbackSettle(s) \/ \E t \in Timers : CancelMatching(s, t)
      PROVE  UNCHANGED Promise!vars
  BY Zenon, <1>8, NotSeen DEF BeginSettle, RollbackSettle, CancelMatching
<1>9. CASE UNCHANGED vars
  BY Zenon, <1>9, NotSeen DEF vars
<1> QED BY Zenon, <1>1, <1>2, <1>3, <1>4, <1>5, <1>6, <1>7, <1>8, <1>9 DEF Next, DispatchStep, SettleStep

(* The timers implement EffectOnce for any number of timers, dispatchers,  *)
(* streams and failing transactions (claim_due, fire_due, cancel_matching, *)
(* purge_completed).                                                       *)
THEOREM TimersImplementEffectOnce == Spec => ImplementsEffectOnce
<1>1. Init => Promise!Init
  BY Zenon DEF Init, Promise!Init, Outcome
<1>2. TimerInv /\ TimerInv' /\ [Next]_vars => [Promise!Next]_Promise!vars
  BY Zenon, PromiseStep
<1> QED BY <1>1, <1>2, TimerInvariance, PTL DEF Spec, ImplementsEffectOnce, Promise!Spec

=============================================================================
