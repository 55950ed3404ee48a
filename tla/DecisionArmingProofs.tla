------------------------- MODULE DecisionArmingProofs -------------------------
(***************************************************************************)
(* Proofs about how a Run gets its next decision, for any number of Runs,  *)
(* workers, events, failures, crashes and rebuilds: no wake-up is lost,    *)
(* and a planner that failed too often stays quarantined.                  *)
(***************************************************************************)
EXTENDS DecisionArming, TLAPS

Types ==
  /\ history \in [Runs -> Seq(States)]
  /\ position \in [Runs -> Nat]
  /\ due \in [Runs -> Nat \cup {None}]
  /\ poison \in [Runs -> QuarantineRows \cup {None}]
  /\ clock \in Nat /\ errors \in Nat /\ rebuilt \in BOOLEAN
  /\ todo \in [Workers -> SUBSET Runs]
  /\ idle \in [Workers -> SUBSET Runs]
  /\ armed \in [Workers -> [Runs -> Nat \cup {None}]]
  /\ now \in [Workers -> Nat]

\* A row never runs ahead of its stream.
RowsBehind == \A r \in Runs : position[r] <= Len(history[r])

\* A worker plans at a position of the stream, and found the Run idle there.
LoadedAt ==
  \A k \in Workers, r \in Runs :
    /\ r \in todo[k] \cup idle[k] => armed[k][r] \in 1..Len(history[r])
    /\ r \in idle[k] => Candidate(k, r) = "idle"

\* Every failure on record happened, and only a spent budget blocks a Run.
FailuresCounted ==
  \A r \in Runs : poison[r] # None =>
    /\ poison[r].count <= errors
    /\ Spent(r) => poison[r].count >= MaxAttempts

\* A Run that is left to the planner without a marker.
Stranded(r) == CaughtUp(r) /\ Last(history[r]) = "decide" /\ due[r] = None

\* A planner spent its budget before any Run was stranded, and only a rebuild
\* may have released the Run since.
StrandedBySpending ==
  \A r \in Runs : Stranded(r) => errors >= MaxAttempts /\ (Blocked(r) \/ rebuilt)

ArmingInv ==
  /\ Types /\ RowsBehind /\ LoadedAt /\ FailuresCounted
  /\ scope = "rebuilding" => rebuilt
  /\ StrandedBySpending

-----------------------------------------------------------------------------
(* Types.                                                                  *)

(* What a worker remembers of a batch stays typed when it forgets it.      *)
LEMMA ForgetTypes ==
  ASSUME Types, NEW k \in Workers, Forget(k)
  PROVE  /\ todo' \in [Workers -> SUBSET Runs] /\ idle' \in [Workers -> SUBSET Runs]
         /\ armed' \in [Workers -> [Runs -> Nat \cup {None}]] /\ now' \in [Workers -> Nat]
BY DEF Types, Forget

(* A row set aside is a quarantine row (_quarantine).                      *)
LEMMA SetAsideType ==
  ASSUME Types, NEW r \in Runs
  PROVE  /\ SetAside(r) \in QuarantineRows /\ SetAside(r).next = None
         /\ SetAside(r).reason = "corrupt"
         /\ SetAside(r).count = IF poison[r] = None THEN 0 ELSE poison[r].count
BY DEF Types, SetAside, QuarantineRows

(* The retry time of a counted failure (failed).                           *)
LEMMA CountedType ==
  ASSUME Types, NEW r \in Runs, NEW k \in Workers, PlanRaises(k, r), MayCount(k, r)
  PROVE  \E retryAt \in Nat \cup {None}, attempt \in Nat :
           /\ attempt = IF poison[r] = None THEN 1 ELSE poison[r].count + 1
           /\ retryAt = None <=> attempt >= MaxAttempts
           /\ poison' = [poison EXCEPT ![r] =
                [reason |-> "planner", next |-> retryAt, count |-> attempt]]
           /\ due' = [due EXCEPT ![r] = retryAt]
<1> DEFINE attempt == IF poison[r] = None THEN 1 ELSE poison[r].count + 1
           retryAt == IF attempt < MaxAttempts THEN now[k] + BackOff(attempt) ELSE None
<1>1. attempt \in Nat
  BY DEF Types, QuarantineRows
<1>2. attempt < MaxAttempts => retryAt \in 0..MaxClock
  BY Zenon DEF PlanRaises
<1>3. MaxAttempts \in Nat /\ MaxClock \in Nat /\ None \notin Nat
  BY Zenon, ArmingAssumption
<1>4. retryAt \in Nat \cup {None} /\ (retryAt = None <=> attempt >= MaxAttempts)
  <2> HIDE DEF attempt
  <2>1. CASE attempt < MaxAttempts
    <3> HIDE DEF retryAt
    <3> QED BY <1>1, <1>2, <1>3, <2>1
  <2>2. CASE ~(attempt < MaxAttempts)
    BY <1>1, <1>3, <2>2
  <2> QED BY <2>1, <2>2
<1>5. /\ poison' = [poison EXCEPT ![r] =
           [reason |-> "planner", next |-> retryAt, count |-> attempt]]
      /\ due' = [due EXCEPT ![r] = retryAt]
  BY Zenon DEF PlanRaises
<1> HIDE DEF attempt, retryAt
<1> QED BY Zenon, <1>1, <1>4, <1>5 DEF attempt

(* The steps of the stream, the projector, the clock and the administrator *)
(* preserve the types.                                                     *)
LEMMA EnvironmentTypes ==
  ASSUME Types,
         \/ \E r \in Runs, s \in States : EventArrives(r, s)
         \/ \E r \in Runs : \E p \in 1..Len(history[r]) : Project(r, p)
         \/ Tick \/ DeleteScope
         \/ \E verified \in SUBSET Runs : RecoverScope(verified)
  PROVE  Types'
<1>1. ASSUME NEW r \in Runs, NEW s \in States, EventArrives(r, s)
      PROVE  Types'
  BY <1>1 DEF EventArrives, Types, rowVars, workerVars, counters
<1>2. ASSUME NEW r \in Runs, NEW p \in 1..Len(history[r]), Project(r, p)
      PROVE  Types'
  BY <1>2 DEF Project, Types, workerVars, counters
<1>3. CASE Tick
  BY <1>3 DEF Tick, Types, rowVars, workerVars, counters
<1>4. CASE DeleteScope
  BY <1>4 DEF DeleteScope, Types, workerVars
<1>5. ASSUME NEW verified \in SUBSET Runs, RecoverScope(verified)
      PROVE  Types'
  <2>1. poison' \in [Runs -> QuarantineRows \cup {None}]
    BY Zenon, <1>5, SetAsideType DEF RecoverScope
  <2> QED BY Zenon, <1>5, <2>1 DEF RecoverScope, Types, rowVars, workerVars, counters
<1> QED BY Zenon, <1>1, <1>2, <1>3, <1>4, <1>5

(* The steps of a worker's batch preserve the types (run_once).            *)
LEMMA BatchTypes ==
  ASSUME Types, NEW k \in Workers,
         \/ Load(k) \/ Plan(k) \/ CrashWorker(k)
         \/ \E r \in Runs : PlanUnavailable(k, r) \/ PlanRaises(k, r) \/ SubmitRefused(k, r)
  PROVE  Types'
<1>1. ASSUME NEW corrupt \in SUBSET Runs, LoadReady(k, corrupt)
      PROVE  Types'
  <2>1. poison' \in [Runs -> QuarantineRows \cup {None}]
    <3>1. poison' = [r \in Runs |-> IF r \in corrupt THEN SetAside(r) ELSE poison[r]]
      BY Zenon, <1>1 DEF LoadReady
    <3>2. \A r \in Runs : poison[r] \in QuarantineRows \cup {None}
      BY Zenon DEF Types
    <3> QED BY Zenon, <3>1, <3>2, SetAsideType
  <2>2. /\ todo' \in [Workers -> SUBSET Runs] /\ idle' \in [Workers -> SUBSET Runs]
        /\ armed' \in [Workers -> [Runs -> Nat \cup {None}]] /\ now' \in [Workers -> Nat]
    BY <1>1 DEF LoadReady, Types
  <2> QED BY Zenon, <1>1, <2>1, <2>2 DEF LoadReady, Types, rowVars
<1>2. ASSUME NEW r \in Runs, PlanIdle(k, r) \/ PlanCommand(k, r)
      PROVE  Types'
  <2>1. poison' \in [Runs -> QuarantineRows \cup {None}]
    BY Zenon, <1>2 DEF PlanIdle, PlanCommand, Succeed, Types
  <2>2. /\ todo' = [todo EXCEPT ![k] = @ \ {r}]
        /\ idle' = [idle EXCEPT ![k] = @ \cup {r}] \/ idle' = idle
    BY Zenon, <1>2 DEF PlanIdle, PlanCommand
  <2>3. todo' \in [Workers -> SUBSET Runs] /\ idle' \in [Workers -> SUBSET Runs]
    <3>1. todo[k] \ {r} \in SUBSET Runs /\ idle[k] \cup {r} \in SUBSET Runs
      BY Zenon DEF Types
    <3> QED BY Zenon, <2>2, <3>1 DEF Types
  <2> QED BY Zenon, <1>2, <2>1, <2>3 DEF PlanIdle, PlanCommand, Types, rowVars, counters
<1>3. ASSUME NEW r \in Runs, SubmitRejected(k, r) \/ SubmitRefused(k, r) \/ PlanUnavailable(k, r)
      PROVE  Types'
  BY ZenonT(20), <1>3 DEF SubmitRejected, SubmitRefused, PlanUnavailable, Types, rowVars, counters
<1>4. ASSUME NEW r \in Runs, NEW s \in States, SubmitAccepted(k, r, s)
      PROVE  Types'
  BY <1>4 DEF SubmitAccepted, Types, rowVars, counters
<1>5. CASE FinishBatch(k)
  <2>1. due' \in [Runs -> Nat \cup {None}]
    BY <1>5 DEF FinishBatch, Types
  <2> QED BY Zenon, <1>5, <2>1, ForgetTypes DEF FinishBatch, Types, counters
<1>6. CASE CrashWorker(k)
  BY Zenon, <1>6, ForgetTypes DEF CrashWorker, Types, rowVars
<1>7. ASSUME NEW r \in Runs, PlanRaises(k, r)
      PROVE  Types'
  <2>1. due' \in [Runs -> Nat \cup {None}] /\ poison' \in [Runs -> QuarantineRows \cup {None}]
    <3>1. CASE MayCount(k, r)
      <4>1. PICK retryAt \in Nat \cup {None}, attempt \in Nat :
              /\ poison' = [poison EXCEPT ![r] =
                   [reason |-> "planner", next |-> retryAt, count |-> attempt]]
              /\ due' = [due EXCEPT ![r] = retryAt]
        BY Zenon, <1>7, <3>1, CountedType
      <4>2. [reason |-> "planner", next |-> retryAt, count |-> attempt] \in QuarantineRows
        BY DEF QuarantineRows
      <4> QED BY Zenon, <4>1, <4>2 DEF Types
    <3>2. CASE ~MayCount(k, r)
      BY Zenon, <1>7, <3>2 DEF PlanRaises, Types
    <3> QED BY Zenon, <3>1, <3>2
  <2>2. todo' \in [Workers -> SUBSET Runs] /\ errors' \in Nat
    BY <1>7 DEF PlanRaises, Types
  <2> QED BY Zenon, <1>7, <2>1, <2>2 DEF PlanRaises, Types
<1> QED BY Zenon, <1>1, <1>2, <1>3, <1>4, <1>5, <1>6, <1>7 DEF Load, Plan

(* Every step preserves the types.                                         *)
LEMMA StepTypes ==
  ASSUME Types, [Next]_vars
  PROVE  Types'
<1>1. CASE UNCHANGED vars
  BY Zenon, <1>1 DEF vars, rowVars, workerVars, counters, Types
<1> QED BY Zenon, <1>1, EnvironmentTypes, BatchTypes DEF Next, Faulty

-----------------------------------------------------------------------------
(* What a step does to the streams and rows.                               *)

\* Streams only grow.
StreamsGrow ==
  \A r \in Runs :
    /\ Len(history[r]) <= Len(history'[r])
    /\ \A i \in 1..Len(history[r]) : history'[r][i] = history[r][i]
    /\ Len(history[r]) = Len(history'[r]) => history'[r] = history[r]

(* An appended event leaves the earlier ones (append).                     *)
LEMMA AppendGrows ==
  ASSUME Types, NEW r \in Runs, NEW s \in States,
         history' = [history EXCEPT ![r] = Append(@, s)]
  PROVE  StreamsGrow /\ Len(history'[r]) = Len(history[r]) + 1
<1>1. \A q \in Runs : history[q] \in Seq(States) /\ Len(history[q]) \in Nat
  BY DEF Types
<1>2. history'[r] = Append(history[r], s) /\ \A q \in Runs \ {r} : history'[q] = history[q]
  BY Zenon DEF Types
<1>3. /\ Len(history'[r]) = Len(history[r]) + 1
      /\ \A i \in 1..Len(history[r]) : history'[r][i] = history[r][i]
  BY <1>1, <1>2
<1>4. ASSUME NEW q \in Runs
      PROVE  /\ Len(history[q]) <= Len(history'[q])
             /\ \A i \in 1..Len(history[q]) : history'[q][i] = history[q][i]
             /\ Len(history[q]) = Len(history'[q]) => history'[q] = history[q]
  <2>1. CASE q = r
    BY <1>1, <1>3, <2>1
  <2>2. CASE q # r
    BY <1>1, <1>2, <2>2
  <2> QED BY Zenon, <2>1, <2>2
<1> QED BY Zenon, <1>3, <1>4 DEF StreamsGrow

\* The steps that append an event.
Appends ==
  \/ \E r \in Runs, s \in States : EventArrives(r, s)
  \/ \E k \in Workers, r \in Runs, s \in States : SubmitAccepted(k, r, s)

(* A step appends one event and leaves the rows and the quarantine, or     *)
(* leaves the streams.                                                     *)
LEMMA StepStreams ==
  ASSUME Types, [Next]_vars
  PROVE  \/ /\ UNCHANGED <<position, due, poison, scope, errors, rebuilt>>
            /\ StreamsGrow
            /\ \E r \in Runs : /\ Len(history'[r]) = Len(history[r]) + 1
                              /\ \A q \in Runs \ {r} : history'[q] = history[q]
         \/ UNCHANGED history
<1>1. ASSUME NEW r \in Runs, NEW s \in States,
             EventArrives(r, s) \/ \E k \in Workers : SubmitAccepted(k, r, s)
      PROVE  /\ UNCHANGED <<position, due, poison, scope, errors, rebuilt>>
             /\ StreamsGrow /\ Len(history'[r]) = Len(history[r]) + 1
             /\ \A q \in Runs \ {r} : history'[q] = history[q]
  <2>1. /\ history' = [history EXCEPT ![r] = Append(@, s)]
        /\ UNCHANGED <<position, due, poison, scope, errors, rebuilt>>
    BY Zenon, <1>1 DEF EventArrives, SubmitAccepted, rowVars, scopeVars, counters
  <2> QED BY Zenon, <2>1, AppendGrows DEF Types
<1>2. CASE UNCHANGED vars
  BY Zenon, <1>2 DEF vars
<1>3. CASE Next /\ ~Appends
  BY Zenon, <1>3
     DEF Appends, Next, Project, Tick, Load, LoadReady, Plan, PlanIdle, PlanCommand, SubmitRejected,
         FinishBatch, Faulty, SubmitRefused, PlanUnavailable, PlanRaises, CrashWorker, DeleteScope,
         RecoverScope
<1>4. CASE Appends
  BY Zenon, <1>1, <1>4 DEF Appends
<1> QED BY Zenon, <1>2, <1>3, <1>4

(* No row runs ahead of its stream (_flush_run).                           *)
LEMMA StepRowsBehind ==
  ASSUME Types, RowsBehind, [Next]_vars
  PROVE  RowsBehind'
<1>1. CASE UNCHANGED position
  <2>1. StreamsGrow \/ UNCHANGED history
    BY Zenon, StepStreams
  <2>2. ASSUME NEW r \in Runs PROVE position'[r] <= Len(history'[r])
    <3>1. position[r] <= Len(history[r]) /\ position[r] \in Nat /\ Len(history[r]) \in Nat
      BY DEF RowsBehind, Types
    <3>2. Len(history'[r]) \in Nat
      BY StepTypes DEF Types
    <3> QED BY <1>1, <2>1, <3>1, <3>2 DEF StreamsGrow
  <2> QED BY Zenon, <2>2 DEF RowsBehind
<1>2. ASSUME NEW r \in Runs, NEW p \in 1..Len(history[r]), Project(r, p)
      PROVE  RowsBehind'
  BY <1>2 DEF Project, RowsBehind, Types
<1>3. CASE DeleteScope
  BY <1>3 DEF DeleteScope, RowsBehind, Types
<1>4. ASSUME ~UNCHANGED position, ~DeleteScope
      PROVE  \E r \in Runs : \E p \in 1..Len(history[r]) : Project(r, p)
  BY ZenonT(40), <1>4
     DEF Next, EventArrives, Tick, Load, LoadReady, Plan, PlanIdle, PlanCommand, SubmitRejected,
         SubmitAccepted, FinishBatch, Faulty, SubmitRefused, PlanUnavailable, PlanRaises, CrashWorker,
         RecoverScope, vars, rowVars
<1> QED BY Zenon, <1>1, <1>2, <1>3, <1>4

-----------------------------------------------------------------------------
(* What a worker planned from.                                             *)

\* Worker j goes on with Run q as it loaded it, and found it idle if the
\* loaded state is idle.
GoesOn(j, q) ==
  /\ q \in todo[j] \cup idle[j] /\ armed'[j][q] = armed[j][q]
  /\ q \in idle'[j] => q \in idle[j] \/ Candidate(j, q) = "idle"

\* Worker j just loaded Run q.
JustLoaded(j, q) ==
  /\ armed'[j][q] = position[q] /\ position[q] > 0
  /\ q \notin idle'[j] /\ UNCHANGED history

(* A Run under way was loaded by this step or is planned from what was     *)
(* loaded before (run_once, _armed_positions).                             *)
LEMMA StepBatch ==
  ASSUME Types, [Next]_vars, NEW j \in Workers, NEW q \in Runs, q \in todo'[j] \cup idle'[j]
  PROVE  GoesOn(j, q) \/ JustLoaded(j, q)
<1> DEFINE Goal == GoesOn(j, q) \/ JustLoaded(j, q)
<1>1. CASE UNCHANGED <<todo, idle, armed>>
  BY Zenon, <1>1 DEF GoesOn
<1>2. ASSUME NEW k \in Workers, NEW corrupt \in SUBSET Runs, LoadReady(k, corrupt)
      PROVE  Goal
  <2>1. CASE k = j
    <3>1. /\ todo'[j] = {r \in Runs : Loadable(k, r)} \ corrupt /\ idle'[j] = {}
          /\ armed'[j] = [r \in Runs |-> IF Loadable(k, r) THEN position[r] ELSE None]
          /\ UNCHANGED history
      BY <1>2, <2>1 DEF LoadReady, Types
    <3>2. Loadable(k, q)
      BY Zenon, <3>1
    <3> QED BY Zenon, <3>1, <3>2 DEF Loadable, JustLoaded
  <2>2. CASE k # j
    BY Zenon, <1>2, <2>2 DEF LoadReady, GoesOn, Types
  <2> QED BY Zenon, <2>1, <2>2
<1>3. ASSUME NEW k \in Workers, NEW r \in Runs, PlanIdle(k, r)
      PROVE  Goal
  <2>1. CASE k = j
    <3>1. /\ todo'[j] = todo[j] \ {r} /\ idle'[j] = idle[j] \cup {r} /\ UNCHANGED armed
          /\ r \in todo[j] /\ Candidate(j, r) = "idle"
      BY Zenon, <1>3, <2>1 DEF PlanIdle, Planning, Types
    <3> QED BY Zenon, <3>1 DEF GoesOn
  <2>2. CASE k # j
    BY Zenon, <1>3, <2>2 DEF PlanIdle, GoesOn, Types
  <2> QED BY Zenon, <2>1, <2>2
<1>4. ASSUME NEW k \in Workers, NEW r \in Runs,
             PlanCommand(k, r) \/ PlanUnavailable(k, r) \/ PlanRaises(k, r)
      PROVE  Goal
  <2>1. todo' = [todo EXCEPT ![k] = @ \ {r}] /\ UNCHANGED <<idle, armed>>
    BY Zenon, <1>4 DEF PlanCommand, PlanUnavailable, PlanRaises
  <2>2. todo'[j] \subseteq todo[j]
    BY Zenon, <2>1 DEF Types
  <2> QED BY Zenon, <2>1, <2>2 DEF GoesOn
<1>5. ASSUME NEW k \in Workers, Forget(k)
      PROVE  Goal
  <2>1. CASE k = j
    BY Zenon, <1>5, <2>1 DEF Forget, Types
  <2>2. CASE k # j
    BY Zenon, <1>5, <2>2 DEF Forget, GoesOn, Types
  <2> QED BY Zenon, <2>1, <2>2
<1>6. \/ UNCHANGED <<todo, idle, armed>>
      \/ \E k \in Workers :
           \/ Forget(k) \/ \E corrupt \in SUBSET Runs : LoadReady(k, corrupt)
           \/ \E r \in Runs : \/ PlanIdle(k, r) \/ PlanCommand(k, r)
                             \/ PlanUnavailable(k, r) \/ PlanRaises(k, r)
  BY Zenon
     DEF Next, EventArrives, Project, Tick, Load, Plan, SubmitRejected, SubmitAccepted, FinishBatch,
         Faulty, SubmitRefused, CrashWorker, DeleteScope, RecoverScope, vars, workerVars
<1> QED BY Zenon, <1>1, <1>2, <1>3, <1>4, <1>5, <1>6

(* Workers plan at positions of the stream, and what they found idle is    *)
(* idle there for ever (load_ready, run_once).                             *)
LEMMA StepLoadedAt ==
  ASSUME Types, RowsBehind, LoadedAt, [Next]_vars
  PROVE  LoadedAt'
<1>1. SUFFICES ASSUME NEW j \in Workers, NEW q \in Runs, q \in todo'[j] \cup idle'[j]
               PROVE  /\ armed'[j][q] \in 1..Len(history'[q])
                      /\ q \in idle'[j] => history'[q][armed'[j][q]] = "idle"
  BY Zenon DEF LoadedAt, Candidate
<1>2. Len(history[q]) \in Nat /\ Len(history'[q]) \in Nat /\ position[q] \in Nat
  BY StepTypes DEF Types
<1>3. CASE JustLoaded(j, q)
  BY <1>2, <1>3 DEF JustLoaded, RowsBehind
<1>4. CASE GoesOn(j, q)
  <2>1. armed[j][q] \in 1..Len(history[q]) /\ armed'[j][q] = armed[j][q]
    BY Zenon, <1>4 DEF GoesOn, LoadedAt
  <2>2. q \in idle'[j] => history[q][armed[j][q]] = "idle"
    BY Zenon, <1>4 DEF GoesOn, LoadedAt, Candidate
  <2>3. StreamsGrow \/ UNCHANGED history
    BY Zenon, StepStreams
  <2>4. /\ Len(history[q]) <= Len(history'[q])
        /\ \A i \in 1..Len(history[q]) : history'[q][i] = history[q][i]
    BY <1>2, <2>3 DEF StreamsGrow
  <2>5. armed[j][q] \in 1..Len(history'[q])
    BY <1>2, <2>1, <2>4
  <2> QED BY Zenon, <2>1, <2>2, <2>4, <2>5
<1> QED BY Zenon, <1>1, <1>3, <1>4, StepBatch

-----------------------------------------------------------------------------
(* What a step does to the quarantine and to the marker of Run r.          *)

\* A failure is counted, and the marker set to the retry (failed).
CountsFailure(r) ==
  \E retryAt \in Nat \cup {None}, attempt \in Nat :
    /\ attempt = IF poison[r] = None THEN 1 ELSE poison[r].count + 1
    /\ retryAt = None <=> attempt >= MaxAttempts
    /\ poison'[r] = [reason |-> "planner", next |-> retryAt, count |-> attempt]
    /\ due[r] # None /\ due'[r] = retryAt
    /\ errors' = errors + 1 /\ UNCHANGED scope

\* A row that was offered, so not a blocked one, is set aside (load_ready).
SetsAside(r) ==
  /\ poison'[r] = SetAside(r)
  /\ poison[r] # None => poison[r].next # None
  /\ UNCHANGED <<due, errors, scope>>

\* The failures of an unblocked Run are forgotten (succeeded).
Forgives(r) ==
  /\ poison'[r] = None
  /\ poison[r] # None => poison[r].next # None
  /\ UNCHANGED <<due, errors, scope>>

\* A recovery decides on the row (recover_scope).
Recovers(r) ==
  /\ scope = "rebuilding" /\ scope' = "ok" /\ UNCHANGED <<due, errors>>
  /\ poison'[r] = None \/ (poison[r] # None /\ poison'[r] = SetAside(r))

KeepsQuarantine(r) == poison'[r] = poison[r] /\ errors' \in {errors, errors + 1}

(* Those are the ways a quarantine row changes.                            *)
LEMMA StepQuarantine ==
  ASSUME Types, [Next]_vars, NEW r \in Runs
  PROVE  \/ KeepsQuarantine(r) \/ CountsFailure(r) \/ SetsAside(r)
         \/ Forgives(r) \/ Recovers(r)
<1>1. ASSUME NEW k \in Workers, NEW corrupt \in SUBSET Runs, LoadReady(k, corrupt)
      PROVE  KeepsQuarantine(r) \/ SetsAside(r)
  <2>1. /\ poison'[r] = IF r \in corrupt THEN SetAside(r) ELSE poison[r]
        /\ r \in corrupt => Loadable(k, r)
        /\ UNCHANGED <<due, errors, scope>>
    BY Zenon, <1>1 DEF LoadReady, rowVars, scopeVars
  <2> QED BY Zenon, <2>1 DEF KeepsQuarantine, SetsAside, Loadable, Past
<1>2. ASSUME NEW k \in Workers, NEW q \in Runs, PlanIdle(k, q) \/ PlanCommand(k, q)
      PROVE  KeepsQuarantine(r) \/ Forgives(r)
  <2>1. Succeed(q) /\ UNCHANGED <<due, errors, scope>>
    BY Zenon, <1>2 DEF PlanIdle, PlanCommand, rowVars, scopeVars, counters
  <2>2. CASE q = r /\ Forgiven(q)
    <3>1. poison'[r] = None
      BY Zenon, <2>1, <2>2 DEF Succeed, Types
    <3> QED BY Zenon, <2>1, <2>2, <3>1 DEF Forgiven, Forgives
  <2>3. CASE ~(q = r /\ Forgiven(q))
    <3>1. poison'[r] = poison[r]
      BY Zenon, <2>1, <2>3 DEF Succeed, Types
    <3> QED BY Zenon, <2>1, <3>1 DEF KeepsQuarantine
  <2> QED BY Zenon, <2>2, <2>3
<1>3. ASSUME NEW k \in Workers, NEW q \in Runs, PlanRaises(k, q)
      PROVE  KeepsQuarantine(r) \/ CountsFailure(r)
  <2>1. errors' = errors + 1 /\ UNCHANGED scope
    BY Zenon, <1>3 DEF PlanRaises, scopeVars
  <2>2. CASE ~MayCount(k, q)
    BY Zenon, <1>3, <2>1, <2>2 DEF PlanRaises, KeepsQuarantine
  <2>3. CASE MayCount(k, q)
    <3>1. PICK retryAt \in Nat \cup {None}, attempt \in Nat :
            /\ attempt = IF poison[q] = None THEN 1 ELSE poison[q].count + 1
            /\ retryAt = None <=> attempt >= MaxAttempts
            /\ poison' = [poison EXCEPT ![q] =
                 [reason |-> "planner", next |-> retryAt, count |-> attempt]]
            /\ due' = [due EXCEPT ![q] = retryAt]
      BY Zenon, <1>3, <2>3, CountedType
    <3>2. CASE q = r
      <4>1. /\ poison'[r] = [reason |-> "planner", next |-> retryAt, count |-> attempt]
            /\ due'[r] = retryAt /\ due[r] # None
        BY Zenon, <2>3, <3>1, <3>2 DEF Types, MayCount
      <4> QED BY Zenon, <2>1, <3>1, <3>2, <4>1 DEF CountsFailure
    <3>3. CASE q # r
      BY Zenon, <2>1, <3>1, <3>3 DEF KeepsQuarantine, Types
    <3> QED BY Zenon, <3>2, <3>3
  <2> QED BY Zenon, <2>2, <2>3
<1>4. ASSUME NEW verified \in SUBSET Runs, RecoverScope(verified)
      PROVE  Recovers(r)
  <2>1. poison'[r] = IF poison[r] = None \/ r \in verified THEN None ELSE SetAside(r)
    BY Zenon, <1>4 DEF RecoverScope
  <2> QED BY Zenon, <1>4, <2>1 DEF RecoverScope, Recovers, rowVars, counters
<1>5. \/ UNCHANGED <<poison, errors>>
      \/ \E verified \in SUBSET Runs : RecoverScope(verified)
      \/ \E k \in Workers :
           \/ \E corrupt \in SUBSET Runs : LoadReady(k, corrupt)
           \/ \E q \in Runs : PlanIdle(k, q) \/ PlanCommand(k, q) \/ PlanRaises(k, q)
  BY Zenon
     DEF Next, EventArrives, Project, Tick, Load, Plan, SubmitRejected, SubmitAccepted, FinishBatch,
         Faulty, SubmitRefused, PlanUnavailable, CrashWorker, DeleteScope, vars, counters
<1>6. CASE UNCHANGED <<poison, errors>>
  BY Zenon, <1>6 DEF KeepsQuarantine
<1> QED BY Zenon, <1>1, <1>2, <1>3, <1>4, <1>5, <1>6

(* What a step does to the count of failures, the flags and spent budgets. *)
LEMMA StepFailures ==
  ASSUME Types, FailuresCounted, [Next]_vars
  PROVE  FailuresCounted' /\ errors' >= errors
<1>1. errors \in Nat /\ MaxAttempts \in Nat \ {0} /\ None \notin QuarantineRows
  BY Zenon, ArmingAssumption DEF Types
<1>2. ASSUME NEW r \in Runs
      PROVE  /\ errors' >= errors
             /\ poison'[r] # None =>
                  /\ poison'[r].count <= errors'
                  /\ poison'[r].next = None /\ poison'[r].reason = "planner"
                       => poison'[r].count >= MaxAttempts
  <2>1. poison[r] # None =>
          /\ poison[r].count \in Nat /\ poison[r].count <= errors
          /\ poison[r].next = None /\ poison[r].reason = "planner"
               => poison[r].count >= MaxAttempts
    <3>1. poison[r] # None => poison[r].count \in Nat
      BY DEF Types, QuarantineRows
    <3> QED BY Zenon, <3>1 DEF FailuresCounted, Spent, Blocked
  <2>2. CASE KeepsQuarantine(r)
    BY <1>1, <2>1, <2>2 DEF KeepsQuarantine
  <2>3. CASE CountsFailure(r)
    BY <1>1, <2>1, <2>3 DEF CountsFailure
  <2>4. CASE Forgives(r)
    BY <1>1, <2>4 DEF Forgives
  <2>5. CASE SetsAside(r) \/ Recovers(r)
    <3>1. /\ errors' = errors
          /\ poison'[r] = None \/ poison'[r] = SetAside(r)
      BY ZenonT(40), <2>5 DEF SetsAside, Recovers
    <3> QED BY <1>1, <2>1, <3>1, SetAsideType
  <2> QED BY Zenon, <2>2, <2>3, <2>4, <2>5, StepQuarantine
<1>3. errors' >= errors
  <2>1. CASE \E k \in Workers, r \in Runs : PlanRaises(k, r)
    <3>1. errors' = errors + 1
      BY Zenon, <2>1 DEF PlanRaises
    <3> QED BY <1>1, <3>1
  <2>2. CASE \E k \in Workers : Load(k) \/ Plan(k)
    <3>1. errors' = errors
      BY ZenonT(30), <2>2 DEF Load, LoadReady, Plan, PlanIdle, PlanCommand, SubmitRejected,
                              SubmitAccepted, FinishBatch, counters
    <3> QED BY <1>1, <3>1
  <2>3. CASE \/ UNCHANGED vars \/ Tick \/ DeleteScope
             \/ \E r \in Runs, s \in States : EventArrives(r, s)
             \/ \E r \in Runs : \E p \in 1..Len(history[r]) : Project(r, p)
             \/ \E verified \in SUBSET Runs : RecoverScope(verified)
    <3>1. errors' = errors
      BY ZenonT(30), <2>3 DEF EventArrives, Project, Tick, DeleteScope, RecoverScope, vars, counters
    <3> QED BY <1>1, <3>1
  <2>4. CASE \/ \E k \in Workers, r \in Runs : PlanUnavailable(k, r) \/ SubmitRefused(k, r)
             \/ \E k \in Workers : CrashWorker(k)
    <3>1. errors' = errors
      BY ZenonT(30), <2>4 DEF PlanUnavailable, SubmitRefused, CrashWorker, counters
    <3> QED BY <1>1, <3>1
  <2> QED BY Zenon, <2>1, <2>2, <2>3, <2>4 DEF Next, Faulty
<1> QED BY Zenon, <1>2, <1>3 DEF FailuresCounted, Spent, Blocked

(* A spent budget stays spent while the scope stays as it is.              *)
LEMMA StepSpent ==
  ASSUME Types, FailuresCounted, [Next]_vars
  PROVE  KeepsBlocked
<1>1. SUFFICES ASSUME NEW r \in Runs, Spent(r), scope' = scope
               PROVE  /\ poison'[r] # None /\ poison'[r].next = None
                      /\ poison'[r].reason = "planner"
                      /\ poison'[r].count >= poison[r].count
  BY Zenon DEF KeepsBlocked, Spent, Blocked
<1>2. /\ poison[r] # None /\ poison[r].next = None /\ poison[r].reason = "planner"
      /\ poison[r].count >= MaxAttempts
  BY Zenon, <1>1 DEF Spent, Blocked, FailuresCounted
<1>3. poison[r].count \in Nat /\ MaxAttempts \in Nat
  BY <1>2, ArmingAssumption DEF Types, QuarantineRows
<1>4. CASE KeepsQuarantine(r)
  BY <1>2, <1>3, <1>4 DEF KeepsQuarantine
<1>5. CASE CountsFailure(r)
  <2>1. PICK retryAt \in Nat \cup {None}, attempt \in Nat :
          /\ attempt = poison[r].count + 1
          /\ retryAt = None <=> attempt >= MaxAttempts
          /\ poison'[r] = [reason |-> "planner", next |-> retryAt, count |-> attempt]
    BY Zenon, <1>2, <1>5 DEF CountsFailure
  <2>2. retryAt = None /\ attempt >= poison[r].count
    BY <1>2, <1>3, <2>1
  <2>3. poison'[r] \in QuarantineRows
    BY <2>1 DEF QuarantineRows
  <2>4. poison'[r] # None
    BY Zenon, <2>3, ArmingAssumption
  <2> QED BY <2>1, <2>2, <2>4
<1>6. CASE SetsAside(r) \/ Forgives(r) \/ Recovers(r)
  <2>1. scope' # scope
    BY <1>2, <1>6 DEF SetsAside, Forgives, Recovers
  <2> QED BY Zenon, <1>1, <2>1
<1> QED BY Zenon, <1>4, <1>5, <1>6, StepQuarantine

-----------------------------------------------------------------------------
(* How a Run comes to have no marker.                                      *)

\* The marker goes with a batch that found the Run idle at its row's position.
Disarms(r) == UNCHANGED <<history, position>> /\ \E k \in Workers : Disarmed(k, r)

\* The row moves to an event that does not leave the Run to the planner.
MovesPast(r) ==
  /\ position'[r] \in 1..Len(history[r]) /\ UNCHANGED history
  /\ ~Arms(r, position'[r])

(* A Run without a marker had none, or lost it in one of these ways        *)
(* (_flush_run, disarm, failed, rebuild).                                  *)
LEMMA StepMarker ==
  ASSUME Types, [Next]_vars, NEW r \in Runs, due'[r] = None
  PROVE  \/ due[r] = None /\ position'[r] = position[r]
         \/ CountsFailure(r) /\ UNCHANGED <<history, position>>
         \/ Disarms(r) \/ MovesPast(r) \/ position'[r] = 0
<1>1. ASSUME NEW q \in Runs, NEW p \in 1..Len(history[q]), Project(q, p)
      PROVE  (due[r] = None /\ position'[r] = position[r]) \/ MovesPast(r)
  <2>1. CASE q = r
    <3>1. position'[r] = p /\ due'[r] = IF Arms(r, p) THEN 0 ELSE None
      BY Zenon, <1>1, <2>1 DEF Project, Types
    <3>2. 0 # None
      BY ArmingAssumption
    <3> QED BY Zenon, <1>1, <2>1, <3>1, <3>2 DEF Project, MovesPast
  <2>2. CASE q # r
    BY Zenon, <1>1, <2>2 DEF Project, Types
  <2> QED BY Zenon, <2>1, <2>2
<1>2. ASSUME NEW k \in Workers, FinishBatch(k)
      PROVE  (due[r] = None /\ position'[r] = position[r]) \/ Disarms(r)
  <2>1. due'[r] = (IF Disarmed(k, r) THEN None ELSE due[r]) /\ UNCHANGED <<history, position>>
    BY Zenon, <1>2 DEF FinishBatch
  <2> QED BY Zenon, <2>1 DEF Disarms
<1>3. ASSUME NEW k \in Workers, NEW q \in Runs, PlanRaises(k, q)
      PROVE  \/ due[r] = None /\ position'[r] = position[r]
             \/ CountsFailure(r) /\ UNCHANGED <<history, position>>
  <2>1. UNCHANGED <<history, position>>
    BY Zenon, <1>3 DEF PlanRaises
  <2>2. CASE due'[r] = due[r]
    BY Zenon, <2>1, <2>2
  <2>3. CASE due'[r] # due[r]
    <3>1. MayCount(k, q) /\ q = r
      <4>1. CASE ~MayCount(k, q)
        BY Zenon, <1>3, <2>3, <4>1 DEF PlanRaises
      <4>2. CASE MayCount(k, q) /\ q # r
        <5>1. \E retryAt \in Nat \cup {None} : due' = [due EXCEPT ![q] = retryAt]
          BY Zenon, <1>3, <4>2, CountedType
        <5> QED BY Zenon, <2>3, <4>2, <5>1 DEF Types
      <4> QED BY Zenon, <4>1, <4>2
    <3>2. PICK retryAt \in Nat \cup {None}, attempt \in Nat :
            /\ attempt = IF poison[r] = None THEN 1 ELSE poison[r].count + 1
            /\ retryAt = None <=> attempt >= MaxAttempts
            /\ poison' = [poison EXCEPT ![r] =
                 [reason |-> "planner", next |-> retryAt, count |-> attempt]]
            /\ due' = [due EXCEPT ![r] = retryAt]
      BY Zenon, <1>3, <3>1, CountedType
    <3>3. /\ poison'[r] = [reason |-> "planner", next |-> retryAt, count |-> attempt]
          /\ due'[r] = retryAt
      BY Zenon, <3>2 DEF Types
    <3>4. due[r] # None /\ errors' = errors + 1 /\ UNCHANGED scope
      BY Zenon, <1>3, <3>1 DEF PlanRaises, MayCount, scopeVars
    <3> QED BY ZenonT(40), <2>1, <3>2, <3>3, <3>4 DEF CountsFailure
  <2> QED BY Zenon, <2>2, <2>3
<1>4. CASE DeleteScope
  BY Zenon, <1>4 DEF DeleteScope
<1>5. \/ UNCHANGED <<due, position>> \/ DeleteScope
      \/ \E q \in Runs : \E p \in 1..Len(history[q]) : Project(q, p)
      \/ \E k \in Workers : FinishBatch(k) \/ \E q \in Runs : PlanRaises(k, q)
  BY ZenonT(40)
     DEF Next, EventArrives, Tick, Load, LoadReady, Plan, PlanIdle, PlanCommand, SubmitRejected,
         SubmitAccepted, Faulty, SubmitRefused, PlanUnavailable, CrashWorker, RecoverScope, vars, rowVars
<1>6. CASE UNCHANGED <<due, position>>
  BY Zenon, <1>6
<1> QED BY ZenonT(40), <1>1, <1>2, <1>3, <1>4, <1>5, <1>6

(* A blocked Run without a marker stays blocked, or a rebuild is on record *)
(* (recover_scope).                                                        *)
LEMMA StepBlocked ==
  ASSUME Types, [Next]_vars, scope = "rebuilding" => rebuilt,
         NEW r \in Runs, Blocked(r), due[r] = None
  PROVE  Blocked(r)' \/ rebuilt
<1>1. poison[r] # None /\ poison[r].next = None
  BY Zenon DEF Blocked
<1>2. CASE KeepsQuarantine(r)
  BY Zenon, <1>1, <1>2 DEF KeepsQuarantine, Blocked
<1>3. CASE CountsFailure(r) \/ SetsAside(r) \/ Forgives(r)
  BY Zenon, <1>1, <1>3 DEF CountsFailure, SetsAside, Forgives
<1>4. CASE Recovers(r)
  BY Zenon, <1>4 DEF Recovers
<1> QED BY Zenon, <1>2, <1>3, <1>4, StepQuarantine

(* The rebuilt flag is only raised, and a rebuild raises it (rebuild).     *)
LEMMA StepRebuilt ==
  ASSUME Types, [Next]_vars
  PROVE  /\ rebuilt => rebuilt'
         /\ (scope = "rebuilding" => rebuilt) => (scope' = "rebuilding" => rebuilt')
<1>1. CASE DeleteScope
  BY Zenon, <1>1 DEF DeleteScope
<1>2. ASSUME NEW verified \in SUBSET Runs, RecoverScope(verified)
      PROVE  scope' # "rebuilding" /\ UNCHANGED rebuilt
  BY <1>2 DEF RecoverScope, counters
<1>3. \/ UNCHANGED <<scope, rebuilt>> \/ DeleteScope
      \/ \E verified \in SUBSET Runs : RecoverScope(verified)
  BY ZenonT(40)
     DEF Next, EventArrives, Project, Tick, Load, LoadReady, Plan, PlanIdle, PlanCommand,
         SubmitRejected, SubmitAccepted, FinishBatch, Faulty, SubmitRefused, PlanUnavailable,
         PlanRaises, CrashWorker, vars, scopeVars, counters
<1> QED BY Zenon, <1>1, <1>2, <1>3

(* No number is one more than a number above it.                           *)
LEMMA NotAhead == \A m, n \in Nat : m <= n => m # n + 1
OBVIOUS

(* A position of a stream that is not before its end is its end.           *)
LEMMA AtTheEnd == \A n \in Nat : \A m \in 1..n : n <= m => m = n
OBVIOUS

(* A Run that is stranded after a step was stranded before it, or its      *)
(* planner spent its budget in that step: a batch that found it idle, or a *)
(* projection, takes no marker that is still needed (disarm, _flush_run).  *)
LEMMA NewlyStranded ==
  ASSUME Types, RowsBehind, LoadedAt, [Next]_vars, NEW r \in Runs, Stranded(r)'
  PROVE  Stranded(r) \/ (CountsFailure(r) /\ due'[r] = None)
<1>1. /\ position'[r] > 0 /\ position'[r] = Len(history'[r])
      /\ history'[r][Len(history'[r])] = "decide" /\ due'[r] = None
  BY Zenon DEF Stranded, CaughtUp, Last
<1>2. /\ Len(history[r]) \in Nat /\ Len(history'[r]) \in Nat
      /\ position[r] \in Nat /\ position[r] <= Len(history[r])
  BY StepTypes DEF Types, RowsBehind
<1>3. CASE history'[r] # history[r]
  <2>1. position'[r] = position[r] /\ Len(history'[r]) = Len(history[r]) + 1
    BY Zenon, <1>3, StepStreams
  <2> QED BY Zenon, <1>1, <1>2, <2>1, NotAhead
<1>4. CASE history'[r] = history[r] /\ due[r] = None /\ position'[r] = position[r]
  BY Zenon, <1>1, <1>4 DEF Stranded, CaughtUp, Last
<1>5. CASE Disarms(r)
  <2>1. PICK k \in Workers : r \in idle[k] /\ position[r] <= armed[k][r]
    BY Zenon, <1>5 DEF Disarms, Disarmed
  <2>2. armed[k][r] \in 1..Len(history[r]) /\ history[r][armed[k][r]] = "idle"
    BY Zenon, <2>1 DEF LoadedAt, Candidate
  <2>3. position'[r] = position[r] /\ history'[r] = history[r]
    BY Zenon, <1>5 DEF Disarms
  <2>4. armed[k][r] = Len(history[r])
    BY ZenonT(40), <1>1, <1>2, <2>1, <2>2, <2>3, AtTheEnd
  <2>5. "idle" # "decide"
    OBVIOUS
  <2> QED BY ZenonT(40), <1>1, <2>2, <2>3, <2>4, <2>5
<1>6. CASE MovesPast(r)
  BY Zenon, <1>1, <1>6 DEF MovesPast, Arms
<1>7. CASE position'[r] = 0
  BY <1>1, <1>7
<1> QED BY Zenon, <1>1, <1>3, <1>4, <1>5, <1>6, <1>7, StepMarker

(* Only a spent budget strands a Run, and only a rebuild releases it then  *)
(* (failed, recover_scope).                                                *)
LEMMA StepStranded ==
  ASSUME ArmingInv, [Next]_vars
  PROVE  StrandedBySpending'
<1>1. /\ Types /\ RowsBehind /\ LoadedAt /\ FailuresCounted /\ StrandedBySpending
      /\ scope = "rebuilding" => rebuilt
  BY Zenon DEF ArmingInv
<1>2. /\ errors \in Nat /\ errors' \in Nat /\ MaxAttempts \in Nat \ {0} /\ errors' >= errors
      /\ None \notin QuarantineRows
  BY Zenon, <1>1, StepTypes, StepFailures, ArmingAssumption DEF Types
<1>3. SUFFICES ASSUME NEW r \in Runs, Stranded(r)'
               PROVE  errors' >= MaxAttempts /\ (Blocked(r)' \/ rebuilt')
  BY Zenon DEF StrandedBySpending
<1>4. CASE Stranded(r)
  <2>1. errors >= MaxAttempts /\ (Blocked(r) \/ rebuilt) /\ due[r] = None
    BY Zenon, <1>1, <1>4 DEF StrandedBySpending, Stranded
  <2>2. errors' >= MaxAttempts
    BY <1>2, <2>1
  <2> QED BY Zenon, <1>1, <2>1, <2>2, StepBlocked, StepRebuilt
<1>5. CASE CountsFailure(r) /\ due'[r] = None
  <2>1. PICK retryAt \in Nat \cup {None}, attempt \in Nat :
          /\ attempt = IF poison[r] = None THEN 1 ELSE poison[r].count + 1
          /\ retryAt = None <=> attempt >= MaxAttempts
          /\ poison'[r] = [reason |-> "planner", next |-> retryAt, count |-> attempt]
          /\ retryAt = None /\ errors' = errors + 1
    BY Zenon, <1>5 DEF CountsFailure
  <2>2. poison[r] # None => poison[r].count <= errors /\ poison[r].count \in Nat
    BY <1>1 DEF FailuresCounted, Types, QuarantineRows
  <2>3. errors' >= MaxAttempts
    BY <1>2, <2>1, <2>2
  <2>4. poison'[r] \in QuarantineRows /\ poison'[r].next = None
    BY <2>1 DEF QuarantineRows
  <2> QED BY Zenon, <1>2, <2>3, <2>4 DEF Blocked
<1> QED BY ZenonT(40), <1>1, <1>3, <1>4, <1>5, NewlyStranded

-----------------------------------------------------------------------------
(* The theorems.                                                           *)

LEMMA InitialArming ==
  ASSUME Init
  PROVE  ArmingInv
<1>1. Types
  <2>1. 0 \in Nat /\ <<>> \in Seq(States)
    OBVIOUS
  <2> QED BY Zenon, <2>1 DEF Init, Types
<1>2. RowsBehind /\ LoadedAt /\ FailuresCounted
  <2>1. RowsBehind
    BY DEF Init, RowsBehind
  <2>2. LoadedAt /\ FailuresCounted
    BY Zenon DEF Init, LoadedAt, FailuresCounted
  <2> QED BY Zenon, <2>1, <2>2
<1>3. scope # "rebuilding" /\ StrandedBySpending
  BY DEF Init, StrandedBySpending, Stranded, CaughtUp
<1> QED BY Zenon, <1>1, <1>2, <1>3 DEF ArmingInv

LEMMA StepArming ==
  ASSUME ArmingInv, [Next]_vars
  PROVE  ArmingInv'
<1>1. Types /\ RowsBehind /\ LoadedAt /\ FailuresCounted /\ (scope = "rebuilding" => rebuilt)
  BY Zenon DEF ArmingInv
<1>2. Types' /\ RowsBehind' /\ LoadedAt' /\ FailuresCounted'
  BY Zenon, <1>1, StepTypes, StepRowsBehind, StepLoadedAt, StepFailures
<1>3. scope' = "rebuilding" => rebuilt'
  BY Zenon, <1>1, StepRebuilt
<1> QED BY Zenon, <1>2, <1>3, StepStranded DEF ArmingInv

(* The inductive invariant of the decision lane.                           *)
THEOREM ArmingInvariance == Spec => []ArmingInv
BY InitialArming, StepArming, PTL DEF Spec

(* A Run whose projected state needs a decision keeps its marker, unless it *)
(* is quarantined or its planner spent a budget around a rebuild            *)
(* (_flush_run, disarm, failed), for every number of Runs and workers.      *)
THEOREM NoLostWakeupTheorem == Spec => []NoLostWakeup
<1>1. ArmingInv => NoLostWakeup
  BY Zenon DEF ArmingInv, StrandedBySpending, Stranded, NoLostWakeup, LateFailure
<1> QED BY <1>1, ArmingInvariance, PTL

(* A Run whose planner failed too often stays quarantined until a recovery *)
(* of its scope, with no failure forgotten (failed, succeeded,             *)
(* load_ready).                                                            *)
THEOREM BlockedStaysTheorem == Spec => BlockedStays
<1>1. ArmingInv /\ [Next]_vars => [KeepsBlocked]_vars
  BY Zenon, StepSpent DEF ArmingInv
<1> QED BY <1>1, ArmingInvariance, PTL DEF Spec, BlockedStays
=============================================================================
