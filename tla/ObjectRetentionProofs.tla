------------------------- MODULE ObjectRetentionProofs -------------------------
(* Proofs about ObjectRetention: whatever needs a Run keeps its originals   *)
(* readable, and no collector tombstones what something needs, for any      *)
(* number of Runs, sessions, objects and collectors.                        *)
EXTENDS ObjectRetention, TLAPS

USE DEF Tombstoned

Intact(r) == fence[r] \notin Tombstoned

-----------------------------------------------------------------------------
(* Closures.                                                               *)

(* Every closed set around r contains the closure of r                     *)
(* (opencitadel_object_collection).                                        *)
LEMMA ClosureWithin ==
  ASSUME NEW ch, NEW mb, NEW r \in Runs, NEW S \in SUBSET Runs, r \in S, Closed(S, ch, mb)
  PROVE  Closure(r, ch, mb) \subseteq S
BY Zenon DEF Closure, Closed

(* A Run is in its own closure, and no link leaves a closure.              *)
LEMMA ClosureClosed ==
  ASSUME NEW ch, NEW mb, NEW r \in Runs
  PROVE  r \in Closure(r, ch, mb) /\ Closure(r, ch, mb) \subseteq Runs /\ Closed(Closure(r, ch, mb), ch, mb)
<1>1. r \in Closure(r, ch, mb) /\ Closure(r, ch, mb) \subseteq Runs
  BY Zenon DEF Closure
<1>2. ASSUME NEW x \in Closure(r, ch, mb), NEW y \in Runs, Linked(x, y, ch, mb)
      PROVE  y \in Closure(r, ch, mb)
  <2>1. SUFFICES ASSUME NEW S \in SUBSET Runs, r \in S, Closed(S, ch, mb)
                 PROVE  y \in S
    BY Zenon DEF Closure, Closed
  <2>2. x \in S
    BY Zenon, <2>1, ClosureWithin
  <2> QED
    BY Zenon, <1>2, <2>1, <2>2 DEF Closed
<1> QED
  BY Zenon, <1>1, <1>2 DEF Closed

(* Links have no direction, so neither have closures.                      *)
LEMMA ClosureSymmetric ==
  ASSUME NEW ch, NEW mb, NEW r \in Runs, NEW q \in Closure(r, ch, mb)
  PROVE  q \in Runs /\ Closure(q, ch, mb) = Closure(r, ch, mb)
<1>1. q \in Runs /\ Closure(q, ch, mb) \subseteq Closure(r, ch, mb)
  BY Zenon, ClosureClosed, ClosureWithin
<1>2. r \in Closure(q, ch, mb)
  <2> DEFINE Rest == Runs \ Closure(q, ch, mb)
  <2>1. SUFFICES ASSUME r \in Rest PROVE FALSE
    BY Zenon
  <2>2. Closed(Rest, ch, mb)
    <3>1. SUFFICES ASSUME NEW x \in Rest, NEW y \in Closure(q, ch, mb), Linked(x, y, ch, mb)
                   PROVE  FALSE
      BY Zenon DEF Closed
    <3>2. Linked(y, x, ch, mb)
      BY Zenon, <3>1 DEF Linked, SameSession
    <3>3. x \in Closure(q, ch, mb)
      BY Zenon, <1>1, <3>2, ClosureClosed DEF Closed
    <3> QED
      BY Zenon, <3>3
  <2>3. q \in Rest
    BY Zenon, <2>1, <2>2, ClosureWithin
  <2> QED
    BY Zenon, <1>1, <2>3, ClosureClosed
<1>3. Closure(r, ch, mb) \subseteq Closure(q, ch, mb)
  BY Zenon, <1>1, <1>2, ClosureClosed, ClosureWithin
<1> QED
  BY Zenon, <1>1, <1>3

(* More origins make no closure smaller.                                   *)
LEMMA ClosureMonotone ==
  ASSUME NEW ch, NEW mb, NEW more, NEW mores, ch \subseteq more, mb \subseteq mores, NEW r \in Runs
  PROVE  Closure(r, ch, mb) \subseteq Closure(r, more, mores)
<1>1. Closed(Closure(r, more, mores), ch, mb)
  BY Zenon, ClosureClosed DEF Closed, Linked
<1> QED
  BY Zenon, <1>1, ClosureClosed, ClosureWithin

(* Where no CreateRun is pending, the kin of a Run are in its collection.  *)
LEMMA KinCollected ==
  ASSUME NEW r \in Runs, \A q \in Kin(r) : ~Pending(q)
  PROVE  Kin(r) \subseteq Collection(r)
<1> DEFINE F == Kin(r)
           C == Collection(r)
           S == {x \in Runs : x \in C \/ x \notin F}
<1>1. F = Closure(r, Known, Joined) /\ C = Closure(r, CreatedRuns, CreatedRuns)
  BY Zenon DEF Kin, Collection
<1>2. Closed(S, Known, Joined)
  <2>1. SUFFICES ASSUME NEW x \in S, NEW y \in Runs, Linked(x, y, Known, Joined), y \in F
                 PROVE  y \in C
    BY Zenon DEF Closed
  <2>2. x \in F
    BY <1>1, <2>1, ClosureClosed DEF Closed, Linked, SameSession
  <2>3. x \in C
    BY Zenon, <2>1, <2>2
  <2>4. Linked(x, y, CreatedRuns, CreatedRuns)
    BY Zenon, <2>1, <2>2 DEF Linked, SameSession, Known, Joined, CreatedRuns
  <2> QED
    BY Zenon, <1>1, <2>3, <2>4, ClosureClosed DEF Closed
<1>3. r \in S
  BY Zenon, <1>1, ClosureClosed
<1>4. F \subseteq S
  BY SMTT(30), <1>1, <1>2, <1>3, ClosureWithin
<1> QED
  BY Zenon, <1>4

(* Kin are family.                                                         *)
LEMMA KinInFamily ==
  ASSUME NEW r \in Runs
  PROVE  Kin(r) \subseteq Family(r)
BY Zenon, ClosureMonotone DEF Kin, Family, Joined

-----------------------------------------------------------------------------
(* The inductive invariant.                                                *)

(* A collector has listed, and deletes, objects of tombstoned Runs only;   *)
(* only those are cleaned; an object has the row of its Run.               *)
SweepsTombstones ==
  /\ \A g \in Collectors :
       /\ \A k \in collector[g].keys : ~Intact(OwnerOf[k])
       /\ collector[g].at \in {"deleting", "cleaning"} =>
            collector[g].key \in Keys /\ ~Intact(OwnerOf[collector[g].key])
  /\ \A k \in Keys : cleaned[k] # "no" => ~Intact(OwnerOf[k])
  /\ \A k \in Keys : object[k] # "none" \/ writer[k] # "idle" => fence[OwnerOf[k]] # "none"

(* What was uploaded for a Run that is not tombstoned is in the storage.   *)
StoredWhileLive ==
  \A k \in Keys : Intact(OwnerOf[k]) /\ (object[k] = "ready" \/ writer[k] = "put") => k \in bytes

(* An admission under way holds its session and has its parent; the one    *)
(* that passed the guard holds the lock, and what the guard saw stands.    *)
AdmissionsHeld ==
  /\ \A k \in Inputs : writer[k] # "idle" =>
       /\ OwnerOf[k] \in Held => SessionOf[OwnerOf[k]] \in sessions
       /\ ParentOf[OwnerOf[k]] # None => Created(ParentOf[OwnerOf[k]])
  /\ \A k \in Keys : writer[k] \in {"ready", "guarded"} => k \in Inputs
  /\ \A k \in Keys : writer[k] = "guarded" => lock = k /\ CanPublish(OwnerOf[k])

(* Children have parents, and evidence is about Runs that exist.           *)
Grounded ==
  /\ \A r \in Known : ParentOf[r] # None => Created(ParentOf[r])
  /\ evidence \subseteq CreatedRuns

(* No kin of a Run that something needs is tombstoned, but for the batch   *)
(* attempts, which are submitted after their guard.                        *)
RootsLive == \A r \in Runs \ Attempts : Rooted(r) => \A q \in Kin(r) : Intact(q)

RetentionInv ==
  RetentionTypeOK /\ SweepsTombstones /\ StoredWhileLive /\ AdmissionsHeld /\ Grounded /\ RootsLive

-----------------------------------------------------------------------------
(* Roots.                                                                  *)

(* What passes the guard has intact kin (reference_guard).  A pending batch *)
(* attempt has no kin but itself.                                          *)
LEMMA GuardedKin ==
  ASSUME RetentionAssumption, RootsLive, Grounded, NEW r \in Runs, Created(r), Guard(r)
  PROVE  \A q \in Kin(r) : Intact(q)
<1>1. ASSUME NEW p \in Kin(r), Pending(p)
      PROVE  \A q \in Kin(r) : Intact(q)
  <2>0. \A x : Kin(x) = Closure(x, Known, Joined)
    BY Zenon DEF Kin
  <2>1. p \in Runs /\ Kin(p) = Kin(r) /\ r \in Kin(r) /\ Kin(p) = Closure(p, Known, Joined)
    BY SMTT(30), <1>1, <2>0, ClosureSymmetric, ClosureClosed
  <2>2. CASE p \notin Attempts
    BY Zenon, <1>1, <2>1, <2>2 DEF RootsLive, Rooted
  <2>3. CASE p \in Attempts
    <3>1. SessionOf[p] = None /\ ParentOf[p] = None /\ None \notin Runs /\ ~Created(p)
      BY Zenon, <1>1, <2>3 DEF RetentionAssumption, Pending, Created
    <3>2. ASSUME NEW y \in Runs, Linked(p, y, Known, Joined) PROVE FALSE
      <4>1. y \in Known /\ ParentOf[y] = p
        BY Zenon, <3>1, <3>2 DEF Linked, SameSession
      <4>2. ParentOf[y] # None
        BY SMTT(30), <2>1, <3>1, <4>1
      <4> QED
        BY SMTT(30), <3>1, <4>1, <4>2 DEF Grounded
    <3>3. Closed({p}, Known, Joined)
      BY SMTT(30), <3>2 DEF Closed
    <3>4. Closure(p, Known, Joined) \subseteq {p}
      BY SMTT(30), <2>1, <3>3, ClosureWithin
    <3>5. r = p
      BY Zenon, <2>1, <3>4
    <3> QED
      BY Zenon, <3>1, <3>5
  <2> QED
    BY Zenon, <2>2, <2>3
<1>2. CASE \A p \in Kin(r) : ~Pending(p)
  BY Zenon, <1>2, KinCollected DEF Guard, Intact
<1> QED
  BY Zenon, <1>1, <1>2

(* What the collector does not retain is in no family that something needs *)
(* (collection_is_retained).                                               *)
LEMMA UnretainedUnrooted ==
  ASSUME RetentionTypeOK, RetentionAssumption, Grounded, NEW r \in Runs, ~Retained(r),
         NEW q \in Runs, Rooted(q)
  PROVE  r \notin Family(q)
<1>2. Family(r) = Closure(r, Known, Known) /\ Family(q) = Closure(q, Known, Known)
  BY Zenon DEF Family
<1>1. SUFFICES ASSUME q \in Family(r) PROVE FALSE
  BY SMTT(30), <1>2, ClosureSymmetric, ClosureClosed
<1>3. CASE Created(r)
  <2> DEFINE C == Collection(r)
  <2>1. \A x \in C : ~MemberRetained(x)
    BY Zenon, <1>3 DEF Retained
  <2>2. r \in C /\ C \subseteq Runs /\ Closed(C, CreatedRuns, CreatedRuns)
    BY Zenon, ClosureClosed DEF Collection
  <2>3. Closed(C, Known, Known)
    <3>1. SUFFICES ASSUME NEW x \in C, NEW y \in Runs, Linked(x, y, Known, Known)
                   PROVE  y \in C
      BY Zenon DEF Closed
    <3>2. Created(x) /\ ~Awaited(x)
      BY Zenon, <2>1 DEF MemberRetained
    <3>3. Linked(x, y, CreatedRuns, CreatedRuns)
      BY Zenon, <2>2, <3>1, <3>2 DEF Linked, SameSession, Awaited, Known, CreatedRuns
    <3> QED
      BY Zenon, <2>2, <3>1, <3>3 DEF Closed
  <2>4. q \in C
    BY <1>1, <1>2, <2>2, <2>3, ClosureWithin
  <2>5. Created(q) /\ SessionOf[q] \notin sessions /\ q \notin evidence /\ q \notin Attempts /\ stage[q] = "expired"
    BY Zenon, <2>1, <2>4 DEF MemberRetained
  <2> QED
    BY Zenon, <2>5 DEF Rooted, Pending
<1>4. CASE ~Created(r)
  <2>1. ~Pending(r)
    BY Zenon DEF Retained, Awaited
  <2>2. Closed({r}, Known, Known)
    BY Zenon, <1>4, <2>1 DEF Closed, Linked, SameSession, Known, CreatedRuns, Retained, Awaited
  <2>3. q = r
    BY <1>1, <1>2, <2>2, ClosureWithin
  <2> QED
    BY Zenon, <1>4, <2>1, <2>3 DEF Rooted, Grounded, CreatedRuns, Created
<1> QED
  BY Zenon, <1>3, <1>4

-----------------------------------------------------------------------------
(* Steps.                                                                  *)

(* What the rows of tombstones show of a step: a tombstone stays, and a    *)
(* new one comes from the check of a Run nothing retains.                  *)
LEMMA TombstonesStay ==
  ASSUME RetentionTypeOK, RetentionAssumption, SweepsTombstones, Next
  PROVE  /\ \A r \in Runs : ~Intact(r) => ~Intact(r)'
         /\ \A r \in Runs : Intact(r) /\ ~Intact(r)' =>
              ~Retained(r) /\ lock = None /\ UNCHANGED <<storeVars, rootVars, writeVars>>
         /\ \A r \in Runs : fence[r] # "none" => fence'[r] # "none"
<1> USE DEF RetentionTypeOK, RetentionAssumption, Intact
<1>1. CASE UNCHANGED fence
  BY Zenon, <1>1
<1>2. ASSUME NEW k \in Keys, Register(k)
      PROVE  \A r \in Runs : Intact(r)' <=> Intact(r)
  BY Zenon, <1>2 DEF Register
<1>3. ASSUME NEW k \in Keys, Register(k)
      PROVE  \A r \in Runs : fence[r] # "none" => fence'[r] # "none"
  BY Zenon, <1>3 DEF Register
<1>4. ASSUME NEW g \in Collectors, NEW r \in Runs, CheckRun(g, r)
      PROVE  /\ \A q \in Runs : ~Intact(q) => ~Intact(q)'
             /\ \A q \in Runs : Intact(q) /\ ~Intact(q)' =>
                  ~Retained(q) /\ lock = None /\ UNCHANGED <<storeVars, rootVars, writeVars>>
             /\ \A q \in Runs : fence[q] # "none" => fence'[q] # "none"
  BY Zenon, <1>4 DEF CheckRun, MayCheck
<1>5. ASSUME NEW g \in Collectors, RecordCleaned(g)
      PROVE  \A r \in Runs : (Intact(r)' <=> Intact(r)) /\ (fence[r] # "none" => fence'[r] # "none")
  BY Zenon, <1>5 DEF RecordCleaned, At, SweepsTombstones
<1>6. \/ UNCHANGED fence
      \/ \E k \in Keys : Register(k)
      \/ \E g \in Collectors, r \in Runs : CheckRun(g, r)
      \/ \E g \in Collectors : RecordCleaned(g)
  BY ZenonT(40) DEF Next, Upload, Collect, CollectorFault, Clock, Root, PutBytes, MarkReady,
         GuardPublication, Publish, Prepare, Abandon, LatePut, AcceptCreate, RejectCreate, AppendLast,
         AddEvidence, DropEvidence, SubmitPrepared, PurgeSession, PassGrace, PassRetention, PassHour, PassMinute,
         ListRuns, SkipRun, CheckFails, ListObjects, ClaimDelete, DeleteBytes, DeleteFails,
         EndPass, AbortPass, rowVars
<1> QED
  BY Zenon, <1>1, <1>2, <1>3, <1>4, <1>5, <1>6

(* Every step keeps the types.                                             *)
LEMMA StepTypes ==
  ASSUME RetentionTypeOK, RetentionAssumption, Next
  PROVE  RetentionTypeOK'
<1> USE DEF RetentionTypeOK, RetentionAssumption
<1>1. ASSUME NEW k \in Keys, Upload(k) \/ Abandon(k) \/ LatePut(k)
      PROVE  RetentionTypeOK'
  BY <1>1 DEF Upload, Register, PutBytes, MarkReady, GuardPublication, Publish, Prepare, Abandon, LatePut,
              rowVars, storeVars, rootVars, writeVars
<1>2. CASE Root
  BY <1>2 DEF Root, AcceptCreate, RejectCreate, AppendLast, AddEvidence, DropEvidence, SubmitPrepared,
              PurgeSession, rowVars, storeVars, rootVars, writeVars
<1>3. CASE Clock
  BY <1>3 DEF Clock, PassGrace, PassRetention, PassHour, PassMinute,
              rowVars, storeVars, rootVars, writeVars
<1>4. ASSUME NEW g \in Collectors, Collect(g) \/ CollectorFault(g)
      PROVE  RetentionTypeOK'
  <2> DEFINE Passes == [at : Steps, runs : SUBSET Runs, keys : SUBSET Keys, key : Keys \cup {None}]
  <2>0. /\ collector[g].runs \subseteq Runs /\ collector[g].keys \subseteq Keys
        /\ collector[g].key \in Keys \cup {None}
    BY Zenon
  <2>1. FirstOf({r \in aged : fence[r] = "live"}, Batch, checked) \subseteq Runs
    BY Zenon DEF FirstOf
  <2>2. FirstOf({k \in Keys : Sweepable(k)}, Batch, swept) \subseteq Keys
    BY Zenon DEF FirstOf
  <2>3. collector' \in [Collectors -> Passes]
    <3>1. CASE ListRuns(g) \/ ListObjects(g)
      BY SMTT(30), <2>1, <2>2, <3>1 DEF ListRuns, ListObjects, Pass, Steps
    <3>2. CASE EndPass(g) \/ AbortPass(g)
      BY <3>2 DEF EndPass, AbortPass, Idle, Pass, Steps
    <3>3. ASSUME NEW r \in Runs, SkipRun(g, r) \/ CheckRun(g, r) \/ CheckFails(g, r)
          PROVE  collector' \in [Collectors -> Passes]
      BY SMTT(30), <2>0, <3>3 DEF SkipRun, CheckRun, CheckFails, Checked, Pass, Steps
    <3>4. ASSUME NEW k \in Keys, ClaimDelete(g, k)
          PROVE  collector' \in [Collectors -> Passes]
      BY Zenon, <2>0, <3>4 DEF ClaimDelete, Pass, Steps
    <3>5. CASE DeleteBytes(g) \/ DeleteFails(g) \/ RecordCleaned(g)
      BY SMTT(30), <2>0, <3>5 DEF DeleteBytes, DeleteFails, RecordCleaned, Pass, Steps
    <3> QED
      BY Zenon, <1>4, <3>1, <3>2, <3>3, <3>4, <3>5 DEF Collect, CollectorFault
  <2>4. fence' \in [Runs -> {"none", "live"} \cup Tombstoned] /\ cleaned' \in [Keys -> {"no", "fresh", "old"}]
    <3>1. ASSUME NEW r \in Runs, CheckRun(g, r)
          PROVE  fence' \in [Runs -> {"none", "live"} \cup Tombstoned] /\ UNCHANGED cleaned
      BY Zenon, <3>1 DEF CheckRun
    <3>2. ASSUME RecordCleaned(g)
          PROVE  fence' \in [Runs -> {"none", "live"} \cup Tombstoned]
                 /\ cleaned' \in [Keys -> {"no", "fresh", "old"}]
      BY ZenonT(40), <3>2 DEF RecordCleaned
    <3> QED
      BY ZenonT(40), <1>4, <3>1, <3>2 DEF Collect, CollectorFault, ListRuns, ListObjects, EndPass, SkipRun,
           ClaimDelete, DeleteBytes, AbortPass, DeleteFails, CheckFails, rowVars
  <2>5. bytes' \subseteq Keys /\ UNCHANGED <<object, aged, lost, rootVars, writeVars>>
    BY ZenonT(40), <1>4 DEF Collect, CollectorFault, ListRuns, ListObjects, EndPass, SkipRun, CheckRun,
         ClaimDelete, DeleteBytes, RecordCleaned, AbortPass, DeleteFails, CheckFails, rowVars, storeVars
  <2> QED
    BY Zenon, <2>3, <2>4, <2>5 DEF rootVars, writeVars
<1> QED
  BY Zenon, <1>1, <1>2, <1>3, <1>4 DEF Next

(* Collectors go on sweeping tombstones only.                              *)
LEMMA StepSweeps ==
  ASSUME RetentionTypeOK, RetentionTypeOK', RetentionAssumption, SweepsTombstones, Next
  PROVE  SweepsTombstones'
<1>0. /\ \A r \in Runs : ~Intact(r) => ~Intact(r)'
      /\ \A r \in Runs : fence[r] # "none" => fence'[r] # "none"
  BY Zenon, TombstonesStay
<1> DEFINE Sweeps(g) ==
      /\ \A k \in collector[g].keys : ~Intact(OwnerOf[k])
      /\ collector[g].at \in {"deleting", "cleaning"} =>
            collector[g].key \in Keys /\ ~Intact(OwnerOf[collector[g].key])
<1> USE DEF RetentionTypeOK, RetentionAssumption
<1>1. ASSUME NEW h \in Collectors PROVE Sweeps(h)'
  <2>1. Sweeps(h)
    BY Zenon DEF SweepsTombstones
  <2>2. CASE collector'[h] = collector[h]
    BY Zenon, <1>0, <2>1, <2>2
  <2>3. CASE ListRuns(h) \/ EndPass(h) \/ AbortPass(h)
    <3>1. collector'[h].keys = {} /\ collector'[h].at \in {"idle", "checking"}
      BY SMTT(30), <2>3 DEF ListRuns, EndPass, AbortPass, Idle, Pass
    <3> QED
      BY Zenon, <3>1
  <2>4. ASSUME NEW r \in Runs, Checked(h, r) PROVE Sweeps(h)'
    <3>1. collector'[h].keys = {} /\ collector'[h].at = "checking"
      BY SMTT(30), <2>4 DEF Checked, Pass
    <3> QED
      BY Zenon, <1>0, <2>1, <3>1
  <2>5. CASE ListObjects(h)
    <3>1. \A k \in FirstOf({j \in Keys : Sweepable(j)}, Batch, swept) : k \in Keys /\ ~Intact(OwnerOf[k])
      BY Zenon DEF FirstOf, Sweepable, Intact
    <3>2. collector'[h].keys = FirstOf({j \in Keys : Sweepable(j)}, Batch, swept)
          /\ collector'[h].at = "sweeping"
      BY SMTT(30), <2>5 DEF ListObjects, Pass
    <3> QED
      BY SMTT(30), <1>0, <3>1, <3>2
  <2>6. ASSUME NEW k \in Keys, ClaimDelete(h, k) PROVE Sweeps(h)'
    <3>1. k \in collector[h].keys /\ collector[h].at = "sweeping"
      BY Zenon, <2>6 DEF ClaimDelete, At
    <3>2. /\ collector'[h].keys = collector[h].keys \ {k}
          /\ collector'[h].at = "sweeping" \/ collector'[h].key = k
      BY SMTT(30), <2>6, <3>1 DEF ClaimDelete, Pass
    <3> QED
      BY SMTT(30), <1>0, <2>1, <3>1, <3>2
  <2>7. CASE DeleteBytes(h) \/ DeleteFails(h) \/ RecordCleaned(h)
    <3>1. /\ collector'[h].keys = collector[h].keys
          /\ \/ collector'[h].at = "sweeping"
             \/ collector[h].at = "deleting" /\ collector'[h].key = collector[h].key
      BY SMTT(30), <2>7 DEF DeleteBytes, DeleteFails, RecordCleaned, At, Pass
    <3> QED
      BY Zenon, <1>0, <2>1, <3>1
  <2>8. ASSUME NEW g \in Collectors, Collect(g) \/ CollectorFault(g) PROVE Sweeps(h)'
    <3>1. CASE g # h
      <4>1. ASSUME NEW r \in Runs, SkipRun(g, r) \/ CheckRun(g, r) \/ CheckFails(g, r)
            PROVE  collector'[h] = collector[h]
        BY SMTT(30), <3>1, <4>1 DEF SkipRun, CheckRun, CheckFails, Checked
      <4>2. ASSUME NEW k \in Keys, ClaimDelete(g, k)
            PROVE  collector'[h] = collector[h]
        BY SMTT(30), <3>1, <4>2 DEF ClaimDelete
      <4>3. CASE ListRuns(g) \/ ListObjects(g) \/ EndPass(g) \/ AbortPass(g)
        BY SMTT(30), <3>1, <4>3, <2>2 DEF ListRuns, ListObjects, EndPass, AbortPass
      <4>4. CASE DeleteBytes(g) \/ DeleteFails(g) \/ RecordCleaned(g)
        BY SMTT(30), <3>1, <4>4, <2>2 DEF DeleteBytes, DeleteFails, RecordCleaned
      <4> QED
        BY Zenon, <2>2, <2>8, <4>1, <4>2, <4>3, <4>4 DEF Collect, CollectorFault
    <3>2. CASE g = h
      BY Zenon, <2>8, <3>2, <2>3, <2>4, <2>5, <2>6, <2>7 DEF Collect, CollectorFault, SkipRun, CheckRun, CheckFails
    <3> QED
      BY Zenon, <3>1, <3>2
  <2>9. CASE UNCHANGED collector
    BY Zenon, <2>2, <2>9
  <2> QED
    BY Zenon, <2>8, <2>9 DEF Next, Upload, Clock, Root, Register, PutBytes, MarkReady,
         GuardPublication, Publish, Prepare, Abandon, LatePut, AcceptCreate, RejectCreate, AppendLast,
         AddEvidence, DropEvidence, SubmitPrepared, PurgeSession, PassGrace, PassRetention, PassHour, PassMinute
<1>2. ASSUME NEW k \in Keys, cleaned'[k] # "no" PROVE ~Intact(OwnerOf[k])'
  <2>1. cleaned[k] # "no" \/ \E g \in Collectors : RecordCleaned(g) /\ k = collector[g].key
    <3>1. ASSUME NEW j \in Keys, Upload(j) \/ Abandon(j) \/ LatePut(j) PROVE UNCHANGED cleaned
      BY Zenon, <3>1 DEF Upload, Register, PutBytes, MarkReady, GuardPublication, Publish, Prepare, Abandon, LatePut, rowVars
    <3>2. ASSUME Root PROVE UNCHANGED cleaned
      BY Zenon, <3>2 DEF Root, AcceptCreate, RejectCreate, AppendLast, AddEvidence, DropEvidence, SubmitPrepared,
                  PurgeSession, rowVars
    <3>3. ASSUME Clock PROVE cleaned[k] # "no"
      BY SMTT(30), <1>2, <3>3 DEF Clock, PassGrace, PassRetention, PassHour, PassMinute, rowVars
    <3>4. ASSUME NEW g \in Collectors, Collect(g) \/ CollectorFault(g), ~RecordCleaned(g)
          PROVE  UNCHANGED cleaned
      BY ZenonT(40), <3>4 DEF Collect, CollectorFault, ListRuns, SkipRun, CheckRun, CheckFails, ListObjects,
                  ClaimDelete, DeleteBytes, DeleteFails, EndPass, AbortPass, rowVars
    <3>5. ASSUME NEW g \in Collectors, RecordCleaned(g), k # collector[g].key
          PROVE  cleaned'[k] = cleaned[k]
      BY <3>5 DEF RecordCleaned
    <3> QED
      BY SMTT(30), <1>2, <3>1, <3>2, <3>3, <3>4, <3>5 DEF Next
  <2> QED
    BY ZenonT(40), <1>0, <2>1 DEF SweepsTombstones, RecordCleaned, At
<1>3. ASSUME NEW k \in Keys, object'[k] # "none" \/ writer'[k] # "idle"
      PROVE  fence'[OwnerOf[k]] # "none"
  <2>1. object[k] # "none" \/ writer[k] # "idle" \/ Register(k)
    <3>1. ASSUME NEW j \in Keys, Upload(j) \/ Abandon(j) \/ LatePut(j)
          PROVE  object[k] # "none" \/ writer[k] # "idle" \/ Register(k)
      <4>1. CASE Register(j)
        <5>1. k # j => object'[k] = object[k] /\ writer'[k] = writer[k]
          BY SMTT(30), <4>1 DEF Register
        <5> QED
          BY SMTT(30), <1>3, <4>1, <5>1
      <4>2. CASE PutBytes(j)
        BY SMTT(30), <1>3, <4>2 DEF PutBytes, rowVars
      <4>5. CASE GuardPublication(j)
        <5>1. object' = object /\ writer[j] = "ready"
          BY Zenon, <4>5 DEF GuardPublication, rowVars
        <5>2. k # j => writer'[k] = writer[k]
          BY SMTT(30), <4>5 DEF GuardPublication
        <5> QED
          BY Zenon, <1>3, <5>1, <5>2
      <4>4. CASE MarkReady(j)
        BY SMTT(30), <1>3, <4>4 DEF MarkReady
      <4>3. CASE Publish(j) \/ Prepare(j) \/ Abandon(j) \/ LatePut(j)
        BY SMTT(30), <1>3, <4>3 DEF Publish, Prepare, Abandon, LatePut, rowVars, writeVars
      <4> QED
        BY Zenon, <3>1, <4>1, <4>2, <4>3, <4>4, <4>5 DEF Upload
    <3>2. ASSUME Root \/ Clock PROVE UNCHANGED <<object, writer>>
      BY Zenon, <3>2 DEF Root, Clock, AcceptCreate, RejectCreate, AppendLast, AddEvidence, DropEvidence, SubmitPrepared,
                  PurgeSession, PassGrace, PassRetention, PassHour, PassMinute, rowVars, writeVars
    <3>3. ASSUME NEW g \in Collectors, Collect(g) \/ CollectorFault(g) PROVE UNCHANGED <<object, writer>>
      BY ZenonT(40), <3>3 DEF Collect, CollectorFault, ListRuns, SkipRun, CheckRun, CheckFails, ListObjects,
                  ClaimDelete, DeleteBytes, DeleteFails, RecordCleaned, EndPass, AbortPass, rowVars, writeVars
    <3> QED
      BY Zenon, <1>3, <3>1, <3>2, <3>3 DEF Next
  <2> QED
    BY <1>0, <2>1 DEF SweepsTombstones, Register
<1> QED
  BY Zenon, <1>1, <1>2, <1>3 DEF SweepsTombstones

(* What a step does to the stages of Runs: an origin is never taken back,  *)
(* a Run becomes known by its publication, and under the lock no origin is *)
(* added.                                                                  *)
LEMMA StageSteps ==
  ASSUME RetentionTypeOK, RetentionAssumption, Next
  PROVE  /\ \A r \in Runs : Created(r) => Created(r)'
         /\ \A r \in Runs : Created(r)' => Created(r) \/ (Pending(r) /\ lock = None)
         /\ \A r \in Runs : Pending(r)' =>
              \/ Pending(r) \/ SubmitPrepared(r)
              \/ \E k \in Keys : Publish(k) /\ r = OwnerOf[k] /\ stage[r] = "absent"
         /\ \A r \in Runs : stage'[r] = "active" => stage[r] = "active" \/ Pending(r)
<1> USE DEF RetentionTypeOK, RetentionAssumption, Created, Pending
<1>1. CASE UNCHANGED stage
  BY Zenon, <1>1
<1>2. ASSUME NEW k \in Keys, Publish(k)
      PROVE  \A r \in Runs : \/ stage'[r] = stage[r]
                             \/ stage[r] = "absent" /\ stage'[r] = "pending" /\ r = OwnerOf[k]
  BY Zenon, <1>2 DEF Publish
<1>9. ASSUME NEW p \in Runs, SubmitPrepared(p)
      PROVE  \A r \in Runs : \/ stage'[r] = stage[r]
                             \/ stage[r] = "absent" /\ stage'[r] = "pending" /\ SubmitPrepared(r)
  <2>1. \A r \in Runs : r # p => stage'[r] = stage[r]
    BY Zenon, <1>9 DEF SubmitPrepared
  <2>2. stage'[p] = stage[p] \/ (stage[p] = "absent" /\ stage'[p] = "pending")
    BY Zenon, <1>9 DEF SubmitPrepared
  <2> QED
    BY Zenon, <1>9, <2>1, <2>2
<1>3. ASSUME NEW p \in Runs, AcceptCreate(p)
      PROVE  \A r \in Runs : \/ stage'[r] = stage[r]
                             \/ Pending(r) /\ lock = None /\ stage'[r] = "active"
  BY Zenon, <1>3 DEF AcceptCreate
<1>4. ASSUME NEW p \in Runs, RejectCreate(p) \/ AppendLast(p) \/ PassRetention(p)
      PROVE  \A r \in Runs : \/ stage'[r] = stage[r]
                             \/ Pending(r) /\ stage'[r] = "absent"
                             \/ Created(r) /\ stage'[r] \in {"terminal", "expired"}
  BY SMTT(30), <1>4 DEF RejectCreate, AppendLast, PassRetention
<1>5. \/ UNCHANGED stage
      \/ \E k \in Keys : Publish(k)
      \/ \E p \in Runs : SubmitPrepared(p)
      \/ \E p \in Runs : AcceptCreate(p) \/ RejectCreate(p) \/ AppendLast(p) \/ PassRetention(p)
  BY ZenonT(40) DEF Next, Upload, Collect, CollectorFault, Clock, Root, Register, PutBytes, MarkReady,
         GuardPublication, Prepare, Abandon, LatePut, AddEvidence, DropEvidence, PurgeSession,
         PassGrace, PassHour, PassMinute, ListRuns, SkipRun, CheckRun, CheckFails, ListObjects,
         ClaimDelete, DeleteBytes, DeleteFails, RecordCleaned, EndPass, AbortPass, rootVars
<1>6. CASE \E k \in Keys : Publish(k)
  BY Zenon, <1>2, <1>6
<1>7. CASE \E p \in Runs : AcceptCreate(p)
  BY Zenon, <1>3, <1>7
<1>8. CASE \E p \in Runs : RejectCreate(p) \/ AppendLast(p) \/ PassRetention(p)
  BY Zenon, <1>4, <1>8
<1>10. CASE \E p \in Runs : SubmitPrepared(p)
  BY Zenon, <1>9, <1>10
<1> QED
  BY Zenon, <1>1, <1>5, <1>6, <1>7, <1>8, <1>10

(* Bytes of a live Run stay, and nothing is ready before its bytes are     *)
(* stored.                                                                 *)
LEMMA StepStored ==
  ASSUME RetentionTypeOK, RetentionAssumption, SweepsTombstones, StoredWhileLive, Next
  PROVE  StoredWhileLive'
<1>1. SUFFICES ASSUME NEW k \in Keys, Intact(OwnerOf[k])', object'[k] = "ready" \/ writer'[k] = "put"
               PROVE  k \in bytes'
  BY Zenon DEF StoredWhileLive
<1>2. Intact(OwnerOf[k])
  BY Zenon, <1>1, TombstonesStay DEF RetentionAssumption
<1> USE DEF RetentionTypeOK, RetentionAssumption
<1>3. object[k] = "ready" \/ writer[k] = "put" \/ PutBytes(k)
  <2>1. ASSUME NEW j \in Keys, Upload(j) \/ Abandon(j) \/ LatePut(j)
        PROVE  object[k] = "ready" \/ writer[k] = "put" \/ PutBytes(k)
    <3>1. CASE Register(j)
      BY Zenon, <1>1, <3>1 DEF Register
    <3>2. CASE PutBytes(j)
      <4>1. object' = object /\ (k # j => writer'[k] = writer[k])
        BY Zenon, <3>2 DEF PutBytes, rowVars
      <4> QED
        BY Zenon, <1>1, <3>2, <4>1
    <3>3. CASE MarkReady(j)
      BY Zenon, <1>1, <3>3 DEF MarkReady
    <3>4. CASE GuardPublication(j)
      <4>1. object' = object /\ (writer'[k] = writer[k] \/ writer'[k] \in {"guarded", "idle"})
        BY ZenonT(40), <3>4 DEF GuardPublication, rowVars
      <4> QED
        BY Zenon, <1>1, <4>1
    <3>5. CASE Publish(j) \/ Prepare(j) \/ Abandon(j) \/ LatePut(j)
      BY ZenonT(40), <1>1, <3>5 DEF Publish, Prepare, Abandon, LatePut, rowVars, writeVars
    <3> QED
      BY Zenon, <2>1, <3>1, <3>2, <3>3, <3>4, <3>5 DEF Upload
  <2>2. ASSUME Root \/ Clock PROVE UNCHANGED <<object, writer>>
    BY Zenon, <2>2 DEF Root, Clock, AcceptCreate, RejectCreate, AppendLast, AddEvidence, DropEvidence, SubmitPrepared,
                PurgeSession, PassGrace, PassRetention, PassHour, PassMinute, rowVars, writeVars
  <2>3. ASSUME NEW g \in Collectors, Collect(g) \/ CollectorFault(g) PROVE UNCHANGED <<object, writer>>
    BY ZenonT(40), <2>3 DEF Collect, CollectorFault, ListRuns, SkipRun, CheckRun, CheckFails, ListObjects,
                ClaimDelete, DeleteBytes, DeleteFails, RecordCleaned, EndPass, AbortPass, rowVars, writeVars
  <2> QED
    BY Zenon, <1>1, <2>1, <2>2, <2>3 DEF Next
<1>4. \/ bytes \subseteq bytes'
      \/ \E g \in Collectors : At(g, "deleting") /\ bytes \ {collector[g].key} \subseteq bytes'
  BY ZenonT(40) DEF Next, Upload, Collect, CollectorFault, Clock, Root, Register, PutBytes, MarkReady,
         GuardPublication, Publish, Prepare, Abandon, LatePut, AcceptCreate, RejectCreate, AppendLast,
         AddEvidence, DropEvidence, SubmitPrepared, PurgeSession, PassGrace, PassRetention, PassHour, PassMinute,
         ListRuns, SkipRun, CheckRun, CheckFails, ListObjects, ClaimDelete, DeleteBytes, DeleteFails,
         RecordCleaned, EndPass, AbortPass, storeVars
<1>5. k \in bytes => k \in bytes'
  BY Zenon, <1>2, <1>4 DEF SweepsTombstones, At
<1> QED
  BY Zenon, <1>2, <1>3, <1>5 DEF StoredWhileLive, PutBytes

(* What the guard saw stands as long as no origin and no tombstone is new. *)
LEMMA GuardStands ==
  ASSUME CreatedRuns' = CreatedRuns, \A q \in Runs : Intact(q)' <=> Intact(q),
         RetentionAssumption, NEW r \in Runs, CanPublish(r)
  PROVE  CanPublish(r)'
<1>1. \A q \in Runs : Created(q)' <=> Created(q)
  BY Zenon DEF CreatedRuns
<1>2. \A q \in Runs : Collection(q)' = Collection(q) /\ Collection(q) \subseteq Runs
  <2>1. \A q \in Runs : /\ Collection(q)' = Closure(q, CreatedRuns', CreatedRuns')
                        /\ Collection(q) = Closure(q, CreatedRuns, CreatedRuns)
    BY Zenon DEF Collection, CreatedRuns, Closure, Closed, Linked, SameSession
  <2> QED
    BY SMTT(30), <2>1, ClosureClosed
<1>3. \A q \in Runs : Guard(q) => Guard(q)'
  BY Zenon, <1>1, <1>2 DEF Guard, Intact
<1> QED
  BY Zenon, <1>3 DEF CanPublish, RetentionAssumption

(* An admission keeps its session, its parent and what its guard saw.      *)
LEMMA StepHeld ==
  ASSUME RetentionTypeOK, RetentionAssumption, SweepsTombstones, AdmissionsHeld, Next
  PROVE  AdmissionsHeld'
<1> USE DEF RetentionTypeOK, RetentionAssumption
<1>1. \/ UNCHANGED <<writer, lock>>
      \/ UNCHANGED sessions /\ \E j \in Keys : Upload(j) \/ Abandon(j)
  BY ZenonT(40) DEF Next, Collect, CollectorFault, Clock, Root, Upload, Register, PutBytes, MarkReady,
         GuardPublication, Publish, Prepare, Abandon, LatePut, AcceptCreate, RejectCreate, AppendLast,
         AddEvidence, DropEvidence, SubmitPrepared, PurgeSession, PassGrace, PassRetention, PassHour, PassMinute,
         ListRuns, SkipRun, CheckRun, CheckFails, ListObjects, ClaimDelete, DeleteBytes, DeleteFails,
         RecordCleaned, EndPass, AbortPass, rootVars, writeVars
<1>2. UNCHANGED sessions \/ \E s \in Sessions : PurgeSession(s)
  BY ZenonT(40) DEF Next, Collect, CollectorFault, Clock, Root, Upload, Register, PutBytes, MarkReady,
         GuardPublication, Publish, Prepare, Abandon, LatePut, AcceptCreate, RejectCreate, AppendLast,
         AddEvidence, DropEvidence, SubmitPrepared, PassGrace, PassRetention, PassHour, PassMinute,
         ListRuns, SkipRun, CheckRun, CheckFails, ListObjects, ClaimDelete, DeleteBytes, DeleteFails,
         RecordCleaned, EndPass, AbortPass, rootVars
<1>3. ASSUME NEW k \in Keys, writer'[k] # "idle"
      PROVE  writer[k] # "idle" \/ Register(k)
  BY SMTT(30), <1>1, <1>3 DEF Upload, Register, PutBytes, MarkReady, GuardPublication, Publish, Prepare, Abandon
<1>4. ASSUME NEW k \in Inputs, writer'[k] # "idle", OwnerOf[k] \in Held
      PROVE  SessionOf[OwnerOf[k]] \in sessions'
  <2>1. k \in Keys /\ OwnerOf[k] \in Runs
    BY Zenon
  <2>2. CASE Register(k)
    BY Zenon, <1>4, <2>1, <2>2 DEF Register, rootVars
  <2>3. CASE writer[k] # "idle"
    BY SMTT(30), <1>2, <1>4, <2>1, <2>3 DEF AdmissionsHeld, PurgeSession
  <2> QED
    BY Zenon, <1>3, <1>4, <2>1, <2>2, <2>3
<1>5. ASSUME NEW k \in Inputs, writer'[k] # "idle", ParentOf[OwnerOf[k]] # None
      PROVE  Created(ParentOf[OwnerOf[k]])'
  <2>1. k \in Keys /\ OwnerOf[k] \in Runs /\ ParentOf[OwnerOf[k]] \in Runs
    BY ZenonT(40), <1>5
  <2>2. Created(ParentOf[OwnerOf[k]])
    BY Zenon, <1>3, <1>5, <2>1 DEF AdmissionsHeld, Register
  <2> QED
    BY Zenon, <2>1, <2>2, StageSteps
<1>6. ASSUME NEW k \in Keys, writer'[k] \in {"ready", "guarded"}
      PROVE  k \in Inputs
  <2>1. writer[k] \in {"ready", "guarded"} \/ k \in Inputs
    BY SMTT(30), <1>1, <1>6 DEF Upload, Register, PutBytes, MarkReady, GuardPublication, Publish, Prepare, Abandon
  <2> QED
    BY Zenon, <2>1 DEF AdmissionsHeld
<1>7. ASSUME NEW k \in Keys, writer'[k] = "guarded"
      PROVE  lock' = k /\ CanPublish(OwnerOf[k])'
  <2>1. \/ writer[k] = "guarded" /\ (lock = k => lock' = k)
        \/ GuardPublication(k) /\ CanPublish(OwnerOf[k]) /\ lock' = k
    BY SMTT(30), <1>1, <1>7 DEF Upload, Register, PutBytes, MarkReady, GuardPublication, Publish, Prepare, Abandon, AdmissionsHeld
  <2>2. CASE writer[k] = "guarded" /\ (lock = k => lock' = k)
    <3>1. lock = k /\ lock # None /\ CanPublish(OwnerOf[k])
      BY SMTT(30), <2>2 DEF AdmissionsHeld
    <3>2. CreatedRuns' = CreatedRuns
      BY Zenon, <3>1, StageSteps DEF CreatedRuns
    <3>3. \A q \in Runs : Intact(q)' <=> Intact(q)
      BY Zenon, <3>1, TombstonesStay
    <3> QED
      BY Zenon, <2>2, <3>1, <3>2, <3>3, GuardStands
  <2>3. CASE GuardPublication(k) /\ CanPublish(OwnerOf[k]) /\ lock' = k
    <3>1. UNCHANGED <<stage, fence>>
      BY Zenon, <2>3 DEF GuardPublication, rowVars, rootVars
    <3>2. CreatedRuns' = CreatedRuns /\ \A q \in Runs : Intact(q)' <=> Intact(q)
      BY Zenon, <3>1 DEF CreatedRuns, Created, Intact
    <3> QED
      BY Zenon, <2>3, <3>2, GuardStands
  <2> QED
    BY Zenon, <2>1, <2>2, <2>3
<1> QED
  BY Zenon, <1>4, <1>5, <1>6, <1>7 DEF AdmissionsHeld

(* Children have parents after a step too, and evidence its Run.           *)
LEMMA StepGrounded ==
  ASSUME RetentionTypeOK, RetentionAssumption, AdmissionsHeld, Grounded, Next
  PROVE  Grounded'
<1> USE DEF RetentionTypeOK, RetentionAssumption
<1>1. ASSUME NEW r \in Known', ParentOf[r] # None
      PROVE  Created(ParentOf[r])'
  <2>1. r \in Runs /\ ParentOf[r] \in Runs
    BY Zenon, <1>1 DEF Known
  <2>2. r \in Known \/ \E k \in Keys : Publish(k) /\ r = OwnerOf[k]
    BY Zenon, <1>1, <2>1, StageSteps DEF Known, SubmitPrepared
  <2>3. Created(ParentOf[r])
    BY Zenon, <1>1, <2>2 DEF Grounded, AdmissionsHeld, Publish
  <2> QED
    BY Zenon, <2>1, <2>3, StageSteps
<1>2. ASSUME NEW r \in evidence'
      PROVE  r \in CreatedRuns'
  <2>1. UNCHANGED evidence \/ \E q \in Runs : AddEvidence(q) \/ DropEvidence(q)
    BY ZenonT(40) DEF Next, Collect, CollectorFault, Clock, Root, Upload, Register, PutBytes, MarkReady,
         GuardPublication, Publish, Prepare, Abandon, LatePut, AcceptCreate, RejectCreate, AppendLast,
         SubmitPrepared, PurgeSession, PassGrace, PassRetention, PassHour, PassMinute,
         ListRuns, SkipRun, CheckRun, CheckFails, ListObjects, ClaimDelete, DeleteBytes, DeleteFails,
         RecordCleaned, EndPass, AbortPass, rootVars
  <2>2. r \in Runs /\ Created(r)
    BY SMTT(30), <1>2, <2>1 DEF Grounded, CreatedRuns, AddEvidence, DropEvidence
  <2> QED
    BY Zenon, <2>2, StageSteps DEF CreatedRuns
<1> QED
  BY Zenon, <1>1, <1>2 DEF Grounded

(* Fewer roots and fewer links need no more than before.                   *)
LEMMA RootsFrame ==
  ASSUME RootsLive, \A r \in Runs \ Attempts : Rooted(r)' => Rooted(r),
         \A x, y \in Runs : Linked(x, y, Known', Joined') => Linked(x, y, Known, Joined),
         \A r \in Runs : Intact(r) => Intact(r)'
  PROVE  RootsLive'
<1>1. SUFFICES ASSUME NEW r \in Runs \ Attempts, Rooted(r)', NEW q \in Kin(r)' PROVE Intact(q)'
  BY Zenon DEF RootsLive
<1>2. Kin(r) = Closure(r, Known, Joined) /\ Kin(r)' = Closure(r, Known', Joined')
  BY Zenon DEF Kin, Known, Joined, Closure, Closed, Linked, SameSession
<1>3. r \in Kin(r) /\ Kin(r) \subseteq Runs /\ Closed(Kin(r), Known, Joined)
  BY Zenon, <1>2, ClosureClosed
<1>4. Closed(Kin(r), Known', Joined')
  BY Zenon, <1>3 DEF Closed
<1>5. q \in Kin(r) /\ q \in Runs
  BY SMTT(30), <1>1, <1>2, <1>3, <1>4, ClosureWithin
<1> QED
  BY Zenon, <1>1, <1>5 DEF RootsLive

(* The publication of a Run joins families that are intact.                *)
LEMMA PublishKeepsRoots ==
  ASSUME RetentionTypeOK, RetentionAssumption, AdmissionsHeld, Grounded, RootsLive,
         NEW k \in Keys, Publish(k), stage[OwnerOf[k]] = "absent"
  PROVE  RootsLive'
<1> USE DEF RetentionTypeOK, RetentionAssumption
<1> DEFINE r0 == OwnerOf[k]
           S == {x \in Runs : \A q \in Kin(x) : Intact(q)}
<1>1. /\ r0 \in Runs /\ r0 \notin Known /\ r0 \notin Attempts /\ CanPublish(r0)
      /\ r0 \in Held => SessionOf[r0] \in sessions
      /\ ParentOf[r0] # None => Created(ParentOf[r0])
  BY Zenon DEF Publish, AdmissionsHeld, Known, Pending, Created
<1>2. /\ UNCHANGED <<fence, sessions, evidence>>
      /\ \A q \in Runs : q # r0 => stage'[q] = stage[q]
      /\ stage'[r0] = "pending"
  BY Zenon, <1>1 DEF Publish, rowVars
<1>3. Known' = Known \cup {r0} /\ Joined' = Known' \cap Held
  BY SMTT(30), <1>1, <1>2 DEF Known, Joined, Pending, Created
<1>4. \A x \in Runs : Kin(x) = Closure(x, Known, Joined) /\ Kin(x)' = Closure(x, Known', Joined')
  BY Zenon DEF Kin, Known, Joined, Closure, Closed, Linked, SameSession
<1>5. \A q \in Runs \ Attempts : Rooted(q) => q \in S
  BY Zenon DEF RootsLive
<1>6. r0 \in S
  <2>1. Closed({r0}, Known, Joined)
    BY <1>1 DEF Closed, Linked, Grounded, Known, Joined
  <2>2. Kin(r0) \subseteq {r0}
    BY SMTT(30), <1>1, <1>4, <2>1, ClosureWithin
  <2> QED
    BY Zenon, <1>1, <2>2 DEF CanPublish, Guard, Intact
<1>7. ParentOf[r0] # None => ParentOf[r0] \in S
  BY ZenonT(40), <1>1, GuardedKin DEF CanPublish
<1>8. ASSUME NEW y \in Joined, r0 \in Held, SameSession(r0, y) PROVE y \in S
  <2>1. y \in Runs /\ y \notin Attempts /\ Rooted(y)
    BY Zenon, <1>1, <1>8 DEF SameSession, Rooted, Known, Joined
  <2> QED
    BY Zenon, <1>5, <2>1
<1>9. Closed(S, Known', Joined')
  <2>1. SUFFICES ASSUME NEW x \in S, NEW y \in Runs, Linked(x, y, Known', Joined'), y # r0 PROVE y \in S
    BY Zenon, <1>6 DEF Closed
  <2>2. CASE Linked(x, y, Known, Joined)
    <3>1. y \in Kin(x)
      BY SMTT(30), <1>4, <2>2, ClosureClosed DEF Closed
    <3>2. Kin(y) = Kin(x)
      BY SMTT(30), <1>4, <3>1, ClosureSymmetric
    <3> QED
      BY Zenon, <3>2
  <2>3. CASE x = r0
    <3>1. \/ ParentOf[r0] = y
          \/ y \in Known /\ ParentOf[y] = r0
          \/ y \in Joined /\ r0 \in Held /\ SameSession(r0, y)
      BY Zenon, <1>3, <2>1, <2>3 DEF Linked, Joined
    <3>2. ~(y \in Known /\ ParentOf[y] = r0)
      BY SMTT(30), <1>1 DEF Grounded, Known
    <3> QED
      BY SMTT(30), <1>1, <1>7, <1>8, <3>1, <3>2
  <2>4. Linked(x, y, Known, Joined) \/ x = r0
    BY Zenon, <1>3, <2>1 DEF Linked, Joined
  <2> QED
    BY Zenon, <2>2, <2>3, <2>4
<1>10. ASSUME NEW q \in Runs \ Attempts, Rooted(q)', NEW x \in Kin(q)' PROVE Intact(x)'
  <2>1. Rooted(q) \/ q = r0
    BY Zenon, <1>2, <1>10 DEF Rooted, Pending, Created
  <2>2. q \in S
    BY Zenon, <1>5, <1>6, <2>1
  <2>3. x \in S
    BY SMTT(30), <1>4, <1>9, <1>10, <2>2, ClosureWithin
  <2>4. x \in Kin(x)
    BY SMTT(30), <1>4, <2>3, ClosureClosed
  <2> QED
    BY Zenon, <1>2, <2>3, <2>4 DEF Intact
<1> QED
  BY Zenon, <1>10 DEF RootsLive

(* No step tombstones what is needed, or makes needed what is tombstoned.  *)
LEMMA StepRoots ==
  ASSUME RetentionTypeOK, RetentionAssumption, SweepsTombstones, AdmissionsHeld, Grounded,
         RootsLive, Next
  PROVE  RootsLive'
<1> USE DEF RetentionTypeOK, RetentionAssumption
<1>1. CASE UNCHANGED rootVars
  <2>1. Known' = Known /\ Joined' = Joined /\ \A q \in Runs : Rooted(q)' <=> Rooted(q)
    BY Zenon, <1>1 DEF rootVars, Known, Joined, Rooted, Pending, Created
  <2>2. \A q \in Runs : Kin(q) = Closure(q, Known, Joined) /\ Kin(q)' = Closure(q, Known', Joined')
    BY Zenon DEF Kin, Known, Joined, Closure, Closed, Linked, SameSession
  <2>3. SUFFICES ASSUME NEW q \in Runs \ Attempts, Rooted(q), NEW x \in Kin(q) PROVE Intact(x)'
    BY SMTT(30), <2>1, <2>2 DEF RootsLive
  <2>4. x \in Runs /\ Intact(x)
    BY SMTT(30), <2>2, <2>3, ClosureClosed DEF RootsLive
  <2>5. Retained(x)
    BY Zenon, <2>3, <2>4, UnretainedUnrooted, KinInFamily
  <2> QED
    BY Zenon, <2>4, <2>5, TombstonesStay
<1>2. ASSUME NEW k \in Keys, Publish(k) PROVE RootsLive'
  <2>1. CASE stage[OwnerOf[k]] = "absent"
    BY Zenon, <1>2, <2>1, PublishKeepsRoots
  <2>2. CASE stage[OwnerOf[k]] # "absent"
    <3>1. UNCHANGED rootVars
      BY Zenon, <1>2, <2>2 DEF Publish, rootVars
    <3> QED
      BY Zenon, <1>1, <3>1
  <2> QED
    BY Zenon, <2>1, <2>2
<1>3. ASSUME NEW r \in Runs, AddEvidence(r) PROVE RootsLive'
  <2>1. /\ Known' = Known /\ Joined' = Joined /\ r \notin Attempts
        /\ \A q \in Runs : Intact(q)' <=> Intact(q)
        /\ \A q \in Runs : q # r => (Rooted(q)' <=> Rooted(q))
    BY Zenon, <1>3 DEF AddEvidence, rowVars, Known, Joined, Rooted, Pending, Created, Intact
  <2>2. \A q \in Runs : Kin(q) = Closure(q, Known, Joined) /\ Kin(q)' = Closure(q, Known', Joined')
    BY Zenon DEF Kin, Known, Joined, Closure, Closed, Linked, SameSession
  <2>3. \A q \in Kin(r) : Intact(q)
    BY Zenon, <1>3, GuardedKin DEF AddEvidence
  <2>4. \A q \in Runs \ Attempts : Rooted(q)' => \A x \in Kin(q) : x \in Runs /\ Intact(x)
    BY SMTT(30), <2>1, <2>2, <2>3, ClosureClosed DEF RootsLive
  <2> QED
    BY SMTT(30), <2>1, <2>2, <2>4 DEF RootsLive
<1>4. ASSUME NEW r \in Runs, AcceptCreate(r) \/ RejectCreate(r) \/ AppendLast(r) \/ PassRetention(r)
      PROVE  RootsLive'
  <2>1. \A q \in Runs : Intact(q) => Intact(q)'
    BY Zenon, <1>4 DEF AcceptCreate, RejectCreate, AppendLast, PassRetention, rowVars, Intact
  <2>2. Known' \subseteq Known
    BY SMTT(30), <1>4 DEF AcceptCreate, RejectCreate, AppendLast, PassRetention, Known, Pending, Created
  <2>3. \A q \in Runs : Rooted(q)' => Rooted(q)
    BY SMTT(30), <1>4 DEF AcceptCreate, RejectCreate, AppendLast, PassRetention, Rooted, Pending, Created
  <2>4. \A x, y \in Runs : Linked(x, y, Known', Joined') => Linked(x, y, Known, Joined)
    BY Zenon, <2>2 DEF Linked, Joined
  <2> QED
    BY Zenon, <2>1, <2>3, <2>4, RootsFrame
<1>5. ASSUME NEW r \in Runs, DropEvidence(r) PROVE RootsLive'
  <2>1. /\ Known' = Known /\ Joined' = Joined
        /\ \A q \in Runs : (Intact(q) => Intact(q)') /\ (Rooted(q)' => Rooted(q))
    BY Zenon, <1>5 DEF DropEvidence, rowVars, Known, Joined, Rooted, Pending, Created, Intact
  <2> QED
    BY Zenon, <2>1, RootsFrame
<1>6. ASSUME NEW s \in Sessions, PurgeSession(s) PROVE RootsLive'
  <2>1. /\ Known' = Known /\ Joined' = Joined
        /\ \A q \in Runs : (Intact(q) => Intact(q)') /\ (Rooted(q)' => Rooted(q))
    BY Zenon, <1>6 DEF PurgeSession, rowVars, Known, Joined, Rooted, Pending, Created, Intact
  <2> QED
    BY Zenon, <2>1, RootsFrame
<1>8. ASSUME NEW r \in Runs, SubmitPrepared(r) PROVE RootsLive'
  <2>1. r \in Attempts /\ SessionOf[r] = None /\ ParentOf[r] = None /\ None \notin Runs
    BY Zenon, <1>8 DEF SubmitPrepared
  <2>2. /\ UNCHANGED <<fence, sessions, evidence>>
        /\ \A q \in Runs : q # r => stage'[q] = stage[q]
    BY Zenon, <1>8 DEF SubmitPrepared, rowVars
  <2>3. Known' \subseteq Known \cup {r}
    BY Zenon, <2>2 DEF Known, Pending, Created
  <2>4. \A x, y \in Runs : Linked(x, y, Known', Joined') => Linked(x, y, Known, Joined)
    BY Zenon, <2>1, <2>3 DEF Linked, SameSession, Joined
  <2>5. \A q \in Runs \ Attempts : Rooted(q)' => Rooted(q)
    BY Zenon, <2>1, <2>2 DEF Rooted, Pending, Created
  <2>6. \A q \in Runs : Intact(q) => Intact(q)'
    BY Zenon, <2>2 DEF Intact
  <2> QED
    BY Zenon, <2>4, <2>5, <2>6, RootsFrame
<1>7. \/ UNCHANGED rootVars
      \/ \E k \in Keys : Publish(k)
      \/ \E r \in Runs : \/ AddEvidence(r) \/ DropEvidence(r) \/ SubmitPrepared(r)
                         \/ AcceptCreate(r) \/ RejectCreate(r) \/ AppendLast(r) \/ PassRetention(r)
      \/ \E s \in Sessions : PurgeSession(s)
  BY ZenonT(40) DEF Next, Collect, CollectorFault, Clock, Root, Upload, Register, PutBytes, MarkReady,
         GuardPublication, Prepare, Abandon, LatePut, PassGrace, PassHour, PassMinute,
         ListRuns, SkipRun, CheckRun, CheckFails, ListObjects, ClaimDelete, DeleteBytes, DeleteFails,
         RecordCleaned, EndPass, AbortPass, rootVars
<1> QED
  BY Zenon, <1>1, <1>2, <1>3, <1>4, <1>5, <1>6, <1>7, <1>8

-----------------------------------------------------------------------------
(* Theorems.                                                               *)

(* Nothing is registered, stored or admitted at first.                     *)
LEMMA RetentionInit ==
  ASSUME RetentionAssumption, Init
  PROVE  RetentionInv
<1> USE DEF Init, RetentionAssumption, Idle, Pass
<1>1. RetentionTypeOK
  BY Zenon DEF RetentionTypeOK, Steps
<1>2. SweepsTombstones /\ StoredWhileLive /\ AdmissionsHeld
  BY Zenon DEF SweepsTombstones, StoredWhileLive, AdmissionsHeld
<1>3. Grounded /\ RootsLive
  BY Zenon DEF Grounded, RootsLive, Known, CreatedRuns, Created, Pending, Rooted
<1> QED
  BY Zenon, <1>1, <1>2, <1>3 DEF RetentionInv

(* The invariant holds in every state: uploads, admissions, the appends of *)
(* events, the purges of sessions and any number of collectors interleave  *)
(* (put, admit, cleanup).                                                  *)
THEOREM RetentionInvariance == Spec => []RetentionInv
<1>1. Init => RetentionInv
  BY Zenon, RetentionAssumption, RetentionInit
<1>2. RetentionInv /\ [Next]_vars => RetentionInv'
  <2>1. ASSUME RetentionInv, Next PROVE RetentionInv'
    BY Zenon, <2>1, RetentionAssumption, StepTypes, StepSweeps, StepStored, StepHeld, StepGrounded, StepRoots
    DEF RetentionInv
  <2>2. ASSUME RetentionInv, UNCHANGED vars PROVE RetentionInv'
    <3>1. UNCHANGED <<fence, aged, object, cleaned, bytes, lost, stage, sessions, evidence, writer, lock, attempt, collector>>
      BY Zenon, <2>2 DEF vars, rowVars, storeVars, rootVars, writeVars
    <3>2. RetentionTypeOK' /\ SweepsTombstones' /\ StoredWhileLive'
      BY Zenon, <2>2, <3>1 DEF RetentionInv, RetentionTypeOK, SweepsTombstones, StoredWhileLive, Intact
    <3>3. AdmissionsHeld'
      BY SMTT(30), <2>2, <3>1 DEF RetentionInv, AdmissionsHeld, CanPublish, Guard, Collection, CreatedRuns,
                        Closure, Closed, Linked, SameSession, Created
    <3>4. Grounded' /\ RootsLive'
      BY SMTT(30), <2>2, <3>1 DEF RetentionInv, Grounded, RootsLive, Known, Joined, CreatedRuns, Rooted, Kin,
                        Closure, Closed, Linked, SameSession, Created, Pending, Intact
    <3> QED
      BY Zenon, <3>2, <3>3, <3>4 DEF RetentionInv
  <2> QED
    BY Zenon, <2>1, <2>2
<1> QED
  BY <1>1, <1>2, PTL DEF Spec

(* Whatever needs a Run, other than a batch attempt, keeps the originals   *)
(* the Run goes back to through children and held sessions: none is        *)
(* tombstoned, and what became ready can be read                           *)
(* (guard_publication, collection_is_retained, cleanup).                   *)
THEOREM RootsKeepOriginalsTheorem == Spec => []RootsKeepOriginals
<1>1. RetentionInv => RootsKeepOriginals
  <2>1. SUFFICES ASSUME RetentionInv, NEW r \in Runs \ Attempts, Rooted(r), NEW k \in Keys, OwnerOf[k] \in Kin(r)
                 PROVE  /\ fence[OwnerOf[k]] \notin Tombstoned
                        /\ object[k] = "ready" => Available(k) /\ k \in bytes
    BY Zenon DEF RootsKeepOriginals
  <2>2. Intact(OwnerOf[k])
    BY Zenon, <2>1 DEF RetentionInv, RootsLive
  <2>3. OwnerOf[k] \in Runs
    BY Zenon, RetentionAssumption DEF RetentionAssumption
  <2>4. object[k] = "ready" => fence[OwnerOf[k]] = "live" /\ cleaned[k] = "no" /\ k \in bytes
    BY Zenon, <2>1, <2>2, <2>3 DEF RetentionInv, RetentionTypeOK, SweepsTombstones, StoredWhileLive, Intact
  <2> QED
    BY Zenon, <2>2, <2>4 DEF Available, Intact
<1> QED
  BY <1>1, RetentionInvariance, PTL

(* No collector tombstones a Run in the family of one that something needs, *)
(* batch attempts and children with a session included                     *)
(* (collection_is_retained, cleanup).                                      *)
THEOREM NeededNotTombstonedTheorem == Spec => NeededNotTombstoned
<1> DEFINE Spared == \A q \in Runs : fence[q] \notin Tombstoned /\ fence'[q] \in Tombstoned =>
                       \A r \in Runs : Rooted(r) => q \notin Family(r)
<1>1. ASSUME RetentionInv, Next PROVE Spared
  <2>1. SUFFICES ASSUME NEW q \in Runs, Intact(q), ~Intact(q)', NEW r \in Runs, Rooted(r)
                 PROVE  q \notin Family(r)
    BY Zenon DEF Intact
  <2>2. ~Retained(q)
    BY Zenon, <1>1, <2>1, RetentionAssumption, TombstonesStay DEF RetentionInv
  <2> QED
    BY Zenon, <1>1, <2>1, <2>2, RetentionAssumption, UnretainedUnrooted DEF RetentionInv
<1>2. ASSUME RetentionInv, [Next]_vars PROVE [Spared]_vars
  BY Zenon, <1>1, <1>2
<1> QED
  BY <1>2, RetentionInvariance, PTL DEF Spec, NeededNotTombstoned

(* A tombstone is final, and no object becomes ready behind it             *)
(* (opencitadel_object_ready, opencitadel_object_immutable).               *)
THEOREM TombstoneFinalTheorem == Spec => TombstoneFinal
<1> DEFINE Final == \A k \in Keys : fence[OwnerOf[k]] \in Tombstoned =>
                      /\ fence'[OwnerOf[k]] \in Tombstoned
                      /\ object[k] # "ready" => object'[k] # "ready"
<1>1. ASSUME RetentionInv, Next PROVE Final
  <2>1. SUFFICES ASSUME NEW k \in Keys, fence[OwnerOf[k]] \in Tombstoned
                 PROVE  /\ fence'[OwnerOf[k]] \in Tombstoned
                        /\ object[k] # "ready" => object'[k] # "ready"
    BY Zenon
  <2>2. OwnerOf[k] \in Runs
    BY Zenon, RetentionAssumption DEF RetentionAssumption
  <2>3. fence'[OwnerOf[k]] \in Tombstoned
    BY Zenon, <1>1, <2>1, <2>2, RetentionAssumption, TombstonesStay DEF RetentionInv, Intact
  <2>4. UNCHANGED object \/ \E j \in Keys : Register(j) \/ MarkReady(j)
    BY ZenonT(40), <1>1 DEF Next, Collect, CollectorFault, Clock, Root, Upload, PutBytes,
         GuardPublication, Publish, Prepare, Abandon, LatePut, AcceptCreate, RejectCreate, AppendLast,
         AddEvidence, DropEvidence, SubmitPrepared, PurgeSession, PassGrace, PassRetention, PassHour, PassMinute,
         ListRuns, SkipRun, CheckRun, CheckFails, ListObjects, ClaimDelete, DeleteBytes, DeleteFails,
         RecordCleaned, EndPass, AbortPass, rowVars
  <2>5. object[k] # "ready" => object'[k] # "ready"
    BY SMTT(30), <1>1, <2>1, <2>4 DEF RetentionInv, RetentionTypeOK, Register, MarkReady, CanReady
  <2> QED
    BY Zenon, <2>3, <2>5
<1>2. ASSUME RetentionInv, [Next]_vars PROVE [Final]_vars
  BY Zenon, <1>1, <1>2
<1> QED
  BY <1>2, RetentionInvariance, PTL DEF Spec, TombstoneFinal

=============================================================================
