---------------------------- MODULE ObjectRetention ----------------------------
(* The private objects of Runs (inputs, results, context documents) and    *)
(* their collection.  A writer registers the object under its Run in a     *)
(* transaction of its own, uploads the bytes, and marks the object ready;  *)
(* an admission then publishes the Run in a transaction that holds the     *)
(* append lock of the scope from the guard to the commit.  The admission   *)
(* of a batch attempt only stores its request in that transaction, and     *)
(* submits it in a later one, without guard and lock.  Collectors in       *)
(* every kernel replica tombstone the Runs nothing needs any more, under   *)
(* the lock, and delete their bytes outside any transaction.               *)
(*                                                                         *)
(* One owner scope.  A step is one transaction or one call of the storage. *)
EXTENDS Naturals, FiniteSets, Functions

CONSTANTS
  Runs, Sessions,
  SessionOf,      \* SessionOf[r]: session the Run is admitted in, or None
  ParentOf,       \* ParentOf[r]: Run that r is a child of, or None
  Held,           \* Runs whose admission holds the row of their session
  Attempts,       \* Runs of evaluation_batch_attempts
  Contextual,     \* Runs of the families agent and ask
  Keys,           \* object keys
  OwnerOf,        \* OwnerOf[k]: Run the object is registered under
  Inputs,         \* keys of Run inputs; the others are results
  Collectors,     \* kernel replicas
  None,
  Batch,          \* batch_size
  Workloads,      \* bounds on the uploads of each object, one per behaviour
  MaxFaults       \* bound on collector crashes, failing checks and deletions

ASSUME RetentionAssumption ==
  /\ IsFiniteSet(Runs) /\ IsFiniteSet(Keys)
  /\ None \notin Runs \cup Sessions \cup Keys
  /\ SessionOf \in [Runs -> Sessions \cup {None}]
  /\ ParentOf \in [Runs -> Runs \cup {None}]
  /\ Held \subseteq {r \in Runs : SessionOf[r] # None}
  /\ Attempts \subseteq {r \in Runs : SessionOf[r] = None /\ ParentOf[r] = None}
  /\ OwnerOf \in [Keys -> Runs] /\ Inputs \subseteq Keys
  /\ Workloads \subseteq [Keys -> Nat]
  /\ Batch \in Nat \ {0} /\ MaxFaults \in Nat

VARIABLES
  \* execution_object_runs
  fence,       \* per Run: state, or none without a row
  aged,        \* Runs whose row is older than the grace period
  checked,     \* Runs ranked by checked_at
  \* execution_objects
  object,      \* per key: none, registered, ready
  cleaned,     \* per key: no, fresh, old (more than an hour)
  attempted,   \* keys whose delete_attempt_at is less than a minute old
  swept,       \* keys ranked by cleaned_at
  \* the object storage
  bytes,       \* keys that are stored
  lost,        \* keys with an upload under way whose caller is gone
  \* the roots
  stage,       \* per Run: absent, pending (CreateRun in the inbox), active,
               \* terminal, expired (last event older than the retention)
  sessions,    \* sessions that exist, recycle bin included
  evidence,    \* Runs with an available pin, a recording, an evaluation
  \* the actors
  writer,      \* per key: idle, putting, put, ready, guarded
  lock,        \* key of the admission that holds the append lock, or None
  attempt,     \* per batch attempt: open, prepared (request stored), submitted
  collector,   \* per collector: its step and the Runs and keys it listed
  puts,        \* per key: uploads left
  faults

rowVars == <<fence, aged, checked, object, cleaned, attempted, swept>>
storeVars == <<bytes, lost>>
rootVars == <<stage, sessions, evidence>>
writeVars == <<writer, lock, attempt, puts>>
vars == <<rowVars, storeVars, rootVars, writeVars, collector, faults>>

Tombstoned == {"deleting", "deleted"}

\* A collector at a step, with the Runs and the keys left and the key at hand.
Pass(at, runs, keys, key) == [at |-> at, runs |-> runs, keys |-> keys, key |-> key]
Idle == Pass("idle", {}, {}, None)

\* Rows that were never visited are ordered by their identities.
IdOrder(S) == CHOOSE rank \in Bijection(S, 1..Cardinality(S)) : TRUE

Init ==
  /\ fence = [r \in Runs |-> "none"]
  /\ aged = {}
  /\ checked = IdOrder(Runs)
  /\ object = [k \in Keys |-> "none"]
  /\ cleaned = [k \in Keys |-> "no"]
  /\ attempted = {}
  /\ swept = IdOrder(Keys)
  /\ bytes = {} /\ lost = {}
  /\ stage = [r \in Runs |-> "absent"]
  /\ sessions = Sessions
  /\ evidence = {}
  /\ writer = [k \in Keys |-> "idle"]
  /\ lock = None
  /\ attempt = [r \in Attempts |-> "open"]
  /\ collector = [g \in Collectors |-> Idle]
  /\ puts \in Workloads
  /\ faults = 0

-----------------------------------------------------------------------------
(* Collections.                                                            *)

Created(r) == stage[r] \in {"active", "terminal", "expired"}
Pending(r) == stage[r] = "pending"

SameSession(q, r) == SessionOf[q] = SessionOf[r] /\ SessionOf[q] # None

\* Two Runs are linked by the origin of a child, or by two origins of one
\* session; children, members: the Runs whose origin counts for either.
Linked(q, r, children, members) ==
  \/ q \in children /\ ParentOf[q] = r
  \/ r \in children /\ ParentOf[r] = q
  \/ q \in members /\ r \in members /\ SameSession(q, r)

\* No link leaves S.
Closed(S, children, members) ==
  \A x \in S, y \in Runs : y \in S \/ ~Linked(x, y, children, members)

\* The Runs that links lead to from r.
Closure(r, children, members) ==
  LET around == {S \in SUBSET Runs : r \in S /\ Closed(S, children, members)}
  IN {q \in Runs : \A S \in around : q \in S}

CreatedRuns == {r \in Runs : Created(r)}

\* opencitadel_object_collection
Collection(r) == Closure(r, CreatedRuns, CreatedRuns)

\* A pending CreateRun of q keeps r: its own, a child's or one of its session.
Awaited(r) ==
  \E q \in Runs : Pending(q) /\ (q = r \/ ParentOf[q] = r \/ (Created(r) /\ SameSession(q, r)))

\* A member of a collection that keeps the whole of it.
MemberRetained(q) ==
  \/ ~Created(q) \/ q \notin Contextual
  \/ SessionOf[q] \in sessions \/ Awaited(q)
  \/ q \in evidence \cup Attempts
  \/ stage[q] # "expired"

\* collection_is_retained
Retained(r) ==
  \/ Awaited(r)
  \/ ~Created(r) /\ ((\E q \in CreatedRuns : ParentOf[q] = r) \/ r \notin aged)
  \/ Created(r) /\ (r \notin Contextual \/ SessionOf[r] \in sessions)
  \/ Created(r) /\ \E q \in Collection(r) : MemberRetained(q)

\* opencitadel_object_reference_guard
Guard(r) ==
  /\ fence[r] \notin Tombstoned
  /\ Created(r) => \A q \in Collection(r) : fence[q] \notin Tombstoned

-----------------------------------------------------------------------------
(* Writers.                                                                *)

\* put up to the upload.  The caller holds the row of the session, or is an
\* Activity of the parent, or dispatches an attempt without a stored request,
\* or (for a result) is an Activity of the Run itself.
Register(k) ==
  LET r == OwnerOf[k] IN
  /\ writer[k] = "idle" /\ puts[k] > 0
  /\ IF k \in Inputs
     THEN /\ r \in Held => SessionOf[r] \in sessions
          /\ ParentOf[r] # None => Created(ParentOf[r])
          /\ r \in Attempts => attempt[r] = "open"
     ELSE stage[r] = "active"
  /\ fence[r] \notin Tombstoned /\ cleaned[k] = "no"
  /\ fence' = [fence EXCEPT ![r] = "live"]
  /\ object' = [object EXCEPT ![k] = IF @ = "none" THEN "registered" ELSE @]
  /\ writer' = [writer EXCEPT ![k] = "putting"]
  /\ puts' = [puts EXCEPT ![k] = @ - 1]
  /\ UNCHANGED <<aged, checked, cleaned, attempted, swept, storeVars, rootVars, lock,
                 attempt, collector, faults>>

PutBytes(k) ==
  /\ writer[k] = "putting"
  /\ bytes' = bytes \cup {k}
  /\ writer' = [writer EXCEPT ![k] = "put"]
  /\ UNCHANGED <<rowVars, lost, rootVars, lock, attempt, puts, collector, faults>>

\* opencitadel_object_ready
CanReady(k) == fence[OwnerOf[k]] = "live" /\ cleaned[k] = "no"

\* A result has no publication of its own: its Run is at work.
MarkReady(k) ==
  /\ writer[k] = "put"
  /\ object' = IF CanReady(k) THEN [object EXCEPT ![k] = "ready"] ELSE object
  /\ writer' = [writer EXCEPT ![k] = IF CanReady(k) /\ k \in Inputs THEN "ready" ELSE "idle"]
  /\ UNCHANGED <<fence, aged, checked, cleaned, attempted, swept, storeVars, rootVars,
                 lock, attempt, puts, collector, faults>>

\* Mutant of CanPublish: the guard looks at the new Run and not at its parent.
CanPublishChild(r) == Guard(r)

\* admit: guard_publication for the Run and for its parent.
CanPublish(r) == Guard(r) /\ (ParentOf[r] # None => Guard(ParentOf[r]))

GuardPublication(k) ==
  /\ writer[k] = "ready" /\ lock = None
  /\ IF CanPublish(OwnerOf[k])
     THEN lock' = k /\ writer' = [writer EXCEPT ![k] = "guarded"]
     ELSE lock' = lock /\ writer' = [writer EXCEPT ![k] = "idle"]
  /\ UNCHANGED <<rowVars, storeVars, rootVars, attempt, puts, collector, faults>>

\* submit and commit; a request that was admitted before leaves its row.
Publish(k) ==
  /\ writer[k] = "guarded" /\ OwnerOf[k] \notin Attempts
  /\ stage' = [stage EXCEPT ![OwnerOf[k]] = IF @ = "absent" THEN "pending" ELSE @]
  /\ writer' = [writer EXCEPT ![k] = "idle"]
  /\ lock' = None
  /\ UNCHANGED <<rowVars, storeVars, sessions, evidence, attempt, puts, collector, faults>>

\* The admission of a batch attempt stores its request and commits, which
\* gives the lock back.
Prepare(k) ==
  /\ writer[k] = "guarded" /\ OwnerOf[k] \in Attempts
  /\ attempt' = [attempt EXCEPT ![OwnerOf[k]] = "prepared"]
  /\ writer' = [writer EXCEPT ![k] = "idle"]
  /\ lock' = None
  /\ UNCHANGED <<rowVars, storeVars, rootVars, puts, collector, faults>>

\* The transaction that puts a stored request into the inbox, at once or in a
\* later dispatch: it looks at claim, budget and capacity, not at the objects.
SubmitPrepared(r) ==
  /\ r \in Attempts /\ attempt[r] = "prepared"
  /\ attempt' = [attempt EXCEPT ![r] = "submitted"]
  /\ stage' = [stage EXCEPT ![r] = IF @ = "absent" THEN "pending" ELSE @]
  /\ UNCHANGED <<rowVars, storeVars, sessions, evidence, writer, lock, puts, collector, faults>>

\* The caller fails or is lost; an upload under way may still arrive.
Abandon(k) ==
  /\ writer[k] # "idle"
  /\ lost' = IF writer[k] = "putting" THEN lost \cup {k} ELSE lost
  /\ writer' = [writer EXCEPT ![k] = "idle"]
  /\ lock' = IF lock = k THEN None ELSE lock
  /\ UNCHANGED <<rowVars, bytes, rootVars, attempt, puts, collector, faults>>

LatePut(k) ==
  /\ k \in lost
  /\ lost' = lost \ {k}
  /\ bytes' \in {bytes, bytes \cup {k}}
  /\ UNCHANGED <<rowVars, rootVars, writeVars, collector, faults>>

-----------------------------------------------------------------------------
(* What keeps a Run.  An append of events takes the lock of the scope.     *)

AcceptCreate(r) ==
  /\ Pending(r) /\ lock = None
  /\ stage' = [stage EXCEPT ![r] = "active"]
  /\ UNCHANGED <<rowVars, storeVars, sessions, evidence, writeVars, collector, faults>>

\* Refused, and the settled row purged from the inbox.
RejectCreate(r) ==
  /\ Pending(r)
  /\ stage' = [stage EXCEPT ![r] = "absent"]
  /\ UNCHANGED <<rowVars, storeVars, sessions, evidence, writeVars, collector, faults>>

\* The Run ends without an open obligation; a late fact (usage, settled
\* evidence) is appended to a Run that has ended.
AppendLast(r) ==
  /\ Created(r) /\ stage[r] # "terminal" /\ lock = None
  /\ stage' = [stage EXCEPT ![r] = "terminal"]
  /\ UNCHANGED <<rowVars, storeVars, sessions, evidence, writeVars, collector, faults>>

\* A pin or a recording is created behind the guard of its Run.
AddEvidence(r) ==
  /\ Created(r) /\ r \notin evidence \cup Attempts /\ lock = None /\ Guard(r)
  /\ evidence' = evidence \cup {r}
  /\ UNCHANGED <<rowVars, storeVars, stage, sessions, writeVars, collector, faults>>

DropEvidence(r) ==
  /\ r \in evidence
  /\ evidence' = evidence \ {r}
  /\ UNCHANGED <<rowVars, storeVars, stage, sessions, writeVars, collector, faults>>

\* An admission that holds the row of the session does so until it commits.
PurgeSession(s) ==
  /\ s \in sessions
  /\ \A k \in Inputs : OwnerOf[k] \in Held /\ SessionOf[OwnerOf[k]] = s => writer[k] = "idle"
  /\ sessions' = sessions \ {s}
  /\ UNCHANGED <<rowVars, storeVars, stage, evidence, writeVars, collector, faults>>

\* The clock: a day since the row, the retention since the last event, an
\* hour since the deletion, a minute since the attempt.
PassGrace(r) ==
  /\ fence[r] # "none" /\ r \notin aged
  /\ aged' = aged \cup {r}
  /\ UNCHANGED <<fence, checked, object, cleaned, attempted, swept, storeVars, rootVars,
                 writeVars, collector, faults>>

PassRetention(r) ==
  /\ stage[r] = "terminal"
  /\ stage' = [stage EXCEPT ![r] = "expired"]
  /\ UNCHANGED <<rowVars, storeVars, sessions, evidence, writeVars, collector, faults>>

PassHour(k) ==
  /\ cleaned[k] = "fresh"
  /\ cleaned' = [cleaned EXCEPT ![k] = "old"]
  /\ UNCHANGED <<fence, aged, checked, object, attempted, swept, storeVars, rootVars,
                 writeVars, collector, faults>>

PassMinute(k) ==
  /\ k \in attempted
  /\ attempted' = attempted \ {k}
  /\ UNCHANGED <<fence, aged, checked, object, cleaned, swept, storeVars, rootVars,
                 writeVars, collector, faults>>

-----------------------------------------------------------------------------
(* Collectors: cleanup.                                                    *)

\* The first n of S in the order of rank.
FirstOf(S, n, rank) == {x \in S : Cardinality({y \in S : rank[y] < rank[x]}) < n}

\* Mutant of ToEnd: a Run that was looked at keeps its place.
KeepsPlace(rank, x) == rank

ToEnd(rank, x) ==
  [y \in DOMAIN rank |->
     IF y = x THEN Cardinality(DOMAIN rank) ELSE IF rank[y] > rank[x] THEN rank[y] - 1 ELSE rank[y]]

At(g, step) == collector[g].at = step

ListRuns(g) ==
  /\ At(g, "idle")
  /\ collector' = [collector EXCEPT ![g] =
       Pass("checking", FirstOf({r \in aged : fence[r] = "live"}, Batch, checked), {}, None)]
  /\ UNCHANGED <<rowVars, storeVars, rootVars, writeVars, faults>>

Checked(g, r) ==
  /\ At(g, "checking") /\ r \in collector[g].runs
  /\ collector' = [collector EXCEPT ![g] = Pass("checking", @.runs \ {r}, {}, None)]

\* The lock is tried, not waited for; a Run another replica tombstoned is
\* left alone.
SkipRun(g, r) ==
  /\ Checked(g, r)
  /\ lock # None \/ fence[r] # "live"
  /\ UNCHANGED <<rowVars, storeVars, rootVars, writeVars, faults>>

MayCheck(r) == lock = None /\ fence[r] = "live"

CheckRun(g, r) ==
  /\ Checked(g, r) /\ MayCheck(r)
  /\ checked' = ToEnd(checked, r)
  /\ fence' = IF Retained(r) THEN fence ELSE [fence EXCEPT ![r] = "deleting"]
  /\ UNCHANGED <<aged, object, cleaned, attempted, swept, storeVars, rootVars, writeVars, faults>>

\* The check raises or takes too long: the collection is kept, and rotated.
CheckFails(g, r) ==
  /\ Checked(g, r) /\ faults < MaxFaults
  /\ checked' = IF fence[r] = "live" THEN ToEnd(checked, r) ELSE checked
  /\ faults' = faults + 1
  /\ UNCHANGED <<fence, aged, object, cleaned, attempted, swept, storeVars, rootVars, writeVars>>

\* Mutant of Sweepable: objects that were cleaned once are not visited again.
SweepableOnce(k) ==
  fence[OwnerOf[k]] \in Tombstoned /\ object[k] # "none" /\ cleaned[k] = "no" /\ k \notin attempted

Sweepable(k) ==
  fence[OwnerOf[k]] \in Tombstoned /\ object[k] # "none" /\ cleaned[k] # "fresh" /\ k \notin attempted

ListObjects(g) ==
  /\ At(g, "checking") /\ collector[g].runs = {}
  /\ collector' = [collector EXCEPT ![g] =
       Pass("sweeping", {}, FirstOf({k \in Keys : Sweepable(k)}, Batch, swept), None)]
  /\ UNCHANGED <<rowVars, storeVars, rootVars, writeVars, faults>>

ClaimDelete(g, k) ==
  /\ At(g, "sweeping") /\ k \in collector[g].keys
  /\ attempted' = attempted \cup {k}
  /\ collector' = [collector EXCEPT ![g] =
       IF k \in attempted THEN Pass("sweeping", {}, @.keys \ {k}, None)
                         ELSE Pass("deleting", {}, @.keys \ {k}, k)]
  /\ UNCHANGED <<fence, aged, checked, object, cleaned, swept, storeVars, rootVars, writeVars, faults>>

DeleteBytes(g) ==
  /\ At(g, "deleting")
  /\ bytes' = bytes \ {collector[g].key}
  /\ collector' = [collector EXCEPT ![g] = Pass("cleaning", {}, @.keys, @.key)]
  /\ UNCHANGED <<rowVars, lost, rootVars, writeVars, faults>>

\* The storage answers with an error or not in time: the bytes may be gone.
DeleteFails(g) ==
  /\ At(g, "deleting") /\ faults < MaxFaults
  /\ bytes' \in {bytes, bytes \ {collector[g].key}}
  /\ collector' = [collector EXCEPT ![g] = Pass("sweeping", {}, @.keys, None)]
  /\ faults' = faults + 1
  /\ UNCHANGED <<rowVars, lost, rootVars, writeVars>>

\* The Run is deleted with the last of its objects.
RecordCleaned(g) ==
  LET k == collector[g].key
      r == OwnerOf[k]
  IN /\ At(g, "cleaning")
     /\ cleaned' = [cleaned EXCEPT ![k] = "fresh"]
     /\ swept' = ToEnd(swept, k)
     /\ fence' = IF \A j \in Keys \ {k} : (OwnerOf[j] = r /\ object[j] # "none") => cleaned[j] # "no"
                 THEN [fence EXCEPT ![r] = "deleted"] ELSE fence
     /\ collector' = [collector EXCEPT ![g] = Pass("sweeping", {}, @.keys, None)]
     /\ UNCHANGED <<aged, checked, object, attempted, storeVars, rootVars, writeVars, faults>>

EndPass(g) ==
  /\ At(g, "sweeping") /\ collector[g].keys = {}
  /\ collector' = [collector EXCEPT ![g] = Idle]
  /\ UNCHANGED <<rowVars, storeVars, rootVars, writeVars, faults>>

\* The replica dies, or a transaction of the pass raises and ends it.
AbortPass(g) ==
  /\ ~At(g, "idle") /\ faults < MaxFaults
  /\ collector' = [collector EXCEPT ![g] = Idle]
  /\ faults' = faults + 1
  /\ UNCHANGED <<rowVars, storeVars, rootVars, writeVars>>

-----------------------------------------------------------------------------
Upload(k) ==
  Register(k) \/ PutBytes(k) \/ MarkReady(k) \/ GuardPublication(k) \/ Publish(k) \/ Prepare(k)

Collect(g) ==
  \/ ListRuns(g) \/ ListObjects(g) \/ EndPass(g)
  \/ \E r \in Runs : SkipRun(g, r) \/ CheckRun(g, r)
  \/ \E k \in Keys : ClaimDelete(g, k)
  \/ DeleteBytes(g) \/ RecordCleaned(g)

CollectorFault(g) ==
  AbortPass(g) \/ DeleteFails(g) \/ \E r \in Runs : CheckFails(g, r)

Clock ==
  \/ \E r \in Runs : PassGrace(r) \/ PassRetention(r)
  \/ \E k \in Keys : PassHour(k) \/ PassMinute(k)

Root ==
  \/ \E r \in Runs : \/ AcceptCreate(r) \/ RejectCreate(r) \/ AppendLast(r)
                     \/ AddEvidence(r) \/ DropEvidence(r) \/ SubmitPrepared(r)
  \/ \E s \in Sessions : PurgeSession(s)

Next ==
  \/ \E k \in Keys : Upload(k) \/ Abandon(k) \/ LatePut(k)
  \/ Root
  \/ Clock
  \/ \E g \in Collectors : Collect(g) \/ CollectorFault(g)

Spec == Init /\ [][Next]_vars

(* The clock moves, collectors run every few seconds (run_maintenance_loop), *)
(* and an admission that holds the lock of the scope commits or ends.       *)
Fairness ==
  /\ \A r \in Runs : WF_vars(PassGrace(r))
  /\ \A k \in Keys : WF_vars(PassHour(k)) /\ WF_vars(PassMinute(k))
  /\ WF_vars(\E k \in Keys : lock = k /\ (Publish(k) \/ Prepare(k) \/ Abandon(k)))
  /\ \A g \in Collectors : WF_vars(Collect(g))

FairSpec == Spec /\ Fairness

-----------------------------------------------------------------------------
Steps == {"idle", "checking", "sweeping", "deleting", "cleaning"}

\* The rows, the storage, the roots and the actors have their types
\* (0045execution_object_retention, cleanup).
RetentionTypeOK ==
  /\ fence \in [Runs -> {"none", "live"} \cup Tombstoned]
  /\ object \in [Keys -> {"none", "registered", "ready"}]
  /\ cleaned \in [Keys -> {"no", "fresh", "old"}]
  /\ aged \subseteq Runs
  /\ bytes \subseteq Keys /\ lost \subseteq Keys
  /\ stage \in [Runs -> {"absent", "pending", "active", "terminal", "expired"}]
  /\ sessions \subseteq Sessions /\ evidence \subseteq Runs
  /\ writer \in [Keys -> {"idle", "putting", "put", "ready", "guarded"}]
  /\ lock \in Keys \cup {None}
  /\ attempt \in [Attempts -> {"open", "prepared", "submitted"}]
  /\ collector \in [Collectors -> [at : Steps, runs : SUBSET Runs, keys : SUBSET Keys,
                                    key : Keys \cup {None}]]

\* A read of a private object first asks opencitadel_object_available.
Available(k) == object[k] = "ready" /\ cleaned[k] = "no" /\ fence[OwnerOf[k]] = "live"

Rooted(r) ==
  \/ Pending(r) \/ stage[r] = "active"
  \/ r \in evidence
  \/ Created(r) /\ (r \in Attempts \/ SessionOf[r] \in sessions)

\* Runs with an origin or a CreateRun, and those admitted behind their session.
Known == {r \in Runs : Pending(r) \/ Created(r)}
Joined == Known \cap Held

\* The Runs whose originals the history of r may go back to: all that links
\* lead to, and those that admissions protect.
Family(r) == Closure(r, Known, Known)
Kin(r) == Closure(r, Known, Joined)

(* While anything needs a Run (a pending command, work under way, a session *)
(* that can be restored, a pin or a recording), no Run it goes back to      *)
(* through children and through admissions that held its session is         *)
(* tombstoned, and every object of theirs that became ready can be read.    *)
(* Batch attempts are the exception: their guard precedes their submission  *)
(* (guard_publication, collection_is_retained, cleanup).                    *)
RootsKeepOriginals ==
  \A r \in Runs \ Attempts : Rooted(r) =>
    \A k \in Keys : OwnerOf[k] \in Kin(r) =>
       /\ fence[OwnerOf[k]] \notin Tombstoned
       /\ object[k] = "ready" => Available(k) /\ k \in bytes

(* No collector tombstones a Run of the family of one that something needs, *)
(* whatever happened since it was listed: "Keep a whole historical session  *)
(* when any Run remains a root" (collection_is_retained, cleanup).          *)
NeededNotTombstoned ==
  [][\A q \in Runs : fence[q] \notin Tombstoned /\ fence'[q] \in Tombstoned =>
       \A r \in Runs : Rooted(r) => q \notin Family(r)]_vars

(* A tombstone is final, and behind it no object becomes ready: a late PUT  *)
(* "can never become ready or published" (opencitadel_object_ready,         *)
(* opencitadel_object_immutable).                                           *)
TombstoneFinal ==
  [][\A k \in Keys : fence[OwnerOf[k]] \in Tombstoned =>
       /\ fence'[OwnerOf[k]] \in Tombstoned
       /\ object[k] # "ready" => object'[k] # "ready"]_vars

(* "Keep tombstones and revisit them hourly: an in-flight PUT from a lost   *)
(* worker may land after DELETE": bytes of a tombstoned Run, however late   *)
(* they arrive, are deleted in the end (cleanup).                           *)
LateBytesRemoved ==
  \A k \in Keys : (fence[OwnerOf[k]] \in Tombstoned /\ k \in bytes) ~> k \notin bytes

(* "checked_at rotates protected roots fairly": a Run that is never         *)
(* collected is one that, again and again, something retains, although a    *)
(* pass looks at a batch only (cleanup).                                    *)
KeptForACause ==
  \A r \in Runs : <>[](fence[r] = "live") => []<>Retained(r)

=============================================================================
