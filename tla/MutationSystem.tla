---------------------------- MODULE MutationSystem ----------------------------
(***************************************************************************)
(* The mutation System (pkg/mutation/system.go), the Assign and            *)
(* AssignMetadata controllers that keep it equal to the mutators in the    *)
(* cluster, and the calls of Mutate that the webhook makes.                *)
(*                                                                         *)
(* A member of Mutators is one version of a mutator.  What it does to an   *)
(* object, Matches included, is the parameter Effect.  AssignMetadata has  *)
(* no schema: its bindings are empty.                                      *)
(***************************************************************************)
EXTENDS SchemaDB

CONSTANTS
  Objs,          \* the states of an object under admission
  Failed,        \* an error of Mutator.Mutate
  Effect(_, _),  \* what a mutator makes of an object
  Invalid,       \* the mutators that MutatorForAssign refuses
  Callers,       \* concurrent admission requests
  Controllers,   \* the kinds "Assign" and "AssignMetadata", or one of them
  MaxChanges,    \* bound: changes of mutators in the cluster
  MaxEvents,     \* bound: events of mutators that did not change
  MaxFailures    \* bound: failed calls of the API server

ASSUME SystemAssumption ==
  /\ Failed \notin Objs
  /\ \A m \in Mutators, o \in Objs : Effect(m, o) \in Objs \cup {Failed}
  /\ \A m \in Mutators :
       m.id \in [group : Int, kind : Int, namespace : Int, name : Nat]

VARIABLES
  mutatorsMap,      \* a set of mutators with different ids
  orderedMutators,
  call,             \* the calls of Mutate; one that runs holds a read lock
  cluster,          \* the mutators in the cluster
  status,           \* the MutatorPodStatus of each mutator
  queue,            \* the controllers' work queues
  worker,           \* the controllers' workers
  budget,           \* how many changes, events and failures there were
  rejected          \* history: ids in the system whose last update was rejected

\* The schemaDB of the System is the variable db of SchemaDB.
system == <<mutatorsMap, orderedMutators, db>>
vars == <<system, call, cluster, status, queue, worker, budget, rejected>>

-------------------------------------------------------------------------------
\* Strings stand as integers in their order.
greaterOrEqual(a, b) ==
  \/ a.group > b.group
  \/ a.group = b.group /\ a.kind > b.kind
  \/ a.group = b.group /\ a.kind = b.kind /\ a.namespace > b.namespace
  \/ /\ a.group = b.group /\ a.kind = b.kind /\ a.namespace = b.namespace
     /\ a.name >= b.name

\* sort.Search: the first place whose id is greater or equal.
Search(ms, id) ==
  CHOOSE i \in 1..Len(ms) + 1 :
    /\ i <= Len(ms) => greaterOrEqual(ms[i].id, id)
    /\ \A j \in 1..i - 1 : ~greaterOrEqual(ms[j].id, id)

Holds(ms, i, id) == i <= Len(ms) /\ ms[i].id = id

\* Fault: an updated mutator is inserted next to its previous version.
inserted_Twice(ms, m) ==
  LET i == Search(ms, m.id)
  IN  [j \in 1..Len(ms) + 1 |-> IF j < i THEN ms[j] ELSE
                                IF j = i THEN m ELSE ms[j - 1]]

inserted(ms, m) ==
  LET i == Search(ms, m.id)
  IN  IF Holds(ms, i, m.id)
      THEN [ms EXCEPT ![i] = m]
      ELSE [j \in 1..Len(ms) + 1 |-> IF j < i THEN ms[j] ELSE
                                     IF j = i THEN m ELSE ms[j - 1]]

deleted(ms, id) ==
  LET i == Search(ms, id)
  IN  IF Holds(ms, i, id)
      THEN [j \in 1..Len(ms) - 1 |-> IF j < i THEN ms[j] ELSE ms[j + 1]]
      ELSE ms

Replaced(mutators, m) == (mutators \ WithID(mutators, m.id)) \cup {m}

Conflict(m) == m.bindings # {} /\ upsertErr(db, m)

\* The schema conflicts: the mutator leaves the database, and an earlier
\* version of it stays in the system.
RejectedUpsert(m) ==
  /\ db' = remove(upsert(db, m), m.id)
  /\ rejected' = IF WithID(mutatorsMap, m.id) = {} THEN rejected
                                                    ELSE rejected \cup {m.id}
  /\ UNCHANGED <<mutatorsMap, orderedMutators>>

AcceptedUpsert(m) ==
  /\ db' = IF m.bindings # {} THEN upsert(db, m) ELSE db
  /\ mutatorsMap' = Replaced(mutatorsMap, m)
  /\ orderedMutators' = inserted(orderedMutators, m)
  /\ rejected' = rejected \ {m.id}

Upsert(m) ==
  \/ m \in mutatorsMap /\ UNCHANGED <<system, rejected>>
  \/ m \notin mutatorsMap /\ Conflict(m) /\ RejectedUpsert(m)
  \/ m \notin mutatorsMap /\ ~Conflict(m) /\ AcceptedUpsert(m)

Remove(id) ==
  /\ db' = IF WithID(mutatorsMap, id) = {} THEN db ELSE remove(db, id)
  /\ mutatorsMap' = mutatorsMap \ WithID(mutatorsMap, id)
  /\ orderedMutators' = IF WithID(mutatorsMap, id) = {} THEN orderedMutators
                        ELSE deleted(orderedMutators, id)
  /\ rejected' = rejected \ {id}

-------------------------------------------------------------------------------
\* System.Mutate

\* One pass over the ordered mutators, which skips those with conflicts.
Pass(ms, flags, o) ==
  LET after[j \in 0..Len(ms)] ==
        IF j = 0 THEN o ELSE
        IF after[j - 1] = Failed \/ ms[j].id \in flags THEN after[j - 1]
        ELSE Effect(ms[j], after[j - 1])
  IN  after[Len(ms)]

Running(c) == call[c].pc = "run"

\* Fault: one pass for each mutator, and none to see that nothing changes.
maxIterations_TooFew == Len(orderedMutators)

maxIterations == Len(orderedMutators) + 1

MutateBegin(c, o) ==
  /\ ~Running(c)
  /\ call' = [call EXCEPT ![c] = [pc |-> "run", obj |-> o, original |-> o, i |-> 0,
                                  ms |-> orderedMutators, flags |-> db.conflicts]]
  /\ UNCHANGED <<system, cluster, status, queue, worker, budget, rejected>>

\* Fault: the second change is taken for the last.
Outcome_FirstChange(c, new) ==
  IF new = Failed THEN "error" ELSE
  IF new = call[c].obj
  THEN (IF call[c].i = 0 THEN "unchanged" ELSE
        IF new = call[c].original THEN "oscillating" ELSE "mutated")
  ELSE IF call[c].i > 0 THEN "mutated" ELSE "run"

\* The outcome of the pass that made new of the object.
Outcome(c, new) ==
  IF new = Failed THEN "error" ELSE
  IF new = call[c].obj
  THEN (IF call[c].i = 0 THEN "unchanged" ELSE
        IF new = call[c].original THEN "oscillating" ELSE "mutated")
  ELSE IF call[c].i + 1 < maxIterations THEN "run" ELSE "notConverging"

MutatePass(c) ==
  /\ Running(c)
  /\ LET new == Pass(orderedMutators, db.conflicts, call[c].obj)
     IN  call' = [call EXCEPT ![c].pc = Outcome(c, new), ![c].obj = new, ![c].i = @ + 1]
  /\ UNCHANGED <<system, cluster, status, queue, worker, budget, rejected>>

-------------------------------------------------------------------------------
\* The controllers

NoStatus == [exists |-> FALSE, enforced |-> FALSE, error |-> FALSE, of |-> {}]
NoID     == [group |-> 0, kind |-> 0, namespace |-> 0, name |-> 0]
NoWork   == [pc |-> "idle", id |-> NoID, got |-> {}, error |-> FALSE]

\* The name "gvk:Kind.Version.Group:name", which no mutator has.
Packed(id) == [id EXCEPT !.name = -1 - @]

Requests == IDs \cup {Packed(id) : id \in IDs}

Goto(c, to) == [worker EXCEPT ![c].pc = to]

Spend(what) == budget' = [budget EXCEPT ![what] = @ + 1]

\* A mutator is created, updated or deleted (v is empty).
ClusterChange(id, v) ==
  /\ budget.changes < MaxChanges
  /\ v # WithID(cluster, id)
  /\ Spend("changes")
  /\ cluster' = (cluster \ WithID(cluster, id)) \cup v
  /\ queue' = queue \cup {id}
  /\ UNCHANGED <<system, call, status, worker, rejected>>

\* The mutator status controller copies the statuses into the mutator, and the
\* informer resyncs: the mutator is queued, and is what it was.
MutatorEvent(id) ==
  /\ WithID(cluster, id) # {}
  /\ budget.events < MaxEvents
  /\ Spend("events")
  /\ queue' = queue \cup {id}
  /\ UNCHANGED <<system, call, cluster, status, worker, rejected>>

\* The request is not unpacked: a packed one names no mutator, and is handled
\* as the removal of one.
Get(c, id) ==
  /\ worker[c].pc = "idle"
  /\ id \in queue /\ id.kind = c
  /\ queue' = queue \ {id}
  /\ LET got == WithID(cluster, id)
     IN  worker' = [worker EXCEPT ![c] =
                      [pc |-> IF got = {} THEN "remove" ELSE "status",
                       id |-> id, got |-> got, error |-> FALSE]]
  /\ UNCHANGED <<system, call, cluster, status, budget, rejected>>

\* Upsert and Remove wait for the write lock.
Locked == \A d \in Callers : ~Running(d)

ReconcileRemove(c) ==
  /\ worker[c].pc = "remove"
  /\ Locked
  /\ Remove(worker[c].id)
  /\ worker' = Goto(c, "unstatus")
  /\ UNCHANGED <<call, cluster, status, queue, budget>>

\* The event of a status queues the packed name of the mutator.  An error is
\* returned and queues the request again.
SetStatus(c, s) ==
  LET id == worker[c].id
  IN  /\ status' = [status EXCEPT ![id] = s]
      /\ queue' = queue \cup (IF s # status[id] THEN {Packed(id)} ELSE {})
                        \cup (IF worker[c].error THEN {id} ELSE {})

DeleteStatus(c) ==
  /\ worker[c].pc = "unstatus"
  /\ IF worker[c].id \in IDs THEN SetStatus(c, NoStatus) ELSE UNCHANGED <<status, queue>>
  /\ worker' = [worker EXCEPT ![c] = NoWork]
  /\ UNCHANGED <<system, call, cluster, budget, rejected>>

getOrCreatePodStatus(c) ==
  /\ worker[c].pc = "status"
  /\ SetStatus(c, [status[worker[c].id] EXCEPT !.exists = TRUE])
  /\ worker' = Goto(c, "upsert")
  /\ UNCHANGED <<system, call, cluster, budget, rejected>>

\* MutatorForAssign fails: an earlier version stays in the system.
ReconcileInvalid(c) ==
  /\ worker[c].pc = "upsert"
  /\ worker[c].got \cap Invalid # {}
  /\ worker' = [Goto(c, "report") EXCEPT ![c].error = TRUE]
  /\ UNCHANGED <<system, call, cluster, status, queue, budget, rejected>>

ReconcileUpsert(c) ==
  /\ worker[c].pc = "upsert"
  /\ Locked
  /\ \E m \in worker[c].got \ Invalid :
       /\ Upsert(m)
       /\ worker' = [Goto(c, "report") EXCEPT
            ![c].error = m \notin mutatorsMap /\ Conflict(m)]
  /\ UNCHANGED <<call, cluster, status, queue, budget>>

\* Fault: a rejected mutator is reported and not queued again.
UpdateStatus_NoRetry(c) ==
  /\ worker[c].pc = "report"
  /\ status' = [status EXCEPT ![worker[c].id] =
       [exists   |-> TRUE,
        enforced |-> @.enforced \/ ~worker[c].error,
        error    |-> worker[c].error,
        of       |-> worker[c].got]]
  /\ worker' = [worker EXCEPT ![c] = NoWork]
  /\ UNCHANGED <<system, call, cluster, queue, budget, rejected>>

\* Errors are reset on every reconcile; Enforced is only ever set.
UpdateStatus(c) ==
  /\ worker[c].pc = "report"
  /\ SetStatus(c, [exists   |-> TRUE,
                   enforced |-> status[worker[c].id].enforced \/ ~worker[c].error,
                   error    |-> worker[c].error,
                   of       |-> worker[c].got])
  /\ worker' = [worker EXCEPT ![c] = NoWork]
  /\ UNCHANGED <<system, call, cluster, budget, rejected>>

\* The API server fails: the request is queued again.
ReconcileFails(c) ==
  /\ worker[c].pc \in {"unstatus", "status", "report"}
  /\ budget.failures < MaxFailures
  /\ Spend("failures")
  /\ queue' = queue \cup {worker[c].id}
  /\ worker' = [worker EXCEPT ![c] = NoWork]
  /\ UNCHANGED <<system, call, cluster, status, rejected>>

-------------------------------------------------------------------------------
Init ==
  /\ mutatorsMap = {}
  /\ orderedMutators = <<>>
  /\ db = NewDB
  /\ call \in [Callers -> {[pc |-> "none", obj |-> Failed, original |-> Failed,
                            i |-> 0, ms |-> <<>>, flags |-> {}]}]
  /\ cluster = {}
  /\ status = [id \in IDs |-> NoStatus]
  /\ queue = {}
  /\ worker = [c \in Controllers |-> NoWork]
  /\ budget = [changes |-> 0, events |-> 0, failures |-> 0]
  /\ rejected = {}

Reconcile(c) ==
  \/ ReconcileRemove(c)
  \/ DeleteStatus(c)
  \/ getOrCreatePodStatus(c)
  \/ ReconcileInvalid(c)
  \/ ReconcileUpsert(c)
  \/ UpdateStatus(c)

Next ==
  \/ \E id \in IDs : \/ ClusterChange(id, {})
                     \/ \E m \in WithID(Mutators, id) : ClusterChange(id, {m})
                     \/ MutatorEvent(id)
  \/ \E c \in Controllers : \/ \E id \in Requests : Get(c, id)
                            \/ Reconcile(c)
                            \/ ReconcileFails(c)
  \/ \E c \in Callers : MutatePass(c) \/ \E o \in Objs : MutateBegin(c, o)

(***************************************************************************)
(* The work queues serve every item, however often another is requeued; a  *)
(* call of Mutate ends; and a waiting writer keeps new readers out         *)
(* (sync.RWMutex), so that it gets the lock.                               *)
(***************************************************************************)
Fairness ==
  /\ \A c \in Controllers : SF_vars(Reconcile(c)) /\ \A id \in Requests : SF_vars(Get(c, id))
  /\ \A c \in Callers : WF_vars(MutatePass(c))

Spec == Init /\ [][Next]_vars /\ Fairness

-------------------------------------------------------------------------------
(***************************************************************************)
(* "The map is expected to be in sync with the list": the list holds the   *)
(* mutators of the map, each once, in the order of greaterOrEqual.  Remove *)
(* would otherwise fail, or index past the end of the list.                *)
(***************************************************************************)
InSync ==
  /\ mutatorsMap = {orderedMutators[i] : i \in DOMAIN orderedMutators}
  /\ \A i, j \in DOMAIN orderedMutators :
       i < j => ~greaterOrEqual(orderedMutators[i].id, orderedMutators[j].id)

\* The mutators that Mutate applies.
Applied == {m \in mutatorsMap : m.id \notin db.conflicts}

(***************************************************************************)
(* "Don't try to apply Mutators which have conflicts": no two mutators     *)
(* that Mutate applies imply conflicting schemas, unless an update of one  *)
(* of them was rejected since it was last accepted.                        *)
(***************************************************************************)
ConflictsComeFromUpdates ==
  \A a, b \in Applied : Conflicting(a, b) => a.id \in rejected \/ b.id \in rejected

(***************************************************************************)
(* What Mutate returns is a fixed point: the mutators that were in the     *)
(* system when the call began, and had no conflicts then, change nothing   *)
(* in it, so the webhook gives the same answer when it is invoked again on *)
(* its own result.                                                         *)
(***************************************************************************)
Idempotent ==
  \A c \in Callers :
    call[c].pc \in {"mutated", "unchanged"} =>
      Pass(call[c].ms, call[c].flags, call[c].obj) = call[c].obj

(***************************************************************************)
(* A pass depends on the object only, so an object that came back to what  *)
(* it was would have been left alone by the first pass: the error          *)
(* "oscillating mutation" is never returned, and mutators that undo each   *)
(* other are reported as not converging.                                   *)
(***************************************************************************)
NeverOscillating == \A c \in Callers : call[c].pc # "oscillating"

Within(place, path) == Len(path) <= Len(place) /\ SubSeq(place, 1, Len(path)) = path

(***************************************************************************)
(* maxIterations is enough: Mutate gives up only if one of its mutators    *)
(* writes a place that another one writes, or a place within it, however   *)
(* the others depend on one another.                                       *)
(***************************************************************************)
GivesUpOnlyOnRivals ==
  \A c \in Callers :
    call[c].pc = "notConverging" =>
      \E i, j \in DOMAIN call[c].ms :
        i # j /\ Within(call[c].ms[i].path, call[c].ms[j].path)

AtRest == queue = {} /\ \A c \in Controllers : worker[c].pc = "idle"

(***************************************************************************)
(* When the controllers are at rest the system holds the mutators of the   *)
(* cluster, and the statuses say so, whatever changed while a version was  *)
(* being handled and whatever failed.                                      *)
(***************************************************************************)
RestInSync ==
  AtRest =>
    /\ mutatorsMap = cluster
    /\ \A id \in IDs :
         IF WithID(cluster, id) = {} THEN status[id] = NoStatus
         ELSE status[id] = [exists |-> TRUE, enforced |-> TRUE, error |-> FALSE,
                            of |-> WithID(cluster, id)]

(***************************************************************************)
(* If the mutators in the cluster stop changing, are valid and do not      *)
(* conflict, all of them are in the system at last: one that was rejected  *)
(* is tried again until the one in its way is gone.                        *)
(***************************************************************************)
Settles ==
  <>[](InConflict(cluster) = {} /\ cluster \cap Invalid = {} => mutatorsMap = cluster)
===============================================================================
