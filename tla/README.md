# A TLA+ verification project for Gatekeeper

Gatekeeper (kubernetes-policy-controller) is a Kubernetes admission controller.
It keeps policies (constraint templates and constraints), data and mutators in
memory, equal to what is in the cluster, and answers admission requests from
them. The project models the parts in which goroutines, informers and retries
share state (the readiness tracker, the watch manager, the synchronisation of
data into OPA, the template and constraint controllers, the mutation system, the
audit and the webhooks) and the algorithms they rest on (matching, the effect of
a mutator, implied schemas). TLC checks the models on small instances; TLAPS
proves the central ones for every instance.

`PROJECT.json` maps each definition to its source lines and lists runs, faults
(mutants), hazards and theorems. Definitions carry the names of the code. A
definition with a suffix, such as `EventRead_Unlocked`, is a plausible bug in the
definition it stands next to. It is used only to show that a property notices.

## 1. The system

| Component | State | Operations | Used by |
|---|---|---|---|
| Object tracker (`pkg/readiness/object_tracker.go`, `objset.go`) | the sets expect, tryCancelled, seen, satisfied; populated; the circuit breaker allSatisfied with its snapshot of kinds | Expect, ExpectationsDone, Observe, CancelExpect, TryCancelExpect, Satisfied, unsatisfied, kinds | readiness tracker, controllers |
| Readiness tracker (`ready_tracker.go`, `tracker_map.go`, `list.go`) | one tracker for each of templates, config, assign, assignMetadata; trackerMaps of constraints and data; the SingleRunner; satisfied | Run and its listers, For, ForData, CancelTemplate, TryCancelTemplate, CancelData, Satisfied, the collector | the readiness probe, every ingesting controller |
| Watch manager (`pkg/watch`) | registrars and their intent, watchedKinds under watchedMux, informers, the events channel, the replay loop with its goroutines | AddWatch, ReplaceWatch, RemoveWatch, NewRegistrar, RemoveRegistrar, event distribution, replay and its cancellation | template and config controllers |
| Config and sync controllers (`pkg/controller/config`, `sync`) | the shared watch set and process excluder, needsWipe, needsReplay, OPA's data | Reconcile of each | OPA, audit |
| Schema database (`pkg/mutation/schema`) | a tree of references for each GVK, cached mutators, conflict flags | Upsert, Remove, HasConflicts | mutation system |
| Mutation system and its controllers (`pkg/mutation/system.go`, `pkg/controller/assign*`) | map and ordered list of mutators, schema database, pod statuses | Upsert, Remove, Mutate, Reconcile | mutation webhook |
| Template and constraint controllers (`pkg/controller/constrainttemplate`, `constraint`) | OPA's templates and constraints, CRDs, two registrars, pod statuses, the constraints cache | Reconcile of each | OPA, status controllers |
| Status controllers (`constraintstatus`, `constrainttemplatestatus`, `mutatorstatus`) | the status of parent objects | Reconcile | users |
| Controller switch (`pkg/watch/controller_switch.go`) | running, under a read-write lock | Enter, Exit, Stop | every reconcile |
| Audit manager (`pkg/audit`) | the goroutines that write constraint statuses | audit, updateConstraintLoop | users |
| Webhooks (`pkg/webhook`) | a semaphore of serving threads | Handle | API server |
| Match and OPA target (`pkg/mutation/match`, `pkg/target`) | none: pure | Matches, AppliesTo; the reviews and the Rego that matches them | webhooks, audit, mutators |
| Mutators and path tests (`pkg/mutation/mutators`, `path/tester`) | none: pure | MutatorForAssign, Mutate, New | mutation system |

**How they interact.** Controllers receive objects through informers; kinds that
are only known at run time come through the watch manager, whose registrars push
events into controllers' channels. Every ingesting controller reports to the
readiness tracker (`For(gvk).Observe(obj)`), which has listed the cluster once
and reports ready when everything it listed was observed or cancelled. The
config controller owns the watch set that the sync controller's data client
reads at every call. The mutator controllers write the mutation system under a
write lock; the webhook reads it under a read lock. The template controller
decides what the constraint controller sees: it adds a template to OPA, creates
the CRD and registers the watches, in that order, and takes them away in the
reverse order. The audit and the constraint status controller write the same
statuses. Webhook and audit ask OPA about the same object through different
reviews, and mutators match in Go what constraints match in Rego.

**What is hard.** State is checked under one lock and used under another
(Satisfied, trackerMap.Get, For, FilteredDataClient). Observations, expectations
and cancellations come in any order. Calls block under a lock on other
goroutines (doRemoveWatch). One reconcile makes several calls, any of which can
fail, and its retry starts from half-changed shared state. Objects are deleted
before anyone saw them, and somebody must notice. Conflicts come and go with
sequences of updates. A writer that does not end in time is abandoned and goes
on writing. A request reads the excluder, the namespace and the policies one
after the other while all of them change. `PROJECT.json` lists each hazard at its line.

**What makes each part correct.**

- Object tracker: never satisfied early; satisfied at last; no write after the
  breaker freed the maps.
- Readiness tracker: never ready before what exists was ingested; ready at last.
- Watch manager: no change lost between the cache replay and distribution;
  its handler on the informers of exactly the watched kinds, and none restarted by
  a replay; every call returns.
- Data sync: OPA ends up with what the Config asks for, and nothing else.
- Schema database: trees and flags are what the present mutators imply, whatever
  the history; no panic.
- Mutation system: list and map agree; conflicts are rejected; Mutate ends in a
  fixed point; controllers bring it in line with the cluster.
- Mutators: an object changes where the location says, and nowhere else.
- Template and constraint controllers: OPA, watches, CRDs and statuses end up in
  line with the cluster, whatever failed; nothing is left of what was deleted;
  quiet after Stop.
- Audit: the totals shown are those of one audit and exact; no writer undoes
  another; the last results arrive.
- Webhooks: a verdict follows from what was in force; exemptions hold; at
  most max-serving-threads requests run; every request is answered.
- Match and target: the two implementations and the three reviews agree.

## 2. The modules

| Module | Models | Extends or instantiates |
|---|---|---|
| `ObjectTrackerOps` | the methods of objectTracker as operators on a record | |
| `Expectations` | what the interface Expectations promises (abstract specification) | |
| `ObjectTracker` | one tracker used by concurrent goroutines | `ObjectTrackerOps`; refines `Expectations` |
| `ObjectTrackerProofs` | theorems | `ObjectTracker` |
| `ReadinessTracker` | the whole Tracker at start-up with the controllers that report to it | `ObjectTrackerOps` (the same operators, many trackers) |
| `ReadinessTrackerProofs` | theorems | `ReadinessTracker` |
| `WatchManager` | registrars, informers, event loop and replay loop | |
| `WatchManagerProofs` | theorems | `WatchManager` |
| `DataSync` | config controller, sync controller, excluder, OPA's data | |
| `DataSyncProofs` | theorems | `DataSync` |
| `SchemaDBOps`, `SchemaDB` | the schema database as operators; sequences of calls on it | |
| `MutationSystem` | System, the mutator controllers, calls of Mutate | `SchemaDB` (its variable and operators inside System) |
| `MutationSystemProofs` | theorems, about `SchemaDB` too | `MutationSystem` |
| `Mutators` | what one mutator does to an object, path tests and validation included (recursive, for TLC only) | given to `MutationSystem` as `Effect` by `MCMutationSystem` |
| `TemplateController` | template, constraint and status controllers, registrars, the switch | |
| `TemplateControllerProofs` | theorems | `TemplateController` |
| `AuditManager` | the audit, its writers, and the status controller that writes beside them | |
| `AuditManagerProofs` | theorems | `AuditManager` |
| `Matching` | match.go, the matching Rego and the reviews | |
| `Webhook` | the three admission handlers, the excluder, policies and namespaces that change | `Matching` |
| `WebhookProofs` | theorems, about `Matching` too | `Webhook` |
| `MC*` | instances for TLC: values of constants, symmetry, constraints | the module of that name |

### Correspondence of state and actions

**ObjectTracker.** The variable `ot` is the struct. A method that holds the lock
throughout is one action (`ExpectCall`, `ObserveCall`, ...). `Satisfied` drops
its read lock before it takes the write lock and is two actions,
`SatisfiedRLocked` and `SatisfiedLocked`; any number of callers may be between
them. `wanted`, `observed` and `dropped` are history, for stating what the
tracker ought to know. Keys stand for `objKey` and `KindOf` for its GVK.

**ReadinessTracker.** `m`, `made` and `removed` are the two trackerMaps; `ot`
holds every tracker ever created, since a caller may hold one that was
overwritten. `trackerMap.Get` is a read step (`Lookup`) and, if nothing was
found, a write step (`Create`), as in the code. `lister` holds the goroutines of
`Run` and of the SingleRunner; `RunnerWait` is `errgroup.Wait`, which cancels the
runner's context. `tc` and `cc` are the controllers; `For` is `ForCheck`,
`ForGet` and `ForCreate` because each takes its own lock. `probe` is one call of
`Tracker.Satisfied`, in stages as in the code; `collector` is
`collectInvalidExpectations`: the list call, the comparison with what is
unsatisfied, and each cancellation are separate steps, since each takes the lock.
A template is named by the constraint kind it defines. The reconcile of a mutator
ends in one of three ways: `MutatorObserve` (the system accepts it),
`MutatorTryCancel` (it is invalid or in conflict: TryCancelExpect and an error that
requeues it) or `MutatorCancel` (it is gone). `broken` holds what may be rejected;
a mutator in it may also be accepted, since conflicts come and go.

**WatchManager.** A call records its intent (`Begin`), waits for watchedMux
(`Acquire`), removes and adds one kind at a time, blocks on the unbuffered
channel of the replay loop (`SendRequest`) and, as the last watcher, on the
replays of the kind (`RemoveInformer`). Informers (the dynamic cache) are
external: an informer has a cache and one handler that fills `events`, and is
started by the first watcher, by a replay's list (`ReplayList`) or by a controller
that reads an object of its kind (`ReaderGet`: ReconcileSync.Reconcile reads through
the same cache, whatever has become of the kind since the request was queued).
`requests` is history: the kinds for which a controller was sent an event and may
have a request queued; `informer[k].reader` is history too: a reader started it.
`owed[r]` is history: the objects whose last change registrar r has not seen.

**DataSync.** Every call of ReconcileConfig.Reconcile that others can observe is
a step: `ConfigRead` (which decides what is needed), `ConfigWatched` and
`ConfigExcluder` (the shared state), `ConfigWipe`, `ConfigWatch`, `ConfigList`,
`ConfigAdd`, `ConfigKindDone`, `ConfigDone`. The sync reconcile reads the object
(`SyncGet`), checks the excluder, checks the watch set (the filtered client) and
calls OPA, in four steps. A failure returns from the reconcile and leaves what
was done. The registrar is external here; `WatchManager` is its detail.

**SchemaDB.** The code's tree of nodes with reference counts by id is a set of
references (location, child type, id): a node exists while somebody refers to
it. `conflicts`, `conflictsAlong` and `HasConflictsAlong` are node.go's walks;
`upsert` and `remove` are the DB's methods; `removePanics` is the condition under
which node.Remove panics.

**MutationSystem.** `mutatorsMap`, `orderedMutators` and `db` are System's
fields; `Search`, `inserted` and `deleted` are the sort.Search based list
operations. `MutatePass` is one iteration of the loop of Mutate, and a call that
runs holds the read lock, so no Upsert or Remove happens during it. What one
mutator makes of an object, Matches included, is the parameter `Effect`; the
theorems hold for any, the runs use `Mutators`. A
reconcile is `Get` (the read of the API server), the pod status, validation,
`ReconcileUpsert` or `ReconcileRemove`, and the status update, each of which may
fail. Events of pod statuses put *packed* names on the queue, which `Get` looks
up as they are, as the code does.

**Mutators.** An object is a tree of objects, lists and leaves. `mutateInternal`
and its parts `mutateObject`, `mutateList`, `mutateElements`, `mutateNewElement`
are the walk of mutation_function.go; since the code changes maps in place and
drops what it created unless something below was mutated, a result is the node
together with `mutated`. `IsValid` is what MutatorForAssign and
MutatorForAssignMetadata accept, and `ValidTests` the path tester's New. `Parts`
says what a location names without walking as the code does; WritesItsLocation
compares the two.

**TemplateController.** Each of the four controllers has a queue and a worker
whose `pc` names the next call; each call of the API server, of OPA or of a
registrar is an action, and `CallFails` returns from it as the code does (with or
without a retry). `TemplateIngest`, `TemplateWriteCRD`, `TemplateWatch` and
`TemplateSucceed` are handleUpdate; `TemplateUnwatch`, `TemplateRemove`,
`TemplateDeleteStatus` and `TemplateDeleteStatuses` are handleDelete and
deleteAllStatus. `want` and `live` are intent and watch of the registrars `w` and
`statusW`; `keys` is the constraints cache. `Enter` takes an item under the
switch, `Stop` waits for those inside. `GarbageCollect` is the API server's: it
deletes a CRD, and its constraints, when the template whose uid the CRD carries is
gone. A template that is created again under its name competes with it:
`TemplateWriteCRD` updates the CRD it finds and makes itself the owner, since
SetControllerReference compares owners by name (the vendored `controllerutil.go:84`,
`:160-172`); the constraints then survive, and are in OPA again once the kind is.
`unseen` (constraints) and `unnoticed` (kinds) are history, for the exceptions of
section 6.

**AuditManager.** `am` is the goroutine of the audit (`AuditDiscover`,
`AuditMatch`, `AuditList` for each chunk, `AuditReview` for each object;
`AuditFromCache` for the other mode); `WriteResults`, `WriterStopped`,
`WaitTimesOut` and `StartWriter` are writeAuditResults. `writer[t]` is the
updateConstraintLoop of audit t, with its rounds of list, check of stop, get and
update. `ByPodUpdate` is the status controller. `truth[t]` is history: what audit
t has to find.

**Matching, Webhook.** `Matches` is Go, `matching_constraints` and
`autoreject_review` are the Rego library, definition by definition;
`AdmissionReview`, `AuditReview` and `CacheReview` are the reviews of webhook,
audit and OPA's cache. A request in `Webhook` goes through `AdmitStart`,
`AdmitValidate`, `AdmitExclude`, `AdmitAcquire`, `AdmitNamespace`,
`AdmitNamespaceAPI` and `AdmitReview` (or the Mutate steps, or `LabelHandle`);
between its steps the Config, policies, namespaces and the cache change. `held`
is history: what was true all the time since the request arrived.

## 3. Runs

`tlc -config <cfg> <MC module>`; times are with two workers.

| Run | Checks | Instance | States |
|---|---|---|---|
| `object_tracker` | SatisfiedSound, KindsExact, SatisfiedAtomic, NothingStranded, ImplementsExpectations | 3 keys of 2 kinds, 2 callers of Satisfied, 1 retry | 26 thousand |
| `readiness_constraints` | ReadySound, ReadyUnlessLost | a template and its constraint, each of which may be rejected or deleted | 261 thousand |
| `readiness_data` | ReadySound, ReadyUnlessLost | a Config entry (may be dropped or unregistered), its object, an Assign (may be deleted or rejected) | 309 thousand |
| `watch_manager` | NothingLost, InformersMatchWatches, IntentIsWatched | 2 registrars, 2 kinds, one of them without a CRD, 3 and 2 calls, 2 replays, reads of queued requests | 2.0 million |
| `watch_calls` | CallsReturn, ChangesArrive | 2 registrars, 1 kind, 2 calls each, 2 attempts for a list; the manager stops at any time | 190 thousand |
| `data_sync` | Complete, NothingStaleAlone, Resynced | 2 kinds, 2 namespaces, 4 Configs and none, 3 Config changes, 1 object change, 1 failure | 509 thousand |
| `schema_db` | TreesExact, FlagsComplete | 4 mutators with 10 versions on 2 GVKs, sequences of any length | 156 (every reachable database) |
| `mutation_system` | InSync, ConflictsComeFromUpdates, RestInSync, Settles | conflicting and invalid versions of 2 mutators, 3 changes, 1 failure, 1 event | 28 thousand |
| `mutation_passes` | Idempotent, GivesUpOnlyOnRivals, WritesItsLocation | 8 versions of 5 mutators, 3 changes, 2 controllers, 54 objects | 626 thousand |
| `templates` | RestReconciled, RestReported, QuietAfterStop, Settles | 1 template, 1 constraint, 6 scenarios of up to 3 template and 2 constraint changes, a deleted CRD, a failure, a stop | 270 thousand |
| `audit` | TotalsExact, ByPodKept, StepsBackOnce, ResultsArrive | 3 objects, 2 constraints, chunks of 1, limit 1, up to 3 audits, 2 timeouts | 433 thousand |
| `webhook` | Enforced, Exempt, MatchersAgree, PathsAgree, ThreadsCounted, Answered | every match with at most two fields (242), 8 objects; 2 requests among changes and failures; 4 requests on 2 threads | 149 thousand |

Deadlock is checked where the model cannot stop (object tracker, readiness,
schema database). The other models stop when their bounded supply of calls and
changes is used up, and say `CHECK_DEADLOCK FALSE`; what must not be stuck there
is stated as CallsReturn, Resynced and Settles.

### What they show

- **object_tracker.** Whatever the order of calls and wherever other callers of
  Satisfied are suspended, the tracker is satisfied only if everything expected
  was met, kinds() is exact before and after the sets are freed, and the write
  half of Satisfied never applies a stale decision. No key is expected twice in
  this run; the theorems hold without that restriction, except the one that says
  so.
- **readiness_\*.** The pod is never ready before everything that exists was
  ingested, or was rejected and reported as such, and becomes ready unless a
  trackerMap lost a tracker or an expectation was orphaned (section 6 describes
  both): neither a template nor a mutator that is rejected again and again keeps the
  pod from it. That it becomes ready also shows that the probe creates no empty
  tracker, which nobody would populate.
- **watch_manager, watch_calls.** A registrar that joins a watch misses nothing
  between replay and distribution, also when the informer it is the first to watch
  was running for a reader and has its cache filled; a replay never restarts a
  removed informer, and only a controller's read does; no call hangs on a consumer
  that does not receive.
- **data_sync.** Wipe, watch and replay bring everything back after any failure
  and retry, unless the Config changes before a failed wipe is retried.
  What is left is fresh unless a sync reconcile overlapped a config reconcile.
- **schema_db.** The database is a function of the present mutators in its trees,
  and complete in its flags; no flag outlives its mutator. That no call panics
  follows (`NeverPanics`, proved).
- **mutation_\*.** The system follows the cluster through failures and rejected
  updates; Mutate's result is a fixed point; the iteration bound is enough unless
  one mutator writes a place that another one writes or a place within it. What a
  mutator creates on its way is gone if a test further down stops it, and list
  elements are told apart by their key, with duplicates, globs and elements of
  another type in the list.
- **templates.** Whatever call fails and however often a template is replaced,
  broken, deleted and created again, the four controllers come to rest, and then
  OPA, watches, CRD, cache and statuses are in line with the cluster; a constraint
  that was being added while its template went is removed after it. A template that
  is created again finds the CRD of the deleted one, before, while or after its
  constraints are removed from OPA, and adopts it with the constraints in it, or
  loses it to the collector and makes a new one. The exceptions are in section 6.
- **audit.** Chunks, excluded namespaces, kinds that match nothing and limits do
  not change the totals; the two writers of a status keep each other's part
  because updates are conditional; an abandoned writer can put an older result
  back, once.
- **webhook.** A policy that holds all along is applied and one that never holds
  is not, whatever changes between the steps; a namespace that is not cached yet is
  asked for at the API server; the semaphore counts the requests under review, at most
  max-serving-threads, whichever return they take, a cancelled wait included; Go
  and Rego select the same objects but for three differences (section 6); audit
  and webhook agree.

### Bounds, and why they are enough

Every bound is a constant: `Generations`, `Attempts`, `MaxCalls`, `MaxChanges`,
`MaxConfigs`, `MaxEvents`, `MaxFailures`, `Retries`, `MaxAudits`, `Steps`,
`MaxRequests` and the budgets of `Scenarios`, which a behaviour spends. Each
property has a mutant
that the run finds violated under the same bounds, so the bounds let the
interesting case happen. The histories of interest are short: a second caller
between two locks, a change between check and use, a failure and one retry, a
Config changed and changed back (three changes), a mutator added, rejected,
changed and removed. `CONSTRAINT Starting` ends readiness runs when the pod is
ready, because no part of start-up runs afterwards; `Running` ends the safety
run of the watch manager when it stops (the liveness run does not); `OneCall`
ends a run after one call of Mutate, whose result no later call reads, and
follows calls only where the system can change next or is at rest. One template
is enough for the template controllers, because two share nothing but the order
of their requests. The match of the webhook's instance is one of all that have at
most two fields: the fields are conjuncts, in Go and in Rego. The only
symmetry is that of replay goroutines, in a run without liveness. Larger
instances were checked once and pass as well: `readiness_data` with the data
object deletable too (ReadySound only, 1.7 million states), `data_sync` with two object changes
(1.5 million), `webhook` with three changes around one request (210 thousand),
`templates` without Settles with three changes of the template, three of the
constraint and a failure, the smallest scenario in which an AddWatch that failed
leaves a constraint behind (section 6; 1.1 million).

### Fairness, and why the code justifies it

- *Object tracker*: calls of Satisfied keep being made, since the kubelet probes
  readiness and the collector polls every 500 ms. Nothing is assumed of others.
- *Readiness*: goroutines run; lists succeed after finitely many retries when
  their kind exists (`syncutil.BackoffWithContext` retries for ever); the work
  queues are FIFO and serve every item, hence SF for an item that competes with
  others for its worker; the collector visits every tracker in turn.
- *Watch manager*: it is started, its loops run, `sync.RWMutex` starves no
  caller (SF of `Acquire`), a cancelled replay gives up. That consumers receive
  is *not* assumed: `Receiving` is a hypothesis of ChangesArrive only.
- *Data sync*: workers run; the sync queue serves every item (SF).
- *Templates*: the queues are served, the garbage collector runs, and a free lock
  goes to the waiting writer (weak fairness of each controller). Calls fail only as
  often as the scenario allows.
- *Audit*: requests end and goroutines run. That a stopped writer ends within the
  timeout is *not* assumed.
- *Webhook*: handlers run, and waiting senders of a channel are served in order.
  That a request is cancelled is *not* assumed.
- *Mutation*: queues serve every item however often another is requeued (SF); a
  call of Mutate ends; a waiting writer keeps new readers out.

## 4. Proofs

`tlapm <module>` checks every leaf. The assumptions are the named ASSUMEs of the
modules, which TLC evaluates in the runs: ranges of constants, and what the API
server or a schema guarantees (a Config lists kinds; `In` and `NotIn` of a
selector have values; a label has one value). No theorem bounds the number of
objects, calls, failures, workers or retries; the budgets of the scenarios are any
naturals. Each module proves that one inductive invariant holds, `IInv` unless
another name is given, and derives its theorems from it.

**ObjectTrackerProofs**, for any keys, callers and retries:
`TypeCorrect`, `Soundness` (SatisfiedSound), `KindsAreExact`,
`ResolveLoopIsIdle` (what was seen is not expected, so the loop of Satisfied that
resolves such keys has nothing to do), `BreakerIsFinal` (no call changes a tracker
whose breaker tripped), `SatisfiedIsAtomic`,
`Refinement` (the safety part of Expectations) and `OnceNothingStranded` (when no
key is expected twice). SatisfiedSound is not inductive: nothing in it relates
the sets to what was called. `IInv` adds `TrackingInv` (until the breaker trips,
expect and satisfied together are what was recorded and not cancelled, expect
holds everything unmet, and seen holds only observations nobody expected) and
`FrozenInv` (after it trips, the sets are empty and the snapshot of kinds is
that of the history). SatisfiedIsAtomic also needs that a caller between its locks
has seen a populated tracker and that populated is stable.

**ReadinessTrackerProofs**, for any templates, constraints, syncOnly entries,
mutators, deletions, rejections, retries and numbers of trackers: `ReadyIsSound`
(ReadySound), `ReadyForSureAlways` and `LiveIsKept`. ReadySound is far from
inductive: it speaks of the moment the probe gives its answer, while whether the
answer is right was decided when the listers expected what they had listed.
`IInv` (theorem `ReadinessInvariance`) therefore says for every tracker what it
still owes. `Due(k)` is what a tracker of k must not lose: the live templates, the
present syncOnly kinds, and the objects and mutators no controller has handled;
`Owed(k)` is the part it has to wait for; a mutator that is rejected is handled once
its expectation was given to TryCancelExpect. `TrackInv`: a tracker knows all that is
due (`Known`: not cancelled, expected once the tracker is populated, its kind in
the snapshot once it is satisfied) and is not satisfied while something is owed
(`Unmet`). That a tracker is populated only when it knows everything comes from
`ListInv`: what a lister has not expected yet it has left to do, or its own
list call is still to come. `ProbeInv`: whatever the probe has passed owes nothing
and cannot owe anything again, because deletions and reports only take away from
what is due (`Shrinks`). `KeptInv` (a kind that is live is not removed from a
trackerMap, nor cancelled by a clean-up in progress), `CollectorInv` (what is about
to be cancelled was not in the list, so it does not exist) and `RunnerInv` (without
mutators the runner's context is cancelled after its last goroutine ended) exclude
the ways to lose something. The lemmas on the calls of one tracker (`ExpectKeeps`,
`ObserveKeeps`, `CancelKeeps`, `TryCancelKeeps`, `DoneKeeps`, `SatisfiedKeeps`) say
what each keeps; `Steady` lifts that to the whole state, so that the lemma for an
action of the model has only to say what is due after it.

`TrackerAssumption` gives names to things: kinds, objects, mutators and listers are
told apart, an object has one kind. It excludes one input, a Config that lists a
constraint kind in syncOnly, since the model keeps both trackerMaps in one function.

The hypothesis of ReadyIsSound, MutatorKinds = {} or TemplateKinds = {}, is a
configuration of the program (mutation is enabled by a flag; a cluster may have no
templates), and the theorem is false without it. TLC checked IInv on three
instances (a template with a constraint; two entries of one data kind; a template,
a constraint and an Assign) before it was proved. The last of them satisfies
IInv and violates ReadySound, so IInv allows for what the code does there.

**WatchManagerProofs**, for any registrars, kinds, objects and calls:
`IntentIsKept` (IntentIsWatched), `InformersAreWatched` (InformersMatchWatches) and
`ChangesAreNotLost` (NothingLost). `LockInv` says who is past `Acquire`. `CallInv`
and `WatchedInv` say what the call in hand still has to add and to remove, so that
the intent and the watches can differ only by that. `LoopInv` relates the replay
loop to the call that waits for it: a request is for a registrar that is joining,
and no replay of a kind is remembered once its watcher has left. `InformerInv` has
each informer that no reader started, and each replay, belong to a kind that is
watched or whose last watcher waits for the replays (`Needed`), which is why no
replay restarts an informer. `OwedInv` and `LiveInv` follow a change: it is an event in the queue or
with the distributor, which holds the watchers it read under the lock, or it is in
the cache and a replay that nobody is about to cancel will list it. A deletion is
never in the cache, so it must be an event; that is the part of `OwedInv` without
which the invariant is not inductive. The proof holds for any reads of queued
requests: a reader may start the informer of a kind, and the first watcher is then
sent what its cache holds.

**DataSyncProofs**, for any kinds, objects, Configs and failures: `OpaIsComplete`
(Complete) and `NothingIsStale` (NothingStaleAlone). `ConfigInv` records what a
reconcile has done so far at each of its calls and `DirtyInv` that what is left is
queued or in hand. Complete follows from `DueInv`: an object that the Config in
hand asks for is on its way into OPA by one of six routes (`Comes`), as long as
`WipeInv` holds: a kind that a pending wipe will empty is to be replayed or not
yet watched. A Config that supersedes a failed wipe breaks exactly WipeInv.
NothingStaleAlone follows from `FreshInv`: without overlap one of the workers is
idle at any time, so a check of the sync controller is still true when it writes.

**MutationSystemProofs**, first part, about the schema database alone, for any
mutators, paths and sequences of calls: `TreesAreExact`, `NoPanic` and
`FlagsAreComplete`. The invariant `Good` says that each tree is the union of the
references of the cached mutators bound to its GVK, and that cached ids are distinct. Removing one mutator must not take a reference
another still needs, which holds because a reference carries its id. `Flagged`
says that each pair of conflicting mutators is flagged; `ConflictIsSeen` shows that
the walk along the new path meets every conflict of the new mutator with a cached
one, whatever the depth, and `RemoveFlagged` that what remove clears has none left.

**MutationSystemProofs**, second part, for any mutators, effects, controllers and
requests. `ListInSync`: InSync is inductive once the list is known to be a sequence of
mutators and workers hold mutators (`ListInv`). `OrderIsTotal`, `SearchFinds`
(binary search finds the first greater id), `SearchIsExact`, `InsertedSorted`
and `DeletedSorted` carry the argument. `OscillationIsNeverReported` and
`MutateIsIdempotent`: the invariant `CallInv` says that a running call sees the
system as it was when it began, because it has the read lock, and that its first
pass changed the object; a pass depends on the object only, so one that changes
nothing ends the call in a fixed point, and one that restores the original would
have been a first pass. `ConflictsAreFromUpdates` and `SystemNeverPanics`:
`SchemaInv` adds to Good and Flagged that the database holds the version the system
holds unless an update was rejected. `RestIsInSync`: a mutator is queued, or the
worker that has it got the version of the cluster and left the system as that
version asks, or it is settled (`Tended`); two controllers never have the same
mutator because requests carry their kind.

**TemplateControllerProofs**, for any templates, constraints, scenarios and
interleavings: `RestIsReported` (RestReported), `StopIsQuiet` (QuietAfterStop) and
`RestIsReconciled` (RestReconciled).
`StopInv`: every worker is idle once the switch is stopped, since Enter and Stop
exclude each other. `ReportInv`: an object that is not queued for its status
controller shows its status, or the worker that has it listed the status as it is.
For constraints, whose events do not reach their status controller, this needs
`UidInv`: a status has the uid of an object that was there before, so a constraint
that is created again has nothing to show yet.

RestReconciled speaks of states in which nobody has anything left to do, so its
invariant, `RestInv` (theorem `RestInvariance`, on top of IInv), says for every
other state what is left and who does it. `TemplateSettled`: a template that is
not queued is as it has to be, or the worker has it in the version of the
cluster, with the CRD it read or wrote still there. `ConstraintSettled`: a
constraint that is not queued is enforced as it stands or gone, or the worker
removes one that no registrar watches, or adds one in the version of the
cluster, or is about to find its status deleted and try again. `StageInv` says
what each call has achieved: from ingestion on OPA has this generation, from
each RemoveWatch on the intent is gone, and a removal has emptied OPA and the
cache before it deletes the status. Three parts carry the weight. `OpaInv`: a
kind that is to be watched and a constraint in OPA have their template in OPA,
so that a template that is absent from OPA has left nothing but statuses.
`StatusListed`: the statuses that deleteAllStatus has still to delete are in its
list, or belong to removals under way; a status created after the listing queues
its constraint, which is then removed because the intent went first. `Excused`
is the weaker form of the exception: leftovers are excused while the deletion is
in hand or queued, and for good only if the template came back. The proof goes
by one lemma for each kind of step (what an update, a deletion, a retry, a
constraint's call may change), and by one for each action under it.

**AuditManagerProofs**, for any objects, constraints, chunks, limits and audits:
`ByPodIsKept` (ByPodKept) from `VersionInv` (who holds the current resource version
holds the current status), `StepsBackAtMostOnce` (StepsBackOnce) from `OrderInv`
and `LateInv` (all writers but the last were told to stop, and one that wrote after
that is back at its check), and `TotalsAreExact` (TotalsExact). The latter needs
that each object is reviewed once (`OnceInv`), that the totals so far count the
violations of what was reviewed (`CountInv`), that the lists are cut at the limit
(`LimitInv`) and that writers and statuses carry results of complete audits
(`ResultInv`).

**WebhookProofs**, for any policies, Configs, namespaces and requests:
`TheMatchersAgree` (MatchersAgree) and `TheReviewsAgree` (PathsAgree) are statements
about operators (`MatchersMeet`, `PathsMeet`), selector by selector, from
the assumption on matches and labels. `PoliciesAreEnforced` (Enforced) and
`ExclusionIsRespected` (Exempt) need what each step of a handler knows: `Good`
relates the namespace that was read to the facts that held since the request
arrived (`Placed`), and says which steps an excluded request cannot reach;
`HeldInv` says that what is remembered is still true. `ThreadsAreCounted`
(ThreadsCounted), for any number of requests and threads, has one lemma for a step
that takes a thread, one for a step that gives one back and one for the others;
the set of requests under review is finite, which Cardinality needs (`ThreadsInv`).

**Left to TLC**:

- liveness under fairness: ReadyUnlessLost, CallsReturn, ChangesArrive, Resynced,
  Settles, ResultsArrive, Answered and the liveness of Expectations;
- what needs induction over data: GivesUpOnlyOnRivals (a measure that falls with
  every pass over the list) and WritesItsLocation (the recursive walk of Mutators);
- ReadySound for constraints when there are both templates and mutators, which
  the code does not keep (section 6, item 1).

## 5. What is not modelled

Metrics, logging, tracing, Kubernetes events and the statistics printer have no
effect on the state in question. Scanner and parser of mutation paths work on
characters and are left to unit tests; their output (objects and lists in turn,
a key value or a glob for each list) is a premise of `Mutators`. The dynamic cache
appears as the informer of each kind. OPA is a set of templates, constraints and
objects, and the verdict of a rule an attribute of the object. Wiring, flags,
generated code, the upgrade manager, helmify and gator are out of scope. The
components in `PROJECT.json` give the reason for each.

Abstractions to keep in mind: namespaces in DataSync are values (prefix wildcards
are told apart in Matching and Webhook only); integers stand for strings in the
order of mutators; annotations added by Mutate are left out; a template's
ingestion, CRD and watch are one step in ReadinessTracker, where only readiness is
in question. There a read of a mutator or of its pod status that fails is a
reconcile that comes later, because nothing is done before it. In WatchManager a
controller's read is the informer it starts and nothing else; what the sync
controller does with the object is in DataSync. In TemplateController reads are
current and a write based on a stale read is a write that fails, and the collector
judges a CRD as it stands (one that decides before the CRD is adopted and deletes it
afterwards does what a user does who deletes a CRD, `CRDDelete`, for which the proofs
hold with any budget); finalizers, deletion timestamps and constraints that
OPA refuses are left out. The audit's loop does not end. Selectors have one label.

## 6. Divergences met

All are modelled as coded. Three have no exception in a passing property that
could be dropped; an instance shows each:

1. *Ready before constraints are ingested* (`ready_tracker.go:430` against `:279`,
   "Must appear after grp.Wait()"): with mutation enabled, the deferred
   `constraintTrackers.Wait` of trackAssign can cancel the runner before a
   template's constraints are listed. ReadySound fails in `readiness_constraints`
   with an Assign added. The passing instances have templates or mutators, not both,
   which is the hypothesis of `ReadyIsSound`; without it `ReadyForSureAlways` still
   covers templates, synced objects and mutators: each is ingested, or was rejected
   and reported as such.
2. *Stale data after a Config change* (`opadataclient.go:55` against
   `config_controller.go:280`, "Wipe all data to avoid stale state"): a sync
   reconcile that passed its checks writes after the wipe. NothingStaleAlone fails
   without `~overlapped`.
3. *Conflicting mutators applied* (`system.go:55` against `:102`, "Don't try to
   apply Mutators which have conflicts."): a rejected update takes the schema of
   the version that stays active out of the database, and reverting the update
   returns early at `:44-46`. ConflictsComeFromUpdates fails without `rejected`
   (three mutators of one place, five changes).

Of the others a property names each that it must except; dropping the exception,
or the restriction of the run, shows the behaviour:

- A key expected again after it was satisfied is stranded (`object_tracker.go:118`
  against the comment at `:60`): NothingStranded fails with RepeatExpect = TRUE.
  trackConfig does this for a kind listed twice in syncOnly.
- Two callers of trackerMap.Get create two trackers and the populated one may be
  overwritten (`tracker_map.go:70`; `ready_tracker.go:126` calls the race
  harmless): the disjunct `lost` of ReadyUnlessLost.
- A mutator deleted after Run listed it and before its informer synchronised is
  never collected (`ready_tracker.go:356` against `:352-354`), and likewise a
  data kind that the config controller never watched: the disjunct `Orphaned`.
- The collector cleans up a deleted template under the GVK of ConstraintTemplate
  (`ready_tracker.go:345` against `:359`), so the tracker of its constraints stays.
- A request that is still queued when its kind is dropped from the watches starts
  the informer of the kind again, and nobody stops it until the kind is watched and
  dropped once more: the sync controller reads through the manager's dynamic cache
  without asking whether the kind is watched (`sync_controller.go:78`, `:167`), while
  the constraint controller asks (`constraint_controller.go:192-193`, "short-circuit
  get requests that would otherwise trigger a watch"): `reader` in
  InformersMatchWatches.
- Registrar.Watching reports the intent even if the watch could not be started
  (`registrar.go:253-256`): the exception of IntentIsWatched.
- A Config changed back before a failed wipe was retried loses the replay of kinds
  the registrar kept watching (`config_controller.go:271` against `:293`): the
  variable `superseded` in Complete and Resynced.
- A kind without a CRD keeps the other kinds wiped, since the error of
  ReplaceWatch returns before the replay (`config_controller.go:289` against
  `:287-288`): Resynced fails with a kind in Unregistered.
- `"*"` does not exclude a namespace from the mutation webhook (`excluder.go:31`
  against `website/docs/exempt-namespaces.md:31`, "includes all current processes
  above and includes any future processes"): `Listed` in Exempt.
- A flag of the schema database can outlive its conflict while the path ends at a
  place over which others conflict (`node.go:183` against `schema.go:46-48`). System
  never leaves a conflict in the database, so it is reached through the DB only;
  hence FlagsComplete is an inclusion.
- The registrar of pod statuses is registered with the channel of constraints
  (`constrainttemplate_controller.go:121` against the comment at `:146-147`): a pod
  status of a constraint that is written between the two AddWatch calls is dropped,
  and not shown in byPod until another event: `unseen` in RestReported.
- A call fails in handleDelete or deleteAllStatus and the template is created again
  before the retry, which is then an update: constraints that were deleted meanwhile
  stay in OPA with their statuses and metrics, and so does the old template when the
  new one does not compile: `Unnoticed` in RestReconciled.
- AddWatch records the intent before it may fail (`registrar.go:229-230`), and
  the constraint controller asks for the intent
  (`constrainttemplate_controller.go:138`). A constraint that is still queued is
  then enforced though nothing watches its kind; if it is deleted before the
  retry, no event says so, the replay of the retry shows only what exists, and
  OPA enforces a constraint that is gone until the constraint is created and
  deleted again or its template is deleted: the other half of `Unnoticed`. It
  was found when the invariant of RestReconciled turned out not to be inductive,
  and a run with three changes of the template and of the constraint confirmed
  it.
- An audit whose list of one kind, namespace or discovery fails goes on without it
  (`audit/manager.go:361`), and with audit-match-kind-only a constraint kind that
  could not be listed takes the kinds it matches out of the audit: totals are too
  low and look complete. TotalsExact excepts such audits.
- After the timeout at `audit/manager.go:526` the previous writer can still replace
  a newer result by its own, once: StepsBackOnce and ResultsArrive.
- Lists that are present and empty (`kinds`, `namespaces`, `apiGroups`) match
  nothing in Rego and everything in Go (`website/docs/mutation.md:76`: not filtered);
  Go ignores labelSelector for cluster-scoped objects (`match.go:125`, `:142`); Rego
  also matches the labels of the old object: the exceptions of MatchersAgree.
- The audit of OPA's cache does not match a namespaceSelector, and reports nothing,
  when the namespace is not cached: the premise of PathsAgree.
- The path tester compares the places of the tests in their list where it means
  their depths (`tester.go:94-98`, comment at `:111`). MustNotExist of a child
  followed by MustExist of its parent is refused though it can be satisfied, and
  MustExist of a child followed by MustNotExist of its parent is accepted though it
  cannot: `ValidTests`.
- assignIf is not looked at when the location ends in a list element
  (`mutation_function.go:92` against `website/docs/mutation.md:135`).
- Requests of pod status events are not unpacked (`assign_controller.go:150`
  against `util/pack.go:41-42`) and are reconciled as removals of mutators that do
  not exist. RestInSync shows that nothing is lost by it.

Smaller observations: the error "oscillating mutation" cannot be returned
(OscillationIsNeverReported); RemoveRegistrar has no caller; a replay is given up
after four failed lists (`gaveUp` in NothingLost); `Enforced` stays TRUE in the
status of a mutator whose update was rejected; after an error of creating a
template's CRD the request is not queued again
(`constrainttemplate_controller.go:331-353`), so that the next attempt of
TryCancelTemplate depends on another event; a verdict of the webhook may combine a
namespace read earlier with a policy loaded later, which is why Enforced judges
them apart; an unsupported enforcementAction is answered as an internal error
(`policy.go:365`); autoreject never fires for webhook and audit, because the
namespace is always part of the review.

## 7. Plan

Done: the modules of section 2 and the theorems of section 4. Next:

1. An abstract registrar, used by TemplateController and DataSync, that
   WatchManager is shown to implement.
2. The mutator status controller; the upgrade manager.
