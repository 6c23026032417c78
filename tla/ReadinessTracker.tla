--------------------------- MODULE ReadinessTracker ---------------------------
(***************************************************************************)
(* The readiness Tracker (pkg/readiness/ready_tracker.go) at start-up: the *)
(* goroutines that list the cluster and set expectations, the controllers  *)
(* that report what they ingested, the collector of deleted objects and    *)
(* the probe that asks whether the pod is ready, over the object trackers  *)
(* of ObjectTrackerOps, the two trackerMaps and the SingleRunner.          *)
(*                                                                         *)
(* Constraint kinds and data kinds are disjoint, so the trackerMaps        *)
(* "constraints" and "data" are the parts of one function.  A template is  *)
(* named by the constraint kind it defines.                                *)
(***************************************************************************)
EXTENDS ObjectTrackerOps, Sequences

CONSTANTS
  TemplateKinds,  \* constraint kinds; each has one template
  DataKinds,      \* kinds that the Config may list
  SyncOnly,       \* the Config's syncOnly list: the kind of each entry
  Objects,        \* constraints and data objects
  Mutators,       \* Assign and AssignMetadata objects
  Roots,          \* the trackers with a field of their own that are modelled;
                  \* one that is left out has nothing to expect
  Breakable,      \* templates, constraints and mutators that ingestion may
                  \* reject, and data kinds that may not be registered
  Deletable,      \* what the user may delete during start-up
  Generations     \* bound: trackers of one kind a trackerMap may create

MapKinds  == TemplateKinds \cup DataKinds
DataTasks == DOMAIN SyncOnly
MutatorKinds == Roots \ {"templates", "config"}
Listers   == Roots \cup TemplateKinds \cup DataTasks

KindsOf(c) == IF c = "constraint" THEN TemplateKinds ELSE DataKinds

\* The controllers that have something to reconcile.
Controllers == {c \in {"constraint", "sync"} : KindsOf(c) # {}}

Disjoint(A, B) == A \cap B = {}

ASSUME TrackerAssumption ==
  /\ Keys = MapKinds \cup Objects \cup Mutators
  /\ Disjoint(TemplateKinds, DataKinds)
  /\ Disjoint(MapKinds, Roots \cup {"templates", "config"})
  /\ Disjoint(Objects, MapKinds) /\ Disjoint(Mutators, Objects \cup MapKinds)
  /\ Disjoint(DataTasks, Roots \cup TemplateKinds \cup {"templates", "config"})
  /\ DataKinds = {SyncOnly[e] : e \in DataTasks}
  /\ \A k \in MapKinds : KindOf[k] = k
  /\ \A o \in Objects : KindOf[o] \in MapKinds
  /\ \A x \in Mutators : KindOf[x] \in MutatorKinds
  /\ TemplateKinds # {} => "templates" \in Roots
  /\ DataKinds # {} => "config" \in Roots
  /\ Generations \in Nat \ {0}

VARIABLES
  \* the cluster and what the controllers have been told of it
  broken,     \* what ingestion rejects (mutators: may reject); never changes
  present,    \* the templates, syncOnly kinds, objects, mutators that exist
  ingested,   \* templates in OPA and data kinds watched by the sync controller
  synced,     \* informers whose first list has been delivered
  dirty,      \* the controllers' work queues
  \* the object trackers and the trackerMaps
  ot,         \* every tracker ever created, by kind and number
  m,          \* trackerMap.m: the number of a kind's current tracker, 0 if none
  made,       \* how many trackers of a kind were created
  removed,    \* trackerMap.removed
  \* the goroutines of Run
  run,        \* the channel ready is closed
  lister,     \* the goroutines that set expectations
  runner,     \* the SingleRunner: keys used, keys cancelled, context cancelled
  collector,  \* the collector of deleted objects
  \* the other users of the tracker
  tc,         \* the template controller
  cc,         \* the constraint controller and the sync controller
  probe,      \* a call of Tracker.Satisfied
  satisfied,  \* Tracker.satisfied
  \* history
  lost,       \* a current tracker was overwritten in a trackerMap
  processed   \* objects a controller ingested, cancelled or gave up

cluster == <<broken, present, ingested, synced, dirty>>
maps    == <<m, made, removed, lost>>
tasks   == <<run, lister, runner>>
callers == <<tc, cc>>
asking  == <<probe, satisfied, collector>>
vars    == <<cluster, ot, maps, tasks, callers, asking, processed>>

ObjectsOf(k) == {o \in Objects : KindOf[o] = k}

-------------------------------------------------------------------------------
\* Trackers: number 1 of a root kind is its only tracker; number 0 of any kind
\* is noopExpectations, on which every call is without effect.

Trackers == (Roots \X {1}) \cup (MapKinds \X (1..Generations))

On(k, n, Op(_)) == ot' = IF n = 0 THEN ot ELSE [ot EXCEPT ![<<k, n>>] = Op(@)]

\* The read half of trackerMap.Get; -1 when it finds nothing.
Lookup(k) ==
  CASE k \in Roots   -> 1
    [] k \in removed -> 0
    [] OTHER         -> IF m[k] # 0 THEN m[k] ELSE -1

\* The write half of trackerMap.Get: creates and stores without looking again.
Create(k) ==
  /\ made[k] < Generations
  /\ made' = [made EXCEPT ![k] = @ + 1]
  /\ m' = [m EXCEPT ![k] = made[k] + 1]
  /\ lost' = (lost \/ m[k] # 0)
  /\ UNCHANGED removed

Remove(k) ==
  /\ m' = [m EXCEPT ![k] = 0]
  /\ removed' = removed \cup {k}
  /\ UNCHANGED <<made, lost>>

-------------------------------------------------------------------------------
\* The user deletes an object; a controller that knows of it is told.

Delete(x) ==
  /\ x \in present \cap Deletable
  /\ present' = present \ {x}
  /\ dirty' = IF \/ x \in TemplateKinds \cup Mutators /\ "informers" \in synced
                 \/ x \in DataKinds /\ "config" \in synced
                 \/ x \in Objects /\ KindOf[x] \in ingested
              THEN dirty \cup {x} ELSE dirty
  /\ UNCHANGED <<broken, ingested, synced, ot, maps, tasks, callers, asking, processed>>

\* The informers of templates and mutators deliver their first list.
InformersSync ==
  /\ "informers" \notin synced
  /\ synced' = synced \cup {"informers"}
  /\ dirty' = dirty \cup (present \cap (TemplateKinds \cup Mutators))
  /\ UNCHANGED <<broken, present, ingested, ot, maps, tasks, callers, asking, processed>>

\* The first reconcile of the Config watches the kinds it lists.
ConfigSync ==
  /\ "config" \in Roots \ synced
  /\ synced' = synced \cup {"config"}
  /\ LET ks == (present \cap DataKinds) \ broken
     IN  /\ ingested' = ingested \cup ks
         /\ dirty' = dirty \cup {o \in Objects \cap present : KindOf[o] \in ks}
  /\ UNCHANGED <<broken, present, ot, maps, tasks, callers, asking, processed>>

\* A later reconcile stops watching k: removeStaleExpectations, CancelData.
ConfigDrop(k) ==
  /\ k \in dirty \cap DataKinds
  /\ dirty' = dirty \ {k}
  /\ ingested' = ingested \ {k}
  /\ Remove(k)
  /\ UNCHANGED <<broken, present, synced, ot, tasks, callers, asking, processed>>

-------------------------------------------------------------------------------
\* Run and the goroutines it starts

Goroutine(to) == [pc |-> to, todo |-> {}, cur |-> "", handle |-> 0]

Goto(t, to) == IF to = "end" THEN [lister EXCEPT ![t] = Goroutine("end")]
                             ELSE [lister EXCEPT ![t].pc = to]

Run ==
  /\ ~run
  /\ run' = TRUE
  /\ lister' = [t \in Listers |-> IF t \in Roots
                                  THEN [lister[t] EXCEPT !.pc = "list"]
                                  ELSE lister[t]]
  /\ UNCHANGED <<cluster, ot, maps, runner, callers, asking, processed>>

\* The list calls of the root listers retry until they succeed.
RootList(t) ==
  /\ lister[t].pc = "list"
  /\ lister' = [Goto(t, "expect") EXCEPT ![t].todo =
       CASE t = "templates" -> present \cap TemplateKinds
         [] t = "config"    -> {e \in DataTasks : SyncOnly[e] \in present}
         [] OTHER           -> {x \in present \cap Mutators : KindOf[x] = t}]
  /\ UNCHANGED <<cluster, ot, maps, run, runner, callers, asking, processed>>

\* trackAssign and trackAssignMetadata expect a listed object.
MutatorExpect(t, x) ==
  /\ lister[t].pc = "expect"
  /\ x \in lister[t].todo
  /\ On(t, 1, LAMBDA r : Expect(r, x, FALSE))
  /\ lister' = [lister EXCEPT ![t].todo = @ \ {x}]
  /\ UNCHANGED <<cluster, maps, run, runner, callers, asking, processed>>

\* The kind for which a root lister is about to start a goroutine.
TaskKind(t) == IF t \in DataTasks THEN SyncOnly[t] ELSE t

\* trackConstraintTemplates expects a template; trackConfig expects the kind of
\* an entry and observes it at once ("we only care about the gvk entry").
KindExpect(t, x) ==
  /\ lister[t].pc = "expect"
  /\ x \in lister[t].todo
  /\ LET k == TaskKind(x)
         Op(r) == IF t = "config" THEN Observe(Expect(r, k, FALSE), k)
                                  ELSE Expect(r, k, FALSE)
     IN  On(t, 1, Op)
  /\ lister' = [Goto(t, "get") EXCEPT ![t].cur = x]
  /\ UNCHANGED <<cluster, maps, run, runner, callers, asking, processed>>

ListerGet(t) ==
  /\ lister[t].pc = "get"
  /\ LET n == Lookup(TaskKind(lister[t].cur))
     IN  lister' = [Goto(t, IF n = -1 THEN "create" ELSE "go")
                      EXCEPT ![t].handle = n]
  /\ UNCHANGED <<cluster, ot, maps, run, runner, callers, asking, processed>>

ListerCreate(t) ==
  /\ lister[t].pc = "create"
  /\ LET k == TaskKind(lister[t].cur)
     IN  /\ Create(k)
         /\ lister' = [Goto(t, "go") EXCEPT ![t].handle = made[k] + 1]
  /\ UNCHANGED <<cluster, ot, run, runner, callers, asking, processed>>

\* SingleRunner.Go for a constraint kind: a used key is rejected.  trackConfig
\* starts one goroutine for each entry.
ListerGo(t) ==
  /\ lister[t].pc = "go"
  /\ LET cur  == lister[t].cur
         back == [lister EXCEPT ![t] = [Goroutine("expect") EXCEPT
                                          !.todo = lister[t].todo \ {cur}]]
     IN  /\ lister' = IF cur \in runner.used THEN back
                      ELSE [back EXCEPT ![cur].pc = "list",
                                        ![cur].handle = lister[t].handle]
         /\ runner' = IF t = "config" THEN runner
                      ELSE [runner EXCEPT !.used = @ \cup {cur}]
  /\ UNCHANGED <<cluster, ot, maps, run, callers, asking, processed>>

Ended(ts) == \A t \in ts : lister[t].pc \in {"none", "end"}

\* The deferred calls of the root listers.  trackConfig waits for its
\* goroutines before ExpectationsDone, the others call it first.
RootDone(t) ==
  /\ lister[t].pc = "expect"
  /\ lister[t].todo = {}
  /\ t = "config" => Ended(DataTasks)
  /\ On(t, 1, ExpectationsDone)
  /\ lister' = Goto(t, IF t = "config" THEN "end" ELSE "wait")
  /\ UNCHANGED <<cluster, maps, run, runner, callers, asking, processed>>

\* SingleRunner.Wait returns: errgroup cancels the context of the runner.
RunnerWait(t) ==
  /\ lister[t].pc = "wait"
  /\ Ended(TemplateKinds)
  /\ runner' = [runner EXCEPT !.ctxDone = TRUE]
  /\ lister' = Goto(t, "end")
  /\ UNCHANGED <<cluster, ot, maps, run, callers, asking, processed>>

TaskCanceled(t) == t \in TemplateKinds /\ (runner.ctxDone \/ t \in runner.canceled)

\* trackConstraints whose context was cancelled, or trackData of a kind that is
\* not registered, gives up listing; its expectations are marked done.
TaskAbort(t) ==
  /\ lister[t].pc = "list"
  /\ TaskCanceled(t) \/ (t \in DataTasks /\ SyncOnly[t] \in broken)
  /\ On(TaskKind(t), lister[t].handle, ExpectationsDone)
  /\ lister' = Goto(t, "end")
  /\ UNCHANGED <<cluster, maps, run, runner, callers, asking, processed>>

\* Fault: ExpectationsDone is called when the list arrives.
TaskList_DoneFirst(t) ==
  /\ lister[t].pc = "list"
  /\ ~TaskCanceled(t)
  /\ TaskKind(t) \notin broken
  /\ lister' = [Goto(t, "expect") EXCEPT
                  ![t].todo = present \cap ObjectsOf(TaskKind(t))]
  /\ On(TaskKind(t), lister[t].handle, ExpectationsDone)
  /\ UNCHANGED <<cluster, maps, run, runner, callers, asking, processed>>

\* The list call succeeds; the CRD of a broken template does not exist.
TaskList(t) ==
  /\ lister[t].pc = "list"
  /\ ~TaskCanceled(t)
  /\ TaskKind(t) \notin broken
  /\ lister' = [Goto(t, "expect") EXCEPT
                  ![t].todo = present \cap ObjectsOf(TaskKind(t))]
  /\ UNCHANGED <<cluster, ot, maps, run, runner, callers, asking, processed>>

TaskExpect(t, o) ==
  /\ lister[t].pc = "expect"
  /\ o \in lister[t].todo
  /\ On(TaskKind(t), lister[t].handle, LAMBDA r : Expect(r, o, FALSE))
  /\ lister' = [lister EXCEPT ![t].todo = @ \ {o}]
  /\ UNCHANGED <<cluster, maps, run, runner, callers, asking, processed>>

TaskDone(t) ==
  /\ lister[t].pc = "expect"
  /\ lister[t].todo = {}
  /\ On(TaskKind(t), lister[t].handle, ExpectationsDone)
  /\ lister' = Goto(t, "end")
  /\ UNCHANGED <<cluster, maps, run, runner, callers, asking, processed>>

-------------------------------------------------------------------------------
\* The template controller (one worker)

NoCleanup == [pc |-> "idle", k |-> ""]

\* Reconcile of a template that exists and compiles: AddTemplate, Observe, and
\* the watch of its constraints.
TemplateObserve(k) ==
  /\ tc.pc = "idle"
  /\ k \in (dirty \cap TemplateKinds \cap present) \ broken
  /\ On("templates", 1, LAMBDA r : Observe(r, k))
  /\ ingested' = ingested \cup {k}
  /\ dirty' = (dirty \ {k}) \cup (ObjectsOf(k) \cap present)
  /\ UNCHANGED <<broken, present, synced, maps, tasks, callers, asking, processed>>

\* Reconcile of a template that AddTemplate rejects: TryCancelTemplate, and the
\* returned error requeues the template.
TemplateTryCancel(k) ==
  /\ tc.pc = "idle"
  /\ k \in dirty \cap TemplateKinds \cap present \cap broken
  /\ On("templates", 1, LAMBDA r : TryCancelExpect(r, k))
  /\ tc' = IF shouldDel(ot[<<"templates", 1>>], k)
           THEN [pc |-> "remove", k |-> k] ELSE tc
  /\ UNCHANGED <<cluster, maps, tasks, cc, asking, processed>>

\* Reconcile of a deleted template: CancelTemplate only if it was ingested.
TemplateCancel(k) ==
  /\ tc.pc = "idle"
  /\ k \in (dirty \cap TemplateKinds) \ present
  /\ dirty' = dirty \ {k}
  /\ ingested' = ingested \ {k}
  /\ IF k \in ingested
     THEN /\ On("templates", 1, LAMBDA r : CancelExpect(r, k))
          /\ tc' = [pc |-> "remove", k |-> k]
     ELSE UNCHANGED <<ot, tc>>
  /\ UNCHANGED <<broken, present, synced, maps, tasks, cc, asking, processed>>

\* templateCleanup, up to the wait for Run.
CleanupRemove ==
  /\ tc.pc = "remove"
  /\ Remove(tc.k)
  /\ tc' = [tc EXCEPT !.pc = "cancel"]
  /\ UNCHANGED <<cluster, ot, tasks, cc, asking, processed>>

\* SingleRunner.Cancel, which has an effect on a key in use only.
CleanupCancel ==
  /\ tc.pc = "cancel"
  /\ run
  /\ runner' = IF tc.k \in runner.used
               THEN [runner EXCEPT !.canceled = @ \cup {tc.k}] ELSE runner
  /\ tc' = NoCleanup
  /\ UNCHANGED <<cluster, ot, maps, run, lister, cc, asking, processed>>

\* Reconcile of a mutator that the system accepts: Observe, and a retry if the
\* pod status cannot be updated after it.
MutatorObserve(x) ==
  /\ x \in dirty \cap Mutators \cap present
  /\ On(KindOf[x], 1, LAMBDA r : Observe(r, x))
  /\ dirty' \in {dirty, dirty \ {x}}
  /\ processed' = processed \cup {x}
  /\ UNCHANGED <<broken, present, ingested, synced, maps, tasks, callers, asking>>

\* Fault: a rejected mutator is only requeued.
MutatorTryCancel_NotReported(x) ==
  /\ x \in dirty \cap Mutators \cap present \cap broken
  /\ processed' = processed \cup {x}
  /\ UNCHANGED <<cluster, ot, maps, tasks, callers, asking>>

\* A mutator that is invalid, or that Upsert finds in conflict with another:
\* TryCancelExpect, and the returned error requeues the mutator.
MutatorTryCancel(x) ==
  /\ x \in dirty \cap Mutators \cap present \cap broken
  /\ On(KindOf[x], 1, LAMBDA r : TryCancelExpect(r, x))
  /\ processed' = processed \cup {x}
  /\ UNCHANGED <<cluster, maps, tasks, callers, asking>>

\* Reconcile of a deleted mutator: CancelExpect, and a retry if its pod status
\* cannot be deleted after it.
MutatorCancel(x) ==
  /\ x \in (dirty \cap Mutators) \ present
  /\ On(KindOf[x], 1, LAMBDA r : CancelExpect(r, x))
  /\ dirty' \in {dirty, dirty \ {x}}
  /\ processed' = processed \cup {x}
  /\ UNCHANGED <<broken, present, ingested, synced, maps, tasks, callers, asking>>

\* A mutator in broken may be accepted all the same, since a conflict ends with
\* the mutator it is with.  A failed read of the mutator or of its pod status
\* comes before all of this, and changes nothing but the time of the retry.
MutatorReconcile(x) == MutatorObserve(x) \/ MutatorTryCancel(x) \/ MutatorCancel(x)

-------------------------------------------------------------------------------
\* The constraint controller and the sync controller (one worker each)

NoCall == [pc |-> "idle", o |-> "", verb |-> "", handle |-> 0]

RootOf(k)  == IF k \in TemplateKinds THEN "templates" ELSE "config"

\* Reconcile reads the object; a kind that is not watched is assumed deleted.
ObjectReconcile(c, o) ==
  /\ cc[c].pc = "idle"
  /\ o \in dirty
  /\ KindOf[o] \in KindsOf(c)
  /\ dirty' = dirty \ {o}
  /\ cc' = [cc EXCEPT ![c] =
       [pc |-> "for", o |-> o, handle |-> 0,
        verb |-> CASE o \notin present \/ KindOf[o] \notin ingested -> "cancel"
                   [] o \in present \cap broken -> "try"
                   [] OTHER -> "observe"]]
  /\ UNCHANGED <<broken, present, ingested, synced, ot, maps, tasks, tc, asking, processed>>

\* Tracker.For and ForData: no tracker is created once the root tracker is
\* populated.  The check and trackerMap.Get are separate critical sections.
ForCheck(c) ==
  /\ cc[c].pc = "for"
  /\ LET k == KindOf[cc[c].o]
         populated == ot[<<RootOf(k), 1>>].populated
     IN  cc' = [cc EXCEPT ![c].pc = IF populated /\ m[k] = 0 THEN "op" ELSE "get"]
  /\ UNCHANGED <<cluster, ot, maps, tasks, tc, asking, processed>>

ForGet(c) ==
  /\ cc[c].pc = "get"
  /\ LET n == Lookup(KindOf[cc[c].o])
     IN  cc' = [cc EXCEPT ![c].pc = IF n = -1 THEN "create" ELSE "op",
                          ![c].handle = n]
  /\ UNCHANGED <<cluster, ot, maps, tasks, tc, asking, processed>>

ForCreate(c) ==
  /\ cc[c].pc = "create"
  /\ LET k == KindOf[cc[c].o]
     IN  /\ Create(k)
         /\ cc' = [cc EXCEPT ![c].pc = "op", ![c].handle = made[k] + 1]
  /\ UNCHANGED <<cluster, ot, tasks, tc, asking, processed>>

\* The call on the tracker.  A constraint that was rejected is requeued.
ObjectReport(c) ==
  /\ cc[c].pc = "op"
  /\ LET o == cc[c].o
         Op(r) == CASE cc[c].verb = "observe" -> Observe(r, o)
                    [] cc[c].verb = "cancel"  -> CancelExpect(r, o)
                    [] cc[c].verb = "try"     -> TryCancelExpect(r, o)
     IN  /\ On(KindOf[o], cc[c].handle, Op)
         /\ dirty' = IF cc[c].verb = "try" THEN dirty \cup {o} ELSE dirty
         /\ processed' = processed \cup {o}
  /\ cc' = [cc EXCEPT ![c] = NoCall]
  /\ UNCHANGED <<broken, present, ingested, synced, maps, tasks, tc, asking>>

-------------------------------------------------------------------------------
\* Tracker.Satisfied, as called by the readiness probe and by the collector

Stages == <<"mutators", "templates", "constraints", "config", "data">>

KindsFrom(root) == IF root \in Roots THEN kinds(ot[<<root, 1>>]) ELSE {}

StageTodo(i) ==
  CASE Stages[i] = "mutators"    -> MutatorKinds
    [] Stages[i] = "templates"   -> Roots \cap {"templates"}
    [] Stages[i] = "constraints" -> KindsFrom("templates")
    [] Stages[i] = "config"      -> Roots \cap {"config"}
    [] Stages[i] = "data"        -> KindsFrom("config")

\* The next call is made at once: nothing is read before the first tracker.
NextProbe == [stage |-> 1, todo |-> StageTodo(1)]

\* Satisfied of a root tracker, or Get(gvk).Satisfied() of a kind.  The probe
\* gives up at the first tracker that is not satisfied.
ProbeCheck(k) ==
  /\ ~satisfied
  /\ k \in probe.todo
  /\ LET n == Lookup(k)
     IN  IF n = -1
         THEN Create(k) /\ probe' = NextProbe /\ UNCHANGED ot
         ELSE /\ On(k, n, SatisfiedCall)
              /\ probe' = IF n = 0 \/ ot'[<<k, n>>].allSatisfied
                          THEN [probe EXCEPT !.todo = @ \ {k}] ELSE NextProbe
              /\ UNCHANGED maps
  /\ UNCHANGED <<cluster, tasks, callers, satisfied, collector, processed>>

ProbeNextStage ==
  /\ ~satisfied
  /\ probe.stage < Len(Stages)
  /\ probe.todo = {}
  /\ probe' = [stage |-> probe.stage + 1, todo |-> StageTodo(probe.stage + 1)]
  /\ UNCHANGED <<cluster, ot, maps, tasks, callers, satisfied, collector, processed>>

ProbeReady ==
  /\ ~satisfied
  /\ probe = [stage |-> Len(Stages), todo |-> {}]
  /\ satisfied' = TRUE
  /\ probe' = NextProbe
  /\ UNCHANGED <<cluster, ot, maps, tasks, callers, collector, processed>>

-------------------------------------------------------------------------------
(***************************************************************************)
(* collectInvalidExpectations, every 500ms until the tracker is satisfied. *)
(* The trackers of a round are independent of each other, so a round is    *)
(* the calls of collectForObjectTracker in any order.                      *)
(***************************************************************************)
\* Fault: the trackerMaps are left out of the round.
Collectable_RootsOnly == Roots \ MutatorKinds

Collectable == (Roots \ MutatorKinds) \cup {k \in MapKinds : Lookup(k) > 0}

\* The keys of the objects listed for the tracker's own GVK.  The expectations
\* of "config" are kinds and the listed objects are Configs: none match.
Listed(k) ==
  CASE k = "templates" -> present \cap TemplateKinds
    [] k = "config"    -> {}
    [] OTHER           -> present \cap ObjectsOf(k)

NoCollect == [pc |-> "idle", k |-> "", n |-> 0, keys |-> {}]

\* collectForObjectTracker up to and including its list call.
CollectList(k) ==
  /\ run
  /\ ~satisfied
  /\ collector.pc = "idle"
  /\ k \in Collectable
  /\ ot[<<k, Lookup(k)>>].populated
  /\ On(k, Lookup(k), SatisfiedCall)
  /\ collector' = IF ot'[<<k, Lookup(k)>>].allSatisfied THEN NoCollect
                  ELSE [pc |-> "list", k |-> k, n |-> Lookup(k), keys |-> Listed(k)]
  /\ UNCHANGED <<cluster, maps, tasks, callers, probe, satisfied, processed>>

Cancelling(gone) ==
  IF gone = {} THEN NoCollect ELSE [collector EXCEPT !.pc = "cancel", !.keys = gone]

\* The unsatisfied expectations that were not listed are to be cancelled.
CollectUnsatisfied ==
  /\ collector.pc = "list"
  /\ collector' = Cancelling(unsatisfied(ot[<<collector.k, collector.n>>]) \ collector.keys)
  /\ UNCHANGED <<cluster, ot, maps, tasks, callers, probe, satisfied, processed>>

\* Cancels one of them.  The cleanup gets ot.gvk, the GVK of ConstraintTemplate:
\* no key of the trackerMap and of the SingleRunner, so both stay as they are.
CollectCancel(x) ==
  /\ collector.pc = "cancel"
  /\ x \in collector.keys
  /\ On(collector.k, collector.n, LAMBDA r : CancelExpect(r, x))
  /\ collector' = Cancelling(collector.keys \ {x})
  /\ UNCHANGED <<cluster, maps, tasks, callers, probe, satisfied, processed>>

CollectRest == CollectUnsatisfied \/ \E x \in collector.keys : CollectCancel(x)

-------------------------------------------------------------------------------
Init ==
  /\ broken \in SUBSET Breakable
  /\ present = Keys
  /\ ingested = {}
  /\ synced = {}
  /\ dirty = {}
  /\ ot = [t \in Trackers |-> newObjTracker]
  /\ m = [k \in MapKinds |-> 0]
  /\ made = [k \in MapKinds |-> 0]
  /\ removed = {}
  /\ run = FALSE
  /\ lister = [t \in Listers |-> Goroutine("none")]
  /\ runner = [used |-> {}, canceled |-> {}, ctxDone |-> FALSE]
  /\ collector = NoCollect
  /\ tc = NoCleanup
  /\ cc = [c \in Controllers |-> NoCall]
  /\ probe = NextProbe
  /\ satisfied = FALSE
  /\ lost = FALSE
  /\ processed = {}

RootStep(t) ==
  \/ RootList(t)
  \/ RootDone(t)
  \/ \E x \in lister[t].todo :
       IF t \in MutatorKinds THEN MutatorExpect(t, x) ELSE KindExpect(t, x)
  \/ ListerGet(t)
  \/ ListerCreate(t)
  \/ ListerGo(t)
  \/ RunnerWait(t)

TaskStep(t) ==
  \/ TaskAbort(t)
  \/ TaskList(t)
  \/ \E o \in lister[t].todo : TaskExpect(t, o)
  \/ TaskDone(t)

TemplateReconcile(k) ==
  \/ TemplateObserve(k)
  \/ TemplateTryCancel(k)
  \/ TemplateCancel(k)

TemplateControllerStep ==
  \/ \E k \in TemplateKinds : TemplateReconcile(k)
  \/ CleanupRemove
  \/ CleanupCancel

ObjectControllerStep(c) ==
  \/ \E o \in Objects : ObjectReconcile(c, o)
  \/ ForCheck(c)
  \/ ForGet(c)
  \/ ForCreate(c)
  \/ ObjectReport(c)

ProbeStep ==
  \/ \E k \in probe.todo : ProbeCheck(k)
  \/ ProbeNextStage
  \/ ProbeReady

Next ==
  \/ \E x \in Keys : Delete(x)
  \/ InformersSync
  \/ ConfigSync
  \/ \E k \in DataKinds : ConfigDrop(k)
  \/ Run
  \/ \E t \in Roots : RootStep(t)
  \/ \E t \in Listers \ Roots : TaskStep(t)
  \/ TemplateControllerStep
  \/ \E x \in Mutators : MutatorReconcile(x)
  \/ \E c \in Controllers : ObjectControllerStep(c)
  \/ ProbeStep
  \/ \E k \in Roots \cup MapKinds : CollectList(k)
  \/ CollectRest

(***************************************************************************)
(* Goroutines run until they block; a list call for a kind that exists     *)
(* succeeds after finitely many retries; the work queues are first-in      *)
(* first-out, so an item is handled even while another is requeued for     *)
(* ever; the probe and the collector are called periodically.  Nothing is  *)
(* assumed of the user's deletions, and a mutator that may be rejected     *)
(* need never be accepted.                                                 *)
(***************************************************************************)
Fairness ==
  /\ WF_vars(InformersSync) /\ WF_vars(ConfigSync) /\ WF_vars(Run)
  /\ \A k \in DataKinds : WF_vars(ConfigDrop(k))
  /\ \A t \in Roots : WF_vars(RootStep(t))
  /\ \A t \in Listers \ Roots :
       /\ WF_vars(TaskAbort(t) \/ TaskDone(t)
                  \/ \E o \in lister[t].todo : TaskExpect(t, o))
       /\ WF_vars((t \in DataTasks \/ t \in present) /\ TaskList(t))
  /\ \A k \in TemplateKinds : SF_vars(TemplateReconcile(k))
  /\ WF_vars(CleanupRemove \/ CleanupCancel)
  /\ \A x \in Mutators :
       WF_vars((x \notin broken /\ MutatorObserve(x)) \/ MutatorTryCancel(x) \/ MutatorCancel(x))
  /\ \A c \in Controllers :
       /\ \A o \in Objects : SF_vars(ObjectReconcile(c, o))
       /\ WF_vars(ForCheck(c) \/ ForGet(c) \/ ForCreate(c) \/ ObjectReport(c))
  /\ WF_vars(ProbeStep)
  /\ \A k \in Roots \cup MapKinds : SF_vars(CollectList(k))
  /\ WF_vars(CollectRest)

Spec == Init /\ [][Next]_vars /\ Fairness

-------------------------------------------------------------------------------
\* The objects whose template or syncOnly entry exists and can be served.
Served == {o \in Objects \cap present : KindOf[o] \in present \ broken}

(***************************************************************************)
(* No false readiness: when the tracker reports ready, every template that *)
(* existed throughout start-up is ingested, and every constraint, synced   *)
(* object and mutator that existed throughout has been handled by its      *)
(* controller: ingested, or reported after ingestion rejected it.          *)
(***************************************************************************)
ReadySound ==
  satisfied =>
    /\ (present \cap TemplateKinds) \ broken \subseteq ingested
    /\ Served \cup (present \cap Mutators) \subseteq processed

(***************************************************************************)
(* Something that Run listed was removed before its controller first saw   *)
(* it, and nobody cancels its expectations: the kinds the config           *)
(* controller never watched, and the mutators, which are not collected.    *)
(***************************************************************************)
Orphaned ==
  \/ /\ "config" \in synced
     /\ \E k \in DataKinds : k \notin present \cup dirty \cup removed \cup ingested
  \/ /\ "informers" \in synced
     /\ \E x \in Mutators : x \notin present \cup dirty \cup processed

(***************************************************************************)
(* The pod becomes ready, whatever is deleted and whichever templates,     *)
(* constraints and mutators cannot be ingested, unless a trackerMap lost a *)
(* tracker or an expectation was orphaned.                                 *)
(***************************************************************************)
ReadyUnlessLost == <>(satisfied \/ lost \/ Orphaned)
===============================================================================
