------------------------ MODULE ReadinessTrackerProofs ------------------------
(***************************************************************************)
(* Proofs about the readiness Tracker, for any templates, constraints,     *)
(* syncOnly entries, mutators, numbers of retries and of trackers that the *)
(* trackerMaps may create: the pod is never ready too early.               *)
(*                                                                         *)
(* What the tracker promises about the constraints of a template holds     *)
(* when mutation is disabled (MutatorKinds = {}); the rest always holds.   *)
(*                                                                         *)
(* The invariant says of each tracker what it must not lose (Due) and what *)
(* it still has to wait for (Owed).  A step is Steady if every tracker     *)
(* keeps what is due after it; the lemma of an action shows that it is.    *)
(***************************************************************************)
EXTENDS ReadinessTracker, TLAPS

\* The kinds whose template or syncOnly entry exists and can be served, and
\* those of them whose objects the tracker waits for in any case.
Live == (present \cap MapKinds) \ broken

Sure == IF MutatorKinds = {} THEN MapKinds ELSE DataKinds

\* What the trackers of k may not lose, and what they still have to wait for.
Pending(k) == {o \in (ObjectsOf(k) \cap present) \ processed : k \in Live \cap Sure}

PendingMutators(k) == {x \in (Mutators \cap present) \ processed : KindOf[x] = k}

Due(k) ==
  CASE k = "templates"    -> Live \cap TemplateKinds
    [] k = "config"       -> present \cap DataKinds
    [] k \in MutatorKinds -> PendingMutators(k)
    [] OTHER              -> Pending(k)

Owed(k) ==
  CASE k = "templates" -> (Live \cap TemplateKinds) \ ingested
    [] k = "config"    -> {}
    [] OTHER           -> Due(k)

-------------------------------------------------------------------------------
\* One tracker

\* Tracker r accounts for x: x was not cancelled, is expected once r is
\* populated, and its kind is in the snapshot once r is satisfied.
Known(r, x) ==
  /\ x \notin r.canceled
  /\ r.populated /\ ~r.allSatisfied => x \in r.expect \cup r.satisfied
  /\ r.allSatisfied => KindOf[x] \in r.kindsSnapshot

\* Nobody told r of x, so r is not satisfied.
Unmet(r, x) == x \notin r.seen \cup r.satisfied /\ ~r.allSatisfied

Enlisted(r, x) == r.allSatisfied \/ x \in r.expect \cup r.satisfied

-------------------------------------------------------------------------------
\* The inductive invariant

AllKinds == Roots \cup MapKinds

PCs == {"none", "list", "expect", "get", "create", "go", "wait", "end"}
Numbers == 0..Generations
Handles == Numbers \cup {-1}  \* -1 between the two halves of trackerMap.Get

\* What a lister has to go through.
Items(t) ==
  CASE t = "templates"    -> TemplateKinds
    [] t = "config"       -> DataTasks
    [] t \in MutatorKinds -> {x \in Mutators : KindOf[x] = t}
    [] OTHER              -> ObjectsOf(TaskKind(t))

ListerInv(t) ==
  /\ lister[t].pc \in PCs
  /\ lister[t].todo \subseteq Items(t)
  /\ lister[t].handle \in Handles
  /\ lister[t].pc \in {"get", "create", "go"} =>
       t \in Roots \cap {"templates", "config"} /\ lister[t].cur \in Items(t)
  /\ lister[t].pc = "wait" => t \in Roots \ {"config"}

TypeInv ==
  /\ ot \in [Trackers -> TrackerType]
  /\ m \in [MapKinds -> Numbers]
  /\ made \in [MapKinds -> Numbers]
  /\ DOMAIN lister = Listers
  /\ \A t \in Listers : lister[t] = [pc |-> lister[t].pc, todo |-> lister[t].todo,
                                     cur |-> lister[t].cur, handle |-> lister[t].handle]
  /\ \A t \in Listers : ListerInv(t)
  /\ DOMAIN cc = Controllers
  /\ \A c \in Controllers :
       /\ cc[c] = [pc |-> cc[c].pc, o |-> cc[c].o, verb |-> cc[c].verb, handle |-> cc[c].handle]
       /\ cc[c].handle \in Handles
       /\ cc[c].pc # "idle" => cc[c].o \in Objects /\ cc[c].verb \in {"observe", "cancel", "try"}
  /\ collector = [pc |-> collector.pc, k |-> collector.k, n |-> collector.n, keys |-> collector.keys]
  /\ collector.pc # "idle" => <<collector.k, collector.n>> \in Trackers
  /\ tc = [pc |-> tc.pc, k |-> tc.k]
  /\ runner = [used |-> runner.used, canceled |-> runner.canceled, ctxDone |-> runner.ctxDone]
  /\ probe = [stage |-> probe.stage, todo |-> probe.todo]
  /\ probe.stage \in 1..5 /\ probe.todo \subseteq AllKinds

\* Nothing that exists and can be served is given up.
KeptInv ==
  /\ removed \subseteq MapKinds \ Live
  /\ dirty \cap DataKinds \cap present = {}
  /\ tc.pc # "idle" => tc.k \in MapKinds \ Live
  /\ runner.canceled \cap Live = {}

\* Without mutation the context of the runner is cancelled by the lister of
\* templates only, after the last goroutine of the runner has ended.
RunnerInv ==
  /\ ~run => \A t \in Listers : lister[t].pc = "none"
  /\ MutatorKinds = {} /\ runner.ctxDone =>
       "templates" \in Roots /\ lister["templates"].pc = "end" /\ Ended(TemplateKinds)

\* The collector listed what exists and cancels none of it.
CollectorInv ==
  /\ collector.pc \in {"idle", "list", "cancel"}
  /\ collector.pc # "idle" => collector.k \in (Roots \ MutatorKinds) \cup MapKinds
  /\ collector.pc = "list" => Listed(collector.k) \subseteq collector.keys
  /\ collector.pc = "cancel" => /\ Listed(collector.k) \cap collector.keys = {}
                                /\ collector.k # "config" /\ collector.keys \subseteq Keys

\* trackConfig observes what it expects.
Observed(r) == unsatisfied(r) = {} /\ (r.allSatisfied => r.populated)

ConfigInv == "config" \in Roots => Observed(ot[<<"config", 1>>])

TrackInv ==
  \A k \in Roots \cup MapKinds, n \in 1..Generations :
    <<k, n>> \in Trackers =>
      /\ \A x \in Due(k) : Known(ot[<<k, n>>], x)
      /\ \A x \in Owed(k) : Unmet(ot[<<k, n>>], x)

\* What a lister has not expected yet it has left to do.
Left(t) == IF t = "config" THEN {SyncOnly[e] : e \in lister[t].todo} ELSE lister[t].todo

TrackerOf(t) == IF t \in Roots THEN <<t, 1>> ELSE <<TaskKind(t), lister[t].handle>>

ListOf(t) ==
  /\ lister[t].pc \in {"expect", "get", "create", "go"} =>
       \A k \in Roots \cup MapKinds, n \in 1..Generations :
         TrackerOf(t) = <<k, n>> /\ <<k, n>> \in Trackers =>
           \A x \in Due(k) : x \in Left(t) \/ Enlisted(ot[<<k, n>>], x)
  /\ lister[t].pc \in {"get", "create", "go"} /\ TaskKind(lister[t].cur) \in Due(t) =>
       Enlisted(ot[<<t, 1>>], TaskKind(lister[t].cur))

ListInv == \A t \in Listers : ListOf(t)

\* What the probe has passed is done with.
Passed(i, k) == probe.stage > i \/ (probe.stage = i /\ k \notin probe.todo)

ProbeInv ==
  /\ \A k \in MutatorKinds : Passed(1, k) => Owed(k) = {}
  /\ "templates" \in Roots /\ Passed(2, "templates") => ot[<<"templates", 1>>].allSatisfied
  /\ \A k \in TemplateKinds : Passed(3, k) => Owed(k) = {}
  /\ "config" \in Roots /\ Passed(4, "config") => ot[<<"config", 1>>].allSatisfied
  /\ \A k \in DataKinds : Passed(5, k) => Owed(k) = {}

ReadyInv == satisfied => \A k \in Roots \cup MapKinds : Owed(k) = {}

IInv ==
  /\ TypeInv /\ KeptInv /\ RunnerInv /\ CollectorInv /\ ConfigInv
  /\ TrackInv /\ ListInv /\ ProbeInv /\ ReadyInv

-------------------------------------------------------------------------------
\* What the calls on a tracker keep

\* From r to s a tracker does not lose x.
Keeps(r, s, x) ==
  Known(r, x) => /\ Known(s, x)
                 /\ Unmet(r, x) => Unmet(s, x)
                 /\ Enlisted(r, x) => Enlisted(s, x)

LEMMA NewTracker ==
  /\ newObjTracker \in TrackerType
  /\ \A x : Known(newObjTracker, x) /\ Unmet(newObjTracker, x)
BY RetriesAssumption DEF newObjTracker, TrackerType, RetryRange, Known, Unmet

LEMMA SatisfyKeeps ==
  ASSUME NEW r \in TrackerType, NEW y \in Keys
  PROVE  /\ Satisfy(r, y) \in TrackerType
         /\ Satisfy(r, y).allSatisfied = r.allSatisfied
         /\ y \in Satisfy(r, y).satisfied
         /\ \A x : Known(r, x) => Known(Satisfy(r, y), x)
         /\ \A x : Enlisted(r, x) => Enlisted(Satisfy(r, y), x)
         /\ \A x : x # y /\ Unmet(r, x) => Unmet(Satisfy(r, y), x)
BY DEF Satisfy, TrackerType, Known, Enlisted, Unmet

LEMMA ExpectKeeps ==
  ASSUME NEW r \in TrackerType, NEW y \in Keys
  PROVE  /\ Expect(r, y, FALSE) \in TrackerType
         /\ r.allSatisfied => Expect(r, y, FALSE).allSatisfied
         /\ \A x : Keeps(r, Expect(r, y, FALSE), x)
         /\ Known(r, y) => Enlisted(Expect(r, y, FALSE), y)
<1>1. CASE ~Accepts(r, y, FALSE)
  BY <1>1 DEF Expect, Accepts, Keeps, Known, Enlisted
<1>2. CASE Accepts(r, y, FALSE) /\ y \in r.seen
  <2>1. Expect(r, y, FALSE) = Satisfy(r, y)
    BY <1>2 DEF Expect
  <2>2. \A x : Unmet(r, x) => x # y
    BY <1>2 DEF Unmet
  <2> QED
    BY <2>1, <2>2, SatisfyKeeps DEF Keeps, Enlisted
<1>3. CASE Accepts(r, y, FALSE) /\ y \notin r.seen
  <2>1. Expect(r, y, FALSE) = [r EXCEPT !.expect = @ \cup {y}]
    BY <1>3 DEF Expect
  <2> QED
    BY <2>1 DEF Keeps, Known, Unmet, Enlisted, TrackerType
<1> QED
  BY <1>1, <1>2, <1>3

LEMMA ObserveKeeps ==
  ASSUME NEW r \in TrackerType, NEW y \in Keys
  PROVE  /\ Observe(r, y) \in TrackerType
         /\ r.allSatisfied => Observe(r, y).allSatisfied
         /\ \A x : x # y => Keeps(r, Observe(r, y), x)
         /\ Known(r, y) => Known(Observe(r, y), y)
         /\ Known(r, y) /\ Enlisted(r, y) => Enlisted(Observe(r, y), y)
<1>1. CASE r.allSatisfied \/ y \in r.canceled \/ y \in r.satisfied
  BY <1>1 DEF Observe, Keeps
<1>2. CASE ~(r.allSatisfied \/ y \in r.canceled \/ y \in r.satisfied) /\ y \in r.expect
  <2>1. Observe(r, y) = Satisfy(r, y)
    BY <1>2 DEF Observe
  <2> QED
    BY <2>1, SatisfyKeeps DEF Keeps
<1>3. CASE ~(r.allSatisfied \/ y \in r.canceled \/ y \in r.satisfied) /\ y \notin r.expect
  <2>1. PICK seen \in {r.seen \ {y}, r.seen \cup {y}} : Observe(r, y) = [r EXCEPT !.seen = seen]
    BY <1>3 DEF Observe, TrackerType
  <2>2. \A x : x # y => (x \in seen <=> x \in r.seen)
    OBVIOUS
  <2> QED
    BY <2>1, <2>2 DEF Keeps, Known, Unmet, Enlisted, TrackerType
<1> QED
  BY <1>1, <1>2, <1>3

LEMMA CancelNoLockKeeps ==
  ASSUME NEW r \in TrackerType, NEW y \in Keys
  PROVE  /\ cancelExpectNoLock(r, y) \in TrackerType
         /\ cancelExpectNoLock(r, y).allSatisfied = r.allSatisfied
         /\ \A x : x # y => Keeps(r, cancelExpectNoLock(r, y), x)
<1>1. cancelExpectNoLock(r, y) \in TrackerType
  BY RetriesAssumption DEF cancelExpectNoLock, TrackerType, RetryRange
<1> QED
  BY <1>1 DEF cancelExpectNoLock, TrackerType, Keeps, Known, Unmet, Enlisted

LEMMA CancelKeeps ==
  ASSUME NEW r \in TrackerType, NEW y \in Keys
  PROVE  /\ CancelExpect(r, y) \in TrackerType
         /\ CancelExpect(r, y).allSatisfied = r.allSatisfied
         /\ \A x : x # y => Keeps(r, CancelExpect(r, y), x)
BY CancelNoLockKeeps DEF CancelExpect, Keeps

LEMMA TryCancelKeeps ==
  ASSUME NEW r \in TrackerType, NEW y \in Keys
  PROVE  /\ TryCancelExpect(r, y) \in TrackerType
         /\ TryCancelExpect(r, y).allSatisfied = r.allSatisfied
         /\ \A x : x # y => Keeps(r, TryCancelExpect(r, y), x)
<1>1. \A q \in RetryRange : decrementRetries(q) \in RetryRange
  BY RetriesAssumption DEF RetryRange, decrementRetries
<1> DEFINE s == [r EXCEPT !.tryCanceled[y] = decrementRetries(@)]
<1>2. /\ s \in TrackerType
      /\ s.allSatisfied = r.allSatisfied
      /\ \A x : Keeps(r, s, x)
  BY <1>1 DEF TrackerType, Keeps, Known, Unmet, Enlisted
<1>3. TryCancelExpect(r, y) \in {r, cancelExpectNoLock(r, y), s}
  BY DEF TryCancelExpect
<1> HIDE DEF s
<1>4. \A x : Keeps(r, r, x)
  BY DEF Keeps
<1> QED
  BY <1>2, <1>3, <1>4, CancelNoLockKeeps

\* ExpectationsDone loses nothing that was expected before.
LEMMA DoneKeeps ==
  ASSUME NEW r \in TrackerType
  PROVE  /\ ExpectationsDone(r) \in TrackerType
         /\ ExpectationsDone(r).allSatisfied = r.allSatisfied
         /\ \A x : Enlisted(r, x) => Keeps(r, ExpectationsDone(r), x)
BY DEF ExpectationsDone, TrackerType, Keeps, Known, Unmet, Enlisted

LEMMA TripKeeps ==
  ASSUME NEW r \in TrackerType, r.populated, r.expect = {}, ~r.allSatisfied
  PROVE  /\ Trip(r) \in TrackerType
         /\ Trip(r).allSatisfied
         /\ \A x : Keeps(r, Trip(r), x)
<1>1. kinds(r) \in SUBSET Kinds /\ \A x \in r.satisfied : KindOf[x] \in kinds(r)
  BY DEF kinds, Kinds, TrackerType
<1>2. [k \in Keys |-> Retries] \in [Keys -> RetryRange]
  BY DEF RetryRange
<1>3. Trip(r) \in TrackerType
  BY <1>1, <1>2 DEF Trip, TrackerType
<1>4. /\ Trip(r).allSatisfied = TRUE
      /\ Trip(r).canceled = {}
      /\ Trip(r).kindsSnapshot = kinds(r)
  BY DEF Trip, TrackerType
<1> QED
  BY <1>1, <1>3, <1>4 DEF Keeps, Known, Unmet, Enlisted

LEMMA SatisfiedKeeps ==
  ASSUME NEW r \in TrackerType
  PROVE  /\ SatisfiedCall(r) \in TrackerType
         /\ r.allSatisfied => SatisfiedCall(r).allSatisfied
         /\ \A x : Keeps(r, SatisfiedCall(r), x)
<1> DEFINE s == ResolveSeen(r)
<1>1. ~r.allSatisfied => /\ s \in TrackerType
                         /\ s.allSatisfied = r.allSatisfied /\ s.populated = r.populated
                         /\ \A x : Keeps(r, s, x)
  BY DEF ResolveSeen, TrackerType, Keeps, Known, Unmet, Enlisted
<1>2. CASE ~needMutate(r)
  BY <1>2 DEF SatisfiedCall, Keeps
<1>3. CASE needMutate(r) /\ s.expect = {}
  <2>1. s.populated /\ ~s.allSatisfied /\ ~r.allSatisfied
    BY <1>1, <1>3 DEF needMutate
  <2>2. SatisfiedCall(r) = Trip(s)
    BY <1>3, <2>1 DEF SatisfiedCall, Resolve
  <2> HIDE DEF s
  <2> QED
    BY <1>1, <1>3, <2>1, <2>2, TripKeeps DEF Keeps
<1>4. CASE needMutate(r) /\ s.expect # {}
  <2>1. SatisfiedCall(r) = s /\ ~r.allSatisfied
    BY <1>4 DEF SatisfiedCall, Resolve, needMutate
  <2> HIDE DEF s
  <2> QED
    BY <1>1, <2>1
<1> QED
  BY <1>2, <1>3, <1>4

-------------------------------------------------------------------------------
\* A step that does not disturb the invariant

\* The step adds nothing to what the trackers must know and wait for.
Shrinks == \A k \in AllKinds : Due(k)' \subseteq Due(k) /\ Owed(k)' \subseteq Owed(k)

\* A tracker r may become s.
Fair(k, r, s) ==
  /\ s \in TrackerType
  /\ r.allSatisfied => s.allSatisfied
  /\ \A x \in Due(k)' : Known(s, x) /\ (Enlisted(r, x) => Enlisted(s, x))
  /\ \A x \in Owed(k)' : Unmet(s, x)
  /\ k = "config" => Observed(s)

Steady ==
  /\ DOMAIN ot' = Trackers /\ ot' = [t \in Trackers |-> ot'[t]]
  /\ \A k \in AllKinds, n \in 1..Generations :
       <<k, n>> \in Trackers => Fair(k, ot[<<k, n>>], ot'[<<k, n>>])

LEMMA Disjointness ==
  /\ Disjoint(MapKinds, Roots \cup {"templates", "config"}) /\ Disjoint(TemplateKinds, DataKinds)
  /\ "templates" \notin MutatorKinds /\ "config" \notin MutatorKinds
  /\ MutatorKinds \subseteq Roots /\ Roots \subseteq MutatorKinds \cup {"templates", "config"}
  /\ TemplateKinds \subseteq MapKinds /\ DataKinds \subseteq MapKinds
  /\ MapKinds \subseteq Keys /\ Objects \subseteq Keys /\ Mutators \subseteq Keys
  /\ TemplateKinds # {} => "templates" \in Roots
  /\ DataKinds # {} => "config" \in Roots
  /\ Generations \in Nat /\ 1 \in 1..Generations
BY TrackerAssumption DEF Disjoint, MutatorKinds, MapKinds

LEMMA TrackersAre ==
  /\ \A k \in Roots : <<k, 1>> \in Trackers
  /\ \A k \in MapKinds, n \in 1..Generations : <<k, n>> \in Trackers
  /\ \A t \in Trackers : \E k \in AllKinds, n \in 1..Generations : t = <<k, n>>
  /\ \A k \in Roots : \A n : <<k, n>> \in Trackers => n = 1
BY Disjointness DEF Trackers, AllKinds, Disjoint

\* What is due is a key, of the kind it is due for.
LEMMA DueAre ==
  /\ \A k \in AllKinds : Due(k) \subseteq Keys /\ Owed(k) \subseteq Due(k)
  /\ "templates" \in Roots => /\ Due("templates") = Live \cap TemplateKinds
                              /\ Owed("templates") = (Live \cap TemplateKinds) \ ingested
  /\ "config" \in Roots => Due("config") = present \cap DataKinds /\ Owed("config") = {}
  /\ \A k \in MutatorKinds : Due(k) = PendingMutators(k) /\ Owed(k) = PendingMutators(k)
  /\ \A k \in MapKinds : Due(k) = Pending(k) /\ Owed(k) = Pending(k)
<1>1. \A k \in MutatorKinds : k # "templates" /\ k # "config"
  BY Disjointness
<1>2. \A k \in MapKinds : k \notin Roots /\ k \notin MutatorKinds
  BY Disjointness DEF Disjoint
<1>3. \A k \in MapKinds : k # "templates" /\ k # "config"
  BY Disjointness DEF Disjoint
<1>4. \A k \in AllKinds : Owed(k) \subseteq Due(k)
  <2> SUFFICES ASSUME NEW k \in AllKinds PROVE Owed(k) \subseteq Due(k)
    OBVIOUS
  <2>1. CASE k = "templates"
    <3>1. Owed(k) = (Live \cap TemplateKinds) \ ingested /\ Due(k) = Live \cap TemplateKinds
      BY <2>1, <1>1, Zenon DEF Owed, Due
    <3> QED
      BY <3>1
  <2>2. CASE k = "config"
    BY <2>2 DEF Owed
  <2>3. CASE k # "templates" /\ k # "config"
    BY <2>3 DEF Owed
  <2> QED
    BY <2>1, <2>2, <2>3
<1>5. \A k \in AllKinds : Due(k) \subseteq Keys
  BY Disjointness DEF Due, Pending, PendingMutators, ObjectsOf
<1> QED
  BY <1>1, <1>2, <1>3, <1>4, <1>5 DEF Due, Owed

\* What DueAre says, as a formula.
DueForm ==
  /\ \A k \in AllKinds : Due(k) \subseteq Keys /\ Owed(k) \subseteq Due(k)
  /\ "templates" \in Roots => /\ Due("templates") = Live \cap TemplateKinds
                              /\ Owed("templates") = (Live \cap TemplateKinds) \ ingested
  /\ "config" \in Roots => Due("config") = present \cap DataKinds /\ Owed("config") = {}
  /\ \A k \in MutatorKinds : Due(k) = PendingMutators(k) /\ Owed(k) = PendingMutators(k)
  /\ \A k \in MapKinds : Due(k) = Pending(k) /\ Owed(k) = Pending(k)

LEMMA DueFormNext == DueForm /\ DueForm'
<1>1. DueForm
  BY DueAre DEF DueForm
<1> QED
  BY <1>1, PTL

LEMMA ShrinkIf ==
  ASSUME UNCHANGED broken, present' \subseteq present, processed \subseteq processed',
         \A k \in TemplateKinds \cap present' : k \in ingested => k \in ingested'
  PROVE  Shrinks
<1>1. Live' \subseteq Live
  BY DEF Live
<1>2. \A k \in MapKinds : Pending(k)' \subseteq Pending(k)
  BY <1>1 DEF Pending
<1>3. \A k \in MutatorKinds : PendingMutators(k)' \subseteq PendingMutators(k)
  BY DEF PendingMutators
<1>4. SUFFICES ASSUME NEW k \in AllKinds PROVE Due(k)' \subseteq Due(k) /\ Owed(k)' \subseteq Owed(k)
  BY DEF Shrinks
<1>5. CASE k = "templates" /\ k \in Roots
  <2>1. ((Live \cap TemplateKinds) \ ingested)' \subseteq (Live \cap TemplateKinds) \ ingested
    BY <1>1 DEF Live
  <2> QED
    BY <1>1, <1>5, <2>1, DueFormNext DEF DueForm
<1>6. CASE k = "config" /\ k \in Roots
  BY <1>6, DueFormNext DEF DueForm
<1>7. CASE k \in MutatorKinds
  BY <1>3, <1>7, DueFormNext DEF DueForm
<1>8. CASE k \in MapKinds
  BY <1>2, <1>8, DueFormNext DEF DueForm
<1> QED
  BY <1>5, <1>6, <1>7, <1>8, Disjointness DEF AllKinds

\* No tracker changes.
LEMMA SteadyIfSame ==
  ASSUME IInv, Shrinks, UNCHANGED ot
  PROVE  Steady
<1>1. ot \in [Trackers -> TrackerType] /\ TrackInv /\ ConfigInv
  BY DEF IInv, TypeInv
<1>2. ASSUME NEW k \in AllKinds, NEW n \in 1..Generations, <<k, n>> \in Trackers
      PROVE  Fair(k, ot[<<k, n>>], ot[<<k, n>>])
  <2>1. ot[<<k, n>>] \in TrackerType
    BY <1>1, <1>2
  <2>2. /\ \A x \in Due(k)' : Known(ot[<<k, n>>], x)
        /\ \A x \in Owed(k)' : Unmet(ot[<<k, n>>], x)
    BY <1>1, <1>2 DEF TrackInv, Shrinks, AllKinds
  <2>3. k = "config" => Observed(ot[<<k, n>>])
    <3>1. k = "config" => k \in Roots
      BY Disjointness DEF AllKinds, Disjoint
    <3> QED
      BY <1>1, <1>2, <3>1, TrackersAre DEF ConfigInv
  <2> QED
    BY <2>1, <2>2, <2>3 DEF Fair
<1> QED
  BY <1>1, <1>2 DEF Steady

\* One tracker changes.
LEMMA SteadyIfOne ==
  ASSUME IInv, Shrinks, NEW k \in AllKinds, NEW n \in 1..Generations, <<k, n>> \in Trackers, NEW s,
         ot' = [ot EXCEPT ![<<k, n>>] = s], Fair(k, ot[<<k, n>>], s)
  PROVE  Steady
<1>1. ot \in [Trackers -> TrackerType] /\ TrackInv /\ ConfigInv
  BY DEF IInv, TypeInv
<1>2. ASSUME NEW l \in AllKinds, NEW i \in 1..Generations, <<l, i>> \in Trackers
      PROVE  Fair(l, ot[<<l, i>>], ot'[<<l, i>>])
  <2>1. CASE l = k /\ i = n
    BY <1>1, <2>1
  <2>2. CASE ~(l = k /\ i = n)
    <3>1. ot'[<<l, i>>] = ot[<<l, i>>]
      BY <1>1, <1>2, <2>2
    <3>2. ot[<<l, i>>] \in TrackerType
      BY <1>1, <1>2
    <3>3. /\ \A x \in Due(l)' : Known(ot[<<l, i>>], x)
          /\ \A x \in Owed(l)' : Unmet(ot[<<l, i>>], x)
      BY <1>1, <1>2 DEF TrackInv, Shrinks, AllKinds
    <3>4. l = "config" => Observed(ot[<<l, i>>])
      <4>1. l = "config" => l \in Roots
        BY Disjointness DEF AllKinds, Disjoint
      <4> QED
        BY <1>1, <1>2, <4>1, TrackersAre DEF ConfigInv
    <3> QED
      BY <3>1, <3>2, <3>3, <3>4 DEF Fair
  <2> QED
    BY <2>1, <2>2
<1> QED
  BY <1>1, <1>2 DEF Steady

\* What follows of the invariant when the trackers are steady.
LEMMA SteadyTrackers ==
  ASSUME IInv, Steady
  PROVE  ot' \in [Trackers -> TrackerType] /\ TrackInv' /\ ConfigInv'
<1>1. ASSUME NEW k \in AllKinds, NEW n \in 1..Generations, <<k, n>> \in Trackers
      PROVE  Fair(k, ot[<<k, n>>], ot'[<<k, n>>])
  BY <1>1 DEF Steady
<1>2. ot' \in [Trackers -> TrackerType]
  <2>1. \A t \in Trackers : ot'[t] \in TrackerType
    BY <1>1, TrackersAre DEF Fair
  <2> QED
    BY <2>1 DEF Steady
<1>3. TrackInv'
  BY <1>1 DEF TrackInv, AllKinds, Fair
<1>4. ConfigInv'
  <2>1. "config" \in Roots => Fair("config", ot[<<"config", 1>>], ot'[<<"config", 1>>])
    BY <1>1, TrackersAre, Disjointness DEF AllKinds
  <2> QED
    BY <2>1 DEF ConfigInv, Fair
<1> QED
  BY <1>2, <1>3, <1>4

LEMMA SteadyListOf ==
  ASSUME IInv, Shrinks, Steady, NEW t \in Listers, lister'[t] = lister[t]
  PROVE  ListOf(t)'
<1>1. ListOf(t)
  BY DEF IInv, ListInv
<1>2. TrackerOf(t)' = TrackerOf(t) /\ Left(t)' = Left(t)
  BY DEF TrackerOf, Left
<1>3. ASSUME NEW k \in AllKinds, NEW n \in 1..Generations, <<k, n>> \in Trackers,
             lister[t].pc \in {"expect", "get", "create", "go"}, TrackerOf(t) = <<k, n>>, NEW x \in Due(k)'
      PROVE  x \in Left(t) \/ Enlisted(ot'[<<k, n>>], x)
  <2>1. x \in Due(k)
    BY <1>3 DEF Shrinks
  <2>2. x \in Left(t) \/ Enlisted(ot[<<k, n>>], x)
    BY <1>1, <1>3, <2>1 DEF ListOf, AllKinds
  <2>3. Fair(k, ot[<<k, n>>], ot'[<<k, n>>])
    BY <1>3 DEF Steady
  <2> QED
    BY <1>3, <2>2, <2>3 DEF Fair
<1>4. ASSUME lister[t].pc \in {"get", "create", "go"}, TaskKind(lister[t].cur) \in Due(t)'
      PROVE  Enlisted(ot'[<<t, 1>>], TaskKind(lister[t].cur))
  <2>1. t \in Roots
    BY <1>4 DEF IInv, TypeInv, ListerInv
  <2>2. Enlisted(ot[<<t, 1>>], TaskKind(lister[t].cur))
    BY <1>1, <1>4, <2>1 DEF ListOf, Shrinks, AllKinds
  <2>3. Fair(t, ot[<<t, 1>>], ot'[<<t, 1>>])
    BY <2>1, TrackersAre, Disjointness DEF Steady, AllKinds
  <2> QED
    BY <1>4, <2>2, <2>3 DEF Fair
<1> QED
  BY <1>2, <1>3, <1>4 DEF ListOf, Enlisted, AllKinds

LEMMA SteadyProbe ==
  ASSUME IInv, Shrinks, Steady, UNCHANGED probe
  PROVE  ProbeInv'
<1>1. \A k \in AllKinds : Owed(k) = {} => Owed(k)' = {}
  BY DEF Shrinks
<1>2. \A k \in Roots : ot[<<k, 1>>].allSatisfied => ot'[<<k, 1>>].allSatisfied
  BY TrackersAre, Disjointness DEF Steady, Fair, AllKinds
<1>3. ProbeInv /\ \A i, k : Passed(i, k)' <=> Passed(i, k)
  BY DEF IInv, Passed
<1> QED
  BY <1>1, <1>2, <1>3, Disjointness DEF ProbeInv, AllKinds

LEMMA SteadyReady ==
  ASSUME IInv, Shrinks, UNCHANGED satisfied
  PROVE  ReadyInv'
BY DEF IInv, ReadyInv, Shrinks, AllKinds

LEMMA CollectorStays ==
  ASSUME IInv, present' \subseteq present, UNCHANGED collector
  PROVE  CollectorInv'
<1>1. \A k : Listed(k)' \subseteq Listed(k)
  BY DEF Listed
<1> QED
  BY <1>1 DEF IInv, CollectorInv

LEMMA RunnerStays ==
  ASSUME IInv, UNCHANGED <<run, lister>>, runner'.ctxDone = runner.ctxDone
  PROVE  RunnerInv'
BY DEF IInv, RunnerInv, Ended

\* A call on a tracker of k that does not lose what is due.
LEMMA FairIf ==
  ASSUME IInv, Shrinks, NEW k \in AllKinds, NEW n \in 1..Generations, <<k, n>> \in Trackers,
         NEW s \in TrackerType,
         ot[<<k, n>>].allSatisfied => s.allSatisfied,
         \A x \in Due(k)' : \/ Keeps(ot[<<k, n>>], s, x)
                            \/ /\ x \notin Owed(k)'
                               /\ Known(ot[<<k, n>>], x) => Known(s, x)
                               /\ Known(ot[<<k, n>>], x) /\ Enlisted(ot[<<k, n>>], x) => Enlisted(s, x),
         k = "config" => Observed(s)
  PROVE  Fair(k, ot[<<k, n>>], s)
<1>1. /\ \A x \in Due(k)' : Known(ot[<<k, n>>], x)
      /\ \A x \in Owed(k)' : Unmet(ot[<<k, n>>], x)
  BY DEF IInv, TrackInv, Shrinks, AllKinds
<1>2. Owed(k)' \subseteq Due(k)'
  BY DueFormNext DEF DueForm
<1> QED
  BY <1>1, <1>2 DEF Fair, Keeps

LEMMA OnSteady ==
  ASSUME IInv, Shrinks, NEW k \in AllKinds, NEW n \in Handles, NEW s,
         ot' = IF n = 0 THEN ot ELSE [ot EXCEPT ![<<k, n>>] = s],
         n \in 1..Generations /\ <<k, n>> \in Trackers => Fair(k, ot[<<k, n>>], s)
  PROVE  Steady
<1>0. ot \in [Trackers -> TrackerType]
  BY DEF IInv, TypeInv
<1>1. CASE n \in 1..Generations /\ <<k, n>> \in Trackers
  <2>1. n # 0
    BY <1>1
  <2> QED
    BY <1>1, <2>1, SteadyIfOne
<1>2. CASE ~(n \in 1..Generations /\ <<k, n>> \in Trackers)
  <2>1. n \notin 1..Generations => n = 0 \/ n = -1
    BY Disjointness DEF Handles, Numbers
  <2>2. <<k, -1>> \notin Trackers
    BY Disjointness DEF Trackers
  <2>3. ot' = ot
    <3>1. CASE n = 0
      BY <3>1
    <3>2. CASE n # 0
      BY <1>0, <1>2, <2>1, <2>2, <3>2
    <3> QED
      BY <3>1, <3>2
  <2> QED
    BY <2>3, SteadyIfSame
<1> QED
  BY <1>1, <1>2

\* A step of neither a lister, nor the probe, nor the collector.
LEMMA Outside ==
  ASSUME IInv, Shrinks, Steady, present' \subseteq present,
         UNCHANGED <<run, lister, collector, probe, satisfied>>, runner'.ctxDone = runner.ctxDone
  PROVE  /\ ot' \in [Trackers -> TrackerType]
         /\ RunnerInv' /\ CollectorInv' /\ ConfigInv' /\ TrackInv' /\ ListInv' /\ ProbeInv' /\ ReadyInv'
<1>1. ListInv'
  BY SteadyListOf DEF ListInv
<1> QED
  BY <1>1, SteadyTrackers, RunnerStays, CollectorStays, SteadyProbe, SteadyReady

\* The types of what a step leaves alone.
MapsType == m \in [MapKinds -> Numbers] /\ made \in [MapKinds -> Numbers]

ListerType ==
  /\ DOMAIN lister = Listers
  /\ \A t \in Listers : lister[t] = [pc |-> lister[t].pc, todo |-> lister[t].todo,
                                     cur |-> lister[t].cur, handle |-> lister[t].handle]
  /\ \A t \in Listers : ListerInv(t)

CallType ==
  /\ DOMAIN cc = Controllers
  /\ \A c \in Controllers :
       /\ cc[c] = [pc |-> cc[c].pc, o |-> cc[c].o, verb |-> cc[c].verb, handle |-> cc[c].handle]
       /\ cc[c].handle \in Handles
       /\ cc[c].pc # "idle" => cc[c].o \in Objects /\ cc[c].verb \in {"observe", "cancel", "try"}

RestType ==
  /\ collector = [pc |-> collector.pc, k |-> collector.k, n |-> collector.n, keys |-> collector.keys]
  /\ collector.pc # "idle" => <<collector.k, collector.n>> \in Trackers
  /\ tc = [pc |-> tc.pc, k |-> tc.k]
  /\ runner = [used |-> runner.used, canceled |-> runner.canceled, ctxDone |-> runner.ctxDone]
  /\ probe = [stage |-> probe.stage, todo |-> probe.todo]
  /\ probe.stage \in 1..5 /\ probe.todo \subseteq AllKinds

LEMMA TypeParts ==
  TypeInv <=> ot \in [Trackers -> TrackerType] /\ MapsType /\ ListerType /\ CallType /\ RestType
BY DEF TypeInv, MapsType, ListerType, CallType, RestType

LEMMA TypePartsNext ==
  TypeInv' <=> ot' \in [Trackers -> TrackerType] /\ MapsType' /\ ListerType' /\ CallType' /\ RestType'
BY DEF TypeInv, MapsType, ListerType, CallType, RestType

LEMMA TypesStay ==
  ASSUME IInv
  PROVE  /\ UNCHANGED <<m, made>> => MapsType'
         /\ UNCHANGED lister => ListerType'
         /\ UNCHANGED cc => CallType'
         /\ UNCHANGED <<collector, tc, runner, probe>> => RestType'
         /\ MapsType /\ ListerType /\ CallType /\ RestType
BY TypeParts DEF IInv, MapsType, ListerType, ListerInv, CallType, RestType

LEMMA KeptStays ==
  ASSUME IInv, UNCHANGED broken, present' \subseteq present,
         removed' \subseteq removed \cup (MapKinds \ Live),
         dirty' \cap DataKinds \cap present' \subseteq dirty,
         tc'.pc # "idle" => tc'.k \in MapKinds \ Live \/ (tc'.k = tc.k /\ tc.pc # "idle"),
         runner'.canceled \cap Live \subseteq runner.canceled
  PROVE  KeptInv'
<1>1. Live' \subseteq Live
  BY DEF Live
<1> QED
  BY <1>1 DEF IInv, KeptInv

-------------------------------------------------------------------------------
\* The user, the informers and the Config

LEMMA DeleteStep ==
  ASSUME IInv, NEW x \in Keys, Delete(x)
  PROVE  IInv'
<1>1. /\ present' = present \ {x}
      /\ dirty' \subseteq dirty \cup {x}
      /\ UNCHANGED <<broken, ingested, synced, ot, maps, tasks, callers, asking, processed>>
  BY DEF Delete
<1> USE <1>1
<1>2. Shrinks
  BY ShrinkIf
<1>3. Steady
  BY <1>2, SteadyIfSame
<1>4. TypeInv'
  BY TypesStay, TypePartsNext, <1>2, <1>3, Outside DEF maps, tasks, callers, asking
<1>5. KeptInv'
  BY KeptStays DEF maps, tasks, callers
<1> QED
  BY <1>2, <1>3, <1>4, <1>5, Outside DEF IInv, tasks, asking

LEMMA InformersSyncStep ==
  ASSUME IInv, InformersSync
  PROVE  IInv'
<1>1. /\ dirty' = dirty \cup (present \cap (TemplateKinds \cup Mutators))
      /\ UNCHANGED <<broken, present, ingested, ot, maps, tasks, callers, asking, processed>>
  BY DEF InformersSync
<1> USE <1>1
<1>2. Shrinks
  BY ShrinkIf
<1>3. Steady
  BY <1>2, SteadyIfSame
<1>4. TypeInv'
  BY TypesStay, TypePartsNext, <1>2, <1>3, Outside DEF maps, tasks, callers, asking
<1>5. dirty' \cap DataKinds \subseteq dirty
  BY TrackerAssumption DEF Disjoint, MapKinds
<1>6. KeptInv'
  BY <1>5, KeptStays DEF maps, tasks, callers
<1> QED
  BY <1>2, <1>3, <1>4, <1>6, Outside DEF IInv, tasks, asking

LEMMA ConfigSyncStep ==
  ASSUME IInv, ConfigSync
  PROVE  IInv'
<1>1. /\ ingested \subseteq ingested'
      /\ dirty' \subseteq dirty \cup Objects
      /\ UNCHANGED <<broken, present, ot, maps, tasks, callers, asking, processed>>
  BY DEF ConfigSync
<1> USE <1>1
<1>2. Shrinks
  BY ShrinkIf
<1>3. Steady
  BY <1>2, SteadyIfSame
<1>4. TypeInv'
  BY TypesStay, TypePartsNext, <1>2, <1>3, Outside DEF maps, tasks, callers, asking
<1>5. dirty' \cap DataKinds \subseteq dirty
  BY TrackerAssumption DEF Disjoint, MapKinds
<1>6. KeptInv'
  BY <1>5, KeptStays DEF maps, tasks, callers
<1> QED
  BY <1>2, <1>3, <1>4, <1>6, Outside DEF IInv, tasks, asking

LEMMA RemoveType ==
  ASSUME IInv, NEW k, Remove(k)
  PROVE  MapsType'
<1>1. 0 \in Numbers
  BY Disjointness DEF Numbers
<1> QED
  BY <1>1, TypesStay DEF MapsType, Remove

LEMMA CreateType ==
  ASSUME IInv, NEW k, Create(k)
  PROVE  MapsType'
<1>1. k \in MapKinds => made[k] + 1 \in Numbers
  BY TypesStay, Disjointness DEF Numbers, MapsType, Create
<1> QED
  BY <1>1, TypesStay DEF MapsType, Create

LEMMA ConfigDropStep ==
  ASSUME IInv, NEW k \in DataKinds, ConfigDrop(k)
  PROVE  IInv'
<1>1. /\ k \in dirty /\ dirty' = dirty \ {k}
      /\ ingested' = ingested \ {k}
      /\ Remove(k)
      /\ UNCHANGED <<broken, present, synced, ot, tasks, callers, asking, processed>>
  BY DEF ConfigDrop
<1>2. k \notin present
  BY <1>1 DEF IInv, KeptInv
<1>3. Shrinks
  BY <1>1, <1>2, ShrinkIf
<1>4. Steady
  BY <1>1, <1>3, SteadyIfSame
<1>5. TypeInv'
  BY <1>1, <1>3, <1>4, TypesStay, RemoveType, TypePartsNext, Outside DEF tasks, callers, asking
<1>6. removed' \subseteq removed \cup (MapKinds \ Live)
  BY <1>1, <1>2, Disjointness DEF Remove, Live
<1>7. KeptInv'
  BY <1>1, <1>6, KeptStays DEF tasks, callers
<1> QED
  BY <1>1, <1>3, <1>4, <1>5, <1>7, Outside DEF IInv, tasks, asking

-------------------------------------------------------------------------------
\* The template controller

LEMMA TemplateObserveStep ==
  ASSUME IInv, NEW k \in TemplateKinds, TemplateObserve(k)
  PROVE  IInv'
<1>1. /\ On("templates", 1, LAMBDA r : Observe(r, k))
      /\ ingested' = ingested \cup {k}
      /\ dirty' \subseteq dirty \cup Objects
      /\ UNCHANGED <<broken, present, synced, maps, tasks, callers, asking, processed>>
  BY DEF TemplateObserve, ObjectsOf
<1>2. Shrinks
  BY <1>1, ShrinkIf
<1>3. Steady
  <2>1. "templates" \in Roots /\ <<"templates", 1>> \in Trackers /\ k \in Keys /\ 1 \in Handles /\ 1 \in 1..Generations
    BY Disjointness, TrackersAre DEF Handles, Numbers
  <2> DEFINE s == Observe(ot[<<"templates", 1>>], k)
  <2>2. ot[<<"templates", 1>>] \in TrackerType
    BY <2>1 DEF IInv, TypeInv
  <2>3. k \notin Owed("templates")'
    BY <1>1, <2>1, DueFormNext DEF DueForm
  <2>4. Fair("templates", ot[<<"templates", 1>>], s)
    BY <1>2, <2>1, <2>2, <2>3, ObserveKeeps, FairIf DEF AllKinds
  <2>5. ot' = IF 1 = 0 THEN ot ELSE [ot EXCEPT ![<<"templates", 1>>] = s]
    BY <1>1 DEF On
  <2> HIDE DEF s
  <2> QED
    BY <1>2, <2>1, <2>4, <2>5, OnSteady DEF AllKinds
<1>4. TypeInv'
  BY <1>1, <1>2, <1>3, TypesStay, TypePartsNext, Outside DEF maps, tasks, callers, asking
<1>5. dirty' \cap DataKinds \subseteq dirty
  BY <1>1, TrackerAssumption DEF Disjoint, MapKinds
<1>6. KeptInv'
  BY <1>1, <1>5, KeptStays DEF maps, tasks, callers
<1> QED
  BY <1>1, <1>2, <1>3, <1>4, <1>6, Outside DEF IInv, tasks, asking

\* A call that cancels a template which does not exist or does not compile.
LEMMA TemplateGone ==
  ASSUME IInv, Shrinks, NEW k \in TemplateKinds, k \notin Live', NEW s,
         s = TryCancelExpect(ot[<<"templates", 1>>], k) \/ s = CancelExpect(ot[<<"templates", 1>>], k),
         ot' = IF 1 = 0 THEN ot ELSE [ot EXCEPT ![<<"templates", 1>>] = s]
  PROVE  Steady
<1>1. "templates" \in Roots /\ <<"templates", 1>> \in Trackers /\ k \in Keys /\ 1 \in Handles /\ 1 \in 1..Generations
  BY Disjointness, TrackersAre DEF Handles, Numbers
<1>2. ot[<<"templates", 1>>] \in TrackerType
  BY <1>1 DEF IInv, TypeInv
<1>3. k \notin Due("templates")'
  BY <1>1, DueFormNext DEF DueForm
<1>4. /\ s \in TrackerType
      /\ s.allSatisfied = ot[<<"templates", 1>>].allSatisfied
      /\ \A x : x # k => Keeps(ot[<<"templates", 1>>], s, x)
  BY <1>1, <1>2, CancelKeeps, TryCancelKeeps
<1>5. Fair("templates", ot[<<"templates", 1>>], s)
  BY <1>1, <1>3, <1>4, FairIf DEF AllKinds
<1> QED
  BY <1>1, <1>5, OnSteady DEF AllKinds

LEMMA TemplateTryCancelStep ==
  ASSUME IInv, NEW k \in TemplateKinds, TemplateTryCancel(k)
  PROVE  IInv'
<1>1. /\ k \in broken
      /\ On("templates", 1, LAMBDA r : TryCancelExpect(r, k))
      /\ tc' = tc \/ tc' = [pc |-> "remove", k |-> k]
      /\ UNCHANGED <<cluster, maps, tasks, cc, asking, processed>>
  BY DEF TemplateTryCancel
<1>2. k \in MapKinds \ Live /\ k \notin Live'
  BY <1>1, Disjointness DEF Live, cluster
<1>3. Shrinks
  BY <1>1, ShrinkIf DEF cluster
<1>4. Steady
  BY <1>1, <1>2, <1>3, TemplateGone DEF On
<1>5. RestType'
  BY <1>1, TypesStay DEF RestType, tasks, asking
<1>6. TypeInv'
  BY <1>1, <1>3, <1>4, <1>5, TypesStay, TypePartsNext, Outside DEF cluster, maps, tasks, asking
<1>7. KeptInv'
  BY <1>1, <1>2, KeptStays DEF cluster, maps, tasks
<1> QED
  BY <1>1, <1>3, <1>4, <1>6, <1>7, Outside DEF IInv, cluster, tasks, asking

LEMMA TemplateCancelStep ==
  ASSUME IInv, NEW k \in TemplateKinds, TemplateCancel(k)
  PROVE  IInv'
<1>1. /\ k \notin present
      /\ dirty' = dirty \ {k}
      /\ ingested' = ingested \ {k}
      /\ \/ On("templates", 1, LAMBDA r : CancelExpect(r, k)) /\ tc' = [pc |-> "remove", k |-> k]
         \/ UNCHANGED <<ot, tc>>
      /\ UNCHANGED <<broken, present, synced, maps, tasks, cc, asking, processed>>
  BY DEF TemplateCancel
<1>2. k \in MapKinds \ Live /\ k \notin Live'
  BY <1>1, Disjointness DEF Live
<1>3. Shrinks
  BY <1>1, ShrinkIf
<1>4. Steady
  BY <1>1, <1>2, <1>3, TemplateGone, SteadyIfSame DEF On
<1>5. RestType'
  BY <1>1, TypesStay DEF RestType, tasks, asking
<1>6. TypeInv'
  BY <1>1, <1>3, <1>4, <1>5, TypesStay, TypePartsNext, Outside DEF maps, tasks, asking
<1>7. KeptInv'
  BY <1>1, <1>2, KeptStays DEF maps, tasks
<1> QED
  BY <1>1, <1>3, <1>4, <1>6, <1>7, Outside DEF IInv, tasks, asking

LEMMA CleanupRemoveStep ==
  ASSUME IInv, CleanupRemove
  PROVE  IInv'
<1>1. /\ tc.pc = "remove"
      /\ Remove(tc.k)
      /\ tc' = [tc EXCEPT !.pc = "cancel"]
      /\ UNCHANGED <<cluster, ot, tasks, cc, asking, processed>>
  BY DEF CleanupRemove
<1>2. tc.k \in MapKinds \ Live
  BY <1>1 DEF IInv, KeptInv
<1>3. Shrinks
  BY <1>1, ShrinkIf DEF cluster
<1>4. Steady
  BY <1>1, <1>3, SteadyIfSame
<1>5. RestType' /\ tc'.k = tc.k
  BY <1>1, TypesStay DEF RestType, tasks, asking
<1>6. TypeInv'
  BY <1>1, <1>3, <1>4, <1>5, TypesStay, RemoveType, TypePartsNext, Outside DEF cluster, tasks, asking
<1>7. KeptInv'
  <2>1. removed' \subseteq removed \cup (MapKinds \ Live)
    BY <1>1, <1>2 DEF Remove
  <2> QED
    BY <1>1, <1>2, <1>5, <2>1, KeptStays DEF cluster, tasks
<1> QED
  BY <1>1, <1>3, <1>4, <1>6, <1>7, Outside DEF IInv, cluster, tasks, asking

LEMMA CleanupCancelStep ==
  ASSUME IInv, CleanupCancel
  PROVE  IInv'
<1>1. /\ tc.pc = "cancel"
      /\ runner' = runner \/ runner' = [runner EXCEPT !.canceled = @ \cup {tc.k}]
      /\ tc' = NoCleanup
      /\ UNCHANGED <<cluster, ot, maps, run, lister, cc, asking, processed>>
  BY DEF CleanupCancel
<1>2. tc.k \in MapKinds \ Live
  BY <1>1 DEF IInv, KeptInv
<1>3. Shrinks
  BY <1>1, ShrinkIf DEF cluster
<1>4. Steady
  BY <1>1, <1>3, SteadyIfSame
<1>5. RestType'
  BY <1>1, TypesStay DEF RestType, asking, NoCleanup
<1>6. runner'.ctxDone = runner.ctxDone /\ runner'.canceled \subseteq runner.canceled \cup {tc.k}
  BY <1>1, TypesStay DEF RestType
<1>7. TypeInv'
  BY <1>1, <1>3, <1>4, <1>5, <1>6, TypesStay, TypePartsNext, Outside DEF cluster, maps, asking
<1>8. KeptInv'
  <2>1. tc'.pc = "idle"
    BY <1>1 DEF NoCleanup
  <2> QED
    BY <1>1, <1>2, <1>6, <2>1, KeptStays DEF cluster, maps
<1> QED
  BY <1>1, <1>3, <1>4, <1>6, <1>7, <1>8, Outside DEF IInv, cluster, asking

-------------------------------------------------------------------------------
\* The mutator controllers

LEMMA MutatorReconcileStep ==
  ASSUME IInv, NEW x \in Mutators, MutatorReconcile(x)
  PROVE  IInv'
<1> DEFINE k == KindOf[x]
<1>1. PICK s \in {Observe(ot[<<k, 1>>], x), TryCancelExpect(ot[<<k, 1>>], x),
                  CancelExpect(ot[<<k, 1>>], x)} :
        /\ ot' = IF 1 = 0 THEN ot ELSE [ot EXCEPT ![<<k, 1>>] = s]
        /\ dirty' \subseteq dirty /\ processed' = processed \cup {x}
        /\ UNCHANGED <<broken, present, ingested, synced, maps, tasks, callers, asking>>
  BY DEF MutatorReconcile, MutatorObserve, MutatorTryCancel, MutatorCancel, On, cluster
<1>2. Shrinks
  BY <1>1, ShrinkIf
<1>3. Steady
  <2>1. k \in MutatorKinds /\ k \in Roots /\ x \in Keys /\ 1 \in Handles /\ 1 \in 1..Generations
    BY TrackerAssumption, Disjointness DEF Handles, Numbers
  <2>2. <<k, 1>> \in Trackers
    BY <2>1, TrackersAre
  <2>3. ot[<<k, 1>>] \in TrackerType
    BY <2>2 DEF IInv, TypeInv
  <2>4. x \notin Due(k)'
    BY <1>1, <2>1, DueFormNext DEF DueForm, PendingMutators
  <2>5. /\ s \in TrackerType
        /\ ot[<<k, 1>>].allSatisfied => s.allSatisfied
        /\ \A y : y # x => Keeps(ot[<<k, 1>>], s, y)
    BY <1>1, <2>1, <2>3, ObserveKeeps, TryCancelKeeps, CancelKeeps
  <2>6. k # "config"
    BY <2>1, Disjointness
  <2> HIDE DEF k
  <2>7. Fair(k, ot[<<k, 1>>], s)
    BY <1>2, <2>1, <2>2, <2>4, <2>5, <2>6, FairIf DEF AllKinds
  <2> QED
    BY <1>1, <1>2, <2>1, <2>7, OnSteady DEF AllKinds
<1> HIDE DEF k
<1>4. TypeInv'
  BY <1>1, <1>2, <1>3, TypesStay, TypePartsNext, Outside DEF maps, tasks, callers, asking
<1>5. KeptInv'
  BY <1>1, KeptStays DEF maps, tasks, callers
<1> QED
  BY <1>1, <1>2, <1>3, <1>4, <1>5, Outside DEF IInv, tasks, asking

-------------------------------------------------------------------------------
\* The constraint controller and the sync controller

LEMMA LookupOf ==
  ASSUME IInv
  PROVE  /\ \A k \in Roots : Lookup(k) = 1
         /\ \A k \in MapKinds : /\ Lookup(k) \in Handles
                                /\ Lookup(k) = 0 => k \in removed
<1>1. \A k \in MapKinds : m[k] \in Numbers /\ k \notin Roots
  BY TypesStay, Disjointness DEF MapsType, Disjoint
<1>2. \A k \in Roots : k \notin removed
  BY <1>1 DEF IInv, KeptInv
<1>3. ASSUME NEW k \in Roots PROVE Lookup(k) = 1
  BY <1>2, <1>3 DEF Lookup
<1>4. ASSUME NEW k \in MapKinds PROVE Lookup(k) \in Handles /\ (Lookup(k) = 0 => k \in removed)
  <2>1. CASE k \in removed
    BY <1>1, <1>4, <2>1, Disjointness DEF Lookup, Handles, Numbers
  <2>2. CASE k \notin removed
    <3>1. Lookup(k) = IF m[k] # 0 THEN m[k] ELSE -1
      BY <1>1, <1>4, <2>2 DEF Lookup
    <3> QED
      BY <1>1, <1>4, <3>1 DEF Handles
  <2> QED
    BY <2>1, <2>2
<1> QED
  BY <1>3, <1>4

\* A controller's step that leaves the trackers alone.
LEMMA CallStep ==
  ASSUME IInv, UNCHANGED <<broken, present, ingested, processed, ot, removed, tasks, tc, asking>>,
         dirty' \subseteq dirty, MapsType', CallType'
  PROVE  IInv'
<1>1. Shrinks
  BY ShrinkIf
<1>2. Steady
  BY <1>1, SteadyIfSame
<1>3. TypeInv'
  BY <1>1, <1>2, TypesStay, TypePartsNext, Outside DEF tasks, asking
<1>4. KeptInv'
  BY KeptStays DEF tasks
<1> QED
  BY <1>1, <1>2, <1>3, <1>4, Outside DEF IInv, tasks, asking

\* Controller c goes on.
LEMMA CallTypeNext ==
  ASSUME IInv, NEW c \in Controllers, NEW call, cc' = [cc EXCEPT ![c] = call],
         call = [pc |-> call.pc, o |-> call.o, verb |-> call.verb, handle |-> call.handle],
         call.handle \in Handles,
         call.pc # "idle" => call.o \in Objects /\ call.verb \in {"observe", "cancel", "try"}
  PROVE  CallType'
<1>1. CallType
  BY TypesStay
<1>2. cc'[c] = call /\ \A d \in Controllers \ {c} : cc'[d] = cc[d]
  BY <1>1 DEF CallType
<1>3. DOMAIN cc' = Controllers
  BY <1>1 DEF CallType
<1>4. ASSUME NEW d \in Controllers
      PROVE  /\ cc'[d] = [pc |-> cc'[d].pc, o |-> cc'[d].o, verb |-> cc'[d].verb, handle |-> cc'[d].handle]
             /\ cc'[d].handle \in Handles
             /\ cc'[d].pc # "idle" => cc'[d].o \in Objects /\ cc'[d].verb \in {"observe", "cancel", "try"}
  <2>1. CASE d = c
    BY <1>2, <2>1
  <2>2. CASE d # c
    BY <1>1, <1>2, <2>2 DEF CallType
  <2> QED
    BY <2>1, <2>2
<1> QED
  BY <1>3, <1>4 DEF CallType

LEMMA CallTypeHandle ==
  ASSUME IInv, NEW c \in Controllers, NEW pc, NEW n \in Handles, cc[c].pc # "idle",
         cc' = [cc EXCEPT ![c].pc = pc, ![c].handle = n]
  PROVE  CallType'
<1> DEFINE call == [pc |-> pc, o |-> cc[c].o, verb |-> cc[c].verb, handle |-> n]
<1>1. CallType
  BY TypesStay
<1>2. PICK p, o, verb, h : cc[c] = [pc |-> p, o |-> o, verb |-> verb, handle |-> h]
  BY <1>1 DEF CallType
<1>3. cc'[c] = call
  BY <1>1, <1>2 DEF CallType
<1>4. cc' = [cc EXCEPT ![c] = call]
  BY <1>1, <1>3 DEF CallType
<1>5. /\ call.pc = pc /\ call.o = cc[c].o /\ call.verb = cc[c].verb /\ call.handle = n
      /\ call = [pc |-> call.pc, o |-> call.o, verb |-> call.verb, handle |-> call.handle]
  OBVIOUS
<1>6. cc[c].o \in Objects /\ cc[c].verb \in {"observe", "cancel", "try"}
  BY <1>1 DEF CallType
<1> HIDE DEF call
<1> QED
  BY <1>4, <1>5, <1>6, CallTypeNext

LEMMA ObjectReconcileStep ==
  ASSUME IInv, NEW c \in Controllers, NEW o \in Objects, ObjectReconcile(c, o)
  PROVE  IInv'
<1> DEFINE verb == CASE o \notin present \/ KindOf[o] \notin ingested -> "cancel"
                     [] o \in present \cap broken -> "try"
                     [] OTHER -> "observe"
           call == [pc |-> "for", o |-> o, handle |-> 0, verb |-> verb]
<1>1. /\ dirty' = dirty \ {o}
      /\ cc' = [cc EXCEPT ![c] = call]
      /\ UNCHANGED <<broken, present, ingested, synced, ot, maps, tasks, tc, asking, processed>>
  BY DEF ObjectReconcile
<1>2. verb \in {"observe", "cancel", "try"} /\ 0 \in Handles
  BY Disjointness DEF Handles, Numbers
<1> HIDE DEF verb
<1>3. /\ call = [pc |-> call.pc, o |-> call.o, verb |-> call.verb, handle |-> call.handle]
      /\ call.handle \in Handles /\ call.o \in Objects /\ call.verb \in {"observe", "cancel", "try"}
  BY <1>2
<1> HIDE DEF call
<1>4. CallType'
  BY <1>1, <1>3, CallTypeNext
<1> QED
  BY <1>1, <1>4, TypesStay, CallStep DEF maps

LEMMA ForCheckStep ==
  ASSUME IInv, NEW c \in Controllers, ForCheck(c)
  PROVE  IInv'
<1>1. PICK pc \in {"op", "get"} : cc' = [cc EXCEPT ![c].pc = pc]
  BY DEF ForCheck
<1>2. cc[c].pc = "for" /\ UNCHANGED <<cluster, ot, maps, tasks, tc, asking, processed>>
  BY DEF ForCheck
<1> DEFINE call == [cc[c] EXCEPT !.pc = pc]
<1>3. /\ cc' = [cc EXCEPT ![c] = call]
      /\ call = [pc |-> call.pc, o |-> call.o, verb |-> call.verb, handle |-> call.handle]
      /\ call.handle \in Handles /\ call.o \in Objects /\ call.verb \in {"observe", "cancel", "try"}
  BY <1>1, <1>2, TypesStay DEF CallType
<1> HIDE DEF call
<1>4. CallType'
  BY <1>3, CallTypeNext
<1> QED
  BY <1>2, <1>4, TypesStay, CallStep DEF cluster, maps

LEMMA ForGetStep ==
  ASSUME IInv, NEW c \in Controllers, ForGet(c)
  PROVE  IInv'
<1> DEFINE n == Lookup(KindOf[cc[c].o])
<1>1. PICK pc \in {"create", "op"} : cc' = [cc EXCEPT ![c].pc = pc, ![c].handle = n]
  BY DEF ForGet
<1>2. cc[c].pc = "get" /\ UNCHANGED <<cluster, ot, maps, tasks, tc, asking, processed>>
  BY DEF ForGet
<1>3. n \in Handles
  <2>1. KindOf[cc[c].o] \in MapKinds
    BY <1>2, TypesStay, TrackerAssumption DEF CallType
  <2> QED
    BY <2>1, LookupOf
<1> HIDE DEF n
<1>4. CallType'
  BY <1>1, <1>2, <1>3, CallTypeHandle
<1> QED
  BY <1>2, <1>4, TypesStay, CallStep DEF cluster, maps

LEMMA ForCreateStep ==
  ASSUME IInv, NEW c \in Controllers, ForCreate(c)
  PROVE  IInv'
<1> DEFINE k == KindOf[cc[c].o]
           n == made[k] + 1
<1>1. /\ cc[c].pc = "create"
      /\ Create(k)
      /\ cc' = [cc EXCEPT ![c].pc = "op", ![c].handle = n]
      /\ UNCHANGED <<cluster, ot, tasks, tc, asking, processed>>
  BY DEF ForCreate
<1>2. n \in Handles
  <2>1. k \in MapKinds
    BY <1>1, TypesStay, TrackerAssumption DEF CallType
  <2> QED
    BY <1>1, <2>1, TypesStay, Disjointness DEF MapsType, Create, Handles, Numbers
<1>3. MapsType' /\ removed' = removed
  BY <1>1, CreateType DEF Create
<1> HIDE DEF n, k
<1>4. CallType'
  BY <1>1, <1>2, CallTypeHandle
<1> QED
  BY <1>1, <1>3, <1>4, CallStep DEF cluster

LEMMA ObjectReportStep ==
  ASSUME IInv, NEW c \in Controllers, ObjectReport(c)
  PROVE  IInv'
<1>0. PICK o, k, n : o = cc[c].o /\ k = KindOf[o] /\ n = cc[c].handle
  OBVIOUS
<1> DEFINE r == ot[<<k, n>>]
           s == CASE cc[c].verb = "observe" -> Observe(r, o)
                  [] cc[c].verb = "cancel"  -> CancelExpect(r, o)
                  [] cc[c].verb = "try"     -> TryCancelExpect(r, o)
<1>1. /\ cc[c].pc = "op"
      /\ ot' = IF n = 0 THEN ot ELSE [ot EXCEPT ![<<k, n>>] = s]
      /\ dirty' \subseteq dirty \cup {o}
      /\ processed' = processed \cup {o}
      /\ cc' = [cc EXCEPT ![c] = NoCall]
      /\ UNCHANGED <<broken, present, ingested, synced, maps, tasks, tc, asking>>
  BY <1>0 DEF ObjectReport, On
<1>2. /\ o \in Objects /\ cc[c].verb \in {"observe", "cancel", "try"}
      /\ n \in Handles /\ o \in Keys /\ k \in MapKinds
  BY <1>0, <1>1, TypesStay, TrackerAssumption, Disjointness DEF CallType
<1>3. Shrinks
  BY <1>1, ShrinkIf
<1>4. Steady
  <2>1. ASSUME n \in 1..Generations, <<k, n>> \in Trackers PROVE Fair(k, r, s)
    <3>1. r \in TrackerType
      BY <2>1 DEF IInv, TypeInv
    <3>2. o \notin Due(k)'
      BY <1>1, <1>2, DueFormNext DEF DueForm, Pending
    <3>3. s \in {Observe(r, o), CancelExpect(r, o), TryCancelExpect(r, o)}
      BY <1>2
    <3> HIDE DEF s
    <3>4. /\ s \in TrackerType
          /\ r.allSatisfied => s.allSatisfied
          /\ \A y : y # o => Keeps(r, s, y)
      BY <1>2, <3>1, <3>3, ObserveKeeps, CancelKeeps, TryCancelKeeps
    <3>5. k # "config"
      BY <1>2, Disjointness DEF Disjoint
    <3>6. \A x \in Due(k)' : Keeps(r, s, x)
      BY <3>2, <3>4
    <3> QED
      BY <1>2, <1>3, <2>1, <3>4, <3>5, <3>6, FairIf DEF AllKinds
  <2> HIDE DEF s
  <2> QED
    BY <1>1, <1>2, <1>3, <2>1, OnSteady DEF AllKinds
<1> HIDE DEF s
<1>5. CallType'
  <2>1. 0 \in Handles
    BY Disjointness DEF Handles, Numbers
  <2>2. NoCall = [pc |-> NoCall.pc, o |-> NoCall.o, verb |-> NoCall.verb, handle |-> NoCall.handle]
    BY DEF NoCall
  <2>3. NoCall.handle = 0 /\ NoCall.pc = "idle"
    BY DEF NoCall
  <2> QED
    BY <1>1, <2>1, <2>2, <2>3, CallTypeNext
<1>6. TypeInv'
  BY <1>1, <1>3, <1>4, <1>5, TypesStay, TypePartsNext, Outside DEF maps, tasks, asking
<1>7. KeptInv'
  <2>1. dirty' \cap DataKinds \subseteq dirty
    BY <1>1, <1>2, TrackerAssumption DEF Disjoint, MapKinds
  <2> QED
    BY <1>1, <2>1, KeptStays DEF maps, tasks
<1> QED
  BY <1>1, <1>3, <1>4, <1>6, <1>7, Outside DEF IInv, tasks, asking

-------------------------------------------------------------------------------
\* The collector

\* A step that changes trackers and collector only.
LEMMA CollectStep ==
  ASSUME IInv, UNCHANGED <<cluster, maps, tasks, callers, probe, satisfied, processed>>, Shrinks, Steady,
         CollectorInv',
         collector' = [pc |-> collector'.pc, k |-> collector'.k, n |-> collector'.n, keys |-> collector'.keys],
         collector'.pc # "idle" => <<collector'.k, collector'.n>> \in Trackers
  PROVE  IInv'
<1>1. ListInv'
  BY SteadyListOf DEF ListInv, tasks
<1>2. RestType'
  BY TypesStay DEF RestType, callers, tasks
<1>3. TypeInv'
  BY <1>2, SteadyTrackers, TypesStay, TypePartsNext DEF maps, tasks, callers
<1>4. KeptInv'
  BY KeptStays DEF cluster, maps, tasks, callers
<1>5. RunnerInv'
  BY RunnerStays DEF tasks
<1> QED
  BY <1>1, <1>3, <1>4, <1>5, SteadyTrackers, SteadyProbe, SteadyReady DEF IInv

LEMMA SatisfiedSteady ==
  ASSUME IInv, Shrinks, NEW k \in AllKinds, NEW n \in Handles,
         ot' = IF n = 0 THEN ot ELSE [ot EXCEPT ![<<k, n>>] = SatisfiedCall(ot[<<k, n>>])]
  PROVE  Steady
<1> DEFINE r == ot[<<k, n>>]
<1>1. ASSUME n \in 1..Generations, <<k, n>> \in Trackers PROVE Fair(k, r, SatisfiedCall(r))
  <2>1. r \in TrackerType
    BY <1>1 DEF IInv, TypeInv
  <2>2. k = "config" => Observed(SatisfiedCall(r))
    <3>1. k = "config" => Observed(r)
      BY <1>1, TrackersAre, Disjointness DEF IInv, ConfigInv, AllKinds, Disjoint
    <3>2. Observed(r) => Observed(ResolveSeen(r))
      BY <2>1 DEF Observed, unsatisfied, ResolveSeen, TrackerType
    <3>3. ResolveSeen(r) \in TrackerType
      BY <2>1 DEF ResolveSeen, TrackerType
    <3>4. ResolveSeen(r).populated => Observed(Trip(ResolveSeen(r)))
      BY <3>3 DEF Observed, unsatisfied, Trip, TrackerType
    <3> QED
      BY <3>1, <3>2, <3>4 DEF SatisfiedCall, Resolve
  <2> QED
    BY <1>1, <2>1, <2>2, SatisfiedKeeps, FairIf
<1> HIDE DEF r
<1> QED
  BY <1>1, OnSteady DEF r

LEMMA CollectListStep ==
  ASSUME IInv, NEW k \in Roots \cup MapKinds, CollectList(k)
  PROVE  IInv'
<1>0. PICK n : n = Lookup(k)
  OBVIOUS
<1>1. /\ ot' = IF n = 0 THEN ot ELSE [ot EXCEPT ![<<k, n>>] = SatisfiedCall(ot[<<k, n>>])]
      /\ \/ collector' = NoCollect
         \/ collector' = [pc |-> "list", k |-> k, n |-> n, keys |-> Listed(k)]
      /\ UNCHANGED <<cluster, maps, tasks, callers, probe, satisfied, processed>>
  BY <1>0 DEF CollectList, On
<1>2. k \in Roots \ MutatorKinds \/ (k \in MapKinds /\ n > 0)
  BY <1>0 DEF CollectList, Collectable
<1>3. <<k, n>> \in Trackers /\ n \in Handles /\ k \in AllKinds
  <2>1. CASE k \in Roots \ MutatorKinds
    BY <1>0, <2>1, LookupOf, TrackersAre, Disjointness DEF Handles, Numbers, AllKinds
  <2>2. CASE k \in MapKinds /\ n > 0
    BY <1>0, <2>2, LookupOf, TrackersAre, Disjointness DEF Handles, Numbers, AllKinds
  <2> QED
    BY <1>2, <2>1, <2>2
<1>4. Shrinks
  BY <1>1, ShrinkIf DEF cluster
<1>5. Steady
  BY <1>1, <1>3, <1>4, SatisfiedSteady
<1>6. Listed(k)' = Listed(k)
  BY <1>1 DEF Listed, cluster
<1>7. CASE collector' = NoCollect
  <2>1. collector'.pc = "idle" /\ collector' = [pc |-> collector'.pc, k |-> collector'.k, n |-> collector'.n, keys |-> collector'.keys]
    BY <1>7 DEF NoCollect
  <2>2. CollectorInv'
    BY <2>1 DEF CollectorInv
  <2> QED
    BY <1>1, <1>4, <1>5, <2>1, <2>2, CollectStep
<1>8. CASE collector' = [pc |-> "list", k |-> k, n |-> n, keys |-> Listed(k)]
  <2>1. /\ collector'.pc = "list" /\ collector'.k = k /\ collector'.n = n /\ collector'.keys = Listed(k)
        /\ collector' = [pc |-> collector'.pc, k |-> collector'.k, n |-> collector'.n, keys |-> collector'.keys]
    BY <1>8
  <2>2. Listed(collector.k)' = Listed(k)
    BY <1>1, <2>1 DEF Listed, cluster
  <2>3. CollectorInv'
    BY <1>2, <2>1, <2>2 DEF CollectorInv
  <2> QED
    BY <1>1, <1>3, <1>4, <1>5, <2>1, <2>3, CollectStep
<1> QED
  BY <1>1, <1>7, <1>8

\* What the collector is about to cancel is not due.
LEMMA CancellingNext ==
  ASSUME IInv, NEW gone, collector' = Cancelling(gone), UNCHANGED cluster,
         collector.pc # "idle", gone \subseteq Keys, Listed(collector.k) \cap gone = {},
         collector.k = "config" => gone = {}
  PROVE  /\ CollectorInv'
         /\ collector' = [pc |-> collector'.pc, k |-> collector'.k, n |-> collector'.n, keys |-> collector'.keys]
         /\ collector'.pc # "idle" => <<collector'.k, collector'.n>> \in Trackers
<1>1. CASE gone = {}
  <2>1. collector'.pc = "idle" /\ collector' = [pc |-> collector'.pc, k |-> collector'.k, n |-> collector'.n, keys |-> collector'.keys]
    BY <1>1 DEF Cancelling, NoCollect
  <2> QED
    BY <2>1 DEF CollectorInv
<1>2. CASE gone # {}
  <2>1. /\ collector'.pc = "cancel" /\ collector'.k = collector.k /\ collector'.n = collector.n
        /\ collector'.keys = gone
        /\ collector' = [pc |-> collector'.pc, k |-> collector'.k, n |-> collector'.n, keys |-> collector'.keys]
    BY <1>2, TypesStay DEF Cancelling, RestType
  <2>2. Listed(collector.k)' = Listed(collector.k)
    BY <2>1 DEF Listed, cluster
  <2>3. <<collector.k, collector.n>> \in Trackers /\ collector.k \in (Roots \ MutatorKinds) \cup MapKinds
    BY TypesStay DEF RestType, IInv, CollectorInv
  <2>4. CollectorInv'
    BY <1>2, <2>1, <2>2, <2>3 DEF CollectorInv
  <2> QED
    BY <2>1, <2>3, <2>4
<1> QED
  BY <1>1, <1>2

LEMMA CollectUnsatisfiedStep ==
  ASSUME IInv, CollectUnsatisfied
  PROVE  IInv'
<1> DEFINE r == ot[<<collector.k, collector.n>>]
           gone == unsatisfied(r) \ collector.keys
<1>1. /\ collector.pc = "list"
      /\ collector' = Cancelling(gone)
      /\ UNCHANGED <<cluster, ot, maps, tasks, callers, probe, satisfied, processed>>
  BY DEF CollectUnsatisfied
<1>2. Shrinks
  BY <1>1, ShrinkIf DEF cluster
<1>3. Steady
  BY <1>1, <1>2, SteadyIfSame
<1>4. <<collector.k, collector.n>> \in Trackers /\ collector.k \in (Roots \ MutatorKinds) \cup MapKinds
  BY <1>1, TypesStay DEF RestType, IInv, CollectorInv
<1>5. gone \subseteq Keys
  <2>1. r \in TrackerType
    BY <1>4 DEF IInv, TypeInv
  <2> QED
    BY <2>1 DEF unsatisfied, TrackerType
<1>6. Listed(collector.k) \cap gone = {}
  BY <1>1 DEF IInv, CollectorInv
<1>7. collector.k = "config" => gone = {}
  <2>1. collector.k = "config" => collector.k \in Roots /\ collector.n = 1
    BY <1>4, TrackersAre, Disjointness DEF Disjoint
  <2> QED
    BY <2>1 DEF IInv, ConfigInv, Observed
<1> HIDE DEF gone
<1> QED
  BY <1>1, <1>2, <1>3, <1>5, <1>6, <1>7, CancellingNext, CollectStep

LEMMA CollectCancelStep ==
  ASSUME IInv, NEW x, CollectCancel(x)
  PROVE  IInv'
<1>0. PICK k, n : k = collector.k /\ n = collector.n
  OBVIOUS
<1> DEFINE r == ot[<<k, n>>]
           s == CancelExpect(r, x)
<1>1. /\ collector.pc = "cancel" /\ x \in collector.keys
      /\ ot' = IF n = 0 THEN ot ELSE [ot EXCEPT ![<<k, n>>] = s]
      /\ collector' = Cancelling(collector.keys \ {x})
      /\ UNCHANGED <<cluster, maps, tasks, callers, probe, satisfied, processed>>
  BY <1>0 DEF CollectCancel, On
<1>2. /\ <<k, n>> \in Trackers /\ k \in (Roots \ MutatorKinds) \cup MapKinds /\ k # "config"
      /\ Listed(k) \cap collector.keys = {} /\ collector.keys \subseteq Keys
  BY <1>0, <1>1, TypesStay DEF RestType, IInv, CollectorInv
<1>3. Shrinks
  BY <1>1, ShrinkIf DEF cluster
<1>4. k \in AllKinds /\ n \in Handles
  <2>1. n = 1 \/ n \in 1..Generations
    BY <1>2, Disjointness DEF Trackers
  <2> QED
    BY <1>2, <2>1, Disjointness DEF AllKinds, Handles, Numbers
<1>5. x \notin Due(k)'
  <2>1. x \notin Listed(k) /\ present' = present
    BY <1>1, <1>2 DEF cluster
  <2>2. CASE k = "templates" /\ k \in Roots
    BY <2>1, <2>2, DueFormNext DEF DueForm, Listed, Live
  <2>3. CASE k \in MapKinds
    <3>1. k # "templates" /\ k # "config"
      BY <2>3, Disjointness DEF Disjoint
    <3> QED
      BY <2>1, <2>3, <3>1, DueFormNext DEF DueForm, Listed, Pending
  <2> QED
    BY <1>2, <2>2, <2>3, Disjointness
<1>6. Steady
  <2>1. ASSUME n \in 1..Generations PROVE Fair(k, r, s)
    <3>1. r \in TrackerType /\ x \in Keys
      BY <1>1, <1>2 DEF IInv, TypeInv
    <3>2. /\ s \in TrackerType
          /\ r.allSatisfied => s.allSatisfied
          /\ \A y \in Due(k)' : Keeps(r, s, y)
      BY <1>5, <3>1, CancelKeeps
    <3> HIDE DEF s
    <3> QED
      BY <1>2, <1>3, <1>4, <2>1, <3>2, FairIf
  <2> HIDE DEF s
  <2> QED
    BY <1>1, <1>3, <1>4, <2>1, OnSteady
<1>7. Listed(collector.k) \cap (collector.keys \ {x}) = {} /\ collector.k # "config"
  BY <1>0, <1>2
<1> QED
  BY <1>1, <1>2, <1>3, <1>6, <1>7, CancellingNext, CollectStep

-------------------------------------------------------------------------------
\* The probe

LEMMA StagesAre ==
  /\ Len(Stages) = 5
  /\ StageTodo(1) = MutatorKinds
  /\ StageTodo(2) = Roots \cap {"templates"}
  /\ StageTodo(3) = KindsFrom("templates")
  /\ StageTodo(4) = Roots \cap {"config"}
  /\ StageTodo(5) = KindsFrom("config")
<1>1. /\ Stages[1] = "mutators" /\ Stages[2] = "templates" /\ Stages[3] = "constraints"
      /\ Stages[4] = "config" /\ Stages[5] = "data"
  BY DEF Stages
<1> QED
  BY <1>1 DEF Stages, StageTodo

\* Nothing is owed to a satisfied tracker, nor for a kind that was removed.
LEMMA NothingOwed ==
  ASSUME IInv
  PROVE  /\ \A k \in AllKinds, n \in 1..Generations :
              <<k, n>> \in Trackers /\ ot[<<k, n>>].allSatisfied => Owed(k) = {}
         /\ \A k \in MapKinds : k \notin Live => Owed(k) = {}
<1>1. ASSUME NEW k \in AllKinds, NEW n \in 1..Generations, <<k, n>> \in Trackers, ot[<<k, n>>].allSatisfied
      PROVE  Owed(k) = {}
  BY <1>1 DEF IInv, TrackInv, Unmet, AllKinds
<1>2. \A k \in MapKinds : k \notin Live => Owed(k) = {}
  BY DueFormNext DEF DueForm, Pending
<1> QED
  BY <1>1, <1>2

\* The probe starts again.
LEMMA NextProbeInv ==
  ASSUME probe' = NextProbe
  PROVE  ProbeInv' /\ probe' = [stage |-> probe'.stage, todo |-> probe'.todo]
         /\ probe'.stage \in 1..5 /\ probe'.todo \subseteq AllKinds
<1>1. probe'.stage = 1 /\ probe'.todo = MutatorKinds /\ probe' = [stage |-> probe'.stage, todo |-> probe'.todo]
  BY StagesAre DEF NextProbe
<1>2. /\ \A k \in MutatorKinds : ~Passed(1, k)'
      /\ \A i \in 2..5 : \A k : ~Passed(i, k)'
  BY <1>1 DEF Passed
<1> QED
  BY <1>1, <1>2, Disjointness DEF ProbeInv, AllKinds

\* The probe passes k.
LEMMA PassedNext ==
  ASSUME IInv, Shrinks, Steady, NEW k \in AllKinds, Owed(k)' = {},
         k \in Roots => ot'[<<k, 1>>].allSatisfied,
         \A i, l : Passed(i, l)' => Passed(i, l) \/ l = k
  PROVE  ProbeInv'
<1>1. \A l \in AllKinds : Owed(l) = {} => Owed(l)' = {}
  BY DEF Shrinks
<1>2. \A l \in Roots : ot[<<l, 1>>].allSatisfied => ot'[<<l, 1>>].allSatisfied
  BY TrackersAre, Disjointness DEF Steady, Fair, AllKinds
<1>3. ProbeInv
  BY DEF IInv
<1> QED
  BY <1>1, <1>2, <1>3, Disjointness DEF ProbeInv, AllKinds

LEMMA AskStep ==
  ASSUME IInv, UNCHANGED <<cluster, tasks, callers, collector, processed, removed>>, MapsType', Shrinks, Steady,
         ProbeInv', ReadyInv', probe' = [stage |-> probe'.stage, todo |-> probe'.todo],
         probe'.stage \in 1..5, probe'.todo \subseteq AllKinds
  PROVE  IInv'
<1>1. ListInv'
  BY SteadyListOf DEF ListInv, tasks
<1>2. RestType'
  BY TypesStay DEF RestType, callers, tasks
<1>3. TypeInv'
  BY <1>2, SteadyTrackers, TypesStay, TypePartsNext DEF tasks, callers
<1>4. KeptInv'
  BY KeptStays DEF cluster, tasks, callers
<1>5. RunnerInv' /\ CollectorInv'
  BY RunnerStays, CollectorStays DEF tasks, cluster
<1> QED
  BY <1>1, <1>3, <1>4, <1>5, SteadyTrackers DEF IInv

LEMMA ProbeCheckStep ==
  ASSUME IInv, NEW k \in probe.todo, ProbeCheck(k)
  PROVE  IInv'
<1>0. PICK n : n = Lookup(k)
  OBVIOUS
<1>1. k \in AllKinds /\ UNCHANGED <<cluster, tasks, callers, satisfied, collector, processed>>
  BY TypesStay DEF RestType, ProbeCheck
<1>2. Shrinks
  BY <1>1, ShrinkIf DEF cluster
<1>3. ReadyInv'
  BY <1>1, <1>2, SteadyReady
<1>4. n \in Handles /\ (k \in Roots => n = 1)
  BY <1>0, <1>1, LookupOf, Disjointness DEF AllKinds, Handles, Numbers
<1>5. CASE n = -1
  <2>1. Create(k) /\ probe' = NextProbe /\ UNCHANGED ot
    BY <1>0, <1>5 DEF ProbeCheck
  <2>2. Steady
    BY <1>2, <2>1, SteadyIfSame
  <2>3. MapsType' /\ removed' = removed
    BY <2>1, CreateType DEF Create
  <2> QED
    BY <1>1, <1>2, <1>3, <2>1, <2>2, <2>3, NextProbeInv, AskStep
<1>6. CASE n # -1
  <2>1. /\ ot' = IF n = 0 THEN ot ELSE [ot EXCEPT ![<<k, n>>] = SatisfiedCall(ot[<<k, n>>])]
        /\ probe' = IF n = 0 \/ ot'[<<k, n>>].allSatisfied
                    THEN [probe EXCEPT !.todo = @ \ {k}] ELSE NextProbe
        /\ UNCHANGED maps
    BY <1>0, <1>6 DEF ProbeCheck, On
  <2>2. Steady
    BY <1>1, <1>2, <1>4, <2>1, SatisfiedSteady
  <2>3. MapsType' /\ removed' = removed
    BY <2>1, TypesStay DEF maps
  <2>4. CASE probe' = NextProbe
    BY <1>1, <1>2, <1>3, <2>2, <2>3, <2>4, NextProbeInv, AskStep
  <2>5. CASE n = 0 \/ ot'[<<k, n>>].allSatisfied
    <3>1. probe'.stage = probe.stage /\ probe'.todo = probe.todo \ {k}
          /\ probe' = [stage |-> probe'.stage, todo |-> probe'.todo]
      BY <2>1, <2>5, TypesStay DEF RestType
    <3>2. probe'.stage \in 1..5 /\ probe'.todo \subseteq AllKinds
      BY <3>1, TypesStay DEF RestType
    <3>3. \A i, l : Passed(i, l)' => Passed(i, l) \/ l = k
      BY <3>1 DEF Passed
    <3>4. TrackInv' /\ ot' \in [Trackers -> TrackerType]
      BY <2>2, SteadyTrackers
    <3>5. CASE n # 0
      <4>1. n \in 1..Generations /\ <<k, n>> \in Trackers /\ ot'[<<k, n>>].allSatisfied
        BY <1>1, <1>4, <1>6, <2>5, <3>5, TrackersAre, Disjointness DEF AllKinds, Handles, Numbers
      <4>2. Owed(k)' = {}
        BY <1>1, <3>4, <4>1 DEF TrackInv, Unmet, AllKinds
      <4>3. k \in Roots => ot'[<<k, 1>>].allSatisfied
        BY <1>4, <4>1
      <4>4. ProbeInv'
        BY <1>1, <1>2, <2>2, <3>3, <4>2, <4>3, PassedNext
      <4> QED
        BY <1>1, <1>2, <1>3, <2>2, <2>3, <3>1, <3>2, <4>4, AskStep
    <3>6. CASE n = 0
      <4>1. k \in MapKinds /\ k \notin Roots
        BY <1>1, <1>4, <3>6, Disjointness DEF AllKinds, Disjoint
      <4>2. k \in removed
        BY <1>0, <3>6, <4>1, LookupOf
      <4>3. k \notin Live
        BY <4>2 DEF IInv, KeptInv
      <4>4. Owed(k)' = {}
        BY <1>1, <1>2, <4>1, <4>3, NothingOwed DEF Shrinks
      <4>5. ProbeInv'
        BY <1>1, <1>2, <2>2, <3>3, <4>1, <4>4, PassedNext
      <4> QED
        BY <1>1, <1>2, <1>3, <2>2, <2>3, <3>1, <3>2, <4>5, AskStep
    <3> QED
      BY <3>5, <3>6
  <2> QED
    BY <2>1, <2>4, <2>5
<1> QED
  BY <1>5, <1>6

LEMMA ProbeNextStageStep ==
  ASSUME IInv, ProbeNextStage
  PROVE  IInv'
<1>1. /\ probe.stage < 5 /\ probe.todo = {}
      /\ probe' = [stage |-> probe.stage + 1, todo |-> StageTodo(probe.stage + 1)]
      /\ UNCHANGED <<cluster, ot, maps, tasks, callers, satisfied, collector, processed>>
  BY StagesAre DEF ProbeNextStage
<1>2. Shrinks
  BY <1>1, ShrinkIf DEF cluster
<1>3. Steady
  BY <1>1, <1>2, SteadyIfSame
<1>4. ReadyInv'
  BY <1>1, <1>2, SteadyReady
<1>5. PICK i \in 1..4 : i = probe.stage
  BY <1>1, TypesStay DEF RestType
<1>6. probe'.stage = i + 1 /\ probe'.todo = StageTodo(i + 1)
      /\ probe' = [stage |-> probe'.stage, todo |-> probe'.todo]
  BY <1>1, <1>5
<1>7. \A j \in 1..5 : \A l : Passed(j, l)' => Passed(j, l) \/ (j = i + 1 /\ l \notin StageTodo(j))
  BY <1>1, <1>5, <1>6 DEF Passed
<1>8. \A l : Passed(i, l)
  BY <1>1, <1>5 DEF Passed
<1>9. ProbeInv /\ TrackInv
  BY DEF IInv
\* The kinds that a satisfied root tracker knows of are in the next stage.
<1>10. ASSUME NEW root \in Roots, NEW k \in MapKinds \cap Due(root), ot[<<root, 1>>].allSatisfied
       PROVE  k \in KindsFrom(root)
  <2>1. Known(ot[<<root, 1>>], k)
    BY <1>9, <1>10, TrackersAre, Disjointness DEF TrackInv
  <2>2. KindOf[k] = k
    BY <1>10, TrackerAssumption
  <2> QED
    BY <1>10, <2>1, <2>2 DEF Known, KindsFrom, kinds
<1>11. ASSUME i = 2, NEW k \in TemplateKinds, k \notin KindsFrom("templates") PROVE Owed(k) = {}
  <2>1. CASE k \in Live
    <3>1. "templates" \in Roots /\ k \in Due("templates") /\ k \in MapKinds
      BY <1>11, <2>1, Disjointness, DueFormNext DEF DueForm
    <3>2. ot[<<"templates", 1>>].allSatisfied
      BY <1>8, <1>9, <1>11, <3>1 DEF ProbeInv
    <3> QED
      BY <1>10, <1>11, <3>1, <3>2
  <2>2. CASE k \notin Live
    BY <1>11, <2>2, NothingOwed, Disjointness
  <2> QED
    BY <2>1, <2>2
<1>12. ASSUME i = 4, NEW k \in DataKinds, k \notin KindsFrom("config") PROVE Owed(k) = {}
  <2>1. CASE k \in Live
    <3>1. "config" \in Roots /\ k \in Due("config") /\ k \in MapKinds
      BY <1>12, <2>1, Disjointness, DueFormNext DEF DueForm, Live
    <3>2. ot[<<"config", 1>>].allSatisfied
      BY <1>8, <1>9, <1>12, <3>1 DEF ProbeInv
    <3> QED
      BY <1>10, <1>12, <3>1, <3>2
  <2>2. CASE k \notin Live
    BY <1>12, <2>2, NothingOwed, Disjointness
  <2> QED
    BY <2>1, <2>2
<1>13. ProbeInv'
  <2>1. \A k \in AllKinds : Owed(k) = {} => Owed(k)' = {}
    BY <1>2 DEF Shrinks
  <2>2. ASSUME NEW k \in MutatorKinds, Passed(1, k)' PROVE Owed(k)' = {}
    BY <1>7, <1>9, <2>1, <2>2, Disjointness DEF ProbeInv, AllKinds
  <2>3. ASSUME "templates" \in Roots, Passed(2, "templates")' PROVE ot'[<<"templates", 1>>].allSatisfied
    BY <1>1, <1>7, <1>9, <2>3, StagesAre DEF ProbeInv
  <2>4. ASSUME NEW k \in TemplateKinds, Passed(3, k)' PROVE Owed(k)' = {}
    <3>1. Passed(3, k) \/ (i = 2 /\ k \notin KindsFrom("templates"))
      BY <1>7, <2>4, StagesAre
    <3> QED
      BY <1>9, <1>11, <2>1, <2>4, <3>1, Disjointness DEF ProbeInv, AllKinds
  <2>5. ASSUME "config" \in Roots, Passed(4, "config")' PROVE ot'[<<"config", 1>>].allSatisfied
    BY <1>1, <1>7, <1>9, <2>5, StagesAre DEF ProbeInv
  <2>6. ASSUME NEW k \in DataKinds, Passed(5, k)' PROVE Owed(k)' = {}
    <3>1. Passed(5, k) \/ (i = 4 /\ k \notin KindsFrom("config"))
      BY <1>7, <2>6, StagesAre
    <3> QED
      BY <1>9, <1>12, <2>1, <2>6, <3>1, Disjointness DEF ProbeInv, AllKinds
  <2> QED
    BY <2>2, <2>3, <2>4, <2>5, <2>6 DEF ProbeInv
<1>14. StageTodo(i + 1) \subseteq AllKinds
  <2>1. \A root \in Roots : KindsFrom(root) \subseteq AllKinds
    <3>1. \A root \in Roots : ot[<<root, 1>>] \in TrackerType
      BY TrackersAre DEF IInv, TypeInv
    <3>2. Kinds \subseteq AllKinds
      BY TrackerAssumption, Disjointness DEF Kinds, AllKinds
    <3> QED
      BY <3>1, <3>2 DEF KindsFrom, kinds, TrackerType, Kinds
  <2>2. \A root : root \notin Roots => KindsFrom(root) = {}
    BY DEF KindsFrom
  <2>3. \A root : KindsFrom(root) \subseteq AllKinds
    BY <2>1, <2>2
  <2>4. i + 1 \in {2, 3, 4, 5}
    BY <1>5
  <2> QED
    BY <2>3, <2>4, StagesAre DEF AllKinds
<1>15. i + 1 \in 1..5 /\ MapsType' /\ removed' = removed
  BY <1>1, <1>5, TypesStay DEF maps
<1> QED
  BY <1>1, <1>2, <1>3, <1>4, <1>6, <1>13, <1>14, <1>15, AskStep

LEMMA ProbeReadyStep ==
  ASSUME IInv, ProbeReady
  PROVE  IInv'
<1>1. /\ probe = [stage |-> 5, todo |-> {}]
      /\ probe' = NextProbe
      /\ UNCHANGED <<cluster, ot, maps, tasks, callers, collector, processed>>
  BY StagesAre DEF ProbeReady
<1>2. Shrinks
  BY <1>1, ShrinkIf DEF cluster
<1>3. Steady
  BY <1>1, <1>2, SteadyIfSame
<1>4. \A i \in 1..5 : \A k : Passed(i, k)
  BY <1>1 DEF Passed
<1>5. ProbeInv
  BY DEF IInv
<1>6. ASSUME NEW k \in AllKinds PROVE Owed(k) = {}
  <2>1. CASE k \in MutatorKinds
    BY <1>4, <1>5, <2>1 DEF ProbeInv
  <2>2. CASE k = "templates" /\ k \in Roots
    BY <1>4, <1>5, <1>6, <2>2, NothingOwed, TrackersAre, Disjointness DEF ProbeInv
  <2>3. CASE k = "config" /\ k \in Roots
    BY <2>3, DueFormNext DEF DueForm
  <2>4. CASE k \in MapKinds
    BY <1>4, <1>5, <2>4 DEF ProbeInv, MapKinds
  <2> QED
    BY <1>6, <2>1, <2>2, <2>3, <2>4, Disjointness DEF AllKinds
<1>7. ReadyInv'
  BY <1>2, <1>6 DEF ReadyInv, Shrinks, AllKinds
<1>8. MapsType' /\ removed' = removed
  BY <1>1, TypesStay DEF maps
<1> QED
  BY <1>1, <1>2, <1>3, <1>7, <1>8, NextProbeInv, AskStep

-------------------------------------------------------------------------------
\* The goroutines that set expectations

LEMMA TaskKinds ==
  /\ \A t \in TemplateKinds : t \in Listers /\ TaskKind(t) = t
  /\ \A t \in DataTasks : t \in Listers /\ TaskKind(t) \in DataKinds
  /\ \A t \in Listers \ Roots : /\ TaskKind(t) \in MapKinds /\ Items(t) = ObjectsOf(TaskKind(t))
                                /\ t \notin MutatorKinds /\ t # "config" /\ t # "templates"
  /\ "templates" \in Roots => Items("templates") = TemplateKinds
  /\ "config" \in Roots => Items("config") = DataTasks
  /\ \A t \in MutatorKinds : Items(t) = {x \in Mutators : KindOf[x] = t}
<1>1. \A t \in TemplateKinds : t \notin DataTasks
  BY TrackerAssumption DEF Disjoint
<1>2. \A t \in DataTasks : SyncOnly[t] \in DataKinds
  BY TrackerAssumption
<1>3. \A t \in Listers \ Roots : t \notin MutatorKinds /\ t # "config" /\ t # "templates"
  BY TrackerAssumption, Disjointness DEF Listers, Disjoint
<1> QED
  BY <1>1, <1>2, <1>3, Disjointness DEF TaskKind, Listers, Items, MapKinds

\* A lister step changes neither the cluster nor what the controllers did.
LEMMA NoLoss ==
  ASSUME UNCHANGED <<cluster, processed>>
  PROVE  /\ Shrinks
         /\ \A k \in AllKinds : Due(k)' = Due(k)
<1>1. Shrinks
  BY ShrinkIf DEF cluster
<1>2. Live' = Live /\ (\A k \in MapKinds : Pending(k)' = Pending(k))
      /\ (\A k \in MutatorKinds : PendingMutators(k)' = PendingMutators(k))
  BY DEF cluster, Live, Pending, PendingMutators
<1>3. UNCHANGED present
  BY DEF cluster
<1> QED
  BY <1>1, <1>2, <1>3, DueFormNext, Disjointness DEF DueForm, AllKinds

\* ListOf of a root lister and of a task, apart.
LEMMA RootListOf ==
  ASSUME Shrinks, NEW t \in Roots,
         lister'[t].pc = "expect" => \A x \in Due(t) : x \in Left(t)' \/ Enlisted(ot'[<<t, 1>>], x),
         lister'[t].pc \in {"get", "create", "go"} =>
           /\ \A x \in Due(t) : x \in Left(t)' \/ Enlisted(ot'[<<t, 1>>], x)
           /\ TaskKind(lister'[t].cur) \in Due(t) => Enlisted(ot'[<<t, 1>>], TaskKind(lister'[t].cur))
  PROVE  ListOf(t)'
<1>1. TrackerOf(t)' = <<t, 1>>
  BY DEF TrackerOf
<1>2. Due(t)' \subseteq Due(t)
  BY DEF Shrinks, AllKinds
<1> QED
  BY <1>1, <1>2 DEF ListOf, Enlisted

LEMMA TaskListOf ==
  ASSUME Shrinks, NEW t \in Listers \ Roots, lister'[t].pc \in {"none", "list", "expect", "end"},
         lister'[t].pc = "expect" =>
           \A n \in 1..Generations : lister'[t].handle = n =>
             \A x \in Due(TaskKind(t)) : x \in lister'[t].todo \/ Enlisted(ot'[<<TaskKind(t), n>>], x)
  PROVE  ListOf(t)'
<1>1. TrackerOf(t)' = <<TaskKind(t), lister'[t].handle>> /\ Left(t)' = lister'[t].todo
  BY TaskKinds DEF TrackerOf, Left
<1>2. TaskKind(t) \in AllKinds
  BY TaskKinds DEF AllKinds
<1>3. Due(TaskKind(t))' \subseteq Due(TaskKind(t))
  BY <1>2 DEF Shrinks
<1> QED
  BY <1>1, <1>3 DEF ListOf, Enlisted

\* A step of the listers.
LEMMA ListStep ==
  ASSUME IInv, Steady, UNCHANGED <<cluster, callers, asking, processed>>, removed' = removed,
         runner'.canceled = runner.canceled,
         runner' = [used |-> runner'.used, canceled |-> runner'.canceled, ctxDone |-> runner'.ctxDone],
         MapsType', ListerType', RunnerInv',
         \A t \in Listers : lister'[t] = lister[t] \/ ListOf(t)'
  PROVE  IInv'
<1>1. Shrinks
  BY NoLoss
<1>2. ListInv'
  BY <1>1, SteadyListOf DEF ListInv
<1>3. RestType' /\ CallType'
  BY TypesStay DEF RestType, CallType, callers, asking
<1>4. TypeInv'
  BY <1>3, SteadyTrackers, TypePartsNext
<1>5. KeptInv'
  BY KeptStays DEF cluster, callers
<1> QED
  BY <1>1, <1>2, <1>4, <1>5, SteadyTrackers, CollectorStays, SteadyProbe, SteadyReady DEF IInv, cluster, asking

\* A step of lister t alone.
LEMMA Goes ==
  ASSUME IInv, Steady, UNCHANGED <<cluster, callers, asking, processed, run, runner>>, removed' = removed,
         MapsType', NEW t \in Listers, lister[t].pc \notin {"none", "end"},
         DOMAIN lister' = Listers, \A u \in Listers \ {t} : lister'[u] = lister[u],
         lister'[t] = [pc |-> lister'[t].pc, todo |-> lister'[t].todo,
                       cur |-> lister'[t].cur, handle |-> lister'[t].handle],
         ListerInv(t)', ListOf(t)'
  PROVE  IInv'
<1>1. ListerType
  BY TypesStay
<1>2. \A u \in Listers \ {t} : ListerInv(u)'
  BY <1>1 DEF ListerType, ListerInv
<1>3. ListerType'
  BY <1>1, <1>2 DEF ListerType
<1>4. RunnerInv'
  <2>1. RunnerInv
    BY DEF IInv
  <2>2. run /\ run'
    BY <2>1 DEF RunnerInv
  <2>3. ASSUME MutatorKinds = {}, runner.ctxDone
        PROVE  /\ "templates" \in Roots /\ lister'["templates"].pc = "end"
               /\ \A u \in TemplateKinds : lister'[u].pc \in {"none", "end"}
    <3>1. /\ "templates" \in Roots /\ lister["templates"].pc = "end"
          /\ \A u \in TemplateKinds : lister[u].pc \in {"none", "end"}
      BY <2>1, <2>3 DEF RunnerInv, Ended
    <3>2. "templates" \in Listers \ {t} /\ TemplateKinds \subseteq Listers \ {t}
      BY <3>1 DEF Listers
    <3> QED
      BY <3>1, <3>2
  <2> QED
    BY <2>2, <2>3 DEF RunnerInv, Ended
<1>5. runner' = [used |-> runner'.used, canceled |-> runner'.canceled, ctxDone |-> runner'.ctxDone]
  BY TypesStay DEF RestType
<1> QED
  BY <1>3, <1>4, <1>5, ListStep

LEMMA RunStep ==
  ASSUME IInv, Run
  PROVE  IInv'
<1>1. /\ ~run /\ run'
      /\ lister' = [t \in Listers |-> IF t \in Roots THEN [lister[t] EXCEPT !.pc = "list"] ELSE lister[t]]
      /\ UNCHANGED <<cluster, ot, maps, runner, callers, asking, processed>>
  BY DEF Run
<1>2. Shrinks
  BY <1>1, NoLoss
<1>3. Steady
  BY <1>1, <1>2, SteadyIfSame
<1>4. ListerType
  BY TypesStay
<1>5. ListerType'
  <2>1. ASSUME NEW t \in Listers
        PROVE  /\ lister'[t] = [pc |-> lister'[t].pc, todo |-> lister'[t].todo,
                                cur |-> lister'[t].cur, handle |-> lister'[t].handle]
               /\ ListerInv(t)'
    <3>1. CASE t \in Roots
      BY <1>1, <1>4, <3>1 DEF ListerType, ListerInv, PCs
    <3>2. CASE t \notin Roots
      BY <1>1, <1>4, <3>2 DEF ListerType, ListerInv
    <3> QED
      BY <3>1, <3>2
  <2> QED
    BY <1>1, <2>1 DEF ListerType
<1>6. RunnerInv'
  <2>1. ~(MutatorKinds = {} /\ runner.ctxDone)
    BY <1>1 DEF IInv, RunnerInv, Listers
  <2> QED
    BY <1>1, <2>1 DEF RunnerInv
<1>7. ASSUME NEW t \in Listers PROVE lister'[t] = lister[t] \/ ListOf(t)'
  <2>1. CASE t \in Roots
    <3>1. lister'[t].pc = "list"
      BY <1>1, <1>4, <2>1 DEF ListerType
    <3> QED
      BY <3>1 DEF ListOf
  <2> QED
    BY <1>1, <2>1
<1>8. MapsType' /\ removed' = removed
  BY <1>1, TypesStay DEF maps
<1>9. runner' = [used |-> runner'.used, canceled |-> runner'.canceled, ctxDone |-> runner'.ctxDone]
  BY <1>1, TypesStay DEF RestType
<1> QED
  BY <1>1, <1>3, <1>5, <1>6, <1>7, <1>8, <1>9, ListStep

At(pc, todo, cur, handle) == [pc |-> pc, todo |-> todo, cur |-> cur, handle |-> handle]

Becomes(t, g) ==
  DOMAIN lister' = Listers /\ lister'[t] = g /\ \A u \in Listers \ {t} : lister'[u] = lister[u]

\* What the updates of a lister's fields make of it.
LEMMA Entries ==
  ASSUME IInv, NEW t \in Listers, NEW new, NEW pc, pc # "end"
  PROVE  /\ lister' = Goto(t, "end") => \E cur : Becomes(t, At("end", {}, cur, 0))
         /\ lister' = Goto(t, pc) =>
              Becomes(t, At(pc, lister[t].todo, lister[t].cur, lister[t].handle))
         /\ lister' = [Goto(t, pc) EXCEPT ![t].todo = new] =>
              Becomes(t, At(pc, new, lister[t].cur, lister[t].handle))
         /\ lister' = [Goto(t, pc) EXCEPT ![t].cur = new] =>
              Becomes(t, At(pc, lister[t].todo, new, lister[t].handle))
         /\ lister' = [Goto(t, pc) EXCEPT ![t].handle = new] =>
              Becomes(t, At(pc, lister[t].todo, lister[t].cur, new))
         /\ lister' = [lister EXCEPT ![t].todo = new] =>
              Becomes(t, At(lister[t].pc, new, lister[t].cur, lister[t].handle))
<1>1. PICK p, l, c, h : lister[t] = [pc |-> p, todo |-> l, cur |-> c, handle |-> h]
  BY TypesStay DEF ListerType
<1>2. DOMAIN lister = Listers
  BY TypesStay DEF ListerType
<1>3. lister' = Goto(t, "end") => Becomes(t, At("end", {}, "", 0))
  BY <1>2 DEF Goto, Goroutine, At, Becomes
<1>4. Goto(t, pc) = [lister EXCEPT ![t].pc = pc]
  BY DEF Goto
<1>5. lister' = Goto(t, pc) => Becomes(t, At(pc, lister[t].todo, lister[t].cur, lister[t].handle))
  BY <1>1, <1>2, <1>4 DEF At, Becomes
<1>6. lister' = [Goto(t, pc) EXCEPT ![t].todo = new] =>
        Becomes(t, At(pc, new, lister[t].cur, lister[t].handle))
  BY <1>1, <1>2, <1>4 DEF At, Becomes
<1>7. lister' = [Goto(t, pc) EXCEPT ![t].cur = new] =>
        Becomes(t, At(pc, lister[t].todo, new, lister[t].handle))
  BY <1>1, <1>2, <1>4 DEF At, Becomes
<1>8. lister' = [Goto(t, pc) EXCEPT ![t].handle = new] =>
        Becomes(t, At(pc, lister[t].todo, lister[t].cur, new))
  BY <1>1, <1>2, <1>4 DEF At, Becomes
<1>9. lister' = [lister EXCEPT ![t].todo = new] =>
        Becomes(t, At(lister[t].pc, new, lister[t].cur, lister[t].handle))
  BY <1>1, <1>2 DEF At, Becomes
<1>10. lister' = Goto(t, "end") => \E cur : Becomes(t, At("end", {}, cur, 0))
  BY <1>3, Zenon
<1> QED
  BY <1>5, <1>6, <1>7, <1>8, <1>9, <1>10

ToDo(t, todo) == IF t = "config" THEN {SyncOnly[e] : e \in todo} ELSE todo

\* Root lister t goes on.
LEMMA RootGoes ==
  ASSUME IInv, Steady, UNCHANGED <<cluster, callers, asking, processed, run, runner>>, removed' = removed,
         MapsType', NEW t \in Roots, lister[t].pc \notin {"none", "end"},
         NEW pc \in PCs, NEW todo, NEW cur, NEW handle,
         Becomes(t, At(pc, todo, cur, handle)),
         todo \subseteq Items(t), handle \in Handles,
         pc = "wait" => t # "config",
         pc \in {"expect", "get", "create", "go"} =>
           \A x \in Due(t) : x \in ToDo(t, todo) \/ Enlisted(ot'[<<t, 1>>], x),
         pc \in {"get", "create", "go"} =>
           /\ t \in {"templates", "config"} /\ cur \in Items(t)
           /\ TaskKind(cur) \in Due(t) => Enlisted(ot'[<<t, 1>>], TaskKind(cur))
  PROVE  IInv'
<1>1. ListerType /\ t \in Listers
  BY TypesStay DEF Listers
<1>2. lister'[t] = At(pc, todo, cur, handle) /\ \A u \in Listers \ {t} : lister'[u] = lister[u]
  BY DEF Becomes
<1>3. DOMAIN lister' = Listers
  BY DEF Becomes
<1>4. /\ lister'[t].pc = pc /\ lister'[t].todo = todo /\ lister'[t].cur = cur /\ lister'[t].handle = handle
      /\ lister'[t] = [pc |-> lister'[t].pc, todo |-> lister'[t].todo,
                       cur |-> lister'[t].cur, handle |-> lister'[t].handle]
  BY <1>2 DEF At
<1>5. ListerInv(t)'
  BY <1>4 DEF ListerInv
<1>6. Left(t)' = ToDo(t, todo)
  BY <1>4 DEF Left, ToDo
<1>7. ListOf(t)'
  BY <1>4, <1>6, NoLoss, RootListOf
<1> QED
  BY <1>1, <1>2, <1>3, <1>4, <1>5, <1>7, Goes

\* Task t goes on.
LEMMA TaskGoes ==
  ASSUME IInv, Steady, UNCHANGED <<cluster, callers, asking, processed, run, runner, maps>>,
         NEW t \in Listers \ Roots, lister[t].pc \notin {"none", "end"},
         NEW pc \in {"expect", "end"}, NEW todo, NEW cur, NEW handle,
         Becomes(t, At(pc, todo, cur, handle)),
         todo \subseteq Items(t), handle \in Handles,
         pc = "expect" =>
           \A n \in 1..Generations : handle = n =>
             \A x \in Due(TaskKind(t)) : x \in todo \/ Enlisted(ot'[<<TaskKind(t), n>>], x)
  PROVE  IInv'
<1>1. ListerType
  BY TypesStay
<1>2. lister'[t] = At(pc, todo, cur, handle) /\ \A u \in Listers \ {t} : lister'[u] = lister[u]
  BY DEF Becomes
<1>3. DOMAIN lister' = Listers
  BY DEF Becomes
<1>4. /\ lister'[t].pc = pc /\ lister'[t].todo = todo /\ lister'[t].cur = cur /\ lister'[t].handle = handle
      /\ lister'[t] = [pc |-> lister'[t].pc, todo |-> lister'[t].todo,
                       cur |-> lister'[t].cur, handle |-> lister'[t].handle]
  BY <1>2 DEF At
<1>5. ListerInv(t)'
  BY <1>4 DEF ListerInv, PCs
<1>6. ListOf(t)'
  BY <1>4, NoLoss, TaskListOf
<1>7. MapsType' /\ removed' = removed
  BY TypesStay DEF maps
<1> QED
  BY <1>1, <1>2, <1>3, <1>4, <1>5, <1>6, <1>7, Goes

LEMMA RootListStep ==
  ASSUME IInv, NEW t \in Roots, RootList(t)
  PROVE  IInv'
<1> DEFINE todo == CASE t = "templates" -> present \cap TemplateKinds
                     [] t = "config"    -> {e \in DataTasks : SyncOnly[e] \in present}
                     [] OTHER           -> {x \in present \cap Mutators : KindOf[x] = t}
<1>1. /\ lister[t].pc = "list"
      /\ lister' = [Goto(t, "expect") EXCEPT ![t].todo = todo]
      /\ UNCHANGED <<cluster, ot, maps, run, runner, callers, asking, processed>>
  BY DEF RootList
<1>2. t \in Listers /\ ListerInv(t)
  BY TypesStay DEF Listers, ListerType
<1>3. t \in MutatorKinds \/ t = "templates" \/ t = "config"
  BY Disjointness
<1>4. "templates" \notin MutatorKinds /\ "config" \notin MutatorKinds
  BY Disjointness
<1>5. todo \subseteq Items(t)
  BY <1>3, <1>4, TaskKinds
<1>6. \A x \in Due(t) : x \in ToDo(t, todo)
  <2>1. CASE t = "templates"
    BY <2>1, DueFormNext DEF DueForm, ToDo, Live
  <2>2. CASE t = "config"
    <3>1. Due(t) = present \cap DataKinds /\ todo = {e \in DataTasks : SyncOnly[e] \in present}
      BY <2>2, DueFormNext DEF DueForm
    <3>2. \A x \in DataKinds : \E e \in DataTasks : x = SyncOnly[e]
      BY TrackerAssumption
    <3> QED
      BY <2>2, <3>1, <3>2 DEF ToDo
  <2>3. CASE t \in MutatorKinds
    <3>1. todo = {x \in present \cap Mutators : KindOf[x] = t} /\ t # "config"
      BY <1>4, <2>3
    <3> QED
      BY <2>3, <3>1, DueFormNext DEF DueForm, ToDo, PendingMutators
  <2> QED
    BY <1>3, <2>1, <2>2, <2>3
<1> HIDE DEF todo
<1>7. Becomes(t, At("expect", todo, lister[t].cur, lister[t].handle))
  BY <1>1, <1>2, Entries
<1>8. Steady /\ MapsType' /\ removed' = removed
  BY <1>1, NoLoss, SteadyIfSame, TypesStay DEF maps
<1>9. lister[t].handle \in Handles /\ "expect" \in PCs
  BY <1>2 DEF ListerInv, PCs
<1> QED
  BY <1>1, <1>5, <1>6, <1>7, <1>8, <1>9, RootGoes

\* What a root lister knows while it expects.
LEMMA RootListed ==
  ASSUME IInv, NEW t \in Roots
  PROVE  /\ ot[<<t, 1>>] \in TrackerType /\ \A x \in Due(t) : x \in Keys /\ Known(ot[<<t, 1>>], x)
         /\ lister[t].pc \in {"expect", "get", "create", "go"} =>
              \A x \in Due(t) : x \in ToDo(t, lister[t].todo) \/ Enlisted(ot[<<t, 1>>], x)
         /\ lister[t].pc \in {"get", "create", "go"} =>
              /\ t \in {"templates", "config"} /\ lister[t].cur \in Items(t)
              /\ TaskKind(lister[t].cur) \in MapKinds
              /\ TaskKind(lister[t].cur) \in Due(t) => Enlisted(ot[<<t, 1>>], TaskKind(lister[t].cur))
         /\ lister[t].todo \subseteq Items(t) /\ lister[t].handle \in Handles
         /\ t \in Listers /\ t \in AllKinds /\ <<t, 1>> \in Trackers /\ 1 \in 1..Generations /\ 1 \in Handles
<1>1. t \in Listers /\ t \in AllKinds /\ <<t, 1>> \in Trackers /\ 1 \in 1..Generations /\ 1 \in Handles
  BY TrackersAre, Disjointness DEF Listers, AllKinds, Handles, Numbers
<1>2. ot[<<t, 1>>] \in TrackerType /\ \A x \in Due(t) : x \in Keys /\ Known(ot[<<t, 1>>], x)
  BY <1>1, DueFormNext DEF IInv, TypeInv, TrackInv, DueForm, AllKinds
<1>3. ListerInv(t) /\ ListOf(t)
  BY <1>1, TypesStay DEF IInv, ListInv, ListerType
<1>4. TrackerOf(t) = <<t, 1>> /\ Left(t) = ToDo(t, lister[t].todo)
  BY DEF TrackerOf, Left, ToDo
<1>5. lister[t].pc \in {"expect", "get", "create", "go"} =>
        \A x \in Due(t) : x \in ToDo(t, lister[t].todo) \/ Enlisted(ot[<<t, 1>>], x)
  BY <1>1, <1>3, <1>4 DEF ListOf, AllKinds
<1>6. ASSUME lister[t].pc \in {"get", "create", "go"} PROVE TaskKind(lister[t].cur) \in MapKinds
  BY <1>3, <1>6, TaskKinds, Disjointness DEF ListerInv
<1> QED
  BY <1>1, <1>2, <1>3, <1>5, <1>6 DEF ListerInv, ListOf

\* The call on the tracker of a root lister, which does not lose what is due.
LEMMA RootCall ==
  ASSUME IInv, UNCHANGED <<cluster, processed>>, NEW t \in Roots, NEW s \in TrackerType,
         ot' = IF 1 = 0 THEN ot ELSE [ot EXCEPT ![<<t, 1>>] = s],
         ot[<<t, 1>>].allSatisfied => s.allSatisfied,
         \A x \in Due(t) : Keeps(ot[<<t, 1>>], s, x),
         t = "config" => Observed(s)
  PROVE  /\ Steady /\ ot'[<<t, 1>>] = s
         /\ \A x \in Due(t) : Enlisted(ot[<<t, 1>>], x) => Enlisted(ot'[<<t, 1>>], x)
<1>1. t \in AllKinds /\ <<t, 1>> \in Trackers /\ 1 \in 1..Generations /\ 1 \in Handles
  BY RootListed
<1>2. Shrinks /\ Due(t)' = Due(t)
  BY <1>1, NoLoss
<1>3. Fair(t, ot[<<t, 1>>], s)
  BY <1>1, <1>2, FairIf
<1>4. Steady
  BY <1>1, <1>2, <1>3, OnSteady
<1>5. ot'[<<t, 1>>] = s
  BY <1>1 DEF IInv, TypeInv
<1> QED
  BY <1>4, <1>5, RootListed DEF Keeps

LEMMA MutatorExpectStep ==
  ASSUME IInv, NEW t \in MutatorKinds, NEW x, MutatorExpect(t, x)
  PROVE  IInv'
<1> DEFINE s == Expect(ot[<<t, 1>>], x, FALSE)
           todo == lister[t].todo \ {x}
<1>1. /\ lister[t].pc = "expect" /\ x \in lister[t].todo
      /\ ot' = IF 1 = 0 THEN ot ELSE [ot EXCEPT ![<<t, 1>>] = s]
      /\ lister' = [lister EXCEPT ![t].todo = lister[t].todo \ {x}]
      /\ UNCHANGED <<cluster, maps, run, runner, callers, asking, processed>>
  BY DEF MutatorExpect, On
<1>2. t \in Roots /\ t # "config" /\ x \in Keys /\ todo \subseteq Items(t)
  BY <1>1, RootListed, TaskKinds, Disjointness
<1>3. /\ s \in TrackerType
      /\ ot[<<t, 1>>].allSatisfied => s.allSatisfied
      /\ \A y : Keeps(ot[<<t, 1>>], s, y)
      /\ Known(ot[<<t, 1>>], x) => Enlisted(s, x)
  BY <1>2, RootListed, ExpectKeeps
<1> HIDE DEF s
<1>4. /\ Steady /\ ot'[<<t, 1>>] = s
      /\ \A y \in Due(t) : Enlisted(ot[<<t, 1>>], y) => Enlisted(ot'[<<t, 1>>], y)
  BY <1>1, <1>2, <1>3, RootCall
<1>5. \A y \in Due(t) : y \in ToDo(t, todo) \/ Enlisted(ot'[<<t, 1>>], y)
  BY <1>1, <1>2, <1>3, <1>4, RootListed DEF ToDo
<1>6. Becomes(t, At("expect", todo, lister[t].cur, lister[t].handle))
  BY <1>1, <1>2, RootListed, Entries
<1>7. MapsType' /\ removed' = removed /\ "expect" \in PCs /\ lister[t].handle \in Handles
  BY <1>1, <1>2, TypesStay, RootListed DEF maps, PCs
<1> HIDE DEF todo
<1> QED
  BY <1>1, <1>2, <1>4, <1>5, <1>6, <1>7, RootGoes

LEMMA KindExpectStep ==
  ASSUME IInv, NEW t \in Roots, t \notin MutatorKinds, NEW x, KindExpect(t, x)
  PROVE  IInv'
<1> DEFINE k == TaskKind(x)
           r == ot[<<t, 1>>]
           s == IF t = "config" THEN Observe(Expect(r, k, FALSE), k) ELSE Expect(r, k, FALSE)
<1>1. /\ lister[t].pc = "expect" /\ x \in lister[t].todo
      /\ ot' = IF 1 = 0 THEN ot ELSE [ot EXCEPT ![<<t, 1>>] = s]
      /\ lister' = [Goto(t, "get") EXCEPT ![t].cur = x]
      /\ UNCHANGED <<cluster, maps, run, runner, callers, asking, processed>>
  BY DEF KindExpect, On
<1>2. t \in {"templates", "config"} /\ x \in Items(t) /\ k \in Keys
  BY <1>1, RootListed, TaskKinds, Disjointness
<1>3. r \in TrackerType /\ \A y \in Due(t) : Known(r, y)
  BY RootListed
<1>4. /\ Expect(r, k, FALSE) \in TrackerType
      /\ r.allSatisfied => Expect(r, k, FALSE).allSatisfied
      /\ \A y : Keeps(r, Expect(r, k, FALSE), y)
      /\ Known(r, k) => Enlisted(Expect(r, k, FALSE), k)
  BY <1>2, <1>3, ExpectKeeps
<1>5. t = "config" => Observed(r)
  BY DEF IInv, ConfigInv
<1> HIDE DEF r, k
<1>6. CASE t = "templates"
  <2>1. s = Expect(r, k, FALSE) /\ t # "config"
    BY <1>6
  <2> HIDE DEF s
  <2>2. /\ Steady /\ ot'[<<t, 1>>] = s
        /\ \A y \in Due(t) : Enlisted(r, y) => Enlisted(ot'[<<t, 1>>], y)
    BY <1>1, <1>4, <2>1, RootCall DEF r
  <2>3. k \in Due(t) => Enlisted(s, k)
    BY <1>3, <1>4, <2>1
  <2>4. \A y \in Due(t) : y \in ToDo(t, lister[t].todo) \/ Enlisted(ot'[<<t, 1>>], y)
    BY <1>1, <2>2, RootListed DEF r
  <2>5. Becomes(t, At("get", lister[t].todo, x, lister[t].handle))
    BY <1>1, RootListed, Entries
  <2>6. /\ MapsType' /\ removed' = removed /\ "get" \in PCs
        /\ lister[t].todo \subseteq Items(t) /\ lister[t].handle \in Handles
    BY <1>1, TypesStay, RootListed DEF maps, PCs
  <2> QED
    BY <1>1, <1>2, <2>2, <2>3, <2>4, <2>5, <2>6, RootGoes DEF k
<1>7. CASE t = "config"
  <2> DEFINE e == Expect(r, k, FALSE)
  <2>1. s = Observe(e, k)
    BY <1>7
  <2>2. /\ s \in TrackerType
        /\ e.allSatisfied => s.allSatisfied
        /\ \A y : y # k => Keeps(e, s, y)
        /\ Known(e, k) => Known(s, k)
        /\ Known(e, k) /\ Enlisted(e, k) => Enlisted(s, k)
    BY <1>2, <1>4, <2>1, ObserveKeeps DEF k
  <2>3. Observed(s)
    BY <1>3, <1>5, <1>7, <2>1
       DEF Observed, unsatisfied, Expect, Observe, Satisfy, Accepts, TrackerType
  <2> HIDE DEF s, e
  <2>4. \A y \in Due(t) : /\ Known(s, y) /\ (Enlisted(r, y) => Enlisted(s, y))
                          /\ y = k => Enlisted(s, y)
    BY <1>3, <1>4, <2>2 DEF Keeps, e
  <2>5. Shrinks /\ Due(t)' = Due(t) /\ Owed(t)' = {}
    BY <1>1, <1>7, NoLoss, RootListed, DueFormNext DEF DueForm
  <2>6. Fair(t, r, s)
    BY <1>4, <1>7, <2>2, <2>3, <2>4, <2>5 DEF Fair, e
  <2>7. Steady
    BY <1>1, <2>5, <2>6, RootListed, OnSteady DEF r
  <2>8. ot'[<<t, 1>>] = s
    BY <1>1, RootListed DEF IInv, TypeInv
  <2>9. \A y \in Due(t) : y \in ToDo(t, lister[t].todo) \/ Enlisted(ot'[<<t, 1>>], y)
    BY <1>1, <2>4, <2>8, RootListed DEF r
  <2>10. Becomes(t, At("get", lister[t].todo, x, lister[t].handle))
    BY <1>1, RootListed, Entries
  <2>11. /\ MapsType' /\ removed' = removed /\ "get" \in PCs
         /\ lister[t].todo \subseteq Items(t) /\ lister[t].handle \in Handles
    BY <1>1, TypesStay, RootListed DEF maps, PCs
  <2>12. k \in Due(t) => Enlisted(ot'[<<t, 1>>], k)
    BY <2>4, <2>8
  <2> QED
    BY <1>1, <1>2, <2>7, <2>9, <2>10, <2>11, <2>12, RootGoes DEF k
<1> QED
  BY <1>2, <1>6, <1>7

LEMMA ListerGetStep ==
  ASSUME IInv, NEW t \in Roots, ListerGet(t)
  PROVE  IInv'
<1>1. PICK n : n = Lookup(TaskKind(lister[t].cur))
  OBVIOUS
<1>2. PICK pc \in {"create", "go"} : lister' = [Goto(t, pc) EXCEPT ![t].handle = n]
  BY <1>1 DEF ListerGet
<1>3. lister[t].pc = "get" /\ UNCHANGED <<cluster, ot, maps, run, runner, callers, asking, processed>>
  BY DEF ListerGet
<1>4. n \in Handles
  BY <1>1, <1>3, RootListed, LookupOf
<1>5. Becomes(t, At(pc, lister[t].todo, lister[t].cur, n))
  BY <1>2, RootListed, Entries
<1>6. Steady /\ MapsType' /\ removed' = removed /\ pc \in PCs
  BY <1>3, NoLoss, SteadyIfSame, TypesStay DEF maps, PCs
<1> QED
  BY <1>2, <1>3, <1>4, <1>5, <1>6, RootListed, RootGoes

LEMMA ListerCreateStep ==
  ASSUME IInv, NEW t \in Roots, ListerCreate(t)
  PROVE  IInv'
<1>1. PICK k : k = TaskKind(lister[t].cur)
  OBVIOUS
<1>2. /\ lister[t].pc = "create"
      /\ Create(k)
      /\ lister' = [Goto(t, "go") EXCEPT ![t].handle = made[k] + 1]
      /\ UNCHANGED <<cluster, ot, run, runner, callers, asking, processed>>
  BY <1>1 DEF ListerCreate
<1>3. k \in MapKinds
  BY <1>1, <1>2, RootListed
<1>4. made[k] + 1 \in Handles
  BY <1>2, <1>3, TypesStay, Disjointness DEF Create, MapsType, Handles, Numbers
<1>5. Becomes(t, At("go", lister[t].todo, lister[t].cur, made[k] + 1))
  BY <1>2, RootListed, Entries
<1>6. Steady /\ MapsType' /\ removed' = removed /\ "go" \in PCs
  BY <1>2, NoLoss, SteadyIfSame, CreateType DEF Create, PCs
<1> QED
  BY <1>2, <1>4, <1>5, <1>6, RootListed, RootGoes

LEMMA RootDoneStep ==
  ASSUME IInv, NEW t \in Roots, RootDone(t)
  PROVE  IInv'
<1> DEFINE r == ot[<<t, 1>>]
           s == ExpectationsDone(r)
<1>1. /\ lister[t].pc = "expect" /\ lister[t].todo = {}
      /\ ot' = IF 1 = 0 THEN ot ELSE [ot EXCEPT ![<<t, 1>>] = s]
      /\ UNCHANGED <<cluster, maps, run, runner, callers, asking, processed>>
  BY DEF RootDone, On
<1>2. \A x \in Due(t) : Enlisted(r, x)
  BY <1>1, RootListed DEF ToDo
<1>3. r \in TrackerType
  BY RootListed
<1>4. /\ s \in TrackerType
      /\ r.allSatisfied => s.allSatisfied
      /\ \A x \in Due(t) : Keeps(r, s, x)
  BY <1>2, <1>3, DoneKeeps
<1>5. t = "config" => Observed(s)
  BY <1>3 DEF IInv, ConfigInv, Observed, unsatisfied, ExpectationsDone, TrackerType
<1> HIDE DEF s
<1>6. Steady
  BY <1>1, <1>4, <1>5, RootCall
<1>7. MapsType' /\ removed' = removed /\ "end" \in PCs /\ "wait" \in PCs /\ 0 \in Handles /\ {} \subseteq Items(t)
  BY <1>1, TypesStay, Disjointness DEF maps, PCs, Handles, Numbers
<1>8. CASE t = "config"
  <2>1. lister' = Goto(t, "end")
    BY <1>8 DEF RootDone
  <2>2. PICK cur : Becomes(t, At("end", {}, cur, 0))
    BY <2>1, RootListed, Entries
  <2> QED
    BY <1>1, <1>6, <1>7, <2>2, RootGoes
<1>9. CASE t # "config"
  <2>1. lister' = Goto(t, "wait")
    BY <1>9 DEF RootDone
  <2>2. Becomes(t, At("wait", lister[t].todo, lister[t].cur, lister[t].handle))
    BY <2>1, RootListed, Entries
  <2> QED
    BY <1>1, <1>6, <1>7, <1>9, <2>2, RootListed, RootGoes
<1> QED
  BY <1>8, <1>9

LEMMA TaskListed ==
  ASSUME IInv, NEW t \in Listers \ Roots, NEW n \in 1..Generations, lister[t].handle = n
  PROVE  /\ ot[<<TaskKind(t), n>>] \in TrackerType
         /\ \A x \in Due(TaskKind(t)) : x \in Keys /\ Known(ot[<<TaskKind(t), n>>], x)
         /\ lister[t].pc = "expect" =>
              \A x \in Due(TaskKind(t)) : x \in lister[t].todo \/ Enlisted(ot[<<TaskKind(t), n>>], x)
         /\ TaskKind(t) \in AllKinds /\ TaskKind(t) # "config" /\ <<TaskKind(t), n>> \in Trackers /\ n \in Handles
<1>1. TaskKind(t) \in AllKinds /\ TaskKind(t) # "config" /\ <<TaskKind(t), n>> \in Trackers /\ n \in Handles
  BY TaskKinds, TrackersAre, Disjointness DEF AllKinds, Disjoint, Handles, Numbers
<1>2. /\ ot[<<TaskKind(t), n>>] \in TrackerType
      /\ \A x \in Due(TaskKind(t)) : x \in Keys /\ Known(ot[<<TaskKind(t), n>>], x)
  BY <1>1, DueFormNext DEF IInv, TypeInv, TrackInv, DueForm, AllKinds
<1>3. TrackerOf(t) = <<TaskKind(t), n>> /\ Left(t) = lister[t].todo
  BY TaskKinds DEF TrackerOf, Left
<1> QED
  BY <1>1, <1>2, <1>3 DEF IInv, ListInv, ListOf, AllKinds

\* The call on the tracker of a task.
LEMMA TaskCall ==
  ASSUME IInv, UNCHANGED <<cluster, processed>>, NEW t \in Listers \ Roots, NEW n, n = lister[t].handle,
         NEW s, ot' = IF n = 0 THEN ot ELSE [ot EXCEPT ![<<TaskKind(t), n>>] = s],
         n \in 1..Generations =>
           /\ s \in TrackerType
           /\ ot[<<TaskKind(t), n>>].allSatisfied => s.allSatisfied
           /\ \A x \in Due(TaskKind(t)) : Keeps(ot[<<TaskKind(t), n>>], s, x)
  PROVE  /\ Steady
         /\ n \in 1..Generations =>
              /\ ot'[<<TaskKind(t), n>>] = s
              /\ \A x \in Due(TaskKind(t)) : Enlisted(ot[<<TaskKind(t), n>>], x) => Enlisted(s, x)
<1>1. n \in Handles
  BY TypesStay DEF ListerType, ListerInv
<1>2. TaskKind(t) \in AllKinds
  BY TaskKinds DEF AllKinds
<1>3. Shrinks /\ Due(TaskKind(t))' = Due(TaskKind(t))
  BY <1>2, NoLoss
<1>4. n \in 1..Generations /\ <<TaskKind(t), n>> \in Trackers => Fair(TaskKind(t), ot[<<TaskKind(t), n>>], s)
  BY <1>2, <1>3, TaskListed, FairIf
<1>5. Steady
  BY <1>1, <1>2, <1>3, <1>4, OnSteady
<1>6. n \in 1..Generations => ot'[<<TaskKind(t), n>>] = s /\ n # 0
  BY TaskListed DEF IInv, TypeInv
<1> QED
  BY <1>5, <1>6, TaskListed DEF Keeps

LEMMA TaskListStep ==
  ASSUME IInv, NEW t \in Listers \ Roots, TaskList(t)
  PROVE  IInv'
<1> DEFINE k == TaskKind(t)
           todo == present \cap ObjectsOf(k)
<1>1. /\ lister[t].pc = "list"
      /\ lister' = [Goto(t, "expect") EXCEPT ![t].todo = todo]
      /\ UNCHANGED <<cluster, ot, maps, run, runner, callers, asking, processed>>
  BY DEF TaskList
<1>2. \A x \in Due(k) : x \in todo
  BY TaskKinds, DueFormNext DEF DueForm, Pending
<1>3. todo \subseteq Items(t)
  BY TaskKinds
<1> HIDE DEF todo
<1>4. Becomes(t, At("expect", todo, lister[t].cur, lister[t].handle))
  BY <1>1, Entries
<1>5. Steady
  BY <1>1, NoLoss, SteadyIfSame
<1>6. lister[t].handle \in Handles
  BY TypesStay DEF ListerType, ListerInv
<1> QED
  BY <1>1, <1>2, <1>3, <1>4, <1>5, <1>6, TaskGoes

LEMMA TaskExpectStep ==
  ASSUME IInv, NEW t \in Listers \ Roots, NEW o, TaskExpect(t, o)
  PROVE  IInv'
<1>0. PICK k, n : k = TaskKind(t) /\ n = lister[t].handle
  OBVIOUS
<1> DEFINE r == ot[<<k, n>>]
           s == Expect(r, o, FALSE)
           todo == lister[t].todo \ {o}
<1>1. /\ lister[t].pc = "expect" /\ o \in lister[t].todo
      /\ ot' = IF n = 0 THEN ot ELSE [ot EXCEPT ![<<k, n>>] = s]
      /\ lister' = [lister EXCEPT ![t].todo = lister[t].todo \ {o}]
      /\ UNCHANGED <<cluster, maps, run, runner, callers, asking, processed>>
  BY <1>0 DEF TaskExpect, On
<1>2. lister[t].todo \subseteq Items(t) /\ lister[t].handle \in Handles
  BY TypesStay DEF ListerType, ListerInv
<1>3. o \in Keys /\ todo \subseteq Items(t)
  BY <1>1, <1>2, TaskKinds, Disjointness DEF ObjectsOf
<1>4. ASSUME n \in 1..Generations
      PROVE  /\ s \in TrackerType
             /\ r.allSatisfied => s.allSatisfied
             /\ \A x \in Due(k) : Keeps(r, s, x)
             /\ o \in Due(k) => Enlisted(s, o)
  <2>1. r \in TrackerType /\ \A x \in Due(k) : Known(r, x)
    BY <1>0, <1>4, TaskListed
  <2> QED
    BY <1>3, <2>1, ExpectKeeps
<1> HIDE DEF s, todo
<1>5. /\ Steady
      /\ n \in 1..Generations =>
           /\ ot'[<<k, n>>] = s
           /\ \A x \in Due(k) : Enlisted(r, x) => Enlisted(s, x)
  BY <1>0, <1>1, <1>4, TaskCall
<1>6. ASSUME NEW i \in 1..Generations, lister[t].handle = i, NEW x \in Due(k)
      PROVE  x \in todo \/ Enlisted(ot'[<<k, i>>], x)
  <2>1. x \in lister[t].todo \/ Enlisted(r, x)
    BY <1>0, <1>1, <1>6, TaskListed
  <2> QED
    BY <1>0, <1>4, <1>5, <1>6, <2>1 DEF todo
<1>7. Becomes(t, At("expect", todo, lister[t].cur, lister[t].handle))
  BY <1>1, Entries DEF todo
<1> QED
  BY <1>0, <1>1, <1>2, <1>3, <1>5, <1>6, <1>7, TaskGoes

\* ExpectationsDone of a task whose objects are all expected.
LEMMA TaskFinishes ==
  ASSUME IInv, NEW t \in Listers \ Roots, lister[t].pc \notin {"none", "end"},
         NEW k, k = TaskKind(t), NEW n, n = lister[t].handle,
         ot' = IF n = 0 THEN ot ELSE [ot EXCEPT ![<<k, n>>] = ExpectationsDone(ot[<<k, n>>])],
         lister' = Goto(t, "end"),
         UNCHANGED <<cluster, maps, run, runner, callers, asking, processed>>,
         n \in 1..Generations => \A x \in Due(k) : Enlisted(ot[<<k, n>>], x)
  PROVE  IInv'
<1> DEFINE r == ot[<<k, n>>]
           s == ExpectationsDone(r)
<1>1. n \in 1..Generations => /\ s \in TrackerType
                              /\ r.allSatisfied => s.allSatisfied
                              /\ \A x \in Due(k) : Keeps(r, s, x)
  BY TaskListed, DoneKeeps
<1> HIDE DEF s
<1>2. Steady
  BY <1>1, TaskCall DEF s
<1>3. PICK cur : Becomes(t, At("end", {}, cur, 0))
  BY Entries
<1>4. 0 \in Handles /\ {} \subseteq Items(t)
  BY Disjointness DEF Handles, Numbers
<1> QED
  BY <1>2, <1>3, <1>4, TaskGoes

LEMMA TaskDoneStep ==
  ASSUME IInv, NEW t \in Listers \ Roots, TaskDone(t)
  PROVE  IInv'
<1>0. PICK k, n : k = TaskKind(t) /\ n = lister[t].handle
  OBVIOUS
<1>1. /\ lister[t].pc = "expect" /\ lister[t].todo = {}
      /\ ot' = IF n = 0 THEN ot ELSE [ot EXCEPT ![<<k, n>>] = ExpectationsDone(ot[<<k, n>>])]
      /\ lister' = Goto(t, "end")
      /\ UNCHANGED <<cluster, maps, run, runner, callers, asking, processed>>
  BY <1>0 DEF TaskDone, On
<1>2. n \in 1..Generations => \A x \in Due(k) : Enlisted(ot[<<k, n>>], x)
  BY <1>0, <1>1, TaskListed
<1> QED
  BY <1>0, <1>1, <1>2, TaskFinishes

\* A task gives up only a kind whose objects nothing waits for.
LEMMA TaskAbortStep ==
  ASSUME IInv, NEW t \in Listers \ Roots, TaskAbort(t)
  PROVE  IInv'
<1>0. PICK k, n : k = TaskKind(t) /\ n = lister[t].handle
  OBVIOUS
<1>1. /\ lister[t].pc = "list"
      /\ TaskCanceled(t) \/ (t \in DataTasks /\ SyncOnly[t] \in broken)
      /\ ot' = IF n = 0 THEN ot ELSE [ot EXCEPT ![<<k, n>>] = ExpectationsDone(ot[<<k, n>>])]
      /\ lister' = Goto(t, "end")
      /\ UNCHANGED <<cluster, maps, run, runner, callers, asking, processed>>
  BY <1>0 DEF TaskAbort, On
<1>2. TaskKind(t) \notin Live \cap Sure
  <2>1. CASE TaskCanceled(t)
    <3>1. t \in TemplateKinds /\ TaskKind(t) = t
      BY <2>1, TaskKinds DEF TaskCanceled
    <3>2. t \in runner.canceled => t \notin Live
      BY DEF IInv, KeptInv
    <3>3. MutatorKinds = {} => ~runner.ctxDone
      BY <1>1, <3>1 DEF IInv, RunnerInv, Ended
    <3>4. t \notin DataKinds
      BY <3>1, Disjointness DEF Disjoint
    <3> QED
      BY <2>1, <3>1, <3>2, <3>3, <3>4 DEF TaskCanceled, Sure
  <2>2. CASE t \in DataTasks /\ SyncOnly[t] \in broken
    BY <2>2 DEF TaskKind, Live
  <2> QED
    BY <1>1, <2>1, <2>2
<1>3. Due(k) = {}
  BY <1>0, <1>2, TaskKinds, DueFormNext DEF DueForm, Pending
<1> QED
  BY <1>0, <1>1, <1>3, TaskFinishes

LEMMA ListerGoStep ==
  ASSUME IInv, NEW t \in Roots, ListerGo(t)
  PROVE  IInv'
<1>0. PICK cur, todo, h : cur = lister[t].cur /\ todo = lister[t].todo \ {cur} /\ h = lister[t].handle
  OBVIOUS
<1>1. /\ lister[t].pc = "go"
      /\ UNCHANGED <<cluster, ot, maps, run, callers, asking, processed>>
      /\ runner' = runner \/ runner' = [runner EXCEPT !.used = @ \cup {cur}]
  BY <1>0 DEF ListerGo
<1> DEFINE back == [lister EXCEPT ![t] = [Goroutine("expect") EXCEPT !.todo = todo]]
<1>2. \/ lister' = back
      \/ lister' = [back EXCEPT ![cur].pc = "list", ![cur].handle = h]
  BY <1>0 DEF ListerGo
<1>3. /\ t \in {"templates", "config"} /\ cur \in Items(t) /\ h \in Handles /\ todo \subseteq Items(t)
      /\ t = "templates" => cur \in TemplateKinds
      /\ t = "config" => cur \in DataTasks
  BY <1>0, <1>1, RootListed, TaskKinds
<1>4. t \in Listers /\ cur \in Listers \ Roots /\ cur # t
  <2>1. cur \in Listers /\ (t = "templates" => cur \in TemplateKinds) /\ (t = "config" => cur \in DataTasks)
    BY <1>3, TaskKinds
  <2> QED
    BY <1>3, <2>1, TrackerAssumption DEF Listers, Disjoint, MapKinds
<1>5. ListerType
  BY TypesStay
<1>6. PICK none : back[t] = At("expect", todo, none, 0)
  <2>1. back[t] = At("expect", todo, "", 0)
    BY <1>4, <1>5 DEF ListerType, Goroutine, At
  <2> QED
    BY <2>1, Zenon
<1>7. DOMAIN back = Listers /\ \A u \in Listers \ {t} : back[u] = lister[u]
  BY <1>4, <1>5 DEF ListerType
<1> HIDE DEF back
<1>8. PICK p, l, c, i : lister[cur] = [pc |-> p, todo |-> l, cur |-> c, handle |-> i]
  BY <1>4, <1>5 DEF ListerType
<1>9. /\ DOMAIN lister' = Listers
      /\ lister'[t] = At("expect", todo, none, 0)
      /\ \A u \in Listers \ {t, cur} : lister'[u] = lister[u]
      /\ lister'[cur] = lister[cur] \/ lister'[cur] = At("list", l, c, h)
  <2>1. CASE lister' = back
    BY <1>4, <1>6, <1>7, <2>1
  <2>2. CASE lister' = [back EXCEPT ![cur].pc = "list", ![cur].handle = h]
    <3>1. DOMAIN lister' = Listers /\ \A u \in Listers \ {cur} : lister'[u] = back[u]
      BY <1>7, <2>2
    <3>2. back[cur] = [pc |-> p, todo |-> l, cur |-> c, handle |-> i]
      BY <1>4, <1>7, <1>8
    <3>4. PICK mid : mid = [back EXCEPT ![cur].pc = "list"]
      OBVIOUS
    <3>5. lister' = [mid EXCEPT ![cur].handle = h]
      BY <2>2, <3>4, Zenon
    <3>6. mid[cur] = [pc |-> "list", todo |-> l, cur |-> c, handle |-> i] /\ DOMAIN mid = Listers
      BY <1>4, <1>7, <3>2, <3>4
    <3>3. lister'[cur] = [pc |-> "list", todo |-> l, cur |-> c, handle |-> h]
      BY <1>4, <3>5, <3>6
    <3> QED
      BY <1>4, <1>6, <1>7, <3>1, <3>3 DEF At
  <2> QED
    BY <1>2, <2>1, <2>2
<1>10. Shrinks /\ Steady
  BY <1>1, NoLoss, SteadyIfSame
<1>11. ListerType'
  <2>1. ASSUME NEW u \in Listers
        PROVE  /\ lister'[u] = [pc |-> lister'[u].pc, todo |-> lister'[u].todo,
                                cur |-> lister'[u].cur, handle |-> lister'[u].handle]
               /\ ListerInv(u)'
    <3>1. CASE lister'[u] = lister[u]
      BY <1>5, <3>1 DEF ListerType, ListerInv
    <3>2. CASE u = t
      <4>1. lister'[u] = [pc |-> "expect", todo |-> todo, cur |-> none, handle |-> 0]
        BY <1>9, <3>2 DEF At
      <4>2. lister'[u].pc = "expect" /\ lister'[u].todo = todo /\ lister'[u].handle = 0
        BY <4>1
      <4>3. 0 \in Handles
        BY Disjointness DEF Handles, Numbers
      <4>4. ListerInv(u)'
        BY <1>3, <3>2, <4>2, <4>3 DEF ListerInv, PCs
      <4> QED
        BY <4>1, <4>4
    <3>3. CASE u = cur /\ lister'[u] = At("list", l, c, h)
      <4>1. lister'[u] = [pc |-> "list", todo |-> l, cur |-> c, handle |-> h]
        BY <3>3 DEF At
      <4>2. l \subseteq Items(u)
        BY <1>5, <1>8, <3>3 DEF ListerType, ListerInv
      <4> QED
        BY <1>3, <4>1, <4>2 DEF ListerInv, PCs
    <3> QED
      BY <1>9, <3>1, <3>2, <3>3
  <2> QED
    BY <1>9, <2>1 DEF ListerType
<1>12. RunnerInv'
  <2>1. run /\ run'
    BY <1>1, <1>4 DEF IInv, RunnerInv
  <2>2. runner'.ctxDone = runner.ctxDone
    BY <1>1, TypesStay DEF RestType
  <2>3. ASSUME MutatorKinds = {}, runner.ctxDone
        PROVE  /\ "templates" \in Roots /\ lister'["templates"].pc = "end"
               /\ \A u \in TemplateKinds : lister'[u].pc \in {"none", "end"}
    <3>1. /\ "templates" \in Roots /\ lister["templates"].pc = "end"
          /\ \A u \in TemplateKinds : lister[u].pc \in {"none", "end"}
      BY <2>3 DEF IInv, RunnerInv, Ended
    <3>2. t = "config" /\ cur \in DataTasks
      BY <1>1, <1>3, <3>1
    <3>3. "templates" \in Listers \ {t, cur} /\ TemplateKinds \subseteq Listers \ {t, cur}
      BY <1>1, <3>1, <3>2, TrackerAssumption DEF Listers, Disjoint, MapKinds
    <3> QED
      BY <1>9, <3>1, <3>3
  <2> QED
    BY <2>1, <2>2, <2>3 DEF RunnerInv, Ended
<1>13. ListOf(t)'
  <2>1. lister'[t].pc = "expect" /\ lister'[t].todo = todo
    BY <1>9 DEF At
  <2>9. Left(t)' = ToDo(t, todo)
    BY <2>1 DEF Left, ToDo
  <2>2. ASSUME NEW x \in Due(t) PROVE x \in ToDo(t, todo) \/ Enlisted(ot'[<<t, 1>>], x)
    <3>1. x \in ToDo(t, lister[t].todo) \/ Enlisted(ot[<<t, 1>>], x)
      BY <1>1, RootListed
    <3>2. TaskKind(cur) \in Due(t) => Enlisted(ot[<<t, 1>>], TaskKind(cur))
      BY <1>0, <1>1, RootListed
    <3>3. x \in ToDo(t, lister[t].todo) => x \in ToDo(t, todo) \/ x = TaskKind(cur)
      <4>1. CASE t = "config"
        <5>1. TaskKind(cur) = SyncOnly[cur]
          BY <1>3, <4>1 DEF TaskKind
        <5> QED
          BY <1>0, <4>1, <5>1 DEF ToDo
      <4>2. CASE t # "config"
        <5>1. TaskKind(cur) = cur
          BY <1>3, <4>2, TaskKinds
        <5> QED
          BY <1>0, <4>2, <5>1 DEF ToDo
      <4> QED
        BY <4>1, <4>2
    <3> QED
      BY <1>1, <3>1, <3>2, <3>3
  <2> QED
    BY <1>10, <2>1, <2>2, <2>9, RootListOf
<1>14. ASSUME NEW u \in Listers PROVE lister'[u] = lister[u] \/ ListOf(u)'
  <2>1. lister'[cur] = At("list", l, c, h) => ListOf(cur)'
    BY DEF ListOf, At
  <2> QED
    BY <1>9, <1>13, <2>1
<1>15. /\ runner'.canceled = runner.canceled
       /\ runner' = [used |-> runner'.used, canceled |-> runner'.canceled, ctxDone |-> runner'.ctxDone]
  BY <1>1, TypesStay DEF RestType
<1>16. MapsType' /\ removed' = removed
  BY <1>1, TypesStay DEF maps
<1> QED
  BY <1>1, <1>10, <1>11, <1>12, <1>14, <1>15, <1>16, ListStep

LEMMA RunnerWaitStep ==
  ASSUME IInv, NEW t \in Roots, RunnerWait(t)
  PROVE  IInv'
<1>1. /\ lister[t].pc = "wait"
      /\ Ended(TemplateKinds)
      /\ runner' = [runner EXCEPT !.ctxDone = TRUE]
      /\ lister' = Goto(t, "end")
      /\ UNCHANGED <<cluster, ot, maps, run, callers, asking, processed>>
  BY DEF RunnerWait
<1>2. Steady
  BY <1>1, NoLoss, SteadyIfSame
<1>0. PICK cur : Becomes(t, At("end", {}, cur, 0))
  BY <1>1, RootListed, Entries
<1>3. /\ DOMAIN lister' = Listers /\ lister'[t] = [pc |-> "end", todo |-> {}, cur |-> cur, handle |-> 0]
      /\ \A u \in Listers \ {t} : lister'[u] = lister[u]
  BY <1>0 DEF Becomes, At
<1>9. lister'[t].pc = "end" /\ lister'[t].todo = {} /\ lister'[t].handle = 0
  BY <1>3
<1>4. ListerType'
  <2>1. ASSUME NEW u \in Listers
        PROVE  /\ lister'[u] = [pc |-> lister'[u].pc, todo |-> lister'[u].todo,
                                cur |-> lister'[u].cur, handle |-> lister'[u].handle]
               /\ ListerInv(u)'
    <3>1. CASE u = t
      <4>1. 0 \in Handles /\ {} \subseteq Items(t)
        BY Disjointness DEF Handles, Numbers
      <4>2. ListerInv(t)'
        BY <1>9, <4>1 DEF ListerInv, PCs
      <4> QED
        BY <1>3, <3>1, <1>9, <4>2
    <3>2. CASE u # t
      BY <1>3, <3>2, TypesStay DEF ListerType, ListerInv
    <3> QED
      BY <3>1, <3>2
  <2> QED
    BY <1>3, <2>1 DEF ListerType
<1>5. RunnerInv'
  <2>1. run /\ run'
    BY <1>1, RootListed DEF IInv, RunnerInv
  <2>2. MutatorKinds = {} => t = "templates"
    <3>1. t # "config"
      BY <1>1, RootListed, TypesStay DEF ListerType, ListerInv
    <3> QED
      BY <3>1, Disjointness
  <2>3. \A u \in TemplateKinds : lister'[u].pc \in {"none", "end"}
    <3>1. TemplateKinds \subseteq Listers \ {t}
      BY TaskKinds, TrackerAssumption DEF Disjoint, MapKinds
    <3> QED
      BY <1>1, <1>3, <3>1 DEF Ended
  <2> QED
    BY <1>9, <2>1, <2>2, <2>3 DEF RunnerInv, Ended
<1>6. ASSUME NEW u \in Listers PROVE lister'[u] = lister[u] \/ ListOf(u)'
  <2>1. ListOf(t)'
    BY <1>9 DEF ListOf
  <2> QED
    BY <1>3, <2>1
<1>7. /\ runner'.canceled = runner.canceled
      /\ runner' = [used |-> runner'.used, canceled |-> runner'.canceled, ctxDone |-> runner'.ctxDone]
  BY <1>1, TypesStay DEF RestType
<1>8. MapsType' /\ removed' = removed
  BY <1>1, TypesStay DEF maps
<1> QED
  BY <1>1, <1>2, <1>4, <1>5, <1>6, <1>7, <1>8, ListStep

-------------------------------------------------------------------------------
\* The invariant and what follows from it

LEMMA InitInvariant ==
  ASSUME Init
  PROVE  IInv
<1>1. /\ ot = [t \in Trackers |-> newObjTracker]
      /\ m = [k \in MapKinds |-> 0] /\ made = [k \in MapKinds |-> 0]
      /\ dirty = {} /\ removed = {} /\ run = FALSE /\ processed = {}
      /\ satisfied = FALSE /\ probe = NextProbe
      /\ runner = [used |-> {}, canceled |-> {}, ctxDone |-> FALSE]
  BY DEF Init
<1>2. /\ collector = [pc |-> collector.pc, k |-> collector.k, n |-> collector.n, keys |-> collector.keys]
      /\ collector.pc = "idle"
  BY DEF Init, NoCollect
<1>3. tc = [pc |-> tc.pc, k |-> tc.k] /\ tc.pc = "idle"
  BY DEF Init, NoCleanup
<1>4. PICK none : lister = [t \in Listers |-> [pc |-> "none", todo |-> {}, cur |-> none, handle |-> 0]]
  BY Zenon DEF Init, Goroutine
<1>5. PICK call : call = NoCall
  OBVIOUS
<1>6. cc = [c \in Controllers |-> call]
  BY <1>5 DEF Init
<1>7. /\ call = [pc |-> call.pc, o |-> call.o, verb |-> call.verb, handle |-> call.handle]
      /\ call.pc = "idle"
  BY <1>5, Zenon DEF NoCall
<1>8. call.handle = 0
  BY <1>5 DEF NoCall
<1>9. 0 \in Numbers /\ 0 \in Handles
  BY Disjointness DEF Numbers, Handles
<1>10. ot \in [Trackers -> TrackerType] /\ \A k \in AllKinds, n \in 1..Generations :
                                             <<k, n>> \in Trackers => ot[<<k, n>>] = newObjTracker
  BY <1>1, NewTracker
<1>11. ListerType
  <2>1. \A t \in Listers : /\ lister[t] = [pc |-> "none", todo |-> {}, cur |-> none, handle |-> 0]
                           /\ lister[t].pc = "none" /\ lister[t].todo = {} /\ lister[t].handle = 0
    BY <1>4
  <2>2. \A t \in Listers : ListerInv(t)
    BY <1>9, <2>1 DEF ListerInv, PCs
  <2> QED
    BY <1>4, <2>1, <2>2 DEF ListerType
<1>12. MapsType
  BY <1>1, <1>9 DEF MapsType
<1>13. CallType
  BY <1>6, <1>7, <1>8, <1>9 DEF CallType
<1>14. /\ runner = [used |-> runner.used, canceled |-> runner.canceled, ctxDone |-> runner.ctxDone]
       /\ runner.canceled = {} /\ runner.ctxDone = FALSE
  BY <1>1
<1>15. /\ probe = [stage |-> 1, todo |-> MutatorKinds]
       /\ probe.stage = 1 /\ probe.todo = MutatorKinds
  BY <1>1, StagesAre DEF NextProbe
<1>16. RestType
  BY <1>2, <1>3, <1>14, <1>15, Disjointness DEF RestType, AllKinds
<1>17. TypeInv
  BY <1>10, <1>11, <1>12, <1>13, <1>16, TypeParts
<1>18. KeptInv
  BY <1>1, <1>3, <1>14 DEF KeptInv
<1>19. RunnerInv
  BY <1>4, <1>14 DEF RunnerInv
<1>20. CollectorInv
  BY <1>2 DEF CollectorInv
<1>21. ConfigInv
  <2>1. "config" \in Roots => ot[<<"config", 1>>] = newObjTracker
    BY <1>10, TrackersAre, Disjointness DEF AllKinds
  <2> QED
    BY <2>1 DEF ConfigInv, Observed, unsatisfied, newObjTracker
<1>22. TrackInv
  BY <1>10, NewTracker DEF TrackInv, AllKinds
<1>23. ListInv
  BY <1>4 DEF ListInv, ListOf
<1>24. ProbeInv
  <2>1. \A k \in MutatorKinds : ~Passed(1, k)
    BY <1>15 DEF Passed
  <2>2. \A k : ~Passed(2, k) /\ ~Passed(3, k) /\ ~Passed(4, k) /\ ~Passed(5, k)
    BY <1>15 DEF Passed
  <2> QED
    BY <2>1, <2>2 DEF ProbeInv
<1>25. ReadyInv
  BY <1>1 DEF ReadyInv
<1> QED
  BY <1>17, <1>18, <1>19, <1>20, <1>21, <1>22, <1>23, <1>24, <1>25 DEF IInv

LEMMA StutterStep ==
  ASSUME IInv, UNCHANGED vars
  PROVE  IInv'
<1>1. UNCHANGED <<cluster, ot, maps, tasks, callers, asking, processed>>
  BY DEF vars
<1>2. UNCHANGED <<broken, present, ingested, processed, ot, removed, tasks, tc, asking>> /\ dirty' = dirty
  BY <1>1 DEF cluster, maps, callers
<1>3. MapsType' /\ CallType'
  BY <1>1, TypesStay DEF maps, callers
<1> QED
  BY <1>2, <1>3, CallStep

LEMMA RootSteps ==
  ASSUME IInv, NEW t \in Roots, RootStep(t)
  PROVE  IInv'
<1>1. CASE RootList(t)
  BY <1>1, RootListStep
<1>2. CASE RootDone(t)
  BY <1>2, RootDoneStep
<1>3. CASE \E x \in lister[t].todo : IF t \in MutatorKinds THEN MutatorExpect(t, x) ELSE KindExpect(t, x)
  BY <1>3, MutatorExpectStep, KindExpectStep
<1>4. CASE ListerGet(t)
  BY <1>4, ListerGetStep
<1>5. CASE ListerCreate(t)
  BY <1>5, ListerCreateStep
<1>6. CASE ListerGo(t)
  BY <1>6, ListerGoStep
<1>7. CASE RunnerWait(t)
  BY <1>7, RunnerWaitStep
<1> QED
  BY <1>1, <1>2, <1>3, <1>4, <1>5, <1>6, <1>7 DEF RootStep

LEMMA TaskSteps ==
  ASSUME IInv, NEW t \in Listers \ Roots, TaskStep(t)
  PROVE  IInv'
BY TaskAbortStep, TaskListStep, TaskExpectStep, TaskDoneStep DEF TaskStep

LEMMA TemplateControllerSteps ==
  ASSUME IInv, TemplateControllerStep
  PROVE  IInv'
BY TemplateObserveStep, TemplateTryCancelStep, TemplateCancelStep, CleanupRemoveStep, CleanupCancelStep
   DEF TemplateControllerStep, TemplateReconcile

LEMMA ObjectControllerSteps ==
  ASSUME IInv, NEW c \in Controllers, ObjectControllerStep(c)
  PROVE  IInv'
BY ObjectReconcileStep, ForCheckStep, ForGetStep, ForCreateStep, ObjectReportStep
   DEF ObjectControllerStep

LEMMA ProbeSteps ==
  ASSUME IInv, ProbeStep
  PROVE  IInv'
<1>1. CASE \E k \in probe.todo : ProbeCheck(k)
  <2>1. PICK k \in probe.todo : ProbeCheck(k)
    BY <1>1
  <2>2. k \in AllKinds
    BY TypesStay DEF RestType
  <2> QED
    BY <2>1, <2>2, ProbeCheckStep DEF AllKinds
<1> QED
  BY <1>1, ProbeNextStageStep, ProbeReadyStep DEF ProbeStep

LEMMA NextInvariant ==
  ASSUME IInv, Next
  PROVE  IInv'
<1>1. CASE \E x \in Keys : Delete(x)
  BY <1>1, DeleteStep
<1>2. CASE InformersSync \/ ConfigSync
  BY <1>2, InformersSyncStep, ConfigSyncStep
<1>3. CASE \E k \in DataKinds : ConfigDrop(k)
  BY <1>3, ConfigDropStep
<1>4. CASE Run
  BY <1>4, RunStep
<1>5. CASE \E t \in Roots : RootStep(t)
  BY <1>5, RootSteps
<1>6. CASE \E t \in Listers \ Roots : TaskStep(t)
  BY <1>6, TaskSteps
<1>7. CASE TemplateControllerStep
  BY <1>7, TemplateControllerSteps
<1>8. CASE \E x \in Mutators : MutatorReconcile(x)
  BY <1>8, MutatorReconcileStep
<1>9. CASE \E c \in Controllers : ObjectControllerStep(c)
  BY <1>9, ObjectControllerSteps
<1>10. CASE ProbeStep
  BY <1>10, ProbeSteps
<1>11. CASE \E k \in Roots \cup MapKinds : CollectList(k)
  BY <1>11, CollectListStep
<1>12. CASE CollectRest
  BY <1>12, CollectUnsatisfiedStep, CollectCancelStep DEF CollectRest
<1> QED
  BY <1>1, <1>2, <1>3, <1>4, <1>5, <1>6, <1>7, <1>8, <1>9, <1>10, <1>11, <1>12 DEF Next

\* The inductive invariant: types, nothing live given up (KeptInv), what the
\* listers, the trackers, the collector and the probe owe to what is due.
THEOREM ReadinessInvariance == Spec => []IInv
<1>1. Init => IInv
  BY InitInvariant
<1>2. IInv /\ [Next]_vars => IInv'
  BY NextInvariant, StutterStep
<1> QED
  BY <1>1, <1>2, PTL DEF Spec

(***************************************************************************)
(* What readiness means whatever is configured: every template that exists *)
(* and compiles is ingested, and every synced object and every mutator     *)
(* that exists was handled by its controller: ingested, or reported after  *)
(* it was rejected (Tracker.Satisfied).                                    *)
(***************************************************************************)
ReadyForSure ==
  satisfied =>
    /\ (present \cap TemplateKinds) \ broken \subseteq ingested
    /\ {o \in Served : KindOf[o] \in Sure} \cup (present \cap Mutators) \subseteq processed

LEMMA ReadyMeans ==
  ASSUME IInv
  PROVE  ReadyForSure
<1> SUFFICES ASSUME satisfied
             PROVE  /\ (present \cap TemplateKinds) \ broken \subseteq ingested
                    /\ \A o \in Served : KindOf[o] \in Sure => o \in processed
                    /\ present \cap Mutators \subseteq processed
  BY DEF ReadyForSure
<1>1. \A k \in AllKinds : Owed(k) = {}
  BY DEF IInv, ReadyInv, AllKinds
<1>2. (present \cap TemplateKinds) \ broken \subseteq ingested
  <2>1. TemplateKinds # {} => Owed("templates") = {} /\ "templates" \in Roots
    BY <1>1, Disjointness DEF AllKinds
  <2>2. TemplateKinds # {} => (Live \cap TemplateKinds) \ ingested = {}
    BY <2>1, DueFormNext DEF DueForm
  <2> QED
    BY <2>2, Disjointness DEF Live
<1>3. ASSUME NEW o \in Served, KindOf[o] \in Sure PROVE o \in processed
  <2>1. KindOf[o] \in MapKinds /\ KindOf[o] \in Live /\ o \in ObjectsOf(KindOf[o]) \cap present
    BY TrackerAssumption DEF Served, Live, ObjectsOf
  <2>2. Pending(KindOf[o]) = {}
    BY <1>1, <2>1, DueFormNext DEF DueForm, AllKinds
  <2> QED
    BY <1>3, <2>1, <2>2 DEF Pending
<1>4. ASSUME NEW x \in present \cap Mutators PROVE x \in processed
  <2>1. KindOf[x] \in MutatorKinds /\ KindOf[x] \in AllKinds
    BY TrackerAssumption, Disjointness DEF AllKinds
  <2>2. PendingMutators(KindOf[x]) = {}
    BY <1>1, <2>1, DueFormNext DEF DueForm
  <2> QED
    BY <2>2 DEF PendingMutators
<1> QED
  BY <1>2, <1>3, <1>4

\* Readiness is never reported before the templates, the synced objects and the
\* mutators that exist have been handled (Tracker.Satisfied).
THEOREM ReadyForSureAlways == Spec => []ReadyForSure
BY ReadinessInvariance, ReadyMeans, PTL

(***************************************************************************)
(* No false readiness at all, constraints included, when mutation is       *)
(* disabled or there is no template.  With both, the listers of mutators   *)
(* may cancel the context of the shared SingleRunner, and a constraint     *)
(* that exists may go unexpected (SingleRunner.Wait, trackConstraints).    *)
(***************************************************************************)
THEOREM ReadyIsSound ==
  ASSUME MutatorKinds = {} \/ TemplateKinds = {}
  PROVE  Spec => []ReadySound
<1>1. ReadyForSure => ReadySound
  <2>1. \A o \in Served : KindOf[o] \in Sure
    BY TrackerAssumption DEF Served, Sure, MapKinds
  <2> QED
    BY <2>1 DEF ReadyForSure, ReadySound
<1> QED
  BY <1>1, ReadyForSureAlways, PTL

\* A constraint kind or data kind that exists and can be served is never
\* removed from a trackerMap and its lister is never cancelled
\* (templateCleanup, CancelData, SingleRunner.Cancel).
THEOREM LiveIsKept == Spec => [](Live \cap (removed \cup runner.canceled) = {})
<1>1. IInv => Live \cap (removed \cup runner.canceled) = {}
  BY DEF IInv, KeptInv
<1> QED
  BY <1>1, ReadinessInvariance, PTL
===============================================================================
