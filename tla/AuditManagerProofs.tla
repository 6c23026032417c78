-------------------------- MODULE AuditManagerProofs --------------------------
(***************************************************************************)
(* Proofs about the audit manager, for any objects, constraints, chunks    *)
(* and limits, any number of audits, changes, failed requests and          *)
(* timeouts: the writers of a status keep each other's part, an abandoned  *)
(* writer puts an older result back at most once, and the totals are exact. *)
(***************************************************************************)
EXTENDS AuditManager, FiniteSetTheorems, TLAPS

-------------------------------------------------------------------------------
\* Types

StatusType == [ts : Nat, total : Nat, shown : SUBSET Objects, byPod : Nat, rv : Nat]

ResultType == [total : [Constraints -> Nat], shown : [Constraints -> SUBSET Objects]]

\* What AuditFromCache and AuditList leave in a chunk.
EntryType == [o : Objects, hit : SUBSET Constraints] \cup [o : Objects, bad : BOOLEAN]

ManagerType ==
  [pc : {"idle", "cache", "add", "discover", "match", "list", "review", "write", "wait", "start"},
   ckinds : SUBSET CKinds, kinds : SUBSET Kinds, matched : SUBSET (Kinds \cup {AllKinds}),
   listed : SUBSET Objects, chunk : SUBSET EntryType,
   nsCache : SUBSET {NamespaceOf[o] : o \in Objects}, errs : BOOLEAN,
   res : ResultType, now : Nat, last : Nat]

WriterType ==
  [pc : {"none", "kinds", "check", "get", "update", "stopped"},
   ckinds : SUBSET CKinds, uc : SUBSET Constraints, seen : SUBSET Constraints,
   todo : SUBSET Constraints, cur : Constraints \cup {None},
   latest : StatusType \cup {None}, round : Nat, stop : BOOLEAN, res : ResultType]

\* The writer has read the constraint it works on.
Reading(w) ==
  /\ w.pc \in {"get", "update"} => w.cur \in Constraints
  /\ w.pc = "update" => w.latest \in StatusType

TypeInv ==
  /\ exists \subseteq Constraints
  /\ status \in [Constraints -> StatusType]
  /\ am \in ManagerType
  /\ writer \in [Audits -> WriterType]
  /\ \A t \in Audits : Reading(writer[t])
  /\ truth \in [Audits -> {None} \cup [Constraints -> Nat]]
  /\ pods \in [Constraints -> Nat]
  /\ late \in [Audits -> Nat]

LEMMA NoResultsType == NoResults \in ResultType
BY DEF NoResults, ResultType, Empty

LEMMA IdleManagerType == IdleManager \in ManagerType
BY NoResultsType DEF IdleManager, ManagerType

LEMMA NoWriterType == NoWriter \in WriterType /\ Reading(NoWriter)
BY NoResultsType DEF NoWriter, WriterType, Reading

\* The results of an audit have their type after every review.
LEMMA AddAllType ==
  ASSUME NEW res \in ResultType, NEW hit, NEW o \in Objects
  PROVE  AddAll(res, hit, o) \in ResultType
BY DEF AddAll, Add, ResultType

\* What an audit has to find is counted.
LEMMA ExpectedType == Expected \in [Constraints -> Nat]
<1> SUFFICES ASSUME NEW c \in Constraints PROVE Cardinality(Violations(c, Audited)) \in Nat
  BY DEF Expected
<1>1. Audited \subseteq Objects
  BY AuditAssumption DEF Audited
<1>2. Violations(c, Audited) \subseteq Objects
  BY <1>1 DEF Violations
<1>3. IsFiniteSet(Violations(c, Audited))
  BY <1>2, FS_Subset, AuditAssumption
<1> QED
  BY <1>3, FS_CardinalityType

\* Spoil keeps the type of the history.
LEMMA SpoilType ==
  ASSUME truth \in [Audits -> {None} \cup [Constraints -> Nat]], Spoil
  PROVE  truth' \in [Audits -> {None} \cup [Constraints -> Nat]]
BY DEF Spoil

LEMMA InitType == Init => TypeInv
<1> SUFFICES ASSUME Init PROVE TypeInv
  OBVIOUS
<1>1. NewStatus \in StatusType
  BY DEF NewStatus, StatusType
<1> QED
  BY <1>1, IdleManagerType, NoWriterType DEF Init, TypeInv, Empty

\* A step that writes neither the statuses nor their history.
LEMMA ManagerOnly ==
  ASSUME TypeInv, am' \in ManagerType, Spoil \/ UNCHANGED truth,
         UNCHANGED <<exists, status, writer, pods, late>>
  PROVE  TypeInv'
BY SpoilType DEF TypeInv

\* Each action of the cluster and of the audit keeps the types.
LEMMA ManagerStepType ==
  ASSUME TypeInv,
         \/ \E o \in Objects : ObjectChange(o)
         \/ \E c \in Constraints : ConstraintChange(c) \/ ByPodUpdate(c)
         \/ AuditStart \/ AuditFails \/ WaitTimesOut \/ AuditStep
  PROVE  TypeInv'
<1> USE DEF world, history
<1>0. am \in ManagerType /\ am.now \in Nat /\ am.last \in Nat /\ am.now + 1 \in Nat
  BY DEF TypeInv, ManagerType
<1>1. ASSUME NEW o \in Objects, ObjectChange(o) PROVE TypeInv'
  BY <1>0, <1>1, ManagerOnly DEF ObjectChange
<1>2. ASSUME NEW c \in Constraints, ConstraintChange(c) PROVE TypeInv'
  <2>1. [NewStatus EXCEPT !.rv = status[c].rv + 1] \in StatusType
    BY DEF NewStatus, StatusType, TypeInv
  <2> QED
    BY <1>2, <2>1, SpoilType DEF ConstraintChange, TypeInv
<1>3. ASSUME NEW c \in Constraints, ByPodUpdate(c) PROVE TypeInv'
  BY <1>3 DEF ByPodUpdate, StatusType, TypeInv
<1>4. CASE AuditStart
  <2>1. am' \in ManagerType
    BY <1>0, <1>4, IdleManagerType DEF AuditStart, ManagerType
  <2>2. truth' \in [Audits -> {None} \cup [Constraints -> Nat]]
    BY <1>4, ExpectedType DEF AuditStart, TypeInv
  <2> QED
    BY <1>4, <2>1, <2>2 DEF AuditStart, TypeInv
<1>5. Ended \in ManagerType
  BY <1>0, IdleManagerType DEF Ended, ManagerType
<1>6. CASE AuditFails
  BY <1>5, <1>6, ManagerOnly DEF AuditFails
<1>7. CASE WaitTimesOut \/ WriterStopped
  <2>1. am' \in ManagerType
    BY <1>0, <1>7 DEF WaitTimesOut, WriterStopped, ManagerType
  <2> QED
    BY <1>7, <2>1, ManagerOnly DEF WaitTimesOut, WriterStopped
<1>8. CASE AuditFromCache
  <2>1. {[o |-> o, hit |-> Hit(o)] : o \in Cached \cap bad} \subseteq EntryType
    BY AuditAssumption DEF EntryType, Hit, TypeInv
  <2>2. am' \in ManagerType
    BY <1>0, <1>8, <2>1 DEF AuditFromCache, ManagerType
  <2> QED
    BY <1>8, <2>2, ManagerOnly DEF AuditFromCache
<1>9. CASE AuditAdd
  <2>1. ASSUME NEW e \in am.chunk PROVE AddAll(am.res, e.hit, e.o) \in ResultType
    BY <1>0, AddAllType DEF ManagerType, EntryType
  <2>2. am' \in ManagerType
    BY <1>0, <1>9, <2>1 DEF AuditAdd, ManagerType
  <2> QED
    BY <1>9, <2>2, ManagerOnly DEF AuditAdd
<1>10. CASE AuditDiscover
  <2>1. ASSUME NEW pc \in {"match", "list"}, NEW ks \in SUBSET Kinds, NEW ms \in {{}, {AllKinds}}
        PROVE  [am EXCEPT !.pc = pc, !.kinds = ks, !.matched = ms] \in ManagerType
    BY <1>0 DEF ManagerType
  <2>2. am' \in ManagerType
    <3> DEFINE pc == IF conf.matchKindOnly THEN "match" ELSE "list"
               ms == IF conf.matchKindOnly THEN {} ELSE {AllKinds}
    <3>1. pc \in {"match", "list"} /\ ms \in {{}, {AllKinds}}
      OBVIOUS
    <3>2. PICK ks \in SUBSET Kinds : am' = [am EXCEPT !.pc = pc, !.kinds = ks, !.matched = ms]
      BY <1>10 DEF AuditDiscover
    <3> HIDE DEF pc, ms
    <3> QED
      BY <2>1, <3>1, <3>2
  <2> QED
    BY <1>10, <2>2, ManagerOnly DEF AuditDiscover
<1>11. CASE AuditMatch
  <2>1. ASSUME NEW cs, cs \subseteq Constraints PROVE MatchedBy(cs) \subseteq Kinds \cup {AllKinds}
    BY <2>1, AuditAssumption DEF MatchedBy
  <2>2. ASSUME NEW k \in am.ckinds, NEW ms, ms \subseteq Kinds \cup {AllKinds}
        PROVE  /\ [am EXCEPT !.ckinds = @ \ {k}, !.matched = @ \cup ms] \in ManagerType
               /\ [am EXCEPT !.ckinds = @ \ {k}] \in ManagerType
    BY <1>0, <2>2 DEF ManagerType
  <2>3. [am EXCEPT !.pc = "list"] \in ManagerType
    BY <1>0 DEF ManagerType
  <2>4. \A k : {c \in exists : CKindOf[c] = k} \subseteq Constraints
    BY DEF TypeInv
  <2>5. am' \in ManagerType
    BY <1>11, <2>1, <2>2, <2>3, <2>4 DEF AuditMatch
  <2> QED
    BY <1>11, <2>5, ManagerOnly DEF AuditMatch
<1>12. CASE AuditList
  <2>1. ASSUME NEW os, os \subseteq Objects
        PROVE  {[o |-> o, bad |-> o \in bad] : o \in os} \subseteq EntryType
    <3>1. ASSUME NEW o \in os PROVE [o |-> o, bad |-> o \in bad] \in [o : Objects, bad : BOOLEAN]
      BY <2>1, SMT
    <3> QED
      BY <3>1 DEF EntryType
  <2>2. ASSUME NEW k \in am.kinds PROVE [am EXCEPT !.kinds = @ \ {k}] \in ManagerType
    BY <1>0 DEF ManagerType
  <2>3. ASSUME NEW os \in SUBSET Objects, NEW ch \in SUBSET EntryType, NEW ks \in SUBSET Kinds
        PROVE  [am EXCEPT !.pc = "review", !.listed = @ \cup os, !.chunk = ch, !.kinds = ks]
                 \in ManagerType
    BY <1>0 DEF ManagerType
  <2>4. am.kinds \subseteq Kinds
    BY <1>0 DEF ManagerType
  <2>5. am' \in ManagerType
    <3>1. PICK k \in am.kinds :
            \/ am' = [am EXCEPT !.kinds = @ \ {k}]
            \/ \E os \in SUBSET Objects, ks \in {am.kinds, am.kinds \ {k}} :
                 am' = [am EXCEPT !.pc = "review", !.listed = @ \cup os,
                                  !.chunk = {[o |-> o, bad |-> o \in bad] : o \in os},
                                  !.kinds = ks]
      BY <1>12 DEF AuditList
    <3>2. ASSUME NEW os \in SUBSET Objects, NEW ks \in {am.kinds, am.kinds \ {k}}
          PROVE  [am EXCEPT !.pc = "review", !.listed = @ \cup os,
                            !.chunk = {[o |-> o, bad |-> o \in bad] : o \in os},
                            !.kinds = ks] \in ManagerType
      <4> DEFINE ch == {[o |-> o, bad |-> o \in bad] : o \in os}
      <4>1. ch \in SUBSET EntryType /\ ks \in SUBSET Kinds
        BY <2>1, <2>4
      <4> HIDE DEF ch
      <4>2. [am EXCEPT !.pc = "review", !.listed = @ \cup os, !.chunk = ch, !.kinds = ks]
              \in ManagerType
        BY <2>3, <4>1
      <4> QED
        BY <4>2, Zenon DEF ch
    <3> QED
      BY <2>2, <3>1, <3>2, Zenon
  <2> QED
    BY <1>12, <2>5, ManagerOnly DEF AuditList
<1>13. CASE AuditReview
  <2>1. ASSUME NEW e \in am.chunk
        PROVE  /\ e.o \in Objects /\ NamespaceOf[e.o] \in {NamespaceOf[o] : o \in Objects}
               /\ AddAll(am.res, Hit(e.o), e.o) \in ResultType
    BY <1>0, AddAllType DEF ManagerType, EntryType
  <2> DEFINE done(e) == [am EXCEPT !.chunk = @ \ {e}]
             known(e) == [done(e) EXCEPT !.nsCache = @ \cup ({NamespaceOf[e.o]} \ {ClusterWide})]
  <2>2. ASSUME NEW e \in am.chunk PROVE done(e) \in ManagerType /\ done(e).res = am.res
    BY <1>0 DEF ManagerType
  <2>3. ASSUME NEW e \in am.chunk PROVE known(e) \in ManagerType /\ known(e).res = am.res
    <3> HIDE DEF done
    <3> QED
      BY <2>1, <2>2 DEF ManagerType
  <2> HIDE DEF done, known
  <2>4. ASSUME NEW e \in am.chunk
        PROVE  /\ [known(e) EXCEPT !.errs = TRUE] \in ManagerType
               /\ [known(e) EXCEPT !.res = AddAll(am.res, Hit(e.o), e.o)] \in ManagerType
               /\ [known(e) EXCEPT !.res = am.res] \in ManagerType
    BY <1>0, <2>1, <2>3 DEF ManagerType
  <2>5. PICK e \in am.chunk :
          \/ am' = done(e)
          \/ am' = [known(e) EXCEPT !.res = IF e.bad THEN AddAll(@, Hit(e.o), e.o) ELSE @]
          \/ am' = [known(e) EXCEPT !.errs = TRUE]
    BY <1>13 DEF AuditReview, done, known
  <2>6. am' \in ManagerType
    BY <2>2, <2>3, <2>4, <2>5
  <2> QED
    BY <1>13, <2>6, ManagerOnly DEF AuditReview
<1>14. CASE AuditNext
  <2>1. [am EXCEPT !.pc = "list"] \in ManagerType /\ [am EXCEPT !.pc = "write"] \in ManagerType
    BY <1>0 DEF ManagerType
  <2>2. am' \in ManagerType
    BY <1>5, <1>14, <2>1 DEF AuditNext
  <2> QED
    BY <1>14, <2>2, ManagerOnly DEF AuditNext
<1>15. CASE WriteResults
  <2>1. [am EXCEPT !.pc = "start"] \in ManagerType /\ [am EXCEPT !.pc = "wait"] \in ManagerType
    BY <1>0 DEF ManagerType
  <2>2. am' \in ManagerType
    BY <1>15, <2>1 DEF WriteResults
  <2>3. writer' \in [Audits -> WriterType] /\ \A t \in Audits : Reading(writer'[t])
    <3>1. ASSUME NEW t \in Audits
          PROVE  [writer[t] EXCEPT !.stop = TRUE] \in WriterType /\ Reading([writer[t] EXCEPT !.stop = TRUE])
      BY DEF TypeInv, WriterType, Reading
    <3>2. ASSUME NEW t \in Audits
          PROVE  writer'[t] = writer[t] \/ writer'[t] = [writer[t] EXCEPT !.stop = TRUE]
      BY <1>15 DEF WriteResults, TypeInv
    <3>3. writer' = [t \in Audits |-> writer'[t]]
      BY <1>15 DEF WriteResults, TypeInv
    <3> QED
      BY <3>1, <3>2, <3>3 DEF TypeInv
  <2> QED
    BY <1>15, <2>2, <2>3 DEF WriteResults, TypeInv
<1>16. CASE StartWriter
  <2>1. [Ended EXCEPT !.last = am.now] \in ManagerType
    BY <1>0, <1>5 DEF ManagerType
  <2>2. am.res \in ResultType
    BY <1>0 DEF ManagerType
  <2> DEFINE w == [NoWriter EXCEPT !.pc = "kinds", !.ckinds = CKinds, !.res = am.res]
  <2>3. w \in WriterType /\ Reading(w)
    BY <2>2, NoWriterType DEF WriterType, Reading
  <2> HIDE DEF w
  <2>4. writer' = [writer EXCEPT ![am.now] = w]
    BY <1>16 DEF StartWriter, w, This
  <2>5. writer' \in [Audits -> WriterType] /\ \A t \in Audits : Reading(writer'[t])
    BY <2>3, <2>4 DEF TypeInv
  <2> QED
    BY <1>16, <2>1, <2>5 DEF StartWriter, TypeInv, This
<1> QED
  BY <1>1, <1>2, <1>3, <1>4, <1>6, <1>7, <1>8, <1>9, <1>10, <1>11, <1>12, <1>13,
     <1>14, <1>15, <1>16 DEF AuditStep

\* A writer is replaced by one of its type.
LEMMA WriterSet ==
  ASSUME TypeInv, NEW t \in Audits, NEW w \in WriterType, Reading(w), W(t, w)
  PROVE  writer' \in [Audits -> WriterType] /\ \A u \in Audits : Reading(writer'[u])
BY DEF TypeInv, W


\* Each step of a writer keeps the types.
LEMMA WriterStepType ==
  ASSUME TypeInv, NEW t \in Audits, WriterStep(t)
  PROVE  TypeInv'
<1> DEFINE w == writer[t]
<1>0. /\ w \in WriterType /\ Reading(w) /\ exists \subseteq Constraints
      /\ status \in [Constraints -> StatusType]
  BY DEF TypeInv
<1>1. ASSUME \E v \in WriterType : Reading(v) /\ W(t, v),
             UNCHANGED <<exists, status, am, truth, pods, late>>
      PROVE  TypeInv'
  BY <1>1, WriterSet DEF TypeInv
<1>2. [w EXCEPT !.pc = "stopped"] \in WriterType /\ Reading([w EXCEPT !.pc = "stopped"])
  BY <1>0 DEF WriterType, Reading
<1>3. [w EXCEPT !.pc = "check"] \in WriterType /\ Reading([w EXCEPT !.pc = "check"])
  BY <1>0 DEF WriterType, Reading
<1>4. ASSUME NEW c
      PROVE  /\ [w EXCEPT !.pc = "check", !.uc = @ \ {c}] \in WriterType
             /\ Reading([w EXCEPT !.pc = "check", !.uc = @ \ {c}])
  BY <1>0 DEF WriterType, Reading
<1> HIDE DEF w
<1>5. CASE WriterList(t)
  <2>1. ASSUME w.pc = "kinds", NEW k, NEW cs, cs \subseteq Constraints
        PROVE  /\ [w EXCEPT !.ckinds = @ \ {k}, !.uc = @ \cup cs] \in WriterType
               /\ Reading([w EXCEPT !.ckinds = @ \ {k}, !.uc = @ \cup cs])
               /\ [w EXCEPT !.ckinds = @ \ {k}] \in WriterType
               /\ Reading([w EXCEPT !.ckinds = @ \ {k}])
    BY <1>0, <2>1 DEF WriterType, Reading
  <2>2. /\ [w EXCEPT !.pc = "check", !.seen = w.uc, !.todo = w.uc, !.round = 1] \in WriterType
        /\ Reading([w EXCEPT !.pc = "check", !.seen = w.uc, !.todo = w.uc, !.round = 1])
    BY <1>0 DEF WriterType, Reading
  <2>3. \A k : {c \in exists : CKindOf[c] = k} \subseteq Constraints
    BY <1>0
  <2>4. \E v \in WriterType : Reading(v) /\ W(t, v)
    BY <1>2, <1>5, <2>1, <2>2, <2>3 DEF WriterList, w
  <2> QED
    BY <1>1, <1>5, <2>4 DEF WriterList, world, history
<1>6. CASE WriterCheck(t)
  <2>1. ASSUME NEW c \in w.todo
        PROVE  /\ [w EXCEPT !.pc = "get", !.cur = c, !.todo = @ \ {c}] \in WriterType
               /\ Reading([w EXCEPT !.pc = "get", !.cur = c, !.todo = @ \ {c}])
    BY <1>0 DEF WriterType, Reading
  <2>2. \E v \in WriterType : Reading(v) /\ W(t, v)
    BY <1>2, <1>6, <2>1 DEF WriterCheck, w
  <2> QED
    BY <1>1, <1>6, <2>2 DEF WriterCheck, world, history
<1>7. CASE WriterGet(t)
  <2>1. ASSUME w.pc = "get"
        PROVE  /\ [w EXCEPT !.pc = "update", !.latest = status[w.cur]] \in WriterType
               /\ Reading([w EXCEPT !.pc = "update", !.latest = status[w.cur]])
    BY <1>0, <2>1 DEF WriterType, Reading
  <2>2. \E v \in WriterType : Reading(v) /\ W(t, v)
    BY <1>3, <1>4, <1>7, <2>1 DEF WriterGet, w
  <2> QED
    BY <1>1, <1>7, <2>2 DEF WriterGet, world, history
<1>8. CASE WriterUpdate(t)
  <2> DEFINE c == w.cur
             new == [w.latest EXCEPT !.ts = t, !.total = w.res.total[c], !.shown = w.res.shown[c]]
  <2>1. c \in Constraints /\ w.latest \in StatusType
    BY <1>0, <1>8 DEF WriterUpdate, Reading, w
  <2>2. w.res.total[c] \in Nat /\ w.res.shown[c] \in SUBSET Objects /\ t \in Nat
    BY <1>0, <2>1, AuditAssumption DEF WriterType, ResultType, Audits
  <2> HIDE DEF c
  <2>3. new \in StatusType
    BY <2>1, <2>2 DEF StatusType
  <2> HIDE DEF new
  <2>4. status[c].rv + 1 \in Nat
    BY <1>0, <2>1 DEF StatusType
  <2>5. [new EXCEPT !.rv = status[c].rv + 1] \in StatusType
    BY <2>3, <2>4 DEF StatusType
  <2>6. status' \in [Constraints -> StatusType]
    BY <1>0, <1>8, <2>5 DEF WriterUpdate, w, c, new
  <2>7. \E v \in WriterType : Reading(v) /\ W(t, v)
    BY <1>3, <1>4, <1>8 DEF WriterUpdate, w
  <2>8. late' \in [Audits -> Nat]
    BY <1>8 DEF WriterUpdate, TypeInv
  <2> QED
    BY <1>8, <2>6, <2>7, <2>8, WriterSet DEF WriterUpdate, TypeInv, world
<1>9. CASE WriterRound(t)
  <2>1. ASSUME w.pc = "check"
        PROVE  /\ [w EXCEPT !.todo = w.uc, !.round = @ + 1] \in WriterType
               /\ Reading([w EXCEPT !.todo = w.uc, !.round = @ + 1])
    <3>1. w.round + 1 \in Nat
      BY <1>0 DEF WriterType
    <3> QED
      BY <1>0, <2>1, <3>1 DEF WriterType, Reading
  <2>2. \E v \in WriterType : Reading(v) /\ W(t, v)
    BY <1>2, <1>9, <2>1 DEF WriterRound, w
  <2> QED
    BY <1>1, <1>9, <2>2 DEF WriterRound, world, history
<1> QED
  BY <1>5, <1>6, <1>7, <1>8, <1>9 DEF WriterStep

LEMMA TypeStep == TypeInv /\ [Next]_vars => TypeInv'
<1> SUFFICES ASSUME TypeInv, [Next]_vars PROVE TypeInv'
  OBVIOUS
<1>1. CASE UNCHANGED vars
  BY <1>1 DEF vars, world, history, TypeInv
<1> QED
  BY <1>1, ManagerStepType, WriterStepType DEF Next

\* The state of the audit manager, its writers and the statuses keep their types.
THEOREM TypeCorrect == Spec => []TypeInv
BY InitType, TypeStep, PTL DEF Spec

-------------------------------------------------------------------------------
\* The resource version

\* Who holds the current version of a status holds the current status.
VersionInv ==
  \A t \in Audits : writer[t].pc = "update" =>
    LET c == writer[t].cur IN
    /\ writer[t].latest.rv <= status[c].rv
    /\ writer[t].latest.rv = status[c].rv => writer[t].latest = status[c]

\* Deleted constraints included.
ByPodInv == \A c \in Constraints : status[c].byPod = pods[c]

-------------------------------------------------------------------------------
\* The order of the writers

OrderInv ==
  /\ am.last <= am.now
  /\ am.pc # "idle" => am.last < am.now
  /\ am.pc = "wait" \/ (am.pc = "start" /\ am.last # 0) =>
       \A t \in Audits : t = am.last => writer[t].stop
  /\ \A t \in Audits : writer[t].pc # "none" => t <= am.last
  /\ \A t \in Audits : writer[t].pc # "none" /\ t # am.last => writer[t].stop

\* A writer that was told to stop is past its last write, or has not made it.
LateInv ==
  \A t \in Audits : late[t] > 0 => writer[t].stop /\ writer[t].pc \in {"check", "stopped"}

\* A status shows the results of a writer.
ShownInv ==
  \A c \in Constraints : status[c].ts # 0 =>
    status[c].ts \in Audits /\ writer[status[c].ts].pc # "none"

-------------------------------------------------------------------------------
\* The results

Cut(n) == IF n < constraintViolationsLimit THEN n ELSE constraintViolationsLimit

\* The list of violations is the total, cut at the limit.
Limited(res) == \A c \in Constraints : Cardinality(res.shown[c]) = Cut(res.total[c])

\* The objects of the chunk that are still to be reviewed.
Pending == {e.o : e \in am.chunk}

\* An object is reviewed once.
OnceInv ==
  /\ \A e, f \in am.chunk : e.o = f.o => e = f
  /\ \A c \in Constraints : am.res.shown[c] \cap Pending = {}
  /\ am.pc \in {"cache", "discover", "match"} =>
       am.listed = {} /\ am.chunk = {} /\ am.res = NoResults
  /\ am.pc = "list" => am.chunk = {}
  /\ am.pc \in {"list", "review"} =>
       Pending \subseteq am.listed /\ \A c \in Constraints : am.res.shown[c] \subseteq am.listed

LimitInv ==
  /\ Limited(am.res)
  /\ \A t \in Audits : Limited(writer[t].res)
  /\ \A c \in Constraints : Cardinality(status[c].shown) = Cut(status[c].total)

\* What was reviewed so far.
Listed == {o \in am.listed \ Pending : NamespaceOf[o] \notin Excluded}

Counts(os) == \A c \in Constraints : am.res.total[c] = Cardinality(Violations(c, os))

\* The audit in progress has seen the cluster as it was at its start, and as it is.
Faithful == am.pc # "idle" /\ am.now \in Audits /\ truth[am.now] # None

CountInv ==
  Faithful =>
    /\ truth[am.now] = Expected
    /\ am.pc = "cache" => conf.fromCache
    /\ am.pc = "add" =>
         /\ conf.fromCache
         /\ \A e \in am.chunk : e.o \in Cached \cap bad /\ e.hit = Hit(e.o)
         /\ Counts(Cached \ Pending)
    /\ am.pc \in {"discover", "match", "list", "review"} => ~conf.fromCache
    /\ am.pc = "discover" => am.ckinds = CKinds
    /\ am.pc = "match" =>
         /\ am.kinds = Kinds
         /\ MatchedBy({c \in exists : CKindOf[c] \notin am.ckinds}) \subseteq am.matched
    /\ am.pc \in {"list", "review"} =>
         /\ AllKinds \in am.matched \/ MatchedBy(exists) \subseteq am.matched
         /\ \A o \in Objects : KindOf[o] \notin am.kinds => o \in am.listed \/ Hit(o) = {}
         /\ \A e \in am.chunk : e.bad <=> e.o \in bad
         /\ Counts(Listed)
    /\ am.pc \in {"write", "wait", "start"} => Counts(Audited)

\* Writers and statuses carry the results of audits that are over.
ResultInv ==
  /\ \A t \in Audits : writer[t].pc # "none" /\ truth[t] # None =>
       \A c \in Constraints : writer[t].res.total[c] = truth[t][c]
  /\ \A c \in Constraints : status[c].ts # 0 /\ truth[status[c].ts] # None =>
       status[c].total = truth[status[c].ts][c]

\* The inductive invariant.
IInv ==
  /\ TypeInv /\ VersionInv /\ ByPodInv
  /\ OrderInv /\ LateInv /\ ShownInv
  /\ OnceInv /\ LimitInv /\ CountInv /\ ResultInv

-------------------------------------------------------------------------------
\* Steps that concern neither the statuses nor the writers

Reviewing ==
  \/ AuditFails \/ AuditFromCache \/ AuditAdd
  \/ AuditDiscover \/ AuditMatch \/ AuditList \/ AuditReview \/ AuditNext

Quiet == (\E o \in Objects : ObjectChange(o)) \/ WaitTimesOut \/ WriterStopped \/ Reviewing

\* An audit that reviews leaves statuses and writers alone, and is not yet waiting
\* for its predecessor's writer.
LEMMA ReviewingStep ==
  ASSUME TypeInv, Reviewing
  PROVE  /\ UNCHANGED <<world, status, writer, pods, late, born>>
         /\ am'.last = am.last /\ am'.now = am.now
         /\ am.pc \notin {"idle", "write", "wait", "start"} /\ am'.pc \notin {"wait", "start"}
<1> USE DEF world, history
<1>0. am \in ManagerType
  BY DEF TypeInv
<1>1. Ended.last = am.last /\ Ended.now = am.now /\ Ended.pc = "idle"
  BY DEF Ended, IdleManager
<1>2. CASE AuditFails
  BY <1>1, <1>2 DEF AuditFails
<1>3. CASE AuditFromCache
  BY <1>0, <1>3 DEF AuditFromCache, ManagerType
<1>4. CASE AuditAdd
  BY <1>0, <1>4 DEF AuditAdd, ManagerType
<1>5. CASE AuditDiscover
  BY <1>0, <1>5 DEF AuditDiscover, ManagerType
<1>6. CASE AuditMatch
  BY <1>0, <1>6 DEF AuditMatch, ManagerType
<1>7. CASE AuditList
  BY <1>0, <1>7 DEF AuditList, ManagerType
<1>8. CASE AuditReview
  BY <1>0, <1>8 DEF AuditReview, ManagerType
<1>9. CASE AuditNext
  BY <1>0, <1>1, <1>9 DEF AuditNext, ManagerType
<1> QED
  BY <1>2, <1>3, <1>4, <1>5, <1>6, <1>7, <1>8, <1>9 DEF Reviewing

LEMMA QuietStep ==
  ASSUME TypeInv, Quiet
  PROVE  /\ UNCHANGED <<conf, exists, status, writer, pods, late, born>>
         /\ am'.last = am.last /\ am'.now = am.now
         /\ am'.pc # "idle" => am.pc # "idle"
         /\ am'.pc = "wait" => am.pc = "wait"
         /\ am'.pc = "start" => am.pc \in {"wait", "start"}
<1>1. ASSUME NEW o \in Objects, ObjectChange(o) PROVE UNCHANGED <<conf, exists, status, am, writer, pods, late, born>>
  BY <1>1 DEF ObjectChange
<1>2. CASE WaitTimesOut \/ WriterStopped
  BY <1>2 DEF WaitTimesOut, WriterStopped, TypeInv, ManagerType, world, history
<1>3. CASE Reviewing
  BY <1>3, ReviewingStep DEF world
<1> QED
  BY <1>1, <1>2, <1>3 DEF Quiet

\* The steps, as the invariants below tell them apart.
LEMMA StepCases ==
  ASSUME [Next]_vars
  PROVE  \/ UNCHANGED vars \/ Quiet
         \/ \E c \in Constraints : ConstraintChange(c) \/ ByPodUpdate(c)
         \/ AuditStart \/ WriteResults \/ StartWriter
         \/ \E t \in Audits : WriterStep(t)
BY DEF Next, AuditStep, Quiet, Reviewing

\* A step of a writer: its audit and results stay, and it does not start again.
LEMMA WriterKeeps ==
  ASSUME TypeInv, NEW t \in Audits, WriterStep(t)
  PROVE  /\ \A u \in Audits : u # t => writer'[u] = writer[u]
         /\ writer[t].pc \notin {"none", "stopped"} /\ writer'[t].pc # "none"
         /\ writer'[t].stop = writer[t].stop /\ writer'[t].res = writer[t].res
         /\ writer[t].stop => writer'[t].pc \in {"check", "stopped", "update"}
         /\ writer[t].stop /\ writer[t].pc = "check" => writer'[t].pc \in {"check", "stopped"}
         /\ UNCHANGED <<world, am, truth, pods, born>>
         /\ ~WriterUpdate(t) => UNCHANGED <<status, late>>
<1> USE DEF world, history
<1> DEFINE w == writer[t]
           Good(v) == /\ w.pc \notin {"none", "stopped"} /\ v.pc # "none"
                      /\ v.stop = w.stop /\ v.res = w.res
                      /\ w.stop => v.pc \in {"check", "stopped", "update"}
                      /\ w.stop /\ w.pc = "check" => v.pc \in {"check", "stopped"}
<1>0. w \in WriterType /\ writer \in [Audits -> WriterType]
  BY DEF TypeInv
<1>1. ASSUME NEW v, W(t, v), Good(v)
      PROVE  /\ \A u \in Audits : u # t => writer'[u] = writer[u]
             /\ writer'[t] = v
  BY <1>0, <1>1 DEF W
<1> HIDE DEF w
<1>2. CASE WriterList(t)
  <2>1. \E v : W(t, v) /\ Good(v)
    BY <1>0, <1>2 DEF WriterList, WriterType, w
  <2> QED
    BY <1>1, <1>2, <2>1 DEF WriterList, WriterUpdate, w
<1>3. CASE WriterCheck(t)
  <2>1. CASE w.stop
    <3>1. Good([w EXCEPT !.pc = "stopped"])
      BY <1>0, <1>3, <2>1 DEF WriterCheck, WriterType, w
    <3> QED
      BY <1>1, <1>3, <2>1, <3>1 DEF WriterCheck, w
  <2>2. CASE ~w.stop
    <3>1. PICK c \in w.todo : W(t, [w EXCEPT !.pc = "get", !.cur = c, !.todo = @ \ {c}])
      BY <1>3, <2>2 DEF WriterCheck, w
    <3>2. Good([w EXCEPT !.pc = "get", !.cur = c, !.todo = @ \ {c}])
      BY <1>0, <1>3, <2>2 DEF WriterCheck, WriterType, w
    <3> QED
      BY <1>1, <1>3, <3>1, <3>2 DEF WriterCheck, w
  <2> QED
    BY <2>1, <2>2
<1>4. CASE WriterGet(t)
  <2>1. \E v : W(t, v) /\ Good(v)
    BY <1>0, <1>4 DEF WriterGet, WriterType, w
  <2> QED
    BY <1>1, <1>4, <2>1 DEF WriterGet, w
<1>5. CASE WriterUpdate(t)
  <2>1. \E v : W(t, v) /\ Good(v)
    BY <1>0, <1>5 DEF WriterUpdate, WriterType, w
  <2> QED
    BY <1>1, <1>5, <2>1 DEF WriterUpdate, w
<1>6. CASE WriterRound(t)
  <2>1. Good([w EXCEPT !.pc = "stopped"]) /\ Good([w EXCEPT !.todo = w.uc, !.round = @ + 1])
    BY <1>0, <1>6 DEF WriterRound, WriterType, w
  <2> QED
    BY <1>1, <1>6, <2>1 DEF WriterRound, w
<1> QED
  BY <1>2, <1>3, <1>4, <1>5, <1>6 DEF WriterStep

-------------------------------------------------------------------------------
\* The two writers of a status

\* The write of WriterUpdate: what it leaves of the status, and its version.
LEMMA UpdateWrites ==
  ASSUME TypeInv, VersionInv, NEW t \in Audits, WriterUpdate(t), NEW c \in Constraints
  PROVE  /\ status'[c].byPod = status[c].byPod
         /\ status'[c] = status[c] \/ status'[c].rv = status[c].rv + 1
         /\ \/ status'[c] = status[c]
            \/ /\ c = writer[t].cur /\ c \in exists
               /\ status'[c].ts = t
               /\ status'[c].total = writer[t].res.total[c]
               /\ status'[c].shown = writer[t].res.shown[c]
               /\ late'[t] = IF writer[t].stop THEN late[t] + 1 ELSE late[t]
<1> DEFINE w == writer[t]
           new == [w.latest EXCEPT !.ts = t, !.total = w.res.total[w.cur], !.shown = w.res.shown[w.cur]]
<1>1. w.pc = "update" /\ w.cur \in Constraints /\ w.latest \in StatusType
  BY DEF WriterUpdate, TypeInv, Reading
<1>2. CASE UNCHANGED status
  BY <1>2
<1>3. CASE ~UNCHANGED status
  <2>1. /\ Current(w.cur, w.latest)
        /\ status' = [status EXCEPT ![w.cur] =
                        IF new = w.latest THEN @ ELSE [new EXCEPT !.rv = status[w.cur].rv + 1]]
        /\ late' = [late EXCEPT ![t] = IF w.stop THEN @ + 1 ELSE @]
    BY <1>3 DEF WriterUpdate
  <2>2. w.latest = status[w.cur]
    BY <1>1, <2>1 DEF VersionInv, Current
  <2> HIDE DEF w
  <2>3. /\ new.byPod = w.latest.byPod /\ new.ts = t
        /\ new.total = w.res.total[w.cur] /\ new.shown = w.res.shown[w.cur]
        /\ DOMAIN new = {"ts", "total", "shown", "byPod", "rv"}
    BY <1>1 DEF StatusType
  <2> HIDE DEF new
  <2>4. /\ [new EXCEPT !.rv = status[w.cur].rv + 1].byPod = w.latest.byPod
        /\ [new EXCEPT !.rv = status[w.cur].rv + 1].rv = status[w.cur].rv + 1
        /\ [new EXCEPT !.rv = status[w.cur].rv + 1].ts = t
        /\ [new EXCEPT !.rv = status[w.cur].rv + 1].total = w.res.total[w.cur]
        /\ [new EXCEPT !.rv = status[w.cur].rv + 1].shown = w.res.shown[w.cur]
    BY <2>3
  <2>5. status \in [Constraints -> StatusType] /\ late \in [Audits -> Nat]
    BY DEF TypeInv
  <2> QED
    BY <1>1, <2>1, <2>2, <2>4, <2>5 DEF Current, w
<1> QED
  BY <1>2, <1>3

\* Then the writer looks at stop again.
LEMMA UpdateChecks ==
  ASSUME TypeInv, NEW t \in Audits, WriterUpdate(t)
  PROVE  writer'[t].pc = "check"
<1>1. writer \in [Audits -> WriterType]
  BY DEF TypeInv
<1>2. /\ [writer[t] EXCEPT !.pc = "check"].pc = "check"
      /\ \A c : [writer[t] EXCEPT !.pc = "check", !.uc = @ \ {c}].pc = "check"
  BY <1>1 DEF WriterType
<1>3. \E v : W(t, v) /\ v.pc = "check"
  BY <1>2 DEF WriterUpdate
<1> QED
  BY <1>1, <1>3 DEF W

\* Whoever writes a status makes a new version of it.
LEMMA VersionStep ==
  ASSUME TypeInv, VersionInv, [Next]_vars
  PROVE  VersionInv'
<1>1. ASSUME NEW t \in Audits, writer'[t].pc = "update",
             writer[t].pc = "update" /\ writer'[t].cur = writer[t].cur
               /\ writer'[t].latest = writer[t].latest,
             \A c \in Constraints : status'[c] = status[c] \/ status'[c].rv = status[c].rv + 1
      PROVE  LET c == writer'[t].cur IN
             /\ writer'[t].latest.rv <= status'[c].rv
             /\ writer'[t].latest.rv = status'[c].rv => writer'[t].latest = status'[c]
  <2> DEFINE c == writer[t].cur
  <2>1. c \in Constraints /\ writer[t].latest.rv \in Nat /\ status[c].rv \in Nat
    BY <1>1 DEF TypeInv, Reading, StatusType
  <2>2. /\ writer[t].latest.rv <= status[c].rv
        /\ writer[t].latest.rv = status[c].rv => writer[t].latest = status[c]
    BY <1>1 DEF VersionInv
  <2> QED
    BY <1>1, <2>1, <2>2
<1>2. CASE UNCHANGED <<status, writer>>
  BY <1>2 DEF VersionInv
<1>3. ASSUME NEW c \in Constraints, ConstraintChange(c) \/ ByPodUpdate(c) PROVE VersionInv'
  <2>1. \A d \in Constraints : status'[d] = status[d] \/ status'[d].rv = status[d].rv + 1
    BY <1>3 DEF ConstraintChange, ByPodUpdate, TypeInv, StatusType, NewStatus
  <2> QED
    BY <1>1, <1>3, <2>1 DEF ConstraintChange, ByPodUpdate, VersionInv
<1>4. CASE WriteResults \/ StartWriter
  <2>1. ASSUME NEW t \in Audits, writer'[t].pc = "update"
        PROVE  /\ writer[t].pc = "update" /\ writer'[t].cur = writer[t].cur
               /\ writer'[t].latest = writer[t].latest
    <3>1. writer \in [Audits -> WriterType]
      BY DEF TypeInv
    <3>2. CASE WriteResults
      BY <2>1, <3>1, <3>2 DEF WriteResults, WriterType
    <3>3. CASE StartWriter
      <4>1. [NoWriter EXCEPT !.pc = "kinds", !.ckinds = CKinds, !.res = am.res].pc = "kinds"
        BY DEF NoWriter
      <4>2. t # This
        BY <2>1, <3>1, <3>3, <4>1 DEF StartWriter
      <4> QED
        BY <2>1, <3>1, <3>3, <4>2 DEF StartWriter
    <3> QED
      BY <1>4, <3>2, <3>3
  <2> QED
    BY <1>1, <1>4, <2>1 DEF WriteResults, StartWriter, VersionInv
<1>5. ASSUME NEW t \in Audits, WriterStep(t) PROVE VersionInv'
  <2>0. writer \in [Audits -> WriterType] /\ status \in [Constraints -> StatusType]
    BY DEF TypeInv
  <2>1. \A c \in Constraints : status'[c] = status[c] \/ status'[c].rv = status[c].rv + 1
    BY <1>5, UpdateWrites, WriterKeeps
  <2>2. writer'[t].pc = "update" => WriterGet(t)
    <3>1. ASSUME WriterList(t) PROVE writer'[t].pc # "update"
      BY <2>0, <3>1 DEF WriterList, W, WriterType
    <3>2. ASSUME WriterCheck(t) PROVE writer'[t].pc # "update"
      <4>1. \E v : W(t, v) /\ v.pc # "update"
        <5>1. [writer[t] EXCEPT !.pc = "stopped"].pc = "stopped"
          BY <2>0 DEF WriterType
        <5>2. \A c : [writer[t] EXCEPT !.pc = "get", !.cur = c, !.todo = @ \ {c}].pc = "get"
          BY <2>0 DEF WriterType
        <5> QED
          BY <3>2, <5>1, <5>2 DEF WriterCheck
      <4> QED
        BY <2>0, <4>1 DEF W
    <3>3. ASSUME WriterUpdate(t) PROVE writer'[t].pc # "update"
      BY <3>3, UpdateChecks
    <3>4. ASSUME WriterRound(t) PROVE writer'[t].pc # "update"
      <4>1. /\ [writer[t] EXCEPT !.pc = "stopped"].pc = "stopped"
            /\ [writer[t] EXCEPT !.todo = writer[t].uc, !.round = @ + 1].pc = writer[t].pc
        BY <2>0 DEF WriterType
      <4> QED
        BY <2>0, <3>4, <4>1 DEF WriterRound, W
    <3> QED
      BY <1>5, <3>1, <3>2, <3>3, <3>4 DEF WriterStep
  <2>3. CASE WriterGet(t)
    <3>1. writer[t].cur \in Constraints
      BY <2>3 DEF WriterGet, TypeInv, Reading
    <3>2. writer'[t].pc = "update" => writer'[t].cur = writer[t].cur /\ writer'[t].latest = status[writer[t].cur]
      BY <2>0, <2>3 DEF WriterGet, W, WriterType
    <3>3. UNCHANGED status
      BY <2>3 DEF WriterGet
    <3> QED
      BY <1>1, <1>5, <2>0, <2>1, <3>1, <3>2, <3>3, WriterKeeps DEF VersionInv, StatusType
  <2> QED
    BY <1>1, <1>5, <2>1, <2>2, <2>3, WriterKeeps DEF VersionInv
<1> QED
  BY <1>2, <1>3, <1>4, <1>5, StepCases, QuietStep DEF vars, AuditStart

\* Only the status controller, and the deletion of a constraint, change byPod.
LEMMA ByPodStep ==
  ASSUME TypeInv, VersionInv, ByPodInv, [Next]_vars
  PROVE  ByPodInv'
<1>1. CASE UNCHANGED <<status, pods>>
  BY <1>1 DEF ByPodInv
<1>2. ASSUME NEW c \in Constraints, ConstraintChange(c) \/ ByPodUpdate(c) PROVE ByPodInv'
  BY <1>2 DEF ConstraintChange, ByPodUpdate, ByPodInv, TypeInv, StatusType, NewStatus
<1>3. ASSUME NEW t \in Audits, WriterStep(t) PROVE ByPodInv'
  BY <1>3, UpdateWrites, WriterKeeps DEF ByPodInv
<1> QED
  BY <1>1, <1>2, <1>3, StepCases, QuietStep DEF vars, history, AuditStart, WriteResults, StartWriter

LEMMA InitVersion == Init => VersionInv /\ ByPodInv
BY DEF Init, VersionInv, ByPodInv, NoWriter, NewStatus, Empty

(***************************************************************************)
(* The audit's writers never undo an update of byPod by the constraint     *)
(* status controller, for any number of writers, failures and timeouts: an *)
(* update that is not based on the current resource version is refused.    *)
(***************************************************************************)
THEOREM ByPodIsKept == Spec => []ByPodKept
<1>1. Init => TypeInv /\ VersionInv /\ ByPodInv
  BY InitType, InitVersion
<1>2. (TypeInv /\ VersionInv /\ ByPodInv) /\ [Next]_vars => (TypeInv /\ VersionInv /\ ByPodInv)'
  BY TypeStep, VersionStep, ByPodStep
<1>3. TypeInv /\ VersionInv /\ ByPodInv => ByPodKept
  BY DEF TypeInv, ByPodInv, ByPodKept
<1> QED
  BY <1>1, <1>2, <1>3, PTL DEF Spec

-------------------------------------------------------------------------------
\* The order of the writers

\* What the actions that start and stop writers do to them.
LEMMA WriteResultsStep ==
  ASSUME TypeInv, WriteResults
  PROVE  /\ UNCHANGED <<world, status, truth, pods, late, born>>
         /\ am.pc = "write" /\ am'.pc \in {"wait", "start"} /\ am'.last = am.last /\ am'.now = am.now
         /\ am'.res = am.res
         /\ \A t \in Audits : writer'[t].pc = writer[t].pc /\ writer'[t].res = writer[t].res
         /\ \A t \in Audits : writer[t].stop \/ (t = am.last /\ am.last # 0) => writer'[t].stop
<1>1. writer \in [Audits -> WriterType] /\ am \in ManagerType
  BY DEF TypeInv
<1>2. am.pc = "write" /\ am'.pc \in {"wait", "start"} /\ am'.last = am.last /\ am'.now = am.now
      /\ am'.res = am.res
  BY <1>1 DEF WriteResults, ManagerType
<1>3. ASSUME NEW t \in Audits
      PROVE  /\ writer'[t].pc = writer[t].pc /\ writer'[t].res = writer[t].res
             /\ writer[t].stop \/ (t = am.last /\ am.last # 0) => writer'[t].stop
  BY <1>1 DEF WriteResults, WriterType
<1> QED
  BY <1>2, <1>3 DEF WriteResults, history

LEMMA StartWriterStep ==
  ASSUME TypeInv, StartWriter
  PROVE  /\ UNCHANGED <<world, status, truth, pods, late, born>>
         /\ am.pc = "start" /\ am'.pc = "idle" /\ am'.last = am.now /\ am'.now = am.now
         /\ \A t \in Audits : t # am.now => writer'[t] = writer[t]
         /\ \A t \in Audits : t = am.now =>
              writer'[t].pc = "kinds" /\ ~writer'[t].stop /\ writer'[t].res = am.res
<1>1. writer \in [Audits -> WriterType] /\ am \in ManagerType
  BY DEF TypeInv
<1> DEFINE w == [NoWriter EXCEPT !.pc = "kinds", !.ckinds = CKinds, !.res = am.res]
<1>2. w.pc = "kinds" /\ ~w.stop /\ w.res = am.res
  BY DEF NoWriter
<1>3. writer' = [writer EXCEPT ![am.now] = w]
  BY DEF StartWriter, This
<1> HIDE DEF w
<1>4. am.pc = "start" /\ am'.pc = "idle" /\ am'.last = am.now /\ am'.now = am.now
  BY DEF StartWriter, Ended, IdleManager, This
<1> QED
  BY <1>1, <1>2, <1>3, <1>4 DEF StartWriter, history

LEMMA AuditStartStep ==
  ASSUME TypeInv, AuditStart
  PROVE  /\ UNCHANGED <<world, status, writer, pods, late, born>>
         /\ am.pc = "idle" /\ am'.pc \in {"cache", "discover"}
         /\ am'.last = am.last /\ am'.now = am.now + 1
         /\ \A t \in Audits : t # am.now + 1 => truth'[t] = truth[t]
BY DEF AuditStart, IdleManager, TypeInv, This, world

\* Writers are started one after the other, each after its predecessor was told
\* to stop.
LEMMA OrderStep ==
  ASSUME TypeInv, OrderInv, [Next]_vars
  PROVE  OrderInv'
<1>0. am.now \in Nat /\ am.last \in Nat /\ Audits \subseteq Nat \ {0}
  BY AuditAssumption DEF TypeInv, ManagerType, Audits
<1>1. CASE UNCHANGED vars
  BY <1>1 DEF vars, OrderInv
<1>2. CASE Quiet
  BY <1>2, QuietStep DEF OrderInv
<1>3. ASSUME NEW c \in Constraints, ConstraintChange(c) \/ ByPodUpdate(c) PROVE OrderInv'
  BY <1>3 DEF ConstraintChange, ByPodUpdate, OrderInv
<1>4. CASE AuditStart
  BY <1>0, <1>4, AuditStartStep DEF OrderInv
<1>5. CASE WriteResults
  BY <1>0, <1>5, WriteResultsStep DEF OrderInv
<1>6. CASE StartWriter
  BY <1>0, <1>6, StartWriterStep DEF OrderInv
<1>7. ASSUME NEW t \in Audits, WriterStep(t) PROVE OrderInv'
  BY <1>7, WriterKeeps DEF OrderInv
<1> QED
  BY <1>1, <1>2, <1>3, <1>4, <1>5, <1>6, <1>7, StepCases

\* After its last write a writer only looks at stop.
LEMMA LateStep ==
  ASSUME TypeInv, VersionInv, OrderInv, LateInv, [Next]_vars
  PROVE  LateInv'
<1>0. am.now \in Nat /\ am.last \in Nat /\ Audits \subseteq Nat /\ late \in [Audits -> Nat]
  BY AuditAssumption DEF TypeInv, ManagerType, Audits
<1>1. CASE UNCHANGED <<writer, late>>
  BY <1>1 DEF LateInv
<1>2. CASE WriteResults
  BY <1>2, WriteResultsStep DEF LateInv
<1>3. CASE StartWriter
  <2>1. \A t \in Audits : t = am.now => ~(late[t] > 0)
    BY <1>0, <1>3, StartWriterStep DEF LateInv, OrderInv
  <2> QED
    BY <1>3, <2>1, StartWriterStep DEF LateInv
<1>4. ASSUME NEW t \in Audits, WriterStep(t) PROVE LateInv'
  <2>1. CASE WriterUpdate(t)
    <3>1. \A u \in Audits : u # t => late'[u] = late[u]
      BY <1>0, <2>1 DEF WriterUpdate
    <3>2. late'[t] > 0 => writer[t].stop
      BY <1>0, <2>1 DEF WriterUpdate, LateInv
    <3>3. writer'[t].pc = "check"
      BY <2>1, UpdateChecks
    <3> QED
      BY <1>4, <3>1, <3>2, <3>3, WriterKeeps DEF LateInv
  <2>2. CASE ~WriterUpdate(t)
    BY <1>4, <2>2, WriterKeeps DEF LateInv
  <2> QED
    BY <2>1, <2>2
<1> QED
  BY <1>1, <1>2, <1>3, <1>4, StepCases, QuietStep DEF vars, history, AuditStart, ConstraintChange,
     ByPodUpdate

LEMMA ShownStep ==
  ASSUME TypeInv, VersionInv, OrderInv, ShownInv, [Next]_vars
  PROVE  ShownInv'
<1>0. am.now \in Nat /\ am.last \in Nat /\ Audits \subseteq Nat
  BY AuditAssumption DEF TypeInv, ManagerType, Audits
<1>1. CASE UNCHANGED <<status, writer>>
  BY <1>1 DEF ShownInv
<1>2. ASSUME NEW c \in Constraints, ConstraintChange(c) \/ ByPodUpdate(c) PROVE ShownInv'
  BY <1>2 DEF ConstraintChange, ByPodUpdate, ShownInv, TypeInv, StatusType, NewStatus
<1>3. CASE WriteResults
  BY <1>3, WriteResultsStep DEF ShownInv
<1>4. CASE StartWriter
  BY <1>4, StartWriterStep DEF ShownInv
<1>5. ASSUME NEW t \in Audits, WriterStep(t) PROVE ShownInv'
  <2>1. \A c \in Constraints : status'[c] = status[c] \/ status'[c].ts = t
    BY <1>5, UpdateWrites, WriterKeeps
  <2> QED
    BY <1>5, <2>1, WriterKeeps DEF ShownInv
<1> QED
  BY <1>1, <1>2, <1>3, <1>4, <1>5, StepCases, QuietStep DEF vars, AuditStart

LEMMA InitOrder == Init => OrderInv /\ LateInv /\ ShownInv
BY DEF Init, OrderInv, LateInv, ShownInv, IdleManager, NoWriter, NewStatus

(***************************************************************************)
(* However many writers were abandoned after the timeout, the results that *)
(* a constraint shows give way to those of an earlier audit only by the    *)
(* one write that a stopped writer had begun (updateConstraintLoop looks   *)
(* at stop before every constraint).                                       *)
(***************************************************************************)
THEOREM StepsBackAtMostOnce == Spec => StepsBackOnce
<1> DEFINE I == TypeInv /\ VersionInv /\ OrderInv /\ LateInv /\ ShownInv
<1>1. Init => I
  BY InitType, InitVersion, InitOrder
<1>2. I /\ [Next]_vars => I'
  BY TypeStep, VersionStep, OrderStep, LateStep, ShownStep
<1>3. ASSUME I, [Next]_vars
      PROVE  [\A c \in Constraints \cap exists \cap exists' :
                LET t == status'[c].ts IN
                (0 < t /\ t < status[c].ts) => writer[t].stop /\ late[t] = 0]_vars
  <2> SUFFICES ASSUME NEW c \in Constraints \cap exists \cap exists',
                      0 < status'[c].ts, status'[c].ts < status[c].ts
               PROVE  writer[status'[c].ts].stop /\ late[status'[c].ts] = 0
    OBVIOUS
  <2>0. /\ Audits \subseteq Nat /\ am.last \in Nat /\ late \in [Audits -> Nat]
        /\ status[c].ts \in Nat
    BY <1>3, AuditAssumption DEF TypeInv, ManagerType, StatusType, Audits
  <2>1. status'[c].ts # status[c].ts /\ status'[c] # status[c]
    BY <2>0
  <2>2. ~\E d \in Constraints : ConstraintChange(d) \/ ByPodUpdate(d)
    <3>1. ASSUME NEW d \in Constraints, ConstraintChange(d) PROVE FALSE
      BY <1>3, <2>1, <3>1 DEF ConstraintChange, TypeInv
    <3>2. ASSUME NEW d \in Constraints, ByPodUpdate(d) PROVE FALSE
      BY <1>3, <2>1, <3>2 DEF ByPodUpdate, TypeInv, StatusType
    <3> QED
      BY <3>1, <3>2
  <2>3. PICK t \in Audits : WriterStep(t)
    BY <1>3, <2>1, <2>2, StepCases, QuietStep, AuditStartStep, WriteResultsStep, StartWriterStep
    DEF vars
  <2>4. WriterUpdate(t)
    BY <1>3, <2>1, <2>3, WriterKeeps
  <2>5. status'[c].ts = t
    BY <1>3, <2>1, <2>4, UpdateWrites
  <2>6. status[c].ts \in Audits /\ status[c].ts <= am.last /\ t # am.last
    BY <1>3, <2>0, <2>5 DEF ShownInv, OrderInv
  <2>7. writer[t].pc = "update"
    BY <2>4 DEF WriterUpdate
  <2>8. writer[t].stop
    BY <1>3, <2>6, <2>7 DEF OrderInv
  <2>9. late[t] = 0
    BY <1>3, <2>0, <2>7 DEF LateInv
  <2> QED
    BY <2>5, <2>8, <2>9
<1>4. Spec => []I
  BY <1>1, <1>2, PTL DEF Spec
<1> QED
  BY <1>3, <1>4, PTL DEF Spec, StepsBackOnce

-------------------------------------------------------------------------------
\* The results: every object once, the list cut at the limit

\* Adding a violation, by a constraint.
LEMMA AddAllAdds ==
  ASSUME NEW res \in ResultType, NEW hit, NEW o \in Objects, NEW c \in Constraints
  PROVE  /\ AddAll(res, hit, o).total[c] = IF c \in hit THEN res.total[c] + 1 ELSE res.total[c]
         /\ AddAll(res, hit, o).shown[c] =
              IF c \in hit /\ Cardinality(res.shown[c]) < constraintViolationsLimit
              THEN res.shown[c] \cup {o} ELSE res.shown[c]
BY DEF AddAll, Add, ResultType

LEMMA AddAllShows ==
  ASSUME NEW res \in ResultType, NEW hit, NEW o \in Objects
  PROVE  \A c \in Constraints : AddAll(res, hit, o).shown[c] \subseteq res.shown[c] \cup {o}
<1> TAKE c \in Constraints
<1>1. AddAll(res, hit, o).shown[c] =
        IF c \in hit /\ Cardinality(res.shown[c]) < constraintViolationsLimit
        THEN res.shown[c] \cup {o} ELSE res.shown[c]
  BY AddAllAdds
<1> QED
  BY <1>1

\* A new violation is in the list unless the list is full.
LEMMA AddAllLimited ==
  ASSUME NEW res \in ResultType, NEW hit, NEW o \in Objects, Limited(res),
         \A c \in Constraints : o \notin res.shown[c]
  PROVE  Limited(AddAll(res, hit, o))
<1> SUFFICES ASSUME NEW c \in Constraints
             PROVE  Cardinality(AddAll(res, hit, o).shown[c]) = Cut(AddAll(res, hit, o).total[c])
  BY DEF Limited
<1> DEFINE S == res.shown[c]
           n == res.total[c]
<1>1. n \in Nat /\ S \subseteq Objects /\ constraintViolationsLimit \in Nat
  BY AuditAssumption DEF ResultType
<1>2. IsFiniteSet(S)
  BY <1>1, FS_Subset, AuditAssumption
<1>3. Cardinality(S \cup {o}) = Cardinality(S) + 1
  BY <1>2, FS_AddElement
<1>4. Cardinality(S) = Cut(n)
  BY DEF Limited
<1>5. /\ AddAll(res, hit, o).total[c] = IF c \in hit THEN n + 1 ELSE n
      /\ AddAll(res, hit, o).shown[c] =
           IF c \in hit /\ Cardinality(S) < constraintViolationsLimit THEN S \cup {o} ELSE S
  BY AddAllAdds
<1> QED
  BY <1>1, <1>3, <1>4, <1>5 DEF Cut

\* The fields of am that reviews change, as functions of the step.
LEMMA AuditAddStep ==
  ASSUME TypeInv, AuditAdd
  PROVE  \/ \E e \in am.chunk : /\ am' = [am EXCEPT !.chunk = @ \ {e}, !.res = AddAll(@, e.hit, e.o)]
                                /\ am'.pc = "add" /\ am'.chunk = am.chunk \ {e}
                                /\ am'.res = AddAll(am.res, e.hit, e.o)
         \/ am'.pc = "write" /\ am'.chunk = am.chunk /\ am'.res = am.res /\ am.chunk = {}
BY DEF AuditAdd, TypeInv, ManagerType

LEMMA AuditReviewStep ==
  ASSUME TypeInv, AuditReview
  PROVE  /\ am'.pc = "review" /\ am'.listed = am.listed /\ am'.kinds = am.kinds
         /\ am'.matched = am.matched
         /\ \E e \in am.chunk :
              /\ am'.chunk = am.chunk \ {e}
              /\ \/ am'.res = am.res
                 \/ am'.res = AddAll(am.res, Hit(e.o), e.o)
              /\ \/ Spoil
                 \/ /\ UNCHANGED truth
                    /\ NamespaceOf[e.o] \in Excluded => am'.res = am.res
                    /\ NamespaceOf[e.o] \notin Excluded =>
                         am'.res = IF e.bad THEN AddAll(am.res, Hit(e.o), e.o) ELSE am.res
<1>1. am \in ManagerType
  BY DEF TypeInv
<1> DEFINE done(e) == [am EXCEPT !.chunk = @ \ {e}]
           known(e) == [done(e) EXCEPT !.nsCache = @ \cup ({NamespaceOf[e.o]} \ {ClusterWide})]
<1>2. PICK e \in am.chunk :
        \/ /\ skipExcludedNamespace(e.o) /\ am' = done(e) /\ UNCHANGED truth
        \/ /\ ~skipExcludedNamespace(e.o) /\ UNCHANGED truth
           /\ am' = [known(e) EXCEPT !.res = IF e.bad THEN AddAll(@, Hit(e.o), e.o) ELSE @]
        \/ /\ am' = done(e) \/ am' = [known(e) EXCEPT !.errs = TRUE]
           /\ Spoil
  BY DEF AuditReview
<1>3. /\ DOMAIN done(e) = DOMAIN am /\ done(e).pc = am.pc /\ done(e).listed = am.listed
      /\ done(e).kinds = am.kinds /\ done(e).matched = am.matched
      /\ done(e).chunk = am.chunk \ {e} /\ done(e).res = am.res
      /\ {"pc", "listed", "kinds", "matched", "chunk", "res", "errs", "nsCache"} \subseteq DOMAIN am
  BY <1>1 DEF ManagerType
<1> HIDE DEF done
<1>4. /\ DOMAIN known(e) = DOMAIN am /\ known(e).pc = am.pc /\ known(e).listed = am.listed
      /\ known(e).kinds = am.kinds /\ known(e).matched = am.matched
      /\ known(e).chunk = am.chunk \ {e} /\ known(e).res = am.res
  BY <1>3
<1> HIDE DEF known
<1>5. am.pc = "review"
  BY DEF AuditReview
<1>6. \A r : LET k == [known(e) EXCEPT !.res = r] IN
        /\ k.pc = am.pc /\ k.listed = am.listed /\ k.kinds = am.kinds /\ k.matched = am.matched
        /\ k.chunk = am.chunk \ {e} /\ k.res = r
  BY <1>3, <1>4
<1>7. LET k == [known(e) EXCEPT !.errs = TRUE] IN
        /\ k.pc = am.pc /\ k.listed = am.listed /\ k.kinds = am.kinds /\ k.matched = am.matched
        /\ k.chunk = am.chunk \ {e} /\ k.res = am.res
  BY <1>3, <1>4
<1>8. CASE skipExcludedNamespace(e.o) /\ am' = done(e) /\ UNCHANGED truth
  BY <1>3, <1>5, <1>8 DEF skipExcludedNamespace
<1>9. CASE /\ ~skipExcludedNamespace(e.o) /\ UNCHANGED truth
           /\ am' = [known(e) EXCEPT !.res = IF e.bad THEN AddAll(@, Hit(e.o), e.o) ELSE @]
  <2>1. am'.res = IF e.bad THEN AddAll(am.res, Hit(e.o), e.o) ELSE am.res
    BY <1>3, <1>4, <1>9
  <2>2. /\ am'.pc = am.pc /\ am'.listed = am.listed /\ am'.kinds = am.kinds
        /\ am'.matched = am.matched /\ am'.chunk = am.chunk \ {e}
    BY <1>3, <1>4, <1>9
  <2> QED
    BY <1>5, <1>9, <2>1, <2>2 DEF skipExcludedNamespace
<1>10. CASE (am' = done(e) \/ am' = [known(e) EXCEPT !.errs = TRUE]) /\ Spoil
  BY <1>3, <1>5, <1>7, <1>10
<1> QED
  BY <1>2, <1>8, <1>9, <1>10

LEMMA AuditListStep ==
  ASSUME TypeInv, AuditList
  PROVE  /\ am.pc = "list" /\ am'.res = am.res /\ am'.matched = am.matched
         /\ \E k \in am.kinds :
              \/ /\ am'.pc = "list" /\ am'.listed = am.listed /\ am'.chunk = am.chunk
                 /\ am'.kinds = am.kinds \ {k}
                 /\ Spoil \/ (UNCHANGED truth /\ {AllKinds, k} \cap am.matched = {})
              \/ \E os \in SUBSET {o \in Objects : KindOf[o] = k /\ o \notin am.listed} :
                   /\ am'.pc = "review" /\ am'.listed = am.listed \cup os
                   /\ am'.chunk = {[o |-> o, bad |-> o \in bad] : o \in os}
                   /\ UNCHANGED truth
                   /\ am'.kinds \in {am.kinds, am.kinds \ {k}}
                   /\ am'.kinds # am.kinds => os = {o \in Objects : KindOf[o] = k /\ o \notin am.listed}
<1>1. am \in ManagerType /\ am.pc = "list"
  BY DEF TypeInv, AuditList
<1>2. PICK k \in am.kinds :
        \/ /\ am' = [am EXCEPT !.kinds = @ \ {k}]
           /\ Spoil \/ (UNCHANGED truth /\ {AllKinds, k} \cap am.matched = {})
        \/ \E os \in SUBSET ({o \in Objects : KindOf[o] = k} \ am.listed) :
             /\ am' = [am EXCEPT !.pc = "review", !.listed = @ \cup os,
                          !.chunk = {[o |-> o, bad |-> o \in bad] : o \in os},
                          !.kinds = IF {o \in Objects : KindOf[o] = k} \ am.listed = os
                                    THEN @ \ {k} ELSE @]
             /\ UNCHANGED truth
  BY DEF AuditList
<1>3. ASSUME NEW os \in SUBSET ({o \in Objects : KindOf[o] = k} \ am.listed),
             am' = [am EXCEPT !.pc = "review", !.listed = @ \cup os,
                       !.chunk = {[o |-> o, bad |-> o \in bad] : o \in os},
                       !.kinds = IF {o \in Objects : KindOf[o] = k} \ am.listed = os
                                 THEN @ \ {k} ELSE @],
             UNCHANGED truth
      PROVE  /\ am'.res = am.res /\ am'.matched = am.matched
             /\ am'.pc = "review" /\ am'.listed = am.listed \cup os
             /\ am'.chunk = {[o |-> o, bad |-> o \in bad] : o \in os}
             /\ am'.kinds = IF {o \in Objects : KindOf[o] = k} \ am.listed = os
                            THEN am.kinds \ {k} ELSE am.kinds
  BY <1>1, <1>3 DEF ManagerType
<1>4. {o \in Objects : KindOf[o] = k} \ am.listed = {o \in Objects : KindOf[o] = k /\ o \notin am.listed}
  OBVIOUS
<1>5. CASE /\ am' = [am EXCEPT !.kinds = @ \ {k}]
           /\ Spoil \/ (UNCHANGED truth /\ {AllKinds, k} \cap am.matched = {})
  <2>1. /\ am'.res = am.res /\ am'.matched = am.matched /\ am'.pc = "list"
        /\ am'.listed = am.listed /\ am'.chunk = am.chunk /\ am'.kinds = am.kinds \ {k}
    BY <1>1, <1>5 DEF ManagerType
  <2> QED
    BY <1>1, <1>5, <2>1
<1>6. ASSUME NEW os \in SUBSET ({o \in Objects : KindOf[o] = k} \ am.listed),
             am' = [am EXCEPT !.pc = "review", !.listed = @ \cup os,
                       !.chunk = {[o |-> o, bad |-> o \in bad] : o \in os},
                       !.kinds = IF {o \in Objects : KindOf[o] = k} \ am.listed = os
                                 THEN @ \ {k} ELSE @],
             UNCHANGED truth
      PROVE  /\ am'.res = am.res /\ am'.matched = am.matched
             /\ \E us \in SUBSET {o \in Objects : KindOf[o] = k /\ o \notin am.listed} :
                   /\ am'.pc = "review" /\ am'.listed = am.listed \cup us
                   /\ am'.chunk = {[o |-> o, bad |-> o \in bad] : o \in us}
                   /\ UNCHANGED truth
                   /\ am'.kinds \in {am.kinds, am.kinds \ {k}}
                   /\ am'.kinds # am.kinds => us = {o \in Objects : KindOf[o] = k /\ o \notin am.listed}
  <2>1. /\ am'.res = am.res /\ am'.matched = am.matched
        /\ am'.pc = "review" /\ am'.listed = am.listed \cup os
        /\ am'.chunk = {[o |-> o, bad |-> o \in bad] : o \in os}
        /\ am'.kinds = IF {o \in Objects : KindOf[o] = k} \ am.listed = os
                       THEN am.kinds \ {k} ELSE am.kinds
    BY <1>3, <1>6
  <2>2. /\ os \in SUBSET {o \in Objects : KindOf[o] = k /\ o \notin am.listed}
        /\ am'.kinds \in {am.kinds, am.kinds \ {k}}
        /\ am'.kinds # am.kinds => os = {o \in Objects : KindOf[o] = k /\ o \notin am.listed}
    BY <1>4, <2>1
  <2> QED
    BY <1>6, <2>1, <2>2, Zenon
<1> QED
  BY <1>1, <1>2, <1>5, <1>6, Zenon

\* Two reviews of one audit are of different objects.
LEMMA OnceStep ==
  ASSUME TypeInv, OnceInv, [Next]_vars
  PROVE  OnceInv'
<1>0. am \in ManagerType /\ am.res \in ResultType
  BY DEF TypeInv, ManagerType
<1>1. CASE UNCHANGED am
  BY <1>1 DEF OnceInv, Pending
<1>2. ASSUME am'.res = NoResults, am'.listed = {}, am'.chunk = {}
      PROVE  OnceInv'
  BY <1>2 DEF OnceInv, Pending, NoResults
<1>3. CASE AuditFails \/ AuditStart \/ StartWriter
  <2>1. am'.res = NoResults /\ am'.listed = {} /\ am'.chunk = {}
    BY <1>3 DEF AuditFails, AuditStart, StartWriter, Ended, IdleManager
  <2> QED
    BY <1>2, <2>1
<1>4. CASE WaitTimesOut \/ WriterStopped \/ WriteResults
  <2>1. /\ am'.pc \in {"wait", "start"}
        /\ am'.res = am.res /\ am'.chunk = am.chunk
    BY <1>0, <1>4 DEF WaitTimesOut, WriterStopped, WriteResults, ManagerType
  <2> QED
    BY <2>1 DEF OnceInv, Pending
<1>5. CASE AuditFromCache
  <2>1. /\ am.pc = "cache" /\ am'.pc = "add" /\ am'.res = am.res
        /\ am'.chunk = {[o |-> o, hit |-> Hit(o)] : o \in Cached \cap bad}
    BY <1>0, <1>5 DEF AuditFromCache, ManagerType
  <2>2. \A c \in Constraints : am.res.shown[c] = {}
    BY <2>1 DEF OnceInv, NoResults
  <2>3. \A e, f \in am'.chunk : e.o = f.o => e = f
    BY <2>1
  <2> QED
    BY <2>1, <2>2, <2>3 DEF OnceInv
<1>6. CASE AuditAdd
  <2>1. am.pc = "add" /\ am'.pc \in {"add", "write"}
    BY <1>6, AuditAddStep DEF AuditAdd
  <2>2. CASE am'.chunk = am.chunk /\ am'.res = am.res
    BY <2>1, <2>2 DEF OnceInv, Pending
  <2>3. ASSUME NEW e \in am.chunk, am'.chunk = am.chunk \ {e}, am'.res = AddAll(am.res, e.hit, e.o)
        PROVE  OnceInv'
    <3>1. e.o \in Objects
      BY <1>0 DEF ManagerType, EntryType
    <3>2. \A c \in Constraints : am'.res.shown[c] \subseteq am.res.shown[c] \cup {e.o}
      BY <1>0, <2>3, <3>1, AddAllShows
    <3>3. Pending' = Pending \ {e.o}
      BY <2>3 DEF OnceInv, Pending
    <3>4. \A c \in Constraints : am'.res.shown[c] \cap Pending' = {}
      BY <3>2, <3>3 DEF OnceInv
    <3>5. \A f, g \in am'.chunk : f.o = g.o => f = g
      BY <2>3 DEF OnceInv
    <3> QED
      BY <2>1, <3>4, <3>5 DEF OnceInv
  <2> QED
    BY <1>6, <2>2, <2>3, AuditAddStep
<1>7. CASE AuditDiscover \/ AuditMatch
  <2>1. /\ am.pc \in {"discover", "match"}
        /\ am'.listed = am.listed /\ am'.chunk = am.chunk /\ am'.res = am.res
    BY <1>0, <1>7 DEF AuditDiscover, AuditMatch, ManagerType
  <2>2. am.listed = {} /\ am.chunk = {} /\ am.res = NoResults
    BY <2>1 DEF OnceInv
  <2> QED
    BY <1>2, <2>1, <2>2
<1>8. CASE AuditList
  <2>1. am.pc = "list" /\ am'.res = am.res
    BY <1>8, AuditListStep
  <2>2. CASE am'.pc = "list" /\ am'.listed = am.listed /\ am'.chunk = am.chunk
    BY <2>1, <2>2 DEF OnceInv, Pending
  <2>3. ASSUME NEW os, os \cap am.listed = {}, am'.pc = "review", am'.listed = am.listed \cup os,
               am'.chunk = {[o |-> o, bad |-> o \in bad] : o \in os}
        PROVE  OnceInv'
    <3>1. Pending' = os
      <4>1. ASSUME NEW x \in os PROVE x \in Pending'
        <5>1. [o |-> x, bad |-> x \in bad] \in am'.chunk
          BY <2>3, Zenon
        <5>2. [o |-> x, bad |-> x \in bad].o = x
          OBVIOUS
        <5> QED
          BY <5>1, <5>2, Zenon DEF Pending
      <4>2. ASSUME NEW x \in Pending' PROVE x \in os
        <5>1. PICK e \in am'.chunk : x = e.o
          BY DEF Pending
        <5>2. PICK o \in os : e = [o |-> o, bad |-> o \in bad]
          BY <2>3, Zenon
        <5> QED
          BY <5>1, <5>2
      <4> QED
        BY <4>1, <4>2
    <3>2. \A f, g \in am'.chunk : f.o = g.o => f = g
      BY <2>3
    <3>3. \A c \in Constraints : am.res.shown[c] \subseteq am.listed
      BY <2>1 DEF OnceInv
    <3> QED
      BY <2>1, <2>3, <3>1, <3>2, <3>3 DEF OnceInv
  <2>4. \/ am'.pc = "list" /\ am'.listed = am.listed /\ am'.chunk = am.chunk
        \/ \E os : /\ os \cap am.listed = {} /\ am'.pc = "review" /\ am'.listed = am.listed \cup os
                   /\ am'.chunk = {[o |-> o, bad |-> o \in bad] : o \in os}
    BY <1>8, AuditListStep, Zenon
  <2> QED
    BY <2>2, <2>3, <2>4
<1>9. CASE AuditReview
  <2>1. PICK e \in am.chunk :
          /\ am'.chunk = am.chunk \ {e}
          /\ am'.res = am.res \/ am'.res = AddAll(am.res, Hit(e.o), e.o)
    BY <1>9, AuditReviewStep
  <2>2. am.pc = "review" /\ am'.pc = "review" /\ am'.listed = am.listed
    BY <1>9, AuditReviewStep DEF AuditReview
  <2>3. e.o \in Objects /\ e.o \in am.listed
    BY <1>0, <2>2 DEF ManagerType, EntryType, OnceInv, Pending
  <2>4. \A c \in Constraints : am'.res.shown[c] \subseteq am.res.shown[c] \cup {e.o}
    <3>1. \A c \in Constraints : AddAll(am.res, Hit(e.o), e.o).shown[c] \subseteq am.res.shown[c] \cup {e.o}
      BY <1>0, <2>3, AddAllShows
    <3> QED
      BY <2>1, <3>1
  <2>5. Pending' = Pending \ {e.o}
    BY <2>1 DEF OnceInv, Pending
  <2>6. \A f, g \in am'.chunk : f.o = g.o => f = g
    BY <2>1 DEF OnceInv
  <2> QED
    BY <2>2, <2>3, <2>4, <2>5, <2>6 DEF OnceInv
<1>10. CASE AuditNext
  <2>1. CASE am' = Ended
    BY <1>2, <2>1 DEF Ended, IdleManager
  <2>2. CASE am' = [am EXCEPT !.pc = "list"] /\ am.pc = "review" /\ am.chunk = {}
    <3>1. am'.pc = "list" /\ am'.listed = am.listed /\ am'.chunk = am.chunk /\ am'.res = am.res
      BY <1>0, <2>2 DEF ManagerType
    <3> QED
      BY <2>2, <3>1 DEF OnceInv, Pending
  <2>3. CASE am' = [am EXCEPT !.pc = "write"]
    <3>1. am'.pc = "write" /\ am'.listed = am.listed /\ am'.chunk = am.chunk /\ am'.res = am.res
      BY <1>0, <2>3 DEF ManagerType
    <3> QED
      BY <3>1 DEF OnceInv, Pending
  <2> QED
    BY <1>10, <2>1, <2>2, <2>3 DEF AuditNext
<1> QED
  BY <1>1, <1>3, <1>4, <1>5, <1>6, <1>7, <1>8, <1>9, <1>10, StepCases, WriterKeeps
  DEF vars, Quiet, Reviewing, ObjectChange, ConstraintChange, ByPodUpdate

\* The list of violations is cut, and the total is not.
LEMMA LimitStep ==
  ASSUME TypeInv, VersionInv, OnceInv, LimitInv, [Next]_vars
  PROVE  LimitInv'
<1>0. am \in ManagerType /\ am.res \in ResultType /\ status \in [Constraints -> StatusType]
  BY DEF TypeInv, ManagerType
<1>1. Limited(NoResults) /\ Cardinality({}) = Cut(0)
  <2>1. Cardinality({}) = 0
    BY FS_EmptySet
  <2> QED
    BY <2>1, AuditAssumption DEF Limited, NoResults, Cut, Empty
<1>2. Limited(am'.res)
  <2>1. CASE am'.res \in {am.res, NoResults}
    BY <1>1, <2>1 DEF LimitInv
  <2>2. ASSUME NEW e \in am.chunk, NEW hit, am'.res = AddAll(am.res, hit, e.o)
        PROVE  Limited(am'.res)
    <3>1. e.o \in Objects
      BY <1>0 DEF ManagerType, EntryType
    <3>2. \A c \in Constraints : e.o \notin am.res.shown[c]
      BY DEF OnceInv, Pending
    <3> QED
      BY <1>0, <2>2, <3>1, <3>2, AddAllLimited DEF LimitInv
  <2>3. CASE AuditFails \/ AuditStart \/ StartWriter
    <3>1. am'.res = NoResults
      BY <2>3 DEF AuditFails, AuditStart, StartWriter, Ended, IdleManager
    <3> QED
      BY <2>1, <3>1
  <2>4. CASE WaitTimesOut \/ WriterStopped \/ WriteResults \/ AuditFromCache \/ AuditDiscover \/ AuditMatch
    <3>1. am'.res = am.res
      BY <1>0, <2>4 DEF WaitTimesOut, WriterStopped, WriteResults, AuditFromCache, AuditDiscover,
         AuditMatch, ManagerType
    <3> QED
      BY <2>1, <3>1
  <2>5. CASE AuditNext
    <3>1. am'.res \in {am.res, NoResults}
      BY <1>0, <2>5 DEF AuditNext, ManagerType, Ended, IdleManager
    <3> QED
      BY <2>1, <3>1
  <2> QED
    BY <2>1, <2>2, <2>3, <2>4, <2>5, StepCases, WriterKeeps, AuditAddStep, AuditReviewStep, AuditListStep
    DEF vars, Quiet, Reviewing, ObjectChange, ConstraintChange, ByPodUpdate
<1>3. \A t \in Audits : Limited(writer'[t].res)
  BY StepCases, QuietStep, AuditStartStep, WriteResultsStep, StartWriterStep, WriterKeeps
  DEF LimitInv, vars, ConstraintChange, ByPodUpdate
<1>4. \A c \in Constraints : Cardinality(status'[c].shown) = Cut(status'[c].total)
  <2>1. CASE UNCHANGED status
    BY <2>1 DEF LimitInv
  <2>2. ASSUME NEW c \in Constraints, ConstraintChange(c)
        PROVE  \A d \in Constraints : Cardinality(status'[d].shown) = Cut(status'[d].total)
    BY <1>0, <1>1, <2>2 DEF ConstraintChange, LimitInv, NewStatus
  <2>3. ASSUME NEW c \in Constraints, ByPodUpdate(c)
        PROVE  \A d \in Constraints : Cardinality(status'[d].shown) = Cut(status'[d].total)
    <3>1. \A d \in Constraints : status'[d].shown = status[d].shown /\ status'[d].total = status[d].total
      BY <1>0, <2>3 DEF ByPodUpdate, StatusType
    <3> QED
      BY <3>1 DEF LimitInv
  <2>4. ASSUME NEW t \in Audits, WriterUpdate(t)
        PROVE  \A d \in Constraints : Cardinality(status'[d].shown) = Cut(status'[d].total)
    BY <2>4, UpdateWrites DEF LimitInv, Limited
  <2> QED
    BY <2>1, <2>2, <2>3, <2>4, StepCases, QuietStep, AuditStartStep, WriteResultsStep,
       StartWriterStep, WriterKeeps DEF vars
<1> QED
  BY <1>2, <1>3, <1>4 DEF LimitInv

-------------------------------------------------------------------------------
\* The totals

\* What a review of one more object adds to the violations.
LEMMA OneMore ==
  ASSUME NEW os \in SUBSET Objects, NEW o \in Objects, o \notin os, TypeInv, Counts(os), o \in bad
  PROVE  \A c \in Constraints :
           AddAll(am.res, Hit(o), o).total[c] = Cardinality(Violations(c, os \cup {o}))
<1> TAKE c \in Constraints
<1>1. am.res \in ResultType /\ am.res.total[c] \in Nat
  BY DEF TypeInv, ManagerType, ResultType
<1>2. AddAll(am.res, Hit(o), o).total[c] = IF c \in Hit(o) THEN am.res.total[c] + 1 ELSE am.res.total[c]
  <2> DEFINE r == am.res
             h == Hit(o)
  <2>1. r \in ResultType
    BY <1>1
  <2> HIDE DEF r, h
  <2>2. AddAll(r, h, o).total[c] = IF c \in h THEN r.total[c] + 1 ELSE r.total[c]
    BY <2>1 DEF AddAll, Add, ResultType
  <2> QED
    BY <2>2 DEF r, h
<1>3. am.res.total[c] = Cardinality(Violations(c, os))
  BY DEF Counts
<1>4. IsFiniteSet(Violations(c, os)) /\ o \notin Violations(c, os)
  <2>1. Violations(c, os) \subseteq Objects
    BY DEF Violations
  <2> QED
    BY <2>1, FS_Subset, AuditAssumption DEF Violations
<1>5. Violations(c, os \cup {o}) = IF c \in Hit(o) THEN Violations(c, os) \cup {o} ELSE Violations(c, os)
  BY DEF Violations, Hit
<1>6. Cardinality(Violations(c, os) \cup {o}) = Cardinality(Violations(c, os)) + 1
  BY <1>4, FS_AddElement
<1> QED
  BY <1>2, <1>3, <1>5, <1>6

\* The same for an object that breaks no rule.
LEMMA NoneMore ==
  ASSUME NEW os, NEW o, o \notin bad \/ Hit(o) = {}, NEW c \in Constraints
  PROVE  Violations(c, os \cup {o}) = Violations(c, os)
BY DEF Violations, Hit

LEMMA NothingCounted ==
  ASSUME NEW os, os \cap bad = {}, am.res = NoResults
  PROVE  Counts(os)
<1>1. \A c \in Constraints : Violations(c, os) = {}
  BY DEF Violations
<1>2. Cardinality({}) = 0
  BY FS_EmptySet
<1> QED
  BY <1>1, <1>2 DEF Counts, NoResults, Empty

\* A cluster that changes, and a request that fails, spoil the audit in progress.
LEMMA SpoiledAudit ==
  ASSUME TypeInv, Spoil, am'.now = am.now, am'.pc # "idle" => am.pc # "idle"
  PROVE  ~Faithful'
BY DEF Spoil, Faithful, This, TypeInv

LEMMA SameWorld ==
  ASSUME UNCHANGED world
  PROVE  /\ Expected' = Expected /\ Audited' = Audited
         /\ \A o : Hit(o)' = Hit(o)
         /\ \A c, os : Violations(c, os)' = Violations(c, os)
BY DEF world, Expected, Audited, Hit, Violations, Matches

LEMMA CountUnchanged ==
  ASSUME CountInv, UNCHANGED <<world, am, truth>>
  PROVE  CountInv'
<1>1. /\ Expected' = Expected /\ Audited' = Audited
      /\ \A o : Hit(o)' = Hit(o)
      /\ \A c, os : Violations(c, os)' = Violations(c, os)
  BY SameWorld
<1> QED
  BY <1>1 DEF CountInv, Faithful, Counts, Listed, Pending, MatchedBy, world

\* The cache of OPA.
LEMMA CountCache ==
  ASSUME TypeInv, OnceInv, CountInv, AuditFromCache \/ AuditAdd
  PROVE  CountInv'
<1>0. UNCHANGED <<world, truth>> /\ am \in ManagerType /\ am.res \in ResultType
  BY DEF AuditFromCache, AuditAdd, TypeInv, ManagerType, history
<1>1. /\ Expected' = Expected /\ Audited' = Audited
      /\ \A o : Hit(o)' = Hit(o)
      /\ \A c, os : Violations(c, os)' = Violations(c, os)
  BY <1>0, SameWorld
<1> SUFFICES ASSUME Faithful' PROVE CountInv'
  BY DEF CountInv
<1>2. am'.now = am.now /\ Faithful
  BY <1>0, ReviewingStep DEF Faithful, Reviewing
<1>3. truth'[am'.now] = Expected'
  BY <1>0, <1>1, <1>2 DEF CountInv
<1>4. CASE AuditFromCache
  <2>1. /\ am'.pc = "add" /\ am'.res = am.res /\ am.pc = "cache"
        /\ am'.chunk = {[o |-> o, hit |-> Hit(o)] : o \in Cached \cap bad}
    BY <1>0, <1>4 DEF AuditFromCache, ManagerType
  <2>2. Pending' = Cached \cap bad
    <3>1. ASSUME NEW o \in Cached \cap bad PROVE o \in Pending'
      <4>1. [o |-> o, hit |-> Hit(o)] \in am'.chunk /\ [o |-> o, hit |-> Hit(o)].o = o
        BY <2>1
      <4> QED
        BY <4>1, Zenon DEF Pending
    <3>2. ASSUME NEW x \in Pending' PROVE x \in Cached \cap bad
      BY <2>1 DEF Pending
    <3> QED
      BY <3>1, <3>2
  <2>3. (Cached \ Pending') \cap bad = {} /\ am.res = NoResults
    BY <2>1, <2>2 DEF OnceInv
  <2>4. Counts(Cached \ Pending')
    BY <2>3, NothingCounted
  <2>5. Counts(Cached \ Pending)'
    BY <1>1, <2>1, <2>4 DEF Counts
  <2>6. \A e \in am'.chunk : e.o \in Cached \cap bad /\ e.hit = Hit(e.o)
    BY <2>1
  <2> QED
    BY <1>0, <1>1, <1>2, <1>3, <2>1, <2>5, <2>6 DEF CountInv, world
<1>5. ASSUME NEW e \in am.chunk, am.pc = "add", am'.pc = "add", am'.chunk = am.chunk \ {e},
             am'.res = AddAll(am.res, e.hit, e.o)
      PROVE  CountInv'
  <2>1. /\ conf.fromCache /\ e.o \in Cached \cap bad /\ e.hit = Hit(e.o)
        /\ Counts(Cached \ Pending)
    BY <1>2, <1>5 DEF CountInv
  <2>2. e.o \in Objects /\ Cached \ Pending \in SUBSET Objects /\ e.o \notin Cached \ Pending
    BY <2>1, AuditAssumption DEF Pending
  <2>3. Pending' = Pending \ {e.o}
    BY <1>5 DEF OnceInv, Pending
  <2>4. Cached \ Pending' = (Cached \ Pending) \cup {e.o}
    BY <2>1, <2>3
  <2>5. \A c \in Constraints : am'.res.total[c] = Cardinality(Violations(c, (Cached \ Pending) \cup {e.o}))
    BY <1>5, <2>1, <2>2, OneMore
  <2>6. Counts(Cached \ Pending)'
    BY <1>1, <2>4, <2>5 DEF Counts
  <2>7. \A f \in am'.chunk : f.o \in Cached \cap bad /\ f.hit = Hit(f.o)
    BY <1>2, <1>5 DEF CountInv
  <2> QED
    BY <1>0, <1>1, <1>2, <1>3, <1>5, <2>1, <2>6, <2>7 DEF CountInv, world
<1>6. CASE am.pc = "add" /\ am'.pc = "write" /\ am'.res = am.res /\ am.chunk = {}
  <2>1. conf.fromCache /\ Counts(Cached \ Pending) /\ Pending = {}
    BY <1>2, <1>6 DEF CountInv, Pending
  <2>2. Cached \ Pending = Audited
    BY <2>1 DEF Audited
  <2>3. Counts(Audited)'
    BY <1>1, <1>6, <2>1, <2>2 DEF Counts
  <2> QED
    BY <1>3, <1>6, <2>3 DEF CountInv
<1> QED
  BY <1>4, <1>5, <1>6, AuditAddStep DEF AuditAdd

\* What the audit from the API server needs to know when it starts to list.
LEMMA CountsNone ==
  ASSUME TypeInv, OnceInv, CountInv, AuditDiscover \/ AuditMatch, Faithful'
  PROVE  /\ ~Spoil /\ UNCHANGED <<world, truth>> /\ Faithful /\ am'.now = am.now
         /\ truth'[am'.now] = Expected' /\ ~conf'.fromCache
         /\ am'.chunk = {} /\ Pending' = {} /\ am'.listed = {} /\ Counts(Listed)'
<1>0. am \in ManagerType
  BY DEF TypeInv
<1>1. am'.now = am.now /\ am.pc # "idle" /\ UNCHANGED world
  BY ReviewingStep DEF Reviewing
<1>2. ~Spoil
  BY <1>1, SpoiledAudit
<1>3. UNCHANGED truth
  BY <1>2 DEF AuditDiscover, AuditMatch
<1>4. Faithful
  BY <1>1, <1>3 DEF Faithful
<1>5. /\ Expected' = Expected
      /\ \A c, os : Violations(c, os)' = Violations(c, os)
  BY <1>1, SameWorld
<1>6. /\ am.pc \in {"discover", "match"}
      /\ am'.listed = am.listed /\ am'.chunk = am.chunk /\ am'.res = am.res
  BY <1>0 DEF AuditDiscover, AuditMatch, ManagerType
<1>7. am.listed = {} /\ am.chunk = {} /\ am.res = NoResults
  BY <1>6 DEF OnceInv
<1>8. Pending' = {} /\ Listed' = {}
  BY <1>6, <1>7 DEF Pending, Listed
<1>9. Counts({})
  BY <1>7, NothingCounted
<1>10. Counts(Listed)'
  BY <1>5, <1>6, <1>8, <1>9 DEF Counts
<1>11. truth[am.now] = Expected /\ ~conf.fromCache
  BY <1>4, <1>6 DEF CountInv
<1> QED
  BY <1>1, <1>2, <1>3, <1>4, <1>5, <1>6, <1>7, <1>8, <1>10, <1>11 DEF world

\* The kinds that are audited: those that some constraint matches.
LEMMA CountMatch ==
  ASSUME TypeInv, OnceInv, CountInv, AuditDiscover \/ AuditMatch
  PROVE  CountInv'
<1> SUFFICES ASSUME Faithful' PROVE CountInv'
  BY DEF CountInv
<1>0. am \in ManagerType
  BY DEF TypeInv
<1>1. /\ ~Spoil /\ UNCHANGED <<world, truth>> /\ Faithful /\ am'.now = am.now
      /\ truth'[am'.now] = Expected' /\ ~conf'.fromCache
      /\ am'.chunk = {} /\ am'.listed = {} /\ Counts(Listed)'
  BY CountsNone
<1>2. ASSUME am'.pc = "match", am'.kinds = Kinds,
             MatchedBy({c \in exists : CKindOf[c] \notin am'.ckinds}) \subseteq am'.matched
      PROVE  CountInv'
  BY <1>1, <1>2 DEF CountInv, world
<1>3. ASSUME am'.pc = "list", am'.kinds = Kinds,
             AllKinds \in am'.matched \/ MatchedBy(exists) \subseteq am'.matched
      PROVE  CountInv'
  <2>1. \A o \in Objects : KindOf[o] \in am'.kinds
    BY <1>3 DEF Kinds
  <2>2. AllKinds \in am'.matched \/ MatchedBy(exists') \subseteq am'.matched
    BY <1>1, <1>3 DEF world
  <2> QED
    BY <1>1, <1>3, <2>1, <2>2 DEF CountInv
<1>4. CASE AuditDiscover
  <2> DEFINE pc == IF conf.matchKindOnly THEN "match" ELSE "list"
             ms == IF conf.matchKindOnly THEN {} ELSE {AllKinds}
  <2>1. am.pc = "discover" /\ am' = [am EXCEPT !.pc = pc, !.kinds = Kinds, !.matched = ms]
    BY <1>1, <1>4 DEF AuditDiscover
  <2>2. (pc = "match" /\ ms = {}) \/ (pc = "list" /\ ms = {AllKinds})
    OBVIOUS
  <2> HIDE DEF pc, ms
  <2>3. am'.pc = pc /\ am'.kinds = Kinds /\ am'.matched = ms /\ am'.ckinds = am.ckinds
    BY <1>0, <2>1 DEF ManagerType
  <2>4. am.ckinds = CKinds
    BY <1>1, <2>1 DEF CountInv
  <2>5. MatchedBy({c \in exists : CKindOf[c] \notin am'.ckinds}) = {}
    BY <2>3, <2>4 DEF CKinds, MatchedBy, TypeInv
  <2> QED
    BY <1>2, <1>3, <2>2, <2>3, <2>5
<1>5. CASE AuditMatch
  <2>1. am.pc = "match"
    BY <1>5 DEF AuditMatch
  <2>2. am.kinds = Kinds /\ MatchedBy({c \in exists : CKindOf[c] \notin am.ckinds}) \subseteq am.matched
    BY <1>1, <2>1 DEF CountInv
  <2>3. ASSUME NEW k \in am.ckinds,
               am' = [am EXCEPT !.ckinds = @ \ {k},
                        !.matched = @ \cup MatchedBy({c \in exists : CKindOf[c] = k})]
        PROVE  CountInv'
    <3>1. /\ am'.pc = "match" /\ am'.kinds = Kinds /\ am'.ckinds = am.ckinds \ {k}
          /\ am'.matched = am.matched \cup MatchedBy({c \in exists : CKindOf[c] = k})
      BY <1>0, <2>1, <2>2, <2>3 DEF ManagerType
    <3>2. MatchedBy({c \in exists : CKindOf[c] \notin am'.ckinds}) \subseteq am'.matched
      BY <2>2, <3>1 DEF MatchedBy
    <3> QED
      BY <1>2, <3>1, <3>2
  <2>4. CASE (am.ckinds = {} \/ AllKinds \in am.matched) /\ am' = [am EXCEPT !.pc = "list"]
    <3>1. am'.pc = "list" /\ am'.kinds = Kinds /\ am'.matched = am.matched
      BY <1>0, <2>2, <2>4 DEF ManagerType
    <3>2. AllKinds \in am'.matched \/ MatchedBy(exists) \subseteq am'.matched
      <4>1. CASE am.ckinds = {}
        <5>1. {c \in exists : CKindOf[c] \notin am.ckinds} = exists
          BY <4>1
        <5> QED
          BY <2>2, <3>1, <5>1
      <4> QED
        BY <2>4, <3>1, <4>1
    <3> QED
      BY <1>3, <3>1, <3>2
  <2> QED
    BY <1>1, <1>5, <2>3, <2>4 DEF AuditMatch
<1> QED
  BY <1>4, <1>5

\* A kind that is not listed has no violations.
LEMMA NotMatched ==
  ASSUME TypeInv, NEW k, AllKinds \in am.matched \/ MatchedBy(exists) \subseteq am.matched,
         {AllKinds, k} \cap am.matched = {}, NEW o \in Objects, KindOf[o] = k
  PROVE  Hit(o) = {}
<1> SUFFICES ASSUME NEW c \in Hit(o) PROVE FALSE
  OBVIOUS
<1>1. PICK x \in {AllKinds, k} : x \in MatchKinds[c]
  BY DEF Hit, Matches
<1>2. x \in MatchedBy(exists)
  BY <1>1 DEF Hit, MatchedBy
<1> QED
  BY <1>1, <1>2

\* A chunk is listed: nothing of it is reviewed yet.
LEMMA CountList ==
  ASSUME TypeInv, OnceInv, CountInv, AuditList
  PROVE  CountInv'
<1> SUFFICES ASSUME Faithful' PROVE CountInv'
  BY DEF CountInv
<1>1. am'.now = am.now /\ am.pc = "list" /\ UNCHANGED world
  BY ReviewingStep DEF Reviewing, AuditList
<1>2. ~Spoil
  BY <1>1, SpoiledAudit
<1>3. UNCHANGED truth
  BY <1>2, AuditListStep
<1>4. Faithful
  BY <1>1, <1>3 DEF Faithful
<1>5. /\ Expected' = Expected /\ \A o : Hit(o)' = Hit(o)
      /\ \A c, os : Violations(c, os)' = Violations(c, os)
  BY <1>1, SameWorld
<1>6. /\ truth'[am'.now] = Expected' /\ ~conf'.fromCache
      /\ AllKinds \in am'.matched \/ MatchedBy(exists') \subseteq am'.matched
      /\ am.chunk = {} /\ Pending = {}
  <2>1. am'.matched = am.matched
    BY AuditListStep
  <2> QED
    BY <1>1, <1>3, <1>4, <1>5, <2>1 DEF CountInv, OnceInv, Pending, world
<1>7. /\ \A o \in Objects : KindOf[o] \notin am.kinds => o \in am.listed \/ Hit(o) = {}
      /\ Counts(Listed)
  BY <1>1, <1>4 DEF CountInv
<1>8. ASSUME am'.pc \in {"list", "review"}, Listed' = Listed,
             \A e \in am'.chunk : e.bad <=> e.o \in bad',
             \A o \in Objects : KindOf[o] \notin am'.kinds => o \in am'.listed \/ Hit(o) = {}
      PROVE  CountInv'
  <2>1. am'.res = am.res
    BY AuditListStep
  <2>2. Counts(Listed)'
    BY <1>5, <1>7, <1>8, <2>1 DEF Counts
  <2>3. \A o \in Objects : KindOf[o] \notin am'.kinds => o \in am'.listed \/ Hit(o)' = {}
    BY <1>5, <1>8
  <2> QED
    BY <1>6, <1>8, <2>2, <2>3 DEF CountInv
<1>9. PICK k \in am.kinds :
        \/ /\ am'.pc = "list" /\ am'.listed = am.listed /\ am'.chunk = am.chunk
           /\ am'.kinds = am.kinds \ {k} /\ {AllKinds, k} \cap am.matched = {}
        \/ \E os \in SUBSET {o \in Objects : KindOf[o] = k /\ o \notin am.listed} :
             /\ am'.pc = "review" /\ am'.listed = am.listed \cup os
             /\ am'.chunk = {[o |-> o, bad |-> o \in bad] : o \in os}
             /\ am'.kinds \in {am.kinds, am.kinds \ {k}}
             /\ am'.kinds # am.kinds => os = {o \in Objects : KindOf[o] = k /\ o \notin am.listed}
  BY <1>2, AuditListStep, Zenon
<1>10. CASE /\ am'.pc = "list" /\ am'.listed = am.listed /\ am'.chunk = am.chunk
            /\ am'.kinds = am.kinds \ {k} /\ {AllKinds, k} \cap am.matched = {}
  <2>1. AllKinds \in am.matched \/ MatchedBy(exists) \subseteq am.matched
    BY <1>1, <1>4 DEF CountInv
  <2>2. \A o \in Objects : KindOf[o] = k => Hit(o) = {}
    BY <1>10, <2>1, NotMatched
  <2>3. \A o \in Objects : KindOf[o] \notin am'.kinds => o \in am'.listed \/ Hit(o) = {}
    BY <1>7, <1>10, <2>2
  <2>4. Listed' = Listed
    BY <1>10 DEF Listed, Pending
  <2> QED
    BY <1>6, <1>8, <1>10, <2>3, <2>4
<1>11. ASSUME NEW os \in SUBSET {o \in Objects : KindOf[o] = k /\ o \notin am.listed},
              am'.pc = "review", am'.listed = am.listed \cup os,
              am'.chunk = {[o |-> o, bad |-> o \in bad] : o \in os},
              am'.kinds \in {am.kinds, am.kinds \ {k}},
              am'.kinds # am.kinds => os = {o \in Objects : KindOf[o] = k /\ o \notin am.listed}
       PROVE  CountInv'
  <2>1. Pending' = os
    <3>1. ASSUME NEW x \in os PROVE x \in Pending'
      <4>1. [o |-> x, bad |-> x \in bad] \in am'.chunk
        BY <1>11, Zenon
      <4>2. [o |-> x, bad |-> x \in bad].o = x
        OBVIOUS
      <4> QED
        BY <4>1, <4>2, Zenon DEF Pending
    <3>2. ASSUME NEW x \in Pending' PROVE x \in os
      <4>1. PICK e \in am'.chunk : x = e.o
        BY DEF Pending
      <4>2. PICK o \in os : e = [o |-> o, bad |-> o \in bad]
        BY <1>11, Zenon
      <4> QED
        BY <4>1, <4>2
    <3> QED
      BY <3>1, <3>2
  <2>2. Listed' = Listed
    BY <1>6, <1>11, <2>1 DEF Listed
  <2>3. ASSUME NEW e \in am'.chunk PROVE e.bad <=> e.o \in bad'
    <3>1. PICK o \in os : e = [o |-> o, bad |-> o \in bad]
      BY <1>11, Zenon
    <3>2. e.o = o /\ (e.bad <=> o \in bad)
      BY <3>1
    <3> QED
      BY <1>1, <3>2, Zenon DEF world
  <2>4. ASSUME NEW o \in Objects, KindOf[o] \notin am'.kinds PROVE o \in am'.listed \/ Hit(o) = {}
    BY <1>7, <1>11, <2>4
  <2> QED
    BY <1>8, <1>11, <2>2, <2>3, <2>4
<1> QED
  BY <1>9, <1>10, <1>11, Zenon
\* A review of one object of the chunk.
LEMMA CountReview ==
  ASSUME TypeInv, OnceInv, CountInv, AuditReview
  PROVE  CountInv'
<1> SUFFICES ASSUME Faithful' PROVE CountInv'
  BY DEF CountInv
<1>0. am \in ManagerType
  BY DEF TypeInv
<1>1. am'.now = am.now /\ am.pc = "review" /\ UNCHANGED world
  BY ReviewingStep DEF Reviewing, AuditReview
<1>2. ~Spoil
  BY <1>1, SpoiledAudit
<1>3. /\ am'.pc = "review" /\ am'.listed = am.listed /\ am'.kinds = am.kinds
      /\ am'.matched = am.matched
  BY AuditReviewStep
<1>4. PICK e \in am.chunk :
        /\ am'.chunk = am.chunk \ {e} /\ UNCHANGED truth
        /\ NamespaceOf[e.o] \in Excluded => am'.res = am.res
        /\ NamespaceOf[e.o] \notin Excluded =>
             am'.res = IF e.bad THEN AddAll(am.res, Hit(e.o), e.o) ELSE am.res
  BY <1>2, AuditReviewStep
<1>5. Faithful
  BY <1>1, <1>4 DEF Faithful
<1>6. /\ Expected' = Expected /\ \A o : Hit(o)' = Hit(o)
      /\ \A c, os : Violations(c, os)' = Violations(c, os)
  BY <1>1, SameWorld
<1>7. /\ truth[am.now] = Expected /\ ~conf.fromCache
      /\ AllKinds \in am.matched \/ MatchedBy(exists) \subseteq am.matched
      /\ \A o \in Objects : KindOf[o] \notin am.kinds => o \in am.listed \/ Hit(o) = {}
      /\ \A f \in am.chunk : f.bad <=> f.o \in bad
      /\ Counts(Listed)
  BY <1>1, <1>5 DEF CountInv
<1>8. Pending' = Pending \ {e.o} /\ e.o \in Pending
  BY <1>4 DEF OnceInv, Pending
<1>9. e.o \in am.listed /\ am.listed \subseteq Objects
  BY <1>0, <1>1, <1>8 DEF OnceInv, ManagerType
<1>10. Listed' = IF NamespaceOf[e.o] \in Excluded THEN Listed ELSE Listed \cup {e.o}
  BY <1>3, <1>8, <1>9 DEF Listed
<1>11. \A c \in Constraints : am'.res.total[c] = Cardinality(Violations(c, Listed'))
  <2>1. CASE NamespaceOf[e.o] \in Excluded
    BY <1>4, <1>7, <1>10, <2>1 DEF Counts
  <2>2. CASE NamespaceOf[e.o] \notin Excluded /\ e.o \in bad
    <3>1. am'.res = AddAll(am.res, Hit(e.o), e.o)
      BY <1>4, <1>7, <2>2
    <3>2. e.o \in Objects /\ Listed \in SUBSET Objects /\ e.o \notin Listed
      BY <1>8, <1>9 DEF Listed
    <3>3. \A c \in Constraints : am'.res.total[c] = Cardinality(Violations(c, Listed \cup {e.o}))
      BY <1>7, <2>2, <3>1, <3>2, OneMore
    <3> QED
      BY <1>10, <2>2, <3>3
  <2>3. CASE NamespaceOf[e.o] \notin Excluded /\ e.o \notin bad
    <3>1. am'.res = am.res
      BY <1>4, <1>7, <2>3
    <3>2. \A c \in Constraints : Violations(c, Listed \cup {e.o}) = Violations(c, Listed)
      BY <2>3, NoneMore
    <3> QED
      BY <1>7, <1>10, <2>3, <3>1, <3>2 DEF Counts
  <2> QED
    BY <2>1, <2>2, <2>3
<1>12. Counts(Listed)'
  BY <1>6, <1>11 DEF Counts
<1>13. \A f \in am'.chunk : f.bad <=> f.o \in bad'
  BY <1>1, <1>4, <1>7 DEF world
<1>14. AllKinds \in am'.matched \/ MatchedBy(exists') \subseteq am'.matched
  BY <1>1, <1>3, <1>7 DEF world
<1>15. \A o \in Objects : KindOf[o] \notin am'.kinds => o \in am'.listed \/ Hit(o)' = {}
  BY <1>3, <1>6, <1>7
<1>16. truth'[am'.now] = Expected' /\ ~conf'.fromCache
  BY <1>1, <1>4, <1>6, <1>7 DEF world
<1> QED
  BY <1>3, <1>12, <1>13, <1>14, <1>15, <1>16 DEF CountInv

\* When no kind is left, what was reviewed is what had to be audited.
LEMMA CountNext ==
  ASSUME TypeInv, OnceInv, CountInv, AuditNext
  PROVE  CountInv'
<1> SUFFICES ASSUME Faithful' PROVE CountInv'
  BY DEF CountInv
<1>0. am \in ManagerType
  BY DEF TypeInv
<1>1. am'.now = am.now /\ am.pc # "idle" /\ UNCHANGED <<world, truth>>
  BY ReviewingStep DEF Reviewing, AuditNext, history
<1>2. Faithful
  BY <1>1 DEF Faithful
<1>3. /\ Expected' = Expected /\ Audited' = Audited /\ \A o : Hit(o)' = Hit(o)
      /\ \A c, os : Violations(c, os)' = Violations(c, os)
  BY <1>1, SameWorld
<1>4. truth'[am'.now] = Expected'
  BY <1>1, <1>2, <1>3 DEF CountInv
<1>5. CASE am.pc = "review" /\ am.chunk = {} /\ am' = [am EXCEPT !.pc = "list"]
  <2>1. /\ am'.pc = "list" /\ am'.listed = am.listed /\ am'.chunk = am.chunk /\ am'.res = am.res
        /\ am'.kinds = am.kinds /\ am'.matched = am.matched
    BY <1>0, <1>5 DEF ManagerType
  <2>2. /\ ~conf.fromCache
        /\ AllKinds \in am.matched \/ MatchedBy(exists) \subseteq am.matched
        /\ \A o \in Objects : KindOf[o] \notin am.kinds => o \in am.listed \/ Hit(o) = {}
        /\ Counts(Listed)
    BY <1>2, <1>5 DEF CountInv
  <2>3. Counts(Listed)'
    BY <1>3, <2>1, <2>2 DEF Counts, Listed, Pending
  <2>4. /\ ~conf'.fromCache
        /\ AllKinds \in am'.matched \/ MatchedBy(exists') \subseteq am'.matched
    BY <1>1, <2>1, <2>2 DEF world
  <2>5. \A o \in Objects : KindOf[o] \notin am'.kinds => o \in am'.listed \/ Hit(o)' = {}
    BY <1>3, <2>1, <2>2
  <2> QED
    BY <1>4, <1>5, <2>1, <2>3, <2>4, <2>5 DEF CountInv
<1>6. CASE am.pc = "list" /\ am.kinds = {} /\ am' = [am EXCEPT !.pc = "write"]
  <2>1. am'.pc = "write" /\ am'.res = am.res
    BY <1>0, <1>6 DEF ManagerType
  <2>2. /\ ~conf.fromCache
        /\ \A o \in Objects : o \in am.listed \/ Hit(o) = {}
        /\ Counts(Listed)
    BY <1>2, <1>6 DEF CountInv
  <2>3. Pending = {} /\ am.listed \subseteq Objects
    BY <1>0, <1>6 DEF OnceInv, Pending, ManagerType
  <2>4. ASSUME NEW c \in Constraints PROVE Violations(c, Listed) = Violations(c, Audited)
    BY <2>2, <2>3 DEF Violations, Listed, Audited, Hit
  <2>5. Counts(Audited)'
    BY <1>3, <2>1, <2>2, <2>4 DEF Counts
  <2> QED
    BY <1>4, <2>1, <2>5 DEF CountInv
<1>7. CASE am' = Ended
  BY <1>7 DEF Ended, IdleManager, Faithful
<1> QED
  BY <1>5, <1>6, <1>7 DEF AuditNext

\* Every step keeps the counts of an audit whose cluster does not change.
LEMMA CountStep ==
  ASSUME TypeInv, OnceInv, CountInv, [Next]_vars
  PROVE  CountInv'
<1>0. am \in ManagerType /\ am.now \in Nat
  BY DEF TypeInv, ManagerType
<1>1. ASSUME ~Faithful' PROVE CountInv'
  BY <1>1 DEF CountInv
<1>2. ASSUME NEW o \in Objects, ObjectChange(o) PROVE CountInv'
  BY <1>1, <1>2, SpoiledAudit DEF ObjectChange
<1>3. ASSUME NEW c \in Constraints, ConstraintChange(c) PROVE CountInv'
  BY <1>1, <1>3, SpoiledAudit DEF ConstraintChange
<1>4. ASSUME NEW c \in Constraints, ByPodUpdate(c) PROVE CountInv'
  BY <1>4, CountUnchanged DEF ByPodUpdate
<1>5. CASE AuditStart
  <2>1. UNCHANGED world /\ truth' = [truth EXCEPT ![am.now + 1] = Expected]
    BY <1>5 DEF AuditStart, This
  <2>2. /\ am'.now = am.now + 1 /\ am'.ckinds = CKinds
        /\ am'.pc = IF conf.fromCache THEN "cache" ELSE "discover"
    BY <1>5 DEF AuditStart, IdleManager
  <2>3. Expected' = Expected
    BY <2>1, SameWorld
  <2>4. Faithful' => truth'[am'.now] = Expected'
    BY <2>1, <2>2, <2>3 DEF Faithful, TypeInv
  <2> QED
    BY <2>1, <2>2, <2>4 DEF CountInv, world
<1>6. CASE AuditFails
  BY <1>1, <1>6 DEF AuditFails, Ended, IdleManager, Faithful
<1>7. CASE StartWriter
  BY <1>1, <1>7 DEF StartWriter, Ended, IdleManager, Faithful
<1>8. CASE WaitTimesOut \/ WriterStopped \/ WriteResults
  <2>1. /\ UNCHANGED <<world, truth>> /\ am.pc \in {"write", "wait"} /\ am'.pc \in {"wait", "start"}
        /\ am'.res = am.res /\ am'.now = am.now
    BY <1>0, <1>8 DEF WaitTimesOut, WriterStopped, WriteResults, ManagerType, history
  <2>2. /\ Expected' = Expected /\ Audited' = Audited
        /\ \A c, os : Violations(c, os)' = Violations(c, os)
    BY <2>1, SameWorld
  <2>3. Faithful' => Faithful
    BY <2>1 DEF Faithful
  <2> QED
    BY <2>1, <2>2, <2>3 DEF CountInv, Counts
<1>9. ASSUME NEW t \in Audits, WriterStep(t) PROVE CountInv'
  BY <1>9, WriterKeeps, CountUnchanged
<1>10. CASE UNCHANGED vars
  BY <1>10, CountUnchanged DEF vars, history
<1> QED
  BY <1>2, <1>3, <1>4, <1>5, <1>6, <1>7, <1>8, <1>9, <1>10, CountCache, CountMatch, CountList,
     CountReview, CountNext, StepCases DEF Quiet, Reviewing

-------------------------------------------------------------------------------
\* The results of an audit whose writer has started, or whose status is written,
\* are what it had to find.

LEMMA TruthStep ==
  ASSUME TypeInv, OrderInv, [Next]_vars, NEW t \in Audits, t <= am.last, truth'[t] # None
  PROVE  truth'[t] = truth[t]
<1>0. am.last \in Nat /\ am.now \in Nat /\ am.last <= am.now /\ t \in Nat
  BY DEF TypeInv, ManagerType, OrderInv, Audits
<1>1. CASE Spoil
  BY <1>1 DEF Spoil
<1>2. CASE AuditStart
  <2>1. truth' = [truth EXCEPT ![am.now + 1] = Expected]
    BY <1>2 DEF AuditStart, This
  <2> QED
    BY <1>0, <2>1 DEF TypeInv
<1>3. CASE UNCHANGED truth
  BY <1>3
<1>4. Spoil \/ AuditStart \/ UNCHANGED truth
  <2>1. ASSUME NEW u \in Audits, WriterStep(u) PROVE UNCHANGED truth
    BY <2>1, WriterKeeps
  <2>2. ASSUME NEW o \in Objects, ObjectChange(o) PROVE Spoil
    BY <2>2 DEF ObjectChange
  <2>3. ASSUME NEW c \in Constraints, ConstraintChange(c) \/ ByPodUpdate(c) PROVE Spoil \/ UNCHANGED truth
    BY <2>3 DEF ConstraintChange, ByPodUpdate
  <2>4. CASE WaitTimesOut \/ WriterStopped \/ WriteResults \/ StartWriter \/ UNCHANGED vars
    BY <2>4 DEF WaitTimesOut, WriterStopped, WriteResults, StartWriter, vars, history
  <2>5. CASE AuditFromCache \/ AuditAdd \/ AuditNext
    BY <2>5 DEF AuditFromCache, AuditAdd, AuditNext, history
  <2>6. CASE AuditFails \/ AuditDiscover \/ AuditMatch
    BY <2>6 DEF AuditFails, AuditDiscover, AuditMatch
  <2> QED
    BY <2>1, <2>2, <2>3, <2>4, <2>5, <2>6, AuditListStep, AuditReviewStep, StepCases DEF Quiet, Reviewing
<1> QED
  BY <1>1, <1>2, <1>3, <1>4

LEMMA ResultStep ==
  ASSUME TypeInv, VersionInv, OrderInv, ShownInv, CountInv, ResultInv, [Next]_vars
  PROVE  ResultInv'
<1>0. /\ status \in [Constraints -> StatusType] /\ writer \in [Audits -> WriterType]
      /\ am.now \in Nat /\ am.last \in Nat
  BY DEF TypeInv, ManagerType
<1>1. ASSUME NEW t \in Audits, writer'[t].pc # "none", truth'[t] # None, NEW c \in Constraints
      PROVE  writer'[t].res.total[c] = truth'[t][c]
  <2>1. CASE writer[t].pc # "none" /\ writer'[t].res = writer[t].res
    <3>1. t <= am.last
      BY <2>1 DEF OrderInv
    <3>2. truth'[t] = truth[t]
      BY <1>1, <3>1, TruthStep
    <3> QED
      BY <1>1, <2>1, <3>2 DEF ResultInv
  <2>2. CASE StartWriter /\ t = am.now
    <3>1. am.pc = "start" /\ writer'[t].res = am.res /\ UNCHANGED truth
      BY <1>0, <2>2 DEF StartWriter, This, NoWriter, history
    <3>2. Faithful
      BY <1>1, <2>2, <3>1 DEF Faithful
    <3>3. truth[t] = Expected /\ Counts(Audited)
      BY <2>2, <3>1, <3>2 DEF CountInv
    <3> QED
      BY <3>1, <3>3 DEF Expected, Counts
  <2>3. \/ writer[t].pc # "none" /\ writer'[t].res = writer[t].res
        \/ StartWriter /\ t = am.now
    <3>1. ASSUME NEW u \in Audits, WriterStep(u)
          PROVE  writer[t].pc # "none" /\ writer'[t].res = writer[t].res
      BY <1>1, <3>1, WriterKeeps
    <3>2. CASE StartWriter
      BY <1>0, <1>1, <3>2 DEF StartWriter, This
    <3>3. CASE WriteResults
      <4>1. writer'[t] = writer[t] \/ writer'[t] = [writer[t] EXCEPT !.stop = TRUE]
        BY <1>0, <3>3 DEF WriteResults
      <4> QED
        BY <1>0, <1>1, <4>1 DEF WriterType
    <3>4. CASE UNCHANGED writer
      BY <1>1, <3>4
    <3> QED
      BY <3>1, <3>2, <3>3, <3>4, StepCases, QuietStep, AuditStartStep
      DEF ConstraintChange, ByPodUpdate, vars
  <2> QED
    BY <2>1, <2>2, <2>3
<1>2. ASSUME NEW c \in Constraints, status'[c].ts # 0, truth'[status'[c].ts] # None
      PROVE  status'[c].total = truth'[status'[c].ts][c]
  <2>1. CASE status'[c].ts = status[c].ts /\ status'[c].total = status[c].total
    <3>1. status[c].ts \in Audits /\ status[c].ts <= am.last
      BY <1>2, <2>1 DEF ShownInv, OrderInv
    <3>2. truth'[status[c].ts] = truth[status[c].ts]
      BY <1>2, <2>1, <3>1, TruthStep
    <3> QED
      BY <1>2, <2>1, <3>2 DEF ResultInv
  <2>2. ASSUME NEW t \in Audits, WriterUpdate(t), status'[c].ts = t,
               status'[c].total = writer[t].res.total[c]
        PROVE  status'[c].total = truth'[status'[c].ts][c]
    <3>1. writer[t].pc # "none" /\ t <= am.last
      BY <2>2 DEF WriterUpdate, OrderInv
    <3>2. truth'[t] = truth[t]
      BY <1>2, <2>2, <3>1, TruthStep
    <3> QED
      BY <1>2, <2>2, <3>1, <3>2 DEF ResultInv
  <2>3. \/ status'[c].ts = status[c].ts /\ status'[c].total = status[c].total
        \/ \E t \in Audits : /\ WriterUpdate(t) /\ status'[c].ts = t
                             /\ status'[c].total = writer[t].res.total[c]
    <3>1. ASSUME NEW d \in Constraints, ConstraintChange(d)
          PROVE  status'[c] = status[c]
      <4>1. c # d
        BY <1>0, <1>2, <3>1 DEF ConstraintChange, NewStatus
      <4> QED
        BY <1>0, <3>1, <4>1 DEF ConstraintChange
    <3>2. ASSUME NEW d \in Constraints, ByPodUpdate(d)
          PROVE  status'[c].ts = status[c].ts /\ status'[c].total = status[c].total
      BY <1>0, <3>2 DEF ByPodUpdate, StatusType
    <3>3. ASSUME NEW u \in Audits, WriterStep(u)
          PROVE  \/ status'[c] = status[c]
                 \/ WriterUpdate(u) /\ status'[c].ts = u /\ status'[c].total = writer[u].res.total[c]
      BY <3>3, WriterKeeps, UpdateWrites
    <3>4. CASE UNCHANGED status
      BY <3>4
    <3> QED
      BY <3>1, <3>2, <3>3, <3>4, StepCases, QuietStep, AuditStartStep, WriteResultsStep,
         StartWriterStep DEF vars
  <2> QED
    BY <2>1, <2>2, <2>3
<1> QED
  BY <1>1, <1>2 DEF ResultInv

LEMMA InitResults == Init => OnceInv /\ LimitInv /\ CountInv /\ ResultInv
<1> SUFFICES ASSUME Init PROVE OnceInv /\ LimitInv /\ CountInv /\ ResultInv
  OBVIOUS
<1>1. /\ am = IdleManager /\ status = [c \in Constraints |-> NewStatus]
      /\ writer = [t \in Audits |-> NoWriter]
  BY DEF Init
<1>2. Cardinality({}) = Cut(0) /\ Limited(NoResults)
  <2>1. Cardinality({}) = 0
    BY FS_EmptySet
  <2> QED
    BY <2>1, AuditAssumption DEF Limited, NoResults, Cut, Empty
<1>3. OnceInv
  BY <1>1 DEF OnceInv, Pending, IdleManager, NoResults
<1>4. LimitInv
  BY <1>1, <1>2 DEF LimitInv, IdleManager, NoWriter, NewStatus
<1>5. CountInv
  BY <1>1 DEF CountInv, Faithful, IdleManager
<1>6. ResultInv
  BY <1>1 DEF ResultInv, NoWriter, NewStatus
<1> QED
  BY <1>3, <1>4, <1>5, <1>6

LEMMA InvInit == Init => IInv
BY InitType, InitVersion, InitOrder, InitResults DEF IInv

LEMMA InvStep == IInv /\ [Next]_vars => IInv'
BY TypeStep, VersionStep, ByPodStep, OrderStep, LateStep, ShownStep, OnceStep, LimitStep,
   CountStep, ResultStep DEF IInv

(***************************************************************************)
(* The results that addAuditResponsesToUpdateLists collects and that       *)
(* updateConstraintStatus writes are exact, whatever the sizes of chunks   *)
(* and clusters, the flags, the exclusions, and the writers that are still *)
(* running: a status shows the total of one audit, which is the number of  *)
(* violations in the cluster, and its list is cut at the limit and only    *)
(* there.                                                                  *)
(***************************************************************************)
THEOREM TotalsAreExact == Spec => []TotalsExact
<1>1. IInv => TotalsExact
  BY DEF IInv, TypeInv, LimitInv, ResultInv, Cut, TotalsExact
<1> QED
  BY <1>1, InvInit, InvStep, PTL DEF Spec
===============================================================================
