----------------------------- MODULE AuditManager -----------------------------
(***************************************************************************)
(* The audit manager (pkg/audit/manager.go): the loop that reviews what is *)
(* in the cluster, the threads that write its results into the status of   *)
(* the constraints, and the constraint status controller, which writes the *)
(* same objects (pkg/controller/constraintstatus).                         *)
(*                                                                         *)
(* A writer is stopped when the next audit has results; if it does not     *)
(* end in time it is abandoned and goes on beside its successor.  Every    *)
(* request to the API server is a step of its own.                         *)
(*                                                                         *)
(* External: the API server (an update is refused unless it is based on    *)
(* the current resource version), OPA's verdict on an object.              *)
(***************************************************************************)
EXTENDS Naturals, FiniteSets

CONSTANTS
  Objects, KindOf,          \* what is audited
  NamespaceOf, ClusterWide, \* the latter: the namespace of cluster-scoped objects
  Excluded,                 \* namespaces excluded from the audit
  Cached,                   \* objects that are synced into OPA
  Constraints, CKindOf,     \* constraints and their kinds
  MatchKinds,               \* the kinds a constraint matches
  AllKinds,                 \* "*", which a match without kinds stands for
  constraintViolationsLimit, auditChunkSize, Steps,
  MaxAudits,
  Scenarios                 \* where behaviours start (the flags, the objects that
                            \* violate) and their bounds: audits, changes of the
                            \* cluster, updates of byPod, failed requests, timeouts

Kinds  == {KindOf[o] : o \in Objects}
CKinds == {CKindOf[c] : c \in Constraints}

ASSUME AuditAssumption ==
  /\ \A s \in Scenarios : s.budget.audits <= MaxAudits
  /\ auditChunkSize \in Nat \ {0} /\ Steps \in Nat \ {0}
  /\ constraintViolationsLimit \in Nat /\ MaxAudits \in Nat
  /\ IsFiniteSet(Objects) /\ Cached \subseteq Objects
  /\ \A c \in Constraints : MatchKinds[c] \subseteq Kinds \cup {AllKinds}

VARIABLES
  conf,     \* the flags auditFromCache and auditMatchKindOnly
  exists,   \* the constraints in the cluster and in OPA
  bad,      \* the objects that break the rule of every constraint
  status,   \* per constraint: its status and resource version
  am,       \* the audit manager
  writer,   \* per audit: its updateConstraintLoop
  budget,   \* what is left of the bounds
  truth,    \* history, per audit: what it has to find, or None when the cluster
            \* changed under it or a request failed
  pods,     \* history, per constraint: the updates of byPod
  late,     \* history, per audit: writes after its writer was told to stop
  born      \* history, per constraint: the last audit begun when it was created

world == <<conf, exists, bad>>
history == <<truth, pods, late, born>>
vars == <<world, status, am, writer, budget, history>>

None == [none |-> TRUE]
Audits == 1..MaxAudits
This   == am.now

May(what)   == budget[what] > 0
Spend(what) == budget' = [budget EXCEPT ![what] = @ - 1]

Empty == [c \in Constraints |-> 0]
NoResults == [total |-> Empty, shown |-> [c \in Constraints |-> {}]]

IdleManager == [pc |-> "idle", ckinds |-> {}, kinds |-> {}, matched |-> {}, listed |-> {},
                chunk |-> {}, nsCache |-> {}, errs |-> FALSE, res |-> NoResults,
                now |-> 0,   \* the number of the last audit begun
                last |-> 0]  \* the audit of the last writer, ucloop

NoWriter == [pc |-> "none", ckinds |-> {}, uc |-> {}, seen |-> {}, todo |-> {}, cur |-> None,
             latest |-> None, round |-> 0, stop |-> FALSE, res |-> NoResults]

NewStatus == [ts |-> 0, total |-> 0, shown |-> {}, byPod |-> 0, rv |-> 0]

Init ==
  /\ \E s \in Scenarios : conf = s.conf /\ bad = s.bad /\ budget = s.budget
  /\ exists = Constraints
  /\ status = [c \in Constraints |-> NewStatus]
  /\ am = IdleManager
  /\ writer = [t \in Audits |-> NoWriter]
  /\ truth = [t \in Audits |-> None]
  /\ pods = Empty
  /\ late = [t \in Audits |-> 0]
  /\ born = Empty

-------------------------------------------------------------------------------
\* What the results of an audit have to be

Matches(c, o) == MatchKinds[c] \cap {AllKinds, KindOf[o]} # {}

Violations(c, os) == {o \in os : o \in bad /\ c \in exists /\ Matches(c, o)}

Audited == IF conf.fromCache THEN Cached ELSE {o \in Objects : NamespaceOf[o] \notin Excluded}

Expected == [c \in Constraints |-> Cardinality(Violations(c, Audited))]

\* The audit in progress may not see the cluster as it was at its start.
Spoil == truth' = [t \in Audits |-> IF t = This /\ am.pc # "idle" THEN None ELSE truth[t]]

-------------------------------------------------------------------------------
\* The cluster, and the constraint status controller

ObjectChange(o) ==
  /\ May("changes") /\ Spend("changes")
  /\ bad' = IF o \in bad THEN bad \ {o} ELSE bad \cup {o}
  /\ Spoil
  /\ UNCHANGED <<conf, exists, status, am, writer, pods, late, born>>

ConstraintChange(c) ==
  /\ May("changes") /\ Spend("changes")
  /\ exists' = IF c \in exists THEN exists \ {c} ELSE exists \cup {c}
  /\ status' = [status EXCEPT ![c] = [NewStatus EXCEPT !.rv = status[c].rv + 1]]
  /\ pods' = [pods EXCEPT ![c] = 0]
  /\ born' = [born EXCEPT ![c] = This]
  /\ Spoil
  /\ UNCHANGED <<conf, bad, am, writer, late>>

\* The other writer of the status, which changes byPod and retries conflicts
\* (see TemplateController).
ByPodUpdate(c) ==
  /\ c \in exists
  /\ May("pods") /\ Spend("pods")
  /\ status' = [status EXCEPT ![c].byPod = @ + 1, ![c].rv = @ + 1]
  /\ pods' = [pods EXCEPT ![c] = @ + 1]
  /\ UNCHANGED <<world, am, writer, truth, late, born>>

-------------------------------------------------------------------------------
\* Manager.audit

\* The ticker fires.  Without the CRD of templates or a kind of constraint
\* there is nothing to do, as if the request had failed.
AuditStart ==
  /\ am.pc = "idle"
  /\ May("audits") /\ Spend("audits")
  /\ am' = [IdleManager EXCEPT !.pc = IF conf.fromCache THEN "cache" ELSE "discover",
                               !.ckinds = CKinds, !.now = am.now + 1, !.last = am.last]
  /\ truth' = [truth EXCEPT ![This + 1] = Expected]
  /\ UNCHANGED <<world, status, writer, pods, late, born>>

Ended == [IdleManager EXCEPT !.now = am.now, !.last = am.last]

\* The requests of an audit that end it when they fail: the client, the CRD,
\* the discovery, OPA.
AuditFails ==
  /\ am.pc \in {"cache", "discover"}
  /\ May("failures") /\ Spend("failures")
  /\ am' = Ended
  /\ Spoil
  /\ UNCHANGED <<world, status, writer, pods, late, born>>

\* Fault: the total stops at the limit too.
Add_TotalLimited(res, c, o) ==
  IF Cardinality(res.shown[c]) < constraintViolationsLimit
  THEN [total |-> [res.total EXCEPT ![c] = @ + 1], shown |-> [res.shown EXCEPT ![c] = @ \cup {o}]]
  ELSE res

\* addAuditResponsesToUpdateLists, of one result.
Add(res, c, o) ==
  [total |-> [res.total EXCEPT ![c] = @ + 1],
   shown |-> [res.shown EXCEPT ![c] =
                IF Cardinality(@) < constraintViolationsLimit THEN @ \cup {o} ELSE @]]

\* Adds a violation by object o of each of the constraints hit.
AddAll(res, hit, o) ==
  [total |-> [c \in Constraints |-> (IF c \in hit THEN Add(res, c, o) ELSE res).total[c]],
   shown |-> [c \in Constraints |-> (IF c \in hit THEN Add(res, c, o) ELSE res).shown[c]]]

Hit(o) == {c \in exists : Matches(c, o)}

\* opa.Audit, over the synced data; its results are added in some order.
AuditFromCache ==
  /\ am.pc = "cache"
  /\ am' = [am EXCEPT !.pc = "add", !.chunk = {[o |-> o, hit |-> Hit(o)] : o \in Cached \cap bad}]
  /\ UNCHANGED <<world, status, writer, budget, history>>

AuditAdd ==
  /\ am.pc = "add"
  /\ \/ \E e \in am.chunk :
          am' = [am EXCEPT !.chunk = @ \ {e}, !.res = AddAll(@, e.hit, e.o)]
     \/ am.chunk = {} /\ am' = [am EXCEPT !.pc = "write"]
  /\ UNCHANGED <<world, status, writer, budget, history>>

-------------------------------------------------------------------------------
\* Manager.auditResources

\* ServerPreferredResources: the kinds that can be listed, or some of them when
\* an API service is orphaned.
AuditDiscover ==
  /\ am.pc = "discover"
  /\ LET next(ks) == [am EXCEPT !.pc = IF conf.matchKindOnly THEN "match" ELSE "list",
                                !.kinds = ks,
                                !.matched = IF conf.matchKindOnly THEN {} ELSE {AllKinds}]
     IN \/ am' = next(Kinds) /\ UNCHANGED <<budget, truth>>
        \/ \E k \in Kinds :
             /\ May("failures") /\ Spend("failures")
             /\ am' = next(Kinds \ {k})
             /\ Spoil
  /\ UNCHANGED <<world, status, writer, pods, late, born>>

\* The kinds that constraints cs match.
MatchedBy(cs) == UNION {MatchKinds[c] : c \in cs}

\* With auditMatchKindOnly, the constraints of each kind are listed for the
\* kinds they match.  A list that fails is skipped, and with it its kinds.
AuditMatch ==
  /\ am.pc = "match"
  /\ \/ \E k \in am.ckinds :
          /\ AllKinds \notin am.matched
          /\ \/ /\ am' = [am EXCEPT !.ckinds = @ \ {k},
                            !.matched = @ \cup MatchedBy({c \in exists : CKindOf[c] = k})]
                /\ UNCHANGED <<budget, truth>>
             \/ /\ May("failures") /\ Spend("failures")
                /\ am' = [am EXCEPT !.ckinds = @ \ {k}]
                /\ Spoil
     \/ /\ am.ckinds = {} \/ AllKinds \in am.matched
        /\ am' = [am EXCEPT !.pc = "list"]
        /\ UNCHANGED <<budget, truth>>
  /\ UNCHANGED <<world, status, writer, pods, late, born>>

\* Lists the next chunk of a kind, which holds the objects as they are now.  A
\* list that fails ends the kind, chunks already reviewed or not.
AuditList ==
  /\ am.pc = "list"
  /\ \E k \in am.kinds :
       LET rest == {o \in Objects : KindOf[o] = k} \ am.listed
           more(os) == [am EXCEPT !.pc = "review", !.listed = @ \cup os,
                          !.chunk = {[o |-> o, bad |-> o \in bad] : o \in os},
                          !.kinds = IF rest = os THEN @ \ {k} ELSE @]
       IN  \/ /\ {AllKinds, k} \cap am.matched = {}
              /\ am' = [am EXCEPT !.kinds = @ \ {k}]
              /\ UNCHANGED <<budget, truth>>
           \/ /\ {AllKinds, k} \cap am.matched # {}
              /\ \E os \in SUBSET rest :
                   /\ Cardinality(os) <= auditChunkSize
                   /\ Cardinality(os) = auditChunkSize \/ os = rest
                   /\ am' = more(os)
              /\ UNCHANGED <<budget, truth>>
           \/ /\ {AllKinds, k} \cap am.matched # {}
              /\ May("failures") /\ Spend("failures")
              /\ am' = [am EXCEPT !.kinds = @ \ {k}]
              /\ Spoil
  /\ UNCHANGED <<world, status, writer, pods, late, born>>

skipExcludedNamespace(o) == NamespaceOf[o] \in Excluded

\* nsCache.Get asks the API server for a namespace once per audit.
NeedsLookup(o) == NamespaceOf[o] \notin am.nsCache \cup {ClusterWide}

\* Reviews an object of the chunk, unless its namespace is excluded.  An object
\* whose namespace cannot be read is skipped; an error of OPA ends the audit,
\* once everything is reviewed.
AuditReview ==
  /\ am.pc = "review"
  /\ \E e \in am.chunk :
       LET done == [am EXCEPT !.chunk = @ \ {e}]
           known == [done EXCEPT !.nsCache = @ \cup ({NamespaceOf[e.o]} \ {ClusterWide})]
       IN  \/ /\ skipExcludedNamespace(e.o)
              /\ am' = done
              /\ UNCHANGED <<budget, truth>>
           \/ /\ ~skipExcludedNamespace(e.o)
              /\ am' = [known EXCEPT !.res = IF e.bad THEN AddAll(@, Hit(e.o), e.o) ELSE @]
              /\ UNCHANGED <<budget, truth>>
           \/ /\ ~skipExcludedNamespace(e.o)
              /\ May("failures") /\ Spend("failures")
              /\ \/ NeedsLookup(e.o) /\ am' = done
                 \/ am' = [known EXCEPT !.errs = TRUE]
              /\ Spoil
  /\ UNCHANGED <<world, status, writer, pods, late, born>>

AuditNext ==
  /\ \/ am.pc = "review" /\ am.chunk = {} /\ am' = [am EXCEPT !.pc = "list"]
     \/ /\ am.pc = "list" /\ am.kinds = {}
        /\ am' = IF am.errs THEN Ended ELSE [am EXCEPT !.pc = "write"]
  /\ UNCHANGED <<world, status, writer, budget, history>>

-------------------------------------------------------------------------------
\* Manager.writeAuditResults

\* The previous writer is told to stop and waited for, until a timeout.
WriteResults ==
  /\ am.pc = "write"
  /\ am' = [am EXCEPT !.pc = IF am.last = 0 THEN "start" ELSE "wait"]
  /\ writer' = IF am.last = 0 THEN writer ELSE [writer EXCEPT ![am.last].stop = TRUE]
  /\ UNCHANGED <<world, status, budget, history>>

WriterStopped ==
  /\ am.pc = "wait" /\ writer[am.last].pc = "stopped"
  /\ am' = [am EXCEPT !.pc = "start"]
  /\ UNCHANGED <<world, status, writer, budget, history>>

WaitTimesOut ==
  /\ am.pc = "wait"
  /\ May("timeouts") /\ Spend("timeouts")
  /\ am' = [am EXCEPT !.pc = "start"]
  /\ UNCHANGED <<world, status, writer, history>>

StartWriter ==
  /\ am.pc = "start"
  /\ writer' = [writer EXCEPT ![This] =
                  [NoWriter EXCEPT !.pc = "kinds", !.ckinds = CKinds, !.res = am.res]]
  /\ am' = [Ended EXCEPT !.last = This]
  /\ UNCHANGED <<world, status, budget, history>>

-------------------------------------------------------------------------------
\* updateConstraintLoop.update

W(t, w) == writer' = [writer EXCEPT ![t] = w]

\* Lists the constraints kind by kind.  A list that fails leaves its kind out.
WriterList(t) ==
  LET w == writer[t] IN
  /\ w.pc = "kinds"
  /\ \/ /\ w.stop /\ w.ckinds # {}
        /\ W(t, [w EXCEPT !.pc = "stopped"])
        /\ UNCHANGED budget
     \/ /\ ~w.stop
        /\ \E k \in w.ckinds :
             \/ /\ W(t, [w EXCEPT !.ckinds = @ \ {k}, !.uc = @ \cup {c \in exists : CKindOf[c] = k}])
                /\ UNCHANGED budget
             \/ /\ W(t, [w EXCEPT !.ckinds = @ \ {k}])
                /\ May("failures") /\ Spend("failures")
     \/ /\ w.ckinds = {}
        /\ W(t, IF w.uc = {} THEN [w EXCEPT !.pc = "stopped"]
                ELSE [w EXCEPT !.pc = "check", !.seen = w.uc, !.todo = w.uc, !.round = 1])
        /\ UNCHANGED budget
  /\ UNCHANGED <<world, status, am, history>>

\* Fault: the loop does not look at stop.
WriterCheck_NoStop(t) ==
  LET w == writer[t] IN
  /\ w.pc = "check" /\ w.todo # {}
  /\ \E c \in w.todo : W(t, [w EXCEPT !.pc = "get", !.cur = c, !.todo = @ \ {c}])
  /\ UNCHANGED <<world, status, am, budget, history>>

\* updateLoop looks at stop before each constraint of a round.
WriterCheck(t) ==
  LET w == writer[t] IN
  /\ w.pc = "check" /\ w.todo # {}
  /\ \/ /\ w.stop
        /\ W(t, [w EXCEPT !.pc = "stopped"])
     \/ /\ ~w.stop
        /\ \E c \in w.todo : W(t, [w EXCEPT !.pc = "get", !.cur = c, !.todo = @ \ {c}])
  /\ UNCHANGED <<world, status, am, budget, history>>

\* Reads the constraint.  One that is gone is dropped, and the update that is
\* tried all the same is refused; after another error it is left to the next
\* round.
WriterGet(t) ==
  LET w == writer[t] IN
  /\ w.pc = "get"
  /\ \/ /\ w.cur \in exists
        /\ W(t, [w EXCEPT !.pc = "update", !.latest = status[w.cur]])
        /\ UNCHANGED budget
     \/ /\ w.cur \notin exists
        /\ W(t, [w EXCEPT !.pc = "check", !.uc = @ \ {w.cur}])
        /\ UNCHANGED budget
     \/ /\ May("failures") /\ Spend("failures")
        /\ W(t, [w EXCEPT !.pc = "check"])
  /\ UNCHANGED <<world, status, am, history>>

\* Fault: the update does not carry the resource version that was read.
Current_NoVersion(c, read) == c \in exists

\* The update carries the resource version of the latest item, and is refused if
\* that is not the current one.
Current(c, read) == c \in exists /\ status[c].rv = read.rv

\* updateConstraintStatus: the status as it was read, with the results of the
\* audit in place of the earlier ones.  A refused update is left to the next
\* round.
WriterUpdate(t) ==
  LET w == writer[t]
      c == w.cur
      new == [w.latest EXCEPT !.ts = t, !.total = w.res.total[c], !.shown = w.res.shown[c]]
  IN  /\ w.pc = "update"
      /\ \/ /\ Current(c, w.latest)
            /\ status' = [status EXCEPT ![c] =
                            IF new = w.latest THEN @ ELSE [new EXCEPT !.rv = status[c].rv + 1]]
            /\ late' = [late EXCEPT ![t] = IF w.stop THEN @ + 1 ELSE @]
            /\ W(t, [w EXCEPT !.pc = "check", !.uc = @ \ {c}])
            /\ UNCHANGED budget
         \/ /\ \/ ~Current(c, w.latest) /\ UNCHANGED budget
               \/ May("failures") /\ Spend("failures")
            /\ W(t, [w EXCEPT !.pc = "check"])
            /\ UNCHANGED <<status, late>>
      /\ UNCHANGED <<world, am, truth, pods, born>>

\* Fault: a round that is not complete ends the loop.
WriterRound_Once(t) ==
  LET w == writer[t] IN
  /\ w.pc = "check" /\ w.todo = {}
  /\ W(t, [w EXCEPT !.pc = "stopped"])
  /\ UNCHANGED <<world, status, am, budget, history>>

\* ExponentialBackoff: another round for what is left, Steps of them.
WriterRound(t) ==
  LET w == writer[t] IN
  /\ w.pc = "check" /\ w.todo = {}
  /\ W(t, IF w.uc = {} \/ w.round = Steps THEN [w EXCEPT !.pc = "stopped"]
          ELSE [w EXCEPT !.todo = w.uc, !.round = @ + 1])
  /\ UNCHANGED <<world, status, am, budget, history>>

-------------------------------------------------------------------------------
AuditStep ==
  \/ AuditFromCache \/ AuditAdd
  \/ AuditDiscover \/ AuditMatch \/ AuditList \/ AuditReview \/ AuditNext
  \/ WriteResults \/ WriterStopped \/ StartWriter

WriterStep(t) ==
  WriterList(t) \/ WriterCheck(t) \/ WriterGet(t) \/ WriterUpdate(t) \/ WriterRound(t)

Next ==
  \/ \E o \in Objects : ObjectChange(o)
  \/ \E c \in Constraints : ConstraintChange(c) \/ ByPodUpdate(c)
  \/ AuditStart \/ AuditFails \/ WaitTimesOut \/ AuditStep
  \/ \E t \in Audits : WriterStep(t)

\* The audit and every writer make progress: requests end and threads run.
Fairness == WF_vars(AuditStep) /\ \A t \in Audits : WF_vars(WriterStep(t))

Spec == Init /\ [][Next]_vars /\ Fairness

-------------------------------------------------------------------------------
\* Properties

(***************************************************************************)
(* A constraint shows the results of one audit, and they are exact: the    *)
(* total counts every violation of the objects that are audited, the list  *)
(* is cut at the limit, and neither the chunks, the namespaces, the kinds  *)
(* that match nor the order of the writers changes that.  Excepted are     *)
(* audits during which the cluster changed or a list, a namespace or a     *)
(* discovery failed: what they could not read they leave out silently.     *)
(***************************************************************************)
TotalsExact ==
  \A c \in exists : LET s == status[c] IN
    s.ts # 0 =>
      /\ truth[s.ts] # None => s.total = truth[s.ts][c]
      /\ Cardinality(s.shown) =
           IF s.total < constraintViolationsLimit THEN s.total ELSE constraintViolationsLimit

(***************************************************************************)
(* Neither writer of a constraint's status undoes the other: byPod is what *)
(* the status controller wrote last, whatever the audit's writers do.      *)
(***************************************************************************)
ByPodKept == \A c \in exists : status[c].byPod = pods[c]

(***************************************************************************)
(* The results that a constraint shows never give way to those of an       *)
(* earlier audit, but for one write of a writer that was abandoned after   *)
(* the timeout: it was past its last look at stop.                         *)
(***************************************************************************)
StepsBackOnce ==
  [][\A c \in Constraints \cap exists \cap exists' :
       LET t == status'[c].ts IN
       (0 < t /\ t < status[c].ts) => writer[t].stop /\ late[t] = 0]_vars

(***************************************************************************)
(* The results of the last audit reach every constraint that the writer    *)
(* listed, unless it used up its rounds or an abandoned writer came after; *)
(* no audit is stuck behind a writer that does not end.                    *)
(***************************************************************************)
ResultsArrive ==
  <>[](/\ am.pc = "idle"
       /\ am.last # 0 =>
            LET w == writer[am.last] IN
            /\ w.pc = "stopped"
            /\ \A c \in (exists \cap w.seen) \ (IF w.round = Steps THEN w.uc ELSE {}) :
                 \/ status[c].ts = am.last
                 \/ born[c] >= am.last
                 \/ status[c].ts # 0 /\ late[status[c].ts] > 0)
===============================================================================
