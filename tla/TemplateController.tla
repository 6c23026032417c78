-------------------------- MODULE TemplateController --------------------------
(***************************************************************************)
(* The constraint template controller, its subordinate constraint          *)
(* controller, the two status controllers that aggregate what the pods     *)
(* report, and the switch that stops all of them (pkg/controller/          *)
(* constrainttemplate, constraint, constraintstatus, constrainttemplate-   *)
(* status, pkg/watch/controller_switch.go).                                *)
(*                                                                         *)
(* The four controllers have one worker each and run concurrently; they    *)
(* meet in the cluster, in OPA and in the two registrars.  Every call of   *)
(* the API server or of a registrar is a step of its own and may fail.     *)
(* Kinds name templates, their CRDs and the kind of their constraints.     *)
(*                                                                         *)
(* External: the API server with its garbage collector, the OPA client and *)
(* the watch manager (see WatchManager for the latter).  Reads see the     *)
(* current state; a write based on a stale read is a write that fails.     *)
(***************************************************************************)
EXTENDS Naturals, FiniteSets

CONSTANTS
  Kinds, Constraints,
  KindOf,     \* of each constraint
  Scenarios   \* bounds: how many changes of templates and constraints, deletions
              \* of CRDs, calls that fail and calls of Stop a behaviour may have,
              \* and whether the pod has the status operation

ASSUME TemplateAssumption ==
  /\ KindOf \in [Constraints -> Kinds]
  /\ Scenarios \subseteq [templates : Nat, constraints : Nat, crds : Nat,
                          failures : Nat, stops : Nat, status : BOOLEAN]

None == [none |-> TRUE]

\* A template compiles to a CRD and is ingested, or one of the two fails.
Bodies == {"good", "noCRD", "badRego"}

\* The registrars, with the index of the queue their events go to: both are
\* registered with regEvents, the channel of the constraint controller.
Registrars == {"w", "statusW"}

Controllers == {"template", "constraint", "constraintStatus", "templateStatus"}

VARIABLES
  template,  \* per kind: None or [uid, gen, body, byPod]
  crd,       \* per kind: None or [gen, owner]
  cstr,      \* per constraint: None or [uid, gen, byPod]
  tStatus,   \* this pod's ConstraintTemplatePodStatus of a kind
  cStatus,   \* this pod's ConstraintPodStatus of a constraint
  opaT,      \* per kind: the generation of the template in OPA, or 0
  opaC,      \* per constraint: the generation in OPA, or 0
  want,      \* per registrar: the kinds it intends to watch
  live,      \* per registrar: the kinds it watches
  keys,      \* ConstraintsCache: per constraint "", "active" or "error"
  queue,     \* per controller: its work queue
  worker,    \* per controller: its worker
  switch,    \* "running", "stopping" or "stopped"
  budget,    \* what is left of the scenario; also numbers the changes
  unseen,    \* history: constraints whose status event came before statusW was to
             \* watch
  unnoticed  \* history: kinds whose constraints may have changed without an event

cluster  == <<template, crd, cstr>>
statuses == <<tStatus, cStatus>>
opa      == <<opaT, opaC>>
watches  == <<want, live>>
lapses   == <<unseen, unnoticed>>
vars == <<cluster, statuses, opa, watches, keys, queue, worker, switch, budget,
          lapses>>

\* The work on an item: the object as it was read, and where the reconcile is.
Work(item, obj, pc) == [pc |-> pc, item |-> item, obj |-> obj, read |-> None, todo |-> {}]

Idle == Work("", None, "idle")

Init ==
  /\ template = [k \in Kinds |-> None]
  /\ crd      = [k \in Kinds |-> None]
  /\ cstr     = [c \in Constraints |-> None]
  /\ tStatus  = [k \in Kinds |-> None]
  /\ cStatus  = [c \in Constraints |-> None]
  /\ opaT     = [k \in Kinds |-> 0]
  /\ opaC     = [c \in Constraints |-> 0]
  /\ want     = [r \in Registrars |-> {}]
  /\ live     = [r \in Registrars |-> {}]
  /\ keys     = [c \in Constraints |-> ""]
  /\ queue    = [n \in Controllers |-> {}]
  /\ worker   = [n \in Controllers |-> Idle]
  /\ switch   = "running"
  /\ budget   \in Scenarios
  /\ unseen   = {}
  /\ unnoticed = {}

-------------------------------------------------------------------------------
\* Events.  An event is a pair of a controller and an item.

\* newReconciler: the status controllers are added if the pod has the operation.
Added == IF budget.status THEN Controllers ELSE {"template", "constraint"}

Enqueue(events) ==
  queue' = [n \in Controllers |->
              queue[n] \cup {e[2] : e \in {x \in events : x[1] = n /\ n \in Added}}]

OfKind(k) == {c \in Constraints : KindOf[c] = k}
Existing(k) == {c \in OfKind(k) : cstr[c] # None}

\* The template is watched by its controller and by the one of its status.
TemplateEvent(k) == {<<"template", k>>, <<"templateStatus", k>>}

\* PodStatusToConstraintTemplateMapper and PodStatusToConstraintMapper.
TemplateStatusEvent(k)   == {<<"template", k>>, <<"templateStatus", k>>}
ConstraintStatusEvent(c) == {<<"constraint", c>>, <<"constraintStatus", c>>}

\* A change of a constraint reaches the constraint controller if a registrar
\* watches its kind.
ConstraintEvents(cs) ==
  {<<"constraint", c>> : c \in {d \in cs : \E r \in Registrars : KindOf[d] \in live[r]}}

-------------------------------------------------------------------------------
\* The cluster

May(what)   == budget[what] > 0
Spend(what) == budget' = [budget EXCEPT ![what] = @ - 1]

\* A user creates a template (a new uid), updates it (a new generation) or
\* deletes it.
TemplateChange(k, body) ==
  /\ May("templates")
  /\ LET n == budget.templates IN
       template' = [template EXCEPT ![k] =
         IF @ = None THEN [uid |-> n, gen |-> n, body |-> body, byPod |-> None]
                     ELSE [@ EXCEPT !.gen = n, !.body = body]]
  /\ Enqueue(TemplateEvent(k))
  /\ Spend("templates")
  /\ UNCHANGED <<crd, cstr, statuses, opa, watches, keys, worker, switch, lapses>>

TemplateDelete(k) ==
  /\ template[k] # None
  /\ May("templates")
  /\ template' = [template EXCEPT ![k] = None]
  /\ Enqueue(TemplateEvent(k))
  /\ Spend("templates")
  /\ UNCHANGED <<crd, cstr, statuses, opa, watches, keys, worker, switch, lapses>>

\* A constraint needs the CRD of its kind.
ConstraintChange(c) ==
  /\ crd[KindOf[c]] # None
  /\ May("constraints")
  /\ LET n == budget.constraints IN
       cstr' = [cstr EXCEPT ![c] =
         IF @ = None THEN [uid |-> n, gen |-> n, byPod |-> None]
                     ELSE [@ EXCEPT !.gen = n]]
  /\ Enqueue(ConstraintEvents({c}))
  /\ Spend("constraints")
  /\ UNCHANGED <<template, crd, statuses, opa, watches, keys, worker, switch, lapses>>

ConstraintDelete(c) ==
  /\ cstr[c] # None
  /\ May("constraints")
  /\ cstr' = [cstr EXCEPT ![c] = None]
  /\ Enqueue(ConstraintEvents({c}))
  /\ Spend("constraints")
  /\ UNCHANGED <<template, crd, statuses, opa, watches, keys, worker, switch, lapses>>

\* A CRD goes with its constraints, and its owner is told.
DropCRD(k) ==
  /\ crd[k] # None
  /\ crd' = [crd EXCEPT ![k] = None]
  /\ cstr' = [c \in Constraints |-> IF KindOf[c] = k THEN None ELSE cstr[c]]
  /\ Enqueue({<<"template", k>>} \cup ConstraintEvents(Existing(k)))
  /\ UNCHANGED <<template, statuses, opa, watches, keys, worker, switch, lapses>>

\* The garbage collector deletes a CRD whose owner is gone, as the CRD stands:
\* one that a template of the same name has adopted meanwhile is spared.
GarbageCollect(k) ==
  /\ crd[k] # None
  /\ template[k] # None => template[k].uid # crd[k].owner
  /\ DropCRD(k)
  /\ UNCHANGED budget

CRDDelete(k) ==
  /\ May("crds")
  /\ DropCRD(k)
  /\ Spend("crds")

-------------------------------------------------------------------------------
\* What the workers have in common

CanFail == May("failures")

Goto(n, pc) == worker' = [worker EXCEPT ![n].pc = pc]
Done(n)     == worker' = [worker EXCEPT ![n] = Idle]

\* The reconciler returns an error or asks for a requeue.
Again(n) == Done(n) /\ Enqueue({<<n, worker[n].item>>})

\* Takes x from the queue and enters the switch: Enter blocks while Stop waits
\* for the lock, and a stopped switch drops the request.
Enter(n, x, next) ==
  /\ worker[n].pc = "idle" /\ x \in queue[n]
  /\ switch # "stopping"
  /\ queue' = [queue EXCEPT ![n] = @ \ {x}]
  /\ worker' = IF switch = "running" THEN [worker EXCEPT ![n] = next] ELSE worker

\* A call fails, the reconciler returns and the item is queued again.
CallFails(n, pcs) ==
  /\ worker[n].pc \in pcs
  /\ CanFail
  /\ Spend("failures")
  /\ Again(n)
  /\ unnoticed' = IF n = "template" /\ worker[n].obj = None
                  THEN unnoticed \cup {worker[n].item} ELSE unnoticed
  /\ UNCHANGED <<cluster, statuses, opa, watches, keys, switch, unseen>>

-------------------------------------------------------------------------------
\* ReconcileConstraintTemplate.Reconcile

T == worker["template"]

\* Reads the template.  A deleted one that OPA does not have needs no
\* handleDelete.
TemplateRead(k) ==
  /\ Enter("template", k,
       Work(k, template[k], IF template[k] # None THEN "status"
                            ELSE IF opaT[k] # 0 THEN "unwatch" ELSE "deleteStatus"))
  /\ UNCHANGED <<cluster, statuses, opa, watches, keys, switch, budget, lapses>>

\* getOrCreatePodStatus, then CreateCRD.
TemplateGetStatus ==
  /\ T.pc = "status"
  /\ LET k == T.item
         new == tStatus[k] = None
     IN  /\ tStatus' = IF new THEN [tStatus EXCEPT ![k] = [uid |-> 0, gen |-> 0, err |-> FALSE]]
                       ELSE tStatus
         /\ Enqueue(IF new THEN TemplateStatusEvent(k) ELSE {})
  /\ Goto("template", IF T.obj.body = "noCRD" THEN "reportCRD" ELSE "getCRD")
  /\ UNCHANGED <<cluster, cStatus, opa, watches, keys, switch, budget, lapses>>

\* The update of the status that was read; an unchanged one makes no event.
SetTemplateStatus(k, err, more) ==
  LET s == [uid |-> T.obj.uid, gen |-> T.obj.gen, err |-> err]
  IN  /\ tStatus' = [tStatus EXCEPT ![k] = s]
      /\ Enqueue(more \cup IF s # tStatus[k] THEN TemplateStatusEvent(k) ELSE {})

\* A template without a CRD is reported and left alone; after any other error
\* (reportErrorOnCTStatus) the reconciler returns the error.
TemplateReport ==
  /\ T.pc \in {"reportCRD", "report"}
  /\ SetTemplateStatus(T.item, TRUE,
       IF T.pc = "report" THEN {<<"template", T.item>>} ELSE {})
  /\ Done("template")
  /\ UNCHANGED <<cluster, cStatus, opa, watches, keys, switch, budget, lapses>>

TemplateGetCRD ==
  /\ T.pc = "getCRD"
  /\ worker' = [worker EXCEPT !["template"].pc = "ingest", !["template"].read = crd[T.item]]
  /\ UNCHANGED <<cluster, statuses, opa, watches, keys, queue, switch, budget, lapses>>

\* handleUpdate: AddTemplate comes first.  A template that OPA rejects leaves
\* the earlier version in place.
TemplateIngest ==
  /\ T.pc = "ingest"
  /\ \/ /\ T.obj.body = "badRego"
        /\ Goto("template", "report")
        /\ UNCHANGED opaT
     \/ /\ T.obj.body # "badRego"
        /\ opaT' = [opaT EXCEPT ![T.item] = T.obj.gen]
        /\ Goto("template", "writeCRD")
  /\ UNCHANGED <<cluster, statuses, opaC, watches, keys, queue, switch, budget, lapses>>

\* Creates the CRD, or updates it if it differs.  SetControllerReference tells
\* owners apart by name and not by uid: the CRD of an earlier template of the
\* same name is adopted as it is, with its constraints, unless the collector
\* comes first.  The write is refused when the CRD has changed since it was read.
TemplateWriteCRD ==
  LET k   == T.item
      new == [gen |-> T.obj.gen, owner |-> T.obj.uid]
  IN  /\ T.pc = "writeCRD"
      /\ \/ /\ crd[k] = T.read \/ T.read = new
            /\ crd' = IF T.read = new THEN crd ELSE [crd EXCEPT ![k] = new]
            /\ Enqueue(IF T.read = new THEN {} ELSE {<<"template", k>>})
            /\ Goto("template", "watch")
            /\ UNCHANGED budget
         \/ /\ T.read # new
            /\ \/ crd[k] # T.read /\ UNCHANGED budget
               \/ CanFail /\ Spend("failures")
            /\ Goto("template", "report")
            /\ UNCHANGED <<crd, queue>>
      /\ UNCHANGED <<template, cstr, statuses, opa, watches, keys, switch, lapses>>

\* Registrar.AddWatch records the intent, and fails for a kind without a CRD
\* unless it is watched already.  A new watch replays what exists.
AddWatch(r, next) ==
  LET k == T.item IN
  /\ want' = [want EXCEPT ![r] = @ \cup {k}]
  /\ \/ /\ k \in live[r] \/ crd[k] # None
        /\ live' = [live EXCEPT ![r] = @ \cup {k}]
        /\ Enqueue({<<"constraint", c>> : c \in IF k \in live[r] THEN {} ELSE Existing(k)})
        /\ Goto("template", next)
        /\ UNCHANGED budget
     \/ /\ k \notin live[r]
        /\ \/ crd[k] = None /\ UNCHANGED budget
           \/ CanFail /\ Spend("failures")
        /\ Again("template")
        /\ UNCHANGED live

TemplateWatch ==
  /\ \/ T.pc = "watch"       /\ AddWatch("w", "watchStatus")
     \/ T.pc = "watchStatus" /\ AddWatch("statusW", "succeed")
  /\ UNCHANGED <<cluster, statuses, opa, keys, switch, lapses>>

TemplateSucceed ==
  /\ T.pc = "succeed"
  /\ SetTemplateStatus(T.item, FALSE, {})
  /\ Done("template")
  /\ UNCHANGED <<cluster, cStatus, opa, watches, keys, switch, budget, lapses>>

\* handleDelete: both watches go, then the template and the constraints that
\* OPA keeps with it.  Stopping the last informer of the kind may fail, after
\* the registrar has dropped the watch.
RemoveWatch(r, next) ==
  LET k == T.item IN
  /\ want' = [want EXCEPT ![r] = @ \ {k}]
  /\ live' = [live EXCEPT ![r] = @ \ {k}]
  /\ \/ Goto("template", next) /\ UNCHANGED <<queue, budget, lapses>>
     \/ /\ k \in live[r] /\ \A o \in Registrars \ {r} : k \notin live[o]
        /\ CanFail /\ Spend("failures")
        /\ Again("template")
        /\ unnoticed' = unnoticed \cup {k} /\ UNCHANGED unseen

TemplateUnwatch ==
  /\ \/ T.pc = "unwatch"       /\ RemoveWatch("w", "unwatchStatus")
     \/ T.pc = "unwatchStatus" /\ RemoveWatch("statusW", "remove")
  /\ UNCHANGED <<cluster, statuses, opa, keys, switch>>

TemplateRemove ==
  /\ T.pc = "remove"
  /\ opaT' = [opaT EXCEPT ![T.item] = 0]
  /\ opaC' = [c \in Constraints |-> IF KindOf[c] = T.item THEN 0 ELSE opaC[c]]
  /\ Goto("template", "deleteStatus")
  /\ UNCHANGED <<cluster, statuses, watches, keys, queue, switch, budget, lapses>>

\* Fault: only the status of the template is deleted.
TemplateDeleteStatus_KeepConstraints ==
  /\ T.pc = "deleteStatus"
  /\ tStatus' = [tStatus EXCEPT ![T.item] = None]
  /\ Enqueue(IF tStatus[T.item] # None THEN TemplateStatusEvent(T.item) ELSE {})
  /\ worker' = [worker EXCEPT !["template"] = Idle]
  /\ UNCHANGED <<cluster, cStatus, opa, watches, keys, switch, budget, lapses>>

\* deleteAllStatus: deletes the status of the template and lists the statuses
\* of its constraints.
TemplateDeleteStatus ==
  /\ T.pc = "deleteStatus"
  /\ tStatus' = [tStatus EXCEPT ![T.item] = None]
  /\ Enqueue(IF tStatus[T.item] # None THEN TemplateStatusEvent(T.item) ELSE {})
  /\ worker' = [worker EXCEPT !["template"].pc = "deleteStatuses",
                              !["template"].todo = {c \in OfKind(T.item) : cStatus[c] # None}]
  /\ UNCHANGED <<cluster, cStatus, opa, watches, keys, switch, budget, lapses>>

TemplateDeleteStatuses ==
  /\ T.pc = "deleteStatuses"
  /\ \/ \E c \in T.todo :
          /\ cStatus' = [cStatus EXCEPT ![c] = None]
          /\ Enqueue(IF cStatus[c] # None THEN ConstraintStatusEvent(c) ELSE {})
          /\ worker' = [worker EXCEPT !["template"].todo = @ \ {c}]
          /\ UNCHANGED unnoticed
     \/ /\ T.todo = {}
        /\ Done("template")
        /\ unnoticed' = unnoticed \ {T.item}
        /\ UNCHANGED <<cStatus, queue>>
  /\ UNCHANGED <<cluster, tStatus, opa, watches, keys, switch, budget, unseen>>

\* The other calls that may fail end the reconcile.
TemplateCallFails ==
  CallFails("template", {"status", "reportCRD", "report", "getCRD", "succeed",
                         "remove", "deleteStatus", "deleteStatuses"})

TemplateStep ==
  \/ \E k \in Kinds : TemplateRead(k)
  \/ TemplateGetStatus \/ TemplateReport \/ TemplateGetCRD \/ TemplateIngest
  \/ TemplateWriteCRD \/ TemplateWatch \/ TemplateSucceed
  \/ TemplateUnwatch \/ TemplateRemove \/ TemplateDeleteStatus \/ TemplateDeleteStatuses
  \/ TemplateCallFails

-------------------------------------------------------------------------------
\* ReconcileConstraint.Reconcile

C == worker["constraint"]

\* A constraint whose kind is not (to be) watched is taken for deleted.
ConstraintRead(c) ==
  /\ Enter("constraint", c,
       Work(c, cstr[c], IF KindOf[c] \in want["w"] /\ cstr[c] # None
                        THEN "status" ELSE "remove"))
  /\ unnoticed' = IF cstr[c] # None /\ KindOf[c] \in want["w"] \ live["w"]
                  THEN unnoticed \cup {KindOf[c]} ELSE unnoticed
  /\ UNCHANGED <<cluster, statuses, opa, watches, keys, switch, budget, unseen>>

ConstraintGetStatus ==
  /\ C.pc = "status"
  /\ LET c == C.item
         new == cStatus[c] = None
     IN  /\ cStatus' = IF new
                       THEN [cStatus EXCEPT ![c] = [uid |-> 0, gen |-> 0, err |-> FALSE, enforced |-> FALSE]]
                       ELSE cStatus
         /\ Enqueue(IF new THEN ConstraintStatusEvent(c) ELSE {})
         /\ worker' = [worker EXCEPT !["constraint"].pc = "add", !["constraint"].read = cStatus'[c]]
  /\ UNCHANGED <<cluster, tStatus, opa, watches, keys, switch, budget, lapses>>

\* cacheConstraint, unless OPA has this version.  OPA accepts no constraint
\* without its template.
ConstraintAdd ==
  LET c == C.item IN
  /\ C.pc = "add"
  /\ \/ /\ opaC[c] = C.obj.gen \/ opaT[KindOf[c]] # 0
        /\ opaC' = [opaC EXCEPT ![c] = C.obj.gen]
        /\ Goto("constraint", "enforce")
        /\ UNCHANGED keys
     \/ /\ opaC[c] # C.obj.gen /\ opaT[KindOf[c]] = 0
        /\ keys' = [keys EXCEPT ![c] = "error"]
        /\ Goto("constraint", "report")
        /\ UNCHANGED opaC
  /\ UNCHANGED <<cluster, statuses, opaT, watches, queue, switch, budget, lapses>>

\* The update of the status that was read, which is refused if the template
\* controller has deleted it.
SetConstraintStatus(err, enforced, more) ==
  LET c == C.item
      s == [uid |-> C.obj.uid, gen |-> C.obj.gen, err |-> err, enforced |-> enforced]
  IN  /\ cStatus[c] # None
      /\ cStatus' = [cStatus EXCEPT ![c] = s]
      /\ Enqueue(more \cup IF s # cStatus[c] THEN ConstraintStatusEvent(c) ELSE {})

\* The error is returned whether or not it could be reported.
ConstraintReport ==
  /\ C.pc = "report"
  /\ \/ /\ SetConstraintStatus(TRUE, C.read.enforced, {<<"constraint", C.item>>})
        /\ UNCHANGED budget
     \/ /\ \/ cStatus[C.item] = None /\ UNCHANGED budget
           \/ CanFail /\ Spend("failures")
        /\ Enqueue({<<"constraint", C.item>>})
        /\ UNCHANGED cStatus
  /\ Done("constraint")
  /\ UNCHANGED <<cluster, tStatus, opa, watches, keys, switch, lapses>>

ConstraintEnforce ==
  /\ C.pc = "enforce"
  /\ \/ /\ SetConstraintStatus(FALSE, TRUE, {})
        /\ keys' = [keys EXCEPT ![C.item] = "active"]
        /\ Done("constraint")
     \/ /\ cStatus[C.item] = None
        /\ Again("constraint")
        /\ UNCHANGED <<cStatus, keys>>
  /\ UNCHANGED <<cluster, tStatus, opa, watches, switch, budget, lapses>>

\* Fault: a constraint that OPA does not know is not cleaned up any further.
ConstraintRemove_StopIfUnknown ==
  /\ C.pc = "remove"
  /\ opaC' = [opaC EXCEPT ![C.item] = 0]
  /\ \/ /\ opaC[C.item] # 0
        /\ keys' = [keys EXCEPT ![C.item] = ""]
        /\ Goto("constraint", "deleteStatus")
     \/ /\ opaC[C.item] = 0
        /\ Done("constraint")
        /\ UNCHANGED keys
  /\ UNCHANGED <<cluster, statuses, opaT, watches, queue, switch, budget, lapses>>

ConstraintRemove ==
  /\ C.pc = "remove"
  /\ opaC' = [opaC EXCEPT ![C.item] = 0]
  /\ keys' = [keys EXCEPT ![C.item] = ""]
  /\ Goto("constraint", "deleteStatus")
  /\ UNCHANGED <<cluster, statuses, opaT, watches, queue, switch, budget, lapses>>

ConstraintDeleteStatus ==
  /\ C.pc = "deleteStatus"
  /\ cStatus' = [cStatus EXCEPT ![C.item] = None]
  /\ Enqueue(IF cStatus[C.item] # None THEN ConstraintStatusEvent(C.item) ELSE {})
  /\ Done("constraint")
  /\ UNCHANGED <<cluster, tStatus, opa, watches, keys, switch, budget, lapses>>

ConstraintCallFails ==
  CallFails("constraint", {"status", "enforce", "remove", "deleteStatus"})

ConstraintStep ==
  \/ \E c \in Constraints : ConstraintRead(c)
  \/ ConstraintGetStatus \/ ConstraintAdd \/ ConstraintReport \/ ConstraintEnforce
  \/ ConstraintRemove \/ ConstraintDeleteStatus \/ ConstraintCallFails

-------------------------------------------------------------------------------
\* ReconcileConstraintStatus.Reconcile, of constraints and of templates: reads
\* the object, lists the statuses of the pods, keeps those of its uid and
\* writes them into its status.

S == worker["constraintStatus"]
U == worker["templateStatus"]

\* A kind that statusW is not (to be) watching is dropped.
ConstraintStatusRead(c) ==
  /\ Enter("constraintStatus", c,
       IF KindOf[c] \in want["statusW"] /\ cstr[c] # None
       THEN Work(c, cstr[c], "list") ELSE Idle)
  /\ unseen' = IF switch = "running" /\ KindOf[c] \notin want["statusW"]
               THEN unseen \cup {c} ELSE unseen \ {c}
  /\ UNCHANGED <<cluster, statuses, opa, watches, keys, switch, budget, unnoticed>>

ByPod(status, obj) ==
  IF status # None /\ status.uid = obj.uid THEN status ELSE None

ConstraintStatusList ==
  /\ S.pc = "list"
  /\ worker' = [worker EXCEPT !["constraintStatus"].pc = "update",
                              !["constraintStatus"].read = ByPod(cStatus[S.item], S.obj)]
  /\ UNCHANGED <<cluster, statuses, opa, watches, keys, queue, switch, budget, lapses>>

\* The write is refused if the constraint has changed since it was read.  It is
\* a change of the constraint.
ConstraintStatusUpdate ==
  LET c == S.item
      s == S.read
  IN  /\ S.pc = "update"
      /\ \/ /\ cstr[c] = S.obj
            /\ cstr' = [cstr EXCEPT ![c].byPod = s]
            /\ Enqueue(IF s # S.obj.byPod THEN ConstraintEvents({c}) ELSE {})
            /\ Done("constraintStatus")
         \/ /\ cstr[c] # S.obj
            /\ Again("constraintStatus")
            /\ UNCHANGED cstr
      /\ UNCHANGED <<template, crd, statuses, opa, watches, keys, switch, budget, lapses>>

TemplateStatusRead(k) ==
  /\ Enter("templateStatus", k,
       IF template[k] # None
       THEN Work(k, template[k], "list") ELSE Idle)
  /\ UNCHANGED <<cluster, statuses, opa, watches, keys, switch, budget, lapses>>

TemplateStatusList ==
  /\ U.pc = "list"
  /\ worker' = [worker EXCEPT !["templateStatus"].pc = "update",
                              !["templateStatus"].read = ByPod(tStatus[U.item], U.obj)]
  /\ UNCHANGED <<cluster, statuses, opa, watches, keys, queue, switch, budget, lapses>>

TemplateStatusUpdate ==
  LET k == U.item
      s == U.read
  IN  /\ U.pc = "update"
      /\ \/ /\ template[k] = U.obj
            /\ template' = [template EXCEPT ![k].byPod = s]
            /\ Enqueue(IF s # U.obj.byPod THEN TemplateEvent(k) ELSE {})
            /\ Done("templateStatus")
         \/ /\ template[k] # U.obj
            /\ Again("templateStatus")
            /\ UNCHANGED template
      /\ UNCHANGED <<crd, cstr, statuses, opa, watches, keys, switch, budget, lapses>>

\* Fault: the failed call is logged and not retried.
StatusCallFails_NoRequeue ==
  \E n \in {"constraintStatus", "templateStatus"} :
    /\ worker[n].pc \in {"list", "update"}
    /\ CanFail /\ Spend("failures")
    /\ Done(n)
    /\ UNCHANGED <<cluster, statuses, opa, watches, keys, queue, switch, lapses>>

\* A failed call returns an error or asks for a requeue.
StatusCallFails ==
  \E n \in {"constraintStatus", "templateStatus"} : CallFails(n, {"list", "update"})

ConstraintStatusStep ==
  (\E c \in Constraints : ConstraintStatusRead(c)) \/ ConstraintStatusUpdate \/ ConstraintStatusList
TemplateStatusStep ==
  (\E k \in Kinds : TemplateStatusRead(k)) \/ TemplateStatusUpdate \/ TemplateStatusList

-------------------------------------------------------------------------------
\* ControllerSwitch.  main calls Stop when the manager has returned; the lock
\* is given when no reconcile holds it.

AllIdle == \A n \in Controllers : worker[n].pc = "idle"

StopCall ==
  /\ switch = "running"
  /\ switch' = "stopping"
  /\ May("stops") /\ Spend("stops")
  /\ UNCHANGED <<cluster, statuses, opa, watches, keys, queue, worker, lapses>>

\* Fault: Stop does not wait for the reconciles that hold the lock.
Stop_NoWait ==
  /\ switch = "stopping"
  /\ switch' = "stopped"
  /\ UNCHANGED <<cluster, statuses, opa, watches, keys, queue, worker, budget, lapses>>

Stop ==
  /\ switch = "stopping"
  /\ AllIdle
  /\ switch' = "stopped"
  /\ UNCHANGED <<cluster, statuses, opa, watches, keys, queue, worker, budget, lapses>>

-------------------------------------------------------------------------------
UserStep ==
  \/ \E k \in Kinds, b \in Bodies : TemplateChange(k, b)
  \/ \E k \in Kinds : TemplateDelete(k) \/ CRDDelete(k)
  \/ \E c \in Constraints : ConstraintChange(c) \/ ConstraintDelete(c)
  \/ StopCall

Collect == \E k \in Kinds : GarbageCollect(k)

Next ==
  \/ UserStep \/ Collect
  \/ TemplateStep \/ ConstraintStep \/ ConstraintStatusStep \/ TemplateStatusStep
  \/ StatusCallFails \/ Stop

\* Every work queue is served, a garbage collector runs, and a lock that is
\* free is given to the waiting writer.
Fairness ==
  /\ WF_vars(Collect) /\ WF_vars(Stop)
  /\ WF_vars(TemplateStep) /\ WF_vars(ConstraintStep)
  /\ WF_vars(ConstraintStatusStep) /\ WF_vars(TemplateStatusStep)

Spec == Init /\ [][Next]_vars /\ Fairness

-------------------------------------------------------------------------------
\* Properties

\* The status that the pod has to report for an object.
TemplateVerdict(k) ==
  [uid |-> template[k].uid, gen |-> template[k].gen, err |-> template[k].body # "good"]
ConstraintVerdict(c) ==
  [uid |-> cstr[c].uid, gen |-> cstr[c].gen, err |-> FALSE, enforced |-> TRUE]

\* Nothing is left of a constraint, or it is enforced as it stands.
Gone(c)     == opaC[c] = 0 /\ keys[c] = "" /\ cStatus[c] = None
Enforced(c) == opaC[c] = cstr[c].gen /\ keys[c] = "active" /\ cStatus[c] = ConstraintVerdict(c)

\* What is left of the constraints of a kind may stay until its template is
\* deleted once they may have changed unnoticed: a call failed in a deletion and
\* the template came back before the retry, which is no deletion any more; or a
\* constraint was taken up after AddWatch had failed, while its kind was to be
\* watched and was not.
Unnoticed(k) == k \in unnoticed /\ template[k] # None

Reconciled(k) ==
  /\ template[k] = None =>
       /\ opaT[k] = 0 /\ tStatus[k] = None
       /\ \A r \in Registrars : k \notin want[r] \cup live[r]
  /\ template[k] # None =>
       /\ tStatus[k] = TemplateVerdict(k)
       /\ template[k].body = "good" =>
            /\ opaT[k] = template[k].gen
            /\ crd[k] = [gen |-> template[k].gen, owner |-> template[k].uid]
            /\ \A r \in Registrars : k \in live[r]
  /\ \A c \in OfKind(k) :
       IF cstr[c] # None /\ k \in live["w"] THEN Enforced(c) ELSE Gone(c) \/ Unnoticed(k)

Rest == AllIdle /\ switch = "running" /\ \A n \in Controllers : queue[n] = {}

(***************************************************************************)
(* Once all queues are empty, OPA, the watches, the CRD, the pod's         *)
(* statuses and the metrics cache say what the templates and constraints   *)
(* of the cluster say, and nothing is left of a deleted template: not a    *)
(* constraint that the constraint controller was adding, reporting or      *)
(* removing while the template went, not its status.                       *)
(***************************************************************************)
RestReconciled == Rest => \A k \in Kinds : Reconciled(k)

(***************************************************************************)
(* Once all queues are empty, a constraint or a template shows what this   *)
(* pod reports of it, except a constraint whose last status event came     *)
(* before the status registrar was to watch its kind: the request is       *)
(* dropped, and the replay that follows the registration goes to the       *)
(* constraint controller, which finds nothing to change.                   *)
(***************************************************************************)
RestReported ==
  Rest /\ budget.status =>
          /\ \A c \in Constraints \ unseen :
               cstr[c] # None => cstr[c].byPod = ByPod(cStatus[c], cstr[c])
          /\ \A k \in Kinds :
               template[k] # None => template[k].byPod = ByPod(tStatus[k], template[k])

(***************************************************************************)
(* Stop returns with every reconcile ended, and none starts again: after   *)
(* it, no controller writes statuses, OPA or the watches.                  *)
(***************************************************************************)
QuietAfterStop ==
  [][switch = "stopped" => UNCHANGED <<statuses, opa, watches, keys>>]_vars

(***************************************************************************)
(* Whatever the users did and whichever calls failed, the controllers end  *)
(* up with what the cluster says and stay there, or they are stopped.  A   *)
(* template that is created again under its name takes over the CRD of the *)
(* earlier one, whose constraints are enforced again, or makes a new one   *)
(* when the collector was faster; one that OPA rejects is retried for ever *)
(* without disturbing the rest.                                            *)
(***************************************************************************)
Settles == <>[](switch = "stopped" \/ \A k \in Kinds : Reconciled(k))
===============================================================================
