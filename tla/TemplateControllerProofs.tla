----------------------- MODULE TemplateControllerProofs -----------------------
(***************************************************************************)
(* Proofs about the template and constraint controllers and their status   *)
(* controllers, for any number of templates and constraints and every      *)
(* scenario: nothing is written once the switch is stopped, and at rest    *)
(* OPA, the watches and the statuses agree with the cluster and every      *)
(* object shows what the pod reports of it.                                *)
(***************************************************************************)
EXTENDS TemplateController, TLAPS

\* A pair that stands in the frames of the actions.
USE DEF lapses

-------------------------------------------------------------------------------
\* The shape of the state

IsWork(w) ==
  w = [pc |-> w.pc, item |-> w.item, obj |-> w.obj, read |-> w.read, todo |-> w.todo]

IsTemplate(t) ==
  t = None \/ t = [uid |-> t.uid, gen |-> t.gen, body |-> t.body, byPod |-> t.byPod]

IsConstraint(c) ==
  c = None \/ c = [uid |-> c.uid, gen |-> c.gen, byPod |-> c.byPod]

WorkersInv ==
  /\ worker = [n \in Controllers |-> worker[n]]
  /\ \A n \in Controllers : IsWork(worker[n])

ObjectsInv ==
  /\ template = [k \in Kinds |-> template[k]]
  /\ cstr     = [c \in Constraints |-> cstr[c]]
  /\ \A k \in Kinds : IsTemplate(template[k])
  /\ \A c \in Constraints : IsConstraint(cstr[c])

Budgets ==
  [templates : Nat, constraints : Nat, crds : Nat, failures : Nat, stops : Nat,
   status : BOOLEAN]

BooksInv ==
  /\ tStatus = [k \in Kinds |-> tStatus[k]]
  /\ cStatus = [c \in Constraints |-> cStatus[c]]
  /\ queue   = [n \in Controllers |-> queue[n]]
  /\ budget \in Budgets

\* The forms in which a worker changes.
LEMMA WorkIs ==
  ASSUME NEW item, NEW obj, NEW pc
  PROVE  /\ IsWork(Work(item, obj, pc))
         /\ Work(item, obj, pc).pc = pc /\ Work(item, obj, pc).item = item
         /\ Work(item, obj, pc).obj = obj
BY DEF IsWork, Work

LEMMA WorkerSet ==
  ASSUME WorkersInv, NEW n \in Controllers, NEW w, IsWork(w),
         worker' = [worker EXCEPT ![n] = w]
  PROVE  WorkersInv' /\ worker'[n] = w /\ \A m \in Controllers \ {n} : worker'[m] = worker[m]
BY DEF WorkersInv

LEMMA WorkerPc ==
  ASSUME WorkersInv, NEW n \in Controllers, NEW pc,
         worker' = [worker EXCEPT ![n].pc = pc]
  PROVE  /\ WorkersInv' /\ \A m \in Controllers \ {n} : worker'[m] = worker[m]
         /\ worker'[n].pc = pc /\ worker'[n].item = worker[n].item
         /\ worker'[n].obj = worker[n].obj /\ worker'[n].read = worker[n].read
         /\ worker'[n].todo = worker[n].todo
<1>1. worker[n] = [pc |-> worker[n].pc, item |-> worker[n].item, obj |-> worker[n].obj,
                   read |-> worker[n].read, todo |-> worker[n].todo]
  BY DEF WorkersInv, IsWork
<1> DEFINE w == [worker[n] EXCEPT !.pc = pc]
<1>2. w = [pc |-> pc, item |-> worker[n].item, obj |-> worker[n].obj,
           read |-> worker[n].read, todo |-> worker[n].todo]
  BY <1>1
<1>3. worker' = [worker EXCEPT ![n] = w]
  BY DEF WorkersInv
<1> HIDE DEF w
<1>4. IsWork(w) /\ w.pc = pc /\ w.item = worker[n].item /\ w.obj = worker[n].obj
      /\ w.read = worker[n].read /\ w.todo = worker[n].todo
  BY <1>2 DEF IsWork
<1> QED
  BY <1>3, <1>4, WorkerSet

LEMMA WorkerPcRead ==
  ASSUME WorkersInv, NEW n \in Controllers, NEW pc, NEW read,
         worker' = [worker EXCEPT ![n].pc = pc, ![n].read = read]
  PROVE  /\ WorkersInv' /\ \A m \in Controllers \ {n} : worker'[m] = worker[m]
         /\ worker'[n].pc = pc /\ worker'[n].item = worker[n].item
         /\ worker'[n].obj = worker[n].obj /\ worker'[n].read = read
<1> DEFINE v == [worker EXCEPT ![n].pc = pc]
<1> DEFINE w == [v[n] EXCEPT !.read = read]
<1>1. worker[n] = [pc |-> worker[n].pc, item |-> worker[n].item, obj |-> worker[n].obj,
                   read |-> worker[n].read, todo |-> worker[n].todo]
  BY DEF WorkersInv, IsWork
<1>2. v[n] = [pc |-> pc, item |-> worker[n].item, obj |-> worker[n].obj,
              read |-> worker[n].read, todo |-> worker[n].todo]
  BY <1>1 DEF WorkersInv
<1>3. w = [pc |-> pc, item |-> worker[n].item, obj |-> worker[n].obj,
           read |-> read, todo |-> worker[n].todo]
  BY <1>2
<1>4. worker' = [worker EXCEPT ![n] = w]
  BY DEF WorkersInv
<1> HIDE DEF w, v
<1>5. IsWork(w) /\ w.pc = pc /\ w.item = worker[n].item /\ w.obj = worker[n].obj
      /\ w.read = read
  BY <1>3 DEF IsWork
<1> QED
  BY <1>4, <1>5, WorkerSet

LEMMA WorkerTodo ==
  ASSUME WorkersInv, NEW n \in Controllers, NEW todo,
         worker' = [worker EXCEPT ![n].todo = todo]
  PROVE  /\ WorkersInv' /\ \A m \in Controllers \ {n} : worker'[m] = worker[m]
         /\ worker'[n].pc = worker[n].pc /\ worker'[n].item = worker[n].item
         /\ worker'[n].obj = worker[n].obj /\ worker'[n].todo = todo
<1>1. worker[n] = [pc |-> worker[n].pc, item |-> worker[n].item, obj |-> worker[n].obj,
                   read |-> worker[n].read, todo |-> worker[n].todo]
  BY DEF WorkersInv, IsWork
<1> DEFINE w == [worker[n] EXCEPT !.todo = todo]
<1>2. w = [pc |-> worker[n].pc, item |-> worker[n].item, obj |-> worker[n].obj,
           read |-> worker[n].read, todo |-> todo]
  BY <1>1
<1>3. worker' = [worker EXCEPT ![n] = w]
  BY DEF WorkersInv
<1> HIDE DEF w
<1>4. IsWork(w) /\ w.pc = worker[n].pc /\ w.item = worker[n].item /\ w.obj = worker[n].obj
      /\ w.todo = todo
  BY <1>2 DEF IsWork
<1> QED
  BY <1>3, <1>4, WorkerSet

LEMMA WorkerPcTodo ==
  ASSUME WorkersInv, NEW n \in Controllers, NEW pc, NEW todo,
         worker' = [worker EXCEPT ![n].pc = pc, ![n].todo = todo]
  PROVE  /\ WorkersInv' /\ \A m \in Controllers \ {n} : worker'[m] = worker[m]
         /\ worker'[n].pc = pc /\ worker'[n].item = worker[n].item
         /\ worker'[n].obj = worker[n].obj /\ worker'[n].todo = todo
<1> DEFINE v == [worker EXCEPT ![n].pc = pc]
<1> DEFINE w == [v[n] EXCEPT !.todo = todo]
<1>1. worker[n] = [pc |-> worker[n].pc, item |-> worker[n].item, obj |-> worker[n].obj,
                   read |-> worker[n].read, todo |-> worker[n].todo]
  BY DEF WorkersInv, IsWork
<1>2. v[n] = [pc |-> pc, item |-> worker[n].item, obj |-> worker[n].obj,
              read |-> worker[n].read, todo |-> worker[n].todo]
  BY <1>1 DEF WorkersInv
<1>3. w = [pc |-> pc, item |-> worker[n].item, obj |-> worker[n].obj,
           read |-> worker[n].read, todo |-> todo]
  BY <1>2
<1>4. worker' = [worker EXCEPT ![n] = w]
  BY DEF WorkersInv
<1> HIDE DEF w, v
<1>5. IsWork(w) /\ w.pc = pc /\ w.item = worker[n].item /\ w.obj = worker[n].obj
      /\ w.todo = todo
  BY <1>3 DEF IsWork
<1> QED
  BY <1>4, <1>5, WorkerSet

\* A worker that is done.
LEMMA WorkerDone ==
  ASSUME WorkersInv, NEW n \in Controllers, Done(n)
  PROVE  WorkersInv' /\ worker'[n].pc = "idle" /\ \A m \in Controllers \ {n} : worker'[m] = worker[m]
<1>1. IsWork(Idle) /\ Idle.pc = "idle"
  BY DEF Idle, Work, IsWork
<1>2. worker' = [worker EXCEPT ![n] = Idle]
  BY DEF Done
<1> QED
  BY <1>1, <1>2, WorkerSet

\* A queue loses nothing to events, and gets them if its controller was added.
Queued(events) ==
  /\ queue' = [n \in Controllers |-> queue'[n]]
  /\ \A n \in Controllers : queue[n] \subseteq queue'[n]
  /\ budget.status => \A n \in Controllers : \A x : <<n, x>> \in events => x \in queue'[n]

LEMMA EnqueueIs ==
  ASSUME NEW events, Enqueue(events)
  PROVE  Queued(events)
<1>1. \A n \in Controllers :
        queue'[n] = queue[n] \cup {e[2] : e \in {x \in events : x[1] = n /\ n \in Added}}
  BY DEF Enqueue
<1>2. queue' = [n \in Controllers |-> queue'[n]]
  BY DEF Enqueue
<1>3. ASSUME budget.status, NEW n \in Controllers, NEW x, <<n, x>> \in events
      PROVE  x \in queue'[n]
  <2>1. n \in Added
    BY <1>3 DEF Added
  <2>2. <<n, x>> \in {y \in events : y[1] = n /\ n \in Added} /\ <<n, x>>[2] = x
    BY <1>3, <2>1
  <2> QED
    BY <1>1, <2>2
<1> QED
  BY <1>1, <1>2, <1>3 DEF Queued

\* A queue from which an item was taken.
LEMMA EnterIs ==
  ASSUME WorkersInv, BooksInv, NEW n \in Controllers, NEW x, NEW w, IsWork(w), Enter(n, x, w)
  PROVE  /\ queue' = [m \in Controllers |-> queue'[m]]
         /\ queue'[n] = queue[n] \ {x}
         /\ \A m \in Controllers \ {n} : queue'[m] = queue[m]
         /\ WorkersInv' /\ \A m \in Controllers \ {n} : worker'[m] = worker[m]
         /\ worker[n].pc = "idle" /\ switch # "stopping"
         /\ switch = "running" => worker'[n] = w
         /\ switch # "running" => worker' = worker
<1>1. queue' = [queue EXCEPT ![n] = @ \ {x}]
      /\ worker' = (IF switch = "running" THEN [worker EXCEPT ![n] = w] ELSE worker)
      /\ worker[n].pc = "idle" /\ switch # "stopping"
  BY DEF Enter
<1>2. /\ queue' = [m \in Controllers |-> queue'[m]]
      /\ queue'[n] = queue[n] \ {x}
      /\ \A m \in Controllers \ {n} : queue'[m] = queue[m]
  BY <1>1 DEF BooksInv
<1>3. CASE switch = "running"
  BY <1>1, <1>2, <1>3, WorkerSet
<1>4. CASE switch # "running"
  BY <1>1, <1>2, <1>4 DEF WorkersInv
<1> QED
  BY <1>3, <1>4

\* What is left of the scenario.
Spent ==
  /\ budget' \in Budgets
  /\ budget'.status = budget.status
  /\ budget'.constraints <= budget.constraints

LEMMA SpendIs ==
  ASSUME BooksInv, NEW what \in {"templates", "constraints", "crds", "failures", "stops"},
         May(what), Spend(what)
  PROVE  Spent /\ (what # "constraints" => budget'.constraints = budget.constraints)
<1>1. budget \in Budgets /\ budget[what] > 0 /\ budget' = [budget EXCEPT ![what] = @ - 1]
  BY DEF BooksInv, May, Spend
<1>2. CASE what = "templates"
  BY <1>1, <1>2 DEF Budgets, Spent
<1>3. CASE what = "constraints"
  BY <1>1, <1>3 DEF Budgets, Spent
<1>4. CASE what = "crds"
  BY <1>1, <1>4 DEF Budgets, Spent
<1>5. CASE what = "failures"
  BY <1>1, <1>5 DEF Budgets, Spent
<1>6. CASE what = "stops"
  BY <1>1, <1>6 DEF Budgets, Spent
<1> QED
  BY <1>2, <1>3, <1>4, <1>5, <1>6

LEMMA NotSpent ==
  ASSUME BooksInv, UNCHANGED budget
  PROVE  Spent
<1>1. budget \in Budgets
  BY DEF BooksInv
<1>2. budget.constraints \in Nat
  BY <1>1 DEF Budgets
<1> QED
  BY <1>1, <1>2 DEF Spent

-------------------------------------------------------------------------------
\* The inductive invariant

\* Stop has the lock when no reconcile does, and none gets past Enter after it.
StopInv == /\ switch \in {"running", "stopping", "stopped"}
           /\ switch = "stopped" => AllIdle

\* A uid that is not given to a constraint any more.
Given(uid) == uid \in Nat /\ uid > budget.constraints

UidInv ==
  /\ \A c \in Constraints : cstr[c] # None => Given(cstr[c].uid)
  /\ \A c \in Constraints : cStatus[c] # None => cStatus[c].uid = 0 \/ Given(cStatus[c].uid)
  /\ C.pc \in {"status", "add", "report", "enforce"} => Given(C.obj.uid)

ShownC(c) == cstr[c] # None => cstr[c].byPod = ByPod(cStatus[c], cstr[c])
ShownT(k) == template[k] # None => template[k].byPod = ByPod(tStatus[k], template[k])

\* A template whose status is not queued is with the worker, which listed the
\* status it has, or shows it.
TemplateShown(k) ==
  k \notin queue["templateStatus"] =>
    /\ U.pc = "idle" \/ U.item # k => ShownT(k)
    /\ U.pc = "update" /\ U.item = k => U.read = ByPod(tStatus[k], U.obj)

ConstraintShown(c) ==
  c \notin queue["constraintStatus"] /\ c \notin unseen =>
    /\ S.pc = "idle" \/ S.item # c => ShownC(c)
    /\ S.pc = "update" /\ S.item = c => S.read = ByPod(cStatus[c], S.obj)

ReportInv ==
  budget.status /\ switch # "stopped" =>
    /\ \A k \in Kinds : TemplateShown(k)
    /\ \A c \in Constraints : ConstraintShown(c)

PcInv ==
  /\ S.pc \in {"idle", "list", "update"} /\ (S.pc # "idle" => S.obj # None)
  /\ U.pc \in {"idle", "list", "update"} /\ (U.pc # "idle" => U.obj # None)

IInv == /\ WorkersInv /\ ObjectsInv /\ BooksInv
        /\ StopInv /\ UidInv /\ PcInv /\ ReportInv

\* A step that is not one of the status controllers: what the status
\* controllers look at changes with an event, or shows what it has to.
TemplateKept(k) ==
  k \notin queue'["templateStatus"] =>
    tStatus'[k] = tStatus[k] /\ template'[k] = template[k]

ConstraintKept(c) ==
  c \notin queue'["constraintStatus"] =>
    cStatus'[c] = cStatus[c] /\ (ShownC(c) => ShownC(c)')

LEMMA OtherStep ==
  ASSUME IInv, WorkersInv', ObjectsInv', BooksInv', StopInv', UidInv',
         worker'["constraintStatus"] = worker["constraintStatus"],
         worker'["templateStatus"] = worker["templateStatus"],
         switch' # "stopped" => switch # "stopped",
         budget'.status = budget.status, unseen \subseteq unseen',
         queue["constraintStatus"] \subseteq queue'["constraintStatus"],
         queue["templateStatus"] \subseteq queue'["templateStatus"],
         budget.status => /\ \A k \in Kinds : TemplateKept(k)
                          /\ \A c \in Constraints : ConstraintKept(c)
  PROVE  IInv'
<1>1. S' = S /\ U' = U
  BY DEF S, U
<1>2. PcInv'
  BY <1>1 DEF IInv, PcInv
<1>3. ASSUME budget.status, switch # "stopped", NEW k \in Kinds PROVE TemplateShown(k)'
  <2>1. TemplateShown(k) /\ TemplateKept(k)
    BY <1>3 DEF IInv, ReportInv
  <2> QED
    BY <2>1, <1>1 DEF TemplateShown, TemplateKept, ShownT
<1>4. ASSUME budget.status, switch # "stopped", NEW c \in Constraints PROVE ConstraintShown(c)'
  <2>1. ConstraintShown(c) /\ ConstraintKept(c)
    BY <1>4 DEF IInv, ReportInv
  <2> QED
    BY <2>1, <1>1 DEF ConstraintShown, ConstraintKept
<1>5. ReportInv'
  BY <1>3, <1>4 DEF ReportInv
<1> QED
  BY <1>2, <1>5 DEF IInv

\* The uids, after a step that gives none and starts no work on a constraint.
LEMMA UidKept ==
  ASSUME IInv, Spent,
         \A c \in Constraints : cstr'[c] # None => cstr[c] # None /\ cstr'[c].uid = cstr[c].uid,
         \A c \in Constraints : cStatus'[c] = None \/ cStatus'[c] = cStatus[c],
         worker'["constraint"] = worker["constraint"]
  PROVE  UidInv'
<1>1. \A u : Given(u) => Given(u)'
  <2>1. budget.constraints \in Nat /\ budget'.constraints \in Nat
    BY DEF IInv, BooksInv, Spent, Budgets
  <2> QED
    BY <2>1 DEF Given, Spent
<1> QED
  BY <1>1 DEF IInv, UidInv, C

-------------------------------------------------------------------------------
\* The cluster

\* The names of the queues.
LEMMA Names ==
  /\ "template" \in Controllers /\ "constraint" \in Controllers
  /\ "constraintStatus" \in Controllers /\ "templateStatus" \in Controllers
BY DEF Controllers

\* A step of the cluster: the workers, the statuses and the switch stay.
LEMMA ClusterStep ==
  ASSUME IInv, UNCHANGED <<statuses, worker, switch, unseen>>, Spent, NEW events, Queued(events),
         ObjectsInv', UidInv',
         budget.status => /\ \A k \in Kinds : TemplateKept(k)
                          /\ \A c \in Constraints : ConstraintKept(c)
  PROVE  IInv'
<1>1. WorkersInv' /\ StopInv'
  BY DEF IInv, WorkersInv, StopInv, AllIdle
<1>2. BooksInv'
  BY DEF IInv, BooksInv, Spent, Queued, statuses
<1>3. /\ queue["constraintStatus"] \subseteq queue'["constraintStatus"]
      /\ queue["templateStatus"] \subseteq queue'["templateStatus"]
  BY Names DEF Queued
<1> QED
  BY <1>1, <1>2, <1>3, OtherStep DEF Spent

LEMMA TemplateChangeInv ==
  ASSUME IInv, NEW k \in Kinds, NEW t, IsTemplate(t), template' = [template EXCEPT ![k] = t],
         Enqueue(TemplateEvent(k)), Spent,
         UNCHANGED <<cstr, statuses, worker, switch, unseen>>
  PROVE  IInv'
<1>1. Queued(TemplateEvent(k))
  BY EnqueueIs
<1>2. ObjectsInv'
  BY DEF IInv, ObjectsInv
<1>3. UidInv'
  BY UidKept DEF statuses
<1>4. ASSUME budget.status, NEW j \in Kinds PROVE TemplateKept(j)
  <2>1. k \in queue'["templateStatus"]
    BY <1>1, <1>4, Names DEF Queued, TemplateEvent
  <2>2. j # k => template'[j] = template[j]
    BY DEF IInv, ObjectsInv
  <2> QED
    BY <2>1, <2>2 DEF TemplateKept, statuses
<1>5. ASSUME NEW c \in Constraints PROVE ConstraintKept(c)
  BY DEF ConstraintKept, ShownC, statuses
<1> QED
  BY <1>1, <1>2, <1>3, <1>4, <1>5, ClusterStep

\* A constraint changes: its uid and what it shows stay, or it is new or gone.
LEMMA ConstraintChangeInv ==
  ASSUME IInv, NEW events, Enqueue(events), Spent,
         UNCHANGED <<template, statuses, worker, switch, unseen>>, ObjectsInv', UidInv',
         \A c \in Constraints :
           \/ cstr'[c] = cstr[c]
           \/ cstr'[c] = None
           \/ cstr[c] # None /\ cstr'[c].uid = cstr[c].uid /\ cstr'[c].byPod = cstr[c].byPod
           \/ cstr'[c].byPod = None /\ cstr'[c].uid = budget.constraints /\ May("constraints")
  PROVE  IInv'
<1>1. Queued(events)
  BY EnqueueIs
<1>2. \A k \in Kinds : TemplateKept(k)
  BY DEF TemplateKept, statuses
<1>3. ASSUME NEW c \in Constraints PROVE ConstraintKept(c)
  <2>1. cStatus' = cStatus
    BY DEF statuses
  <2>2. CASE cstr'[c] = cstr[c] \/ cstr'[c] = None
    BY <2>1, <2>2 DEF ConstraintKept, ShownC
  <2>3. CASE cstr[c] # None /\ cstr'[c].uid = cstr[c].uid /\ cstr'[c].byPod = cstr[c].byPod
    BY <2>1, <2>3 DEF ConstraintKept, ShownC, ByPod
  <2>4. CASE cstr'[c].byPod = None /\ cstr'[c].uid = budget.constraints /\ May("constraints")
    <3>1. budget.constraints \in Nat /\ budget.constraints > 0
      BY <2>4 DEF IInv, BooksInv, Budgets, May
    <3>2. cStatus[c] # None => cStatus[c].uid # budget.constraints
      BY <3>1 DEF IInv, UidInv, Given
    <3>3. ByPod(cStatus[c], cstr'[c]) = None
      BY <2>4, <3>2 DEF ByPod
    <3> QED
      BY <2>1, <2>4, <3>3 DEF ConstraintKept, ShownC
  <2> QED
    BY <2>2, <2>3, <2>4
<1> QED
  BY <1>1, <1>2, <1>3, ClusterStep

LEMMA UserInv ==
  ASSUME IInv, UserStep \/ Collect
  PROVE  IInv'
<1>0. BooksInv /\ ObjectsInv
  BY DEF IInv
<1>1. ASSUME NEW k \in Kinds, NEW b, TemplateChange(k, b) PROVE IInv'
  <2> DEFINE n == budget.templates
  <2> DEFINE t == IF template[k] = None THEN [uid |-> n, gen |-> n, body |-> b, byPod |-> None]
                  ELSE [template[k] EXCEPT !.gen = n, !.body = b]
  <2>1. IsTemplate(t)
    <3>1. CASE template[k] = None
      BY <3>1 DEF IsTemplate
    <3>2. CASE template[k] # None
      <4>1. template[k] = [uid |-> template[k].uid, gen |-> template[k].gen,
                           body |-> template[k].body, byPod |-> template[k].byPod]
        BY <3>2, <1>0 DEF ObjectsInv, IsTemplate
      <4>2. t = [template[k] EXCEPT !.gen = n, !.body = b]
        BY <3>2
      <4>3. t = [uid |-> t.uid, gen |-> t.gen, body |-> t.body, byPod |-> t.byPod]
        BY <4>1, <4>2
      <4> HIDE DEF t
      <4> QED
        BY <4>3 DEF IsTemplate
    <3> QED
      BY <3>1, <3>2
  <2>2. template' = [template EXCEPT ![k] = t]
    BY <1>1 DEF TemplateChange
  <2> HIDE DEF t
  <2>3. Spent
    BY <1>0, <1>1, SpendIs DEF TemplateChange
  <2> QED
    BY <1>1, <2>1, <2>2, <2>3, TemplateChangeInv DEF TemplateChange
<1>2. ASSUME NEW k \in Kinds, TemplateDelete(k) PROVE IInv'
  <2>1. Spent
    BY <1>0, <1>2, SpendIs DEF TemplateDelete
  <2>2. IsTemplate(None)
    BY DEF IsTemplate
  <2> QED
    BY <1>2, <2>1, <2>2, TemplateChangeInv DEF TemplateDelete
<1>3. ASSUME NEW c \in Constraints, ConstraintChange(c) PROVE IInv'
  <2> DEFINE n == budget.constraints
  <2> DEFINE o == IF cstr[c] = None THEN [uid |-> n, gen |-> n, byPod |-> None]
                  ELSE [cstr[c] EXCEPT !.gen = n]
  <2>1. cstr' = [cstr EXCEPT ![c] = o] /\ May("constraints")
    BY <1>3 DEF ConstraintChange
  <2>2. /\ IsConstraint(o)
        /\ cstr[c] # None => o.uid = cstr[c].uid /\ o.byPod = cstr[c].byPod
        /\ cstr[c] = None => o.uid = n /\ o.byPod = None
    <3>1. CASE cstr[c] = None
      BY <3>1 DEF IsConstraint
    <3>2. CASE cstr[c] # None
      <4>1. cstr[c] = [uid |-> cstr[c].uid, gen |-> cstr[c].gen, byPod |-> cstr[c].byPod]
        BY <3>2, <1>0 DEF ObjectsInv, IsConstraint
      <4>2. o = [uid |-> cstr[c].uid, gen |-> n, byPod |-> cstr[c].byPod]
        BY <4>1, <3>2
      <4> HIDE DEF o
      <4> QED
        BY <4>2, <3>2 DEF IsConstraint
    <3> QED
      BY <3>1, <3>2
  <2> HIDE DEF o
  <2>3. cstr'[c] = o /\ \A d \in Constraints \ {c} : cstr'[d] = cstr[d]
    BY <2>1, <1>0 DEF ObjectsInv
  <2>4. ObjectsInv'
    BY <2>1, <2>2, <1>0, <1>3 DEF ObjectsInv, ConstraintChange
  <2>5. /\ Spent /\ budget \in Budgets /\ budget'.constraints = n - 1
        /\ n \in Nat /\ n > 0
    <3>1. Spent
      BY <1>0, <1>3, SpendIs DEF ConstraintChange
    <3> QED
      BY <3>1, <1>0, <1>3 DEF ConstraintChange, Spend, May, BooksInv, Budgets
  <2>6. UidInv'
    <3> DEFINE Later(u) == u \in Nat /\ u > budget'.constraints
    <3>1. \A u : Given(u) => Later(u)
      BY <2>5 DEF Given
    <3>2. Later(n)
      BY <2>5
    <3>3. ASSUME NEW d \in Constraints, cstr'[d] # None PROVE Later(cstr'[d].uid)
      <4> HIDE DEF Later
      <4>1. CASE d # c
        BY <4>1, <2>3, <3>1, <3>3 DEF IInv, UidInv
      <4>2. CASE d = c /\ cstr[c] # None
        BY <4>2, <2>2, <2>3, <3>1 DEF IInv, UidInv
      <4>3. CASE d = c /\ cstr[c] = None
        BY <4>3, <2>2, <2>3, <3>2
      <4> QED
        BY <4>1, <4>2, <4>3
    <3>4. UNCHANGED <<cStatus, worker>>
      BY <1>3 DEF ConstraintChange, statuses
    <3>5. \A d \in Constraints : cStatus[d] # None => cStatus[d].uid = 0 \/ Later(cStatus[d].uid)
      BY <3>1 DEF IInv, UidInv
    <3>6. C.pc \in {"status", "add", "report", "enforce"} => Later(C.obj.uid)
      BY <3>1 DEF IInv, UidInv
    <3> QED
      BY <3>3, <3>4, <3>5, <3>6 DEF UidInv, Given, C
  <2> QED
    BY <1>3, <2>1, <2>2, <2>3, <2>4, <2>5, <2>6, ConstraintChangeInv DEF ConstraintChange
<1>4. ASSUME NEW c \in Constraints, ConstraintDelete(c) PROVE IInv'
  <2>1. Spent
    BY <1>0, <1>4, SpendIs DEF ConstraintDelete
  <2>2. cstr' = [cstr EXCEPT ![c] = None]
    BY <1>4 DEF ConstraintDelete
  <2>3. ObjectsInv' /\ \A d \in Constraints : cstr'[d] = cstr[d] \/ cstr'[d] = None
    BY <2>2, <1>0, <1>4 DEF ObjectsInv, IsConstraint, ConstraintDelete
  <2>4. UidInv'
    BY <2>1, <2>3, <1>4, UidKept DEF ConstraintDelete, statuses
  <2> QED
    BY <1>4, <2>1, <2>3, <2>4, ConstraintChangeInv DEF ConstraintDelete
<1>5. ASSUME NEW k \in Kinds, DropCRD(k), Spent PROVE IInv'
  <2>1. cstr' = [c \in Constraints |-> IF KindOf[c] = k THEN None ELSE cstr[c]]
    BY <1>5 DEF DropCRD
  <2>2. ObjectsInv' /\ \A d \in Constraints : cstr'[d] = cstr[d] \/ cstr'[d] = None
    BY <2>1, <1>0, <1>5 DEF ObjectsInv, IsConstraint, DropCRD
  <2>3. UidInv'
    BY <2>2, <1>5, UidKept DEF DropCRD, statuses
  <2> QED
    BY <1>5, <2>2, <2>3, ConstraintChangeInv DEF DropCRD
<1>6. ASSUME StopCall PROVE IInv'
  <2>1. Spent
    BY <1>0, <1>6, SpendIs DEF StopCall
  <2>2. UNCHANGED <<cstr, template, cStatus, tStatus, worker, queue, unseen>>
        /\ switch' = "stopping" /\ switch = "running"
    BY <1>6 DEF StopCall, cluster, statuses
  <2>3. WorkersInv' /\ ObjectsInv' /\ BooksInv' /\ StopInv'
    BY <2>1, <2>2 DEF IInv, WorkersInv, ObjectsInv, BooksInv, StopInv, Spent
  <2>4. UidInv'
    BY <2>1, <2>2, UidKept
  <2>5. (\A k \in Kinds : TemplateKept(k)) /\ (\A c \in Constraints : ConstraintKept(c))
    BY <2>2 DEF TemplateKept, ConstraintKept, ShownC
  <2> QED
    BY <2>1, <2>2, <2>3, <2>4, <2>5, OtherStep DEF Spent
<1>7. ASSUME NEW k \in Kinds, CRDDelete(k) PROVE IInv'
  <2>1. Spent
    BY <1>0, <1>7, SpendIs DEF CRDDelete
  <2> QED
    BY <1>5, <1>7, <2>1 DEF CRDDelete
<1>8. ASSUME NEW k \in Kinds, GarbageCollect(k) PROVE IInv'
  <2>1. Spent
    BY <1>0, <1>8, NotSpent DEF GarbageCollect
  <2> QED
    BY <1>5, <1>8, <2>1 DEF GarbageCollect
<1> QED
  BY <1>1, <1>2, <1>3, <1>4, <1>6, <1>7, <1>8 DEF UserStep, Collect

-------------------------------------------------------------------------------
\* The template controller

\* What its steps have in common.
LEMMA TemplateWorkerStep ==
  ASSUME IInv, WorkersInv', \A m \in Controllers \ {"template"} : worker'[m] = worker[m],
         UNCHANGED <<template, cstr, switch>>, Spent, unseen \subseteq unseen',
         queue' = [n \in Controllers |-> queue'[n]],
         \A m \in Controllers \ {"template"} : queue[m] \subseteq queue'[m],
         tStatus' = [k \in Kinds |-> tStatus'[k]],
         cStatus' = [c \in Constraints |-> cStatus'[c]],
         \A c \in Constraints : cStatus'[c] = None \/ cStatus'[c] = cStatus[c],
         T.pc # "idle" \/ switch = "running" \/ worker' = worker,
         budget.status =>
           /\ \A k \in Kinds : k \in queue'["templateStatus"] \/ tStatus'[k] = tStatus[k]
           /\ \A c \in Constraints : c \in queue'["constraintStatus"] \/ cStatus'[c] = cStatus[c]
  PROVE  IInv'
<1>1. "template" # "constraint" /\ "template" # "constraintStatus" /\ "template" # "templateStatus"
  OBVIOUS
<1>2. /\ worker'["constraint"] = worker["constraint"]
      /\ worker'["constraintStatus"] = worker["constraintStatus"]
      /\ worker'["templateStatus"] = worker["templateStatus"]
      /\ queue["constraintStatus"] \subseteq queue'["constraintStatus"]
      /\ queue["templateStatus"] \subseteq queue'["templateStatus"]
  BY <1>1, Names
<1>3. ObjectsInv' /\ BooksInv'
  BY DEF IInv, ObjectsInv, BooksInv, Spent
<1>4. StopInv'
  BY Names DEF IInv, StopInv, AllIdle, T
<1>5. UidInv'
  BY <1>2, UidKept
<1>6. ASSUME budget.status, NEW k \in Kinds PROVE TemplateKept(k)
  BY <1>6 DEF TemplateKept
<1>7. ASSUME budget.status, NEW c \in Constraints PROVE ConstraintKept(c)
  BY <1>7 DEF ConstraintKept, ShownC
<1> QED
  BY <1>2, <1>3, <1>4, <1>5, <1>6, <1>7, OtherStep DEF Spent

\* The steps that leave the statuses alone.
LEMMA TemplateQuietStep ==
  ASSUME IInv, WorkersInv', \A m \in Controllers \ {"template"} : worker'[m] = worker[m],
         UNCHANGED <<template, cstr, switch, statuses>>, Spent, unseen \subseteq unseen',
         queue' = [n \in Controllers |-> queue'[n]],
         \A m \in Controllers \ {"template"} : queue[m] \subseteq queue'[m],
         T.pc # "idle" \/ switch = "running" \/ worker' = worker
  PROVE  IInv'
<1>1. /\ tStatus' = tStatus /\ cStatus' = cStatus
      /\ tStatus' = [k \in Kinds |-> tStatus'[k]]
      /\ cStatus' = [c \in Constraints |-> cStatus'[c]]
  BY DEF statuses, IInv, BooksInv
<1> QED
  BY <1>1, TemplateWorkerStep

\* A step that queues nothing is one that queues no events.
LEMMA NoEvents ==
  ASSUME IInv, UNCHANGED queue
  PROVE  Queued({})
BY DEF IInv, BooksInv, Queued

LEMMA AgainIs ==
  ASSUME IInv, NEW n \in Controllers, Again(n)
  PROVE  /\ WorkersInv' /\ \A m \in Controllers \ {n} : worker'[m] = worker[m]
         /\ worker'[n].pc = "idle" /\ Queued({<<n, worker[n].item>>})
BY WorkerDone, EnqueueIs DEF IInv, Again

\* The pod's status of the template is written, and its change is an event.
LEMMA SetTemplateStatusInv ==
  ASSUME IInv, NEW k, NEW err, NEW more, SetTemplateStatus(k, err, more),
         T.pc # "idle", Done("template"),
         UNCHANGED <<cluster, cStatus, switch, budget, unseen>>
  PROVE  IInv'
<1> DEFINE s == [uid |-> T.obj.uid, gen |-> T.obj.gen, err |-> err]
<1> DEFINE events == more \cup (IF s # tStatus[k] THEN TemplateStatusEvent(k) ELSE {})
<1>1. tStatus' = [tStatus EXCEPT ![k] = s] /\ Enqueue(events)
  BY DEF SetTemplateStatus
<1> HIDE DEF s
<1>2. Queued(events)
  BY <1>1, EnqueueIs
<1>3. ASSUME budget.status, NEW j \in Kinds, tStatus'[j] # tStatus[j]
      PROVE  j \in queue'["templateStatus"]
  <2>1. j = k /\ s # tStatus[k]
    BY <1>1, <1>3 DEF IInv, BooksInv
  <2>2. <<"templateStatus", k>> \in events
    BY <2>1 DEF TemplateStatusEvent
  <2> HIDE DEF events
  <2> QED
    BY <2>1, <2>2, <1>2, <1>3, Names DEF Queued
<1>4. tStatus' = [j \in Kinds |-> tStatus'[j]] /\ cStatus' = [c \in Constraints |-> cStatus'[c]]
  BY <1>1 DEF IInv, BooksInv
<1>5. WorkersInv' /\ \A m \in Controllers \ {"template"} : worker'[m] = worker[m]
  BY WorkerDone, Names DEF IInv
<1>6. Spent
  BY NotSpent DEF IInv
<1> HIDE DEF events
<1>7. /\ queue' = [n \in Controllers |-> queue'[n]]
      /\ \A m \in Controllers \ {"template"} : queue[m] \subseteq queue'[m]
  BY <1>2 DEF Queued
<1>8. UNCHANGED <<template, cstr, switch>> /\ unseen \subseteq unseen' /\ cStatus' = cStatus
  BY DEF cluster
<1> QED
  BY <1>3, <1>4, <1>5, <1>6, <1>7, <1>8, TemplateWorkerStep

\* A failed call, of any of the controllers.
LEMMA CallFailsIs ==
  ASSUME IInv, NEW n \in Controllers, NEW pcs, CallFails(n, pcs), "idle" \notin pcs
  PROVE  /\ WorkersInv' /\ \A m \in Controllers \ {n} : worker'[m] = worker[m]
         /\ worker'[n].pc = "idle" /\ worker[n].pc # "idle"
         /\ Queued({<<n, worker[n].item>>}) /\ Spent /\ unseen \subseteq unseen'
         /\ UNCHANGED <<template, cstr, switch, tStatus, cStatus>>
<1>1. Again(n) /\ worker[n].pc \in pcs /\ May("failures") /\ Spend("failures")
  BY DEF CallFails, CanFail
<1>2. Spent
  BY <1>1, SpendIs DEF IInv
<1>3. unseen \subseteq unseen' /\ UNCHANGED <<template, cstr, switch, tStatus, cStatus>>
  BY DEF CallFails, cluster, statuses
<1> QED
  BY <1>1, <1>2, <1>3, AgainIs

\* A step that has the lock and moves its worker on.
LEMMA TemplateMoves ==
  ASSUME IInv, T.pc # "idle", NEW pc, Goto("template", pc),
         UNCHANGED <<template, cstr, switch, statuses>>, Spent, unseen \subseteq unseen',
         NEW events, Queued(events)
  PROVE  IInv'
<1>1. WorkersInv' /\ \A m \in Controllers \ {"template"} : worker'[m] = worker[m]
  BY WorkerPc, Names DEF IInv, Goto
<1>2. /\ queue' = [n \in Controllers |-> queue'[n]]
      /\ \A m \in Controllers \ {"template"} : queue[m] \subseteq queue'[m]
  BY DEF Queued
<1> QED
  BY <1>1, <1>2, TemplateQuietStep

\* A step that ends with an error.
LEMMA TemplateAgain ==
  ASSUME IInv, T.pc # "idle", Again("template"),
         UNCHANGED <<template, cstr, switch, statuses>>, Spent, unseen \subseteq unseen'
  PROVE  IInv'
<1>1. /\ WorkersInv' /\ \A m \in Controllers \ {"template"} : worker'[m] = worker[m]
      /\ Queued({<<"template", worker["template"].item>>})
  BY AgainIs, Names
<1>2. /\ queue' = [n \in Controllers |-> queue'[n]]
      /\ \A m \in Controllers \ {"template"} : queue[m] \subseteq queue'[m]
  BY <1>1 DEF Queued
<1> QED
  BY <1>1, <1>2, TemplateQuietStep

LEMMA AddWatchInv ==
  ASSUME IInv, T.pc # "idle", NEW r, NEW next, AddWatch(r, next),
         UNCHANGED <<cluster, statuses, switch, unseen>>
  PROVE  IInv'
<1>0. UNCHANGED <<template, cstr, switch, statuses>> /\ unseen \subseteq unseen'
  BY DEF cluster
<1>1. CASE Goto("template", next) /\ UNCHANGED budget /\ \E events : Enqueue(events)
  <2>1. PICK events : Queued(events)
    BY <1>1, EnqueueIs
  <2>2. Spent
    BY <1>1, NotSpent DEF IInv
  <2> QED
    BY <1>0, <1>1, <2>1, <2>2, TemplateMoves
<1>2. CASE Again("template") /\ (UNCHANGED budget \/ (CanFail /\ Spend("failures")))
  <2>1. Spent
    BY <1>2, NotSpent, SpendIs DEF IInv, CanFail
  <2> QED
    BY <1>0, <1>2, <2>1, TemplateAgain
<1> QED
  BY <1>1, <1>2 DEF AddWatch

LEMMA RemoveWatchInv ==
  ASSUME IInv, T.pc # "idle", NEW r, NEW next, RemoveWatch(r, next),
         UNCHANGED <<cluster, statuses, switch>>
  PROVE  IInv'
<1>0. UNCHANGED <<template, cstr, switch, statuses>>
  BY DEF cluster
<1>1. CASE Goto("template", next) /\ UNCHANGED <<queue, budget, unseen>>
  <2>1. Queued({}) /\ Spent
    BY <1>1, NotSpent, NoEvents DEF IInv
  <2> QED
    BY <1>0, <1>1, <2>1, TemplateMoves
<1>2. CASE Again("template") /\ CanFail /\ Spend("failures") /\ unseen \subseteq unseen'
  <2>1. Spent
    BY <1>2, SpendIs DEF IInv, CanFail
  <2> QED
    BY <1>0, <1>2, <2>1, TemplateAgain
<1> QED
  BY <1>1, <1>2 DEF RemoveWatch

LEMMA TemplateInv ==
  ASSUME IInv, TemplateStep
  PROVE  IInv'
<1>0. WorkersInv /\ BooksInv /\ "template" \in Controllers
  BY Names DEF IInv
<1>1. ASSUME NEW k \in Kinds, TemplateRead(k) PROVE IInv'
  <2>1. PICK pc : Enter("template", k, Work(k, template[k], pc))
    BY <1>1 DEF TemplateRead
  <2> DEFINE w == Work(k, template[k], pc)
  <2>2. IsWork(w)
    BY WorkIs
  <2> HIDE DEF w
  <2>3. /\ queue' = [m \in Controllers |-> queue'[m]]
        /\ \A m \in Controllers \ {"template"} : queue'[m] = queue[m]
        /\ WorkersInv' /\ \A m \in Controllers \ {"template"} : worker'[m] = worker[m]
        /\ switch = "running" \/ worker' = worker
    BY <1>0, <2>1, <2>2, EnterIs DEF w
  <2>4. UNCHANGED <<template, cstr, switch, statuses>> /\ unseen \subseteq unseen' /\ Spent
    BY <1>0, <1>1, NotSpent DEF TemplateRead, cluster
  <2> QED
    BY <2>3, <2>4, TemplateQuietStep
<1>2. ASSUME TemplateGetStatus PROVE IInv'
  <2> DEFINE k == T.item
  <2> DEFINE events == IF tStatus[k] = None THEN TemplateStatusEvent(k) ELSE {}
  <2>1. PICK pc : Goto("template", pc)
    BY <1>2 DEF TemplateGetStatus
  <2>2. WorkersInv' /\ \A m \in Controllers \ {"template"} : worker'[m] = worker[m]
    BY <1>0, <2>1, WorkerPc DEF Goto
  <2>3. Queued(events)
    BY <1>2, EnqueueIs DEF TemplateGetStatus
  <2>4. PICK s : tStatus' = IF tStatus[k] = None THEN [tStatus EXCEPT ![k] = s] ELSE tStatus
    BY <1>2 DEF TemplateGetStatus
  <2>5. tStatus' = [j \in Kinds |-> tStatus'[j]]
    BY <1>0, <2>4 DEF BooksInv
  <2>6. ASSUME budget.status, NEW j \in Kinds, tStatus'[j] # tStatus[j]
        PROVE  j \in queue'["templateStatus"]
    <3>1. j = k /\ tStatus[k] = None
      BY <1>0, <2>4, <2>6 DEF BooksInv
    <3>2. <<"templateStatus", k>> \in events
      BY <3>1 DEF TemplateStatusEvent
    <3> HIDE DEF events
    <3> QED
      BY <3>1, <3>2, <2>3, <2>6, Names DEF Queued
  <2> HIDE DEF events
  <2>7. /\ queue' = [n \in Controllers |-> queue'[n]]
        /\ \A m \in Controllers \ {"template"} : queue[m] \subseteq queue'[m]
    BY <2>3 DEF Queued
  <2>8. /\ UNCHANGED <<template, cstr, switch, cStatus>> /\ unseen \subseteq unseen' /\ Spent
        /\ T.pc # "idle"
    BY <1>0, <1>2, NotSpent DEF TemplateGetStatus, cluster
  <2>9. cStatus' = [c \in Constraints |-> cStatus'[c]]
    BY <1>0, <2>8 DEF BooksInv
  <2> QED
    BY <2>2, <2>5, <2>6, <2>7, <2>8, <2>9, TemplateWorkerStep
<1>3. ASSUME TemplateReport PROVE IInv'
  <2>1. T.pc # "idle" /\ Done("template") /\ UNCHANGED <<cluster, cStatus, switch, budget, unseen>>
    BY <1>3 DEF TemplateReport
  <2>2. PICK more : SetTemplateStatus(T.item, TRUE, more)
    BY <1>3 DEF TemplateReport
  <2>3. PICK e : e = TRUE
    OBVIOUS
  <2> QED
    BY <2>1, <2>2, <2>3, SetTemplateStatusInv
<1>4. ASSUME TemplateSucceed PROVE IInv'
  <2>1. T.pc # "idle" /\ Done("template") /\ UNCHANGED <<cluster, cStatus, switch, budget, unseen>>
    BY <1>4 DEF TemplateSucceed
  <2>2. PICK e : e = FALSE
    OBVIOUS
  <2>3. SetTemplateStatus(T.item, e, {})
    BY <1>4, <2>2 DEF TemplateSucceed
  <2> QED
    BY <2>1, <2>3, SetTemplateStatusInv
<1>5. ASSUME TemplateGetCRD PROVE IInv'
  <2>1. WorkersInv' /\ \A m \in Controllers \ {"template"} : worker'[m] = worker[m]
    BY <1>0, <1>5, WorkerPcRead DEF TemplateGetCRD
  <2>2. /\ UNCHANGED <<template, cstr, switch, statuses>> /\ unseen \subseteq unseen' /\ Spent
        /\ T.pc # "idle" /\ queue' = queue
    BY <1>0, <1>5, NotSpent DEF TemplateGetCRD, cluster
  <2>3. queue' = [n \in Controllers |-> queue'[n]]
    BY <1>0, <2>2 DEF BooksInv
  <2> QED
    BY <2>1, <2>2, <2>3, TemplateQuietStep
<1>6. ASSUME TemplateIngest PROVE IInv'
  <2>1. PICK pc : Goto("template", pc)
    BY <1>6 DEF TemplateIngest
  <2>2. /\ UNCHANGED <<template, cstr, switch, statuses>> /\ unseen \subseteq unseen' /\ Spent
        /\ T.pc # "idle" /\ Queued({})
    BY <1>0, <1>6, NotSpent, NoEvents DEF TemplateIngest, cluster
  <2> QED
    BY <2>1, <2>2, TemplateMoves
<1>7. ASSUME TemplateWriteCRD PROVE IInv'
  <2>1. UNCHANGED <<template, cstr, switch, statuses>> /\ unseen \subseteq unseen' /\ T.pc # "idle"
    BY <1>7 DEF TemplateWriteCRD
  <2>2. PICK pc : Goto("template", pc)
    BY <1>7 DEF TemplateWriteCRD
  <2>3. UNCHANGED budget \/ (CanFail /\ Spend("failures"))
    BY <1>7 DEF TemplateWriteCRD
  <2>4. Spent
    BY <1>0, <2>3, NotSpent, SpendIs DEF CanFail
  <2>5. UNCHANGED queue \/ \E events : Enqueue(events)
    BY <1>7 DEF TemplateWriteCRD
  <2>6. \E events : Queued(events)
    BY <2>5, NoEvents, EnqueueIs
  <2> QED
    BY <2>1, <2>2, <2>4, <2>6, TemplateMoves
<1>8. ASSUME TemplateWatch PROVE IInv'
  BY <1>8, AddWatchInv DEF TemplateWatch
<1>9. ASSUME TemplateUnwatch PROVE IInv'
  BY <1>9, RemoveWatchInv DEF TemplateUnwatch
<1>10. ASSUME TemplateRemove PROVE IInv'
  <2>1. /\ UNCHANGED <<template, cstr, switch, statuses>> /\ unseen \subseteq unseen' /\ Spent
        /\ T.pc # "idle" /\ Queued({}) /\ Goto("template", "deleteStatus")
    BY <1>0, <1>10, NotSpent, NoEvents DEF TemplateRemove, cluster
  <2> QED
    BY <2>1, TemplateMoves
<1>11. ASSUME TemplateDeleteStatus PROVE IInv'
  <2> DEFINE k == T.item
  <2> DEFINE events == IF tStatus[k] # None THEN TemplateStatusEvent(k) ELSE {}
  <2>1. PICK todo : worker' = [worker EXCEPT !["template"].pc = "deleteStatuses", !["template"].todo = todo]
    BY <1>11 DEF TemplateDeleteStatus
  <2>2. WorkersInv' /\ \A m \in Controllers \ {"template"} : worker'[m] = worker[m]
    BY <1>0, <2>1, WorkerPcTodo
  <2>3. Queued(events) /\ tStatus' = [tStatus EXCEPT ![k] = None]
    BY <1>11, EnqueueIs DEF TemplateDeleteStatus
  <2>4. tStatus' = [j \in Kinds |-> tStatus'[j]]
    BY <1>0, <2>3 DEF BooksInv
  <2>5. ASSUME budget.status, NEW j \in Kinds, tStatus'[j] # tStatus[j]
        PROVE  j \in queue'["templateStatus"]
    <3>1. j = k /\ tStatus[k] # None
      BY <1>0, <2>3, <2>5 DEF BooksInv
    <3>2. <<"templateStatus", k>> \in events
      BY <3>1 DEF TemplateStatusEvent
    <3> HIDE DEF events
    <3> QED
      BY <3>1, <3>2, <2>3, <2>5, Names DEF Queued
  <2> HIDE DEF events
  <2>6. /\ queue' = [n \in Controllers |-> queue'[n]]
        /\ \A m \in Controllers \ {"template"} : queue[m] \subseteq queue'[m]
    BY <2>3 DEF Queued
  <2>7. /\ UNCHANGED <<template, cstr, switch, cStatus>> /\ unseen \subseteq unseen' /\ Spent
        /\ T.pc # "idle"
    BY <1>0, <1>11, NotSpent DEF TemplateDeleteStatus, cluster
  <2>8. cStatus' = [c \in Constraints |-> cStatus'[c]]
    BY <1>0, <2>7 DEF BooksInv
  <2> QED
    BY <2>2, <2>4, <2>5, <2>6, <2>7, <2>8, TemplateWorkerStep
<1>12. ASSUME TemplateDeleteStatuses PROVE IInv'
  <2>1. /\ UNCHANGED <<template, cstr, switch, tStatus>> /\ unseen \subseteq unseen' /\ Spent
        /\ T.pc # "idle"
    BY <1>0, <1>12, NotSpent DEF TemplateDeleteStatuses, cluster
  <2>2. tStatus' = [k \in Kinds |-> tStatus'[k]]
    BY <1>0, <2>1 DEF BooksInv
  <2>3. CASE Done("template") /\ UNCHANGED <<cStatus, queue>>
    <3>1. WorkersInv' /\ \A m \in Controllers \ {"template"} : worker'[m] = worker[m]
      BY <1>0, <2>3, WorkerDone
    <3>2. UNCHANGED statuses /\ queue' = [n \in Controllers |-> queue'[n]]
      BY <1>0, <2>1, <2>3 DEF BooksInv, statuses
    <3> QED
      BY <2>1, <2>3, <3>1, <3>2, TemplateQuietStep
  <2>4. ASSUME NEW d \in T.todo, cStatus' = [cStatus EXCEPT ![d] = None],
               Enqueue(IF cStatus[d] # None THEN ConstraintStatusEvent(d) ELSE {}),
               worker' = [worker EXCEPT !["template"].todo = @ \ {d}]
        PROVE  IInv'
    <3> DEFINE events == IF cStatus[d] # None THEN ConstraintStatusEvent(d) ELSE {}
    <3>1. WorkersInv' /\ \A m \in Controllers \ {"template"} : worker'[m] = worker[m]
      BY <1>0, <2>4, WorkerTodo
    <3>2. Queued(events)
      BY <2>4, EnqueueIs
    <3>3. cStatus' = [c \in Constraints |-> cStatus'[c]]
          /\ \A c \in Constraints : cStatus'[c] = None \/ cStatus'[c] = cStatus[c]
      BY <1>0, <2>4 DEF BooksInv
    <3>4. ASSUME budget.status, NEW c \in Constraints, cStatus'[c] # cStatus[c]
          PROVE  c \in queue'["constraintStatus"]
      <4>1. c = d /\ cStatus[d] # None
        BY <1>0, <2>4, <3>4 DEF BooksInv
      <4>2. <<"constraintStatus", d>> \in events
        BY <4>1 DEF ConstraintStatusEvent
      <4> HIDE DEF events
      <4> QED
        BY <4>1, <4>2, <3>2, <3>4, Names DEF Queued
    <3> HIDE DEF events
    <3>5. /\ queue' = [n \in Controllers |-> queue'[n]]
          /\ \A m \in Controllers \ {"template"} : queue[m] \subseteq queue'[m]
      BY <3>2 DEF Queued
    <3> QED
      BY <2>1, <2>2, <3>1, <3>3, <3>4, <3>5, TemplateWorkerStep
  <2> QED
    BY <1>12, <2>3, <2>4 DEF TemplateDeleteStatuses
<1>13. ASSUME TemplateCallFails PROVE IInv'
  <2>1. /\ WorkersInv' /\ \A m \in Controllers \ {"template"} : worker'[m] = worker[m]
        /\ worker["template"].pc # "idle" /\ Queued({<<"template", worker["template"].item>>})
        /\ Spent /\ unseen \subseteq unseen'
        /\ UNCHANGED <<template, cstr, switch, tStatus, cStatus>>
    BY <1>0, <1>13, CallFailsIs DEF TemplateCallFails
  <2>2. /\ queue' = [n \in Controllers |-> queue'[n]]
        /\ \A m \in Controllers \ {"template"} : queue[m] \subseteq queue'[m]
    BY <2>1 DEF Queued
  <2> QED
    BY <2>1, <2>2, TemplateQuietStep DEF T, statuses
<1> QED
  BY <1>1, <1>2, <1>3, <1>4, <1>5, <1>6, <1>7, <1>8, <1>9, <1>10, <1>11, <1>12,
     <1>13 DEF TemplateStep

-------------------------------------------------------------------------------
\* The constraint controller

\* Where its work has an object.
AtWork == {"status", "add", "report", "enforce"}

\* What its steps have in common.
LEMMA ConstraintWorkerStep ==
  ASSUME IInv, WorkersInv', \A m \in Controllers \ {"constraint"} : worker'[m] = worker[m],
         UNCHANGED <<template, cstr, switch, tStatus>>, Spent, unseen \subseteq unseen',
         queue' = [n \in Controllers |-> queue'[n]],
         \A m \in Controllers \ {"constraint"} : queue[m] \subseteq queue'[m],
         cStatus' = [c \in Constraints |-> cStatus'[c]],
         \A c \in Constraints : \/ cStatus'[c] = None \/ cStatus'[c] = cStatus[c]
                                \/ cStatus'[c].uid = 0 \/ Given(cStatus'[c].uid),
         worker'["constraint"].pc \in AtWork => Given(worker'["constraint"].obj.uid),
         C.pc # "idle" \/ switch = "running" \/ worker' = worker,
         budget.status =>
           \A c \in Constraints : c \in queue'["constraintStatus"] \/ cStatus'[c] = cStatus[c]
  PROVE  IInv'
<1>1. "constraint" # "constraintStatus" /\ "constraint" # "templateStatus"
  OBVIOUS
<1>2. /\ worker'["constraintStatus"] = worker["constraintStatus"]
      /\ worker'["templateStatus"] = worker["templateStatus"]
      /\ queue["constraintStatus"] \subseteq queue'["constraintStatus"]
      /\ queue["templateStatus"] \subseteq queue'["templateStatus"]
  BY <1>1, Names
<1>3. ObjectsInv' /\ BooksInv'
  BY DEF IInv, ObjectsInv, BooksInv, Spent
<1>4. StopInv'
  BY Names DEF IInv, StopInv, AllIdle, C
<1>5. UidInv'
  <2> DEFINE Later(u) == u \in Nat /\ u > budget'.constraints
  <2>1. \A u : Given(u) => Later(u)
    <3>1. budget.constraints \in Nat /\ budget'.constraints \in Nat
      BY DEF IInv, BooksInv, Spent, Budgets
    <3> QED
      BY <3>1 DEF Given, Spent
  <2> HIDE DEF Later
  <2>2. \A c \in Constraints : cstr'[c] # None => Later(cstr'[c].uid)
    BY <2>1 DEF IInv, UidInv
  <2>3. \A c \in Constraints : cStatus'[c] # None => cStatus'[c].uid = 0 \/ Later(cStatus'[c].uid)
    BY <2>1 DEF IInv, UidInv
  <2>4. worker'["constraint"].pc \in AtWork => Later(worker'["constraint"].obj.uid)
    BY <2>1
  <2> QED
    BY <2>2, <2>3, <2>4 DEF UidInv, Given, C, Later, AtWork
<1>6. ASSUME budget.status, NEW k \in Kinds PROVE TemplateKept(k)
  BY <1>6 DEF TemplateKept
<1>7. ASSUME budget.status, NEW c \in Constraints PROVE ConstraintKept(c)
  BY <1>7 DEF ConstraintKept, ShownC
<1> QED
  BY <1>2, <1>3, <1>4, <1>5, <1>6, <1>7, OtherStep DEF Spent

\* The steps that leave the statuses alone.
LEMMA ConstraintQuietStep ==
  ASSUME IInv, WorkersInv', \A m \in Controllers \ {"constraint"} : worker'[m] = worker[m],
         UNCHANGED <<template, cstr, switch, statuses>>, Spent, unseen \subseteq unseen',
         queue' = [n \in Controllers |-> queue'[n]],
         \A m \in Controllers \ {"constraint"} : queue[m] \subseteq queue'[m],
         worker'["constraint"].pc \in AtWork => Given(worker'["constraint"].obj.uid),
         C.pc # "idle" \/ switch = "running" \/ worker' = worker
  PROVE  IInv'
<1>1. /\ tStatus' = tStatus /\ cStatus' = cStatus
      /\ cStatus' = [c \in Constraints |-> cStatus'[c]]
  BY DEF statuses, IInv, BooksInv
<1> QED
  BY <1>1, ConstraintWorkerStep

\* The pod's status of a constraint is written, and its change is an event.
LEMMA ConstraintStatusChange ==
  ASSUME IInv, WorkersInv', \A m \in Controllers \ {"constraint"} : worker'[m] = worker[m],
         worker'["constraint"].pc \in AtWork => Given(worker'["constraint"].obj.uid),
         C.pc # "idle", UNCHANGED <<cluster, tStatus, switch, budget, unseen>>,
         NEW d, NEW s, s = None \/ s.uid = 0 \/ Given(s.uid),
         cStatus' = [cStatus EXCEPT ![d] = s],
         NEW events, Queued(events),
         s # cStatus[d] => ConstraintStatusEvent(d) \subseteq events
  PROVE  IInv'
<1>1. cStatus' = [c \in Constraints |-> cStatus'[c]]
      /\ \A c \in Constraints : cStatus'[c] = IF c = d THEN s ELSE cStatus[c]
  BY DEF IInv, BooksInv
<1>2. ASSUME budget.status, NEW c \in Constraints, cStatus'[c] # cStatus[c]
      PROVE  c \in queue'["constraintStatus"]
  <2>1. c = d /\ s # cStatus[d]
    BY <1>1, <1>2
  <2>2. <<"constraintStatus", d>> \in events
    BY <2>1 DEF ConstraintStatusEvent
  <2> QED
    BY <2>1, <2>2, <1>2, Names DEF Queued
<1>3. /\ queue' = [n \in Controllers |-> queue'[n]]
      /\ \A m \in Controllers \ {"constraint"} : queue[m] \subseteq queue'[m]
  BY DEF Queued
<1>4. UNCHANGED <<template, cstr, switch, tStatus>> /\ Spent /\ unseen \subseteq unseen'
  BY NotSpent DEF cluster, IInv
<1> QED
  BY <1>1, <1>2, <1>3, <1>4, ConstraintWorkerStep

LEMMA SetConstraintStatusInv ==
  ASSUME IInv, NEW err, NEW enforced, NEW more, SetConstraintStatus(err, enforced, more),
         C.pc \in AtWork, Done("constraint"),
         UNCHANGED <<cluster, tStatus, switch, budget, unseen>>
  PROVE  IInv'
<1> DEFINE s == [uid |-> C.obj.uid, gen |-> C.obj.gen, err |-> err, enforced |-> enforced]
<1> DEFINE events == more \cup (IF s # cStatus[C.item] THEN ConstraintStatusEvent(C.item) ELSE {})
<1>1. cStatus' = [cStatus EXCEPT ![C.item] = s] /\ Enqueue(events)
  BY DEF SetConstraintStatus
<1>2. Given(s.uid)
  BY DEF IInv, UidInv, AtWork
<1> HIDE DEF s
<1>3. Queued(events) /\ (s # cStatus[C.item] => ConstraintStatusEvent(C.item) \subseteq events)
  BY <1>1, EnqueueIs
<1> HIDE DEF events
<1>4. WorkersInv' /\ (\A m \in Controllers \ {"constraint"} : worker'[m] = worker[m])
      /\ worker'["constraint"].pc \notin AtWork
  BY WorkerDone, Names DEF IInv, AtWork
<1>5. C.pc # "idle"
  BY DEF AtWork
<1> QED
  BY <1>1, <1>2, <1>3, <1>4, <1>5, ConstraintStatusChange

\* A step that ends the work, with an error or without, and leaves the statuses alone.
LEMMA ConstraintEnds ==
  ASSUME IInv, C.pc # "idle", Done("constraint"), NEW events, Queued(events),
         UNCHANGED <<template, cstr, switch, statuses>>, Spent, unseen \subseteq unseen'
  PROVE  IInv'
<1>1. WorkersInv' /\ (\A m \in Controllers \ {"constraint"} : worker'[m] = worker[m])
      /\ worker'["constraint"].pc \notin AtWork
  BY WorkerDone, Names DEF IInv, AtWork
<1>2. /\ queue' = [n \in Controllers |-> queue'[n]]
      /\ \A m \in Controllers \ {"constraint"} : queue[m] \subseteq queue'[m]
  BY DEF Queued
<1> QED
  BY <1>1, <1>2, ConstraintQuietStep

LEMMA ConstraintInv ==
  ASSUME IInv, ConstraintStep
  PROVE  IInv'
<1>0. WorkersInv /\ BooksInv /\ "constraint" \in Controllers
  BY Names DEF IInv
<1>1. ASSUME NEW c \in Constraints, ConstraintRead(c) PROVE IInv'
  <2>1. PICK pc : /\ Enter("constraint", c, Work(c, cstr[c], pc))
                  /\ pc \in AtWork => cstr[c] # None
    BY <1>1 DEF ConstraintRead, AtWork
  <2> DEFINE w == Work(c, cstr[c], pc)
  <2>2. IsWork(w) /\ w.pc = pc /\ w.obj = cstr[c]
    BY WorkIs
  <2> HIDE DEF w
  <2>3. /\ queue' = [m \in Controllers |-> queue'[m]]
        /\ \A m \in Controllers \ {"constraint"} : queue'[m] = queue[m]
        /\ WorkersInv' /\ \A m \in Controllers \ {"constraint"} : worker'[m] = worker[m]
        /\ worker["constraint"].pc = "idle"
        /\ switch = "running" => worker'["constraint"] = w
        /\ switch # "running" => worker' = worker
    BY <1>0, <2>1, <2>2, EnterIs DEF w
  <2>4. UNCHANGED <<template, cstr, switch, statuses>> /\ unseen \subseteq unseen' /\ Spent
    BY <1>0, <1>1, NotSpent DEF ConstraintRead, cluster
  <2>5. worker'["constraint"].pc \in AtWork => Given(worker'["constraint"].obj.uid)
    <3>1. CASE switch = "running"
      BY <3>1, <2>1, <2>2, <2>3 DEF IInv, UidInv
    <3>2. CASE switch # "running"
      BY <3>2, <2>3 DEF AtWork
    <3> QED
      BY <3>1, <3>2
  <2> QED
    BY <2>3, <2>4, <2>5, ConstraintQuietStep
<1>2. ASSUME ConstraintGetStatus PROVE IInv'
  <2> DEFINE d == C.item
  <2> DEFINE events == IF cStatus[d] = None THEN ConstraintStatusEvent(d) ELSE {}
  <2>1. PICK read : worker' = [worker EXCEPT !["constraint"].pc = "add", !["constraint"].read = read]
    BY <1>2 DEF ConstraintGetStatus
  <2>2. /\ WorkersInv' /\ \A m \in Controllers \ {"constraint"} : worker'[m] = worker[m]
        /\ worker'["constraint"].obj = C.obj
    BY <1>0, <2>1, WorkerPcRead DEF C
  <2>3. C.pc = "status" /\ UNCHANGED <<cluster, tStatus, switch, budget, unseen>>
    BY <1>2 DEF ConstraintGetStatus
  <2>4. Given(worker'["constraint"].obj.uid)
    BY <2>2, <2>3 DEF IInv, UidInv
  <2>5. Queued(events)
    BY <1>2, EnqueueIs DEF ConstraintGetStatus
  <2>6. CASE cStatus[d] = None
    <3> DEFINE s == [uid |-> 0, gen |-> 0, err |-> FALSE, enforced |-> FALSE]
    <3>1. cStatus' = [cStatus EXCEPT ![d] = s] /\ s.uid = 0
      BY <1>2, <2>6 DEF ConstraintGetStatus
    <3>2. ConstraintStatusEvent(d) \subseteq events
      BY <2>6
    <3> HIDE DEF events, s
    <3> QED
      BY <2>2, <2>3, <2>4, <2>5, <3>1, <3>2, ConstraintStatusChange
  <2>7. CASE cStatus[d] # None
    <3> HIDE DEF events
    <3>1. UNCHANGED <<template, cstr, switch, statuses>> /\ unseen \subseteq unseen' /\ Spent
      BY <1>0, <1>2, <2>3, <2>7, NotSpent DEF ConstraintGetStatus, cluster, statuses
    <3>2. /\ queue' = [n \in Controllers |-> queue'[n]]
          /\ \A m \in Controllers \ {"constraint"} : queue[m] \subseteq queue'[m]
      BY <2>5 DEF Queued
    <3> QED
      BY <2>2, <2>3, <2>4, <3>1, <3>2, ConstraintQuietStep
  <2> QED
    BY <2>6, <2>7
<1>3. ASSUME ConstraintAdd PROVE IInv'
  <2>1. PICK pc : Goto("constraint", pc)
    BY <1>3 DEF ConstraintAdd
  <2>2. /\ WorkersInv' /\ \A m \in Controllers \ {"constraint"} : worker'[m] = worker[m]
        /\ worker'["constraint"].obj = C.obj
    BY <1>0, <2>1, WorkerPc DEF C, Goto
  <2>3. /\ C.pc = "add" /\ UNCHANGED <<template, cstr, switch, statuses>>
        /\ unseen \subseteq unseen' /\ Spent /\ Queued({})
    BY <1>0, <1>3, NotSpent, NoEvents DEF ConstraintAdd, cluster
  <2>4. Given(worker'["constraint"].obj.uid)
    BY <2>2, <2>3 DEF IInv, UidInv
  <2>5. /\ queue' = [n \in Controllers |-> queue'[n]]
        /\ \A m \in Controllers \ {"constraint"} : queue[m] \subseteq queue'[m]
    BY <2>3 DEF Queued
  <2> QED
    BY <2>2, <2>3, <2>4, <2>5, ConstraintQuietStep
<1>4. ASSUME ConstraintReport PROVE IInv'
  <2>1. /\ C.pc = "report" /\ C.pc \in AtWork /\ Done("constraint")
        /\ UNCHANGED <<cluster, tStatus, switch, unseen>>
    BY <1>4 DEF ConstraintReport, AtWork
  <2>2. PICK e : e = TRUE
    OBVIOUS
  <2>3. PICK f : f = C.read.enforced
    OBVIOUS
  <2>4. CASE SetConstraintStatus(TRUE, C.read.enforced, {<<"constraint", C.item>>}) /\ UNCHANGED budget
    <3>1. SetConstraintStatus(e, f, {<<"constraint", C.item>>})
      BY <2>2, <2>3, <2>4
    <3> QED
      BY <2>1, <2>4, <3>1, SetConstraintStatusInv
  <2>5. CASE /\ UNCHANGED budget \/ (CanFail /\ Spend("failures"))
             /\ Enqueue({<<"constraint", C.item>>}) /\ UNCHANGED cStatus
    <3>1. Spent
      BY <1>0, <2>5, NotSpent, SpendIs DEF CanFail
    <3>2. Queued({<<"constraint", C.item>>})
      BY <2>5, EnqueueIs
    <3>3. UNCHANGED <<template, cstr, switch, statuses>> /\ unseen \subseteq unseen'
      BY <2>1, <2>5 DEF cluster, statuses
    <3> QED
      BY <2>1, <3>1, <3>2, <3>3, ConstraintEnds
  <2> QED
    BY <1>4, <2>4, <2>5 DEF ConstraintReport
<1>5. ASSUME ConstraintEnforce PROVE IInv'
  <2>1. /\ C.pc = "enforce" /\ C.pc \in AtWork
        /\ UNCHANGED <<cluster, tStatus, switch, budget, unseen>>
    BY <1>5 DEF ConstraintEnforce, AtWork
  <2>2. PICK e, f : e = FALSE /\ f = TRUE
    OBVIOUS
  <2>3. CASE SetConstraintStatus(FALSE, TRUE, {}) /\ Done("constraint")
    <3>1. SetConstraintStatus(e, f, {})
      BY <2>2, <2>3
    <3> QED
      BY <2>1, <2>3, <3>1, SetConstraintStatusInv
  <2>4. CASE Again("constraint") /\ UNCHANGED cStatus
    <3>1. Done("constraint") /\ Queued({<<"constraint", worker["constraint"].item>>})
      BY <2>4, <1>0, AgainIs DEF Again
    <3>2. /\ UNCHANGED <<template, cstr, switch, statuses>> /\ unseen \subseteq unseen' /\ Spent
          /\ C.pc # "idle"
      BY <1>0, <2>1, <2>4, NotSpent DEF cluster, statuses
    <3> QED
      BY <3>1, <3>2, ConstraintEnds
  <2> QED
    BY <1>5, <2>3, <2>4 DEF ConstraintEnforce
<1>6. ASSUME ConstraintRemove PROVE IInv'
  <2>1. /\ WorkersInv' /\ \A m \in Controllers \ {"constraint"} : worker'[m] = worker[m]
        /\ worker'["constraint"].pc = "deleteStatus"
    BY <1>0, <1>6, WorkerPc DEF ConstraintRemove, Goto
  <2>2. /\ C.pc = "remove" /\ UNCHANGED <<template, cstr, switch, statuses>>
        /\ unseen \subseteq unseen' /\ Spent /\ Queued({})
    BY <1>0, <1>6, NotSpent, NoEvents DEF ConstraintRemove, cluster
  <2>3. /\ queue' = [n \in Controllers |-> queue'[n]]
        /\ \A m \in Controllers \ {"constraint"} : queue[m] \subseteq queue'[m]
    BY <2>2 DEF Queued
  <2> QED
    BY <2>1, <2>2, <2>3, ConstraintQuietStep DEF AtWork
<1>7. ASSUME ConstraintDeleteStatus PROVE IInv'
  <2> DEFINE events == IF cStatus[C.item] # None THEN ConstraintStatusEvent(C.item) ELSE {}
  <2>1. /\ WorkersInv' /\ \A m \in Controllers \ {"constraint"} : worker'[m] = worker[m]
        /\ worker'["constraint"].pc \notin AtWork
    BY <1>0, <1>7, WorkerDone DEF ConstraintDeleteStatus, AtWork
  <2>2. C.pc # "idle" /\ UNCHANGED <<cluster, tStatus, switch, budget, unseen>>
        /\ cStatus' = [cStatus EXCEPT ![C.item] = None]
    BY <1>7 DEF ConstraintDeleteStatus
  <2>3. Queued(events) /\ (None # cStatus[C.item] => ConstraintStatusEvent(C.item) \subseteq events)
    BY <1>7, EnqueueIs DEF ConstraintDeleteStatus
  <2> HIDE DEF events
  <2> QED
    BY <2>1, <2>2, <2>3, ConstraintStatusChange
<1>8. ASSUME ConstraintCallFails PROVE IInv'
  <2>1. /\ worker["constraint"].pc # "idle" /\ Queued({<<"constraint", worker["constraint"].item>>})
        /\ Spent /\ unseen \subseteq unseen'
        /\ UNCHANGED <<template, cstr, switch, tStatus, cStatus>>
    BY <1>0, <1>8, CallFailsIs DEF ConstraintCallFails
  <2>2. Done("constraint")
    BY <1>8 DEF ConstraintCallFails, CallFails, Again
  <2> QED
    BY <2>1, <2>2, ConstraintEnds DEF C, statuses
<1> QED
  BY <1>1, <1>2, <1>3, <1>4, <1>5, <1>6, <1>7, <1>8 DEF ConstraintStep

-------------------------------------------------------------------------------
\* The status controllers

\* What the steps of the constraints' status controller have in common.
LEMMA ConstraintStatusWorkerStep ==
  ASSUME IInv, WorkersInv', \A m \in Controllers \ {"constraintStatus"} : worker'[m] = worker[m],
         UNCHANGED <<template, switch, statuses>>, Spent, ObjectsInv',
         queue' = [n \in Controllers |-> queue'[n]],
         \A m \in Controllers \ {"constraintStatus"} : queue[m] \subseteq queue'[m],
         \A c \in Constraints : cstr'[c] # None => cstr[c] # None /\ cstr'[c].uid = cstr[c].uid,
         S.pc # "idle" \/ switch = "running" \/ worker' = worker,
         S'.pc \in {"idle", "list", "update"}, S'.pc # "idle" => S'.obj # None,
         ASSUME NEW c \in Constraints, budget.status, switch # "stopped"
         PROVE  ConstraintShown(c)'
  PROVE  IInv'
<1>1. "constraint" # "constraintStatus" /\ "templateStatus" # "constraintStatus"
  OBVIOUS
<1>2. /\ worker'["constraint"] = worker["constraint"]
      /\ worker'["templateStatus"] = worker["templateStatus"]
      /\ queue["templateStatus"] \subseteq queue'["templateStatus"]
  BY <1>1, Names
<1>3. BooksInv'
  BY DEF IInv, BooksInv, Spent, statuses
<1>4. StopInv'
  BY Names DEF IInv, StopInv, AllIdle, S
<1>5. UidInv'
  BY <1>2, UidKept DEF statuses
<1>6. U' = U
  BY <1>2 DEF U
<1>7. PcInv'
  BY <1>6 DEF IInv, PcInv
<1>8. ASSUME NEW k \in Kinds, budget.status, switch # "stopped" PROVE TemplateShown(k)'
  <2>1. TemplateShown(k)
    BY <1>8 DEF IInv, ReportInv
  <2> QED
    BY <2>1, <1>2, <1>6 DEF TemplateShown, ShownT, statuses
<1>9. ReportInv'
  BY <1>8 DEF ReportInv, Spent
<1> QED
  BY <1>3, <1>4, <1>5, <1>7, <1>9 DEF IInv

\* The status is queued again: after an error, or a constraint that has changed.
LEMMA ConstraintStatusAgain ==
  ASSUME IInv, S.pc # "idle", Again("constraintStatus"),
         UNCHANGED <<template, cstr, switch, statuses>>, Spent, unseen \subseteq unseen'
  PROVE  IInv'
<1>1. /\ WorkersInv' /\ \A m \in Controllers \ {"constraintStatus"} : worker'[m] = worker[m]
      /\ S'.pc = "idle" /\ Queued({<<"constraintStatus", S.item>>})
  BY AgainIs, Names DEF S
<1>2. /\ queue' = [n \in Controllers |-> queue'[n]]
      /\ \A m \in Controllers : queue[m] \subseteq queue'[m]
  BY <1>1 DEF Queued
<1>3. ASSUME NEW c \in Constraints, budget.status, switch # "stopped"
      PROVE  ConstraintShown(c)'
  <2>1. ConstraintShown(c)
    BY <1>3 DEF IInv, ReportInv
  <2>2. S.item \in queue'["constraintStatus"] /\ queue["constraintStatus"] \subseteq queue'["constraintStatus"]
    BY <1>1, <1>3, Names DEF Queued
  <2> QED
    BY <2>1, <2>2, <1>1 DEF ConstraintShown, ShownC, statuses
<1>4. ObjectsInv'
  BY DEF IInv, ObjectsInv
<1> QED
  BY <1>1, <1>2, <1>3, <1>4, ConstraintStatusWorkerStep

LEMMA ConstraintStatusInv ==
  ASSUME IInv, ConstraintStatusStep
  PROVE  IInv'
<1>0. WorkersInv /\ BooksInv /\ ObjectsInv /\ PcInv /\ "constraintStatus" \in Controllers
  BY Names DEF IInv
<1>1. ASSUME NEW d \in Constraints, ConstraintStatusRead(d) PROVE IInv'
  <2>1. PICK w : /\ Enter("constraintStatus", d, w)
                 /\ w = IF KindOf[d] \in want["statusW"] /\ cstr[d] # None
                        THEN Work(d, cstr[d], "list") ELSE Idle
    BY <1>1 DEF ConstraintStatusRead
  <2>2. /\ IsWork(w) /\ w.pc \in {"idle", "list"}
        /\ w.pc = "list" => w.item = d /\ w.obj = cstr[d] /\ cstr[d] # None
        /\ w.pc = "idle" => KindOf[d] \notin want["statusW"] \/ cstr[d] = None
    <3>1. CASE w = Work(d, cstr[d], "list") /\ cstr[d] # None
      BY <3>1, WorkIs
    <3>2. CASE w = Idle /\ (KindOf[d] \notin want["statusW"] \/ cstr[d] = None)
      BY <3>2 DEF Idle, Work, IsWork
    <3> QED
      BY <2>1, <3>1, <3>2
  <2>3. /\ queue' = [m \in Controllers |-> queue'[m]]
        /\ queue'["constraintStatus"] = queue["constraintStatus"] \ {d}
        /\ \A m \in Controllers \ {"constraintStatus"} : queue'[m] = queue[m]
        /\ WorkersInv' /\ \A m \in Controllers \ {"constraintStatus"} : worker'[m] = worker[m]
        /\ S.pc = "idle" /\ switch # "stopping"
        /\ switch = "running" => S' = w
        /\ switch # "running" => worker' = worker
    BY <1>0, <2>1, <2>2, EnterIs DEF S
  <2>4. /\ UNCHANGED <<template, cstr, switch, statuses>> /\ Spent
        /\ switch = "running" /\ KindOf[d] \notin want["statusW"] => d \in unseen'
        /\ unseen \ {d} \subseteq unseen'
    BY <1>0, <1>1, NotSpent DEF ConstraintStatusRead, cluster
  <2>5. S'.pc \in {"idle", "list", "update"} /\ (S'.pc # "idle" => S'.obj # None)
    <3>1. CASE switch = "running"
      BY <3>1, <2>2, <2>3
    <3>2. CASE switch # "running"
      BY <3>2, <1>0, <2>3 DEF PcInv, S
    <3> QED
      BY <3>1, <3>2
  <2>6. ASSUME NEW c \in Constraints, budget.status, switch # "stopped"
        PROVE  ConstraintShown(c)'
    <3>1. ConstraintShown(c) /\ S' = w /\ switch = "running"
      BY <2>6, <2>3 DEF IInv, ReportInv, StopInv
    <3>2. CASE c # d
      <4>1. c \notin queue'["constraintStatus"] /\ c \notin unseen' => ShownC(c)
        BY <3>1, <3>2, <2>3, <2>4 DEF ConstraintShown
      <4> QED
        BY <4>1, <3>1, <3>2, <2>2, <2>4 DEF ConstraintShown, ShownC, statuses
    <3>3. CASE c = d
      <4>1. d \notin unseen' => w.pc = "list" \/ cstr[d] = None
        BY <3>1, <2>2, <2>4
      <4> QED
        BY <4>1, <3>1, <3>3, <2>2, <2>4 DEF ConstraintShown, ShownC
    <3> QED
      BY <3>2, <3>3
  <2>7. ObjectsInv'
    BY <1>0, <2>4 DEF ObjectsInv
  <2> QED
    BY <2>3, <2>4, <2>5, <2>6, <2>7, ConstraintStatusWorkerStep

<1>2. ASSUME ConstraintStatusList PROVE IInv'
  <2>1. /\ S.pc = "list" /\ queue' = queue
        /\ worker' = [worker EXCEPT !["constraintStatus"].pc = "update",
                                    !["constraintStatus"].read = ByPod(cStatus[S.item], S.obj)]
        /\ UNCHANGED <<template, cstr, switch, statuses, unseen>> /\ Spent
    BY <1>0, <1>2, NotSpent DEF ConstraintStatusList, cluster
  <2>2. PICK read : read = ByPod(cStatus[S.item], S.obj)
    OBVIOUS
  <2>3. /\ WorkersInv' /\ \A m \in Controllers \ {"constraintStatus"} : worker'[m] = worker[m]
        /\ S'.pc = "update" /\ S'.item = S.item /\ S'.obj = S.obj /\ S'.read = read
    BY <1>0, <2>1, <2>2, WorkerPcRead DEF S
  <2>4. ASSUME NEW c \in Constraints, budget.status, switch # "stopped"
        PROVE  ConstraintShown(c)'
    <3>1. ConstraintShown(c)
      BY <2>4 DEF IInv, ReportInv
    <3> QED
      BY <3>1, <2>1, <2>2, <2>3 DEF ConstraintShown, ShownC, statuses
  <2>5. ObjectsInv' /\ queue' = [n \in Controllers |-> queue'[n]]
    BY <1>0, <2>1 DEF ObjectsInv, BooksInv
  <2>6. S.obj # None
    BY <1>0, <2>1 DEF PcInv
  <2> QED
    BY <2>1, <2>3, <2>4, <2>5, <2>6, ConstraintStatusWorkerStep
<1>3. ASSUME ConstraintStatusUpdate PROVE IInv'
  <2>1. PICK d, s : d = S.item /\ s = S.read
    OBVIOUS
  <2>2. /\ S.pc = "update" /\ S.obj # None
        /\ UNCHANGED <<template, switch, statuses, unseen>> /\ Spent
    BY <1>0, <1>3, NotSpent DEF ConstraintStatusUpdate, PcInv
  <2>3. CASE Again("constraintStatus") /\ UNCHANGED cstr
    BY <2>2, <2>3, ConstraintStatusAgain
  <2>4. CASE /\ cstr[d] = S.obj /\ cstr' = [cstr EXCEPT ![d].byPod = s]
             /\ Done("constraintStatus") /\ \E events : Enqueue(events)
    <3>1. PICK events : Queued(events)
      BY <2>4, EnqueueIs
    <3>2. /\ WorkersInv' /\ \A m \in Controllers \ {"constraintStatus"} : worker'[m] = worker[m]
          /\ S'.pc = "idle"
      BY <1>0, <2>4, WorkerDone DEF S
    <3>3. \A c \in Constraints \ {d} : cstr'[c] = cstr[c]
      BY <1>0, <2>4 DEF ObjectsInv
    <3>4. ASSUME d \in Constraints
          PROVE  /\ cstr'[d] = [uid |-> S.obj.uid, gen |-> S.obj.gen, byPod |-> s]
                 /\ cstr[d] # None
      <4>1. cstr[d] = [uid |-> S.obj.uid, gen |-> S.obj.gen, byPod |-> S.obj.byPod]
        BY <1>0, <2>2, <2>4, <3>4 DEF ObjectsInv, IsConstraint
      <4>2. cstr'[d] = [cstr[d] EXCEPT !.byPod = s]
        BY <1>0, <2>4, <3>4 DEF ObjectsInv
      <4> QED
        BY <4>1, <4>2, <2>2, <2>4
    <3>5. d \in Constraints =>
            cstr'[d].uid = cstr[d].uid /\ cstr'[d].byPod = s /\ IsConstraint(cstr'[d])
      BY <3>4, <2>4 DEF IsConstraint
    <3>6. ObjectsInv'
      <4>1. cstr' = [c \in Constraints |-> cstr'[c]]
        BY <1>0, <2>4 DEF ObjectsInv
      <4>2. \A c \in Constraints : IsConstraint(cstr'[c])
        BY <1>0, <3>3, <3>5 DEF ObjectsInv
      <4> QED
        BY <4>1, <4>2, <2>2, <1>0 DEF ObjectsInv
    <3>7. ASSUME NEW c \in Constraints, budget.status, switch # "stopped"
          PROVE  ConstraintShown(c)'
      <4>1. ConstraintShown(c) /\ queue["constraintStatus"] \subseteq queue'["constraintStatus"]
        BY <3>1, <3>7, Names DEF IInv, ReportInv, Queued
      <4>2. CASE c # d
        BY <4>1, <4>2, <2>1, <2>2, <3>2, <3>3 DEF ConstraintShown, ShownC, statuses
      <4>3. CASE c = d
        <5>1. c \notin queue'["constraintStatus"] /\ c \notin unseen => s = ByPod(cStatus[d], S.obj)
          BY <4>1, <4>3, <2>1, <2>2 DEF ConstraintShown
        <5>2. ByPod(cStatus[d], S.obj) = ByPod(cStatus[d], cstr'[d])
          BY <4>3, <3>5, <2>4 DEF ByPod
        <5> QED
          BY <5>1, <5>2, <4>3, <3>2, <3>5, <2>2 DEF ConstraintShown, ShownC, statuses
      <4> QED
        BY <4>2, <4>3
    <3>8. /\ queue' = [n \in Controllers |-> queue'[n]]
          /\ \A m \in Controllers : queue[m] \subseteq queue'[m]
      BY <3>1 DEF Queued
    <3> QED
      BY <2>2, <3>2, <3>3, <3>4, <3>5, <3>6, <3>7, <3>8, ConstraintStatusWorkerStep
  <2> QED
    BY <1>3, <2>1, <2>3, <2>4 DEF ConstraintStatusUpdate
<1> QED
  BY <1>1, <1>2, <1>3 DEF ConstraintStatusStep

\* The same for the status controller of the templates.
LEMMA TemplateStatusWorkerStep ==
  ASSUME IInv, WorkersInv', \A m \in Controllers \ {"templateStatus"} : worker'[m] = worker[m],
         UNCHANGED <<cstr, switch, statuses>>, Spent, ObjectsInv', unseen \subseteq unseen',
         queue' = [n \in Controllers |-> queue'[n]],
         \A m \in Controllers \ {"templateStatus"} : queue[m] \subseteq queue'[m],
         U.pc # "idle" \/ switch = "running" \/ worker' = worker,
         U'.pc \in {"idle", "list", "update"}, U'.pc # "idle" => U'.obj # None,
         ASSUME NEW k \in Kinds, budget.status, switch # "stopped"
         PROVE  TemplateShown(k)'
  PROVE  IInv'
<1>1. "constraint" # "templateStatus" /\ "constraintStatus" # "templateStatus"
  OBVIOUS
<1>2. /\ worker'["constraint"] = worker["constraint"]
      /\ worker'["constraintStatus"] = worker["constraintStatus"]
      /\ queue["constraintStatus"] \subseteq queue'["constraintStatus"]
  BY <1>1, Names
<1>3. BooksInv'
  BY DEF IInv, BooksInv, Spent, statuses
<1>4. StopInv'
  BY Names DEF IInv, StopInv, AllIdle, U
<1>5. UidInv'
  BY <1>2, UidKept DEF statuses
<1>6. S' = S
  BY <1>2 DEF S
<1>7. PcInv'
  BY <1>6 DEF IInv, PcInv
<1>8. ASSUME NEW c \in Constraints, budget.status, switch # "stopped" PROVE ConstraintShown(c)'
  <2>1. ConstraintShown(c)
    BY <1>8 DEF IInv, ReportInv
  <2> QED
    BY <2>1, <1>2, <1>6 DEF ConstraintShown, ShownC, statuses
<1>9. ReportInv'
  BY <1>8 DEF ReportInv, Spent
<1> QED
  BY <1>3, <1>4, <1>5, <1>7, <1>9 DEF IInv

LEMMA TemplateStatusAgain ==
  ASSUME IInv, U.pc # "idle", Again("templateStatus"),
         UNCHANGED <<template, cstr, switch, statuses>>, Spent, unseen \subseteq unseen'
  PROVE  IInv'
<1>1. /\ WorkersInv' /\ \A m \in Controllers \ {"templateStatus"} : worker'[m] = worker[m]
      /\ U'.pc = "idle" /\ Queued({<<"templateStatus", U.item>>})
  BY AgainIs, Names DEF U
<1>2. /\ queue' = [n \in Controllers |-> queue'[n]]
      /\ \A m \in Controllers : queue[m] \subseteq queue'[m]
  BY <1>1 DEF Queued
<1>3. ASSUME NEW k \in Kinds, budget.status, switch # "stopped"
      PROVE  TemplateShown(k)'
  <2>1. TemplateShown(k)
    BY <1>3 DEF IInv, ReportInv
  <2>2. U.item \in queue'["templateStatus"] /\ queue["templateStatus"] \subseteq queue'["templateStatus"]
    BY <1>1, <1>3, Names DEF Queued
  <2> QED
    BY <2>1, <2>2, <1>1 DEF TemplateShown, ShownT, statuses
<1>4. ObjectsInv'
  BY DEF IInv, ObjectsInv
<1> QED
  BY <1>1, <1>2, <1>3, <1>4, TemplateStatusWorkerStep

LEMMA TemplateStatusInv ==
  ASSUME IInv, TemplateStatusStep
  PROVE  IInv'
<1>0. WorkersInv /\ BooksInv /\ ObjectsInv /\ PcInv /\ "templateStatus" \in Controllers
  BY Names DEF IInv
<1>1. ASSUME NEW j \in Kinds, TemplateStatusRead(j) PROVE IInv'
  <2>1. PICK w : /\ Enter("templateStatus", j, w)
                 /\ w = IF template[j] # None THEN Work(j, template[j], "list") ELSE Idle
    BY <1>1 DEF TemplateStatusRead
  <2>2. /\ IsWork(w) /\ w.pc \in {"idle", "list"}
        /\ w.pc = "list" => w.item = j /\ w.obj = template[j] /\ template[j] # None
        /\ w.pc = "idle" => template[j] = None
    <3>1. CASE w = Work(j, template[j], "list") /\ template[j] # None
      BY <3>1, WorkIs
    <3>2. CASE w = Idle /\ template[j] = None
      BY <3>2 DEF Idle, Work, IsWork
    <3> QED
      BY <2>1, <3>1, <3>2
  <2>3. /\ queue' = [m \in Controllers |-> queue'[m]]
        /\ queue'["templateStatus"] = queue["templateStatus"] \ {j}
        /\ \A m \in Controllers \ {"templateStatus"} : queue'[m] = queue[m]
        /\ WorkersInv' /\ \A m \in Controllers \ {"templateStatus"} : worker'[m] = worker[m]
        /\ U.pc = "idle" /\ switch # "stopping"
        /\ switch = "running" => U' = w
        /\ switch # "running" => worker' = worker
    BY <1>0, <2>1, <2>2, EnterIs DEF U
  <2>4. UNCHANGED <<template, cstr, switch, statuses, unseen>> /\ Spent
    BY <1>0, <1>1, NotSpent DEF TemplateStatusRead, cluster
  <2>5. U'.pc \in {"idle", "list", "update"} /\ (U'.pc # "idle" => U'.obj # None)
    <3>1. CASE switch = "running"
      BY <3>1, <2>2, <2>3
    <3>2. CASE switch # "running"
      BY <3>2, <1>0, <2>3 DEF PcInv, U
    <3> QED
      BY <3>1, <3>2
  <2>6. ASSUME NEW k \in Kinds, budget.status, switch # "stopped"
        PROVE  TemplateShown(k)'
    <3>1. TemplateShown(k) /\ U' = w
      BY <2>6, <2>3 DEF IInv, ReportInv, StopInv
    <3>2. CASE k # j
      <4>1. k \notin queue'["templateStatus"] => ShownT(k)
        BY <3>1, <3>2, <2>3 DEF TemplateShown
      <4> QED
        BY <4>1, <3>1, <3>2, <2>2, <2>4 DEF TemplateShown, ShownT, statuses
    <3>3. CASE k = j
      BY <3>1, <3>3, <2>2, <2>4 DEF TemplateShown, ShownT
    <3> QED
      BY <3>2, <3>3
  <2>7. ObjectsInv'
    BY <1>0, <2>4 DEF ObjectsInv
  <2> QED
    BY <2>3, <2>4, <2>5, <2>6, <2>7, TemplateStatusWorkerStep
<1>2. ASSUME TemplateStatusList PROVE IInv'
  <2>1. /\ U.pc = "list" /\ queue' = queue
        /\ worker' = [worker EXCEPT !["templateStatus"].pc = "update",
                                    !["templateStatus"].read = ByPod(tStatus[U.item], U.obj)]
        /\ UNCHANGED <<template, cstr, switch, statuses, unseen>> /\ Spent
    BY <1>0, <1>2, NotSpent DEF TemplateStatusList, cluster
  <2>2. PICK read : read = ByPod(tStatus[U.item], U.obj)
    OBVIOUS
  <2>3. /\ WorkersInv' /\ \A m \in Controllers \ {"templateStatus"} : worker'[m] = worker[m]
        /\ U'.pc = "update" /\ U'.item = U.item /\ U'.obj = U.obj /\ U'.read = read
    BY <1>0, <2>1, <2>2, WorkerPcRead DEF U
  <2>4. ASSUME NEW k \in Kinds, budget.status, switch # "stopped"
        PROVE  TemplateShown(k)'
    <3>1. TemplateShown(k)
      BY <2>4 DEF IInv, ReportInv
    <3> QED
      BY <3>1, <2>1, <2>2, <2>3 DEF TemplateShown, ShownT, statuses
  <2>5. ObjectsInv' /\ queue' = [n \in Controllers |-> queue'[n]]
    BY <1>0, <2>1 DEF ObjectsInv, BooksInv
  <2>6. U.obj # None
    BY <1>0, <2>1 DEF PcInv
  <2> QED
    BY <2>1, <2>3, <2>4, <2>5, <2>6, TemplateStatusWorkerStep
<1>3. ASSUME TemplateStatusUpdate PROVE IInv'
  <2>1. PICK j, s : j = U.item /\ s = U.read
    OBVIOUS
  <2>2. /\ U.pc = "update" /\ U.obj # None
        /\ UNCHANGED <<cstr, switch, statuses, unseen>> /\ Spent
    BY <1>0, <1>3, NotSpent DEF TemplateStatusUpdate, PcInv
  <2>3. CASE Again("templateStatus") /\ UNCHANGED template
    BY <2>2, <2>3, TemplateStatusAgain
  <2>4. CASE /\ template[j] = U.obj /\ template' = [template EXCEPT ![j].byPod = s]
             /\ Done("templateStatus") /\ \E events : Enqueue(events)
    <3>1. PICK events : Queued(events)
      BY <2>4, EnqueueIs
    <3>2. /\ WorkersInv' /\ \A m \in Controllers \ {"templateStatus"} : worker'[m] = worker[m]
          /\ U'.pc = "idle"
      BY <1>0, <2>4, WorkerDone DEF U
    <3>3. \A k \in Kinds \ {j} : template'[k] = template[k]
      BY <1>0, <2>4 DEF ObjectsInv
    <3>4. ASSUME j \in Kinds
          PROVE  template'[j] = [uid |-> U.obj.uid, gen |-> U.obj.gen, body |-> U.obj.body, byPod |-> s]
      <4>1. template[j] = [uid |-> U.obj.uid, gen |-> U.obj.gen, body |-> U.obj.body,
                           byPod |-> U.obj.byPod]
        BY <1>0, <2>2, <2>4, <3>4 DEF ObjectsInv, IsTemplate
      <4>2. template'[j] = [template[j] EXCEPT !.byPod = s]
        BY <1>0, <2>4, <3>4 DEF ObjectsInv
      <4> QED
        BY <4>1, <4>2
    <3>5. j \in Kinds =>
            template'[j].uid = U.obj.uid /\ template'[j].byPod = s /\ IsTemplate(template'[j])
      BY <3>4 DEF IsTemplate
    <3>6. ObjectsInv'
      <4>1. template' = [k \in Kinds |-> template'[k]]
        BY <1>0, <2>4 DEF ObjectsInv
      <4>2. \A k \in Kinds : IsTemplate(template'[k])
        BY <1>0, <3>3, <3>5 DEF ObjectsInv
      <4> QED
        BY <4>1, <4>2, <2>2, <1>0 DEF ObjectsInv
    <3>7. ASSUME NEW k \in Kinds, budget.status, switch # "stopped"
          PROVE  TemplateShown(k)'
      <4>1. TemplateShown(k) /\ queue["templateStatus"] \subseteq queue'["templateStatus"]
        BY <3>1, <3>7, Names DEF IInv, ReportInv, Queued
      <4>2. CASE k # j
        BY <4>1, <4>2, <2>1, <2>2, <3>2, <3>3 DEF TemplateShown, ShownT, statuses
      <4>3. CASE k = j
        <5>1. k \notin queue'["templateStatus"] => s = ByPod(tStatus[j], U.obj)
          BY <4>1, <4>3, <2>1, <2>2 DEF TemplateShown
        <5>2. ByPod(tStatus[j], U.obj) = ByPod(tStatus[j], template'[j])
          BY <4>3, <3>5, <2>4 DEF ByPod
        <5> QED
          BY <5>1, <5>2, <4>3, <3>2, <3>5, <2>2 DEF TemplateShown, ShownT, statuses
      <4> QED
        BY <4>2, <4>3
    <3>8. /\ queue' = [n \in Controllers |-> queue'[n]]
          /\ \A m \in Controllers : queue[m] \subseteq queue'[m]
      BY <3>1 DEF Queued
    <3> QED
      BY <2>2, <3>2, <3>6, <3>7, <3>8, TemplateStatusWorkerStep
  <2> QED
    BY <1>3, <2>1, <2>3, <2>4 DEF TemplateStatusUpdate
<1> QED
  BY <1>1, <1>2, <1>3 DEF TemplateStatusStep

LEMMA StatusCallFailsInv ==
  ASSUME IInv, StatusCallFails
  PROVE  IInv'
<1>1. ASSUME NEW n \in {"constraintStatus", "templateStatus"}, CallFails(n, {"list", "update"})
      PROVE  IInv'
  <2>1. /\ worker[n].pc # "idle" /\ Spent /\ unseen \subseteq unseen'
        /\ UNCHANGED <<template, cstr, switch, tStatus, cStatus>>
    BY <1>1, CallFailsIs, Names
  <2>2. Again(n)
    BY <1>1 DEF CallFails
  <2> QED
    BY <2>1, <2>2, <1>1, ConstraintStatusAgain, TemplateStatusAgain DEF S, U, statuses
<1> QED
  BY <1>1 DEF StatusCallFails

-------------------------------------------------------------------------------
\* The results

LEMMA InitInv ==
  ASSUME Init
  PROVE  IInv
<1>1. /\ \A n \in Controllers : worker[n] = Idle
      /\ worker = [n \in Controllers |-> worker[n]]
  BY DEF Init
<1>2. IsWork(Idle) /\ Idle.pc = "idle"
  BY DEF Idle, Work, IsWork
<1>3. WorkersInv /\ StopInv /\ PcInv
  BY <1>1, <1>2, Names DEF Init, WorkersInv, StopInv, AllIdle, PcInv, S, U
<1>4. ObjectsInv
  BY DEF Init, ObjectsInv, IsTemplate, IsConstraint
<1>5. BooksInv
  BY TemplateAssumption DEF Init, BooksInv, Budgets
<1>6. UidInv
  BY <1>1, <1>2, Names DEF Init, UidInv, C
<1>7. ReportInv
  BY <1>1, <1>2, Names DEF Init, ReportInv, TemplateShown, ConstraintShown, ShownT, ShownC, S, U
<1> QED
  BY <1>3, <1>4, <1>5, <1>6, <1>7 DEF IInv

LEMMA NextInv ==
  ASSUME IInv, [Next]_vars
  PROVE  IInv'
<1>1. ASSUME Stop PROVE IInv'
  <2>1. /\ AllIdle /\ switch' = "stopped"
        /\ UNCHANGED <<template, cstr, tStatus, cStatus, queue, worker, budget, unseen>>
    BY <1>1 DEF Stop, cluster, statuses
  <2> QED
    BY <2>1 DEF IInv, WorkersInv, ObjectsInv, BooksInv, StopInv, AllIdle, UidInv, Given, C,
                PcInv, S, U, ReportInv
<1>2. ASSUME UNCHANGED vars PROVE IInv'
  <2>1. UNCHANGED <<template, cstr, tStatus, cStatus, queue, worker, budget, unseen, switch>>
    BY <1>2 DEF vars, cluster, statuses
  <2> QED
    BY <2>1 DEF IInv, WorkersInv, ObjectsInv, BooksInv, StopInv, AllIdle, UidInv, Given, C,
                PcInv, S, U, ReportInv, TemplateShown, ConstraintShown, ShownT, ShownC
<1> QED
  BY <1>1, <1>2, UserInv, TemplateInv, ConstraintInv, ConstraintStatusInv, TemplateStatusInv,
     StatusCallFailsInv DEF Next

(***************************************************************************)
(* The inductive invariant of the four controllers, the cluster and the    *)
(* switch.                                                                 *)
(***************************************************************************)
THEOREM Invariance == Spec => []IInv
BY InitInv, NextInv, PTL DEF Spec

(***************************************************************************)
(* At rest a constraint or a template shows the status that this pod has   *)
(* written for it, whatever order its status, the object and the workers   *)
(* changed in and whichever calls failed: every change either queues the   *)
(* object for its status controller or changes nothing that is shown, a    *)
(* write from a stale read is refused and queued again, and the uid of an  *)
(* object is never that of an earlier one's status.                        *)
(***************************************************************************)
THEOREM RestIsReported == Spec => []RestReported
<1>1. IInv => RestReported
  <2> SUFFICES ASSUME IInv, Rest, budget.status PROVE
         /\ \A c \in Constraints \ unseen :
              cstr[c] # None => cstr[c].byPod = ByPod(cStatus[c], cstr[c])
         /\ \A k \in Kinds :
              template[k] # None => template[k].byPod = ByPod(tStatus[k], template[k])
    BY DEF RestReported
  <2>1. /\ S.pc = "idle" /\ U.pc = "idle" /\ switch # "stopped"
        /\ queue["constraintStatus"] = {} /\ queue["templateStatus"] = {}
    BY Names DEF Rest, AllIdle, S, U
  <2>2. /\ \A k \in Kinds : TemplateShown(k)
        /\ \A c \in Constraints : ConstraintShown(c)
    BY <2>1 DEF IInv, ReportInv
  <2> QED
    BY <2>1, <2>2 DEF TemplateShown, ConstraintShown, ShownT, ShownC
<1> QED
  BY <1>1, Invariance, PTL

(***************************************************************************)
(* Once Stop has returned, no controller writes a status, OPA, the watches *)
(* or the metrics cache: no reconcile holds the lock of the switch when    *)
(* Stop gets it, and none gets past Enter afterwards.                      *)
(***************************************************************************)
THEOREM StopIsQuiet == Spec => QuietAfterStop
<1>1. ASSUME IInv, [Next]_vars, switch = "stopped"
      PROVE  UNCHANGED <<statuses, opa, watches, keys>>
  <2>1. \A n \in Controllers : worker[n].pc = "idle"
    BY <1>1 DEF IInv, StopInv, AllIdle
  <2>2. T.pc = "idle" /\ C.pc = "idle" /\ S.pc = "idle" /\ U.pc = "idle"
    BY <2>1, Names DEF T, C, S, U
  <2>3. CASE UserStep \/ Collect
    BY <2>3 DEF UserStep, Collect, TemplateChange, TemplateDelete, ConstraintChange,
                ConstraintDelete, CRDDelete, GarbageCollect, DropCRD, StopCall
  <2>4. CASE TemplateStep
    BY <2>4, <2>2, <2>1, Names DEF TemplateStep, TemplateRead, TemplateGetStatus, TemplateReport,
         TemplateGetCRD, TemplateIngest, TemplateWriteCRD, TemplateWatch,
         TemplateSucceed, TemplateUnwatch, TemplateRemove, TemplateDeleteStatus,
         TemplateDeleteStatuses, TemplateCallFails, CallFails
  <2>5. CASE ConstraintStep
    BY <2>5, <2>2, <2>1, Names DEF ConstraintStep, ConstraintRead, ConstraintGetStatus,
         ConstraintAdd, ConstraintReport, ConstraintEnforce, ConstraintRemove,
         ConstraintDeleteStatus, ConstraintCallFails, CallFails
  <2>6. CASE ConstraintStatusStep \/ TemplateStatusStep \/ StatusCallFails \/ Stop
    BY <2>6 DEF ConstraintStatusStep, TemplateStatusStep, StatusCallFails, Stop,
         ConstraintStatusRead, ConstraintStatusList, ConstraintStatusUpdate,
         TemplateStatusRead, TemplateStatusList, TemplateStatusUpdate, CallFails
  <2>7. CASE UNCHANGED vars
    BY <2>7 DEF vars
  <2> QED
    BY <1>1, <2>3, <2>4, <2>5, <2>6, <2>7 DEF Next
<1> QED
  BY <1>1, Invariance, PTL DEF Spec, QuietAfterStop

-------------------------------------------------------------------------------
\* At rest: what the template and the constraint controller leave behind

Removing  == {"remove", "deleteStatus"}
Updating  == {"status", "reportCRD", "report", "getCRD", "ingest", "writeCRD", "watch",
              "watchStatus", "succeed"}
Ingested  == {"writeCRD", "watch", "watchStatus", "succeed"}
Unwatched == {"unwatchStatus", "remove", "deleteStatus", "deleteStatuses"}
Deleting  == {"unwatch"} \cup Unwatched

OnT(k) == T.pc # "idle" /\ T.item = k
OnC(c) == C.pc # "idle" /\ C.item = c

\* Where the two workers are, and what no object has: a generation of 0.
PlaceInv ==
  /\ T.pc \in {"idle"} \cup Updating \cup Deleting
  /\ T.pc # "idle" => T.item \in Kinds
  /\ T.pc \in Updating => T.obj # None /\ T.obj.gen # 0 /\ T.obj.body \in Bodies
  /\ T.pc \in Deleting => T.obj = None
  /\ C.pc \in {"idle"} \cup AtWork \cup Removing
  /\ C.pc # "idle" => C.item \in Constraints
  /\ C.pc \in AtWork => C.obj # None /\ C.obj.gen # 0

GenInv ==
  /\ \A k \in Kinds : template[k] # None => template[k].gen # 0 /\ template[k].body \in Bodies
  /\ \A c \in Constraints : cstr[c] # None => cstr[c].gen # 0

MapsInv ==
  /\ crd  = [k \in Kinds |-> crd[k]]
  /\ opaT = [k \in Kinds |-> opaT[k]]
  /\ opaC = [c \in Constraints |-> opaC[c]]
  /\ keys = [c \in Constraints |-> keys[c]]
  /\ want = [r \in Registrars |-> want[r]]
  /\ live = [r \in Registrars |-> live[r]]

\* OPA has the template of every kind that is to be watched, and of every
\* constraint it has; no kind is watched that is not to be.
OpaInv ==
  /\ \A k \in Kinds : opaT[k] = 0 => \A r \in Registrars : k \notin want[r]
  /\ \A r \in Registrars : \A k \in Kinds : k \in live[r] => k \in want[r]
  /\ \A c \in Constraints : opaC[c] # 0 => opaT[KindOf[c]] # 0

\* What the two workers have done so far.
StageInv ==
  /\ T.pc = "reportCRD" => T.obj.body = "noCRD"
  /\ T.pc \in {"getCRD", "ingest"} => T.obj.body # "noCRD"
  /\ T.pc \in Ingested => T.obj.body = "good" /\ opaT[T.item] = T.obj.gen
  /\ T.pc \in {"watchStatus", "succeed"} => T.item \in live["w"]
  /\ T.pc = "succeed" => T.item \in live["statusW"]
  /\ T.pc \in Unwatched => T.item \notin want["w"]
  /\ T.pc \in Unwatched \ {"unwatchStatus"} => T.item \notin want["statusW"]
  /\ T.pc \in {"deleteStatus", "deleteStatuses"} => opaT[T.item] = 0
  /\ T.pc = "deleteStatuses" => tStatus[T.item] = None
  /\ C.pc = "deleteStatus" => opaC[C.item] = 0 /\ keys[C.item] = ""

\* What has to hold of a template that is neither queued nor worked on.
TemplateDone(k) ==
  /\ template[k] = None => opaT[k] = 0 /\ tStatus[k] = None
  /\ template[k] # None =>
       /\ tStatus[k] = TemplateVerdict(k)
       /\ template[k].body = "good" =>
            /\ opaT[k] = template[k].gen
            /\ crd[k] = [gen |-> template[k].gen, owner |-> template[k].uid]
            /\ \A r \in Registrars : k \in live[r]

\* A template that is not queued is done, or the worker has it as it is.
TemplateSettled(k) ==
  k \notin queue["template"] =>
    /\ ~OnT(k) => TemplateDone(k)
    /\ OnT(k) =>
         /\ T.obj = template[k]
         /\ T.pc \in {"ingest", "writeCRD"} => T.read = crd[k]
         /\ T.pc \in {"watch", "watchStatus", "succeed"} =>
              crd[k] = [gen |-> T.obj.gen, owner |-> T.obj.uid]

\* Why something may be left of the constraints of a kind: its template is being
\* deleted, or they may have changed unnoticed.
Excused(k) ==
  \/ OnT(k) /\ T.pc \in Deleting
  \/ k \in unnoticed /\ (template[k] # None \/ k \in queue["template"])

Watched(c) == cstr[c] # None /\ KindOf[c] \in live["w"]

\* A constraint that is not queued and not worked on is enforced as it stands or
\* gone, or there is an excuse, and then what is in the cache has a status.
ConstraintDone(c) ==
  /\ keys[c] # "" => cStatus[c] # None
  /\ Watched(c) => Enforced(c)
  /\ ~Watched(c) => Gone(c) \/ Excused(KindOf[c])

\* A worker that has it removes what is not watched, or has it as it is, or will
\* find the status deleted and try again.
ConstraintInHand(c) ==
  /\ C.pc \in Removing => ~Watched(c)
  /\ C.pc \in AtWork =>
       /\ Watched(c) => C.obj = cstr[c] /\ (C.pc = "enforce" => opaC[c] = C.obj.gen)
       /\ ~Watched(c) => cStatus[c] = None \/ Excused(KindOf[c])

\* The end of a deletion meets every status but those of removals under way.
StatusListed(c) ==
  OnT(KindOf[c]) /\ T.pc = "deleteStatuses" /\ cStatus[c] # None =>
    c \in T.todo \/ (OnC(c) /\ C.pc \in Removing)

ConstraintSettled(c) ==
  c \notin queue["constraint"] =>
    /\ ~OnC(c) => ConstraintDone(c)
    /\ OnC(c) => ConstraintInHand(c)
    /\ StatusListed(c)

SettledInv ==
  switch # "stopped" => /\ \A k \in Kinds : TemplateSettled(k)
                        /\ \A c \in Constraints : ConstraintSettled(c)

RestInv == PlaceInv /\ GenInv /\ MapsInv /\ OpaInv /\ StageInv /\ SettledInv

-------------------------------------------------------------------------------
\* Frames

\* The two controllers get their events whatever operations the pod has.
LEMMA EventsArrive ==
  ASSUME NEW events, Enqueue(events)
  PROVE  /\ queue["template"] \subseteq queue'["template"]
         /\ queue["constraint"] \subseteq queue'["constraint"]
         /\ \A x : <<"template", x>> \in events => x \in queue'["template"]
         /\ \A x : <<"constraint", x>> \in events => x \in queue'["constraint"]
<1>1. \A n \in Controllers :
        queue'[n] = queue[n] \cup {e[2] : e \in {x \in events : x[1] = n /\ n \in Added}}
  BY DEF Enqueue
<1>2. "template" \in Added /\ "constraint" \in Added
  BY Names DEF Added
<1>3. ASSUME NEW n \in {"template", "constraint"}, NEW x, <<n, x>> \in events
      PROVE  x \in queue'[n]
  <2>1. <<n, x>> \in {y \in events : y[1] = n /\ n \in Added} /\ <<n, x>>[2] = x
    BY <1>2, <1>3
  <2> QED
    BY <1>1, <1>3, <2>1, Names
<1> QED
  BY <1>1, <1>3, Names

LEMMA RetryArrives ==
  ASSUME NEW n \in {"template", "constraint"}, Again(n)
  PROVE  /\ queue["template"] \subseteq queue'["template"]
         /\ queue["constraint"] \subseteq queue'["constraint"]
         /\ worker[n].item \in queue'[n]
<1>1. PICK x, events : /\ x = worker[n].item /\ <<n, x>> \in events
                       /\ Enqueue(events)
  BY DEF Again
<1>2. /\ queue["template"] \subseteq queue'["template"]
      /\ queue["constraint"] \subseteq queue'["constraint"]
      /\ \A y : <<"template", y>> \in events => y \in queue'["template"]
      /\ \A y : <<"constraint", y>> \in events => y \in queue'["constraint"]
  BY <1>1, EventsArrive
<1>3. x \in queue'[n]
  BY <1>1, <1>2
<1> QED
  BY <1>1, <1>2, <1>3

\* A template that the step neither takes up nor leaves.
LEMMA TemplateStays ==
  ASSUME NEW k \in Kinds, TemplateSettled(k),
         T' = T \/ (~OnT(k) /\ ~OnT(k)'),
         k \in queue["template"] => k \in queue'["template"],
         \/ k \in queue'["template"]
         \/ /\ template'[k] = template[k] /\ crd'[k] = crd[k]
            /\ opaT'[k] = opaT[k] /\ tStatus'[k] = tStatus[k]
            /\ \A r \in Registrars : k \in live[r] => k \in live'[r]
  PROVE  TemplateSettled(k)'
<1> SUFFICES ASSUME k \notin queue'["template"]
             PROVE  TemplateSettled(k)'
  BY DEF TemplateSettled
<1>1. /\ template'[k] = template[k] /\ crd'[k] = crd[k]
      /\ opaT'[k] = opaT[k] /\ tStatus'[k] = tStatus[k]
      /\ \A r \in Registrars : k \in live[r] => k \in live'[r]
      /\ k \notin queue["template"]
  OBVIOUS
<1>2. TemplateDone(k) => TemplateDone(k)'
  BY <1>1 DEF TemplateDone, TemplateVerdict
<1>3. CASE T' = T
  <2>1. OnT(k)' <=> OnT(k)
    BY <1>3 DEF OnT
  <2> QED
    BY <1>1, <1>2, <1>3, <2>1 DEF TemplateSettled
<1>4. CASE ~OnT(k) /\ ~OnT(k)'
  BY <1>1, <1>2, <1>4 DEF TemplateSettled
<1> QED
  BY <1>3, <1>4

\* A constraint that the step neither takes up nor leaves.
LEMMA ConstraintStays ==
  ASSUME NEW c \in Constraints, ConstraintSettled(c),
         C' = C \/ (~OnC(c) /\ ~OnC(c)'),
         c \in queue["constraint"] => c \in queue'["constraint"],
         \/ c \in queue'["constraint"]
         \/ /\ keys'[c] = keys[c] /\ cStatus'[c] = cStatus[c]
            /\ Watched(c)' => Watched(c) /\ cstr'[c] = cstr[c] /\ opaC'[c] = opaC[c]
            /\ ~Watched(c)' => /\ opaC'[c] = opaC[c] \/ opaC'[c] = 0
                               /\ Watched(c) => Excused(KindOf[c])'
                               /\ Excused(KindOf[c]) => Excused(KindOf[c])'
            /\ OnT(KindOf[c])' /\ T'.pc = "deleteStatuses" /\ cStatus[c] # None =>
                 \/ c \in T'.todo
                 \/ OnT(KindOf[c]) /\ T.pc = "deleteStatuses" /\ c \notin T.todo
  PROVE  ConstraintSettled(c)'
<1> SUFFICES ASSUME c \notin queue'["constraint"]
             PROVE  ConstraintSettled(c)'
  BY DEF ConstraintSettled
<1> DEFINE k == KindOf[c]
<1>1. /\ keys'[c] = keys[c] /\ cStatus'[c] = cStatus[c] /\ c \notin queue["constraint"]
      /\ Watched(c)' => Watched(c) /\ cstr'[c] = cstr[c] /\ opaC'[c] = opaC[c]
      /\ ~Watched(c)' => opaC'[c] = opaC[c] \/ opaC'[c] = 0
      /\ ~Watched(c)' /\ Watched(c) => Excused(k)'
      /\ ~Watched(c)' /\ Excused(k) => Excused(k)'
  OBVIOUS
<1>2. OnT(k)' /\ T'.pc = "deleteStatuses" /\ cStatus[c] # None =>
        \/ c \in T'.todo
        \/ OnT(k) /\ T.pc = "deleteStatuses" /\ c \notin T.todo
  OBVIOUS
<1>3. (~OnC(c) => ConstraintDone(c)) /\ (OnC(c) => ConstraintInHand(c)) /\ StatusListed(c)
  BY <1>1 DEF ConstraintSettled
<1>4. (OnC(c)' <=> OnC(c)) /\ (OnC(c) => C' = C)
  BY DEF OnC
<1>5. ASSUME ConstraintDone(c) PROVE ConstraintDone(c)'
  <2>1. Watched(c)' => Enforced(c)'
    BY <1>1, <1>5 DEF ConstraintDone, Enforced, ConstraintVerdict
  <2>2. ~Watched(c)' => Gone(c)' \/ Excused(k)'
    BY <1>1, <1>5 DEF ConstraintDone, Gone
  <2> QED
    BY <1>1, <1>5, <2>1, <2>2 DEF ConstraintDone
<1>6. ASSUME ConstraintInHand(c), C' = C PROVE ConstraintInHand(c)'
  <2>1. C.pc \in Removing => ~Watched(c)'
    BY <1>1, <1>6 DEF ConstraintInHand
  <2>2. C.pc \in AtWork /\ Watched(c)' =>
          C.obj = cstr'[c] /\ (C.pc = "enforce" => opaC'[c] = C.obj.gen)
    BY <1>1, <1>6 DEF ConstraintInHand
  <2>3. C.pc \in AtWork /\ ~Watched(c)' => cStatus'[c] = None \/ Excused(k)'
    BY <1>1, <1>6 DEF ConstraintInHand
  <2> QED
    BY <1>6, <2>1, <2>2, <2>3 DEF ConstraintInHand
<1>7. StatusListed(c)'
  BY <1>1, <1>2, <1>3, <1>4 DEF StatusListed
<1> QED
  BY <1>3, <1>4, <1>5, <1>6, <1>7 DEF ConstraintSettled

\* A step of the cluster, of the switch or of a status controller.
LEMMA ElsewhereStep ==
  ASSUME RestInv, GenInv', crd' = [k \in Kinds |-> crd'[k]],
         worker'["template"] = worker["template"], worker'["constraint"] = worker["constraint"],
         UNCHANGED <<statuses, opa, watches, keys, unnoticed>>,
         switch' # "stopped" => switch # "stopped",
         queue["template"] \subseteq queue'["template"],
         queue["constraint"] \subseteq queue'["constraint"],
         \A k \in Kinds : \/ k \in queue'["template"]
                          \/ template'[k] = template[k] /\ crd'[k] = crd[k],
         \A c \in Constraints : \/ c \in queue'["constraint"]
                                \/ cstr'[c] = cstr[c]
                                \/ \A r \in Registrars : KindOf[c] \notin live[r]
  PROVE  RestInv'
<1>1. T' = T /\ C' = C
  BY DEF T, C
<1>2. UNCHANGED <<tStatus, cStatus, opaT, opaC, want, live, keys, unnoticed>>
  BY DEF statuses, opa, watches
<1>3. PlaceInv' /\ MapsInv' /\ OpaInv' /\ StageInv'
  <2>1. PlaceInv'
    BY <1>1 DEF RestInv, PlaceInv
  <2>2. MapsInv'
    BY <1>2 DEF RestInv, MapsInv
  <2>3. OpaInv'
    BY <1>2 DEF RestInv, OpaInv
  <2>4. StageInv'
    BY <1>1, <1>2 DEF RestInv, StageInv
  <2> QED
    BY <2>1, <2>2, <2>3, <2>4
<1>4. \A k : OnT(k)' <=> OnT(k)
  BY <1>1 DEF OnT
<1>5. \A k \in Kinds : Excused(k) => Excused(k)'
  BY <1>1, <1>2, <1>4 DEF Excused
<1>6. ASSUME NEW k \in Kinds, TemplateSettled(k) PROVE TemplateSettled(k)'
  BY <1>1, <1>2, <1>6, TemplateStays
<1>7. ASSUME NEW c \in Constraints, ConstraintSettled(c) PROVE ConstraintSettled(c)'
  <2>1. KindOf[c] \in Kinds
    BY TemplateAssumption
  <2>2. CASE c \in queue'["constraint"]
    BY <2>2 DEF ConstraintSettled
  <2>3. CASE cstr'[c] = cstr[c]
    <3>1. Watched(c)' <=> Watched(c)
      BY <1>2, <2>3 DEF Watched
    <3> QED
      BY <1>1, <1>2, <1>4, <1>5, <1>7, <2>1, <2>3, <3>1, ConstraintStays
  <2>4. CASE KindOf[c] \notin live["w"]
    <3>1. ~Watched(c) /\ ~Watched(c)'
      BY <1>2, <2>4 DEF Watched
    <3> QED
      BY <1>1, <1>2, <1>4, <1>5, <1>7, <2>1, <3>1, ConstraintStays
  <2> QED
    BY <2>2, <2>3, <2>4 DEF Registrars
<1>8. SettledInv'
  BY <1>6, <1>7 DEF RestInv, SettledInv
<1> QED
  BY <1>3, <1>8 DEF RestInv

\* A constraint whose kind a registrar watches has an event.
LEMMA ConstraintEventArrives ==
  ASSUME NEW cs, NEW more, Enqueue(more \cup ConstraintEvents(cs)), NEW c \in cs
  PROVE  c \in queue'["constraint"] \/ \A r \in Registrars : KindOf[c] \notin live[r]
<1>1. SUFFICES ASSUME NEW r \in Registrars, KindOf[c] \in live[r]
               PROVE  c \in queue'["constraint"]
  OBVIOUS
<1>2. <<"constraint", c>> \in ConstraintEvents(cs)
  BY <1>1 DEF ConstraintEvents
<1>3. <<"constraint", c>> \in more \cup ConstraintEvents(cs)
  BY <1>2
<1> QED
  BY <1>3, EventsArrive

LEMMA UserRest ==
  ASSUME IInv, RestInv, UserStep \/ Collect
  PROVE  RestInv'
<1>0. /\ BooksInv /\ ObjectsInv /\ GenInv /\ MapsInv
      /\ "template" \in Controllers /\ "constraint" \in Controllers
  BY Names DEF IInv, RestInv
<1>1. ASSUME NEW k \in Kinds, NEW t, template' = [template EXCEPT ![k] = t],
             t # None => t.gen # 0 /\ t.body \in Bodies, Enqueue(TemplateEvent(k)),
             UNCHANGED <<crd, cstr, statuses, opa, watches, keys, worker, switch, lapses>>
      PROVE  RestInv'
  <2>1. GenInv' /\ \A j \in Kinds \ {k} : template'[j] = template[j]
    BY <1>0, <1>1 DEF GenInv, ObjectsInv
  <2>2. /\ queue["template"] \subseteq queue'["template"]
        /\ queue["constraint"] \subseteq queue'["constraint"]
        /\ k \in queue'["template"]
    <3>1. <<"template", k>> \in TemplateEvent(k)
      BY DEF TemplateEvent
    <3> QED
      BY <1>1, <3>1, EventsArrive
  <2>3. crd' = [j \in Kinds |-> crd'[j]]
    BY <1>0, <1>1 DEF MapsInv
  <2> QED
    BY <1>1, <2>1, <2>2, <2>3, ElsewhereStep
<1>2. ASSUME NEW k \in Kinds, NEW b \in Bodies, TemplateChange(k, b) PROVE RestInv'
  <2> DEFINE n == budget.templates
  <2> DEFINE t == IF template[k] = None THEN [uid |-> n, gen |-> n, body |-> b, byPod |-> None]
                  ELSE [template[k] EXCEPT !.gen = n, !.body = b]
  <2>1. n # 0
    BY <1>0, <1>2 DEF TemplateChange, May, BooksInv, Budgets
  <2>2. t.gen # 0 /\ t.body \in Bodies
    <3>1. CASE template[k] = None
      BY <2>1, <3>1
    <3>2. CASE template[k] # None
      <4>1. template[k] = [uid |-> template[k].uid, gen |-> template[k].gen,
                           body |-> template[k].body, byPod |-> template[k].byPod]
        BY <3>2, <1>0 DEF ObjectsInv, IsTemplate
      <4>2. t = [template[k] EXCEPT !.gen = n, !.body = b]
        BY <3>2
      <4>3. t.gen = n /\ t.body = b
        BY <4>1, <4>2
      <4> QED
        BY <2>1, <4>3
    <3> QED
      BY <3>1, <3>2
  <2>3. template' = [template EXCEPT ![k] = t]
    BY <1>2 DEF TemplateChange
  <2> HIDE DEF t
  <2> QED
    BY <1>1, <1>2, <2>2, <2>3 DEF TemplateChange
<1>3. ASSUME NEW k \in Kinds, TemplateDelete(k) PROVE RestInv'
  BY <1>1, <1>3 DEF TemplateDelete
<1>4. ASSUME NEW c \in Constraints, NEW o, cstr' = [cstr EXCEPT ![c] = o],
             o # None => o.gen # 0, Enqueue(ConstraintEvents({c})),
             UNCHANGED <<template, crd, statuses, opa, watches, keys, worker, switch, lapses>>
      PROVE  RestInv'
  <2>1. GenInv' /\ \A d \in Constraints \ {c} : cstr'[d] = cstr[d]
    BY <1>0, <1>4 DEF GenInv, ObjectsInv
  <2>2. /\ queue["template"] \subseteq queue'["template"]
        /\ queue["constraint"] \subseteq queue'["constraint"]
    BY <1>4, EventsArrive
  <2>3. Enqueue({} \cup ConstraintEvents({c}))
    BY <1>4
  <2>4. c \in queue'["constraint"] \/ \A r \in Registrars : KindOf[c] \notin live[r]
    BY <2>3, ConstraintEventArrives
  <2>5. crd' = [j \in Kinds |-> crd'[j]]
    BY <1>0, <1>4 DEF MapsInv
  <2> QED
    BY <1>4, <2>1, <2>2, <2>4, <2>5, ElsewhereStep
<1>5. ASSUME NEW c \in Constraints, ConstraintChange(c) PROVE RestInv'
  <2> DEFINE n == budget.constraints
  <2> DEFINE o == IF cstr[c] = None THEN [uid |-> n, gen |-> n, byPod |-> None]
                  ELSE [cstr[c] EXCEPT !.gen = n]
  <2>1. n # 0
    BY <1>0, <1>5 DEF ConstraintChange, May, BooksInv, Budgets
  <2>2. o.gen # 0
    <3>1. CASE cstr[c] = None
      BY <2>1, <3>1
    <3>2. CASE cstr[c] # None
      <4>1. cstr[c] = [uid |-> cstr[c].uid, gen |-> cstr[c].gen, byPod |-> cstr[c].byPod]
        BY <3>2, <1>0 DEF ObjectsInv, IsConstraint
      <4>2. o = [uid |-> cstr[c].uid, gen |-> n, byPod |-> cstr[c].byPod]
        BY <4>1, <3>2
      <4> QED
        BY <2>1, <4>2
    <3> QED
      BY <3>1, <3>2
  <2>3. cstr' = [cstr EXCEPT ![c] = o]
    BY <1>5 DEF ConstraintChange
  <2> HIDE DEF o
  <2> QED
    BY <1>4, <1>5, <2>2, <2>3 DEF ConstraintChange
<1>6. ASSUME NEW c \in Constraints, ConstraintDelete(c) PROVE RestInv'
  BY <1>4, <1>6 DEF ConstraintDelete
<1>7. ASSUME NEW k \in Kinds, DropCRD(k) PROVE RestInv'
  <2>1. /\ crd' = [crd EXCEPT ![k] = None]
        /\ cstr' = [c \in Constraints |-> IF KindOf[c] = k THEN None ELSE cstr[c]]
        /\ Enqueue({<<"template", k>>} \cup ConstraintEvents(Existing(k)))
        /\ UNCHANGED <<template, statuses, opa, watches, keys, worker, switch, lapses>>
    BY <1>7 DEF DropCRD
  <2>2. GenInv' /\ crd' = [j \in Kinds |-> crd'[j]] /\ \A j \in Kinds \ {k} : crd'[j] = crd[j]
    BY <1>0, <2>1 DEF GenInv, MapsInv
  <2>3. <<"template", k>> \in {<<"template", k>>} \cup ConstraintEvents(Existing(k))
    OBVIOUS
  <2>4. /\ queue["template"] \subseteq queue'["template"]
        /\ queue["constraint"] \subseteq queue'["constraint"] /\ k \in queue'["template"]
    BY <2>1, <2>3, EventsArrive
  <2>5. ASSUME NEW c \in Constraints
        PROVE  \/ c \in queue'["constraint"] \/ cstr'[c] = cstr[c]
               \/ \A r \in Registrars : KindOf[c] \notin live[r]
    <3>1. CASE c \in Existing(k)
      BY <2>1, <3>1, ConstraintEventArrives
    <3>2. CASE c \notin Existing(k)
      BY <2>1, <3>2 DEF Existing, OfKind
    <3> QED
      BY <3>1, <3>2
  <2> QED
    BY <2>1, <2>2, <2>4, <2>5, ElsewhereStep
<1>8. ASSUME StopCall PROVE RestInv'
  <2>1. /\ UNCHANGED <<cluster, statuses, opa, watches, keys, queue, worker, lapses>>
        /\ switch = "running" /\ switch' = "stopping"
    BY <1>8 DEF StopCall
  <2>2. GenInv' /\ crd' = [j \in Kinds |-> crd'[j]]
    BY <1>0, <2>1 DEF GenInv, MapsInv, cluster
  <2> QED
    BY <2>1, <2>2, ElsewhereStep DEF cluster
<1> QED
  BY <1>2, <1>3, <1>5, <1>6, <1>7, <1>8 DEF UserStep, Collect, CRDDelete, GarbageCollect

\* A step of a status controller that writes nothing.
LEMMA StatusStepRest ==
  ASSUME IInv, RestInv, NEW n \in {"constraintStatus", "templateStatus"},
         \A m \in Controllers \ {n} : worker'[m] = worker[m],
         UNCHANGED <<cluster, statuses, opa, watches, keys, switch, unnoticed>>,
         \A m \in Controllers \ {n} : queue[m] \subseteq queue'[m]
  PROVE  RestInv'
<1>1. /\ worker'["template"] = worker["template"] /\ worker'["constraint"] = worker["constraint"]
      /\ queue["template"] \subseteq queue'["template"]
      /\ queue["constraint"] \subseteq queue'["constraint"]
  BY Names
<1>2. GenInv' /\ crd' = [k \in Kinds |-> crd'[k]] /\ UNCHANGED <<template, crd, cstr>>
  BY DEF RestInv, GenInv, MapsInv, cluster
<1> QED
  BY <1>1, <1>2, ElsewhereStep

LEMMA StatusRest ==
  ASSUME IInv, RestInv, ConstraintStatusStep \/ TemplateStatusStep \/ StatusCallFails
  PROVE  RestInv'
<1>0. /\ WorkersInv /\ BooksInv /\ ObjectsInv /\ PcInv /\ GenInv /\ MapsInv
      /\ "constraintStatus" \in Controllers /\ "templateStatus" \in Controllers
  BY Names DEF IInv, RestInv
<1>1. ASSUME NEW n \in {"constraintStatus", "templateStatus"}, NEW x, NEW w, IsWork(w),
             Enter(n, x, w),
             UNCHANGED <<cluster, statuses, opa, watches, keys, switch, unnoticed>>
      PROVE  RestInv'
  <2>1. /\ \A m \in Controllers \ {n} : queue'[m] = queue[m]
        /\ \A m \in Controllers \ {n} : worker'[m] = worker[m]
    BY <1>0, <1>1, EnterIs
  <2> QED
    BY <1>1, <2>1, StatusStepRest
<1>2. IsWork(Idle)
  BY DEF Idle, Work, IsWork
<1>3. ASSUME NEW c \in Constraints, ConstraintStatusRead(c) PROVE RestInv'
  <2>1. PICK w : /\ Enter("constraintStatus", c, w)
                 /\ w = Work(c, cstr[c], "list") \/ w = Idle
    BY <1>3 DEF ConstraintStatusRead
  <2>2. IsWork(w)
    BY <1>2, <2>1, WorkIs
  <2> QED
    BY <1>1, <1>3, <2>1, <2>2 DEF ConstraintStatusRead
<1>4. ASSUME NEW k \in Kinds, TemplateStatusRead(k) PROVE RestInv'
  <2>1. PICK w : /\ Enter("templateStatus", k, w)
                 /\ w = Work(k, template[k], "list") \/ w = Idle
    BY <1>4 DEF TemplateStatusRead
  <2>2. IsWork(w)
    BY <1>2, <2>1, WorkIs
  <2> QED
    BY <1>1, <1>4, <2>1, <2>2 DEF TemplateStatusRead
<1>5. ASSUME NEW n \in {"constraintStatus", "templateStatus"}, NEW read,
             worker' = [worker EXCEPT ![n].pc = "update", ![n].read = read],
             UNCHANGED <<cluster, statuses, opa, watches, keys, queue, switch, unnoticed>>
      PROVE  RestInv'
  <2>1. \A m \in Controllers \ {n} : worker'[m] = worker[m]
    BY <1>0, <1>5, WorkerPcRead
  <2> QED
    BY <1>5, <2>1, StatusStepRest
<1>6. ASSUME ConstraintStatusList PROVE RestInv'
  <2>1. PICK read : read = ByPod(cStatus[S.item], S.obj)
    OBVIOUS
  <2> QED
    BY <1>5, <1>6, <2>1 DEF ConstraintStatusList
<1>7. ASSUME TemplateStatusList PROVE RestInv'
  <2>1. PICK read : read = ByPod(tStatus[U.item], U.obj)
    OBVIOUS
  <2> QED
    BY <1>5, <1>7, <2>1 DEF TemplateStatusList
<1>8. ASSUME NEW n \in {"constraintStatus", "templateStatus"}, Again(n),
             UNCHANGED <<cluster, statuses, opa, watches, keys, switch, unnoticed>>
      PROVE  RestInv'
  <2>1. /\ \A m \in Controllers \ {n} : worker'[m] = worker[m]
        /\ \A m \in Controllers : queue[m] \subseteq queue'[m]
    BY <1>0, <1>8, AgainIs DEF Queued
  <2> QED
    BY <1>8, <2>1, StatusStepRest
<1>9. ASSUME StatusCallFails PROVE RestInv'
  <2>1. PICK n \in {"constraintStatus", "templateStatus"} : CallFails(n, {"list", "update"})
    BY <1>9 DEF StatusCallFails
  <2>2. /\ Again(n) /\ n # "template"
        /\ UNCHANGED <<cluster, statuses, opa, watches, keys, switch, unnoticed>>
    BY <2>1 DEF CallFails
  <2> QED
    BY <1>8, <2>2
<1>10. ASSUME ConstraintStatusUpdate PROVE RestInv'
  <2>1. PICK c, s : c = S.item /\ s = S.read
    OBVIOUS
  <2>2. CASE Again("constraintStatus") /\ UNCHANGED cstr
    BY <1>8, <1>10, <2>2 DEF ConstraintStatusUpdate, cluster
  <2>3. CASE /\ cstr[c] = S.obj /\ cstr' = [cstr EXCEPT ![c].byPod = s]
             /\ Enqueue(IF s # S.obj.byPod THEN ConstraintEvents({c}) ELSE {})
             /\ Done("constraintStatus")
    <3>1. \A m \in Controllers \ {"constraintStatus"} : worker'[m] = worker[m]
      BY <1>0, <2>3, WorkerDone
    <3>2. /\ UNCHANGED <<template, crd, statuses, opa, watches, keys, switch, unnoticed>>
          /\ S.obj # None
      BY <1>0, <1>10 DEF ConstraintStatusUpdate, PcInv
    <3>3. \A d \in Constraints \ {c} : cstr'[d] = cstr[d]
      BY <1>0, <2>3 DEF ObjectsInv
    <3>4. ASSUME c \in Constraints
          PROVE  /\ cstr[c] = [uid |-> S.obj.uid, gen |-> S.obj.gen, byPod |-> S.obj.byPod]
                 /\ cstr'[c] = [uid |-> S.obj.uid, gen |-> S.obj.gen, byPod |-> s]
      <4>1. cstr[c] = [uid |-> S.obj.uid, gen |-> S.obj.gen, byPod |-> S.obj.byPod]
        BY <1>0, <2>3, <3>2, <3>4 DEF ObjectsInv, IsConstraint
      <4>2. cstr'[c] = [cstr[c] EXCEPT !.byPod = s]
        BY <1>0, <2>3, <3>4 DEF ObjectsInv
      <4> QED
        BY <4>1, <4>2
    <3>5. c \in Constraints => S.obj.gen # 0
      BY <1>0, <2>3, <3>2 DEF GenInv
    <3>6. GenInv'
      <4>1. ASSUME NEW d \in Constraints, cstr'[d] # None PROVE cstr'[d].gen # 0
        BY <1>0, <3>3, <3>4, <3>5, <4>1 DEF GenInv
      <4> QED
        BY <1>0, <3>2, <4>1 DEF GenInv
    <3>7. /\ queue["template"] \subseteq queue'["template"]
          /\ queue["constraint"] \subseteq queue'["constraint"]
      BY <2>3, EventsArrive
    <3>8. CASE s = S.obj.byPod
      <4>1. \A d \in Constraints : cstr'[d] = cstr[d]
        BY <3>3, <3>4, <3>8
      <4>2. crd' = [k \in Kinds |-> crd'[k]]
        BY <1>0, <3>2 DEF MapsInv
      <4> QED
        BY <3>1, <3>2, <3>6, <3>7, <4>1, <4>2, Names, ElsewhereStep
    <3>9. CASE s # S.obj.byPod
      <4>1. Enqueue({} \cup ConstraintEvents({c}))
        BY <2>3, <3>9
      <4>2. c \in queue'["constraint"] \/ \A r \in Registrars : KindOf[c] \notin live[r]
        BY <4>1, ConstraintEventArrives
      <4>3. crd' = [k \in Kinds |-> crd'[k]]
        BY <1>0, <3>2 DEF MapsInv
      <4> QED
        BY <3>1, <3>2, <3>3, <3>6, <3>7, <4>2, <4>3, Names, ElsewhereStep
    <3> QED
      BY <3>8, <3>9
  <2> QED
    BY <1>10, <2>1, <2>2, <2>3 DEF ConstraintStatusUpdate
<1>11. ASSUME TemplateStatusUpdate PROVE RestInv'
  <2>1. PICK k, s : k = U.item /\ s = U.read
    OBVIOUS
  <2>2. CASE Again("templateStatus") /\ UNCHANGED template
    BY <1>8, <1>11, <2>2 DEF TemplateStatusUpdate, cluster
  <2>3. CASE /\ template[k] = U.obj /\ template' = [template EXCEPT ![k].byPod = s]
             /\ Enqueue(IF s # U.obj.byPod THEN TemplateEvent(k) ELSE {})
             /\ Done("templateStatus")
    <3>1. \A m \in Controllers \ {"templateStatus"} : worker'[m] = worker[m]
      BY <1>0, <2>3, WorkerDone
    <3>2. /\ UNCHANGED <<crd, cstr, statuses, opa, watches, keys, switch, unnoticed>>
          /\ U.obj # None
      BY <1>0, <1>11 DEF TemplateStatusUpdate, PcInv
    <3>3. \A j \in Kinds \ {k} : template'[j] = template[j]
      BY <1>0, <2>3 DEF ObjectsInv
    <3>4. ASSUME k \in Kinds
          PROVE  /\ template[k] = [uid |-> U.obj.uid, gen |-> U.obj.gen, body |-> U.obj.body,
                                   byPod |-> U.obj.byPod]
                 /\ template'[k] = [uid |-> U.obj.uid, gen |-> U.obj.gen, body |-> U.obj.body,
                                    byPod |-> s]
      <4>1. template[k] = [uid |-> U.obj.uid, gen |-> U.obj.gen, body |-> U.obj.body,
                           byPod |-> U.obj.byPod]
        BY <1>0, <2>3, <3>2, <3>4 DEF ObjectsInv, IsTemplate
      <4>2. template'[k] = [template[k] EXCEPT !.byPod = s]
        BY <1>0, <2>3, <3>4 DEF ObjectsInv
      <4> QED
        BY <4>1, <4>2
    <3>5. k \in Kinds => U.obj.gen # 0 /\ U.obj.body \in Bodies
      BY <1>0, <2>3, <3>2 DEF GenInv
    <3>6. GenInv'
      <4>1. ASSUME NEW j \in Kinds, template'[j] # None
            PROVE  template'[j].gen # 0 /\ template'[j].body \in Bodies
        BY <1>0, <3>3, <3>4, <3>5, <4>1 DEF GenInv
      <4> QED
        BY <1>0, <3>2, <4>1 DEF GenInv
    <3>7. /\ queue["template"] \subseteq queue'["template"]
          /\ queue["constraint"] \subseteq queue'["constraint"]
          /\ s # U.obj.byPod => k \in queue'["template"]
      <4>1. s # U.obj.byPod =>
              <<"template", k>> \in (IF s # U.obj.byPod THEN TemplateEvent(k) ELSE {})
        BY DEF TemplateEvent
      <4> QED
        BY <2>3, <4>1, EventsArrive
    <3>8. s = U.obj.byPod => \A j \in Kinds : template'[j] = template[j]
      BY <3>3, <3>4
    <3>9. crd' = [j \in Kinds |-> crd'[j]]
      BY <1>0, <3>2 DEF MapsInv
    <3> QED
      BY <3>1, <3>2, <3>3, <3>6, <3>7, <3>8, <3>9, Names, ElsewhereStep
  <2> QED
    BY <1>11, <2>1, <2>2, <2>3 DEF TemplateStatusUpdate
<1> QED
  BY <1>3, <1>4, <1>6, <1>7, <1>9, <1>10, <1>11 DEF ConstraintStatusStep, TemplateStatusStep

-------------------------------------------------------------------------------
\* The steps of the constraint controller

\* An excuse outlives what does not touch the templates.
LEMMA ExcuseStays ==
  ASSUME UNCHANGED template, T' = T, unnoticed \subseteq unnoticed',
         queue["template"] \subseteq queue'["template"], NEW k, Excused(k)
  PROVE  Excused(k)'
BY DEF Excused, OnT

\* What its steps have in common: d is the constraint in hand.
LEMMA ConstraintStepRest ==
  ASSUME IInv, RestInv, NEW d \in Constraints,
         \A m \in Controllers \ {"constraint"} : worker'[m] = worker[m],
         UNCHANGED <<cluster, tStatus, opaT, watches, switch>>, unnoticed \subseteq unnoticed',
         queue["template"] \subseteq queue'["template"],
         opaC' = [c \in Constraints |-> opaC'[c]], keys' = [c \in Constraints |-> keys'[c]],
         \A c \in Constraints \ {d} :
           /\ opaC'[c] = opaC[c] /\ keys'[c] = keys[c] /\ cStatus'[c] = cStatus[c]
           /\ c \in queue["constraint"] => c \in queue'["constraint"],
         C.pc # "idle" => C.item = d, C'.pc # "idle" => C'.item = d,
         C'.pc \in {"idle"} \cup AtWork \cup Removing,
         C'.pc \in AtWork => C'.obj # None /\ C'.obj.gen # 0,
         C'.pc = "deleteStatus" => opaC'[d] = 0 /\ keys'[d] = "",
         opaC'[d] # 0 => opaT[KindOf[d]] # 0,
         switch # "stopped" => ConstraintSettled(d)'
  PROVE  RestInv'
<1>1. T' = T /\ UNCHANGED <<template, crd, cstr, want, live>>
  BY Names DEF T, cluster, watches
<1>2. PlaceInv'
  BY <1>1 DEF RestInv, PlaceInv
<1>3. GenInv' /\ MapsInv'
  BY <1>1 DEF RestInv, GenInv, MapsInv
<1>4. OpaInv'
  BY <1>1 DEF RestInv, OpaInv
<1>5. StageInv'
  BY <1>1 DEF RestInv, StageInv
<1>6. ASSUME NEW k \in Kinds, TemplateSettled(k) PROVE TemplateSettled(k)'
  BY <1>1, <1>6, TemplateStays
<1>7. ASSUME NEW c \in Constraints \ {d}, ConstraintSettled(c) PROVE ConstraintSettled(c)'
  <2>1. ~OnC(c) /\ ~OnC(c)'
    BY <1>7 DEF OnC
  <2>2. (Watched(c)' <=> Watched(c)) /\ (OnT(KindOf[c])' <=> OnT(KindOf[c]))
    BY <1>1 DEF Watched, OnT
  <2>3. Excused(KindOf[c]) => Excused(KindOf[c])'
    BY <1>1, ExcuseStays
  <2> QED
    BY <1>1, <1>7, <2>1, <2>2, <2>3, ConstraintStays
<1>8. SettledInv'
  BY <1>6, <1>7 DEF RestInv, SettledInv
<1> QED
  BY <1>2, <1>3, <1>4, <1>5, <1>8 DEF RestInv

\* Who wants to watch a kind finds its template, or an event, or its deletion.
LEMMA WantedTemplate ==
  ASSUME RestInv, NEW k \in Kinds, TemplateSettled(k), k \in want["w"]
  PROVE  template[k] # None \/ k \in queue["template"] \/ (OnT(k) /\ T.pc \in Deleting)
<1>1. opaT[k] # 0
  BY DEF RestInv, OpaInv, Registrars
<1>2. CASE OnT(k)
  <2>1. T.pc \in Updating \cup Deleting /\ (T.pc \in Updating => T.obj # None)
    BY <1>2 DEF RestInv, PlaceInv, OnT
  <2> QED
    BY <1>2, <2>1 DEF TemplateSettled
<1>3. CASE ~OnT(k)
  BY <1>1, <1>3 DEF TemplateSettled, TemplateDone
<1> QED
  BY <1>2, <1>3

LEMMA ConstraintReadRest ==
  ASSUME IInv, RestInv, NEW c \in Constraints, ConstraintRead(c)
  PROVE  RestInv'
<1> DEFINE k == KindOf[c]
<1>0. /\ WorkersInv /\ BooksInv /\ "constraint" \in Controllers /\ "template" \in Controllers
      /\ k \in Kinds
  BY Names, TemplateAssumption DEF IInv
<1>1. PICK pc : /\ Enter("constraint", c, Work(c, cstr[c], pc))
                /\ pc = IF k \in want["w"] /\ cstr[c] # None THEN "status" ELSE "remove"
  BY DEF ConstraintRead
<1> DEFINE w == Work(c, cstr[c], pc)
<1>2. IsWork(w) /\ w.pc = pc /\ w.obj = cstr[c] /\ w.item = c
  BY WorkIs
<1> HIDE DEF w
<1>3. /\ queue'["constraint"] = queue["constraint"] \ {c}
      /\ \A m \in Controllers \ {"constraint"} : queue'[m] = queue[m]
      /\ \A m \in Controllers \ {"constraint"} : worker'[m] = worker[m]
      /\ C.pc = "idle"
      /\ switch = "running" => C' = w
      /\ switch # "running" => C' = C
      /\ switch # "running" => switch = "stopped"
  BY <1>0, <1>1, <1>2, EnterIs DEF w, C, IInv, StopInv
<1>4. /\ UNCHANGED <<cluster, statuses, opa, watches, keys, switch, budget, unseen>>
      /\ unnoticed' = IF cstr[c] # None /\ k \in want["w"] \ live["w"]
                      THEN unnoticed \cup {k} ELSE unnoticed
  BY DEF ConstraintRead
<1>5. /\ UNCHANGED <<template, crd, cstr, tStatus, cStatus, opaT, opaC, want, live, keys>>
      /\ unnoticed \subseteq unnoticed' /\ T' = T /\ queue'["template"] = queue["template"]
  BY <1>0, <1>3, <1>4 DEF cluster, statuses, opa, watches, T
<1>6. ASSUME switch # "stopped" PROVE ConstraintSettled(c)'
  <2>1. C' = w /\ OnC(c)'
    BY <1>1, <1>2, <1>3, <1>6 DEF OnC
  <2>2. (Watched(c)' <=> Watched(c)) /\ (Watched(c) => k \in want["w"])
    BY <1>0, <1>5 DEF Watched, RestInv, OpaInv, Registrars
  <2>3. C'.pc \in Removing => ~Watched(c)'
    BY <1>1, <1>2, <2>1, <2>2 DEF Removing, Watched
  <2>4. ASSUME C'.pc \in AtWork, ~Watched(c) PROVE Excused(k)'
    <3>1. k \in want["w"] /\ cstr[c] # None /\ k \notin live["w"]
      BY <1>1, <1>2, <2>1, <2>4 DEF AtWork, Watched
    <3>2. k \in unnoticed'
      BY <1>4, <3>1
    <3>3. TemplateSettled(k)
      BY <1>0, <1>6 DEF RestInv, SettledInv
    <3> QED
      BY <1>0, <1>5, <3>1, <3>2, <3>3, WantedTemplate DEF Excused, OnT
  <2>5. C'.pc # "enforce" /\ C'.obj = cstr'[c]
    BY <1>1, <1>2, <1>5, <2>1
  <2>6. ConstraintInHand(c)'
    BY <2>2, <2>3, <2>4, <2>5 DEF ConstraintInHand
  <2>7. StatusListed(c)'
    <3>1. SUFFICES ASSUME OnT(k), T.pc = "deleteStatuses"
                   PROVE  C'.pc \in Removing
      BY <1>5, <2>1 DEF StatusListed, OnT
    <3>2. k \notin want["w"]
      BY <3>1 DEF RestInv, StageInv, Unwatched, OnT
    <3> QED
      BY <1>1, <1>2, <2>1, <3>2 DEF Removing
  <2> QED
    BY <2>1, <2>6, <2>7 DEF ConstraintSettled
<1>7. /\ C'.pc # "idle" => C'.item = c
      /\ C'.pc \in {"idle"} \cup AtWork \cup Removing
      /\ C'.pc \in AtWork => C'.obj # None /\ C'.obj.gen # 0
      /\ C'.pc # "deleteStatus"
  BY <1>1, <1>2, <1>3 DEF AtWork, Removing, RestInv, GenInv
<1>8. /\ opaC' = [d \in Constraints |-> opaC'[d]] /\ keys' = [d \in Constraints |-> keys'[d]]
      /\ opaC'[c] # 0 => opaT[k] # 0
  BY <1>5 DEF RestInv, MapsInv, OpaInv
<1> QED
  BY <1>3, <1>4, <1>5, <1>6, <1>7, <1>8, ConstraintStepRest

\* A constraint whose worker ends with an error is queued again.
LEMMA ConstraintRetryRest ==
  ASSUME IInv, RestInv, C.pc # "idle", Done("constraint"),
         UNCHANGED <<cluster, tStatus, opa, watches, keys, switch>>,
         unnoticed \subseteq unnoticed',
         \A c \in Constraints \ {C.item} : cStatus'[c] = cStatus[c],
         queue["template"] \subseteq queue'["template"],
         queue["constraint"] \subseteq queue'["constraint"],
         C.item \in queue'["constraint"]
  PROVE  RestInv'
<1>1. /\ \A m \in Controllers \ {"constraint"} : worker'[m] = worker[m]
      /\ C'.pc = "idle"
  BY WorkerDone, Names DEF IInv, C
<1>2. PICK d \in Constraints : d = C.item
  BY DEF RestInv, PlaceInv
<1>3. /\ UNCHANGED <<opaT, opaC>>
      /\ opaC' = [c \in Constraints |-> opaC'[c]] /\ keys' = [c \in Constraints |-> keys'[c]]
      /\ opaC'[d] # 0 => opaT[KindOf[d]] # 0
  BY DEF RestInv, MapsInv, OpaInv, opa
<1>4. ConstraintSettled(d)'
  BY <1>2 DEF ConstraintSettled
<1>5. C'.pc \notin AtWork /\ C'.pc # "deleteStatus"
  BY <1>1 DEF AtWork
<1> QED
  BY <1>1, <1>2, <1>3, <1>4, <1>5, ConstraintStepRest

LEMMA ConstraintGetStatusRest ==
  ASSUME IInv, RestInv, ConstraintGetStatus
  PROVE  RestInv'
<1>1. PICK d \in Constraints : d = C.item
  BY DEF ConstraintGetStatus, RestInv, PlaceInv
<1> DEFINE k == KindOf[d]
<1> DEFINE new == cStatus[d] = None
<1>2. PICK read : worker' = [worker EXCEPT !["constraint"].pc = "add", !["constraint"].read = read]
  BY DEF ConstraintGetStatus
<1>3. /\ \A m \in Controllers \ {"constraint"} : worker'[m] = worker[m]
      /\ C'.pc = "add" /\ C'.item = d /\ C'.obj = C.obj
  BY <1>1, <1>2, WorkerPcRead, Names DEF IInv, C
<1>4. /\ C.pc = "status" /\ k \in Kinds
      /\ UNCHANGED <<cluster, tStatus, opa, watches, keys, switch, unseen, unnoticed>>
  BY TemplateAssumption DEF ConstraintGetStatus
<1>5. /\ UNCHANGED <<template, crd, cstr, tStatus, opaT, opaC, want, live, keys, unnoticed>>
      /\ T' = T
  BY <1>3, <1>4, Names DEF cluster, opa, watches, T
<1>6. /\ Enqueue(IF new THEN ConstraintStatusEvent(d) ELSE {})
      /\ ~new => cStatus' = cStatus
      /\ \A c \in Constraints \ {d} : cStatus'[c] = cStatus[c]
  BY <1>1 DEF ConstraintGetStatus, IInv, BooksInv
<1>7. new => <<"constraint", d>> \in (IF new THEN ConstraintStatusEvent(d) ELSE {})
  BY DEF ConstraintStatusEvent
<1>8. /\ queue["template"] \subseteq queue'["template"]
      /\ queue["constraint"] \subseteq queue'["constraint"]
      /\ new => d \in queue'["constraint"]
  BY <1>6, <1>7, EventsArrive
<1>9. ASSUME switch # "stopped", d \notin queue'["constraint"] PROVE ConstraintSettled(d)'
  <2>1. cStatus' = cStatus /\ ConstraintSettled(d) /\ OnC(d) /\ OnC(d)'
    BY <1>1, <1>3, <1>4, <1>6, <1>8, <1>9 DEF RestInv, SettledInv, OnC
  <2>2. ConstraintInHand(d) /\ StatusListed(d)
    BY <1>8, <1>9, <2>1 DEF ConstraintSettled
  <2>3. (Watched(d)' <=> Watched(d)) /\ (OnT(k)' <=> OnT(k))
    BY <1>5 DEF Watched, OnT
  <2>4. Excused(k) => Excused(k)'
    BY <1>5, <1>8, ExcuseStays
  <2>5. ConstraintInHand(d)'
    BY <1>3, <1>4, <1>5, <2>1, <2>2, <2>3, <2>4 DEF ConstraintInHand, AtWork, Removing
  <2>6. StatusListed(d)'
    BY <1>4, <1>5, <2>1, <2>2, <2>3 DEF StatusListed, Removing
  <2> QED
    BY <2>1, <2>5, <2>6 DEF ConstraintSettled
<1>10. d \in queue'["constraint"] => ConstraintSettled(d)'
  BY DEF ConstraintSettled
<1>11. /\ opaC' = [c \in Constraints |-> opaC'[c]] /\ keys' = [c \in Constraints |-> keys'[c]]
       /\ opaC'[d] # 0 => opaT[k] # 0
  BY <1>5 DEF RestInv, MapsInv, OpaInv
<1>12. /\ C'.pc \in AtWork /\ C'.obj # None /\ C'.obj.gen # 0
       /\ C'.pc # "deleteStatus"
  BY <1>3, <1>4 DEF AtWork, RestInv, PlaceInv
<1> QED
  BY <1>1, <1>3, <1>4, <1>5, <1>6, <1>8, <1>9, <1>10, <1>11, <1>12, ConstraintStepRest

LEMMA ConstraintAddRest ==
  ASSUME IInv, RestInv, ConstraintAdd
  PROVE  RestInv'
<1>1. PICK d \in Constraints : d = C.item
  BY DEF ConstraintAdd, RestInv, PlaceInv
<1> DEFINE k == KindOf[d]
<1>2. PICK pc : /\ Goto("constraint", pc)
                /\ \/ /\ pc = "enforce" /\ keys' = keys
                      /\ opaC' = [opaC EXCEPT ![d] = C.obj.gen]
                      /\ opaC[d] = C.obj.gen \/ opaT[k] # 0
                   \/ /\ pc = "report" /\ opaC' = opaC
                      /\ keys' = [keys EXCEPT ![d] = "error"]
  BY <1>1 DEF ConstraintAdd
<1>3. /\ \A m \in Controllers \ {"constraint"} : worker'[m] = worker[m]
      /\ C'.pc = pc /\ C'.item = d /\ C'.obj = C.obj
  BY <1>1, <1>2, WorkerPc, Names DEF IInv, C, Goto
<1>4. /\ C.pc = "add" /\ k \in Kinds
      /\ UNCHANGED <<cluster, statuses, opaT, watches, queue, switch, unseen, unnoticed>>
  BY TemplateAssumption DEF ConstraintAdd
<1>5. /\ UNCHANGED <<template, crd, cstr, tStatus, cStatus, opaT, want, live, queue, unnoticed>>
      /\ T' = T
  BY <1>3, <1>4, Names DEF cluster, statuses, watches, T
<1>6. C.obj # None /\ C.obj.gen # 0
  BY <1>4 DEF RestInv, PlaceInv, AtWork
<1>7. /\ opaC' = [c \in Constraints |-> opaC'[c]] /\ keys' = [c \in Constraints |-> keys'[c]]
      /\ \A c \in Constraints \ {d} : opaC'[c] = opaC[c] /\ keys'[c] = keys[c]
      /\ pc = "enforce" => opaC'[d] = C.obj.gen
      /\ opaC'[d] # 0 => opaT[k] # 0
  BY <1>2, <1>6 DEF RestInv, MapsInv, OpaInv
<1>8. ASSUME switch # "stopped", d \notin queue["constraint"] PROVE ConstraintSettled(d)'
  <2>1. ConstraintSettled(d) /\ OnC(d) /\ OnC(d)'
    BY <1>1, <1>2, <1>3, <1>4, <1>8 DEF RestInv, SettledInv, OnC
  <2>2. ConstraintInHand(d) /\ StatusListed(d)
    BY <1>8, <2>1 DEF ConstraintSettled
  <2>3. (Watched(d)' <=> Watched(d)) /\ (OnT(k)' <=> OnT(k))
    BY <1>5 DEF Watched, OnT
  <2>4. Excused(k) => Excused(k)'
    BY <1>5, ExcuseStays
  <2>5. ConstraintInHand(d)'
    BY <1>2, <1>3, <1>4, <1>5, <1>7, <2>2, <2>3, <2>4 DEF ConstraintInHand, AtWork, Removing
  <2>6. StatusListed(d)'
    BY <1>4, <1>5, <2>1, <2>2, <2>3 DEF StatusListed, Removing
  <2> QED
    BY <2>1, <2>5, <2>6 DEF ConstraintSettled
<1>9. d \in queue["constraint"] => ConstraintSettled(d)'
  BY <1>5 DEF ConstraintSettled
<1>10. C'.pc \in AtWork /\ C'.pc # "deleteStatus"
  BY <1>2, <1>3 DEF AtWork
<1> QED
  BY <1>1, <1>3, <1>4, <1>5, <1>6, <1>7, <1>8, <1>9, <1>10, ConstraintStepRest

LEMMA ConstraintEnforceRest ==
  ASSUME IInv, RestInv, ConstraintEnforce
  PROVE  RestInv'
<1>1. PICK d \in Constraints : d = C.item
  BY DEF ConstraintEnforce, RestInv, PlaceInv
<1> DEFINE k == KindOf[d]
<1>2. /\ C.pc = "enforce" /\ k \in Kinds
      /\ UNCHANGED <<cluster, tStatus, opa, watches, switch, unseen, unnoticed>>
  BY TemplateAssumption DEF ConstraintEnforce
<1>3. CASE Again("constraint") /\ UNCHANGED <<cStatus, keys>>
  <2>1. d \in queue'["constraint"]
    BY <1>1, <1>3, RetryArrives DEF C
  <2> QED
    BY <1>1, <1>2, <1>3, <2>1, RetryArrives, ConstraintRetryRest DEF Again
<1>4. CASE SetConstraintStatus(FALSE, TRUE, {}) /\ keys' = [keys EXCEPT ![d] = "active"]
           /\ Done("constraint")
  <2> DEFINE s == [uid |-> C.obj.uid, gen |-> C.obj.gen, err |-> FALSE, enforced |-> TRUE]
  <2> DEFINE events == {} \cup IF s # cStatus[d] THEN ConstraintStatusEvent(d) ELSE {}
  <2>1. cStatus[d] # None /\ cStatus' = [cStatus EXCEPT ![d] = s] /\ Enqueue(events)
    BY <1>1, <1>4 DEF SetConstraintStatus
  <2>2. s # cStatus[d] => <<"constraint", d>> \in events
    BY DEF ConstraintStatusEvent
  <2>3. /\ queue["template"] \subseteq queue'["template"]
        /\ queue["constraint"] \subseteq queue'["constraint"]
        /\ s # cStatus[d] => d \in queue'["constraint"]
    BY <2>1, <2>2, EventsArrive
  <2>4. /\ \A m \in Controllers \ {"constraint"} : worker'[m] = worker[m]
        /\ C'.pc = "idle"
    BY <1>4, WorkerDone, Names DEF IInv, C
  <2>5. /\ UNCHANGED <<template, crd, cstr, tStatus, opaT, opaC, want, live, unnoticed>>
        /\ T' = T
    BY <1>2, <2>4, Names DEF cluster, opa, watches, T
  <2>6. /\ \A c \in Constraints \ {d} : keys'[c] = keys[c] /\ cStatus'[c] = cStatus[c]
        /\ keys'[d] = "active" /\ cStatus'[d] = s
        /\ keys' = [c \in Constraints |-> keys'[c]] /\ opaC' = [c \in Constraints |-> opaC'[c]]
        /\ opaC'[d] # 0 => opaT[k] # 0
    BY <1>4, <2>1, <2>5 DEF IInv, BooksInv, RestInv, MapsInv, OpaInv
  <2>7. ASSUME switch # "stopped", d \notin queue'["constraint"] PROVE ConstraintSettled(d)'
    <3>1. ConstraintSettled(d) /\ OnC(d) /\ ~OnC(d)'
      BY <1>1, <1>2, <2>4, <2>7 DEF RestInv, SettledInv, OnC
    <3>2. ConstraintInHand(d) /\ StatusListed(d) /\ cStatus'[d] = cStatus[d] /\ s = cStatus[d]
      BY <2>3, <2>6, <2>7, <3>1 DEF ConstraintSettled
    <3>3. (Watched(d)' <=> Watched(d)) /\ (OnT(k)' <=> OnT(k))
      BY <2>5 DEF Watched, OnT
    <3>4. Excused(k) => Excused(k)'
      BY <2>3, <2>5, ExcuseStays
    <3>5. Watched(d) => C.obj = cstr[d] /\ opaC[d] = C.obj.gen
      BY <1>2, <3>2 DEF ConstraintInHand, AtWork
    <3>6. Watched(d) => Enforced(d)'
      BY <2>5, <2>6, <3>5 DEF Enforced, ConstraintVerdict
    <3>7. ~Watched(d) => Excused(k)
      BY <1>2, <2>1, <3>2 DEF ConstraintInHand, AtWork
    <3>8. cStatus'[d] # None
      BY <2>1, <3>2
    <3> HIDE DEF s
    <3>9. ConstraintDone(d)'
      BY <3>3, <3>4, <3>6, <3>7, <3>8 DEF ConstraintDone
    <3>10. StatusListed(d)'
      BY <1>2, <2>5, <3>2, <3>3 DEF StatusListed, Removing
    <3> QED
      BY <3>1, <3>9, <3>10 DEF ConstraintSettled
  <2>8. d \in queue'["constraint"] => ConstraintSettled(d)'
    BY DEF ConstraintSettled
  <2>9. C'.pc \notin AtWork /\ C'.pc # "deleteStatus"
    BY <2>4 DEF AtWork
  <2> HIDE DEF s, events
  <2> QED
    BY <1>1, <1>2, <2>3, <2>4, <2>5, <2>6, <2>7, <2>8, <2>9, ConstraintStepRest
<1> QED
  BY <1>1, <1>3, <1>4 DEF ConstraintEnforce

LEMMA ConstraintRemoveRest ==
  ASSUME IInv, RestInv, ConstraintRemove
  PROVE  RestInv'
<1>1. PICK d \in Constraints : d = C.item
  BY DEF ConstraintRemove, RestInv, PlaceInv
<1> DEFINE k == KindOf[d]
<1>2. /\ \A m \in Controllers \ {"constraint"} : worker'[m] = worker[m]
      /\ C'.pc = "deleteStatus" /\ C'.item = d
  BY <1>1, WorkerPc, Names DEF ConstraintRemove, IInv, C, Goto
<1>3. /\ C.pc = "remove" /\ opaC' = [opaC EXCEPT ![d] = 0] /\ keys' = [keys EXCEPT ![d] = ""]
      /\ UNCHANGED <<cluster, statuses, opaT, watches, queue, switch, unseen, unnoticed>>
  BY <1>1 DEF ConstraintRemove
<1>4. /\ UNCHANGED <<template, crd, cstr, tStatus, cStatus, opaT, want, live, queue, unnoticed>>
      /\ T' = T
  BY <1>2, <1>3, Names DEF cluster, statuses, watches, T
<1>5. /\ opaC' = [c \in Constraints |-> opaC'[c]] /\ keys' = [c \in Constraints |-> keys'[c]]
      /\ \A c \in Constraints \ {d} : opaC'[c] = opaC[c] /\ keys'[c] = keys[c]
      /\ opaC'[d] = 0 /\ keys'[d] = ""
  BY <1>3 DEF RestInv, MapsInv
<1>6. ASSUME switch # "stopped", d \notin queue["constraint"] PROVE ConstraintSettled(d)'
  <2>1. ConstraintSettled(d) /\ OnC(d) /\ OnC(d)'
    BY <1>1, <1>2, <1>3, <1>6 DEF RestInv, SettledInv, OnC
  <2>2. ~Watched(d)
    BY <1>3, <1>6, <2>1 DEF ConstraintSettled, ConstraintInHand, Removing
  <2>3. ~Watched(d)' /\ C'.pc \in Removing /\ C'.pc \notin AtWork
    BY <1>2, <1>4, <2>2 DEF Watched, Removing, AtWork
  <2> QED
    BY <2>1, <2>3 DEF ConstraintSettled, ConstraintInHand, StatusListed
<1>7. d \in queue["constraint"] => ConstraintSettled(d)'
  BY <1>4 DEF ConstraintSettled
<1>8. C'.pc \in Removing /\ C'.pc \notin AtWork
  BY <1>2 DEF Removing, AtWork
<1> QED
  BY <1>1, <1>2, <1>3, <1>4, <1>5, <1>6, <1>7, <1>8, ConstraintStepRest

LEMMA ConstraintDeleteStatusRest ==
  ASSUME IInv, RestInv, ConstraintDeleteStatus
  PROVE  RestInv'
<1>1. PICK d \in Constraints : d = C.item
  BY DEF ConstraintDeleteStatus, RestInv, PlaceInv
<1> DEFINE k == KindOf[d]
<1>2. /\ \A m \in Controllers \ {"constraint"} : worker'[m] = worker[m]
      /\ C'.pc = "idle"
  BY WorkerDone, Names DEF ConstraintDeleteStatus, IInv, C
<1>3. /\ C.pc = "deleteStatus" /\ cStatus' = [cStatus EXCEPT ![d] = None]
      /\ Enqueue(IF cStatus[d] # None THEN ConstraintStatusEvent(d) ELSE {})
      /\ UNCHANGED <<cluster, tStatus, opa, watches, keys, switch, unseen, unnoticed>>
  BY <1>1 DEF ConstraintDeleteStatus
<1>4. /\ UNCHANGED <<template, crd, cstr, tStatus, opaT, opaC, want, live, keys, unnoticed>>
      /\ T' = T
  BY <1>2, <1>3, Names DEF cluster, opa, watches, T
<1>5. /\ queue["template"] \subseteq queue'["template"]
      /\ queue["constraint"] \subseteq queue'["constraint"]
  BY <1>3, EventsArrive
<1>6. /\ opaC' = [c \in Constraints |-> opaC'[c]] /\ keys' = [c \in Constraints |-> keys'[c]]
      /\ \A c \in Constraints \ {d} : cStatus'[c] = cStatus[c]
      /\ cStatus'[d] = None /\ opaC'[d] = 0 /\ keys'[d] = ""
  BY <1>1, <1>3, <1>4 DEF RestInv, MapsInv, StageInv, IInv, BooksInv
<1>7. ASSUME switch # "stopped", d \notin queue'["constraint"] PROVE ConstraintSettled(d)'
  <2>1. ConstraintSettled(d) /\ OnC(d) /\ ~OnC(d)'
    BY <1>1, <1>2, <1>3, <1>7 DEF RestInv, SettledInv, OnC
  <2>2. ~Watched(d)
    BY <1>3, <1>5, <1>7, <2>1 DEF ConstraintSettled, ConstraintInHand, Removing
  <2>3. ~Watched(d)'
    BY <1>4, <2>2 DEF Watched
  <2>4. ConstraintDone(d)' /\ StatusListed(d)'
    BY <1>6, <2>3 DEF ConstraintDone, Gone, StatusListed
  <2> QED
    BY <2>1, <2>4 DEF ConstraintSettled
<1>8. d \in queue'["constraint"] => ConstraintSettled(d)'
  BY DEF ConstraintSettled
<1>9. C'.pc \notin AtWork
  BY <1>2 DEF AtWork
<1> QED
  BY <1>1, <1>2, <1>3, <1>4, <1>5, <1>6, <1>7, <1>8, <1>9, ConstraintStepRest

LEMMA ConstraintRest ==
  ASSUME IInv, RestInv, ConstraintStep
  PROVE  RestInv'
<1>1. ASSUME ConstraintReport PROVE RestInv'
  <2>1. /\ C.pc = "report" /\ Done("constraint")
        /\ UNCHANGED <<cluster, tStatus, opa, watches, keys, switch, unnoticed>>
    BY <1>1 DEF ConstraintReport
  <2>2. PICK more : /\ Enqueue({<<"constraint", C.item>>} \cup more)
                    /\ \A c \in Constraints \ {C.item} : cStatus'[c] = cStatus[c]
    <3>1. CASE SetConstraintStatus(TRUE, C.read.enforced, {<<"constraint", C.item>>})
      BY <3>1 DEF SetConstraintStatus, IInv, BooksInv
    <3>2. CASE Enqueue({<<"constraint", C.item>>}) /\ UNCHANGED cStatus
      <4>1. {<<"constraint", C.item>>} = {<<"constraint", C.item>>} \cup {}
        OBVIOUS
      <4>2. Enqueue({<<"constraint", C.item>>} \cup {})
        BY <3>2, <4>1
      <4> QED
        BY <3>2, <4>2
    <3> QED
      BY <1>1, <3>1, <3>2 DEF ConstraintReport
  <2>3. <<"constraint", C.item>> \in {<<"constraint", C.item>>} \cup more
    OBVIOUS
  <2>4. /\ queue["template"] \subseteq queue'["template"]
        /\ queue["constraint"] \subseteq queue'["constraint"]
        /\ C.item \in queue'["constraint"]
    BY <2>2, <2>3, EventsArrive
  <2> QED
    BY <2>1, <2>2, <2>4, ConstraintRetryRest
<1>2. ASSUME ConstraintCallFails PROVE RestInv'
  <2>1. /\ C.pc # "idle" /\ Again("constraint")
        /\ UNCHANGED <<cluster, statuses, opa, watches, keys, switch, unnoticed>>
    BY <1>2 DEF ConstraintCallFails, CallFails, C
  <2>2. /\ queue["template"] \subseteq queue'["template"]
        /\ queue["constraint"] \subseteq queue'["constraint"]
        /\ C.item \in queue'["constraint"]
    BY <2>1, RetryArrives DEF C
  <2> QED
    BY <2>1, <2>2, ConstraintRetryRest DEF statuses, Again
<1> QED
  BY <1>1, <1>2, ConstraintReadRest, ConstraintGetStatusRest, ConstraintAddRest,
     ConstraintEnforceRest, ConstraintRemoveRest, ConstraintDeleteStatusRest DEF ConstraintStep

\* The steps of the template controller

\* What its steps have in common: k is the template in hand.
LEMMA TemplateStepRest ==
  ASSUME IInv, RestInv, NEW k \in Kinds,
         \A m \in Controllers \ {"template"} : worker'[m] = worker[m],
         UNCHANGED <<template, cstr, keys, switch>>, unnoticed \ {k} \subseteq unnoticed',
         queue["constraint"] \subseteq queue'["constraint"],
         T.pc # "idle" => T.item = k, T'.pc # "idle" => T'.item = k,
         \A j \in Kinds \ {k} :
           /\ j \in queue["template"] => j \in queue'["template"]
           /\ crd'[j] = crd[j] /\ opaT'[j] = opaT[j] /\ tStatus'[j] = tStatus[j]
           /\ \A r \in Registrars : j \in live'[r] <=> j \in live[r],
         \A c \in Constraints : KindOf[c] # k =>
           opaC'[c] = opaC[c] /\ (c \in queue'["constraint"] \/ cStatus'[c] = cStatus[c]),
         PlaceInv', MapsInv', OpaInv', StageInv',
         switch # "stopped" => /\ TemplateSettled(k)'
                               /\ \A c \in Constraints : KindOf[c] = k => ConstraintSettled(c)'
  PROVE  RestInv'
<1>1. C' = C /\ UNCHANGED <<template, cstr, keys>>
  BY Names DEF C
<1>2. GenInv'
  BY <1>1 DEF RestInv, GenInv
<1>3. ASSUME NEW j \in Kinds \ {k}
      PROVE  ~OnT(j) /\ ~OnT(j)' /\ (Excused(j) => Excused(j)')
  <2>1. ~OnT(j) /\ ~OnT(j)'
    BY <1>3 DEF OnT
  <2> QED
    BY <1>1, <1>3, <2>1 DEF Excused
<1>4. ASSUME NEW j \in Kinds \ {k}, TemplateSettled(j) PROVE TemplateSettled(j)'
  BY <1>1, <1>3, <1>4, TemplateStays
<1>5. ASSUME NEW c \in Constraints, KindOf[c] # k, ConstraintSettled(c)
      PROVE  ConstraintSettled(c)'
  <2>1. KindOf[c] \in Kinds \ {k}
    BY <1>5, TemplateAssumption
  <2>2. /\ ~OnT(KindOf[c])'
        /\ Excused(KindOf[c]) => Excused(KindOf[c])'
    BY <1>3, <2>1
  <2>3. Watched(c)' <=> Watched(c)
    BY <1>1, <2>1 DEF Watched, Registrars
  <2> QED
    BY <1>1, <1>5, <2>2, <2>3, ConstraintStays
<1>6. SettledInv'
  BY <1>4, <1>5 DEF RestInv, SettledInv
<1> QED
  BY <1>2, <1>6 DEF RestInv

\* An update: nothing is taken away, and a new watch queues the constraints.
LEMMA TemplateUpdateRest ==
  ASSUME IInv, RestInv, NEW k \in Kinds, T.pc \in Updating, T.item = k,
         \A m \in Controllers \ {"template"} : worker'[m] = worker[m],
         UNCHANGED <<template, cstr, cStatus, opaC, keys, switch>>, unnoticed \subseteq unnoticed',
         queue["template"] \subseteq queue'["template"],
         queue["constraint"] \subseteq queue'["constraint"],
         T'.pc \in {"idle"} \cup Updating,
         T'.pc # "idle" => T'.item = k /\ T'.obj = T.obj,
         \A j \in Kinds \ {k} :
           /\ crd'[j] = crd[j] /\ opaT'[j] = opaT[j] /\ tStatus'[j] = tStatus[j]
           /\ \A r \in Registrars : (j \in live'[r] <=> j \in live[r]) /\ (j \in want'[r] <=> j \in want[r]),
         opaT[k] # 0 => opaT'[k] # 0,
         \A r \in Registrars : /\ k \in live[r] => k \in live'[r]
                               /\ k \in live'[r] => k \in want'[r]
                               /\ k \in want'[r] => opaT'[k] # 0,
         k \in live'["w"] \ live["w"] => Existing(k) \subseteq queue'["constraint"],
         MapsInv', StageInv',
         switch # "stopped" /\ k \notin queue'["template"] => TemplateSettled(k)'
  PROVE  RestInv'
<1>1. /\ C' = C /\ UNCHANGED <<template, cstr, cStatus, opaC, keys>>
      /\ T.pc \notin Deleting /\ T'.pc \notin Deleting
      /\ T.pc # "deleteStatuses" /\ T'.pc # "deleteStatuses"
  BY Names DEF C, Updating, Deleting, Unwatched
<1>2. PlaceInv'
  <2>1. /\ T.obj # None /\ T.obj.gen # 0 /\ T.obj.body \in Bodies
        /\ C.pc \in {"idle"} \cup AtWork \cup Removing
        /\ C.pc # "idle" => C.item \in Constraints
        /\ C.pc \in AtWork => C.obj # None /\ C.obj.gen # 0
    BY DEF RestInv, PlaceInv
  <2>2. "idle" \notin Updating
    BY DEF Updating
  <2> QED
    BY <1>1, <2>1, <2>2 DEF PlaceInv
<1>3. OpaInv'
  <2>1. ASSUME NEW j \in Kinds, opaT'[j] = 0, NEW r \in Registrars PROVE j \notin want'[r]
    BY <2>1 DEF RestInv, OpaInv
  <2>2. ASSUME NEW j \in Kinds, NEW r \in Registrars, j \in live'[r] PROVE j \in want'[r]
    BY <2>2 DEF RestInv, OpaInv
  <2>3. ASSUME NEW c \in Constraints, opaC'[c] # 0 PROVE opaT'[KindOf[c]] # 0
    BY <1>1, <2>3, TemplateAssumption DEF RestInv, OpaInv
  <2> QED
    BY <2>1, <2>2, <2>3 DEF OpaInv
<1>4. Excused(k) => Excused(k)'
  BY <1>1 DEF Excused
<1>5. ASSUME NEW c \in Constraints, KindOf[c] = k, ConstraintSettled(c)
      PROVE  ConstraintSettled(c)'
  <2>1. Watched(c) => Watched(c)'
    BY <1>1, <1>5 DEF Watched, Registrars
  <2>2. c \notin queue'["constraint"] /\ Watched(c)' => Watched(c)
    BY <1>1, <1>5 DEF Watched, Existing, OfKind
  <2> QED
    BY <1>1, <1>4, <1>5, <2>1, <2>2, ConstraintStays
<1>6. k \in queue'["template"] => TemplateSettled(k)'
  BY DEF TemplateSettled
<1>7. switch # "stopped" => /\ TemplateSettled(k)'
                            /\ \A c \in Constraints : KindOf[c] = k => ConstraintSettled(c)'
  BY <1>5, <1>6 DEF RestInv, SettledInv
<1> QED
  BY <1>1, <1>2, <1>3, <1>7, TemplateStepRest

\* A deletion: nothing is added, and what is left of the constraints is excused.
LEMMA TemplateDeletionRest ==
  ASSUME IInv, RestInv, NEW k \in Kinds, T.pc \in Deleting, T.item = k,
         \A m \in Controllers \ {"template"} : worker'[m] = worker[m],
         UNCHANGED <<template, crd, cstr, keys, switch>>, unnoticed \subseteq unnoticed',
         queue["template"] \subseteq queue'["template"],
         queue["constraint"] \subseteq queue'["constraint"],
         \/ T'.pc \in Deleting /\ T'.item = k /\ T'.obj = T.obj
         \/ T'.pc = "idle" /\ k \in unnoticed' /\ k \in queue'["template"],
         \A j \in Kinds \ {k} :
           /\ opaT'[j] = opaT[j] /\ tStatus'[j] = tStatus[j]
           /\ \A r \in Registrars : (j \in live'[r] <=> j \in live[r]) /\ (j \in want'[r] <=> j \in want[r]),
         opaT'[k] = opaT[k] \/ (opaT'[k] = 0 /\ \A r \in Registrars : k \notin want'[r]),
         \A r \in Registrars : /\ k \in live'[r] => k \in live[r] /\ k \in want'[r]
                               /\ k \in want'[r] => k \in want[r],
         \A c \in Constraints :
           IF KindOf[c] = k
           THEN /\ opaC'[c] = opaC[c] \/ (opaC'[c] = 0 /\ k \notin live["w"])
                /\ opaC'[c] # 0 => opaT'[k] # 0
                /\ c \notin queue'["constraint"] =>
                     /\ cStatus'[c] = cStatus[c]
                     /\ T'.pc = "deleteStatuses" /\ cStatus[c] # None =>
                          c \in T'.todo \/ (T.pc = "deleteStatuses" /\ c \notin T.todo)
           ELSE opaC'[c] = opaC[c] /\ (c \in queue'["constraint"] \/ cStatus'[c] = cStatus[c]),
         MapsInv', StageInv'
  PROVE  RestInv'
<1>1. /\ C' = C /\ UNCHANGED <<template, crd, cstr, keys>>
      /\ T.pc # "idle" /\ T'.pc \notin Updating
  BY Names DEF C, Updating, Deleting, Unwatched
<1>2. PlaceInv'
  <2>1. /\ T.obj = None
        /\ C.pc \in {"idle"} \cup AtWork \cup Removing
        /\ C.pc # "idle" => C.item \in Constraints
        /\ C.pc \in AtWork => C.obj # None /\ C.obj.gen # 0
    BY DEF RestInv, PlaceInv
  <2>2. "idle" \notin Deleting
    BY DEF Deleting, Unwatched
  <2> QED
    BY <1>1, <2>1, <2>2 DEF PlaceInv
<1>3. OpaInv'
  <2>1. ASSUME NEW j \in Kinds, opaT'[j] = 0, NEW r \in Registrars PROVE j \notin want'[r]
    BY <2>1 DEF RestInv, OpaInv
  <2>2. ASSUME NEW j \in Kinds, NEW r \in Registrars, j \in live'[r] PROVE j \in want'[r]
    BY <2>2 DEF RestInv, OpaInv
  <2>3. ASSUME NEW c \in Constraints, opaC'[c] # 0 PROVE opaT'[KindOf[c]] # 0
    BY <1>1, <2>3, TemplateAssumption DEF RestInv, OpaInv
  <2> QED
    BY <2>1, <2>2, <2>3 DEF OpaInv
<1>4. Excused(k)'
  BY <1>1 DEF Excused, OnT, Deleting, Unwatched
<1>5. ASSUME NEW c \in Constraints, KindOf[c] = k, ConstraintSettled(c)
      PROVE  ConstraintSettled(c)'
  <2>1. Watched(c)' => Watched(c) /\ opaC'[c] = opaC[c]
    BY <1>1, <1>5 DEF Watched, Registrars
  <2>2. opaC'[c] = opaC[c] \/ opaC'[c] = 0
    BY <1>5
  <2>3. OnT(k)
    BY <1>1 DEF OnT
  <2>4. \/ c \in queue'["constraint"]
        \/ /\ cStatus'[c] = cStatus[c]
           /\ T'.pc = "deleteStatuses" /\ cStatus[c] # None =>
                c \in T'.todo \/ (T.pc = "deleteStatuses" /\ c \notin T.todo)
    BY <1>5
  <2> QED
    BY <1>1, <1>4, <1>5, <2>1, <2>2, <2>3, <2>4, ConstraintStays
<1>6. TemplateSettled(k) => TemplateSettled(k)'
  <2>1. T'.pc \in Deleting =>
          T'.pc \notin {"idle", "ingest", "writeCRD", "watch", "watchStatus", "succeed"}
    BY DEF Deleting, Unwatched
  <2> QED
    BY <1>1, <2>1 DEF TemplateSettled, OnT
<1>7. switch # "stopped" => /\ TemplateSettled(k)'
                            /\ \A c \in Constraints : KindOf[c] = k => ConstraintSettled(c)'
  BY <1>5, <1>6 DEF RestInv, SettledInv
<1> QED
  BY <1>1, <1>2, <1>3, <1>7, TemplateStepRest

LEMMA TemplateReadRest ==
  ASSUME IInv, RestInv, NEW k \in Kinds, TemplateRead(k)
  PROVE  RestInv'
<1>0. WorkersInv /\ BooksInv /\ "constraint" \in Controllers /\ "template" \in Controllers
  BY Names DEF IInv
<1>1. PICK pc : /\ Enter("template", k, Work(k, template[k], pc))
                /\ pc = IF template[k] # None THEN "status"
                        ELSE IF opaT[k] # 0 THEN "unwatch" ELSE "deleteStatus"
  BY DEF TemplateRead
<1> DEFINE w == Work(k, template[k], pc)
<1>2. IsWork(w) /\ w.pc = pc /\ w.obj = template[k] /\ w.item = k
  BY WorkIs
<1> HIDE DEF w
<1>3. /\ queue'["template"] = queue["template"] \ {k}
      /\ \A m \in Controllers \ {"template"} : queue'[m] = queue[m]
      /\ \A m \in Controllers \ {"template"} : worker'[m] = worker[m]
      /\ T.pc = "idle"
      /\ switch = "running" => T' = w
      /\ switch # "running" => T' = T
      /\ switch # "running" => switch = "stopped"
  BY <1>0, <1>1, <1>2, EnterIs DEF w, T, IInv, StopInv
<1>4. UNCHANGED <<cluster, statuses, opa, watches, keys, switch, budget, unseen, unnoticed>>
  BY DEF TemplateRead
<1>5. /\ UNCHANGED <<template, crd, cstr, tStatus, cStatus, opaT, opaC, want, live, keys,
                     unnoticed>>
      /\ C' = C /\ queue'["constraint"] = queue["constraint"]
  BY <1>0, <1>3, <1>4 DEF cluster, statuses, opa, watches, C
<1>6. /\ T'.pc # "idle" => T'.item = k /\ T'.obj = template[k] /\ T'.pc = pc
      /\ T'.pc \in {"idle", pc}
  BY <1>2, <1>3
<1>7. PlaceInv'
  <2>1. /\ C.pc \in {"idle"} \cup AtWork \cup Removing
        /\ C.pc # "idle" => C.item \in Constraints
        /\ C.pc \in AtWork => C.obj # None /\ C.obj.gen # 0
        /\ template[k] # None => template[k].gen # 0 /\ template[k].body \in Bodies
    BY DEF RestInv, PlaceInv, GenInv
  <2>2. /\ "idle" \notin Updating /\ "idle" \notin Deleting
        /\ template[k] # None => pc \in Updating /\ pc \notin Deleting
        /\ template[k] = None => pc \in Deleting /\ pc \notin Updating
    BY <1>1 DEF Updating, Deleting, Unwatched
  <2> QED
    BY <1>5, <1>6, <2>1, <2>2 DEF PlaceInv
<1>8. MapsInv' /\ OpaInv'
  BY <1>5 DEF RestInv, MapsInv, OpaInv
<1>9. StageInv'
  <2>1. T'.pc = "deleteStatus" => opaT[k] = 0 /\ \A r \in Registrars : k \notin want[r]
    BY <1>1, <1>6 DEF RestInv, OpaInv
  <2>2. C.pc = "deleteStatus" => opaC[C.item] = 0 /\ keys[C.item] = ""
    BY DEF RestInv, StageInv
  <2>3. T'.pc \in {"idle", "status", "unwatch", "deleteStatus"}
    BY <1>1, <1>6
  <2> QED
    BY <1>5, <1>6, <2>1, <2>2, <2>3 DEF StageInv, Ingested, Unwatched, Registrars
<1>10. ASSUME switch # "stopped"
       PROVE  /\ TemplateSettled(k)'
              /\ \A c \in Constraints : KindOf[c] = k => ConstraintSettled(c)'
  <2>1. T'.pc = pc /\ OnT(k)' /\ ~OnT(k) /\ T'.obj = template'[k] /\ pc # "deleteStatuses"
    BY <1>1, <1>2, <1>3, <1>5, <1>6, <1>10 DEF OnT
  <2>2. TemplateSettled(k)'
    BY <1>1, <2>1 DEF TemplateSettled
  <2>3. Excused(k) => Excused(k)'
    <3>1. ASSUME template[k] = None PROVE T'.pc \in Deleting
      BY <1>1, <2>1, <3>1 DEF Deleting, Unwatched
    <3> QED
      BY <1>5, <2>1, <3>1 DEF Excused
  <2>4. ASSUME NEW c \in Constraints, KindOf[c] = k PROVE ConstraintSettled(c)'
    <3>1. ConstraintSettled(c) /\ (Watched(c)' <=> Watched(c))
      BY <1>5, <1>10 DEF RestInv, SettledInv, Watched
    <3> QED
      BY <1>5, <2>1, <2>3, <2>4, <3>1, ConstraintStays
  <2> QED
    BY <2>2, <2>4
<1>11. unnoticed \ {k} \subseteq unnoticed'
  BY <1>5
<1> QED
  BY <1>3, <1>4, <1>5, <1>6, <1>7, <1>8, <1>9, <1>10, <1>11, TemplateStepRest

\* What holds of the template in hand, and what stays of the maps.
LEMMA TemplateHas ==
  ASSUME IInv, RestInv, NEW k \in Kinds, T.pc # "idle", T.item = k
  PROVE  /\ WorkersInv /\ BooksInv /\ "constraint" \in Controllers /\ "template" \in Controllers
         /\ MapsInv /\ StageInv
         /\ T.pc \in Updating => T.obj # None /\ T.obj.gen # 0 /\ T.obj.body \in Bodies
         /\ \A r \in Registrars : /\ k \in live[r] => k \in want[r]
                                  /\ k \in want[r] => opaT[k] # 0
         /\ C.pc = "deleteStatus" => opaC[C.item] = 0 /\ keys[C.item] = ""
         /\ OnT(k)
         /\ switch # "stopped" /\ k \notin queue["template"] =>
              /\ T.obj = template[k]
              /\ T.pc \in {"ingest", "writeCRD"} => T.read = crd[k]
              /\ T.pc \in {"watch", "watchStatus", "succeed"} =>
                   crd[k] = [gen |-> T.obj.gen, owner |-> T.obj.uid]
<1>1. OnT(k)
  BY DEF OnT
<1>2. /\ WorkersInv /\ BooksInv /\ MapsInv /\ StageInv
      /\ T.pc \in Updating => T.obj # None /\ T.obj.gen # 0 /\ T.obj.body \in Bodies
      /\ C.pc = "deleteStatus" => opaC[C.item] = 0 /\ keys[C.item] = ""
  BY DEF IInv, RestInv, PlaceInv, StageInv
<1>3. \A r \in Registrars : /\ k \in live[r] => k \in want[r]
                            /\ k \in want[r] => opaT[k] # 0
  BY DEF RestInv, OpaInv
<1>4. switch # "stopped" => TemplateSettled(k)
  BY DEF RestInv, SettledInv
<1> QED
  BY <1>1, <1>2, <1>3, <1>4, Names DEF TemplateSettled

LEMMA TemplateGetStatusRest ==
  ASSUME IInv, RestInv, TemplateGetStatus
  PROVE  RestInv'
<1>1. PICK k \in Kinds : k = T.item
  BY DEF TemplateGetStatus, RestInv, PlaceInv
<1>2. PICK pc : /\ Goto("template", pc)
                /\ pc = IF T.obj.body = "noCRD" THEN "reportCRD" ELSE "getCRD"
  BY DEF TemplateGetStatus
<1> DEFINE new == tStatus[k] = None
<1>3. /\ T.pc = "status" /\ T.pc \in Updating
      /\ UNCHANGED <<cluster, cStatus, opa, watches, keys, switch, unseen, unnoticed>>
      /\ Enqueue(IF new THEN TemplateStatusEvent(k) ELSE {})
      /\ ~new => tStatus' = tStatus
      /\ \A j \in Kinds \ {k} : tStatus'[j] = tStatus[j]
  BY <1>1 DEF TemplateGetStatus, Updating, IInv, BooksInv
<1>4. UNCHANGED <<template, crd, cstr, cStatus, opaT, opaC, want, live, keys, switch, unnoticed>>
  BY <1>3 DEF cluster, opa, watches
<1>5. /\ MapsInv /\ StageInv
      /\ T.obj # None
      /\ \A r \in Registrars : (k \in live[r] => k \in want[r]) /\ (k \in want[r] => opaT[k] # 0)
      /\ C.pc = "deleteStatus" => opaC[C.item] = 0 /\ keys[C.item] = ""
      /\ OnT(k)
      /\ switch # "stopped" /\ k \notin queue["template"] => T.obj = template[k]
  BY <1>1, <1>3, TemplateHas
<1>6. /\ \A m \in Controllers \ {"template"} : worker'[m] = worker[m]
      /\ T'.pc = pc /\ T'.item = k /\ T'.obj = T.obj
  <2>1. worker' = [worker EXCEPT !["template"].pc = pc]
    BY <1>2 DEF Goto
  <2> QED
    BY <1>1, <2>1, WorkerPc, Names DEF IInv, T
<1>7. /\ queue["template"] \subseteq queue'["template"]
      /\ queue["constraint"] \subseteq queue'["constraint"]
  BY <1>3, EventsArrive
<1>8. T'.pc \in Updating /\ T'.pc \in {"reportCRD", "getCRD"}
  BY <1>2, <1>6 DEF Updating
<1>9. MapsInv' /\ C' = C
  BY <1>4, <1>5, <1>6, Names DEF MapsInv, C
<1>10. StageInv'
  BY <1>2, <1>4, <1>5, <1>6, <1>8, <1>9 DEF StageInv, Ingested, Unwatched
<1>11. ASSUME switch # "stopped", k \notin queue'["template"] PROVE TemplateSettled(k)'
  <2>1. T'.obj = template'[k] /\ OnT(k)'
    BY <1>4, <1>5, <1>6, <1>7, <1>8, <1>11 DEF OnT
  <2> QED
    BY <1>8, <2>1 DEF TemplateSettled
<1> QED
  BY <1>1, <1>3, <1>4, <1>5, <1>6, <1>7, <1>8, <1>9, <1>10, <1>11, TemplateUpdateRest

\* What the reports have in common: the worker is done with what it reports.
LEMMA TemplateReportedRest ==
  ASSUME IInv, RestInv, T.pc \in Updating, NEW err, NEW more,
         SetTemplateStatus(T.item, err, more), Done("template"),
         UNCHANGED <<cluster, cStatus, opa, watches, keys, switch>>, unnoticed \subseteq unnoticed',
         \/ <<"template", T.item>> \in more
         \/ /\ err = (T.obj.body # "good")
            /\ T.pc = "reportCRD" \/ T.pc = "succeed"
  PROVE  RestInv'
<1>1. PICK k \in Kinds : k = T.item
  BY DEF Updating, RestInv, PlaceInv
<1> DEFINE s == [uid |-> T.obj.uid, gen |-> T.obj.gen, err |-> err]
<1>2. UNCHANGED <<template, crd, cstr, cStatus, opaT, opaC, want, live, keys, switch>>
  BY DEF cluster, opa, watches
<1>3. PICK events : Enqueue(more \cup events)
  BY DEF SetTemplateStatus
<1>4. <<"template", T.item>> \in more => <<"template", T.item>> \in more \cup events
  OBVIOUS
<1>5. /\ queue["template"] \subseteq queue'["template"]
      /\ queue["constraint"] \subseteq queue'["constraint"]
      /\ <<"template", T.item>> \in more => k \in queue'["template"]
  BY <1>1, <1>3, <1>4, EventsArrive
<1>6. /\ tStatus'[k] = s
      /\ \A j \in Kinds \ {k} : tStatus'[j] = tStatus[j]
  BY <1>1 DEF SetTemplateStatus, IInv, BooksInv
<1>7. /\ \A m \in Controllers \ {"template"} : worker'[m] = worker[m]
      /\ T'.pc = "idle" /\ T.pc # "idle"
  BY WorkerDone, Names DEF IInv, T, Updating
<1>8. /\ MapsInv /\ StageInv
      /\ T.obj # None
      /\ \A r \in Registrars : (k \in live[r] => k \in want[r]) /\ (k \in want[r] => opaT[k] # 0)
      /\ C.pc = "deleteStatus" => opaC[C.item] = 0 /\ keys[C.item] = ""
      /\ OnT(k)
      /\ switch # "stopped" /\ k \notin queue["template"] =>
           /\ T.obj = template[k]
           /\ T.pc \in {"watch", "watchStatus", "succeed"} =>
                crd[k] = [gen |-> T.obj.gen, owner |-> T.obj.uid]
  BY <1>1, <1>7, TemplateHas
<1>9. MapsInv' /\ C' = C
  BY <1>2, <1>7, <1>8, Names DEF MapsInv, C
<1>10. StageInv'
  BY <1>2, <1>7, <1>8, <1>9 DEF StageInv, Ingested, Unwatched
<1>11. ASSUME switch # "stopped", k \notin queue'["template"] PROVE TemplateSettled(k)'
  <2>1. /\ T.obj = template[k] /\ template[k] # None
        /\ err = (T.obj.body # "good")
        /\ T.pc = "reportCRD" \/ T.pc = "succeed"
        /\ T.pc = "succeed" => crd[k] = [gen |-> T.obj.gen, owner |-> T.obj.uid]
    BY <1>1, <1>5, <1>8, <1>11
  <2>2. tStatus'[k] = TemplateVerdict(k)'
    BY <1>2, <1>6, <2>1 DEF TemplateVerdict
  <2>3. ASSUME T.obj.body = "good"
        PROVE  /\ opaT'[k] = template'[k].gen
               /\ crd'[k] = [gen |-> template'[k].gen, owner |-> template'[k].uid]
               /\ \A r \in Registrars : k \in live'[r]
    <3>1. T.pc = "succeed"
      BY <1>8, <2>1, <2>3 DEF StageInv
    <3>2. opaT[k] = T.obj.gen /\ k \in live["w"] /\ k \in live["statusW"]
      BY <1>1, <1>8, <3>1 DEF StageInv, Ingested
    <3> QED
      BY <1>2, <2>1, <3>1, <3>2 DEF Registrars
  <2>4. TemplateDone(k)'
    BY <1>2, <2>1, <2>2, <2>3 DEF TemplateDone
  <2> QED
    BY <1>7, <2>4 DEF TemplateSettled, OnT
<1> QED
  BY <1>1, <1>2, <1>5, <1>6, <1>7, <1>8, <1>9, <1>10, <1>11, TemplateUpdateRest

LEMMA TemplateGoes ==
  ASSUME IInv, NEW pc, Goto("template", pc)
  PROVE  /\ \A m \in Controllers \ {"template"} : worker'[m] = worker[m]
         /\ T'.pc = pc /\ T'.item = T.item /\ T'.obj = T.obj /\ T'.read = T.read /\ C' = C
<1>1. worker' = [worker EXCEPT !["template"].pc = pc]
  BY DEF Goto
<1> QED
  BY <1>1, WorkerPc, Names DEF IInv, T, C

LEMMA TemplateGetCRDRest ==
  ASSUME IInv, RestInv, TemplateGetCRD
  PROVE  RestInv'
<1>1. PICK k \in Kinds : k = T.item
  BY DEF TemplateGetCRD, RestInv, PlaceInv
<1>2. /\ T.pc = "getCRD" /\ T.pc \in Updating
      /\ worker' = [worker EXCEPT !["template"].pc = "ingest", !["template"].read = crd[k]]
      /\ UNCHANGED <<cluster, statuses, opa, watches, keys, queue, switch, unseen, unnoticed>>
  BY <1>1 DEF TemplateGetCRD, Updating
<1>3. UNCHANGED <<template, crd, cstr, tStatus, cStatus, opaT, opaC, want, live, keys, queue,
                  switch, unnoticed>>
  BY <1>2 DEF cluster, statuses, opa, watches
<1>4. /\ MapsInv /\ StageInv
      /\ T.obj # None
      /\ \A r \in Registrars : (k \in live[r] => k \in want[r]) /\ (k \in want[r] => opaT[k] # 0)
      /\ C.pc = "deleteStatus" => opaC[C.item] = 0 /\ keys[C.item] = ""
      /\ switch # "stopped" /\ k \notin queue["template"] => T.obj = template[k]
  BY <1>1, <1>2, TemplateHas
<1>5. /\ \A m \in Controllers \ {"template"} : worker'[m] = worker[m]
      /\ T'.pc = "ingest" /\ T'.item = k /\ T'.obj = T.obj /\ T'.read = crd[k] /\ C' = C
  BY <1>1, <1>2, WorkerPcRead, Names DEF IInv, T, C
<1>6. T'.pc \in Updating
  BY <1>5 DEF Updating
<1>7. MapsInv'
  BY <1>3, <1>4 DEF MapsInv
<1>8. StageInv'
  BY <1>2, <1>3, <1>4, <1>5 DEF StageInv, Ingested, Unwatched
<1>9. ASSUME switch # "stopped", k \notin queue'["template"] PROVE TemplateSettled(k)'
  BY <1>3, <1>4, <1>5, <1>9 DEF TemplateSettled, OnT
<1> QED
  BY <1>1, <1>2, <1>3, <1>4, <1>5, <1>6, <1>7, <1>8, <1>9, TemplateUpdateRest

LEMMA TemplateIngestRest ==
  ASSUME IInv, RestInv, TemplateIngest
  PROVE  RestInv'
<1>1. PICK k \in Kinds : k = T.item
  BY DEF TemplateIngest, RestInv, PlaceInv
<1>2. PICK pc : /\ Goto("template", pc)
                /\ \/ pc = "report" /\ opaT' = opaT
                   \/ /\ pc = "writeCRD" /\ T.obj.body # "badRego"
                      /\ opaT' = [opaT EXCEPT ![k] = T.obj.gen]
  BY <1>1 DEF TemplateIngest
<1>3. /\ T.pc = "ingest" /\ T.pc \in Updating
      /\ UNCHANGED <<cluster, statuses, opaC, watches, keys, queue, switch, unseen, unnoticed>>
  BY DEF TemplateIngest, Updating
<1>4. UNCHANGED <<template, crd, cstr, tStatus, cStatus, opaC, want, live, keys, queue, switch,
                  unnoticed>>
  BY <1>3 DEF cluster, statuses, watches
<1>5. /\ MapsInv /\ StageInv
      /\ T.obj # None /\ T.obj.gen # 0 /\ T.obj.body \in Bodies
      /\ \A r \in Registrars : (k \in live[r] => k \in want[r]) /\ (k \in want[r] => opaT[k] # 0)
      /\ C.pc = "deleteStatus" => opaC[C.item] = 0 /\ keys[C.item] = ""
      /\ switch # "stopped" /\ k \notin queue["template"] =>
           T.obj = template[k] /\ T.read = crd[k]
  BY <1>1, <1>3, TemplateHas
<1>6. /\ \A m \in Controllers \ {"template"} : worker'[m] = worker[m]
      /\ T'.pc = pc /\ T'.item = k /\ T'.obj = T.obj /\ T'.read = T.read /\ C' = C
  BY <1>1, <1>2, TemplateGoes
<1>7. T'.pc \in Updating /\ T'.pc \in {"report", "writeCRD"}
  BY <1>2, <1>6 DEF Updating
<1>8. /\ opaT' = [j \in Kinds |-> opaT'[j]] /\ \A j \in Kinds \ {k} : opaT'[j] = opaT[j]
      /\ opaT'[k] = opaT[k] \/ (opaT'[k] = T.obj.gen /\ T.obj.gen # 0)
      /\ pc = "writeCRD" => opaT'[k] = T.obj.gen
  BY <1>2, <1>5 DEF MapsInv
<1>9. MapsInv'
  BY <1>4, <1>5, <1>8 DEF MapsInv
<1>10. pc = "writeCRD" => T.obj.body = "good"
  BY <1>2, <1>3, <1>5 DEF StageInv, Bodies
<1>11. StageInv'
  BY <1>4, <1>5, <1>6, <1>7, <1>8, <1>10 DEF StageInv, Ingested, Unwatched
<1>12. ASSUME switch # "stopped", k \notin queue'["template"] PROVE TemplateSettled(k)'
  BY <1>4, <1>5, <1>6, <1>7, <1>12 DEF TemplateSettled, OnT
<1> QED
  BY <1>1, <1>3, <1>4, <1>5, <1>6, <1>7, <1>8, <1>9, <1>11, <1>12, TemplateUpdateRest

\* An update that ends with the template queued again.
LEMMA TemplateRetryRest ==
  ASSUME IInv, RestInv, T.pc \in Updating, NEW k \in Kinds, T.item = k, Again("template"),
         UNCHANGED <<cluster, statuses, opa, live, keys, switch>>, unnoticed \subseteq unnoticed',
         want' = [r \in Registrars |-> want'[r]],
         \A r \in Registrars : /\ \A j \in Kinds \ {k} : j \in want'[r] <=> j \in want[r]
                               /\ k \in live[r] => k \in want'[r]
                               /\ k \in want'[r] => opaT[k] # 0
  PROVE  RestInv'
<1>1. UNCHANGED <<template, crd, cstr, tStatus, cStatus, opaT, opaC, live, keys, switch>>
  BY DEF cluster, statuses, opa
<1>2. /\ queue["template"] \subseteq queue'["template"]
      /\ queue["constraint"] \subseteq queue'["constraint"]
      /\ k \in queue'["template"]
  BY RetryArrives DEF T
<1>3. /\ \A m \in Controllers \ {"template"} : worker'[m] = worker[m]
      /\ T'.pc = "idle" /\ C' = C
  BY WorkerDone, Names DEF IInv, T, C, Again
<1>4. T.pc # "idle"
  BY DEF Updating
<1>5. MapsInv'
  BY <1>1 DEF MapsInv, RestInv
<1>6. C.pc = "deleteStatus" => opaC[C.item] = 0 /\ keys[C.item] = ""
  BY DEF RestInv, StageInv
<1>7. StageInv'
  BY <1>1, <1>3, <1>6 DEF StageInv, Ingested, Unwatched
<1> QED
  BY <1>1, <1>2, <1>3, <1>5, <1>7, TemplateUpdateRest

LEMMA TemplateWriteCRDRest ==
  ASSUME IInv, RestInv, TemplateWriteCRD
  PROVE  RestInv'
<1>1. PICK k \in Kinds : k = T.item
  BY DEF TemplateWriteCRD, RestInv, PlaceInv
<1> DEFINE new == [gen |-> T.obj.gen, owner |-> T.obj.uid]
<1>2. PICK pc : /\ Goto("template", pc)
                /\ \/ /\ pc = "watch"
                      /\ crd' = IF T.read = new THEN crd ELSE [crd EXCEPT ![k] = new]
                      /\ Enqueue(IF T.read = new THEN {} ELSE {<<"template", k>>})
                   \/ pc = "report" /\ crd' = crd /\ queue' = queue
  BY <1>1 DEF TemplateWriteCRD
<1>3. /\ T.pc = "writeCRD" /\ T.pc \in Updating /\ T.pc \in Ingested
      /\ UNCHANGED <<template, cstr, statuses, opa, watches, keys, switch, unseen, unnoticed>>
  BY DEF TemplateWriteCRD, Updating, Ingested
<1>4. UNCHANGED <<template, cstr, tStatus, cStatus, opaT, opaC, want, live, keys, switch,
                  unnoticed>>
  BY <1>3 DEF statuses, opa, watches
<1>5. /\ MapsInv /\ StageInv
      /\ T.obj # None
      /\ \A r \in Registrars : (k \in live[r] => k \in want[r]) /\ (k \in want[r] => opaT[k] # 0)
      /\ C.pc = "deleteStatus" => opaC[C.item] = 0 /\ keys[C.item] = ""
      /\ switch # "stopped" /\ k \notin queue["template"] =>
           T.obj = template[k] /\ T.read = crd[k]
  BY <1>1, <1>3, TemplateHas
<1>6. /\ \A m \in Controllers \ {"template"} : worker'[m] = worker[m]
      /\ T'.pc = pc /\ T'.item = k /\ T'.obj = T.obj /\ C' = C
  BY <1>1, <1>2, TemplateGoes
<1>7. T'.pc \in Updating /\ T'.pc \in {"watch", "report"}
  BY <1>2, <1>6 DEF Updating
<1>8. /\ queue["template"] \subseteq queue'["template"]
      /\ queue["constraint"] \subseteq queue'["constraint"]
      /\ pc = "watch" /\ T.read # new => k \in queue'["template"]
  <2>1. CASE queue' = queue /\ pc = "report"
    BY <2>1
  <2>2. CASE Enqueue(IF T.read = new THEN {} ELSE {<<"template", k>>})
    <3>1. T.read # new => <<"template", k>> \in (IF T.read = new THEN {} ELSE {<<"template", k>>})
      OBVIOUS
    <3> QED
      BY <2>2, <3>1, EventsArrive
  <2> QED
    BY <1>2, <2>1, <2>2
<1>9. /\ crd' = [j \in Kinds |-> crd'[j]] /\ \A j \in Kinds \ {k} : crd'[j] = crd[j]
      /\ pc = "watch" /\ T.read = new => crd'[k] = crd[k]
  BY <1>2, <1>5 DEF MapsInv
<1>10. MapsInv'
  BY <1>4, <1>5, <1>9 DEF MapsInv
<1>11. StageInv'
  BY <1>1, <1>3, <1>4, <1>5, <1>6, <1>7 DEF StageInv, Unwatched, Ingested
<1>12. ASSUME switch # "stopped", k \notin queue'["template"] PROVE TemplateSettled(k)'
  <2>1. T'.obj = template'[k] /\ (T'.pc = "watch" => crd'[k] = new) /\ OnT(k)'
    BY <1>4, <1>5, <1>6, <1>7, <1>8, <1>9, <1>12 DEF OnT
  <2> QED
    BY <1>6, <1>7, <2>1 DEF TemplateSettled
<1> QED
  BY <1>1, <1>3, <1>4, <1>5, <1>6, <1>7, <1>8, <1>9, <1>10, <1>11, <1>12, TemplateUpdateRest

LEMMA TemplateAddWatchRest ==
  ASSUME IInv, RestInv, NEW r \in Registrars, NEW next, AddWatch(r, next),
         \/ T.pc = "watch" /\ r = "w" /\ next = "watchStatus"
         \/ T.pc = "watchStatus" /\ r = "statusW" /\ next = "succeed",
         UNCHANGED <<cluster, statuses, opa, keys, switch, unseen, unnoticed>>
  PROVE  RestInv'
<1>1. T.pc \in Updating /\ T.pc \in Ingested /\ T.pc # "idle"
  BY DEF Updating, Ingested
<1>2. PICK k \in Kinds : k = T.item
  BY <1>1 DEF RestInv, PlaceInv
<1>3. UNCHANGED <<template, crd, cstr, tStatus, cStatus, opaT, opaC, keys, switch, unnoticed>>
  BY DEF cluster, statuses, opa
<1>4. /\ MapsInv /\ StageInv
      /\ T.obj # None /\ T.obj.gen # 0
      /\ \A q \in Registrars : (k \in live[q] => k \in want[q]) /\ (k \in want[q] => opaT[k] # 0)
      /\ C.pc = "deleteStatus" => opaC[C.item] = 0 /\ keys[C.item] = ""
      /\ switch # "stopped" /\ k \notin queue["template"] =>
           /\ T.obj = template[k]
           /\ crd[k] = [gen |-> T.obj.gen, owner |-> T.obj.uid]
  BY <1>1, <1>2, TemplateHas
<1>5. T.obj.body = "good" /\ opaT[k] = T.obj.gen /\ opaT[k] # 0
  BY <1>1, <1>2, <1>4 DEF StageInv
<1>6. /\ want' = [q \in Registrars |-> want'[q]]
      /\ want'[r] = want[r] \cup {k} /\ \A q \in Registrars \ {r} : want'[q] = want[q]
  BY <1>2, <1>4 DEF AddWatch, MapsInv
<1>7. CASE Again("template") /\ UNCHANGED live
  BY <1>1, <1>2, <1>4, <1>5, <1>6, <1>7, TemplateRetryRest
<1>8. CASE /\ live' = [live EXCEPT ![r] = @ \cup {k}]
           /\ Enqueue({<<"constraint", c>> : c \in IF k \in live[r] THEN {} ELSE Existing(k)})
           /\ Goto("template", next)
  <2>1. /\ live' = [q \in Registrars |-> live'[q]]
        /\ live'[r] = live[r] \cup {k} /\ \A q \in Registrars \ {r} : live'[q] = live[q]
    BY <1>4, <1>8 DEF MapsInv
  <2>2. /\ \A m \in Controllers \ {"template"} : worker'[m] = worker[m]
        /\ T'.pc = next /\ T'.item = k /\ T'.obj = T.obj /\ C' = C
    BY <1>2, <1>8, TemplateGoes
  <2>3. T'.pc \in Updating /\ T'.pc \in {"watchStatus", "succeed"}
    BY <2>2 DEF Updating
  <2>4. /\ queue["template"] \subseteq queue'["template"]
        /\ queue["constraint"] \subseteq queue'["constraint"]
        /\ k \notin live[r] => Existing(k) \subseteq queue'["constraint"]
    <3> DEFINE events == {<<"constraint", c>> : c \in IF k \in live[r] THEN {} ELSE Existing(k)}
    <3>1. ASSUME k \notin live[r], NEW c \in Existing(k) PROVE <<"constraint", c>> \in events
      BY <3>1
    <3>2. Enqueue(events)
      BY <1>8
    <3> HIDE DEF events
    <3> QED
      BY <3>1, <3>2, EventsArrive
  <2>5. MapsInv'
    BY <1>3, <1>4, <1>6, <2>1 DEF MapsInv
  <2>6. /\ T'.item \in live'["w"]
        /\ T'.pc = "succeed" => T'.item \in live'["statusW"]
    BY <1>2, <1>4, <2>1, <2>2 DEF StageInv, Registrars
  <2>7. StageInv'
    <3>1. T'.pc \in Ingested /\ T'.pc \notin Unwatched /\ T'.pc \notin {"reportCRD", "getCRD", "ingest"}
      BY <2>3 DEF Ingested, Unwatched
    <3>2. T'.obj.body = "good" /\ opaT'[T'.item] = T'.obj.gen
      BY <1>3, <1>5, <2>2
    <3> QED
      BY <1>3, <1>4, <2>2, <2>3, <2>6, <3>1, <3>2 DEF StageInv
  <2>8. ASSUME switch # "stopped", k \notin queue'["template"] PROVE TemplateSettled(k)'
    <3>1. T'.obj = template'[k] /\ OnT(k)' /\ crd'[k] = [gen |-> T'.obj.gen, owner |-> T'.obj.uid]
      BY <1>3, <1>4, <2>2, <2>3, <2>4, <2>8 DEF OnT
    <3> QED
      BY <2>2, <2>3, <3>1 DEF TemplateSettled
  <2>9. k \in live'["w"] \ live["w"] => Existing(k) \subseteq queue'["constraint"]
    BY <2>1, <2>4 DEF Registrars
  <2>10. \A q \in Registrars : /\ k \in live[q] => k \in live'[q]
                               /\ k \in live'[q] => k \in want'[q]
                               /\ k \in want'[q] => opaT'[k] # 0
    BY <1>3, <1>4, <1>5, <1>6, <2>1
  <2>11. \A j \in Kinds \ {k} : \A q \in Registrars :
           (j \in live'[q] <=> j \in live[q]) /\ (j \in want'[q] <=> j \in want[q])
    BY <1>6, <2>1
  <2> QED
    BY <1>1, <1>2, <1>3, <2>2, <2>3, <2>4, <2>5, <2>7, <2>8, <2>9, <2>10, <2>11,
       TemplateUpdateRest
<1> QED
  BY <1>2, <1>7, <1>8 DEF AddWatch

\* A deletion that ends with the template queued again.
LEMMA TemplateDeletionRetryRest ==
  ASSUME IInv, RestInv, T.pc \in Deleting, NEW k \in Kinds, T.item = k, Again("template"),
         UNCHANGED <<cluster, statuses, opa, keys, switch>>,
         unnoticed \cup {k} \subseteq unnoticed',
         MapsInv',
         \A j \in Kinds \ {k} : \A r \in Registrars :
           (j \in live'[r] <=> j \in live[r]) /\ (j \in want'[r] <=> j \in want[r]),
         \A r \in Registrars : /\ k \in live'[r] => k \in live[r] /\ k \in want'[r]
                               /\ k \in want'[r] => k \in want[r]
  PROVE  RestInv'
<1>1. UNCHANGED <<template, crd, cstr, tStatus, cStatus, opaT, opaC, keys, switch>>
  BY DEF cluster, statuses, opa
<1>2. /\ queue["template"] \subseteq queue'["template"]
      /\ queue["constraint"] \subseteq queue'["constraint"]
      /\ k \in queue'["template"]
  BY RetryArrives DEF T
<1>3. /\ \A m \in Controllers \ {"template"} : worker'[m] = worker[m]
      /\ T'.pc = "idle" /\ C' = C
  BY WorkerDone, Names DEF IInv, T, C, Again
<1>4. C.pc = "deleteStatus" => opaC[C.item] = 0 /\ keys[C.item] = ""
  BY DEF RestInv, StageInv
<1>5. StageInv'
  BY <1>1, <1>3, <1>4 DEF StageInv, Ingested, Unwatched
<1>6. \A c \in Constraints : opaC'[c] = opaC[c] /\ (opaC'[c] # 0 => opaT'[KindOf[c]] # 0)
  BY <1>1 DEF RestInv, OpaInv
<1> QED
  BY <1>1, <1>2, <1>3, <1>5, <1>6, TemplateDeletionRest

LEMMA TemplateRemoveWatchRest ==
  ASSUME IInv, RestInv, NEW r \in Registrars, NEW next, RemoveWatch(r, next),
         \/ T.pc = "unwatch" /\ r = "w" /\ next = "unwatchStatus"
         \/ T.pc = "unwatchStatus" /\ r = "statusW" /\ next = "remove",
         UNCHANGED <<cluster, statuses, opa, keys, switch>>
  PROVE  RestInv'
<1>1. T.pc \in Deleting /\ T.pc # "idle"
  BY DEF Deleting, Unwatched
<1>2. PICK k \in Kinds : k = T.item
  BY <1>1 DEF RestInv, PlaceInv
<1>3. UNCHANGED <<template, crd, cstr, tStatus, cStatus, opaT, opaC, keys, switch>>
  BY DEF cluster, statuses, opa
<1>4. /\ MapsInv /\ StageInv
      /\ \A q \in Registrars : (k \in live[q] => k \in want[q])
      /\ C.pc = "deleteStatus" => opaC[C.item] = 0 /\ keys[C.item] = ""
  BY <1>1, <1>2, TemplateHas
<1>5. /\ want' = [q \in Registrars |-> want'[q]]
      /\ want'[r] = want[r] \ {k} /\ \A q \in Registrars \ {r} : want'[q] = want[q]
  BY <1>2, <1>4 DEF RemoveWatch, MapsInv
<1>6. /\ live' = [q \in Registrars |-> live'[q]]
      /\ live'[r] = live[r] \ {k} /\ \A q \in Registrars \ {r} : live'[q] = live[q]
  BY <1>2, <1>4 DEF RemoveWatch, MapsInv
<1>7. MapsInv'
  BY <1>3, <1>4, <1>5, <1>6 DEF MapsInv
<1>8. /\ \A j \in Kinds \ {k} : \A q \in Registrars :
           (j \in live'[q] <=> j \in live[q]) /\ (j \in want'[q] <=> j \in want[q])
      /\ \A q \in Registrars : /\ k \in live'[q] => k \in live[q] /\ k \in want'[q]
                               /\ k \in want'[q] => k \in want[q]
  BY <1>4, <1>5, <1>6
<1>9. CASE Again("template") /\ unnoticed' = unnoticed \cup {k}
  BY <1>1, <1>2, <1>7, <1>8, <1>9, TemplateDeletionRetryRest
<1>10. CASE Goto("template", next) /\ UNCHANGED <<queue, unseen, unnoticed>>
  <2>1. /\ \A m \in Controllers \ {"template"} : worker'[m] = worker[m]
        /\ T'.pc = next /\ T'.item = k /\ T'.obj = T.obj /\ C' = C
    BY <1>2, <1>10, TemplateGoes
  <2>2. T'.pc \in Deleting /\ T'.pc \in {"unwatchStatus", "remove"}
    BY <2>1 DEF Deleting, Unwatched
  <2>3. /\ k \notin want'["w"]
        /\ T'.pc = "remove" => k \notin want'["statusW"]
    BY <1>2, <1>4, <1>5, <2>1 DEF StageInv, Unwatched, Registrars
  <2>4. StageInv'
    BY <1>3, <1>4, <2>1, <2>2, <2>3 DEF StageInv, Ingested
  <2>5. \A c \in Constraints : opaC'[c] = opaC[c] /\ (opaC'[c] # 0 => opaT'[KindOf[c]] # 0)
    BY <1>3 DEF RestInv, OpaInv
  <2>6. UNCHANGED <<queue, unnoticed>>
    BY <1>10
  <2> QED
    BY <1>1, <1>2, <1>3, <1>7, <1>8, <2>1, <2>2, <2>4, <2>5, <2>6, TemplateDeletionRest
<1> QED
  BY <1>2, <1>9, <1>10 DEF RemoveWatch

LEMMA TemplateRemoveRest ==
  ASSUME IInv, RestInv, TemplateRemove
  PROVE  RestInv'
<1>1. PICK k \in Kinds : k = T.item
  BY DEF TemplateRemove, RestInv, PlaceInv
<1>2. /\ T.pc = "remove" /\ T.pc \in Deleting /\ T.pc \in Unwatched \ {"unwatchStatus"}
      /\ opaT' = [opaT EXCEPT ![k] = 0]
      /\ opaC' = [c \in Constraints |-> IF KindOf[c] = k THEN 0 ELSE opaC[c]]
      /\ Goto("template", "deleteStatus")
      /\ UNCHANGED <<cluster, statuses, watches, keys, queue, switch, unseen, unnoticed>>
  BY <1>1 DEF TemplateRemove, Deleting, Unwatched
<1>3. UNCHANGED <<template, crd, cstr, tStatus, cStatus, want, live, keys, queue, switch,
                  unnoticed>>
  BY <1>2 DEF cluster, statuses, watches
<1>4. /\ MapsInv /\ StageInv
      /\ \A q \in Registrars : (k \in live[q] => k \in want[q])
      /\ C.pc = "deleteStatus" => opaC[C.item] = 0 /\ keys[C.item] = ""
  BY <1>1, <1>2, TemplateHas
<1>5. /\ opaT' = [j \in Kinds |-> opaT'[j]] /\ opaT'[k] = 0
      /\ \A j \in Kinds \ {k} : opaT'[j] = opaT[j]
  BY <1>2, <1>4 DEF MapsInv
<1>6. /\ opaC' = [c \in Constraints |-> opaC'[c]]
      /\ \A c \in Constraints : opaC'[c] = IF KindOf[c] = k THEN 0 ELSE opaC[c]
  BY <1>2
<1>7. MapsInv'
  BY <1>3, <1>4, <1>5, <1>6 DEF MapsInv
<1>8. /\ \A m \in Controllers \ {"template"} : worker'[m] = worker[m]
      /\ T'.pc = "deleteStatus" /\ T'.item = k /\ T'.obj = T.obj /\ C' = C
  BY <1>1, <1>2, TemplateGoes
<1>9. T'.pc \in Deleting
  BY <1>8 DEF Deleting, Unwatched
<1>10. \A r \in Registrars : k \notin want'[r] /\ k \notin live[r]
  BY <1>1, <1>2, <1>3, <1>4 DEF StageInv, Unwatched, Registrars
<1>11. C.pc = "deleteStatus" => C.item \in Constraints
  BY DEF RestInv, PlaceInv
<1>12. C'.pc = "deleteStatus" => opaC'[C'.item] = 0 /\ keys'[C'.item] = ""
  BY <1>3, <1>4, <1>6, <1>8, <1>11
<1>13. StageInv'
  BY <1>5, <1>8, <1>10, <1>12 DEF StageInv, Ingested, Unwatched, Registrars
<1>14. k \notin live["w"]
  BY <1>10 DEF Registrars
<1> QED
  BY <1>1, <1>2, <1>3, <1>5, <1>6, <1>7, <1>8, <1>9, <1>10, <1>13, <1>14, TemplateDeletionRest

LEMMA TemplateDeleteStatusRest ==
  ASSUME IInv, RestInv, TemplateDeleteStatus
  PROVE  RestInv'
<1>1. PICK k \in Kinds : k = T.item
  BY DEF TemplateDeleteStatus, RestInv, PlaceInv
<1> DEFINE todo == {c \in OfKind(k) : cStatus[c] # None}
<1>2. /\ T.pc = "deleteStatus" /\ T.pc \in Deleting /\ T.pc \in Unwatched \ {"unwatchStatus"}
      /\ tStatus' = [tStatus EXCEPT ![k] = None]
      /\ Enqueue(IF tStatus[k] # None THEN TemplateStatusEvent(k) ELSE {})
      /\ worker' = [worker EXCEPT !["template"].pc = "deleteStatuses", !["template"].todo = todo]
      /\ UNCHANGED <<cluster, cStatus, opa, watches, keys, switch, unseen, unnoticed>>
  BY <1>1 DEF TemplateDeleteStatus, Deleting, Unwatched
<1>3. UNCHANGED <<template, crd, cstr, cStatus, opaT, opaC, want, live, keys, switch, unnoticed>>
  BY <1>2 DEF cluster, opa, watches
<1>4. /\ MapsInv /\ StageInv /\ BooksInv
      /\ \A q \in Registrars : (k \in live[q] => k \in want[q])
      /\ C.pc = "deleteStatus" => opaC[C.item] = 0 /\ keys[C.item] = ""
  BY <1>1, <1>2, TemplateHas
<1>5. tStatus'[k] = None /\ \A j \in Kinds \ {k} : tStatus'[j] = tStatus[j]
  BY <1>2, <1>4 DEF BooksInv
<1>6. /\ \A m \in Controllers \ {"template"} : worker'[m] = worker[m]
      /\ T'.pc = "deleteStatuses" /\ T'.item = k /\ T'.obj = T.obj /\ T'.todo = todo /\ C' = C
  BY <1>1, <1>2, WorkerPcTodo, Names DEF IInv, T, C
<1>7. /\ queue["template"] \subseteq queue'["template"]
      /\ queue["constraint"] \subseteq queue'["constraint"]
  BY <1>2, EventsArrive
<1>8. MapsInv'
  BY <1>3, <1>4 DEF MapsInv
<1>9. T'.pc \in Deleting
  BY <1>6 DEF Deleting, Unwatched
<1>10. StageInv'
  <2>1. k \notin want["w"] /\ k \notin want["statusW"] /\ opaT[k] = 0
    BY <1>1, <1>2, <1>4 DEF StageInv, Unwatched
  <2> QED
    BY <1>3, <1>4, <1>5, <1>6, <2>1 DEF StageInv, Ingested
<1>11. \A c \in Constraints : KindOf[c] = k /\ cStatus[c] # None => c \in T'.todo
  BY <1>6 DEF OfKind
<1>12. \A c \in Constraints : opaC'[c] = opaC[c] /\ (opaC'[c] # 0 => opaT'[KindOf[c]] # 0)
  BY <1>3 DEF RestInv, OpaInv
<1>13. \A r \in Registrars : /\ k \in live'[r] => k \in live[r] /\ k \in want'[r]
                             /\ k \in want'[r] => k \in want[r]
  BY <1>3, <1>4
<1>14. \A c \in Constraints :
         IF KindOf[c] = k
         THEN /\ opaC'[c] = opaC[c] \/ (opaC'[c] = 0 /\ k \notin live["w"])
              /\ opaC'[c] # 0 => opaT'[k] # 0
              /\ c \notin queue'["constraint"] =>
                   /\ cStatus'[c] = cStatus[c]
                   /\ T'.pc = "deleteStatuses" /\ cStatus[c] # None =>
                        c \in T'.todo \/ (T.pc = "deleteStatuses" /\ c \notin T.todo)
         ELSE opaC'[c] = opaC[c] /\ (c \in queue'["constraint"] \/ cStatus'[c] = cStatus[c])
  BY <1>3, <1>11, <1>12
<1>15. \A j \in Kinds \ {k} :
         /\ opaT'[j] = opaT[j] /\ tStatus'[j] = tStatus[j]
         /\ \A r \in Registrars : (j \in live'[r] <=> j \in live[r]) /\ (j \in want'[r] <=> j \in want[r])
  BY <1>3, <1>5
<1>16. UNCHANGED <<template, crd, cstr, keys, switch>> /\ unnoticed \subseteq unnoticed'
       /\ opaT'[k] = opaT[k]
  BY <1>3
<1> QED
  BY <1>1, <1>2, <1>6, <1>7, <1>8, <1>9, <1>10, <1>13, <1>14, <1>15, <1>16,
     TemplateDeletionRest

LEMMA TemplateDeleteStatusesRest ==
  ASSUME IInv, RestInv, TemplateDeleteStatuses
  PROVE  RestInv'
<1>1. PICK k \in Kinds : k = T.item
  BY DEF TemplateDeleteStatuses, RestInv, PlaceInv
<1>2. /\ T.pc = "deleteStatuses" /\ T.pc \in Deleting /\ T.pc \in Unwatched \ {"unwatchStatus"}
      /\ UNCHANGED <<cluster, tStatus, opa, watches, keys, switch, unseen>>
  BY DEF TemplateDeleteStatuses, Deleting, Unwatched
<1>3. UNCHANGED <<template, crd, cstr, tStatus, opaT, opaC, want, live, keys, switch>>
  BY <1>2 DEF cluster, opa, watches
<1>4. /\ MapsInv /\ StageInv /\ BooksInv
      /\ \A q \in Registrars : (k \in live[q] => k \in want[q])
      /\ C.pc = "deleteStatus" => opaC[C.item] = 0 /\ keys[C.item] = ""
      /\ OnT(k)
      /\ switch # "stopped" /\ k \notin queue["template"] => T.obj = template[k]
  BY <1>1, <1>2, TemplateHas
<1>5. /\ k \notin want["w"] /\ k \notin want["statusW"] /\ k \notin live["w"]
      /\ opaT[k] = 0 /\ tStatus[k] = None
  BY <1>1, <1>2, <1>4 DEF StageInv, Unwatched, Registrars
<1>6. MapsInv' /\ OpaInv'
  BY <1>3, <1>4 DEF MapsInv, RestInv, OpaInv
<1>7. T.obj = None
  BY <1>2 DEF RestInv, PlaceInv
<1>8. \A c \in Constraints : opaC'[c] = opaC[c] /\ (opaC'[c] # 0 => opaT'[KindOf[c]] # 0)
  BY <1>3 DEF RestInv, OpaInv
<1>9. ASSUME NEW c \in T.todo, cStatus' = [cStatus EXCEPT ![c] = None],
             Enqueue(IF cStatus[c] # None THEN ConstraintStatusEvent(c) ELSE {}),
             worker' = [worker EXCEPT !["template"].todo = T.todo \ {c}],
             UNCHANGED unnoticed
      PROVE  RestInv'
  <2>1. /\ \A m \in Controllers \ {"template"} : worker'[m] = worker[m]
        /\ T'.pc = T.pc /\ T'.item = k /\ T'.obj = T.obj /\ T'.todo = T.todo \ {c} /\ C' = C
    BY <1>1, <1>9, WorkerTodo, Names DEF IInv, T, C
  <2>2. cStatus[c] # None =>
          <<"constraint", c>> \in (IF cStatus[c] # None THEN ConstraintStatusEvent(c) ELSE {})
    BY DEF ConstraintStatusEvent
  <2>3. /\ queue["template"] \subseteq queue'["template"]
        /\ queue["constraint"] \subseteq queue'["constraint"]
        /\ cStatus[c] # None => c \in queue'["constraint"]
    BY <1>9, <2>2, EventsArrive
  <2>4. StageInv'
    BY <1>2, <1>3, <1>4, <1>5, <2>1 DEF StageInv, Ingested
  <2>5. \A d \in Constraints : d \notin queue'["constraint"] =>
          /\ cStatus'[d] = cStatus[d]
          /\ cStatus[d] # None => d \in T'.todo \/ d \notin T.todo
    BY <1>4, <1>9, <2>1, <2>3 DEF BooksInv
  <2>6. \A d \in Constraints :
          IF KindOf[d] = k
          THEN /\ opaC'[d] = opaC[d] \/ (opaC'[d] = 0 /\ k \notin live["w"])
               /\ opaC'[d] # 0 => opaT'[k] # 0
               /\ d \notin queue'["constraint"] =>
                    /\ cStatus'[d] = cStatus[d]
                    /\ T'.pc = "deleteStatuses" /\ cStatus[d] # None =>
                         d \in T'.todo \/ (T.pc = "deleteStatuses" /\ d \notin T.todo)
          ELSE opaC'[d] = opaC[d] /\ (d \in queue'["constraint"] \/ cStatus'[d] = cStatus[d])
    BY <1>2, <1>8, <2>5
  <2>7. /\ \A r \in Registrars : /\ k \in live'[r] => k \in live[r] /\ k \in want'[r]
                                 /\ k \in want'[r] => k \in want[r]
        /\ \A j \in Kinds \ {k} :
             /\ opaT'[j] = opaT[j] /\ tStatus'[j] = tStatus[j]
             /\ \A r \in Registrars :
                  (j \in live'[r] <=> j \in live[r]) /\ (j \in want'[r] <=> j \in want[r])
        /\ UNCHANGED <<template, crd, cstr, keys, switch>> /\ unnoticed \subseteq unnoticed'
        /\ opaT'[k] = opaT[k]
    BY <1>3, <1>4, <1>9
  <2> QED
    BY <1>1, <1>2, <1>6, <2>1, <2>3, <2>4, <2>6, <2>7, TemplateDeletionRest
<1>10. ASSUME T.todo = {}, Done("template"), unnoticed' = unnoticed \ {k},
              UNCHANGED <<cStatus, queue>>
       PROVE  RestInv'
  <2>1. /\ \A m \in Controllers \ {"template"} : worker'[m] = worker[m]
        /\ T'.pc = "idle" /\ C' = C
    BY <1>10, WorkerDone, Names DEF IInv, T, C
  <2>2. PlaceInv'
    BY <1>3, <2>1 DEF PlaceInv, RestInv, Updating, Deleting, Unwatched
  <2>3. StageInv'
    BY <1>3, <1>4, <2>1 DEF StageInv, Ingested, Unwatched
  <2>4. ASSUME switch # "stopped" PROVE TemplateSettled(k)'
    BY <1>3, <1>4, <1>5, <1>7, <1>10, <2>1, <2>4 DEF TemplateSettled, TemplateDone, OnT
  <2>5. ASSUME switch # "stopped", NEW c \in Constraints, KindOf[c] = k
        PROVE  ConstraintSettled(c)'
    <3>1. SUFFICES ASSUME c \notin queue["constraint"]
                   PROVE  ConstraintSettled(c)'
      BY <1>10 DEF ConstraintSettled
    <3>2. /\ ~OnC(c) => ConstraintDone(c)
          /\ OnC(c) => ConstraintInHand(c)
          /\ cStatus[c] = None \/ (OnC(c) /\ C.pc \in Removing)
      BY <1>2, <1>4, <1>10, <2>5, <3>1 DEF RestInv, SettledInv, ConstraintSettled, StatusListed
    <3>3. ~Watched(c)' /\ (OnC(c)' <=> OnC(c)) /\ ~OnT(k)'
      BY <1>3, <1>5, <2>1, <2>5 DEF Watched, OnC, OnT
    <3>4. opaC'[c] = 0 /\ cStatus'[c] = cStatus[c] /\ keys'[c] = keys[c]
      BY <1>3, <1>5, <1>8, <1>10, <2>5
    <3>5. CASE OnC(c)
      <4>1. ConstraintInHand(c)'
        BY <2>1, <3>2, <3>3, <3>4, <3>5 DEF ConstraintInHand, Removing, AtWork
      <4> QED
        BY <2>5, <3>3, <3>5, <4>1 DEF ConstraintSettled, StatusListed
    <3>6. CASE ~OnC(c)
      <4>1. ConstraintDone(c)'
        BY <3>2, <3>3, <3>4, <3>6 DEF ConstraintDone, Gone
      <4> QED
        BY <2>5, <3>3, <3>6, <4>1 DEF ConstraintSettled, StatusListed
    <3> QED
      BY <3>5, <3>6
  <2>6. /\ UNCHANGED <<template, cstr, keys, switch>> /\ unnoticed \ {k} \subseteq unnoticed'
        /\ queue["constraint"] \subseteq queue'["constraint"]
        /\ \A j \in Kinds \ {k} :
             /\ j \in queue["template"] => j \in queue'["template"]
             /\ crd'[j] = crd[j] /\ opaT'[j] = opaT[j] /\ tStatus'[j] = tStatus[j]
             /\ \A r \in Registrars : j \in live'[r] <=> j \in live[r]
        /\ \A c \in Constraints : KindOf[c] # k =>
             opaC'[c] = opaC[c] /\ (c \in queue'["constraint"] \/ cStatus'[c] = cStatus[c])
    BY <1>3, <1>10
  <2> QED
    BY <1>1, <1>6, <2>1, <2>2, <2>3, <2>4, <2>5, <2>6, TemplateStepRest
<1> QED
  BY <1>1, <1>9, <1>10 DEF TemplateDeleteStatuses, T

LEMMA TemplateCallFailsRest ==
  ASSUME IInv, RestInv, TemplateCallFails
  PROVE  RestInv'
<1>1. /\ T.pc \in {"status", "reportCRD", "report", "getCRD", "succeed", "remove", "deleteStatus",
                   "deleteStatuses"}
      /\ Again("template")
      /\ UNCHANGED <<cluster, statuses, opa, watches, keys, switch, unseen>>
      /\ unnoticed' = IF T.obj = None THEN unnoticed \cup {T.item} ELSE unnoticed
  BY DEF TemplateCallFails, CallFails, T
<1>2. T.pc # "idle" /\ (T.pc \in Updating \/ T.pc \in Deleting)
  BY <1>1 DEF Updating, Deleting, Unwatched
<1>3. PICK k \in Kinds : k = T.item
  BY <1>2 DEF RestInv, PlaceInv
<1>4. UNCHANGED <<want, live>> /\ want' = [r \in Registrars |-> want'[r]]
  BY <1>1 DEF RestInv, MapsInv, watches
<1>5. \A r \in Registrars : (k \in live[r] => k \in want[r]) /\ (k \in want[r] => opaT[k] # 0)
  BY <1>2, <1>3, TemplateHas
<1>6. CASE T.pc \in Updating
  BY <1>1, <1>3, <1>4, <1>5, <1>6, TemplateRetryRest
<1>7. CASE T.pc \in Deleting
  <2>1. unnoticed \cup {k} \subseteq unnoticed'
    BY <1>1, <1>3, <1>7 DEF RestInv, PlaceInv
  <2>2. MapsInv'
    BY <1>1, <1>4 DEF RestInv, MapsInv, cluster, opa
  <2> QED
    BY <1>1, <1>3, <1>4, <1>5, <1>7, <2>1, <2>2, TemplateDeletionRetryRest
<1> QED
  BY <1>2, <1>6, <1>7

LEMMA TemplateRest ==
  ASSUME IInv, RestInv, TemplateStep
  PROVE  RestInv'
<1>1. ASSUME TemplateReport PROVE RestInv'
  <2>1. /\ T.pc \in {"reportCRD", "report"} /\ T.pc \in Updating
        /\ SetTemplateStatus(T.item, TRUE, IF T.pc = "report" THEN {<<"template", T.item>>} ELSE {})
        /\ Done("template")
        /\ UNCHANGED <<cluster, cStatus, opa, watches, keys, switch, unnoticed>>
    BY <1>1 DEF TemplateReport, Updating
  <2>2. T.pc = "report" =>
          <<"template", T.item>> \in (IF T.pc = "report" THEN {<<"template", T.item>>} ELSE {})
    OBVIOUS
  <2>3. T.pc = "reportCRD" => TRUE = (T.obj.body # "good")
    BY DEF RestInv, StageInv
  <2> QED
    BY <2>1, <2>2, <2>3, TemplateReportedRest
<1>2. ASSUME TemplateSucceed PROVE RestInv'
  <2>1. /\ T.pc = "succeed" /\ T.pc \in Updating /\ T.pc \in Ingested
        /\ SetTemplateStatus(T.item, FALSE, {}) /\ Done("template")
        /\ UNCHANGED <<cluster, cStatus, opa, watches, keys, switch, unnoticed>>
    BY <1>2 DEF TemplateSucceed, Updating, Ingested
  <2>2. FALSE = (T.obj.body # "good")
    BY <2>1 DEF RestInv, StageInv
  <2> QED
    BY <2>1, <2>2, TemplateReportedRest
<1>3. ASSUME TemplateWatch PROVE RestInv'
  BY <1>3, TemplateAddWatchRest DEF TemplateWatch, Registrars
<1>4. ASSUME TemplateUnwatch PROVE RestInv'
  BY <1>4, TemplateRemoveWatchRest DEF TemplateUnwatch, Registrars
<1> QED
  BY <1>1, <1>2, <1>3, <1>4, TemplateReadRest, TemplateGetStatusRest, TemplateGetCRDRest,
     TemplateIngestRest, TemplateWriteCRDRest, TemplateRemoveRest,
     TemplateDeleteStatusRest, TemplateDeleteStatusesRest, TemplateCallFailsRest
  DEF TemplateStep

LEMMA RestInit == Init => RestInv
<1> SUFFICES ASSUME Init PROVE RestInv
  OBVIOUS
<1>1. Idle.pc = "idle"
  BY DEF Idle, Work
<1>2. T.pc = "idle" /\ C.pc = "idle"
  BY <1>1, Names DEF Init, T, C
<1>3. PlaceInv
  BY <1>2 DEF PlaceInv, Updating, Deleting, Unwatched, AtWork, Removing
<1>4. GenInv /\ MapsInv
  BY DEF Init, GenInv, MapsInv
<1>5. OpaInv
  BY TemplateAssumption DEF Init, OpaInv
<1>6. StageInv
  BY <1>2 DEF StageInv, Ingested, Unwatched
<1>7. ASSUME NEW k \in Kinds PROVE TemplateSettled(k)
  BY <1>2, <1>7 DEF Init, TemplateSettled, OnT, TemplateDone
<1>8. ASSUME NEW c \in Constraints PROVE ConstraintSettled(c)
  BY <1>2, <1>8 DEF Init, ConstraintSettled, OnC, OnT, ConstraintDone, Watched, Gone, StatusListed
<1> QED
  BY <1>3, <1>4, <1>5, <1>6, <1>7, <1>8 DEF RestInv, SettledInv

LEMMA RestNext == IInv /\ RestInv /\ [Next]_vars => RestInv'
<1> SUFFICES ASSUME IInv, RestInv, [Next]_vars PROVE RestInv'
  OBVIOUS
<1>1. CASE Stop
  <2>1. /\ UNCHANGED <<template, crd, cstr, opaT, opaC, want, live, keys, tStatus, cStatus>>
        /\ T' = T /\ C' = C /\ switch' = "stopped"
    BY <1>1 DEF Stop, cluster, statuses, opa, watches, T, C
  <2>2. PlaceInv' /\ GenInv'
    BY <2>1 DEF RestInv, PlaceInv, GenInv
  <2>3. MapsInv' /\ OpaInv'
    BY <2>1 DEF RestInv, MapsInv, OpaInv
  <2>4. StageInv'
    BY <2>1 DEF RestInv, StageInv
  <2>5. SettledInv'
    BY <2>1 DEF SettledInv
  <2> QED
    BY <2>2, <2>3, <2>4, <2>5 DEF RestInv
<1>2. CASE UNCHANGED vars
  <2>1. /\ UNCHANGED <<template, crd, cstr, opaT, opaC, want, live, keys, tStatus, cStatus,
                       queue, switch, unnoticed>>
        /\ T' = T /\ C' = C
    BY <1>2 DEF vars, cluster, statuses, opa, watches, T, C
  <2>2. PlaceInv' /\ GenInv'
    BY <2>1 DEF RestInv, PlaceInv, GenInv
  <2>3. MapsInv' /\ OpaInv'
    BY <2>1 DEF RestInv, MapsInv, OpaInv
  <2>4. StageInv'
    BY <2>1 DEF RestInv, StageInv
  <2>5. ASSUME NEW k \in Kinds, TemplateSettled(k) PROVE TemplateSettled(k)'
    BY <2>1, <2>5, TemplateStays
  <2>6. ASSUME NEW c \in Constraints, ConstraintSettled(c) PROVE ConstraintSettled(c)'
    <3>1. (Watched(c)' <=> Watched(c)) /\ (OnT(KindOf[c])' <=> OnT(KindOf[c]))
      BY <2>1 DEF Watched, OnT
    <3>2. Excused(KindOf[c]) => Excused(KindOf[c])'
      BY <2>1, ExcuseStays
    <3> QED
      BY <2>1, <2>6, <3>1, <3>2, ConstraintStays
  <2>7. SettledInv'
    BY <2>1, <2>5, <2>6 DEF RestInv, SettledInv
  <2> QED
    BY <2>2, <2>3, <2>4, <2>7 DEF RestInv
<1> QED
  BY <1>1, <1>2, UserRest, StatusRest, ConstraintRest, TemplateRest DEF Next

(***************************************************************************)
(* What the template and the constraint controller still have to do is     *)
(* queued, in the hands of a worker, or excused by a deletion under way.   *)
(***************************************************************************)
THEOREM RestInvariance == Spec => []RestInv
BY Invariance, RestInit, RestNext, PTL DEF Spec

(***************************************************************************)
(* At rest OPA, the watches, the CRDs, the statuses of the pod and the     *)
(* metrics cache say what the templates and the constraints of the cluster *)
(* say, and nothing is left of a deleted template, in whatever order the   *)
(* users changed them, the workers read and wrote and the calls failed.    *)
(* The one thing that may be left is what RestReconciled names: of the     *)
(* constraints of a template that lives, if they may have changed without  *)
(* an event.                                                               *)
(***************************************************************************)
THEOREM RestIsReconciled == Spec => []RestReconciled
<1>1. RestInv => RestReconciled
  <2> SUFFICES ASSUME RestInv, Rest, NEW k \in Kinds PROVE Reconciled(k)
    BY DEF RestReconciled
  <2>1. T.pc = "idle" /\ C.pc = "idle" /\ queue["template"] = {} /\ queue["constraint"] = {}
    BY Names DEF Rest, AllIdle, T, C
  <2>2. TemplateDone(k)
    BY <2>1 DEF RestInv, SettledInv, Rest, TemplateSettled, OnT
  <2>3. ASSUME NEW c \in OfKind(k) PROVE ConstraintDone(c) /\ KindOf[c] = k
    BY <2>1 DEF RestInv, SettledInv, Rest, ConstraintSettled, OnC, OfKind
  <2>4. template[k] = None => \A r \in Registrars : k \notin want[r] \cup live[r]
    BY <2>2 DEF TemplateDone, RestInv, OpaInv
  <2>5. Excused(k) => Unnoticed(k)
    BY <2>1 DEF Excused, OnT, Unnoticed
  <2>6. ASSUME NEW c \in OfKind(k)
        PROVE  IF cstr[c] # None /\ k \in live["w"] THEN Enforced(c) ELSE Gone(c) \/ Unnoticed(k)
    BY <2>3, <2>5 DEF ConstraintDone, Watched
  <2> QED
    BY <2>2, <2>4, <2>6 DEF Reconciled, TemplateDone
<1> QED
  BY <1>1, RestInvariance, PTL
===============================================================================
