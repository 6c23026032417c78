-------------------------------- MODULE Webhook --------------------------------
(***************************************************************************)
(* The admission webhooks (pkg/webhook): the validation handler with its   *)
(* semaphore of serving threads, the mutation handler and the handler of   *)
(* the ignore label.  Each request is a process.  While it runs, the       *)
(* controllers replace the excluder and load or drop policies, namespaces  *)
(* change in the cluster, and the cache of namespaces lags behind.         *)
(*                                                                         *)
(* A constraint is named by its enforcement action and has the match of    *)
(* the scenario, and so has the mutator, an Assign.  Whether an object     *)
(* breaks the rule of the constraints, and what the mutator makes of it,   *)
(* are attributes of the object.                                           *)
(*                                                                         *)
(* External: the API server, the cache of controller-runtime, OPA's        *)
(* evaluation of a rule.                                                   *)
(***************************************************************************)
EXTENDS Matching, Integers

CONSTANTS
  MaxRequests,  \* bound: admission requests
  Namespaces,
  NamespaceLabels, \* the sets of labels a namespace may have
  Configs,      \* the match sections of the Config: sets of [namespaces, processes]
  Inputs,       \* the admission requests of each scenario
  exemptNamespaces, \* names covered by exempt-namespace and exempt-namespace-prefix
  Scenarios     \* where behaviours start (policies, the Config, namespaces), the
                \* flags, and the bounds: requests, changes, failed calls and
                \* cancelled requests

\* The namespaces that a handler may be given.
AsNamespace(n, labels) == [name |-> n, labels |-> labels]

ObjectsOf(in) == {in.object, in.oldObject} \ {None}

ASSUME WebhookAssumption ==
  /\ None \notin {"Cluster", "Namespaced"}
  /\ None \notin {AsNamespace(n, labels) : n \in Namespaces, labels \in NamespaceLabels}
  /\ None \notin NamespaceLabels /\ \A labels \in NamespaceLabels : IsLabels(labels)
  /\ \A s \in Scenarios :
       /\ s.cluster \in [Namespaces -> NamespaceLabels \cup {None}]
       /\ s.cache \in [Namespaces -> NamespaceLabels \cup {None}]
       /\ \A c \in s.confs :
            /\ IsMatch(c.match) /\ c.maxServingThreads \in Int
            /\ \A in \in Inputs[c.inputs] :
                 /\ in # None /\ in.hook \in {"admit", "mutate", "label"}
                 /\ in.op # "DELETE" => in.object # None
                 /\ \A o \in ObjectsOf(in) :
                      /\ o.namespace \in Namespaces \cup {NoNamespace}
                      /\ isNamespace(o) => o.namespace = NoNamespace
                      /\ IsLabels(o.labels) /\ None # AsNamespace(o.name, o.labels)

VARIABLES
  conf,       \* the match of the policies, applyTo of the mutator, the flags
  opa,        \* the constraints in OPA
  mutator,    \* is the mutator in the mutation system?
  config,     \* the match section of the Config the excluder was made from
  excluder,   \* per process: the excluded namespaces
  cluster,    \* the namespaces in the cluster, by their labels
  cache,      \* the namespaces in the cache of the client
  semaphore,  \* how many serving threads are taken
  req,        \* the requests
  budget,     \* what is left of the bounds
  held        \* history: what was true since a request arrived

world == <<conf, opa, mutator, config, excluder, cluster, cache>>
vars == <<world, semaphore, req, budget, held>>

Requests == 1..MaxRequests
Actions == {"deny", "warn", "dryrun", "unrecognized"}

May(what)   == budget[what] > 0
Spend(what) == budget' = [budget EXCEPT ![what] = @ - 1]

NoRequest == [pc |-> "none", in |-> None, obj |-> None, ns |-> None, resp |-> "none"]

-------------------------------------------------------------------------------
\* The process excluder

Process(in) == IF in.hook = "mutate" THEN "mutation-webhook" ELSE "webhook"

\* Fault: the processes that "*" stands for lack the webhook.
allProcesses_NoWebhook == {"audit", "sync"}

allProcesses == {"audit", "webhook", "sync"}

\* Excluder.Add on an empty excluder.
Add(entries) ==
  [p \in {"audit", "sync", "webhook", "mutation-webhook"} |->
     UNION {e.namespaces : e \in {x \in entries : \/ p \in x.processes
                                                  \/ "*" \in x.processes /\ p \in allProcesses}}]

\* The excluder looks at the name of a namespace.
NamespaceName(o) == IF isNamespace(o) THEN o.name ELSE o.namespace

\* An object that cannot be decoded is not excluded.
skipExcludedNamespace(o, process) ==
  o.flaw # "undecodable" /\ covers(excluder[process], NamespaceName(o))

-------------------------------------------------------------------------------
\* What a request ought to meet

\* On DELETE the handler reviews the old object.
Reviewed(in) == IF in.op = "DELETE" THEN in.oldObject ELSE in.object

\* Every version of the namespace that the handler may be given.
Visible(in) ==
  LET n == Reviewed(in).namespace
  IN  IF isNamespace(Reviewed(in)) \/ n = NoNamespace THEN {None}
      ELSE {AsNamespace(n, v) : v \in {cluster[n], cache[n]} \ {None}}

isGatekeeperResource(o) ==
  o.group \in {"templates", "constraints", "mutations", "config", "status"}

\* The namespace that the mutation handler passes: a namespace is its own.
GoNamespace(o, ns) == IF isNamespace(o) THEN AsNamespace(o.name, o.labels) ELSE ns

\* AssignMutator.Matches.
MutatorMatches(o, ns) == AppliesTo(conf.applyTo, o) /\ Matches(conf.match, o, ns)

InScope(in, ns) ==
  LET o == Reviewed(in)
  IN  IF in.hook = "admit"
      THEN matching_constraints(conf.match, AdmissionReview(o, in.oldObject, ns), {})
      ELSE MutatorMatches(o, GoNamespace(o, ns))

InForce(in) ==
  IF in.hook = "admit"
  THEN "deny" \in opa /\ Reviewed(in).bad
  ELSE /\ mutator /\ Reviewed(in).effect = "mutated"
       /\ in.op \in {"CREATE", "UPDATE"} /\ ~isGatekeeperResource(Reviewed(in))

\* Is the namespace in the Config, for this process or for all of them?
\* "*" does not reach the mutation webhook.
Listed(in) ==
  \E e \in config :
    /\ covers(e.namespaces, NamespaceName(Reviewed(in)))
    /\ \/ Process(in) \in e.processes
       \/ "*" \in e.processes /\ in.hook # "mutate"

Facts(in) ==
  IF in = None \/ in.hook = "label" \/ Reviewed(in) = None THEN {}
  ELSE {IF Listed(in) THEN "excluded" ELSE "included",
        IF InForce(in) THEN "inForce" ELSE "notInForce"} \cup
       {fact \in {"inScope", "outOfScope"} :
          \A ns \in Visible(in) : InScope(in, ns) <=> fact = "inScope"}

Remember == held' = [r \in Requests |-> held[r] \cap Facts(req[r].in)']

-------------------------------------------------------------------------------
\* The world around the handlers

ConfigChange ==
  /\ May("changes") /\ Spend("changes")
  /\ \E c \in Configs \ {config} : config' = c /\ excluder' = Add(c)
  /\ UNCHANGED <<conf, opa, mutator, cluster, cache, semaphore, req>>
  /\ Remember

ConstraintChange(a) ==
  /\ May("changes") /\ Spend("changes")
  /\ opa' = IF a \in opa THEN opa \ {a} ELSE opa \cup {a}
  /\ UNCHANGED <<conf, mutator, config, excluder, cluster, cache, semaphore, req>>
  /\ Remember

MutatorChange ==
  /\ May("changes") /\ Spend("changes")
  /\ mutator' = ~mutator
  /\ UNCHANGED <<conf, opa, config, excluder, cluster, cache, semaphore, req>>
  /\ Remember

NamespaceChange(n) ==
  /\ May("changes") /\ Spend("changes")
  /\ \E v \in (NamespaceLabels \cup {None}) \ {cluster[n]} : cluster' = [cluster EXCEPT ![n] = v]
  /\ UNCHANGED <<conf, opa, mutator, config, excluder, cache, semaphore, req>>
  /\ Remember

CacheUpdate(n) ==
  /\ cache[n] # cluster[n]
  /\ cache' = [cache EXCEPT ![n] = cluster[n]]
  /\ UNCHANGED <<conf, opa, mutator, config, excluder, cluster, semaphore, req, budget>>
  /\ Remember

Arrive(r) ==
  /\ req[r].pc = "none" /\ \A q \in 1..r - 1 : req[q].pc # "none"
  /\ May("requests") /\ Spend("requests")
  /\ \E in \in Inputs[conf.inputs] :
       /\ req' = [req EXCEPT ![r] = [NoRequest EXCEPT !.pc = in.hook, !.in = in, !.obj = in.object]]
       /\ held' = [held EXCEPT ![r] = Facts(in)]
  /\ UNCHANGED <<world, semaphore>>

-------------------------------------------------------------------------------
\* Steps of a handler

At(r, hook, pc) == req[r].in # None /\ req[r].in.hook = hook /\ req[r].pc = pc
Goto(r, pc) == req' = [req EXCEPT ![r].pc = pc]

Respond(r, resp) == req' = [req EXCEPT ![r].pc = "done", ![r].resp = resp,
                                       ![r].obj = None, ![r].ns = None]

Only == UNCHANGED <<world, semaphore, budget, held>>

isGkServiceAccount(in) == in.user = "gatekeeper-admin"

Unknown(r, store) == store[req[r].obj.namespace] = None

Given(r, store) ==
  req' = [req EXCEPT ![r].pc = "work",
                     ![r].ns = AsNamespace(req[r].obj.namespace, store[req[r].obj.namespace])]

\* Fault: a namespace that is not cached yet is taken for none.
NamespaceGet_NotFoundIsNone(r) ==
  \/ ~Unknown(r, cache) /\ Given(r, cache)
  \/ Unknown(r, cache) /\ Goto(r, "work")

\* The client answers from its cache.
NamespaceGet(r) ==
  \/ ~Unknown(r, cache) /\ Given(r, cache)
  \/ Unknown(r, cache) /\ Goto(r, "uncached")

\* The namespace is asked for unless the object has none.
GotoNamespace(r) ==
  Goto(r, IF requestNamespace(req[r].obj) = NoNamespace THEN "work" ELSE "namespace")

-------------------------------------------------------------------------------
\* validationHandler.Handle

AdmitStart(r) ==
  /\ At(r, "admit", "admit")
  /\ LET in == req[r].in
         noOldObject == in.op = "DELETE" /\ in.oldObject = None
     IN  \/ isGkServiceAccount(in) /\ Respond(r, "allow")
         \/ ~isGkServiceAccount(in) /\ noOldObject /\ Respond(r, "error")
         \/ /\ ~isGkServiceAccount(in) /\ ~noOldObject
            /\ req' = [req EXCEPT ![r].pc = "validate", ![r].obj = Reviewed(in)]
  /\ Only

\* What cannot be decoded is an internal error, what the framework or the
\* mutator refuses an error of the user.
Decoded(o) ==
  CASE o.flaw = "undecodable" -> "error"
    [] o.flaw = "rejected"    -> "invalid"
    [] OTHER                  -> "none"

validateTemplate(o) == Decoded(o)
validateAssign(o) == Decoded(o)
validateAssignMetadata(o) == Decoded(o)

\* An enforcement action that is not supported is reported as an internal error.
validateConstraint(o) ==
  IF o.flaw = "badAction" /\ ~conf.disableActionValidation THEN "error" ELSE Decoded(o)

\* Here the flaw is the name of the resource.
validateConfigResource(o) == IF o.flaw = "rejected" THEN "invalid" ELSE "none"

validateGatekeeperResources(o) ==
  CASE o.group = "templates" /\ o.kind = "ConstraintTemplate" -> validateTemplate(o)
    [] o.group = "constraints"                                -> validateConstraint(o)
    [] o.group = "config" /\ o.kind = "Config"                -> validateConfigResource(o)
    [] o.group = "mutations" /\ o.kind = "AssignMetadata"     -> validateAssignMetadata(o)
    [] o.group = "mutations" /\ o.kind = "Assign"             -> validateAssign(o)
    [] OTHER                                                  -> "none"

AdmitValidate(r) ==
  /\ At(r, "admit", "validate")
  /\ LET result == validateGatekeeperResources(req[r].obj)
     IN  IF result = "none" THEN Goto(r, "exclude") ELSE Respond(r, result)
  /\ Only

AdmitExclude(r) ==
  /\ At(r, "admit", "exclude")
  /\ IF skipExcludedNamespace(req[r].obj, "webhook") THEN Respond(r, "allow")
                                                     ELSE Goto(r, "acquire")
  /\ Only

-------------------------------------------------------------------------------
\* reviewRequest

Limited == conf.maxServingThreads > 0

\* The deferred receive.
Release == semaphore' = IF Limited THEN semaphore - 1 ELSE semaphore

AdmitAcquire(r) ==
  /\ At(r, "admit", "acquire")
  /\ Limited => semaphore < conf.maxServingThreads
  /\ semaphore' = IF Limited THEN semaphore + 1 ELSE semaphore
  /\ GotoNamespace(r)
  /\ UNCHANGED <<world, budget, held>>

\* Fault: the receive is deferred before the thread is taken.
AdmitCancelled_GivesThreadBack(r) ==
  /\ At(r, "admit", "acquire")
  /\ Limited
  /\ May("cancels") /\ Spend("cancels")
  /\ Respond(r, "error")
  /\ Release
  /\ UNCHANGED <<world, held>>

AdmitCancelled(r) ==
  /\ At(r, "admit", "acquire")
  /\ Limited
  /\ May("cancels") /\ Spend("cancels")
  /\ Respond(r, "error")
  /\ UNCHANGED <<world, semaphore, held>>

AdmitNamespace(r) ==
  /\ At(r, "admit", "namespace")
  /\ NamespaceGet(r)
  /\ Only

AdmitNamespaceAPI(r) ==
  /\ At(r, "admit", "uncached")
  /\ \/ ~Unknown(r, cluster) /\ Given(r, cluster) /\ UNCHANGED semaphore
     \/ Unknown(r, cluster) /\ Respond(r, "error") /\ Release
  /\ UNCHANGED <<world, budget, held>>

\* Fault: an early return keeps its serving thread.
AdmitFails_KeepsThread(r) ==
  /\ \E pc \in {"namespace", "uncached", "work"} : At(r, "admit", pc)
  /\ May("failures") /\ Spend("failures")
  /\ Respond(r, "error")
  /\ UNCHANGED <<world, semaphore, held>>

\* A failed call: the namespace cannot be read, or OPA's query fails.
AdmitFails(r) ==
  /\ \E pc \in {"namespace", "uncached", "work"} : At(r, "admit", pc)
  /\ May("failures") /\ Spend("failures")
  /\ Respond(r, "error")
  /\ Release
  /\ UNCHANGED <<world, held>>

\* opa.Review: the enforcement actions of the violations.
Review(r) ==
  LET o == req[r].obj
      review == AdmissionReview(o, req[r].in.oldObject, req[r].ns)
  IN  {a \in opa : \/ autoreject_review(conf.match, review, {})
                   \/ o.bad /\ matching_constraints(conf.match, review, {})}

\* getValidationMessages and the response made of them.
getValidationMessages(results) ==
  CASE "deny" \in results                         -> "deny"
    [] "deny" \notin results /\ "warn" \in results -> "warn"
    [] OTHER                                      -> "allow"

AdmitReview(r) ==
  /\ At(r, "admit", "work")
  /\ Respond(r, IF req[r].obj.flaw = "undecodable" THEN "error"
                                                   ELSE getValidationMessages(Review(r)))
  /\ Release
  /\ UNCHANGED <<world, budget, held>>

-------------------------------------------------------------------------------
\* mutationHandler.Handle

MutateStart(r) ==
  /\ At(r, "mutate", "mutate")
  /\ LET in == req[r].in
     IN  IF \/ isGkServiceAccount(in)
            \/ in.op \notin {"CREATE", "UPDATE"}
            \/ isGatekeeperResource(in.object)
         THEN Respond(r, "allow") ELSE Goto(r, "exclude")
  /\ Only

MutateExclude(r) ==
  /\ At(r, "mutate", "exclude")
  /\ IF skipExcludedNamespace(req[r].obj, "mutation-webhook")
     THEN Respond(r, "allow")
     ELSE GotoNamespace(r)
  /\ Only

MutateNamespace(r) ==
  /\ At(r, "mutate", "namespace")
  /\ NamespaceGet(r)
  /\ Only

MutateNamespaceAPI(r) ==
  /\ At(r, "mutate", "uncached")
  /\ \/ ~Unknown(r, cluster) /\ Given(r, cluster)
     \/ Unknown(r, cluster) /\ Respond(r, "error")
  /\ Only

MutateFails(r) ==
  /\ \E pc \in {"namespace", "uncached"} : At(r, "mutate", pc)
  /\ May("failures") /\ Spend("failures")
  /\ Respond(r, "error")
  /\ UNCHANGED <<world, semaphore, held>>

\* System.Mutate with one mutator (see MutationSystem).
MutateRequest(r) ==
  /\ At(r, "mutate", "work")
  /\ LET o == req[r].obj
         applies == mutator /\ MutatorMatches(o, GoNamespace(o, req[r].ns))
     IN  Respond(r, IF o.flaw = "undecodable" \/ (applies /\ o.effect = "failed") THEN "error"
                    ELSE IF applies /\ o.effect = "mutated" THEN "patch" ELSE "allow")
  /\ Only

-------------------------------------------------------------------------------
\* namespaceLabelHandler.Handle

LabelHandle(r) ==
  /\ At(r, "label", "label")
  /\ LET in == req[r].in
         ignored == HasKey(in.object.labels, "ignore") /\ in.object.name \notin exemptNamespaces
     IN  Respond(r, IF in.op = "DELETE" \/ ~isNamespace(in.object) THEN "allow"
                    ELSE IF in.object.flaw = "undecodable" THEN "error"
                    ELSE IF ignored THEN "deny" ELSE "allow")
  /\ Only

-------------------------------------------------------------------------------
Init ==
  /\ \E s \in Scenarios :
       /\ conf \in s.confs
       /\ opa = s.opa /\ mutator = s.mutator /\ config = s.config
       /\ excluder = Add(s.config)
       /\ cluster = s.cluster /\ cache = s.cache
       /\ budget = s.budget
  /\ semaphore = 0
  /\ req = [r \in Requests |-> NoRequest]
  /\ held = [r \in Requests |-> {}]

Step(r) ==
  \/ AdmitStart(r) \/ AdmitValidate(r) \/ AdmitExclude(r) \/ AdmitAcquire(r)
  \/ AdmitNamespace(r) \/ AdmitNamespaceAPI(r) \/ AdmitReview(r)
  \/ MutateStart(r) \/ MutateExclude(r) \/ MutateNamespace(r) \/ MutateNamespaceAPI(r)
  \/ MutateRequest(r)
  \/ LabelHandle(r)

Change ==
  \/ ConfigChange
  \/ \E a \in Actions : ConstraintChange(a)
  \/ MutatorChange
  \/ \E n \in Namespaces : NamespaceChange(n)

Next ==
  \/ Change
  \/ \E n \in Namespaces : CacheUpdate(n)
  \/ \E r \in Requests :
       \/ Arrive(r)
       \/ Step(r)
       \/ AdmitCancelled(r)
       \/ AdmitFails(r)
       \/ MutateFails(r)

\* Handlers run, and a send on a channel is served in the order of arrival.
Fairness == \A r \in Requests : WF_vars(Step(r))

Spec == Init /\ [][Next]_vars /\ Fairness

-------------------------------------------------------------------------------
\* Properties

Done(r) == req[r].pc = "done"
Held(r, facts) == facts \subseteq held[r]

(***************************************************************************)
(* A request is judged by what was in force while it ran, however the      *)
(* excluder, OPA, the mutation system, the namespaces and their cache      *)
(* change between its steps (validationHandler.Handle,                     *)
(* mutationHandler.Handle): an object that a policy denies or changes all  *)
(* along, and that is not excluded at any time, is not allowed as it is;   *)
(* and none is denied or changed by a policy that was never there or whose *)
(* scope it was never in.                                                  *)
(***************************************************************************)
Enforced ==
  \A r \in Requests : Done(r) /\ ~isGkServiceAccount(req[r].in) =>
    /\ req[r].resp \in {"allow", "warn"} => ~Held(r, {"included", "inForce", "inScope"})
    /\ req[r].resp \in {"deny", "patch"} =>
         ~Held(r, {"notInForce"}) /\ ~Held(r, {"outOfScope"})

(***************************************************************************)
(* What the Config excludes is left alone: a request in a namespace that    *)
(* was listed for the webhook's process all along, or for "*", is allowed   *)
(* as it is, without a serving thread and whatever fails (Excluder.Add,     *)
(* skipExcludedNamespace).  Gatekeeper's own resources and objects that     *)
(* cannot be decoded are still validated; "*" does not include mutation.    *)
(***************************************************************************)
Exempt ==
  \A r \in Requests :
    Done(r) /\ Held(r, {"excluded"}) /\ Reviewed(req[r].in).flaw = "none" =>
      req[r].resp = "allow"

\* The requests between the send on the semaphore and the deferred receive.
Serving == {r \in Requests : \E pc \in {"namespace", "uncached", "work"} : At(r, "admit", pc)}

(***************************************************************************)
(* The semaphore counts the requests under review: no return keeps a        *)
(* thread, none gives back one it did not take (a request cancelled while   *)
(* it waits), and at most max-serving-threads run at a time (reviewRequest).*)
(***************************************************************************)
ThreadsCounted ==
  Limited => semaphore = Cardinality(Serving) /\ semaphore <= conf.maxServingThreads

(***************************************************************************)
(* Every request is answered: no early return keeps a serving thread, and   *)
(* no request waits for ever for one (reviewRequest).  Cancellation of a    *)
(* request is not relied upon.                                              *)
(***************************************************************************)
Answered == \A r \in Requests : req[r].pc # "none" ~> Done(r)

\* What the two implementations of a match are known to see differently: lists
\* that are present and empty, the labels of cluster-scoped objects, and those
\* of the old object.
PresentButEmpty(m) ==
  \/ {} \in {m.kinds, m.namespaces}
  \/ \E kk \in Items(m.kinds) : {} \in {kk.kinds, kk.apiGroups}

(***************************************************************************)
(* One match section, two implementations: match.Matches in Go and          *)
(* matching_constraints in Rego select the same objects on admission,       *)
(* except that Rego takes an empty list for one that selects nothing, Go    *)
(* ignores labelSelector for cluster-scoped objects, and Rego also looks    *)
(* at the old object's labels.                                              *)
(***************************************************************************)
MatchersAgree ==
  \A r \in Requests : req[r].in # None /\ Reviewed(req[r].in) # None =>
    LET o == Reviewed(req[r].in)
    IN  \A ns \in Visible(req[r].in) :
          \/ matching_constraints(conf.match, AdmissionReview(o, req[r].in.oldObject, ns), {})
               <=> Matches(conf.match, o, GoNamespace(o, ns))
          \/ PresentButEmpty(conf.match)
          \/ conf.match.labelSelector # None /\ GoNamespace(o, ns) = None
          \/ req[r].in.oldObject # None /\ req[r].in.oldObject.labels # o.labels

(***************************************************************************)
(* The audit finds what the webhook would deny: the reviews that the audit  *)
(* and the audit of OPA's cache make of an object match the same            *)
(* constraints as the review of its creation (HandleReview, make_review),   *)
(* and none is rejected for a namespace that is not cached, provided that   *)
(* the audit of the cache has the namespace in it.                          *)
(***************************************************************************)
PathsAgree ==
  \A r \in Requests : req[r].in # None /\ req[r].in.op = "CREATE" =>
    LET in == req[r].in
        o  == in.object
        Verdict(review, cached) == [match  |-> matching_constraints(conf.match, review, cached),
                                    reject |-> autoreject_review(conf.match, review, cached)]
    IN  \A ns \in Visible(in) :
          LET cached  == {ns} \ {None}
              admitted == Verdict(AdmissionReview(o, None, ns), {})
          IN  /\ ~admitted.reject
              /\ Verdict(AuditReview(o, ns), {}) = admitted
              /\ Verdict(CacheReview(o), cached) = admitted
===============================================================================
