------------------------------ MODULE MCWebhook ------------------------------
EXTENDS Webhook

\* "n*" covers n1 and n2.
MCGlob == [p \in {"n1", "n2", "n*"} |-> IF p = "n*" THEN {"n1", "n2"} ELSE {p}]

v == {<<"k", "v">>}
w == {<<"k", "w">>}
MCLabels == {{}, v}

Sel(labels, exprs) == [matchLabels |-> labels, matchExpressions |-> exprs]
Expr(op, values) == [operator |-> op, key |-> "k", values |-> values]
Selectors == {Sel(v, {}), Sel({}, {}), Sel({}, {Expr("In", {"v", "w"}), Expr("NotIn", {"w"})}),
              Sel({}, {Expr("Exists", {})}), Sel({}, {Expr("DoesNotExist", {})})}

Kind(groups, kinds) == [apiGroups |-> groups, kinds |-> kinds]

Alternatives ==
  [kinds |-> {{}, {Kind({""}, {"Pod"})}, {Kind({"*"}, {"Namespace"}), Kind({"apps"}, {"*"})},
              {Kind({}, {"Pod"})}},
   scope |-> {"*", "Cluster", "Namespaced"},
   namespaces |-> {{}, {"n1"}, {"n*"}},
   excludedNamespaces |-> {{}, {"n1"}, {"n*"}},
   labelSelector |-> Selectors,
   namespaceSelector |-> Selectors]

Anything == [f \in DOMAIN Alternatives |-> None]

\* Every match in which at most two fields are present.
AllMatches ==
  {Anything} \cup UNION {UNION {{[[Anything EXCEPT ![f] = a] EXCEPT ![g] = b] :
                                    a \in Alternatives[f], b \in Alternatives[g]} :
                                  g \in DOMAIN Alternatives} : f \in DOMAIN Alternatives}

Obj(group, kind, name, ns, labels) ==
  [group |-> group, kind |-> kind, name |-> name, namespace |-> ns, labels |-> labels,
   bad |-> TRUE, flaw |-> "none", effect |-> "mutated"]

Pod(ns, labels)   == Obj("", "Pod", "o", ns, labels)
NS(name, labels)  == Obj("", "Namespace", name, NoNamespace, labels)
Node(labels)      == Obj("apps", "Node", "o", NoNamespace, labels)
GK(group, kind, flaw) == [Obj(group, kind, "o", NoNamespace, {}) EXCEPT !.flaw = flaw, !.bad = FALSE]

Req(hook, op, o, old) == [hook |-> hook, op |-> op, user |-> "user", object |-> o, oldObject |-> old]

Plain == {Pod("n1", v), Pod("n1", {}), Pod("n2", w), NS("n1", v), NS("n2", {}), Node(v), Node({}),
          Obj("apps", "Deployment", "o", "n1", v)}

MCInputs ==
  [matching |-> {Req("admit", "CREATE", o, None) : o \in Plain} \cup
                {Req("mutate", "UPDATE", o, o) : o \in Plain} \cup
                {Req("admit", "UPDATE", Pod("n1", {}), Pod("n1", v)),
                 Req("admit", "UPDATE", NS("n1", {}), NS("n1", v)),
                 Req("admit", "DELETE", None, Pod("n1", v)),
                 Req("admit", "DELETE", None, NS("n2", {}))},
   flow     |-> {Req("admit", "CREATE", Pod("n1", v), None),
                 Req("admit", "DELETE", None, Pod("n1", v)),
                 Req("mutate", "CREATE", Pod("n1", v), None)},
   queue    |-> {Req("admit", "CREATE", Pod("n1", v), None)},
   odd      |-> {Req(hook, "CREATE", GK(gk[1], gk[2], flaw), None) :
                   hook \in {"admit", "mutate"},
                   gk \in {<<"templates", "ConstraintTemplate">>, <<"constraints", "C">>,
                           <<"config", "Config">>, <<"mutations", "Assign">>,
                           <<"mutations", "AssignMetadata">>, <<"status", "S">>},
                   flaw \in {"none", "rejected", "undecodable", "badAction"}} \cup
                {Req(hook, op, [Pod("n1", v) EXCEPT !.flaw = flaw, !.effect = e, !.bad = b], None) :
                   hook \in {"admit", "mutate"}, op \in {"CREATE", "DELETE"},
                   flaw \in {"none", "undecodable"}, e \in {"mutated", "same", "failed"},
                   b \in BOOLEAN} \cup
                {[Req(hook, "CREATE", Pod("n1", v), None) EXCEPT !.user = "gatekeeper-admin"] :
                   hook \in {"admit", "mutate"}} \cup
                {Req("label", op, o, None) :
                   op \in {"CREATE", "DELETE"},
                   o \in {Pod("n1", {}), NS("n1", {<<"ignore", "x">>}), NS("n2", {<<"ignore", "x">>}),
                          NS("n1", {}), [NS("n1", {}) EXCEPT !.flaw = "undecodable"]}}]

Entry(namespaces, processes) == [namespaces |-> namespaces, processes |-> processes]
MCConfigs == {{}, {Entry({"n1"}, {"*"})}, {Entry({"n*"}, {"webhook", "mutation-webhook"})}}

Conf(inputs, m, threads, disabled) ==
  [inputs |-> inputs, match |-> m, maxServingThreads |-> threads,
   disableActionValidation |-> disabled,
   applyTo |-> {[groups |-> {"", "apps"}, kinds |-> {"Pod", "Namespace", "Deployment"}]}]

Selective == [Anything EXCEPT !.namespaceSelector = Sel(v, {})]

Scenario(confs, known, bounds) ==
  [confs |-> confs, opa |-> Actions, mutator |-> TRUE, config |-> {},
   cluster |-> [n \in Namespaces |-> v], cache |-> known, budget |-> bounds]

Budget(requests, changes, failures, cancels) ==
  [requests |-> requests, changes |-> changes, failures |-> failures, cancels |-> cancels]

Cold == [n \in Namespaces |-> None]
Warm == [n \in Namespaces |-> v]

MCScenarios ==
  {Scenario({Conf("matching", m, 0, FALSE) : m \in AllMatches}, Warm, Budget(1, 0, 0, 0)),
   Scenario({Conf("flow", Selective, 1, FALSE)}, Cold, Budget(1, 2, 1, 0)),
   Scenario({Conf("flow", Selective, 1, FALSE)}, Cold, Budget(2, 1, 1, 0)),
   Scenario({Conf("queue", Anything, 2, FALSE)}, Warm, Budget(4, 0, 1, 1)),
   [Scenario({Conf("odd", Anything, 0, d) : d \in BOOLEAN}, Cold, Budget(1, 1, 1, 0))
      EXCEPT !.opa = {"warn", "dryrun", "unrecognized"}]}
===============================================================================
