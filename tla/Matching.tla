------------------------------- MODULE Matching -------------------------------
(***************************************************************************)
(* Which objects a policy applies to.  The match section of a policy is    *)
(* evaluated twice in the code: in Go for mutators                         *)
(* (pkg/mutation/match/match.go) and in Rego for constraints               *)
(* (pkg/target/target_template_source.go), there on reviews that the       *)
(* webhook, the audit and the audit of OPA's cache build differently       *)
(* (pkg/target/target.go).                                                 *)
(*                                                                         *)
(* An object has a group, kind, name, namespace (NoNamespace when it is    *)
(* cluster-scoped) and labels, a set of pairs with different keys.  A      *)
(* field of a match that is absent is None.  Names are values; Glob gives  *)
(* the names that a pattern covers, itself included.                       *)
(***************************************************************************)
EXTENDS FiniteSets

CONSTANTS Glob, NoNamespace, None

isNamespace(o) == o.kind = "Namespace" /\ o.group = ""

\* PrefixWildcard.Matches, prefixMatch and glob.match on valid patterns.
covers(patterns, n) == \E p \in patterns : n \in Glob[p]

\* Labels are a map; a selector is one that the API server accepts: In and NotIn
\* have values.
IsLabels(labels) ==
  /\ \A l \in labels : l = <<l[1], l[2]>>
  /\ \A l1, l2 \in labels : l1[1] = l2[1] => l1 = l2

IsSelector(s) ==
  /\ IsFiniteSet(s.matchLabels)
  /\ \A e \in s.matchExpressions :
       /\ e.operator \in {"In", "NotIn", "Exists", "DoesNotExist"}
       /\ e.operator \in {"In", "NotIn"} => e.values # {}

IsMatch(m) ==
  /\ m.scope \in {None, "*", "Cluster", "Namespaced"}
  /\ \A s \in {m.labelSelector, m.namespaceSelector} \ {None} : IsSelector(s)

\* A field that is absent or an empty list, which Go does not tell apart.
Items(field) == IF field = None THEN {} ELSE field

HasKey(labels, k) == \E l \in labels : l[1] = k

-------------------------------------------------------------------------------
\* pkg/mutation/match

\* metav1.LabelSelectorAsSelector.
ExpressionMatches(e, labels) ==
  CASE e.operator = "In"           -> \E v \in e.values : <<e.key, v>> \in labels
    [] e.operator = "NotIn"        -> \A v \in e.values : <<e.key, v>> \notin labels
    [] e.operator = "Exists"       -> HasKey(labels, e.key)
    [] e.operator = "DoesNotExist" -> ~HasKey(labels, e.key)

SelectorMatches(s, labels) ==
  /\ s.matchLabels \subseteq labels
  /\ \A e \in s.matchExpressions : ExpressionMatches(e, labels)

KindsMatch(m, o) ==
  \/ Items(m.kinds) = {}
  \/ \E kk \in Items(m.kinds) :
       /\ kk.kinds = {} \/ kk.kinds \cap {"*", o.kind} # {}
       /\ kk.apiGroups = {} \/ kk.apiGroups \cap {"*", o.group} # {}

ScopeMatches(m, clusterScoped) ==
  /\ m.scope = "Cluster" => clusterScoped
  /\ m.scope = "Namespaced" => ~clusterScoped

\* Fault: an exclusion that is a prefix is compared as a name.
NamespacesMatch_ExcludedExact(m, n) ==
  /\ Items(m.namespaces) = {} \/ covers(Items(m.namespaces), n)
  /\ n \notin Items(m.excludedNamespaces)

NamespacesMatch(m, n) ==
  /\ Items(m.namespaces) = {} \/ covers(Items(m.namespaces), n)
  /\ ~covers(Items(m.excludedNamespaces), n)

\* ns is the namespace of the object, the object itself if it is a namespace,
\* or None.  An error counts as no match, as it does for both mutators.
Matches(m, o, ns) ==
  /\ isNamespace(o) => ns # None
  /\ KindsMatch(m, o)
  /\ ScopeMatches(m, ns = None \/ isNamespace(o))
  /\ ns # None =>
       /\ NamespacesMatch(m, ns.name)
       /\ m.labelSelector # None => SelectorMatches(m.labelSelector, o.labels)
       /\ m.namespaceSelector # None =>
            SelectorMatches(m.namespaceSelector, IF isNamespace(o) THEN o.labels ELSE ns.labels)

\* The version is part of the kind here.
AppliesTo(applyTo, o) ==
  \E a \in applyTo : o.group \in a.groups /\ o.kind \in a.kinds

-------------------------------------------------------------------------------
\* pkg/target: the reviews

\* Fault: a namespace is reviewed as if it were inside itself.
requestNamespace_Itself(o) == IF isNamespace(o) THEN o.name ELSE o.namespace

\* The request for a namespace may carry its own name; the handlers clear it.
requestNamespace(o) == IF isNamespace(o) THEN NoNamespace ELSE o.namespace

\* gkReview of an AugmentedReview.  JSON leaves out an empty namespace and a
\* null object.
AdmissionReview(o, old, ns) ==
  [group |-> o.group, kind |-> o.kind, object |-> o, oldObject |-> old,
   namespace |-> requestNamespace(o), unstable |-> ns]

\* augmentedUnstructuredToAdmissionRequest, as the audit calls it: with an
\* empty Namespace for cluster-scoped objects.
EmptyNamespace == [name |-> NoNamespace, labels |-> {}]

AuditReview(o, ns) ==
  LET given == IF ns = None THEN EmptyNamespace ELSE ns
  IN  [group |-> o.group, kind |-> o.kind, object |-> o, oldObject |-> None,
       namespace |-> given.name, unstable |-> given]

\* make_review, for objects in OPA's cache.
CacheReview(o) ==
  [group |-> o.group, kind |-> o.kind, object |-> o, oldObject |-> None,
   namespace |-> o.namespace, unstable |-> None]

-------------------------------------------------------------------------------
\* pkg/target: matching_constraints.  cached is the set of namespaces in OPA.

any_kind_selector_matches(m, r) ==
  \/ m.kinds = None
  \/ \E ks \in Items(m.kinds) :
       /\ ks.apiGroups \cap {"*", r.group} # {}
       /\ ks.kinds \cap {"*", r.kind} # {}

matches_scope(m, r) ==
  \/ m.scope \in {None, "*"}
  \/ m.scope = "Namespaced" /\ r.namespace # NoNamespace
  \/ m.scope = "Cluster" /\ r.namespace = NoNamespace

match_expression_violated(e, labels) ==
  CASE e.operator = "In" ->
         \/ ~HasKey(labels, e.key)
         \/ e.values # {} /\ \E l \in labels : l[1] = e.key /\ l[2] \notin e.values
    [] e.operator = "NotIn" ->
         e.values # {} /\ \E l \in labels : l[1] = e.key /\ l[2] \in e.values
    [] e.operator = "Exists" -> ~HasKey(labels, e.key)
    [] e.operator = "DoesNotExist" -> HasKey(labels, e.key)

matches_label_selector(s, labels) ==
  /\ Cardinality(s.matchLabels \cap labels) = Cardinality(s.matchLabels)
  /\ \A e \in s.matchExpressions : ~match_expression_violated(e, labels)

\* The labels of the object and of the old object, of those that are defined.
any_labelselector_match(s, r) ==
  \E o \in {r.object, r.oldObject} \ {None} : matches_label_selector(s, o.labels)

always_match_ns_selectors(r) == ~isNamespace(r) /\ r.namespace = NoNamespace

get_ns_name(r) == IF isNamespace(r) THEN r.object.name ELSE r.namespace

matches_namespaces(m, r) ==
  m.namespaces # None => always_match_ns_selectors(r) \/ covers(m.namespaces, get_ns_name(r))

does_not_match_excludednamespaces(m, r) ==
  m.excludedNamespaces # None =>
    always_match_ns_selectors(r) \/ ~covers(m.excludedNamespaces, get_ns_name(r))

\* What came with the review, else what is cached, else nothing.
get_ns(r, cached) ==
  IF r.unstable # None THEN {r.unstable} ELSE {n \in cached : n.name = r.namespace}

matches_nsselector(m, r, cached) ==
  m.namespaceSelector # None =>
    \/ always_match_ns_selectors(r)
    \/ /\ ~isNamespace(r)
       /\ \E n \in get_ns(r, cached) : matches_label_selector(m.namespaceSelector, n.labels)
    \/ isNamespace(r) /\ any_labelselector_match(m.namespaceSelector, r)

matching_constraints(m, r, cached) ==
  /\ any_kind_selector_matches(m, r)
  /\ matches_namespaces(m, r)
  /\ does_not_match_excludednamespaces(m, r)
  /\ matches_nsselector(m, r, cached)
  /\ matches_scope(m, r)
  /\ m.labelSelector # None => any_labelselector_match(m.labelSelector, r)

\* Rejected without a look at the rule: the namespace is unknown.
autoreject_review(m, r, cached) ==
  /\ m.namespaceSelector # None
  /\ r.namespace # NoNamespace
  /\ get_ns(r, cached) = {}
===============================================================================
