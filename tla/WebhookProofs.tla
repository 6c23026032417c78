----------------------------- MODULE WebhookProofs -----------------------------
(***************************************************************************)
(* Proofs about matching and the admission webhooks, for any policies,     *)
(* Configs, namespaces and requests: the two implementations of a match    *)
(* and the reviews of webhook and audit agree, a request is judged by what *)
(* was in force while it ran, and the serving threads are counted.         *)
(***************************************************************************)
EXTENDS Webhook, FiniteSetTheorems, TLAPS

-------------------------------------------------------------------------------
\* Selectors and lists

\* The Rego compares cardinalities where Go compares the labels themselves.
LEMMA MatchLabelsAgree ==
  ASSUME NEW A, IsFiniteSet(A), NEW L
  PROVE  (A \subseteq L) <=> Cardinality(A \cap L) = Cardinality(A)
<1>1. A \subseteq L => A \cap L = A
  OBVIOUS
<1>2. ASSUME Cardinality(A \cap L) = Cardinality(A) PROVE A \cap L = A
  BY <1>2, FS_Subset
<1> QED
  BY <1>1, <1>2

\* An expression that the API server accepts means the same in both.
LEMMA ExpressionsAgree ==
  ASSUME NEW e, e.operator \in {"In", "NotIn", "Exists", "DoesNotExist"},
         e.operator \in {"In", "NotIn"} => e.values # {},
         NEW labels, IsLabels(labels)
  PROVE  ~match_expression_violated(e, labels) <=> ExpressionMatches(e, labels)
<1>1. ASSUME NEW l \in labels, l[1] = e.key PROVE <<e.key, l[2]>> \in labels
  BY <1>1 DEF IsLabels
<1>2. ASSUME NEW x, <<e.key, x>> \in labels
      PROVE  \E l \in labels : l[1] = e.key /\ l[2] = x
  BY <1>2
<1>3. ASSUME NEW l1 \in labels, NEW l2 \in labels, l1[1] = e.key, l2[1] = e.key PROVE l1 = l2
  BY <1>3 DEF IsLabels
<1>4. CASE e.operator = "In"
  <2>1. ~match_expression_violated(e, labels) <=>
          HasKey(labels, e.key) /\ \A l \in labels : l[1] = e.key => l[2] \in e.values
    BY <1>4 DEF match_expression_violated
  <2>2. (HasKey(labels, e.key) /\ \A l \in labels : l[1] = e.key => l[2] \in e.values)
          <=> \E v \in e.values : <<e.key, v>> \in labels
    <3>1. ASSUME HasKey(labels, e.key), \A l \in labels : l[1] = e.key => l[2] \in e.values
          PROVE  \E v \in e.values : <<e.key, v>> \in labels
      BY <1>1, <3>1 DEF HasKey
    <3>2. ASSUME NEW v \in e.values, <<e.key, v>> \in labels
          PROVE  HasKey(labels, e.key) /\ \A l \in labels : l[1] = e.key => l[2] \in e.values
      BY <1>2, <1>3, <3>2 DEF HasKey
    <3> QED
      BY <3>1, <3>2
  <2> QED
    BY <1>4, <2>1, <2>2 DEF ExpressionMatches
<1>5. CASE e.operator = "NotIn"
  <2>1. ~match_expression_violated(e, labels) <=>
          ~\E l \in labels : l[1] = e.key /\ l[2] \in e.values
    BY <1>5 DEF match_expression_violated
  <2>2. (~\E l \in labels : l[1] = e.key /\ l[2] \in e.values)
          <=> \A v \in e.values : <<e.key, v>> \notin labels
    BY <1>1, <1>2
  <2> QED
    BY <1>5, <2>1, <2>2 DEF ExpressionMatches
<1>6. CASE e.operator \in {"Exists", "DoesNotExist"}
  BY <1>6 DEF match_expression_violated, ExpressionMatches
<1> QED
  BY <1>4, <1>5, <1>6

\* A label selector selects the same labels in Go and in Rego.
LEMMA SelectorsAgree ==
  ASSUME NEW s, IsSelector(s), NEW labels, IsLabels(labels)
  PROVE  SelectorMatches(s, labels) <=> matches_label_selector(s, labels)
<1>1. s.matchLabels \subseteq labels <=>
        Cardinality(s.matchLabels \cap labels) = Cardinality(s.matchLabels)
  BY MatchLabelsAgree DEF IsSelector
<1>2. \A e \in s.matchExpressions : ~match_expression_violated(e, labels) <=> ExpressionMatches(e, labels)
  BY ExpressionsAgree DEF IsSelector
<1> QED
  BY <1>1, <1>2 DEF SelectorMatches, matches_label_selector

\* A list of kinds selects the same objects, unless a list in it is empty.
LEMMA KindsAgree ==
  ASSUME NEW m, ~PresentButEmpty(m), NEW r
  PROVE  KindsMatch(m, r) <=> any_kind_selector_matches(m, r)
BY DEF PresentButEmpty, Items, KindsMatch, any_kind_selector_matches

-------------------------------------------------------------------------------
\* Matches in Go, matching_constraints in Rego

\* An object that a request or the audit can have.
IsObject(o) ==
  /\ o # None /\ IsLabels(o.labels) /\ AsNamespace(o.name, o.labels) # None
  /\ isNamespace(o) => o.namespace = NoNamespace

\* The namespace that is read for an object.
NamespaceOf(o, ns) ==
  IF requestNamespace(o) = NoNamespace THEN ns = None
  ELSE ns # None /\ ns.name = o.namespace /\ IsLabels(ns.labels)

\* The review that the admission webhook makes of an object.
LEMMA AdmissionReviewIs ==
  ASSUME NEW o, NEW old, NEW ns, NEW r, r = AdmissionReview(o, old, ns)
  PROVE  /\ r.group = o.group /\ r.kind = o.kind /\ r.object = o /\ r.oldObject = old
         /\ r.namespace = requestNamespace(o) /\ r.unstable = ns
         /\ (isNamespace(r) <=> isNamespace(o))
BY DEF AdmissionReview, isNamespace

\* For valid policies and objects, Go and Rego select the same objects of
\* requests, up to the differences that MatchersAgree names.
LEMMA MatchersMeet ==
  ASSUME WebhookAssumption,
         NEW m, IsMatch(m), ~PresentButEmpty(m),
         NEW o, IsObject(o), NEW ns, NamespaceOf(o, ns),
         NEW old, old = None \/ old.labels = o.labels,
         m.labelSelector # None => GoNamespace(o, ns) # None
  PROVE  matching_constraints(m, AdmissionReview(o, old, ns), {}) <=> Matches(m, o, GoNamespace(o, ns))
<1> DEFINE r == AdmissionReview(o, old, ns)
           g == GoNamespace(o, ns)
<1>1. /\ r.group = o.group /\ r.kind = o.kind /\ r.object = o /\ r.oldObject = old
      /\ r.namespace = requestNamespace(o) /\ r.unstable = ns
      /\ (isNamespace(r) <=> isNamespace(o))
  BY AdmissionReviewIs
<1>2. /\ g = None <=> (~isNamespace(o) /\ r.namespace = NoNamespace)
      /\ g # None => g.name = get_ns_name(r) /\ (~isNamespace(o) => g = ns)
      /\ isNamespace(o) => g # None /\ g.labels = o.labels
  BY <1>1 DEF GoNamespace, AsNamespace, NamespaceOf, IsObject, requestNamespace, get_ns_name
<1> HIDE DEF r, g
<1>3. any_kind_selector_matches(m, r) <=> KindsMatch(m, o)
  <2>1. KindsMatch(m, r) <=> KindsMatch(m, o)
    BY <1>1 DEF KindsMatch
  <2> QED
    BY <2>1, KindsAgree
<1>4. always_match_ns_selectors(r) <=> g = None
  BY <1>1, <1>2 DEF always_match_ns_selectors
<1>5. matches_namespaces(m, r) /\ does_not_match_excludednamespaces(m, r) <=>
        (g # None => NamespacesMatch(m, g.name))
  BY <1>2, <1>4 DEF matches_namespaces, does_not_match_excludednamespaces, NamespacesMatch, Items, covers,
     PresentButEmpty
<1>6. ASSUME NEW s, IsSelector(s) PROVE any_labelselector_match(s, r) <=> SelectorMatches(s, o.labels)
  <2>1. matches_label_selector(s, o.labels) <=> SelectorMatches(s, o.labels)
    BY <1>6, SelectorsAgree DEF IsObject
  <2> QED
    BY <1>1, <2>1 DEF any_labelselector_match, IsObject
<1>7. m.labelSelector # None =>
        (any_labelselector_match(m.labelSelector, r) <=> (g # None => SelectorMatches(m.labelSelector, o.labels)))
  BY <1>6 DEF IsMatch, g
<1>8. matches_nsselector(m, r, {}) <=>
        (g # None => (m.namespaceSelector # None =>
           SelectorMatches(m.namespaceSelector, IF isNamespace(o) THEN o.labels ELSE g.labels)))
  <2>1. CASE m.namespaceSelector = None
    BY <2>1 DEF matches_nsselector
  <2>2. CASE m.namespaceSelector # None /\ isNamespace(o)
    BY <1>1, <1>2, <1>4, <1>6, <2>2 DEF matches_nsselector, IsMatch
  <2>3. CASE m.namespaceSelector # None /\ g = None
    BY <1>4, <2>3 DEF matches_nsselector
  <2>4. CASE m.namespaceSelector # None /\ ~isNamespace(o) /\ g # None
    <3>1. g = ns /\ IsLabels(ns.labels) /\ ns # None
      BY <1>1, <1>2, <2>4 DEF NamespaceOf
    <3>2. matches_label_selector(m.namespaceSelector, ns.labels) <=> SelectorMatches(m.namespaceSelector, ns.labels)
      BY <2>4, <3>1, SelectorsAgree DEF IsMatch
    <3>3. get_ns(r, {}) = {ns}
      BY <1>1, <3>1 DEF get_ns
    <3> QED
      BY <1>1, <1>4, <2>4, <3>1, <3>2, <3>3 DEF matches_nsselector
  <2> QED
    BY <2>1, <2>2, <2>3, <2>4
<1>9. matches_scope(m, r) <=> ScopeMatches(m, g = None \/ isNamespace(o))
  <2>1. r.namespace = NoNamespace <=> (g = None \/ isNamespace(o))
    BY <1>1, <1>2 DEF requestNamespace
  <2> QED
    BY <2>1, WebhookAssumption DEF matches_scope, ScopeMatches, IsMatch
<1>10. matching_constraints(m, r, {}) <=> Matches(m, o, g)
  BY <1>2, <1>3, <1>5, <1>7, <1>8, <1>9, Zenon DEF matching_constraints, Matches
<1> QED
  BY <1>10 DEF r, g

-------------------------------------------------------------------------------
\* The reviews of the webhook and of the audits

\* Two reviews of an object are judged alike if they agree on its namespace and,
\* where it is in one, on what is known of that.
LEMMA AlikeReviews ==
  ASSUME NEW m, NEW r1, NEW c1, NEW r2, NEW c2,
         r1.group = r2.group, r1.kind = r2.kind, r1.object = r2.object, r1.oldObject = r2.oldObject,
         r1.namespace = r2.namespace,
         r1.namespace # NoNamespace => get_ns(r1, c1) = get_ns(r2, c2)
  PROVE  /\ matching_constraints(m, r1, c1) <=> matching_constraints(m, r2, c2)
         /\ autoreject_review(m, r1, c1) <=> autoreject_review(m, r2, c2)
<1>1. /\ isNamespace(r1) <=> isNamespace(r2)
      /\ always_match_ns_selectors(r1) <=> always_match_ns_selectors(r2)
      /\ ~always_match_ns_selectors(r1) /\ ~isNamespace(r1) => r1.namespace # NoNamespace
      /\ get_ns_name(r1) = get_ns_name(r2)
  BY DEF isNamespace, always_match_ns_selectors, get_ns_name
<1>2. \A s : any_labelselector_match(s, r1) <=> any_labelselector_match(s, r2)
  BY DEF any_labelselector_match
<1>3. any_kind_selector_matches(m, r1) <=> any_kind_selector_matches(m, r2)
  BY DEF any_kind_selector_matches
<1>4. /\ matches_namespaces(m, r1) <=> matches_namespaces(m, r2)
      /\ does_not_match_excludednamespaces(m, r1) <=> does_not_match_excludednamespaces(m, r2)
  BY <1>1 DEF matches_namespaces, does_not_match_excludednamespaces
<1>5. matches_nsselector(m, r1, c1) <=> matches_nsselector(m, r2, c2)
  BY <1>1, <1>2 DEF matches_nsselector
<1>6. matches_scope(m, r1) <=> matches_scope(m, r2)
  BY DEF matches_scope
<1>7. autoreject_review(m, r1, c1) <=> autoreject_review(m, r2, c2)
  BY DEF autoreject_review
<1> QED
  BY <1>2, <1>3, <1>4, <1>5, <1>6, <1>7 DEF matching_constraints

\* With the namespace at hand no review is rejected unseen.
LEMMA NotRejected ==
  ASSUME NEW m, NEW o, NEW ns, NamespaceOf(o, ns), NEW old
  PROVE  ~autoreject_review(m, AdmissionReview(o, old, ns), {})
<1> DEFINE r == AdmissionReview(o, old, ns)
<1>1. r.namespace = requestNamespace(o) /\ r.unstable = ns
  BY AdmissionReviewIs
<1> HIDE DEF r
<1>2. ~autoreject_review(m, r, {})
  BY <1>1 DEF autoreject_review, get_ns, NamespaceOf
<1> QED
  BY <1>2 DEF r

LEMMA PathsMeet ==
  ASSUME NEW m, NEW o, IsObject(o), NEW ns, NamespaceOf(o, ns)
  PROVE  LET admitted == AdmissionReview(o, None, ns)
         IN  /\ matching_constraints(m, AuditReview(o, ns), {}) <=> matching_constraints(m, admitted, {})
             /\ autoreject_review(m, AuditReview(o, ns), {}) <=> autoreject_review(m, admitted, {})
             /\ matching_constraints(m, CacheReview(o), {ns} \ {None}) <=> matching_constraints(m, admitted, {})
             /\ autoreject_review(m, CacheReview(o), {ns} \ {None}) <=> autoreject_review(m, admitted, {})
<1> DEFINE r == AdmissionReview(o, None, ns)
           a == AuditReview(o, ns)
           c == CacheReview(o)
<1>1. /\ r.group = o.group /\ r.kind = o.kind /\ r.object = o /\ r.oldObject = None
      /\ r.namespace = requestNamespace(o) /\ r.unstable = ns
  BY AdmissionReviewIs
<1>2. /\ a.group = o.group /\ a.kind = o.kind /\ a.object = o /\ a.oldObject = None
      /\ a.namespace = (IF ns = None THEN NoNamespace ELSE ns.name)
      /\ ns # None => a.unstable = ns
  BY DEF AuditReview, EmptyNamespace
<1>3. /\ c.group = o.group /\ c.kind = o.kind /\ c.object = o /\ c.oldObject = None
      /\ c.namespace = o.namespace /\ c.unstable = None
  BY DEF CacheReview
<1> HIDE DEF r, a, c
<1>4. /\ a.namespace = r.namespace /\ c.namespace = r.namespace
      /\ r.namespace # NoNamespace => ns # None /\ ns.name = o.namespace
  BY <1>1, <1>2, <1>3 DEF NamespaceOf, IsObject, requestNamespace
<1>5. r.namespace # NoNamespace => get_ns(a, {}) = get_ns(r, {})
  BY <1>1, <1>2, <1>4 DEF get_ns
<1>6. r.namespace # NoNamespace => get_ns(c, {ns} \ {None}) = get_ns(r, {})
  BY <1>1, <1>3, <1>4 DEF get_ns
<1>7. /\ matching_constraints(m, a, {}) <=> matching_constraints(m, r, {})
      /\ autoreject_review(m, a, {}) <=> autoreject_review(m, r, {})
  BY <1>1, <1>2, <1>4, <1>5, AlikeReviews
<1>8. /\ matching_constraints(m, c, {ns} \ {None}) <=> matching_constraints(m, r, {})
      /\ autoreject_review(m, c, {ns} \ {None}) <=> autoreject_review(m, r, {})
  BY <1>1, <1>3, <1>4, <1>6, AlikeReviews
<1> QED
  BY <1>7, <1>8 DEF r, a, c

-------------------------------------------------------------------------------
\* Types

PCs == {"none", "admit", "mutate", "label", "validate", "exclude", "acquire", "namespace", "uncached",
        "work", "done"}

Responses == {"none", "allow", "warn", "deny", "patch", "error", "invalid"}

InputsNow == Inputs[conf.inputs]

ObjectsNow == UNION {ObjectsOf(in) : in \in InputsNow}

GivenNamespaces == {AsNamespace(n, labels) : n \in Namespaces, labels \in NamespaceLabels}

RequestType == [pc : PCs, in : InputsNow \cup {None}, obj : ObjectsNow \cup {None},
                ns : GivenNamespaces \cup {None}, resp : Responses]

AllFacts == {"excluded", "included", "inForce", "notInForce", "inScope", "outOfScope"}

Labelled == [Namespaces -> NamespaceLabels \cup {None}]

TypeInv ==
  /\ \E s \in Scenarios : conf \in s.confs
  /\ excluder = Add(config)
  /\ cluster \in Labelled /\ cache \in Labelled
  /\ req \in [Requests -> RequestType]
  /\ held \in [Requests -> SUBSET AllFacts]

-------------------------------------------------------------------------------
\* Requests and what they ask for

LEMMA InputIs ==
  ASSUME TypeInv, NEW in \in InputsNow
  PROVE  /\ in # None /\ in.hook \in {"admit", "mutate", "label"}
         /\ in.op # "DELETE" => in.object # None
         /\ \A o \in ObjectsOf(in) : IsObject(o) /\ o.namespace \in Namespaces \cup {NoNamespace}
<1>1. PICK s \in Scenarios : conf \in s.confs
  BY DEF TypeInv
<1>2. /\ in # None /\ in.hook \in {"admit", "mutate", "label"}
      /\ in.op # "DELETE" => in.object # None
      /\ \A o \in ObjectsOf(in) :
           /\ o.namespace \in Namespaces \cup {NoNamespace}
           /\ isNamespace(o) => o.namespace = NoNamespace
           /\ IsLabels(o.labels) /\ None # AsNamespace(o.name, o.labels)
  BY <1>1, WebhookAssumption DEF InputsNow
<1>3. \A o \in ObjectsOf(in) : o # None
  BY DEF ObjectsOf
<1> QED
  BY <1>2, <1>3 DEF IsObject

LEMMA ReviewedIs ==
  ASSUME TypeInv, NEW in \in InputsNow, Reviewed(in) # None
  PROVE  /\ IsObject(Reviewed(in)) /\ Reviewed(in).namespace \in Namespaces \cup {NoNamespace}
         /\ Reviewed(in) \in ObjectsNow
<1>1. Reviewed(in) \in ObjectsOf(in)
  BY DEF Reviewed, ObjectsOf
<1> QED
  BY <1>1, InputIs DEF ObjectsNow

\* What the two stores know of a namespace.
LEMMA KnownIs ==
  ASSUME TypeInv, NEW n \in Namespaces, NEW store \in {cluster, cache}, store[n] # None
  PROVE  /\ AsNamespace(n, store[n]) \in GivenNamespaces /\ AsNamespace(n, store[n]) # None
         /\ AsNamespace(n, store[n]).name = n /\ IsLabels(AsNamespace(n, store[n]).labels)
<1>1. store[n] \in NamespaceLabels
  BY DEF TypeInv, Labelled
<1>2. AsNamespace(n, store[n]) \in GivenNamespaces
  BY <1>1 DEF GivenNamespaces
<1> QED
  BY <1>1, <1>2, WebhookAssumption DEF AsNamespace, GivenNamespaces

LEMMA VisibleIs ==
  ASSUME TypeInv, NEW in \in InputsNow, Reviewed(in) # None, NEW ns \in Visible(in)
  PROVE  NamespaceOf(Reviewed(in), ns)
<1> DEFINE o == Reviewed(in)
           n == Reviewed(in).namespace
<1>1. n \in Namespaces \cup {NoNamespace}
  BY ReviewedIs
<1>2. CASE isNamespace(o) \/ n = NoNamespace
  BY <1>2 DEF Visible, NamespaceOf, requestNamespace
<1>3. CASE ~(isNamespace(o) \/ n = NoNamespace)
  <2>1. PICK v \in {cluster[n], cache[n]} \ {None} : ns = AsNamespace(n, v)
    BY <1>3, Zenon DEF Visible
  <2>2. n \in Namespaces
    BY <1>1, <1>3
  <2>3. ns # None /\ ns.name = n /\ IsLabels(ns.labels)
    BY <2>1, <2>2, KnownIs
  <2> QED
    BY <1>3, <2>3 DEF NamespaceOf, requestNamespace
<1> QED
  BY <1>2, <1>3

\* What a handler reads of the namespace can be seen at that moment.
LEMMA ReadIsVisible ==
  ASSUME TypeInv, NEW in \in InputsNow, Reviewed(in) # None
  PROVE  /\ requestNamespace(Reviewed(in)) = NoNamespace => None \in Visible(in)
         /\ \A store \in {cluster, cache} :
              /\ requestNamespace(Reviewed(in)) # NoNamespace
              /\ store[Reviewed(in).namespace] # None
              => AsNamespace(Reviewed(in).namespace, store[Reviewed(in).namespace]) \in Visible(in)
<1>1. requestNamespace(Reviewed(in)) = NoNamespace <=>
        isNamespace(Reviewed(in)) \/ Reviewed(in).namespace = NoNamespace
  BY DEF requestNamespace
<1>2. requestNamespace(Reviewed(in)) = NoNamespace => None \in Visible(in)
  BY <1>1 DEF Visible
<1>3. ASSUME NEW store \in {cluster, cache}, requestNamespace(Reviewed(in)) # NoNamespace,
             store[Reviewed(in).namespace] # None
      PROVE  AsNamespace(Reviewed(in).namespace, store[Reviewed(in).namespace]) \in Visible(in)
  <2>1. store[Reviewed(in).namespace] \in {cluster[Reviewed(in).namespace], cache[Reviewed(in).namespace]} \ {None}
    BY <1>3
  <2> QED
    BY <1>1, <1>3, <2>1, Zenon DEF Visible
<1> QED
  BY <1>2, <1>3

\* Each fact says of the request what its name says.
LEMMA FactsAre ==
  ASSUME NEW in
  PROVE  /\ Facts(in) # {} => in # None /\ in.hook # "label" /\ Reviewed(in) # None
         /\ "excluded" \in Facts(in) => Listed(in)
         /\ "included" \in Facts(in) => ~Listed(in)
         /\ "inForce" \in Facts(in) => InForce(in)
         /\ "notInForce" \in Facts(in) => ~InForce(in)
         /\ "inScope" \in Facts(in) => \A ns \in Visible(in) : InScope(in, ns)
         /\ "outOfScope" \in Facts(in) => \A ns \in Visible(in) : ~InScope(in, ns)
         /\ Facts(in) \subseteq AllFacts
<1>1. CASE in = None \/ in.hook = "label" \/ Reviewed(in) = None
  BY <1>1 DEF Facts
<1>2. CASE ~(in = None \/ in.hook = "label" \/ Reviewed(in) = None)
  <2>1. Facts(in) = {IF Listed(in) THEN "excluded" ELSE "included",
                     IF InForce(in) THEN "inForce" ELSE "notInForce"} \cup
                    {fact \in {"inScope", "outOfScope"} :
                       \A ns \in Visible(in) : InScope(in, ns) <=> fact = "inScope"}
    BY <1>2, Zenon DEF Facts
  <2> QED
    BY <1>2, <2>1 DEF AllFacts
<1> QED
  BY <1>1, <1>2

\* The facts depend on the world alone.
LEMMA FactsSame ==
  ASSUME UNCHANGED world, NEW in
  PROVE  Facts(in)' = Facts(in)
<1> USE DEF world
<1>1. Listed(in)' <=> Listed(in)
  BY DEF Listed
<1>2. InForce(in)' <=> InForce(in)
  BY DEF InForce
<1>3. Visible(in)' = Visible(in)
  BY DEF Visible
<1>4. \A ns : InScope(in, ns)' <=> InScope(in, ns)
  BY DEF InScope, MutatorMatches
<1> QED
  BY <1>1, <1>2, <1>3, <1>4 DEF Facts

\* The excluder skips what the Config lists for the handler's process.
LEMMA SkipIs ==
  ASSUME TypeInv, NEW in, NEW process, in.hook \in {"admit", "mutate"}, process = Process(in)
  PROVE  skipExcludedNamespace(Reviewed(in), process) <=> Reviewed(in).flaw # "undecodable" /\ Listed(in)
<1> DEFINE For(x) == \/ process \in x.processes
                     \/ "*" \in x.processes /\ process \in allProcesses
<1>1. process \in {"webhook", "mutation-webhook"} /\ (process \in allProcesses <=> in.hook # "mutate")
  BY DEF Process, allProcesses
<1>2. process \in {"audit", "sync", "webhook", "mutation-webhook"}
  BY <1>1
<1>3. excluder[process] = UNION {e.namespaces : e \in {x \in config : For(x)}}
  BY <1>2, Zenon DEF TypeInv, Add
<1>4. covers(excluder[process], NamespaceName(Reviewed(in))) <=>
        \E e \in config : For(e) /\ covers(e.namespaces, NamespaceName(Reviewed(in)))
  BY <1>3, Zenon DEF covers
<1>5. \A e \in config : For(e) <=> (Process(in) \in e.processes \/ ("*" \in e.processes /\ in.hook # "mutate"))
  BY <1>1
<1> HIDE DEF For
<1>6. covers(excluder[process], NamespaceName(Reviewed(in))) <=> Listed(in)
  BY <1>4, <1>5, Zenon DEF Listed
<1> QED
  BY <1>6 DEF skipExcludedNamespace

-------------------------------------------------------------------------------
\* The invariant

\* The answer to a request is what the properties ask for.
Judged(r, resp) ==
  /\ ~isGkServiceAccount(req[r].in) =>
       /\ resp \in {"allow", "warn"} => ~Held(r, {"included", "inForce", "inScope"})
       /\ resp \in {"deny", "patch"} => ~Held(r, {"notInForce"}) /\ ~Held(r, {"outOfScope"})
  /\ Held(r, {"excluded"}) /\ Reviewed(req[r].in).flaw = "none" => resp = "allow"

\* The namespace that was read is one that the facts speak of, old as it may be.
Placed(r, ns) ==
  /\ NamespaceOf(req[r].obj, ns)
  /\ "inScope" \in held[r] => InScope(req[r].in, ns)
  /\ "outOfScope" \in held[r] => ~InScope(req[r].in, ns)

Handled == {"validate", "exclude", "acquire", "namespace", "uncached", "work"}

\* A request that a handler has not answered yet.
InHand(r) ==
  /\ req[r].obj = Reviewed(req[r].in) /\ req[r].obj # None
  /\ req[r].in.hook = "mutate" =>
       req[r].in.op \in {"CREATE", "UPDATE"} /\ ~isGatekeeperResource(req[r].obj)
  /\ Held(r, {"excluded"}) /\ req[r].obj.flaw = "none" => req[r].pc \in {"validate", "exclude"}
  /\ req[r].pc \in {"namespace", "uncached"} => requestNamespace(req[r].obj) # NoNamespace
  /\ req[r].pc = "work" => Placed(r, req[r].ns)

Good(r) ==
  /\ Done(r) => Judged(r, req[r].resp)
  /\ At(r, "mutate", "mutate") => req[r].obj = req[r].in.object
  /\ req[r].pc # "work" => req[r].ns = None
  /\ req[r].in # None /\ req[r].pc \in Handled => InHand(r)

\* What is remembered of a request is still true.
HeldInv == \A r \in Requests : held[r] \subseteq Facts(req[r].in)

\* The inductive invariant.
IInv == TypeInv /\ HeldInv /\ \A r \in Requests : Good(r)

-------------------------------------------------------------------------------
\* What the steps of a handler do

\* Request r, and no other, takes these values.
Becomes(r, pc, in, obj, ns, resp) ==
  /\ \A q \in Requests \ {r} : req'[q] = req[q]
  /\ req'[r].pc = pc /\ req'[r].in = in /\ req'[r].obj = obj /\ req'[r].ns = ns /\ req'[r].resp = resp
  /\ req' \in [Requests -> RequestType]

LEMMA GotoIs ==
  ASSUME TypeInv, NEW r \in Requests, NEW pc \in PCs, Goto(r, pc)
  PROVE  Becomes(r, pc, req[r].in, req[r].obj, req[r].ns, req[r].resp)
<1>1. req \in [Requests -> RequestType]
  BY DEF TypeInv
<1> QED
  BY <1>1 DEF Goto, Becomes, RequestType

LEMMA RespondIs ==
  ASSUME TypeInv, NEW r \in Requests, NEW resp \in Responses, Respond(r, resp)
  PROVE  Becomes(r, "done", req[r].in, None, None, resp)
<1>1. req \in [Requests -> RequestType]
  BY DEF TypeInv
<1>2. req[r] \in RequestType
  BY <1>1
<1>3. req' = [req EXCEPT ![r].pc = "done", ![r].resp = resp, ![r].obj = None, ![r].ns = None]
  BY DEF Respond
<1>4. \A q \in Requests \ {r} : req'[q] = req[q]
  BY <1>1, <1>3
<1>5. /\ req'[r].pc = "done" /\ req'[r].in = req[r].in /\ req'[r].obj = None /\ req'[r].ns = None
      /\ req'[r].resp = resp /\ req'[r] \in RequestType
  BY <1>1, <1>2, <1>3 DEF RequestType, PCs
<1>6. req' \in [Requests -> RequestType]
  BY <1>1, <1>3, <1>4, <1>5
<1> QED
  BY <1>4, <1>5, <1>6 DEF Becomes

LEMMA GivenIs ==
  ASSUME TypeInv, NEW r \in Requests, NEW store \in {cluster, cache}, req[r].obj.namespace \in Namespaces,
         store[req[r].obj.namespace] # None, Given(r, store)
  PROVE  Becomes(r, "work", req[r].in, req[r].obj,
                 AsNamespace(req[r].obj.namespace, store[req[r].obj.namespace]), req[r].resp)
<1> DEFINE x == AsNamespace(req[r].obj.namespace, store[req[r].obj.namespace])
<1>1. req \in [Requests -> RequestType]
  BY DEF TypeInv
<1>2. x \in GivenNamespaces
  BY KnownIs
<1>3. req' = [req EXCEPT ![r].pc = "work", ![r].ns = x]
  BY DEF Given
<1> HIDE DEF x
<1>4. Becomes(r, "work", req[r].in, req[r].obj, x, req[r].resp)
  BY <1>1, <1>2, <1>3 DEF Becomes, RequestType, PCs
<1> QED
  BY <1>4 DEF x

LEMMA ArriveIs ==
  ASSUME TypeInv, NEW r \in Requests, NEW in \in InputsNow,
         req' = [req EXCEPT ![r] = [NoRequest EXCEPT !.pc = in.hook, !.in = in, !.obj = in.object]]
  PROVE  Becomes(r, in.hook, in, in.object, None, "none")
<1> DEFINE x == [NoRequest EXCEPT !.pc = in.hook, !.in = in, !.obj = in.object]
<1>1. req \in [Requests -> RequestType]
  BY DEF TypeInv
<1>2. in.hook \in PCs /\ in.object \in ObjectsNow \cup {None}
  BY InputIs DEF PCs, ObjectsNow, ObjectsOf
<1>3. /\ x \in RequestType
      /\ x.pc = in.hook /\ x.in = in /\ x.obj = in.object /\ x.ns = None /\ x.resp = "none"
  BY <1>2 DEF NoRequest, RequestType, Responses
<1> HIDE DEF x
<1>4. req' = [req EXCEPT ![r] = x]
  BY DEF x
<1> QED
  BY <1>1, <1>3, <1>4 DEF Becomes

\* The effect of a step of request r that keeps its invariant.
Outcome(r) ==
  /\ \A q \in Requests \ {r} : req'[q] = req[q]
  /\ req' \in [Requests -> RequestType] /\ req'[r].in = req[r].in
  /\ Good(r)'

\* An answer has to be judged; nothing else depends on it.
LEMMA Answers ==
  ASSUME TypeInv, UNCHANGED <<conf, held>>, NEW r \in Requests, NEW resp \in Responses, Respond(r, resp),
         Judged(r, resp)
  PROVE  Outcome(r)
<1>1. Becomes(r, "done", req[r].in, None, None, resp)
  BY RespondIs
<1> QED
  BY <1>1 DEF Becomes, Outcome, Good, Done, Judged, Held, At, Handled

\* A handler that goes on with the request in hand.
LEMMA Moves ==
  ASSUME TypeInv, UNCHANGED <<conf, held>>, NEW r \in Requests, NEW pc \in Handled, NEW ns, NEW resp,
         Becomes(r, pc, req[r].in, req[r].obj, ns, resp),
         req[r].obj = Reviewed(req[r].in), req[r].obj # None,
         req[r].in.hook = "mutate" =>
           req[r].in.op \in {"CREATE", "UPDATE"} /\ ~isGatekeeperResource(req[r].obj),
         Held(r, {"excluded"}) /\ req[r].obj.flaw = "none" => pc \in {"validate", "exclude"},
         pc \in {"namespace", "uncached"} => requestNamespace(req[r].obj) # NoNamespace,
         IF pc = "work" THEN Placed(r, ns) ELSE ns = None
  PROVE  Outcome(r)
<1>1. /\ req'[r].pc = pc /\ req'[r].in = req[r].in /\ req'[r].obj = req[r].obj /\ req'[r].ns = ns
      /\ \A q \in Requests \ {r} : req'[q] = req[q]
      /\ req' \in [Requests -> RequestType]
  BY DEF Becomes
<1>2. pc = "work" => Placed(r, req[r].ns)'
  BY <1>1 DEF Placed, InScope, MutatorMatches
<1>3. InHand(r)'
  BY <1>1, <1>2 DEF InHand, Held
<1>4. Good(r)'
  BY <1>1, <1>3 DEF Good, Done, At, Handled
<1> QED
  BY <1>1, <1>4 DEF Outcome

-------------------------------------------------------------------------------
\* The steps of the handlers

LEMMA HeldFacts ==
  ASSUME HeldInv, NEW r \in Requests
  PROVE  /\ held[r] # {} => req[r].in # None /\ req[r].in.hook # "label" /\ Reviewed(req[r].in) # None
         /\ "excluded" \in held[r] => Listed(req[r].in)
         /\ "included" \in held[r] => ~Listed(req[r].in)
         /\ "inForce" \in held[r] => InForce(req[r].in)
         /\ "notInForce" \in held[r] => ~InForce(req[r].in)
         /\ "inScope" \in held[r] => \A ns \in Visible(req[r].in) : InScope(req[r].in, ns)
         /\ "outOfScope" \in held[r] => \A ns \in Visible(req[r].in) : ~InScope(req[r].in, ns)
<1>1. held[r] \subseteq Facts(req[r].in)
  BY DEF HeldInv
<1> QED
  BY <1>1, FactsAre

\* An error is right wherever the request is not exempt.
LEMMA ErrorIsRight ==
  ASSUME NEW r, NEW resp \in {"error", "invalid"}, ~(Held(r, {"excluded"}) /\ Reviewed(req[r].in).flaw = "none")
  PROVE  Judged(r, resp)
BY DEF Judged

\* Beyond the check of the excluder a request is not exempt.
LEMMA PastExclusion ==
  ASSUME NEW r \in Requests, Good(r), req[r].in # None,
         req[r].pc \in {"acquire", "namespace", "uncached", "work"}
  PROVE  /\ InHand(r)
         /\ ~(Held(r, {"excluded"}) /\ Reviewed(req[r].in).flaw = "none")
<1>1. InHand(r)
  BY DEF Good, Handled
<1> QED
  BY <1>1 DEF InHand

LEMMA InputOf ==
  ASSUME TypeInv, NEW r \in Requests, req[r].in # None
  PROVE  req[r].in \in InputsNow
BY DEF TypeInv, RequestType

\* The namespace of a request in hand is asked for, or there is none.
LEMMA GotoNamespaceIs ==
  ASSUME IInv, UNCHANGED <<conf, held>>, NEW r \in Requests, req[r].in # None, req[r].pc \in {"exclude", "acquire"},
         ~(Held(r, {"excluded"}) /\ req[r].obj.flaw = "none"), GotoNamespace(r)
  PROVE  Outcome(r)
<1> DEFINE pc == IF requestNamespace(req[r].obj) = NoNamespace THEN "work" ELSE "namespace"
<1>1. TypeInv /\ HeldInv /\ Good(r)
  BY DEF IInv
<1>2. InHand(r) /\ req[r].ns = None
  BY <1>1 DEF Good, Handled
<1>3. Becomes(r, pc, req[r].in, req[r].obj, None, req[r].resp)
  BY <1>1, <1>2, GotoIs DEF GotoNamespace, PCs
<1>4. pc = "work" => Placed(r, None)
  <2> SUFFICES ASSUME pc = "work" PROVE Placed(r, None)
    OBVIOUS
  <2>1. requestNamespace(req[r].obj) = NoNamespace /\ req[r].obj = Reviewed(req[r].in) /\ req[r].obj # None
    BY <1>2 DEF InHand
  <2>2. req[r].in \in InputsNow
    BY <1>1, InputOf
  <2>3. None \in Visible(req[r].in)
    BY <1>1, <2>1, <2>2, ReadIsVisible
  <2> QED
    BY <1>1, <2>1, <2>3, HeldFacts DEF Placed, NamespaceOf
<1>5. pc \in Handled /\ (pc # "work" => requestNamespace(req[r].obj) # NoNamespace) /\ pc \in {"work", "namespace"}
  BY DEF Handled
<1> HIDE DEF pc
<1> QED
  BY <1>1, <1>2, <1>3, <1>4, <1>5, Moves DEF InHand

\* What is read of the namespace is what the facts speak of.
LEMMA GivenOutcome ==
  ASSUME IInv, UNCHANGED <<conf, held>>, NEW r \in Requests, req[r].in # None, req[r].pc \in {"namespace", "uncached"},
         NEW store \in {cluster, cache}, ~Unknown(r, store), Given(r, store)
  PROVE  Outcome(r)
<1> DEFINE x == AsNamespace(req[r].obj.namespace, store[req[r].obj.namespace])
<1>1. TypeInv /\ HeldInv /\ Good(r)
  BY DEF IInv
<1>2. InHand(r) /\ ~(Held(r, {"excluded"}) /\ Reviewed(req[r].in).flaw = "none")
  BY <1>1, PastExclusion
<1>3. /\ req[r].obj = Reviewed(req[r].in) /\ req[r].obj # None /\ requestNamespace(req[r].obj) # NoNamespace
      /\ req[r].in \in InputsNow /\ store[req[r].obj.namespace] # None
  BY <1>1, <1>2, InputOf DEF InHand, Unknown
<1>4. req[r].obj.namespace \in Namespaces
  BY <1>1, <1>3, ReviewedIs DEF requestNamespace, IsObject
<1>5. Becomes(r, "work", req[r].in, req[r].obj, x, req[r].resp)
  BY <1>1, <1>3, <1>4, GivenIs
<1>6. x \in Visible(req[r].in)
  BY <1>1, <1>3, ReadIsVisible
<1> HIDE DEF x
<1>7. Placed(r, x)
  BY <1>1, <1>3, <1>6, HeldFacts, VisibleIs DEF Placed
<1> QED
  BY <1>1, <1>2, <1>3, <1>5, <1>7, Moves DEF InHand, Handled

LEMMA NamespaceGetIs ==
  ASSUME IInv, UNCHANGED <<conf, held>>, NEW r \in Requests, req[r].in # None, req[r].pc = "namespace", NamespaceGet(r)
  PROVE  Outcome(r)
<1>1. TypeInv /\ HeldInv /\ Good(r)
  BY DEF IInv
<1>2. CASE ~Unknown(r, cache) /\ Given(r, cache)
  BY <1>2, GivenOutcome
<1>3. CASE Goto(r, "uncached")
  <2>1. InHand(r) /\ ~(Held(r, {"excluded"}) /\ Reviewed(req[r].in).flaw = "none") /\ req[r].ns = None
    BY <1>1, PastExclusion DEF Good
  <2>2. Becomes(r, "uncached", req[r].in, req[r].obj, None, req[r].resp)
    BY <1>1, <1>3, <2>1, GotoIs DEF PCs
  <2> QED
    BY <1>1, <2>1, <2>2, Moves DEF InHand, Handled
<1> QED
  BY <1>2, <1>3 DEF NamespaceGet

\* validationHandler.Handle, up to the semaphore.
LEMMA AdmitStartKeeps ==
  ASSUME IInv, NEW r \in Requests, AdmitStart(r)
  PROVE  Outcome(r)
<1> DEFINE in == req[r].in
<1>1. TypeInv /\ HeldInv /\ Good(r) /\ UNCHANGED <<conf, held>> /\ At(r, "admit", "admit")
  BY DEF IInv, AdmitStart, Only, world
<1>2. in # None /\ in \in InputsNow /\ in.hook = "admit" /\ req[r].pc = "admit" /\ req[r].ns = None
  BY <1>1, InputOf DEF At, Good
<1>3. CASE isGkServiceAccount(in) /\ Respond(r, "allow")
  BY <1>1, <1>3, Answers DEF Judged, Responses
<1>4. CASE in.op = "DELETE" /\ in.oldObject = None /\ Respond(r, "error")
  <2>1. Reviewed(in) = None
    BY <1>4 DEF Reviewed
  <2>2. held[r] = {}
    BY <1>1, <2>1, HeldFacts
  <2>3. Judged(r, "error")
    BY <2>2, ErrorIsRight DEF Held
  <2> QED
    BY <1>1, <1>4, <2>3, Answers DEF Responses
<1>5. CASE /\ ~(in.op = "DELETE" /\ in.oldObject = None)
           /\ req' = [req EXCEPT ![r].pc = "validate", ![r].obj = Reviewed(in)]
  <2>1. Reviewed(in) # None
    BY <1>1, <1>2, <1>5, InputIs DEF Reviewed
  <2>2. Reviewed(in) \in ObjectsNow
    BY <1>1, <1>2, <2>1, ReviewedIs
  <2>3. Becomes(r, "validate", in, Reviewed(in), None, req[r].resp)
    <3>1. req \in [Requests -> RequestType]
      BY <1>1 DEF TypeInv
    <3>2. ASSUME NEW o \in ObjectsNow, req' = [req EXCEPT ![r].pc = "validate", ![r].obj = o]
          PROVE  Becomes(r, "validate", req[r].in, o, req[r].ns, req[r].resp)
      BY <3>1, <3>2 DEF Becomes, RequestType, PCs
    <3> QED
      BY <1>2, <1>5, <2>2, <3>2
  <2>4. InHand(r)'
    BY <1>2, <2>1, <2>3 DEF Becomes, InHand
  <2> QED
    BY <2>3, <2>4 DEF Becomes, Outcome, Good, Done, At
<1> QED
  BY <1>3, <1>4, <1>5 DEF AdmitStart

LEMMA AdmitValidateKeeps ==
  ASSUME IInv, NEW r \in Requests, AdmitValidate(r)
  PROVE  Outcome(r)
<1> DEFINE result == validateGatekeeperResources(req[r].obj)
<1>1. TypeInv /\ HeldInv /\ Good(r) /\ UNCHANGED <<conf, held>> /\ At(r, "admit", "validate")
  BY DEF IInv, AdmitValidate, Only, world
<1>2. req[r].in # None /\ InHand(r) /\ req[r].ns = None
  BY <1>1 DEF At, Good, Handled
<1>3. result \in {"none", "error", "invalid"} /\ (req[r].obj.flaw = "none" => result = "none")
  BY DEF validateGatekeeperResources, validateTemplate, validateAssign, validateAssignMetadata, validateConstraint,
     validateConfigResource, Decoded
<1>4. IF result = "none" THEN Goto(r, "exclude") ELSE Respond(r, result)
  BY DEF AdmitValidate
<1> HIDE DEF result
<1>5. CASE Goto(r, "exclude")
  <2>1. Becomes(r, "exclude", req[r].in, req[r].obj, None, req[r].resp)
    BY <1>1, <1>2, <1>5, GotoIs DEF PCs
  <2> QED
    BY <1>1, <1>2, <2>1, Moves DEF InHand, Handled
<1>6. CASE result # "none" /\ Respond(r, result)
  <2>1. Judged(r, result)
    BY <1>2, <1>3, <1>6, ErrorIsRight DEF InHand
  <2> QED
    BY <1>1, <1>3, <1>6, <2>1, Answers DEF Responses
<1> QED
  BY <1>4, <1>5, <1>6

\* What the excluder says of a request in hand.
LEMMA ExclusionIs ==
  ASSUME IInv, NEW r \in Requests, req[r].in # None, req[r].in.hook \in {"admit", "mutate"}, req[r].pc = "exclude"
  PROVE  /\ skipExcludedNamespace(req[r].obj, Process(req[r].in)) => Judged(r, "allow")
         /\ ~skipExcludedNamespace(req[r].obj, Process(req[r].in)) =>
              ~(Held(r, {"excluded"}) /\ req[r].obj.flaw = "none")
<1>1. TypeInv /\ HeldInv /\ InHand(r)
  BY DEF IInv, Good, Handled
<1>2. req[r].obj = Reviewed(req[r].in)
  BY <1>1 DEF InHand
<1>3. skipExcludedNamespace(req[r].obj, Process(req[r].in)) <=> req[r].obj.flaw # "undecodable" /\ Listed(req[r].in)
  BY <1>1, <1>2, SkipIs
<1> QED
  BY <1>1, <1>3, HeldFacts DEF Judged, Held

LEMMA AdmitExcludeKeeps ==
  ASSUME IInv, NEW r \in Requests, AdmitExclude(r)
  PROVE  Outcome(r)
<1>1. TypeInv /\ HeldInv /\ Good(r) /\ UNCHANGED <<conf, held>> /\ At(r, "admit", "exclude")
  BY DEF IInv, AdmitExclude, Only, world
<1>2. /\ req[r].in # None /\ InHand(r) /\ req[r].ns = None /\ Process(req[r].in) = "webhook"
      /\ req[r].in.hook = "admit" /\ req[r].pc = "exclude"
  BY <1>1 DEF At, Good, Handled, Process
<1>3. CASE skipExcludedNamespace(req[r].obj, "webhook") /\ Respond(r, "allow")
  BY <1>1, <1>2, <1>3, ExclusionIs, Answers DEF Responses
<1>4. CASE ~skipExcludedNamespace(req[r].obj, "webhook") /\ Goto(r, "acquire")
  <2>1. Becomes(r, "acquire", req[r].in, req[r].obj, None, req[r].resp)
    BY <1>1, <1>2, <1>4, GotoIs DEF PCs
  <2>2. ~(Held(r, {"excluded"}) /\ req[r].obj.flaw = "none")
    BY <1>2, <1>4, ExclusionIs
  <2> QED
    BY <1>1, <1>2, <2>1, <2>2, Moves DEF InHand, Handled
<1> QED
  BY <1>3, <1>4 DEF AdmitExclude

LEMMA AdmitAcquireKeeps ==
  ASSUME IInv, NEW r \in Requests, AdmitAcquire(r)
  PROVE  Outcome(r)
<1>1. UNCHANGED <<conf, held>> /\ At(r, "admit", "acquire") /\ GotoNamespace(r) /\ Good(r)
  BY DEF IInv, AdmitAcquire, world
<1>2. ~(Held(r, {"excluded"}) /\ req[r].obj.flaw = "none") /\ req[r].in # None /\ req[r].pc = "acquire"
  BY <1>1, PastExclusion DEF At, InHand
<1> QED
  BY <1>1, <1>2, GotoNamespaceIs

\* The steps that fail after the check of the excluder.
LEMMA FailsKeeps ==
  ASSUME IInv, NEW r \in Requests, UNCHANGED <<conf, held>>, req[r].in # None,
         req[r].pc \in {"acquire", "namespace", "uncached", "work"}, Respond(r, "error")
  PROVE  Outcome(r)
<1>1. TypeInv /\ Good(r)
  BY DEF IInv
<1>2. Judged(r, "error")
  BY <1>1, PastExclusion, ErrorIsRight
<1> QED
  BY <1>1, <1>2, Answers DEF Responses

LEMMA NamespaceKeeps ==
  ASSUME IInv, NEW r \in Requests,
         AdmitNamespace(r) \/ AdmitNamespaceAPI(r) \/ MutateNamespace(r) \/ MutateNamespaceAPI(r)
         \/ AdmitFails(r) \/ AdmitCancelled(r) \/ MutateFails(r)
  PROVE  Outcome(r)
<1> USE DEF world, Only
<1>1. CASE AdmitNamespace(r) \/ MutateNamespace(r)
  BY <1>1, NamespaceGetIs DEF AdmitNamespace, MutateNamespace, At
<1>2. CASE AdmitNamespaceAPI(r) \/ MutateNamespaceAPI(r)
  <2>1. UNCHANGED <<conf, held>> /\ req[r].in # None /\ req[r].pc = "uncached"
        /\ ((~Unknown(r, cluster) /\ Given(r, cluster)) \/ Respond(r, "error"))
    BY <1>2 DEF AdmitNamespaceAPI, MutateNamespaceAPI, At
  <2> QED
    BY <2>1, GivenOutcome, FailsKeeps
<1>3. CASE AdmitFails(r) \/ AdmitCancelled(r) \/ MutateFails(r)
  BY <1>3, FailsKeeps DEF AdmitFails, AdmitCancelled, MutateFails, At
<1> QED
  BY <1>1, <1>2, <1>3

\* opa.Review and the verdict.
LEMMA AdmitReviewKeeps ==
  ASSUME IInv, NEW r \in Requests, AdmitReview(r)
  PROVE  Outcome(r)
<1> DEFINE o == req[r].obj
           review == AdmissionReview(o, req[r].in.oldObject, req[r].ns)
           resp == IF o.flaw = "undecodable" THEN "error" ELSE getValidationMessages(Review(r))
<1>1. TypeInv /\ HeldInv /\ Good(r) /\ UNCHANGED <<conf, held>> /\ At(r, "admit", "work")
  BY DEF IInv, AdmitReview, world
<1>2. /\ req[r].in # None /\ req[r].in.hook = "admit" /\ req[r].pc = "work" /\ InHand(r)
      /\ ~(Held(r, {"excluded"}) /\ Reviewed(req[r].in).flaw = "none")
  BY <1>1, PastExclusion DEF At
<1>3. Placed(r, req[r].ns) /\ o = Reviewed(req[r].in)
  BY <1>2 DEF InHand
<1>4. ~autoreject_review(conf.match, review, {})
  BY <1>3, NotRejected DEF Placed
<1>5. InScope(req[r].in, req[r].ns) <=> matching_constraints(conf.match, review, {})
  BY <1>2, <1>3 DEF InScope
<1>6. InForce(req[r].in) <=> "deny" \in opa /\ o.bad
  BY <1>2, <1>3 DEF InForce
<1>7. "deny" \in Review(r) <=> InForce(req[r].in) /\ InScope(req[r].in, req[r].ns)
  BY <1>4, <1>5, <1>6 DEF Review
<1>8. /\ resp \in {"error", "deny", "warn", "allow"}
      /\ resp = "deny" => "deny" \in Review(r)
      /\ resp \in {"allow", "warn"} => "deny" \notin Review(r)
  BY DEF getValidationMessages
<1>9. Respond(r, resp)
  BY DEF AdmitReview
<1> HIDE DEF resp
<1>10. Judged(r, resp)
  BY <1>1, <1>2, <1>3, <1>7, <1>8, HeldFacts DEF Judged, Held, Placed
<1> QED
  BY <1>1, <1>8, <1>9, <1>10, Answers DEF Responses

\* mutationHandler.Handle.
LEMMA MutateStartKeeps ==
  ASSUME IInv, NEW r \in Requests, MutateStart(r)
  PROVE  Outcome(r)
<1> DEFINE in == req[r].in
<1>1. TypeInv /\ HeldInv /\ Good(r) /\ UNCHANGED <<conf, held>> /\ At(r, "mutate", "mutate")
  BY DEF IInv, MutateStart, Only, world
<1>2. /\ in # None /\ in \in InputsNow /\ in.hook = "mutate" /\ req[r].ns = None /\ req[r].obj = in.object
      /\ req[r].pc = "mutate"
  BY <1>1, InputOf DEF At, Good
<1>3. CASE /\ isGkServiceAccount(in) \/ in.op \notin {"CREATE", "UPDATE"} \/ isGatekeeperResource(in.object)
           /\ Respond(r, "allow")
  <2>1. ~isGkServiceAccount(in) => ~InForce(in)
    BY <1>2, <1>3 DEF InForce, Reviewed
  <2>2. Judged(r, "allow")
    BY <1>1, <2>1, HeldFacts DEF Judged, Held
  <2> QED
    BY <1>1, <1>3, <2>2, Answers DEF Responses
<1>4. CASE /\ in.op \in {"CREATE", "UPDATE"} /\ ~isGatekeeperResource(in.object)
           /\ Goto(r, "exclude")
  <2>1. req[r].obj = Reviewed(in) /\ req[r].obj # None
    BY <1>1, <1>2, <1>4, InputIs DEF Reviewed
  <2>2. Becomes(r, "exclude", req[r].in, req[r].obj, None, req[r].resp)
    BY <1>1, <1>2, <1>4, GotoIs DEF PCs
  <2> QED
    BY <1>1, <1>2, <1>4, <2>1, <2>2, Moves DEF Handled
<1> QED
  BY <1>3, <1>4 DEF MutateStart

LEMMA MutateExcludeKeeps ==
  ASSUME IInv, NEW r \in Requests, MutateExclude(r)
  PROVE  Outcome(r)
<1>1. TypeInv /\ UNCHANGED <<conf, held>> /\ At(r, "mutate", "exclude")
  BY DEF IInv, MutateExclude, Only, world
<1>2. /\ req[r].in # None /\ Process(req[r].in) = "mutation-webhook"
      /\ req[r].in.hook = "mutate" /\ req[r].pc = "exclude"
  BY <1>1 DEF At, Process
<1>3. CASE skipExcludedNamespace(req[r].obj, "mutation-webhook") /\ Respond(r, "allow")
  BY <1>1, <1>2, <1>3, ExclusionIs, Answers DEF Responses
<1>4. CASE ~skipExcludedNamespace(req[r].obj, "mutation-webhook") /\ GotoNamespace(r)
  <2>1. ~(Held(r, {"excluded"}) /\ req[r].obj.flaw = "none")
    BY <1>2, <1>4, ExclusionIs
  <2> QED
    BY <1>1, <1>2, <1>4, <2>1, GotoNamespaceIs
<1> QED
  BY <1>3, <1>4 DEF MutateExclude

LEMMA MutateRequestKeeps ==
  ASSUME IInv, NEW r \in Requests, MutateRequest(r)
  PROVE  Outcome(r)
<1> DEFINE o == req[r].obj
           applies == mutator /\ MutatorMatches(o, GoNamespace(o, req[r].ns))
           resp == IF o.flaw = "undecodable" \/ (applies /\ o.effect = "failed") THEN "error"
                   ELSE IF applies /\ o.effect = "mutated" THEN "patch" ELSE "allow"
<1>1. TypeInv /\ HeldInv /\ Good(r) /\ UNCHANGED <<conf, held>> /\ At(r, "mutate", "work")
  BY DEF IInv, MutateRequest, Only, world
<1>2. /\ req[r].in # None /\ req[r].in.hook = "mutate" /\ req[r].pc = "work" /\ InHand(r)
      /\ ~(Held(r, {"excluded"}) /\ Reviewed(req[r].in).flaw = "none")
  BY <1>1, PastExclusion DEF At
<1>3. /\ Placed(r, req[r].ns) /\ o = Reviewed(req[r].in)
      /\ req[r].in.op \in {"CREATE", "UPDATE"} /\ ~isGatekeeperResource(o)
  BY <1>2 DEF InHand
<1>4. /\ InScope(req[r].in, req[r].ns) <=> MutatorMatches(o, GoNamespace(o, req[r].ns))
      /\ InForce(req[r].in) <=> mutator /\ o.effect = "mutated"
  BY <1>2, <1>3 DEF InScope, InForce
<1>5. Respond(r, resp)
  BY Zenon DEF MutateRequest
<1> HIDE DEF applies
<1>6. /\ resp \in {"error", "patch", "allow"}
      /\ resp = "patch" => applies /\ o.effect = "mutated"
      /\ resp = "allow" => ~(applies /\ o.effect = "mutated")
  OBVIOUS
<1> HIDE DEF resp
<1>7. applies /\ o.effect = "mutated" <=> InForce(req[r].in) /\ InScope(req[r].in, req[r].ns)
  BY <1>4 DEF applies
<1>8. Judged(r, resp)
  BY <1>1, <1>2, <1>3, <1>6, <1>7, HeldFacts DEF Judged, Held, Placed
<1> QED
  BY <1>1, <1>5, <1>6, <1>8, Answers DEF Responses

\* namespaceLabelHandler.Handle: the facts are not about this handler.
LEMMA LabelHandleKeeps ==
  ASSUME IInv, NEW r \in Requests, LabelHandle(r)
  PROVE  Outcome(r)
<1>1. TypeInv /\ HeldInv /\ UNCHANGED <<conf, held>> /\ At(r, "label", "label")
  BY DEF IInv, LabelHandle, Only, world
<1>2. held[r] = {}
  BY <1>1, HeldFacts DEF At
<1>3. \A resp : Judged(r, resp)
  BY <1>2 DEF Judged, Held
<1>4. \E resp \in Responses : Respond(r, resp)
  BY DEF LabelHandle, Responses
<1> QED
  BY <1>1, <1>3, <1>4, Answers

-------------------------------------------------------------------------------
\* The invariant holds

\* A request in which nothing happens keeps its invariant while less is remembered.
LEMMA GoodKept ==
  ASSUME NEW r \in Requests, Good(r), conf' = conf, req'[r] = req[r], held'[r] \subseteq held[r]
  PROVE  Good(r)'
<1>1. \A facts : Held(r, facts)' => Held(r, facts)
  BY DEF Held
<1>2. \A resp : Judged(r, resp) => Judged(r, resp)'
  BY <1>1 DEF Judged
<1>3. \A ns : Placed(r, ns) => Placed(r, ns)'
  BY DEF Placed, InScope, MutatorMatches
<1>4. InHand(r) => InHand(r)'
  BY <1>1, <1>3 DEF InHand
<1> QED
  BY <1>2, <1>4 DEF Good, Done, At

LEMMA HandlerStep ==
  ASSUME IInv, NEW r \in Requests,
         Step(r) \/ AdmitCancelled(r) \/ AdmitFails(r) \/ MutateFails(r)
  PROVE  IInv'
<1>1. Outcome(r)
  BY AdmitStartKeeps, AdmitValidateKeeps, AdmitExcludeKeeps, AdmitAcquireKeeps, NamespaceKeeps, AdmitReviewKeeps,
     MutateStartKeeps, MutateExcludeKeeps, MutateRequestKeeps, LabelHandleKeeps DEF Step
<1>2. UNCHANGED <<world, held>>
  BY DEF Step, AdmitStart, AdmitValidate, AdmitExclude, AdmitAcquire, AdmitNamespace, AdmitNamespaceAPI, AdmitReview,
     MutateStart, MutateExclude, MutateNamespace, MutateNamespaceAPI, MutateRequest, LabelHandle, AdmitCancelled,
     AdmitFails, MutateFails, Only
<1>3. req' \in [Requests -> RequestType] /\ \A q \in Requests : req'[q].in = req[q].in
  BY <1>1 DEF Outcome
<1>4. TypeInv'
  BY <1>2, <1>3 DEF IInv, TypeInv, world, RequestType, InputsNow, ObjectsNow, Add
<1>5. HeldInv'
  <2> SUFFICES ASSUME NEW q \in Requests PROVE held'[q] \subseteq Facts(req[q].in)'
    BY DEF HeldInv
  <2>1. held[q] \subseteq Facts(req[q].in)
    BY DEF IInv, HeldInv
  <2>2. PICK in : in = req[q].in /\ in = req'[q].in
    BY <1>3
  <2>3. Facts(in)' = Facts(in)
    BY <1>2, FactsSame
  <2> QED
    BY <1>2, <2>1, <2>2, <2>3
<1>6. ASSUME NEW q \in Requests PROVE Good(q)'
  <2>1. CASE q = r
    BY <1>1, <2>1 DEF Outcome
  <2>2. CASE q # r
    <3>1. req'[q] = req[q]
      BY <1>1, <2>2 DEF Outcome
    <3> QED
      BY <1>2, <3>1, GoodKept DEF IInv, world
  <2> QED
    BY <2>1, <2>2
<1> QED
  BY <1>4, <1>5, <1>6 DEF IInv

\* The world changes and is looked at anew for every request.
LEMMA WorldStep ==
  ASSUME IInv, conf' = conf, UNCHANGED req, excluder' = Add(config'), cluster' \in Labelled, cache' \in Labelled,
         Remember
  PROVE  IInv'
<1>1. \A r \in Requests : held'[r] = held[r] \cap Facts(req[r].in)'
  BY DEF Remember
<1>2. TypeInv'
  <2>1. RequestType' = RequestType /\ req' \in [Requests -> RequestType]
    BY DEF IInv, TypeInv, RequestType, InputsNow, ObjectsNow
  <2>2. held' \in [Requests -> SUBSET AllFacts]
    BY DEF IInv, TypeInv, Remember
  <2>3. (\E s \in Scenarios : conf \in s.confs)'
    BY DEF IInv, TypeInv
  <2>4. (excluder = Add(config))'
    BY DEF Add
  <2> QED
    BY <2>1, <2>2, <2>3, <2>4 DEF TypeInv
<1>3. HeldInv'
  BY <1>1 DEF HeldInv
<1>4. \A r \in Requests : Good(r)'
  BY <1>1, GoodKept DEF IInv
<1> QED
  BY <1>2, <1>3, <1>4 DEF IInv

LEMMA ArriveKeeps ==
  ASSUME IInv, NEW r \in Requests, Arrive(r)
  PROVE  IInv'
<1>1. PICK in \in InputsNow :
        /\ req' = [req EXCEPT ![r] = [NoRequest EXCEPT !.pc = in.hook, !.in = in, !.obj = in.object]]
        /\ held' = [held EXCEPT ![r] = Facts(in)]
  BY DEF Arrive, InputsNow
<1>2. UNCHANGED world /\ TypeInv
  BY DEF Arrive, IInv
<1>3. Becomes(r, in.hook, in, in.object, None, "none")
  BY <1>1, <1>2, ArriveIs
<1>4. /\ held'[r] = Facts(in) /\ \A q \in Requests \ {r} : held'[q] = held[q]
      /\ held' \in [Requests -> SUBSET AllFacts]
  BY <1>1, <1>2, FactsAre DEF TypeInv
<1>5. TypeInv'
  <2>1. RequestType' = RequestType /\ req' \in [Requests -> RequestType]
    BY <1>2, <1>3 DEF Becomes, RequestType, InputsNow, ObjectsNow, world
  <2>2. (excluder = Add(config))'
    BY <1>2 DEF TypeInv, Add, world
  <2> QED
    BY <1>2, <1>4, <2>1, <2>2 DEF TypeInv, world
<1>6. HeldInv'
  <2> SUFFICES ASSUME NEW q \in Requests PROVE held'[q] \subseteq Facts(req[q].in)'
    BY DEF HeldInv
  <2>1. held[q] \subseteq Facts(req[q].in)
    BY DEF IInv, HeldInv
  <2>2. PICK x : x = IF q = r THEN in ELSE req[q].in
    OBVIOUS
  <2>3. Facts(x)' = Facts(x) /\ req'[q].in = x
    BY <1>2, <1>3, <2>2, FactsSame DEF Becomes
  <2> QED
    BY <1>4, <2>1, <2>2, <2>3
<1>7. ASSUME NEW q \in Requests PROVE Good(q)'
  <2>1. CASE q = r
    <3>1. in.hook \in {"admit", "mutate", "label"}
      BY <1>2, InputIs
    <3> QED
      BY <1>3, <2>1, <3>1 DEF Becomes, Good, Done, At, Handled
  <2>2. CASE q # r
    <3>1. req'[q] = req[q] /\ held'[q] = held[q] /\ conf' = conf
      BY <1>2, <1>3, <1>4, <2>2 DEF Becomes, world
    <3> QED
      BY <3>1, GoodKept DEF IInv
  <2> QED
    BY <2>1, <2>2
<1> QED
  BY <1>5, <1>6, <1>7 DEF IInv

LEMMA Inductive == IInv /\ [Next]_vars => IInv'
<1> SUFFICES ASSUME IInv, [Next]_vars PROVE IInv'
  OBVIOUS
<1>0. excluder = Add(config) /\ cluster \in Labelled /\ cache \in Labelled
  BY DEF IInv, TypeInv
<1>1. CASE ConfigChange
  BY <1>0, <1>1, WorldStep DEF ConfigChange
<1>2. CASE (\E a \in Actions : ConstraintChange(a)) \/ MutatorChange
  <2>1. UNCHANGED <<conf, req, config, excluder, cluster, cache>> /\ Remember
    BY <1>2 DEF ConstraintChange, MutatorChange
  <2> QED
    BY <1>0, <2>1, WorldStep DEF Add
<1>3. ASSUME NEW n \in Namespaces, NamespaceChange(n) \/ CacheUpdate(n) PROVE IInv'
  <2>1. UNCHANGED <<conf, req, config, excluder>> /\ Remember /\ cluster' \in Labelled /\ cache' \in Labelled
    BY <1>0, <1>3 DEF NamespaceChange, CacheUpdate, Labelled
  <2> QED
    BY <1>0, <2>1, WorldStep DEF Add
<1>4. ASSUME NEW r \in Requests, Arrive(r) PROVE IInv'
  BY <1>4, ArriveKeeps
<1>5. ASSUME NEW r \in Requests, Step(r) \/ AdmitCancelled(r) \/ AdmitFails(r) \/ MutateFails(r) PROVE IInv'
  BY <1>5, HandlerStep
<1>6. CASE UNCHANGED vars
  <2>1. UNCHANGED <<world, req, held>>
    BY <1>6 DEF vars
  <2>2. TypeInv'
    BY <2>1 DEF IInv, TypeInv, world, RequestType, InputsNow, ObjectsNow, Add
  <2>3. HeldInv'
    <3> SUFFICES ASSUME NEW q \in Requests PROVE held'[q] \subseteq Facts(req[q].in)'
      BY DEF HeldInv
    <3>1. PICK in : in = req[q].in
      OBVIOUS
    <3>2. Facts(in)' = Facts(in) /\ held[q] \subseteq Facts(in)
      BY <2>1, <3>1, FactsSame DEF IInv, HeldInv
    <3> QED
      BY <2>1, <3>1, <3>2
  <2>4. \A r \in Requests : Good(r)'
    BY <2>1, GoodKept DEF IInv, world
  <2> QED
    BY <2>2, <2>3, <2>4 DEF IInv
<1> QED
  BY <1>1, <1>2, <1>3, <1>4, <1>5, <1>6 DEF Next, Change

LEMMA Initial == Init => IInv
<1> SUFFICES ASSUME Init PROVE IInv
  OBVIOUS
<1>1. PICK s \in Scenarios : conf \in s.confs /\ config = s.config /\ excluder = Add(s.config)
                             /\ cluster = s.cluster /\ cache = s.cache
  BY DEF Init
<1>2. req = [r \in Requests |-> NoRequest] /\ held = [r \in Requests |-> {}]
  BY DEF Init
<1>3. NoRequest \in RequestType /\ NoRequest.pc = "none" /\ NoRequest.in = None /\ NoRequest.ns = None
  BY DEF NoRequest, RequestType, PCs, Responses
<1>4. TypeInv
  BY <1>1, <1>2, <1>3, WebhookAssumption DEF TypeInv, Labelled, Add
<1>5. HeldInv
  BY <1>2 DEF HeldInv
<1>6. \A r \in Requests : Good(r)
  BY <1>2, <1>3 DEF Good, Done, At
<1> QED
  BY <1>4, <1>5, <1>6 DEF IInv

LEMMA Holds == Spec => []IInv
BY Initial, Inductive, PTL DEF Spec

\* The requests, namespaces and facts keep their types, and the excluder is
\* what the Config makes of it.
THEOREM TypeCorrect == Spec => []TypeInv
<1>1. IInv => TypeInv
  BY DEF IInv
<1> QED
  BY <1>1, Holds, PTL

\* Every answer of validationHandler and mutationHandler is judged by what was
\* in force while the request ran, whatever changes between its steps.
THEOREM PoliciesAreEnforced == Spec => []Enforced
<1>1. IInv => Enforced
  BY DEF IInv, Good, Judged, Enforced
<1> QED
  BY <1>1, Holds, PTL

\* What the Config excludes from the process of a webhook, or from "*", is
\* allowed as it is by skipExcludedNamespace, whatever fails.
THEOREM ExclusionIsRespected == Spec => []Exempt
<1>1. IInv => Exempt
  BY DEF IInv, Good, Judged, Exempt
<1> QED
  BY <1>1, Holds, PTL

-------------------------------------------------------------------------------
\* The serving threads

Serves(r) == \E pc \in {"namespace", "uncached", "work"} : At(r, "admit", pc)

ThreadsInv == IsFiniteSet(Serving) /\ ThreadsCounted

LEMMA ThreadsStay ==
  ASSUME ThreadsInv, UNCHANGED <<conf, semaphore>>,
         \A r \in Requests : Serves(r)' <=> Serves(r)
  PROVE  ThreadsInv'
<1>1. Serving' = Serving
  BY DEF Serving, Serves
<1> QED
  BY <1>1 DEF ThreadsInv, ThreadsCounted, Limited

LEMMA ThreadTaken ==
  ASSUME TypeInv, ThreadsInv, UNCHANGED conf, NEW r \in Requests, ~Serves(r), Serves(r)',
         \A q \in Requests \ {r} : req'[q] = req[q],
         Limited => semaphore < conf.maxServingThreads,
         semaphore' = IF Limited THEN semaphore + 1 ELSE semaphore
  PROVE  ThreadsInv'
<1>1. Serving' = Serving \cup {r} /\ r \notin Serving
  BY DEF Serving, Serves, At
<1>2. IsFiniteSet(Serving') /\ Cardinality(Serving') = Cardinality(Serving) + 1
  BY <1>1, FS_AddElement DEF ThreadsInv
<1>3. conf.maxServingThreads \in Int /\ Cardinality(Serving) \in Nat
  BY WebhookAssumption, FS_CardinalityType DEF TypeInv, ThreadsInv
<1> QED
  BY <1>2, <1>3 DEF ThreadsInv, ThreadsCounted, Limited

LEMMA ThreadGivenBack ==
  ASSUME TypeInv, ThreadsInv, UNCHANGED conf, NEW r \in Requests, Serves(r), ~Serves(r)',
         \A q \in Requests \ {r} : req'[q] = req[q], Release
  PROVE  ThreadsInv'
<1>1. Serving' = Serving \ {r} /\ r \in Serving
  BY DEF Serving, Serves, At
<1>2. IsFiniteSet(Serving') /\ Cardinality(Serving') = Cardinality(Serving) - 1
  BY <1>1, FS_RemoveElement DEF ThreadsInv
<1>3. conf.maxServingThreads \in Int /\ Cardinality(Serving) \in Nat
  BY WebhookAssumption, FS_CardinalityType DEF TypeInv, ThreadsInv
<1> QED
  BY <1>2, <1>3 DEF ThreadsInv, ThreadsCounted, Limited, Release

\* Where a handler goes.
LEMMA NextPc ==
  ASSUME TypeInv, NEW r \in Requests
  PROVE  /\ \A pc : Goto(r, pc) => req'[r].pc = pc
         /\ \A resp : Respond(r, resp) => req'[r].pc = "done"
         /\ \A store : Given(r, store) => req'[r].pc = "work"
<1>1. r \in DOMAIN req /\ "pc" \in DOMAIN req[r]
  BY DEF TypeInv, RequestType
<1>2. ASSUME NEW pc, Goto(r, pc) PROVE req'[r].pc = pc
  BY <1>1, <1>2 DEF Goto
<1>3. req[r] \in RequestType
  BY DEF TypeInv
<1> DEFINE Changed(pc, resp, obj, ns) == [req[r] EXCEPT !.pc = pc, !.resp = resp, !.obj = obj, !.ns = ns]
           Handed(ns) == [req[r] EXCEPT !.pc = "work", !.ns = ns]
<1>4. /\ \A pc, resp, obj, ns : Changed(pc, resp, obj, ns).pc = pc
      /\ \A ns : Handed(ns).pc = "work"
  BY <1>3 DEF RequestType
<1>5. ASSUME NEW resp, Respond(r, resp) PROVE req'[r].pc = "done"
  <2>1. req'[r] = Changed("done", resp, None, None)
    BY <1>1, <1>3, <1>5 DEF Respond, RequestType
  <2> QED
    BY <1>4, <2>1
<1>6. ASSUME NEW store, Given(r, store) PROVE req'[r].pc = "work"
  <2>1. req'[r] = Handed(AsNamespace(req[r].obj.namespace, store[req[r].obj.namespace]))
    BY <1>1, <1>3, <1>6 DEF Given, RequestType
  <2> QED
    BY <1>4, <2>1
<1> QED
  BY <1>2, <1>5, <1>6

LEMMA ThreadsStep ==
  ASSUME IInv, ThreadsInv, NEW r \in Requests,
         Step(r) \/ AdmitCancelled(r) \/ AdmitFails(r) \/ MutateFails(r)
  PROVE  ThreadsInv'
<1>1. Outcome(r)
  BY AdmitStartKeeps, AdmitValidateKeeps, AdmitExcludeKeeps, AdmitAcquireKeeps, NamespaceKeeps, AdmitReviewKeeps,
     MutateStartKeeps, MutateExcludeKeeps, MutateRequestKeeps, LabelHandleKeeps DEF Step
<1>2. /\ \A q \in Requests \ {r} : req'[q] = req[q]
      /\ req'[r].in = req[r].in /\ TypeInv
  BY <1>1 DEF Outcome, IInv
<1>3. ASSUME UNCHANGED <<conf, semaphore>>, Serves(r)' <=> Serves(r) PROVE ThreadsInv'
  <2>1. \A q \in Requests : Serves(q)' <=> Serves(q)
    BY <1>2, <1>3 DEF Serves, At
  <2> QED
    BY <1>3, <2>1, ThreadsStay
<1>4. CASE \/ AdmitStart(r) \/ AdmitValidate(r) \/ AdmitExclude(r) \/ AdmitCancelled(r)
  <2>1. At(r, "admit", req[r].pc) /\ req[r].pc \in {"admit", "validate", "exclude", "acquire"}
    BY <1>4 DEF AdmitStart, AdmitValidate, AdmitExclude, AdmitCancelled, At
  <2>2. req'[r].pc \in {"validate", "exclude", "acquire", "done"}
    <3>1. CASE AdmitStart(r)
      <4>1. CASE req' = [req EXCEPT ![r].pc = "validate", ![r].obj = Reviewed(req[r].in)]
        BY <1>2, <4>1 DEF TypeInv, RequestType
      <4> QED
        BY <1>2, <3>1, <4>1, NextPc DEF AdmitStart
    <3> QED
      BY <1>2, <1>4, <3>1, NextPc DEF AdmitValidate, AdmitExclude, AdmitCancelled
  <2>3. UNCHANGED <<conf, semaphore>>
    BY <1>4 DEF AdmitStart, AdmitValidate, AdmitExclude, AdmitCancelled, Only, world
  <2> QED
    BY <1>3, <2>1, <2>2, <2>3 DEF Serves, At
<1>5. CASE AdmitAcquire(r)
  <2>1. /\ req[r].in # None /\ req[r].in.hook = "admit" /\ req[r].pc = "acquire" /\ conf' = conf
        /\ req'[r].pc \in {"work", "namespace"}
    BY <1>2, <1>5, NextPc DEF AdmitAcquire, GotoNamespace, At, world
  <2>2. ~Serves(r) /\ Serves(r)'
    BY <1>2, <2>1 DEF Serves, At
  <2> QED
    BY <1>2, <1>5, <2>1, <2>2, ThreadTaken DEF AdmitAcquire
<1>6. CASE AdmitNamespace(r) \/ (AdmitNamespaceAPI(r) /\ Given(r, cluster) /\ UNCHANGED semaphore)
  <2>1. /\ req[r].in # None /\ req[r].in.hook = "admit" /\ req[r].pc \in {"namespace", "uncached"}
        /\ req'[r].pc \in {"work", "uncached"} /\ UNCHANGED <<conf, semaphore>>
    BY <1>2, <1>6, NextPc DEF AdmitNamespace, AdmitNamespaceAPI, NamespaceGet, At, Only, world
  <2> QED
    BY <1>2, <1>3, <2>1 DEF Serves, At
<1>7. CASE AdmitReview(r) \/ AdmitFails(r) \/ (AdmitNamespaceAPI(r) /\ Respond(r, "error") /\ Release)
  <2>1. /\ req[r].in # None /\ req[r].in.hook = "admit" /\ req[r].pc \in {"namespace", "uncached", "work"}
        /\ req'[r].pc = "done" /\ conf' = conf /\ Release
    BY <1>2, <1>7, NextPc DEF AdmitReview, AdmitFails, AdmitNamespaceAPI, At, world
  <2>2. Serves(r) /\ ~Serves(r)'
    BY <2>1 DEF Serves, At
  <2> QED
    BY <1>2, <2>1, <2>2, ThreadGivenBack
<1>8. CASE \/ MutateStart(r) \/ MutateExclude(r) \/ MutateNamespace(r) \/ MutateNamespaceAPI(r)
           \/ MutateRequest(r) \/ LabelHandle(r) \/ MutateFails(r)
  <2>1. req[r].in.hook # "admit" /\ UNCHANGED <<conf, semaphore>>
    BY <1>8 DEF MutateStart, MutateExclude, MutateNamespace, MutateNamespaceAPI, MutateRequest, LabelHandle,
       MutateFails, At, Only, world
  <2> QED
    BY <1>2, <1>3, <2>1 DEF Serves, At
<1> QED
  BY <1>4, <1>5, <1>6, <1>7, <1>8 DEF Step, AdmitNamespaceAPI

LEMMA ThreadsNext == IInv /\ ThreadsInv /\ [Next]_vars => ThreadsInv'
<1> SUFFICES ASSUME IInv, ThreadsInv, [Next]_vars PROVE ThreadsInv'
  OBVIOUS
<1>1. ASSUME UNCHANGED <<conf, semaphore, req>> PROVE ThreadsInv'
  BY <1>1, ThreadsStay DEF Serves, At
<1>2. CASE Change \/ \E n \in Namespaces : CacheUpdate(n)
  BY <1>1, <1>2 DEF Change, ConfigChange, ConstraintChange, MutatorChange, NamespaceChange, CacheUpdate
<1>3. ASSUME NEW r \in Requests, Arrive(r) PROVE ThreadsInv'
  <2>1. PICK in \in InputsNow :
          req' = [req EXCEPT ![r] = [NoRequest EXCEPT !.pc = in.hook, !.in = in, !.obj = in.object]]
    BY <1>3 DEF Arrive, InputsNow
  <2>2. TypeInv /\ in.hook \in {"admit", "mutate", "label"} /\ req[r].pc = "none"
        /\ UNCHANGED <<conf, semaphore>>
    BY <1>3, InputIs DEF IInv, Arrive, world
  <2>3. Becomes(r, in.hook, in, in.object, None, "none")
    BY <2>1, <2>2, ArriveIs
  <2>4. ~Serves(r) /\ ~Serves(r)' /\ \A q \in Requests \ {r} : req'[q] = req[q]
    BY <2>2, <2>3 DEF Becomes, Serves, At
  <2>5. \A q \in Requests : Serves(q)' <=> Serves(q)
    BY <2>4 DEF Serves, At
  <2> QED
    BY <2>2, <2>5, ThreadsStay
<1>4. CASE UNCHANGED vars
  BY <1>1, <1>4 DEF vars, world
<1> QED
  BY <1>2, <1>3, <1>4, ThreadsStep DEF Next

\* The semaphore of reviewRequest counts the requests under review, whichever
\* of its returns they take, and no more run than it has places.
THEOREM ThreadsAreCounted == Spec => []ThreadsCounted
<1>1. Init => ThreadsInv
  <2> SUFFICES ASSUME Init PROVE ThreadsInv
    OBVIOUS
  <2>1. NoRequest.in = None
    BY DEF NoRequest
  <2>2. Serving = {}
    BY <2>1 DEF Init, Serving, At
  <2>3. conf.maxServingThreads \in Int
    BY WebhookAssumption DEF Init
  <2> QED
    BY <2>2, <2>3, FS_EmptySet DEF Init, ThreadsInv, ThreadsCounted, Limited
<1>2. ThreadsInv => ThreadsCounted
  BY DEF ThreadsInv
<1> QED
  BY <1>1, <1>2, ThreadsNext, Holds, PTL DEF Spec

-------------------------------------------------------------------------------
\* match.Matches and the Rego of matching_constraints select the same objects,
\* for all valid matches, objects and namespaces, up to the named differences.
THEOREM TheMatchersAgree == Spec => []MatchersAgree
<1>1. IInv => MatchersAgree
  <2> SUFFICES ASSUME IInv, NEW r \in Requests, req[r].in # None, Reviewed(req[r].in) # None,
                      NEW ns \in Visible(req[r].in),
                      ~PresentButEmpty(conf.match),
                      ~(conf.match.labelSelector # None /\ GoNamespace(Reviewed(req[r].in), ns) = None),
                      ~(/\ req[r].in.oldObject # None
                        /\ req[r].in.oldObject.labels # Reviewed(req[r].in).labels)
               PROVE  matching_constraints(conf.match,
                                           AdmissionReview(Reviewed(req[r].in), req[r].in.oldObject, ns), {})
                        <=> Matches(conf.match, Reviewed(req[r].in), GoNamespace(Reviewed(req[r].in), ns))
    BY Zenon DEF MatchersAgree
  <2>1. TypeInv /\ req[r].in \in InputsNow
    BY InputOf DEF IInv
  <2>2. IsMatch(conf.match)
    BY <2>1, WebhookAssumption DEF TypeInv
  <2>3. IsObject(Reviewed(req[r].in)) /\ NamespaceOf(Reviewed(req[r].in), ns)
    BY <2>1, ReviewedIs, VisibleIs
  <2> QED
    BY <2>2, <2>3, MatchersMeet, WebhookAssumption
<1> QED
  BY <1>1, Holds, PTL

\* The reviews that the webhook, the audit and the audit of OPA's cache make of
\* an object match the same constraints, and none is rejected unseen.
THEOREM TheReviewsAgree == Spec => []PathsAgree
<1>1. IInv => PathsAgree
  <2> SUFFICES ASSUME IInv, NEW r \in Requests, req[r].in # None, req[r].in.op = "CREATE",
                      NEW ns \in Visible(req[r].in)
               PROVE  LET o == req[r].in.object
                          Verdict(review, cached) == [match  |-> matching_constraints(conf.match, review, cached),
                                                      reject |-> autoreject_review(conf.match, review, cached)]
                          admitted == Verdict(AdmissionReview(o, None, ns), {})
                      IN  /\ ~admitted.reject
                          /\ Verdict(AuditReview(o, ns), {}) = admitted
                          /\ Verdict(CacheReview(o), {ns} \ {None}) = admitted
    BY Zenon DEF PathsAgree
  <2> DEFINE o == req[r].in.object
             a == AdmissionReview(o, None, ns)
  <2>1. TypeInv /\ req[r].in \in InputsNow
    BY InputOf DEF IInv
  <2>2. o = Reviewed(req[r].in) /\ o # None
    BY <2>1, InputIs DEF Reviewed
  <2>3. IsObject(o) /\ NamespaceOf(o, ns)
    BY <2>1, <2>2, ReviewedIs, VisibleIs
  <2>4. ~autoreject_review(conf.match, a, {})
    BY <2>3, NotRejected
  <2>5. /\ matching_constraints(conf.match, AuditReview(o, ns), {}) <=> matching_constraints(conf.match, a, {})
        /\ autoreject_review(conf.match, AuditReview(o, ns), {}) <=> autoreject_review(conf.match, a, {})
        /\ matching_constraints(conf.match, CacheReview(o), {ns} \ {None}) <=> matching_constraints(conf.match, a, {})
        /\ autoreject_review(conf.match, CacheReview(o), {ns} \ {None}) <=> autoreject_review(conf.match, a, {})
    BY <2>3, PathsMeet
  <2>6. \A review, cached : /\ matching_constraints(conf.match, review, cached) \in BOOLEAN
                            /\ autoreject_review(conf.match, review, cached) \in BOOLEAN
    BY DEF matching_constraints, autoreject_review
  <2>7. /\ matching_constraints(conf.match, AuditReview(o, ns), {}) = matching_constraints(conf.match, a, {})
        /\ autoreject_review(conf.match, AuditReview(o, ns), {}) = autoreject_review(conf.match, a, {})
        /\ matching_constraints(conf.match, CacheReview(o), {ns} \ {None}) = matching_constraints(conf.match, a, {})
        /\ autoreject_review(conf.match, CacheReview(o), {ns} \ {None}) = autoreject_review(conf.match, a, {})
    BY <2>5, <2>6
  <2> QED
    BY <2>4, <2>7
<1> QED
  BY <1>1, Holds, PTL
===============================================================================
