------------------------------- MODULE Mutators -------------------------------
(***************************************************************************)
(* What one mutator does to one object: Assign and AssignMetadata          *)
(* (pkg/mutation/mutators), the walk along the location                    *)
(* (mutators/core/mutation_function.go) and its path tests (path/tester).  *)
(*                                                                         *)
(* An object is a tree of [object], [list] and [leaf] nodes.  A mutator is *)
(* a record with                                                           *)
(*   path, at     the location: its elements, and for the elements of type *)
(*                List the value of their key, or Glob;                    *)
(*   value        what is assigned;                                        *)
(*   tests        the path tests, each with the length of its subPath (a   *)
(*                subPath that is no prefix is longer than the path);      *)
(*   in, notIn    assignIf.                                                *)
(* The parser never puts two elements of type List next to each other, and *)
(* gives every List a key value or a glob.                                 *)
(***************************************************************************)
EXTENDS Naturals, Sequences, TLC

CONSTANT Failed   \* an error of Mutator.Mutate

Assign         == 0
AssignMetadata == 1

Glob == "*"

Object(f)  == [object |-> f]
List(s)    == [list |-> s]
Leaf(v)    == [leaf |-> v]
Empty      == [k \in {} |-> Leaf("")]

IsObject(n) == "object" \in DOMAIN n
IsList(n)   == "list" \in DOMAIN n

Has(n, key, v) == IsObject(n) /\ key \in DOMAIN n.object /\ n.object[key] = Leaf(v)

With(n, key, child) ==
  Object([k \in DOMAIN n.object \cup {key} |-> IF k = key THEN child ELSE n.object[k]])

-------------------------------------------------------------------------------
\* tester.go

Conditions(m, d) == {m.tests[i].cond : i \in {i \in DOMAIN m.tests : m.tests[i].len = d}}

ExistsOkay(m, d)  == "MustNotExist" \notin Conditions(m, d)
MissingOkay(m, d) == "MustExist" \notin Conditions(m, d)

\* New: the places of the tests in their list are compared where their depths
\* are meant.
ValidTests(m) ==
  LET Of(cond) == {i \in DOMAIN m.tests : m.tests[i].cond = cond}
  IN  /\ \A i \in DOMAIN m.tests : m.tests[i].len <= Len(m.path)
      /\ \A i, j \in DOMAIN m.tests :
           m.tests[i].len = m.tests[j].len => m.tests[i].cond = m.tests[j].cond
      /\ \A i \in Of("MustExist"), j \in Of("MustNotExist") : i < j

-------------------------------------------------------------------------------
\* assign_mutator.go and assignmeta_mutator.go: what is accepted

hasMetadataRoot(m) == m.path # <<>> /\ m.path[1] = [key |-> "metadata", type |-> "Object"]

checkKeyNotChanged(m) ==
  LET n == Len(m.path)
  IN  /\ n > 0
      /\ n > 1 /\ m.path[n - 1].type = "List" =>
           m.path[n].type = "Object" /\ m.path[n].key # m.path[n - 1].key

validateObjectAssignedToList(m) ==
  LET n == Len(m.path)
  IN  m.path[n].type = "List" => m.at[n] # Glob /\ Has(m.value, m.path[n].key, m.at[n])

MutatorForAssign(m) ==
  /\ ~hasMetadataRoot(m)
  /\ checkKeyNotChanged(m)
  /\ validateObjectAssignedToList(m)
  /\ ValidTests(m)
  /\ m.bindings # {}

isValidMetadataPath(m) ==
  /\ Len(m.path) = 3
  /\ \A i \in 1..3 : m.path[i].type = "Object"
  /\ m.path[1].key = "metadata" /\ m.path[2].key \in {"labels", "annotations"}

\* The path test is not the user's: the whole path must not exist.
MutatorForAssignMetadata(m) ==
  /\ isValidMetadataPath(m)
  /\ ~IsObject(m.value) /\ ~IsList(m.value)
  /\ m.tests = <<[len |-> Len(m.path), cond |-> "MustNotExist"]>>

IsValid(m) ==
  \/ m.id.kind = Assign /\ MutatorForAssign(m)
  \/ m.id.kind = AssignMetadata /\ MutatorForAssignMetadata(m)

-------------------------------------------------------------------------------
\* mutation_function.go.  A result is Failed, or the node and whether it was
\* mutated; a node that was not is what it was.

Same(n)    == [mutated |-> FALSE, node |-> n]
Changed(n) == [mutated |-> TRUE, node |-> n]

Last(m, d) == d = Len(m.path)

\* AssignMetadata has no value test.
testValue(m, n, key) ==
  IF key \in DOMAIN n.object
  THEN (m.in = {} \/ n.object[key] \in m.in) /\ n.object[key] \notin m.notIn
  ELSE m.in = {}

\* A new element of a list gets its key.
createMissingElement(m, d) ==
  IF m.path[d].type = "List" THEN Object([k \in {m.path[d].key} |-> Leaf(m.at[d])]) ELSE
  IF m.path[d + 1].type = "List" THEN List(<<>>) ELSE Object(Empty)

\* Fault: an element that has the key field, with any value, is taken.
Named_AnyValue(m, n, d) ==
  {i \in DOMAIN n.list :
     m.at[d] = Glob \/ (IsObject(n.list[i]) /\ m.path[d].key \in DOMAIN n.list[i].object)}

\* The elements that a List entry of the path names.
Named(m, n, d) ==
  {i \in DOMAIN n.list : m.at[d] = Glob \/ Has(n.list[i], m.path[d].key, m.at[d])}

\* The first element with the key is replaced, assignIf or not.  An element
\* that is no object, met before it, is an error.
setListElementToValue(m, n, d) ==
  LET found == Named(m, n, d)
      first == CHOOSE i \in found : \A j \in found : i <= j
      seen  == IF found = {} THEN DOMAIN n.list ELSE 1..first
  IN  IF \E i \in seen : ~IsObject(n.list[i]) THEN Failed ELSE
      IF found # {} /\ ExistsOkay(m, d) THEN Changed(List([n.list EXCEPT ![first] = m.value])) ELSE
      IF found = {} /\ MissingOkay(m, d) THEN Changed(List(Append(n.list, m.value)))
      ELSE Same(n)

RECURSIVE mutateInternal(_, _, _)

mutateObject(m, n, d) ==
  LET key    == m.path[d].key
      exists == key \in DOMAIN n.object
  IN  IF ~(IF exists THEN ExistsOkay(m, d) ELSE MissingOkay(m, d)) THEN Same(n) ELSE
      IF Last(m, d) THEN
        (IF testValue(m, n, key) THEN Changed(With(n, key, m.value)) ELSE Same(n)) ELSE
      LET next == IF exists THEN n.object[key] ELSE createMissingElement(m, d)
          r    == mutateInternal(m, next, d + 1)
      IN  IF r = Failed THEN Failed ELSE
          IF r.mutated THEN Changed(With(n, key, r.node)) ELSE Same(n)

\* The elements are mutated in place: one that fails after others were mutated
\* leaves an object that System.Mutate returns with the error.
mutateElements(m, n, d) ==
  LET r == [i \in Named(m, n, d) |-> mutateInternal(m, n.list[i], d + 1)]
  IN  IF \E i \in DOMAIN r : r[i] = Failed THEN Failed ELSE
      [mutated |-> \E i \in DOMAIN r : r[i].mutated,
       node    |-> List([i \in DOMAIN n.list |->
                           IF i \in DOMAIN r THEN r[i].node ELSE n.list[i]])]

mutateNewElement(m, n, d) ==
  LET r == mutateInternal(m, createMissingElement(m, d), d + 1)
  IN  IF r = Failed THEN Failed ELSE
      IF r.mutated THEN Changed(List(Append(n.list, r.node))) ELSE Same(n)

mutateList(m, n, d) ==
  LET found == m.at[d] = Glob \/ Named(m, n, d) # {}
  IN  IF Last(m, d) THEN setListElementToValue(m, n, d) ELSE
      IF ~(IF found THEN ExistsOkay(m, d) ELSE MissingOkay(m, d)) THEN Same(n) ELSE
      IF found THEN mutateElements(m, n, d) ELSE mutateNewElement(m, n, d)

mutateInternal(m, n, d) ==
  IF m.path[d].type = "Object"
  THEN IF IsObject(n) THEN mutateObject(m, n, d) ELSE Failed
  ELSE IF IsList(n) THEN mutateList(m, n, d) ELSE Failed

Mutate(m, o) ==
  LET r == mutateInternal(m, o, 1)
  IN  IF r = Failed THEN Failed ELSE r.node

-------------------------------------------------------------------------------
\* The parts of an object that a location tells apart: the nodes it names
\* (inside), and the largest subtrees that are off its way.
RECURSIVE Parts(_, _, _)

PartsOf(m, child, step, d, onWay) ==
  IF onWay THEN {[p EXCEPT !.at = <<step>> \o @] : p \in Parts(m, child, d + 1)}
           ELSE {[at |-> <<step>>, node |-> child, inside |-> FALSE]}

Parts(m, n, d) ==
  IF d > Len(m.path) THEN {[at |-> <<>>, node |-> n, inside |-> TRUE]} ELSE
  IF m.path[d].type = "Object" /\ IsObject(n)
  THEN UNION {PartsOf(m, n.object[k], k, d, k = m.path[d].key) : k \in DOMAIN n.object} ELSE
  IF m.path[d].type = "List" /\ IsList(n)
  THEN UNION {PartsOf(m, n.list[i], ToString(i), d,
                      m.at[d] = Glob \/ Has(n.list[i], m.path[d].key, m.at[d])) :
                i \in DOMAIN n.list}
  ELSE {[at |-> <<>>, node |-> n, inside |-> FALSE]}

Inside(m, n)  == {p \in Parts(m, n, 1) : p.inside}
Outside(m, n) == {p \in Parts(m, n, 1) : ~p.inside}

\* The keys of the list elements that the location names.
Keys(m) == {Leaf(m.at[d]) : d \in {d \in DOMAIN m.path : m.path[d].type = "List"}}

(***************************************************************************)
(* new is o, changed to have the value of the mutator at places its        *)
(* location names, and nothing else: what is off the location stays and is *)
(* joined only by the keys of new list elements, and what the location     *)
(* names is the value or what it was.                                      *)
(***************************************************************************)
OnlyTheLocation(m, o, new) ==
  /\ Outside(m, o) \subseteq Outside(m, new)
  /\ \A p \in Outside(m, new) \ Outside(m, o) : p.node \in Keys(m)
  /\ \A p \in Inside(m, new) \ Inside(m, o) : p.node = m.value
  /\ \E p \in Inside(m, new) : p.node = m.value
===============================================================================
