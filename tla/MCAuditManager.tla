--------------------------- MODULE MCAuditManager ---------------------------
(***************************************************************************)
(* Two objects of kind "a", one of which is in an excluded namespace, and  *)
(* a cluster-scoped object of kind "b", in chunks of one; a constraint     *)
(* that matches every kind and one that matches "a".                       *)
(***************************************************************************)
EXTENDS AuditManager

MCKindOf      == [o1 |-> "a", o2 |-> "a", o3 |-> "b"]
MCNamespaceOf == [o1 |-> "n1", o2 |-> "n2", o3 |-> ""]
MCCKindOf     == [c1 |-> "C", c2 |-> "D"]
MCMatchKinds  == [c1 |-> {"*"}, c2 |-> {"a"}]

Scenario(cache, match, bads, a, c, p, f, t) ==
  [conf |-> [fromCache |-> cache, matchKindOnly |-> match], bad |-> bads,
   budget |-> [audits |-> a, changes |-> c, pods |-> p, failures |-> f, timeouts |-> t]]

\* One audit of a cluster that changes or that answers with errors; two audits
\* with a change or an error between them; three audits whose writers overlap.
MCScenarios ==
  {Scenario(FALSE, m, b, 1, f, 0, 1 - f, 0) : m \in BOOLEAN, b \in SUBSET Objects, f \in {0, 1}}
  \cup {Scenario(TRUE, FALSE, {"o1"}, 2, 1, 1, 0, 1), Scenario(TRUE, FALSE, {"o1"}, 2, 0, 0, 1, 1),
        Scenario(TRUE, FALSE, {}, 3, 0, 0, 0, 2)}
===============================================================================
