------------------------ MODULE MCTemplateController ------------------------
(***************************************************************************)
(* One template with one constraint: what two templates share is the       *)
(* order of their queue items.                                             *)
(***************************************************************************)
EXTENDS TemplateController

CONSTANTS k1, c1

MCKindOf == [c \in Constraints |-> k1]

\* A template that is replaced while calls fail or its CRD is deleted; a pod
\* that aggregates statuses; a pod that is stopped.
Scenario(t, c, d, f, p, s) ==
  [templates |-> t, constraints |-> c, crds |-> d, failures |-> f, stops |-> p, status |-> s]

MCScenarios == {Scenario(3, 1, 0, 1, 0, FALSE), Scenario(1, 2, 1, 1, 0, FALSE),
                Scenario(1, 2, 0, 0, 0, TRUE), Scenario(1, 1, 0, 1, 0, TRUE),
                Scenario(3, 0, 0, 0, 0, TRUE), Scenario(2, 1, 0, 0, 1, FALSE)}
===============================================================================
