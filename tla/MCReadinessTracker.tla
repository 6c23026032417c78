-------------------------- MODULE MCReadinessTracker --------------------------
(***************************************************************************)
(* Instances of ReadinessTracker.  Kinds are upper case: T1 and T2 are     *)
(* constraint kinds, D1 and D2 data kinds; their objects are c1 and d1;    *)
(* a1 is an Assign and g1 an AssignMetadata.                               *)
(***************************************************************************)
EXTENDS ReadinessTracker

MCKindOf ==
  [k \in Keys |-> CASE k = "c1" -> "T1"
                    [] k = "d1" -> "D1"
                    [] k = "a1" -> "Assign"
                    [] k = "g1" -> "AssignMetadata"
                    [] OTHER -> k]

NoEntries == [e \in {} |-> ""]
OneEntry  == [e1 |-> "D1"]

\* Exploration ends where start-up does.
Starting == ~satisfied
===============================================================================
