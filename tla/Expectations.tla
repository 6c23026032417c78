----------------------------- MODULE Expectations -----------------------------
(***************************************************************************)
(* What the Expectations interface (pkg/readiness/object_tracker.go)       *)
(* promises: "A set of Expect() calls are made, demarcated by              *)
(* ExpectationsDone().  Expectations are satisfied by calls to Observe().  *)
(* Once all expectations are satisfied, Satisfied() will begin returning   *)
(* true."  A cancelled expectation counts as met.                          *)
(***************************************************************************)
CONSTANT Keys

VARIABLES
  required,    \* keys that were expected
  met,         \* keys that were observed or cancelled
  populated,   \* no further expectations are accepted
  ready        \* what Satisfied() returns

evars == <<required, met, populated, ready>>

Init ==
  /\ required = {}
  /\ met = {}
  /\ populated = FALSE
  /\ ready = FALSE

Require(k) ==
  /\ ~populated
  /\ required' = required \cup {k}
  /\ UNCHANGED <<met, populated, ready>>

Meet(k) ==
  /\ ~ready
  /\ met' = met \cup {k}
  /\ UNCHANGED <<required, populated, ready>>

Populate ==
  /\ populated' = TRUE
  /\ UNCHANGED <<required, met, ready>>

BecomeReady ==
  /\ populated
  /\ required \subseteq met
  /\ ready' = TRUE
  /\ UNCHANGED <<required, met, populated>>

Next ==
  \/ \E k \in Keys : Require(k) \/ Meet(k)
  \/ Populate
  \/ BecomeReady

SafeSpec == Init /\ [][Next]_evars

Spec == SafeSpec /\ WF_evars(BecomeReady)
===============================================================================
