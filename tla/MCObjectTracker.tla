--------------------------- MODULE MCObjectTracker ----------------------------
(***************************************************************************)
(* A tracker of three keys of two kinds with two concurrent callers of     *)
(* Satisfied, and plausible faults of the operations it is built from.     *)
(***************************************************************************)
EXTENDS ObjectTracker

MCKindOf == [k \in Keys |-> IF k = "a1" THEN "A" ELSE "B"]
===============================================================================
