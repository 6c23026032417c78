--------------------------- MODULE ObjectTrackerOps ---------------------------
(***************************************************************************)
(* The operations of objectTracker (pkg/readiness/object_tracker.go) as    *)
(* functions from the tracker's state to its next state.  Every method     *)
(* holds the tracker's mutex from its first to its last statement, so each *)
(* is one atomic step; Satisfied, which releases a read lock before it     *)
(* takes the write lock, is two (needMutate and Resolve).                  *)
(*                                                                         *)
(* A key stands for an objKey, KindOf[k] for the GVK that the key holds.   *)
(***************************************************************************)
EXTENDS Integers

CONSTANTS
  Keys,      \* the objKeys a tracker can be asked about
  KindOf,    \* the GVK recorded in each key
  Retries    \* the -readiness-retries flag; negative retries forever

ASSUME RetriesAssumption == Retries \in Int

Kinds == {KindOf[k] : k \in Keys}

\* The retries a key can have left.
RetryRange == {Retries} \cup 0..Retries

(***************************************************************************)
(* A key that is absent from the tryCanceled map reads as a fresh objData, *)
(* which TryCancelExpect would create for it.                              *)
(***************************************************************************)
newObjTracker ==
  [ canceled      |-> {},
    expect        |-> {},
    tryCanceled   |-> [k \in Keys |-> Retries],
    seen          |-> {},
    satisfied     |-> {},
    populated     |-> FALSE,
    allSatisfied  |-> FALSE,
    kindsSnapshot |-> {} ]

TrackerType ==
  [ canceled      : SUBSET Keys,
    expect        : SUBSET Keys,
    tryCanceled   : [Keys -> RetryRange],
    seen          : SUBSET Keys,
    satisfied     : SUBSET Keys,
    populated     : BOOLEAN,
    allSatisfied  : BOOLEAN,
    kindsSnapshot : SUBSET Kinds ]

\* Fault: expectations are still recorded after ExpectationsDone.
Accepts_AfterDone(t, k, terminating) == ~terminating /\ k \notin t.canceled

\* Whether Expect records k; terminating: the object has a deletion timestamp.
Accepts(t, k, terminating) ==
  ~t.populated /\ ~terminating /\ k \notin t.canceled

Satisfy(t, k) ==
  [t EXCEPT !.seen = @ \ {k}, !.expect = @ \ {k}, !.satisfied = @ \cup {k}]

Expect(t, k, terminating) ==
  IF ~Accepts(t, k, terminating) THEN t
  ELSE IF k \in t.seen THEN Satisfy(t, k)
  ELSE [t EXCEPT !.expect = @ \cup {k}]

cancelExpectNoLock(t, k) ==
  [t EXCEPT !.expect      = @ \ {k},
            !.seen        = @ \ {k},
            !.satisfied   = @ \ {k},
            !.tryCanceled[k] = Retries,
            !.canceled    = @ \cup {k}]

CancelExpect(t, k) ==
  IF t.allSatisfied THEN t ELSE cancelExpectNoLock(t, k)

\* What TryCancelExpect returns: no retries are left for k.
shouldDel(t, k) == ~t.allSatisfied /\ t.tryCanceled[k] = 0

decrementRetries(r) == IF r > 0 THEN r - 1 ELSE r

TryCancelExpect(t, k) ==
  IF t.allSatisfied THEN t
  ELSE IF shouldDel(t, k) THEN cancelExpectNoLock(t, k)
  ELSE [t EXCEPT !.tryCanceled[k] = decrementRetries(@)]

ExpectationsDone(t) == [t EXCEPT !.populated = TRUE]

\* Fault: an observation made before its expectation is forgotten.
Observe_OnlyExpected(t, k) ==
  IF ~t.allSatisfied /\ k \in t.expect THEN Satisfy(t, k) ELSE t

Observe(t, k) ==
  IF t.allSatisfied \/ k \in t.canceled \/ k \in t.satisfied THEN t
  ELSE IF k \in t.expect THEN Satisfy(t, k)
  ELSE IF t.populated THEN [t EXCEPT !.seen = @ \ {k}]
  ELSE [t EXCEPT !.seen = @ \cup {k}]

\* What the collector may cancel.
unsatisfied(t) == t.expect \ t.satisfied

\* The GVKs of the tracked keys; a snapshot once the sets have been freed.
kinds(t) ==
  IF t.allSatisfied THEN t.kindsSnapshot
  ELSE {KindOf[k] : k \in t.satisfied \cup t.expect}

\* Fault: a tracker with nothing left to expect does not ask for the write lock.
needMutate_OnlySeen(t) ==
  ~t.allSatisfied /\ t.populated /\ t.seen # {} /\ t.expect # {}

\* First half of Satisfied, under the read lock.
needMutate(t) ==
  /\ ~t.allSatisfied
  /\ t.populated
  /\ (t.seen # {} /\ t.expect # {}) \/ t.expect = {}

\* Fault: the snapshot is taken from the emptied sets.
Trip_LateSnapshot(t) ==
  [newObjTracker EXCEPT !.populated = t.populated, !.allSatisfied = TRUE]

\* The circuit breaker: record the kinds and free the sets.
Trip(t) ==
  [t EXCEPT !.allSatisfied  = TRUE,
            !.kindsSnapshot = kinds(t),
            !.seen          = {},
            !.expect        = {},
            !.satisfied     = {},
            !.canceled      = {},
            !.tryCanceled   = [k \in Keys |-> Retries]]

ResolveSeen(t) ==
  [t EXCEPT !.seen      = @ \ t.expect,
            !.expect    = @ \ t.seen,
            !.satisfied = @ \cup (t.seen \cap t.expect)]

\* Fault: the breaker trips although expectations remain.
Resolve_Eager(t) ==
  LET r == ResolveSeen(t) IN IF r.populated THEN Trip(r) ELSE r

\* Second half of Satisfied, under the write lock.
Resolve(t) ==
  LET r == ResolveSeen(t)
  IN  IF r.populated /\ r.expect = {} THEN Trip(r) ELSE r

\* Both halves of Satisfied in one step.  ObjectTracker keeps them apart and shows
\* (SatisfiedAtomic) that nothing can tell the difference.
SatisfiedCall(t) == IF needMutate(t) THEN Resolve(t) ELSE t
===============================================================================
