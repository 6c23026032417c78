-------------------------- MODULE ObjectTrackerProofs -------------------------
(***************************************************************************)
(* Proofs about ObjectTracker for every set of keys, every assignment of   *)
(* kinds, every number of retries and every set of concurrent callers of   *)
(* Satisfied.                                                              *)
(***************************************************************************)
EXTENDS ObjectTracker, TLAPS

\* Cancelling an expectation yields a well-formed tracker.
LEMMA CancelType ==
  ASSUME NEW t \in TrackerType, NEW k \in Keys
  PROVE  cancelExpectNoLock(t, k) \in TrackerType
BY RetriesAssumption DEF cancelExpectNoLock, TrackerType, RetryRange

\* TryCancelExpect yields a well-formed tracker: retries stay in their range.
LEMMA TryCancelType ==
  ASSUME NEW t \in TrackerType, NEW k \in Keys
  PROVE  TryCancelExpect(t, k) \in TrackerType
<1>1. ASSUME NEW r \in RetryRange PROVE decrementRetries(r) \in RetryRange
  BY RetriesAssumption DEF RetryRange, decrementRetries
<1>2. t.tryCanceled[k] \in RetryRange
  BY DEF TrackerType
<1>3. [t EXCEPT !.tryCanceled[k] = decrementRetries(@)] \in TrackerType
  BY <1>1, <1>2 DEF TrackerType
<1> QED
  BY <1>3, CancelType DEF TryCancelExpect

\* Freeing the sets yields a well-formed tracker.
LEMMA TripType ==
  ASSUME NEW t \in TrackerType
  PROVE  Trip(t) \in TrackerType
<1>1. kinds(t) \in SUBSET Kinds
  BY DEF kinds, Kinds, TrackerType
<1>2. [k \in Keys |-> Retries] \in [Keys -> RetryRange]
  BY DEF RetryRange
<1> QED
  BY <1>1, <1>2 DEF Trip, TrackerType

\* The write half of Satisfied yields a well-formed tracker.
LEMMA ResolveType ==
  ASSUME NEW t \in TrackerType
  PROVE  Resolve(t) \in TrackerType
<1>1. ResolveSeen(t) \in TrackerType
  BY DEF ResolveSeen, TrackerType
<1> QED
  BY <1>1, TripType DEF Resolve

\* Type correctness of ObjectTracker is an invariant.
THEOREM TypeCorrect == Spec => []TypeOK
<1>1. Init => TypeOK
  BY RetriesAssumption DEF Init, TypeOK, newObjTracker, TrackerType, RetryRange
<1>2. TypeOK /\ [Next]_vars => TypeOK'
  <2> SUFFICES ASSUME TypeOK, [Next]_vars PROVE TypeOK'
    OBVIOUS
  <2> USE DEF TypeOK
  <2>1. ASSUME NEW k \in Keys, NEW b \in BOOLEAN, ExpectCall(k, b) PROVE TypeOK'
    BY <2>1 DEF ExpectCall, Expect, Satisfy, TrackerType
  <2>2. ASSUME NEW k \in Keys, ObserveCall(k) PROVE TypeOK'
    BY <2>2 DEF ObserveCall, Observe, Satisfy, TrackerType
  <2>3. ASSUME NEW k \in Keys, CancelExpectCall(k) PROVE TypeOK'
    BY <2>3, CancelType DEF CancelExpectCall, CancelExpect
  <2>4. ASSUME NEW k \in Keys, TryCancelExpectCall(k) PROVE TypeOK'
    BY <2>4, TryCancelType DEF TryCancelExpectCall
  <2>5. CASE ExpectationsDoneCall
    BY <2>5 DEF ExpectationsDoneCall, ExpectationsDone, TrackerType
  <2>6. ASSUME NEW c \in Checkers, SatisfiedRLocked(c) PROVE TypeOK'
    BY <2>6 DEF SatisfiedRLocked
  <2>7. ASSUME NEW c \in Checkers, SatisfiedLocked(c) PROVE TypeOK'
    BY <2>7, ResolveType DEF SatisfiedLocked
  <2>8. CASE UNCHANGED vars
    BY <2>8 DEF vars
  <2> QED
    BY <2>1, <2>2, <2>3, <2>4, <2>5, <2>6, <2>7, <2>8 DEF Next
<1> QED
  BY <1>1, <1>2, PTL DEF Spec

-------------------------------------------------------------------------------
(***************************************************************************)
(* The inductive invariant.  While the breaker has not tripped, the        *)
(* tracker's sets are a function of the history of calls up to the         *)
(* keys observed late; once it has tripped they are empty and the history  *)
(* satisfies what the breaker stands for.                                  *)
(***************************************************************************)
TrackingInv ==
  ~ot.allSatisfied =>
    /\ ot.canceled = dropped
    /\ ot.satisfied \cup ot.expect = wanted \ dropped
    /\ wanted \ met \subseteq ot.expect
    /\ ot.satisfied \cup ot.seen \subseteq observed
    /\ ot.seen \cap wanted = {}
    /\ ~ot.populated => observed \ (wanted \cup dropped) \subseteq ot.seen

FrozenInv ==
  ot.allSatisfied =>
    /\ ot.populated
    /\ wanted \subseteq met
    /\ ot.kindsSnapshot = {KindOf[k] : k \in wanted \ dropped}
    /\ ot.seen = {}
    /\ ot.expect = {}
    /\ ot.satisfied = {}
    /\ ot.canceled = {}
    /\ ot.tryCanceled = [k \in Keys |-> Retries]

IInv == TypeOK /\ TrackingInv /\ FrozenInv

\* The write half of Satisfied has nothing to resolve, and either leaves the
\* tracker alone or trips the breaker.
LEMMA ResolveStep ==
  ASSUME IInv
  PROVE  /\ ResolveSeen(ot) = ot
         /\ Resolve(ot) = IF ot.populated /\ ot.expect = {} THEN Trip(ot) ELSE ot
         /\ ot.allSatisfied => Resolve(ot) = ot
<1>1. ot.seen \cap ot.expect = {}
  <2>1. CASE ot.allSatisfied
    BY <2>1 DEF IInv, FrozenInv
  <2>2. CASE ~ot.allSatisfied
    BY <2>2 DEF IInv, TrackingInv
  <2> QED
    BY <2>1, <2>2
<1>2. ResolveSeen(ot) = ot
  <2>1. /\ ot.seen \ ot.expect = ot.seen
        /\ ot.expect \ ot.seen = ot.expect
        /\ ot.satisfied \cup (ot.seen \cap ot.expect) = ot.satisfied
    BY <1>1
  <2>2. ResolveSeen(ot) =
          [ot EXCEPT !.seen = ot.seen, !.expect = ot.expect,
                     !.satisfied = ot.satisfied]
    BY <2>1 DEF ResolveSeen
  <2> QED
    BY <2>2 DEF IInv, TypeOK, TrackerType
<1>3. Resolve(ot) = IF ot.populated /\ ot.expect = {} THEN Trip(ot) ELSE ot
  BY <1>2 DEF Resolve
<1>4. ASSUME ot.allSatisfied PROVE Trip(ot) = ot
  <2>1. Trip(ot) =
          [ot EXCEPT !.allSatisfied = ot.allSatisfied,
                     !.kindsSnapshot = ot.kindsSnapshot,
                     !.seen = ot.seen, !.expect = ot.expect,
                     !.satisfied = ot.satisfied, !.canceled = ot.canceled,
                     !.tryCanceled = ot.tryCanceled]
    BY <1>4 DEF Trip, kinds, IInv, FrozenInv
  <2> QED
    BY <2>1 DEF IInv, TypeOK, TrackerType
<1> QED
  BY <1>2, <1>3, <1>4

\* The invariant holds initially.
LEMMA InitIInv == Init => IInv
<1>1. Init => TypeOK
  BY RetriesAssumption DEF Init, TypeOK, newObjTracker, TrackerType, RetryRange
<1> QED
  BY <1>1 DEF Init, IInv, TrackingInv, FrozenInv, newObjTracker, met

\* Every step preserves the invariant.
LEMMA NextIInv == IInv /\ TypeOK' /\ [Next]_vars => IInv'
<1> SUFFICES ASSUME IInv, TypeOK', [Next]_vars
             PROVE  TrackingInv' /\ FrozenInv'
  BY DEF IInv
<1>0. TypeOK /\ TrackingInv /\ FrozenInv
  BY DEF IInv
<1>1. ASSUME NEW k \in Keys, NEW b \in BOOLEAN, ExpectCall(k, b)
      PROVE  TrackingInv' /\ FrozenInv'
  <2>1. CASE ~Accepts(ot, k, b)
    BY <2>1, <1>0, <1>1 DEF ExpectCall, Expect, TrackingInv, FrozenInv, met
  <2>2. CASE Accepts(ot, k, b) /\ k \in ot.seen
    BY <2>2, <1>0, <1>1
    DEF ExpectCall, Expect, Accepts, Satisfy, TrackingInv, FrozenInv, met,
        TypeOK, TrackerType
  <2>3. CASE Accepts(ot, k, b) /\ k \notin ot.seen
    BY <2>3, <1>0, <1>1
    DEF ExpectCall, Expect, Accepts, TrackingInv, FrozenInv, met,
        TypeOK, TrackerType
  <2> QED
    BY <2>1, <2>2, <2>3
<1>2. ASSUME NEW k \in Keys, ObserveCall(k)
      PROVE  TrackingInv' /\ FrozenInv'
  BY <1>0, <1>2
  DEF ObserveCall, Observe, Satisfy, TrackingInv, FrozenInv, met,
      TypeOK, TrackerType
<1>3. ASSUME NEW k \in Keys, ~ot.allSatisfied, ot' = cancelExpectNoLock(ot, k),
             dropped' = dropped \cup {k}, UNCHANGED <<pc, wanted, observed>>
      PROVE  TrackingInv' /\ FrozenInv'
  BY <1>0, <1>3
  DEF cancelExpectNoLock, TrackingInv, FrozenInv, met, TypeOK, TrackerType
<1>4. ASSUME NEW k \in Keys, CancelExpectCall(k)
      PROVE  TrackingInv' /\ FrozenInv'
  BY <1>0, <1>3, <1>4
  DEF CancelExpectCall, CancelExpect, TrackingInv, FrozenInv, met
<1>5. ASSUME NEW k \in Keys, TryCancelExpectCall(k)
      PROVE  TrackingInv' /\ FrozenInv'
  <2>1. CASE shouldDel(ot, k)
    BY <2>1, <1>3, <1>5 DEF TryCancelExpectCall, TryCancelExpect, shouldDel
  <2>2. CASE ~shouldDel(ot, k)
    BY <2>2, <1>0, <1>5
    DEF TryCancelExpectCall, TryCancelExpect, TrackingInv, FrozenInv, met,
        TypeOK, TrackerType
  <2> QED
    BY <2>1, <2>2
<1>6. CASE ExpectationsDoneCall
  BY <1>0, <1>6
  DEF ExpectationsDoneCall, ExpectationsDone, TrackingInv, FrozenInv, met,
      TypeOK, TrackerType
<1>7. ASSUME NEW c \in Checkers, SatisfiedRLocked(c)
      PROVE  TrackingInv' /\ FrozenInv'
  BY <1>0, <1>7 DEF SatisfiedRLocked, TrackingInv, FrozenInv, met
<1>8. ASSUME NEW c \in Checkers, SatisfiedLocked(c)
      PROVE  TrackingInv' /\ FrozenInv'
  <2>0. UNCHANGED <<wanted, observed, dropped>>
    BY <1>8 DEF SatisfiedLocked
  <2>1. CASE ot' = ot
    BY <2>0, <2>1, <1>0 DEF TrackingInv, FrozenInv, met
  <2>2. CASE ~ot.allSatisfied /\ ot.populated /\ ot.expect = {} /\ ot' = Trip(ot)
    <3>1. /\ ot.satisfied = wanted \ dropped
          /\ wanted \subseteq met
      BY <2>2, <1>0 DEF TrackingInv
    <3>2. kinds(ot) = {KindOf[k] : k \in wanted \ dropped}
      BY <2>2, <3>1 DEF kinds
    <3>3. /\ ot'.allSatisfied /\ ot'.populated
          /\ ot'.kindsSnapshot = kinds(ot)
          /\ ot'.seen = {} /\ ot'.expect = {} /\ ot'.satisfied = {}
          /\ ot'.canceled = {}
          /\ ot'.tryCanceled = [k \in Keys |-> Retries]
      BY <2>2, <1>0 DEF Trip, TypeOK, TrackerType
    <3> QED
      BY <3>1, <3>2, <3>3, <2>0 DEF TrackingInv, FrozenInv, met
  <2> QED
    BY <1>8, <2>1, <2>2, ResolveStep DEF SatisfiedLocked
<1>9. CASE UNCHANGED vars
  BY <1>0, <1>9 DEF vars, TrackingInv, FrozenInv, met
<1> QED
  BY <1>1, <1>2, <1>4, <1>5, <1>6, <1>7, <1>8, <1>9 DEF Next

\* The inductive invariant holds in every reachable state.
THEOREM Invariance == Spec => []IInv
<1>1. IInv /\ TypeOK' /\ [Next]_vars => IInv'
  BY NextIInv
<1> QED
  BY <1>1, InitIInv, TypeCorrect, PTL DEF Spec

\* Satisfied never reports TRUE while a recorded expectation is neither
\* observed nor cancelled, or before the population is complete.
THEOREM Soundness == Spec => []SatisfiedSound
<1>1. IInv => SatisfiedSound
  BY DEF IInv, FrozenInv, SatisfiedSound
<1> QED
  BY <1>1, Invariance, PTL

\* kinds() is exact before and after the tracker frees its sets.
THEOREM KindsAreExact == Spec => []KindsExact
<1>1. IInv => KindsExact
  BY DEF IInv, TrackingInv, FrozenInv, KindsExact, kinds
<1> QED
  BY <1>1, Invariance, PTL

\* The loop of Satisfied over pre-observations never finds one to resolve.
THEOREM ResolveLoopIsIdle == Spec => []SeenNeverExpected
<1>1. IInv => SeenNeverExpected
  BY DEF IInv, TrackingInv, FrozenInv, SeenNeverExpected
<1> QED
  BY <1>1, Invariance, PTL

\* No call writes the tracker after the breaker has tripped: in particular no
\* call writes one of its nil maps.
THEOREM BreakerIsFinal == Spec => BreakerFinal
<1>1. ASSUME IInv, [Next]_vars
      PROVE  [ot.allSatisfied => ot' = ot]_vars
  <2> SUFFICES ASSUME ot.allSatisfied, Next PROVE ot' = ot
    BY <1>1
  <2>0. TypeOK /\ FrozenInv
    BY <1>1 DEF IInv
  <2>1. ASSUME NEW k \in Keys, NEW b \in BOOLEAN, ExpectCall(k, b) PROVE ot' = ot
    BY <2>0, <2>1 DEF ExpectCall, Expect, Accepts, FrozenInv
  <2>2. ASSUME NEW k \in Keys,
               ObserveCall(k) \/ CancelExpectCall(k) \/ TryCancelExpectCall(k)
        PROVE  ot' = ot
    BY <2>2 DEF ObserveCall, Observe, CancelExpectCall, CancelExpect,
                TryCancelExpectCall, TryCancelExpect
  <2>3. CASE ExpectationsDoneCall
    BY <2>0, <2>3
    DEF ExpectationsDoneCall, ExpectationsDone, FrozenInv, TypeOK, TrackerType
  <2>4. ASSUME NEW c \in Checkers, SatisfiedRLocked(c) \/ SatisfiedLocked(c)
        PROVE  ot' = ot
    BY <1>1, <2>4, ResolveStep DEF SatisfiedRLocked, SatisfiedLocked
  <2> QED
    BY <2>1, <2>2, <2>3, <2>4 DEF Next
<1> QED
  BY <1>1, Invariance, PTL DEF Spec, BreakerFinal

-------------------------------------------------------------------------------
\* Each step of the tracker is a step of the promised behaviour or stutters.
LEMMA StepRefines == IInv /\ [Next]_vars => [Promise!Next]_(Promise!evars)
<1> SUFFICES ASSUME IInv, [Next]_vars
             PROVE  Promise!Next \/ UNCHANGED Promise!evars
  OBVIOUS
<1>0. TypeOK /\ TrackingInv /\ FrozenInv
  BY DEF IInv
<1> USE DEF Promise!Next, Promise!evars, met
<1>1. ASSUME NEW k \in Keys, NEW b \in BOOLEAN, ExpectCall(k, b)
      PROVE  Promise!Require(k) \/ UNCHANGED Promise!evars
  <2>1. CASE Accepts(ot, k, b)
    BY <2>1, <1>0, <1>1
    DEF ExpectCall, Expect, Accepts, Satisfy, Promise!Require, TypeOK, TrackerType
  <2>2. CASE ~Accepts(ot, k, b)
    BY <2>2, <1>1 DEF ExpectCall, Expect
  <2> QED
    BY <2>1, <2>2
<1>2. ASSUME NEW k \in Keys, ObserveCall(k)
      PROVE  Promise!Meet(k) \/ UNCHANGED Promise!evars
  BY <1>0, <1>2
  DEF ObserveCall, Observe, Satisfy, Promise!Meet, TypeOK, TrackerType
<1>3. ASSUME NEW k \in Keys, CancelExpectCall(k)
      PROVE  Promise!Meet(k) \/ UNCHANGED Promise!evars
  BY <1>0, <1>3
  DEF CancelExpectCall, CancelExpect, cancelExpectNoLock, Promise!Meet,
      TypeOK, TrackerType
<1>4. ASSUME NEW k \in Keys, TryCancelExpectCall(k)
      PROVE  Promise!Meet(k) \/ UNCHANGED Promise!evars
  BY <1>0, <1>4
  DEF TryCancelExpectCall, TryCancelExpect, shouldDel, cancelExpectNoLock,
      Promise!Meet, TypeOK, TrackerType
<1>5. ASSUME ExpectationsDoneCall PROVE Promise!Populate
  BY <1>0, <1>5
  DEF ExpectationsDoneCall, ExpectationsDone, Promise!Populate,
      TypeOK, TrackerType
<1>6. ASSUME NEW c \in Checkers, SatisfiedRLocked(c)
      PROVE  UNCHANGED Promise!evars
  BY <1>6 DEF SatisfiedRLocked
<1>7. ASSUME NEW c \in Checkers, SatisfiedLocked(c)
      PROVE  Promise!BecomeReady \/ UNCHANGED Promise!evars
  <2>0. UNCHANGED <<wanted, observed, dropped>>
    BY <1>7 DEF SatisfiedLocked
  <2>1. CASE ot' = ot
    BY <2>0, <2>1
  <2>2. CASE ~ot.allSatisfied /\ ot.populated /\ ot.expect = {} /\ ot' = Trip(ot)
    <3>1. wanted \subseteq met
      BY <2>2, <1>0 DEF TrackingInv
    <3>2. ot'.allSatisfied /\ ot'.populated
      BY <2>2, <1>0 DEF Trip, TypeOK, TrackerType
    <3> QED
      BY <3>1, <3>2, <2>0, <2>2, <1>0
      DEF Promise!BecomeReady, TypeOK, TrackerType
  <2> QED
    BY <1>7, <2>1, <2>2, ResolveStep DEF SatisfiedLocked
<1>8. CASE UNCHANGED vars
  BY <1>8 DEF vars
<1> QED
  BY <1>1, <1>2, <1>3, <1>4, <1>5, <1>6, <1>7, <1>8 DEF Next

\* The tracker implements the safety part of the Expectations interface.
THEOREM Refinement == Spec => ImplementsExpectationsSafe
<1>1. Init => Promise!Init
  BY DEF Init, Promise!Init, newObjTracker, met
<1>2. IInv /\ [Next]_vars => [Promise!Next]_(Promise!evars)
  BY StepRefines
<1> QED
  BY <1>1, <1>2, Invariance, PTL
  DEF Spec, ImplementsExpectationsSafe, Promise!SafeSpec

-------------------------------------------------------------------------------
\* A caller between the two locks of Satisfied has seen a populated tracker.
MutateInv == \A c \in Checkers : pc[c] = "mutate" => ot.populated

\* No operation takes back ExpectationsDone.
LEMMA PopulatedStable ==
  ASSUME IInv, [Next]_vars, ot.populated
  PROVE  ot'.populated
<1>0. TypeOK
  BY DEF IInv
<1>1. ASSUME NEW k \in Keys, NEW b \in BOOLEAN, ExpectCall(k, b)
      PROVE  ot'.populated
  BY <1>1 DEF ExpectCall, Expect, Accepts
<1>2. ASSUME NEW k \in Keys, ObserveCall(k) PROVE ot'.populated
  BY <1>0, <1>2 DEF ObserveCall, Observe, Satisfy, TypeOK, TrackerType
<1>3. ASSUME NEW k \in Keys, CancelExpectCall(k) \/ TryCancelExpectCall(k)
      PROVE  ot'.populated
  BY <1>0, <1>3
  DEF CancelExpectCall, CancelExpect, TryCancelExpectCall, TryCancelExpect,
      cancelExpectNoLock, TypeOK, TrackerType
<1>4. CASE ExpectationsDoneCall
  BY <1>0, <1>4 DEF ExpectationsDoneCall, ExpectationsDone, TypeOK, TrackerType
<1>5. ASSUME NEW c \in Checkers, SatisfiedRLocked(c) PROVE ot'.populated
  BY <1>5 DEF SatisfiedRLocked
<1>6. ASSUME NEW c \in Checkers, SatisfiedLocked(c) PROVE ot'.populated
  BY <1>0, <1>6, ResolveStep DEF SatisfiedLocked, Trip, TypeOK, TrackerType
<1>7. CASE UNCHANGED vars
  BY <1>7 DEF vars
<1> QED
  BY <1>1, <1>2, <1>3, <1>4, <1>5, <1>6, <1>7 DEF Next

\* The two halves of Satisfied act as one step.
THEOREM SatisfiedIsAtomic == Spec => []SatisfiedAtomic
<1>1. Init => MutateInv
  BY DEF Init, MutateInv
<1>2. IInv /\ MutateInv /\ [Next]_vars => MutateInv'
  <2> SUFFICES ASSUME IInv, MutateInv, [Next]_vars,
                      NEW c \in Checkers, pc'[c] = "mutate"
               PROVE  ot'.populated
    BY DEF MutateInv
  <2>1. pc \in [Checkers -> {"idle", "mutate"}]
    BY DEF IInv, TypeOK
  <2>2. CASE pc[c] = "mutate"
    BY <2>2, PopulatedStable DEF MutateInv
  <2>3. CASE pc[c] # "mutate"
    <3>1. \E d \in Checkers : SatisfiedRLocked(d)
      BY <2>1, <2>3
      DEF Next, vars, ExpectCall, ObserveCall, CancelExpectCall,
          TryCancelExpectCall, ExpectationsDoneCall, SatisfiedLocked
    <3> QED
      BY <3>1 DEF SatisfiedRLocked, needMutate
  <2> QED
    BY <2>2, <2>3
<1>3. IInv /\ MutateInv => SatisfiedAtomic
  <2> SUFFICES ASSUME IInv, MutateInv, NEW c \in Checkers, pc[c] = "mutate"
               PROVE  Resolve(ot) = SatisfiedCall(ot)
    BY DEF SatisfiedAtomic
  <2>1. ot.populated
    BY DEF MutateInv
  <2>2. CASE needMutate(ot)
    BY <2>2 DEF SatisfiedCall
  <2>3. CASE ~needMutate(ot)
    <3>1. SatisfiedCall(ot) = ot
      BY <2>3 DEF SatisfiedCall
    <3>2. ot.allSatisfied \/ ot.expect # {}
      BY <2>1, <2>3 DEF needMutate
    <3> QED
      BY <3>1, <3>2, ResolveStep
  <2> QED
    BY <2>2, <2>3
<1> QED
  BY <1>1, <1>2, <1>3, Invariance, PTL DEF Spec

-------------------------------------------------------------------------------
(***************************************************************************)
(* When no key is expected twice the outstanding expectations are exactly  *)
(* the recorded ones that were neither observed nor cancelled: a key that  *)
(* was observed is no longer expected.                                     *)
(***************************************************************************)
OnceInv == ~ot.allSatisfied => ot.expect \cap observed = {}

\* With at most one Expect per key, no expectation is stranded.
THEOREM OnceNothingStranded ==
  ASSUME RepeatExpect = FALSE
  PROVE  Spec => []NothingStranded
<1>1. Init => OnceInv
  BY DEF Init, OnceInv, newObjTracker
<1>2. IInv /\ OnceInv /\ [Next]_vars => OnceInv'
  <2> SUFFICES ASSUME IInv, OnceInv, [Next]_vars PROVE OnceInv'
    OBVIOUS
  <2>0. TypeOK /\ TrackingInv /\ FrozenInv
    BY DEF IInv
  <2>1. ASSUME NEW k \in Keys, NEW b \in BOOLEAN, ExpectCall(k, b) PROVE OnceInv'
    BY <2>0, <2>1, RepeatExpect = FALSE
    DEF ExpectCall, Expect, Accepts, Satisfy, OnceInv, TrackingInv, FrozenInv,
        TypeOK, TrackerType
  <2>2. ASSUME NEW k \in Keys, ObserveCall(k) PROVE OnceInv'
    BY <2>0, <2>2
    DEF ObserveCall, Observe, Satisfy, OnceInv, TrackingInv, TypeOK, TrackerType
  <2>3. ASSUME NEW k \in Keys, CancelExpectCall(k) \/ TryCancelExpectCall(k)
        PROVE  OnceInv'
    BY <2>0, <2>3
    DEF CancelExpectCall, CancelExpect, TryCancelExpectCall, TryCancelExpect,
        cancelExpectNoLock, OnceInv, TypeOK, TrackerType
  <2>4. CASE ExpectationsDoneCall
    BY <2>0, <2>4
    DEF ExpectationsDoneCall, ExpectationsDone, OnceInv, TypeOK, TrackerType
  <2>5. ASSUME NEW c \in Checkers, SatisfiedRLocked(c) PROVE OnceInv'
    BY <2>5 DEF SatisfiedRLocked, OnceInv
  <2>6. ASSUME NEW c \in Checkers, SatisfiedLocked(c) PROVE OnceInv'
    BY <2>0, <2>6, ResolveStep
    DEF SatisfiedLocked, Trip, OnceInv, TypeOK, TrackerType
  <2>7. CASE UNCHANGED vars
    BY <2>7 DEF vars, OnceInv
  <2> QED
    BY <2>1, <2>2, <2>3, <2>4, <2>5, <2>6, <2>7 DEF Next
<1>3. IInv /\ OnceInv => NothingStranded
  BY DEF IInv, TrackingInv, OnceInv, NothingStranded, met
<1> QED
  BY <1>1, <1>2, <1>3, Invariance, PTL DEF Spec
===============================================================================
