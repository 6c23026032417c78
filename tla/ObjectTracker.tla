---------------------------- MODULE ObjectTracker -----------------------------
(***************************************************************************)
(* One objectTracker shared by the goroutines that use it: a lister that   *)
(* sets expectations, controllers that observe or cancel objects, and the  *)
(* callers of Satisfied (the readiness probe, the collector, the stats     *)
(* printer), each of which may be between its read lock and its write lock *)
(* when any of the others acts.                                            *)
(***************************************************************************)
EXTENDS ObjectTrackerOps

CONSTANTS
  Checkers,      \* goroutines that call Satisfied
  RepeatExpect   \* TRUE: Expect may be called again for a key it accepted, as
                 \* trackConfig does for a repeated syncOnly entry

ASSUME RepeatExpectAssumption == RepeatExpect \in BOOLEAN

VARIABLES
  ot,        \* the tracker
  pc,        \* where each caller of Satisfied is
  wanted,    \* history: keys that Expect recorded
  observed,  \* history: keys observed before the circuit breaker tripped
  dropped    \* history: keys cancelled before the circuit breaker tripped

vars == <<ot, pc, wanted, observed, dropped>>

Init ==
  /\ ot = newObjTracker
  /\ pc = [c \in Checkers |-> "idle"]
  /\ wanted = {}
  /\ observed = {}
  /\ dropped = {}

ExpectCall(k, terminating) ==
  /\ RepeatExpect \/ k \notin wanted
  /\ ot' = Expect(ot, k, terminating)
  /\ wanted' = IF Accepts(ot, k, terminating) THEN wanted \cup {k} ELSE wanted
  /\ UNCHANGED <<pc, observed, dropped>>

ExpectationsDoneCall ==
  /\ ot' = ExpectationsDone(ot)
  /\ UNCHANGED <<pc, wanted, observed, dropped>>

ObserveCall(k) ==
  /\ ot' = Observe(ot, k)
  /\ observed' = IF ot.allSatisfied THEN observed ELSE observed \cup {k}
  /\ UNCHANGED <<pc, wanted, dropped>>

CancelExpectCall(k) ==
  /\ ot' = CancelExpect(ot, k)
  /\ dropped' = IF ot.allSatisfied THEN dropped ELSE dropped \cup {k}
  /\ UNCHANGED <<pc, wanted, observed>>

TryCancelExpectCall(k) ==
  /\ ot' = TryCancelExpect(ot, k)
  /\ dropped' = IF shouldDel(ot, k) THEN dropped \cup {k} ELSE dropped
  /\ UNCHANGED <<pc, wanted, observed>>

\* Satisfied up to the release of the read lock.
SatisfiedRLocked(c) ==
  /\ pc[c] = "idle"
  /\ needMutate(ot)
  /\ pc' = [pc EXCEPT ![c] = "mutate"]
  /\ UNCHANGED <<ot, wanted, observed, dropped>>

\* Satisfied from the acquisition of the write lock.
SatisfiedLocked(c) ==
  /\ pc[c] = "mutate"
  /\ ot' = Resolve(ot)
  /\ pc' = [pc EXCEPT ![c] = "idle"]
  /\ UNCHANGED <<wanted, observed, dropped>>

Next ==
  \/ \E k \in Keys :
       \/ \E terminating \in BOOLEAN : ExpectCall(k, terminating)
       \/ ObserveCall(k)
       \/ CancelExpectCall(k)
       \/ TryCancelExpectCall(k)
  \/ ExpectationsDoneCall
  \/ \E c \in Checkers : SatisfiedRLocked(c) \/ SatisfiedLocked(c)

(***************************************************************************)
(* The kubelet probes readiness and the collector polls every 500ms until  *)
(* the tracker is satisfied, so calls of Satisfied keep being made and a   *)
(* call that was begun is finished.  Nothing is assumed of the others.     *)
(***************************************************************************)
Fairness ==
  \A c \in Checkers :
    WF_vars(SatisfiedRLocked(c)) /\ WF_vars(SatisfiedLocked(c))

Spec == Init /\ [][Next]_vars /\ Fairness

-------------------------------------------------------------------------------
met == observed \cup dropped

\* Type correctness of the tracker's fields and of the callers' positions.
TypeOK ==
  /\ ot \in TrackerType
  /\ pc \in [Checkers -> {"idle", "mutate"}]
  /\ wanted \subseteq Keys
  /\ observed \subseteq Keys
  /\ dropped \subseteq Keys

(***************************************************************************)
(* No false readiness: once Satisfied reports TRUE, whatever the order in  *)
(* which Expect, Observe, CancelExpect and ExpectationsDone were called and *)
(* wherever other calls of Satisfied were suspended, the population was    *)
(* complete and every recorded expectation was observed or cancelled.      *)
(***************************************************************************)
SatisfiedSound == ot.allSatisfied => ot.populated /\ wanted \subseteq met

(***************************************************************************)
(* kinds() is exact before and after the sets are freed: it names the      *)
(* kinds of the expectations that were recorded and not cancelled.         *)
(* Tracker.Satisfied asks the per-kind trackers for exactly these kinds.   *)
(***************************************************************************)
KindsExact == kinds(ot) = {KindOf[k] : k \in wanted \ dropped}

(***************************************************************************)
(* An observation that came before its expectation never coexists with it: *)
(* Expect consumes it at once.  The loop of Satisfied that resolves        *)
(* pre-observations therefore finds nothing.                               *)
(***************************************************************************)
SeenNeverExpected == ot.seen \cap ot.expect = {}

(***************************************************************************)
(* Nothing is stranded: until the breaker trips, the outstanding           *)
(* expectations are exactly the recorded ones that were neither observed   *)
(* nor cancelled.  An expectation outside this set can never be resolved.  *)
(***************************************************************************)
NothingStranded == ~ot.allSatisfied => ot.expect = wanted \ met

(***************************************************************************)
(* The circuit breaker is final: after it trips no call writes the tracker *)
(* (its maps are nil then, and a write to a nil map panics).               *)
(***************************************************************************)
BreakerFinal == [][ot.allSatisfied => ot' = ot]_vars

(***************************************************************************)
(* Satisfied is atomic although it drops the read lock before it takes the *)
(* write lock: whatever happened in between, its write half does what both *)
(* halves would do now, so a decision made on stale sets is never applied. *)
(***************************************************************************)
SatisfiedAtomic ==
  \A c \in Checkers : pc[c] = "mutate" => Resolve(ot) = SatisfiedCall(ot)

(***************************************************************************)
(* The tracker implements the promise of the Expectations interface, the   *)
(* eventual readiness included.                                            *)
(***************************************************************************)
Promise == INSTANCE Expectations WITH
  required  <- wanted,
  met       <- met,
  populated <- ot.populated,
  ready     <- ot.allSatisfied

ImplementsExpectations     == Promise!Spec
ImplementsExpectationsSafe == Promise!SafeSpec
===============================================================================
