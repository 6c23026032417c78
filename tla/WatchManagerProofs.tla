-------------------------- MODULE WatchManagerProofs --------------------------
(***************************************************************************)
(* Proofs about the watch manager, for any registrars, kinds and objects,  *)
(* any calls, and any number of changes and replays: between calls a       *)
(* registrar watches what it intends to, the manager hears of exactly the  *)
(* kinds that are watched and no replay restarts an informer for nobody,   *)
(* and no change is lost on its way to a registrar.                        *)
(***************************************************************************)
EXTENDS WatchManager, TLAPS

-------------------------------------------------------------------------------
\* Types

CallType ==
  [pc : {"idle", "lock", "work", "request", "mark", "cancel", "drop", "wait"},
   verb : {"", "add", "remove", "replace", "unregister"},
   remove : SUBSET Kinds, add : SUBSET Kinds, k : Kinds \cup {""}]

InformerType == [on : BOOLEAN, handler : BOOLEAN, reader : BOOLEAN, cache : SUBSET Objects]

LoopType == [pc : {"idle", "request", "cancel", "exit"},
             r : Registrars \cup {NoRegistrar}, k : Kinds \cup {""}]

ReplayType == [pc : {"none", "list", "send"}, r : Registrars \cup {NoRegistrar},
               k : Kinds \cup {""}, todo : SUBSET Objects, canceled : BOOLEAN, attempts : Nat]

DistType == [pc : {"idle", "read", "send"}, o : Objects \cup {""}, todo : SUBSET Registrars]

TypeInv ==
  /\ intent \in [Registrars -> SUBSET Kinds]
  /\ watched \in [Kinds -> SUBSET Registrars]
  /\ lock \in Registrars \cup {NoRegistrar}
  /\ call \in [Registrars -> CallType]
  /\ phase \in {"new", "running", "stopped"}
  /\ informer \in [Kinds -> InformerType]
  /\ events \in [Objects -> Nat]
  /\ dist \in DistType
  /\ loop \in LoopType
  /\ inProgress \in [Registrars \X Kinds -> Replays \cup {NoReplay}]
  /\ replay \in [Replays -> ReplayType]
  /\ owed \in [Registrars -> SUBSET Objects]

\* What a call, the loop and a replay work on.
Working ==
  /\ \A r \in Registrars : call[r].pc \in {"request", "mark", "cancel", "drop", "wait"} =>
       call[r].k \in Kinds
  /\ loop.pc \in {"request", "cancel"} => loop.r \in Registrars /\ loop.k \in Kinds
  /\ \A g \in Replays : replay[g].pc # "none" => replay[g].r \in Registrars /\ replay[g].k \in Kinds
  /\ dist.pc # "idle" => dist.o \in Objects

-------------------------------------------------------------------------------
\* Calls, watchedMux and the intent

Joining(r, k) == call[r].pc \in {"request", "mark"} /\ call[r].k = k
Leaving(r, k) == call[r].pc \in {"cancel", "drop", "wait"} /\ call[r].k = k

\* The steps of a call but the first are taken under watchedMux.
LockInv == \A r \in Registrars : call[r].pc \notin {"idle", "lock"} <=> lock = r

\* A call adds what the registrar wants and removes what it does not.
CallInv ==
  \A r \in Registrars :
    /\ call[r].pc # "idle" => call[r].add \subseteq intent[r] /\ call[r].remove \cap intent[r] = {}
    /\ \A k \in Kinds :
         /\ Joining(r, k) => /\ k \in call[r].add /\ call[r].remove = {}
                             /\ r \notin watched[k] /\ watched[k] # {}
         /\ Leaving(r, k) => k \in call[r].remove
    /\ call[r].pc = "wait" => watched[call[r].k] = {}

\* replaceWatches fills in the sets once it has the lock.
Open(r) == call[r].pc = "lock" /\ call[r].verb \in {"replace", "unregister"}

ToRemove(r) == IF call[r].pc = "idle" THEN {} ELSE IF Open(r) THEN Kinds ELSE call[r].remove
ToAdd(r)    == IF call[r].pc = "idle" THEN {} ELSE IF Open(r) THEN Kinds ELSE call[r].add

WatchedInv ==
  \A r \in Registrars, k \in Kinds :
    /\ r \in watched[k] => k \in intent[r] \/ k \in ToRemove(r)
    /\ k \in intent[r] \ Unregistered => r \in watched[k] \/ k \in ToAdd(r)

-------------------------------------------------------------------------------
\* The replay loop

\* What the loop knows of a registrar and kind has not been overtaken by calls.
LoopInv ==
  Running =>
    /\ loop.pc = "request" =>
         /\ loop.r \in watched[loop.k] \/ (call[loop.r].pc = "mark" /\ call[loop.r].k = loop.k)
         /\ inProgress[<<loop.r, loop.k>>] = NoReplay
         /\ <<loop.r, loop.k>> \in wantReplay \/ (call[loop.r].pc = "cancel" /\ call[loop.r].k = loop.k)
    /\ \A r \in Registrars :
         /\ call[r].pc = "drop" =>
              /\ loop.pc # "request"
              /\ \/ inProgress[<<r, call[r].k>>] = NoReplay
                 \/ loop.pc = "cancel" /\ loop.r = r /\ loop.k = call[r].k
         /\ call[r].pc = "request" => <<r, call[r].k>> \in wantReplay
    /\ \A r \in Registrars, k \in Kinds : inProgress[<<r, k>>] # NoReplay =>
         \/ r \in watched[k]
         \/ call[r].pc = "mark" /\ call[r].k = k
         \/ loop.pc = "cancel" /\ loop.r = r /\ loop.k = k

\* The replays that the loop remembers.
ReplayInv ==
  /\ \A g \in Replays : replay[g].pc = "none" => replay[g] = NoGoroutine
  /\ \A r \in Registrars, k \in Kinds, g \in Replays :
       inProgress[<<r, k>>] = g /\ replay[g].pc # "none" => replay[g].r = r /\ replay[g].k = k

-------------------------------------------------------------------------------
\* Informers

\* The kind is watched, or its last watcher waits for the replays to end.
InUse(k) == watched[k] # {} \/ \E r \in Registrars : call[r].pc = "wait" /\ call[r].k = k

\* The informer of a kind runs for its watchers or because somebody read it.
Needed(k) ==
  /\ watched[k] # {} => informer[k].on /\ informer[k].handler
  /\ informer[k].reader => informer[k].on
  /\ Running => /\ informer[k].on => InUse(k) \/ informer[k].reader
                /\ informer[k].handler => InUse(k)

InformerInv ==
  /\ \A k \in Kinds : Needed(k)
  /\ Running => \A g \in Replays : replay[g].pc # "none" => InUse(replay[g].k)

\* An informer may change what it holds.
SameButCache(k) ==
  /\ informer'[k].on = informer[k].on
  /\ informer'[k].handler = informer[k].handler
  /\ informer'[k].reader = informer[k].reader

-------------------------------------------------------------------------------
\* Changes on their way

ByEvent(o, r) == events[o] > 0 \/ (dist.o = o /\ (dist.pc = "read" \/ r \in dist.todo))

\* A replay that is not cancelled, nor about to be.
Live(g) ==
  /\ replay[g].pc # "none" /\ ~replay[g].canceled
  /\ ~(loop.pc = "cancel" /\ loop.r = replay[g].r /\ loop.k = replay[g].k)

Brings(g, o, r) ==
  /\ Live(g) /\ replay[g].r = r /\ replay[g].k = KindOf[o]
  /\ replay[g].pc = "list" \/ o \in replay[g].todo

ByReplay(o, r) ==
  LET k == KindOf[o] IN
  \/ call[r].pc = "request" /\ call[r].k = k
  \/ loop.pc = "request" /\ loop.r = r /\ loop.k = k
  \/ \E g \in Replays : Brings(g, o, r)

\* Changes are owed to watchers only, and those of objects that are gone come as
\* events: a replay would not show them.
OwedInv ==
  \A r \in Registrars : \A o \in owed[r] :
    /\ r \in Concerned(KindOf[o])
    /\ Running /\ o \notin informer[KindOf[o]].cache => ByEvent(o, r)

LiveInv ==
  Running =>
    \A r \in Registrars : \A o \in owed[r] :
      KindOf[o] \in intent[r] => ByEvent(o, r) \/ ByReplay(o, r) \/ <<r, KindOf[o]>> \in gaveUp

\* What the cache holds is of its kind.
CacheInv == \A k \in Kinds : \A o \in informer[k].cache : KindOf[o] = k

\* The inductive invariant.
IInv ==
  /\ TypeInv /\ Working
  /\ LockInv /\ CallInv /\ WatchedInv
  /\ LoopInv /\ ReplayInv /\ InformerInv
  /\ CacheInv /\ OwedInv /\ LiveInv

-------------------------------------------------------------------------------
\* What the steps of a call do to the calls

\* Only r's call moves, to pc, with these sets and this kind.
Moves(r, pc, rem, add, k) ==
  /\ \A q \in Registrars : q # r => call'[q] = call[q]
  /\ call'[r].pc = pc /\ call'[r].remove = rem /\ call'[r].add = add /\ call'[r].k = k
  /\ pc # "idle" => call'[r].verb = call[r].verb
  /\ call' \in [Registrars -> CallType]

\* A call that is replaced by a call.
LEMMA SetMoves ==
  ASSUME TypeInv, NEW r \in Registrars, NEW c \in CallType, call' = [call EXCEPT ![r] = c],
         c.pc # "idle" => c.verb = call[r].verb
  PROVE  Moves(r, c.pc, c.remove, c.add, c.k)
<1>1. call' \in [Registrars -> CallType] /\ call'[r] = c /\ \A q \in Registrars : q # r => call'[q] = call[q]
  BY DEF TypeInv
<1> QED
  BY <1>1 DEF Moves

LEMMA GotoMoves ==
  ASSUME TypeInv, NEW r \in Registrars,
         NEW pc \in {"work", "request", "mark", "cancel", "drop", "wait"}, call' = Goto(r, pc)
  PROVE  Moves(r, pc, call[r].remove, call[r].add, call[r].k)
<1> DEFINE c == [call[r] EXCEPT !.pc = pc]
<1>1. /\ c \in CallType /\ c.pc = pc /\ c.remove = call[r].remove /\ c.add = call[r].add
      /\ c.k = call[r].k /\ c.verb = call[r].verb
  BY DEF TypeInv, CallType
<1>2. call' = [call EXCEPT ![r] = c]
  BY DEF Goto
<1> HIDE DEF c
<1> QED
  BY <1>1, <1>2, SetMoves

LEMMA GotoKindMoves ==
  ASSUME TypeInv, NEW r \in Registrars, NEW k \in Kinds,
         NEW pc \in {"work", "request", "mark", "cancel", "drop", "wait"},
         call' = [Goto(r, pc) EXCEPT ![r].k = k]
  PROVE  Moves(r, pc, call[r].remove, call[r].add, k)
<1> DEFINE c == [call[r] EXCEPT !.pc = pc, !.k = k]
<1>1. /\ c \in CallType /\ c.pc = pc /\ c.remove = call[r].remove /\ c.add = call[r].add
      /\ c.k = k /\ c.verb = call[r].verb
  BY DEF TypeInv, CallType
<1>2. call' = [call EXCEPT ![r] = c]
  BY DEF Goto, TypeInv
<1> HIDE DEF c
<1> QED
  BY <1>1, <1>2, SetMoves

LEMMA AddedMoves ==
  ASSUME TypeInv, NEW r \in Registrars, NEW k, call' = Added(r, k)
  PROVE  Moves(r, "work", call[r].remove, call[r].add \ {k}, call[r].k)
<1> DEFINE c == [call[r] EXCEPT !.pc = "work", !.add = @ \ {k}]
<1>1. /\ c \in CallType /\ c.pc = "work" /\ c.remove = call[r].remove /\ c.add = call[r].add \ {k}
      /\ c.k = call[r].k /\ c.verb = call[r].verb
  BY DEF TypeInv, CallType
<1>2. call' = [call EXCEPT ![r] = c]
  BY DEF Added, TypeInv
<1> HIDE DEF c
<1> QED
  BY <1>1, <1>2, SetMoves

LEMMA RemovedMoves ==
  ASSUME TypeInv, NEW r \in Registrars, NEW k, call' = Removed(r, k)
  PROVE  Moves(r, "work", call[r].remove \ {k}, call[r].add, call[r].k)
<1> DEFINE c == [call[r] EXCEPT !.pc = "work", !.remove = @ \ {k}]
<1>1. /\ c \in CallType /\ c.pc = "work" /\ c.remove = call[r].remove \ {k} /\ c.add = call[r].add
      /\ c.k = call[r].k /\ c.verb = call[r].verb
  BY DEF TypeInv, CallType
<1>2. call' = [call EXCEPT ![r] = c]
  BY DEF Removed, TypeInv
<1> HIDE DEF c
<1> QED
  BY <1>1, <1>2, SetMoves

LEMMA AcquireMoves ==
  ASSUME TypeInv, NEW r \in Registrars, Acquire(r)
  PROVE  LET open == call[r].verb \in {"replace", "unregister"} IN
         Moves(r, "work", IF open THEN Kinds \ intent[r] ELSE call[r].remove,
                          IF open THEN intent[r] ELSE call[r].add, call[r].k)
<1> DEFINE open == call[r].verb \in {"replace", "unregister"}
           rem == IF open THEN Kinds \ intent[r] ELSE call[r].remove
           add == IF open THEN intent[r] ELSE call[r].add
           c == [call[r] EXCEPT !.pc = "work", !.remove = rem, !.add = add]
<1>1. rem \in SUBSET Kinds /\ add \in SUBSET Kinds
  BY DEF TypeInv, CallType
<1>2. call' = [call EXCEPT ![r] = c]
  <2>1. call' = [Goto(r, "work") EXCEPT ![r].remove = rem, ![r].add = add]
    BY DEF Acquire, Goto, TypeInv, CallType
  <2> HIDE DEF rem, add
  <2> QED
    BY <2>1 DEF Goto, TypeInv
<1> HIDE DEF rem, add
<1>3. /\ c \in CallType /\ c.pc = "work" /\ c.remove = rem /\ c.add = add
      /\ c.k = call[r].k /\ c.verb = call[r].verb
  <2>1. call[r] \in CallType
    BY DEF TypeInv
  <2> HIDE DEF open
  <2>2. c \in CallType
    BY <1>1, <2>1 DEF CallType
  <2>3. c.pc = "work" /\ c.remove = rem /\ c.add = add /\ c.k = call[r].k /\ c.verb = call[r].verb
    BY <2>1 DEF CallType
  <2> QED
    BY <2>2, <2>3
<1> HIDE DEF c
<1>4. Moves(r, "work", rem, add, call[r].k)
  BY <1>2, <1>3, SetMoves
<1> QED
  BY <1>4 DEF rem, add

LEMMA NoCallType == NoCall \in CallType
BY DEF NoCall, CallType

LEMMA ReleaseMoves ==
  ASSUME TypeInv, NEW r \in Registrars, Release(r)
  PROVE  Moves(r, "idle", {}, {}, "")
<1>1. NoCall.pc = "idle" /\ NoCall.remove = {} /\ NoCall.add = {} /\ NoCall.k = ""
  BY DEF NoCall
<1>2. call' = [call EXCEPT ![r] = NoCall]
  BY DEF Release
<1> QED
  BY <1>1, <1>2, NoCallType, SetMoves

\* The first step of a call.
Began(r, verb, wants, rem, add) ==
  /\ \A q \in Registrars : q # r => call'[q] = call[q] /\ intent'[q] = intent[q]
  /\ call[r].pc = "idle" /\ call'[r].pc = "lock" /\ call'[r].verb = verb
  /\ call'[r].remove = rem /\ call'[r].add = add
  /\ call' \in [Registrars -> CallType]
  /\ intent'[r] = wants /\ intent' \in [Registrars -> SUBSET Kinds]
  /\ UNCHANGED <<watched, lock, phase, informer, changes, events, dist,
                 owed, wantReplay, loop, inProgress, replay, gaveUp>>

LEMMA BeginStep ==
  ASSUME TypeInv, NEW r \in Registrars, NEW verb \in {"add", "remove", "replace", "unregister"},
         NEW wants \in SUBSET Kinds, NEW rem \in SUBSET Kinds, NEW add \in SUBSET Kinds,
         Begin(r, verb, wants, rem, add)
  PROVE  Began(r, verb, wants, rem, add)
<1> DEFINE c == [NoCall EXCEPT !.pc = "lock", !.verb = verb, !.remove = rem, !.add = add]
<1>1. c \in CallType /\ c.pc = "lock" /\ c.verb = verb /\ c.remove = rem /\ c.add = add
  BY NoCallType DEF CallType, NoCall
<1>2. call' = [call EXCEPT ![r] = c]
  BY DEF Begin
<1> HIDE DEF c
<1>3. /\ \A q \in Registrars : q # r => call'[q] = call[q]
      /\ call'[r].pc = "lock" /\ call'[r].verb = verb
      /\ call'[r].remove = rem /\ call'[r].add = add
      /\ call' \in [Registrars -> CallType]
  BY <1>1, <1>2 DEF TypeInv
<1>4. call[r].pc = "idle"
  <2>1. call[r] = NoCall /\ NoCall.pc = "idle"
    BY DEF Begin, NoCall
  <2> QED
    BY <2>1
<1>5. /\ intent'[r] = wants /\ intent' \in [Registrars -> SUBSET Kinds]
      /\ \A q \in Registrars : q # r => intent'[q] = intent[q]
      /\ UNCHANGED <<watched, lock, phase, informer, changes, events, dist,
                     owed, wantReplay, loop, inProgress, replay, gaveUp>>
  BY DEF Begin, TypeInv, informing, replaying
<1> QED
  BY <1>3, <1>4, <1>5 DEF Began

\* What a call begins with.
Begins(r, verb, wants, rem, add) ==
  /\ Began(r, verb, wants, rem, add)
  /\ add \subseteq wants /\ rem \cap wants = {}
  /\ verb \in {"add", "remove"} =>
       intent[r] \subseteq wants \cup rem /\ wants \subseteq intent[r] \cup add

LEMMA InvokeCases ==
  ASSUME TypeInv, NEW r \in Registrars, Invoke(r)
  PROVE  \/ NewRegistrar(r)
         \/ \E verb \in {"add", "remove", "replace", "unregister"},
               wants \in SUBSET Kinds, rem \in SUBSET Kinds, add \in SUBSET Kinds :
              Begins(r, verb, wants, rem, add)
<1>0. intent[r] \in SUBSET Kinds /\ {} \in SUBSET Kinds
  BY DEF TypeInv
<1>1. ASSUME NEW k \in Kinds, AddWatch(r, k)
      PROVE  /\ Begins(r, "add", intent[r] \cup {k}, {}, {k})
             /\ intent[r] \cup {k} \in SUBSET Kinds /\ {k} \in SUBSET Kinds
  BY <1>0, <1>1, BeginStep DEF AddWatch, Begins
<1>2. ASSUME NEW k \in Kinds, RemoveWatch(r, k)
      PROVE  /\ Begins(r, "remove", intent[r] \ {k}, {k}, {})
             /\ intent[r] \ {k} \in SUBSET Kinds /\ {k} \in SUBSET Kinds
  BY <1>0, <1>2, BeginStep DEF RemoveWatch, Begins
<1>3. ASSUME NEW ks \in SUBSET Kinds, ReplaceWatch(r, ks)
      PROVE  Begins(r, "replace", ks, {}, {})
  BY <1>0, <1>3, BeginStep DEF ReplaceWatch, Begins
<1>4. ASSUME RemoveRegistrar(r)
      PROVE  Begins(r, "unregister", {}, {}, {})
  BY <1>0, <1>4, BeginStep DEF RemoveRegistrar, Begins
<1> QED
  BY <1>0, <1>1, <1>2, <1>3, <1>4, Zenon DEF Invoke

-------------------------------------------------------------------------------
\* Type correctness

TypeOK == TypeInv /\ Working

\* A call that moves, and what else of the types may change with it.
LEMMA MovesType ==
  ASSUME TypeOK, NEW r \in Registrars, NEW pc, NEW rem, NEW add, NEW k, Moves(r, pc, rem, add, k),
         pc \in {"idle", "lock", "work"} \/ k \in Kinds,
         UNCHANGED <<intent, dist, phase, inProgress, replay>>,
         watched' \in [Kinds -> SUBSET Registrars],
         lock' \in Registrars \cup {NoRegistrar}, loop' \in LoopType,
         loop'.pc \in {"request", "cancel"} => loop'.r \in Registrars /\ loop'.k \in Kinds,
         events' \in [Objects -> Nat], informer' \in [Kinds -> InformerType],
         owed' \in [Registrars -> SUBSET Objects]
  PROVE  TypeOK'
<1>1. TypeInv'
  BY DEF TypeOK, TypeInv, Moves
<1>2. Working'
  BY DEF TypeOK, Working, Moves
<1> QED
  BY <1>1, <1>2 DEF TypeOK

\* Each step of a call.
LEMMA CallTypes ==
  ASSUME TypeOK, NEW r \in Registrars, Invoke(r) \/ Acquire(r) \/ Work(r)
  PROVE  TypeOK'
<1> USE DEF records, calling, informing, replaying
<1>0. /\ TypeInv /\ Working
      /\ intent \in [Registrars -> SUBSET Kinds] /\ watched \in [Kinds -> SUBSET Registrars]
      /\ lock \in Registrars \cup {NoRegistrar} /\ loop \in LoopType
      /\ events \in [Objects -> Nat] /\ informer \in [Kinds -> InformerType]
      /\ owed \in [Registrars -> SUBSET Objects]
      /\ loop.pc \in {"request", "cancel"} => loop.r \in Registrars /\ loop.k \in Kinds
  BY DEF TypeOK, TypeInv, Working
<1>1. CASE NewRegistrar(r)
  BY <1>1 DEF NewRegistrar, TypeOK, TypeInv, Working
<1>2. ASSUME NEW verb, NEW wants, NEW rem, NEW add, Begins(r, verb, wants, rem, add)
      PROVE  TypeOK'
  BY <1>2 DEF Begins, Began, TypeOK, TypeInv, Working
<1>3. CASE Acquire(r)
  <2>1. PICK rem, add : Moves(r, "work", rem, add, call[r].k)
    BY <1>0, <1>3, AcquireMoves
  <2> QED
    BY <1>0, <1>3, <2>1, MovesType DEF Acquire
<1>4. CASE Release(r)
  BY <1>0, <1>4, ReleaseMoves, MovesType DEF Release
<1>5. ASSUME NEW k \in Kinds, AddSkip(r, k) PROVE TypeOK'
  <2>1. Moves(r, "work", call[r].remove, call[r].add \ {k}, call[r].k)
    BY <1>0, <1>5, AddedMoves DEF AddSkip
  <2> QED
    BY <1>0, <1>5, <2>1, MovesType DEF AddSkip
<1>6. ASSUME NEW k \in Kinds, AddFirst(r, k) PROVE TypeOK'
  <2>1. Moves(r, "work", call[r].remove, call[r].add \ {k}, call[r].k)
    BY <1>0, <1>6, AddedMoves DEF AddFirst
  <2>2. informer' \in [Kinds -> InformerType]
    <3>1. informer' = [informer EXCEPT ![k].on = TRUE, ![k].handler = TRUE, ![k].reader = FALSE]
      BY <1>6 DEF AddFirst
    <3>2. informer' = [informer EXCEPT ![k] =
                         [informer[k] EXCEPT !.on = TRUE, !.handler = TRUE, !.reader = FALSE]]
      BY <1>0, <3>1
    <3>3. [informer[k] EXCEPT !.on = TRUE, !.handler = TRUE, !.reader = FALSE] \in InformerType
      BY <1>0 DEF InformerType
    <3> QED
      BY <1>0, <3>2, <3>3
  <2>3. events' \in [Objects -> Nat]
    BY <1>0, <1>6 DEF AddFirst
  <2>4. owed' \in [Registrars -> SUBSET Objects] /\ watched' \in [Kinds -> SUBSET Registrars]
    BY <1>0, <1>6 DEF AddFirst, InformerType
  <2> QED
    BY <1>0, <1>6, <2>1, <2>2, <2>3, <2>4, MovesType DEF AddFirst
<1>7. ASSUME NEW k \in Kinds, AddJoin(r, k) PROVE TypeOK'
  <2>1. Moves(r, "request", call[r].remove, call[r].add, k)
    BY <1>0, <1>7, GotoKindMoves DEF AddJoin
  <2>2. owed' \in [Registrars -> SUBSET Objects]
    BY <1>0, <1>7 DEF AddJoin, InformerType
  <2> QED
    BY <1>0, <1>7, <2>1, <2>2, MovesType DEF AddJoin
<1>8. CASE MarkWatched(r)
  <2>1. Moves(r, "work", call[r].remove, call[r].add \ {call[r].k}, call[r].k)
    BY <1>0, <1>8, AddedMoves DEF MarkWatched
  <2>2. watched' \in [Kinds -> SUBSET Registrars]
    BY <1>0, <1>8 DEF MarkWatched
  <2> QED
    BY <1>0, <1>8, <2>1, <2>2, MovesType DEF MarkWatched
<1>9. ASSUME NEW k \in Kinds, RemoveSkip(r, k) PROVE TypeOK'
  <2>1. Moves(r, "work", call[r].remove \ {k}, call[r].add, call[r].k)
    BY <1>0, <1>9, RemovedMoves DEF RemoveSkip
  <2> QED
    BY <1>0, <1>9, <2>1, MovesType DEF RemoveSkip
<1>10. ASSUME NEW k \in Kinds, RemoveStart(r, k) PROVE TypeOK'
  <2>1. Moves(r, "cancel", call[r].remove, call[r].add, k)
    BY <1>0, <1>10, GotoKindMoves DEF RemoveStart
  <2> QED
    BY <1>0, <1>10, <2>1, MovesType DEF RemoveStart
<1>11. CASE RemoveDrop(r)
  <2>0. call[r].k \in Kinds
    BY <1>0, <1>11 DEF RemoveDrop, Working
  <2>1. \/ Moves(r, "wait", call[r].remove, call[r].add, call[r].k)
        \/ Moves(r, "work", call[r].remove \ {call[r].k}, call[r].add, call[r].k)
    BY <1>0, <1>11, RemovedMoves, GotoMoves DEF RemoveDrop
  <2>2. watched' \in [Kinds -> SUBSET Registrars] /\ owed' \in [Registrars -> SUBSET Objects]
    BY <1>0, <1>11 DEF RemoveDrop
  <2> QED
    BY <1>0, <1>11, <2>0, <2>1, <2>2, MovesType DEF RemoveDrop
<1>12. CASE RemoveInformer(r)
  <2>1. Moves(r, "work", call[r].remove \ {call[r].k}, call[r].add, call[r].k)
    BY <1>0, <1>12, RemovedMoves DEF RemoveInformer
  <2>2. informer' \in [Kinds -> InformerType]
    BY <1>0, <1>12 DEF RemoveInformer, InformerType
  <2> QED
    BY <1>0, <1>12, <2>1, <2>2, MovesType DEF RemoveInformer
<1>13. CASE SendRequest(r) \/ SendStopped(r)
  <2>0. call[r].k \in Kinds /\ call[r].pc \in {"request", "cancel"}
    BY <1>0, <1>13 DEF SendRequest, SendStopped, Working
  <2>1. \E pc \in {"mark", "drop"} : Moves(r, pc, call[r].remove, call[r].add, call[r].k)
    BY <1>0, <1>13, GotoMoves DEF SendRequest, SendStopped
  <2>2. loop' \in LoopType /\ (loop'.pc \in {"request", "cancel"} => loop'.r \in Registrars /\ loop'.k \in Kinds)
    <3>1. CASE SendRequest(r)
      <4>1. loop' = [pc |-> call[r].pc, r |-> r, k |-> call[r].k]
        BY <3>1 DEF SendRequest
      <4> QED
        BY <2>0, <4>1 DEF LoopType
    <3>2. CASE SendStopped(r)
      BY <1>0, <3>2 DEF SendStopped
    <3> QED
      BY <1>13, <3>1, <3>2
  <2> QED
    BY <1>0, <1>13, <2>0, <2>1, <2>2, MovesType DEF SendRequest, SendStopped
<1> QED
  BY <1>0, <1>1, <1>2, <1>3, <1>4, <1>5, <1>6, <1>7, <1>8, <1>9, <1>10, <1>11, <1>12, <1>13,
     InvokeCases DEF Work

\* The steps of the loops, the replays and the informers, which leave calls alone.
Background ==
  \/ LoopStep
  \/ \E g \in Replays : ReplayList(g) \/ ReplayListFails(g) \/ ReplayDone(g)
  \/ \E g \in Replays, o \in Objects : ReplaySend(g, o)
  \/ \E o \in Objects, there \in BOOLEAN : CacheChange(o, there)
  \/ \E k \in Kinds : ReaderGet(k)
  \/ EventStep \/ Start \/ Stop

LEMMA StepCases ==
  ASSUME [Next]_vars
  PROVE  \/ \E r \in Registrars : Invoke(r) \/ Acquire(r) \/ Work(r)
         \/ Background
         \/ UNCHANGED vars
BY DEF Next, Background

LEMMA BackgroundKeeps ==
  ASSUME Background
  PROVE  UNCHANGED <<intent, watched, lock, call, wantReplay>>
BY DEF Background, LoopStep, EventStep, LoopCancel, LoopIgnore, LoopStart, LoopExit, ReplayList,
   ReplayListFails, ReplaySend, ReplayDone, CacheChange, EventTake, EventRead, EventSend, EventDone,
   ReaderGet, Start, Stop, records, calling, informing, replaying

\* A replay that is replaced by one of its type.
LEMMA SetReplay ==
  ASSUME TypeOK, NEW g \in Replays, NEW x \in ReplayType,
         x.pc # "none" => x.r \in Registrars /\ x.k \in Kinds,
         replay' = [replay EXCEPT ![g] = x]
  PROVE  /\ replay' \in [Replays -> ReplayType]
         /\ \A h \in Replays : replay'[h].pc # "none" => replay'[h].r \in Registrars /\ replay'[h].k \in Kinds
         /\ replay'[g] = x /\ \A h \in Replays : h # g => replay'[h] = replay[h]
BY DEF TypeOK, TypeInv, Working

LEMMA NoGoroutineType == NoGoroutine \in ReplayType /\ NoGoroutine.pc = "none"
BY DEF NoGoroutine, ReplayType

LEMMA IdleType == Idle \in LoopType /\ Idle.pc = "idle"
BY DEF Idle, LoopType

LEMMA NoEventType == NoEvent \in DistType /\ NoEvent.pc = "idle" /\ NoEvent.todo = {}
BY DEF NoEvent, DistType

LEMMA LoopTypes ==
  ASSUME TypeOK, LoopStep \/ \E g \in Replays : ReplayListFails(g) \/ ReplayDone(g)
  PROVE  TypeOK'
<1> USE DEF records, calling, informing, replaying
<1>t. /\ TypeInv /\ Working /\ loop \in LoopType
      /\ inProgress \in [Registrars \X Kinds -> Replays \cup {NoReplay}]
      /\ replay \in [Replays -> ReplayType]
      /\ loop.pc \in {"request", "cancel"} => loop.r \in Registrars /\ loop.k \in Kinds
  BY DEF TypeOK, TypeInv, Working
<1>k. UNCHANGED <<intent, watched, lock, call, wantReplay>>
  BY BackgroundKeeps DEF Background
<1>u. UNCHANGED <<phase, informer, events, dist, owed>>
  BY DEF LoopStep, LoopCancel, LoopIgnore, LoopStart, LoopExit, ReplayListFails, ReplayDone
<1>1. ASSUME loop' \in LoopType, loop'.pc \in {"request", "cancel"} => loop'.r \in Registrars /\ loop'.k \in Kinds,
             inProgress' \in [Registrars \X Kinds -> Replays \cup {NoReplay}],
             replay' \in [Replays -> ReplayType],
             \A h \in Replays : replay'[h].pc # "none" => replay'[h].r \in Registrars /\ replay'[h].k \in Kinds
      PROVE  TypeOK'
  BY <1>k, <1>u, <1>1 DEF TypeOK, TypeInv, Working
<1>2. CASE LoopCancel
  <2> DEFINE g == inProgress[<<loop.r, loop.k>>]
  <2>1. /\ loop' = Idle /\ inProgress' = [inProgress EXCEPT ![<<loop.r, loop.k>>] = NoReplay]
        /\ loop.r \in Registrars /\ loop.k \in Kinds
        /\ g # NoReplay /\ (replay' = replay \/ replay' = [replay EXCEPT ![g].canceled = TRUE])
    BY <1>t, <1>2 DEF LoopCancel
  <2>2. g \in Replays
    BY <1>t, <2>1
  <2> HIDE DEF g
  <2>3. inProgress' \in [Registrars \X Kinds -> Replays \cup {NoReplay}]
    BY <1>t, <2>1
  <2>4. /\ replay' \in [Replays -> ReplayType]
        /\ \A h \in Replays : replay'[h].pc # "none" => replay'[h].r \in Registrars /\ replay'[h].k \in Kinds
    <3> DEFINE x == [replay[g] EXCEPT !.canceled = TRUE]
    <3>1. x \in ReplayType /\ (x.pc # "none" => x.r \in Registrars /\ x.k \in Kinds)
      BY <1>t, <2>2 DEF ReplayType, Working
    <3>2. replay' = replay \/ replay' = [replay EXCEPT ![g] = x]
      BY <2>1
    <3> HIDE DEF x
    <3> QED
      BY <1>t, <2>2, <3>1, <3>2, SetReplay DEF Working
  <2> QED
    BY <1>1, <2>1, <2>3, <2>4, IdleType
<1>3. CASE LoopIgnore
  BY <1>t, <1>1, <1>3, IdleType DEF LoopIgnore, Working
<1>4. ASSUME NEW g \in Replays, LoopStart(g) PROVE TypeOK'
  <2> DEFINE x == [NoGoroutine EXCEPT !.pc = "list", !.r = loop.r, !.k = loop.k, !.attempts = Attempts]
  <2>1. /\ loop' = Idle /\ inProgress' = [inProgress EXCEPT ![<<loop.r, loop.k>>] = g]
        /\ loop.r \in Registrars /\ loop.k \in Kinds /\ replay' = [replay EXCEPT ![g] = x]
    BY <1>t, <1>4 DEF LoopStart
  <2>2. x \in ReplayType /\ x.r \in Registrars /\ x.k \in Kinds
    BY <2>1, WatchAssumption DEF NoGoroutine, ReplayType
  <2> HIDE DEF x
  <2>3. inProgress' \in [Registrars \X Kinds -> Replays \cup {NoReplay}]
    BY <1>t, <2>1
  <2> QED
    BY <1>1, <2>1, <2>2, <2>3, IdleType, SetReplay
<1>5. CASE LoopExit
  <2>1. loop' \in LoopType /\ loop'.pc = "exit"
    BY <1>5 DEF LoopExit, Idle, LoopType
  <2> QED
    BY <1>t, <1>1, <1>5, <2>1 DEF LoopExit, Working
<1>6. ASSUME NEW g \in Replays, ReplayListFails(g) PROVE TypeOK'
  <2> DEFINE x == [replay[g] EXCEPT !.attempts = @ - 1]
  <2>0. UNCHANGED <<loop, inProgress>> /\ replay[g].pc = "list"
    BY <1>6 DEF ReplayListFails
  <2>1. CASE replay[g].attempts > 1
    <3>1. replay[g].attempts \in Nat
      BY <1>t DEF ReplayType
    <3>2. replay[g].attempts - 1 \in Nat
      BY <2>1, <3>1
    <3>3. x \in ReplayType /\ x.r \in Registrars /\ x.k \in Kinds
      BY <1>t, <2>0, <3>2 DEF ReplayType, Working
    <3>4. replay' = [replay EXCEPT ![g] = x]
      BY <1>6, <2>1 DEF ReplayListFails
    <3> HIDE DEF x
    <3> QED
      BY <1>t, <1>1, <2>0, <3>3, <3>4, SetReplay
  <2>2. CASE ~(replay[g].attempts > 1)
    <3>1. replay' = [replay EXCEPT ![g] = NoGoroutine]
      BY <1>6, <2>2 DEF ReplayListFails
    <3> QED
      BY <1>t, <1>1, <2>0, <3>1, NoGoroutineType, SetReplay
  <2> QED
    BY <2>1, <2>2
<1>7. ASSUME NEW g \in Replays, ReplayDone(g) PROVE TypeOK'
  BY <1>t, <1>1, <1>7, NoGoroutineType, SetReplay DEF ReplayDone
<1> QED
  BY <1>2, <1>3, <1>4, <1>5, <1>6, <1>7 DEF LoopStep

LEMMA BackgroundTypes ==
  ASSUME TypeOK, Background
  PROVE  TypeOK'
<1> USE DEF records, calling, informing, replaying
<1>0. /\ TypeInv /\ Working
      /\ informer \in [Kinds -> InformerType]
      /\ events \in [Objects -> Nat] /\ dist \in DistType
      /\ replay \in [Replays -> ReplayType]
      /\ owed \in [Registrars -> SUBSET Objects] /\ watched \in [Kinds -> SUBSET Registrars]
      /\ dist.pc # "idle" => dist.o \in Objects
  BY DEF TypeOK, TypeInv, Working
<1>k. UNCHANGED <<intent, watched, lock, call, wantReplay>>
  BY BackgroundKeeps
<1>1. ASSUME NEW g \in Replays, ReplayList(g) PROVE TypeOK'
  <2> DEFINE x == [replay[g] EXCEPT !.pc = "send", !.todo = informer[replay[g].k].cache]
  <2>1. replay[g].pc = "list" /\ replay[g].r \in Registrars /\ replay[g].k \in Kinds
    BY <1>0, <1>1 DEF ReplayList, Working
  <2>2. x \in ReplayType /\ x.r \in Registrars /\ x.k \in Kinds
    BY <1>0, <2>1 DEF ReplayType, InformerType
  <2>3. replay' = [replay EXCEPT ![g] = x]
    BY <1>0, <1>1 DEF ReplayList
  <2>4. informer' \in [Kinds -> InformerType]
    BY <1>0, <1>1, <2>1 DEF ReplayList, InformerType
  <2> HIDE DEF x
  <2>5. UNCHANGED <<phase, events, dist, loop, inProgress, owed>>
    BY <1>1 DEF ReplayList
  <2>6. /\ replay' \in [Replays -> ReplayType]
        /\ \A h \in Replays : replay'[h].pc # "none" => replay'[h].r \in Registrars /\ replay'[h].k \in Kinds
    BY <2>2, <2>3, SetReplay
  <2> QED
    BY <1>k, <2>4, <2>5, <2>6 DEF TypeOK, TypeInv, Working
<1>2. ASSUME NEW g \in Replays, NEW o \in Objects, ReplaySend(g, o) PROVE TypeOK'
  <2> DEFINE x == [replay[g] EXCEPT !.todo = @ \ {o}]
  <2>1. replay[g].pc = "send" /\ replay[g].r \in Registrars /\ replay[g].k \in Kinds
    BY <1>0, <1>2 DEF ReplaySend, Working
  <2>2. x \in ReplayType /\ x.r \in Registrars /\ x.k \in Kinds
    BY <1>0, <2>1 DEF ReplayType
  <2>3. replay' = [replay EXCEPT ![g] = x]
    BY <1>0, <1>2 DEF ReplaySend
  <2>4. owed' \in [Registrars -> SUBSET Objects]
    BY <1>0, <1>2, <2>1 DEF ReplaySend
  <2> HIDE DEF x
  <2>5. UNCHANGED <<phase, events, dist, loop, inProgress, informer>>
    BY <1>2 DEF ReplaySend
  <2>6. /\ replay' \in [Replays -> ReplayType]
        /\ \A h \in Replays : replay'[h].pc # "none" => replay'[h].r \in Registrars /\ replay'[h].k \in Kinds
    BY <2>2, <2>3, SetReplay
  <2> QED
    BY <1>k, <2>4, <2>5, <2>6 DEF TypeOK, TypeInv, Working
<1>3. ASSUME UNCHANGED <<phase, loop, inProgress, replay>>, dist' \in DistType,
             dist'.pc # "idle" => dist'.o \in Objects,
             informer' \in [Kinds -> InformerType], events' \in [Objects -> Nat],
             owed' \in [Registrars -> SUBSET Objects]
      PROVE  TypeOK'
  BY <1>k, <1>3 DEF TypeOK, TypeInv, Working
<1>4. ASSUME NEW o \in Objects, NEW there \in BOOLEAN, CacheChange(o, there) PROVE TypeOK'
  <2>1. UNCHANGED <<phase, loop, inProgress, replay, dist>>
    BY <1>4 DEF CacheChange
  <2>2. informer' \in [Kinds -> InformerType]
    BY <1>0, <1>4, WatchAssumption DEF CacheChange, InformerType
  <2>3. events' \in [Objects -> Nat]
    BY <1>0, <1>4 DEF CacheChange
  <2>4. owed' \in [Registrars -> SUBSET Objects]
    BY <1>0, <1>4 DEF CacheChange
  <2> QED
    BY <1>0, <1>3, <2>1, <2>2, <2>3, <2>4
<1>5. ASSUME NEW o \in Objects, EventTake(o) PROVE TypeOK'
  <2>1. events[o] \in Nat /\ events[o] > 0
    BY <1>0, <1>5 DEF EventTake
  <2>2. events[o] - 1 \in Nat
    BY <2>1
  <2>3. events' \in [Objects -> Nat]
    BY <1>0, <1>5, <2>2 DEF EventTake
  <2>4. dist' \in DistType /\ dist'.o \in Objects
    BY <1>5 DEF EventTake, DistType
  <2> QED
    BY <1>0, <1>3, <1>5, <2>3, <2>4 DEF EventTake
<1>6. CASE EventRead
  <2>1. dist.pc = "read" /\ dist.o \in Objects /\ KindOf[dist.o] \in Kinds
    BY <1>0, <1>6, WatchAssumption DEF EventRead
  <2>2. dist' \in DistType /\ dist'.o \in Objects
    BY <1>0, <1>6, <2>1 DEF EventRead, DistType
  <2> QED
    BY <1>0, <1>3, <1>6, <2>2 DEF EventRead
<1>7. ASSUME NEW r \in Registrars, EventSend(r) PROVE TypeOK'
  <2>1. dist.pc = "send" /\ dist.o \in Objects
    BY <1>0, <1>7 DEF EventSend
  <2>2. dist' \in DistType /\ dist'.o \in Objects
    BY <1>0, <1>7, <2>1 DEF EventSend, DistType
  <2>3. owed' \in [Registrars -> SUBSET Objects]
    BY <1>0, <1>7 DEF EventSend
  <2> QED
    BY <1>0, <1>3, <1>7, <2>2, <2>3 DEF EventSend
<1>8. CASE EventDone
  BY <1>0, <1>3, <1>8, NoEventType DEF EventDone
<1>9. CASE Start \/ Stop
  BY <1>k, <1>9 DEF Start, Stop, TypeOK, TypeInv, Working
<1>10. ASSUME NEW k \in Kinds, ReaderGet(k) PROVE TypeOK'
  <2>1. informer' \in [Kinds -> InformerType]
    BY <1>0, <1>10 DEF ReaderGet, InformerType
  <2> QED
    BY <1>0, <1>3, <1>10, <2>1 DEF ReaderGet
<1> QED
  BY <1>1, <1>2, <1>4, <1>5, <1>6, <1>7, <1>8, <1>9, <1>10, LoopTypes DEF Background, EventStep

LEMMA InitTypes == Init => TypeOK
<1> SUFFICES ASSUME Init PROVE TypeOK
  OBVIOUS
<1>1. TypeInv
  BY NoCallType, NoGoroutineType, IdleType, NoEventType DEF Init, TypeInv, InformerType
<1>2. Working
  BY NoGoroutineType, IdleType, NoEventType DEF Init, Working, NoCall
<1> QED
  BY <1>1, <1>2 DEF TypeOK

LEMMA TypeStep == TypeOK /\ [Next]_vars => TypeOK'
<1>1. TypeOK /\ UNCHANGED vars => TypeOK'
  BY DEF vars, TypeOK, TypeInv, Working, records, calling, informing, replaying
<1> QED
  BY <1>1, StepCases, CallTypes, BackgroundTypes

\* The state of the watch manager keeps its types.
THEOREM TypeCorrect == Spec => []TypeInv
<1>1. TypeOK => TypeInv
  BY DEF TypeOK
<1> QED
  BY <1>1, InitTypes, TypeStep, PTL DEF Spec

-------------------------------------------------------------------------------
\* Calls, one at a time under watchedMux

\* The steps of a call but its first and its last: the lock stays.
LEMMA LockKept ==
  ASSUME TypeOK, LockInv, NEW r \in Registrars, NEW pc, NEW rem, NEW add, NEW k,
         Moves(r, pc, rem, add, k), pc \notin {"idle", "lock"}, call[r].pc \notin {"idle", "lock"},
         UNCHANGED lock
  PROVE  LockInv'
BY DEF LockInv, Moves

LEMMA LockStep ==
  ASSUME TypeOK, LockInv, NEW r \in Registrars, Invoke(r) \/ Acquire(r) \/ Work(r)
  PROVE  LockInv'
<1>0. TypeInv /\ lock \in Registrars \cup {NoRegistrar}
  BY DEF TypeOK, TypeInv
<1>1. CASE NewRegistrar(r)
  BY <1>1 DEF NewRegistrar, LockInv, calling
<1>2. ASSUME NEW verb, NEW wants, NEW rem, NEW add, Begins(r, verb, wants, rem, add) PROVE LockInv'
  BY <1>2 DEF Begins, Began, LockInv
<1>3. CASE Acquire(r)
  <2>1. PICK rem, add : Moves(r, "work", rem, add, call[r].k)
    BY <1>0, <1>3, AcquireMoves
  <2> QED
    BY <1>3, <2>1, WatchAssumption DEF Acquire, Moves, LockInv
<1>4. CASE Release(r)
  <2>1. Moves(r, "idle", {}, {}, "")
    BY <1>0, <1>4, ReleaseMoves
  <2> QED
    BY <1>4, <2>1, WatchAssumption DEF Release, Moves, LockInv
<1>5. ASSUME NEW k \in Kinds, AddSkip(r, k) \/ AddFirst(r, k) PROVE LockInv'
  <2>1. Moves(r, "work", call[r].remove, call[r].add \ {k}, call[r].k)
    BY <1>0, <1>5, AddedMoves DEF AddSkip, AddFirst
  <2> QED
    BY <1>5, <2>1, LockKept DEF AddSkip, AddFirst, Adding
<1>6. ASSUME NEW k \in Kinds, AddJoin(r, k) PROVE LockInv'
  <2>1. Moves(r, "request", call[r].remove, call[r].add, k)
    BY <1>0, <1>6, GotoKindMoves DEF AddJoin
  <2> QED
    BY <1>6, <2>1, LockKept DEF AddJoin, Adding
<1>7. CASE MarkWatched(r)
  <2>1. Moves(r, "work", call[r].remove, call[r].add \ {call[r].k}, call[r].k)
    BY <1>0, <1>7, AddedMoves DEF MarkWatched
  <2> QED
    BY <1>7, <2>1, LockKept DEF MarkWatched
<1>8. ASSUME NEW k \in Kinds, RemoveSkip(r, k) PROVE LockInv'
  <2>1. Moves(r, "work", call[r].remove \ {k}, call[r].add, call[r].k)
    BY <1>0, <1>8, RemovedMoves DEF RemoveSkip
  <2> QED
    BY <1>8, <2>1, LockKept DEF RemoveSkip
<1>9. ASSUME NEW k \in Kinds, RemoveStart(r, k) PROVE LockInv'
  <2>1. Moves(r, "cancel", call[r].remove, call[r].add, k)
    BY <1>0, <1>9, GotoKindMoves DEF RemoveStart
  <2> QED
    BY <1>9, <2>1, LockKept DEF RemoveStart
<1>10. CASE RemoveDrop(r)
  <2>1. \/ Moves(r, "wait", call[r].remove, call[r].add, call[r].k)
        \/ Moves(r, "work", call[r].remove \ {call[r].k}, call[r].add, call[r].k)
    BY <1>0, <1>10, RemovedMoves, GotoMoves DEF RemoveDrop
  <2> QED
    BY <1>10, <2>1, LockKept DEF RemoveDrop
<1>11. CASE RemoveInformer(r)
  <2>1. Moves(r, "work", call[r].remove \ {call[r].k}, call[r].add, call[r].k)
    BY <1>0, <1>11, RemovedMoves DEF RemoveInformer
  <2> QED
    BY <1>11, <2>1, LockKept DEF RemoveInformer
<1>12. CASE SendRequest(r) \/ SendStopped(r)
  <2>1. \E pc \in {"mark", "drop"} : Moves(r, pc, call[r].remove, call[r].add, call[r].k)
    BY <1>0, <1>12, GotoMoves DEF SendRequest, SendStopped
  <2> QED
    BY <1>12, <2>1, LockKept DEF SendRequest, SendStopped
<1> QED
  BY <1>0, <1>1, <1>2, <1>3, <1>4, <1>5, <1>6, <1>7, <1>8, <1>9, <1>10, <1>11, <1>12, InvokeCases DEF Work

\* A call under the lock is alone.
LEMMA Alone ==
  ASSUME LockInv, NEW r \in Registrars, NEW q \in Registrars, call[r].pc \notin {"idle", "lock"}, q # r
  PROVE  call[q].pc \in {"idle", "lock"}
BY DEF LockInv

\* The part of CallInv and WatchedInv that is about one call.
CallOK(r) ==
  /\ call[r].pc # "idle" => call[r].add \subseteq intent[r] /\ call[r].remove \cap intent[r] = {}
  /\ \A k \in Kinds :
       /\ Joining(r, k) => /\ k \in call[r].add /\ call[r].remove = {}
                           /\ r \notin watched[k] /\ watched[k] # {}
       /\ Leaving(r, k) => k \in call[r].remove
  /\ call[r].pc = "wait" => watched[call[r].k] = {}
  /\ \A k \in Kinds :
       /\ r \in watched[k] => k \in intent[r] \/ k \in ToRemove(r)
       /\ k \in intent[r] \ Unregistered => r \in watched[k] \/ k \in ToAdd(r)

LEMMA CallsOK == CallInv /\ WatchedInv <=> \A r \in Registrars : CallOK(r)
BY DEF CallInv, WatchedInv, CallOK

\* A step under the lock leaves the other calls as they are.
LEMMA OthersOK ==
  ASSUME TypeOK, LockInv, NEW r \in Registrars, call[r].pc \notin {"idle", "lock"},
         NEW q \in Registrars, q # r, CallOK(q), UNCHANGED intent, call'[q] = call[q],
         \A k \in Kinds : q \in watched'[k] <=> q \in watched[k]
  PROVE  CallOK(q)'
<1>1. call[q].pc \in {"idle", "lock"}
  BY Alone
<1> QED
  BY <1>1 DEF CallOK, Joining, Leaving, ToRemove, ToAdd, Open

\* A call that does not change what is watched or intended.
LEMMA SameOK ==
  ASSUME NEW q \in Registrars, CallOK(q), UNCHANGED watched,
         intent'[q] = intent[q], call'[q] = call[q]
  PROVE  CallOK(q)'
BY DEF CallOK, Joining, Leaving, ToRemove, ToAdd, Open

\* Where each step takes its call.
LEMMA WorkMoves ==
  ASSUME TypeOK, NEW r \in Registrars
  PROVE  /\ \A k \in Kinds : AddSkip(r, k) \/ AddFirst(r, k) =>
              /\ call[r].pc = "work" /\ k \in call[r].add /\ call[r].remove = {}
              /\ Moves(r, "work", call[r].remove, call[r].add \ {k}, call[r].k)
         /\ \A k \in Kinds : AddJoin(r, k) =>
              /\ call[r].pc = "work" /\ k \in call[r].add /\ call[r].remove = {}
              /\ Moves(r, "request", call[r].remove, call[r].add, k)
         /\ MarkWatched(r) => /\ call[r].pc = "mark" /\ call[r].k \in Kinds
                              /\ Moves(r, "work", call[r].remove, call[r].add \ {call[r].k}, call[r].k)
         /\ \A k \in Kinds : RemoveSkip(r, k) =>
              call[r].pc = "work" /\ Moves(r, "work", call[r].remove \ {k}, call[r].add, call[r].k)
         /\ \A k \in Kinds : RemoveStart(r, k) =>
              call[r].pc = "work" /\ Moves(r, "cancel", call[r].remove, call[r].add, k)
         /\ RemoveDrop(r) =>
              /\ call[r].pc = "drop" /\ call[r].k \in Kinds
              /\ IF watched[call[r].k] = {r}
                 THEN Moves(r, "wait", call[r].remove, call[r].add, call[r].k)
                 ELSE Moves(r, "work", call[r].remove \ {call[r].k}, call[r].add, call[r].k)
         /\ RemoveInformer(r) =>
              /\ call[r].pc = "wait" /\ call[r].k \in Kinds
              /\ Moves(r, "work", call[r].remove \ {call[r].k}, call[r].add, call[r].k)
         /\ SendRequest(r) \/ SendStopped(r) =>
              /\ call[r].pc \in {"request", "cancel"} /\ call[r].k \in Kinds
              /\ Moves(r, IF call[r].pc = "request" THEN "mark" ELSE "drop",
                       call[r].remove, call[r].add, call[r].k)
<1>0. TypeInv /\ Working
  BY DEF TypeOK
<1>1. ASSUME NEW k \in Kinds, AddSkip(r, k) \/ AddFirst(r, k)
      PROVE  /\ call[r].pc = "work" /\ k \in call[r].add /\ call[r].remove = {}
             /\ Moves(r, "work", call[r].remove, call[r].add \ {k}, call[r].k)
  BY <1>0, <1>1, AddedMoves DEF AddSkip, AddFirst, Adding
<1>2. ASSUME NEW k \in Kinds, AddJoin(r, k)
      PROVE  /\ call[r].pc = "work" /\ k \in call[r].add /\ call[r].remove = {}
             /\ Moves(r, "request", call[r].remove, call[r].add, k)
  BY <1>0, <1>2, GotoKindMoves DEF AddJoin, Adding
<1>3. ASSUME MarkWatched(r)
      PROVE  /\ call[r].pc = "mark" /\ call[r].k \in Kinds
             /\ Moves(r, "work", call[r].remove, call[r].add \ {call[r].k}, call[r].k)
  BY <1>0, <1>3, AddedMoves DEF MarkWatched, Working
<1>4. ASSUME NEW k \in Kinds, RemoveSkip(r, k)
      PROVE  call[r].pc = "work" /\ Moves(r, "work", call[r].remove \ {k}, call[r].add, call[r].k)
  BY <1>0, <1>4, RemovedMoves DEF RemoveSkip
<1>5. ASSUME NEW k \in Kinds, RemoveStart(r, k)
      PROVE  call[r].pc = "work" /\ Moves(r, "cancel", call[r].remove, call[r].add, k)
  BY <1>0, <1>5, GotoKindMoves DEF RemoveStart
<1>6. ASSUME RemoveDrop(r)
      PROVE  /\ call[r].pc = "drop" /\ call[r].k \in Kinds
             /\ IF watched[call[r].k] = {r}
                THEN Moves(r, "wait", call[r].remove, call[r].add, call[r].k)
                ELSE Moves(r, "work", call[r].remove \ {call[r].k}, call[r].add, call[r].k)
  BY <1>0, <1>6, RemovedMoves, GotoMoves DEF RemoveDrop, Working
<1>7. ASSUME RemoveInformer(r)
      PROVE  /\ call[r].pc = "wait" /\ call[r].k \in Kinds
             /\ Moves(r, "work", call[r].remove \ {call[r].k}, call[r].add, call[r].k)
  BY <1>0, <1>7, RemovedMoves DEF RemoveInformer, Working
<1>8. ASSUME SendRequest(r) \/ SendStopped(r)
      PROVE  /\ call[r].pc \in {"request", "cancel"} /\ call[r].k \in Kinds
             /\ Moves(r, IF call[r].pc = "request" THEN "mark" ELSE "drop",
                      call[r].remove, call[r].add, call[r].k)
  <2>1. /\ call[r].pc \in {"request", "cancel"}
        /\ call' = Goto(r, IF call[r].pc = "request" THEN "mark" ELSE "drop")
    BY <1>8 DEF SendRequest, SendStopped
  <2> QED
    BY <1>0, <2>1, GotoMoves DEF Working
<1> QED
  BY <1>1, <1>2, <1>3, <1>4, <1>5, <1>6, <1>7, <1>8

\* Each step of a call keeps the part that is about it.
LEMMA OwnStep ==
  ASSUME TypeOK, LockInv, NEW r \in Registrars, CallOK(r), Invoke(r) \/ Acquire(r) \/ Work(r)
  PROVE  CallOK(r)'
<1> USE DEF CallOK, Joining, Leaving, ToRemove, ToAdd, Open
<1>0. /\ TypeInv /\ Working /\ intent \in [Registrars -> SUBSET Kinds]
      /\ watched \in [Kinds -> SUBSET Registrars]
  BY DEF TypeOK, TypeInv
<1>1. CASE NewRegistrar(r)
  BY <1>1 DEF NewRegistrar, calling
<1>2. ASSUME NEW verb \in {"add", "remove", "replace", "unregister"},
             NEW wants \in SUBSET Kinds, NEW rem \in SUBSET Kinds, NEW add \in SUBSET Kinds,
             Begins(r, verb, wants, rem, add)
      PROVE CallOK(r)'
  <2>1. /\ call[r].pc = "idle" /\ call'[r].pc = "lock" /\ call'[r].verb = verb
        /\ call'[r].remove = rem /\ call'[r].add = add /\ intent'[r] = wants
        /\ UNCHANGED watched
        /\ add \subseteq wants /\ rem \cap wants = {}
        /\ verb \in {"add", "remove"} =>
             intent[r] \subseteq wants \cup rem /\ wants \subseteq intent[r] \cup add
    BY <1>2 DEF Begins, Began
  <2>2. ASSUME NEW k \in Kinds
        PROVE  /\ r \in watched[k] => k \in intent[r]
               /\ k \in intent[r] \ Unregistered => r \in watched[k]
    BY <2>1
  <2> QED
    BY <2>1, <2>2
<1>3. CASE Acquire(r)
  <2> DEFINE open == call[r].verb \in {"replace", "unregister"}
  <2>1. /\ call[r].pc = "lock" /\ call'[r].pc = "work" /\ UNCHANGED <<intent, watched>>
        /\ call'[r].remove = (IF open THEN Kinds \ intent[r] ELSE call[r].remove)
        /\ call'[r].add = (IF open THEN intent[r] ELSE call[r].add)
    BY <1>0, <1>3, AcquireMoves DEF Acquire, Moves, records
  <2> QED
    BY <1>0, <2>1
<1>4. CASE Release(r)
  BY <1>0, <1>4, ReleaseMoves DEF Release, Moves
<1>5. ASSUME NEW k \in Kinds, AddSkip(r, k) PROVE CallOK(r)'
  BY <1>0, <1>5, WorkMoves DEF AddSkip, Moves, records
<1>6. ASSUME NEW k \in Kinds, AddFirst(r, k) PROVE CallOK(r)'
  <2>1. /\ UNCHANGED intent /\ call'[r].verb = call[r].verb /\ call[r].pc = "work"
        /\ call'[r].pc = "work" /\ call'[r].remove = {} /\ call[r].remove = {}
        /\ call'[r].add = call[r].add \ {k}
        /\ watched[k] = {} /\ watched' = [watched EXCEPT ![k] = {r}]
        /\ k \in call[r].add
    BY <1>0, <1>6, WorkMoves DEF AddFirst, Moves, records
  <2> QED
    BY <1>0, <2>1
<1>7. ASSUME NEW k \in Kinds, AddJoin(r, k) PROVE CallOK(r)'
  <2>1. /\ call[r].pc = "work" /\ k \in call[r].add /\ call[r].remove = {}
        /\ Moves(r, "request", call[r].remove, call[r].add, k)
    BY <1>7, WorkMoves
  <2>2. UNCHANGED <<intent, watched>> /\ r \notin watched[k] /\ watched[k] # {}
    BY <1>7 DEF AddJoin, records
  <2> QED
    BY <1>0, <2>1, <2>2 DEF Moves
<1>8. CASE MarkWatched(r)
  <2>1. /\ UNCHANGED intent /\ call'[r].verb = call[r].verb /\ call[r].pc = "mark"
        /\ call'[r].pc = "work" /\ call[r].k \in Kinds /\ call'[r].remove = call[r].remove
        /\ call'[r].add = call[r].add \ {call[r].k}
        /\ watched' = [watched EXCEPT ![call[r].k] = @ \cup {r}]
    BY <1>0, <1>8, WorkMoves DEF MarkWatched, Moves, records
  <2> QED
    BY <1>0, <2>1
<1>9. ASSUME NEW k \in Kinds, RemoveSkip(r, k) PROVE CallOK(r)'
  <2>1. /\ UNCHANGED intent /\ call'[r].verb = call[r].verb /\ call[r].pc = "work"
        /\ call'[r].pc = "work" /\ call'[r].remove = call[r].remove \ {k} /\ call'[r].add = call[r].add
        /\ UNCHANGED watched /\ r \notin watched[k]
    BY <1>0, <1>9, WorkMoves DEF RemoveSkip, Moves, records
  <2> QED
    BY <1>0, <2>1
<1>10. ASSUME NEW k \in Kinds, RemoveStart(r, k) PROVE CallOK(r)'
  <2>1. /\ UNCHANGED intent /\ call'[r].verb = call[r].verb /\ call[r].pc = "work"
        /\ call'[r].pc = "cancel" /\ call'[r].k = k /\ k \in call[r].remove
        /\ call'[r].remove = call[r].remove /\ call'[r].add = call[r].add
        /\ UNCHANGED watched
    BY <1>0, <1>10, WorkMoves DEF RemoveStart, Moves, records
  <2> QED
    BY <1>0, <2>1
<1>11. CASE RemoveDrop(r)
  <2>1. /\ UNCHANGED intent /\ call'[r].verb = call[r].verb /\ call[r].pc = "drop"
        /\ call[r].k \in Kinds /\ call'[r].add = call[r].add /\ call'[r].k = call[r].k
        /\ watched' = [watched EXCEPT ![call[r].k] = @ \ {r}]
        /\ IF watched[call[r].k] = {r} THEN call'[r].pc = "wait" /\ call'[r].remove = call[r].remove
           ELSE call'[r].pc = "work" /\ call'[r].remove = call[r].remove \ {call[r].k}
    BY <1>0, <1>11, WorkMoves DEF RemoveDrop, Moves, records
  <2> QED
    BY <1>0, <2>1
<1>12. CASE RemoveInformer(r)
  <2>1. /\ UNCHANGED intent /\ call'[r].verb = call[r].verb /\ call[r].pc = "wait"
        /\ call'[r].pc = "work" /\ call[r].k \in Kinds /\ call'[r].remove = call[r].remove \ {call[r].k}
        /\ call'[r].add = call[r].add
        /\ UNCHANGED watched
    BY <1>0, <1>12, WorkMoves DEF RemoveInformer, Moves, records
  <2> QED
    BY <1>0, <2>1
<1>13. CASE SendRequest(r) \/ SendStopped(r)
  <2>1. /\ UNCHANGED intent /\ call'[r].verb = call[r].verb /\ call[r].pc \in {"request", "cancel"}
        /\ call'[r].pc = (IF call[r].pc = "request" THEN "mark" ELSE "drop")
        /\ call'[r].k = call[r].k /\ call[r].k \in Kinds
        /\ call'[r].remove = call[r].remove /\ call'[r].add = call[r].add
        /\ UNCHANGED watched
    BY <1>0, <1>13, WorkMoves DEF SendRequest, SendStopped, Moves, records
  <2> QED
    BY <1>0, <2>1
<1> HIDE DEF CallOK
<1> QED
  BY <1>0, <1>1, <1>2, <1>3, <1>4, <1>5, <1>6, <1>7, <1>8, <1>9, <1>10, <1>11, <1>12, <1>13, InvokeCases DEF Work

\* The state under the lock: what a step of call r does to the other calls.
LEMMA OtherStep ==
  ASSUME TypeOK, NEW r \in Registrars, Invoke(r) \/ Acquire(r) \/ Work(r),
         NEW q \in Registrars, q # r
  PROVE  /\ call'[q] = call[q] /\ intent'[q] = intent[q]
         /\ \A k \in Kinds : q \in watched'[k] <=> q \in watched[k]
         /\ \/ UNCHANGED watched
            \/ call[r].pc \notin {"idle", "lock"} /\ UNCHANGED intent
<1>0. TypeInv /\ Working /\ watched \in [Kinds -> SUBSET Registrars]
  BY DEF TypeOK, TypeInv
<1>1. CASE NewRegistrar(r)
  BY <1>0, <1>1 DEF NewRegistrar, calling
<1>2. ASSUME NEW verb, NEW wants, NEW rem, NEW add, Begins(r, verb, wants, rem, add)
      PROVE  UNCHANGED watched /\ call'[q] = call[q] /\ intent'[q] = intent[q]
  BY <1>2 DEF Begins, Began
<1>3. CASE Acquire(r)
  BY <1>0, <1>3, AcquireMoves DEF Acquire, Moves, records
<1>4. CASE Release(r)
  BY <1>0, <1>4, ReleaseMoves DEF Release, Moves, records
<1>5. ASSUME NEW k \in Kinds, AddSkip(r, k) \/ AddJoin(r, k) \/ RemoveSkip(r, k) \/ RemoveStart(r, k)
      PROVE  UNCHANGED <<watched, intent>> /\ call'[q] = call[q]
  <2>1. UNCHANGED <<watched, intent>>
    BY <1>5 DEF AddSkip, AddJoin, RemoveSkip, RemoveStart, records
  <2> QED
    BY <1>5, <2>1, WorkMoves DEF Moves
<1>6. CASE RemoveInformer(r) \/ SendRequest(r) \/ SendStopped(r)
  <2>1. UNCHANGED <<watched, intent>>
    BY <1>6 DEF RemoveInformer, SendRequest, SendStopped, records
  <2> QED
    BY <1>0, <1>6, <2>1, WorkMoves DEF Moves
<1>7. ASSUME NEW k \in Kinds, NEW pc, NEW rem, NEW add, NEW kk, Moves(r, pc, rem, add, kk),
             call[r].pc \in {"work", "mark", "drop"}, UNCHANGED intent,
             \/ watched[k] = {} /\ watched' = [watched EXCEPT ![k] = {r}]
             \/ watched' = [watched EXCEPT ![k] = @ \cup {r}]
             \/ watched' = [watched EXCEPT ![k] = @ \ {r}]
      PROVE  /\ call'[q] = call[q] /\ intent'[q] = intent[q]
             /\ \A l \in Kinds : q \in watched'[l] <=> q \in watched[l]
             /\ call[r].pc \notin {"idle", "lock"}
  BY <1>0, <1>7 DEF Moves
<1>8. ASSUME NEW k \in Kinds, AddFirst(r, k)
      PROVE  /\ call'[q] = call[q] /\ intent'[q] = intent[q]
             /\ \A l \in Kinds : q \in watched'[l] <=> q \in watched[l]
             /\ call[r].pc \notin {"idle", "lock"} /\ UNCHANGED intent
  <2>1. watched[k] = {} /\ watched' = [watched EXCEPT ![k] = {r}] /\ UNCHANGED intent
    BY <1>8 DEF AddFirst, records
  <2> QED
    BY <1>7, <1>8, <2>1, WorkMoves
<1>9. CASE MarkWatched(r) \/ RemoveDrop(r)
  <2>1. /\ UNCHANGED intent
        /\ \/ watched' = [watched EXCEPT ![call[r].k] = @ \cup {r}]
           \/ watched' = [watched EXCEPT ![call[r].k] = @ \ {r}]
    BY <1>9 DEF MarkWatched, RemoveDrop, records
  <2>2. call[r].k \in Kinds /\ call[r].pc \in {"mark", "drop"}
    BY <1>9, WorkMoves
  <2>3. \E pc, rem, add : Moves(r, pc, rem, add, call[r].k)
    BY <1>9, WorkMoves
  <2> QED
    BY <1>7, <2>1, <2>2, <2>3
<1>10. ASSUME UNCHANGED watched
       PROVE  \A k \in Kinds : q \in watched'[k] <=> q \in watched[k]
  BY <1>0, <1>10
<1> QED
  BY <1>0, <1>1, <1>2, <1>3, <1>4, <1>5, <1>6, <1>8, <1>9, <1>10, InvokeCases DEF Work

LEMMA CallsStep ==
  ASSUME TypeOK, LockInv, CallInv, WatchedInv, [Next]_vars
  PROVE  LockInv' /\ CallInv' /\ WatchedInv'
<1>1. ASSUME UNCHANGED <<intent, watched, lock, call>>
      PROVE  LockInv' /\ CallInv' /\ WatchedInv'
  BY <1>1 DEF LockInv, CallInv, WatchedInv, Joining, Leaving, ToRemove, ToAdd, Open
<1>2. ASSUME NEW r \in Registrars, Invoke(r) \/ Acquire(r) \/ Work(r)
      PROVE  LockInv' /\ CallInv' /\ WatchedInv'
  <2>1. \A q \in Registrars : CallOK(q)
    BY CallsOK
  <2>2. CallOK(r)'
    BY <1>2, <2>1, OwnStep
  <2>3. ASSUME NEW q \in Registrars, q # r PROVE CallOK(q)'
    <3>1. /\ call'[q] = call[q] /\ intent'[q] = intent[q]
          /\ \A k \in Kinds : q \in watched'[k] <=> q \in watched[k]
          /\ \/ UNCHANGED watched
             \/ call[r].pc \notin {"idle", "lock"} /\ UNCHANGED intent
      BY <1>2, <2>3, OtherStep
    <3>2. CASE UNCHANGED watched
      BY <2>1, <3>1, <3>2, SameOK
    <3>3. CASE call[r].pc \notin {"idle", "lock"} /\ UNCHANGED intent
      BY <2>1, <2>3, <3>1, <3>3, OthersOK
    <3> QED
      BY <3>1, <3>2, <3>3
  <2>4. \A q \in Registrars : CallOK(q)'
    BY <2>2, <2>3
  <2>5. CallInv' /\ WatchedInv'
    BY <2>4 DEF CallInv, WatchedInv, CallOK
  <2> QED
    BY <1>2, <2>5, LockStep
<1> QED
  BY <1>1, <1>2, StepCases, BackgroundKeeps DEF vars, records, calling

LEMMA InitCalls == Init => LockInv /\ CallInv /\ WatchedInv
<1> SUFFICES ASSUME Init PROVE LockInv /\ CallInv /\ WatchedInv
  OBVIOUS
<1>1. \A r \in Registrars : call[r].pc = "idle"
  BY DEF Init, NoCall
<1>2. /\ \A k \in Kinds : watched[k] = {}
      /\ \A r \in Registrars : intent[r] = {}
      /\ lock = NoRegistrar
  BY DEF Init
<1> QED
  BY <1>1, <1>2, WatchAssumption DEF LockInv, CallInv, WatchedInv, Joining, Leaving, ToRemove, ToAdd

(***************************************************************************)
(* Between its calls a registrar watches what recordKeeper says it intends *)
(* to (but for kinds without an informer), whatever the calls of others do *)
(* meanwhile and whether or not the manager is running.                    *)
(***************************************************************************)
THEOREM IntentIsKept == Spec => []IntentIsWatched
<1> DEFINE I == TypeOK /\ LockInv /\ CallInv /\ WatchedInv
<1>1. Init => I
  BY InitTypes, InitCalls
<1>2. I /\ [Next]_vars => I'
  BY TypeStep, CallsStep
<1>3. I => IntentIsWatched
  <2> SUFFICES ASSUME WatchedInv, NEW r \in Registrars, NEW k \in Kinds, call[r].pc = "idle"
               PROVE  /\ r \in watched[k] => k \in intent[r]
                      /\ k \in intent[r] \ Unregistered => r \in watched[k]
    BY DEF IntentIsWatched
  <2>1. ToRemove(r) = {} /\ ToAdd(r) = {}
    BY DEF ToRemove, ToAdd
  <2> QED
    BY <2>1 DEF WatchedInv
<1> QED
  BY <1>1, <1>2, <1>3, PTL DEF Spec

-------------------------------------------------------------------------------
\* What the loop and the replays do to the replays

\* Only g changes, to this state.
Becomes(g, pc, r, k, todo, canceled) ==
  /\ \A h \in Replays : h # g => replay'[h] = replay[h]
  /\ replay'[g].pc = pc /\ replay'[g].r = r /\ replay'[g].k = k
  /\ replay'[g].todo = todo /\ replay'[g].canceled = canceled

Ends(g) ==
  /\ \A h \in Replays : h # g => replay'[h] = replay[h]
  /\ replay'[g] = NoGoroutine

LEMMA ReplayListStep ==
  ASSUME TypeOK, NEW g \in Replays, ReplayList(g)
  PROVE  /\ replay[g].pc = "list" /\ replay[g].r \in Registrars /\ replay[g].k \in Kinds
         /\ Becomes(g, "send", replay[g].r, replay[g].k, informer[replay[g].k].cache, replay[g].canceled)
         /\ informer' = [informer EXCEPT ![replay[g].k].on = TRUE]
         /\ UNCHANGED <<phase, events, dist, loop, inProgress, owed, gaveUp>>
<1>1. replay \in [Replays -> ReplayType] /\ replay[g].pc = "list"
  BY DEF TypeOK, TypeInv, ReplayList
<1>2. replay[g].r \in Registrars /\ replay[g].k \in Kinds
  BY <1>1 DEF TypeOK, Working
<1> DEFINE x == [replay[g] EXCEPT !.pc = "send", !.todo = informer[replay[g].k].cache]
<1>3. replay' = [replay EXCEPT ![g] = x]
  BY <1>1 DEF ReplayList
<1>4. /\ x.pc = "send" /\ x.r = replay[g].r /\ x.k = replay[g].k
      /\ x.todo = informer[replay[g].k].cache /\ x.canceled = replay[g].canceled
  BY <1>1 DEF ReplayType
<1> HIDE DEF x
<1>5. Becomes(g, "send", replay[g].r, replay[g].k, informer[replay[g].k].cache, replay[g].canceled)
  BY <1>1, <1>3, <1>4 DEF Becomes
<1> QED
  BY <1>1, <1>2, <1>5 DEF ReplayList, replaying

LEMMA ReplayListFailsStep ==
  ASSUME TypeOK, NEW g \in Replays, ReplayListFails(g)
  PROVE  /\ replay[g].pc = "list" /\ replay[g].r \in Registrars /\ replay[g].k \in Kinds
         /\ \/ /\ Becomes(g, "list", replay[g].r, replay[g].k, replay[g].todo, replay[g].canceled)
               /\ UNCHANGED gaveUp
            \/ /\ Ends(g)
               /\ gaveUp \subseteq gaveUp'
               /\ ~replay[g].canceled => <<replay[g].r, replay[g].k>> \in gaveUp'
         /\ UNCHANGED <<phase, informer, events, dist, loop, inProgress, owed>>
<1>1. replay \in [Replays -> ReplayType] /\ replay[g].pc = "list"
  BY DEF TypeOK, TypeInv, ReplayListFails
<1>2. replay[g].r \in Registrars /\ replay[g].k \in Kinds
  BY <1>1 DEF TypeOK, Working
<1>3. CASE replay[g].attempts > 1
  <2> DEFINE x == [replay[g] EXCEPT !.attempts = @ - 1]
  <2>1. replay' = [replay EXCEPT ![g] = x] /\ UNCHANGED gaveUp
    BY <1>1, <1>3 DEF ReplayListFails
  <2>2. /\ x.pc = replay[g].pc /\ x.r = replay[g].r /\ x.k = replay[g].k
        /\ x.todo = replay[g].todo /\ x.canceled = replay[g].canceled
    BY <1>1 DEF ReplayType
  <2> HIDE DEF x
  <2>3. Becomes(g, "list", replay[g].r, replay[g].k, replay[g].todo, replay[g].canceled)
    BY <1>1, <2>1, <2>2 DEF Becomes
  <2> QED
    BY <1>1, <1>2, <2>1, <2>3 DEF ReplayListFails, informing
<1>4. CASE ~(replay[g].attempts > 1)
  <2>1. /\ replay' = [replay EXCEPT ![g] = NoGoroutine]
        /\ gaveUp' = IF replay[g].canceled THEN gaveUp ELSE gaveUp \cup {<<replay[g].r, replay[g].k>>}
    BY <1>4 DEF ReplayListFails
  <2>2. Ends(g)
    BY <1>1, <2>1 DEF Ends
  <2> QED
    BY <1>1, <1>2, <2>1, <2>2 DEF ReplayListFails, informing
<1> QED
  BY <1>3, <1>4

LEMMA ReplaySendStep ==
  ASSUME TypeOK, NEW g \in Replays, NEW o \in Objects, ReplaySend(g, o)
  PROVE  /\ replay[g].pc = "send" /\ replay[g].r \in Registrars /\ replay[g].k \in Kinds
         /\ Becomes(g, "send", replay[g].r, replay[g].k, replay[g].todo \ {o}, replay[g].canceled)
         /\ owed' = [owed EXCEPT ![replay[g].r] = @ \ {o}]
         /\ UNCHANGED <<phase, informer, events, dist, loop, inProgress, gaveUp>>
<1>1. replay \in [Replays -> ReplayType] /\ replay[g].pc = "send"
  BY DEF TypeOK, TypeInv, ReplaySend
<1>2. replay[g].r \in Registrars /\ replay[g].k \in Kinds
  BY <1>1 DEF TypeOK, Working
<1> DEFINE x == [replay[g] EXCEPT !.todo = @ \ {o}]
<1>3. replay' = [replay EXCEPT ![g] = x]
  BY <1>1 DEF ReplaySend
<1>4. /\ x.pc = "send" /\ x.r = replay[g].r /\ x.k = replay[g].k
      /\ x.todo = replay[g].todo \ {o} /\ x.canceled = replay[g].canceled
  BY <1>1 DEF ReplayType
<1> HIDE DEF x
<1>5. Becomes(g, "send", replay[g].r, replay[g].k, replay[g].todo \ {o}, replay[g].canceled)
  BY <1>1, <1>3, <1>4 DEF Becomes
<1> QED
  BY <1>1, <1>2, <1>5 DEF ReplaySend, informing

LEMMA ReplayDoneStep ==
  ASSUME TypeOK, NEW g \in Replays, ReplayDone(g)
  PROVE  /\ replay[g].pc = "send" /\ Ends(g)
         /\ replay[g].todo = {} \/ replay[g].canceled \/ phase = "stopped"
         /\ UNCHANGED <<phase, informer, events, dist, loop, inProgress, owed, gaveUp>>
<1>1. replay \in [Replays -> ReplayType]
  BY DEF TypeOK, TypeInv
<1> QED
  BY <1>1 DEF ReplayDone, Canceled, Ends, informing

LEMMA LoopCancelStep ==
  ASSUME TypeOK, LoopCancel
  PROVE  /\ loop.pc = "cancel" /\ loop.r \in Registrars /\ loop.k \in Kinds /\ loop' = Idle
         /\ inProgress' = [inProgress EXCEPT ![<<loop.r, loop.k>>] = NoReplay]
         /\ LET g == inProgress[<<loop.r, loop.k>>] IN
            /\ g \in Replays
            /\ \/ UNCHANGED replay
               \/ /\ replay[g].pc # "none"
                  /\ Becomes(g, replay[g].pc, replay[g].r, replay[g].k, replay[g].todo, TRUE)
         /\ UNCHANGED <<phase, informer, events, dist, owed, gaveUp>>
<1> DEFINE g == inProgress[<<loop.r, loop.k>>]
<1>1. /\ replay \in [Replays -> ReplayType] /\ loop.r \in Registrars /\ loop.k \in Kinds
      /\ inProgress \in [Registrars \X Kinds -> Replays \cup {NoReplay}]
  BY DEF TypeOK, TypeInv, Working, LoopCancel
<1>2. g \in Replays
  BY <1>1 DEF LoopCancel
<1> HIDE DEF g
<1>3. CASE replay[g].pc = "none"
  <2>1. /\ loop.pc = "cancel" /\ loop' = Idle /\ replay' = replay
        /\ inProgress' = [inProgress EXCEPT ![<<loop.r, loop.k>>] = NoReplay]
        /\ UNCHANGED <<phase, informer, events, dist, owed, gaveUp>>
    BY <1>3 DEF LoopCancel, informing, g
  <2> QED
    BY <1>1, <1>2, <2>1 DEF g
<1>4. CASE replay[g].pc # "none"
  <2> DEFINE x == [replay[g] EXCEPT !.canceled = TRUE]
  <2>1. replay' = [replay EXCEPT ![g] = x]
    BY <1>4 DEF LoopCancel, g
  <2>2. /\ x.pc = replay[g].pc /\ x.r = replay[g].r /\ x.k = replay[g].k
        /\ x.todo = replay[g].todo /\ x.canceled = TRUE
    BY <1>1, <1>2 DEF ReplayType
  <2>3. /\ loop.pc = "cancel" /\ loop' = Idle
        /\ inProgress' = [inProgress EXCEPT ![<<loop.r, loop.k>>] = NoReplay]
        /\ UNCHANGED <<phase, informer, events, dist, owed, gaveUp>>
    BY DEF LoopCancel, informing
  <2> HIDE DEF x
  <2>4. Becomes(g, replay[g].pc, replay[g].r, replay[g].k, replay[g].todo, TRUE)
    BY <1>1, <1>2, <2>1, <2>2 DEF Becomes
  <2> QED
    BY <1>1, <1>2, <1>4, <2>3, <2>4 DEF g
<1> QED
  BY <1>3, <1>4

LEMMA LoopStartStep ==
  ASSUME TypeOK, NEW g \in Replays, LoopStart(g)
  PROVE  /\ loop.pc = "request" /\ loop.r \in Registrars /\ loop.k \in Kinds /\ loop' = Idle
         /\ inProgress' = [inProgress EXCEPT ![<<loop.r, loop.k>>] = g]
         /\ replay[g].pc = "none"
         /\ \A r \in Registrars, k \in Kinds : inProgress[<<r, k>>] # g
         /\ Becomes(g, "list", loop.r, loop.k, {}, FALSE)
         /\ UNCHANGED <<phase, informer, events, dist, owed, gaveUp>>
<1>1. /\ replay \in [Replays -> ReplayType] /\ loop.r \in Registrars /\ loop.k \in Kinds
      /\ inProgress \in [Registrars \X Kinds -> Replays \cup {NoReplay}]
  BY DEF TypeOK, TypeInv, Working, LoopStart
<1> DEFINE x == [NoGoroutine EXCEPT !.pc = "list", !.r = loop.r, !.k = loop.k, !.attempts = Attempts]
<1>2. replay' = [replay EXCEPT ![g] = x]
  BY DEF LoopStart
<1>3. x.pc = "list" /\ x.r = loop.r /\ x.k = loop.k /\ x.todo = {} /\ x.canceled = FALSE
  BY DEF NoGoroutine
<1> HIDE DEF x
<1>4. Becomes(g, "list", loop.r, loop.k, {}, FALSE)
  BY <1>1, <1>2, <1>3 DEF Becomes
<1>5. \A r \in Registrars, k \in Kinds : inProgress[<<r, k>>] # g
  BY <1>1 DEF LoopStart
<1> QED
  BY <1>1, <1>4, <1>5 DEF LoopStart, informing

\* Every other step leaves the replays and the loop's map alone.
ReplayStep(g) ==
  \/ LoopStart(g) \/ ReplayList(g) \/ ReplayListFails(g) \/ ReplayDone(g)
  \/ \E o \in Objects : ReplaySend(g, o)

LEMMA ReplaysKept ==
  ASSUME [Next]_vars, ~LoopCancel, \A g \in Replays : ~ReplayStep(g)
  PROVE  UNCHANGED <<replay, inProgress>>
<1>1. CASE Background
  BY <1>1 DEF Background, LoopStep, EventStep, LoopIgnore, LoopExit, ReplayStep,
     CacheChange, EventTake, EventRead, EventSend, EventDone, ReaderGet, Start, Stop, replaying
<1>2. ASSUME NEW r \in Registrars, Invoke(r) \/ Acquire(r) \/ Work(r) PROVE UNCHANGED <<replay, inProgress>>
  BY <1>2 DEF Invoke, NewRegistrar, AddWatch, RemoveWatch, ReplaceWatch, RemoveRegistrar, Begin, Acquire,
     Work, AddSkip, AddFirst, AddJoin, RemoveSkip, RemoveStart, MarkWatched, RemoveDrop, RemoveInformer,
     SendRequest, SendStopped, Release, replaying
<1> QED
  BY <1>1, <1>2, StepCases DEF vars, replaying

\* The loop remembers replays of the right registrar and kind.
LEMMA ReplayInvStep ==
  ASSUME TypeOK, ReplayInv, [Next]_vars
  PROVE  ReplayInv'
<1>0. inProgress \in [Registrars \X Kinds -> Replays \cup {NoReplay}]
  BY DEF TypeOK, TypeInv
<1>1. CASE LoopCancel
  <2>1. \A r \in Registrars, k \in Kinds : inProgress'[<<r, k>>] \in {inProgress[<<r, k>>], NoReplay}
    BY <1>0, <1>1, LoopCancelStep
  <2>2. \A g \in Replays : /\ replay'[g].pc = replay[g].pc /\ replay'[g].r = replay[g].r
                           /\ replay'[g].k = replay[g].k
                           /\ replay[g].pc = "none" => replay'[g] = replay[g]
    BY <1>1, LoopCancelStep DEF Becomes
  <2> QED
    BY <2>1, <2>2, WatchAssumption DEF ReplayInv
<1>2. ASSUME NEW g \in Replays, LoopStart(g) PROVE ReplayInv'
  <2>1. /\ \A h \in Replays : h # g => replay'[h] = replay[h]
        /\ replay'[g].pc = "list" /\ replay'[g].r = loop.r /\ replay'[g].k = loop.k
        /\ loop.r \in Registrars /\ loop.k \in Kinds
    BY <1>2, LoopStartStep DEF Becomes
  <2>2. \A r \in Registrars, k \in Kinds :
          /\ inProgress[<<r, k>>] # g
          /\ inProgress'[<<r, k>>] = IF r = loop.r /\ k = loop.k THEN g ELSE inProgress[<<r, k>>]
    BY <1>0, <1>2, LoopStartStep
  <2> QED
    BY <2>1, <2>2 DEF ReplayInv
<1>b. ASSUME NEW g \in Replays, NEW pc, NEW todo, NEW canceled, pc # "none", replay[g].pc # "none",
             Becomes(g, pc, replay[g].r, replay[g].k, todo, canceled), UNCHANGED inProgress
      PROVE  ReplayInv'
  BY <1>b DEF ReplayInv, Becomes
<1>e. ASSUME NEW g \in Replays, Ends(g), UNCHANGED inProgress PROVE ReplayInv'
  BY <1>e, NoGoroutineType DEF ReplayInv, Ends
<1>3. ASSUME NEW g \in Replays, ReplayList(g) PROVE ReplayInv'
  BY <1>3, <1>b, ReplayListStep
<1>4. ASSUME NEW g \in Replays, ReplayListFails(g) PROVE ReplayInv'
  BY <1>4, <1>b, <1>e, ReplayListFailsStep
<1>5. ASSUME NEW g \in Replays, NEW o \in Objects, ReplaySend(g, o) PROVE ReplayInv'
  BY <1>5, <1>b, ReplaySendStep
<1>6. ASSUME NEW g \in Replays, ReplayDone(g) PROVE ReplayInv'
  BY <1>6, <1>e, ReplayDoneStep
<1>7. CASE UNCHANGED <<replay, inProgress>>
  BY <1>7 DEF ReplayInv
<1> QED
  BY <1>1, <1>2, <1>3, <1>4, <1>5, <1>6, <1>7, ReplaysKept DEF ReplayStep

-------------------------------------------------------------------------------
\* The loop and the calls

\* A manager that has stopped stays so.
LEMMA RunningBefore == [Next]_vars /\ Running' => Running
<1> SUFFICES ASSUME [Next]_vars, Running' PROVE Running
  OBVIOUS
<1>1. CASE Background
  BY <1>1 DEF Background, Running, LoopStep, LoopCancel, LoopIgnore, LoopStart, LoopExit,
     ReplayList, ReplayListFails, ReplaySend, ReplayDone, CacheChange,
     EventStep, EventTake, EventRead, EventSend, EventDone, ReaderGet, Start, Stop
<1>2. ASSUME NEW r \in Registrars, Invoke(r) \/ Acquire(r) \/ Work(r) PROVE Running
  BY <1>2 DEF Running, Invoke, NewRegistrar, AddWatch, RemoveWatch, ReplaceWatch, RemoveRegistrar, Begin,
     Acquire, Work, AddSkip, AddFirst, AddJoin, RemoveSkip, RemoveStart, MarkWatched, RemoveDrop,
     RemoveInformer, SendRequest, SendStopped, Release
<1> QED
  BY <1>1, <1>2, StepCases DEF vars, Running

\* A call that does not touch what the loop works on.
LEMMA LoopKept ==
  ASSUME TypeOK, LoopInv, Running, NEW r \in Registrars,
         UNCHANGED <<wantReplay, loop, inProgress>>,
         \A q \in Registrars, k \in Kinds : q \in watched[k] => q \in watched'[k],
         \A q \in Registrars : q # r => call'[q] = call[q],
         call[r].pc \in {"idle", "lock", "work", "wait"} \/ (r \in watched'[call[r].k] /\ call[r].pc = "mark"),
         call'[r].pc \in {"idle", "lock", "work", "wait"}
  PROVE  LoopInv'
<1>1. \A q \in Registrars : call'[q].pc \in {"request", "mark", "cancel", "drop"} => q # r
  OBVIOUS
<1>2. Working
  BY DEF TypeOK
<1> QED
  BY <1>1, <1>2 DEF LoopInv, Working, Running

LEMMA LoopCallStep ==
  ASSUME TypeOK, LockInv, CallInv, LoopInv, Running, NEW r \in Registrars,
         Invoke(r) \/ Acquire(r) \/ Work(r)
  PROVE  LoopInv'
<1>0. /\ TypeInv /\ Working /\ watched \in [Kinds -> SUBSET Registrars]
      /\ inProgress \in [Registrars \X Kinds -> Replays \cup {NoReplay}]
      /\ loop.pc \in {"request", "cancel"} => loop.r \in Registrars /\ loop.k \in Kinds
  BY DEF TypeOK, TypeInv, Working
<1>a. call[r].pc \notin {"idle", "lock"} => \A q \in Registrars : q # r => call[q].pc \in {"idle", "lock"}
  BY Alone
<1>1. CASE NewRegistrar(r)
  BY <1>1 DEF NewRegistrar, LoopInv, Running, calling, replaying
<1>2. ASSUME NEW verb, NEW wants, NEW rem, NEW add, Begins(r, verb, wants, rem, add) PROVE LoopInv'
  <2>1. /\ UNCHANGED <<wantReplay, loop, inProgress, watched>>
        /\ \A q \in Registrars : q # r => call'[q] = call[q]
        /\ call[r].pc = "idle" /\ call'[r].pc = "lock"
    BY <1>2 DEF Begins, Began
  <2> QED
    BY <2>1, LoopKept
<1>3. CASE Acquire(r)
  <2>1. /\ UNCHANGED <<wantReplay, loop, inProgress, watched>>
        /\ \A q \in Registrars : q # r => call'[q] = call[q]
        /\ call[r].pc = "lock" /\ call'[r].pc = "work"
    BY <1>0, <1>3, AcquireMoves DEF Acquire, Moves, replaying
  <2> QED
    BY <2>1, LoopKept
<1>4. CASE Release(r)
  <2>1. /\ UNCHANGED <<wantReplay, loop, inProgress, watched>>
        /\ \A q \in Registrars : q # r => call'[q] = call[q]
        /\ call[r].pc = "work" /\ call'[r].pc = "idle"
    BY <1>0, <1>4, ReleaseMoves DEF Release, Moves, replaying
  <2> QED
    BY <2>1, LoopKept
<1>5. ASSUME NEW k \in Kinds, AddSkip(r, k) \/ AddFirst(r, k) \/ RemoveSkip(r, k) PROVE LoopInv'
  <2>1. /\ \A q \in Registrars : q # r => call'[q] = call[q]
        /\ call[r].pc = "work" /\ call'[r].pc = "work"
    BY <1>5, WorkMoves DEF Moves
  <2>2. /\ UNCHANGED <<wantReplay, loop, inProgress>>
        /\ UNCHANGED watched \/ (watched[k] = {} /\ watched' = [watched EXCEPT ![k] = {r}])
    BY <1>5 DEF AddSkip, AddFirst, RemoveSkip, replaying
  <2>3. \A q \in Registrars, l \in Kinds : q \in watched[l] => q \in watched'[l]
    BY <1>0, <2>2
  <2> QED
    BY <2>1, <2>2, <2>3, LoopKept
<1>6. ASSUME NEW k \in Kinds, AddJoin(r, k) PROVE LoopInv'
  <2>1. /\ \A q \in Registrars : q # r => call'[q] = call[q]
        /\ call[r].pc = "work" /\ call'[r].pc = "request" /\ call'[r].k = k
    BY <1>6, WorkMoves DEF Moves
  <2>2. UNCHANGED <<watched, loop, inProgress>> /\ wantReplay' = wantReplay \cup {<<r, k>>}
    BY <1>6 DEF AddJoin
  <2> QED
    BY <1>0, <1>a, <2>1, <2>2 DEF LoopInv, Running
<1>7. CASE MarkWatched(r)
  <2>1. /\ \A q \in Registrars : q # r => call'[q] = call[q]
        /\ call[r].pc = "mark" /\ call'[r].pc = "work" /\ call[r].k \in Kinds
    BY <1>7, WorkMoves DEF Moves
  <2>2. /\ UNCHANGED <<wantReplay, loop, inProgress>>
        /\ watched' = [watched EXCEPT ![call[r].k] = @ \cup {r}]
    BY <1>7 DEF MarkWatched, replaying
  <2>3. /\ \A q \in Registrars, l \in Kinds : q \in watched[l] => q \in watched'[l]
        /\ r \in watched'[call[r].k]
    BY <1>0, <2>1, <2>2
  <2> QED
    BY <2>1, <2>2, <2>3, LoopKept
<1>8. ASSUME NEW k \in Kinds, RemoveStart(r, k) PROVE LoopInv'
  <2>1. /\ \A q \in Registrars : q # r => call'[q] = call[q]
        /\ call[r].pc = "work" /\ call'[r].pc = "cancel" /\ call'[r].k = k
    BY <1>8, WorkMoves DEF Moves
  <2>2. UNCHANGED <<watched, loop, inProgress>> /\ wantReplay' = wantReplay \ {<<r, k>>}
    BY <1>8 DEF RemoveStart
  <2> QED
    BY <1>0, <1>a, <2>1, <2>2 DEF LoopInv, Running
<1>9. CASE RemoveDrop(r)
  <2>1. /\ \A q \in Registrars : q # r => call'[q] = call[q]
        /\ call[r].pc = "drop" /\ call'[r].pc \in {"work", "wait"} /\ call[r].k \in Kinds
    BY <1>9, WorkMoves DEF Moves
  <2>2. /\ UNCHANGED <<wantReplay, loop, inProgress>>
        /\ watched' = [watched EXCEPT ![call[r].k] = @ \ {r}]
    BY <1>9 DEF RemoveDrop, replaying
  <2>3. \A q \in Registrars, l \in Kinds : q \in watched[l] => q \in watched'[l] \/ (q = r /\ l = call[r].k)
    BY <1>0, <2>1, <2>2
  <2> QED
    BY <1>0, <1>a, <2>1, <2>2, <2>3 DEF LoopInv, Running
<1>10. CASE RemoveInformer(r)
  <2>1. /\ \A q \in Registrars : q # r => call'[q] = call[q]
        /\ call[r].pc = "wait" /\ call'[r].pc = "work"
        /\ UNCHANGED <<wantReplay, loop, inProgress, watched>>
    BY <1>10, WorkMoves DEF Moves, RemoveInformer, replaying
  <2> QED
    BY <2>1, LoopKept
<1>11. CASE SendRequest(r)
  <2>1. /\ \A q \in Registrars : q # r => call'[q] = call[q]
        /\ call[r].pc \in {"request", "cancel"} /\ call[r].k \in Kinds /\ call'[r].k = call[r].k
        /\ call'[r].pc = IF call[r].pc = "request" THEN "mark" ELSE "drop"
    BY <1>11, WorkMoves DEF Moves
  <2>2. /\ UNCHANGED <<wantReplay, watched, inProgress>> /\ loop.pc = "idle"
        /\ loop' = [pc |-> call[r].pc, r |-> r, k |-> call[r].k]
    BY <1>11 DEF SendRequest
  <2>3. loop'.pc = call[r].pc /\ loop'.r = r /\ loop'.k = call[r].k
    BY <2>2
  <2>4. CASE call[r].pc = "request"
    <3>1. r \notin watched[call[r].k] /\ <<r, call[r].k>> \in wantReplay
      BY <2>1, <2>4 DEF CallInv, Joining, LoopInv
    <3>2. inProgress[<<r, call[r].k>>] = NoReplay
      BY <2>1, <2>2, <2>4, <3>1 DEF LoopInv
    <3> QED
      BY <1>0, <1>a, <2>1, <2>2, <2>3, <2>4, <3>1, <3>2 DEF LoopInv, Running
  <2>5. CASE call[r].pc = "cancel"
    BY <1>0, <1>a, <2>1, <2>2, <2>3, <2>5 DEF LoopInv, Running
  <2> QED
    BY <2>1, <2>4, <2>5
<1>12. CASE SendStopped(r)
  BY <1>12 DEF SendStopped, Running
<1> QED
  BY <1>0, <1>1, <1>2, <1>3, <1>4, <1>5, <1>6, <1>7, <1>8, <1>9, <1>10, <1>11, <1>12, InvokeCases DEF Work

\* A background step moves the loop only in its own steps.
LEMMA LoopsKept ==
  ASSUME Background, ~LoopCancel, ~LoopIgnore, ~LoopExit, \A g \in Replays : ~LoopStart(g)
  PROVE  UNCHANGED <<loop, inProgress>>
BY DEF Background, LoopStep, EventStep, ReplayList, ReplayListFails, ReplaySend, ReplayDone,
   CacheChange, EventTake, EventRead, EventSend, EventDone, ReaderGet, Start, Stop, replaying

\* What the loop knows of a registrar's replays is not overtaken by its calls.
LEMMA LoopInvStep ==
  ASSUME TypeOK, LockInv, CallInv, LoopInv, [Next]_vars
  PROVE  LoopInv'
<1>r. SUFFICES ASSUME Running, Running' PROVE LoopInv'
  BY RunningBefore DEF LoopInv
<1>0. /\ inProgress \in [Registrars \X Kinds -> Replays \cup {NoReplay}]
      /\ loop.pc \in {"request", "cancel"} => loop.r \in Registrars /\ loop.k \in Kinds
  BY DEF TypeOK, TypeInv, Working
<1>1. CASE UNCHANGED vars
  BY <1>r, <1>1 DEF vars, LoopInv, calling, replaying
<1>2. ASSUME NEW r \in Registrars, Invoke(r) \/ Acquire(r) \/ Work(r) PROVE LoopInv'
  BY <1>r, <1>2, LoopCallStep
<1>3. CASE Background
  <2>1. UNCHANGED <<watched, call, wantReplay>>
    BY <1>3, BackgroundKeeps
  <2>2. CASE UNCHANGED <<loop, inProgress>>
    BY <1>r, <2>1, <2>2 DEF LoopInv
  <2>3. CASE LoopCancel
    <3>1. /\ loop.pc = "cancel" /\ loop'.pc = "idle"
          /\ inProgress' = [inProgress EXCEPT ![<<loop.r, loop.k>>] = NoReplay]
          /\ loop.r \in Registrars /\ loop.k \in Kinds
      BY <2>3, LoopCancelStep, IdleType
    <3>2. \A r \in Registrars, k \in Kinds :
            inProgress'[<<r, k>>] = IF r = loop.r /\ k = loop.k THEN NoReplay ELSE inProgress[<<r, k>>]
      BY <1>0, <3>1
    <3>3. \A r \in Registrars : call[r].pc = "drop" => call[r].k \in Kinds
      BY DEF TypeOK, Working
    <3> QED
      BY <1>r, <2>1, <3>1, <3>2, <3>3 DEF LoopInv
  <2>4. CASE LoopIgnore
    <3>1. /\ loop'.pc = "idle" /\ UNCHANGED inProgress
          /\ \/ loop.pc = "cancel" /\ inProgress[<<loop.r, loop.k>>] = NoReplay
             \/ loop.pc = "request"
      BY <2>4, IdleType DEF LoopIgnore
    <3> QED
      BY <1>r, <2>1, <3>1 DEF LoopInv
  <2>5. ASSUME NEW g \in Replays, LoopStart(g) PROVE LoopInv'
    <3>1. /\ loop.pc = "request" /\ loop'.pc = "idle"
          /\ inProgress' = [inProgress EXCEPT ![<<loop.r, loop.k>>] = g]
          /\ loop.r \in Registrars /\ loop.k \in Kinds
      BY <2>5, LoopStartStep, IdleType
    <3>2. \A r \in Registrars, k \in Kinds :
            inProgress'[<<r, k>>] = IF r = loop.r /\ k = loop.k THEN g ELSE inProgress[<<r, k>>]
      BY <1>0, <3>1
    <3> QED
      BY <1>r, <2>1, <3>1, <3>2 DEF LoopInv
  <2>6. CASE LoopExit
    <3>1. phase = "stopped"
      BY <2>6 DEF LoopExit
    <3> QED
      BY <1>r, <3>1 DEF Running
  <2> QED
    BY <1>3, <2>2, <2>3, <2>4, <2>5, <2>6, LoopsKept
<1> QED
  BY <1>1, <1>2, <1>3, StepCases

-------------------------------------------------------------------------------
\* Informers and watches

LEMMA InformerKept ==
  ASSUME TypeOK, InformerInv, Running' => Running,
         \A k \in Kinds : SameButCache(k),
         \A g \in Replays : replay'[g].pc # "none" => replay[g].pc # "none" /\ replay'[g].k = replay[g].k,
         \A k \in Kinds : watched'[k] # {} => watched[k] # {},
         \A k \in Kinds : InUse(k) => InUse(k)'
  PROVE  InformerInv'
<1>1. \A g \in Replays : replay[g].pc # "none" => replay[g].k \in Kinds
  BY DEF TypeOK, Working
<1>2. ASSUME NEW k \in Kinds PROVE Needed(k)'
  BY <1>2 DEF InformerInv, Needed, SameButCache
<1>3. ASSUME Running', NEW g \in Replays, replay'[g].pc # "none"
      PROVE  \E l \in Kinds : replay'[g].k = l /\ InUse(l)'
  <2>1. PICK l \in Kinds : replay[g].k = l
    BY <1>1, <1>3
  <2>2. InUse(l)
    BY <1>3, <2>1 DEF InformerInv
  <2> QED
    BY <1>3, <2>1, <2>2
<1> QED
  BY <1>2, <1>3 DEF InformerInv, InUse

\* Every other step of a call leaves the informers and the watches alone.
LEMMA WatchesKept ==
  ASSUME TypeOK, NEW r \in Registrars, Invoke(r) \/ Acquire(r) \/ Work(r),
         \A k \in Kinds : ~AddFirst(r, k), ~MarkWatched(r), ~RemoveDrop(r), ~RemoveInformer(r)
  PROVE  UNCHANGED <<informer, watched>> /\ call[r].pc # "wait"
<1>0. TypeInv
  BY DEF TypeOK
<1>1. ASSUME NEW verb, NEW wants, NEW rem, NEW add, Begins(r, verb, wants, rem, add)
      PROVE  UNCHANGED <<informer, watched>> /\ call[r].pc # "wait"
  BY <1>1 DEF Begins, Began
<1>2. CASE NewRegistrar(r)
  <2>1. call[r] = NoCall /\ NoCall.pc = "idle"
    BY <1>2 DEF NewRegistrar, NoCall
  <2> QED
    BY <1>2, <2>1 DEF NewRegistrar, informing
<1>3. CASE Acquire(r) \/ Release(r)
  BY <1>3 DEF Acquire, Release, informing
<1>4. ASSUME NEW k \in Kinds, AddSkip(r, k) \/ AddJoin(r, k)
      PROVE  UNCHANGED <<informer, watched>> /\ call[r].pc # "wait"
  BY <1>4 DEF AddSkip, AddJoin, Adding, informing
<1>5. ASSUME NEW k \in Kinds, RemoveSkip(r, k) \/ RemoveStart(r, k)
      PROVE  UNCHANGED <<informer, watched>> /\ call[r].pc # "wait"
  BY <1>5 DEF RemoveSkip, RemoveStart, informing
<1>6. CASE SendRequest(r) \/ SendStopped(r)
  BY <1>6 DEF SendRequest, SendStopped, informing
<1> QED
  BY <1>0, <1>1, <1>2, <1>3, <1>4, <1>5, <1>6, InvokeCases DEF Work

LEMMA InformerCallStep ==
  ASSUME TypeOK, LockInv, CallInv, InformerInv, NEW r \in Registrars,
         Invoke(r) \/ Acquire(r) \/ Work(r), Running' => Running, UNCHANGED <<replay, phase>>
  PROVE  InformerInv'
<1>0. /\ TypeInv /\ watched \in [Kinds -> SUBSET Registrars] /\ informer \in [Kinds -> InformerType]
      /\ \A q \in Registrars : call[q].pc = "wait" => call[q].k \in Kinds
      /\ \A q \in Registrars : q # r => call'[q] = call[q]
      /\ \A g \in Replays : replay[g].pc # "none" => replay[g].k \in Kinds
  BY OtherStep DEF TypeOK, TypeInv, Working
<1>1. ASSUME NEW k \in Kinds, AddFirst(r, k) PROVE InformerInv'
  <2>1. /\ informer' = [informer EXCEPT ![k].on = TRUE, ![k].handler = TRUE, ![k].reader = FALSE]
        /\ watched' = [watched EXCEPT ![k] = {r}] /\ call[r].pc = "work"
    BY <1>1 DEF AddFirst, Adding
  <2>2. /\ informer'[k].on /\ informer'[k].handler /\ ~informer'[k].reader /\ watched'[k] = {r}
        /\ \A l \in Kinds : l # k => informer'[l] = informer[l] /\ watched'[l] = watched[l]
    BY <1>0, <2>1 DEF InformerType
  <2>3. ASSUME NEW l \in Kinds, InUse(l) \/ l = k PROVE InUse(l)'
    BY <1>0, <2>1, <2>2, <2>3 DEF InUse
  <2>4. ASSUME NEW l \in Kinds PROVE Needed(l)'
    BY <2>2, <2>3, <2>4 DEF InformerInv, Needed, Running
  <2> QED
    BY <1>0, <2>3, <2>4 DEF InformerInv, Running
<1>2. CASE MarkWatched(r)
  <2>a. call[r].pc = "mark" /\ call[r].k \in Kinds
    BY <1>2, WorkMoves
  <2>b. watched' = [watched EXCEPT ![call[r].k] = @ \cup {r}] /\ UNCHANGED informer
    BY <1>2 DEF MarkWatched, informing
  <2>c. watched[call[r].k] # {}
    BY <2>a DEF CallInv, Joining
  <2>1. /\ call[r].pc = "mark" /\ call[r].k \in Kinds /\ watched[call[r].k] # {}
        /\ watched' = [watched EXCEPT ![call[r].k] = @ \cup {r}] /\ UNCHANGED informer
    BY <2>a, <2>b, <2>c
  <2>2. \A l \in Kinds : watched'[l] # {} <=> watched[l] # {}
    BY <1>0, <2>1
  <2>3. ASSUME NEW l \in Kinds, InUse(l) PROVE InUse(l)'
    BY <1>0, <2>1, <2>2, <2>3 DEF InUse
  <2> QED
    BY <2>1, <2>2, <2>3, InformerKept DEF SameButCache
<1>3. CASE RemoveDrop(r)
  <2>1. /\ call[r].pc = "drop" /\ call[r].k \in Kinds /\ UNCHANGED informer
        /\ watched' = [watched EXCEPT ![call[r].k] = @ \ {r}]
        /\ watched[call[r].k] = {r} => call'[r].pc = "wait" /\ call'[r].k = call[r].k
    BY <1>3, WorkMoves DEF RemoveDrop, Moves, informing
  <2>2. \A l \in Kinds : watched'[l] # {} => watched[l] # {}
    BY <1>0, <2>1
  <2>3. ASSUME NEW l \in Kinds, InUse(l) PROVE InUse(l)'
    BY <1>0, <2>1, <2>3 DEF InUse
  <2> QED
    BY <2>1, <2>2, <2>3, InformerKept DEF SameButCache
<1>4. CASE RemoveInformer(r)
  <2> DEFINE off == [on |-> FALSE, handler |-> FALSE, reader |-> FALSE, cache |-> {}]
  <2>1. PICK k \in Kinds : k = call[r].k
    BY <1>4, WorkMoves
  <2>2. /\ call[r].pc = "wait" /\ UNCHANGED watched /\ watched[k] = {}
        /\ Running => ~Replaying(k)
        /\ informer' = [informer EXCEPT ![k] = off]
    BY <1>4, <2>1 DEF RemoveInformer, CallInv, Running
  <2>3. ~off.on /\ ~off.handler /\ ~off.reader
    OBVIOUS
  <2> HIDE DEF off
  <2>4. /\ ~informer'[k].on /\ ~informer'[k].handler /\ ~informer'[k].reader
        /\ \A l \in Kinds : l # k => informer'[l] = informer[l]
    BY <1>0, <2>2, <2>3
  <2>5. ASSUME NEW l \in Kinds, InUse(l), l # k PROVE InUse(l)'
    BY <1>0, <2>1, <2>2, <2>5 DEF InUse
  <2>6. ASSUME Running, NEW g \in Replays, replay[g].pc # "none" PROVE replay[g].k # k
    BY <2>2, <2>6 DEF Replaying
  <2>7. ASSUME Running', NEW g \in Replays, replay'[g].pc # "none"
        PROVE  \E l \in Kinds : replay'[g].k = l /\ InUse(l)'
    <3>1. PICK l \in Kinds : replay[g].k = l
      BY <1>0, <2>7
    <3>2. InUse(l) /\ l # k
      BY <2>6, <2>7, <3>1 DEF InformerInv
    <3> QED
      BY <2>5, <3>1, <3>2
  <2>8. ASSUME NEW l \in Kinds PROVE Needed(l)'
    BY <2>2, <2>4, <2>5, <2>8 DEF InformerInv, Needed
  <2> QED
    BY <2>7, <2>8 DEF InformerInv, InUse
<1>5. CASE UNCHANGED <<informer, watched>> /\ call[r].pc # "wait"
  <2>1. ASSUME NEW l \in Kinds, InUse(l) PROVE InUse(l)'
    BY <1>0, <1>5, <2>1 DEF InUse
  <2> QED
    BY <1>5, <2>1, InformerKept DEF SameButCache
<1> QED
  BY <1>1, <1>2, <1>3, <1>4, <1>5, WatchesKept

LEMMA InformersKept ==
  ASSUME Background, \A g \in Replays : ~ReplayList(g), \A k \in Kinds : ~ReaderGet(k),
         \A o \in Objects, there \in BOOLEAN : ~CacheChange(o, there)
  PROVE  UNCHANGED informer
BY DEF Background, LoopStep, LoopCancel, LoopIgnore, LoopStart, LoopExit, ReplayListFails, ReplaySend,
   ReplayDone, EventStep, EventTake, EventRead, EventSend, EventDone, Start, Stop, informing

LEMMA NextBackground == Background => [Next]_vars
BY DEF Background, Next

\* An informer runs only for kinds in use, because replays list only those, or
\* because a controller read the kind.
LEMMA InformerInvStep ==
  ASSUME TypeOK, LockInv, CallInv, LoopInv, InformerInv, [Next]_vars
  PROVE  InformerInv'
<1>0. /\ TypeInv /\ watched \in [Kinds -> SUBSET Registrars] /\ informer \in [Kinds -> InformerType]
      /\ Running' => Running
      /\ \A g \in Replays : replay[g].pc # "none" => replay[g].k \in Kinds
  BY RunningBefore DEF TypeOK, TypeInv, Working
<1>1. CASE UNCHANGED vars
  <2>1. UNCHANGED <<watched, call, informer, replay>>
    BY <1>1 DEF vars, calling, informing, replaying
  <2> QED
    BY <1>0, <2>1, InformerKept DEF InUse, SameButCache
<1>2. ASSUME NEW r \in Registrars, Invoke(r) \/ Acquire(r) \/ Work(r) PROVE InformerInv'
  <2>1. UNCHANGED <<replay, phase>>
    BY <1>2 DEF Invoke, NewRegistrar, AddWatch, RemoveWatch, ReplaceWatch, RemoveRegistrar, Begin, Acquire,
       Work, AddSkip, AddFirst, AddJoin, RemoveSkip, RemoveStart, MarkWatched, RemoveDrop, RemoveInformer,
       SendRequest, SendStopped, Release, replaying
  <2> QED
    BY <1>0, <1>2, <2>1, InformerCallStep
<1>3. CASE Background
  <2>1. UNCHANGED <<watched, call>>
    BY <1>3, BackgroundKeeps
  <2>2. ASSUME NEW k \in Kinds, InUse(k) PROVE InUse(k)'
    BY <2>1, <2>2 DEF InUse
  <2>3. CASE \A k \in Kinds : SameButCache(k)
    <3>k. ASSUME \A g \in Replays : replay'[g].pc # "none" => replay[g].pc # "none" /\ replay'[g].k = replay[g].k
          PROVE  InformerInv'
      BY <1>0, <2>1, <2>2, <2>3, <3>k, InformerKept
    <3>1. CASE UNCHANGED replay
      BY <3>1, <3>k
    <3>2. CASE LoopCancel
      BY <3>2, <3>k, LoopCancelStep DEF Becomes
    <3>3. ASSUME NEW g \in Replays, NEW pc, NEW todo, NEW canceled, replay[g].pc # "none",
                 Ends(g) \/ Becomes(g, pc, replay[g].r, replay[g].k, todo, canceled)
          PROVE  InformerInv'
      BY <3>3, <3>k, NoGoroutineType DEF Becomes, Ends
    <3>4. ASSUME NEW g \in Replays, ReplayList(g) \/ ReplayListFails(g) \/ ReplayDone(g) PROVE InformerInv'
      BY <3>3, <3>4, ReplayListStep, ReplayListFailsStep, ReplayDoneStep
    <3>5. ASSUME NEW g \in Replays, NEW o \in Objects, ReplaySend(g, o) PROVE InformerInv'
      BY <3>3, <3>5, ReplaySendStep
    <3>6. ASSUME NEW g \in Replays, LoopStart(g) PROVE InformerInv'
      <4>1. /\ loop.pc = "request" /\ loop.r \in Registrars /\ replay'[g].k = loop.k
            /\ \A h \in Replays : h # g => replay'[h] = replay[h]
        BY <3>6, LoopStartStep DEF Becomes
      <4>2. PICK l \in Kinds : l = loop.k
        BY <4>1 DEF TypeOK, Working
      <4>3. Running => watched[l] # {}
        BY <4>1, <4>2 DEF LoopInv, CallInv, Joining
      <4>4. ASSUME Running', NEW h \in Replays, replay'[h].pc # "none"
            PROVE  \E m \in Kinds : replay'[h].k = m /\ InUse(m)'
        <5>1. CASE h = g
          BY <1>0, <2>1, <4>1, <4>2, <4>3, <4>4, <5>1 DEF InUse
        <5>2. CASE h # g
          <6>1. PICK m \in Kinds : replay[h].k = m
            BY <1>0, <4>1, <4>4, <5>2
          <6>2. InUse(m)
            BY <1>0, <4>1, <4>4, <5>2, <6>1 DEF InformerInv
          <6> QED
            BY <2>2, <4>1, <5>2, <6>1, <6>2
        <5> QED
          BY <5>1, <5>2
      <4>5. ASSUME NEW k \in Kinds PROVE Needed(k)'
        BY <1>0, <2>1, <2>2, <2>3, <4>5 DEF InformerInv, Needed, SameButCache
      <4> QED
        BY <4>4, <4>5 DEF InformerInv, InUse
    <3> QED
      BY <1>3, <3>1, <3>2, <3>4, <3>5, <3>6, ReplaysKept, NextBackground DEF ReplayStep
  <2>4. ASSUME NEW g \in Replays, ReplayList(g) PROVE InformerInv'
    <3>1. PICK l \in Kinds : l = replay[g].k
      BY <2>4, ReplayListStep
    <3>2. /\ replay[g].pc # "none" /\ informer' = [informer EXCEPT ![l].on = TRUE]
          /\ \A h \in Replays : replay'[h].pc # "none" => replay[h].pc # "none" /\ replay'[h].k = replay[h].k
      BY <2>4, <3>1, ReplayListStep DEF Becomes
    <3>3. /\ informer'[l].handler = informer[l].handler /\ informer'[l].on
          /\ informer'[l].reader = informer[l].reader
          /\ \A k \in Kinds : k # l => informer'[k] = informer[k]
      BY <1>0, <3>2 DEF InformerType
    <3>4. Running => InUse(l)
      BY <3>1, <3>2 DEF InformerInv
    <3>5. ASSUME NEW k \in Kinds PROVE Needed(k)'
      BY <1>0, <2>1, <2>2, <3>3, <3>4, <3>5 DEF InformerInv, Needed
    <3>6. ASSUME Running', NEW h \in Replays, replay'[h].pc # "none"
          PROVE  \E m \in Kinds : replay'[h].k = m /\ InUse(m)'
      <4>1. PICK m \in Kinds : replay[h].k = m
        BY <1>0, <3>2, <3>6
      <4>2. InUse(m)
        BY <1>0, <3>2, <3>6, <4>1 DEF InformerInv
      <4> QED
        BY <2>2, <3>2, <3>6, <4>1, <4>2
    <3> QED
      BY <3>5, <3>6 DEF InformerInv, InUse
  <2>5. ASSUME NEW o \in Objects, NEW there \in BOOLEAN, CacheChange(o, there)
        PROVE  \A k \in Kinds : SameButCache(k)
    BY <1>0, <2>5, WatchAssumption DEF CacheChange, InformerType, SameButCache
  <2>6. ASSUME NEW l \in Kinds, ReaderGet(l) PROVE InformerInv'
    <3>1. /\ informer' = [informer EXCEPT ![l].on = TRUE, ![l].reader = TRUE]
          /\ UNCHANGED <<phase, replay>> /\ ~informer[l].on
      BY <2>6 DEF ReaderGet, replaying
    <3>2. /\ informer'[l].handler = informer[l].handler /\ informer'[l].on /\ informer'[l].reader
          /\ \A k \in Kinds : k # l => informer'[k] = informer[k]
      BY <1>0, <3>1 DEF InformerType
    <3>3. ASSUME NEW k \in Kinds PROVE Needed(k)'
      BY <1>0, <2>1, <2>2, <3>1, <3>2, <3>3 DEF InformerInv, Needed
    <3> QED
      BY <1>0, <2>1, <2>2, <3>1, <3>3 DEF InformerInv, InUse
  <2> QED
    BY <1>3, <2>3, <2>4, <2>5, <2>6, InformersKept DEF SameButCache
<1> QED
  BY <1>1, <1>2, <1>3, StepCases

-------------------------------------------------------------------------------
\* Changes on their way

\* Both invariants, for one registrar and object.
Due(o, r) ==
  /\ r \in Concerned(KindOf[o])
  /\ Running =>
       /\ o \notin informer[KindOf[o]].cache => ByEvent(o, r)
       /\ KindOf[o] \in intent[r] => ByEvent(o, r) \/ ByReplay(o, r) \/ <<r, KindOf[o]>> \in gaveUp

LEMMA AllDue == OwedInv /\ LiveInv <=> \A r \in Registrars : \A o \in owed[r] : Due(o, r)
BY DEF OwedInv, LiveInv, Due

\* What a step must respect.
LEMMA DueKept ==
  ASSUME NEW o \in Objects, NEW q \in Registrars, Due(o, q), Running' => Running,
         q \in Concerned(KindOf[o])',
         Running' =>
           /\ KindOf[o] \in intent'[q] => KindOf[o] \in intent[q]
           /\ o \in informer[KindOf[o]].cache => o \in informer'[KindOf[o]].cache \/ ByEvent(o, q)'
           /\ ByEvent(o, q) => ByEvent(o, q)'
           /\ ByReplay(o, q) =>
                \/ KindOf[o] \notin intent'[q] \/ ByEvent(o, q)' \/ ByReplay(o, q)'
                \/ <<q, KindOf[o]>> \in gaveUp'
           /\ <<q, KindOf[o]>> \in gaveUp => <<q, KindOf[o]>> \in gaveUp'
  PROVE  Due(o, q)'
BY DEF Due

\* A step of a call that sends nothing to the loop.
LEMMA DueCalm ==
  ASSUME NEW r \in Registrars, NEW o \in Objects, NEW q \in Registrars, Due(o, q),
         UNCHANGED <<intent, informer, events, dist, loop, replay, gaveUp, phase>>,
         \A p \in Registrars : p # r => call'[p] = call[p],
         call[r].pc # "request", call[r].pc = "mark" => r \in watched'[call[r].k],
         q \in watched[KindOf[o]] => q \in watched'[KindOf[o]]
  PROVE  Due(o, q)'
<1>1. q \in Concerned(KindOf[o])'
  BY DEF Due, Concerned
<1>2. ByReplay(o, q) => ByReplay(o, q)'
  BY DEF ByReplay, Brings, Live
<1>3. ByEvent(o, q) => ByEvent(o, q)'
  BY DEF ByEvent
<1>4. Running' => Running
  BY DEF Running
<1> QED
  BY <1>1, <1>2, <1>3, <1>4, DueKept

LEMMA DueBegin ==
  ASSUME WatchedInv, NEW r \in Registrars,
         NEW verb, NEW wants, NEW rem, NEW add, Begins(r, verb, wants, rem, add),
         NEW o \in Objects, NEW q \in Registrars, Due(o, q)
  PROVE  Due(o, q)'
<1>1. /\ \A p \in Registrars : p # r => call'[p] = call[p] /\ intent'[p] = intent[p]
      /\ call[r].pc = "idle" /\ call'[r].pc = "lock"
      /\ UNCHANGED <<watched, phase, informer, events, dist, loop, replay, gaveUp>>
  BY DEF Begins, Began
<1>2. q \in Concerned(KindOf[o])'
  BY <1>1 DEF Due, Concerned
<1>3. ByReplay(o, q) => ByReplay(o, q)'
  BY <1>1 DEF ByReplay, Brings, Live
<1>4. ByEvent(o, q) => ByEvent(o, q)'
  BY <1>1 DEF ByEvent
<1>5. KindOf[o] \in intent'[q] => KindOf[o] \in intent[q]
  <2>1. CASE q = r
    <3>1. q \in watched[KindOf[o]] /\ KindOf[o] \in Kinds
      BY <1>1, <2>1, WatchAssumption DEF Due, Concerned
    <3> QED
      BY <1>1, <2>1, <3>1 DEF WatchedInv, ToRemove
  <2> QED
    BY <1>1, <2>1
<1>6. Running' => Running
  BY <1>1 DEF Running
<1> QED
  BY <1>1, <1>2, <1>3, <1>4, <1>5, <1>6, DueKept

\* A first watcher is sent what the informer holds.
LEMMA DueFirst ==
  ASSUME TypeOK, CacheInv, NEW r \in Registrars, NEW k \in Kinds, AddFirst(r, k),
         NEW q \in Registrars, NEW o \in owed'[q],
         o \in owed[q] => Due(o, q)
  PROVE  Due(o, q)'
<1>0. /\ watched \in [Kinds -> SUBSET Registrars] /\ informer \in [Kinds -> InformerType]
      /\ events \in [Objects -> Nat] /\ owed \in [Registrars -> SUBSET Objects]
  BY DEF TypeOK, TypeInv
<1>1. /\ \A p \in Registrars : p # r => call'[p] = call[p]
      /\ call[r].pc = "work" /\ call'[r].pc = "work"
  BY WorkMoves DEF Moves
<1>2. /\ UNCHANGED <<intent, dist, loop, replay, gaveUp, phase>>
      /\ watched' = [watched EXCEPT ![k] = {r}] /\ watched[k] = {}
      /\ informer' = [informer EXCEPT ![k].on = TRUE, ![k].handler = TRUE, ![k].reader = FALSE]
      /\ events' = [x \in Objects |-> IF x \in informer[k].cache THEN events[x] + 1 ELSE events[x]]
      /\ owed' = [owed EXCEPT ![r] = (@ \ ObjectsOf(k)) \cup informer[k].cache]
  BY DEF AddFirst, records, replaying
<1>3. /\ \A l \in Kinds : informer'[l].cache = informer[l].cache
      /\ informer[k].cache \subseteq Objects
  BY <1>0, <1>2 DEF InformerType
<1>4. o \in owed[q] \/ (q = r /\ o \in informer[k].cache)
  BY <1>0, <1>2
<1>5. o \in Objects /\ KindOf[o] \in Kinds
  BY <1>0, <1>3, <1>4, WatchAssumption
<1>6. \A x \in Objects : events[x] > 0 => events'[x] > 0
  BY <1>0, <1>2
<1>7. CASE o \in owed[q]
  <2>1. q \in Concerned(KindOf[o])'
    BY <1>0, <1>1, <1>2, <1>5, <1>7 DEF Due, Concerned
  <2>2. ByReplay(o, q) => ByReplay(o, q)'
    BY <1>1, <1>2 DEF ByReplay, Brings, Live
  <2>3. ByEvent(o, q) => ByEvent(o, q)'
    BY <1>2, <1>5, <1>6 DEF ByEvent
  <2>4. Running' => Running
    BY <1>2 DEF Running
  <2> QED
    BY <1>2, <1>3, <1>5, <1>7, <2>1, <2>2, <2>3, <2>4, DueKept
<1>8. CASE q = r /\ o \in informer[k].cache
  <2>1. KindOf[o] = k /\ r \in watched'[k]
    BY <1>0, <1>2, <1>8 DEF CacheInv
  <2>2. q \in Concerned(KindOf[o])'
    BY <1>8, <2>1 DEF Concerned
  <2>3. events[o] \in Nat /\ events'[o] = events[o] + 1
    BY <1>0, <1>2, <1>5, <1>8
  <2>4. ByEvent(o, q)'
    BY <2>3 DEF ByEvent
  <2> QED
    BY <2>2, <2>4 DEF Due
<1> QED
  BY <1>4, <1>7, <1>8

\* One that joins has asked for a replay of it.
LEMMA DueJoin ==
  ASSUME TypeOK, CacheInv, NEW r \in Registrars, NEW k \in Kinds, AddJoin(r, k),
         NEW q \in Registrars, NEW o \in owed'[q],
         o \in owed[q] => Due(o, q)
  PROVE  Due(o, q)'
<1>0. /\ informer \in [Kinds -> InformerType] /\ owed \in [Registrars -> SUBSET Objects]
  BY DEF TypeOK, TypeInv
<1>1. /\ \A p \in Registrars : p # r => call'[p] = call[p]
      /\ call[r].pc = "work" /\ call'[r].pc = "request" /\ call'[r].k = k
  BY WorkMoves DEF Moves
<1>2. /\ UNCHANGED <<intent, watched, informer, events, dist, loop, replay, phase>>
      /\ gaveUp' = gaveUp \ {<<r, k>>}
      /\ owed' = [owed EXCEPT ![r] = (@ \ ObjectsOf(k)) \cup informer[k].cache]
  BY DEF AddJoin, records, informing
<1>3. informer[k].cache \subseteq Objects
  BY <1>0 DEF InformerType
<1>4. \/ o \in owed[q] /\ (q = r => o \notin ObjectsOf(k))
      \/ q = r /\ o \in informer[k].cache
  BY <1>0, <1>2
<1>5. o \in Objects
  BY <1>0, <1>3, <1>4
<1>7. CASE o \in owed[q] /\ (q = r => o \notin ObjectsOf(k))
  <2>1. q \in Concerned(KindOf[o])'
    BY <1>1, <1>2, <1>7 DEF Due, Concerned
  <2>2. ByReplay(o, q) => ByReplay(o, q)'
    BY <1>1, <1>2 DEF ByReplay, Brings, Live
  <2>3. ByEvent(o, q) => ByEvent(o, q)'
    BY <1>2 DEF ByEvent
  <2>4. Running' => Running
    BY <1>2 DEF Running
  <2>5. <<q, KindOf[o]>> # <<r, k>>
    BY <1>5, <1>7 DEF ObjectsOf
  <2> QED
    BY <1>2, <1>5, <1>7, <2>1, <2>2, <2>3, <2>4, <2>5, DueKept
<1>8. CASE q = r /\ o \in informer[k].cache
  <2>1. KindOf[o] = k
    BY <1>8 DEF CacheInv
  <2>2. q \in Concerned(KindOf[o])' /\ ByReplay(o, q)'
    BY <1>1, <1>8, <2>1 DEF Concerned, ByReplay
  <2> QED
    BY <1>2, <1>8, <2>1, <2>2 DEF Due
<1> QED
  BY <1>4, <1>7, <1>8

\* The loop takes over a request; a cancellation is of a kind no longer intended.
LEMMA DueSend ==
  ASSUME TypeOK, CallInv, NEW r \in Registrars, SendRequest(r),
         NEW o \in Objects, NEW q \in Registrars, Due(o, q)
  PROVE  Due(o, q)'
<1>1. /\ \A p \in Registrars : p # r => call'[p] = call[p]
      /\ call[r].pc \in {"request", "cancel"} /\ call[r].k \in Kinds /\ call'[r].k = call[r].k
      /\ call'[r].pc = IF call[r].pc = "request" THEN "mark" ELSE "drop"
  BY WorkMoves DEF Moves
<1>2. /\ UNCHANGED <<intent, watched, informer, events, dist, replay, gaveUp, phase>>
      /\ loop.pc = "idle" /\ loop' = [pc |-> call[r].pc, r |-> r, k |-> call[r].k]
  BY DEF SendRequest, records, informing
<1>3. loop'.pc = call[r].pc /\ loop'.r = r /\ loop'.k = call[r].k
  BY <1>2
<1>4. q \in Concerned(KindOf[o])'
  BY <1>1, <1>2 DEF Due, Concerned
<1>5. ASSUME ByReplay(o, q), KindOf[o] \in intent[q] PROVE ByReplay(o, q)'
  <2>1. CASE call[q].pc = "request" /\ call[q].k = KindOf[o]
    BY <1>1, <1>3, <2>1 DEF ByReplay
  <2>2. ASSUME NEW g \in Replays, Brings(g, o, q) PROVE ByReplay(o, q)'
    <3>1. Live(g) /\ replay[g].r = q /\ replay[g].k = KindOf[o]
      BY <2>2 DEF Brings
    <3>2. ~(loop'.pc = "cancel" /\ loop'.r = q /\ loop'.k = KindOf[o])
      BY <1>1, <1>3, <1>5 DEF CallInv, Leaving
    <3>3. Brings(g, o, q)'
      BY <1>2, <2>2, <3>1, <3>2 DEF Brings, Live
    <3> QED
      BY <3>3 DEF ByReplay
  <2> QED
    BY <1>2, <1>5, <2>1, <2>2 DEF ByReplay
<1>6. ByEvent(o, q) => ByEvent(o, q)'
  BY <1>2 DEF ByEvent
<1>7. Running' => Running
  BY <1>2 DEF Running
<1> QED
  BY <1>2, <1>4, <1>5, <1>6, <1>7, DueKept

\* The informer is removed when nobody waits for what it sees.
LEMMA DueInformer ==
  ASSUME TypeOK, LockInv, CallInv, NEW r \in Registrars, RemoveInformer(r),
         NEW o \in Objects, NEW q \in Registrars, Due(o, q)
  PROVE  Due(o, q)'
<1>1. /\ \A p \in Registrars : p # r => call'[p] = call[p]
      /\ call[r].pc = "wait" /\ call[r].k \in Kinds /\ call'[r].pc = "work"
  BY WorkMoves DEF Moves
<1>2. /\ UNCHANGED <<intent, watched, events, dist, loop, replay, gaveUp, phase>>
      /\ informer' = [informer EXCEPT ![call[r].k] =
                        [on |-> FALSE, handler |-> FALSE, reader |-> FALSE, cache |-> {}]]
  BY DEF RemoveInformer, records, replaying
<1>3. q \in watched[KindOf[o]] \/ (call[q].pc \in {"request", "mark"} /\ call[q].k = KindOf[o])
  BY DEF Due, Concerned
<1>4. KindOf[o] # call[r].k
  <2>1. watched[call[r].k] = {}
    BY <1>1 DEF CallInv
  <2>2. call[q].pc \notin {"request", "mark"}
    BY <1>1, Alone
  <2> QED
    BY <1>3, <2>1, <2>2
<1>5. informer'[KindOf[o]] = informer[KindOf[o]]
  BY <1>2, <1>4, WatchAssumption DEF TypeOK, TypeInv
<1>6. q \in Concerned(KindOf[o])'
  BY <1>1, <1>2 DEF Due, Concerned
<1>7. ByReplay(o, q) => ByReplay(o, q)'
  BY <1>1, <1>2 DEF ByReplay, Brings, Live
<1>8. ByEvent(o, q) => ByEvent(o, q)'
  BY <1>2 DEF ByEvent
<1>9. Running' => Running
  BY <1>2 DEF Running
<1> QED
  BY <1>2, <1>5, <1>6, <1>7, <1>8, <1>9, DueKept

LEMMA DueCallStep ==
  ASSUME TypeOK, LockInv, CallInv, WatchedInv, CacheInv,
         \A q \in Registrars : \A o \in owed[q] : Due(o, q),
         NEW r \in Registrars, Invoke(r) \/ Acquire(r) \/ Work(r),
         NEW q \in Registrars, NEW o \in owed'[q]
  PROVE  Due(o, q)'
<1>0. /\ TypeInv /\ watched \in [Kinds -> SUBSET Registrars] /\ owed \in [Registrars -> SUBSET Objects]
      /\ \A p \in Registrars : p # r => call'[p] = call[p]
      /\ \A x \in Objects : KindOf[x] \in Kinds
  BY OtherStep, WatchAssumption DEF TypeOK, TypeInv
<1>a. o \in owed[q] => o \in Objects
  BY <1>0
<1>c. ASSUME o \in owed[q], UNCHANGED <<intent, informer, events, dist, loop, replay, gaveUp, phase>>,
             call[r].pc # "request", call[r].pc = "mark" => r \in watched'[call[r].k],
             q \in watched[KindOf[o]] => q \in watched'[KindOf[o]]
      PROVE  Due(o, q)'
  BY <1>0, <1>a, <1>c, DueCalm
<1>1. CASE NewRegistrar(r)
  <2>1. call[r] = NoCall /\ NoCall.pc = "idle"
    BY <1>1 DEF NewRegistrar, NoCall
  <2> QED
    BY <1>1, <1>c, <2>1 DEF NewRegistrar, informing, replaying
<1>2. ASSUME NEW verb, NEW wants, NEW rem, NEW add, Begins(r, verb, wants, rem, add) PROVE Due(o, q)'
  <2>1. UNCHANGED owed
    BY <1>2 DEF Begins, Began
  <2> QED
    BY <1>a, <1>2, <2>1, DueBegin
<1>3. CASE Acquire(r) \/ Release(r)
  BY <1>c, <1>3 DEF Acquire, Release, records, informing, replaying
<1>4. ASSUME NEW k \in Kinds, AddSkip(r, k) \/ RemoveSkip(r, k) PROVE Due(o, q)'
  BY <1>c, <1>4 DEF AddSkip, Adding, RemoveSkip, records, informing, replaying
<1>5. ASSUME NEW k \in Kinds, AddFirst(r, k) PROVE Due(o, q)'
  BY <1>5, DueFirst
<1>6. ASSUME NEW k \in Kinds, AddJoin(r, k) PROVE Due(o, q)'
  BY <1>6, DueJoin
<1>7. CASE MarkWatched(r)
  <2>1. call[r].k \in Kinds /\ call[r].pc = "mark"
    BY <1>7, WorkMoves
  <2>2. /\ watched' = [watched EXCEPT ![call[r].k] = @ \cup {r}]
        /\ UNCHANGED <<intent, informer, events, dist, loop, replay, gaveUp, phase, owed>>
    BY <1>7 DEF MarkWatched, records, informing, replaying
  <2>3. r \in watched'[call[r].k] /\ \A k \in Kinds : q \in watched[k] => q \in watched'[k]
    BY <1>0, <2>1, <2>2
  <2> QED
    BY <1>0, <1>a, <1>c, <2>1, <2>2, <2>3
<1>8. ASSUME NEW k \in Kinds, RemoveStart(r, k) PROVE Due(o, q)'
  BY <1>c, <1>8 DEF RemoveStart, records, informing
<1>9. CASE RemoveDrop(r)
  <2>1. call[r].k \in Kinds /\ call[r].pc = "drop"
    BY <1>9, WorkMoves
  <2>2. /\ watched' = [watched EXCEPT ![call[r].k] = @ \ {r}]
        /\ owed' = [owed EXCEPT ![r] = @ \ ObjectsOf(call[r].k)]
        /\ UNCHANGED <<intent, informer, events, dist, loop, replay, gaveUp, phase>>
    BY <1>9 DEF RemoveDrop, records, informing, replaying
  <2>3. o \in owed[q] /\ (q = r => o \notin ObjectsOf(call[r].k))
    BY <1>0, <2>2
  <2>4. q = r => KindOf[o] # call[r].k
    BY <1>a, <2>3 DEF ObjectsOf
  <2>5. q \in watched[KindOf[o]] => q \in watched'[KindOf[o]]
    BY <1>0, <1>a, <2>1, <2>2, <2>3, <2>4
  <2> QED
    BY <1>c, <2>1, <2>2, <2>3, <2>5
<1>10. CASE RemoveInformer(r)
  <2>1. UNCHANGED owed
    BY <1>10 DEF RemoveInformer
  <2> QED
    BY <1>a, <1>10, <2>1, DueInformer
<1>11. CASE SendRequest(r)
  <2>1. UNCHANGED owed
    BY <1>11 DEF SendRequest
  <2> QED
    BY <1>a, <1>11, <2>1, DueSend
<1>12. CASE SendStopped(r)
  <2>1. /\ phase = "stopped" /\ UNCHANGED <<phase, owed, watched>>
        /\ call[r].pc \in {"request", "cancel"} /\ call'[r].k = call[r].k
        /\ call'[r].pc = IF call[r].pc = "request" THEN "mark" ELSE "drop"
    BY <1>12, WorkMoves DEF SendStopped, Moves
  <2>2. q \in Concerned(KindOf[o]) /\ ~Running'
    BY <2>1 DEF Due, Running
  <2>3. q \in Concerned(KindOf[o])'
    BY <1>0, <2>1, <2>2 DEF Concerned
  <2> QED
    BY <2>2, <2>3 DEF Due
<1> QED
  BY <1>0, <1>1, <1>2, <1>3, <1>4, <1>5, <1>6, <1>7, <1>8, <1>9, <1>10, <1>11, <1>12, InvokeCases DEF Work

-------------------------------------------------------------------------------
\* The loop, the replays and the events carry what is due

\* The steps that leave calls alone, and events too.
LEMMA DueReplayed ==
  ASSUME UNCHANGED <<intent, watched, call, phase, events, dist>>,
         \A k \in Kinds : informer'[k].cache = informer[k].cache, gaveUp \subseteq gaveUp',
         NEW o \in Objects, NEW q \in Registrars, Due(o, q),
         Running /\ ByReplay(o, q) => \/ KindOf[o] \notin intent[q] \/ ByReplay(o, q)' \/ ByEvent(o, q)
                                      \/ <<q, KindOf[o]>> \in gaveUp'
  PROVE  Due(o, q)'
<1>1. q \in Concerned(KindOf[o])'
  BY DEF Due, Concerned
<1>2. ByEvent(o, q) => ByEvent(o, q)'
  BY DEF ByEvent
<1>3. Running' <=> Running
  BY DEF Running
<1>4. KindOf[o] \in Kinds
  BY WatchAssumption
<1> QED
  BY <1>1, <1>2, <1>3, <1>4, DueKept

\* The loop: what it cancels or ignores is not intended.
LEMMA DueLoop ==
  ASSUME TypeOK, CallInv, LoopInv, ReplayInv, LoopStep,
         NEW o \in Objects, NEW q \in Registrars, Due(o, q)
  PROVE  Due(o, q)'
<1>0. /\ replay \in [Replays -> ReplayType]
      /\ loop.pc \in {"request", "cancel"} => loop.r \in Registrars /\ loop.k \in Kinds
      /\ UNCHANGED <<intent, watched, call>>
  BY BackgroundKeeps DEF TypeOK, TypeInv, Working, Background
<1>1. UNCHANGED <<phase, informer, events, dist, gaveUp>>
  BY DEF LoopStep, LoopCancel, LoopIgnore, LoopStart, LoopExit, informing
<1>2. SUFFICES ASSUME Running, ByReplay(o, q), KindOf[o] \in intent[q] PROVE ByReplay(o, q)'
  BY <1>0, <1>1, DueReplayed
<1>3. ~LoopExit
  BY <1>2 DEF LoopExit, Running
<1>4. CASE call[q].pc = "request" /\ call[q].k = KindOf[o]
  BY <1>0, <1>4 DEF ByReplay
<1>5. CASE loop.pc = "request" /\ loop.r = q /\ loop.k = KindOf[o]
  <2>1. ~LoopCancel
    BY <1>5 DEF LoopCancel
  <2>2. ~LoopIgnore
    <3>1. /\ inProgress[<<loop.r, loop.k>>] = NoReplay
          /\ <<loop.r, loop.k>> \in wantReplay \/ (call[loop.r].pc = "cancel" /\ call[loop.r].k = loop.k)
      BY <1>2, <1>5 DEF LoopInv
    <3>2. ~(call[q].pc = "cancel" /\ call[q].k = KindOf[o])
      BY <1>2, WatchAssumption DEF CallInv, Leaving
    <3> QED
      BY <1>5, <3>1, <3>2 DEF LoopIgnore
  <2>3. PICK g \in Replays : LoopStart(g)
    BY <1>3, <2>1, <2>2 DEF LoopStep
  <2>4. /\ loop' = Idle /\ replay'[g].pc = "list" /\ replay'[g].r = q /\ replay'[g].k = KindOf[o]
        /\ replay'[g].canceled = FALSE
    BY <1>5, <2>3, LoopStartStep DEF Becomes
  <2>5. Brings(g, o, q)'
    BY <2>4, IdleType DEF Brings, Live
  <2> QED
    BY <2>5 DEF ByReplay
<1>6. ASSUME NEW h \in Replays, Brings(h, o, q) PROVE ByReplay(o, q)'
  <2>1. loop'.pc = "idle"
    BY <1>3, IdleType DEF LoopStep, LoopCancel, LoopIgnore, LoopStart
  <2>2. replay'[h] = replay[h]
    <3>1. CASE LoopCancel
      <4>1. PICK g \in Replays : /\ g = inProgress[<<loop.r, loop.k>>]
                                 /\ UNCHANGED replay \/ (replay[g].pc # "none" /\ \A x \in Replays : x # g => replay'[x] = replay[x])
        BY <3>1, LoopCancelStep DEF Becomes
      <4>2. loop.pc = "cancel" /\ loop.r \in Registrars /\ loop.k \in Kinds
        BY <3>1, LoopCancelStep
      <4>3. replay[g].pc # "none" => replay[g].r = loop.r /\ replay[g].k = loop.k
        BY <4>1, <4>2 DEF ReplayInv
      <4>4. replay[g].pc # "none" => h # g
        BY <1>6, <4>2, <4>3 DEF Brings, Live
      <4> QED
        BY <4>1, <4>4
    <3>2. CASE LoopIgnore
      BY <3>2 DEF LoopIgnore
    <3>3. ASSUME NEW g \in Replays, LoopStart(g) PROVE replay'[h] = replay[h]
      <4>1. replay[g].pc = "none" /\ \A x \in Replays : x # g => replay'[x] = replay[x]
        BY <3>3, LoopStartStep DEF Becomes
      <4>2. replay[h].pc # "none"
        BY <1>6 DEF Brings, Live
      <4> QED
        BY <4>1, <4>2
    <3> QED
      BY <1>3, <3>1, <3>2, <3>3 DEF LoopStep
  <2>3. Brings(h, o, q)'
    BY <1>6, <2>1, <2>2 DEF Brings, Live
  <2> QED
    BY <2>3 DEF ByReplay
<1> QED
  BY <1>2, <1>4, <1>5, <1>6 DEF ByReplay

\* A replay sends what it listed, and says so when it gives up.
LEMMA DueReplay ==
  ASSUME TypeOK, NEW g \in Replays,
         ReplayList(g) \/ ReplayListFails(g) \/ ReplayDone(g) \/ \E x \in Objects : ReplaySend(g, x),
         NEW q \in Registrars, NEW o \in owed'[q], o \in owed[q] => Due(o, q)
  PROVE  o \in owed[q] /\ Due(o, q)'
<1>0. /\ informer \in [Kinds -> InformerType] /\ owed \in [Registrars -> SUBSET Objects]
      /\ UNCHANGED <<intent, watched, call>>
  BY BackgroundKeeps DEF TypeOK, TypeInv, Background
<1>1. /\ UNCHANGED <<phase, events, dist, loop>> /\ gaveUp \subseteq gaveUp'
      /\ \A k \in Kinds : informer'[k].cache = informer[k].cache
  <2>1. CASE ReplayList(g)
    <3>1. /\ informer' = [informer EXCEPT ![replay[g].k].on = TRUE]
          /\ UNCHANGED <<phase, events, dist, loop, gaveUp>>
      BY <2>1, ReplayListStep
    <3>2. \A k \in Kinds : informer'[k].cache = informer[k].cache
      BY <1>0, <3>1 DEF InformerType
    <3> QED
      BY <3>1, <3>2
  <2>2. CASE ReplayListFails(g)
    <3>1. UNCHANGED <<phase, informer, events, dist, loop>> /\ gaveUp \subseteq gaveUp'
      BY <2>2, ReplayListFailsStep
    <3> QED
      BY <3>1
  <2>3. CASE ReplayDone(g)
    <3>1. UNCHANGED <<phase, informer, events, dist, loop, gaveUp>>
      BY <2>3, ReplayDoneStep
    <3> QED
      BY <3>1
  <2>4. ASSUME NEW x \in Objects, ReplaySend(g, x) PROVE UNCHANGED <<phase, informer, events, dist, loop, gaveUp>>
    BY <2>4, ReplaySendStep
  <2> QED
    BY <2>1, <2>2, <2>3, <2>4
<1>2. /\ o \in owed[q]
      /\ \A x \in Objects : ReplaySend(g, x) => o # x \/ q # replay[g].r
  <2>1. ASSUME NEW x \in Objects, ReplaySend(g, x) PROVE o \in owed[q] /\ (o # x \/ q # replay[g].r)
    <3>1. owed' = [owed EXCEPT ![replay[g].r] = @ \ {x}]
      BY <2>1 DEF ReplaySend
    <3> QED
      BY <1>0, <3>1
  <2>2. CASE ~\E x \in Objects : ReplaySend(g, x)
    BY <2>2, ReplayListStep, ReplayListFailsStep, ReplayDoneStep
  <2> QED
    BY <2>1, <2>2
<1>3. o \in Objects /\ Due(o, q)
  BY <1>0, <1>2
<1>4. \A h \in Replays : h # g => replay'[h] = replay[h]
  BY ReplayListStep, ReplayListFailsStep, ReplayDoneStep, ReplaySendStep DEF Becomes, Ends
<1>5. ASSUME Running, ByReplay(o, q)
      PROVE  ByReplay(o, q)' \/ ByEvent(o, q) \/ <<q, KindOf[o]>> \in gaveUp'
  <2>1. CASE \/ call[q].pc = "request" /\ call[q].k = KindOf[o]
             \/ loop.pc = "request" /\ loop.r = q /\ loop.k = KindOf[o]
    BY <1>0, <1>1, <2>1 DEF ByReplay
  <2>2. ASSUME NEW h \in Replays, Brings(h, o, q), h # g PROVE ByReplay(o, q)'
    <3>1. Brings(h, o, q)'
      BY <1>1, <1>4, <2>2 DEF Brings, Live
    <3> QED
      BY <3>1 DEF ByReplay
  <2>3. CASE Brings(g, o, q)
    <3>0. /\ replay[g].r = q /\ replay[g].k = KindOf[o] /\ ~replay[g].canceled
          /\ ~(loop.pc = "cancel" /\ loop.r = q /\ loop.k = KindOf[o])
          /\ replay[g].pc = "list" \/ o \in replay[g].todo
      BY <2>3 DEF Brings, Live
    <3>b. ASSUME NEW pc, NEW todo, Becomes(g, pc, replay[g].r, replay[g].k, todo, replay[g].canceled),
                 pc # "none", pc = "list" \/ o \in todo
          PROVE  ByReplay(o, q)'
      <4>1. Brings(g, o, q)'
        BY <1>1, <3>0, <3>b DEF Becomes, Brings, Live
      <4> QED
        BY <4>1 DEF ByReplay
    <3>1. CASE ReplayList(g)
      <4>1. o \in informer[KindOf[o]].cache \/ ByEvent(o, q)
        BY <1>3, <1>5 DEF Due
      <4> QED
        BY <3>0, <3>1, <3>b, <4>1, ReplayListStep
    <3>2. CASE ReplayListFails(g)
      <4>1. CASE Becomes(g, "list", replay[g].r, replay[g].k, replay[g].todo, replay[g].canceled)
        BY <3>b, <4>1
      <4>2. CASE <<replay[g].r, replay[g].k>> \in gaveUp'
        BY <3>0, <4>2
      <4> QED
        BY <3>0, <3>2, <4>1, <4>2, ReplayListFailsStep
    <3>3. CASE ReplayDone(g)
      BY <1>5, <3>0, <3>3, ReplayDoneStep DEF Running
    <3>4. ASSUME NEW x \in Objects, ReplaySend(g, x) PROVE ByReplay(o, q)'
      <4>1. replay[g].pc = "send" /\ o # x
        BY <1>2, <3>0, <3>4, ReplaySendStep
      <4>2. Becomes(g, "send", replay[g].r, replay[g].k, replay[g].todo \ {x}, replay[g].canceled)
        BY <3>4, ReplaySendStep
      <4>3. o \in replay[g].todo \ {x}
        BY <3>0, <4>1
      <4> QED
        BY <3>b, <4>2, <4>3
    <3> QED
      BY <3>1, <3>2, <3>3, <3>4
  <2> QED
    BY <1>5, <2>1, <2>2, <2>3 DEF ByReplay
<1> QED
  BY <1>0, <1>1, <1>2, <1>3, <1>5, DueReplayed

\* Every change of a kind that somebody watches or joins becomes an event.
LEMMA DueCache ==
  ASSUME TypeOK, CallInv, InformerInv, NEW c \in Objects, NEW there \in BOOLEAN, CacheChange(c, there),
         NEW q \in Registrars, NEW o \in owed'[q], o \in owed[q] => Due(o, q)
  PROVE  Due(o, q)'
<1>0. /\ informer \in [Kinds -> InformerType] /\ owed \in [Registrars -> SUBSET Objects]
      /\ events \in [Objects -> Nat] /\ KindOf[c] \in Kinds
      /\ UNCHANGED <<intent, watched, call>>
  BY BackgroundKeeps, WatchAssumption DEF TypeOK, TypeInv, Background
<1>1. /\ UNCHANGED <<phase, dist, loop, replay, gaveUp>>
      /\ informer' = [informer EXCEPT ![KindOf[c]].cache = IF there THEN @ \cup {c} ELSE @ \ {c}]
      /\ events' = IF informer[KindOf[c]].handler THEN [events EXCEPT ![c] = @ + 1] ELSE events
      /\ owed' = [r \in Registrars |-> IF r \in Concerned(KindOf[c]) THEN owed[r] \cup {c} ELSE owed[r]]
  BY DEF CacheChange, replaying
<1>2. \A x \in Objects : events[x] > 0 => events'[x] > 0
  BY <1>0, <1>1
<1>3. o \in owed[q] \/ (o = c /\ q \in Concerned(KindOf[c]))
  BY <1>0, <1>1
<1>4. o \in Objects
  BY <1>0, <1>3
<1>5. ASSUME o = c, q \in Concerned(KindOf[c]) PROVE Due(o, q)'
  <2>1. q \in Concerned(KindOf[o])'
    BY <1>0, <1>5 DEF Concerned
  <2>2. watched[KindOf[c]] # {}
    BY <1>0, <1>5 DEF Concerned, CallInv, Joining
  <2>3. informer[KindOf[c]].handler
    BY <1>0, <2>2 DEF InformerInv, Needed
  <2>4. events[c] \in Nat /\ events'[c] = events[c] + 1
    BY <1>0, <1>1, <2>3
  <2>5. ByEvent(o, q)'
    BY <1>5, <2>4 DEF ByEvent
  <2> QED
    BY <2>1, <2>5 DEF Due
<1>6. ASSUME o \in owed[q], o # c PROVE Due(o, q)'
  <2>1. q \in Concerned(KindOf[o])'
    BY <1>0, <1>6 DEF Due, Concerned
  <2>2. ByReplay(o, q) => ByReplay(o, q)'
    BY <1>0, <1>1 DEF ByReplay, Brings, Live
  <2>3. ByEvent(o, q) => ByEvent(o, q)'
    BY <1>1, <1>2, <1>4 DEF ByEvent
  <2>4. Running' => Running
    BY <1>1 DEF Running
  <2>5. o \in informer[KindOf[o]].cache => o \in informer'[KindOf[o]].cache
    <3>1. KindOf[o] \in Kinds
      BY <1>4, WatchAssumption
    <3>2. CASE KindOf[o] = KindOf[c]
      BY <1>0, <1>1, <1>6, <3>2 DEF InformerType
    <3>3. CASE KindOf[o] # KindOf[c]
      BY <1>0, <1>1, <3>1, <3>3
    <3> QED
      BY <3>2, <3>3
  <2> QED
    BY <1>0, <1>1, <1>4, <1>6, <2>1, <2>2, <2>3, <2>4, <2>5, DueKept
<1>7. ASSUME o \in owed[q], o = c PROVE q \in Concerned(KindOf[c])
  BY <1>7 DEF Due
<1> QED
  BY <1>3, <1>5, <1>6, <1>7

\* The watchers of an event are read when nobody is joining.
LEMMA DueEvent ==
  ASSUME TypeOK, LockInv, EventStep,
         NEW q \in Registrars, NEW o \in owed'[q], o \in owed[q] => Due(o, q)
  PROVE  Due(o, q)'
<1>0. /\ owed \in [Registrars -> SUBSET Objects] /\ events \in [Objects -> Nat]
      /\ dist \in DistType /\ UNCHANGED <<intent, watched, call>>
      /\ dist.pc # "idle" => dist.o \in Objects
  BY BackgroundKeeps DEF TypeOK, TypeInv, Background, Working
<1>1. UNCHANGED <<phase, informer, loop, replay, gaveUp>>
  BY DEF EventStep, EventTake, EventRead, EventSend, EventDone, replaying
<1>2. o \in owed[q] /\ \A r \in Registrars : EventSend(r) => q # r \/ o # dist.o
  <2>1. CASE \E r \in Registrars : EventSend(r)
    BY <1>0, <2>1 DEF EventSend
  <2>2. CASE ~\E r \in Registrars : EventSend(r)
    BY <2>2 DEF EventStep, EventTake, EventRead, EventDone
  <2> QED
    BY <2>1, <2>2
<1>3. o \in Objects /\ Due(o, q)
  BY <1>0, <1>2
<1>4. ASSUME Running, ByEvent(o, q) PROVE ByEvent(o, q)'
  <2>1. ASSUME NEW x \in Objects, EventTake(x) PROVE ByEvent(o, q)'
    <3>1. /\ events' = [events EXCEPT ![x] = @ - 1] /\ dist'.pc = "read" /\ dist'.o = x
          /\ dist.pc = "idle" /\ dist.todo = {}
      BY <2>1, NoEventType DEF EventTake
    <3>2. events[o] > 0
      BY <1>4, <3>1 DEF ByEvent
    <3> QED
      BY <1>0, <1>3, <3>1, <3>2 DEF ByEvent
  <2>2. CASE EventRead
    <3>1. /\ dist.pc = "read" /\ lock = NoRegistrar /\ UNCHANGED events
          /\ dist'.o = dist.o /\ dist'.todo = watched[KindOf[dist.o]]
      BY <1>0, <2>2 DEF EventRead, DistType
    <3>2. q \in watched[KindOf[o]]
      BY <1>3, <3>1, WatchAssumption DEF Due, Concerned, LockInv
    <3> QED
      BY <1>4, <3>1, <3>2 DEF ByEvent
  <2>3. ASSUME NEW r \in Registrars, EventSend(r) PROVE ByEvent(o, q)'
    <3>1. /\ UNCHANGED events /\ dist.pc = "send" /\ dist'.pc = "send" /\ dist'.o = dist.o
          /\ dist'.todo = dist.todo \ {r}
      BY <1>0, <2>3 DEF EventSend, DistType
    <3> QED
      BY <1>2, <1>4, <2>3, <3>1 DEF ByEvent
  <2>4. CASE EventDone
    BY <1>4, <2>4 DEF EventDone, ByEvent, Running
  <2> QED
    BY <2>1, <2>2, <2>3, <2>4 DEF EventStep
<1>5. q \in Concerned(KindOf[o])'
  BY <1>0, <1>3 DEF Due, Concerned
<1>6. ByReplay(o, q) => ByReplay(o, q)'
  BY <1>0, <1>1 DEF ByReplay, Brings, Live
<1>7. Running' <=> Running
  BY <1>1 DEF Running
<1> QED
  BY <1>0, <1>1, <1>3, <1>4, <1>5, <1>6, <1>7, DueKept

LEMMA CacheInvStep ==
  ASSUME TypeOK, CacheInv, [Next]_vars
  PROVE  CacheInv'
<1>0. informer \in [Kinds -> InformerType]
  BY DEF TypeOK, TypeInv
<1>1. ASSUME \A k \in Kinds : informer'[k].cache \subseteq informer[k].cache PROVE CacheInv'
  BY <1>1 DEF CacheInv
<1>2. CASE UNCHANGED informer
  BY <1>2 DEF CacheInv
<1>3. ASSUME NEW r \in Registrars, Invoke(r) \/ Acquire(r) \/ Work(r) PROVE CacheInv'
  <2>1. ASSUME NEW k \in Kinds, AddFirst(r, k) PROVE CacheInv'
    BY <1>0, <1>1, <2>1 DEF AddFirst, InformerType
  <2>2. CASE RemoveInformer(r)
    BY <1>0, <1>1, <2>2 DEF RemoveInformer
  <2>3. CASE MarkWatched(r) \/ RemoveDrop(r)
    BY <1>2, <2>3 DEF MarkWatched, RemoveDrop, informing
  <2> QED
    BY <1>2, <1>3, <2>1, <2>2, <2>3, WatchesKept
<1>4. ASSUME NEW g \in Replays, ReplayList(g) PROVE CacheInv'
  BY <1>0, <1>1, <1>4 DEF ReplayList, InformerType
<1>5. ASSUME NEW o \in Objects, NEW there \in BOOLEAN, CacheChange(o, there) PROVE CacheInv'
  <2>1. ASSUME NEW k \in Kinds, NEW x \in informer'[k].cache PROVE x \in informer[k].cache \/ (x = o /\ k = KindOf[o])
    BY <1>0, <1>5, <2>1, WatchAssumption DEF CacheChange, InformerType
  <2> QED
    BY <2>1 DEF CacheInv
<1>6. ASSUME NEW k \in Kinds, ReaderGet(k) PROVE CacheInv'
  BY <1>0, <1>1, <1>6 DEF ReaderGet, InformerType
<1> QED
  BY <1>2, <1>3, <1>4, <1>5, <1>6, StepCases, InformersKept DEF vars, informing

\* What is owed to a registrar that wants it is on its way to it.
LEMMA DueStep ==
  ASSUME IInv, [Next]_vars
  PROVE  OwedInv' /\ LiveInv'
<1>0. /\ TypeOK /\ LockInv /\ CallInv /\ WatchedInv /\ LoopInv /\ ReplayInv /\ InformerInv /\ CacheInv
      /\ \A q \in Registrars : \A o \in owed[q] : Due(o, q)
      /\ owed \in [Registrars -> SUBSET Objects]
  BY AllDue DEF IInv, TypeOK, TypeInv
<1>1. ASSUME NEW q \in Registrars, NEW o \in owed'[q] PROVE Due(o, q)'
  <2>1. CASE UNCHANGED vars
    BY <1>0, <1>1, <2>1 DEF vars, records, calling, informing, replaying, Due, Concerned, ByEvent, ByReplay,
       Brings, Live, Running
  <2>2. ASSUME NEW r \in Registrars, Invoke(r) \/ Acquire(r) \/ Work(r) PROVE Due(o, q)'
    BY <1>0, <1>1, <2>2, DueCallStep
  <2>3. CASE LoopStep
    <3>1. UNCHANGED owed
      BY <2>3 DEF LoopStep, LoopCancel, LoopIgnore, LoopStart, LoopExit
    <3> QED
      BY <1>0, <1>1, <2>3, <3>1, DueLoop
  <2>4. ASSUME NEW g \in Replays,
               ReplayList(g) \/ ReplayListFails(g) \/ ReplayDone(g) \/ \E x \in Objects : ReplaySend(g, x)
        PROVE  Due(o, q)'
    BY <1>0, <1>1, <2>4, DueReplay
  <2>5. ASSUME NEW c \in Objects, NEW there \in BOOLEAN, CacheChange(c, there) PROVE Due(o, q)'
    BY <1>0, <1>1, <2>5, DueCache
  <2>6. CASE EventStep
    BY <1>0, <1>1, <2>6, DueEvent
  <2>7. ASSUME \/ Start \/ Stop
               \/ \E k \in Kinds : ReaderGet(k)
        PROVE  Due(o, q)'
    <3>1. /\ UNCHANGED <<intent, watched, call, events, dist, loop, replay, gaveUp, owed>>
          /\ \A k \in Kinds : informer'[k].cache = informer[k].cache
      <4>1. informer \in [Kinds -> InformerType]
        BY <1>0 DEF TypeOK, TypeInv
      <4>2. CASE Start \/ Stop
        BY <4>2 DEF Start, Stop, records, calling, informing, replaying
      <4>3. ASSUME NEW k \in Kinds, ReaderGet(k)
            PROVE  /\ UNCHANGED <<intent, watched, call, events, dist, loop, replay, gaveUp, owed>>
                   /\ \A l \in Kinds : informer'[l].cache = informer[l].cache
        BY <4>1, <4>3 DEF ReaderGet, records, calling, replaying, InformerType
      <4> QED
        BY <2>7, <4>2, <4>3
    <3>2. Running' => Running
      BY <2>7 DEF Start, Stop, ReaderGet, Running
    <3>3. o \in Objects /\ Due(o, q)
      BY <1>0, <1>1, <3>1
    <3>4. q \in Concerned(KindOf[o])'
      BY <3>1, <3>3 DEF Due, Concerned
    <3>5. (ByEvent(o, q) => ByEvent(o, q)') /\ (ByReplay(o, q) => ByReplay(o, q)')
      BY <3>1 DEF ByEvent, ByReplay, Brings, Live
    <3>6. KindOf[o] \in Kinds
      BY <3>3, WatchAssumption
    <3> QED
      BY <3>1, <3>2, <3>3, <3>4, <3>5, <3>6, DueKept
  <2> QED
    BY <2>1, <2>2, <2>3, <2>4, <2>5, <2>6, <2>7, StepCases DEF Background
<1> QED
  BY <1>1 DEF OwedInv, LiveInv, Due

-------------------------------------------------------------------------------
\* The invariant

LEMMA Inductive == IInv /\ [Next]_vars => IInv'
<1> SUFFICES ASSUME IInv, [Next]_vars PROVE IInv'
  OBVIOUS
<1>0. /\ TypeOK /\ LockInv /\ CallInv /\ WatchedInv /\ LoopInv /\ ReplayInv /\ InformerInv /\ CacheInv
  BY DEF IInv, TypeOK
<1>1. TypeInv' /\ Working'
  BY <1>0, TypeStep DEF TypeOK
<1>2. LockInv' /\ CallInv' /\ WatchedInv'
  BY <1>0, CallsStep
<1>3. LoopInv' /\ ReplayInv' /\ InformerInv' /\ CacheInv'
  BY <1>0, LoopInvStep, ReplayInvStep, InformerInvStep, CacheInvStep
<1>4. OwedInv' /\ LiveInv'
  BY DueStep
<1> QED
  BY <1>1, <1>2, <1>3, <1>4 DEF IInv

LEMMA Initial == Init => IInv
<1> SUFFICES ASSUME Init PROVE IInv
  OBVIOUS
<1>1. TypeInv /\ Working /\ LockInv /\ CallInv /\ WatchedInv
  BY InitTypes, InitCalls DEF TypeOK
<1>2. /\ \A r \in Registrars : call[r].pc = "idle" /\ owed[r] = {}
      /\ \A r \in Registrars, k \in Kinds : inProgress[<<r, k>>] = NoReplay
      /\ \A k \in Kinds : watched[k] = {} /\ informer[k] =
           [on |-> FALSE, handler |-> FALSE, reader |-> FALSE, cache |-> {}]
      /\ \A g \in Replays : replay[g] = NoGoroutine
      /\ loop.pc = "idle"
  BY IdleType DEF Init, NoCall
<1>3. LoopInv /\ ReplayInv /\ InformerInv /\ CacheInv
  BY <1>2, NoGoroutineType, WatchAssumption DEF LoopInv, ReplayInv, InformerInv, Needed, CacheInv
<1>4. OwedInv /\ LiveInv
  BY <1>2 DEF OwedInv, LiveInv
<1> QED
  BY <1>1, <1>3, <1>4 DEF IInv

(***************************************************************************)
(* While the manager runs and no call holds watchedMux, its handler is on  *)
(* the informers of exactly the watched kinds, and an informer runs for no *)
(* watcher only if a controller read the kind after it was dropped:        *)
(* doRemoveWatch waits for the replays of the kind, so that none lists,    *)
(* and so restarts, a removed informer.                                    *)
(***************************************************************************)
THEOREM InformersAreWatched == Spec => []InformersMatchWatches
<1>1. IInv => InformersMatchWatches
  <2> SUFFICES ASSUME IInv, Running, lock = NoRegistrar, NEW k \in Kinds
               PROVE  /\ informer[k].handler <=> watched[k] # {}
                      /\ informer[k].on <=> watched[k] # {} \/ informer[k].reader
    BY DEF InformersMatchWatches
  <2>1. \A r \in Registrars : call[r].pc # "wait"
    BY WatchAssumption DEF IInv, LockInv
  <2>2. Needed(k)
    BY DEF IInv, InformerInv
  <2>3. informer[k].on \in BOOLEAN /\ informer[k].handler \in BOOLEAN /\ informer[k].reader \in BOOLEAN
    BY DEF IInv, TypeOK, TypeInv, InformerType
  <2> QED
    BY <2>1, <2>2, <2>3 DEF Needed, InUse
<1> QED
  BY <1>1, Initial, Inductive, PTL DEF Spec

(***************************************************************************)
(* While the manager runs, no change of a kind that a registrar wants is   *)
(* lost between its joining, the replay that replayEventsLoop starts, the  *)
(* informer's events and distributeEvent: it has been sent, is on its way, *)
(* or the replay of the kind has given up.                                 *)
(***************************************************************************)
THEOREM ChangesAreNotLost == Spec => []NothingLost
<1>1. IInv => NothingLost
  <2> SUFFICES ASSUME IInv, Running, NEW r \in Registrars, NEW o \in owed[r], KindOf[o] \in intent[r]
               PROVE  OnItsWay(o, r) \/ <<r, KindOf[o]>> \in gaveUp
    BY DEF NothingLost
  <2>1. ByEvent(o, r) \/ ByReplay(o, r) \/ <<r, KindOf[o]>> \in gaveUp
    BY DEF IInv, LiveInv
  <2> QED
    BY <2>1 DEF ByEvent, ByReplay, Brings, OnItsWay
<1> QED
  BY <1>1, Initial, Inductive, PTL DEF Spec
===============================================================================
