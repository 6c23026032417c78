----------------------------- MODULE WatchManager -----------------------------
(***************************************************************************)
(* The watch manager (pkg/watch): registrars that add, replace and remove  *)
(* watches of kinds, one shared informer for each watched kind, the loop   *)
(* that distributes informer events to registrars and the loop that        *)
(* replays the cache to a registrar that joins an existing watch.          *)
(*                                                                         *)
(* A registrar belongs to one controller with one worker, so it makes one  *)
(* call at a time; calls of different registrars interleave.  A call that  *)
(* holds watchedMux is named by lock.                                      *)
(***************************************************************************)
EXTENDS Integers, FiniteSets

CONSTANTS
  Registrars,
  Kinds,
  Objects,
  KindOf,        \* the kind of each object
  Unregistered,  \* kinds whose CRD may be missing
  NoRegistrar,
  Uses,          \* the methods each registrar's owner calls
  Replays,       \* identities of replay goroutines
  NoReplay,
  Attempts,      \* retry.DefaultBackoff.Steps
  MaxCalls,      \* bound: calls a registrar makes
  MaxChanges     \* bound: changes the handlers are told of

ASSUME WatchAssumption ==
  /\ NoRegistrar \notin Registrars
  /\ NoReplay \notin Replays
  /\ KindOf \in [Objects -> Kinds]
  /\ Unregistered \subseteq Kinds
  /\ Attempts \in Nat \ {0}

VARIABLES
  registered,   \* recordKeeper.registrars
  intent,       \* recordKeeper.intent: the kinds each registrar wants
  watched,      \* watchedKinds: the registrars watching each kind
  lock,         \* the registrar whose call holds watchedMux
  call,         \* the call each registrar is in
  calls,        \* how many calls each has made
  phase,        \* "new", "running" or "stopped"
  informer,     \* the dynamic cache: an informer for each kind, whether the
                \* manager's handler is on it, and (history) whether a reader
                \* started it
  changes,      \* how many changes the handlers have been told of
  events,       \* the channel events: how many of each object
  dist,         \* the event that distributeEvent is working on
  wantReplay,   \* replayTracker.intent
  loop,         \* replayEventsLoop
  inProgress,   \* its map m: the replay of each registrar and kind
  replay,       \* the replay goroutines
  requests,     \* history: kinds of which a registrar's controller was sent an
                \* event, so that it may have requests queued or to be retried
  owed,         \* history: objects whose last change a registrar has not seen
  gaveUp        \* history: replays that ran out of attempts

records  == <<registered, intent>>
calling  == <<call, calls>>
informing == <<informer, changes, events, dist, requests>>
replaying == <<wantReplay, loop, inProgress, replay, gaveUp>>
vars == <<records, watched, lock, calling, phase, informing, replaying, owed>>

ObjectsOf(k) == {o \in Objects : KindOf[o] = k}

-------------------------------------------------------------------------------
NoCall == [pc |-> "idle", verb |-> "", remove |-> {}, add |-> {}, k |-> ""]

Goto(r, to) == [call EXCEPT ![r].pc = to]

NewRegistrar(r) ==
  /\ r \notin registered
  /\ call[r] = NoCall
  /\ registered' = registered \cup {r}
  /\ UNCHANGED <<intent, watched, lock, calling, phase, informing, replaying, owed>>

\* A call first records the intent, under intentMux.
Begin(r, verb, wants, rem, add) ==
  /\ r \in registered
  /\ verb \in Uses[r]
  /\ call[r] = NoCall
  /\ calls[r] < MaxCalls[r]
  /\ intent' = [intent EXCEPT ![r] = wants]
  /\ call' = [call EXCEPT ![r] = [NoCall EXCEPT
                !.pc = "lock", !.verb = verb, !.remove = rem, !.add = add]]
  /\ calls' = [calls EXCEPT ![r] = @ + 1]
  /\ UNCHANGED <<registered, watched, lock, phase, informing, replaying, owed>>

AddWatch(r, k)    == Begin(r, "add", intent[r] \cup {k}, {}, {k})
RemoveWatch(r, k) == Begin(r, "remove", intent[r] \ {k}, {k}, {})

\* replaceWatches reads the sets once it holds watchedMux.
ReplaceWatch(r, ks)   == Begin(r, "replace", ks, {}, {})
RemoveRegistrar(r)    == Begin(r, "unregister", {}, {}, {})

Acquire(r) ==
  /\ call[r].pc = "lock"
  /\ lock = NoRegistrar
  /\ lock' = r
  /\ call' = [Goto(r, "work") EXCEPT
       ![r].remove = IF call[r].verb \in {"replace", "unregister"}
                     THEN Kinds \ intent[r] ELSE @,
       ![r].add    = IF call[r].verb \in {"replace", "unregister"}
                     THEN intent[r] ELSE @]
  /\ UNCHANGED <<records, watched, calls, phase, informing, replaying, owed>>

Release(r) ==
  /\ call[r].pc = "work"
  /\ call[r].remove = {} /\ call[r].add = {}
  /\ lock' = NoRegistrar
  /\ registered' = IF call[r].verb = "unregister" THEN registered \ {r}
                                                  ELSE registered
  /\ call' = [call EXCEPT ![r] = NoCall]
  /\ UNCHANGED <<intent, watched, calls, phase, informing, replaying, owed>>

-------------------------------------------------------------------------------
\* doAddWatch, after the removals of the same call

Adding(r, k) == call[r].pc = "work" /\ call[r].remove = {} /\ k \in call[r].add

Added(r, k) == [call EXCEPT ![r].pc = "work", ![r].add = @ \ {k}]

\* The kind is not wanted, is already watched, or has no informer.
AddSkip(r, k) ==
  /\ Adding(r, k)
  /\ \/ k \notin intent[r]
     \/ r \in watched[k]
     \/ watched[k] = {} /\ k \in Unregistered /\ ~informer[k].on
  /\ call' = Added(r, k)
  /\ UNCHANGED <<records, watched, lock, calls, phase, informing, replaying, owed>>

\* The first watcher: GetInformerNonBlocking, AddEventHandler.  An informer that
\* is running already sends the new handler what it holds.
AddFirst(r, k) ==
  /\ Adding(r, k)
  /\ k \in intent[r]
  /\ watched[k] = {}
  /\ informer' = [informer EXCEPT ![k].on = TRUE, ![k].handler = TRUE,
                                 ![k].reader = FALSE]
  /\ events' = [o \in Objects |->
                  IF o \in informer[k].cache THEN events[o] + 1 ELSE events[o]]
  /\ owed' = [owed EXCEPT ![r] = (@ \ ObjectsOf(k)) \cup informer[k].cache]
  /\ watched' = [watched EXCEPT ![k] = {r}]
  /\ call' = Added(r, k)
  /\ UNCHANGED <<records, lock, calls, phase, changes, dist, requests, replaying>>

\* Fault: a registrar that joins is not sent what the cache holds.
AddJoin_NoReplay(r, k) ==
  /\ Adding(r, k)
  /\ k \in intent[r]
  /\ r \notin watched[k]
  /\ watched[k] # {}
  /\ owed' = [owed EXCEPT ![r] = (@ \ ObjectsOf(k)) \cup informer[k].cache]
  /\ call' = [Goto(r, "mark") EXCEPT ![r].k = k]
  /\ UNCHANGED <<records, watched, lock, calls, phase, informing, replaying>>

\* Somebody is watching: requestReplay, up to the send.
AddJoin(r, k) ==
  /\ Adding(r, k)
  /\ k \in intent[r]
  /\ r \notin watched[k]
  /\ watched[k] # {}
  /\ wantReplay' = wantReplay \cup {<<r, k>>}
  /\ gaveUp' = gaveUp \ {<<r, k>>}
  /\ owed' = [owed EXCEPT ![r] = (@ \ ObjectsOf(k)) \cup informer[k].cache]
  /\ call' = [Goto(r, "request") EXCEPT ![r].k = k]
  /\ UNCHANGED <<records, watched, lock, calls, phase, informing, loop,
                 inProgress, replay>>

\* "Mark it as watched."
MarkWatched(r) ==
  /\ call[r].pc = "mark"
  /\ watched' = [watched EXCEPT ![call[r].k] = @ \cup {r}]
  /\ call' = Added(r, call[r].k)
  /\ UNCHANGED <<records, lock, calls, phase, informing, replaying, owed>>

-------------------------------------------------------------------------------
\* doRemoveWatch

Removed(r, k) == [call EXCEPT ![r].pc = "work", ![r].remove = @ \ {k}]

RemoveSkip(r, k) ==
  /\ call[r].pc = "work"
  /\ k \in call[r].remove
  /\ r \notin watched[k]
  /\ call' = Removed(r, k)
  /\ UNCHANGED <<records, watched, lock, calls, phase, informing, replaying, owed>>

\* cancelReplay, up to the send.
RemoveStart(r, k) ==
  /\ call[r].pc = "work"
  /\ k \in call[r].remove
  /\ r \in watched[k]
  /\ wantReplay' = wantReplay \ {<<r, k>>}
  /\ call' = [Goto(r, "cancel") EXCEPT ![r].k = k]
  /\ UNCHANGED <<records, watched, lock, calls, phase, informing, loop,
                 inProgress, replay, gaveUp, owed>>

\* Fault: a kind with other watchers is skipped before the registrar is dropped.
RemoveDrop_KeepsShared(r) ==
  /\ call[r].pc = "drop"
  /\ LET k == call[r].k
     IN  IF watched[k] = {r}
         THEN /\ watched' = [watched EXCEPT ![k] = {}]
              /\ owed' = [owed EXCEPT ![r] = @ \ ObjectsOf(k)]
              /\ call' = Goto(r, "wait")
         ELSE call' = Removed(r, k) /\ UNCHANGED <<watched, owed>>
  /\ UNCHANGED <<records, lock, calls, phase, informing, replaying>>

RemoveDrop(r) ==
  /\ call[r].pc = "drop"
  /\ LET k == call[r].k
     IN  /\ watched' = [watched EXCEPT ![k] = @ \ {r}]
         /\ owed' = [owed EXCEPT ![r] = @ \ ObjectsOf(k)]
         /\ call' = IF watched[k] = {r} THEN Goto(r, "wait") ELSE Removed(r, k)
  /\ UNCHANGED <<records, lock, calls, phase, informing, replaying>>

Replaying(k) == \E g \in Replays : replay[g].pc # "none" /\ replay[g].k = k

\* Fault: the informer is removed while replays of its kind are running.
RemoveInformer_NoWait(r) ==
  /\ call[r].pc = "wait"
  /\ LET k == call[r].k
     IN  /\ informer' = [informer EXCEPT ![k] =
              [on |-> FALSE, handler |-> FALSE, reader |-> FALSE, cache |-> {}]]
         /\ call' = Removed(r, k)
  /\ UNCHANGED <<records, watched, lock, calls, phase, changes, events, dist,
                 requests, replaying, owed>>

\* The last watcher waits for the replays of the kind to end, or for the
\* manager to stop, and removes the informer.
RemoveInformer(r) ==
  /\ call[r].pc = "wait"
  /\ LET k == call[r].k
     IN  /\ ~Replaying(k) \/ phase = "stopped"
         /\ informer' = [informer EXCEPT ![k] =
              [on |-> FALSE, handler |-> FALSE, reader |-> FALSE, cache |-> {}]]
         /\ call' = Removed(r, k)
  /\ UNCHANGED <<records, watched, lock, calls, phase, changes, events, dist,
                 requests, replaying, owed>>

-------------------------------------------------------------------------------
\* replayEventsLoop

Idle == [pc |-> "idle", r |-> NoRegistrar, k |-> ""]

\* The send of a request on the unbuffered channel replayRequests.
SendRequest(r) ==
  /\ call[r].pc \in {"request", "cancel"}
  /\ phase # "new"
  /\ loop.pc = "idle"
  /\ loop' = [pc |-> call[r].pc, r |-> r, k |-> call[r].k]
  /\ call' = Goto(r, IF call[r].pc = "request" THEN "mark" ELSE "drop")
  /\ UNCHANGED <<records, watched, lock, calls, phase, informing, wantReplay,
                 inProgress, replay, gaveUp, owed>>

\* The send is abandoned because the manager stopped.
SendStopped(r) ==
  /\ call[r].pc \in {"request", "cancel"}
  /\ phase = "stopped"
  /\ call' = Goto(r, IF call[r].pc = "request" THEN "mark" ELSE "drop")
  /\ UNCHANGED <<records, watched, lock, calls, phase, informing, replaying, owed>>

NoGoroutine == [pc |-> "none", r |-> NoRegistrar, k |-> "", todo |-> {},
                canceled |-> FALSE, attempts |-> 0]

\* Fault: the pending replay is forgotten but not cancelled.
LoopCancel_Leaks ==
  /\ loop.pc = "cancel"
  /\ inProgress[<<loop.r, loop.k>>] # NoReplay
  /\ inProgress' = [inProgress EXCEPT ![<<loop.r, loop.k>>] = NoReplay]
  /\ loop' = Idle
  /\ UNCHANGED <<records, watched, lock, calling, phase, informing, wantReplay,
                 replay, gaveUp, owed>>

LoopCancel ==
  /\ loop.pc = "cancel"
  /\ LET g == inProgress[<<loop.r, loop.k>>]
     IN  /\ g # NoReplay
         /\ replay' = IF replay[g].pc = "none" THEN replay
                      ELSE [replay EXCEPT ![g].canceled = TRUE]
  /\ inProgress' = [inProgress EXCEPT ![<<loop.r, loop.k>>] = NoReplay]
  /\ loop' = Idle
  /\ UNCHANGED <<records, watched, lock, calling, phase, informing, wantReplay,
                 gaveUp, owed>>

\* A cancellation of nothing, a replay that was started before, or a request
\* that the registrar no longer wants.
LoopIgnore ==
  /\ loop.pc \in {"request", "cancel"}
  /\ LET busy == inProgress[<<loop.r, loop.k>>] # NoReplay
     IN  \/ loop.pc = "cancel" /\ ~busy
         \/ loop.pc = "request" /\ (busy \/ <<loop.r, loop.k>> \notin wantReplay)
  /\ loop' = Idle
  /\ UNCHANGED <<records, watched, lock, calling, phase, informing, wantReplay,
                 inProgress, replay, gaveUp, owed>>

\* addReplay and the start of the goroutine.
LoopStart(g) ==
  /\ loop.pc = "request"
  /\ inProgress[<<loop.r, loop.k>>] = NoReplay
  /\ <<loop.r, loop.k>> \in wantReplay
  /\ replay[g].pc = "none"
  /\ \A p \in DOMAIN inProgress : inProgress[p] # g
  /\ replay' = [replay EXCEPT ![g] = [NoGoroutine EXCEPT
       !.pc = "list", !.r = loop.r, !.k = loop.k, !.attempts = Attempts]]
  /\ inProgress' = [inProgress EXCEPT ![<<loop.r, loop.k>>] = g]
  /\ loop' = Idle
  /\ UNCHANGED <<records, watched, lock, calling, phase, informing, wantReplay,
                 gaveUp, owed>>

LoopExit ==
  /\ loop.pc = "idle"
  /\ phase = "stopped"
  /\ loop' = [Idle EXCEPT !.pc = "exit"]
  /\ UNCHANGED <<records, watched, lock, calling, phase, informing, wantReplay,
                 inProgress, replay, gaveUp, owed>>

-------------------------------------------------------------------------------
\* The replay goroutines

Canceled(g) == replay[g].canceled \/ phase = "stopped"

\* Listing a kind that has no informer starts one, without an event handler.
ReplayList(g) ==
  /\ replay[g].pc = "list"
  /\ LET k == replay[g].k
     IN  /\ informer' = [informer EXCEPT ![k].on = TRUE]
         /\ replay' = [replay EXCEPT ![g].pc = "send",
                                     ![g].todo = informer[k].cache]
  /\ UNCHANGED <<records, watched, lock, calling, phase, changes, events, dist,
                 requests, wantReplay, loop, inProgress, gaveUp, owed>>

\* The list fails, also because the wait for the informer was cancelled (the
\* error is then not context.Canceled itself, and is retried).
ReplayListFails(g) ==
  /\ replay[g].pc = "list"
  /\ IF replay[g].attempts > 1
     THEN /\ replay' = [replay EXCEPT ![g].attempts = @ - 1]
          /\ UNCHANGED gaveUp
     ELSE /\ replay' = [replay EXCEPT ![g] = NoGoroutine]
          /\ gaveUp' = IF replay[g].canceled THEN gaveUp
                       ELSE gaveUp \cup {<<replay[g].r, replay[g].k>>}
  /\ UNCHANGED <<records, watched, lock, calling, phase, informing, wantReplay,
                 loop, inProgress, owed>>

ReplaySend(g, o) ==
  /\ replay[g].pc = "send"
  /\ o \in replay[g].todo
  /\ owed' = [owed EXCEPT ![replay[g].r] = @ \ {o}]
  /\ replay' = [replay EXCEPT ![g].todo = @ \ {o}]
  /\ requests' = requests \cup {replay[g].k}
  /\ UNCHANGED <<records, watched, lock, calling, phase, informer, changes, events,
                 dist, wantReplay, loop, inProgress, gaveUp>>

\* replayDone: everything was sent, or the context was cancelled.
ReplayDone(g) ==
  /\ replay[g].pc = "send"
  /\ replay[g].todo = {} \/ Canceled(g)
  /\ replay' = [replay EXCEPT ![g] = NoGoroutine]
  /\ UNCHANGED <<records, watched, lock, calling, phase, informing, wantReplay,
                 loop, inProgress, gaveUp, owed>>

-------------------------------------------------------------------------------
\* The registrars to which a change of kind k will matter.
Concerned(k) == watched[k] \cup
  {r \in Registrars : call[r].pc \in {"request", "mark"} /\ call[r].k = k}

\* An informer adds, updates or deletes o in its cache and tells its handler.
CacheChange(o, there) ==
  LET k == KindOf[o] IN
  /\ informer[k].on
  /\ there \/ o \in informer[k].cache
  /\ IF informer[k].handler THEN changes < MaxChanges /\ changes' = changes + 1
                            ELSE UNCHANGED changes
  /\ informer' = [informer EXCEPT ![k].cache =
                    IF there THEN @ \cup {o} ELSE @ \ {o}]
  /\ events' = IF informer[k].handler THEN [events EXCEPT ![o] = @ + 1] ELSE events
  /\ owed' = [r \in Registrars |->
                IF r \in Concerned(k) THEN owed[r] \cup {o} ELSE owed[r]]
  /\ UNCHANGED <<records, watched, lock, calling, phase, dist, requests, replaying>>

NoEvent == [pc |-> "idle", o |-> "", todo |-> {}]

\* eventLoop receives an event.
EventTake(o) ==
  /\ phase = "running"
  /\ dist = NoEvent
  /\ events[o] > 0
  /\ events' = [events EXCEPT ![o] = @ - 1]
  /\ dist' = [pc |-> "read", o |-> o, todo |-> {}]
  /\ UNCHANGED <<records, watched, lock, calling, phase, informer, changes,
                 requests, replaying, owed>>

\* Fault: the watchers are read without watchedMux.
EventRead_Unlocked ==
  /\ dist.pc = "read"
  /\ dist' = [dist EXCEPT !.pc = "send", !.todo = watched[KindOf[dist.o]]]
  /\ UNCHANGED <<records, watched, lock, calling, phase, informer, changes, events,
                 requests, replaying, owed>>

\* distributeEvent reads the watchers under watchedMux and sends without it.
EventRead ==
  /\ dist.pc = "read"
  /\ lock = NoRegistrar
  /\ dist' = [dist EXCEPT !.pc = "send", !.todo = watched[KindOf[dist.o]]]
  /\ UNCHANGED <<records, watched, lock, calling, phase, informer, changes, events,
                 requests, replaying, owed>>

EventSend(r) ==
  /\ dist.pc = "send"
  /\ r \in dist.todo
  /\ owed' = [owed EXCEPT ![r] = @ \ {dist.o}]
  /\ dist' = [dist EXCEPT !.todo = @ \ {r}]
  /\ requests' = requests \cup {KindOf[dist.o]}
  /\ UNCHANGED <<records, watched, lock, calling, phase, informer, changes, events,
                 replaying>>

EventDone ==
  /\ dist.pc = "send"
  /\ dist.todo = {} \/ phase = "stopped"
  /\ dist' = NoEvent
  /\ UNCHANGED <<records, watched, lock, calling, phase, informer, changes, events,
                 requests, replaying, owed>>

\* A controller handles a request.  It reads the object through the cache it
\* shares with the watch manager, and a read of a kind that has no informer
\* starts one, without an event handler: the sync controller reads whatever was
\* queued, the constraint controller what it found to be wanted just before.
ReaderGet(k) ==
  /\ k \in requests
  /\ ~informer[k].on
  /\ informer' = [informer EXCEPT ![k].on = TRUE, ![k].reader = TRUE]
  /\ UNCHANGED <<records, watched, lock, calling, phase, changes, events, dist,
                 requests, replaying, owed>>

-------------------------------------------------------------------------------
Start ==
  /\ phase = "new"
  /\ phase' = "running"
  /\ UNCHANGED <<records, watched, lock, calling, informing, replaying, owed>>

Stop ==
  /\ phase = "running"
  /\ phase' = "stopped"
  /\ UNCHANGED <<records, watched, lock, calling, informing, replaying, owed>>

Init ==
  /\ registered = Registrars
  /\ intent = [r \in Registrars |-> {}]
  /\ watched = [k \in Kinds |-> {}]
  /\ lock = NoRegistrar
  /\ call = [r \in Registrars |-> NoCall]
  /\ calls = [r \in Registrars |-> 0]
  /\ phase = "new"
  /\ informer = [k \in Kinds |->
       [on |-> FALSE, handler |-> FALSE, reader |-> FALSE, cache |-> {}]]
  /\ changes = 0
  /\ events = [o \in Objects |-> 0]
  /\ dist = NoEvent
  /\ requests = {}
  /\ wantReplay = {}
  /\ loop = Idle
  /\ inProgress = [p \in Registrars \X Kinds |-> NoReplay]
  /\ replay = [g \in Replays |-> NoGoroutine]
  /\ owed = [r \in Registrars |-> {}]
  /\ gaveUp = {}

Invoke(r) ==
  \/ NewRegistrar(r)
  \/ \E k \in Kinds : AddWatch(r, k) \/ RemoveWatch(r, k)
  \/ \E ks \in SUBSET Kinds : ReplaceWatch(r, ks)
  \/ RemoveRegistrar(r)

\* The steps of a call once it holds watchedMux.
Work(r) ==
  \/ \E k \in Kinds : \/ AddSkip(r, k) \/ AddFirst(r, k) \/ AddJoin(r, k)
                      \/ RemoveSkip(r, k) \/ RemoveStart(r, k)
  \/ MarkWatched(r)
  \/ RemoveDrop(r)
  \/ RemoveInformer(r)
  \/ SendRequest(r)
  \/ SendStopped(r)
  \/ Release(r)

LoopStep ==
  \/ LoopCancel
  \/ LoopIgnore
  \/ \E g \in Replays : LoopStart(g)
  \/ LoopExit

EventStep ==
  \/ \E o \in Objects : EventTake(o)
  \/ EventRead
  \/ \E r \in Registrars : EventSend(r)
  \/ EventDone

Next ==
  \/ \E r \in Registrars : Invoke(r) \/ Acquire(r) \/ Work(r)
  \/ LoopStep
  \/ \E g \in Replays : \/ ReplayList(g)
                        \/ ReplayListFails(g)
                        \/ \E o \in Objects : ReplaySend(g, o)
                        \/ ReplayDone(g)
  \/ \E o \in Objects, there \in BOOLEAN : CacheChange(o, there)
  \/ EventStep
  \/ \E k \in Kinds : ReaderGet(k)
  \/ Start
  \/ Stop

(***************************************************************************)
(* The manager is started, the goroutines run, sync.RWMutex starves no     *)
(* caller, and a cancelled replay gives up.  Consumers of the registrars'  *)
(* channels may stall for ever: no send to them is assumed to succeed.     *)
(***************************************************************************)
Fairness ==
  /\ WF_vars(Start)
  /\ WF_vars(LoopStep)
  /\ \A r \in Registrars : SF_vars(Acquire(r)) /\ WF_vars(Work(r))
  /\ \A g \in Replays :
       WF_vars(Canceled(g) /\ (ReplayListFails(g) \/ ReplayDone(g)))

\* The consumers keep receiving and the informers synchronise.
Receiving ==
  /\ WF_vars(EventStep)
  /\ \A g \in Replays : WF_vars(\/ ReplayList(g) \/ ReplayDone(g)
                                \/ \E o \in Objects : ReplaySend(g, o))

Spec == Init /\ [][Next]_vars /\ Fairness

-------------------------------------------------------------------------------
Running == phase # "stopped"

(***************************************************************************)
(* What can still bring the last change of o to registrar r: an event in   *)
(* the channel or in the hands of distributeEvent, a replay, or a request  *)
(* for one.                                                                *)
(***************************************************************************)
OnItsWay(o, r) ==
  LET k == KindOf[o] IN
  \/ events[o] > 0
  \/ dist.o = o /\ (dist.pc = "read" \/ r \in dist.todo)
  \/ call[r].pc = "request" /\ call[r].k = k
  \/ loop.pc = "request" /\ loop.r = r /\ loop.k = k
  \/ \E g \in Replays : /\ replay[g].r = r /\ replay[g].k = k
                        /\ replay[g].pc = "list" \/ o \in replay[g].todo

(***************************************************************************)
(* No change is lost: while a registrar wants a kind and watches it, or is *)
(* joining its watch, every object in the informer's cache when it joined  *)
(* and every later change has reached it or is on its way, however the     *)
(* call interleaves with informer events, distributeEvent and the replay.  *)
(* The one exception is a replay whose list calls all failed.              *)
(***************************************************************************)
NothingLost ==
  Running =>
    \A r \in Registrars : \A o \in owed[r] :
      KindOf[o] \in intent[r] => OnItsWay(o, r) \/ <<r, KindOf[o]>> \in gaveUp

(***************************************************************************)
(* The manager hears of exactly the kinds that somebody watches, and a     *)
(* replay never restarts the informer of a kind after its last watcher     *)
(* left ("otherwise the list may unintentionally restart a watch").  The   *)
(* one way an informer runs for nobody is that a controller read a request *)
(* of a dropped kind: ReconcileSync.Reconcile does not ask whether the     *)
(* kind is still watched.  It runs on, unheard, until the kind is watched  *)
(* and dropped again.                                                      *)
(***************************************************************************)
InformersMatchWatches ==
  Running /\ lock = NoRegistrar =>
    \A k \in Kinds :
      /\ informer[k].handler <=> watched[k] # {}
      /\ informer[k].on <=> watched[k] # {} \/ informer[k].reader

(***************************************************************************)
(* Between calls a registrar watches what its recorded intent says, which  *)
(* is what Registrar.Watching reports, whatever the others add, replace    *)
(* and remove.  The one exception is a kind whose informer could not be    *)
(* started: the intent stays.                                              *)
(***************************************************************************)
IntentIsWatched ==
  Running =>
    \A r \in Registrars, k \in Kinds :
      call[r].pc = "idle" =>
        /\ r \in watched[k] => k \in intent[r]
        /\ k \in intent[r] \ Unregistered => r \in watched[k]

(***************************************************************************)
(* Every call on a registrar returns, although it may wait under           *)
(* watchedMux for the replay loop and for replay goroutines, and although  *)
(* no consumer needs to receive anything.                                  *)
(***************************************************************************)
CallsReturn == \A r \in Registrars : call[r].pc # "idle" ~> call[r].pc = "idle"

(***************************************************************************)
(* If consumers keep receiving, every change that concerns a registrar     *)
(* reaches it, unless it stops watching, its replay gives up or the        *)
(* manager stops.                                                          *)
(***************************************************************************)
ChangesArrive ==
  Receiving =>
    \A r \in Registrars, o \in Objects :
      o \in owed[r] ~> \/ o \notin owed[r]
                       \/ KindOf[o] \notin intent[r]
                       \/ <<r, KindOf[o]>> \in gaveUp
                       \/ phase = "stopped"
===============================================================================
