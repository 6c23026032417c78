------------------------------- MODULE DataSync -------------------------------
(***************************************************************************)
(* The config controller and the sync controller, which keep OPA's copy of *)
(* cluster data equal to what the Config asks for (pkg/controller/config,  *)
(* pkg/controller/sync).  Each controller has one worker; they run         *)
(* concurrently and share the watch set, the process excluder and OPA.     *)
(*                                                                         *)
(* The registrar is external here: ReplaceWatch starts and stops watches   *)
(* and fails for a kind without a CRD (see WatchManager).                  *)
(***************************************************************************)
EXTENDS Naturals, FiniteSets

CONSTANTS
  Kinds, Objects, Namespaces,
  KindOf, NamespaceOf,  \* of each object
  Configs,              \* the Configs a user writes: kinds and match entries
  NoConfig,             \* the Config of a cluster without one
  Unregistered,         \* kinds that have no CRD
  MaxConfigs,           \* bound: changes of the Config
  MaxChanges,           \* bound: changes of objects
  MaxFailures           \* bound: calls of OPA and of the cache that fail

ASSUME SyncAssumption ==
  /\ KindOf \in [Objects -> Kinds]
  /\ NamespaceOf \in [Objects -> Namespaces]
  /\ NoConfig = [sync |-> {}, match |-> {}]
  /\ \A c \in Configs : c.sync \subseteq Kinds
  /\ "none" \notin Kinds

\* A match entry excludes one namespace from one process, or from "*".
Processes    == {"audit", "webhook", "sync", "mutation-webhook"}
allProcesses == {"audit", "webhook", "sync"}

VARIABLES
  present,      \* the objects of the cluster
  terminating,  \* those that have a deletion timestamp
  config,       \* the Config in the cluster
  configDirty,  \* the config controller's work queue is not empty
  queue,        \* the sync controller's work queue
  watching,     \* the kinds the registrar watches
  watched,      \* ReconcileConfig.watched, shared with FilteredDataClient
  excluder,     \* the process excluder, shared
  needsWipe,
  needsReplay,  \* a set of kinds, or None
  opa,          \* the objects in OPA
  cc,           \* the config controller
  sc,           \* the sync controller
  budget,       \* how many configs, changes and failures there were
  overlapped,   \* history: reconciles of the two controllers overlapped
  superseded    \* history: the Config changed before a failed wipe was retried

cluster == <<present, terminating, config>>
pending == <<needsWipe, needsReplay>>
shared  == <<watched, excluder>>
history == <<overlapped, superseded>>
vars == <<cluster, configDirty, queue, watching, shared, pending, opa, cc, sc,
          budget, history>>

None == {"none"}

-------------------------------------------------------------------------------
\* Excluder.Add on an empty excluder.
excluderOf(match) ==
  [p \in Processes |-> {ns \in Namespaces :
     \E e \in match : e.ns = ns /\ (e.process = p \/ (e.process = "*" /\ p \in allProcesses))}]

NoExclusion == excluderOf({})

Excluded(o) == NamespaceOf[o] \in excluder["sync"]

Watchable(ks) == ks \ Unregistered

-------------------------------------------------------------------------------
\* The cluster

Spend(what) == budget' = [budget EXCEPT ![what] = @ + 1]

\* The user creates, changes or deletes the Config.
ConfigChange(c) ==
  /\ budget.configs < MaxConfigs
  /\ c # config
  /\ config' = c
  /\ configDirty' = TRUE
  /\ Spend("configs")
  /\ UNCHANGED <<present, terminating, queue, watching, shared, pending, opa, cc,
                 sc, history>>

\* An object is created or updated, marked for deletion, or deleted; the event
\* of a watched kind reaches the sync controller's queue.
ObjectChange(o, here, deleting) ==
  /\ budget.changes < MaxChanges
  /\ deleting => here /\ o \in present
  /\ here \/ o \in present
  /\ present' = IF here THEN present \cup {o} ELSE present \ {o}
  /\ terminating' = IF deleting THEN terminating \cup {o} ELSE terminating \ {o}
  /\ o \in terminating => ~here
  /\ queue' = IF KindOf[o] \in watching THEN queue \cup {o} ELSE queue
  /\ Spend("changes")
  /\ UNCHANGED <<config, configDirty, watching, shared, pending, opa, cc, sc,
                 history>>

-------------------------------------------------------------------------------
\* ReconcileConfig.Reconcile

IdleConfig == [pc |-> "idle", sync |-> {}, match |-> {}, todo |-> {}, k |-> ""]
IdleSync   == [pc |-> "idle", o |-> "", verb |-> ""]

ConfigGoto(to) == [cc EXCEPT !.pc = to]

Settled(c) == watched = c.sync /\ excluder = excluderOf(c.match)

\* Reads the Config and decides what the change needs.  The early return: the
\* set has not changed and nothing is left over from an earlier reconcile.
ConfigRead ==
  /\ cc.pc = "idle"
  /\ configDirty
  /\ configDirty' = FALSE
  /\ IF Settled(config) /\ ~needsWipe /\ needsReplay = None
     THEN UNCHANGED <<pending, cc>>
     ELSE /\ needsWipe' = (needsWipe \/ ~Settled(config))
          /\ needsReplay' = IF needsReplay = None \/ ~Settled(config)
                            THEN watched \cap config.sync ELSE needsReplay
          /\ cc' = [IdleConfig EXCEPT !.pc = "watched", !.sync = config.sync,
                                      !.match = config.match]
  /\ overlapped' = (overlapped \/ sc.pc # "idle")
  /\ superseded' = (superseded \/ (needsWipe /\ ~Settled(config)))
  /\ UNCHANGED <<cluster, queue, watching, shared, opa, sc, budget>>

ConfigWatched ==
  /\ cc.pc = "watched"
  /\ watched' = cc.sync
  /\ cc' = ConfigGoto("excluder")
  /\ UNCHANGED <<cluster, configDirty, queue, watching, excluder, pending, opa, sc,
                 budget, history>>

ConfigExcluder ==
  /\ cc.pc = "excluder"
  /\ excluder' = excluderOf(cc.match)
  /\ cc' = ConfigGoto("wipe")
  /\ UNCHANGED <<cluster, configDirty, queue, watching, watched, pending, opa, sc,
                 budget, history>>

\* Fault: data is wiped only when a kind was removed.
ConfigWipe_OnlyRemoved ==
  /\ cc.pc = "wipe"
  /\ opa' = IF needsWipe THEN {o \in opa : KindOf[o] \in cc.sync} ELSE opa
  /\ needsWipe' = FALSE
  /\ cc' = ConfigGoto("watch")
  /\ UNCHANGED <<cluster, configDirty, queue, watching, shared, needsReplay, sc,
                 budget, history>>

\* wipeCacheIfNeeded.
ConfigWipe ==
  /\ cc.pc = "wipe"
  /\ opa' = IF needsWipe THEN {} ELSE opa
  /\ needsWipe' = FALSE
  /\ cc' = ConfigGoto("watch")
  /\ UNCHANGED <<cluster, configDirty, queue, watching, shared, needsReplay, sc,
                 budget, history>>

\* Registrar.ReplaceWatch: the objects of a newly watched kind are queued.
ReplaceWatch(ks) ==
  /\ watching' = Watchable(ks)
  /\ queue' = queue \cup {o \in present : KindOf[o] \in Watchable(ks) \ watching}

\* An error returns from Reconcile, and the request is queued again.
ConfigWatch ==
  /\ cc.pc = "watch"
  /\ ReplaceWatch(cc.sync)
  /\ IF cc.sync \cap Unregistered = {}
     THEN cc' = ConfigGoto("list") /\ UNCHANGED configDirty
     ELSE cc' = IdleConfig /\ configDirty' = TRUE
  /\ UNCHANGED <<cluster, shared, pending, opa, sc, budget, history>>

\* replayData lists a kind from the cache.
ConfigList(k) ==
  /\ cc.pc = "list"
  /\ k \in needsReplay
  /\ cc' = [cc EXCEPT !.pc = "add", !.k = k,
                      !.todo = {o \in present : KindOf[o] = k}]
  /\ UNCHANGED <<cluster, configDirty, queue, watching, shared, pending, opa, sc,
                 budget, history>>

\* Skips an object of an excluded namespace; AddData drops an unwatched kind.
ConfigAdd(o) ==
  /\ cc.pc = "add"
  /\ o \in cc.todo
  /\ opa' = IF ~Excluded(o) /\ KindOf[o] \in watched THEN opa \cup {o} ELSE opa
  /\ cc' = [cc EXCEPT !.todo = @ \ {o}]
  /\ UNCHANGED <<cluster, configDirty, queue, watching, shared, pending, sc,
                 budget, history>>

ConfigKindDone ==
  /\ cc.pc = "add"
  /\ cc.todo = {}
  /\ needsReplay' = needsReplay \ {cc.k}
  /\ cc' = [cc EXCEPT !.pc = "list", !.k = ""]
  /\ UNCHANGED <<cluster, configDirty, queue, watching, shared, needsWipe, opa, sc,
                 budget, history>>

\* Fault: needsReplay is reset although kinds remain.
ConfigDone_Early ==
  /\ cc.pc = "list"
  /\ needsReplay' = None
  /\ cc' = IdleConfig
  /\ UNCHANGED <<cluster, configDirty, queue, watching, shared, needsWipe, opa, sc,
                 budget, history>>

ConfigDone ==
  /\ cc.pc = "list"
  /\ needsReplay = {}
  /\ needsReplay' = None
  /\ cc' = IdleConfig
  /\ UNCHANGED <<cluster, configDirty, queue, watching, shared, needsWipe, opa, sc,
                 budget, history>>

\* OPA rejects the wipe or a replayed object, or the list fails: the request is
\* queued again.
ConfigFails ==
  /\ \/ cc.pc = "wipe" /\ needsWipe
     \/ cc.pc = "list" /\ needsReplay # {}
     \/ cc.pc = "add" /\ cc.todo # {}
  /\ budget.failures < MaxFailures
  /\ Spend("failures")
  /\ cc' = IdleConfig
  /\ configDirty' = TRUE
  /\ UNCHANGED <<cluster, queue, watching, shared, pending, opa, sc, history>>

-------------------------------------------------------------------------------
\* ReconcileSync.Reconcile

SyncGoto(to) == [sc EXCEPT !.pc = to]

\* Reads the object from the cache.
SyncGet(o) ==
  /\ sc.pc = "idle"
  /\ o \in queue
  /\ queue' = queue \ {o}
  /\ sc' = [pc   |-> IF o \in present THEN "exclude" ELSE "filter",
            o    |-> o,
            verb |-> IF o \in present \ terminating THEN "add" ELSE "remove"]
  /\ overlapped' = (overlapped \/ cc.pc # "idle")
  /\ UNCHANGED <<cluster, configDirty, watching, shared, pending, opa, cc, budget,
                 superseded>>

\* An object of an excluded namespace is left as it is.
SyncExclude ==
  /\ sc.pc = "exclude"
  /\ sc' = IF Excluded(sc.o) THEN IdleSync ELSE SyncGoto("filter")
  /\ UNCHANGED <<cluster, configDirty, queue, watching, shared, pending, opa, cc,
                 budget, history>>

\* FilteredDataClient drops a kind that is not watched.
SyncFilter ==
  /\ sc.pc = "filter"
  /\ sc' = IF KindOf[sc.o] \in watched THEN SyncGoto("apply") ELSE IdleSync
  /\ UNCHANGED <<cluster, configDirty, queue, watching, shared, pending, opa, cc,
                 budget, history>>

SyncApply ==
  /\ sc.pc = "apply"
  /\ opa' = IF sc.verb = "add" THEN opa \cup {sc.o} ELSE opa \ {sc.o}
  /\ sc' = IdleSync
  /\ UNCHANGED <<cluster, configDirty, queue, watching, shared, pending, cc, budget,
                 history>>

\* Fault: the error is logged and not returned.
SyncFails_Drops ==
  /\ sc.pc = "apply"
  /\ budget.failures < MaxFailures
  /\ Spend("failures")
  /\ sc' = IdleSync
  /\ UNCHANGED <<cluster, configDirty, queue, watching, shared, pending, opa, cc,
                 history>>

\* OPA rejects the call: the request is queued again.
SyncFails ==
  /\ sc.pc = "apply"
  /\ budget.failures < MaxFailures
  /\ Spend("failures")
  /\ queue' = queue \cup {sc.o}
  /\ sc' = IdleSync
  /\ UNCHANGED <<cluster, configDirty, watching, shared, pending, opa, cc, history>>

-------------------------------------------------------------------------------
Init ==
  /\ present \in SUBSET Objects
  /\ terminating = {}
  /\ config = NoConfig
  /\ configDirty = TRUE
  /\ queue = {}
  /\ watching = {}
  /\ watched = {}
  /\ excluder = NoExclusion
  /\ needsWipe = FALSE
  /\ needsReplay = None
  /\ opa = {}
  /\ cc = IdleConfig
  /\ sc = IdleSync
  /\ budget = [configs |-> 0, changes |-> 0, failures |-> 0]
  /\ overlapped = FALSE
  /\ superseded = FALSE

ConfigStep ==
  \/ ConfigRead
  \/ ConfigWatched
  \/ ConfigExcluder
  \/ ConfigWipe
  \/ ConfigWatch
  \/ \E k \in Kinds : ConfigList(k)
  \/ \E o \in Objects : ConfigAdd(o)
  \/ ConfigKindDone
  \/ ConfigDone

SyncStep(o) == SyncGet(o) \/ (sc.o = o /\ (SyncExclude \/ SyncFilter \/ SyncApply))

Next ==
  \/ \E c \in Configs \cup {NoConfig} : ConfigChange(c)
  \/ \E o \in Objects, here \in BOOLEAN, deleting \in BOOLEAN :
       ObjectChange(o, here, deleting)
  \/ ConfigStep
  \/ ConfigFails
  \/ \E o \in Objects : SyncStep(o)
  \/ SyncFails

\* The workers run, and the work queues serve every item.
Fairness == WF_vars(ConfigStep) /\ \A o \in Objects : SF_vars(SyncStep(o))

Spec == Init /\ [][Next]_vars /\ Fairness

-------------------------------------------------------------------------------
Quiescent ==
  /\ ~configDirty /\ queue = {}
  /\ cc = IdleConfig /\ sc = IdleSync

\* What the Config asks OPA to hold.
Wanted(o) ==
  /\ KindOf[o] \in config.sync
  /\ NamespaceOf[o] \notin excluderOf(config.match)["sync"]

(***************************************************************************)
(* OPA is complete: when both controllers are at rest, every object of a   *)
(* kind that the Config lists, in a namespace that it does not exclude, is *)
(* in OPA, whatever reconciles and events were interleaved and whatever    *)
(* failed: "Replay cached data for any resources that were previously      *)
(* watched and still in the watch set".  The one exception is a Config     *)
(* that changed again before a failed wipe was retried: the set that is    *)
(* intersected then is not the one that the registrar watches.             *)
(***************************************************************************)
Complete ==
  Quiescent /\ ~superseded =>
    \A o \in present \ terminating : Wanted(o) => o \in opa

\* What is in OPA exists and is wanted.
Fresh == opa \subseteq {o \in present : Wanted(o)}

(***************************************************************************)
(* At rest, OPA's data is fresh, whatever the sequence of Config changes,  *)
(* object changes, failed calls and retries, as long as no sync reconcile  *)
(* overlapped a config reconcile: one that did may have passed its checks  *)
(* before the wipe and written after it.                                   *)
(***************************************************************************)
NothingStaleAlone == Quiescent /\ ~overlapped => Fresh

(***************************************************************************)
(* Data of a kind that stays in the Config comes back after a wipe,        *)
(* whichever calls of OPA fail, if every kind of the Config has a CRD.     *)
(* With a kind in Unregistered it need not: the error of ReplaceWatch      *)
(* returns before the replay of the other kinds.  Nor need it after a      *)
(* Config that superseded a failed wipe.                                   *)
(***************************************************************************)
Resynced ==
  \A o \in Objects :
    []<>(\/ o \in opa
         \/ o \notin present \ terminating
         \/ superseded
         \/ ~Wanted(o))
===============================================================================
