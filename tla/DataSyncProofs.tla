---------------------------- MODULE DataSyncProofs ----------------------------
(***************************************************************************)
(* Proofs about the config and sync controllers, for any kinds, objects,   *)
(* Configs, and any number of changes and failed calls: at rest OPA has    *)
(* all the data that the Config asks for, and, if the two controllers did  *)
(* not overlap, no other.                                                  *)
(***************************************************************************)
EXTENDS DataSync, TLAPS

-------------------------------------------------------------------------------
\* Types

ConfigPCs == {"idle", "watched", "excluder", "wipe", "watch", "list", "add"}

Matches == {c.match : c \in Configs \cup {NoConfig}}

ConfigType == [pc : ConfigPCs, sync : SUBSET Kinds, match : Matches, todo : SUBSET Objects,
               k : Kinds \cup {""}]

SyncType == [pc : {"idle", "exclude", "filter", "apply"}, o : Objects \cup {""},
             verb : {"", "add", "remove"}]

TypeInv ==
  /\ present \in SUBSET Objects /\ terminating \in SUBSET Objects
  /\ config \in Configs \cup {NoConfig} /\ configDirty \in BOOLEAN
  /\ queue \in SUBSET Objects /\ watching \in SUBSET Kinds /\ watched \in SUBSET Kinds
  /\ needsWipe \in BOOLEAN /\ needsReplay \in (SUBSET Kinds) \cup {None}
  /\ opa \in SUBSET Objects
  /\ cc \in ConfigType /\ sc \in SyncType
  /\ sc.pc # "idle" => sc.o \in Objects /\ sc.verb \in {"add", "remove"}
  /\ overlapped \in BOOLEAN /\ superseded \in BOOLEAN

-------------------------------------------------------------------------------
\* The config controller

InSet(pcs) == cc.pc \in pcs

\* What a reconcile has done so far.
ConfigInv ==
  /\ InSet({"excluder", "wipe", "watch", "list", "add"}) => watched = cc.sync
  /\ InSet({"wipe", "watch", "list", "add"}) => excluder = excluderOf(cc.match)
  /\ InSet({"watch", "list", "add"}) => ~needsWipe
  /\ InSet({"watched", "excluder"}) /\ ~needsWipe => watched = cc.sync /\ excluder = excluderOf(cc.match)
  /\ InSet({"list", "add"}) => cc.sync \cap Unregistered = {} /\ watching = watched
  /\ ~InSet({"idle"}) => needsReplay # None
  /\ InSet({"add"}) => cc.k \in needsReplay /\ \A o \in cc.todo : KindOf[o] = cc.k
  /\ needsReplay = None => ~needsWipe /\ watched \cap Unregistered = {}
  /\ ~needsWipe /\ ~InSet({"watch"}) => watching = Watchable(watched)

\* What is left to do is in the work queue or in hand.
DirtyInv ==
  ~configDirty =>
    /\ cc.pc = "idle" => Settled(config) /\ ~needsWipe /\ needsReplay = None
    /\ cc.pc # "idle" => cc.sync = config.sync /\ cc.match = config.match

\* The sync controller is told of kinds that have a CRD.
KindsInv ==
  /\ watching \cap Unregistered = {}
  /\ \A o \in queue : KindOf[o] \notin Unregistered
  /\ sc.pc # "idle" => KindOf[sc.o] \notin Unregistered

-------------------------------------------------------------------------------
\* OPA is complete

\* What the reconcile in hand makes of the watch set and the excluder.
TargetSync     == IF cc.pc = "watched" THEN cc.sync ELSE watched
TargetExcluder == IF cc.pc \in {"watched", "excluder"} THEN excluderOf(cc.match) ELSE excluder

\* The objects that OPA is to have.
Due(o) ==
  /\ o \in present \ terminating
  /\ KindOf[o] \in TargetSync
  /\ NamespaceOf[o] \notin TargetExcluder["sync"]

ToReplay(k) == needsReplay # None /\ k \in needsReplay

\* A pending wipe is followed by a replay or a new watch.
WipeInv ==
  needsWipe /\ ~superseded => \A k \in TargetSync : ToReplay(k) \/ k \notin watching

\* What brings an object into OPA.
Comes(o) ==
  \/ KindOf[o] \notin watching
  \/ ToReplay(KindOf[o]) /\ ~(cc.pc = "add" /\ cc.k = KindOf[o])
  \/ o \in queue
  \/ cc.pc = "add" /\ o \in cc.todo
  \/ ~needsWipe /\ o \in opa
  \/ ~needsWipe /\ sc.pc # "idle" /\ sc.o = o /\ sc.verb = "add"

DueInv == ~superseded => \A o \in Objects : Due(o) => Comes(o)

\* A removal of an object that is back again is followed by its addition.
RemoveInv ==
  sc.pc # "idle" /\ sc.verb = "remove" /\ sc.o \in present \ terminating =>
    sc.o \in queue \/ KindOf[sc.o] \notin watching

-------------------------------------------------------------------------------
\* OPA is fresh

\* A deletion of the object has not been missed.
Known(o) ==
  \/ o \in present \/ o \in queue
  \/ sc.o = o /\ sc.verb = "remove" /\ sc.pc \in {"filter", "apply"}

Clean(o) ==
  KindOf[o] \in watched /\ ~Excluded(o) /\ KindOf[o] \notin Unregistered /\ Known(o)

FreshInv ==
  ~overlapped =>
    /\ cc.pc = "idle" \/ sc.pc = "idle"
    /\ needsWipe \/ \A o \in opa : Clean(o)
    /\ cc.pc = "watch" => opa = {} \/ watching = Watchable(watched)
    /\ cc.pc = "add" => \A o \in cc.todo : KindOf[o] \in watched => o \in present \cup queue
    /\ sc.pc # "idle" /\ sc.verb = "add" =>
         /\ needsWipe \/ KindOf[sc.o] \notin watched \/ sc.o \in present \cup queue
         /\ sc.pc \in {"filter", "apply"} => ~Excluded(sc.o)
         /\ sc.pc = "apply" => KindOf[sc.o] \in watched

\* The inductive invariant.
IInv ==
  /\ TypeInv
  /\ ConfigInv /\ DirtyInv /\ KindsInv
  /\ WipeInv /\ DueInv /\ RemoveInv
  /\ FreshInv

-------------------------------------------------------------------------------
\* What the steps do

\* The config controller's record takes these values.
Now(pc, sync, match, todo, k) ==
  /\ cc'.pc = pc /\ cc'.sync = sync /\ cc'.match = match /\ cc'.todo = todo /\ cc'.k = k
  /\ cc' \in ConfigType

LEMMA ConfigTypes ==
  ASSUME TypeInv
  PROVE  /\ config.sync \in SUBSET Kinds /\ config.match \in Matches
         /\ IdleConfig \in ConfigType /\ IdleConfig.pc = "idle"
         /\ \A ks \in SUBSET Kinds : ks # None
<1>1. NoConfig.sync = {} /\ NoConfig.match = {}
  BY SyncAssumption
<1>2. config.sync \in SUBSET Kinds /\ config.match \in Matches
  BY <1>1, SyncAssumption DEF TypeInv, Matches
<1>3. {} \in Matches
  BY <1>1 DEF Matches
<1>4. IdleConfig \in ConfigType /\ IdleConfig.pc = "idle"
  BY <1>3 DEF IdleConfig, ConfigType, ConfigPCs
<1> QED
  BY <1>2, <1>4, SyncAssumption DEF None

LEMMA GotoIs ==
  ASSUME TypeInv, NEW to \in ConfigPCs, cc' = ConfigGoto(to)
  PROVE  Now(to, cc.sync, cc.match, cc.todo, cc.k)
BY DEF TypeInv, ConfigGoto, ConfigType, Now

LEMMA IdleIs ==
  ASSUME TypeInv, cc' = IdleConfig
  PROVE  Now("idle", {}, {}, {}, "")
BY ConfigTypes DEF IdleConfig, Now

LEMMA ConfigReadIs ==
  ASSUME TypeInv, ConfigRead
  PROVE  /\ cc.pc = "idle" /\ configDirty' = FALSE
         /\ overlapped' = (overlapped \/ sc.pc # "idle")
         /\ superseded' = (superseded \/ (needsWipe /\ ~Settled(config)))
         /\ UNCHANGED <<cluster, queue, watching, shared, opa, sc>>
         /\ \/ Settled(config) /\ ~needsWipe /\ needsReplay = None /\ UNCHANGED <<pending, cc>>
            \/ /\ ~(Settled(config) /\ ~needsWipe /\ needsReplay = None)
               /\ needsWipe' = (needsWipe \/ ~Settled(config))
               /\ needsReplay' = IF needsReplay = None \/ ~Settled(config)
                                 THEN watched \cap config.sync ELSE needsReplay
               /\ needsReplay' \in SUBSET Kinds /\ needsReplay' # None
               /\ Now("watched", config.sync, config.match, {}, "")
<1> DEFINE x == [IdleConfig EXCEPT !.pc = "watched", !.sync = config.sync, !.match = config.match]
<1>1. /\ x \in ConfigType /\ x.pc = "watched" /\ x.sync = config.sync /\ x.match = config.match
      /\ x.todo = {} /\ x.k = ""
  BY ConfigTypes DEF IdleConfig, ConfigType, ConfigPCs
<1>2. \/ Settled(config) /\ ~needsWipe /\ needsReplay = None /\ UNCHANGED <<pending, cc>>
      \/ /\ ~(Settled(config) /\ ~needsWipe /\ needsReplay = None)
         /\ needsWipe' = (needsWipe \/ ~Settled(config))
         /\ needsReplay' = IF needsReplay = None \/ ~Settled(config)
                           THEN watched \cap config.sync ELSE needsReplay
         /\ cc' = x
  BY Zenon DEF ConfigRead
<1> HIDE DEF x
<1>3. cc' = x => Now("watched", config.sync, config.match, {}, "")
  BY <1>1 DEF Now
<1>4. watched \cap config.sync \in SUBSET Kinds /\ needsReplay \in (SUBSET Kinds) \cup {None}
  BY DEF TypeInv
<1>5. /\ cc.pc = "idle" /\ configDirty' = FALSE
      /\ overlapped' = (overlapped \/ sc.pc # "idle")
      /\ superseded' = (superseded \/ (needsWipe /\ ~Settled(config)))
      /\ UNCHANGED <<cluster, queue, watching, shared, opa, sc>>
  BY Zenon DEF ConfigRead
<1> QED
  BY <1>2, <1>3, <1>4, <1>5, ConfigTypes

LEMMA ConfigListIs ==
  ASSUME TypeInv, NEW k \in Kinds, ConfigList(k)
  PROVE  Now("add", cc.sync, cc.match, {o \in present : KindOf[o] = k}, k)
BY DEF TypeInv, ConfigList, ConfigType, ConfigPCs, Now

LEMMA ConfigAddIs ==
  ASSUME TypeInv, NEW o \in Objects, ConfigAdd(o)
  PROVE  Now("add", cc.sync, cc.match, cc.todo \ {o}, cc.k)
BY DEF TypeInv, ConfigAdd, ConfigType, Now

LEMMA ConfigKindDoneIs ==
  ASSUME TypeInv, ConfigKindDone
  PROVE  Now("list", cc.sync, cc.match, {}, "")
BY DEF TypeInv, ConfigKindDone, ConfigType, ConfigPCs, Now

\* The sync controller's record takes these values.
SyncNow(pc, o, verb) ==
  sc'.pc = pc /\ sc'.o = o /\ sc'.verb = verb /\ sc' \in SyncType

LEMMA SyncGetIs ==
  ASSUME TypeInv, NEW o \in Objects, SyncGet(o)
  PROVE  SyncNow(IF o \in present THEN "exclude" ELSE "filter", o,
                 IF o \in present \ terminating THEN "add" ELSE "remove")
BY DEF SyncGet, SyncType, SyncNow

LEMMA SyncIdleIs ==
  ASSUME sc' = IdleSync
  PROVE  SyncNow("idle", "", "")
BY DEF IdleSync, SyncType, SyncNow

LEMMA SyncGotoIs ==
  ASSUME TypeInv, NEW to \in {"filter", "apply"}, sc' = SyncGoto(to)
  PROVE  SyncNow(to, sc.o, sc.verb)
BY DEF TypeInv, SyncGoto, SyncType, SyncNow

-------------------------------------------------------------------------------
\* Type correctness

LEMMA InitTypes == Init => TypeInv
<1> SUFFICES ASSUME Init PROVE TypeInv
  OBVIOUS
<1>1. {} \in Matches
  BY SyncAssumption DEF Matches
<1>2. IdleConfig \in ConfigType /\ IdleSync \in SyncType /\ IdleSync.pc = "idle"
  BY <1>1 DEF IdleConfig, ConfigType, ConfigPCs, IdleSync, SyncType
<1> QED
  BY <1>2 DEF Init, TypeInv

LEMMA TypeStep == TypeInv /\ [Next]_vars => TypeInv'
<1> SUFFICES ASSUME TypeInv, [Next]_vars PROVE TypeInv'
  OBVIOUS
<1> USE DEF cluster, pending, shared, history
<1>1. CASE UNCHANGED vars
  BY <1>1 DEF vars, TypeInv
<1>2. ASSUME NEW c \in Configs \cup {NoConfig}, ConfigChange(c) PROVE TypeInv'
  BY <1>2 DEF ConfigChange, TypeInv
<1>3. ASSUME NEW o \in Objects, NEW here \in BOOLEAN, NEW deleting \in BOOLEAN, ObjectChange(o, here, deleting)
      PROVE  TypeInv'
  BY <1>3 DEF ObjectChange, TypeInv
<1>4. CASE ConfigRead
  <2>1. needsWipe' \in BOOLEAN /\ overlapped' \in BOOLEAN /\ superseded' \in BOOLEAN /\ configDirty' \in BOOLEAN
    BY <1>4, Zenon DEF ConfigRead, TypeInv
  <2>2. cc' \in ConfigType /\ needsReplay' \in (SUBSET Kinds) \cup {None}
    BY <1>4, ConfigReadIs DEF Now, TypeInv
  <2> QED
    BY <1>4, <2>1, <2>2 DEF ConfigRead, TypeInv
<1>5. CASE ConfigWatched
  BY <1>5, GotoIs DEF ConfigWatched, ConfigPCs, Now, TypeInv, ConfigType
<1>6. CASE ConfigExcluder
  BY <1>6, GotoIs DEF ConfigExcluder, ConfigPCs, Now, TypeInv
<1>7. CASE ConfigWipe
  BY <1>7, GotoIs DEF ConfigWipe, ConfigPCs, Now, TypeInv
<1>8. CASE ConfigWatch
  <2>1. cc' \in ConfigType
    BY <1>8, GotoIs, IdleIs DEF ConfigWatch, ConfigPCs, Now
  <2>2. configDirty' \in BOOLEAN /\ watching' \in SUBSET Kinds /\ queue' \in SUBSET Objects
    BY <1>8 DEF ConfigWatch, ReplaceWatch, Watchable, TypeInv, ConfigType
  <2> QED
    BY <1>8, <2>1, <2>2 DEF ConfigWatch, TypeInv
<1>9. ASSUME NEW k \in Kinds, ConfigList(k) PROVE TypeInv'
  BY <1>9, ConfigListIs DEF ConfigList, Now, TypeInv
<1>10. ASSUME NEW o \in Objects, ConfigAdd(o) PROVE TypeInv'
  BY <1>10, ConfigAddIs DEF ConfigAdd, Now, TypeInv
<1>11. CASE ConfigKindDone
  <2>1. cc' \in ConfigType
    BY <1>11, ConfigKindDoneIs DEF Now
  <2>2. needsReplay' \in (SUBSET Kinds) \cup {None}
    BY <1>11 DEF ConfigKindDone, TypeInv, None
  <2> QED
    BY <1>11, <2>1, <2>2 DEF ConfigKindDone, TypeInv
<1>12. CASE ConfigDone
  BY <1>12, IdleIs DEF ConfigDone, Now, TypeInv
<1>13. CASE ConfigFails
  BY <1>13, IdleIs DEF ConfigFails, Now, TypeInv
<1>14. ASSUME NEW o \in Objects, SyncGet(o) PROVE TypeInv'
  BY <1>14, SyncGetIs DEF SyncGet, SyncNow, TypeInv
<1>15. CASE SyncExclude
  BY <1>15, SyncIdleIs, SyncGotoIs DEF SyncExclude, SyncNow, TypeInv
<1>16. CASE SyncFilter
  BY <1>16, SyncIdleIs, SyncGotoIs DEF SyncFilter, SyncNow, TypeInv
<1>17. CASE SyncApply
  BY <1>17, SyncIdleIs DEF SyncApply, SyncNow, TypeInv
<1>18. CASE SyncFails
  BY <1>18, SyncIdleIs DEF SyncFails, SyncNow, TypeInv
<1> QED
  BY <1>1, <1>2, <1>3, <1>4, <1>5, <1>6, <1>7, <1>8, <1>9, <1>10, <1>11, <1>12, <1>13, <1>14, <1>15,
     <1>16, <1>17, <1>18 DEF Next, ConfigStep, SyncStep

\* The state of the two controllers keeps its types.
THEOREM TypeCorrect == Spec => []TypeInv
BY InitTypes, TypeStep, PTL DEF Spec

-------------------------------------------------------------------------------
\* The config controller

\* The steps of the others leave what the config controller works on.
Outside ==
  \/ \E c \in Configs \cup {NoConfig} : ConfigChange(c)
  \/ \E o \in Objects, here \in BOOLEAN, deleting \in BOOLEAN : ObjectChange(o, here, deleting)
  \/ \E o \in Objects : SyncStep(o)
  \/ SyncFails

LEMMA StepCases == [Next]_vars => ConfigStep \/ ConfigFails \/ Outside \/ UNCHANGED vars
BY DEF Next, Outside

LEMMA OutsideKeeps ==
  ASSUME Outside
  PROVE  UNCHANGED <<cc, watching, watched, excluder, needsWipe, needsReplay>>
BY DEF Outside, ConfigChange, ObjectChange, SyncStep, SyncGet, SyncExclude, SyncFilter, SyncApply, SyncFails,
   shared, pending

LEMMA ConfigInvStep ==
  ASSUME TypeInv, ConfigInv, [Next]_vars
  PROVE  ConfigInv'
<1> USE DEF shared, pending, InSet, ConfigPCs
<1>1. CASE UNCHANGED <<cc, watching, watched, excluder, needsWipe, needsReplay>>
  BY <1>1 DEF ConfigInv, Watchable
<1>2. CASE ConfigRead
  <2>1. UNCHANGED <<watching, watched, excluder>> /\ cc.pc = "idle"
    BY <1>2, ConfigReadIs
  <2>2. CASE UNCHANGED <<pending, cc>>
    BY <1>1, <2>1, <2>2
  <2>3. CASE /\ needsWipe' = (needsWipe \/ ~Settled(config))
             /\ needsReplay' # None
             /\ Now("watched", config.sync, config.match, {}, "")
    BY <2>1, <2>3 DEF ConfigInv, Now, Watchable, Settled
  <2> QED
    BY <1>2, <2>2, <2>3, ConfigReadIs
<1>3. CASE ConfigWatched
  BY <1>3, GotoIs DEF ConfigWatched, ConfigInv, Now, Watchable
<1>4. CASE ConfigExcluder
  BY <1>4, GotoIs DEF ConfigExcluder, ConfigInv, Now, Watchable
<1>5. CASE ConfigWipe
  BY <1>5, GotoIs DEF ConfigWipe, ConfigInv, Now, Watchable
<1>6. CASE ConfigWatch
  <2>1. /\ cc.pc = "watch" /\ UNCHANGED <<watched, excluder, needsWipe, needsReplay>>
        /\ watching' = Watchable(cc.sync)
        /\ \/ cc.sync \cap Unregistered = {} /\ Now("list", cc.sync, cc.match, cc.todo, cc.k)
           \/ Now("idle", {}, {}, {}, "")
    BY <1>6, GotoIs, IdleIs DEF ConfigWatch, ReplaceWatch
  <2> QED
    BY <2>1 DEF ConfigInv, Now, Watchable
<1>7. ASSUME NEW k \in Kinds, ConfigList(k) PROVE ConfigInv'
  <2>1. /\ cc.pc = "list" /\ k \in needsReplay
        /\ UNCHANGED <<watching, watched, excluder, needsWipe, needsReplay>>
    BY <1>7 DEF ConfigList
  <2>2. /\ cc'.pc = "add" /\ cc'.sync = cc.sync /\ cc'.match = cc.match /\ cc'.k = k
        /\ \A o \in cc'.todo : KindOf[o] = k
    BY <1>7, ConfigListIs DEF Now
  <2> QED
    BY <2>1, <2>2 DEF ConfigInv
<1>8. ASSUME NEW o \in Objects, ConfigAdd(o) PROVE ConfigInv'
  BY <1>8, ConfigAddIs DEF ConfigAdd, ConfigInv, Now, Watchable
<1>9. CASE ConfigKindDone
  <2>1. /\ cc.pc = "add" /\ UNCHANGED <<watching, watched, excluder, needsWipe>>
        /\ needsReplay' = needsReplay \ {cc.k} /\ Now("list", cc.sync, cc.match, {}, "")
    BY <1>9, ConfigKindDoneIs DEF ConfigKindDone
  <2>2. needsReplay' # None
    BY <2>1, ConfigTypes DEF ConfigInv, TypeInv
  <2> QED
    BY <2>1, <2>2 DEF ConfigInv, Now, Watchable
<1>10. CASE ConfigDone
  BY <1>10, IdleIs DEF ConfigDone, ConfigInv, Now, Watchable
<1>11. CASE ConfigFails
  BY <1>11, IdleIs DEF ConfigFails, ConfigInv, Now, Watchable
<1> QED
  BY <1>1, <1>2, <1>3, <1>4, <1>5, <1>6, <1>7, <1>8, <1>9, <1>10, <1>11, StepCases, OutsideKeeps
     DEF ConfigStep, vars

LEMMA DirtyInvStep ==
  ASSUME TypeInv, ConfigInv, DirtyInv, [Next]_vars
  PROVE  DirtyInv'
<1> USE DEF shared, pending, cluster, InSet
<1>1. CASE UNCHANGED <<cc, config, configDirty, watched, excluder, needsWipe, needsReplay>>
  BY <1>1 DEF DirtyInv, Settled
<1>2. ASSUME configDirty' = TRUE PROVE DirtyInv'
  BY <1>2 DEF DirtyInv
<1>3. CASE Outside
  <2>1. CASE \E c \in Configs \cup {NoConfig} : ConfigChange(c)
    BY <1>2, <2>1 DEF ConfigChange
  <2>2. CASE ~\E c \in Configs \cup {NoConfig} : ConfigChange(c)
    <3>1. UNCHANGED <<config, configDirty>>
      BY <1>3, <2>2 DEF Outside, ObjectChange, SyncStep, SyncGet, SyncExclude, SyncFilter, SyncApply, SyncFails
    <3> QED
      BY <1>1, <1>3, <3>1, OutsideKeeps
  <2> QED
    BY <2>1, <2>2
<1>4. CASE ConfigRead
  <2>1. UNCHANGED <<config, watched, excluder>>
    BY <1>4, ConfigReadIs
  <2>2. CASE Settled(config) /\ ~needsWipe /\ needsReplay = None /\ UNCHANGED <<pending, cc>>
    BY <1>4, <2>1, <2>2, ConfigReadIs DEF DirtyInv, Settled
  <2>3. CASE Now("watched", config.sync, config.match, {}, "")
    BY <2>1, <2>3 DEF DirtyInv, Now
  <2> QED
    BY <1>4, <2>2, <2>3, ConfigReadIs
<1>5. ASSUME UNCHANGED <<config, configDirty>>, NEW pc, NEW todo, NEW k, cc.pc # "idle", pc # "idle",
             Now(pc, cc.sync, cc.match, todo, k)
      PROVE  DirtyInv'
  BY <1>5 DEF DirtyInv, Now
<1>6. CASE ConfigWatched
  BY <1>5, <1>6, GotoIs DEF ConfigWatched, ConfigPCs
<1>7. CASE ConfigExcluder
  BY <1>5, <1>7, GotoIs DEF ConfigExcluder, ConfigPCs
<1>8. CASE ConfigWipe
  BY <1>5, <1>8, GotoIs DEF ConfigWipe, ConfigPCs
<1>9. CASE ConfigWatch
  BY <1>2, <1>5, <1>9, GotoIs DEF ConfigWatch, ConfigPCs
<1>10. ASSUME NEW k \in Kinds, ConfigList(k) PROVE DirtyInv'
  BY <1>5, <1>10, ConfigListIs DEF ConfigList
<1>11. ASSUME NEW o \in Objects, ConfigAdd(o) PROVE DirtyInv'
  BY <1>5, <1>11, ConfigAddIs DEF ConfigAdd
<1>12. CASE ConfigKindDone
  BY <1>5, <1>12, ConfigKindDoneIs DEF ConfigKindDone
<1>13. CASE ConfigDone
  <2>1. /\ cc.pc = "list" /\ UNCHANGED <<config, configDirty, watched, excluder, needsWipe>>
        /\ needsReplay' = None /\ Now("idle", {}, {}, {}, "")
    BY <1>13, IdleIs DEF ConfigDone
  <2> QED
    BY <2>1 DEF DirtyInv, ConfigInv, Now, Settled
<1>14. CASE ConfigFails
  BY <1>2, <1>14 DEF ConfigFails
<1> QED
  BY <1>1, <1>3, <1>4, <1>6, <1>7, <1>8, <1>9, <1>10, <1>11, <1>12, <1>13, <1>14, StepCases
     DEF ConfigStep, vars

LEMMA KindsInvStep ==
  ASSUME TypeInv, KindsInv, [Next]_vars
  PROVE  KindsInv'
<1> USE DEF shared, pending
<1>1. CASE UNCHANGED <<watching, queue, sc>>
  BY <1>1 DEF KindsInv
<1>2. ASSUME NEW o \in Objects, NEW here, NEW deleting, ObjectChange(o, here, deleting) PROVE KindsInv'
  BY <1>2 DEF ObjectChange, KindsInv
<1>3. CASE ConfigWatch
  BY <1>3 DEF ConfigWatch, ReplaceWatch, Watchable, KindsInv
<1>4. ASSUME NEW o \in Objects, SyncGet(o) PROVE KindsInv'
  BY <1>4, SyncGetIs DEF SyncGet, SyncNow, KindsInv
<1>5. CASE SyncExclude
  BY <1>5, SyncIdleIs, SyncGotoIs DEF SyncExclude, SyncNow, KindsInv
<1>6. CASE SyncFilter
  BY <1>6, SyncIdleIs, SyncGotoIs DEF SyncFilter, SyncNow, KindsInv
<1>7. CASE SyncApply
  BY <1>7, SyncIdleIs DEF SyncApply, SyncNow, KindsInv
<1>8. CASE SyncFails
  BY <1>8, SyncIdleIs DEF SyncFails, SyncNow, KindsInv
<1>9. CASE \E c \in Configs \cup {NoConfig} : ConfigChange(c)
  BY <1>1, <1>9 DEF ConfigChange
<1>10. CASE (ConfigStep /\ ~ConfigWatch) \/ ConfigFails
  BY <1>1, <1>10 DEF ConfigStep, ConfigRead, ConfigWatched, ConfigExcluder, ConfigWipe, ConfigList, ConfigAdd,
     ConfigKindDone, ConfigDone, ConfigFails
<1> QED
  BY <1>1, <1>2, <1>3, <1>4, <1>5, <1>6, <1>7, <1>8, <1>9, <1>10, StepCases DEF Outside, SyncStep, vars

-------------------------------------------------------------------------------
\* OPA is complete

\* What a change of the Config asks for is watched anew or replayed.
LEMMA ReadCovers ==
  ASSUME TypeInv, ConfigInv, ConfigRead, ~Settled(config), ~superseded',
         NEW k \in config.sync
  PROVE  k \notin watching \/ (needsReplay' # None /\ k \in needsReplay')
<1>1. /\ cc.pc = "idle" /\ superseded' = (superseded \/ (needsWipe /\ ~Settled(config)))
      /\ ~(Settled(config) /\ ~needsWipe /\ needsReplay = None)
         => /\ needsReplay' = IF needsReplay = None \/ ~Settled(config)
                              THEN watched \cap config.sync ELSE needsReplay
            /\ needsReplay' # None
  BY ConfigReadIs
<1>2. ~needsWipe
  BY <1>1 DEF TypeInv
<1>3. watching = Watchable(watched)
  BY <1>1, <1>2 DEF ConfigInv, InSet
<1> QED
  BY <1>1, <1>3 DEF Watchable

LEMMA WipeInvStep ==
  ASSUME TypeInv, ConfigInv, WipeInv, [Next]_vars
  PROVE  WipeInv'
<1> USE DEF shared, pending, history, InSet, ConfigPCs
<1>1. ASSUME UNCHANGED <<watching, needsReplay, needsWipe, superseded>>,
             TargetSync' = TargetSync
      PROVE  WipeInv'
  BY <1>1 DEF WipeInv, ToReplay
<1>2. CASE Outside
  <2>1. UNCHANGED superseded
    BY <1>2 DEF Outside, ConfigChange, ObjectChange, SyncStep, SyncGet, SyncExclude, SyncFilter, SyncApply,
       SyncFails
  <2> QED
    BY <1>1, <1>2, <2>1, OutsideKeeps DEF TargetSync
<1>3. CASE ConfigRead
  <2>0. /\ UNCHANGED <<watching, watched>> /\ cc.pc = "idle"
        /\ superseded' = (superseded \/ (needsWipe /\ ~Settled(config)))
    BY <1>3, ConfigReadIs
  <2>1. CASE ~needsWipe /\ UNCHANGED <<pending, cc>>
    BY <2>1 DEF WipeInv
  <2>2. CASE ~Settled(config) /\ Now("watched", config.sync, config.match, {}, "")
    <3>1. ASSUME ~superseded', NEW k \in config.sync
          PROVE  k \notin watching \/ (needsReplay' # None /\ k \in needsReplay')
      BY <1>3, <2>2, <3>1, ReadCovers
    <3> QED
      BY <2>0, <2>2, <3>1 DEF WipeInv, Now, TargetSync, ToReplay
  <2>3. CASE /\ Settled(config) /\ Now("watched", config.sync, config.match, {}, "")
             /\ needsWipe' = (needsWipe \/ ~Settled(config))
             /\ needsReplay' = IF needsReplay = None \/ ~Settled(config)
                               THEN watched \cap config.sync ELSE needsReplay
             /\ needsReplay' # None
    <3>1. TargetSync = watched /\ TargetSync' = watched
      BY <2>0, <2>3 DEF TargetSync, Now, Settled
    <3>2. superseded' = superseded /\ needsWipe' = needsWipe
      BY <2>0, <2>3 DEF TypeInv
    <3> QED
      BY <2>0, <2>3, <3>1, <3>2 DEF WipeInv, ToReplay, Settled
  <2> QED
    BY <1>3, <2>1, <2>2, <2>3, ConfigReadIs
<1>4. CASE ConfigWatched
  BY <1>1, <1>4, GotoIs DEF ConfigWatched, Now, TargetSync
<1>5. CASE ConfigExcluder
  BY <1>1, <1>5, GotoIs DEF ConfigExcluder, Now, TargetSync
<1>6. ASSUME ~needsWipe' PROVE WipeInv'
  BY <1>6 DEF WipeInv
<1>7. CASE ConfigWipe
  BY <1>6, <1>7 DEF ConfigWipe
<1>8. CASE ConfigWatch \/ ConfigKindDone \/ ConfigDone
  BY <1>6, <1>8 DEF ConfigWatch, ConfigKindDone, ConfigDone, ConfigInv
<1>9. CASE (\E k \in Kinds : ConfigList(k)) \/ (\E o \in Objects : ConfigAdd(o))
  BY <1>6, <1>9 DEF ConfigList, ConfigAdd, ConfigInv
<1>10. CASE ConfigFails
  BY <1>1, <1>10, IdleIs DEF ConfigFails, Now, TargetSync
<1>11. CASE UNCHANGED vars
  BY <1>1, <1>11 DEF vars, TargetSync
<1> QED
  BY <1>2, <1>3, <1>4, <1>5, <1>7, <1>8, <1>9, <1>10, <1>11, StepCases DEF ConfigStep

LEMMA RemoveInvStep ==
  ASSUME TypeInv, RemoveInv, [Next]_vars
  PROVE  RemoveInv'
<1> USE DEF cluster
<1>1. CASE UNCHANGED <<present, terminating, queue, watching, sc>>
  BY <1>1 DEF RemoveInv
<1>2. ASSUME NEW o \in Objects, NEW here \in BOOLEAN, NEW deleting \in BOOLEAN, ObjectChange(o, here, deleting)
      PROVE  RemoveInv'
  <2>1. /\ UNCHANGED <<watching, sc>>
        /\ present' = IF here THEN present \cup {o} ELSE present \ {o}
        /\ terminating' = IF deleting THEN terminating \cup {o} ELSE terminating \ {o}
        /\ queue' = IF KindOf[o] \in watching THEN queue \cup {o} ELSE queue
    BY <1>2 DEF ObjectChange
  <2>2. CASE sc.o = o
    BY <2>1, <2>2 DEF RemoveInv
  <2>3. CASE sc.o # o
    BY <2>1, <2>3 DEF RemoveInv
  <2> QED
    BY <2>2, <2>3
<1>3. CASE ConfigWatch
  <2>1. /\ UNCHANGED <<present, terminating, sc>> /\ watching' = Watchable(cc.sync)
        /\ queue' = queue \cup {o \in present : KindOf[o] \in Watchable(cc.sync) \ watching}
    BY <1>3 DEF ConfigWatch, ReplaceWatch
  <2> QED
    BY <2>1 DEF RemoveInv
<1>4. ASSUME NEW o \in Objects, SyncGet(o) PROVE RemoveInv'
  <2>1. UNCHANGED <<present, terminating>> /\ sc'.o = o
        /\ (sc'.verb = "remove" => o \notin present \ terminating)
    BY <1>4, SyncGetIs DEF SyncGet, SyncNow
  <2> QED
    BY <2>1 DEF RemoveInv
<1>5. ASSUME UNCHANGED <<present, terminating, queue, watching>>,
             sc'.pc = "idle" \/ (sc.pc # "idle" /\ sc'.o = sc.o /\ sc'.verb = sc.verb)
      PROVE  RemoveInv'
  BY <1>5 DEF RemoveInv
<1>6. CASE SyncExclude
  BY <1>5, <1>6, SyncIdleIs, SyncGotoIs DEF SyncExclude, SyncNow
<1>7. CASE SyncFilter
  BY <1>5, <1>7, SyncIdleIs, SyncGotoIs DEF SyncFilter, SyncNow
<1>8. CASE SyncApply
  BY <1>5, <1>8, SyncIdleIs DEF SyncApply, SyncNow
<1>9. CASE SyncFails
  <2>1. sc'.pc = "idle"
    BY <1>9, SyncIdleIs DEF SyncFails, SyncNow
  <2> QED
    BY <2>1 DEF RemoveInv
<1>10. CASE \E c \in Configs \cup {NoConfig} : ConfigChange(c)
  BY <1>1, <1>10 DEF ConfigChange
<1>11. CASE (ConfigStep /\ ~ConfigWatch) \/ ConfigFails
  BY <1>1, <1>11 DEF ConfigStep, ConfigRead, ConfigWatched, ConfigExcluder, ConfigWipe, ConfigList, ConfigAdd,
     ConfigKindDone, ConfigDone, ConfigFails
<1> QED
  BY <1>1, <1>2, <1>3, <1>4, <1>6, <1>7, <1>8, <1>9, <1>10, <1>11, StepCases DEF Outside, SyncStep, vars

\* Where no wipe is pending, the target is in force.
LEMMA InForce ==
  ASSUME TypeInv, ConfigInv, ~needsWipe
  PROVE  TargetSync = watched /\ TargetExcluder = excluder
BY DEF ConfigInv, InSet, TargetSync, TargetExcluder, TypeInv, ConfigType, ConfigPCs

LEMMA DueInvStep ==
  ASSUME TypeInv, ConfigInv, WipeInv, RemoveInv, DueInv, [Next]_vars
  PROVE  DueInv'
<1> USE DEF shared, pending, history, cluster, InSet, ConfigPCs
<1>0. superseded => superseded'
  BY ConfigReadIs DEF Next, ConfigChange, ObjectChange, ConfigStep, ConfigWatched, ConfigExcluder, ConfigWipe,
     ConfigWatch, ConfigList, ConfigAdd, ConfigKindDone, ConfigDone, ConfigFails, SyncStep, SyncGet, SyncExclude,
     SyncFilter, SyncApply, SyncFails, vars
<1> SUFFICES ASSUME ~superseded', NEW o \in Objects, Due(o)' PROVE Comes(o)'
  BY DEF DueInv
<1> DEFINE Before == Due(o) => Comes(o)
<1>b. Before
  BY <1>0 DEF DueInv
<1> HIDE DEF Before
<1>w. needsWipe /\ KindOf[o] \in TargetSync => ToReplay(KindOf[o]) \/ KindOf[o] \notin watching
  BY <1>0 DEF WipeInv
\* The steps of the others
<1>1. ASSUME NEW c \in Configs \cup {NoConfig}, ConfigChange(c) PROVE Comes(o)'
  BY <1>1, <1>b DEF ConfigChange, Before, Due, TargetSync, TargetExcluder, Comes, ToReplay
<1>2. ASSUME NEW x \in Objects, NEW here \in BOOLEAN, NEW deleting \in BOOLEAN, ObjectChange(x, here, deleting)
      PROVE  Comes(o)'
  <2>1. /\ UNCHANGED <<watching, watched, excluder, needsWipe, needsReplay, opa, cc, sc>>
        /\ present' = IF here THEN present \cup {x} ELSE present \ {x}
        /\ terminating' = IF deleting THEN terminating \cup {x} ELSE terminating \ {x}
        /\ queue' = IF KindOf[x] \in watching THEN queue \cup {x} ELSE queue
    BY <1>2 DEF ObjectChange
  <2>2. CASE x = o
    BY <2>1, <2>2 DEF Comes
  <2>3. CASE x # o
    <3>1. Due(o)
      BY <2>1, <2>3 DEF Due, TargetSync, TargetExcluder
    <3> QED
      BY <1>b, <2>1, <3>1 DEF Before, Comes, ToReplay
  <2> QED
    BY <2>2, <2>3
<1>3. ASSUME UNCHANGED <<present, terminating, watching, watched, excluder, needsWipe, needsReplay, cc>>
      PROVE  Due(o)
  BY <1>3 DEF Due, TargetSync, TargetExcluder
<1>4. ASSUME NEW x \in Objects, SyncGet(x) PROVE Comes(o)'
  <2>1. UNCHANGED <<present, terminating, watching, watched, excluder, needsWipe, needsReplay, cc, opa>>
        /\ queue' = queue \ {x} /\ sc.pc = "idle"
    BY <1>4 DEF SyncGet
  <2>2. Due(o) /\ Comes(o)
    BY <1>3, <1>b, <2>1 DEF Before
  <2>3. CASE x = o /\ ~needsWipe
    <3>1. sc'.pc # "idle" /\ sc'.o = o /\ sc'.verb = "add"
      BY <1>4, <2>2, <2>3, SyncGetIs DEF Due, SyncNow
    <3> QED
      BY <2>1, <2>3, <3>1 DEF Comes
  <2>4. CASE x = o /\ needsWipe
    <3>1. cc.pc # "add"
      BY <2>4 DEF ConfigInv
    <3>2. ToReplay(KindOf[o]) \/ KindOf[o] \notin watching
      BY <1>w, <2>2, <2>4 DEF Due
    <3> QED
      BY <2>1, <3>1, <3>2 DEF Comes, ToReplay
  <2>5. CASE x # o
    BY <2>1, <2>2, <2>5 DEF Comes, ToReplay
  <2> QED
    BY <2>3, <2>4, <2>5
<1>5. CASE SyncExclude
  <2>1. UNCHANGED <<present, terminating, watching, watched, excluder, needsWipe, needsReplay, cc, opa, queue>>
    BY <1>5 DEF SyncExclude
  <2>2. Due(o) /\ Comes(o)
    BY <1>3, <1>b, <2>1 DEF Before
  <2>3. ASSUME ~needsWipe, sc.o = o PROVE ~Excluded(sc.o)
    BY <2>2, <2>3, InForce DEF Due, Excluded
  <2>4. ASSUME ~needsWipe, sc.o = o, sc.verb = "add" PROVE sc'.pc # "idle" /\ sc'.o = o /\ sc'.verb = "add"
    BY <1>5, <2>3, <2>4, SyncGotoIs DEF SyncExclude, SyncNow
  <2> QED
    BY <2>1, <2>2, <2>4 DEF Comes, ToReplay
<1>6. CASE SyncFilter
  <2>1. UNCHANGED <<present, terminating, watching, watched, excluder, needsWipe, needsReplay, cc, opa, queue>>
    BY <1>6 DEF SyncFilter
  <2>2. Due(o) /\ Comes(o)
    BY <1>3, <1>b, <2>1 DEF Before
  <2>3. ASSUME ~needsWipe, sc.o = o PROVE KindOf[sc.o] \in watched
    BY <2>2, <2>3, InForce DEF Due
  <2>4. ASSUME ~needsWipe, sc.o = o, sc.verb = "add" PROVE sc'.pc # "idle" /\ sc'.o = o /\ sc'.verb = "add"
    BY <1>6, <2>3, <2>4, SyncGotoIs DEF SyncFilter, SyncNow
  <2> QED
    BY <2>1, <2>2, <2>4 DEF Comes, ToReplay
<1>7. CASE SyncApply
  <2>1. UNCHANGED <<present, terminating, watching, watched, excluder, needsWipe, needsReplay, cc, queue>>
        /\ sc.pc = "apply" /\ opa' = IF sc.verb = "add" THEN opa \cup {sc.o} ELSE opa \ {sc.o}
    BY <1>7 DEF SyncApply
  <2>2. Due(o) /\ Comes(o)
    BY <1>3, <1>b, <2>1 DEF Before
  <2>3. CASE sc.verb = "add"
    BY <2>1, <2>2, <2>3 DEF Comes, ToReplay
  <2>4. CASE sc.verb = "remove" /\ sc.o = o
    BY <2>1, <2>2, <2>4 DEF RemoveInv, Due, Comes
  <2>5. CASE sc.verb = "remove" /\ sc.o # o
    BY <2>1, <2>2, <2>5 DEF Comes, ToReplay
  <2> QED
    BY <2>1, <2>3, <2>4, <2>5 DEF TypeInv
<1>8. CASE SyncFails
  <2>1. UNCHANGED <<present, terminating, watching, watched, excluder, needsWipe, needsReplay, cc, opa>>
        /\ queue' = queue \cup {sc.o}
    BY <1>8 DEF SyncFails
  <2>2. Due(o) /\ Comes(o)
    BY <1>3, <1>b, <2>1 DEF Before
  <2> QED
    BY <2>1, <2>2 DEF Comes, ToReplay
\* The steps of the config controller
<1>9. CASE ConfigRead
  <2>0. /\ UNCHANGED <<present, terminating, watching, watched, excluder, queue, opa, sc>> /\ cc.pc = "idle"
        /\ superseded' = (superseded \/ (needsWipe /\ ~Settled(config)))
    BY <1>9, ConfigReadIs
  <2>1. CASE UNCHANGED <<pending, cc>>
    <3>1. Due(o) /\ Comes(o)
      BY <1>3, <1>b, <2>0, <2>1 DEF Before
    <3> QED
      BY <2>0, <2>1, <3>1 DEF Comes, ToReplay
  <2>2. CASE ~Settled(config) /\ Now("watched", config.sync, config.match, {}, "")
    <3>1. KindOf[o] \in config.sync
      BY <2>2 DEF Due, TargetSync, Now
    <3>2. KindOf[o] \notin watching \/ (needsReplay' # None /\ KindOf[o] \in needsReplay')
      BY <1>9, <2>2, <3>1, ReadCovers
    <3> QED
      BY <2>0, <2>2, <3>2 DEF Comes, ToReplay, Now
  <2>3. CASE /\ Settled(config) /\ Now("watched", config.sync, config.match, {}, "")
             /\ needsWipe' = (needsWipe \/ ~Settled(config))
             /\ needsReplay' = IF needsReplay = None \/ ~Settled(config)
                               THEN watched \cap config.sync ELSE needsReplay
             /\ needsReplay' # None
    <3>1. Due(o)
      BY <2>0, <2>3 DEF Due, TargetSync, TargetExcluder, Now, Settled
    <3>2. Comes(o)
      BY <1>b, <3>1 DEF Before
    <3>3. needsWipe' = needsWipe /\ (ToReplay(KindOf[o]) => ToReplay(KindOf[o])') /\ cc'.pc # "add"
      BY <2>3 DEF TypeInv, ToReplay, Now
    <3> QED
      BY <2>0, <3>2, <3>3 DEF Comes
  <2> QED
    BY <1>9, <2>1, <2>2, <2>3, ConfigReadIs
<1>10. ASSUME UNCHANGED <<present, terminating, TargetSync, TargetExcluder>>
       PROVE  Due(o) /\ Comes(o)
  BY <1>10, <1>b DEF Before, Due
<1>11. CASE ConfigWatched
  <2>1. UNCHANGED <<present, terminating, watching, excluder, needsWipe, needsReplay, opa, sc, queue>>
        /\ cc.pc = "watched" /\ watched' = cc.sync /\ Now("excluder", cc.sync, cc.match, cc.todo, cc.k)
    BY <1>11, GotoIs DEF ConfigWatched
  <2>2. UNCHANGED <<TargetSync, TargetExcluder>>
    BY <2>1 DEF TargetSync, TargetExcluder, Now
  <2> QED
    BY <1>10, <2>1, <2>2 DEF Comes, ToReplay, Now
<1>12. CASE ConfigExcluder
  <2>1. UNCHANGED <<present, terminating, watching, watched, needsWipe, needsReplay, opa, sc, queue>>
        /\ cc.pc = "excluder" /\ excluder' = excluderOf(cc.match) /\ Now("wipe", cc.sync, cc.match, cc.todo, cc.k)
    BY <1>12, GotoIs DEF ConfigExcluder
  <2>2. UNCHANGED <<TargetSync, TargetExcluder>>
    BY <2>1 DEF TargetSync, TargetExcluder, Now
  <2> QED
    BY <1>10, <2>1, <2>2 DEF Comes, ToReplay, Now
<1>13. CASE ConfigWipe
  <2>1. UNCHANGED <<present, terminating, watching, watched, excluder, needsReplay, sc, queue>>
        /\ cc.pc = "wipe" /\ opa' = (IF needsWipe THEN {} ELSE opa) /\ ~needsWipe'
        /\ Now("watch", cc.sync, cc.match, cc.todo, cc.k)
    BY <1>13, GotoIs DEF ConfigWipe
  <2>2. UNCHANGED <<TargetSync, TargetExcluder>>
    BY <2>1 DEF TargetSync, TargetExcluder, Now
  <2>3. Due(o) /\ Comes(o)
    BY <1>10, <2>1, <2>2
  <2>4. CASE needsWipe
    BY <1>w, <2>1, <2>3, <2>4 DEF Due, Comes, ToReplay, Now
  <2>5. CASE ~needsWipe
    BY <2>1, <2>3, <2>5 DEF Comes, ToReplay, Now
  <2> QED
    BY <2>4, <2>5
<1>14. CASE ConfigWatch
  <2>1. /\ UNCHANGED <<present, terminating, watched, excluder, needsReplay, needsWipe, opa, sc>>
        /\ cc.pc = "watch" /\ watching' = Watchable(cc.sync) /\ cc'.pc \in {"list", "idle"}
        /\ queue' = queue \cup {x \in present : KindOf[x] \in Watchable(cc.sync) \ watching}
    BY <1>14, GotoIs, IdleIs DEF ConfigWatch, ReplaceWatch, Now
  <2>2. UNCHANGED <<TargetSync, TargetExcluder>>
    BY <2>1 DEF TargetSync, TargetExcluder
  <2>3. Due(o) /\ Comes(o)
    BY <1>10, <2>1, <2>2
  <2>4. CASE KindOf[o] \notin watching'
    BY <2>4 DEF Comes
  <2>5. CASE KindOf[o] \in watching' /\ KindOf[o] \notin watching
    BY <2>1, <2>3, <2>5 DEF Due, Comes
  <2>6. CASE KindOf[o] \in watching
    BY <2>1, <2>3, <2>6 DEF Comes, ToReplay
  <2> QED
    BY <2>4, <2>5, <2>6
<1>15. ASSUME NEW k \in Kinds, ConfigList(k) PROVE Comes(o)'
  <2>1. /\ UNCHANGED <<present, terminating, watching, watched, excluder, needsReplay, needsWipe, opa, sc, queue>>
        /\ cc.pc = "list"
        /\ cc'.pc = "add" /\ cc'.k = k /\ cc'.todo = {x \in present : KindOf[x] = k}
    BY <1>15, ConfigListIs DEF ConfigList, Now
  <2>2. UNCHANGED <<TargetSync, TargetExcluder>>
    BY <2>1 DEF TargetSync, TargetExcluder
  <2>3. Due(o) /\ Comes(o)
    BY <1>10, <2>1, <2>2
  <2> QED
    BY <2>1, <2>3 DEF Comes, ToReplay, Due
<1>16. ASSUME NEW x \in Objects, ConfigAdd(x) PROVE Comes(o)'
  <2>1. /\ UNCHANGED <<present, terminating, watching, watched, excluder, needsReplay, needsWipe, sc, queue>>
        /\ cc.pc = "add" /\ opa' = IF ~Excluded(x) /\ KindOf[x] \in watched THEN opa \cup {x} ELSE opa
        /\ cc'.pc = "add" /\ cc'.k = cc.k /\ cc'.todo = cc.todo \ {x}
    BY <1>16, ConfigAddIs DEF ConfigAdd, Now
  <2>2. UNCHANGED <<TargetSync, TargetExcluder>>
    BY <2>1 DEF TargetSync, TargetExcluder
  <2>3. Due(o) /\ Comes(o)
    BY <1>10, <2>1, <2>2
  <2>4. CASE x = o
    <3>1. ~needsWipe
      BY <2>1 DEF ConfigInv
    <3>2. ~Excluded(o) /\ KindOf[o] \in watched
      BY <2>3, <3>1, InForce DEF Due, Excluded
    <3> QED
      BY <2>1, <2>4, <3>1, <3>2 DEF Comes
  <2>5. CASE x # o
    BY <2>1, <2>3, <2>5 DEF Comes, ToReplay
  <2> QED
    BY <2>4, <2>5
<1>17. CASE ConfigKindDone
  <2>1. /\ UNCHANGED <<present, terminating, watching, watched, excluder, needsWipe, opa, sc, queue>>
        /\ cc.pc = "add" /\ cc.todo = {} /\ needsReplay' = needsReplay \ {cc.k} /\ cc'.pc = "list"
    BY <1>17, ConfigKindDoneIs DEF ConfigKindDone, Now
  <2>2. UNCHANGED <<TargetSync, TargetExcluder>>
    BY <2>1 DEF TargetSync, TargetExcluder
  <2>3. Due(o) /\ Comes(o)
    BY <1>10, <2>1, <2>2
  <2>4. needsReplay' # None
    BY <2>1, ConfigTypes DEF ConfigInv, TypeInv
  <2> QED
    BY <2>1, <2>3, <2>4 DEF Comes, ToReplay
<1>18. CASE ConfigDone
  <2>1. /\ UNCHANGED <<present, terminating, watching, watched, excluder, needsWipe, opa, sc, queue>>
        /\ cc.pc = "list" /\ needsReplay = {} /\ cc'.pc = "idle"
    BY <1>18, IdleIs DEF ConfigDone, Now
  <2>2. UNCHANGED <<TargetSync, TargetExcluder>>
    BY <2>1 DEF TargetSync, TargetExcluder
  <2>3. Due(o) /\ Comes(o)
    BY <1>10, <2>1, <2>2
  <2> QED
    BY <2>1, <2>3 DEF Comes, ToReplay
<1>19. CASE ConfigFails
  <2>1. /\ UNCHANGED <<present, terminating, watching, watched, excluder, needsWipe, needsReplay, opa, sc, queue>>
        /\ cc.pc \in {"wipe", "list", "add"} /\ cc'.pc = "idle"
    BY <1>19, IdleIs DEF ConfigFails, Now
  <2>2. UNCHANGED <<TargetSync, TargetExcluder>>
    BY <2>1 DEF TargetSync, TargetExcluder
  <2>3. Due(o) /\ Comes(o)
    BY <1>10, <2>1, <2>2
  <2>4. cc.pc = "add" /\ o \in cc.todo => ToReplay(KindOf[o])
    BY DEF ConfigInv, ToReplay
  <2> QED
    BY <2>1, <2>3, <2>4 DEF Comes, ToReplay
<1>20. CASE UNCHANGED vars
  BY <1>20, <1>b DEF vars, Before, Due, TargetSync, TargetExcluder, Comes, ToReplay
<1> QED
  BY <1>1, <1>2, <1>4, <1>5, <1>6, <1>7, <1>8, <1>9, <1>11, <1>12, <1>13, <1>14, <1>15, <1>16, <1>17, <1>18,
     <1>19, <1>20, StepCases DEF ConfigStep, Outside, SyncStep

-------------------------------------------------------------------------------
\* OPA is fresh

\* A kind in OPA is watched, so that the deletion of an object is noticed.
LEMMA StillWatched ==
  ASSUME TypeInv, ConfigInv, ~needsWipe, cc.pc # "watch" \/ watching = Watchable(watched),
         NEW k \in watched, k \notin Unregistered
  PROVE  k \in watching
BY DEF ConfigInv, InSet, Watchable

\* What the other steps do to an object in OPA, where the controllers were alone.
LEMMA FreshInvStep ==
  ASSUME TypeInv, ConfigInv, KindsInv, FreshInv, [Next]_vars
  PROVE  FreshInv'
<1> USE DEF shared, pending, history, cluster, InSet, ConfigPCs
<1>0. overlapped => overlapped'
  BY ConfigReadIs DEF Next, ConfigChange, ObjectChange, ConfigStep, ConfigWatched, ConfigExcluder, ConfigWipe,
     ConfigWatch, ConfigList, ConfigAdd, ConfigKindDone, ConfigDone, ConfigFails, SyncStep, SyncGet, SyncExclude,
     SyncFilter, SyncApply, SyncFails, vars
<1> SUFFICES ASSUME ~overlapped', ~overlapped PROVE FreshInv'
  BY <1>0 DEF FreshInv
\* The steps of the cluster
<1>1. ASSUME NEW c \in Configs \cup {NoConfig}, ConfigChange(c) PROVE FreshInv'
  BY <1>1 DEF ConfigChange, FreshInv, Clean, Known, Excluded, Watchable
<1>2. ASSUME NEW x \in Objects, NEW here \in BOOLEAN, NEW deleting \in BOOLEAN, ObjectChange(x, here, deleting)
      PROVE  FreshInv'
  <2>1. /\ UNCHANGED <<watching, watched, excluder, needsWipe, needsReplay, opa, cc, sc>>
        /\ present' = IF here THEN present \cup {x} ELSE present \ {x}
        /\ queue' = IF KindOf[x] \in watching THEN queue \cup {x} ELSE queue
    BY <1>2 DEF ObjectChange
  <2>2. ASSUME NEW o \in Objects, o \in present \cup queue, KindOf[o] \in watching
        PROVE  o \in present' \cup queue'
    BY <2>1, <2>2
  <2>3. cc.pc = "idle" \/ sc.pc = "idle"
    BY DEF FreshInv
  <2>4. ASSUME ~needsWipe, NEW o \in opa PROVE Clean(o)'
    <3>1. Clean(o) /\ (cc.pc = "watch" => watching = Watchable(watched))
      BY <2>4 DEF FreshInv
    <3>2. KindOf[o] \in watching
      BY <2>4, <3>1, StillWatched DEF Clean
    <3>3. o \in Objects
      BY <2>4 DEF TypeInv
    <3> QED
      BY <2>1, <2>2, <3>1, <3>2, <3>3 DEF Clean, Known, Excluded
  <2>5. cc.pc = "watch" => opa = {} \/ watching = Watchable(watched)
    BY DEF FreshInv
  <2>6. ASSUME cc.pc = "add", NEW o \in cc.todo, KindOf[o] \in watched PROVE o \in present' \cup queue'
    <3>1. KindOf[o] \in watching
      BY <2>6 DEF ConfigInv
    <3>2. o \in Objects /\ o \in present \cup queue
      BY <2>6 DEF FreshInv, TypeInv, ConfigType
    <3> QED
      BY <2>2, <3>1, <3>2
  <2>7. ASSUME sc.pc # "idle", sc.verb = "add", ~needsWipe, KindOf[sc.o] \in watched
        PROVE  sc.o \in present' \cup queue'
    <3>1. sc.o \in Objects /\ sc.o \in present \cup queue /\ KindOf[sc.o] \notin Unregistered
      BY <2>7 DEF FreshInv, TypeInv, KindsInv
    <3>2. KindOf[sc.o] \in watching
      BY <2>3, <2>7, <3>1, StillWatched
    <3> QED
      BY <2>2, <3>1, <3>2
  <2>8. sc.pc # "idle" /\ sc.verb = "add" =>
          /\ sc.pc \in {"filter", "apply"} => ~Excluded(sc.o)
          /\ sc.pc = "apply" => KindOf[sc.o] \in watched
    BY DEF FreshInv
  <2> QED
    BY <2>1, <2>3, <2>4, <2>5, <2>6, <2>7, <2>8 DEF FreshInv, Excluded, Watchable
\* The steps of the config controller
<1>3. ASSUME sc.pc = "idle", UNCHANGED sc,
             needsWipe' \/ \A o \in opa' : Clean(o)',
             cc'.pc = "watch" => opa' = {} \/ watching' = Watchable(watched'),
             cc'.pc = "add" => \A o \in cc'.todo : KindOf[o] \in watched' => o \in present' \cup queue'
      PROVE  FreshInv'
  BY <1>3 DEF FreshInv, Watchable
<1>4. cc.pc # "idle" => sc.pc = "idle"
  BY DEF FreshInv
<1>5. ASSUME UNCHANGED <<present, watched, excluder, sc>>, queue \subseteq queue', NEW o, Clean(o)
      PROVE  Clean(o)'
  BY <1>5 DEF Clean, Known, Excluded
<1>6. CASE ConfigRead
  <2>1. /\ sc.pc = "idle" /\ UNCHANGED <<present, watching, watched, excluder, queue, opa, sc>>
        /\ (~needsWipe' => ~needsWipe) /\ cc'.pc \in {"watched", "idle"}
    BY <1>6, ConfigReadIs DEF Now
  <2>2. needsWipe' \/ \A o \in opa' : Clean(o)'
    BY <1>5, <2>1 DEF FreshInv
  <2> QED
    BY <1>3, <2>1, <2>2
<1>7. CASE ConfigWatched
  <2>1. /\ cc.pc = "watched" /\ UNCHANGED <<present, watching, excluder, queue, opa, sc, needsWipe>>
        /\ watched' = cc.sync /\ cc'.pc = "excluder"
    BY <1>7, GotoIs DEF ConfigWatched, Now
  <2>2. ~needsWipe => UNCHANGED watched
    BY <2>1 DEF ConfigInv
  <2>3. needsWipe' \/ \A o \in opa' : Clean(o)'
    BY <1>5, <2>1, <2>2 DEF FreshInv
  <2> QED
    BY <1>3, <1>4, <2>1, <2>3
<1>8. CASE ConfigExcluder
  <2>1. /\ cc.pc = "excluder" /\ UNCHANGED <<present, watching, watched, queue, opa, sc, needsWipe>>
        /\ excluder' = excluderOf(cc.match) /\ cc'.pc = "wipe"
    BY <1>8, GotoIs DEF ConfigExcluder, Now
  <2>2. ~needsWipe => UNCHANGED excluder
    BY <2>1 DEF ConfigInv
  <2>3. needsWipe' \/ \A o \in opa' : Clean(o)'
    BY <1>5, <2>1, <2>2 DEF FreshInv
  <2> QED
    BY <1>3, <1>4, <2>1, <2>3
<1>9. CASE ConfigWipe
  <2>1. /\ cc.pc = "wipe" /\ UNCHANGED <<present, watching, watched, excluder, queue, sc>>
        /\ opa' = (IF needsWipe THEN {} ELSE opa) /\ cc'.pc = "watch"
    BY <1>9, GotoIs DEF ConfigWipe, Now
  <2>2. \A o \in opa' : Clean(o)'
    BY <1>5, <2>1 DEF FreshInv
  <2>3. opa' = {} \/ watching' = Watchable(watched')
    BY <2>1 DEF ConfigInv, Watchable
  <2> QED
    BY <1>3, <1>4, <2>1, <2>2, <2>3
<1>10. CASE ConfigWatch
  <2>1. /\ cc.pc = "watch" /\ UNCHANGED <<present, watched, excluder, opa, sc, needsWipe>>
        /\ queue \subseteq queue' /\ cc'.pc \in {"list", "idle"}
    BY <1>10, GotoIs, IdleIs DEF ConfigWatch, ReplaceWatch, Now
  <2>2. needsWipe' \/ \A o \in opa' : Clean(o)'
    BY <1>5, <2>1 DEF FreshInv
  <2> QED
    BY <1>3, <1>4, <2>1, <2>2
<1>11. ASSUME NEW k \in Kinds, ConfigList(k) PROVE FreshInv'
  <2>1. /\ cc.pc = "list" /\ UNCHANGED <<present, watching, watched, excluder, opa, queue, sc, needsWipe>>
        /\ cc'.pc = "add" /\ cc'.todo = {o \in present : KindOf[o] = k}
    BY <1>11, ConfigListIs DEF ConfigList, Now
  <2>2. needsWipe' \/ \A o \in opa' : Clean(o)'
    BY <1>5, <2>1 DEF FreshInv
  <2> QED
    BY <1>3, <1>4, <2>1, <2>2
<1>12. ASSUME NEW x \in Objects, ConfigAdd(x) PROVE FreshInv'
  <2>1. /\ cc.pc = "add" /\ UNCHANGED <<present, watching, watched, excluder, queue, sc, needsWipe>> /\ x \in cc.todo
        /\ opa' = (IF ~Excluded(x) /\ KindOf[x] \in watched THEN opa \cup {x} ELSE opa)
        /\ cc'.pc = "add" /\ cc'.todo = cc.todo \ {x}
    BY <1>12, ConfigAddIs DEF ConfigAdd, Now
  <2>2. ~Excluded(x) /\ KindOf[x] \in watched => Clean(x)
    BY <2>1 DEF FreshInv, Clean, Known, ConfigInv
  <2>3. needsWipe' \/ \A o \in opa' : Clean(o)'
    BY <1>5, <2>1, <2>2 DEF FreshInv
  <2>4. \A o \in cc'.todo : KindOf[o] \in watched' => o \in present' \cup queue'
    BY <2>1 DEF FreshInv
  <2> QED
    BY <1>3, <1>4, <2>1, <2>3, <2>4
<1>13. CASE ConfigKindDone \/ ConfigDone \/ ConfigFails
  <2>1. /\ cc.pc # "idle" /\ UNCHANGED <<present, watching, watched, excluder, opa, queue, sc, needsWipe>>
        /\ cc'.pc \in {"list", "idle"}
    BY <1>13, ConfigKindDoneIs, IdleIs DEF ConfigKindDone, ConfigDone, ConfigFails, Now
  <2>2. needsWipe' \/ \A o \in opa' : Clean(o)'
    BY <1>5, <2>1 DEF FreshInv
  <2> QED
    BY <1>3, <1>4, <2>1, <2>2
\* The steps of the sync controller
<1>14. ASSUME cc.pc = "idle", UNCHANGED <<watched, excluder, needsWipe, cc>>,
              needsWipe \/ \A o \in opa' : Clean(o)',
              sc'.pc # "idle" /\ sc'.verb = "add" =>
                /\ needsWipe \/ KindOf[sc'.o] \notin watched \/ sc'.o \in present' \cup queue'
                /\ sc'.pc \in {"filter", "apply"} => NamespaceOf[sc'.o] \notin excluder["sync"]
                /\ sc'.pc = "apply" => KindOf[sc'.o] \in watched
       PROVE  FreshInv'
  BY <1>14 DEF FreshInv, Excluded
<1>15. ASSUME UNCHANGED <<present, watched, excluder>>, NEW o, Clean(o), Known(o)' PROVE Clean(o)'
  BY <1>15 DEF Clean, Excluded
<1>16. sc.pc # "idle" => cc.pc = "idle"
  BY DEF FreshInv
<1>17. ASSUME NEW x \in Objects, SyncGet(x) PROVE FreshInv'
  <2>1. /\ cc.pc = "idle" /\ sc.pc = "idle" /\ UNCHANGED <<present, watched, excluder, needsWipe, cc, opa>>
        /\ queue' = queue \ {x}
        /\ SyncNow(IF x \in present THEN "exclude" ELSE "filter", x,
                   IF x \in present \ terminating THEN "add" ELSE "remove")
    BY <1>17, SyncGetIs DEF SyncGet
  <2>2. ASSUME NEW o, Known(o) PROVE Known(o)'
    BY <2>1, <2>2 DEF Known, SyncNow
  <2>3. needsWipe \/ \A o \in opa' : Clean(o)'
    BY <1>15, <2>1, <2>2 DEF FreshInv, Clean
  <2>4. sc'.o = x /\ (sc'.verb = "add" => x \in present /\ sc'.pc = "exclude")
    BY <2>1 DEF SyncNow
  <2> QED
    BY <1>14, <2>1, <2>3, <2>4
<1>18. CASE SyncExclude
  <2>1. /\ sc.pc = "exclude" /\ UNCHANGED <<present, watched, excluder, needsWipe, cc, opa, queue>>
        /\ \/ ~Excluded(sc.o) /\ SyncNow("filter", sc.o, sc.verb)
           \/ SyncNow("idle", "", "")
    BY <1>18, SyncGotoIs, SyncIdleIs DEF SyncExclude
  <2>2. ASSUME NEW o, Known(o) PROVE Known(o)'
    BY <2>1, <2>2 DEF Known, SyncNow
  <2>3. needsWipe \/ \A o \in opa' : Clean(o)'
    BY <1>15, <2>1, <2>2 DEF FreshInv, Clean
  <2>4. sc'.pc # "idle" /\ sc'.verb = "add" =>
          /\ needsWipe \/ KindOf[sc'.o] \notin watched \/ sc'.o \in present' \cup queue'
          /\ sc'.pc \in {"filter", "apply"} => NamespaceOf[sc'.o] \notin excluder["sync"]
          /\ sc'.pc = "apply" => KindOf[sc'.o] \in watched
    BY <2>1 DEF FreshInv, SyncNow, Excluded
  <2> QED
    BY <1>14, <1>16, <2>1, <2>3, <2>4
<1>19. CASE SyncFilter
  <2>1. /\ sc.pc = "filter" /\ UNCHANGED <<present, watched, excluder, needsWipe, cc, opa, queue>>
        /\ \/ KindOf[sc.o] \in watched /\ SyncNow("apply", sc.o, sc.verb)
           \/ KindOf[sc.o] \notin watched /\ SyncNow("idle", "", "")
    BY <1>19, SyncGotoIs, SyncIdleIs DEF SyncFilter
  <2>2. ASSUME NEW o, Clean(o) PROVE Known(o)'
    BY <2>1, <2>2 DEF Clean, Known, SyncNow
  <2>3. needsWipe \/ \A o \in opa' : Clean(o)'
    BY <1>15, <2>1, <2>2 DEF FreshInv
  <2>4. sc'.pc # "idle" /\ sc'.verb = "add" =>
          /\ needsWipe \/ KindOf[sc'.o] \notin watched \/ sc'.o \in present' \cup queue'
          /\ sc'.pc \in {"filter", "apply"} => NamespaceOf[sc'.o] \notin excluder["sync"]
          /\ sc'.pc = "apply" => KindOf[sc'.o] \in watched
    BY <2>1 DEF FreshInv, SyncNow, Excluded
  <2> QED
    BY <1>14, <1>16, <2>1, <2>3, <2>4
<1>20. CASE SyncApply
  <2>1. /\ sc.pc = "apply" /\ UNCHANGED <<present, watched, excluder, needsWipe, cc, queue>>
        /\ opa' = (IF sc.verb = "add" THEN opa \cup {sc.o} ELSE opa \ {sc.o}) /\ sc'.pc = "idle"
    BY <1>20, SyncIdleIs DEF SyncApply, SyncNow
  <2>2. ~needsWipe /\ sc.verb = "add" => Clean(sc.o)
    BY <2>1 DEF FreshInv, Clean, Known, KindsInv
  <2>3. ~needsWipe => \A o \in opa' : Clean(o)
    BY <2>1, <2>2 DEF FreshInv
  <2>4. sc.verb \in {"add", "remove"}
    BY <2>1 DEF TypeInv
  <2>5. ~needsWipe /\ sc.verb = "add" => sc.o \in present \cup queue
    BY <2>1 DEF FreshInv
  <2>6. ASSUME ~needsWipe, NEW o \in opa', Known(o) PROVE Known(o)'
    BY <2>1, <2>4, <2>6 DEF Known
  <2>7. needsWipe \/ \A o \in opa' : Clean(o)'
    BY <1>15, <2>1, <2>3, <2>6 DEF Clean
  <2> QED
    BY <1>14, <1>16, <2>1, <2>7
<1>21. CASE SyncFails
  <2>1. /\ sc.pc = "apply" /\ UNCHANGED <<present, watched, excluder, needsWipe, cc, opa>>
        /\ queue' = queue \cup {sc.o} /\ sc'.pc = "idle"
    BY <1>21, SyncIdleIs DEF SyncFails, SyncNow
  <2>2. ASSUME NEW o, Known(o) PROVE Known(o)'
    BY <2>1, <2>2 DEF Known
  <2>3. needsWipe \/ \A o \in opa' : Clean(o)'
    BY <1>15, <2>1, <2>2 DEF FreshInv, Clean
  <2> QED
    BY <1>14, <1>16, <2>1, <2>3
<1>22. CASE UNCHANGED vars
  BY <1>22 DEF vars, FreshInv, Clean, Known, Excluded, Watchable
<1> QED
  BY <1>1, <1>2, <1>6, <1>7, <1>8, <1>9, <1>10, <1>11, <1>12, <1>13, <1>17, <1>18, <1>19, <1>20, <1>21, <1>22,
     StepCases DEF ConfigStep, Outside, SyncStep

-------------------------------------------------------------------------------
\* The invariant

LEMMA Initial == Init => IInv
<1> SUFFICES ASSUME Init PROVE IInv
  OBVIOUS
<1>1. TypeInv
  BY InitTypes
<1>2. cc.pc = "idle" /\ sc.pc = "idle" /\ configDirty /\ needsReplay = None /\ ~needsWipe
      /\ opa = {} /\ watching = {} /\ watched = {} /\ queue = {} /\ ~overlapped
  BY DEF Init, IdleConfig, IdleSync
<1>3. ConfigInv /\ DirtyInv /\ KindsInv
  BY <1>2 DEF ConfigInv, InSet, DirtyInv, KindsInv, Watchable
<1>4. WipeInv /\ DueInv /\ RemoveInv /\ FreshInv
  BY <1>2 DEF WipeInv, DueInv, Due, TargetSync, RemoveInv, FreshInv
<1> QED
  BY <1>1, <1>3, <1>4 DEF IInv

LEMMA Inductive == IInv /\ [Next]_vars => IInv'
BY TypeStep, ConfigInvStep, DirtyInvStep, KindsInvStep, WipeInvStep, DueInvStep, RemoveInvStep, FreshInvStep
   DEF IInv

LEMMA Holds == Spec => []IInv
BY Initial, Inductive, PTL DEF Spec

\* At rest nothing of the Config is left to do.
LEMMA AtRest ==
  ASSUME IInv, Quiescent
  PROVE  /\ watched = config.sync /\ excluder = excluderOf(config.match)
         /\ ~needsWipe /\ needsReplay = None /\ cc.pc = "idle" /\ sc.pc = "idle" /\ queue = {}
         /\ watching = watched
<1>1. cc.pc = "idle" /\ sc.pc = "idle" /\ queue = {} /\ ~configDirty
  BY DEF Quiescent, IdleConfig, IdleSync
<1>2. watched = config.sync /\ excluder = excluderOf(config.match) /\ ~needsWipe /\ needsReplay = None
  BY <1>1 DEF IInv, DirtyInv, Settled
<1>3. watching = watched
  BY <1>1, <1>2 DEF IInv, ConfigInv, InSet, Watchable
<1> QED
  BY <1>1, <1>2, <1>3

\* When the config and sync controllers are at rest, every object that the
\* Config lists is in OPA, whatever was interleaved and whatever call failed,
\* unless the Config changed between a failed wipe and its retry.
THEOREM OpaIsComplete == Spec => []Complete
<1>1. IInv => Complete
  <2> SUFFICES ASSUME IInv, Quiescent, ~superseded, NEW o \in present \ terminating, Wanted(o)
               PROVE  o \in opa
    BY DEF Complete
  <2>1. o \in Objects
    BY DEF IInv, TypeInv
  <2>2. Due(o)
    BY AtRest DEF Due, TargetSync, TargetExcluder, Wanted
  <2>3. Comes(o)
    BY <2>1, <2>2 DEF IInv, DueInv
  <2> QED
    BY <2>2, <2>3, AtRest DEF Comes, Due, TargetSync, ToReplay
<1> QED
  BY <1>1, Holds, PTL

\* When the two controllers are at rest and no reconcile of the one overlapped
\* one of the other, OPA has only objects that exist and that the Config lists:
\* wipes, deletions and failed calls leave nothing behind.
THEOREM NothingIsStale == Spec => []NothingStaleAlone
<1>1. IInv => NothingStaleAlone
  <2> SUFFICES ASSUME IInv, Quiescent, ~overlapped, NEW o \in opa PROVE o \in present /\ Wanted(o)
    BY DEF NothingStaleAlone, Fresh
  <2>1. Clean(o)
    BY AtRest DEF IInv, FreshInv
  <2> QED
    BY <2>1, AtRest DEF Clean, Known, Excluded, Wanted
<1> QED
  BY <1>1, Holds, PTL
===============================================================================
