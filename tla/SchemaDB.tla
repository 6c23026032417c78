------------------------------- MODULE SchemaDB -------------------------------
(***************************************************************************)
(* The schema database used directly: any sequence of Upsert and Remove.   *)
(* Every method holds db.mutex throughout.                                 *)
(***************************************************************************)
EXTENDS SchemaDBOps

VARIABLE db

SchemaInit == db = NewDB

SchemaUpsert(m)  == db' = upsert(db, m)
SchemaRemove(id) == db' = remove(db, id)

SchemaNext ==
  \/ \E m \in Mutators : SchemaUpsert(m)
  \/ \E id \in IDs : SchemaRemove(id)

SchemaSpec == SchemaInit /\ [][SchemaNext]_db

-------------------------------------------------------------------------------
(***************************************************************************)
(* The trees hold what the cached mutators imply and nothing else, after   *)
(* any sequence of inserts, updates that change path or bindings, and      *)
(* removals: what is left is what building them afresh would give.         *)
(***************************************************************************)
TreesExact ==
  \A g \in GVKs :
    db.schemas[g] = UNION {References(m.id, m.path) :
                             m \in {m \in db.cached : g \in m.bindings}}

(***************************************************************************)
(* Every mutator that conflicts with another is flagged, although remove   *)
(* only ever clears flags and Add only looks along the new path; and no    *)
(* flag outlives its mutator, at which the next remove would panic.        *)
(***************************************************************************)
FlagsComplete ==
  /\ InConflict(db.cached) \subseteq db.conflicts
  /\ \A id \in db.conflicts : WithID(db.cached, id) # {}

(***************************************************************************)
(* No call panics, which follows from the two above.                       *)
(***************************************************************************)
NeverPanics == \A id \in IDs : ~removePanics(db, id)
===============================================================================
