----------------------------- MODULE SchemaDBOps ------------------------------
(***************************************************************************)
(* The database of implied schemas (pkg/mutation/schema).  A mutator whose *)
(* path is spec.containers[name: foo].image implies that containers is a   *)
(* list keyed by name; two mutators that imply different things of one     *)
(* place conflict.                                                         *)
(*                                                                         *)
(* A path is a sequence of [key, type] elements.  The tree of nodes of one *)
(* GVK is the set of its references: [at, by] says that mutator "by" is in *)
(* ReferencedBy of the node at location "at", where a location is the      *)
(* sequence of keys and child types that leads to the node.  A node exists *)
(* while somebody references it.                                           *)
(***************************************************************************)
EXTENDS Integers, Sequences

CONSTANTS
  GVKs,
  Mutators   \* versions of mutators: records with an id, a path and bindings

Unknown   == "Unknown"
NodeTypes == {"Object", "List"}

\* An element of a path.
Element == [key : STRING, type : NodeTypes]

IDs == {m.id : m \in Mutators}

ASSUME MutatorAssumption ==
  \A m \in Mutators :
    /\ m.path \in Seq(Element)
    /\ m.bindings \subseteq GVKs

-------------------------------------------------------------------------------
\* node.go

\* The type of what the j-th element of a path names: the type of the element
\* that follows it.
headType(path, j) == IF j < Len(path) THEN path[j + 1].type ELSE Unknown

\* The location that the first j elements of a path lead to.
Location(path, j) == [i \in 1..j |-> <<path[i].key, headType(path, i)>>]

References(id, path) ==
  {[at |-> Location(path, j), by |-> id] : j \in 0..Len(path)}

ReferencedBy(tree, at) == {r.by : r \in {r \in tree : r.at = at}}

Child(at, key, type) == Append(at, <<key, type>>)

childTypes(tree, at, key) ==
  {t \in NodeTypes : ReferencedBy(tree, Child(at, key, t)) # {}}

childKeys(tree, at) ==
  {r.at[Len(at) + 1][1] :
     r \in {r \in tree : Len(r.at) = Len(at) + 1 /\ SubSeq(r.at, 1, Len(at)) = at}}

\* len(S) > 1
Several(S) == \E x, y \in S : x # y

\* Fault: two keys of one list are not noticed.
conflicts_TypesOnly(tree, at, key) ==
  LET known == childTypes(tree, at, key)
      clash == {t \in known : Several(known)}
  IN  UNION {ReferencedBy(tree, Child(at, key, t)) : t \in clash}

\* Who is in conflict over the child "key" of the node at "at": the child has
\* two known types, or is a list with two keys.
conflicts(tree, at, key) ==
  LET known == childTypes(tree, at, key)
      clash == {t \in known :
                  \/ Several(known)
                  \/ t = "List" /\ Several(childKeys(tree, Child(at, key, t)))}
  IN  UNION {ReferencedBy(tree, Child(at, key, t)) : t \in clash}

\* The conflicts at the nodes along a path, which Add returns.
conflictsAlong(tree, path) ==
  UNION {conflicts(tree, Location(path, j - 1), path[j].key) : j \in 1..Len(path)}

HasConflictsAlong(tree, path) == conflictsAlong(tree, path) # {}

-------------------------------------------------------------------------------
\* schema.go

NewDB == [cached    |-> {},                       \* cachedMutators
          schemas   |-> [g \in GVKs |-> {}],
          conflicts |-> {}]

WithID(mutators, id) == {m \in mutators : m.id = id}

\* The flags that are left once the mutators "left" and their trees are.
stillConflicting(flags, left, trees) ==
  {c \in flags : \E m \in WithID(left, c) :
                   \E g \in m.bindings : HasConflictsAlong(trees[g], m.path)}

\* Fault: the flags of all the mutators are dropped.
remove_ClearsAll(db, id) ==
  LET gone  == WithID(db.cached, id)
      trees == [g \in GVKs |->
                  db.schemas[g] \ UNION {References(id, m.path) :
                                           m \in {m \in gone : g \in m.bindings}}]
  IN  [cached    |-> db.cached \ gone,
       schemas   |-> trees,
       conflicts |-> IF gone = {} THEN db.conflicts ELSE {}]

remove(db, id) ==
  LET gone  == WithID(db.cached, id)
      trees == [g \in GVKs |->
                  db.schemas[g] \ UNION {References(id, m.path) :
                                           m \in {m \in gone : g \in m.bindings}}]
      left  == db.cached \ gone
  IN  [cached    |-> left,
       schemas   |-> trees,
       conflicts |-> IF gone = {} THEN db.conflicts
                     ELSE stillConflicting(db.conflicts \ {id}, left, trees)]

\* Removing id panics: the tree does not hold what the mutator in the cache
\* implies, or a flag belongs to a mutator that is not in the cache.
removePanics(db, id) ==
  \E m \in WithID(db.cached, id) :
    \/ \E g \in m.bindings : ~(References(id, m.path) \subseteq db.schemas[g])
    \/ \E c \in db.conflicts \ {id} : WithID(db.cached, c) = {}

\* What adding m to the trees of d makes of them, and the conflicts it meets.
added(d, m) ==
  [g \in GVKs |-> IF g \in m.bindings THEN d.schemas[g] \cup References(m.id, m.path)
                                      ELSE d.schemas[g]]

met(d, m) == UNION {conflictsAlong(added(d, m)[g], m.path) : g \in m.bindings}

\* Fault: the path of the previous version stays in the tree.
upsert_KeepsOld(db, m) ==
  IF m \in db.cached THEN db
  ELSE [cached    |-> (db.cached \ WithID(db.cached, m.id)) \cup {m},
        schemas   |-> added(db, m),
        conflicts |-> db.conflicts \cup met(db, m)]

upsert(db, m) ==
  IF m \in db.cached THEN db
  ELSE LET d == remove(db, m.id)
       IN  [cached    |-> d.cached \cup {m},
            schemas   |-> added(d, m),
            conflicts |-> d.conflicts \cup met(d, m)]

\* upsert returns an error.
upsertErr(db, m) == m \notin db.cached /\ met(remove(db, m.id), m) # {}

-------------------------------------------------------------------------------
(***************************************************************************)
(* The reference: mutators a and b imply different things of a place that  *)
(* both reach by the same steps.                                           *)
(***************************************************************************)
Conflicting(a, b) ==
  /\ a.id # b.id
  /\ a.bindings \cap b.bindings # {}
  /\ \E j \in 1..Len(a.path) :
       /\ j < Len(a.path) /\ j < Len(b.path)
       /\ \A i \in 1..j - 1 : a.path[i].key = b.path[i].key
                              /\ a.path[i + 1].type = b.path[i + 1].type
       /\ a.path[j].key = b.path[j].key
       /\ \/ a.path[j + 1].type # b.path[j + 1].type
          \/ /\ a.path[j + 1].type = "List" /\ b.path[j + 1].type = "List"
             /\ a.path[j + 1].key # b.path[j + 1].key

InConflict(mutators) == {a.id : a \in {a \in mutators :
                                        \E b \in mutators : Conflicting(a, b)}}
===============================================================================
