------------------------- MODULE MutationSystemProofs -------------------------
(***************************************************************************)
(* Proofs about the mutation System and its schema database, for every set *)
(* of GVKs, paths and mutators, whatever they do to an object, and any     *)
(* number of requests and controllers.  The database: no call panics, the  *)
(* trees are what the cached mutators imply, and every conflict among them *)
(* is flagged.  The System: the list stays in sync with the map, Mutate    *)
(* returns fixed points and never reports an oscillating mutation,         *)
(* conflicts stay out of what is applied unless an update was rejected,    *)
(* and at rest the system is what the cluster says.                        *)
(***************************************************************************)
EXTENDS MutationSystem, TLAPS, WellFoundedInduction

-------------------------------------------------------------------------------
\* The schema database on its own.

\* The tree of a GVK that a set of mutators implies.
TreeOf(ms, g) ==
  UNION {References(m.id, m.path) : m \in {m \in ms : g \in m.bindings}}

(***************************************************************************)
(* The inductive invariant: the trees are exact, the cache holds one       *)
(* version of a mutator, and a flag belongs to a cached mutator.           *)
(***************************************************************************)
Good(d) ==
  /\ d.cached \subseteq Mutators
  /\ \A a, b \in d.cached : a.id = b.id => a = b
  /\ \A g \in GVKs : d.schemas[g] = TreeOf(d.cached, g)
  /\ \A c \in d.conflicts : \E m \in d.cached : m.id = c

\* A reference names the mutator it was made for.
LEMMA ReferenceBy ==
  ASSUME NEW id, NEW path, NEW r \in References(id, path)
  PROVE  r.by = id
BY DEF References

\* Whoever is in conflict references the tree.
LEMMA ConflictsReference ==
  ASSUME NEW tree, NEW path, NEW c \in conflictsAlong(tree, path)
  PROVE  \E r \in tree : r.by = c
<1>1. PICK j \in 1..Len(path) : c \in conflicts(tree, Location(path, j - 1), path[j].key)
  BY DEF conflictsAlong
<1>2. ASSUME NEW at, NEW key, c \in conflicts(tree, at, key)
      PROVE  \E r \in tree : r.by = c
  <2>1. PICK t \in childTypes(tree, at, key) : c \in ReferencedBy(tree, Child(at, key, t))
    BY <1>2 DEF conflicts
  <2> QED
    BY <2>1 DEF ReferencedBy
<1> QED
  BY <1>1, <1>2

\* Removing a mutator's references leaves those of the others.
LEMMA TreeWithout ==
  ASSUME NEW ms, NEW g, NEW id
  PROVE  TreeOf(ms \ WithID(ms, id), g)
           = TreeOf(ms, g) \ UNION {References(id, m.path) :
                                      m \in {m \in WithID(ms, id) : g \in m.bindings}}
<1> DEFINE mine == {m \in WithID(ms, id) : g \in m.bindings}
<1> DEFINE gone == UNION {References(id, m.path) : m \in mine}
<1>1. ASSUME NEW r \in TreeOf(ms \ WithID(ms, id), g)
      PROVE  r \in TreeOf(ms, g) \ gone
  <2>1. PICK m \in ms \ WithID(ms, id) : g \in m.bindings /\ r \in References(m.id, m.path)
    BY <1>1 DEF TreeOf
  <2>2. r.by = m.id /\ m.id # id
    BY <2>1, ReferenceBy DEF WithID
  <2>3. r \notin gone
    BY <2>2, ReferenceBy
  <2>4. r \in TreeOf(ms, g)
    BY <2>1 DEF TreeOf
  <2> QED
    BY <2>3, <2>4
<1>2. ASSUME NEW r \in TreeOf(ms, g), r \notin gone
      PROVE  r \in TreeOf(ms \ WithID(ms, id), g)
  <2>1. PICK m \in ms : g \in m.bindings /\ r \in References(m.id, m.path)
    BY <1>2 DEF TreeOf
  <2>2. m \notin WithID(ms, id)
    <3>1. SUFFICES ASSUME m \in WithID(ms, id) PROVE FALSE
      OBVIOUS
    <3>2. m \in mine /\ m.id = id
      BY <2>1, <3>1 DEF WithID
    <3>3. r \in gone
      BY <2>1, <3>2
    <3> QED
      BY <3>3, <1>2
  <2> QED
    BY <2>1, <2>2 DEF TreeOf
<1> QED
  BY <1>1, <1>2

\* remove keeps the invariant.
LEMMA RemoveGood ==
  ASSUME NEW d, Good(d), NEW id
  PROVE  Good(remove(d, id))
<1> DEFINE gone == WithID(d.cached, id)
<1> DEFINE left == d.cached \ gone
<1> DEFINE r == remove(d, id)
<1>1. r.cached = left
  BY DEF remove
<1>2. ASSUME NEW g \in GVKs PROVE r.schemas[g] = TreeOf(left, g)
  <2>1. r.schemas[g] = d.schemas[g] \ UNION {References(id, m.path) :
                                        m \in {m \in gone : g \in m.bindings}}
    BY DEF remove
  <2>2. d.schemas[g] = TreeOf(d.cached, g)
    BY DEF Good
  <2> QED
    BY <2>1, <2>2, TreeWithout
<1>3. ASSUME NEW c \in r.conflicts PROVE \E m \in left : m.id = c
  <2>1. CASE gone = {}
    <3>1. c \in d.conflicts
      BY <1>3, <2>1 DEF remove
    <3> QED
      BY <3>1, <2>1 DEF Good
  <2>2. CASE gone # {}
    <3>1. PICK trees : c \in stillConflicting(d.conflicts \ {id}, left, trees)
      BY <1>3, <2>2 DEF remove
    <3> QED
      BY <3>1 DEF stillConflicting, WithID
  <2> QED
    BY <2>1, <2>2
<1>4. left \subseteq Mutators /\ \A a, b \in left : a.id = b.id => a = b
  BY DEF Good
<1> HIDE DEF r
<1> QED
  BY <1>1, <1>2, <1>3, <1>4 DEF Good, r

\* After remove no cached mutator has the id.
LEMMA RemoveForgets ==
  ASSUME NEW d, NEW id, NEW m \in remove(d, id).cached
  PROVE  m.id # id
BY DEF remove, WithID

\* upsert keeps the invariant.
LEMMA UpsertGood ==
  ASSUME NEW d0, Good(d0), NEW m \in Mutators
  PROVE  Good(upsert(d0, m))
<1>1. CASE m \in d0.cached
  BY <1>1 DEF upsert
<1>2. CASE m \notin d0.cached
  <2> DEFINE d == remove(d0, m.id)
  <2> DEFINE u == upsert(d0, m)
  <2>1. Good(d)
    BY RemoveGood
  <2>2. \A a \in d.cached : a.id # m.id
    BY RemoveForgets
  <2> HIDE DEF d
  <2>3. /\ u.cached = d.cached \cup {m}
        /\ u.schemas = added(d, m)
        /\ u.conflicts = d.conflicts \cup met(d, m)
    BY <1>2 DEF upsert, d
  <2> HIDE DEF u
  <2>4. u.cached \subseteq Mutators /\ \A a, b \in u.cached : a.id = b.id => a = b
    BY <2>1, <2>2, <2>3 DEF Good
  <2>5. ASSUME NEW g \in GVKs PROVE u.schemas[g] = TreeOf(u.cached, g)
    <3>1. d.schemas[g] = TreeOf(d.cached, g)
      BY <2>1 DEF Good
    <3>2. CASE g \in m.bindings
      <4>1. u.schemas[g] = d.schemas[g] \cup References(m.id, m.path)
        BY <2>3, <3>2 DEF added
      <4>2. TreeOf(u.cached, g) = TreeOf(d.cached, g) \cup References(m.id, m.path)
        BY <2>3, <3>2 DEF TreeOf
      <4> QED
        BY <4>1, <4>2, <3>1
    <3>3. CASE g \notin m.bindings
      <4>1. u.schemas[g] = d.schemas[g]
        BY <2>3, <3>3 DEF added
      <4>2. {a \in u.cached : g \in a.bindings} = {a \in d.cached : g \in a.bindings}
        BY <2>3, <3>3
      <4> QED
        BY <4>1, <4>2, <3>1 DEF TreeOf
    <3> QED
      BY <3>2, <3>3
  <2>6. ASSUME NEW c \in u.conflicts PROVE \E a \in u.cached : a.id = c
    <3>1. CASE c \in d.conflicts
      BY <3>1, <2>1, <2>3 DEF Good
    <3>2. CASE c \in met(d, m)
      <4>1. PICK g \in m.bindings : c \in conflictsAlong(added(d, m)[g], m.path)
        BY <3>2 DEF met
      <4>2. g \in GVKs
        BY MutatorAssumption
      <4>3. PICK r \in u.schemas[g] : r.by = c
        BY <4>1, <2>3, ConflictsReference
      <4>4. r \in TreeOf(u.cached, g)
        BY <4>2, <4>3, <2>5
      <4>5. PICK a \in u.cached : r \in References(a.id, a.path)
        BY <4>4 DEF TreeOf
      <4> QED
        BY <4>3, <4>5, ReferenceBy
    <3> QED
      BY <3>1, <3>2, <2>3
  <2> QED
    BY <2>4, <2>5, <2>6 DEF Good, u
<1> QED
  BY <1>1, <1>2

\* Every reachable database is good.
THEOREM DBInvariance == SchemaSpec => []Good(db)
<1>1. SchemaInit => Good(db)
  BY DEF SchemaInit, NewDB, Good, TreeOf
<1>2. Good(db) /\ [SchemaNext]_db => Good(db)'
  <2> SUFFICES ASSUME Good(db), [SchemaNext]_db PROVE Good(db')
    OBVIOUS
  <2>1. CASE \E m \in Mutators : SchemaUpsert(m)
    BY <2>1, UpsertGood DEF SchemaUpsert
  <2>2. CASE \E id \in IDs : SchemaRemove(id)
    BY <2>2, RemoveGood DEF SchemaRemove
  <2>3. CASE UNCHANGED db
    BY <2>3
  <2> QED
    BY <2>1, <2>2, <2>3 DEF SchemaNext
<1> QED
  BY <1>1, <1>2, PTL DEF SchemaSpec

(***************************************************************************)
(* The trees of the database are what its mutators imply, after any        *)
(* sequence of Upsert and Remove (DB.upsert, DB.remove, node.Add,          *)
(* node.Remove).                                                           *)
(***************************************************************************)
THEOREM TreesAreExact == SchemaSpec => []TreesExact
<1>1. Good(db) => TreesExact
  BY DEF Good, TreesExact, TreeOf
<1> QED
  BY <1>1, DBInvariance, PTL

\* A good database panics in no call.
LEMMA GoodNeverPanics == Good(db) => NeverPanics
<1> SUFFICES ASSUME Good(db), NEW id \in IDs, removePanics(db, id) PROVE FALSE
  BY DEF NeverPanics
<1>1. PICK m \in WithID(db.cached, id) :
        \/ \E g \in m.bindings : ~(References(id, m.path) \subseteq db.schemas[g])
        \/ \E c \in db.conflicts \ {id} : WithID(db.cached, c) = {}
  BY DEF removePanics
<1>2. m \in db.cached /\ m.id = id /\ m \in Mutators
  BY <1>1 DEF WithID, Good
<1>3. ASSUME NEW g \in m.bindings PROVE References(id, m.path) \subseteq db.schemas[g]
  <2>1. g \in GVKs
    BY <1>2, MutatorAssumption
  <2>2. db.schemas[g] = TreeOf(db.cached, g)
    BY <2>1 DEF Good
  <2> QED
    BY <2>2, <1>2 DEF TreeOf
<1>4. ASSUME NEW c \in db.conflicts PROVE WithID(db.cached, c) # {}
  BY DEF Good, WithID
<1> QED
  BY <1>1, <1>3, <1>4

(***************************************************************************)
(* No sequence of Upsert and Remove makes DB.remove or node.Remove panic.  *)
(***************************************************************************)
THEOREM NoPanic == SchemaSpec => []NeverPanics
BY GoodNeverPanics, DBInvariance, PTL

-------------------------------------------------------------------------------
\* The flags

Steps == STRING \X (NodeTypes \cup {Unknown})

\* The locations on a path are one below the other.
LEMMA LocationOnPath ==
  ASSUME NEW path \in Seq(Element), NEW j \in 0..Len(path)
  PROVE  /\ Location(path, j) \in Seq(Steps)
         /\ Len(Location(path, j)) = j
         /\ \A i \in 1..j : Location(path, j)[i] = <<path[i].key, headType(path, i)>>
<1>1. ASSUME NEW i \in 1..Len(path) PROVE <<path[i].key, headType(path, i)>> \in Steps
  <2>1. path[i] \in Element /\ (i < Len(path) => path[i + 1] \in Element)
    OBVIOUS
  <2>2. path[i].key \in STRING /\ headType(path, i) \in NodeTypes \cup {Unknown}
    BY <2>1 DEF headType, Element
  <2> QED
    BY <2>2 DEF Steps
<1>2. \A i \in 1..j : i \in 1..Len(path)
  OBVIOUS
<1> QED
  BY <1>1, <1>2 DEF Location

LEMMA ChildOnPath ==
  ASSUME NEW path \in Seq(Element), NEW j \in 1..Len(path)
  PROVE  Location(path, j) = Child(Location(path, j - 1), path[j].key, headType(path, j))
<1> DEFINE up == Location(path, j - 1)
<1>1. j - 1 \in 0..Len(path) /\ j \in 0..Len(path) /\ Len(path) \in Nat
  OBVIOUS
<1>2. up \in Seq(Steps) /\ Len(up) = j - 1
      /\ \A i \in 1..j - 1 : up[i] = <<path[i].key, headType(path, i)>>
  BY <1>1, LocationOnPath
<1>3. Location(path, j) \in Seq(Steps) /\ Len(Location(path, j)) = j
      /\ \A i \in 1..j : Location(path, j)[i] = <<path[i].key, headType(path, i)>>
  BY <1>1, LocationOnPath
<1> HIDE DEF up
<1> DEFINE loc == Location(path, j)
<1>4. loc[j] \in Steps
  <2> HIDE DEF loc
  <2>1. loc \in Seq(Steps) /\ Len(loc) = j /\ j \in 1..j
    BY <1>1, <1>3 DEF loc
  <2> QED
    BY <2>1
<1>5. <<path[j].key, headType(path, j)>> \in Steps
  <2>1. j \in 1..j
    BY <1>1
  <2> QED
    BY <2>1, <1>3, <1>4
<1> DEFINE step == <<path[j].key, headType(path, j)>>
<1> HIDE DEF step
<1>6. Append(up, step) \in Seq(Steps) /\ Len(Append(up, step)) = j
      /\ \A i \in 1..j : Append(up, step)[i] = Location(path, j)[i]
  <2>1. step \in Steps /\ loc[j] = step /\ \A i \in 1..j - 1 : up[i] = loc[i]
    <3>1. j \in 1..j /\ \A i \in 1..j - 1 : i \in 1..j
      BY <1>1
    <3> QED
      BY <3>1, <1>2, <1>3, <1>5 DEF step
  <2> HIDE DEF loc
  <2>2. Append(up, step) \in Seq(Steps) /\ Len(Append(up, step)) = j
    BY <2>1, <1>2
  <2>3. ASSUME NEW i \in 1..j PROVE Append(up, step)[i] = loc[i]
    BY <2>1, <1>2
  <2> QED
    BY <2>2, <2>3 DEF loc
<1> DEFINE new == Append(up, step)
<1>7. new = loc
  <2> HIDE DEF new, loc
  <2>1. /\ new \in Seq(Steps) /\ Len(new) = j /\ loc \in Seq(Steps) /\ Len(loc) = j
        /\ \A i \in 1..j : new[i] = loc[i]
    BY <1>3, <1>6 DEF new, loc
  <2> QED
    BY <2>1
<1> QED
  BY <1>7 DEF Child, up, step

\* Paths that take the same steps lead to the same place.
LEMMA SameLocation ==
  ASSUME NEW a, NEW b, NEW n \in Nat,
         \A i \in 1..n : a[i].key = b[i].key /\ headType(a, i) = headType(b, i)
  PROVE  Location(a, n) = Location(b, n)
BY DEF Location

LEMMA ConflictingIsSymmetric ==
  ASSUME NEW a \in Mutators, NEW b \in Mutators, Conflicting(a, b)
  PROVE  Conflicting(b, a)
<1>1. a.path \in Seq(Element) /\ b.path \in Seq(Element)
  BY MutatorAssumption
<1> DEFINE n == Len(a.path)
<1> DEFINE k == Len(b.path)
<1>2. n \in Nat /\ k \in Nat
  BY <1>1
<1>3. PICK j \in 1..n :
       /\ j < n /\ j < k
       /\ \A i \in 1..j - 1 : a.path[i].key = b.path[i].key
                              /\ a.path[i + 1].type = b.path[i + 1].type
       /\ a.path[j].key = b.path[j].key
       /\ \/ a.path[j + 1].type # b.path[j + 1].type
          \/ /\ a.path[j + 1].type = "List" /\ b.path[j + 1].type = "List"
             /\ a.path[j + 1].key # b.path[j + 1].key
  BY DEF Conflicting
<1>4. j \in 1..k
  <2> HIDE DEF n, k
  <2> QED
    BY <1>2, <1>3
<1> QED
  BY <1>3, <1>4 DEF Conflicting

\* The flags that a tree with both paths gives rise to.
LEMMA ConflictIsSeen ==
  ASSUME NEW a \in Mutators, NEW b \in Mutators, Conflicting(a, b), NEW tree,
         References(a.id, a.path) \subseteq tree, References(b.id, b.path) \subseteq tree
  PROVE  a.id \in conflictsAlong(tree, a.path) /\ b.id \in conflictsAlong(tree, a.path)
<1>1. /\ a.path \in Seq(Element) /\ b.path \in Seq(Element)
      /\ Len(a.path) \in Nat /\ Len(b.path) \in Nat
  <2>1. a.path \in Seq(Element) /\ b.path \in Seq(Element)
    BY MutatorAssumption
  <2> QED
    BY <2>1
<1>2. PICK j \in 1..Len(a.path) :
       /\ j < Len(a.path) /\ j < Len(b.path)
       /\ \A i \in 1..j - 1 : a.path[i].key = b.path[i].key
                              /\ a.path[i + 1].type = b.path[i + 1].type
       /\ a.path[j].key = b.path[j].key
       /\ \/ a.path[j + 1].type # b.path[j + 1].type
          \/ /\ a.path[j + 1].type = "List" /\ b.path[j + 1].type = "List"
             /\ a.path[j + 1].key # b.path[j + 1].key
  BY DEF Conflicting
<1> DEFINE at == Location(a.path, j - 1)
<1> DEFINE key == a.path[j].key
<1> DEFINE ta == a.path[j + 1].type
<1> DEFINE tb == b.path[j + 1].type
<1>3. /\ j \in 1..Len(b.path) /\ j \in 0..Len(a.path) /\ j \in 0..Len(b.path) /\ j - 1 \in Nat
      /\ j + 1 \in 0..Len(a.path) /\ j + 1 \in 0..Len(b.path) /\ j \in 1..j + 1 /\ j + 1 \in 1..j + 1
      /\ j + 1 \in 1..Len(a.path) /\ j + 1 \in 1..Len(b.path)
  BY <1>1, <1>2
<1>4. at = Location(b.path, j - 1)
  <2>1. \A i \in 1..j - 1 : headType(a.path, i) = headType(b.path, i)
    BY <1>1, <1>2 DEF headType
  <2> QED
    BY <2>1, <1>2, <1>3, SameLocation
<1>5. Location(a.path, j) = Child(at, key, ta) /\ Location(b.path, j) = Child(at, key, tb)
  <2>1. headType(a.path, j) = ta /\ headType(b.path, j) = tb
    BY <1>2 DEF headType
  <2>2. Location(a.path, j) = Child(Location(a.path, j - 1), a.path[j].key, headType(a.path, j))
    BY <1>1, <1>2, ChildOnPath
  <2>3. Location(b.path, j) = Child(Location(b.path, j - 1), b.path[j].key, headType(b.path, j))
    BY <1>1, <1>3, ChildOnPath
  <2> QED
    BY <2>1, <2>2, <2>3, <1>2, <1>4
<1>6. /\ [at |-> Location(a.path, j), by |-> a.id] \in tree
      /\ [at |-> Location(b.path, j), by |-> b.id] \in tree
      /\ [at |-> Location(a.path, j + 1), by |-> a.id] \in tree
      /\ [at |-> Location(b.path, j + 1), by |-> b.id] \in tree
  BY <1>3 DEF References
<1>7. a.id \in ReferencedBy(tree, Child(at, key, ta)) /\ b.id \in ReferencedBy(tree, Child(at, key, tb))
  BY <1>5, <1>6 DEF ReferencedBy
<1>8. ta \in childTypes(tree, at, key) /\ tb \in childTypes(tree, at, key)
  <2>1. a.path[j + 1] \in Element /\ b.path[j + 1] \in Element
    BY <1>1, <1>3
  <2>2. ta \in NodeTypes /\ tb \in NodeTypes
    BY <2>1 DEF Element
  <2> QED
    BY <2>2, <1>7 DEF childTypes
<1>9. a.id \in conflicts(tree, at, key) /\ b.id \in conflicts(tree, at, key)
  <2>1. CASE ta # tb
    <3>1. Several(childTypes(tree, at, key))
      BY <2>1, <1>8 DEF Several
    <3> QED
      BY <3>1, <1>7, <1>8 DEF conflicts
  <2>2. CASE ta = tb
    <3>1. ta = "List" /\ tb = "List" /\ a.path[j + 1].key # b.path[j + 1].key
      BY <2>2, <1>2
    <3> DEFINE list == Location(a.path, j)
    <3>2. list = Location(b.path, j) /\ list = Child(at, key, "List")
      BY <3>1, <1>5
    <3>3. ASSUME NEW p \in {a.path, b.path}, list = Location(p, j)
          PROVE  /\ Len(list) = j /\ Len(Location(p, j + 1)) = j + 1
                 /\ SubSeq(Location(p, j + 1), 1, j) = list
                 /\ Location(p, j + 1)[j + 1][1] = p[j + 1].key
      <4>1. p \in Seq(Element) /\ j \in 0..Len(p) /\ j + 1 \in 0..Len(p)
            /\ j + 1 \in 1..Len(p)
        BY <1>1, <1>3
      <4>2. /\ list \in Seq(Steps) /\ Len(list) = j
            /\ \A i \in 1..j : list[i] = <<p[i].key, headType(p, i)>>
        BY <4>1, <3>3, LocationOnPath
      <4> DEFINE next == Location(p, j + 1)
      <4>3. /\ next \in Seq(Steps) /\ Len(next) = j + 1
            /\ \A i \in 1..j + 1 : next[i] = <<p[i].key, headType(p, i)>>
        BY <4>1, LocationOnPath
      <4> HIDE DEF next, list
      <4>4. SubSeq(next, 1, j) = list
        <5>1. /\ SubSeq(next, 1, j) \in Seq(Steps) /\ Len(SubSeq(next, 1, j)) = j
              /\ \A i \in 1..j : SubSeq(next, 1, j)[i] = next[i]
          BY <4>3, <1>3
        <5>2. \A i \in 1..j : i \in 1..j + 1
          BY <1>3
        <5> DEFINE front == SubSeq(next, 1, j)
        <5>3. front \in Seq(Steps) /\ Len(front) = j /\ \A i \in 1..j : front[i] = list[i]
          BY <5>1, <5>2, <4>2, <4>3
        <5> HIDE DEF front
        <5>4. front = list
          BY <5>3, <4>2
        <5> QED
          BY <5>4 DEF front
      <4>5. next[j + 1] = <<p[j + 1].key, headType(p, j + 1)>>
        BY <4>3, <1>3
      <4> QED
        BY <4>2, <4>3, <4>4, <4>5 DEF next
    <3>4. /\ Len(list) = j
          /\ Len(Location(a.path, j + 1)) = j + 1 /\ SubSeq(Location(a.path, j + 1), 1, j) = list
          /\ Location(a.path, j + 1)[j + 1][1] = a.path[j + 1].key
          /\ Len(Location(b.path, j + 1)) = j + 1 /\ SubSeq(Location(b.path, j + 1), 1, j) = list
          /\ Location(b.path, j + 1)[j + 1][1] = b.path[j + 1].key
      BY <3>2, <3>3
    <3>5. a.path[j + 1].key \in childKeys(tree, list) /\ b.path[j + 1].key \in childKeys(tree, list)
      <4> HIDE DEF list
      <4>1. a.path[j + 1].key \in childKeys(tree, list)
        <5> DEFINE r == [at |-> Location(a.path, j + 1), by |-> a.id]
        <5>1. /\ r \in tree /\ Len(r.at) = Len(list) + 1 /\ SubSeq(r.at, 1, Len(list)) = list
              /\ r.at[Len(list) + 1][1] = a.path[j + 1].key
          BY <3>4, <1>6
        <5> HIDE DEF r
        <5> QED
          BY <5>1 DEF childKeys
      <4>2. b.path[j + 1].key \in childKeys(tree, list)
        <5> DEFINE r == [at |-> Location(b.path, j + 1), by |-> b.id]
        <5>1. /\ r \in tree /\ Len(r.at) = Len(list) + 1 /\ SubSeq(r.at, 1, Len(list)) = list
              /\ r.at[Len(list) + 1][1] = b.path[j + 1].key
          BY <3>4, <1>6
        <5> HIDE DEF r
        <5> QED
          BY <5>1 DEF childKeys
      <4> QED
        BY <4>1, <4>2
    <3>6. Several(childKeys(tree, Child(at, key, "List")))
      BY <3>1, <3>2, <3>5 DEF Several
    <3> QED
      BY <3>1, <3>6, <1>7, <1>8 DEF conflicts
  <2> QED
    BY <2>1, <2>2
<1> QED
  BY <1>2, <1>9 DEF conflictsAlong

(***************************************************************************)
(* Every mutator that conflicts with another of the cache is flagged.      *)
(***************************************************************************)
Flagged(d) == \A a, b \in d.cached : Conflicting(a, b) => a.id \in d.conflicts

\* The tree of a GVK holds the path of every mutator that is bound to it.
LEMMA TreeHolds ==
  ASSUME NEW ms, NEW g, NEW a \in ms, g \in a.bindings
  PROVE  References(a.id, a.path) \subseteq TreeOf(ms, g)
BY DEF TreeOf

\* remove keeps the flags of the conflicts that are left.
LEMMA RemoveFlagged ==
  ASSUME NEW d, Good(d), Flagged(d), NEW id
  PROVE  Flagged(remove(d, id))
<1> DEFINE r == remove(d, id)
<1> DEFINE gone == WithID(d.cached, id)
<1> DEFINE left == d.cached \ gone
<1>1. Good(r) /\ r.cached = left
  <2>1. Good(r)
    BY RemoveGood
  <2>2. r.cached = left
    BY DEF remove
  <2> QED
    BY <2>1, <2>2
<1>2. SUFFICES ASSUME NEW a \in left, NEW b \in left, Conflicting(a, b)
               PROVE  a.id \in r.conflicts
  BY <1>1 DEF Flagged
<1>3. a.id \in d.conflicts /\ a.id # id /\ a \in Mutators /\ b \in Mutators
  BY <1>2 DEF Flagged, WithID, Good
<1>4. CASE gone = {}
  BY <1>3, <1>4 DEF remove
<1>5. CASE gone # {}
  <2>1. r.conflicts = stillConflicting(d.conflicts \ {id}, left, r.schemas)
    BY <1>5 DEF remove
  <2>2. PICK g \in a.bindings : g \in b.bindings
    BY <1>2 DEF Conflicting
  <2>3. r.schemas[g] = TreeOf(left, g)
    BY <1>1, <1>3, MutatorAssumption DEF Good
  <2>4. a.id \in conflictsAlong(TreeOf(left, g), a.path)
    BY <1>2, <1>3, <2>2, TreeHolds, ConflictIsSeen
  <2>5. HasConflictsAlong(r.schemas[g], a.path)
    BY <2>3, <2>4 DEF HasConflictsAlong
  <2>6. a \in WithID(left, a.id)
    BY DEF WithID
  <2> HIDE DEF r, left
  <2> QED
    BY <2>1, <2>2, <2>5, <2>6, <1>3 DEF stillConflicting
<1> QED
  BY <1>4, <1>5

\* upsert flags both sides of every conflict of the new version.
LEMMA UpsertFlagged ==
  ASSUME NEW d0, Good(d0), Flagged(d0), NEW m \in Mutators
  PROVE  Flagged(upsert(d0, m))
<1>1. CASE m \in d0.cached
  BY <1>1 DEF upsert
<1>2. CASE m \notin d0.cached
  <2> DEFINE d == remove(d0, m.id)
  <2> DEFINE u == upsert(d0, m)
  <2>1. Flagged(d) /\ Good(d) /\ Good(u)
    BY RemoveFlagged, RemoveGood, UpsertGood
  <2> HIDE DEF d
  <2>2. /\ u.cached = d.cached \cup {m}
        /\ u.schemas = added(d, m)
        /\ u.conflicts = d.conflicts \cup met(d, m)
    BY <1>2 DEF upsert, d
  <2> HIDE DEF u
  <2>3. ASSUME NEW b \in u.cached, Conflicting(m, b)
        PROVE  m.id \in met(d, m) /\ b.id \in met(d, m)
    <3>1. PICK g \in m.bindings : g \in b.bindings
      BY <2>3 DEF Conflicting
    <3>2. added(d, m)[g] = TreeOf(u.cached, g)
      BY <2>1, <2>2, MutatorAssumption DEF Good
    <3>3. b \in Mutators /\ m \in u.cached
      BY <2>1, <2>2 DEF Good
    <3>4. /\ m.id \in conflictsAlong(TreeOf(u.cached, g), m.path)
          /\ b.id \in conflictsAlong(TreeOf(u.cached, g), m.path)
      BY <2>3, <3>1, <3>3, TreeHolds, ConflictIsSeen
    <3> QED
      BY <3>1, <3>2, <3>4 DEF met
  <2>4. ASSUME NEW a \in u.cached, NEW b \in u.cached, Conflicting(a, b)
        PROVE  a.id \in u.conflicts
    <3>1. CASE a = m
      BY <3>1, <2>2, <2>3, <2>4
    <3>2. CASE b = m
      <4>1. a \in Mutators
        BY <2>1 DEF Good
      <4>2. Conflicting(m, a)
        BY <3>2, <2>4, <4>1, ConflictingIsSymmetric
      <4> QED
        BY <4>2, <2>2, <2>3
    <3>3. CASE a # m /\ b # m
      BY <3>3, <2>1, <2>2, <2>4 DEF Flagged
    <3> QED
      BY <3>1, <3>2, <3>3
  <2> QED
    BY <2>4 DEF Flagged, u
<1> QED
  BY <1>1, <1>2

(***************************************************************************)
(* Every mutator of the database that conflicts with another is flagged,   *)
(* and so left out by Mutate, after any sequence of Upsert and Remove:     *)
(* node.Add reports both sides of a conflict it makes, and the flags that  *)
(* DB.remove clears are of mutators whose conflicts are gone.              *)
(***************************************************************************)
THEOREM FlagsAreComplete == SchemaSpec => []FlagsComplete
<1>1. SchemaInit => Flagged(db)
  BY DEF SchemaInit, NewDB, Flagged
<1>2. Good(db) /\ Flagged(db) /\ [SchemaNext]_db => Flagged(db)'
  <2> SUFFICES ASSUME Good(db), Flagged(db), [SchemaNext]_db PROVE Flagged(db')
    BY DEF Flagged
  <2>1. CASE \E m \in Mutators : SchemaUpsert(m)
    BY <2>1, UpsertFlagged DEF SchemaUpsert
  <2>2. CASE \E id \in IDs : SchemaRemove(id)
    BY <2>2, RemoveFlagged DEF SchemaRemove
  <2>3. CASE UNCHANGED db
    BY <2>3
  <2> QED
    BY <2>1, <2>2, <2>3 DEF SchemaNext
<1>3. Good(db) /\ Flagged(db) => FlagsComplete
  BY DEF Good, Flagged, FlagsComplete, InConflict, WithID
<1> QED
  BY <1>1, <1>2, <1>3, DBInvariance, PTL DEF SchemaSpec

-------------------------------------------------------------------------------
\* The mutation System.

IDType == [group : Int, kind : Int, namespace : Int, name : Int]

-------------------------------------------------------------------------------
\* Lemmas about the ordered list.

\* Every non-empty set of naturals has a least element.
LEMMA LeastElement ==
  ASSUME NEW S, S \subseteq Nat, S # {}
  PROVE  \E x \in S : \A y \in S : x <= y
<1> DEFINE R == OpToRel(<, Nat)
<1>1. IsWellFoundedOn(R, Nat)
  BY NatLessThanWellFounded
<1>2. \A x, y \in Nat : x < y => <<x, y>> \in R
  BY DEF OpToRel
<1> HIDE DEF R
<1>3. PICK x \in S : \A y \in S : ~(<<y, x>> \in R)
  BY <1>1, WFMin
<1>4. \A y \in S : x \in Nat /\ y \in Nat /\ ~(y < x)
  BY <1>2, <1>3
<1>5. \A a, b \in Nat : ~(b < a) => a <= b
  OBVIOUS
<1> QED
  BY <1>4, <1>5

\* greaterOrEqual is a total order of the ids.
LEMMA OrderIsTotal ==
  ASSUME NEW a \in IDType, NEW b \in IDType, NEW c \in IDType
  PROVE  /\ greaterOrEqual(a, a)
         /\ ~greaterOrEqual(a, b) => greaterOrEqual(b, a)
         /\ greaterOrEqual(a, b) /\ greaterOrEqual(b, a) => a = b
         /\ greaterOrEqual(a, b) /\ greaterOrEqual(b, c) => greaterOrEqual(a, c)
BY DEF greaterOrEqual, IDType

\* The list is sorted, and no id comes twice.
Sorted(ms) ==
  \A i, j \in DOMAIN ms : i < j => ~greaterOrEqual(ms[i].id, ms[j].id)

Members(ms) == {ms[i] : i \in DOMAIN ms}

\* The place that sort.Search finds: what is before it is smaller.
LEMMA SearchFinds ==
  ASSUME NEW ms \in Seq(Mutators), NEW id
  PROVE  /\ Search(ms, id) \in 1..Len(ms) + 1
         /\ Search(ms, id) <= Len(ms) => greaterOrEqual(ms[Search(ms, id)].id, id)
         /\ \A j \in 1..Search(ms, id) - 1 : ~greaterOrEqual(ms[j].id, id)
<1> DEFINE P(i) == /\ i <= Len(ms) => greaterOrEqual(ms[i].id, id)
                   /\ \A j \in 1..i - 1 : ~greaterOrEqual(ms[j].id, id)
<1> DEFINE S == {i \in 1..Len(ms) + 1 : i <= Len(ms) => greaterOrEqual(ms[i].id, id)}
<1>1. Len(ms) \in Nat /\ Len(ms) + 1 \in S
  OBVIOUS
<1>2. S \subseteq Nat /\ S # {}
  BY <1>1
<1>3. PICK x \in S : \A y \in S : x <= y
  BY <1>2, LeastElement
<1>4. ASSUME NEW j \in 1..x - 1 PROVE ~greaterOrEqual(ms[j].id, id)
  <2>1. j \in 1..Len(ms) + 1 /\ j <= Len(ms) /\ ~(x <= j)
    BY <1>1, <1>3
  <2> QED
    BY <2>1, <1>3
<1>5. \E i \in 1..Len(ms) + 1 : P(i)
  BY <1>3, <1>4
<1>6. Search(ms, id) = CHOOSE i \in 1..Len(ms) + 1 : P(i)
  BY DEF Search
<1> QED
  BY <1>5, <1>6

\* The ids of the list are ids.
LEMMA ListIDs ==
  ASSUME NEW ms \in Seq(Mutators), NEW i \in 1..Len(ms)
  PROVE  ms[i] \in Mutators /\ ms[i].id \in IDType
BY SystemAssumption DEF IDType

\* What Search finds in a sorted list is the only place of the id.
LEMMA SearchIsExact ==
  ASSUME NEW ms \in Seq(Mutators), Sorted(ms), NEW id \in IDType
  PROVE  /\ \A j \in 1..Len(ms) : ms[j].id = id => j = Search(ms, id)
         /\ \A j \in 1..Len(ms) : j > Search(ms, id) => ~greaterOrEqual(id, ms[j].id)
         /\ \A j \in 1..Len(ms) : j = Search(ms, id) /\ ms[j].id # id
                                    => ~greaterOrEqual(id, ms[j].id)
<1> DEFINE k == Search(ms, id)
<1>1. /\ k \in 1..Len(ms) + 1
      /\ k <= Len(ms) => greaterOrEqual(ms[k].id, id)
      /\ \A j \in 1..k - 1 : ~greaterOrEqual(ms[j].id, id)
  BY SearchFinds
<1> HIDE DEF k
<1>2. ASSUME NEW j \in 1..Len(ms), j > k PROVE ~greaterOrEqual(id, ms[j].id)
  <2>1. k \in 1..Len(ms) /\ greaterOrEqual(ms[k].id, id)
    BY <1>1, <1>2
  <2>2. ~greaterOrEqual(ms[k].id, ms[j].id)
    BY <2>1, <1>2 DEF Sorted
  <2> QED
    BY <2>1, <2>2, ListIDs, OrderIsTotal
<1>3. ASSUME NEW j \in 1..Len(ms), j = k, ms[j].id # id PROVE ~greaterOrEqual(id, ms[j].id)
  BY <1>1, <1>3, ListIDs, OrderIsTotal
<1>4. ASSUME NEW j \in 1..Len(ms), ms[j].id = id PROVE j = k
  <2>1. greaterOrEqual(id, id)
    BY OrderIsTotal
  <2>2. ~(j > k)
    BY <1>2, <1>4, <2>1
  <2>3. ~(j < k)
    BY <1>1, <1>4, <2>1
  <2> QED
    BY <1>1, <2>2, <2>3
<1> QED
  BY <1>2, <1>3, <1>4 DEF k

\* Upsert keeps the list sorted and puts the mutator in the place of its
\* previous version.
LEMMA InsertedSorted ==
  ASSUME NEW ms \in Seq(Mutators), Sorted(ms), NEW m \in Mutators
  PROVE  /\ inserted(ms, m) \in Seq(Mutators)
         /\ Sorted(inserted(ms, m))
         /\ Members(inserted(ms, m)) = Replaced(Members(ms), m)
<1> DEFINE k == Search(ms, m.id)
<1>1. m.id \in IDType
  BY SystemAssumption DEF IDType
<1>2. /\ k \in 1..Len(ms) + 1
      /\ \A j \in 1..k - 1 : ~greaterOrEqual(ms[j].id, m.id)
      /\ \A j \in 1..Len(ms) : ms[j].id = m.id => j = k
      /\ \A j \in 1..Len(ms) : j > k => ~greaterOrEqual(m.id, ms[j].id)
      /\ \A j \in 1..Len(ms) : j = k /\ ms[j].id # m.id => ~greaterOrEqual(m.id, ms[j].id)
  BY <1>1, SearchFinds, SearchIsExact
<1>3. Len(ms) \in Nat /\ DOMAIN ms = 1..Len(ms) /\ \A i \in 1..Len(ms) : ms[i] \in Mutators
  OBVIOUS
<1>4. CASE Holds(ms, k, m.id)
  <2> DEFINE new == [ms EXCEPT ![k] = m]
  <2>1. inserted(ms, m) = new
    BY <1>4 DEF inserted
  <2>2. k \in 1..Len(ms) /\ ms[k].id = m.id
    BY <1>2, <1>3, <1>4 DEF Holds
  <2> HIDE DEF k
  <2>3. new \in Seq(Mutators) /\ DOMAIN new = 1..Len(ms)
    BY <2>2, <1>3
  <2>4. \A i \in 1..Len(ms) : new[i] = (IF i = k THEN m ELSE ms[i]) /\ new[i].id = ms[i].id
    BY <2>2, <1>3
  <2>5. Sorted(new)
    BY <2>3, <2>4, <1>3 DEF Sorted
  <2>6. Members(new) = Replaced(Members(ms), m)
    <3>1. ASSUME NEW x \in Members(new) PROVE x \in Replaced(Members(ms), m)
      BY <2>3, <2>4, <1>2, <1>3 DEF Members, Replaced, WithID
    <3>2. ASSUME NEW x \in Replaced(Members(ms), m) PROVE x \in Members(new)
      <4>1. CASE x = m
        BY <4>1, <2>2, <2>3, <2>4 DEF Members
      <4>2. CASE x # m
        <5>1. PICK i \in 1..Len(ms) : x = ms[i] /\ ms[i].id # m.id
          BY <4>2, <1>3 DEF Members, Replaced, WithID
        <5> QED
          BY <5>1, <2>2, <2>3, <2>4 DEF Members
      <4> QED
        BY <4>1, <4>2
    <3> QED
      BY <3>1, <3>2
  <2> QED
    BY <2>1, <2>3, <2>5, <2>6
<1>5. CASE ~Holds(ms, k, m.id)
  <2> DEFINE new == [j \in 1..Len(ms) + 1 |-> IF j < k THEN ms[j] ELSE
                                              IF j = k THEN m ELSE ms[j - 1]]
  <2>1. inserted(ms, m) = new
    BY <1>5 DEF inserted
  <2>2. \A j \in 1..Len(ms) : ms[j].id # m.id
    BY <1>2, <1>3, <1>5 DEF Holds
  <2> HIDE DEF k
  <2>3. new \in Seq(Mutators) /\ DOMAIN new = 1..Len(ms) + 1
    BY <1>2, <1>3
  <2>4. Sorted(new)
    <3> SUFFICES ASSUME NEW i \in 1..Len(ms) + 1, NEW j \in 1..Len(ms) + 1, i < j
                 PROVE  ~greaterOrEqual(new[i].id, new[j].id)
      BY <2>3 DEF Sorted
    <3>1. CASE j < k
      BY <3>1, <1>2, <1>3 DEF Sorted
    <3>2. CASE j = k
      BY <3>2, <1>2, <1>3
    <3>3. CASE j > k /\ i < k
      BY <3>3, <1>2, <1>3 DEF Sorted
    <3>4. CASE j > k /\ i = k
      <4>1. j - 1 \in 1..Len(ms) /\ j - 1 >= k /\ new[j] = ms[j - 1] /\ new[i] = m
        BY <3>4, <1>2, <1>3
      <4>2. j - 1 = k \/ j - 1 > k
        BY <4>1, <1>2
      <4> QED
        BY <4>1, <4>2, <2>2, <1>2
    <3>5. CASE j > k /\ i > k
      BY <3>5, <1>2, <1>3 DEF Sorted
    <3> QED
      BY <3>1, <3>2, <3>3, <3>4, <3>5, <1>2, <1>3
  <2>5. Members(new) = Replaced(Members(ms), m)
    <3>1. ASSUME NEW x \in Members(new) PROVE x \in Replaced(Members(ms), m)
      <4>1. PICK i \in 1..Len(ms) + 1 : x = new[i]
        BY <2>3 DEF Members
      <4>2. x = m \/ \E j \in 1..Len(ms) : x = ms[j]
        BY <4>1, <1>2, <1>3
      <4> QED
        BY <4>2, <2>2, <1>3 DEF Members, Replaced, WithID
    <3>2. ASSUME NEW x \in Replaced(Members(ms), m) PROVE x \in Members(new)
      <4>1. x = m \/ \E i \in 1..Len(ms) : x = ms[i]
        BY <1>3 DEF Members, Replaced, WithID
      <4>2. CASE x = m
        BY <4>2, <1>2, <2>3 DEF Members
      <4>3. ASSUME NEW i \in 1..Len(ms), x = ms[i] PROVE x \in Members(new)
        <5>1. \E j \in 1..Len(ms) + 1 : new[j] = ms[i]
          <6>1. CASE i < k
            BY <6>1, <1>3
          <6>2. CASE i >= k
            <7>1. i + 1 \in 1..Len(ms) + 1 /\ new[i + 1] = ms[i]
              BY <6>2, <1>2, <1>3
            <7> QED
              BY <7>1
          <6> QED
            BY <6>1, <6>2, <1>2
        <5> QED
          BY <5>1, <4>3, <2>3 DEF Members
      <4> QED
        BY <4>1, <4>2, <4>3
    <3> QED
      BY <3>1, <3>2
  <2> QED
    BY <2>1, <2>3, <2>4, <2>5
<1> QED
  BY <1>4, <1>5

\* Remove takes the mutator out of the list and keeps the others in order.
LEMMA DeletedSorted ==
  ASSUME NEW ms \in Seq(Mutators), Sorted(ms), NEW id, WithID(Members(ms), id) # {}
  PROVE  /\ deleted(ms, id) \in Seq(Mutators)
         /\ Sorted(deleted(ms, id))
         /\ Members(deleted(ms, id)) = Members(ms) \ WithID(Members(ms), id)
<1> DEFINE k == Search(ms, id)
<1>1. Len(ms) \in Nat /\ DOMAIN ms = 1..Len(ms) /\ \A i \in 1..Len(ms) : ms[i] \in Mutators
  OBVIOUS
<1>2. PICK p \in 1..Len(ms) : ms[p].id = id
  BY <1>1 DEF WithID, Members
<1>3. id \in IDType
  BY <1>2, ListIDs
<1>4. \A j \in 1..Len(ms) : ms[j].id = id => j = k
  BY <1>3, SearchIsExact
<1>5. k \in 1..Len(ms) /\ ms[k].id = id
  BY <1>2, <1>4
<1> DEFINE new == [j \in 1..Len(ms) - 1 |-> IF j < k THEN ms[j] ELSE ms[j + 1]]
<1>6. deleted(ms, id) = new
  BY <1>1, <1>5 DEF deleted, Holds
<1> HIDE DEF k
<1>7. new \in Seq(Mutators) /\ DOMAIN new = 1..Len(ms) - 1
  <2>1. Len(ms) - 1 \in Nat
    BY <1>1, <1>5
  <2>2. \A j \in 1..Len(ms) - 1 : new[j] \in Mutators
    BY <1>1, <1>5
  <2> QED
    BY <2>1, <2>2
<1>8. Sorted(new)
  <2> SUFFICES ASSUME NEW i \in 1..Len(ms) - 1, NEW j \in 1..Len(ms) - 1, i < j
               PROVE  ~greaterOrEqual(new[i].id, new[j].id)
    BY <1>7 DEF Sorted
  <2> DEFINE at(n) == IF n < k THEN n ELSE n + 1
  <2>1. at(i) \in DOMAIN ms /\ at(j) \in DOMAIN ms /\ at(i) < at(j)
    BY <1>1, <1>5
  <2>2. new[i] = ms[at(i)] /\ new[j] = ms[at(j)]
    BY <1>1, <1>5
  <2> HIDE DEF at
  <2> QED
    BY <2>1, <2>2 DEF Sorted
<1>9. Members(new) = Members(ms) \ WithID(Members(ms), id)
  <2>1. ASSUME NEW x \in Members(new) PROVE x \in Members(ms) \ WithID(Members(ms), id)
    <3>1. PICK i \in 1..Len(ms) - 1 : x = new[i]
      BY <1>7 DEF Members
    <3>2. \E j \in 1..Len(ms) : j # k /\ x = ms[j]
      <4>1. CASE i < k
        BY <4>1, <3>1, <1>1, <1>5
      <4>2. CASE ~(i < k)
        <5>1. i + 1 \in 1..Len(ms) /\ i + 1 # k /\ x = ms[i + 1]
          BY <4>2, <3>1, <1>1, <1>5
        <5> QED
          BY <5>1
      <4> QED
        BY <4>1, <4>2
    <3> QED
      BY <3>2, <1>1, <1>4 DEF Members, WithID
  <2>2. ASSUME NEW x \in Members(ms) \ WithID(Members(ms), id) PROVE x \in Members(new)
    <3>1. PICK i \in 1..Len(ms) : x = ms[i] /\ ms[i].id # id
      BY <1>1 DEF Members, WithID
    <3>2. \E j \in 1..Len(ms) - 1 : x = new[j]
      <4>1. CASE i < k
        <5>1. i \in 1..Len(ms) - 1 /\ new[i] = ms[i]
          BY <4>1, <1>1, <1>5
        <5> QED
          BY <5>1, <3>1
      <4>2. CASE i > k
        <5>1. i - 1 \in 1..Len(ms) - 1 /\ new[i - 1] = ms[i]
          BY <4>2, <1>1, <1>5
        <5> QED
          BY <5>1, <3>1
      <4> QED
        BY <4>1, <4>2, <3>1, <1>5
    <3> QED
      BY <3>2, <1>7 DEF Members
  <2> QED
    BY <2>1, <2>2
<1> QED
  BY <1>6, <1>7, <1>8, <1>9

-------------------------------------------------------------------------------
(***************************************************************************)
(* The list and the map.  The inductive invariant adds to InSync that the  *)
(* list holds mutators and that the workers carry mutators.                *)
(***************************************************************************)
ListInv ==
  /\ orderedMutators \in Seq(Mutators)
  /\ InSync
  /\ cluster \subseteq Mutators
  /\ \A c \in Controllers : worker[c].got \subseteq Mutators
  /\ DOMAIN worker = Controllers

\* A step that leaves the system alone and gives a worker a mutator of the
\* cluster, none, or the one it had.
LEMMA ListInvWorker ==
  ASSUME ListInv, UNCHANGED system, cluster' \subseteq Mutators,
         DOMAIN worker' = Controllers,
         \A c \in Controllers : worker'[c].got \subseteq Mutators
  PROVE  ListInv'
BY DEF ListInv, InSync, system

\* System.Upsert keeps the list in sync with the map.
LEMMA UpsertInSync ==
  ASSUME orderedMutators \in Seq(Mutators), InSync, NEW m \in Mutators, Upsert(m)
  PROVE  (orderedMutators \in Seq(Mutators) /\ InSync)'
<1>1. CASE UNCHANGED <<mutatorsMap, orderedMutators>>
  BY <1>1 DEF InSync
<1>2. CASE AcceptedUpsert(m)
  <2>1. Sorted(orderedMutators) /\ mutatorsMap = Members(orderedMutators)
    BY DEF InSync, Sorted, Members
  <2>2. /\ orderedMutators' \in Seq(Mutators)
        /\ Sorted(orderedMutators')
        /\ mutatorsMap' = Members(orderedMutators')
    BY <1>2, <2>1, InsertedSorted DEF AcceptedUpsert
  <2> QED
    BY <2>2 DEF InSync, Sorted, Members
<1> QED
  BY <1>1, <1>2 DEF Upsert, RejectedUpsert, system

\* System.Remove keeps the list in sync with the map.
LEMMA RemoveInSync ==
  ASSUME orderedMutators \in Seq(Mutators), InSync, NEW id, Remove(id)
  PROVE  (orderedMutators \in Seq(Mutators) /\ InSync)'
<1>1. CASE WithID(mutatorsMap, id) = {}
  <2>1. UNCHANGED <<mutatorsMap, orderedMutators>>
    BY <1>1 DEF Remove
  <2> QED
    BY <2>1 DEF InSync
<1>2. CASE WithID(mutatorsMap, id) # {}
  <2>1. Sorted(orderedMutators) /\ mutatorsMap = Members(orderedMutators)
    BY DEF InSync, Sorted, Members
  <2>2. /\ orderedMutators' \in Seq(Mutators)
        /\ Sorted(orderedMutators')
        /\ mutatorsMap' = Members(orderedMutators')
    BY <1>2, <2>1, DeletedSorted DEF Remove
  <2> QED
    BY <2>2 DEF InSync, Sorted, Members
<1> QED
  BY <1>1, <1>2

\* The list stays sorted and in sync under every action (System.Upsert, Remove).
THEOREM ListInvariance == Spec => []ListInv
<1>1. Init => ListInv
  <2> SUFFICES ASSUME Init PROVE ListInv
    OBVIOUS
  <2>1. orderedMutators \in Seq(Mutators) /\ DOMAIN orderedMutators = {}
    BY DEF Init
  <2>2. InSync
    BY <2>1 DEF Init, InSync
  <2> QED
    BY <2>1, <2>2 DEF Init, ListInv, NoWork
<1>2. ListInv /\ [Next]_vars => ListInv'
  <2> SUFFICES ASSUME ListInv, [Next]_vars PROVE ListInv'
    OBVIOUS
  <2>1. ASSUME NEW id \in IDs, NEW v \in SUBSET Mutators, ClusterChange(id, v)
        PROVE  ListInv'
    BY <2>1, ListInvWorker DEF ListInv, ClusterChange
  <2>2. ASSUME NEW c \in Controllers, NEW id, Get(c, id) PROVE ListInv'
    <3>1. WithID(cluster, id) \subseteq Mutators
      BY DEF ListInv, WithID
    <3> QED
      BY <2>2, <3>1, ListInvWorker DEF ListInv, Get, NoWork
  <2>3. ASSUME NEW c \in Controllers, Reconcile(c) PROVE ListInv'
    <3>1. CASE ReconcileRemove(c)
      BY <3>1, RemoveInSync DEF ListInv, ReconcileRemove, Goto
    <3>2. CASE DeleteStatus(c)
      BY <3>2, ListInvWorker DEF ListInv, DeleteStatus, NoWork
    <3>3. CASE getOrCreatePodStatus(c)
      BY <3>3, ListInvWorker DEF ListInv, getOrCreatePodStatus, Goto
    <3>4. CASE ReconcileUpsert(c)
      BY <3>4, UpsertInSync DEF ListInv, ReconcileUpsert, Goto
    <3>5. CASE UpdateStatus(c)
      BY <3>5, ListInvWorker DEF ListInv, UpdateStatus, NoWork
    <3>6. CASE ReconcileInvalid(c)
      BY <3>6, ListInvWorker DEF ListInv, ReconcileInvalid, Goto
    <3> QED
      BY <2>3, <3>1, <3>2, <3>3, <3>4, <3>5, <3>6 DEF Reconcile
  <2>4. ASSUME NEW c \in Controllers, ReconcileFails(c) PROVE ListInv'
    BY <2>4, ListInvWorker DEF ListInv, ReconcileFails, NoWork
  <2>5. ASSUME NEW c \in Callers, MutatePass(c) PROVE ListInv'
    BY <2>5, ListInvWorker DEF ListInv, MutatePass
  <2>6. ASSUME NEW c \in Callers, NEW o \in Objs, MutateBegin(c, o) PROVE ListInv'
    BY <2>6, ListInvWorker DEF ListInv, MutateBegin
  <2>7. CASE UNCHANGED vars
    BY <2>7, ListInvWorker DEF ListInv, vars
  <2>8. ASSUME NEW id \in IDs, MutatorEvent(id) PROVE ListInv'
    BY <2>8, ListInvWorker DEF ListInv, MutatorEvent
  <2>9. \A id \in IDs : {} \in SUBSET Mutators /\ \A m \in WithID(Mutators, id) : {m} \in SUBSET Mutators
    BY DEF WithID
  <2> QED
    BY <2>1, <2>2, <2>3, <2>4, <2>5, <2>6, <2>7, <2>8, <2>9 DEF Next
<1> QED
  BY <1>1, <1>2, PTL DEF Spec

(***************************************************************************)
(* The ordered list of the System holds the mutators of the map, each once *)
(* and in order, after any sequence of Upsert and Remove: Remove always    *)
(* finds what it looks for and never indexes past the end.                 *)
(***************************************************************************)
THEOREM ListInSync == Spec => []InSync
<1>1. ListInv => InSync
  BY DEF ListInv
<1> QED
  BY <1>1, ListInvariance, PTL

-------------------------------------------------------------------------------
(***************************************************************************)
(* A call that runs sees the system it began with, and has not changed the *)
(* object yet, or its first pass did.                                      *)
(***************************************************************************)
SeesTheSystem(c) == call[c].ms = orderedMutators /\ call[c].flags = db.conflicts

FirstPassChanged(c) ==
  IF call[c].i = 0
  THEN call[c].obj = call[c].original
  ELSE Pass(call[c].ms, call[c].flags, call[c].original) # call[c].original

CallInv ==
  /\ call = [c \in Callers |-> [pc |-> call[c].pc, obj |-> call[c].obj,
                                original |-> call[c].original, i |-> call[c].i,
                                ms |-> call[c].ms, flags |-> call[c].flags]]
  /\ \A c \in Callers : call[c].i \in Nat
  /\ \A c \in Callers : Running(c) => SeesTheSystem(c) /\ FirstPassChanged(c)
  /\ NeverOscillating
  /\ Idempotent

\* A step that starts no call and runs none.
LEMMA CallInvUnchanged ==
  ASSUME CallInv, UNCHANGED call,
         (\E c \in Callers : Running(c)) => UNCHANGED system
  PROVE  CallInv'
<1>1. ASSUME NEW c \in Callers, Running(c)' PROVE SeesTheSystem(c)' /\ FirstPassChanged(c)'
  <2>1. Running(c)
    BY <1>1 DEF Running
  <2>2. SeesTheSystem(c) /\ FirstPassChanged(c) /\ UNCHANGED system
    BY <2>1 DEF CallInv
  <2> QED
    BY <2>2 DEF FirstPassChanged, SeesTheSystem, system
<1>2. Idempotent'
  BY DEF CallInv, Idempotent
<1> QED
  BY <1>1, <1>2 DEF CallInv, NeverOscillating

\* One pass of Mutate.
LEMMA CallInvPass ==
  ASSUME CallInv, NEW c \in Callers, MutatePass(c)
  PROVE  CallInv'
<1> DEFINE ms == call[c].ms
<1> DEFINE flags == call[c].flags
<1> DEFINE new == Pass(ms, flags, call[c].obj)
<1> DEFINE out == Outcome(c, new)
<1>1. Running(c) /\ SeesTheSystem(c) /\ FirstPassChanged(c) /\ UNCHANGED system
  BY DEF MutatePass, CallInv
<1>2. call' = [call EXCEPT ![c].pc = out, ![c].obj = new, ![c].i = @ + 1]
  BY <1>1 DEF MutatePass, SeesTheSystem
<1>3. /\ call'[c].pc = out /\ call'[c].obj = new /\ call'[c].i = call[c].i + 1
      /\ call'[c].original = call[c].original /\ call'[c].ms = ms /\ call'[c].flags = flags
  <2> HIDE DEF out, new, ms, flags
  <2> QED
    BY <1>2 DEF CallInv, ms, flags
<1>4. \A d \in Callers \ {c} : call'[d] = call[d]
  <2> HIDE DEF out, new
  <2> QED
    BY <1>2 DEF CallInv
<1>5. call' = [d \in Callers |-> [pc |-> call'[d].pc, obj |-> call'[d].obj,
                                  original |-> call'[d].original, i |-> call'[d].i,
                                  ms |-> call'[d].ms, flags |-> call'[d].flags]]
  <2> HIDE DEF out, new
  <2> DEFINE rec(x) == [pc |-> x.pc, obj |-> x.obj, original |-> x.original, i |-> x.i,
                        ms |-> x.ms, flags |-> x.flags]
  <2>1. call' = [d \in Callers |-> call'[d]]
    BY <1>2 DEF CallInv
  <2>2. call[c] = rec(call[c])
    BY DEF CallInv
  <2>3. call'[c] = [call[c] EXCEPT !.pc = out, !.obj = new, !.i = call[c].i + 1]
    BY <1>2 DEF CallInv
  <2>4. call'[c] = rec(call'[c])
    BY <2>2, <2>3
  <2>5. \A d \in Callers : call'[d] = rec(call'[d])
    <3>1. \A d \in Callers : call[d] = rec(call[d])
      BY DEF CallInv
    <3> HIDE DEF rec
    <3> QED
      BY <2>4, <3>1, <1>4
  <2> QED
    BY <2>1, <2>5
<1>6. out # "oscillating"
  BY <1>1 DEF Outcome, FirstPassChanged
<1>7. out = "run" => new # call[c].obj
  BY DEF Outcome
<1>8. out \in {"mutated", "unchanged"} => new = call[c].obj
  BY DEF Outcome
<1> HIDE DEF out
<1>9. \A d \in Callers : call'[d].i \in Nat /\ (d = c => call'[d].i # 0)
  BY <1>3, <1>4 DEF CallInv
<1>10. \A d \in Callers : call'[d].pc # "oscillating"
  BY <1>3, <1>4, <1>6 DEF CallInv, NeverOscillating
<1>11. ASSUME NEW d \in Callers, Running(d)' PROVE SeesTheSystem(d)' /\ FirstPassChanged(d)'
  <2>1. CASE d = c
    <3>1. out = "run"
      BY <1>3, <1>11, <2>1 DEF Running
    <3>2. Pass(ms, flags, call[c].original) # call[c].original
      BY <3>1, <1>1, <1>7 DEF FirstPassChanged
    <3>3. SeesTheSystem(d)'
      BY <1>1, <1>3, <2>1 DEF SeesTheSystem, system
    <3> QED
      BY <3>2, <3>3, <2>1, <1>3, <1>9 DEF FirstPassChanged
  <2>2. CASE d # c
    <3>1. call'[d] = call[d]
      BY <1>4, <2>2
    <3>2. SeesTheSystem(d) /\ FirstPassChanged(d)
      BY <1>11, <3>1 DEF CallInv, Running
    <3> QED
      BY <3>1, <3>2, <1>1 DEF FirstPassChanged, SeesTheSystem, system
  <2> QED
    BY <2>1, <2>2
<1>12. ASSUME NEW d \in Callers, call'[d].pc \in {"mutated", "unchanged"}
       PROVE  Pass(call'[d].ms, call'[d].flags, call'[d].obj) = call'[d].obj
  <2>1. CASE d = c
    BY <2>1, <1>3, <1>8, <1>12
  <2>2. CASE d # c
    BY <2>2, <1>4, <1>12 DEF CallInv, Idempotent
  <2> QED
    BY <2>1, <2>2
<1> QED
  BY <1>5, <1>9, <1>10, <1>11, <1>12 DEF CallInv, NeverOscillating, Idempotent

\* The invariant of the loop of System.Mutate, under every interleaving.
THEOREM CallInvariance == Spec => []CallInv
<1>1. Init => CallInv
  BY DEF Init, CallInv, Running, NeverOscillating, Idempotent
<1>2. CallInv /\ [Next]_vars => CallInv'
  <2> SUFFICES ASSUME CallInv, [Next]_vars PROVE CallInv'
    OBVIOUS
  <2>1. ASSUME NEW id \in IDs, NEW v, ClusterChange(id, v) PROVE CallInv'
    BY <2>1, CallInvUnchanged DEF ClusterChange
  <2>2. ASSUME NEW c \in Controllers, NEW id, Get(c, id) PROVE CallInv'
    BY <2>2, CallInvUnchanged DEF Get
  <2>3. ASSUME NEW c \in Controllers, Reconcile(c) PROVE CallInv'
    <3>1. UNCHANGED call /\ (Locked \/ UNCHANGED system)
      BY <2>3 DEF Reconcile, ReconcileRemove, DeleteStatus, getOrCreatePodStatus,
                  ReconcileInvalid, ReconcileUpsert, UpdateStatus
    <3> QED
      BY <3>1, CallInvUnchanged DEF Locked
  <2>4. ASSUME NEW c \in Controllers, ReconcileFails(c) PROVE CallInv'
    BY <2>4, CallInvUnchanged DEF ReconcileFails
  <2>5. ASSUME NEW c \in Callers, MutatePass(c) PROVE CallInv'
    BY <2>5, CallInvPass
  <2>6. ASSUME NEW c \in Callers, NEW o \in Objs, MutateBegin(c, o) PROVE CallInv'
    <3>1. call' = [call EXCEPT ![c] = [pc |-> "run", obj |-> o, original |-> o, i |-> 0,
                                       ms |-> orderedMutators, flags |-> db.conflicts]]
          /\ UNCHANGED system
      BY <2>6 DEF MutateBegin
    <3>2. ASSUME NEW d \in Callers, Running(d)' PROVE SeesTheSystem(d)' /\ FirstPassChanged(d)'
      <4>1. CASE d = c
        BY <3>1, <4>1 DEF FirstPassChanged, SeesTheSystem, CallInv, system
      <4>2. CASE d # c
        <5>1. call'[d] = call[d] /\ FirstPassChanged(d) /\ SeesTheSystem(d)
          BY <3>1, <3>2, <4>2 DEF CallInv, Running
        <5> QED
          BY <5>1, <3>1 DEF FirstPassChanged, SeesTheSystem, system
      <4> QED
        BY <4>1, <4>2
    <3>3. call' = [d \in Callers |-> [pc |-> call'[d].pc, obj |-> call'[d].obj,
                                      original |-> call'[d].original, i |-> call'[d].i,
                                      ms |-> call'[d].ms, flags |-> call'[d].flags]]
      BY <3>1 DEF CallInv
    <3>4. \A d \in Callers : call'[d].i \in Nat /\ call'[d].pc # "oscillating"
      BY <3>1 DEF CallInv, NeverOscillating
    <3>5. ASSUME NEW d \in Callers, call'[d].pc \in {"mutated", "unchanged"}
          PROVE  call'[d] = call[d]
      BY <3>1, <3>5 DEF CallInv
    <3>6. Idempotent'
      BY <3>5 DEF CallInv, Idempotent
    <3> QED
      BY <3>2, <3>3, <3>4, <3>6 DEF CallInv, NeverOscillating
  <2>7. CASE UNCHANGED vars
    BY <2>7, CallInvUnchanged DEF vars
  <2>8. ASSUME NEW id \in IDs, MutatorEvent(id) PROVE CallInv'
    BY <2>8, CallInvUnchanged DEF MutatorEvent
  <2> QED
    BY <2>1, <2>2, <2>3, <2>4, <2>5, <2>6, <2>7, <2>8 DEF Next
<1> QED
  BY <1>1, <1>2, PTL DEF Spec

(***************************************************************************)
(* System.Mutate never returns "oscillating mutation", whatever the        *)
(* mutators do: had the object come back to the original and stayed, the   *)
(* first pass would have left it alone.                                    *)
(***************************************************************************)
THEOREM OscillationIsNeverReported == Spec => []NeverOscillating
<1>1. CallInv => NeverOscillating
  BY DEF CallInv
<1> QED
  BY <1>1, CallInvariance, PTL

(***************************************************************************)
(* What System.Mutate returns is a fixed point of the mutators that the    *)
(* call applied, whatever they do to an object: the loop ends well only    *)
(* after a pass that changed nothing, and the read lock keeps the list and *)
(* the flags what they were.                                               *)
(***************************************************************************)
THEOREM MutateIsIdempotent == Spec => []Idempotent
<1>1. CallInv => Idempotent
  BY DEF CallInv
<1> QED
  BY <1>1, CallInvariance, PTL

-------------------------------------------------------------------------------
(***************************************************************************)
(* The schema database of the System.  A mutator of the system that has a  *)
(* schema is the version in the database, unless an update of it was       *)
(* rejected; and the database flags what conflicts.                        *)
(***************************************************************************)
InDatabase ==
  \A m \in mutatorsMap : m.bindings # {} /\ m.id \notin rejected => m \in db.cached

SchemaInv == Good(db) /\ Flagged(db) /\ InDatabase

\* remove and upsert touch no other mutator.
LEMMA OthersStay ==
  ASSUME NEW d, NEW x \in d.cached, NEW id, x.id # id
  PROVE  x \in remove(d, id).cached
BY DEF remove, WithID

LEMMA UpsertCaches ==
  ASSUME NEW d, NEW m
  PROVE  /\ m \in upsert(d, m).cached
         /\ \A x \in d.cached : x.id # m.id => x \in upsert(d, m).cached
<1>1. CASE m \in d.cached
  BY <1>1 DEF upsert
<1>2. CASE m \notin d.cached
  <2>1. upsert(d, m).cached = remove(d, m.id).cached \cup {m}
    BY <1>2 DEF upsert
  <2> QED
    BY <2>1, OthersStay
<1> QED
  BY <1>1, <1>2

\* System.Upsert: a version that is rejected leaves the database.
LEMMA UpsertSchema ==
  ASSUME SchemaInv, NEW m \in Mutators, Upsert(m)
  PROVE  SchemaInv'
<1> DEFINE u == upsert(db, m)
<1>1. Good(u) /\ Flagged(u)
  BY UpsertGood, UpsertFlagged DEF SchemaInv
<1>2. m \in u.cached /\ \A x \in db.cached : x.id # m.id => x \in u.cached
  BY UpsertCaches
<1> HIDE DEF u
<1>3. CASE UNCHANGED <<system, rejected>>
  <2>1. UNCHANGED <<db, mutatorsMap, rejected>>
    BY <1>3 DEF system
  <2> QED
    BY <2>1 DEF SchemaInv, InDatabase
<1>4. CASE RejectedUpsert(m)
  <2>1. db' = remove(u, m.id) /\ UNCHANGED mutatorsMap
        /\ rejected' = IF WithID(mutatorsMap, m.id) = {} THEN rejected
                       ELSE rejected \cup {m.id}
    BY <1>4 DEF RejectedUpsert, u
  <2>2. Good(db') /\ Flagged(db')
    BY <2>1, <1>1, RemoveGood, RemoveFlagged
  <2>3. ASSUME NEW x \in mutatorsMap, x.bindings # {}, x.id \notin rejected'
        PROVE  x \in db'.cached
    <3>1. x.id # m.id
      <4>1. SUFFICES ASSUME x.id = m.id PROVE FALSE
        OBVIOUS
      <4>2. WithID(mutatorsMap, m.id) # {}
        BY <4>1 DEF WithID
      <4> QED
        BY <4>1, <4>2, <2>1, <2>3
    <3>2. x.id \notin rejected
      BY <2>1, <2>3
    <3>3. x \in u.cached
      BY <3>1, <3>2, <2>3, <1>2 DEF SchemaInv, InDatabase
    <3> QED
      BY <3>1, <3>3, <2>1, OthersStay
  <2> QED
    BY <2>1, <2>2, <2>3 DEF SchemaInv, InDatabase
<1>5. CASE AcceptedUpsert(m)
  <2>1. /\ db' = IF m.bindings # {} THEN u ELSE db
        /\ mutatorsMap' = Replaced(mutatorsMap, m)
        /\ rejected' = rejected \ {m.id}
    BY <1>5 DEF AcceptedUpsert, u
  <2>2. Good(db') /\ Flagged(db')
    BY <2>1, <1>1 DEF SchemaInv
  <2>3. ASSUME NEW x \in mutatorsMap', x.bindings # {}, x.id \notin rejected'
        PROVE  x \in db'.cached
    <3>1. CASE x = m
      BY <3>1, <2>1, <2>3, <1>2
    <3>2. CASE x # m
      <4>1. x \in mutatorsMap /\ x.id # m.id
        BY <3>2, <2>1 DEF Replaced, WithID
      <4>2. x \in db.cached
        BY <4>1, <2>1, <2>3 DEF SchemaInv, InDatabase
      <4> QED
        BY <4>1, <4>2, <2>1, <1>2
    <3> QED
      BY <3>1, <3>2
  <2> QED
    BY <2>2, <2>3 DEF SchemaInv, InDatabase
<1> QED
  BY <1>3, <1>4, <1>5 DEF Upsert

\* System.Remove.
LEMMA RemoveSchema ==
  ASSUME SchemaInv, NEW id, Remove(id)
  PROVE  SchemaInv'
<1>1. /\ db' = IF WithID(mutatorsMap, id) = {} THEN db ELSE remove(db, id)
      /\ mutatorsMap' = mutatorsMap \ WithID(mutatorsMap, id)
      /\ rejected' = rejected \ {id}
  BY DEF Remove
<1>2. Good(db') /\ Flagged(db')
  BY <1>1, RemoveGood, RemoveFlagged DEF SchemaInv
<1>3. ASSUME NEW x \in mutatorsMap', x.bindings # {}, x.id \notin rejected'
      PROVE  x \in db'.cached
  <2>1. x \in mutatorsMap /\ x.id # id
    BY <1>1 DEF WithID
  <2>2. x \in db.cached
    BY <2>1, <1>1, <1>3 DEF SchemaInv, InDatabase
  <2> QED
    BY <2>1, <2>2, <1>1, OthersStay
<1> QED
  BY <1>2, <1>3 DEF SchemaInv, InDatabase

\* The database is good, flags what conflicts and has what the map has.
THEOREM SchemaInvariance == Spec => []SchemaInv
<1>1. Init => SchemaInv
  <2>1. Init => Good(db)
    BY DEF Init, NewDB, Good, TreeOf
  <2>2. Init => Flagged(db) /\ InDatabase
    BY DEF Init, NewDB, Flagged, InDatabase
  <2> QED
    BY <2>1, <2>2 DEF SchemaInv
<1>2. ListInv /\ SchemaInv /\ [Next]_vars => SchemaInv'
  <2> SUFFICES ASSUME ListInv, SchemaInv, [Next]_vars PROVE SchemaInv'
    OBVIOUS
  <2>1. CASE UNCHANGED <<system, rejected>>
    <3>1. UNCHANGED <<db, mutatorsMap, rejected>>
      BY <2>1 DEF system
    <3> QED
      BY <3>1 DEF SchemaInv, InDatabase
  <2>2. CASE \E c \in Controllers : ReconcileRemove(c)
    <3>1. PICK id : Remove(id)
      BY <2>2 DEF ReconcileRemove
    <3> QED
      BY <3>1, RemoveSchema
  <2>3. CASE \E c \in Controllers : ReconcileUpsert(c)
    <3>1. PICK c \in Controllers : ReconcileUpsert(c)
      BY <2>3
    <3>2. PICK m \in worker[c].got \ Invalid : Upsert(m)
      BY <3>1 DEF ReconcileUpsert
    <3>3. m \in Mutators
      BY <3>2 DEF ListInv
    <3> QED
      BY <3>2, <3>3, UpsertSchema
  <2>4. \/ UNCHANGED <<system, rejected>>
        \/ \E c \in Controllers : ReconcileRemove(c)
        \/ \E c \in Controllers : ReconcileUpsert(c)
    <3>1. ASSUME NEW id, NEW v, ClusterChange(id, v) PROVE UNCHANGED <<system, rejected>>
      BY <3>1 DEF ClusterChange
    <3>2. ASSUME NEW id, MutatorEvent(id) PROVE UNCHANGED <<system, rejected>>
      BY <3>2 DEF MutatorEvent
    <3>3. ASSUME NEW c, NEW id, Get(c, id) PROVE UNCHANGED <<system, rejected>>
      BY <3>3 DEF Get
    <3>4. ASSUME NEW c, Reconcile(c)
          PROVE  UNCHANGED <<system, rejected>> \/ ReconcileRemove(c) \/ ReconcileUpsert(c)
      BY <3>4 DEF Reconcile, DeleteStatus, getOrCreatePodStatus, ReconcileInvalid, UpdateStatus
    <3>5. ASSUME NEW c, ReconcileFails(c) PROVE UNCHANGED <<system, rejected>>
      BY <3>5 DEF ReconcileFails
    <3>6. ASSUME NEW c, MutatePass(c) PROVE UNCHANGED <<system, rejected>>
      BY <3>6 DEF MutatePass
    <3>7. ASSUME NEW c, NEW o, MutateBegin(c, o) PROVE UNCHANGED <<system, rejected>>
      BY <3>7 DEF MutateBegin
    <3>8. ASSUME UNCHANGED vars PROVE UNCHANGED <<system, rejected>>
      BY <3>8 DEF vars
    <3> QED
      BY <3>1, <3>2, <3>3, <3>4, <3>5, <3>6, <3>7, <3>8 DEF Next
  <2> QED
    BY <2>1, <2>2, <2>3, <2>4
<1> QED
  BY <1>1, <1>2, ListInvariance, PTL DEF Spec

(***************************************************************************)
(* Two mutators that System.Mutate applies conflict only if an update of   *)
(* one of them was rejected: both would otherwise be in the database,      *)
(* which flags them.                                                       *)
(***************************************************************************)
THEOREM ConflictsAreFromUpdates == Spec => []ConflictsComeFromUpdates
<1>1. SchemaInv => ConflictsComeFromUpdates
  <2> SUFFICES ASSUME SchemaInv, NEW a \in Applied, NEW b \in Applied, Conflicting(a, b),
                      a.id \notin rejected, b.id \notin rejected
               PROVE  FALSE
    BY DEF ConflictsComeFromUpdates
  <2>1. a.bindings # {} /\ b.bindings # {}
    BY DEF Conflicting
  <2>2. a \in db.cached /\ b \in db.cached /\ a.id \notin db.conflicts
    BY <2>1 DEF Applied, SchemaInv, InDatabase
  <2> QED
    BY <2>2 DEF SchemaInv, Flagged
<1> QED
  BY <1>1, SchemaInvariance, PTL

(***************************************************************************)
(* No call that the controllers make of System.Upsert and System.Remove    *)
(* makes the database panic, rejected updates included.                    *)
(***************************************************************************)
THEOREM SystemNeverPanics == Spec => []NeverPanics
<1>1. SchemaInv => NeverPanics
  BY GoodNeverPanics DEF SchemaInv
<1> QED
  BY <1>1, SchemaInvariance, PTL

-------------------------------------------------------------------------------
\* The controllers

Work(pc, id, got, error) == [pc |-> pc, id |-> id, got |-> got, error |-> error]

WorkType ==
  [pc : {"idle", "remove", "unstatus", "status", "upsert", "report"},
   id : Requests \cup {NoID}, got : SUBSET Mutators, error : BOOLEAN]

\* What a worker that is not idle has in hand: a request of its kind, and the
\* version it got; it removes a mutator if and only if it got none.
Employed(c, w) ==
  w.pc # "idle" =>
    /\ w.id \in Requests /\ w.id.kind = c
    /\ w.got \subseteq WithID(Mutators, w.id)
    /\ w.pc \in {"remove", "unstatus"} => w.got = {}
    /\ w.pc \in {"status", "upsert", "report"} => w.got # {}

WorkerInv ==
  /\ worker \in [Controllers -> WorkType]
  /\ \A c \in Controllers : Employed(c, worker[c])
  /\ status = [id \in IDs |-> status[id]]
  /\ \A a, b \in cluster : a.id = b.id => a = b

Works(c, id) == worker[c].pc # "idle" /\ worker[c].id = id

Settled(id) ==
  /\ WithID(mutatorsMap, id) = WithID(cluster, id)
  /\ IF WithID(cluster, id) = {} THEN status[id] = NoStatus
     ELSE status[id] = [exists |-> TRUE, enforced |-> TRUE, error |-> FALSE,
                        of |-> WithID(cluster, id)]

\* The worker got the version in the cluster, and what it did to the system is
\* what that version asks for.
InHand(c) ==
  /\ worker[c].got = WithID(cluster, worker[c].id)
  /\ worker[c].pc = "unstatus" => WithID(mutatorsMap, worker[c].id) = {}
  /\ worker[c].pc = "report" /\ ~worker[c].error =>
       WithID(mutatorsMap, worker[c].id) = worker[c].got

(***************************************************************************)
(* A mutator is queued, or a worker has its version in hand, or it is      *)
(* settled.                                                                *)
(***************************************************************************)
Tended(id) ==
  id \notin queue =>
    /\ (\A c \in Controllers : ~Works(c, id)) => Settled(id)
    /\ \A c \in Controllers : Works(c, id) => InHand(c)

RestInv == WorkerInv /\ \A id \in IDs : Tended(id)

\* No id comes twice in the system.
LEMMA UniqueInMap ==
  ASSUME ListInv, NEW a \in mutatorsMap, NEW b \in mutatorsMap, a.id = b.id
  PROVE  a = b
<1>1. PICK i \in DOMAIN orderedMutators : a = orderedMutators[i]
  BY DEF ListInv, InSync
<1>2. PICK j \in DOMAIN orderedMutators : b = orderedMutators[j]
  BY DEF ListInv, InSync
<1>3. i \in Nat /\ j \in Nat
  BY DEF ListInv
<1>4. greaterOrEqual(a.id, a.id)
  <2>1. a \in Mutators
    BY <1>1 DEF ListInv
  <2>2. a.id \in [group : Int, kind : Int, namespace : Int, name : Nat]
    BY <2>1, SystemAssumption
  <2> QED
    BY <2>2 DEF greaterOrEqual
<1>5. ~(i < j) /\ ~(j < i)
  BY <1>1, <1>2, <1>4 DEF ListInv, InSync
<1> QED
  BY <1>1, <1>2, <1>3, <1>5

\* A step that does not touch a mutator, nor a worker that has it.
LEMMA Undisturbed ==
  ASSUME NEW id, Tended(id), id \notin queue' => id \notin queue,
         WithID(mutatorsMap', id) = WithID(mutatorsMap, id),
         WithID(cluster', id) = WithID(cluster, id),
         status'[id] = status[id],
         \A c \in Controllers : Works(c, id)' <=> Works(c, id),
         \A c \in Controllers : Works(c, id) => worker'[c] = worker[c]
  PROVE  Tended(id)'
<1>1. SUFFICES ASSUME id \notin queue'
      PROVE  /\ (\A c \in Controllers : ~Works(c, id)') => Settled(id)'
             /\ \A c \in Controllers : Works(c, id)' => InHand(c)'
  BY DEF Tended
<1>2. (\A c \in Controllers : ~Works(c, id)') => Settled(id)'
  BY <1>1 DEF Tended, Settled
<1>3. ASSUME NEW c \in Controllers, Works(c, id)' PROVE InHand(c)'
  <2>1. InHand(c) /\ worker'[c] = worker[c] /\ worker[c].id = id
    BY <1>1, <1>3 DEF Tended, Works
  <2> QED
    BY <2>1 DEF InHand
<1> QED
  BY <1>2, <1>3

\* A step of worker c about the mutator id.
LEMMA WorkerStep ==
  ASSUME RestInv, NEW c \in Controllers, NEW id, id.kind = c, NEW w \in WorkType,
         worker[c].pc = "idle" \/ worker[c].id = id,
         w.pc = "idle" \/ w.id = id,
         worker' = [worker EXCEPT ![c] = w], Employed(c, w),
         cluster' = cluster, queue \ {id} \subseteq queue',
         status' = [i \in IDs |-> status'[i]],
         \A i \in IDs \ {id} : status'[i] = status[i],
         \A i \in IDs \ {id} : WithID(mutatorsMap', i) = WithID(mutatorsMap, i),
         id \in IDs /\ id \notin queue' => IF w.pc = "idle" THEN Settled(id)' ELSE InHand(c)'
  PROVE  RestInv'
<1>1. /\ worker \in [Controllers -> WorkType] /\ worker' \in [Controllers -> WorkType]
      /\ worker'[c] = w /\ \A d \in Controllers \ {c} : worker'[d] = worker[d]
  BY DEF RestInv, WorkerInv
<1>2. WorkerInv'
  BY <1>1 DEF RestInv, WorkerInv
<1>3. ASSUME NEW i \in IDs \ {id} PROVE Tended(i)'
  <2>1. \A d \in Controllers : /\ Works(d, i)' <=> Works(d, i)
                               /\ Works(d, i) => worker'[d] = worker[d]
    BY <1>1 DEF Works
  <2>2. Tended(i) /\ (i \notin queue' => i \notin queue)
    BY DEF RestInv
  <2> QED
    BY <2>1, <2>2, Undisturbed
<1>4. ASSUME id \in IDs PROVE Tended(id)'
  <2>1. \A d \in Controllers \ {c} : ~Works(d, id)'
    BY <1>1 DEF Works, RestInv, WorkerInv, Employed
  <2>2. Works(c, id)' <=> w.pc # "idle"
    BY <1>1 DEF Works
  <2> QED
    BY <2>1, <2>2, <1>4 DEF Tended
<1> QED
  BY <1>2, <1>3, <1>4 DEF RestInv

\* Moving a worker on.
LEMMA GotoIs ==
  ASSUME RestInv, NEW c \in Controllers, NEW to
  PROVE  Goto(c, to) = [worker EXCEPT ![c] =
                          Work(to, worker[c].id, worker[c].got, worker[c].error)]
<1>1. worker[c] \in WorkType /\ worker \in [Controllers -> WorkType]
  BY DEF RestInv, WorkerInv
<1>2. ASSUME NEW w \in WorkType
      PROVE  [w EXCEPT !.pc = to] = Work(to, w.id, w.got, w.error)
  <2>1. w = Work(w.pc, w.id, w.got, w.error)
    BY DEF WorkType, Work
  <2> QED
    BY <2>1 DEF Work
<1>3. Goto(c, to) = [worker EXCEPT ![c] = [worker[c] EXCEPT !.pc = to]]
  BY <1>1 DEF Goto
<1> QED
  BY <1>1, <1>2, <1>3

LEMMA WorkFields ==
  ASSUME NEW pc, NEW id, NEW got, NEW error
  PROVE  /\ Work(pc, id, got, error).pc = pc /\ Work(pc, id, got, error).id = id
         /\ Work(pc, id, got, error).got = got /\ Work(pc, id, got, error).error = error
BY DEF Work

\* SetStatus writes one status and forgets no request.
LEMMA SetStatusIs ==
  ASSUME RestInv, NEW c \in Controllers, NEW s, SetStatus(c, s), worker[c].id \in IDs
  PROVE  /\ status' = [i \in IDs |-> status'[i]]
         /\ status'[worker[c].id] = s
         /\ \A i \in IDs \ {worker[c].id} : status'[i] = status[i]
         /\ queue \ {worker[c].id} \subseteq queue'
         /\ worker[c].error => worker[c].id \in queue'
BY DEF RestInv, WorkerInv, SetStatus

\* A worker that removes nothing has a mutator of the cluster.
LEMMA GotIsID ==
  ASSUME RestInv, NEW c \in Controllers, worker[c].pc \in {"status", "upsert", "report"}
  PROVE  worker[c].id \in IDs /\ \A m \in worker[c].got : m \in Mutators /\ m.id = worker[c].id
<1>1. worker[c].got # {} /\ worker[c].got \subseteq WithID(Mutators, worker[c].id)
  BY DEF RestInv, WorkerInv, Employed
<1> QED
  BY <1>1 DEF WithID, IDs

\* The steps of a worker, one by one.
LEMMA GetRest ==
  ASSUME ListInv, RestInv, NEW c \in Controllers, NEW id \in Requests, Get(c, id)
  PROVE  RestInv'
<1> DEFINE got == WithID(cluster, id)
<1> DEFINE w == Work(IF got = {} THEN "remove" ELSE "status", id, got, FALSE)
<1>1. /\ worker[c].pc = "idle" /\ id.kind = c /\ queue' = queue \ {id}
      /\ worker' = [worker EXCEPT ![c] = w]
      /\ UNCHANGED <<mutatorsMap, cluster, status>>
  <2>1. UNCHANGED <<mutatorsMap, cluster, status>>
    BY DEF Get, system
  <2>2. worker[c].pc = "idle" /\ id.kind = c /\ queue' = queue \ {id}
    BY DEF Get
  <2>3. worker' = [worker EXCEPT ![c] = w]
    BY DEF Get, Work
  <2> QED
    BY <2>1, <2>2, <2>3
<1>2. /\ w.pc \in {"remove", "status"} /\ (w.pc = "remove" <=> got = {})
      /\ w.id = id /\ w.got = got
  <2> DEFINE pc == IF got = {} THEN "remove" ELSE "status"
  <2>1. pc \in {"remove", "status"} /\ (pc = "remove" <=> got = {})
    OBVIOUS
  <2> HIDE DEF pc, got
  <2>2. w = Work(pc, id, got, FALSE)
    BY DEF pc
  <2>3. w.pc = pc /\ w.id = id /\ w.got = got
    BY <2>2 DEF Work
  <2> HIDE DEF w
  <2> QED
    BY <2>1, <2>3
<1>3. got \subseteq WithID(Mutators, id) /\ got \subseteq Mutators
  BY DEF ListInv, WithID
<1>4. w \in WorkType
  BY <1>3 DEF WorkType, Work
<1> HIDE DEF w
<1>5. Employed(c, w)
  BY <1>1, <1>2, <1>3 DEF Employed
<1>6. InHand(c)'
  <2>1. worker'[c] = w
    BY <1>1 DEF RestInv, WorkerInv
  <2> QED
    BY <2>1, <1>1, <1>2 DEF InHand
<1>7. w.pc # "idle" /\ status' = [i \in IDs |-> status'[i]]
  BY <1>1, <1>2 DEF RestInv, WorkerInv
<1> QED
  BY <1>1, <1>2, <1>4, <1>5, <1>6, <1>7, WorkerStep

LEMMA RemoveRest ==
  ASSUME RestInv, NEW c \in Controllers, ReconcileRemove(c)
  PROVE  RestInv'
<1> DEFINE id == worker[c].id
<1> DEFINE w == Work("unstatus", id, worker[c].got, worker[c].error)
<1>1. /\ worker[c].pc = "remove" /\ worker' = [worker EXCEPT ![c] = w]
      /\ mutatorsMap' = mutatorsMap \ WithID(mutatorsMap, id)
      /\ UNCHANGED <<cluster, status, queue>>
  BY GotoIs DEF ReconcileRemove, Remove
<1>2. w.pc = "unstatus" /\ w.id = id /\ w.got = worker[c].got /\ w.error = worker[c].error
  BY WorkFields
<1>3. worker[c] \in WorkType /\ Employed(c, worker[c])
  BY DEF RestInv, WorkerInv
<1>4. w \in WorkType
  BY <1>3 DEF WorkType, Work
<1> HIDE DEF w
<1>5. Employed(c, w) /\ id.kind = c
  BY <1>1, <1>2, <1>3 DEF Employed
<1>6. ASSUME id \in IDs, id \notin queue' PROVE InHand(c)'
  <2>1. worker'[c] = w
    BY <1>1 DEF RestInv, WorkerInv
  <2>2. InHand(c)
    BY <1>1, <1>6 DEF RestInv, Tended, Works
  <2>3. WithID(mutatorsMap', id) = {}
    BY <1>1 DEF WithID
  <2> QED
    BY <2>1, <2>2, <2>3, <1>1, <1>2 DEF InHand
<1>7. status' = [i \in IDs |-> status'[i]]
  BY <1>1 DEF RestInv, WorkerInv
<1>8. \A i \in IDs \ {id} : WithID(mutatorsMap', i) = WithID(mutatorsMap, i)
  BY <1>1 DEF WithID
<1> QED
  BY <1>1, <1>2, <1>4, <1>5, <1>6, <1>7, <1>8, WorkerStep

\* A worker that is done.
LEMMA NoWorkIs ==
  NoWork \in WorkType /\ NoWork.pc = "idle" /\ \A c : Employed(c, NoWork)
BY DEF NoWork, WorkType, Employed

LEMMA DeleteStatusRest ==
  ASSUME RestInv, NEW c \in Controllers, DeleteStatus(c)
  PROVE  RestInv'
<1>0. PICK id : id = worker[c].id
  OBVIOUS
<1>1. /\ worker[c].pc = "unstatus" /\ worker' = [worker EXCEPT ![c] = NoWork]
      /\ UNCHANGED <<mutatorsMap, cluster>>
  BY DEF DeleteStatus, system
<1>2. id.kind = c /\ worker[c].got = {}
  BY <1>0, <1>1 DEF RestInv, WorkerInv, Employed
<1>3. /\ status' = [i \in IDs |-> status'[i]]
      /\ \A i \in IDs \ {id} : status'[i] = status[i]
      /\ queue \ {id} \subseteq queue'
      /\ id \in IDs => status'[id] = NoStatus
  <2>1. CASE id \in IDs
    BY <1>0, <2>1, SetStatusIs DEF DeleteStatus
  <2>2. CASE id \notin IDs
    BY <1>0, <2>2 DEF DeleteStatus, RestInv, WorkerInv
  <2> QED
    BY <2>1, <2>2
<1>4. ASSUME id \in IDs, id \notin queue' PROVE Settled(id)'
  <2>1. id \notin queue
    BY <1>0, <1>4, <1>1 DEF DeleteStatus, SetStatus
  <2>2. InHand(c)
    BY <1>0, <1>1, <1>4, <2>1 DEF RestInv, Tended, Works
  <2> QED
    BY <1>0, <2>2, <1>1, <1>2, <1>3, <1>4 DEF InHand, Settled
<1> QED
  BY <1>0, <1>1, <1>2, <1>3, <1>4, NoWorkIs, WorkerStep

LEMMA StatusRest ==
  ASSUME RestInv, NEW c \in Controllers, getOrCreatePodStatus(c)
  PROVE  RestInv'
<1> DEFINE id == worker[c].id
<1> DEFINE w == Work("upsert", id, worker[c].got, worker[c].error)
<1>1. /\ worker[c].pc = "status" /\ worker' = [worker EXCEPT ![c] = w]
      /\ UNCHANGED <<mutatorsMap, cluster>>
  BY GotoIs DEF getOrCreatePodStatus, system
<1>2. w.pc = "upsert" /\ w.id = id /\ w.got = worker[c].got /\ w.error = worker[c].error
  BY WorkFields
<1>3. worker[c] \in WorkType /\ Employed(c, worker[c])
  BY DEF RestInv, WorkerInv
<1>4. w \in WorkType
  BY <1>3 DEF WorkType, Work
<1> HIDE DEF w
<1>5. Employed(c, w) /\ id.kind = c
  BY <1>1, <1>2, <1>3 DEF Employed
<1>6. PICK s : SetStatus(c, s)
  BY DEF getOrCreatePodStatus
<1>7. /\ status' = [i \in IDs |-> status'[i]]
      /\ \A i \in IDs \ {id} : status'[i] = status[i]
      /\ queue \ {id} \subseteq queue'
  BY <1>1, <1>6, GotIsID, SetStatusIs
<1>8. ASSUME id \in IDs, id \notin queue' PROVE InHand(c)'
  <2>1. id \notin queue
    BY <1>6, <1>8 DEF SetStatus
  <2>2. InHand(c) /\ worker'[c] = w
    BY <1>1, <1>8, <2>1 DEF RestInv, Tended, Works, WorkerInv
  <2> QED
    BY <2>2, <1>1, <1>2 DEF InHand
<1> QED
  BY <1>1, <1>2, <1>4, <1>5, <1>7, <1>8, WorkerStep

\* Moving a worker on with an error, or without.
LEMMA GotoWith ==
  ASSUME RestInv, NEW c \in Controllers, NEW to, NEW e
  PROVE  [Goto(c, to) EXCEPT ![c].error = e]
           = [worker EXCEPT ![c] = Work(to, worker[c].id, worker[c].got, e)]
<1> DEFINE g == Goto(c, to)
<1> DEFINE w == Work(to, worker[c].id, worker[c].got, worker[c].error)
<1>1. g = [worker EXCEPT ![c] = w] /\ worker \in [Controllers -> WorkType]
  BY GotoIs DEF RestInv, WorkerInv
<1>2. [w EXCEPT !.error = e] = Work(to, worker[c].id, worker[c].got, e)
  BY DEF Work
<1> HIDE DEF g, w
<1>3. [g EXCEPT ![c].error = e] = [worker EXCEPT ![c] = [w EXCEPT !.error = e]]
  BY <1>1
<1> QED
  BY <1>2, <1>3 DEF g

LEMMA InvalidRest ==
  ASSUME RestInv, NEW c \in Controllers, ReconcileInvalid(c)
  PROVE  RestInv'
<1> DEFINE id == worker[c].id
<1> DEFINE w == Work("report", id, worker[c].got, TRUE)
<1>1. /\ worker[c].pc = "upsert" /\ worker' = [worker EXCEPT ![c] = w]
      /\ UNCHANGED <<mutatorsMap, cluster, status, queue>>
  <2>1. PICK e : e = TRUE
    OBVIOUS
  <2>2. worker' = [Goto(c, "report") EXCEPT ![c].error = e]
    BY <2>1 DEF ReconcileInvalid
  <2>3. worker' = [worker EXCEPT ![c] = Work("report", id, worker[c].got, e)]
    BY <2>2, GotoWith
  <2>4. worker[c].pc = "upsert" /\ UNCHANGED <<mutatorsMap, cluster, status, queue>>
    BY DEF ReconcileInvalid, system
  <2> QED
    BY <2>1, <2>3, <2>4
<1>2. w.pc = "report" /\ w.id = id /\ w.got = worker[c].got /\ w.error = TRUE
  BY DEF Work
<1>3. worker[c] \in WorkType /\ Employed(c, worker[c])
  BY DEF RestInv, WorkerInv
<1>4. w \in WorkType
  BY <1>3 DEF WorkType, Work
<1> HIDE DEF w
<1>5. Employed(c, w) /\ id.kind = c
  BY <1>1, <1>2, <1>3 DEF Employed
<1>6. status' = [i \in IDs |-> status'[i]]
  BY <1>1 DEF RestInv, WorkerInv
<1>7. ASSUME id \in IDs, id \notin queue' PROVE InHand(c)'
  <2>1. InHand(c) /\ worker'[c] = w
    BY <1>1, <1>7 DEF RestInv, Tended, Works, WorkerInv
  <2> QED
    BY <2>1, <1>1, <1>2 DEF InHand
<1> QED
  BY <1>1, <1>2, <1>4, <1>5, <1>6, <1>7, WorkerStep

\* What Upsert leaves in the system.
LEMMA UpsertLeaves ==
  ASSUME ListInv, NEW m \in Mutators, Upsert(m)
  PROVE  /\ \A i : i # m.id => WithID(mutatorsMap', i) = WithID(mutatorsMap, i)
         /\ ~(m \notin mutatorsMap /\ Conflict(m)) => WithID(mutatorsMap', m.id) = {m}
<1>1. CASE m \in mutatorsMap
  <2>1. mutatorsMap' = mutatorsMap
    BY <1>1 DEF Upsert, RejectedUpsert, AcceptedUpsert, system
  <2>2. WithID(mutatorsMap, m.id) = {m}
    BY <1>1, UniqueInMap DEF WithID
  <2> QED
    BY <2>1, <2>2
<1>2. CASE m \notin mutatorsMap /\ Conflict(m)
  BY <1>2 DEF Upsert, RejectedUpsert
<1>3. CASE m \notin mutatorsMap /\ ~Conflict(m)
  <2>1. mutatorsMap' = Replaced(mutatorsMap, m)
    BY <1>3 DEF Upsert, AcceptedUpsert
  <2> QED
    BY <2>1, <1>3 DEF Replaced, WithID
<1> QED
  BY <1>1, <1>2, <1>3

LEMMA UpsertRest ==
  ASSUME ListInv, RestInv, NEW c \in Controllers, ReconcileUpsert(c)
  PROVE  RestInv'
<1> DEFINE id == worker[c].id
<1>1. PICK m \in worker[c].got \ Invalid :
        /\ Upsert(m)
        /\ worker' = [Goto(c, "report") EXCEPT ![c].error = m \notin mutatorsMap /\ Conflict(m)]
  BY DEF ReconcileUpsert
<1> DEFINE e == m \notin mutatorsMap /\ Conflict(m)
<1> DEFINE w == Work("report", id, worker[c].got, e)
<1>2. /\ worker[c].pc = "upsert" /\ worker' = [worker EXCEPT ![c] = w]
      /\ UNCHANGED <<cluster, status, queue>>
  BY <1>1, GotoWith DEF ReconcileUpsert
<1>3. m \in Mutators /\ m.id = id
  BY <1>1, <1>2, GotIsID
<1>4. /\ \A i : i # id => WithID(mutatorsMap', i) = WithID(mutatorsMap, i)
      /\ ~e => WithID(mutatorsMap', id) = {m}
  BY <1>1, <1>3, UpsertLeaves
<1>5. e \in BOOLEAN
  OBVIOUS
<1> HIDE DEF e
<1>6. w.pc = "report" /\ w.id = id /\ w.got = worker[c].got /\ w.error = e
  BY DEF Work
<1>7. worker[c] \in WorkType /\ Employed(c, worker[c])
  BY DEF RestInv, WorkerInv
<1>8. w \in WorkType
  BY <1>5, <1>7 DEF WorkType, Work
<1> HIDE DEF w
<1>9. Employed(c, w) /\ id.kind = c
  BY <1>2, <1>6, <1>7 DEF Employed
<1>10. status' = [i \in IDs |-> status'[i]]
  BY <1>2 DEF RestInv, WorkerInv
<1>11. ASSUME id \in IDs, id \notin queue' PROVE InHand(c)'
  <2>1. InHand(c) /\ worker'[c] = w
    BY <1>2, <1>11 DEF RestInv, Tended, Works, WorkerInv
  <2>2. worker[c].got = WithID(cluster, id)
    BY <2>1 DEF InHand
  <2>3. worker[c].got = {m}
    <3>1. \A a, b \in cluster : a.id = b.id => a = b
      BY DEF RestInv, WorkerInv
    <3> QED
      BY <3>1, <2>2, <1>1 DEF WithID
  <2> QED
    BY <2>1, <2>2, <2>3, <1>2, <1>4, <1>6 DEF InHand
<1> QED
  BY <1>2, <1>4, <1>6, <1>8, <1>9, <1>10, <1>11, WorkerStep

LEMMA UpdateStatusRest ==
  ASSUME RestInv, NEW c \in Controllers, UpdateStatus(c)
  PROVE  RestInv'
<1>0. PICK id : id = worker[c].id
  OBVIOUS
<1> DEFINE s == [exists |-> TRUE, enforced |-> status[id].enforced \/ ~worker[c].error,
                 error |-> worker[c].error, of |-> worker[c].got]
<1>1. /\ worker[c].pc = "report" /\ worker' = [worker EXCEPT ![c] = NoWork]
      /\ UNCHANGED <<mutatorsMap, cluster>>
      /\ SetStatus(c, s)
  BY <1>0 DEF UpdateStatus, system
<1>2. id.kind = c /\ worker[c].got # {} /\ worker[c].error \in BOOLEAN
  BY <1>0, <1>1 DEF RestInv, WorkerInv, Employed, WorkType
<1>3. id \in IDs
  BY <1>0, <1>1, GotIsID
<1>4. ~worker[c].error => s = [exists |-> TRUE, enforced |-> TRUE, error |-> FALSE, of |-> worker[c].got]
  BY <1>2
<1> HIDE DEF s
<1>5. /\ status' = [i \in IDs |-> status'[i]]
      /\ status'[id] = s
      /\ \A i \in IDs \ {id} : status'[i] = status[i]
      /\ queue \ {id} \subseteq queue'
      /\ worker[c].error => id \in queue'
  BY <1>0, <1>1, <1>3, SetStatusIs
<1>6. ASSUME id \notin queue' PROVE Settled(id)'
  <2>1. id \notin queue /\ ~worker[c].error
    BY <1>0, <1>1, <1>5, <1>6 DEF SetStatus
  <2>2. InHand(c)
    BY <1>0, <1>1, <1>3, <2>1 DEF RestInv, Tended, Works
  <2>3. worker[c].got = WithID(cluster, id) /\ WithID(mutatorsMap, id) = worker[c].got
    BY <2>1, <2>2, <1>0, <1>1 DEF InHand
  <2> QED
    BY <2>1, <2>3, <1>1, <1>2, <1>4, <1>5 DEF Settled
<1> QED
  BY <1>0, <1>1, <1>2, <1>5, <1>6, NoWorkIs, WorkerStep

LEMMA FailsRest ==
  ASSUME RestInv, NEW c \in Controllers, ReconcileFails(c)
  PROVE  RestInv'
<1> DEFINE id == worker[c].id
<1>1. /\ worker[c].pc \in {"unstatus", "status", "report"}
      /\ worker' = [worker EXCEPT ![c] = NoWork] /\ queue' = queue \cup {id}
      /\ UNCHANGED <<mutatorsMap, cluster, status>>
  BY DEF ReconcileFails, system
<1>2. id.kind = c /\ status' = [i \in IDs |-> status'[i]]
  BY <1>1 DEF RestInv, WorkerInv, Employed
<1> QED
  BY <1>1, <1>2, NoWorkIs, WorkerStep

\* A mutator changes in the cluster: it is queued.
LEMMA ChangeRest ==
  ASSUME RestInv, NEW id \in IDs, NEW v, ClusterChange(id, v),
         v \subseteq WithID(Mutators, id), \A a, b \in v : a = b
  PROVE  RestInv'
<1>1. /\ cluster' = (cluster \ WithID(cluster, id)) \cup v
      /\ queue' = queue \cup {id}
      /\ UNCHANGED <<mutatorsMap, status, worker>>
  BY DEF ClusterChange, system
<1>2. WorkerInv'
  <2>1. ASSUME NEW a \in cluster', NEW b \in cluster', a.id = b.id PROVE a = b
    BY <1>1, <2>1 DEF RestInv, WorkerInv, WithID
  <2> QED
    BY <1>1, <2>1 DEF RestInv, WorkerInv
<1>3. ASSUME NEW i \in IDs PROVE Tended(i)'
  <2>1. CASE i = id
    BY <2>1, <1>1 DEF Tended
  <2>2. CASE i # id
    <3>1. WithID(cluster', i) = WithID(cluster, i)
      BY <2>2, <1>1 DEF WithID
    <3>2. Tended(i) /\ \A c \in Controllers : Works(c, i)' <=> Works(c, i)
      BY <1>1 DEF RestInv, Works
    <3> QED
      BY <3>1, <3>2, <1>1, Undisturbed
  <2> QED
    BY <2>1, <2>2
<1> QED
  BY <1>2, <1>3 DEF RestInv

\* A step that leaves the controllers alone, and at most queues a request.
LEMMA NothingRest ==
  ASSUME RestInv, UNCHANGED <<mutatorsMap, cluster, status, worker>>, queue \subseteq queue'
  PROVE  RestInv'
<1>1. WorkerInv'
  BY DEF RestInv, WorkerInv
<1>2. ASSUME NEW i \in IDs PROVE Tended(i)'
  <2>1. Tended(i) /\ \A c \in Controllers : Works(c, i)' <=> Works(c, i)
    BY DEF RestInv, Works
  <2> QED
    BY <2>1, Undisturbed
<1> QED
  BY <1>1, <1>2 DEF RestInv

\* Every mutator is queued, in hand or settled.
THEOREM RestInvariance == Spec => []RestInv
<1>1. Init => RestInv
  <2> SUFFICES ASSUME Init PROVE RestInv
    OBVIOUS
  <2>1. WorkerInv
    <3>1. worker \in [Controllers -> WorkType] /\ \A c \in Controllers : worker[c] = NoWork
      BY NoWorkIs DEF Init
    <3> QED
      BY <3>1, NoWorkIs DEF Init, WorkerInv
  <2>2. ASSUME NEW id \in IDs PROVE Tended(id)
    <3>1. \A c \in Controllers : ~Works(c, id)
      BY NoWorkIs DEF Init, Works
    <3>2. Settled(id)
      BY DEF Init, Settled, WithID
    <3> QED
      BY <3>1, <3>2 DEF Tended
  <2> QED
    BY <2>1, <2>2 DEF RestInv
<1>2. ListInv /\ RestInv /\ [Next]_vars => RestInv'
  <2> SUFFICES ASSUME ListInv, RestInv, [Next]_vars PROVE RestInv'
    OBVIOUS
  <2>1. ASSUME NEW id \in IDs, ClusterChange(id, {}) PROVE RestInv'
    BY <2>1, ChangeRest
  <2>2. ASSUME NEW id \in IDs, NEW m \in WithID(Mutators, id), ClusterChange(id, {m})
        PROVE  RestInv'
    <3>1. {m} \subseteq WithID(Mutators, id) /\ \A a, b \in {m} : a = b
      OBVIOUS
    <3> QED
      BY <2>2, <3>1, ChangeRest
  <2>3. ASSUME NEW id, MutatorEvent(id) PROVE RestInv'
    BY <2>3, NothingRest DEF MutatorEvent, system
  <2>4. ASSUME NEW c \in Controllers, NEW id \in Requests, Get(c, id) PROVE RestInv'
    BY <2>4, GetRest
  <2>5. ASSUME NEW c \in Controllers, Reconcile(c) PROVE RestInv'
    BY <2>5, RemoveRest, DeleteStatusRest, StatusRest, InvalidRest, UpsertRest,
       UpdateStatusRest DEF Reconcile
  <2>6. ASSUME NEW c \in Controllers, ReconcileFails(c) PROVE RestInv'
    BY <2>6, FailsRest
  <2>7. ASSUME NEW c \in Callers, MutatePass(c) PROVE RestInv'
    BY <2>7, NothingRest DEF MutatePass, system
  <2>8. ASSUME NEW c \in Callers, NEW o \in Objs, MutateBegin(c, o) PROVE RestInv'
    BY <2>8, NothingRest DEF MutateBegin, system
  <2>9. CASE UNCHANGED vars
    BY <2>9, NothingRest DEF vars, system
  <2> QED
    BY <2>1, <2>2, <2>3, <2>4, <2>5, <2>6, <2>7, <2>8, <2>9 DEF Next
<1> QED
  BY <1>1, <1>2, ListInvariance, PTL DEF Spec

(***************************************************************************)
(* Whenever the work queues of the Assign and AssignMetadata controllers   *)
(* are empty and their workers idle, System holds exactly the mutators of  *)
(* the cluster and every MutatorPodStatus says so: an update that comes    *)
(* while an earlier version is handled queues the mutator again, and so    *)
(* does every error of Reconcile.                                          *)
(***************************************************************************)
THEOREM RestIsInSync == Spec => []RestInSync
<1>1. ListInv /\ RestInv => RestInSync
  <2> SUFFICES ASSUME ListInv, RestInv, AtRest PROVE RestInSync
    BY DEF RestInSync
  <2>1. ASSUME NEW id \in IDs PROVE Settled(id)
    BY DEF RestInv, Tended, AtRest, Works
  <2>2. ASSUME NEW m \in Mutators PROVE m \in mutatorsMap <=> m \in cluster
    <3>1. WithID(mutatorsMap, m.id) = WithID(cluster, m.id)
      BY <2>1 DEF Settled, IDs
    <3> QED
      BY <3>1 DEF WithID
  <2>3. mutatorsMap \subseteq Mutators /\ cluster \subseteq Mutators
    BY DEF ListInv, InSync
  <2>4. mutatorsMap = cluster
    BY <2>2, <2>3
  <2> QED
    BY <2>1, <2>4 DEF RestInSync, Settled
<1> QED
  BY <1>1, ListInvariance, RestInvariance, PTL
===============================================================================
