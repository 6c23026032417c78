--------------------------- MODULE MCMutationSystem ---------------------------
(***************************************************************************)
(* Instances of MutationSystem, with the mutators of module Mutators.  A   *)
(* mutator also has a label that its match asks for, or none.              *)
(***************************************************************************)
EXTENDS MutationSystem

INSTANCE Mutators

ID(kind, name) == [group |-> 1, kind |-> kind, namespace |-> 0, name |-> name]

O(key) == [key |-> key, type |-> "Object"]
L(key) == [key |-> key, type |-> "List"]

Simple(id, path) ==
  [id |-> id, path |-> path, at |-> [d \in DOMAIN path |-> "x"], value |-> Leaf("1"),
   tests |-> <<>>, in |-> {}, notIn |-> {}, label |-> "",
   bindings |-> IF id.kind = Assign THEN {"Pod"} ELSE {}]

\* spec.a as an object, as a list with key n, and with key k
AsObject == <<O("spec"), O("a"), O("x")>>
AsList   == <<O("spec"), O("a"), L("n"), O("x")>>
AsList2  == <<O("spec"), O("a"), L("k"), O("x")>>
Label    == <<O("metadata"), O("labels"), O("l")>>

\* "assign can't change metadata"
Metadata == Simple(ID(0, 2), Label)

\* Two versions of two mutators of one place.
FewRivals ==
  {Metadata,
   Simple(ID(0, 1), AsObject), Simple(ID(0, 1), AsList), Simple(ID(0, 2), AsList2)}

Refused == {m \in Mutators : ~IsValid(m)}

Containers == <<O("spec"), O("c"), L("name")>>
Image      == Containers \o <<O("image")>>
Key        == Containers \o <<O("name")>>

Fields(name, image) == [k \in {"name", "image"} |-> Leaf(IF k = "name" THEN name ELSE image)]

Test(len, cond) == <<[len |-> len, cond |-> cond]>>

\* The label; container x of labelled objects; the image of container x if it
\* exists.  Each needs the one before, against the order in which they run.
Chain ==
  {[Simple(ID(1, 1), Label) EXCEPT !.tests = Test(3, "MustNotExist")],
   [Simple(ID(0, 4), Containers) EXCEPT
      !.value = Object([k \in {"name"} |-> Leaf("x")]),
      !.tests = Test(3, "MustNotExist"), !.label = "l"],
   [Simple(ID(0, 3), Image) EXCEPT
      !.tests = Test(3, "MustExist"), !.notIn = {Leaf("1"), Leaf("2")}]}

\* With the last of them, two that chase the image of the container for ever;
\* one that adds the container to set its image, one that replaces it, and one
\* that would change its key.
Chase ==
  {[Simple(ID(0, 1), Image) EXCEPT !.value = Leaf("0"), !.in = {Leaf("2")},
                                   !.at = [d \in 1..4 |-> Glob]],
   [Simple(ID(0, 2), Image) EXCEPT !.value = Leaf("2"), !.in = {Leaf("1")}],
   [Simple(ID(0, 2), Image) EXCEPT !.value = Leaf("2")],
   [Simple(ID(0, 4), Containers) EXCEPT !.value = Object(Fields("x", "0"))],
   Simple(ID(0, 4), Key)}

ChainAndChase == Chain \cup Chase

Container(name, images) == {Object(Fields(name, i)) : i \in images}

NoImage == Object([k \in {"name"} |-> Leaf("x")])
X       == {NoImage} \cup Container("x", {"0", "1", "2"})
Y       == Container("y", {"0", "1", "2"})

\* What spec.c may be: a value of another type, and a list of container x alone,
\* after an element of another type, after another container, and twice.
Lists ==
  {Leaf("1")}
    \cup {List(<<x>>) : x \in X}
    \cup {List(<<other, x>>) : other \in {Leaf("1")} \cup Y \cup (X \ {NoImage}),
                               x \in X \ {NoImage}}

Metadatas == {Object([k \in {"labels"} |-> Object([l \in {"l"} |-> Leaf("1")])])}

\* All of them are what the mutators make of one another.
MCObjs ==
  {Object(Empty)}
    \cup {Object([k \in {"spec"} |-> Object([c \in {"c"} |-> l])]) : l \in Lists}
    \cup {Object([k \in {"metadata"} |-> md]) : md \in Metadatas}
    \cup {Object([k \in {"spec", "metadata"} |->
                    IF k = "spec" THEN Object([c \in {"c"} |-> l]) ELSE md]) :
            l \in Lists, md \in Metadatas}

Labelled(m, o) ==
  m.label = "" \/ \E p \in Inside(Simple(ID(1, 1), Label), o) : p.node = Leaf("1")

\* A refused mutator does not exist in the system.
Effects ==
  [m \in ChainAndChase, o \in MCObjs |->
     IF ~IsValid(m) THEN Failed ELSE IF Labelled(m, o) THEN Mutate(m, o) ELSE o]

MCEffect(m, o) == Effects[m, o]

NoEffect(m, o) == o

\* A call of Mutate changes nothing but its own result and depends on the system
\* alone, which changes when a worker upserts or removes: behaviours are followed
\* up to the end of the first call, and a call after the last change, where a
\* worker is about to write or all are at rest.
OneCall ==
  \A c \in Callers :
    \/ call[c].pc = "none"
    \/ /\ call[c].pc = "run" /\ budget.changes = MaxChanges
       /\ AtRest \/ \E w \in Controllers : worker[w].pc \in {"upsert", "remove"}

(***************************************************************************)
(* A mutator that Mutate applies changes an object at the places its       *)
(* location names and nowhere else.  (The objects that calls begin with    *)
(* are also all that mutators make of one another.)                        *)
(***************************************************************************)
WritesItsLocation ==
  \A c \in Callers, m \in mutatorsMap :
    Running(c) /\ call[c].i = 0 /\ Effect(m, call[c].obj) \notin {Failed, call[c].obj} =>
      OnlyTheLocation(m, call[c].obj, Effect(m, call[c].obj))
===============================================================================
