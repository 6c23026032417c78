------------------------------ MODULE MCSchemaDB ------------------------------
(***************************************************************************)
(* Mutators of Pods and Jobs.  spec.a is used as an object, as a list with *)
(* key n, as a list with key k and as a value; spec itself as a list.      *)
(***************************************************************************)
EXTENDS SchemaDB

O(key) == [key |-> key, type |-> "Object"]
L(key) == [key |-> key, type |-> "List"]

Version(id, path, bindings) == [id |-> id, path |-> path, bindings |-> bindings]

AsObject == <<O("spec"), O("a"), O("x")>>
AsList   == <<O("spec"), O("a"), L("n"), O("x")>>
AsList2  == <<O("spec"), O("a"), L("k"), O("x")>>
AsValue  == <<O("spec"), O("a")>>
SpecList == <<O("spec"), L("n"), O("x")>>

MCMutators ==
  {Version("m1", AsObject, {"Pod"}), Version("m1", AsList, {"Pod", "Job"}),
   Version("m1", AsList2, {"Job"}),
   Version("m2", AsList, {"Pod"}),   Version("m2", AsList2, {"Job"}),
   Version("m2", AsValue, {"Pod", "Job"}),
   Version("m3", AsValue, {"Pod"}),  Version("m3", AsList2, {"Pod", "Job"}),
   Version("m4", SpecList, {"Pod"}), Version("m4", AsObject, {"Job"})}
===============================================================================
