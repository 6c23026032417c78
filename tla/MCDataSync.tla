------------------------------ MODULE MCDataSync ------------------------------
(***************************************************************************)
(* Instances of DataSync: p1 is a P in namespace "a", p2 a P in namespace  *)
(* "b" and q1 a Q in namespace "a".                                        *)
(***************************************************************************)
EXTENDS DataSync

MCKindOf      == [o \in Objects |-> IF o = "q1" THEN "Q" ELSE "P"]
MCNamespaceOf == [o \in Objects |-> IF o = "p2" THEN "b" ELSE "a"]
MCNoConfig    == [sync |-> {}, match |-> {}]

Entry(ns, p) == [ns |-> ns, process |-> p]

OnlyP   == [sync |-> {"P"}, match |-> {}]
OnlyQ   == [sync |-> {"Q"}, match |-> {}]
PAndQ   == [sync |-> {"P", "Q"}, match |-> {}]
PButNoA == [sync |-> {"P"}, match |-> {Entry("a", "*")}]

FourConfigs == {OnlyP, OnlyQ, PAndQ, PButNoA}
===============================================================================
