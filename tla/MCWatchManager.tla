---------------------------- MODULE MCWatchManager ----------------------------
(***************************************************************************)
(* Instances of WatchManager: object names start with the letter of their  *)
(* kind, so p1 is a P and q1 a Q.                                          *)
(***************************************************************************)
EXTENDS WatchManager, TLC

CONSTANT ByConfig  \* the registrar of the config controller

MCKindOf == [o \in Objects |-> IF o = "q1" THEN "Q" ELSE "P"]

\* The constraint controller adds and removes; the config controller replaces.
\* Nothing in the program calls RemoveRegistrar, which the second one adds.
Production == [r \in Registrars |-> IF r = ByConfig THEN {"replace"}
                                                   ELSE {"add", "remove"}]
Mixed == [r \in Registrars |-> IF r = ByConfig THEN {"replace", "unregister"}
                                              ELSE {"add", "remove"}]

Two         == [r \in Registrars |-> 2]
ThreeAndTwo == [r \in Registrars |-> IF r = ByConfig THEN 2 ELSE 3]

ReplaySymmetry == Permutations(Replays)
===============================================================================
