---------------------------- MODULE MCRestoreShares ----------------------------
(* Two users, each with one connection, and a download of either.          *)
EXTENDS RestoreShares, TLC
CONSTANTS u1, u2, t1, t2

MCUsers   == {u1, u2}
MCThreads == {t1, t2}
MCUserOf  == [t \in MCThreads |-> IF t = t1 THEN u1 ELSE u2]
MCOnePackage  == [t \in MCThreads |-> 1]
MCTwoOrOne    == [t \in MCThreads |-> IF t = t1 THEN 2 ELSE 1]
MCUnevenBatch == [t \in MCThreads |-> IF t = t1 THEN 3 ELSE 2]
Symmetry  == Permutations(Shares)
================================================================================
