------------------------------ MODULE MCMetaStore ------------------------------
(* One user with a file in a directory and one in the root; another user   *)
(* whose package makes the server flush the first user's idle buffer.      *)
EXTENDS MetaStore
CONSTANTS u1, u2, t1, t2, f1, f2, root, sub, s1, s2

MCUsers   == {u1, u2}
MCThreads == {t1, t2}
MCUserOf  == [t \in MCThreads |-> IF t = t1 THEN u1 ELSE u2]
MCShares  == {s1, s2}
MCFiles   == {f1, f2}
MCDirs    == {root, sub}
MCPath    == [f \in MCFiles |-> IF f = f1 THEN <<sub, root>> ELSE <<root>>]
MCTwoShares == [t \in MCThreads |-> 2]
MCPackages == [t \in MCThreads |-> IF t = t1 THEN 3 ELSE 1]
MCSends   == [t \in MCThreads |->
                IF t = t1 THEN {f1} \X {<<s1>>, <<s1, s2>>} \X BOOLEAN
                                 \cup {f2} \X {<<s1>>} \X BOOLEAN
                          ELSE {<<f2, <<s1>>, TRUE>>}]
================================================================================
