------------------------------ MODULE MCSameUser ------------------------------
(* One user, with two connections at the same time.                        *)
EXTENDS ShareIndex
CONSTANTS u1, t1, t2

MCUsers   == {u1}
MCThreads == {t1, t2}
MCUserOf  == [t \in MCThreads |-> u1]
MCTwoShares == [t \in MCThreads |-> 2]
MCPackages == [t \in MCThreads |-> 1]
===============================================================================
