---------------------------- MODULE MCServerRestart ----------------------------
(* One user with one connection, which the user opens again after a restart. *)
EXTENDS ServerRestart
CONSTANTS u1, t1

MCUsers   == {u1}
MCThreads == {t1}
MCUserOf  == [t \in MCThreads |-> u1]
MCTwoShares == [t \in MCThreads |-> 2]
MCPackages == [t \in MCThreads |-> 3]
================================================================================
