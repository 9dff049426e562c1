----------------------------- MODULE ServerRestart -----------------------------
(***************************************************************************)
(* The share index and containers of ShareIndex, on a server that is       *)
(* stopped and started again.  The database and the container files are    *)
(* on disk and survive; the buffer nodes, the container names and the      *)
(* threads do not, and the constructor of minDedupCore starts the names    *)
(* from the first one again.  Server processes run until they are killed,  *)
(* so cleanupAllBufferNodes is never reached.                              *)
(***************************************************************************)
EXTENDS ShareIndex

Restart ==
  /\ link' = {}
  /\ nextName' = 0
  /\ pc' = [t \in Threads |-> "idle"]
  /\ batch' = [t \in Threads |-> <<>>]
  /\ stat' = [t \in Threads |-> <<>>]
  /\ pos' = [t \in Threads |-> 1]
  /\ ptr' = [t \in Threads |-> 0]
  /\ pending' = [t \in Threads |-> NoFile]
  /\ UNCHANGED <<index, disk, node, sent>>

RestartSpec == Init /\ [][Next \/ Restart]_vars

\* "the original data can be retrieved": a share that can be restored from a
\* container file stays restorable, through restarts too.  (After one, a new
\* buffer may have the name of that file: it is searched before the disk and so
\* hides the file, even before it is flushed over it.)
FiledStaysRestorable ==
  [][\A s \in Shares :
       index[s] # NoEntry /\ ~Live(index[s].container) /\ Restorable(s)
         => Restorable(s)']_vars
================================================================================
