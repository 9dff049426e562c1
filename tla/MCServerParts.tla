----------------------------- MODULE MCServerParts -----------------------------
(* What the server must eventually do, for three of its parts in one state *)
(* space: the share index with a restore, the accepting thread with its    *)
(* clients, and the backend storer.  part says which of them moves; the    *)
(* others stay in their initial state.                                     *)
EXTENDS MCRestoreShares, Accept, BackendStorer

\* One small and two large files for a cache that holds one of each.
MCFileSize == [f \in StoredFiles |-> IF f = 1 THEN 1 ELSE 2]

VARIABLE part

serverPartsVars == <<part, allVars, acceptVars, backendVars>>

ServerPartsInit ==
  /\ part \in {"shares", "accept", "backend"}
  /\ RestoreInit /\ AcceptInit /\ BackendInit

ServerPartsNext ==
  \/ part = "shares" /\ RestoreNext /\ UNCHANGED <<part, acceptVars, backendVars>>
  \/ part = "accept" /\ AcceptNext /\ UNCHANGED <<part, allVars, backendVars>>
  \/ part = "backend" /\ BackendNext /\ UNCHANGED <<part, allVars, acceptVars>>

\* The fairness of each part is that of its own module.
ServerPartsFairness ==
  /\ WF_allVars(part = "shares" /\ RestoreStep)
  /\ \A t \in Threads : WF_allVars(part = "shares" /\ Step(t) /\ Watched(t))
  /\ WF_acceptVars(part = "accept" /\ acceptData)
  /\ WF_acceptVars(part = "accept" /\ acceptMeta)
  /\ \A c \in Peers : /\ WF_acceptVars(part = "accept" /\ connectData(c))
                      /\ WF_acceptVars(part = "accept" /\ leave(c))
  /\ WF_backendVars(part = "backend" /\ backendStatus = "run" /\ Storer)
  /\ \A f \in StoredFiles :
       WF_backendVars(part = "backend" /\ backendStatus = "run" /\ queueNew(f))

ServerPartsSpec ==
  ServerPartsInit /\ [][ServerPartsNext]_serverPartsVars /\ ServerPartsFairness
================================================================================
