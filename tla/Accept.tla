------------------------------- MODULE Accept -------------------------------
(***************************************************************************)
(* How clients get their two connections to a server.  A client opens its  *)
(* meta connection, then its data connection (constructors of Uploader and *)
(* Downloader); the server's one accepting thread takes a data connection, *)
(* then a meta connection, and so on (Server::runReceive), each from a     *)
(* listen queue of limited length, and starts a handler for each.  Nothing *)
(* ties the two connections of a client together.  A client may be killed  *)
(* at any time: its connections stay in the queues and are accepted later. *)
(***************************************************************************)
EXTENDS Naturals, Sequences, SequencesExt, FiniteSets

CONSTANTS
    Peers,     \* the clients
    Backlog,   \* listen(sock, 10)
    MaxKilled  \* bound: clients killed

ASSUME AcceptAssumption == IsFiniteSet(Peers) /\ Backlog \in Nat \ {0} /\ MaxKilled \in Nat

VARIABLES
    peer,      \* peer[c]: "idle", "meta", "both" or "killed"
    listening, \* the listen queues: [meta, data], sequences of clients
    turn,      \* the accept() the server waits in: "data" or "meta"
    served     \* served[c]: the kinds of connection of c with a handler

acceptVars == <<peer, listening, turn, served>>

ConnKinds == {"meta", "data"}

AcceptInit ==
    /\ peer = [c \in Peers |-> "idle"]
    /\ listening = [k \in ConnKinds |-> <<>>]
    /\ turn = "data"
    /\ served = [c \in Peers |-> {}]

(* Socket::Socket: connect() returns once the connection is queued.         *)
connect(c, kind, from, to) ==
    /\ peer[c] = from
    /\ Len(listening[kind]) < Backlog
    /\ listening' = [listening EXCEPT ![kind] = Append(@, c)]
    /\ peer' = [peer EXCEPT ![c] = to]
    /\ UNCHANGED <<turn, served>>

connectMeta(c) == connect(c, "meta", "idle", "meta")
connectData(c) == connect(c, "data", "meta", "both")

Handler(k) ==
    LET c == Head(listening[k])
    IN  served' = IF peer[c] = "killed" THEN served
                  ELSE [served EXCEPT ![c] = @ \cup {k}]

(* Variant: data connections are taken as long as there are any.             *)
acceptDataGreedy ==
    /\ turn = "data" /\ listening["data"] /= <<>>
    /\ Handler("data")
    /\ listening' = [listening EXCEPT !["data"] = Tail(@)]
    /\ turn' = IF Len(listening["data"]) > 1 THEN "data" ELSE "meta"
    /\ UNCHANGED peer

acceptData ==
    /\ turn = "data" /\ listening["data"] /= <<>>
    /\ Handler("data")
    /\ listening' = [listening EXCEPT !["data"] = Tail(@)]
    /\ turn' = "meta"
    /\ UNCHANGED peer

acceptMeta ==
    /\ turn = "meta" /\ listening["meta"] /= <<>>
    /\ Handler("meta")
    /\ listening' = [listening EXCEPT !["meta"] = Tail(@)]
    /\ turn' = "data"
    /\ UNCHANGED peer

(* A client that was served closes both connections and may come again.     *)
leave(c) ==
    /\ peer[c] = "both" /\ served[c] = ConnKinds
    /\ peer' = [peer EXCEPT ![c] = "idle"]
    /\ served' = [served EXCEPT ![c] = {}]
    /\ UNCHANGED <<listening, turn>>

Killed == {c \in Peers : peer[c] = "killed"}

kill(c) ==
    /\ peer[c] \in {"meta", "both"} /\ Cardinality(Killed) < MaxKilled
    /\ peer' = [peer EXCEPT ![c] = "killed"]
    /\ served' = [served EXCEPT ![c] = {}]
    /\ UNCHANGED <<listening, turn>>

AcceptNext ==
    \/ \E c \in Peers : connectMeta(c) \/ connectData(c) \/ leave(c) \/ kill(c)
    \/ acceptData
    \/ acceptMeta

(* The accepting thread runs; a client that has begun to connect goes on    *)
(* (or is killed) and one that is served finishes.                          *)
AcceptFairness ==
    /\ WF_acceptVars(acceptData) /\ WF_acceptVars(acceptMeta)
    /\ \A c \in Peers : /\ WF_acceptVars(connectData(c))
                        /\ WF_acceptVars(leave(c))

-----------------------------------------------------------------------------
(* Type invariant: a client has at most one connection of a kind waiting,   *)
(* and no listen queue is longer than its backlog.                          *)
AcceptTypeOK ==
    /\ peer \in [Peers -> {"idle", "meta", "both", "killed"}]
    /\ turn \in ConnKinds
    /\ served \in [Peers -> SUBSET ConnKinds]
    /\ \A k \in ConnKinds : /\ listening[k] \in BoundedSeq(Peers, Backlog)
                        /\ IsInjective(listening[k])

(* As long as no client is killed, a client that begins to connect gets     *)
(* both handlers, although the server pairs connections of different        *)
(* clients and blocks in each accept() in turn.                             *)
ServedUnlessKilled ==
    \A c \in Peers : peer[c] = "meta" ~> (served[c] = ConnKinds \/ Killed /= {})
=============================================================================
