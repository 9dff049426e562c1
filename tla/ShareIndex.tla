------------------------------ MODULE ShareIndex ------------------------------
(***************************************************************************)
(* The share index and the share containers of a deduplication server, as  *)
(* minDedupCore.cc implements them (DedupCore.cc has the same code for the *)
(* meta chunks).  Every client connection is served by a thread.  A        *)
(* package of shares is deduplicated in two stages: firstStageDedup        *)
(* answers, share by share, whether the user owns the share already;       *)
(* secondStageDedup stores the shares the client then sends, in a buffer   *)
(* of the user that is written to a container file when it is full or when *)
(* it has been idle for too long.                                          *)
(*                                                                         *)
(* A share stands for its bytes and for its fingerprint, every share has   *)
(* size 1, and an offset is a position in the sequence of a container's    *)
(* shares.  One action is one critical section of the code (DBLock_,       *)
(* bufferLock_, globalShareContainerNameLock_) or one stretch of unlocked  *)
(* code between two of them.                                               *)
(***************************************************************************)
EXTENDS Naturals, Sequences, FiniteSets

CONSTANTS
  Users,
  Threads,         \* the threads SocketHandlerData, one per connection
  UserOf,          \* the user id each connection announced
  Shares,
  ContainerCap,    \* CONTAINER_BUFFER_SIZE, in shares
  MaxName,         \* bound: container names are 0 .. MaxName - 1
  MaxBatch,        \* bound: shares in a package of each connection
  MaxPackages,     \* bound: packages each connection sends
  StageWithinWait, \* no second stage lasts MAX_BUFFER_WAIT_SECS
  FlushFaults,     \* the write of an idle buffer may fail
  NoEntry

Names == 0 .. MaxName - 1
Entry == [container : Names, offset : Nat, refs : [Users -> Nat]]

ASSUME ConstantsAssumption ==
  /\ Users # {}
  /\ UserOf \in [Threads -> Users]
  /\ ContainerCap \in Nat \ {0}
  /\ MaxName \in Nat \ {0}
  /\ MaxBatch \in [Threads -> Nat]
  /\ MaxPackages \in [Threads -> Nat]
  /\ StageWithinWait \in BOOLEAN
  /\ FlushFaults \in BOOLEAN
  /\ NoEntry \notin Entry

ASSUME ThreadsFinite == IsFiniteSet(Threads)

VARIABLES
  index,    \* db_: the share index, on disk
  disk,     \* the container files; <<>> is a file that does not exist
  node,     \* the buffer nodes; a node is named by its first container
  link,     \* the nodes on the list headBufferNode_ .. tailBufferNode_
  nextName, \* globalShareContainerName_
  pc,       \* what each thread does next
  batch,    \* shareMDBuffer: the shares of the package
  stat,     \* intraUserDupStatList: the answers of the first stage
  pos,      \* the share the stage has reached
  ptr,      \* targetBufferNode
  pending,  \* the container a thread has written and not yet closed
  sent      \* packages received so far

store == <<index, disk, node, link, nextName>>
local == <<batch, stat, pos, ptr, pending, sent>>
vars  == <<index, disk, node, link, nextName,
           pc, batch, stat, pos, ptr, pending, sent>>

Node    == [user : Users, container : Names, buf : Seq(Shares)]
File    == [container : Names, data : Seq(Shares)]
Package(t) == UNION {[1 .. k -> Shares] : k \in 1 .. MaxBatch[t]}
Goto(t, label) == pc' = [pc EXCEPT ![t] = label]

\* A thread in one of these states is inside secondStageDedup with a node.
HoldsNode == {"share", "store", "renew", "close", "put", "copy"}
Using(t)  == pc[t] \in HoldsNode

NoFile == [container |-> 0, data |-> <<>>]

\* The thread is done with the package and waits for the next message.
Return(t) ==
  /\ Goto(t, "idle")
  /\ batch' = [batch EXCEPT ![t] = <<>>]
  /\ stat' = [stat EXCEPT ![t] = <<>>]
  /\ pos' = [pos EXCEPT ![t] = 1]
  /\ ptr' = [ptr EXCEPT ![t] = 0]

Init ==
  /\ index = [s \in Shares |-> NoEntry]
  /\ disk = [c \in Names |-> <<>>]
  /\ node = [n \in Names |-> [user |-> CHOOSE u \in Users : TRUE,
                              container |-> n, buf |-> <<>>]]
  /\ link = {}
  /\ nextName = 0
  /\ pc = [t \in Threads |-> "idle"]
  /\ batch = [t \in Threads |-> <<>>]
  /\ stat = [t \in Threads |-> <<>>]
  /\ pos = [t \in Threads |-> 1]
  /\ ptr = [t \in Threads |-> 0]
  /\ pending = [t \in Threads |-> NoFile]
  /\ sent = [t \in Threads |-> 0]

-----------------------------------------------------------------------------
(* The first stage.                                                        *)

\* SocketHandlerData receives META and the metadata of a package.
recvMeta(t) ==
  /\ pc[t] = "idle"
  /\ sent[t] < MaxPackages[t]
  /\ \E p \in Package(t) : batch' = [batch EXCEPT ![t] = p]
  /\ sent' = [sent EXCEPT ![t] = @ + 1]
  /\ Goto(t, "first")
  /\ UNCHANGED <<store, stat, pos, ptr, pending>>

AddRef(s, u) == index' = [index EXCEPT ![s].refs[u] = @ + 1]
Owns(u, s)   == index[s] # NoEntry /\ index[s].refs[u] > 0

\* Variant: IsNotFound does not clear the status.
intraUserIndexUpdate_StaleStatus(t) ==
  LET s == batch[t][pos[t]]
      u == UserOf[t]
  IN  /\ pc[t] = "first"
      /\ stat' = [stat EXCEPT ![t] = Append(@, index[s] = NoEntry \/ Owns(u, s))]
      /\ IF Owns(u, s) THEN AddRef(s, u) ELSE UNCHANGED index
      /\ IF pos[t] = Len(batch[t])
         THEN pos' = [pos EXCEPT ![t] = 1] /\ Goto(t, "data")
         ELSE pos' = [pos EXCEPT ![t] = @ + 1] /\ UNCHANGED pc
      /\ UNCHANGED <<disk, node, link, nextName, batch, ptr, pending, sent>>

\* One call of intraUserIndexUpdate_, under DBLock_.  After the last one the
\* status list is sent to the client.
intraUserIndexUpdate_(t) ==
  LET s == batch[t][pos[t]]
      u == UserOf[t]
  IN  /\ pc[t] = "first"
      /\ stat' = [stat EXCEPT ![t] = Append(@, Owns(u, s))]
      /\ IF Owns(u, s) THEN AddRef(s, u) ELSE UNCHANGED index
      /\ IF pos[t] = Len(batch[t])
         THEN pos' = [pos EXCEPT ![t] = 1] /\ Goto(t, "data")
         ELSE pos' = [pos EXCEPT ![t] = @ + 1] /\ UNCHANGED pc
      /\ UNCHANGED <<disk, node, link, nextName, batch, ptr, pending, sent>>

\* The client goes away before it sends DATA, and the thread ends; the same
\* thread then stands for the user's next connection.
disconnect(t) ==
  /\ pc[t] = "data"
  /\ Return(t)
  /\ UNCHANGED <<store, pending, sent>>

-----------------------------------------------------------------------------
(* The second stage: the user's buffer node.                               *)

\* The nodes of other users whose lastUseTime may be MAX_BUFFER_WAIT_SECS old.
MayExpire(t) ==
  {n \in link : /\ node[n].user # UserOf[t]
                /\ StageWithinWait =>
                     \A t2 \in Threads : ~(Using(t2) /\ ptr[t2] = n)}

\* Variant: the expired node is freed and nothing is written.
FlushedNothing(kept) == disk

\* Variant: the file is named as when the node was created.
FlushedStaleName(kept) ==
  [c \in Names |-> IF c \in DOMAIN kept /\ node[c].buf # <<>>
                   THEN SubSeq(node[c].buf, 1, kept[c]) ELSE disk[c]]

\* flushBufferNodeIntoDisk_ for the nodes in DOMAIN kept: a container file
\* for each buffer that is not empty, of which kept[n] shares are written.
Flushed(kept) ==
  LET of(c) == {n \in DOMAIN kept : node[n].container = c /\ node[n].buf # <<>>}
  IN  [c \in Names |->
         IF of(c) = {} THEN disk[c]
         ELSE LET n == CHOOSE m \in of(c) : TRUE
              IN  SubSeq(node[n].buf, 1, kept[n])]

\* The node is freed whether or not it could be written.
WholeOrFaulty(nodes) ==
  {kept \in [nodes -> 0 .. ContainerCap] : \A n \in nodes :
     IF FlushFaults THEN kept[n] <= Len(node[n].buf)
                    ELSE kept[n] = Len(node[n].buf)}

Mine(t) == {n \in link : node[n].user = UserOf[t]}

\* DATA arrives; findOrCreateBufferNode_ walks the list under bufferLock_,
\* flushes and frees the expired nodes, and finds the user's own node: the
\* last one on the list, should there be several.
findBufferNode_(t) ==
  /\ pc[t] = "data"
  /\ \E expired \in SUBSET MayExpire(t) :
       /\ \E kept \in WholeOrFaulty(expired) : disk' = Flushed(kept)
       /\ link' = link \ expired
  /\ \/ /\ Mine(t) = {}
        /\ Goto(t, "create")
        /\ UNCHANGED ptr
     \/ \E n \in Mine(t) :
          /\ \A m \in Mine(t) : m <= n
          /\ ptr' = [ptr EXCEPT ![t] = n]
          /\ Goto(t, "share")
  /\ UNCHANGED <<index, node, nextName, batch, stat, pos, pending, sent>>

\* The second half of findOrCreateBufferNode_, after bufferLock_ was
\* released: a node with a fresh container name is put at the list's end.
createBufferNode_(t) ==
  /\ pc[t] = "create"
  /\ nextName < MaxName
  /\ node' = [node EXCEPT ![nextName] =
                [user |-> UserOf[t], container |-> nextName, buf |-> <<>>]]
  /\ link' = link \cup {nextName}
  /\ ptr' = [ptr EXCEPT ![t] = nextName]
  /\ nextName' = nextName + 1
  /\ Goto(t, "share")
  /\ UNCHANGED <<index, disk, batch, stat, pos, pending, sent>>

-----------------------------------------------------------------------------
(* The second stage: interUserIndexUpdate_ for each share that was sent.   *)

Current(t) == batch[t][pos[t]]

\* The loop of secondStageDedup goes on to the next share, or is done.
NextShare(t) ==
  IF pos[t] = Len(batch[t])
  THEN Return(t)
  ELSE /\ Goto(t, "share")
       /\ pos' = [pos EXCEPT ![t] = @ + 1]
       /\ UNCHANGED <<batch, stat, ptr>>

\* The first stage found a duplicate: the client has not sent this share.
skipShare(t) ==
  /\ pc[t] = "share"
  /\ stat[t][pos[t]]
  /\ NextShare(t)
  /\ UNCHANGED <<store, pending, sent>>

\* The bytes do not have the announced fingerprint: secondStageDedup returns,
\* and SocketHandlerData does not look at the result.
rejectShare(t) ==
  /\ pc[t] = "share"
  /\ ~stat[t][pos[t]]
  /\ Return(t)
  /\ UNCHANGED <<store, pending, sent>>

\* The share is in the index: the user's reference is added under DBLock_.
referenceShare(t) ==
  /\ pc[t] = "share"
  /\ ~stat[t][pos[t]]
  /\ index[Current(t)] # NoEntry
  /\ AddRef(Current(t), UserOf[t])
  /\ NextShare(t)
  /\ UNCHANGED <<disk, node, link, nextName, pending, sent>>

\* Variant: the second stage trusts the first and does not look again.
missShareUnchecked(t) ==
  /\ pc[t] = "share"
  /\ ~stat[t][pos[t]]
  /\ Goto(t, IF Len(node[ptr[t]].buf) + 1 > ContainerCap THEN "store" ELSE "put")
  /\ UNCHANGED <<store, local>>

\* The share is not in the index.  DBLock_ is released before it is stored.
missShare(t) ==
  /\ pc[t] = "share"
  /\ ~stat[t][pos[t]]
  /\ index[Current(t)] = NoEntry
  /\ Goto(t, IF Len(node[ptr[t]].buf) + 1 > ContainerCap THEN "store" ELSE "put")
  /\ UNCHANGED <<store, local>>

\* Variant: a write that fails is tried again.
writeContainerRetry(t) ==
  LET b == node[ptr[t]]
  IN  /\ pc[t] = "store"
      /\ \E k \in 0 .. Len(b.buf) :
           disk' = [disk EXCEPT ![b.container] = SubSeq(b.buf, 1, k)]
      /\ Goto(t, "renew") \/ UNCHANGED pc
      /\ UNCHANGED <<index, node, link, nextName, local>>

\* storeShareContainer_, fopen and fwrite: the last bytes may stay in the
\* stdio buffer.  When the write fails the second stage returns.
writeContainer(t) ==
  LET b == node[ptr[t]]
  IN  /\ pc[t] = "store"
      /\ \E k \in 0 .. Len(b.buf) :
           disk' = [disk EXCEPT ![b.container] = SubSeq(b.buf, 1, k)]
      /\ \/ Goto(t, "renew") /\ UNCHANGED <<batch, stat, pos, ptr>>
         \/ Return(t)
      /\ UNCHANGED <<index, node, link, nextName, pending, sent>>

\* Variant: the buffer keeps its container name.
renewContainerSameName(t) ==
  LET b == node[ptr[t]]
  IN  /\ pc[t] = "renew"
      /\ nextName < MaxName
      /\ pending' = [pending EXCEPT ![t] =
                       [container |-> b.container, data |-> b.buf]]
      /\ node' = [node EXCEPT ![ptr[t]].buf = <<>>]
      /\ nextName' = nextName + 1
      /\ Goto(t, "close")
      /\ UNCHANGED <<index, disk, link, batch, stat, pos, ptr, sent>>

\* storeShareContainer_, the renewal of the buffer; the file is still open.
renewContainer(t) ==
  LET b == node[ptr[t]]
  IN  /\ pc[t] = "renew"
      /\ nextName < MaxName
      /\ pending' = [pending EXCEPT ![t] =
                       [container |-> b.container, data |-> b.buf]]
      /\ node' = [node EXCEPT ![ptr[t]].container = nextName,
                              ![ptr[t]].buf = <<>>]
      /\ nextName' = nextName + 1
      /\ Goto(t, "close")
      /\ UNCHANGED <<index, disk, link, batch, stat, pos, ptr, sent>>

\* storeShareContainer_, fclose.
closeContainer(t) ==
  /\ pc[t] = "close"
  /\ disk' = [disk EXCEPT ![pending[t].container] = pending[t].data]
  /\ pending' = [pending EXCEPT ![t] = NoFile]
  /\ Goto(t, "put")
  /\ UNCHANGED <<index, node, link, nextName, batch, stat, pos, ptr, sent>>

\* The new entry is put into the index, under DBLock_, without another look
\* at the index.
putEntry(t) ==
  LET b == node[ptr[t]]
  IN  /\ pc[t] = "put"
      /\ index' = [index EXCEPT ![Current(t)] =
                     [container |-> b.container, offset |-> Len(b.buf) + 1,
                      refs |-> [u \in Users |-> IF u = UserOf[t] THEN 1 ELSE 0]]]
      /\ Goto(t, "copy")
      /\ UNCHANGED <<disk, node, link, nextName, local>>

\* The bytes are copied into the buffer.
copyShare(t) ==
  /\ pc[t] = "copy"
  /\ node' = [node EXCEPT ![ptr[t]].buf = Append(@, Current(t))]
  /\ NextShare(t)
  /\ UNCHANGED <<index, disk, link, nextName, pending, sent>>

-----------------------------------------------------------------------------
Step(t) ==
  \/ intraUserIndexUpdate_(t)
  \/ disconnect(t)
  \/ findBufferNode_(t)
  \/ createBufferNode_(t)
  \/ skipShare(t)
  \/ rejectShare(t)
  \/ referenceShare(t)
  \/ missShare(t)
  \/ writeContainer(t)
  \/ renewContainer(t)
  \/ closeContainer(t)
  \/ putEntry(t)
  \/ copyShare(t)

\* All clients are gone; the server waits in runReceive.
Quiet ==
  /\ \A t \in Threads : pc[t] = "idle" /\ sent[t] = MaxPackages[t]
  /\ UNCHANGED vars

Next == (\E t \in Threads : recvMeta(t) \/ Step(t)) \/ Quiet

Spec == Init /\ [][Next]_vars

-----------------------------------------------------------------------------
(* What a restore reads, and what the server is to guarantee.              *)

Live(c) == \E n \in link : node[n].container = c

\* restoreShareFile looks for a container in the buffers first
\* (readShareContainerFromBuffer_), then on the disk.
ReadContainer(c) ==
  IF Live(c) THEN node[CHOOSE n \in link : node[n].container = c].buf
             ELSE disk[c]

\* A restore that looks the share up now gets the share's bytes.
Restorable(s) ==
  /\ index[s].offset \in DOMAIN ReadContainer(index[s].container)
  /\ ReadContainer(index[s].container)[index[s].offset] = s

\* Between the Put of an entry and the memcpy of its share.
BeingCopied(s) == \E t \in Threads : pc[t] = "copy" /\ Current(t) = s

\* Between the renewal of a buffer and the fclose of its container file.
BeingClosed(c) == \E t \in Threads : pc[t] = "close" /\ pending[t].container = c

\* Connections of one user do not overlap in time.
OneConnectionPerUser ==
  \A t1, t2 \in Threads : UserOf[t1] = UserOf[t2] => t1 = t2

\* Type correctness of the server's state (dataStruct.hh).
TypeOK ==
  /\ index \in [Shares -> Entry \cup {NoEntry}]
  /\ disk \in [Names -> Seq(Shares)]
  /\ node \in [Names -> Node]
  /\ link \in SUBSET Names
  /\ nextName \in 0 .. MaxName
  /\ pc \in [Threads -> {"idle", "first", "data", "create"} \cup HoldsNode]
  /\ batch \in [Threads -> Seq(Shares)]
  /\ stat \in [Threads -> Seq(BOOLEAN)]
  /\ pos \in [Threads -> Nat]
  /\ ptr \in [Threads -> Names]
  /\ pending \in [Threads -> File]
  /\ sent \in [Threads -> Nat]

\* Every share in the index can be restored, whatever buffers are flushed,
\* renewed or freed meanwhile; the only exceptions are the two windows of
\* the unlocked code of interUserIndexUpdate_: the entry is put before the
\* bytes are copied, and a buffer is renewed before its file is closed.
IndexedRestorable ==
  \A s \in Shares : index[s] # NoEntry =>
    Restorable(s) \/ BeingCopied(s) \/ BeingClosed(index[s].container)

\* A client may forget a share when the first stage told it not to send it,
\* or when the second stage has gone past it: the index has it from then on.
PackageIndexed ==
  \A t \in Threads : \A i \in DOMAIN batch[t] :
    (i \in DOMAIN stat[t] /\ stat[t][i]) \/ (Using(t) /\ i < pos[t])
      => index[batch[t][i]] # NoEntry

\* Whatever part of the buffers could not be written when they expired: where
\* the buffer or the file of an entry reaches the place that the entry names, it
\* has that share there, and no other.  (Past the end of a file that was cut short
\* there is nothing; a restore sends what the slot of its cache held before.)
NoForeignBytes ==
  \A s \in Shares : index[s] # NoEntry /\ index[s].offset \in DOMAIN ReadContainer(index[s].container)
    => ReadContainer(index[s].container)[index[s].offset] = s

\* Where a share is stored, as a restore sees it.
Copies(s) ==
  UNION {{<<c, i>> : i \in {j \in DOMAIN ReadContainer(c) : ReadContainer(c)[j] = s}}
         : c \in Names}

\* A container file that has been closed, and belongs to no buffer any more,
\* is never written again, and no buffer gets its name again:
\* storeShareContainer_ and flushBufferNodeIntoDisk_ open files with "wb".
ContainersWrittenOnce ==
  [][\A c \in Names :
       disk[c] # <<>> /\ ~Live(c) /\ ~BeingClosed(c)
         => disk'[c] = disk[c] /\ ~Live(c)']_vars

\* "add a new key-value entry for the share in the share index": the Put of
\* interUserIndexUpdate_ adds an entry, and a user's references stay.
EntriesOnlyAdded ==
  [][\A s \in Shares : index[s] # NoEntry =>
       /\ index'[s] # NoEntry
       /\ \A u \in Users : index'[s].refs[u] >= index[s].refs[u]]_vars

\* Every package that arrived is dealt with: no thread of the server waits
\* for ever, or loops, inside the two stages.
PackagesFinish == \A t \in Threads : pc[t] # "idle" ~> pc[t] = "idle"
===============================================================================
