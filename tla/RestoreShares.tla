----------------------------- MODULE RestoreShares -----------------------------
(***************************************************************************)
(* A download beside the uploads of ShareIndex: restoreShareFile of        *)
(* minDedupCore.cc reads a recipe and, for each share of it, looks the     *)
(* share up in the index, gets its container from a least-recently-used    *)
(* cache, from a buffer node or from the disk, and copies the share into   *)
(* the message to the client, which is sent when it is full and at the     *)
(* end.  DBLock_ is held for one step only.  bufferLock_ is held from the  *)
(* search of the nodes to the end of the memcpy, which keeps the nodes on  *)
(* their list; but a buffer is renewed and filled without that lock.       *)
(* SocketHandlerData makes one restore at a time, under its mutex, so one  *)
(* restoring thread stands for all of them.                                *)
(***************************************************************************)
EXTENDS ShareIndex, Functions

CONSTANTS
  MaxRecipe,   \* bound: shares named by a recipe
  CacheCap,    \* NUM_OF_CACHED_CONTAINERS
  MessageCap,  \* SHARE_FILE_BUFFER_SIZE, in shares
  Garbage      \* the bytes of a cache slot that was never written

ASSUME RestoreAssumption ==
  MaxRecipe \in Nat /\ CacheCap \in Nat \ {0} /\ MessageCap \in Nat \ {0}

VARIABLES
  rpc,       \* what restoreShareFile does next
  recipe,    \* the shares that the recipe file names
  entry,     \* pShareIndexValueHead: the index entry that was read
  cache,     \* shareContainerCache, most recently used first
  found,     \* targetBufferNode of readShareContainerFromBuffer_, and the length it had
  out,       \* the shares put into shareFileBuffer so far
  delivered, \* how many of them have been sent
  settled    \* history: no unlocked window of an upload met the restore

restoring == <<rpc, recipe, entry, cache, found, out, delivered, settled>>
allVars   == <<vars, restoring>>

NoNode == [node |-> 0, len |-> 0]

\* A slot of the cache holds CONTAINER_BUFFER_SIZE bytes.
Slot      == [1 .. ContainerCap -> Shares \cup {Garbage}]
CacheLine == [container : Names, slot : Slot]

RestoreInit ==
  /\ Init
  /\ rpc = "idle"
  /\ recipe = <<>>
  /\ entry = NoEntry
  /\ cache = <<>>
  /\ found = NoNode
  /\ out = <<>>
  /\ delivered = 0
  /\ settled = TRUE

\* A user whose uploads are done asks for a file of shares that it owns.
startRestore ==
  /\ rpc = "idle"
  /\ \E t \in Threads :
       /\ pc[t] = "idle"
       /\ \E k \in 1 .. MaxRecipe :
            recipe' \in [1 .. k -> {s \in Shares : Owns(UserOf[t], s)}]
  /\ rpc' = "lookup"
  /\ UNCHANGED <<vars, entry, cache, found, out, delivered, settled>>

Wanted == recipe[Len(out) + 1]

\* The index is read under DBLock_, which is released at once.
lookup ==
  /\ rpc = "lookup"
  /\ entry' = index[Wanted]
  /\ rpc' = IF index[Wanted] = NoEntry THEN "failed" ELSE "cache"
  /\ UNCHANGED <<vars, recipe, cache, found, out, delivered, settled>>

-----------------------------------------------------------------------------
(* The message to the client.                                              *)

\* The share goes from the first cache line into shareFileBuffer.
Put(line) ==
  /\ out' = Append(out, line.slot[entry.offset])
  /\ rpc' = IF Len(out) + 1 = Len(recipe) THEN "send" ELSE "lookup"

\* A message that has no room for the share is sent first.
Emit(line) ==
  IF Len(out) - delivered < MessageCap THEN Put(line) ELSE rpc' = "send" /\ UNCHANGED out

\* send returns when the client has taken the message: the share that had no
\* room follows, or the restore is done.
Taken ==
  /\ delivered' = Len(out)
  /\ IF Len(out) = Len(recipe) THEN rpc' = "done" /\ UNCHANGED out
                               ELSE Put(Head(cache))

\* send waits as long as the client does not read, and restoreShareFile
\* returns when it fails because the client has gone away.
sendMessage ==
  /\ rpc = "send"
  /\ \/ Taken
     \/ rpc' \in {"blocked", "cut"} /\ UNCHANGED <<out, delivered>>
  /\ UNCHANGED <<vars, recipe, entry, cache, found, settled>>

\* A client that had stopped reading reads on, or goes away.
clientMoves ==
  /\ rpc = "blocked"
  /\ Taken \/ (rpc' = "cut" /\ UNCHANGED <<out, delivered>>)
  /\ UNCHANGED <<vars, recipe, entry, cache, found, settled>>

-----------------------------------------------------------------------------
(* The container of the share.                                             *)

Hit(c) == \E i \in DOMAIN cache : cache[i].container = c

\* The cache without its i-th line.
Others(i) == SubSeq(cache, 1, i - 1) \o SubSeq(cache, i + 1, Len(cache))

\* The container is cached: its line moves to the front.
cacheHit ==
  /\ rpc = "cache"
  /\ \E i \in DOMAIN cache :
       /\ cache[i].container = entry.container
       /\ cache' = <<cache[i]>> \o Others(i)
       /\ Emit(cache[i])
  /\ UNCHANGED <<vars, recipe, entry, found, delivered, settled>>

\* Variant: a node of the list is taken whatever its container is.
searchBuffersAny ==
  /\ rpc = "cache"
  /\ ~Hit(entry.container)
  /\ \/ \E n \in link : found' = [NoNode EXCEPT !.node = n] /\ rpc' = "copy"
     \/ link = {} /\ rpc' = "file" /\ UNCHANGED found
  /\ UNCHANGED <<vars, recipe, entry, cache, out, delivered, settled>>

\* readShareContainerFromBuffer_ takes bufferLock_ and compares the names.
searchBuffers ==
  /\ rpc = "cache"
  /\ ~Hit(entry.container)
  /\ \/ \E n \in link : /\ node[n].container = entry.container
                        /\ found' = [NoNode EXCEPT !.node = n] /\ rpc' = "copy"
     \/ ~Live(entry.container) /\ rpc' = "file" /\ UNCHANGED found
  /\ UNCHANGED <<vars, recipe, entry, cache, out, delivered, settled>>

\* The line takes the first place, over the one that was used least recently.
Evict(line) ==
  <<line>> \o SubSeq(cache, 1, IF Len(cache) < CacheCap THEN Len(cache) ELSE CacheCap - 1)

\* The bytes of a container are read into a new slot, or over the beginning
\* of the slot of the line that is evicted; the rest of the slot stays.
LineOf(bytes) ==
  LET old == IF Len(cache) < CacheCap THEN [i \in 1 .. ContainerCap |-> Garbage]
                                      ELSE cache[CacheCap].slot
  IN  [container |-> entry.container,
       slot |-> [i \in 1 .. ContainerCap |-> IF i \in DOMAIN bytes THEN bytes[i] ELSE old[i]]]

\* A share of the recipe has its entry in the container, and its bytes are
\* still on their way there.
Awaited(c) == \E s \in Range(recipe) : index[s].container = c /\ BeingCopied(s)

\* The memcpy reads shareContainerBufferCurrLen and begins.  The node may have
\* been renewed since it was found, and have another container by now.
memcpyBegins ==
  LET bytes == node[found.node].buf
  IN  /\ rpc = "copy"
      /\ cache' = Evict(LineOf(bytes))
      /\ found' = [found EXCEPT !.len = Len(bytes)]
      /\ rpc' = "copying"
      /\ settled' = (settled /\ ~Awaited(entry.container))
      /\ UNCHANGED <<vars, recipe, entry, out, delivered>>

\* The memcpy is done and bufferLock_ is released.
memcpyEnds ==
  /\ rpc = "copying"
  /\ Emit(Head(cache))
  /\ found' = NoNode
  /\ UNCHANGED <<vars, recipe, entry, cache, delivered, settled>>

\* It is in no buffer: the container file is opened and read.  A file that is
\* not there, or empty, ends the restore.
readContainerFile ==
  /\ rpc = "file"
  /\ IF disk[entry.container] = <<>>
     THEN rpc' = "failed" /\ UNCHANGED <<cache, out>>
     ELSE LET line == LineOf(disk[entry.container])
          IN  cache' = Evict(line) /\ Emit(line)
  /\ settled' = (settled /\ ~BeingClosed(entry.container))
  /\ UNCHANGED <<vars, recipe, entry, found, delivered>>

RestoreStep ==
  \/ lookup \/ cacheHit \/ searchBuffers \/ memcpyBegins \/ memcpyEnds
  \/ readContainerFile \/ sendMessage

-----------------------------------------------------------------------------
(* The uploads beside the restore.                                         *)

HoldsBufferLock == rpc \in {"copy", "copying"}

\* An upload that had missed a share of the recipe puts a second entry for it.
Moved ==
  \E s \in Range(recipe) : \/ index'[s].container # index[s].container
                           \/ index'[s].offset # index[s].offset

\* storeShareContainer_ renews the buffer that the restore is copying.
Renewed ==
  HoldsBufferLock /\ node'[found.node].container # node[found.node].container

\* A share that goes into a renewed buffer while the memcpy still reads the old
\* ones: the line gets the old share, the new one or a mixture of their bytes.
Overwritten ==
  LET l == Head(cache)
      b == node'[found.node].buf
  IN  IF rpc = "copying" /\ b # node[found.node].buf /\ Len(b) \in 1 .. found.len
      THEN \E x \in {l.slot[Len(b)], b[Len(b)], Garbage} :
             cache' = [cache EXCEPT ![1].slot[Len(b)] = x]
      ELSE UNCHANGED cache

\* What a step of an upload does to the restore; and findOrCreateBufferNode_
\* needs bufferLock_ to walk the list and to add to it.
Watched(t) ==
  /\ HoldsBufferLock => ~findBufferNode_(t) /\ ~createBufferNode_(t)
  /\ settled' = (settled /\ ~Moved /\ ~Renewed)
  /\ Overwritten
  /\ UNCHANGED <<rpc, recipe, entry, found, out, delivered>>

RestoreNext ==
  \/ startRestore \/ RestoreStep \/ clientMoves
  \/ \E t \in Threads : (recvMeta(t) \/ Step(t)) /\ Watched(t)
  \/ Quiet /\ UNCHANGED restoring

RestoreSpec == RestoreInit /\ [][RestoreNext]_allVars

\* Every thread of the server that can take a step is scheduled; nothing is
\* assumed of the clients.
FairRestoreSpec ==
  /\ RestoreSpec
  /\ WF_allVars(RestoreStep)
  /\ \A t \in Threads : WF_allVars(Step(t) /\ Watched(t))

-----------------------------------------------------------------------------
\* Types of the restoring thread's state.
RestoreTypeOK ==
  /\ rpc \in {"idle", "lookup", "cache", "copy", "copying", "file",
             "send", "blocked", "cut", "failed", "done"}
  /\ recipe \in Seq(Shares)
  /\ entry \in Entry \cup {NoEntry}
  /\ cache \in Seq(CacheLine) /\ Len(cache) <= CacheCap
  /\ found \in [node : Names, len : 0 .. ContainerCap]
  /\ out \in Seq(Shares \cup {Garbage})
  /\ delivered \in 0 .. Len(out) /\ Len(out) - delivered <= MessageCap

\* Whatever is uploaded, renewed, flushed or freed between its steps: a restore
\* sends exactly the shares of its recipe, in order and to the last, from
\* whichever of cache, buffer and file it reads them.  It is let off in four
\* windows only, all of them of code that an upload runs without bufferLock_:
\* a share of the recipe that is not yet copied into the buffer that the restore
\* reads, a buffer that is renewed between strcmp and the end of the memcpy, a
\* container file that is read between the renewal and the fclose, and an entry
\* of the recipe that a racing upload replaces.
SettledRestoreExact ==
  settled => /\ rpc # "failed"
             /\ \A i \in DOMAIN out : out[i] = recipe[i]
             /\ rpc = "done" => Len(out) = Len(recipe) /\ delivered = Len(out)

\* Every handler ends: a package that arrived is dealt with, and a restore that
\* has begun goes on until it is done, unless its client goes away or stops
\* reading, which blocks it in send (with the server's mutex held); it fails
\* only in one of the windows above.
HandlersEnd ==
  /\ PackagesFinish
  /\ rpc = "lookup" ~> \/ rpc \in {"done", "cut", "blocked"}
                       \/ rpc = "failed" /\ ~settled

================================================================================
