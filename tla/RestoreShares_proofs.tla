-------------------------- MODULE RestoreShares_proofs --------------------------
(***************************************************************************)
(* A restore beside the uploads: the shares of its recipe stay where their *)
(* entries say, and every cache line shows them there, so that whichever   *)
(* of cache, buffer and file it reads a share from, it sends that share.   *)
(***************************************************************************)
EXTENDS RestoreShares, ShareStore_proofs

\* A step that names no prover is for Zenon, then for the SMT solver, with time to
\* spare.
USE ZenonT(30), SMTT(60)

\* No buffer and no file is larger than a container; a thread that puts an
\* entry has room for the share, and one that closes a file an empty buffer.
Room(t) ==
  /\ pc[t] = "close" => node[ptr[t]].buf = <<>> /\ Len(pending[t].data) <= ContainerCap
  /\ pc[t] \in {"put", "copy"} => Len(node[ptr[t]].buf) < ContainerCap
WithinCap ==
  /\ \A c \in Names : Len(disk[c]) <= ContainerCap
  /\ \A n \in link : Len(node[n].buf) <= ContainerCap
  /\ \A t \in Threads : Room(t)

\* A cache line for the container of a share shows it where its entry says.
Shows(line, s) ==
  line.container = index[s].container => line.slot[index[s].offset] = s

\* What has been put into messages is the beginning of the recipe, and all of
\* it has been sent when the restore is done.
SentPrefix ==
  /\ recipe \in Seq(Shares) /\ out \in Seq(Shares)
  /\ Len(out) <= Len(recipe)
  /\ rpc \notin {"send", "blocked", "cut", "done"} => Len(out) < Len(recipe)
  /\ rpc = "done" => Len(out) = Len(recipe) /\ delivered = Len(out)
  /\ \A i \in DOMAIN out : out[i] = recipe[i]

\* Every cache line is whole, and shows the shares of the recipe.
CacheShows ==
  /\ cache \in Seq(CacheLine)
  /\ \A k \in DOMAIN cache : \A s \in Range(recipe) : Shows(cache[k], s)

\* A share waits for the message that has no room for it to be sent.
Waiting == rpc \in {"send", "blocked"} /\ Len(out) < Len(recipe)

\* The container of the entry is in the first cache line.
Front == cache # <<>> /\ Head(cache).container = entry.container

\* The entry that was read is the one that the index has, and the container
\* is where the restore is going to take it from.
EntryCurrent ==
  /\ rpc \in {"cache", "copy", "copying", "file"} \/ Waiting =>
       entry.container = index[Wanted].container /\ entry.offset = index[Wanted].offset
  /\ HoldsBufferLock => found.node \in link /\ node[found.node].container = entry.container
  /\ rpc = "copying" => found.len <= Len(node[found.node].buf)
  /\ rpc = "copying" \/ Waiting => Front
  /\ rpc = "file" => ~Live(entry.container)

OnCourse ==
  /\ rpc \in {"lookup", "cache", "copy", "copying", "file", "send", "blocked", "cut", "done"}
  /\ SentPrefix
  /\ \A s \in Range(recipe) : index[s] # NoEntry
  /\ CacheShows
  /\ EntryCurrent

RestoreInv ==
  /\ found \in [node : Names, len : Nat]
  /\ rpc = "idle" => out = <<>> /\ cache = <<>>
  /\ settled /\ rpc # "idle" => OnCourse

-----------------------------------------------------------------------------
(* No buffer overflows.                                                    *)

LEMMA StepRoom ==
  ASSUME TypeInv, NodesInv, WithinCap, NEW t \in Threads, recvMeta(t) \/ Step(t)
  PROVE  Room(t)'
<1> DEFINE b == node[ptr[t]].buf
<1>1. pc \in [Threads -> {"idle", "first", "data", "create"} \cup HoldsNode]
  BY DEF TypeInv, TypeOK
<1>2. ptr[t] \in Names /\ node[ptr[t]] \in Node /\ b \in Seq(Shares) /\ Len(b) \in Nat
  BY SMTT(60) DEF TypeInv, TypeOK, Node
<1>3. ContainerCap \in Nat \ {0}
  BY ConstantsAssumption
<1>4. ASSUME pc'[t] \notin {"close", "put", "copy"} PROVE Room(t)'
  BY <1>4 DEF Room
<1>5. ASSUME NextShare(t) PROVE pc'[t] \notin {"close", "put", "copy"}
  BY <1>1, <1>5 DEF NextShare, Return, Goto
<1>6. ASSUME Return(t) PROVE pc'[t] \notin {"close", "put", "copy"}
  BY <1>1, <1>6 DEF Return, Goto
<1>7. CASE recvMeta(t) \/ intraUserIndexUpdate_(t) \/ findBufferNode_(t) \/ createBufferNode_(t)
  BY <1>1, <1>4, <1>7 DEF recvMeta, intraUserIndexUpdate_, findBufferNode_, createBufferNode_, Goto
<1>8. CASE disconnect(t) \/ rejectShare(t) \/ skipShare(t) \/ referenceShare(t) \/ copyShare(t)
  BY <1>4, <1>5, <1>6, <1>8
     DEF disconnect, rejectShare, skipShare, referenceShare, copyShare
<1>9. CASE writeContainer(t)
  <2>1. Goto(t, "renew") \/ Return(t)
    BY <1>9 DEF writeContainer
  <2>2. pc'[t] \notin {"close", "put", "copy"}
    BY <1>1, <1>6, <2>1 DEF Goto
  <2> QED
    BY <1>4, <2>2
<1>10. CASE missShare(t)
  <2>1. /\ pc'[t] = (IF Len(b) + 1 > ContainerCap THEN "store" ELSE "put")
        /\ node' = node /\ ptr' = ptr
    BY <1>1, <1>10 DEF missShare, Goto, store, local
  <2> QED
    BY <1>2, <1>3, <2>1 DEF Room
<1>11. CASE renewContainer(t)
  <2>1. /\ pc'[t] = "close" /\ ptr' = ptr
        /\ pending'[t].data = b
        /\ node'[ptr[t]].buf = <<>>
    BY <1>1, <1>2, <1>11 DEF renewContainer, Goto, TypeInv, TypeOK, Node
  <2>2. Len(b) <= ContainerCap
    BY <1>11 DEF renewContainer, NodesInv, HoldsOwnNode, Using, HoldsNode, WithinCap
  <2> QED
    BY <2>1, <2>2 DEF Room
<1>12. CASE closeContainer(t)
  <2>1. pc[t] = "close" /\ pc'[t] = "put" /\ node' = node /\ ptr' = ptr
    BY <1>1, <1>12 DEF closeContainer, Goto
  <2>2. b = <<>>
    BY <2>1 DEF WithinCap, Room
  <2> QED
    BY <1>3, <2>1, <2>2 DEF Room
<1>13. CASE putEntry(t)
  <2>1. pc[t] = "put" /\ pc'[t] = "copy" /\ node' = node /\ ptr' = ptr
    BY <1>1, <1>13 DEF putEntry, Goto, local
  <2> QED
    BY <2>1 DEF WithinCap, Room
<1> QED
  BY <1>7, <1>8, <1>9, <1>10, <1>11, <1>12, <1>13 DEF Step

LEMMA StepWithin ==
  ASSUME TypeInv, NodesInv, NodeOfItsOwn, WithinCap, [Next]_vars
  PROVE  WithinCap'
<1>1. ASSUME NEW t \in Threads, recvMeta(t) \/ Step(t)
      PROVE  WithinCap'
  <2>1. ASSUME NEW c \in Names PROVE Len(disk'[c]) <= ContainerCap
    <3>1. CASE disk'[c] = disk[c]
      BY <3>1 DEF WithinCap
    <3>2. CASE \E n \in link : /\ node[n].container = c
                               /\ \E k \in 0 .. Len(node[n].buf) :
                                    disk'[c] = SubSeq(node[n].buf, 1, k)
      <4>1. PICK n \in link : \E k \in 0 .. Len(node[n].buf) : disk'[c] = SubSeq(node[n].buf, 1, k)
        BY <3>2
      <4>2. PICK k \in 0 .. Len(node[n].buf) : disk'[c] = SubSeq(node[n].buf, 1, k)
        BY <4>1
      <4>3. node[n].buf \in Seq(Shares) /\ Len(node[n].buf) <= ContainerCap
        BY DEF TypeInv, TypeOK, Node, WithinCap
      <4>4. Len(disk'[c]) = k
        BY <4>2, <4>3
      <4> QED
        BY <4>2, <4>3, <4>4, ConstantsAssumption, SMTT(60)
    <3>3. CASE pc[t] = "close" /\ disk'[c] = pending[t].data
      BY <3>3 DEF WithinCap, Room
    <3> QED
      BY <1>1, <3>1, <3>2, <3>3, WrittenFiles
  <2>2. ASSUME NEW n \in link' PROVE Len(node'[n].buf) <= ContainerCap
    <3>1. CASE n \in link /\ node'[n].buf = node[n].buf
      BY <3>1 DEF WithinCap
    <3>2. CASE copyShare(t) /\ n = ptr[t] /\ node'[n].buf = Append(node[n].buf, Current(t))
      <4>1. pc[t] = "copy" /\ Current(t) \in Shares /\ node[n].buf \in Seq(Shares)
        BY <3>2, CurrentType DEF copyShare, Current, TypeInv, TypeOK, Node
      <4>2. Len(node[n].buf) < ContainerCap
        BY <3>2, <4>1 DEF WithinCap, Room
      <4>3. Len(node'[n].buf) = Len(node[n].buf) + 1 /\ Len(node[n].buf) \in Nat
        BY <3>2, <4>1, SeqAppend, SMTT(60)
      <4> QED
        BY <4>2, <4>3, ConstantsAssumption, SMTT(60)
    <3>3. CASE node'[n].buf = <<>>
      BY <3>3, ConstantsAssumption
    <3> QED
      BY <1>1, <2>2, <3>1, <3>2, <3>3, LinkedContainers
  <2>3. ASSUME NEW t2 \in Threads PROVE Room(t2)'
    <3>1. CASE t2 = t
      BY <1>1, <3>1, StepRoom
    <3>2. CASE t2 # t
      <4>1. pc'[t2] = pc[t2] /\ ptr'[t2] = ptr[t2] /\ pending'[t2] = pending[t2]
        BY <1>1, <3>2, StepLeavesOthers DEF OthersStay
      <4>2. ASSUME Using(t2) PROVE node'[ptr[t2]] = node[ptr[t2]]
        BY <1>1, <3>2, <4>2, NodeStays
      <4>3. Room(t2)
        BY DEF WithinCap
      <4> QED
        BY <4>1, <4>2, <4>3 DEF Room, Using, HoldsNode
    <3> QED
      BY <3>1, <3>2
  <2> QED
    BY <2>1, <2>2, <2>3 DEF WithinCap
<1>2. CASE UNCHANGED vars
  BY <1>2 DEF vars, WithinCap, Room
<1> QED
  BY <1>1, <1>2 DEF Next, Quiet

-----------------------------------------------------------------------------
(* The cache and the message to the client.                                *)

\* Every line of a list was a line of the cache, or is the new one.
LinesFrom(list, line) ==
  /\ list \in Seq(CacheLine)
  /\ \A k \in DOMAIN list : list[k] = line \/ \E j \in DOMAIN cache : list[k] = cache[j]

LEMMA PartOfCache ==
  ASSUME cache \in Seq(CacheLine), NEW m \in Nat \ {0}, NEW n \in Nat, n <= Len(cache), NEW line
  PROVE  LinesFrom(SubSeq(cache, m, n), line)
<1> DEFINE part == SubSeq(cache, m, n)
<1>1. Len(cache) \in Nat /\ DOMAIN cache = 1 .. Len(cache) /\ \A i \in 1 .. Len(cache) : cache[i] \in CacheLine
  BY SeqItem, SeqLen
<1>2. \A i \in m .. n : i \in DOMAIN cache /\ cache[i] \in CacheLine
  BY <1>1
<1>3. /\ part \in Seq(CacheLine)
      /\ Len(part) = IF m <= n THEN n - m + 1 ELSE 0
      /\ \A i \in 1 .. n - m + 1 : part[i] = cache[m + i - 1]
  BY <1>2, SeqPart, SMTT(60)
<1> HIDE DEF part
<1>4. ASSUME NEW k \in DOMAIN part PROVE \E j \in DOMAIN cache : part[k] = cache[j]
  <2>1. DOMAIN part = 1 .. Len(part) /\ Len(part) \in Nat
    BY <1>3, SeqLen
  <2>2. k \in 1 .. n - m + 1 /\ m + k - 1 \in m .. n
    BY <1>3, <1>4, <2>1
  <2>3. part[k] = cache[m + k - 1] /\ m + k - 1 \in DOMAIN cache
    BY <1>2, <1>3, <2>2
  <2> QED
    BY <2>3
<1> QED
  BY <1>3, <1>4 DEF part, LinesFrom

\* Lines put together from lines of the cache.
LEMMA JoinedLines ==
  ASSUME NEW line \in CacheLine, NEW a, NEW b, LinesFrom(a, line), LinesFrom(b, line)
  PROVE  LinesFrom(a \o b, line)
<1>1. a \in Seq(CacheLine) /\ b \in Seq(CacheLine)
  BY DEF LinesFrom
<1>2. Len(a) \in Nat /\ DOMAIN a = 1 .. Len(a) /\ Len(b) \in Nat /\ DOMAIN b = 1 .. Len(b)
  BY <1>1, SeqLen
<1>3. /\ a \o b \in Seq(CacheLine)
      /\ Len(a \o b) = Len(a) + Len(b)
      /\ \A i \in 1 .. Len(a) + Len(b) : (a \o b)[i] = IF i <= Len(a) THEN a[i] ELSE b[i - Len(a)]
  BY <1>1, SeqConcat
<1>4. DOMAIN (a \o b) = 1 .. Len(a) + Len(b)
  BY <1>3, SeqLen
<1>5. ASSUME NEW k \in DOMAIN (a \o b)
      PROVE  (a \o b)[k] = line \/ \E j \in DOMAIN cache : (a \o b)[k] = cache[j]
  <2>1. CASE k <= Len(a)
    <3>1. k \in DOMAIN a /\ (a \o b)[k] = a[k]
      BY <1>2, <1>3, <1>4, <1>5, <2>1, SMTT(60)
    <3> QED
      BY <3>1 DEF LinesFrom
  <2>2. CASE ~(k <= Len(a))
    <3>1. k - Len(a) \in DOMAIN b /\ (a \o b)[k] = b[k - Len(a)]
      BY <1>2, <1>3, <1>4, <1>5, <2>2, SMTT(60)
    <3> QED
      BY <3>1 DEF LinesFrom
  <2> QED
    BY <2>1, <2>2
<1> QED
  BY <1>3, <1>5 DEF LinesFrom

LEMMA OneLine ==
  ASSUME NEW line \in CacheLine
  PROVE  LinesFrom(<<line>>, line)
BY DEF LinesFrom

LEMMA FirstLine ==
  ASSUME NEW line \in CacheLine, NEW rest \in Seq(CacheLine)
  PROVE  <<line>> \o rest # <<>> /\ Head(<<line>> \o rest) = line
<1>1. <<line>> \in Seq(CacheLine) /\ Len(<<line>>) = 1 /\ <<line>>[1] = line
  OBVIOUS
<1>2. PICK list : list = <<line>> \o rest
  OBVIOUS
<1>3. list \in Seq(CacheLine) /\ Len(list) = 1 + Len(rest) /\ Len(rest) \in Nat
  BY <1>1, <1>2, SeqConcat, SeqLen, SMTT(60)
<1>4. list[1] = line
  <2>1. 1 \in 1 .. Len(<<line>>) + Len(rest)
    BY <1>1, <1>3
  <2> QED
    BY <1>1, <1>2, <2>1, SeqConcat, SMTT(60)
<1> QED
  BY <1>2, <1>3, <1>4

\* A line that is used again moves to the front and nothing else comes in.
LEMMA HitLines ==
  ASSUME cache \in Seq(CacheLine), NEW i \in DOMAIN cache
  PROVE  /\ LinesFrom(<<cache[i]>> \o Others(i), cache[i])
         /\ <<cache[i]>> \o Others(i) # <<>> /\ Head(<<cache[i]>> \o Others(i)) = cache[i]
<1>1. Len(cache) \in Nat /\ i \in 1 .. Len(cache) /\ cache[i] \in CacheLine
  BY SeqItem, SeqLen
<1>2. PICK line \in CacheLine : line = cache[i]
  BY <1>1
<1> DEFINE before == SubSeq(cache, 1, i - 1)
           after  == SubSeq(cache, i + 1, Len(cache))
<1>4. LinesFrom(before, line)
  <2>1. i - 1 \in Nat /\ i - 1 <= Len(cache) /\ 1 \in Nat \ {0}
    BY <1>1
  <2> QED
    BY <2>1, PartOfCache
<1>5. LinesFrom(after, line)
  <2>1. i + 1 \in Nat \ {0} /\ Len(cache) <= Len(cache)
    BY <1>1
  <2> QED
    BY <1>1, <2>1, PartOfCache
<1> HIDE DEF before, after
<1>6. LinesFrom(before \o after, line)
  BY <1>4, <1>5, JoinedLines
<1>7. LinesFrom(<<line>>, line)
  BY OneLine
<1>8. LinesFrom(<<line>> \o (before \o after), line)
  BY <1>6, <1>7, JoinedLines
<1>9. <<line>> \o (before \o after) # <<>> /\ Head(<<line>> \o (before \o after)) = line
  BY <1>6, FirstLine DEF LinesFrom
<1> QED
  BY <1>2, <1>8, <1>9 DEF Others, before, after

\* A new line takes the place of an old one.
LEMMA EvictLines ==
  ASSUME cache \in Seq(CacheLine), NEW line \in CacheLine
  PROVE  LinesFrom(Evict(line), line) /\ Evict(line) # <<>> /\ Head(Evict(line)) = line
<1>1. Len(cache) \in Nat /\ CacheCap - 1 \in Nat
  BY RestoreAssumption, SeqLen, SMTT(60)
<1>2. PICK n \in Nat : /\ n = IF Len(cache) < CacheCap THEN Len(cache) ELSE CacheCap - 1
                       /\ n <= Len(cache)
  BY <1>1, RestoreAssumption
<1>3. LinesFrom(SubSeq(cache, 1, n), line)
  <2>1. 1 \in Nat \ {0}
    OBVIOUS
  <2> QED
    BY <1>2, <2>1, PartOfCache
<1>4. LinesFrom(<<line>>, line)
  BY OneLine
<1>5. LinesFrom(<<line>> \o SubSeq(cache, 1, n), line)
  BY <1>3, <1>4, JoinedLines
<1>6. /\ <<line>> \o SubSeq(cache, 1, n) # <<>>
      /\ Head(<<line>> \o SubSeq(cache, 1, n)) = line
  BY <1>3, FirstLine DEF LinesFrom
<1> QED
  BY <1>2, <1>5, <1>6 DEF Evict

\* The share that is wanted is one of the recipe.
LEMMA WantedShare ==
  ASSUME SentPrefix, Len(out) < Len(recipe)
  PROVE  /\ Len(out) + 1 \in DOMAIN recipe
         /\ Wanted \in Shares
         /\ Wanted \in Range(recipe)
<1>1. Len(out) \in Nat /\ Len(recipe) \in Nat /\ DOMAIN recipe = 1 .. Len(recipe)
  BY SeqLen DEF SentPrefix
<1>2. Len(out) + 1 \in 1 .. Len(recipe)
  BY <1>1
<1>3. Wanted \in Shares
  BY <1>2, SeqItem DEF Wanted, SentPrefix
<1> QED
  BY <1>1, <1>2, <1>3 DEF Wanted, Range

LEMMA RecipeShares ==
  ASSUME recipe \in Seq(Shares), NEW s \in Range(recipe)
  PROVE  s \in Shares
<1>1. PICK i \in DOMAIN recipe : s = recipe[i]
  BY DEF Range
<1>2. i \in 1 .. Len(recipe)
  BY SeqLen
<1> QED
  BY <1>1, <1>2, SeqItem

\* The wanted share is put into the message, and the next one is wanted.
LEMMA PutNext ==
  ASSUME SentPrefix, Len(out) < Len(recipe), NEW line, Put(line),
         line.slot[entry.offset] = Wanted, recipe' = recipe
  PROVE  SentPrefix' /\ rpc' \in {"lookup", "send"} /\ ~Waiting'
<1>1. out \in Seq(Shares) /\ recipe \in Seq(Shares) /\ Wanted \in Shares
  BY WantedShare DEF SentPrefix
<1>2. Len(out) \in Nat /\ Len(recipe) \in Nat /\ DOMAIN out = 1 .. Len(out)
  BY <1>1, SeqLen
<1>3. out' = Append(out, Wanted)
  BY DEF Put
<1>4. /\ out' \in Seq(Shares)
      /\ Len(out') = Len(out) + 1
      /\ \A i \in 1 .. Len(out) : out'[i] = out[i]
      /\ out'[Len(out) + 1] = Wanted
  BY <1>1, <1>3, SeqAppend, SMTT(60)
<1>5. rpc' = IF Len(out) + 1 = Len(recipe) THEN "send" ELSE "lookup"
  BY DEF Put
<1>6. Len(out') <= Len(recipe') /\ (rpc' # "send" => Len(out') < Len(recipe'))
  BY <1>2, <1>4, <1>5, SMTT(60)
<1>7. ASSUME NEW i \in DOMAIN out' PROVE out'[i] = recipe'[i]
  <2>1. i \in 1 .. Len(out) + 1
    BY <1>4, <1>7, SeqLen
  <2>2. CASE i = Len(out) + 1
    BY <1>4, <2>2 DEF Wanted
  <2>3. CASE i \in 1 .. Len(out)
    BY <1>2, <1>4, <2>3 DEF SentPrefix
  <2> QED
    BY <1>2, <2>1, <2>2, <2>3
<1>8. ~(rpc' = "send" /\ Len(out') < Len(recipe'))
  BY <1>2, <1>4, <1>5, SMTT(60)
<1>9. rpc' \in {"lookup", "send"} /\ recipe' \in Seq(Shares)
  BY <1>1, <1>5
<1>10. SentPrefix'
  BY <1>4, <1>6, <1>7, <1>9 DEF SentPrefix
<1> QED
  BY <1>8, <1>9, <1>10 DEF Waiting

\* Lines that show the shares of the recipe are all that a step keeps.
LEMMA CacheStays ==
  ASSUME CacheShows, UNCHANGED <<vars, recipe>>, NEW line, LinesFrom(cache', line),
         \A s \in Range(recipe) : Shows(line, s)
  PROVE  CacheShows'
<1>1. index' = index
  BY DEF vars
<1>2. ASSUME NEW k \in DOMAIN cache', NEW s \in Range(recipe)
      PROVE  Shows(cache'[k], s)
  BY <1>2 DEF LinesFrom, CacheShows
<1>3. ASSUME NEW k \in DOMAIN cache', NEW s \in Range(recipe')
      PROVE  cache'[k].container = index'[s].container => cache'[k].slot[index'[s].offset] = s
  BY <1>1, <1>2, <1>3 DEF Shows
<1> QED
  BY <1>3 DEF CacheShows, Shows, LinesFrom

\* The entry that was read names a container and a position.
LEMMA EntryRead ==
  ASSUME TypeInv, OnCourse, rpc \in {"cache", "copy", "copying", "file"} \/ Waiting
  PROVE  /\ entry.container \in Names /\ entry.offset \in Nat
         /\ entry.container = index[Wanted].container
         /\ entry.offset = index[Wanted].offset
         /\ Wanted \in Range(recipe) /\ Wanted \in Shares
         /\ Len(out) < Len(recipe)
<1>1. Len(out) < Len(recipe)
  BY DEF OnCourse, SentPrefix, Waiting
<1>2. Wanted \in Range(recipe) /\ Wanted \in Shares
  BY <1>1, WantedShare DEF OnCourse
<1>3. index[Wanted] \in Entry
  BY <1>2 DEF OnCourse, TypeInv, TypeOK
<1>4. entry.container = index[Wanted].container /\ entry.offset = index[Wanted].offset
  BY DEF OnCourse, EntryCurrent
<1> QED
  BY <1>1, <1>2, <1>3, <1>4 DEF Entry

\* The wanted share goes from a line into the message, or waits for the message
\* to be sent, with its container in front.
LEMMA EmitStays ==
  ASSUME TypeInv, OnCourse, rpc \in {"cache", "copying", "file"},
         UNCHANGED <<vars, recipe, entry, delivered>>,
         NEW line, Emit(line), line.slot[entry.offset] = Wanted, CacheShows', Front'
  PROVE  OnCourse'
<1>1. SentPrefix /\ Len(out) < Len(recipe)
  BY EntryRead DEF OnCourse
<1>2. \A s \in Range(recipe') : index'[s] # NoEntry
  BY DEF OnCourse, vars
<1>3. CASE Put(line)
  <2>1. SentPrefix' /\ rpc' \in {"lookup", "send"} /\ ~Waiting'
    BY <1>1, <1>3, PutNext
  <2>2. EntryCurrent'
    BY <2>1 DEF EntryCurrent, HoldsBufferLock
  <2> QED
    BY <1>2, <2>1, <2>2 DEF OnCourse
<1>4. CASE rpc' = "send" /\ UNCHANGED out
  <2>1. SentPrefix'
    BY <1>1, <1>4 DEF SentPrefix
  <2>2. Wanted' = Wanted /\ index' = index
    BY <1>4 DEF Wanted, vars
  <2>3. EntryCurrent'
    BY <1>4, <2>2, EntryRead DEF EntryCurrent, HoldsBufferLock
  <2> QED
    BY <1>2, <1>4, <2>1, <2>3 DEF OnCourse
<1> QED
  BY <1>3, <1>4 DEF Emit

\* Bytes that have the shares of the recipe where their entries say make a
\* line that shows them.
LEMMA LineShows ==
  ASSUME TypeInv, OnCourse, rpc \in {"copy", "file"},
         NEW bytes \in Seq(Shares), Len(bytes) <= ContainerCap,
         \A s \in Range(recipe) : index[s].container = entry.container =>
           index[s].offset \in DOMAIN bytes /\ bytes[index[s].offset] = s
  PROVE  /\ LineOf(bytes) \in CacheLine
         /\ LineOf(bytes).container = entry.container
         /\ LineOf(bytes).slot[entry.offset] = Wanted
         /\ \A s \in Range(recipe) : Shows(LineOf(bytes), s)
<1> DEFINE old  == IF Len(cache) < CacheCap THEN [i \in 1 .. ContainerCap |-> Garbage]
                                            ELSE cache[CacheCap].slot
           slot == [i \in 1 .. ContainerCap |-> IF i \in DOMAIN bytes THEN bytes[i] ELSE old[i]]
           line == [container |-> entry.container, slot |-> slot]
<1>1. LineOf(bytes) = line
  BY DEF LineOf
<1>2. ContainerCap \in Nat /\ CacheCap \in Nat \ {0}
  BY ConstantsAssumption, RestoreAssumption
<1>3. old \in Slot
  <2>1. CASE Len(cache) < CacheCap
    BY <2>1 DEF Slot
  <2>2. CASE ~(Len(cache) < CacheCap)
    <3>1. cache \in Seq(CacheLine) /\ Len(cache) \in Nat
      BY SeqLen DEF OnCourse, CacheShows
    <3>2. CacheCap \in 1 .. Len(cache)
      BY <1>2, <2>2, <3>1, SMTT(60)
    <3>3. cache[CacheCap] \in CacheLine
      BY <3>1, <3>2, SeqItem
    <3> QED
      BY <2>2, <3>3 DEF CacheLine
  <2> QED
    BY <2>1, <2>2
<1>4. Len(bytes) \in Nat /\ DOMAIN bytes = 1 .. Len(bytes)
      /\ \A i \in 1 .. Len(bytes) : bytes[i] \in Shares
  BY SeqLen, SeqItem
<1> HIDE DEF old
<1>5. slot \in Slot
  BY <1>3, <1>4 DEF Slot
<1>6. \A i \in DOMAIN bytes : slot[i] = bytes[i]
  BY <1>2, <1>4, SMTT(60)
<1> HIDE DEF slot
<1>7. entry.container \in Names /\ entry.container = index[Wanted].container
      /\ entry.offset = index[Wanted].offset /\ Wanted \in Range(recipe)
  BY EntryRead
<1>8. line \in CacheLine /\ line.container = entry.container /\ line.slot = slot
  BY <1>5, <1>7 DEF CacheLine
<1> HIDE DEF line
<1>9. ASSUME NEW s \in Range(recipe) PROVE Shows(line, s)
  BY <1>6, <1>8, <1>9 DEF Shows
<1>10. line.slot[entry.offset] = Wanted
  BY <1>7, <1>8, <1>9 DEF Shows
<1> QED
  BY <1>1, <1>8, <1>9, <1>10

\* Such a line comes into the cache.
LEMMA FillShows ==
  ASSUME OnCourse, UNCHANGED <<vars, recipe, entry>>, NEW line \in CacheLine,
         line.container = entry.container, \A s \in Range(recipe) : Shows(line, s),
         cache' = Evict(line)
  PROVE  CacheShows' /\ Front'
<1>1. CacheShows /\ cache \in Seq(CacheLine)
  BY DEF OnCourse, CacheShows
<1>2. LinesFrom(cache', line) /\ cache' # <<>> /\ Head(cache') = line
  BY <1>1, EvictLines
<1>3. CacheShows'
  BY <1>1, <1>2, CacheStays
<1> QED
  BY <1>2, <1>3 DEF Front

\* The container is cached.
LEMMA HitSends ==
  ASSUME TypeInv, OnCourse, cacheHit
  PROVE  OnCourse'
<1>1. rpc = "cache" /\ UNCHANGED <<vars, recipe, entry, delivered>>
  BY DEF cacheHit
<1>2. PICK i \in DOMAIN cache : /\ cache[i].container = entry.container
                                /\ cache' = <<cache[i]>> \o Others(i)
                                /\ Emit(cache[i])
  BY DEF cacheHit
<1>3. CacheShows /\ cache \in Seq(CacheLine)
  BY DEF OnCourse, CacheShows
<1>4. \A s \in Range(recipe) : Shows(cache[i], s)
  BY <1>3 DEF CacheShows
<1>5. cache[i].slot[entry.offset] = Wanted
  BY <1>1, <1>2, <1>4, EntryRead DEF Shows
<1>6. LinesFrom(cache', cache[i]) /\ cache' # <<>> /\ Head(cache') = cache[i]
  BY <1>2, <1>3, HitLines
<1>7. CacheShows'
  BY <1>1, <1>3, <1>4, <1>6, CacheStays
<1>8. Front'
  BY <1>1, <1>2, <1>6 DEF Front
<1> QED
  BY <1>1, <1>2, <1>5, <1>7, <1>8, EmitStays

\* The index is read: it has the wanted share.
LEMMA LookupStays ==
  ASSUME TypeInv, OnCourse, lookup
  PROVE  OnCourse'
<1>1. /\ rpc = "lookup" /\ entry' = index[Wanted]
      /\ rpc' = (IF index[Wanted] = NoEntry THEN "failed" ELSE "cache")
      /\ UNCHANGED vars /\ UNCHANGED <<recipe, cache, out>>
  BY DEF lookup
<1>2. SentPrefix /\ Len(out) < Len(recipe)
  BY <1>1 DEF OnCourse, SentPrefix
<1>3. index[Wanted] # NoEntry
  BY <1>2, WantedShare DEF OnCourse
<1>4. rpc' = "cache"
  BY <1>1, <1>3
<1>5. SentPrefix'
  BY <1>1, <1>2, <1>4 DEF SentPrefix
<1>6. CacheShows' /\ \A s \in Range(recipe') : index'[s] # NoEntry
  BY <1>1 DEF OnCourse, CacheShows, Shows, vars
<1>7. EntryCurrent'
  <2>1. Wanted' = Wanted /\ index' = index
    BY <1>1 DEF Wanted, vars
  <2> QED
    BY <1>1, <1>4, <2>1 DEF EntryCurrent, HoldsBufferLock, Waiting
<1> QED
  BY <1>4, <1>5, <1>6, <1>7 DEF OnCourse

\* A container that no thread is closing holds the shares of the recipe, unless
\* one of them is still to be copied into its buffer.
LEMMA ReadHolds ==
  ASSUME TypeInv, NodesInv, AllPlaced, OnCourse, NEW c, ~BeingClosed(c), ~Live(c) \/ ~Awaited(c),
         NEW s \in Range(recipe), index[s].container = c
  PROVE  index[s].offset \in DOMAIN ReadContainer(c) /\ ReadContainer(c)[index[s].offset] = s
<1>1. s \in Shares /\ index[s] # NoEntry
  BY RecipeShares DEF OnCourse, SentPrefix
<1>2. ASSUME AboutToBeCopied(s) PROVE FALSE
  <2>1. PICK t \in Threads : pc[t] = "copy" /\ Current(t) = s /\ c = node[ptr[t]].container
    BY <1>2 DEF AboutToBeCopied
  <2>2. Awaited(c)
    BY <2>1 DEF Awaited, BeingCopied
  <2>3. Live(c)
    BY <2>1 DEF Live, NodesInv, HoldsOwnNode, Using, HoldsNode
  <2> QED
    BY <2>2, <2>3
<1>3. Stored(index[s].container, index[s].offset, s)
  BY <1>1, <1>2 DEF AllPlaced, Placed
<1> QED
  BY <1>3, StoredIsRead

\* The names of the buffers are compared.
LEMMA SearchStays ==
  ASSUME TypeInv, OnCourse, found \in [node : Names, len : Nat], searchBuffers
  PROVE  OnCourse'
<1>1. rpc = "cache" /\ UNCHANGED vars /\ UNCHANGED <<recipe, entry, cache, out, delivered>>
  BY DEF searchBuffers
<1>2. /\ Wanted' = Wanted /\ index' = index /\ link' = link /\ node' = node
      /\ entry.container = index[Wanted].container /\ entry.offset = index[Wanted].offset
  BY <1>1, EntryRead DEF Wanted, vars
<1>3. rpc' \in {"copy", "file"}
  BY DEF searchBuffers
<1>4. SentPrefix'
  BY <1>1, <1>3 DEF OnCourse, SentPrefix
<1>5. CacheShows' /\ \A s \in Range(recipe') : index'[s] # NoEntry
  BY <1>1 DEF OnCourse, CacheShows, Shows, vars
<1>6. CASE rpc' = "copy"
  <2>1. PICK n \in link : /\ node[n].container = entry.container
                          /\ found' = [NoNode EXCEPT !.node = n]
    BY <1>6 DEF searchBuffers
  <2>2. found'.node = n
    BY <2>1 DEF NoNode
  <2>3. EntryCurrent'
    BY <1>1, <1>2, <1>6, <2>1, <2>2, SMTT(60) DEF EntryCurrent, HoldsBufferLock, Waiting
  <2> QED
    BY <1>3, <1>4, <1>5, <2>3 DEF OnCourse
<1>7. CASE rpc' = "file"
  <2>1. ~Live(entry.container)
    BY <1>7 DEF searchBuffers
  <2>2. ~Live(entry.container)'
    BY <1>1, <1>2, <2>1 DEF Live
  <2>3. EntryCurrent'
    BY <1>1, <1>2, <1>7, <2>2 DEF EntryCurrent, HoldsBufferLock, Waiting
  <2> QED
    BY <1>3, <1>4, <1>5, <2>3 DEF OnCourse
<1> QED
  BY <1>3, <1>6, <1>7

\* The memcpy begins, in the buffer that was found.
LEMMA CopyBegins ==
  ASSUME TypeInv, NodesInv, AllPlaced, WithinCap, OnCourse, found \in [node : Names, len : Nat],
         memcpyBegins, ~Awaited(entry.container)
  PROVE  OnCourse'
<1> DEFINE n == found.node
           bytes == node[n].buf
<1>1. /\ rpc = "copy" /\ rpc' = "copying" /\ cache' = Evict(LineOf(bytes))
      /\ found' = [found EXCEPT !.len = Len(bytes)]
      /\ UNCHANGED vars /\ UNCHANGED <<recipe, entry, out, delivered>>
  BY DEF memcpyBegins
<1>2. found'.node = n /\ found'.len = Len(bytes)
  BY <1>1
<1>3. n \in link /\ node[n].container = entry.container
  BY <1>1 DEF OnCourse, EntryCurrent, HoldsBufferLock
<1>4. Live(entry.container) /\ ~BeingClosed(entry.container)
  BY <1>3 DEF Live, NodesInv, OneCloser, BeingClosed
<1>5. ReadContainer(entry.container) = bytes
  <2>1. (CHOOSE m \in link : node[m].container = entry.container) = n
    BY <1>3 DEF NodesInv, OwnContainers
  <2> QED
    BY <1>4, <2>1 DEF ReadContainer
<1>6. bytes \in Seq(Shares) /\ Len(bytes) <= ContainerCap /\ Len(bytes) \in Nat
  BY <1>3, SeqLen DEF TypeInv, TypeOK, Node, WithinCap
<1>7. ASSUME NEW s \in Range(recipe), index[s].container = entry.container
      PROVE  index[s].offset \in DOMAIN bytes /\ bytes[index[s].offset] = s
  BY <1>4, <1>5, <1>7, ReadHolds, SMTT(60)
<1>8. /\ LineOf(bytes) \in CacheLine
      /\ LineOf(bytes).container = entry.container
      /\ \A s \in Range(recipe) : Shows(LineOf(bytes), s)
  BY <1>1, <1>6, <1>7, LineShows
<1>9. CacheShows' /\ Front'
  BY <1>1, <1>8, FillShows
<1>10. SentPrefix'
  BY <1>1 DEF OnCourse, SentPrefix
<1>11. \A s \in Range(recipe') : index'[s] # NoEntry
  BY <1>1 DEF OnCourse, vars
<1>12. EntryCurrent'
  <2>1. Wanted' = Wanted /\ index' = index /\ link' = link /\ node' = node
    BY <1>1 DEF Wanted, vars
  <2>2. entry.container = index[Wanted].container /\ entry.offset = index[Wanted].offset
    BY <1>1, EntryRead
  <2>3. found'.len <= Len(node'[found'.node].buf)
    BY <1>2, <1>6, <2>1
  <2> QED
    BY <1>1, <1>2, <1>3, <1>9, <2>1, <2>2, <2>3 DEF EntryCurrent, HoldsBufferLock
<1> QED
  BY <1>1, <1>9, <1>10, <1>11, <1>12 DEF OnCourse

\* The memcpy is done.
LEMMA CopyEnds ==
  ASSUME TypeInv, OnCourse, memcpyEnds
  PROVE  OnCourse'
<1>1. /\ rpc = "copying" /\ Emit(Head(cache))
      /\ UNCHANGED <<vars, recipe, entry, cache, delivered>>
  BY DEF memcpyEnds
<1>2. Front /\ CacheShows /\ cache \in Seq(CacheLine)
  BY <1>1 DEF OnCourse, EntryCurrent, CacheShows
<1>3. 1 \in DOMAIN cache /\ Head(cache) = cache[1]
  BY <1>2 DEF Front
<1>4. Head(cache).slot[entry.offset] = Wanted
  BY <1>1, <1>2, <1>3, EntryRead DEF CacheShows, Shows, Front
<1>5. CacheShows' /\ Front'
  BY <1>1, <1>2 DEF CacheShows, Shows, Front, vars
<1> QED
  BY <1>1, <1>4, <1>5, EmitStays

\* The file is read after it was closed: it is there, and holds the shares.
LEMMA FileSends ==
  ASSUME TypeInv, NodesInv, AllPlaced, WithinCap, OnCourse, readContainerFile,
         ~BeingClosed(entry.container)
  PROVE  OnCourse'
<1> DEFINE bytes == disk[entry.container]
<1>1. rpc = "file" /\ UNCHANGED <<vars, recipe, entry, delivered>>
  BY DEF readContainerFile
<1>2. /\ entry.container \in Names
      /\ entry.container = index[Wanted].container
      /\ Wanted \in Range(recipe)
  BY <1>1, EntryRead
<1>3. ReadContainer(entry.container) = bytes /\ ~Live(entry.container)
  BY <1>1 DEF OnCourse, EntryCurrent, ReadContainer
<1>4. ASSUME NEW s \in Range(recipe), index[s].container = entry.container
      PROVE  index[s].offset \in DOMAIN bytes /\ bytes[index[s].offset] = s
  BY <1>3, <1>4, ReadHolds, SMTT(60)
<1>5. bytes # <<>>
  BY <1>2, <1>4
<1>6. cache' = Evict(LineOf(bytes)) /\ Emit(LineOf(bytes))
  BY <1>5 DEF readContainerFile
<1>7. bytes \in Seq(Shares) /\ Len(bytes) <= ContainerCap
  BY <1>2 DEF TypeInv, TypeOK, WithinCap
<1> HIDE DEF bytes
<1>8. /\ LineOf(bytes) \in CacheLine
      /\ LineOf(bytes).container = entry.container
      /\ LineOf(bytes).slot[entry.offset] = Wanted
      /\ \A s \in Range(recipe) : Shows(LineOf(bytes), s)
  BY <1>1, <1>4, <1>7, LineShows
<1>9. CacheShows' /\ Front'
  BY <1>1, <1>6, <1>8, FillShows
<1> QED
  BY <1>1, <1>6, <1>8, <1>9, EmitStays

\* The message is sent, and the share that waited is put into the next one; or
\* the client does not take it.
LEMMA SendStays ==
  ASSUME TypeInv, OnCourse, sendMessage \/ clientMoves
  PROVE  OnCourse'
<1>1. /\ rpc \in {"send", "blocked"} /\ UNCHANGED <<vars, recipe, entry, cache, found>>
      /\ Taken \/ (rpc' \in {"blocked", "cut"} /\ UNCHANGED <<out, delivered>>)
  BY DEF sendMessage, clientMoves
<1>2. SentPrefix /\ CacheShows /\ EntryCurrent /\ cache \in Seq(CacheLine)
  BY DEF OnCourse, CacheShows
<1>3. CacheShows' /\ \A s \in Range(recipe') : index'[s] # NoEntry
  BY <1>1 DEF OnCourse, CacheShows, Shows, vars
<1>4. CASE rpc' \in {"blocked", "cut"} /\ UNCHANGED <<out, delivered>>
  <2>1. SentPrefix'
    BY <1>2, <1>4 , <1>1 DEF SentPrefix
  <2>2. Wanted' = Wanted /\ index' = index
    BY <1>1, <1>4 DEF Wanted, vars
  <2>3. EntryCurrent'
    BY <1>1, <1>2, <1>4, <2>2 DEF EntryCurrent, HoldsBufferLock, Waiting, Front
  <2> QED
    BY <1>3, <1>4, <2>1, <2>3 DEF OnCourse
<1>5. CASE Taken /\ Len(out) = Len(recipe)
  <2>1. rpc' = "done" /\ out' = out /\ delivered' = Len(out)
    BY <1>5 DEF Taken
  <2>2. SentPrefix'
    BY <1>1, <1>2, <1>5, <2>1 DEF SentPrefix
  <2>3. EntryCurrent'
    BY <2>1 DEF EntryCurrent, HoldsBufferLock, Waiting
  <2> QED
    BY <1>3, <2>1, <2>2, <2>3 DEF OnCourse
<1>6. CASE Taken /\ Len(out) # Len(recipe)
  <2>1. Put(Head(cache))
    BY <1>6 DEF Taken
  <2>2. Len(out) \in Nat /\ Len(recipe) \in Nat /\ Len(out) <= Len(recipe)
    BY <1>2, SeqLen DEF SentPrefix
  <2>3. Len(out) < Len(recipe)
    BY <1>6, <2>2
  <2>4. Waiting /\ Front
    BY <1>1, <1>2, <2>3 DEF EntryCurrent, Waiting
  <2>5. 1 \in DOMAIN cache /\ Head(cache) = cache[1]
    BY <1>2, <2>4 DEF Front
  <2>6. Head(cache).slot[entry.offset] = Wanted
    BY <1>2, <2>4, <2>5, EntryRead DEF CacheShows, Shows, Front
  <2>7. SentPrefix' /\ rpc' \in {"lookup", "send"} /\ ~Waiting'
    BY <1>1, <1>2, <2>1, <2>3, <2>6, PutNext
  <2>8. EntryCurrent'
    BY <2>7 DEF EntryCurrent, HoldsBufferLock
  <2> QED
    BY <1>3, <2>7, <2>8 DEF OnCourse
<1> QED
  BY <1>1, <1>4, <1>5, <1>6

\* A recipe of shares that the user owns is begun.
LEMMA StartOnCourse ==
  ASSUME TypeInv, startRestore, out = <<>>, cache = <<>>
  PROVE  OnCourse'
<1>1. /\ rpc' = "lookup" /\ UNCHANGED vars /\ UNCHANGED <<cache, out>>
  BY DEF startRestore
<1>2. PICK t \in Threads, k \in 1 .. MaxRecipe :
        recipe' \in [1 .. k -> {s \in Shares : Owns(UserOf[t], s)}]
  BY DEF startRestore
<1>3. k \in Nat /\ k > 0 /\ DOMAIN recipe' = 1 .. k
      /\ \A i \in 1 .. k : recipe'[i] \in Shares /\ index[recipe'[i]] # NoEntry
  BY <1>2, RestoreAssumption DEF Owns
<1>4. recipe' \in Seq(Shares) /\ Len(recipe') = k
  BY <1>2, <1>3
<1>5. SentPrefix'
  BY <1>1, <1>3, <1>4, SMTT(60) DEF SentPrefix
<1>6. CacheShows'
  BY <1>1 DEF CacheShows
<1>7. \A s \in Range(recipe') : index'[s] # NoEntry
  BY <1>1, <1>3 DEF Range, vars
<1>8. EntryCurrent'
  BY <1>1 DEF EntryCurrent, HoldsBufferLock, Waiting
<1> QED
  BY <1>1, <1>5, <1>6, <1>7, <1>8 DEF OnCourse

-----------------------------------------------------------------------------
(* The uploads beside the restore.                                         *)

\* A container that is in no buffer comes into none: its name is handed out.
LEMMA StaysOutOfBuffers ==
  ASSUME TypeInv, NodesInv, [Next]_vars, NEW c \in Names, c < nextName, ~Live(c)
  PROVE  ~Live(c)'
<1>1. ASSUME NEW t \in Threads, recvMeta(t) \/ Step(t), NEW n \in link', node'[n].container = c
      PROVE  FALSE
  <2>1. c \in Nat /\ nextName \in Nat
    BY <1>1, NamesNat, NameStep
  <2>2. c # nextName
    BY <2>1
  <2>3. n \in link /\ node[n].container = c
    BY <1>1, <2>2, LinkedContainers
  <2> QED
    BY <2>3 DEF Live
<1>2. CASE UNCHANGED vars
  BY <1>2 DEF vars, Live
<1> QED
  BY <1>1, <1>2 DEF Next, Quiet, Live

\* While bufferLock_ is held, the nodes stay on their list; and a buffer that is
\* not renewed only grows, so that the memcpy reads what it had.
LEMMA LockedBuffer ==
  ASSUME TypeInv, NodesInv, OnCourse, HoldsBufferLock, NEW t \in Threads, recvMeta(t) \/ Step(t),
         Watched(t), ~Renewed
  PROVE  /\ found.node \in link' /\ node'[found.node].container = entry.container
         /\ \/ node'[found.node].buf = node[found.node].buf
            \/ Len(node'[found.node].buf) = Len(node[found.node].buf) + 1
         /\ Len(node[found.node].buf) \in Nat
<1> DEFINE n == found.node
<1>1. n \in link /\ node[n].container = entry.container
  BY DEF OnCourse, EntryCurrent
<1>2. link' = link
  <2>1. ~findBufferNode_(t) /\ ~createBufferNode_(t)
    BY DEF Watched
  <2> QED
    BY <2>1 DEF Step, recvMeta, intraUserIndexUpdate_, disconnect, skipShare, rejectShare,
                copyShare, referenceShare, missShare, writeContainer, renewContainer,
                closeContainer, putEntry, store
<1>3. node'[n].container = node[n].container
  BY DEF Renewed
<1>4. node[n].container # nextName
  <2>1. node[n].container < nextName /\ node[n].container \in Nat /\ nextName \in Nat
    BY <1>1, NamesNat, NameStep DEF NodesInv, OwnContainers, TypeInv, TypeOK, Node
  <2> QED
    BY <2>1
<1>5. \/ node'[n].buf = node[n].buf
      \/ copyShare(t) /\ n = ptr[t] /\ node'[n].buf = Append(node[n].buf, Current(t))
  BY <1>1, <1>2, <1>3, <1>4, LinkedContainers
<1>6. node[n].buf \in Seq(Shares) /\ Len(node[n].buf) \in Nat
  BY <1>1, SeqLen DEF TypeInv, TypeOK, Node
<1>7. copyShare(t) => Len(Append(node[n].buf, Current(t))) = Len(node[n].buf) + 1
  BY <1>6, CurrentType, SeqAppend, SMTT(60) DEF copyShare, Current
<1> QED
  BY <1>1, <1>2, <1>3, <1>5, <1>6, <1>7

\* An upload that moves no entry of the recipe, and does not renew the buffer
\* that is being copied, leaves the restore on course.
LEMMA UploadStays ==
  ASSUME TypeInv, NodesInv, FreshNames, OnCourse, found \in [node : Names, len : Nat],
         NEW t \in Threads, recvMeta(t) \/ Step(t), Watched(t), ~Moved, ~Renewed
  PROVE  OnCourse'
<1>1. UNCHANGED <<rpc, recipe, entry, found, out, delivered>>
  BY DEF Watched
<1>2. ASSUME NEW s \in Range(recipe) PROVE SamePlace(s)
  BY <1>2 DEF Moved, SamePlace
<1>3. [Next]_vars
  BY DEF Next
<1>4. ASSUME NEW s \in Range(recipe') PROVE index'[s] # NoEntry
  <2>1. s \in Range(recipe) /\ s \in Shares
    BY <1>1, <1>4, RecipeShares DEF OnCourse, SentPrefix
  <2> QED
    BY <1>3, <2>1, IndexGrows DEF OnCourse
<1>5. cache' = cache
  <2>1. CASE rpc = "copying"
    <3> DEFINE b == node'[found.node].buf
               a == node[found.node].buf
    <3>1. b = a \/ Len(b) = Len(a) + 1
      BY <2>1, LockedBuffer DEF HoldsBufferLock
    <3>2. found.len <= Len(a) /\ Len(a) \in Nat /\ found.len \in Nat
      BY <2>1, LockedBuffer DEF OnCourse, EntryCurrent, HoldsBufferLock
    <3>3. ~(b # a /\ Len(b) \in 1 .. found.len)
      BY <3>1, <3>2, SMTT(60)
    <3> QED
      BY <3>3 DEF Watched, Overwritten
  <2>2. CASE rpc # "copying"
    BY <2>2 DEF Watched, Overwritten
  <2> QED
    BY <2>1, <2>2
<1>6. SentPrefix'
  BY <1>1 DEF OnCourse, SentPrefix
<1>7. CacheShows'
  BY <1>1, <1>2, <1>5, SMTT(60) DEF OnCourse, CacheShows, Shows, SamePlace
<1>8. ASSUME HoldsBufferLock
      PROVE  found.node \in link' /\ node'[found.node].container = entry.container
  BY <1>8, LockedBuffer
<1>9. ASSUME rpc = "copying" PROVE found.len <= Len(node'[found.node].buf)
  <2>1. /\ \/ node'[found.node].buf = node[found.node].buf
           \/ Len(node'[found.node].buf) = Len(node[found.node].buf) + 1
        /\ Len(node[found.node].buf) \in Nat
    BY <1>9, LockedBuffer DEF HoldsBufferLock
  <2>2. found.len <= Len(node[found.node].buf) /\ found.len \in Nat
    BY <1>9 DEF OnCourse, EntryCurrent
  <2> QED
    BY <2>1, <2>2, SMTT(60)
<1>10. ASSUME rpc = "copying" \/ Waiting PROVE Front'
  BY <1>1, <1>5, <1>10 DEF OnCourse, EntryCurrent, Front
<1>11. ASSUME rpc = "file" PROVE ~Live(entry.container)'
  <2>1. PICK c \in Names : c = entry.container
    BY <1>11, EntryRead
  <2>2. ~Live(c)
    BY <1>11, <2>1 DEF OnCourse, EntryCurrent
  <2>3. c < nextName
    BY <1>11, <2>1, EntryRead DEF FreshNames, OnCourse
  <2>4. ~Live(c)'
    BY <1>3, <2>1, <2>2, <2>3, StaysOutOfBuffers
  <2> QED
    BY <1>1, <2>1, <2>4 DEF Live
<1>12. ASSUME rpc \in {"cache", "copy", "copying", "file"} \/ Waiting
       PROVE  /\ entry.container = index'[Wanted].container
              /\ entry.offset = index'[Wanted].offset
  <2>1. /\ entry.container = index[Wanted].container /\ entry.offset = index[Wanted].offset
        /\ Wanted \in Range(recipe)
    BY <1>12, EntryRead
  <2> QED
    BY <1>2, <2>1 DEF SamePlace
<1>13. EntryCurrent'
  <2>1. Wanted' = Wanted /\ (Waiting' <=> Waiting) /\ (HoldsBufferLock' <=> HoldsBufferLock)
    BY <1>1 DEF Wanted, Waiting, HoldsBufferLock
  <2> QED
    BY <1>1, <1>8, <1>9, <1>10, <1>11, <1>12, <2>1 DEF EntryCurrent
<1> QED
  BY <1>1, <1>4, <1>6, <1>7, <1>13 DEF OnCourse

-----------------------------------------------------------------------------
(* The restore is exact.                                                   *)

StoreInv == SafeInv /\ FreshNames /\ WithinCap

LEMMA InitStore == Init => StoreInv
<1> SUFFICES ASSUME Init PROVE StoreInv
  OBVIOUS
<1>1. TypeInv
  BY InitType
<1>2. HoldsOwnNode /\ OwnContainers /\ OneCloser /\ AllPlaced
  BY DEF Init, HoldsOwnNode, OwnContainers, OneCloser, AllPlaced, Using, HoldsNode
<1>3. FreshNames
  BY DEF Init, FreshNames
<1>4. WithinCap
  BY ConstantsAssumption, SMTT(60) DEF Init, WithinCap, Room
<1> QED
  BY <1>1, <1>2, <1>3, <1>4 DEF StoreInv, SafeInv

LEMMA StepStore ==
  ASSUME StoreInv, Undisturbed, [Next]_vars
  PROVE  StoreInv'
<1>1. TypeInv /\ NodesInv /\ AllPlaced /\ FreshNames /\ WithinCap /\ NodeOfItsOwn
  BY DEF StoreInv, SafeInv, NodesInv, Undisturbed
<1>2. TypeInv' /\ NodesInv' /\ AllPlaced' /\ WithinCap'
  BY <1>1, StepType, StepNodes, StepPlaces, StepWithin
<1>3. FreshNames'
  <2>1. CASE UNCHANGED vars
    BY <1>1, <2>1 DEF vars, FreshNames
  <2> QED
    BY <1>1, <2>1, StepFresh DEF Next, Quiet
<1> QED
  BY <1>2, <1>3 DEF StoreInv, SafeInv, NodesInv

\* Where the restore is after a step of its own.
LEMMA StepGoes ==
  ASSUME found \in [node : Names, len : Nat], TypeInv,
         startRestore \/ RestoreStep \/ clientMoves
  PROVE  UNCHANGED vars /\ rpc' # "idle" /\ found' \in [node : Names, len : Nat]
<1>1. 0 \in Names /\ NoNode \in [node : Names, len : Nat]
  BY NamesNat DEF NoNode
<1>2. ASSUME NEW line, Emit(line) \/ Put(line) PROVE rpc' \in {"send", "lookup"}
  BY <1>2 DEF Emit, Put
<1>3. CASE startRestore \/ lookup
  BY <1>3 DEF startRestore, lookup
<1>4. CASE cacheHit
  BY <1>2, <1>4 DEF cacheHit
<1>5. CASE searchBuffers
  <2>1. UNCHANGED vars /\ rpc' \in {"copy", "file"}
    BY <1>5 DEF searchBuffers
  <2>2. found' = found \/ \E n \in link : found' = [NoNode EXCEPT !.node = n]
    BY <1>5 DEF searchBuffers
  <2>3. ASSUME NEW n \in link PROVE [NoNode EXCEPT !.node = n] \in [node : Names, len : Nat]
    BY <1>1, <2>3 DEF TypeInv, TypeOK, NoNode
  <2> QED
    BY <2>1, <2>2, <2>3
<1>6. CASE memcpyBegins
  <2>1. found.node \in Names /\ node[found.node].buf \in Seq(Shares)
    BY DEF TypeInv, TypeOK, Node
  <2>2. Len(node[found.node].buf) \in Nat
    BY <2>1, SeqLen
  <2> QED
    BY <1>6, <2>2 DEF memcpyBegins
<1>7. CASE memcpyEnds
  BY <1>1, <1>2, <1>7 DEF memcpyEnds
<1>8. CASE readContainerFile
  BY <1>2, <1>8 DEF readContainerFile
<1>9. CASE sendMessage \/ clientMoves
  BY <1>2, <1>9 DEF sendMessage, clientMoves, Taken
<1> QED
  BY <1>3, <1>4, <1>5, <1>6, <1>7, <1>8, <1>9 DEF RestoreStep

LEMMA StepRestore ==
  ASSUME StoreInv, RestoreInv, Undisturbed, [RestoreNext]_allVars
  PROVE  StoreInv' /\ RestoreInv'
<1>1. TypeInv /\ NodesInv /\ AllPlaced /\ FreshNames /\ WithinCap
      /\ found \in [node : Names, len : Nat]
  BY DEF StoreInv, SafeInv, NodesInv, RestoreInv
<1>2. ASSUME startRestore \/ RestoreStep \/ clientMoves, settled' => OnCourse'
      PROVE  StoreInv' /\ RestoreInv'
  <2>1. UNCHANGED vars /\ rpc' # "idle" /\ found' \in [node : Names, len : Nat]
    BY <1>1, <1>2, StepGoes
  <2> QED
    BY <1>2, <2>1, StepStore DEF RestoreInv
<1>3. CASE startRestore
  <2>1. out = <<>> /\ cache = <<>>
    BY <1>3 DEF startRestore, RestoreInv
  <2> QED
    BY <1>1, <1>2, <1>3, <2>1, StartOnCourse
<1>4. CASE lookup \/ cacheHit \/ searchBuffers \/ memcpyEnds \/ sendMessage \/ clientMoves
  <2>1. settled' = settled /\ rpc # "idle"
    BY <1>4 DEF lookup, cacheHit, searchBuffers, memcpyEnds, sendMessage, clientMoves
  <2>2. ASSUME settled' PROVE OnCourse'
    <3>1. OnCourse
      BY <2>1, <2>2 DEF RestoreInv
    <3> QED
      BY <1>1, <1>4, <3>1, LookupStays, HitSends, SearchStays, CopyEnds, SendStays
  <2> QED
    BY <1>2, <1>4, <2>2 DEF RestoreStep
<1>5. CASE memcpyBegins
  <2>1. rpc # "idle" /\ (settled' => settled /\ ~Awaited(entry.container))
    BY <1>5 DEF memcpyBegins
  <2>2. ASSUME settled' PROVE OnCourse'
    <3>1. OnCourse
      BY <2>1, <2>2 DEF RestoreInv
    <3> QED
      BY <1>1, <1>5, <2>1, <2>2, <3>1, CopyBegins
  <2> QED
    BY <1>2, <1>5, <2>2 DEF RestoreStep
<1>6. CASE readContainerFile
  <2>1. rpc # "idle" /\ (settled' => settled /\ ~BeingClosed(entry.container))
    BY <1>6 DEF readContainerFile
  <2>2. ASSUME settled' PROVE OnCourse'
    <3>1. OnCourse
      BY <2>1, <2>2 DEF RestoreInv
    <3> QED
      BY <1>1, <1>6, <2>1, <2>2, <3>1, FileSends
  <2> QED
    BY <1>2, <1>6, <2>2 DEF RestoreStep
<1>7. ASSUME NEW t \in Threads, recvMeta(t) \/ Step(t), Watched(t)
      PROVE  StoreInv' /\ RestoreInv'
  <2>1. rpc' = rpc /\ out' = out /\ found' = found
    BY <1>7 DEF Watched
  <2>2. settled' => settled /\ ~Moved /\ ~Renewed
    BY <1>7 DEF Watched
  <2>3. ASSUME settled', rpc # "idle" PROVE OnCourse'
    <3>1. OnCourse
      BY <2>2, <2>3 DEF RestoreInv
    <3> QED
      BY <1>1, <1>7, <2>2, <2>3, <3>1, UploadStays
  <2>4. rpc = "idle" => cache' = cache
    BY <1>7 DEF Watched, Overwritten
  <2>5. RestoreInv'
    BY <1>1, <2>1, <2>3, <2>4 DEF RestoreInv
  <2> QED
    BY <1>7, <2>5, StepStore DEF Next
<1>8. CASE UNCHANGED allVars
  <2>1. UNCHANGED vars
        /\ UNCHANGED <<rpc, recipe, entry, cache, found, out, delivered, settled>>
    BY <1>8 DEF allVars, restoring
  <2>2. OnCourse => OnCourse'
    <3>1. SentPrefix => SentPrefix'
      BY <2>1 DEF SentPrefix
    <3>2. CacheShows => CacheShows'
      BY <2>1 DEF CacheShows, Shows, vars
    <3>3. EntryCurrent => EntryCurrent'
      BY <2>1 DEF EntryCurrent, HoldsBufferLock, Waiting, Front, Wanted, Live, vars
    <3> QED
      BY <2>1, <3>1, <3>2, <3>3 DEF OnCourse, vars
  <2>3. RestoreInv'
    BY <2>1, <2>2 DEF RestoreInv
  <2> QED
    BY <2>1, <2>3, StepStore
<1>9. CASE Quiet /\ UNCHANGED restoring
  BY <1>8, <1>9 DEF Quiet, allVars
<1> QED
  BY <1>3, <1>4, <1>5, <1>6, <1>7, <1>8, <1>9 DEF RestoreNext, RestoreStep

\* When users have one connection at a time, second stages are short and
\* expired buffers are written: a restore that meets none of the unlocked windows
\* of the uploads does not fail and sends exactly the shares of its recipe, for
\* any number of users, threads, shares, containers and cache lines, for recipes
\* and messages of any length, and whether or not its client reads on.
THEOREM RestoreExact ==
  ASSUME Undisturbed
  PROVE  RestoreSpec => []SettledRestoreExact
<1>1. RestoreInit => StoreInv /\ RestoreInv
  <2>1. NoNode \in [node : Names, len : Nat]
    BY NamesNat DEF NoNode
  <2> QED
    BY <2>1, InitStore DEF RestoreInit, RestoreInv
<1>2. StoreInv /\ RestoreInv /\ [RestoreNext]_allVars => StoreInv' /\ RestoreInv'
  BY StepRestore
<1>3. RestoreInv => SettledRestoreExact
  BY SMTT(60) DEF RestoreInv, OnCourse, SentPrefix, SettledRestoreExact
<1> QED
  BY <1>1, <1>2, <1>3, PTL DEF RestoreSpec

-----------------------------------------------------------------------------
(* How often a share is stored, with the library's facts on finite sets.   *)

INSTANCE FiniteSetTheorems

LEMMA SetsCount == Counting
<1>1. SubsetsCount
  BY FS_Subset DEF SubsetsCount
<1>2. ASSUME NEW S, IsFiniteSet(S) PROVE Cardinality(S) \in Nat
  BY <1>2, FS_CardinalityType, ZenonT(60)
<1>3. ASSUME NEW S, IsFiniteSet(S), NEW x
      PROVE  IsFiniteSet(S \cup {x}) /\ Cardinality(S \cup {x}) <= Cardinality(S) + 1
  <2>1. /\ IsFiniteSet(S \cup {x})
        /\ Cardinality(S \cup {x}) = IF x \in S THEN Cardinality(S) ELSE Cardinality(S) + 1
    BY <1>3, FS_AddElement
  <2>2. Cardinality(S) \in Nat
    BY <1>2, <1>3, ZenonT(60)
  <2> QED
    BY <2>1, <2>2, AtMostOneMore, ZenonT(60)
<1>4. ASSUME NEW S, IsFiniteSet(S), NEW x \in S
      PROVE  IsFiniteSet(S \ {x}) /\ Cardinality(S \ {x}) = Cardinality(S) - 1
  BY <1>4, FS_RemoveElement, ZenonT(60)
<1> QED
  BY <1>1, <1>2, <1>3, <1>4, FS_EmptySet DEF Counting, ElementsCount

\* Deduplication holds for every number of threads and shares, without any
\* assumption on connections, waits or faults: a connection stores a share at
\* most once in its life, and buffers and container files never hold more copies
\* of it than there are connections that stored it.
THEOREM StoredOnce == HistorySpec => []StoredOncePerConnection
<1> DEFINE Inv == TypeInv /\ StageInv /\ PackageIndexed /\ OnceInv
<1>1. HistoryInit => Inv
  BY InitType, InitStage, InitOnce, SetsCount, ZenonT(60) DEF HistoryInit
<1>2. [HistoryNext]_historyVars => [Next]_vars
  BY DEF HistoryNext, historyVars
<1>3. Inv /\ [HistoryNext]_historyVars => Inv'
  BY <1>2, StepType, StepStage, StepOnce, SetsCount, ZenonT(60)
<1>4. Inv => StoredOncePerConnection
  BY OnceCopies, SetsCount
<1> QED
  BY <1>1, <1>3, <1>4, PTL DEF HistorySpec
=============================================================================
