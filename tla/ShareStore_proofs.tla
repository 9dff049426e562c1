--------------------------- MODULE ShareStore_proofs ---------------------------
(***************************************************************************)
(* What ShareIndex stores: what each step may do to the buffers and the    *)
(* container files, that a share stays where it was stored, and that every *)
(* share in the index can be restored.                                     *)
(***************************************************************************)
EXTENDS ShareIndex_proofs

\* A step that names no prover is for Zenon, then for the SMT solver, with time to
\* spare.
USE ZenonT(30), SMTT(60)

\* No thread loses its buffer node or what is in it.
Undisturbed == NodeOfItsOwn /\ ~FlushFaults

\* Share s is at position o of container c: in a buffer, in a file that is
\* being closed, or in a file that nothing writes any more.
InBuffer(c, o, s) ==
  \E n \in link : /\ node[n].container = c
                  /\ o \in DOMAIN node[n].buf
                  /\ node[n].buf[o] = s
InOpenFile(c, o, s) ==
  \E t \in Threads : /\ pc[t] = "close"
                     /\ pending[t].container = c
                     /\ o \in DOMAIN pending[t].data
                     /\ pending[t].data[o] = s
InFile(c, o, s) ==
  /\ c < nextName
  /\ ~Live(c)
  /\ ~BeingClosed(c)
  /\ o \in DOMAIN disk[c]
  /\ disk[c][o] = s

Stored(c, o, s) == InBuffer(c, o, s) \/ InOpenFile(c, o, s) \/ InFile(c, o, s)

\* The share of an entry is where the entry says, or is about to be copied.
AboutToBeCopied(s) ==
  \E t \in Threads :
    /\ pc[t] = "copy"
    /\ Current(t) = s
    /\ index[s].container = node[ptr[t]].container
    /\ index[s].offset = Len(node[ptr[t]].buf) + 1
Placed(s) == AboutToBeCopied(s) \/ Stored(index[s].container, index[s].offset, s)
AllPlaced == \A s \in Shares : index[s] # NoEntry => Placed(s)

SafeInv ==
  TypeInv /\ HoldsOwnNode /\ OwnContainers /\ OneCloser /\ AllPlaced

-----------------------------------------------------------------------------
(* What a step may do to the buffers, the files and the index.             *)

\* The files that a step may write: that of a linked node, with what the node
\* has, or the one that is being closed.
LEMMA WrittenFiles ==
  ASSUME TypeInv, NodesInv, NEW t \in Threads, recvMeta(t) \/ Step(t), NEW c \in Names,
         disk'[c] # disk[c]
  PROVE  \/ /\ node' = node
            /\ \E n \in link : /\ node[n].container = c
                               /\ \E k \in 0 .. Len(node[n].buf) :
                                    disk'[c] = SubSeq(node[n].buf, 1, k)
         \/ pc[t] = "close" /\ pending[t].container = c /\ disk'[c] = pending[t].data
<1>1. CASE findBufferNode_(t)
  <2>1. PICK expired \in SUBSET MayExpire(t) :
          \E kept \in WholeOrFaulty(expired) : disk' = Flushed(kept)
    BY <1>1 DEF findBufferNode_
  <2>2. PICK kept \in WholeOrFaulty(expired) : disk' = Flushed(kept)
    BY <2>1
  <2>3. expired \in SUBSET Names /\ expired \in SUBSET link /\ node' = node
    BY <1>1 DEF MayExpire, findBufferNode_, TypeInv, TypeOK
  <2>4. PICK n \in expired : /\ node[n].container = c
                             /\ kept[n] \in 0 .. Len(node[n].buf)
                             /\ Flushed(kept)[c] = SubSeq(node[n].buf, 1, kept[n])
    BY <2>2, <2>3, FlushedPrefix
  <2> QED
    BY <2>2, <2>3, <2>4
<1>2. CASE writeContainer(t)
  <2>1. PICK k \in 0 .. Len(node[ptr[t]].buf) :
          disk' = [disk EXCEPT ![node[ptr[t]].container] = SubSeq(node[ptr[t]].buf, 1, k)]
    BY <1>2 DEF writeContainer
  <2>2. c = node[ptr[t]].container /\ disk'[c] = SubSeq(node[ptr[t]].buf, 1, k)
    BY <2>1 DEF TypeInv, TypeOK
  <2>3. ptr[t] \in link /\ node' = node
    BY <1>2 DEF writeContainer, NodesInv, HoldsOwnNode, Using, HoldsNode
  <2> QED
    BY <2>1, <2>2, <2>3
<1>3. CASE closeContainer(t)
  BY <1>3 DEF closeContainer, TypeInv, TypeOK
<1>4. CASE recvMeta(t) \/ intraUserIndexUpdate_(t) \/ disconnect(t) \/ createBufferNode_(t)
           \/ skipShare(t) \/ rejectShare(t) \/ referenceShare(t) \/ missShare(t)
           \/ renewContainer(t) \/ putEntry(t) \/ copyShare(t)
  BY <1>4 DEF recvMeta, intraUserIndexUpdate_, disconnect, createBufferNode_, skipShare,
              rejectShare, referenceShare, missShare, renewContainer, putEntry, copyShare, store
<1> QED
  BY <1>1, <1>2, <1>3, <1>4 DEF Step

\* So it is the file of a container whose name was handed out.
LEMMA WrittenLive ==
  ASSUME TypeInv, NodesInv, NEW t \in Threads, recvMeta(t) \/ Step(t), NEW c \in Names,
         disk'[c] # disk[c]
  PROVE  (Live(c) \/ BeingClosed(c)) /\ c < nextName
<1>1. Live(c) \/ BeingClosed(c)
  BY WrittenFiles DEF Live, BeingClosed
<1> QED
  BY <1>1 DEF Live, BeingClosed, NodesInv, OwnContainers, OneCloser

\* A node that is linked after a step keeps its container, and at most one
\* share is appended to it; or it is empty, and has the name that the step
\* hands out.
LEMMA LinkedContainers ==
  ASSUME TypeInv, NodesInv, NEW t \in Threads, recvMeta(t) \/ Step(t), NEW n \in link'
  PROVE  \/ /\ n \in link /\ node'[n].container = node[n].container
            /\ \/ node'[n].buf = node[n].buf /\ (copyShare(t) => n # ptr[t])
               \/ copyShare(t) /\ n = ptr[t] /\ node'[n].buf = Append(node[n].buf, Current(t))
         \/ node'[n].container = nextName /\ nextName' = nextName + 1 /\ node'[n].buf = <<>>
<1>1. CASE createBufferNode_(t)
  <2>1. nextName \in Names /\ nextName' = nextName + 1 /\ pc[t] # "copy"
    BY <1>1, ConstantsAssumption, SMTT(60) DEF createBufferNode_, TypeInv, TypeOK, Names
  <2>2. CASE n = nextName
    BY <1>1, <2>1, <2>2 DEF createBufferNode_, TypeInv, TypeOK
  <2>3. CASE n # nextName
    BY <1>1, <2>1, <2>3 DEF createBufferNode_, copyShare, TypeInv, TypeOK
  <2> QED
    BY <2>2, <2>3
<1>2. CASE renewContainer(t)
  <2>1. ptr[t] \in Names /\ node[ptr[t]] \in Node /\ n \in Names /\ n \in link /\ ~copyShare(t)
    BY <1>2 DEF renewContainer, copyShare, TypeInv, TypeOK
  <2> QED
    BY <1>2, <2>1 DEF renewContainer, TypeInv, TypeOK, Node
<1>3. CASE copyShare(t)
  BY <1>3, CopyEffect DEF copyShare, TypeInv, TypeOK
<1>4. CASE findBufferNode_(t)
  BY <1>4 DEF findBufferNode_, copyShare
<1>5. CASE recvMeta(t) \/ intraUserIndexUpdate_(t) \/ disconnect(t)
           \/ skipShare(t) \/ rejectShare(t) \/ referenceShare(t) \/ missShare(t)
           \/ writeContainer(t) \/ closeContainer(t) \/ putEntry(t)
  BY <1>5 DEF recvMeta, intraUserIndexUpdate_, disconnect, skipShare, rejectShare, copyShare,
              referenceShare, missShare, writeContainer, closeContainer, putEntry, store
<1> QED
  BY <1>1, <1>2, <1>3, <1>4, <1>5 DEF Step

\* A thread comes to close a file by renewing a linked node's container.
LEMMA ClosersAfter ==
  ASSUME TypeInv, NodesInv, NEW t \in Threads, recvMeta(t) \/ Step(t),
         NEW t2 \in Threads, pc'[t2] = "close"
  PROVE  \/ pc[t2] = "close" /\ pending'[t2] = pending[t2]
         \/ \E n \in link : /\ pending'[t2].container = node[n].container
                            /\ pending'[t2].data = node[n].buf
<1>1. CASE t2 # t
  BY <1>1, StepLeavesOthers DEF OthersStay
<1>2. CASE t2 = t
  <2>1. ASSUME NextShare(t) PROVE FALSE
    BY <1>2, <2>1 DEF NextShare, Return, Goto, TypeInv, TypeOK
  <2>2. CASE renewContainer(t)
    <3>1. ptr[t] \in link
      BY <2>2 DEF renewContainer, NodesInv, HoldsOwnNode, Using, HoldsNode
    <3> QED
      BY <1>2, <2>2, <3>1 DEF renewContainer, TypeInv, TypeOK
  <2>3. CASE recvMeta(t) \/ intraUserIndexUpdate_(t) \/ disconnect(t) \/ findBufferNode_(t)
             \/ createBufferNode_(t) \/ rejectShare(t) \/ missShare(t) \/ writeContainer(t)
             \/ closeContainer(t) \/ putEntry(t)
    BY <1>2, <2>3 DEF recvMeta, intraUserIndexUpdate_, disconnect, findBufferNode_,
                      createBufferNode_, rejectShare, missShare, writeContainer,
                      closeContainer, putEntry, Return, Goto, TypeInv, TypeOK
  <2>4. CASE skipShare(t) \/ referenceShare(t) \/ copyShare(t)
    BY <2>1, <2>4 DEF skipShare, referenceShare, copyShare
  <2> QED
    BY <2>2, <2>3, <2>4 DEF Step
<1> QED
  BY <1>1, <1>2

\* Names are handed out one at a time.
LEMMA NameStep ==
  ASSUME TypeInv, NEW t \in Threads, recvMeta(t) \/ Step(t)
  PROVE  nextName \in Nat /\ (nextName' = nextName \/ nextName' = nextName + 1)
<1>1. nextName \in Nat
  BY ConstantsAssumption, SMTT(60) DEF TypeInv, TypeOK
<1> QED
  BY <1>1
     DEF Step, recvMeta, intraUserIndexUpdate_, disconnect, findBufferNode_, createBufferNode_,
              skipShare, rejectShare, referenceShare, missShare, writeContainer, renewContainer,
              closeContainer, putEntry, copyShare, store

\* The place the entry of s names does not change.
SamePlace(s) == index'[s].container = index[s].container
                /\ index'[s].offset = index[s].offset

\* The place an entry names changes only when putEntry writes the entry.
LEMMA EntryPlaces ==
  ASSUME TypeInv, NEW t \in Threads, recvMeta(t) \/ Step(t), NEW s \in Shares,
         index'[s] # NoEntry
  PROVE  \/ index[s] # NoEntry /\ SamePlace(s)
         \/ /\ putEntry(t) /\ s = Current(t)
            /\ index'[s].container = node[ptr[t]].container
            /\ index'[s].offset = Len(node[ptr[t]].buf) + 1
<1>1. ASSUME NEW q \in Shares, NEW t2 \in Threads, index[q] # NoEntry, AddRef(q, UserOf[t2])
      PROVE  index[s] # NoEntry /\ SamePlace(s)
  <2>1. UserOf[t2] \in Users
    BY ConstantsAssumption
  <2>2. CASE s = q
    <3>1. index'[s] = [index[s] EXCEPT !.refs[UserOf[t2]] = @ + 1] /\ index[s] \in Entry
      BY <1>1, <2>2 DEF AddRef, TypeInv, TypeOK
    <3> QED
      BY <1>1, <2>2, <3>1 DEF Entry, SamePlace
  <2>3. CASE s # q
    BY <1>1, <2>3 DEF AddRef, TypeInv, TypeOK, SamePlace
  <2> QED
    BY <2>2, <2>3
<1>2. ASSUME index' = index PROVE index[s] # NoEntry /\ SamePlace(s)
  BY <1>2 DEF SamePlace
<1>3. CASE intraUserIndexUpdate_(t)
  <2>1. Current(t) \in Shares /\ pc[t] = "first"
    BY <1>3, CurrentType DEF intraUserIndexUpdate_, Current
  <2>2. CASE Owns(UserOf[t], Current(t))
    BY <1>1, <1>3, <2>1, <2>2 DEF intraUserIndexUpdate_, Current, Owns
  <2>3. CASE ~Owns(UserOf[t], Current(t))
    BY <1>2, <1>3, <2>3 DEF intraUserIndexUpdate_, Current
  <2> QED
    BY <2>2, <2>3
<1>4. CASE referenceShare(t)
  <2>1. Current(t) \in Shares
    BY <1>4, CurrentType DEF referenceShare, Current
  <2> QED
    BY <1>1, <1>4, <2>1 DEF referenceShare
<1>5. CASE putEntry(t)
  <2>1. Current(t) \in Shares
    BY <1>5, CurrentType DEF putEntry, Current
  <2>2. CASE s = Current(t)
    BY <1>5, <2>1, <2>2 DEF putEntry, TypeInv, TypeOK
  <2>3. CASE s # Current(t)
    BY <1>5, <2>1, <2>3 DEF putEntry, TypeInv, TypeOK, SamePlace
  <2> QED
    BY <1>5, <2>2, <2>3
<1>6. CASE recvMeta(t) \/ disconnect(t) \/ findBufferNode_(t) \/ createBufferNode_(t)
           \/ skipShare(t) \/ rejectShare(t) \/ missShare(t) \/ writeContainer(t)
           \/ renewContainer(t) \/ closeContainer(t) \/ copyShare(t)
  BY <1>2, <1>6 DEF recvMeta, disconnect, findBufferNode_, createBufferNode_, skipShare,
                    rejectShare, missShare, writeContainer, renewContainer, closeContainer,
                    copyShare, store
<1> QED
  BY <1>3, <1>4, <1>5, <1>6 DEF Step

\* No container name is used before it is handed out, no entry names a
\* container that is not, and a failed write leaves a file no longer than
\* the buffer it came from.
FreshNames ==
  /\ \A c \in Names : c >= nextName => disk[c] = <<>>
  /\ \A n \in link : Len(disk[node[n].container]) <= Len(node[n].buf)
  /\ \A s \in Shares : index[s] # NoEntry => index[s].container < nextName

LEMMA StepFresh ==
  ASSUME TypeInv, NodesInv, FreshNames, NEW t \in Threads, recvMeta(t) \/ Step(t)
  PROVE  FreshNames'
<1>1. nextName \in Nat /\ nextName' \in Nat /\ nextName <= nextName'
  BY NameStep
<1>2. ASSUME NEW c \in Names, c >= nextName PROVE disk'[c] = <<>>
  <2>1. c \in Nat /\ ~(c < nextName)
    BY <1>1, <1>2, NamesNat
  <2>2. disk'[c] = disk[c]
    BY <2>1, WrittenLive
  <2> QED
    BY <1>2, <2>2 DEF FreshNames
<1>3. ASSUME NEW c \in Names, c >= nextName' PROVE disk'[c] = <<>>
  BY <1>1, <1>2, <1>3, NamesNat
<1>4. ASSUME NEW n \in link' PROVE Len(disk'[node'[n].container]) <= Len(node'[n].buf)
  <2> DEFINE c == node'[n].container
  <2>1. c \in Names /\ node'[n].buf \in Seq(Shares)
    <3>1. TypeInv'
      BY StepType DEF Next
    <3> QED
      BY <3>1 DEF TypeInv, TypeOK, Node
  <2>2. CASE c = nextName /\ node'[n].buf = <<>>
    <3>1. disk'[c] = <<>>
      BY <1>1, <1>2, <2>1, <2>2, SMTT(60)
    <3> QED
      BY <2>2, <3>1
  <2>3. CASE n \in link /\ c = node[n].container
             /\ (node'[n].buf = node[n].buf \/ node'[n].buf = Append(node[n].buf, Current(t)))
    <3>1. n \in Names /\ node[n].buf \in Seq(Shares) /\ disk[c] \in Seq(Shares)
      BY <2>1, <2>3 DEF TypeInv, TypeOK, Node
    <3>2. Len(disk[c]) <= Len(node[n].buf)
      BY <2>3 DEF FreshNames
    <3>3. Len(node[n].buf) <= Len(node'[n].buf)
      BY <2>3, <3>1
    <3>4. CASE disk'[c] = disk[c]
      BY <2>1, <3>1, <3>2, <3>3, <3>4
    <3>5. CASE disk'[c] # disk[c]
      <4>1. ~\E t2 \in Threads : pc[t2] = "close" /\ pending[t2].container = c
        BY <2>3 DEF NodesInv, OneCloser, Live
      <4>2. PICK m \in link : /\ node' = node
                              /\ node[m].container = c
                              /\ \E k \in 0 .. Len(node[m].buf) :
                                   disk'[c] = SubSeq(node[m].buf, 1, k)
        BY <2>1, <3>5, <4>1, WrittenFiles, ZenonT(60)
      <4>3. m = n
        BY <2>3, <4>2 DEF NodesInv, OwnContainers
      <4>4. PICK k \in 0 .. Len(node[n].buf) : disk'[c] = SubSeq(node[n].buf, 1, k)
        BY <4>2, <4>3
      <4>5. Len(disk'[c]) = k
        BY <3>1, <4>4
      <4> QED
        BY <3>1, <4>2, <4>4, <4>5
    <3> QED
      BY <3>4, <3>5
  <2> QED
    BY <2>2, <2>3, LinkedContainers
<1>5. ASSUME NEW s \in Shares, index'[s] # NoEntry PROVE index'[s].container < nextName'
  <2>1. CASE index[s] # NoEntry /\ SamePlace(s)
    <3>1. index[s].container \in Nat /\ index[s].container < nextName
      BY <2>1, NamesNat DEF FreshNames, TypeInv, TypeOK, Entry
    <3> QED
      BY <1>1, <2>1, <3>1 DEF SamePlace
  <2>2. CASE putEntry(t) /\ index'[s].container = node[ptr[t]].container
    <3>1. ptr[t] \in link /\ ptr[t] \in Names
      BY <2>2 DEF putEntry, NodesInv, HoldsOwnNode, Using, HoldsNode, TypeInv, TypeOK
    <3>2. node[ptr[t]].container \in Nat /\ node[ptr[t]].container < nextName
      BY <3>1, NamesNat DEF NodesInv, OwnContainers, TypeInv, TypeOK, Node
    <3> QED
      BY <1>1, <2>2, <3>2
  <2> QED
    BY <1>5, <2>1, <2>2, EntryPlaces
<1> QED
  BY <1>3, <1>4, <1>5 DEF FreshNames

-----------------------------------------------------------------------------
(* A share that is stored stays stored, and stays where it is.             *)

LEMMA OpenFileStays ==
  ASSUME NEW t \in Threads, OthersStay(t), pc[t] # "close",
         NEW c, NEW o, NEW s, InOpenFile(c, o, s)
  PROVE  Stored(c, o, s)'
<1>1. PICK t2 \in Threads : /\ pc[t2] = "close"
                            /\ pending[t2].container = c
                            /\ o \in DOMAIN pending[t2].data
                            /\ pending[t2].data[o] = s
  BY DEF InOpenFile
<1>2. pc'[t2] = "close" /\ pending'[t2] = pending[t2]
  BY <1>1 DEF OthersStay
<1> QED
  BY <1>1, <1>2 DEF Stored, InOpenFile

LEMMA FileStays ==
  ASSUME NEW t \in Threads, OthersStay(t), NEW c, NEW o, NEW s, InFile(c, o, s),
         disk'[c] = disk[c], c < nextName',
         \A n \in link' : node'[n].container # c,
         pc'[t] = "close" => pending'[t].container # c
  PROVE  Stored(c, o, s)'
<1>1. ~BeingClosed(c)'
  BY DEF InFile, BeingClosed, OthersStay
<1>2. ~Live(c)'
  BY DEF Live
<1> QED
  BY <1>1, <1>2 DEF InFile, Stored

\* A step of a thread that neither copies nor closes, on unchanged buffers; it
\* may write the file of a container that has a buffer.
LEMMA StoredFrame ==
  ASSUME NEW t \in Threads, OthersStay(t), UNCHANGED <<node, link, nextName>>,
         \A d \in Names : ~Live(d) => disk'[d] = disk[d],
         pc[t] # "close", pc'[t] # "close",
         NEW c \in Names, NEW o, NEW s, Stored(c, o, s)
  PROVE  Stored(c, o, s)'
<1>1. CASE InBuffer(c, o, s)
  BY <1>1 DEF Stored, InBuffer
<1>2. CASE InOpenFile(c, o, s)
  BY <1>2, OpenFileStays
<1>3. CASE InFile(c, o, s)
  <2>1. ~Live(c) /\ c < nextName
    BY <1>3 DEF InFile
  <2>2. disk'[c] = disk[c] /\ c < nextName' /\ \A n \in link' : node'[n].container # c
    BY <2>1 DEF Live
  <2> QED
    BY <1>3, <2>2, FileStays
<1> QED
  BY <1>1, <1>2, <1>3 DEF Stored

LEMMA CopyKeepsStored ==
  ASSUME TypeInv, NodesInv, NEW t \in Threads, copyShare(t),
         NEW c, NEW o, NEW s, Stored(c, o, s)
  PROVE  Stored(c, o, s)'
<1> DEFINE p == ptr[t]
<1>1. OthersStay(t)
  BY StepLeavesOthers DEF Step
<1>2. UNCHANGED <<disk, link, nextName>> /\ pc[t] = "copy" /\ pc'[t] # "close"
  BY SMTT(60) DEF copyShare, NextShare, Return, Goto, TypeInv, TypeOK
<1>3. p \in Names /\ node[p].buf \in Seq(Shares) /\ Current(t) \in Shares /\ link \subseteq Names
  BY <1>2, CurrentType DEF TypeInv, TypeOK, Node, Current
<1>4. /\ \A n \in Names : n # p => node'[n] = node[n]
      /\ node'[p].container = node[p].container
      /\ node'[p].buf = Append(node[p].buf, Current(t))
  BY CopyEffect
<1>5. \A i \in DOMAIN node[p].buf : i \in DOMAIN node'[p].buf /\ node'[p].buf[i] = node[p].buf[i]
  <2>1. /\ node'[p].buf \in Seq(Shares) /\ Len(node'[p].buf) = Len(node[p].buf) + 1
        /\ \A i \in 1 .. Len(node[p].buf) : node'[p].buf[i] = node[p].buf[i]
    BY <1>3, <1>4, SeqAppend, SMTT(60)
  <2>2. DOMAIN node'[p].buf = 1 .. Len(node[p].buf) + 1
    BY <2>1
  <2>3. DOMAIN node[p].buf = 1 .. Len(node[p].buf) /\ Len(node[p].buf) \in Nat
    BY <1>3
  <2> QED
    BY <2>1, <2>2, <2>3, SMTT(60)
<1>6. \A n \in link : /\ node'[n].container = node[n].container
                      /\ \A i \in DOMAIN node[n].buf :
                           i \in DOMAIN node'[n].buf /\ node'[n].buf[i] = node[n].buf[i]
  BY <1>3, <1>4, <1>5
<1>7. CASE InBuffer(c, o, s)
  BY <1>2, <1>6, <1>7 DEF Stored, InBuffer
<1>8. CASE InOpenFile(c, o, s)
  BY <1>1, <1>2, <1>8, OpenFileStays
<1>9. CASE InFile(c, o, s)
  <2>1. c < nextName' /\ \A n \in link' : node'[n].container # c
    BY <1>2, <1>6, <1>9 DEF InFile, Live
  <2> QED
    BY <1>1, <1>2, <1>9, <2>1, FileStays
<1> QED
  BY <1>7, <1>8, <1>9 DEF Stored

LEMMA RenewKeepsStored ==
  ASSUME TypeInv, NodesInv, NEW t \in Threads, renewContainer(t),
         NEW c \in Names, NEW o, NEW s, Stored(c, o, s)
  PROVE  Stored(c, o, s)'
<1> DEFINE p == ptr[t]
<1>1. OthersStay(t)
  BY StepLeavesOthers DEF Step
<1>2. p \in link /\ p \in Names /\ pc[t] = "renew" /\ link \subseteq Names
  BY DEF renewContainer, NodesInv, HoldsOwnNode, Using, HoldsNode, TypeInv, TypeOK
<1>3. /\ UNCHANGED <<disk, link>>
      /\ nextName \in Nat /\ nextName' = nextName + 1
      /\ \A n \in Names : n # p => node'[n] = node[n]
      /\ node'[p].container = nextName
      /\ pc'[t] = "close"
      /\ pending'[t].container = node[p].container /\ pending'[t].data = node[p].buf
  BY <1>2, SMTT(60) DEF renewContainer, Goto, TypeInv, TypeOK, Node
<1>4. CASE InBuffer(c, o, s)
  <2>1. PICK n \in link : /\ node[n].container = c
                          /\ o \in DOMAIN node[n].buf
                          /\ node[n].buf[o] = s
    BY <1>4 DEF InBuffer
  <2>2. CASE n = p
    BY <1>3, <2>1, <2>2 DEF Stored, InOpenFile
  <2>3. CASE n # p
    <3>1. node'[n] = node[n] /\ n \in link'
      BY <1>2, <1>3, <2>3
    <3> QED
      BY <2>1, <3>1 DEF Stored, InBuffer
  <2> QED
    BY <2>2, <2>3
<1>5. CASE InOpenFile(c, o, s)
  BY <1>1, <1>2, <1>5, OpenFileStays
<1>6. CASE InFile(c, o, s)
  <2>1. c \in Nat /\ c < nextName /\ \A n \in link : node[n].container # c
    BY <1>6, NamesNat DEF InFile, Live
  <2>2. c # nextName /\ c < nextName'
    BY <1>3, <2>1, SMTT(60)
  <2>3. ASSUME NEW n \in link' PROVE node'[n].container # c
    <3>1. n \in link /\ n \in Names
      BY <1>2, <1>3
    <3>2. CASE n = p
      BY <1>3, <2>2, <3>2
    <3>3. CASE n # p
      <4>1. node'[n] = node[n]
        BY <1>3, <3>1, <3>3
      <4> QED
        BY <2>1, <3>1, <4>1
    <3> QED
      BY <3>2, <3>3
  <2>4. pending'[t].container # c
    <3>1. node[p].container # c
      BY <1>2, <2>1
    <3> QED
      BY <1>3, <3>1
  <2>5. disk'[c] = disk[c]
    BY <1>3
  <2> QED
    BY <1>1, <1>6, <2>2, <2>3, <2>4, <2>5, FileStays
<1> QED
  BY <1>4, <1>5, <1>6 DEF Stored

LEMMA CloseKeepsStored ==
  ASSUME TypeInv, NodesInv, NEW t \in Threads, closeContainer(t),
         NEW c \in Names, NEW o, NEW s, Stored(c, o, s)
  PROVE  Stored(c, o, s)'
<1> DEFINE d == pending[t].container
<1>1. OthersStay(t)
  BY StepLeavesOthers DEF Step
<1>2. /\ UNCHANGED <<node, link, nextName>>
      /\ pc[t] = "close" /\ pc'[t] = "put"
      /\ d \in Names /\ disk'[d] = pending[t].data
      /\ \A e \in Names : e # d => disk'[e] = disk[e]
  BY DEF closeContainer, Goto, TypeInv, TypeOK, File
<1>3. d < nextName /\ ~Live(d)
      /\ \A t2 \in Threads \ {t} : pc[t2] = "close" => pending[t2].container # d
  BY <1>2 DEF NodesInv, OneCloser
<1>4. CASE InBuffer(c, o, s)
  BY <1>2, <1>4 DEF Stored, InBuffer
<1>5. CASE InOpenFile(c, o, s)
  <2>1. PICK t2 \in Threads : /\ pc[t2] = "close"
                              /\ pending[t2].container = c
                              /\ o \in DOMAIN pending[t2].data
                              /\ pending[t2].data[o] = s
    BY <1>5 DEF InOpenFile
  <2>2. CASE t2 = t
    <3>1. ~BeingClosed(c)'
      BY <1>1, <1>2, <1>3, <2>1, <2>2 DEF BeingClosed, OthersStay
    <3>2. ~Live(c)'
      BY <1>2, <1>3, <2>1, <2>2 DEF Live
    <3> QED
      BY <1>2, <1>3, <2>1, <2>2, <3>1, <3>2 DEF Stored, InFile
  <2>3. CASE t2 # t
    <3>1. pc'[t2] = "close" /\ pending'[t2] = pending[t2]
      BY <1>1, <2>1, <2>3 DEF OthersStay
    <3> QED
      BY <2>1, <3>1 DEF Stored, InOpenFile
  <2> QED
    BY <2>2, <2>3
<1>6. CASE InFile(c, o, s)
  <2>1. c # d /\ c < nextName' /\ \A n \in link' : node'[n].container # c
    BY <1>2, <1>6 DEF InFile, BeingClosed, Live
  <2>2. disk'[c] = disk[c] /\ pc'[t] # "close"
    BY <1>2, <2>1
  <2> QED
    BY <1>1, <1>6, <2>1, <2>2, FileStays
<1> QED
  BY <1>4, <1>5, <1>6 DEF Stored

\* A new node is not one that is linked.
LEMMA CreateSpares ==
  ASSUME TypeInv, NodesInv, NEW t \in Threads, createBufferNode_(t), NEW n \in link
  PROVE  node'[n] = node[n]
<1>1. n \in Names /\ n < nextName
  BY DEF TypeInv, TypeOK, NodesInv, OwnContainers
<1>2. n # nextName
  BY <1>1, NamesNat
<1>3. node' = [node EXCEPT ![nextName] =
                 [user |-> UserOf[t], container |-> nextName, buf |-> <<>>]]
  BY DEF createBufferNode_
<1> QED
  BY <1>1, <1>2, <1>3 DEF TypeInv, TypeOK

LEMMA CreateKeepsStored ==
  ASSUME TypeInv, NodesInv, NEW t \in Threads, createBufferNode_(t),
         NEW c \in Names, NEW o, NEW s, Stored(c, o, s)
  PROVE  Stored(c, o, s)'
<1>1. OthersStay(t)
  BY StepLeavesOthers DEF Step
<1>2. /\ UNCHANGED disk
      /\ nextName \in Nat /\ nextName \in Names /\ nextName' = nextName + 1
      /\ link' = link \cup {nextName}
      /\ node'[nextName].container = nextName
      /\ pc[t] = "create" /\ pc'[t] = "share"
  BY ConstantsAssumption, SMTT(60) DEF createBufferNode_, Goto, TypeInv, TypeOK, Names
<1>3. \A n \in link : node'[n] = node[n]
  BY CreateSpares
<1>4. CASE InBuffer(c, o, s)
  BY <1>2, <1>3, <1>4 DEF Stored, InBuffer
<1>5. CASE InOpenFile(c, o, s)
  BY <1>1, <1>2, <1>5, OpenFileStays
<1>6. CASE InFile(c, o, s)
  <2>1. c \in Nat /\ c < nextName /\ \A n \in link : node[n].container # c
    BY <1>6, NamesNat DEF InFile, Live
  <2>2. c < nextName' /\ \A n \in link' : node'[n].container # c
    BY <1>2, <1>3, <2>1, SMTT(60)
  <2>3. disk'[c] = disk[c] /\ pc'[t] # "close"
    BY <1>2
  <2> QED
    BY <1>1, <1>6, <2>2, <2>3, FileStays
<1> QED
  BY <1>4, <1>5, <1>6 DEF Stored

LEMMA FindKeepsStored ==
  ASSUME TypeInv, NodesInv, ~FlushFaults, NEW t \in Threads, findBufferNode_(t),
         NEW c \in Names, NEW o, NEW s, Stored(c, o, s)
  PROVE  Stored(c, o, s)'
<1>1. OthersStay(t)
  BY StepLeavesOthers DEF Step
<1>2. PICK expired \in SUBSET MayExpire(t) :
        /\ \E kept \in WholeOrFaulty(expired) : disk' = Flushed(kept)
        /\ link' = link \ expired
  BY DEF findBufferNode_
<1>3. PICK kept \in WholeOrFaulty(expired) : disk' = Flushed(kept)
  BY <1>2
<1>4. UNCHANGED <<node, nextName, pending>> /\ pc[t] = "data" /\ pc'[t] # "close"
  BY DEF findBufferNode_, Goto, TypeInv, TypeOK
<1>5. /\ DOMAIN kept = expired /\ expired \in SUBSET link /\ link \in SUBSET Names
      /\ \A n \in expired : kept[n] = Len(node[n].buf)
  BY DEF WholeOrFaulty, MayExpire, TypeInv, TypeOK
<1> DEFINE of == {n \in DOMAIN kept : node[n].container = c /\ node[n].buf # <<>>}
<1>6. disk'[c] = IF of = {} THEN disk[c]
                 ELSE LET n == CHOOSE m \in of : TRUE IN SubSeq(node[n].buf, 1, kept[n])
  BY <1>3 DEF Flushed
<1>7. CASE InBuffer(c, o, s)
  <2>1. PICK n \in link : /\ node[n].container = c
                          /\ o \in DOMAIN node[n].buf
                          /\ node[n].buf[o] = s
    BY <1>7 DEF InBuffer
  <2>2. CASE n \notin expired
    <3>1. n \in link' /\ node'[n] = node[n]
      BY <1>2, <1>4, <2>2
    <3> QED
      BY <2>1, <3>1 DEF Stored, InBuffer
  <2>3. CASE n \in expired
    <3>1. n \in Names
      BY <1>5
    <3>2. node[n].buf \in Seq(Shares)
      BY <3>1 DEF TypeInv, TypeOK, Node
    <3>3. node[n].buf # <<>>
      BY <2>1, <3>2
    <3>4. \A m \in link : node[m].container = c => m = n
      BY <2>1 DEF NodesInv, OwnContainers
    <3>5. of = {n}
      BY <1>5, <2>1, <2>3, <3>3, <3>4
    <3>6. (CHOOSE m \in of : TRUE) = n
      BY <3>5
    <3>7. disk'[c] = SubSeq(node[n].buf, 1, Len(node[n].buf))
      BY <1>5, <1>6, <2>3, <3>5, <3>6
    <3>8. disk'[c] = node[n].buf
      BY <3>2, <3>7, SeqWhole
    <3>9. ~Live(c)'
      BY <1>2, <1>4, <2>3, <3>4 DEF Live
    <3>10. Live(c) /\ c < nextName
      BY <2>1 DEF Live, NodesInv, OwnContainers
    <3>11. ~BeingClosed(c)'
      BY <1>1, <1>4, <3>10 DEF BeingClosed, NodesInv, OneCloser, OthersStay
    <3> QED
      BY <1>4, <2>1, <3>8, <3>9, <3>10, <3>11 DEF Stored, InFile
  <2> QED
    BY <2>2, <2>3
<1>8. CASE InOpenFile(c, o, s)
  BY <1>1, <1>4, <1>8, OpenFileStays
<1>9. CASE InFile(c, o, s)
  <2>1. c < nextName /\ \A n \in link : node[n].container # c
    BY <1>9 DEF InFile, Live
  <2>2. of = {}
    BY <1>5, <2>1
  <2>3. disk'[c] = disk[c]
    BY <1>6, <2>2
  <2>4. c < nextName' /\ \A n \in link' : node'[n].container # c
    BY <1>2, <1>4, <2>1
  <2>5. pc'[t] # "close"
    BY <1>4
  <2> QED
    BY <1>1, <1>9, <2>3, <2>4, <2>5, FileStays
<1> QED
  BY <1>7, <1>8, <1>9 DEF Stored

LEMMA StepStored ==
  ASSUME TypeInv, NodesInv, ~FlushFaults, [Next]_vars,
         NEW c \in Names, NEW o, NEW s, Stored(c, o, s)
  PROVE  Stored(c, o, s)'
<1>1. ASSUME NEW t \in Threads, recvMeta(t) \/ Step(t)
      PROVE  Stored(c, o, s)'
  <2>1. OthersStay(t)
    BY <1>1, StepLeavesOthers
  <2>2. ASSUME UNCHANGED <<disk, node, link, nextName>>, pc[t] # "close", pc'[t] # "close"
        PROVE  Stored(c, o, s)'
    BY <2>1, <2>2, StoredFrame
  <2>3. ASSUME Return(t) PROVE pc'[t] # "close"
    BY <2>3 DEF Return, Goto, TypeInv, TypeOK
  <2>4. ASSUME NextShare(t) PROVE pc'[t] # "close"
    BY <2>3, <2>4 DEF NextShare, Goto, TypeInv, TypeOK
  <2>5. CASE recvMeta(t) \/ intraUserIndexUpdate_(t)
    <3>1. UNCHANGED <<disk, node, link, nextName>>
      BY <2>5 DEF recvMeta, intraUserIndexUpdate_, store
    <3>2. pc[t] # "close" /\ pc'[t] # "close"
      BY <2>5 DEF recvMeta, intraUserIndexUpdate_, Goto, TypeInv, TypeOK
    <3> QED
      BY <2>2, <3>1, <3>2
  <2>6. CASE missShare(t) \/ putEntry(t)
    <3>1. UNCHANGED <<disk, node, link, nextName>>
      BY <2>6 DEF missShare, putEntry, store
    <3>2. pc[t] # "close" /\ pc'[t] # "close"
      BY <2>6 DEF missShare, putEntry, Goto, TypeInv, TypeOK
    <3> QED
      BY <2>2, <3>1, <3>2
  <2>7. CASE disconnect(t) \/ rejectShare(t) \/ skipShare(t) \/ referenceShare(t)
    <3>1. UNCHANGED <<disk, node, link, nextName>>
      BY <2>7 DEF disconnect, rejectShare, skipShare, referenceShare, store
    <3>2. pc[t] # "close" /\ (Return(t) \/ NextShare(t))
      BY <2>7 DEF disconnect, rejectShare, skipShare, referenceShare
    <3> QED
      BY <2>2, <2>3, <2>4, <3>1, <3>2
  <2>8. CASE writeContainer(t)
    <3>1. pc[t] = "store" /\ UNCHANGED <<node, link, nextName>>
      BY <2>8 DEF writeContainer
    <3>2. Live(node[ptr[t]].container)
      BY <3>1 DEF NodesInv, HoldsOwnNode, Using, HoldsNode, Live
    <3>3. \A d \in Names : ~Live(d) => disk'[d] = disk[d]
      BY <2>8, <3>2 DEF writeContainer, TypeInv, TypeOK
    <3>4. pc'[t] # "close"
      BY <2>3, <2>8 DEF writeContainer, Goto, TypeInv, TypeOK
    <3> QED
      BY <2>1, <3>1, <3>3, <3>4, StoredFrame
  <2>9. CASE findBufferNode_(t)
    BY <2>9, FindKeepsStored
  <2>10. CASE createBufferNode_(t)
    BY <2>10, CreateKeepsStored
  <2>11. CASE renewContainer(t)
    BY <2>11, RenewKeepsStored
  <2>12. CASE closeContainer(t)
    BY <2>12, CloseKeepsStored
  <2>13. CASE copyShare(t)
    BY <2>13, CopyKeepsStored
  <2> QED
    BY <1>1, <2>5, <2>6, <2>7, <2>8, <2>9, <2>10, <2>11, <2>12, <2>13 DEF Step
<1>2. CASE UNCHANGED vars
  BY <1>2 DEF vars, Stored, InBuffer, InOpenFile, InFile, Live, BeingClosed
<1> QED
  BY <1>1, <1>2 DEF Next, Quiet

\* A restore that looks for the container finds the share, unless it opens the
\* file before it is closed.
LEMMA StoredIsRead ==
  ASSUME NodesInv, NEW c, NEW o, NEW s, Stored(c, o, s), ~BeingClosed(c)
  PROVE  o \in DOMAIN ReadContainer(c) /\ ReadContainer(c)[o] = s
<1>1. CASE InBuffer(c, o, s)
  <2>1. PICK n \in link : /\ node[n].container = c
                          /\ o \in DOMAIN node[n].buf
                          /\ node[n].buf[o] = s
    BY <1>1 DEF InBuffer
  <2>2. Live(c)
    BY <2>1 DEF Live
  <2>3. (CHOOSE m \in link : node[m].container = c) = n
    BY <2>1 DEF NodesInv, OwnContainers
  <2>4. ReadContainer(c) = node[n].buf
    BY <2>2, <2>3 DEF ReadContainer
  <2> QED
    BY <2>1, <2>4
<1>2. CASE InOpenFile(c, o, s)
  BY <1>2 DEF InOpenFile, BeingClosed
<1>3. CASE InFile(c, o, s)
  BY <1>3 DEF InFile, ReadContainer
<1> QED
  BY <1>1, <1>2, <1>3 DEF Stored

-----------------------------------------------------------------------------
(* Every entry leads to its share.                                         *)

\* No step changes the node of another thread.
LEMMA NodeStays ==
  ASSUME TypeInv, NodesInv, NodeOfItsOwn, NEW t \in Threads, recvMeta(t) \/ Step(t),
         NEW t2 \in Threads, t2 # t, Using(t2)
  PROVE  node'[ptr[t2]] = node[ptr[t2]]
<1>1. ptr[t2] \in link /\ ptr[t2] \in Names
  BY DEF NodesInv, HoldsOwnNode, TypeInv, TypeOK
<1>2. CASE createBufferNode_(t)
  BY <1>1, <1>2, CreateSpares
<1>3. ASSUME Using(t) PROVE ptr[t2] # ptr[t]
  BY <1>3, OwnPointers DEF NodesInv, NodeOfItsOwn
<1>4. CASE renewContainer(t)
  <2>1. Using(t)
    BY <1>4 DEF renewContainer, Using, HoldsNode
  <2> QED
    BY <1>1, <1>3, <1>4, <2>1 DEF renewContainer, TypeInv, TypeOK
<1>5. CASE copyShare(t)
  <2>1. Using(t)
    BY <1>5 DEF copyShare, Using, HoldsNode
  <2> QED
    BY <1>1, <1>3, <1>5, <2>1, CopyEffect
<1>6. CASE ~createBufferNode_(t) /\ ~renewContainer(t) /\ ~copyShare(t)
  <2>1. node' = node
    BY <1>6 DEF recvMeta, Step, intraUserIndexUpdate_, disconnect, findBufferNode_,
                       skipShare, rejectShare, referenceShare, missShare, writeContainer,
                       closeContainer, putEntry, store, local
  <2> QED
    BY <2>1
<1> QED
  BY <1>2, <1>4, <1>5, <1>6

LEMMA StepPlaces ==
  ASSUME TypeInv, NodesInv, AllPlaced, Undisturbed, [Next]_vars
  PROVE  AllPlaced'
<1>1. ASSUME NEW t \in Threads, recvMeta(t) \/ Step(t), NEW s \in Shares, index'[s] # NoEntry
      PROVE  Placed(s)'
  <2>1. OthersStay(t)
    BY <1>1, StepLeavesOthers
  <2>2. CASE /\ putEntry(t) /\ s = Current(t)
             /\ index'[s].container = node[ptr[t]].container
             /\ index'[s].offset = Len(node[ptr[t]].buf) + 1
    <3>1. pc'[t] = "copy" /\ node' = node /\ ptr' = ptr /\ batch' = batch /\ pos' = pos
      BY <2>2 DEF putEntry, Goto, local, TypeInv, TypeOK
    <3>2. Current(t)' = s
      BY <2>2, <3>1 DEF Current
    <3>3. AboutToBeCopied(s)'
      BY <2>2, <3>1, <3>2 DEF AboutToBeCopied
    <3> QED
      BY <3>3 DEF Placed
  <2>3. CASE index[s] # NoEntry /\ SamePlace(s)
    <3>1. Placed(s) /\ index[s].container \in Names /\ index[s].offset \in Nat
      BY <2>3 DEF AllPlaced, TypeInv, TypeOK, Entry
    <3>2. PICK c \in Names, o \in Nat : c = index[s].container /\ o = index[s].offset
      BY <3>1
    <3>3. index'[s].container = c /\ index'[s].offset = o
      BY <2>3, <3>2 DEF SamePlace
    <3>4. SUFFICES Stored(c, o, s)' \/ AboutToBeCopied(s)'
      BY <3>3 DEF Placed, Stored, InBuffer, InOpenFile, InFile, Live, BeingClosed
    <3>5. CASE Stored(index[s].container, index[s].offset, s)
      <4>1. Stored(c, o, s)
        BY <3>2, <3>5
      <4>2. ~FlushFaults /\ [Next]_vars
        BY DEF Undisturbed
      <4> QED
        BY <4>1, <4>2, StepStored
    <3>6. CASE AboutToBeCopied(s)
      <4>1. PICK t2 \in Threads : /\ pc[t2] = "copy"
                                  /\ Current(t2) = s
                                  /\ c = node[ptr[t2]].container
                                  /\ o = Len(node[ptr[t2]].buf) + 1
        BY <3>2, <3>6 DEF AboutToBeCopied
      <4>2. CASE t2 = t
        <5>1. copyShare(t)
          BY <1>1, <4>1, <4>2
             DEF recvMeta, Step, intraUserIndexUpdate_, disconnect, findBufferNode_,
                                  createBufferNode_, skipShare, rejectShare, referenceShare,
                                  missShare, writeContainer, renewContainer, closeContainer, putEntry
        <5>2. ptr[t] \in link /\ node[ptr[t]].buf \in Seq(Shares) /\ link' = link
          BY <4>1, <4>2, <5>1
             DEF copyShare, NodesInv, HoldsOwnNode, Using, HoldsNode, TypeInv, TypeOK, Node
        <5>3. /\ node'[ptr[t]].container = c
              /\ node'[ptr[t]].buf = Append(node[ptr[t]].buf, s)
          <6>1. /\ node'[ptr[t]].container = node[ptr[t]].container
                /\ node'[ptr[t]].buf = Append(node[ptr[t]].buf, Current(t))
            BY <5>1, CopyEffect
          <6> QED
            BY <4>1, <4>2, <6>1
        <5>4. o \in DOMAIN node'[ptr[t]].buf /\ node'[ptr[t]].buf[o] = s
          <6>1. PICK b \in Seq(Shares) : b = node[ptr[t]].buf
            BY <5>2
          <6>2. Len(b) + 1 \in DOMAIN Append(b, s) /\ Append(b, s)[Len(b) + 1] = s
            OBVIOUS
          <6>3. o = Len(b) + 1 /\ node'[ptr[t]].buf = Append(b, s)
            BY <4>1, <4>2, <5>3, <6>1
          <6> QED
            BY <6>2, <6>3
        <5>5. InBuffer(c, o, s)'
          BY <5>2, <5>3, <5>4 DEF InBuffer
        <5> QED
          BY <5>5 DEF Stored
      <4>3. CASE t2 # t
        <5>1. pc'[t2] = "copy" /\ ptr'[t2] = ptr[t2] /\ Current(t2)' = s
          BY <2>1, <4>1, <4>3 DEF OthersStay, Current
        <5>2. node'[ptr[t2]] = node[ptr[t2]]
          BY <1>1, <4>1, <4>3, NodeStays DEF Undisturbed, Using, HoldsNode
        <5> QED
          BY <3>3, <4>1, <5>1, <5>2 DEF AboutToBeCopied
      <4> QED
        BY <4>2, <4>3
    <3> QED
      BY <3>1, <3>5, <3>6 DEF Placed
  <2> QED
    BY <1>1, <2>2, <2>3, EntryPlaces
<1>2. CASE UNCHANGED vars
  BY <1>2, ZenonT(60) DEF vars, AllPlaced, Placed, AboutToBeCopied, Stored, InBuffer, InOpenFile, InFile,
              Live, BeingClosed, Current
<1> QED
  BY <1>1, <1>2 DEF Next, Quiet, AllPlaced

LEMMA PlacedRestorable ==
  ASSUME NodesInv, AllPlaced
  PROVE  IndexedRestorable
<1> SUFFICES ASSUME NEW s \in Shares, index[s] # NoEntry
             PROVE  Restorable(s) \/ BeingCopied(s) \/ BeingClosed(index[s].container)
  BY DEF IndexedRestorable
<1>1. CASE AboutToBeCopied(s)
  BY <1>1 DEF AboutToBeCopied, BeingCopied
<1>2. CASE Stored(index[s].container, index[s].offset, s)
  BY <1>2, StoredIsRead DEF Restorable
<1>3. Placed(s)
  BY DEF AllPlaced
<1> QED
  BY <1>1, <1>2, <1>3 DEF Placed

\* When users have one connection at a time, second stages are short and
\* expired buffers are written, every share in the index can be restored from
\* a buffer or a container file, except between the Put of its entry and the
\* copy of its bytes, and between the renewal of its buffer and the fclose of
\* its container file: for any number of users, threads, shares and names.
THEOREM ServerKeepsShares ==
  ASSUME Undisturbed
  PROVE  Spec => []IndexedRestorable
<1>1. Init => SafeInv
  <2>1. Init => TypeInv
    BY InitType
  <2>2. Init => HoldsOwnNode /\ OwnContainers /\ OneCloser /\ AllPlaced
    BY DEF Init, HoldsOwnNode, OwnContainers, OneCloser, AllPlaced, Using, HoldsNode
  <2> QED
    BY <2>1, <2>2 DEF SafeInv
<1>2. SafeInv /\ [Next]_vars => SafeInv'
  BY StepType, StepNodes, StepPlaces DEF SafeInv, NodesInv, Undisturbed
<1>3. SafeInv => IndexedRestorable
  BY PlacedRestorable DEF SafeInv, NodesInv
<1> QED
  BY <1>1, <1>2, <1>3, PTL DEF Spec

-----------------------------------------------------------------------------
(* The bytes that an entry leads to.                                       *)

\* A sequence that reaches the place of an entry has the entry's share there.
Agrees(q, s) == index[s].offset \in DOMAIN q => q[index[s].offset] = s

\* The buffer has the share of the entry, or a thread is about to append it.
Filled(n, s) ==
  \/ index[s].offset \in DOMAIN node[n].buf
  \/ \E t \in Threads : /\ pc[t] = "copy" /\ ptr[t] = n /\ Current(t) = s
                        /\ index[s].offset = Len(node[n].buf) + 1

BytesOf(s) ==
  LET c == index[s].container
  IN  /\ Agrees(disk[c], s)
      /\ \A n \in link : node[n].container = c => Agrees(node[n].buf, s) /\ Filled(n, s)
      /\ \A t \in Threads : pc[t] = "close" /\ pending[t].container = c => Agrees(pending[t].data, s)

BytesInv == \A s \in Shares : index[s] # NoEntry => BytesOf(s)

LEMMA PutBytes ==
  ASSUME TypeInv, NodesInv, FreshNames, NEW t \in Threads, putEntry(t), NEW s \in Shares,
         s = Current(t), index'[s].container = node[ptr[t]].container,
         index'[s].offset = Len(node[ptr[t]].buf) + 1
  PROVE  BytesOf(s)'
<1> DEFINE p == ptr[t]
           c == node[p].container
<1>1. p \in link /\ p \in Names /\ c \in Names /\ node[p].buf \in Seq(Shares) /\ disk[c] \in Seq(Shares)
  BY DEF putEntry, NodesInv, HoldsOwnNode, Using, HoldsNode, TypeInv, TypeOK, Node
<1>2. /\ UNCHANGED <<disk, node, link, pending, ptr, batch, pos>>
      /\ pc'[t] = "copy" /\ pc[t] = "put"
  BY DEF putEntry, Goto, local, TypeInv, TypeOK
<1>3. Len(disk[c]) <= Len(node[p].buf)
  BY <1>1 DEF FreshNames
<1>4. index'[s].offset \notin DOMAIN disk[c] /\ index'[s].offset \notin DOMAIN node[p].buf
  BY <1>1, <1>3
<1>5. \A n \in link : node[n].container = c => n = p
  BY <1>1 DEF NodesInv, OwnContainers
<1>6. Filled(p, s)'
  BY <1>2 DEF Filled, Current
<1>7. \A t2 \in Threads : pc'[t2] = "close" => pending[t2].container # c
  <2> SUFFICES ASSUME NEW t2 \in Threads, pc'[t2] = "close" PROVE pending[t2].container # c
    OBVIOUS
  <2>1. pc[t2] = "close"
    BY <1>2, StepLeavesOthers DEF OthersStay, Step
  <2> QED
    BY <1>1, <2>1 DEF NodesInv, OneCloser, Live
<1>8. Agrees(disk[c], s)' /\ Agrees(node[p].buf, s)'
  BY <1>2, <1>4 DEF Agrees
<1> QED
  BY <1>2, <1>5, <1>6, <1>7, <1>8 DEF BytesOf

LEMMA AgreesPrefix ==
  ASSUME NEW s \in Shares, NEW q \in Seq(Shares), NEW k \in 0 .. Len(q), Agrees(q, s)
  PROVE  Agrees(SubSeq(q, 1, k), s)
<1>1. /\ SubSeq(q, 1, k) \in Seq(Shares) /\ Len(SubSeq(q, 1, k)) = k
      /\ \A j \in 1 .. k : SubSeq(q, 1, k)[j] = q[j]
  OBVIOUS
<1> QED
  BY <1>1, SMTT(60) DEF Agrees

LEMMA KeepBytes ==
  ASSUME TypeInv, NodesInv, FreshNames, OneConnectionPerUser,
         NEW t \in Threads, recvMeta(t) \/ Step(t),
         NEW s \in Shares, index[s] # NoEntry, SamePlace(s), BytesOf(s)
  PROVE  BytesOf(s)'
<1> DEFINE c == index[s].container
           o == index[s].offset
<1>1. c \in Names /\ c \in Nat /\ c < nextName /\ nextName \in Nat /\ o \in Nat
  BY NamesNat, NameStep DEF FreshNames, TypeInv, TypeOK, Entry
<1>2. /\ Agrees(disk[c], s)
      /\ \A n \in link : node[n].container = c => Agrees(node[n].buf, s) /\ Filled(n, s)
      /\ \A t2 \in Threads : pc[t2] = "close" /\ pending[t2].container = c => Agrees(pending[t2].data, s)
  BY DEF BytesOf
<1>3. index'[s].container = c /\ index'[s].offset = o
  BY DEF SamePlace
<1> DEFINE Now(q) == o \in DOMAIN q => q[o] = s
<1>4. ASSUME NEW n \in link, node[n].container = c
      PROVE  n \in Names /\ node[n].buf \in Seq(Shares) /\ Now(node[n].buf) /\ Filled(n, s)
  BY <1>2, <1>4 DEF Agrees, TypeInv, TypeOK, Node
<1>5. Now(disk'[c])
  <2>1. CASE disk'[c] = disk[c]
    BY <1>2, <2>1 DEF Agrees
  <2>2. ASSUME NEW n \in link, node[n].container = c,
               NEW k \in 0 .. Len(node[n].buf), disk'[c] = SubSeq(node[n].buf, 1, k)
        PROVE  Now(disk'[c])
    BY <1>4, <2>2, AgreesPrefix DEF Agrees
  <2>3. CASE pc[t] = "close" /\ pending[t].container = c /\ disk'[c] = pending[t].data
    BY <1>2, <2>3 DEF Agrees
  <2> QED
    BY <1>1, <2>1, <2>2, <2>3, WrittenFiles
<1>6. ASSUME NEW n \in link', node'[n].container = c
      PROVE  Now(node'[n].buf) /\ Filled(n, s)'
  <2>1. n \in link /\ node[n].container = c
    BY <1>1, <1>6, LinkedContainers
  <2>2. n \in Names /\ node[n].buf \in Seq(Shares) /\ Now(node[n].buf)
    BY <1>4, <2>1
  <2>3. ASSUME NEW t2 \in Threads, t2 # t, pc[t2] = "copy", ptr[t2] = n, Current(t2) = s
        PROVE  pc'[t2] = "copy" /\ ptr'[t2] = n /\ Current(t2)' = s
    BY <2>3, StepLeavesOthers, SMTT(60) DEF OthersStay, Current
  <2>4. CASE node'[n].buf = node[n].buf /\ (copyShare(t) => n # ptr[t])
    <3>1. CASE o \in DOMAIN node[n].buf
      BY <1>3, <2>2, <2>4, <3>1 DEF Filled
    <3>2. CASE o \notin DOMAIN node[n].buf
      <4>1. PICK t2 \in Threads : /\ pc[t2] = "copy" /\ ptr[t2] = n /\ Current(t2) = s
                                  /\ o = Len(node[n].buf) + 1
        BY <1>4, <2>1, <3>2 DEF Filled
      <4>2. pc[t] = "copy" => copyShare(t)
        BY DEF recvMeta, Step, intraUserIndexUpdate_, disconnect, findBufferNode_,
               createBufferNode_, skipShare, rejectShare, referenceShare, missShare,
               writeContainer, renewContainer, closeContainer, putEntry
      <4>3. t2 # t
        BY <2>4, <4>1, <4>2
      <4> QED
        BY <1>3, <2>3, <2>4, <3>2, <4>1, <4>3 DEF Filled
    <3> QED
      BY <3>1, <3>2
  <2>5. CASE copyShare(t) /\ n = ptr[t] /\ node'[n].buf = Append(node[n].buf, Current(t))
    <3>1. Current(t) \in Shares
      BY <2>5, CurrentType DEF copyShare, Current
    <3>2. CASE o \in DOMAIN node[n].buf
      <4>1. o \in DOMAIN node'[n].buf /\ node'[n].buf[o] = node[n].buf[o]
        BY <2>2, <2>5, <3>1, <3>2
      <4> QED
        BY <1>3, <2>2, <3>2, <4>1 DEF Filled
    <3>3. CASE o \notin DOMAIN node[n].buf
      <4>1. PICK t2 \in Threads : /\ pc[t2] = "copy" /\ ptr[t2] = n /\ Current(t2) = s
                                  /\ o = Len(node[n].buf) + 1
        BY <1>4, <2>1, <3>3 DEF Filled
      <4>2. t2 = t
        BY <2>5, <4>1, OwnPointers DEF NodesInv, copyShare, Using, HoldsNode
      <4>3. o \in DOMAIN node'[n].buf /\ node'[n].buf[o] = s
        BY <2>2, <2>5, <3>1, <4>1, <4>2, SMTT(60)
      <4> QED
        BY <1>3, <4>3 DEF Filled
    <3> QED
      BY <3>2, <3>3
  <2>6. nextName # c
    BY <1>1, SMTT(60)
  <2> QED
    BY <1>6, <2>4, <2>5, <2>6, LinkedContainers
<1>7. ASSUME NEW t2 \in Threads, pc'[t2] = "close", pending'[t2].container = c
      PROVE  Now(pending'[t2].data)
  <2>1. CASE pc[t2] = "close" /\ pending'[t2] = pending[t2]
    BY <1>2, <1>7, <2>1 DEF Agrees
  <2>2. ASSUME NEW n \in link, pending'[t2].container = node[n].container, pending'[t2].data = node[n].buf
        PROVE  Now(pending'[t2].data)
    BY <1>4, <1>7, <2>2
  <2> QED
    BY <1>7, <2>1, <2>2, ClosersAfter
<1> QED
  BY <1>3, <1>5, <1>6, <1>7 DEF BytesOf, Agrees

LEMMA StepBytes ==
  ASSUME TypeInv, NodesInv, FreshNames, BytesInv, OneConnectionPerUser,
         NEW t \in Threads, recvMeta(t) \/ Step(t)
  PROVE  BytesInv'
<1> SUFFICES ASSUME NEW s \in Shares, index'[s] # NoEntry PROVE BytesOf(s)'
  BY DEF BytesInv
<1>1. CASE index[s] # NoEntry /\ SamePlace(s)
  BY <1>1, KeepBytes DEF BytesInv
<1>2. CASE ~(index[s] # NoEntry /\ SamePlace(s))
  BY <1>2, EntryPlaces, PutBytes
<1> QED
  BY <1>1, <1>2

LEMMA InitSafe ==
  Init => NodesInv /\ FreshNames /\ BytesInv
<1> SUFFICES ASSUME Init PROVE NodesInv /\ FreshNames /\ BytesInv
  OBVIOUS
<1>1. NodesInv
  BY DEF Init, NodesInv, HoldsOwnNode, OwnContainers, OneCloser, Using, HoldsNode
<1>2. FreshNames /\ BytesInv
  BY DEF Init, FreshNames, BytesInv
<1> QED
  BY <1>1, <1>2

LEMMA StepSafe ==
  ASSUME NodeOfItsOwn, TypeInv, NodesInv, FreshNames, BytesInv, [Next]_vars
  PROVE  NodesInv' /\ FreshNames' /\ BytesInv'
<1>1. NodesInv'
  BY StepNodes
<1>2. ASSUME NEW t \in Threads, recvMeta(t) \/ Step(t) PROVE FreshNames' /\ BytesInv'
  BY <1>2, StepFresh, StepBytes DEF NodeOfItsOwn
<1>3. CASE UNCHANGED vars
  <2>1. FreshNames'
    BY <1>3 DEF vars, FreshNames
  <2>2. UNCHANGED <<index, disk, node, link, pc, batch, pos, ptr, pending>>
    BY <1>3 DEF vars
  <2>3. ASSUME NEW s \in Shares, index'[s] # NoEntry PROVE BytesOf(s)'
    <3>1. BytesOf(s)
      BY <2>2, <2>3 DEF BytesInv
    <3> QED
      BY <2>2, <3>1 DEF BytesOf, Agrees, Filled, Current
  <2>4. BytesInv'
    BY <2>3 DEF BytesInv
  <2> QED
    BY <1>1, <2>1, <2>4
<1> QED
  BY <1>1, <1>2, <1>3 DEF Next, Quiet

LEMMA BytesRead ==
  ASSUME TypeInv, NodesInv, BytesInv
  PROVE  NoForeignBytes
<1> SUFFICES ASSUME NEW s \in Shares, index[s] # NoEntry,
                    index[s].offset \in DOMAIN ReadContainer(index[s].container)
             PROVE  ReadContainer(index[s].container)[index[s].offset] = s
  BY DEF NoForeignBytes
<1> DEFINE c == index[s].container
<1>1. BytesOf(s)
  BY DEF BytesInv
<1>2. CASE Live(c)
  <2> DEFINE n == CHOOSE m \in link : node[m].container = c
  <2>1. n \in link /\ node[n].container = c
    BY <1>2 DEF Live
  <2>2. ReadContainer(c) = node[n].buf
    BY <1>2 DEF ReadContainer
  <2> QED
    BY <1>1, <2>1, <2>2 DEF BytesOf, Agrees
<1>3. CASE ~Live(c)
  BY <1>1, <1>3 DEF BytesOf, Agrees, ReadContainer
<1> QED
  BY <1>2, <1>3

\* When users have one connection at a time and second stages are short, a
\* buffer or a container file that reaches the place that an index entry names
\* has the entry's share there, also when the write of an expired buffer fails
\* part of the way.
THEOREM ServerMixesNoBytes ==
  ASSUME NodeOfItsOwn
  PROVE  Spec => []NoForeignBytes
<1> DEFINE Inv == TypeInv /\ NodesInv /\ FreshNames /\ BytesInv
<1>1. Init => Inv
  BY InitType, InitSafe
<1>2. Inv /\ [Next]_vars => Inv'
  BY StepType, StepSafe
<1>3. Inv => NoForeignBytes
  BY BytesRead
<1> QED
  BY <1>1, <1>2, <1>3, PTL DEF Spec

\* Under the same assumptions no container file is opened with "wb" again once
\* it is closed: a step neither changes it nor gives its name to a buffer.
THEOREM ServerWritesOnce ==
  ASSUME NodeOfItsOwn
  PROVE  Spec => ContainersWrittenOnce
<1> DEFINE Inv == TypeInv /\ NodesInv /\ FreshNames /\ BytesInv
           StaysAsIs == \A c \in Names : disk[c] # <<>> /\ ~Live(c) /\ ~BeingClosed(c)
                                      => disk'[c] = disk[c] /\ ~Live(c)'
<1>1. Init => Inv
  BY InitType, InitSafe
<1>2. Inv /\ [Next]_vars => Inv'
  BY StepType, StepSafe
<1>3. Inv /\ [Next]_vars => [StaysAsIs]_vars
  <2> SUFFICES ASSUME Inv, [Next]_vars,
                      NEW c \in Names, disk[c] # <<>>, ~Live(c), ~BeingClosed(c)
               PROVE  (disk'[c] = disk[c] /\ ~Live(c)') \/ UNCHANGED vars
    OBVIOUS
  <2>1. ASSUME NEW t \in Threads, recvMeta(t) \/ Step(t) PROVE disk'[c] = disk[c] /\ ~Live(c)'
    <3>1. disk'[c] = disk[c]
      BY <2>1, WrittenLive
    <3>2. ASSUME NEW n \in link', node'[n].container = c PROVE FALSE
      <4>1. CASE n \in link /\ node'[n].container = node[n].container
        BY <3>2, <4>1 DEF Live
      <4>2. CASE c = nextName
        <5>1. c >= nextName
          BY <4>2, NamesNat
        <5> QED
          BY <5>1 DEF FreshNames
      <4> QED
        BY <2>1, <3>2, <4>1, <4>2, LinkedContainers
    <3> QED
      BY <3>1, <3>2 DEF Live
  <2> QED
    BY <2>1 DEF Next, Quiet
<1> QED
  BY <1>1, <1>2, <1>3, PTL DEF Spec, ContainersWrittenOnce
=============================================================================
