-------------------------- MODULE ShareIndex_proofs ---------------------------
(***************************************************************************)
(* Proofs about ShareIndex: its types; which nodes and containers the      *)
(* threads hold, when no user has two connections at a time and no second  *)
(* stage lasts MAX_BUFFER_WAIT_SECS; and, whatever the threads do, what    *)
(* the server's answers mean for a client, and, with the history of        *)
(* ShareHistory, how often a connection stores a share.                    *)
(***************************************************************************)
EXTENDS Integers, ShareHistory, TLAPS

\* A step that names no prover is for Zenon, then for the SMT solver, with time to
\* spare.
USE ZenonT(30), SMTT(60)

------------------------------------------------------------------------------
(* Sequences.                                                               *)

\* What a sequence of items holds at a position of it is an item.
LEMMA SeqItem ==
  ASSUME NEW T, NEW s \in Seq(T), NEW i \in 1 .. Len(s)
  PROVE  s[i] \in T
OBVIOUS

\* A sequence is a function on the positions up to its length.
LEMMA SeqLen ==
  ASSUME NEW T, NEW s \in Seq(T)
  PROVE  Len(s) \in Nat /\ DOMAIN s = 1 .. Len(s) /\ s \in [1 .. Len(s) -> T]
OBVIOUS

\* The items of two sequences, one after the other.
LEMMA SeqConcat ==
  ASSUME NEW T, NEW s \in Seq(T), NEW t \in Seq(T)
  PROVE  /\ s \o t \in Seq(T)
         /\ Len(s \o t) = Len(s) + Len(t)
         /\ \A i \in 1 .. Len(s) + Len(t) :
              (s \o t)[i] = IF i <= Len(s) THEN s[i] ELSE t[i - Len(s)]
OBVIOUS

\* The items between two positions.
LEMMA SeqPart ==
  ASSUME NEW T, NEW s, NEW a \in Int, NEW b \in Int, \A i \in a .. b : s[i] \in T
  PROVE  /\ SubSeq(s, a, b) \in Seq(T)
         /\ Len(SubSeq(s, a, b)) = IF a <= b THEN b - a + 1 ELSE 0
         /\ \A i \in 1 .. b - a + 1 : SubSeq(s, a, b)[i] = s[a + i - 1]
OBVIOUS

\* A sequence with one item more.
LEMMA SeqAppend ==
  ASSUME NEW T, NEW s \in Seq(T), NEW x \in T
  PROVE  /\ Append(s, x) \in Seq(T) /\ Append(s, x) # <<>>
         /\ Len(Append(s, x)) = Len(s) + 1
         /\ Append(s, x)[Len(s) + 1] = x
         /\ \A i \in 1 .. Len(s) : Append(s, x)[i] = s[i]
OBVIOUS

\* All of its positions are the whole sequence.
LEMMA SeqWhole ==
  ASSUME NEW T, NEW s \in Seq(T)
  PROVE  SubSeq(s, 1, Len(s)) = s
OBVIOUS

\* A thread that has a package has a position in it.
InPackage ==
  \A t \in Threads : IF pc[t] = "idle" THEN pos[t] = 1
                     ELSE pos[t] \in 1 .. Len(batch[t])

\* A thread in the second stage holds a linked node of its user.
HoldsOwnNode ==
  \A t \in Threads : Using(t) =>
    ptr[t] \in link /\ node[ptr[t]].user = UserOf[t]

\* Linked nodes fill containers of their own, with names handed out already.
OwnContainers ==
  /\ \A n \in link : n < nextName /\ node[n].container < nextName
  /\ \A m, n \in link : node[m].container = node[n].container => m = n

\* A container that is being closed belongs to no buffer and to one thread.
OneCloser ==
  /\ \A t \in Threads : pc[t] = "close" =>
       pending[t].container < nextName /\ ~Live(pending[t].container)
  /\ \A t1, t2 \in Threads :
       pc[t1] = "close" /\ pc[t2] = "close"
         /\ pending[t1].container = pending[t2].container => t1 = t2

TypeInv == TypeOK /\ InPackage

-----------------------------------------------------------------------------
(* Types.                                                                  *)

LEMMA NamesNat == 0 \in Names /\ \A c \in Names : c \in Nat
BY ConstantsAssumption, SMTT(60) DEF Names

LEMMA PackageType ==
  ASSUME NEW t \in Threads, NEW p \in Package(t)
  PROVE  p \in Seq(Shares) /\ 1 \in 1 .. Len(p)
<1>1. PICK k \in 1 .. MaxBatch[t] : p \in [1 .. k -> Shares]
  BY DEF Package
<1>2. k \in Nat /\ 1 <= k
  BY <1>1, ConstantsAssumption, SMTT(60)
<1> QED
  BY <1>1, <1>2

LEMMA FlushedType ==
  ASSUME TypeOK, NEW nodes \in SUBSET Names, NEW kept \in WholeOrFaulty(nodes)
  PROVE  Flushed(kept) \in [Names -> Seq(Shares)]
<1> DEFINE of(c) == {n \in DOMAIN kept : node[n].container = c /\ node[n].buf # <<>>}
<1>1. ASSUME NEW c \in Names, of(c) # {}
      PROVE  SubSeq(node[CHOOSE m \in of(c) : TRUE].buf, 1,
                    kept[CHOOSE m \in of(c) : TRUE]) \in Seq(Shares)
  <2> DEFINE n == CHOOSE m \in of(c) : TRUE
  <2>1. n \in of(c)
    BY <1>1
  <2>2. DOMAIN kept = nodes /\ kept \in [nodes -> 0 .. ContainerCap]
    BY DEF WholeOrFaulty
  <2>3. n \in Names /\ node[n].buf \in Seq(Shares)
    BY <2>1, <2>2 DEF TypeOK, Node
  <2>4. kept[n] \in 0 .. Len(node[n].buf)
    BY <2>1, <2>2, <2>3, ConstantsAssumption, SMTT(60) DEF WholeOrFaulty
  <2>5. \A i \in 1 .. kept[n] : node[n].buf[i] \in Shares
    BY <2>3, <2>4
  <2> QED
    BY <2>4, <2>5, SeqPart, SMTT(60)
<1>2. \A c \in Names : disk[c] \in Seq(Shares)
  BY DEF TypeOK
<1> QED
  BY <1>1, <1>2 DEF Flushed

LEMMA InitType == Init => TypeInv
<1> SUFFICES ASSUME Init PROVE TypeInv
  OBVIOUS
<1>1. (CHOOSE u \in Users : TRUE) \in Users
  BY ConstantsAssumption
<1>2. 0 \in Names
  BY ConstantsAssumption, SMTT(60) DEF Names
<1>3. <<>> \in Seq(Shares) /\ <<>> \in Seq(BOOLEAN)
  OBVIOUS
<1>4. node \in [Names -> Node]
  BY <1>1, <1>3 DEF Init, Node
<1>5. pending \in [Threads -> File]
  BY <1>2, <1>3 DEF Init, NoFile, File
<1> QED
  BY <1>2, <1>3, <1>4, <1>5, ConstantsAssumption, SMTT(60) DEF Init, TypeInv, TypeOK, InPackage

LEMMA CurrentType ==
  ASSUME TypeInv, NEW t \in Threads, pc[t] # "idle"
  PROVE  /\ batch[t] \in Seq(Shares)
         /\ pos[t] \in Nat
         /\ pos[t] \in 1 .. Len(batch[t])
         /\ batch[t][pos[t]] \in Shares
<1>1. batch[t] \in Seq(Shares) /\ pos[t] \in Nat /\ pos[t] \in 1 .. Len(batch[t])
  BY DEF TypeInv, TypeOK, InPackage
<1> QED
  BY <1>1

LEMMA OneMoreRef ==
  ASSUME NEW e \in Entry, NEW u \in Users
  PROVE  [e EXCEPT !.refs[u] = @ + 1] \in Entry
BY SMTT(60) DEF Entry

LEMMA ReturnType ==
  ASSUME TypeInv, NEW t \in Threads, Return(t)
  PROVE  /\ pc' \in [Threads -> {"idle", "first", "data", "create"} \cup HoldsNode]
         /\ batch' \in [Threads -> Seq(Shares)]
         /\ stat' \in [Threads -> Seq(BOOLEAN)]
         /\ pos' \in [Threads -> Nat]
         /\ ptr' \in [Threads -> Names]
         /\ InPackage'
<1>1. 0 \in Names
  BY ConstantsAssumption, SMTT(60) DEF Names
<1>2. <<>> \in Seq(Shares) /\ <<>> \in Seq(BOOLEAN)
  OBVIOUS
<1>3. stat' \in [Threads -> Seq(BOOLEAN)]
  BY <1>2 DEF Return, TypeInv, TypeOK
<1>4. batch' \in [Threads -> Seq(Shares)]
  BY <1>2 DEF Return, TypeInv, TypeOK
<1>5. pos' \in [Threads -> Nat] /\ ptr' \in [Threads -> Names]
  BY <1>1 DEF Return, TypeInv, TypeOK
<1>6. InPackage'
  BY DEF Return, Goto, TypeInv, TypeOK, InPackage
<1> QED
  BY <1>3, <1>4, <1>5, <1>6 DEF Return, Goto, TypeInv, TypeOK

LEMMA StepType ==
  ASSUME TypeInv, [Next]_vars
  PROVE  TypeInv'
<1> USE DEF TypeInv
<1>1. ASSUME NEW t \in Threads, recvMeta(t) PROVE TypeInv'
  <2>1. PICK p \in Package(t) : batch' = [batch EXCEPT ![t] = p]
    BY <1>1 DEF recvMeta
  <2>2. p \in Seq(Shares) /\ 1 \in 1 .. Len(p)
    BY PackageType
  <2> QED
    BY <1>1, <2>1, <2>2, SMTT(60) DEF recvMeta, Goto, TypeOK, InPackage, store, HoldsNode
<1>2. ASSUME NEW t \in Threads, intraUserIndexUpdate_(t) PROVE TypeInv'
  <2> DEFINE s == batch[t][pos[t]]
             u == UserOf[t]
  <2>1. pos[t] \in 1 .. Len(batch[t]) /\ pos[t] \in Nat /\ batch[t] \in Seq(Shares)
    BY <1>2, CurrentType DEF intraUserIndexUpdate_
  <2>2. s \in Shares /\ u \in Users
    BY <2>1, ConstantsAssumption, SMTT(60)
  <2>3. index' \in [Shares -> Entry \cup {NoEntry}]
    <3>1. CASE Owns(u, s)
      <4>1. index[s] \in Entry
        BY <2>2, <3>1 DEF Owns, TypeOK
      <4>2. [index[s] EXCEPT !.refs[u] = @ + 1] \in Entry
        BY <4>1, <2>2, OneMoreRef
      <4> QED
        BY <1>2, <3>1, <4>2, <2>2 DEF intraUserIndexUpdate_, AddRef, TypeOK
    <3>2. CASE ~Owns(u, s)
      BY <1>2, <3>2 DEF intraUserIndexUpdate_, TypeOK
    <3> QED
      BY <3>1, <3>2
  <2>4. Owns(u, s) \in BOOLEAN
    BY DEF Owns
  <2>5. stat' \in [Threads -> Seq(BOOLEAN)]
    BY <1>2, <2>4, SMTT(60) DEF intraUserIndexUpdate_, TypeOK
  <2>6. /\ pos' \in [Threads -> Nat]
        /\ pc' \in [Threads -> {"idle", "first", "data", "create"} \cup HoldsNode]
    <3>1. pos[t] + 1 \in Nat /\ 1 \in Nat
      BY <2>1
    <3>2. \/ pos' = [pos EXCEPT ![t] = 1] /\ pc' = [pc EXCEPT ![t] = "data"]
          \/ pos' = [pos EXCEPT ![t] = pos[t] + 1] /\ pc' = pc
      BY <1>2 DEF intraUserIndexUpdate_, Goto
    <3> QED
      BY <3>1, <3>2 DEF TypeOK
  <2>7. InPackage'
    <3> SUFFICES ASSUME NEW t2 \in Threads
                 PROVE  IF pc'[t2] = "idle" THEN pos'[t2] = 1
                        ELSE pos'[t2] \in 1 .. Len(batch[t2])
      BY <1>2 DEF intraUserIndexUpdate_, InPackage
    <3>1. CASE t2 = t
      BY <1>2, <2>1, <3>1, SMTT(60) DEF intraUserIndexUpdate_, Goto, TypeOK
    <3>2. CASE t2 # t
      BY <1>2, <3>2 DEF intraUserIndexUpdate_, Goto, TypeOK, InPackage
    <3> QED
      BY <3>1, <3>2
  <2> QED
    BY <1>2, <2>3, <2>5, <2>6, <2>7 DEF intraUserIndexUpdate_, TypeOK
<1>3. ASSUME NEW t \in Threads, Return(t),
             UNCHANGED <<index, disk, node, link, nextName, pending, sent>>
      PROVE  TypeInv'
  BY <1>3, ReturnType DEF TypeOK
<1>4. ASSUME NEW t \in Threads, disconnect(t) PROVE TypeInv'
  BY <1>3, <1>4 DEF disconnect, store
<1>5. ASSUME NEW t \in Threads, findBufferNode_(t) PROVE TypeInv'
  <2>1. PICK expired \in SUBSET MayExpire(t) :
          /\ \E kept \in WholeOrFaulty(expired) : disk' = Flushed(kept)
          /\ link' = link \ expired
    BY <1>5 DEF findBufferNode_
  <2>2. expired \in SUBSET Names
    BY DEF MayExpire, TypeOK
  <2>3. disk' \in [Names -> Seq(Shares)]
    BY <2>1, <2>2, FlushedType
  <2>4. ptr' \in [Threads -> Names]
    BY <1>5 DEF findBufferNode_, Mine, TypeOK
  <2> QED
    BY <1>5, <2>1, <2>3, <2>4 DEF findBufferNode_, Goto, TypeOK, InPackage, HoldsNode
<1>6. ASSUME NEW t \in Threads, createBufferNode_(t) PROVE TypeInv'
  <2>1. nextName \in Names /\ nextName + 1 \in 0 .. MaxName
    BY <1>6, ConstantsAssumption, SMTT(60) DEF createBufferNode_, TypeOK, Names
  <2>2. [user |-> UserOf[t], container |-> nextName, buf |-> <<>>] \in Node
    BY <2>1, ConstantsAssumption, SMTT(60) DEF Node
  <2> QED
    BY <1>6, <2>1, <2>2 DEF createBufferNode_, Goto, TypeOK, InPackage, HoldsNode
<1>7. ASSUME NEW t \in Threads, pc[t] # "idle", NextShare(t),
             index' \in [Shares -> Entry \cup {NoEntry}],
             node' \in [Names -> Node],
             UNCHANGED <<disk, link, nextName, pending, sent>>
      PROVE  TypeInv'
  <2>1. CASE Return(t)
    BY <1>7, <2>1, ReturnType DEF TypeOK
  <2>2. CASE ~Return(t)
    <3>1. /\ pos[t] # Len(batch[t])
          /\ Goto(t, "share")
          /\ pos' = [pos EXCEPT ![t] = @ + 1]
          /\ UNCHANGED <<batch, stat, ptr>>
      BY <1>7, <2>2 DEF NextShare
    <3>2. pos[t] \in Nat /\ pos[t] + 1 \in 1 .. Len(batch[t])
      BY <1>7, <3>1, CurrentType, SMTT(60)
    <3> QED
      BY <1>7, <3>1, <3>2, SMTT(60) DEF Goto, TypeOK, InPackage, HoldsNode
  <2> QED
    BY <2>1, <2>2
<1>8. ASSUME NEW t \in Threads, skipShare(t) PROVE TypeInv'
  BY <1>7, <1>8 DEF skipShare, store, TypeOK
<1>9. ASSUME NEW t \in Threads, rejectShare(t) PROVE TypeInv'
  BY <1>3, <1>9 DEF rejectShare, store
<1>10. ASSUME NEW t \in Threads, referenceShare(t) PROVE TypeInv'
  <2> DEFINE s == Current(t)
             u == UserOf[t]
  <2>1. s \in Shares /\ u \in Users
    BY <1>10, CurrentType, ConstantsAssumption DEF referenceShare, Current
  <2>2. index[s] \in Entry
    BY <1>10, <2>1 DEF referenceShare, TypeOK
  <2>3. [index[s] EXCEPT !.refs[u] = @ + 1] \in Entry
    BY <2>1, <2>2, OneMoreRef
  <2>4. index' \in [Shares -> Entry \cup {NoEntry}]
    BY <1>10, <2>1, <2>3 DEF referenceShare, AddRef, TypeOK
  <2> QED
    BY <1>7, <1>10, <2>4 DEF referenceShare, TypeOK
<1>11. ASSUME NEW t \in Threads, missShare(t) PROVE TypeInv'
  BY <1>11 DEF missShare, Goto, TypeOK, InPackage, store, local, HoldsNode
<1>12. ASSUME NEW t \in Threads, writeContainer(t) PROVE TypeInv'
  <2> DEFINE b == node[ptr[t]]
  <2>1. b.buf \in Seq(Shares)
    BY DEF TypeOK, Node
  <2>2. ASSUME NEW k \in 0 .. Len(b.buf) PROVE SubSeq(b.buf, 1, k) \in Seq(Shares)
    <3>1. \A i \in 1 .. k : b.buf[i] \in Shares
      BY <2>1
    <3> QED
      BY <3>1, SeqPart, SMTT(60)
  <2>3. disk' \in [Names -> Seq(Shares)]
    BY <1>12, <2>2, ZenonT(60) DEF writeContainer, TypeOK
  <2>4. CASE Return(t)
    BY <1>12, <2>3, <2>4, ReturnType DEF writeContainer, TypeOK
  <2>5. CASE Goto(t, "renew") /\ UNCHANGED <<batch, stat, pos, ptr>>
    BY <1>12, <2>3, <2>5 DEF writeContainer, Goto, TypeOK, InPackage, HoldsNode
  <2> QED
    BY <1>12, <2>4, <2>5 DEF writeContainer
<1>13. ASSUME NEW t \in Threads, renewContainer(t) PROVE TypeInv'
  <2> DEFINE b == node[ptr[t]]
  <2>1. nextName \in Names /\ nextName + 1 \in 0 .. MaxName
    BY <1>13, ConstantsAssumption, SMTT(60) DEF renewContainer, TypeOK, Names
  <2>2. [container |-> b.container, data |-> b.buf] \in File
    BY DEF TypeOK, Node, File
  <2>3. ptr[t] \in Names /\ node[ptr[t]] \in Node
    BY DEF TypeOK
  <2>4. [user |-> b.user, container |-> nextName, buf |-> <<>>] \in Node
    BY <2>1, <2>3, SMTT(60) DEF Node
  <2>5. node' \in [Names -> Node]
    BY <1>13, <2>3, <2>4 DEF renewContainer, TypeOK, Node
  <2> QED
    BY <1>13, <2>1, <2>2, <2>5 DEF renewContainer, Goto, TypeOK, InPackage, HoldsNode
<1>14. ASSUME NEW t \in Threads, closeContainer(t) PROVE TypeInv'
  <2>1. pending[t].data \in Seq(Shares) /\ NoFile \in File
    BY ConstantsAssumption, SMTT(60) DEF TypeOK, File, NoFile, Names
  <2> QED
    BY <1>14, <2>1 DEF closeContainer, Goto, TypeOK, InPackage, HoldsNode
<1>15. ASSUME NEW t \in Threads, putEntry(t) PROVE TypeInv'
  <2> DEFINE b == node[ptr[t]]
             e == [container |-> b.container, offset |-> Len(b.buf) + 1,
                   refs |-> [u \in Users |-> IF u = UserOf[t] THEN 1 ELSE 0]]
  <2>1. b.container \in Names /\ Len(b.buf) \in Nat
    BY SMTT(60) DEF TypeOK, Node
  <2>2. e \in Entry
    BY <2>1 DEF Entry
  <2>3. index' \in [Shares -> Entry \cup {NoEntry}]
    BY <1>15, <2>2 DEF putEntry, TypeOK
  <2> QED
    BY <1>15, <2>3 DEF putEntry, Goto, TypeOK, InPackage, local, HoldsNode
<1>16. ASSUME NEW t \in Threads, copyShare(t) PROVE TypeInv'
  <2>1. Current(t) \in Shares
    BY <1>16, CurrentType DEF copyShare, Current
  <2>2. ptr[t] \in Names /\ node[ptr[t]] \in Node
    BY DEF TypeOK
  <2>3. [node[ptr[t]] EXCEPT !.buf = Append(@, Current(t))] \in Node
    BY <2>1, <2>2, SMTT(60) DEF Node
  <2>4. node' \in [Names -> Node]
    BY <1>16, <2>2, <2>3 DEF copyShare, TypeOK
  <2> QED
    BY <1>7, <1>16, <2>4 DEF copyShare, TypeOK
<1>17. CASE UNCHANGED vars
  BY <1>17 DEF vars, TypeOK, InPackage, HoldsNode
<1> QED
  BY <1>1, <1>2, <1>4, <1>5, <1>6, <1>8, <1>9, <1>10, <1>11, <1>12, <1>13,
     <1>14, <1>15, <1>16, <1>17 DEF Next, Step, Quiet

\* Every reachable state of the share index and its buffers is well typed, and
\* every thread of the server is at a share of its package.
THEOREM TypeCorrect == Spec => []TypeOK
<1>1. Spec => []TypeInv
  BY InitType, StepType, PTL DEF Spec
<1>2. TypeInv => TypeOK
  BY DEF TypeInv
<1> QED
  BY <1>1, <1>2, PTL

-----------------------------------------------------------------------------
(* Nodes, containers and the threads that hold them.                       *)

\* The assumptions under which a buffer node is not pulled away from a thread,
\* nor filled by two.
NodeOfItsOwn == OneConnectionPerUser /\ StageWithinWait

NodesInv == HoldsOwnNode /\ OwnContainers /\ OneCloser

\* A thread's step leaves the locals of the other threads alone.
OthersStay(t) ==
  \A t2 \in Threads \ {t} :
    /\ pc'[t2] = pc[t2]
    /\ batch'[t2] = batch[t2]
    /\ stat'[t2] = stat[t2]
    /\ pos'[t2] = pos[t2]
    /\ ptr'[t2] = ptr[t2]
    /\ pending'[t2] = pending[t2]

LEMMA StepLeavesOthers ==
  ASSUME TypeInv, NEW t \in Threads, recvMeta(t) \/ Step(t)
  PROVE  OthersStay(t)
<1> USE DEF OthersStay, Goto, store, local, TypeInv, TypeOK
<1>1. CASE recvMeta(t)
  BY <1>1 DEF recvMeta
<1>2. CASE intraUserIndexUpdate_(t)
  BY <1>2 DEF intraUserIndexUpdate_
<1>3. CASE disconnect(t) \/ rejectShare(t)
  BY <1>3 DEF disconnect, rejectShare, Return
<1>4. CASE findBufferNode_(t)
  BY <1>4 DEF findBufferNode_
<1>5. CASE createBufferNode_(t)
  BY <1>5 DEF createBufferNode_
<1>6. ASSUME NextShare(t), UNCHANGED pending PROVE OthersStay(t)
  BY <1>6, SMTT(60) DEF NextShare, Return
<1>7. CASE skipShare(t) \/ referenceShare(t) \/ copyShare(t)
  BY <1>6, <1>7 DEF skipShare, referenceShare, copyShare
<1>8. CASE missShare(t) \/ putEntry(t)
  BY <1>8 DEF missShare, putEntry
<1>9. CASE writeContainer(t)
  BY <1>9, SMTT(60) DEF writeContainer, Return
<1>10. CASE renewContainer(t) \/ closeContainer(t)
  BY <1>10 DEF renewContainer, closeContainer
<1> QED
  BY <1>1, <1>2, <1>3, <1>4, <1>5, <1>7, <1>8, <1>9, <1>10 DEF Step

LEMMA OwnPointers ==
  ASSUME TypeInv, HoldsOwnNode, OneConnectionPerUser,
         NEW t \in Threads, NEW t2 \in Threads, t # t2, Using(t), Using(t2)
  PROVE  ptr[t] # ptr[t2]
BY DEF HoldsOwnNode, OneConnectionPerUser

\* A step that links no node, renames no container and closes no file.
LEMMA NodesFrame ==
  ASSUME TypeInv, NodesInv, NEW t \in Threads, OthersStay(t),
         link' = link, nextName' = nextName,
         \A n \in link : /\ node'[n].user = node[n].user
                         /\ node'[n].container = node[n].container,
         pc'[t] # "close",
         Using(t)' => Using(t) /\ ptr'[t] = ptr[t]
  PROVE  NodesInv'
<1>1. HoldsOwnNode'
  <2> SUFFICES ASSUME NEW t2 \in Threads, Using(t2)'
               PROVE  ptr'[t2] \in link' /\ node'[ptr'[t2]].user = UserOf[t2]
    BY DEF HoldsOwnNode
  <2>1. Using(t2) /\ ptr'[t2] = ptr[t2]
    BY DEF OthersStay, Using
  <2> QED
    BY <2>1 DEF NodesInv, HoldsOwnNode
<1>2. OwnContainers'
  BY SMTT(60) DEF NodesInv, OwnContainers
<1>3. \A c : Live(c)' <=> Live(c)
  BY DEF Live
<1>4. \A t2 \in Threads : pc'[t2] = "close" =>
        t2 # t /\ pc[t2] = "close" /\ pending'[t2] = pending[t2]
  BY DEF OthersStay
<1>5. OneCloser'
  BY <1>3, <1>4, ZenonT(60) DEF NodesInv, OneCloser
<1> QED
  BY <1>1, <1>2, <1>5 DEF NodesInv

LEMMA FindKeepsNodes ==
  ASSUME TypeInv, NodesInv, StageWithinWait, NEW t \in Threads, findBufferNode_(t)
  PROVE  NodesInv'
<1>1. OthersStay(t)
  BY StepLeavesOthers DEF Step
<1>2. PICK expired \in SUBSET MayExpire(t) : link' = link \ expired
  BY DEF findBufferNode_
<1>3. UNCHANGED <<node, nextName, pending>>
  BY DEF findBufferNode_
<1>4. HoldsOwnNode'
  <2> SUFFICES ASSUME NEW t2 \in Threads, Using(t2)'
               PROVE  ptr'[t2] \in link' /\ node'[ptr'[t2]].user = UserOf[t2]
    BY DEF HoldsOwnNode
  <2>1. CASE t2 = t
    <3>1. pc'[t] # "create"
      BY <2>1 DEF Using, HoldsNode
    <3>2. PICK n \in Mine(t) : ptr' = [ptr EXCEPT ![t] = n]
      BY <3>1 DEF findBufferNode_, Goto, TypeInv, TypeOK
    <3>3. n \in link /\ node[n].user = UserOf[t] /\ ptr'[t] = n
      BY <3>2 DEF Mine, TypeInv, TypeOK
    <3>4. n \notin expired
      BY <1>2, <3>3 DEF MayExpire
    <3> QED
      BY <1>2, <1>3, <2>1, <3>3, <3>4
  <2>2. CASE t2 # t
    <3>1. Using(t2) /\ ptr'[t2] = ptr[t2]
      BY <1>1, <2>2 DEF OthersStay, Using
    <3>2. ptr[t2] \in link /\ node[ptr[t2]].user = UserOf[t2]
      BY <3>1 DEF NodesInv, HoldsOwnNode
    <3>3. ptr[t2] \notin expired
      BY <3>1, <1>2 DEF MayExpire
    <3> QED
      BY <1>2, <1>3, <3>1, <3>2, <3>3
  <2> QED
    BY <2>1, <2>2
<1>5. OwnContainers'
  BY <1>2, <1>3 DEF NodesInv, OwnContainers
<1>6. \A c : Live(c)' => Live(c)
  BY <1>2, <1>3 DEF Live
<1>7. \A t2 \in Threads : pc'[t2] = "close" => pc[t2] = "close"
  BY <1>1 DEF OthersStay, findBufferNode_, Goto, TypeInv, TypeOK
<1>8. OneCloser'
  BY <1>3, <1>6, <1>7 DEF NodesInv, OneCloser
<1> QED
  BY <1>4, <1>5, <1>8 DEF NodesInv

LEMMA CreateKeepsNodes ==
  ASSUME TypeInv, NodesInv, NEW t \in Threads, createBufferNode_(t)
  PROVE  NodesInv'
<1>1. OthersStay(t)
  BY StepLeavesOthers DEF Step
<1>2. /\ nextName \in Names /\ nextName' = nextName + 1 /\ nextName \in Nat
      /\ link' = link \cup {nextName}
      /\ \A n \in Names : node'[n] = IF n = nextName
           THEN [user |-> UserOf[t], container |-> nextName, buf |-> <<>>]
           ELSE node[n]
      /\ pc'[t] = "share" /\ ptr'[t] = nextName /\ pending' = pending
  BY ConstantsAssumption, SMTT(60) DEF createBufferNode_, Goto, TypeInv, TypeOK, Names
<1>3. \A n \in link : n \in Names /\ n # nextName /\ node'[n] = node[n]
                      /\ node[n].container # nextName
  BY <1>2, SMTT(60) DEF NodesInv, OwnContainers, TypeInv, TypeOK, Names
<1>4. HoldsOwnNode'
  <2> SUFFICES ASSUME NEW t2 \in Threads, Using(t2)'
               PROVE  ptr'[t2] \in link' /\ node'[ptr'[t2]].user = UserOf[t2]
    BY DEF HoldsOwnNode
  <2>1. CASE t2 = t
    BY <1>2, <2>1, SMTT(60)
  <2>2. CASE t2 # t
    <3>1. pc'[t2] = pc[t2] /\ ptr'[t2] = ptr[t2]
      BY <1>1, <2>2 DEF OthersStay
    <3>2. ptr[t2] \in link /\ node[ptr[t2]].user = UserOf[t2]
      BY <3>1 DEF NodesInv, HoldsOwnNode, Using
    <3>3. ptr[t2] \in link' /\ node'[ptr[t2]] = node[ptr[t2]]
      BY <1>2, <1>3, <3>2
    <3> QED
      BY <3>1, <3>2, <3>3
  <2> QED
    BY <2>1, <2>2
<1>5. OwnContainers'
  <2>1. \A n \in link' : n < nextName' /\ node'[n].container < nextName'
    <3> SUFFICES ASSUME NEW n \in link' PROVE n < nextName' /\ node'[n].container < nextName'
      OBVIOUS
    <3>1. CASE n = nextName
      BY <1>2, <3>1, SMTT(60)
    <3>2. CASE n \in link
      <4>1. n < nextName /\ node[n].container < nextName
        BY <3>2 DEF NodesInv, OwnContainers
      <4>2. n \in Nat /\ node[n].container \in Nat
        BY <1>3, <3>2, SMTT(60) DEF TypeInv, TypeOK, Node, Names
      <4> QED
        BY <1>2, <1>3, <3>2, <4>1, <4>2, SMTT(60)
    <3> QED
      BY <1>2, <3>1, <3>2
  <2>2. \A m, n \in link' : node'[m].container = node'[n].container => m = n
    BY <1>2, <1>3, SMTT(60) DEF NodesInv, OwnContainers
  <2> QED
    BY <2>1, <2>2 DEF OwnContainers
<1>6. OneCloser'
  <2>1. ASSUME NEW t2 \in Threads, pc'[t2] = "close"
        PROVE  /\ pc[t2] = "close" /\ pending'[t2] = pending[t2]
               /\ pending[t2].container < nextName'
               /\ ~Live(pending[t2].container)'
    <3>1. pc[t2] = "close"
      BY <1>1, <1>2, <2>1 DEF OthersStay
    <3>2. pending[t2].container < nextName /\ ~Live(pending[t2].container)
          /\ pending[t2].container \in Nat
      BY <3>1, SMTT(60) DEF NodesInv, OneCloser, TypeInv, TypeOK, File, Names
    <3>3. pending[t2].container < nextName' /\ pending[t2].container # nextName
      BY <3>2 DEF createBufferNode_, TypeInv, TypeOK
    <3>4. ASSUME NEW n \in link', node'[n].container = pending[t2].container
          PROVE  FALSE
      <4>1. CASE n = nextName
        BY <1>2, <3>3, <3>4, <4>1, SMTT(60)
      <4>2. CASE n \in link
        BY <1>3, <3>2, <3>4, <4>2 DEF Live
      <4> QED
        BY <1>2, <3>4, <4>1, <4>2
    <3>5. ~Live(pending[t2].container)'
      BY <1>2, <3>4 DEF Live
    <3> QED
      BY <1>2, <3>1, <3>3, <3>5
  <2> QED
    BY <2>1 DEF NodesInv, OneCloser
<1> QED
  BY <1>4, <1>5, <1>6 DEF NodesInv

LEMMA RenewKeepsNodes ==
  ASSUME TypeInv, NodesInv, OneConnectionPerUser, NEW t \in Threads, renewContainer(t)
  PROVE  NodesInv'
<1>1. OthersStay(t)
  BY StepLeavesOthers DEF Step
<1> DEFINE p == ptr[t]
<1>2. p \in link /\ p \in Names /\ node[p].user = UserOf[t]
  BY DEF renewContainer, NodesInv, HoldsOwnNode, Using, HoldsNode, TypeInv, TypeOK
<1>3. /\ nextName \in Nat /\ nextName' = nextName + 1
      /\ link' = link /\ ptr' = ptr
      /\ \A n \in Names : n # p => node'[n] = node[n]
      /\ node'[p].user = node[p].user /\ node'[p].container = nextName
      /\ pc'[t] = "close" /\ pending'[t].container = node[p].container
  BY <1>2, SMTT(60) DEF renewContainer, Goto, TypeInv, TypeOK, Node
<1>4. ASSUME NEW n \in link
      PROVE  /\ n \in Nat /\ n < nextName
             /\ node[n].container \in Nat /\ node[n].container < nextName
             /\ n # p => node'[n] = node[n]
                         /\ node[n].container # node[p].container
  <2>1. n \in Names /\ n \in Nat /\ node[n].container \in Nat
    BY NamesNat DEF TypeInv, TypeOK, Node
  <2> QED
    BY <1>2, <1>3, <2>1 DEF NodesInv, OwnContainers
<1>5. HoldsOwnNode'
  <2> SUFFICES ASSUME NEW t2 \in Threads, Using(t2)'
               PROVE  ptr'[t2] \in link' /\ node'[ptr'[t2]].user = UserOf[t2]
    BY DEF HoldsOwnNode
  <2>1. Using(t2)
    BY <1>1 DEF OthersStay, Using, HoldsNode, renewContainer
  <2>2. ptr[t2] \in link /\ node[ptr[t2]].user = UserOf[t2]
    BY <2>1 DEF NodesInv, HoldsOwnNode
  <2> QED
    BY <1>3, <1>4, <2>2
<1>6. OwnContainers'
  <2>1. \A n \in link : n < nextName' /\ node'[n].container < nextName'
    BY <1>3, <1>4, SMTT(60)
  <2>2. \A m, n \in link : node'[m].container = node'[n].container => m = n
    BY <1>3, <1>4, SMTT(60) DEF NodesInv, OwnContainers
  <2> QED
    BY <1>3, <2>1, <2>2 DEF OwnContainers
<1>7. \A c : Live(c)' => (Live(c) /\ c # node[p].container) \/ c = nextName
  BY <1>3, <1>4, ZenonT(60) DEF Live
<1>8. OneCloser'
  <2>1. ASSUME NEW t2 \in Threads, pc'[t2] = "close", t2 # t
        PROVE  /\ pc[t2] = "close" /\ pending'[t2] = pending[t2]
               /\ pending[t2].container < nextName'
               /\ ~Live(pending[t2].container)'
               /\ pending[t2].container # node[p].container
    <3>1. pc[t2] = "close" /\ pending'[t2] = pending[t2]
      BY <1>1, <2>1 DEF OthersStay
    <3>2. pending[t2].container < nextName /\ ~Live(pending[t2].container)
          /\ pending[t2].container \in Nat
      BY <3>1, SMTT(60) DEF NodesInv, OneCloser, TypeInv, TypeOK, File, Names
    <3> QED
      BY <1>2, <1>3, <1>7, <3>1, <3>2, SMTT(60) DEF Live
  <2>2. node[p].container \in Nat /\ node[p].container < nextName
    BY <1>2, <1>4
  <2>3. \A t2 \in Threads : pc'[t2] = "close" =>
          /\ pending'[t2].container < nextName'
          /\ \A n \in link' : node'[n].container # pending'[t2].container
    <3> SUFFICES ASSUME NEW t2 \in Threads, pc'[t2] = "close"
                 PROVE  /\ pending'[t2].container < nextName'
                        /\ \A n \in link' : node'[n].container # pending'[t2].container
      OBVIOUS
    <3>1. CASE t2 = t
      BY <1>3, <1>4, <2>2, <3>1, SMTT(60)
    <3>2. CASE t2 # t
      BY <2>1, <3>2 DEF Live
    <3> QED
      BY <3>1, <3>2
  <2>4. \A t1, t2 \in Threads :
          pc'[t1] = "close" /\ pc'[t2] = "close"
            /\ pending'[t1].container = pending'[t2].container => t1 = t2
    BY <1>3, <2>1, SMTT(60) DEF NodesInv, OneCloser
  <2> QED
    BY <2>3, <2>4 DEF OneCloser, Live
<1> QED
  BY <1>5, <1>6, <1>8 DEF NodesInv

LEMMA CopyEffect ==
  ASSUME TypeInv, NEW t \in Threads, copyShare(t)
  PROVE  /\ \A n \in Names : n # ptr[t] => node'[n] = node[n]
         /\ node'[ptr[t]].user = node[ptr[t]].user
         /\ node'[ptr[t]].container = node[ptr[t]].container
         /\ node'[ptr[t]].buf = Append(node[ptr[t]].buf, Current(t))
<1>1. ptr[t] \in Names /\ node[ptr[t]] \in Node
  BY DEF TypeInv, TypeOK
<1>2. node' = [node EXCEPT ![ptr[t]] = [node[ptr[t]] EXCEPT !.buf = Append(@, Current(t))]]
  BY DEF copyShare
<1> QED
  BY <1>1, <1>2 DEF TypeInv, TypeOK, Node

LEMMA StepNodes ==
  ASSUME TypeInv, NodesInv, NodeOfItsOwn, [Next]_vars
  PROVE  NodesInv'
<1>1. ASSUME NEW t \in Threads, recvMeta(t) \/ Step(t)
      PROVE  NodesInv'
  <2>1. OthersStay(t)
    BY <1>1, StepLeavesOthers
  <2>2. ASSUME link' = link, nextName' = nextName, pc'[t] # "close",
               \A n \in link : /\ node'[n].user = node[n].user
                               /\ node'[n].container = node[n].container,
               Using(t)' => Using(t) /\ ptr'[t] = ptr[t]
        PROVE  NodesInv'
    BY <2>1, <2>2, NodesFrame
  <2>3. ASSUME Return(t) PROVE pc'[t] = "idle" /\ ~Using(t)'
    BY <2>3 DEF Return, Goto, Using, HoldsNode, TypeInv, TypeOK
  <2>4. ASSUME NextShare(t) PROVE pc'[t] # "close" /\ (Using(t)' => ptr'[t] = ptr[t])
    BY <2>3, <2>4 DEF NextShare, Goto, TypeInv, TypeOK
  <2>5. CASE recvMeta(t) \/ intraUserIndexUpdate_(t)
    <3>1. link' = link /\ nextName' = nextName /\ node' = node
      BY <2>5 DEF recvMeta, intraUserIndexUpdate_, store
    <3>2. pc'[t] \in {"first", "data"}
      BY <2>5 DEF recvMeta, intraUserIndexUpdate_, Goto, TypeInv, TypeOK
    <3> QED
      BY <2>2, <3>1, <3>2 DEF Using, HoldsNode
  <2>6. CASE disconnect(t) \/ rejectShare(t)
    <3>1. link' = link /\ nextName' = nextName /\ node' = node
      BY <2>6 DEF disconnect, rejectShare, store
    <3> QED
      BY <2>2, <2>3, <2>6, <3>1 DEF disconnect, rejectShare
  <2>7. CASE findBufferNode_(t)
    BY <2>7, FindKeepsNodes DEF NodeOfItsOwn
  <2>8. CASE createBufferNode_(t)
    BY <2>8, CreateKeepsNodes
  <2>9. CASE skipShare(t) \/ referenceShare(t)
    <3>1. link' = link /\ nextName' = nextName /\ node' = node /\ Using(t)
      BY <2>9 DEF skipShare, referenceShare, store, Using, HoldsNode
    <3> QED
      BY <2>2, <2>4, <2>9, <3>1 DEF skipShare, referenceShare
  <2>10. CASE missShare(t) \/ putEntry(t) \/ closeContainer(t)
    <3>1. link' = link /\ nextName' = nextName /\ node' = node /\ ptr' = ptr
      BY <2>10 DEF missShare, putEntry, closeContainer, store, local
    <3>2. Using(t) /\ pc'[t] # "close"
      BY <2>10 DEF missShare, putEntry, closeContainer, Goto, Using, HoldsNode, TypeInv, TypeOK
    <3> QED
      BY <2>2, <3>1, <3>2
  <2>11. CASE writeContainer(t)
    <3>1. link' = link /\ nextName' = nextName /\ node' = node /\ Using(t)
      BY <2>11 DEF writeContainer, Using, HoldsNode
    <3>2. Return(t) \/ (pc'[t] # "close" /\ ptr' = ptr)
      BY <2>11 DEF writeContainer, Goto, TypeInv, TypeOK
    <3> QED
      BY <2>2, <2>3, <3>1, <3>2
  <2>12. CASE renewContainer(t)
    BY <2>12, RenewKeepsNodes DEF NodeOfItsOwn
  <2>13. CASE copyShare(t)
    <3>1. \A n \in link : /\ node'[n].user = node[n].user
                          /\ node'[n].container = node[n].container
      <4>1. link \subseteq Names
        BY DEF TypeInv, TypeOK
      <4> QED
        BY <2>13, <4>1, CopyEffect
    <3>2. link' = link /\ nextName' = nextName /\ NextShare(t) /\ Using(t)
      BY <2>13 DEF copyShare, Using, HoldsNode
    <3> QED
      BY <2>2, <2>4, <3>1, <3>2
  <2> QED
    BY <1>1, <2>5, <2>6, <2>7, <2>8, <2>9, <2>10, <2>11, <2>12, <2>13 DEF Step
<1>2. CASE UNCHANGED vars
  BY <1>2, ZenonT(60) DEF vars, NodesInv, HoldsOwnNode, OwnContainers, OneCloser, Using, Live
<1> QED
  BY <1>1, <1>2 DEF Next, Quiet

-----------------------------------------------------------------------------
(* What the server's answers mean for the client.                          *)

\* The answers of the first stage are as many as it has reached shares, and
\* none is left from one package to the next; an entry is put before its
\* share is copied.
StageInv ==
  \A t \in Threads :
    /\ pc[t] = "idle" => batch[t] = <<>> /\ stat[t] = <<>>
    /\ pc[t] = "first" => Len(stat[t]) = pos[t] - 1
    /\ pc[t] \in {"data", "create"} => pos[t] = 1
    /\ pc[t] \notin {"idle", "first"} => Len(stat[t]) = Len(batch[t])
    /\ pc[t] = "copy" => index[Current(t)] # NoEntry

\* No step takes an entry out of the index.
LEMMA IndexGrows ==
  ASSUME TypeInv, [Next]_vars, NEW s \in Shares, index[s] # NoEntry
  PROVE  index'[s] # NoEntry
<1>1. index[s] \in Entry /\ NoEntry \notin Entry
  BY ConstantsAssumption DEF TypeInv, TypeOK
<1>2. ASSUME NEW q \in Shares, NEW t \in Threads, index[q] # NoEntry, AddRef(q, UserOf[t])
      PROVE  index'[s] # NoEntry
  <2>1. UserOf[t] \in Users
    BY ConstantsAssumption
  <2>2. CASE s = q
    <3>1. index'[s] = [index[s] EXCEPT !.refs[UserOf[t]] = @ + 1]
      BY <1>2, <2>2 DEF AddRef, TypeInv, TypeOK
    <3>2. index'[s] \in Entry
      BY <1>1, <2>1, <3>1, OneMoreRef
    <3> QED
      BY <1>1, <3>2
  <2>3. CASE s # q
    BY <1>2, <2>3 DEF AddRef, TypeInv, TypeOK
  <2> QED
    BY <2>2, <2>3
<1>3. ASSUME NEW t \in Threads, intraUserIndexUpdate_(t) PROVE index'[s] # NoEntry
  <2>1. Current(t) \in Shares /\ pc[t] = "first"
    BY <1>3, CurrentType DEF intraUserIndexUpdate_, Current
  <2>2. CASE Owns(UserOf[t], Current(t))
    BY <1>2, <1>3, <2>1, <2>2 DEF intraUserIndexUpdate_, Current, Owns
  <2>3. CASE ~Owns(UserOf[t], Current(t))
    BY <1>3, <2>3 DEF intraUserIndexUpdate_, Current
  <2> QED
    BY <2>2, <2>3
<1>4. ASSUME NEW t \in Threads, referenceShare(t) PROVE index'[s] # NoEntry
  <2>1. Current(t) \in Shares
    BY <1>4, CurrentType DEF referenceShare, Current
  <2> QED
    BY <1>2, <1>4, <2>1 DEF referenceShare
<1>5. ASSUME NEW t \in Threads, putEntry(t) PROVE index'[s] # NoEntry
  <2>1. Current(t) \in Shares
    BY <1>5, CurrentType DEF putEntry, Current
  <2> DEFINE b == node[ptr[t]]
             e == [container |-> b.container, offset |-> Len(b.buf) + 1,
                   refs |-> [u \in Users |-> IF u = UserOf[t] THEN 1 ELSE 0]]
  <2>2. b.container \in Names /\ Len(b.buf) \in Nat
    BY SMTT(60) DEF TypeInv, TypeOK, Node
  <2>3. e \in Entry
    BY <2>2 DEF Entry
  <2>4. index'[s] = IF s = Current(t) THEN e ELSE index[s]
    BY <1>5, <2>1 DEF putEntry, TypeInv, TypeOK
  <2> QED
    BY <1>1, <2>3, <2>4
<1>6. ASSUME NEW t \in Threads, recvMeta(t) \/ Step(t),
             ~intraUserIndexUpdate_(t), ~referenceShare(t), ~putEntry(t)
      PROVE  index' = index
  BY <1>6 DEF recvMeta, Step, disconnect, findBufferNode_, createBufferNode_, skipShare,
              rejectShare, missShare, writeContainer, renewContainer, closeContainer,
              copyShare, store
<1>7. CASE UNCHANGED vars
  BY <1>7 DEF vars
<1> QED
  BY <1>3, <1>4, <1>5, <1>6, <1>7 DEF Next, Quiet, Step

\* What a thread's step does to its own stage.
LEMMA StepStage ==
  ASSUME TypeInv, StageInv, PackageIndexed, [Next]_vars
  PROVE  StageInv' /\ PackageIndexed'
<1>1. \A s \in Shares : index[s] # NoEntry => index'[s] # NoEntry
  BY IndexGrows
<1>2. ASSUME NEW t \in Threads
      PROVE  /\ batch[t] \in Seq(Shares) /\ stat[t] \in Seq(BOOLEAN) /\ pos[t] \in Nat
             /\ \A i \in DOMAIN batch[t] : batch[t][i] \in Shares /\ i \in Nat /\ i >= 1
  <2>1. batch[t] \in Seq(Shares) /\ stat[t] \in Seq(BOOLEAN) /\ pos[t] \in Nat
    BY DEF TypeInv, TypeOK
  <2>2. DOMAIN batch[t] = 1 .. Len(batch[t]) /\ Len(batch[t]) \in Nat
    BY <2>1
  <2>3. \A i \in 1 .. Len(batch[t]) : batch[t][i] \in Shares
    BY <2>1, SeqItem
  <2> QED
    BY <2>1, <2>2, <2>3
<1> DEFINE Staged(t) ==
             /\ pc[t] = "idle" => batch[t] = <<>> /\ stat[t] = <<>>
             /\ pc[t] = "first" => Len(stat[t]) = pos[t] - 1
             /\ pc[t] \in {"data", "create"} => pos[t] = 1
             /\ pc[t] \notin {"idle", "first"} => Len(stat[t]) = Len(batch[t])
             /\ pc[t] = "copy" => index[Current(t)] # NoEntry
           Answered(t) ==
             \A i \in DOMAIN batch[t] :
               (i \in DOMAIN stat[t] /\ stat[t][i]) \/ (Using(t) /\ i < pos[t])
                 => index[batch[t][i]] # NoEntry
<1>3. ASSUME NEW t \in Threads,
             pc'[t] = pc[t] /\ batch'[t] = batch[t] /\ pos'[t] = pos[t] /\ stat'[t] = stat[t]
      PROVE  Staged(t)' /\ Answered(t)'
  <2>1. Staged(t) /\ Answered(t)
    BY DEF StageInv, PackageIndexed
  <2>2. pc[t] = "copy" => Current(t) \in Shares /\ Current(t)' = Current(t)
    BY <1>3, CurrentType DEF Current
  <2>3. Staged(t)'
    BY <1>1, <1>3, <2>1, <2>2
  <2>4. Answered(t)'
    BY <1>1, <1>2, <1>3, <2>1 DEF Using
  <2> QED
    BY <2>3, <2>4
<1>4. ASSUME NEW t \in Threads, recvMeta(t) PROVE Staged(t)' /\ Answered(t)'
  <2>1. stat'[t] = <<>> /\ pos'[t] = 1 /\ pc'[t] = "first"
    BY <1>4 DEF recvMeta, Goto, StageInv, TypeInv, TypeOK, InPackage
  <2> QED
    BY <2>1 DEF Using, HoldsNode
<1>5. ASSUME NEW t \in Threads, intraUserIndexUpdate_(t) PROVE Staged(t)' /\ Answered(t)'
  <2> DEFINE own == Owns(UserOf[t], Current(t))
  <2>1. /\ pc[t] = "first" /\ pc'[t] \in {"first", "data"} /\ batch'[t] = batch[t]
        /\ pc'[t] = "first" => pos'[t] = pos[t] + 1
        /\ pc'[t] = "data" => pos'[t] = 1 /\ pos[t] = Len(batch[t])
    BY <1>5 DEF intraUserIndexUpdate_, Goto, TypeInv, TypeOK
  <2>2. stat'[t] = Append(stat[t], own)
    BY <1>5 DEF intraUserIndexUpdate_, Current, TypeInv, TypeOK
  <2>3. own \in BOOLEAN
    BY DEF Owns
  <2>4. stat[t] \in Seq(BOOLEAN) /\ pos[t] \in Nat
    BY <1>2
  <2> HIDE DEF own
  <2>5. /\ stat'[t] \in Seq(BOOLEAN) /\ Len(stat'[t]) = Len(stat[t]) + 1
        /\ \A i \in 1 .. Len(stat[t]) : stat'[t][i] = stat[t][i]
        /\ stat'[t][Len(stat[t]) + 1] = own
    BY <2>2, <2>3, <2>4, SeqAppend, SMTT(60)
  <2>6. Len(stat[t]) = pos[t] - 1
    BY <2>1 DEF StageInv
  <2>7. Staged(t)'
    BY <2>1, <2>4, <2>5, <2>6
  <2>8. ASSUME NEW i \in DOMAIN batch[t], i \in DOMAIN stat'[t], stat'[t][i]
        PROVE  index[batch[t][i]] # NoEntry
    <3>1. Len(stat[t]) \in Nat /\ DOMAIN stat[t] = 1 .. Len(stat[t])
      BY <2>4
    <3>2. DOMAIN stat'[t] = 1 .. Len(stat[t]) + 1
      BY <2>5
    <3>3. i \in 1 .. Len(stat[t]) \/ i = Len(stat[t]) + 1
      BY <2>8, <3>1, <3>2
    <3>4. CASE i \in 1 .. Len(stat[t])
      <4>1. i \in DOMAIN stat[t] /\ stat[t][i]
        BY <2>5, <2>8, <3>1, <3>4
      <4> QED
        BY <2>8, <4>1 DEF PackageIndexed
    <3>5. CASE i = Len(stat[t]) + 1
      <4>1. own /\ i = pos[t]
        BY <2>4, <2>5, <2>6, <2>8, <3>5
      <4> QED
        BY <4>1 DEF own, Owns, Current
    <3> QED
      BY <3>3, <3>4, <3>5
  <2>9. ~Using(t)'
    BY <2>1 DEF Using, HoldsNode
  <2>10. ASSUME NEW i \in DOMAIN batch'[t], i \in DOMAIN stat'[t], stat'[t][i]
         PROVE  index'[batch'[t][i]] # NoEntry
    <3>1. batch'[t][i] = batch[t][i] /\ batch[t][i] \in Shares
      BY <1>2, <2>1, <2>10
    <3>2. index[batch[t][i]] # NoEntry
      BY <2>1, <2>8, <2>10
    <3> QED
      BY <1>1, <3>1, <3>2
  <2>11. Answered(t)'
    BY <2>9, <2>10
  <2> QED
    BY <2>7, <2>11
<1>6. ASSUME NEW t \in Threads, Return(t) PROVE Staged(t)' /\ Answered(t)'
  BY <1>6 DEF Return, Goto, TypeInv, TypeOK
<1>7. ASSUME NEW t \in Threads, pc[t] # "idle",
             pc'[t] \in {"data", "create"} \cup (HoldsNode \ {"copy"}),
             pc'[t] \in {"data", "create"} => pos[t] = 1, pc[t] # "first",
             pos[t] = 1 \/ Using(t),
             batch'[t] = batch[t], stat'[t] = stat[t], pos'[t] = pos[t]
      PROVE  Staged(t)' /\ Answered(t)'
  <2>1. Staged(t) /\ Answered(t)
    BY DEF StageInv, PackageIndexed
  <2>2. Staged(t)'
    BY <1>7, <2>1 DEF HoldsNode
  <2>3. ASSUME NEW i \in DOMAIN batch'[t],
               (i \in DOMAIN stat'[t] /\ stat'[t][i]) \/ (Using(t)' /\ i < pos'[t])
        PROVE  index'[batch'[t][i]] # NoEntry
    <3>1. /\ i \in DOMAIN batch[t] /\ i \in Nat /\ i >= 1
          /\ batch'[t][i] = batch[t][i] /\ batch[t][i] \in Shares
      BY <1>2, <1>7, <2>3
    <3>2. (i \in DOMAIN stat[t] /\ stat[t][i]) \/ (Using(t)' /\ i < pos[t])
      BY <1>7, <2>3
    <3>3. i < pos[t] => pos[t] # 1
      BY <3>1
    <3>4. (i \in DOMAIN stat[t] /\ stat[t][i]) \/ (Using(t) /\ i < pos[t])
      BY <1>7, <3>2, <3>3
    <3>5. index[batch[t][i]] # NoEntry
      BY <2>1, <3>1, <3>4
    <3> QED
      BY <1>1, <3>1, <3>5
  <2>4. Answered(t)'
    BY <2>3
  <2> QED
    BY <2>2, <2>4
<1>8. ASSUME NEW t \in Threads, pc[t] \in HoldsNode, NextShare(t),
             (pos[t] \in DOMAIN stat[t] /\ stat[t][pos[t]]) \/ index[Current(t)] # NoEntry
      PROVE  Staged(t)' /\ Answered(t)'
  <2>1. CASE Return(t)
    BY <1>6, <2>1
  <2>2. CASE ~Return(t)
    <3>1. /\ pc'[t] = "share" /\ pos'[t] = pos[t] + 1
          /\ batch'[t] = batch[t] /\ stat'[t] = stat[t]
      BY <1>8, <2>2 DEF NextShare, Goto, TypeInv, TypeOK
    <3>2. Answered(t) /\ Using(t)
      BY <1>8 DEF PackageIndexed, Using
    <3>3. pos[t] \in DOMAIN batch[t]
      BY <1>2, <1>8, CurrentType DEF HoldsNode
    <3>4. index[batch[t][pos[t]]] # NoEntry
      BY <1>8, <3>2, <3>3 DEF Current
    <3>5. \A i \in DOMAIN batch[t] : i < pos[t] + 1 => i < pos[t] \/ i = pos[t]
      BY <1>2
    <3>6. Answered(t)'
      BY <1>1, <1>2, <3>1, <3>2, <3>3, <3>4, <3>5
    <3>7. Len(stat[t]) = Len(batch[t])
      BY <1>8 DEF StageInv, HoldsNode
    <3> QED
      BY <3>1, <3>6, <3>7
  <2> QED
    BY <2>1, <2>2
<1>9. ASSUME NEW t \in Threads, putEntry(t) PROVE Staged(t)' /\ Answered(t)'
  <2>1. /\ pc[t] = "put" /\ pc'[t] = "copy"
        /\ batch'[t] = batch[t] /\ stat'[t] = stat[t] /\ pos'[t] = pos[t]
    BY <1>9 DEF putEntry, Goto, local, TypeInv, TypeOK
  <2>2. Current(t)' = Current(t) /\ Current(t) \in Shares
    BY <2>1, CurrentType DEF Current
  <2>3. index'[Current(t)] # NoEntry
    <3>1. index'[Current(t)] = [container |-> node[ptr[t]].container,
                                offset |-> Len(node[ptr[t]].buf) + 1,
                                refs |-> [u \in Users |-> IF u = UserOf[t] THEN 1 ELSE 0]]
      BY <1>9, <2>2 DEF putEntry, TypeInv, TypeOK
    <3>2. node[ptr[t]].container \in Names /\ Len(node[ptr[t]].buf) \in Nat
      BY SMTT(60) DEF TypeInv, TypeOK, Node
    <3>3. index'[Current(t)] \in Entry
      BY <3>1, <3>2, SMTT(60) DEF Entry
    <3> QED
      BY <3>3, ConstantsAssumption
  <2>4. Answered(t) /\ Using(t) /\ Staged(t)
    BY <2>1 DEF PackageIndexed, StageInv, Using, HoldsNode
  <2>5. \A i \in DOMAIN batch[t] :
          (i \in DOMAIN stat[t] /\ stat[t][i]) \/ i < pos[t] => index[batch[t][i]] # NoEntry
    BY <2>4
  <2>6. \A i \in DOMAIN batch[t] :
          (i \in DOMAIN stat[t] /\ stat[t][i]) \/ i < pos[t] => index'[batch[t][i]] # NoEntry
    BY <1>1, <1>2, <2>5
  <2>7. Answered(t)'
    BY <2>1, <2>6
  <2> QED
    BY <2>1, <2>2, <2>3, <2>4, <2>7
<1> HIDE DEF Staged, Answered
<1>10. ASSUME NEW t \in Threads, recvMeta(t) \/ Step(t)
       PROVE  Staged(t)' /\ Answered(t)'
  <2>1. Staged(t)
    BY DEF StageInv, Staged
  <2>2. CASE disconnect(t) \/ rejectShare(t)
    BY <1>6, <2>2 DEF disconnect, rejectShare
  <2>3. CASE findBufferNode_(t) \/ createBufferNode_(t)
    BY <1>7, <2>1, <2>3
       DEF findBufferNode_, createBufferNode_, Goto, HoldsNode, TypeInv, TypeOK, Staged
  <2>4. CASE skipShare(t)
    <3>1. pos[t] \in DOMAIN batch[t]
      BY <1>2, <2>4, CurrentType DEF skipShare
    <3>2. (pos[t] \in DOMAIN stat[t] /\ stat[t][pos[t]]) \/ index[Current(t)] # NoEntry
      BY <1>2, <2>1, <2>4, <3>1 DEF skipShare, Staged
    <3> QED
      BY <1>8, <2>4, <3>2 DEF skipShare, HoldsNode
  <2>5. CASE referenceShare(t)
    BY <1>8, <2>5 DEF referenceShare, HoldsNode
  <2>6. CASE missShare(t)
    BY <1>7, <2>6 DEF missShare, Goto, HoldsNode, Using, local, TypeInv, TypeOK
  <2>7. CASE writeContainer(t)
    BY <1>6, <1>7, <2>7 DEF writeContainer, Goto, HoldsNode, Using, TypeInv, TypeOK
  <2>8. CASE renewContainer(t) \/ closeContainer(t)
    BY <1>7, <2>8
       DEF renewContainer, closeContainer, Goto, HoldsNode, Using, TypeInv, TypeOK
  <2>9. CASE copyShare(t)
    BY <1>8, <2>1, <2>9 DEF copyShare, HoldsNode, Staged
  <2> QED
    BY <1>4, <1>5, <1>9, <1>10, <2>2, <2>3, <2>4, <2>5, <2>6, <2>7, <2>8, <2>9
       DEF Step
<1>11. ASSUME NEW t \in Threads, recvMeta(t) \/ Step(t), NEW t2 \in Threads
       PROVE  Staged(t2)' /\ Answered(t2)'
  <2>1. CASE t2 = t
    BY <1>10, <1>11, <2>1
  <2>2. CASE t2 # t
    BY <1>3, <1>11, <2>2, StepLeavesOthers DEF OthersStay
  <2> QED
    BY <2>1, <2>2
<1>12. ASSUME \A t \in Threads : Staged(t)' /\ Answered(t)'
       PROVE  StageInv' /\ PackageIndexed'
  BY <1>12 DEF StageInv, PackageIndexed, Staged, Answered
<1>13. CASE UNCHANGED vars
  <2>1. \A t \in Threads : Staged(t)' /\ Answered(t)'
    BY <1>3, <1>13 DEF vars
  <2> QED
    BY <1>12, <2>1
<1>14. ASSUME NEW t \in Threads, recvMeta(t) \/ Step(t) PROVE StageInv' /\ PackageIndexed'
  BY <1>11, <1>12, <1>14
<1> QED
  BY <1>13, <1>14 DEF Next, Quiet

LEMMA InitStage == Init => StageInv /\ PackageIndexed
BY SMTT(60) DEF Init, StageInv, PackageIndexed

\* Whatever interleavings, faults and losses there are: the first stage tells a
\* client not to send a share, and the second goes past one, only when the
\* index has it, for any number of users, threads and shares.
THEOREM PackagesIndexed == Spec => []PackageIndexed
<1>1. Init => TypeInv /\ StageInv /\ PackageIndexed
  BY InitType, InitStage
<1>2. TypeInv /\ StageInv /\ PackageIndexed /\ [Next]_vars
        => (TypeInv /\ StageInv /\ PackageIndexed)'
  BY StepType, StepStage
<1> QED
  BY <1>1, <1>2, PTL DEF Spec

-----------------------------------------------------------------------------
(* How often a share is stored.                                            *)

At(q, i, s) == i \in DOMAIN q /\ q[i] = s

\* The places of s in a node's buffer (also in a node that was freed), in a
\* file being written and in the container files.
Kept(s) ==
  {p \in Names \X Nat :
     \/ \E n \in Names : node[n].container = p[1] /\ At(node[n].buf, p[2], s)
     \/ \E t \in Threads : pending[t].container = p[1] /\ At(pending[t].data, p[2], s)
     \/ At(disk[p[1]], p[2], s)}

\* The threads that missed s in the index and have not copied it yet.
Missed(s) ==
  {t \in Threads : pc[t] \in {"store", "renew", "close", "put", "copy"} /\ Current(t) = s}

\* What is used of finite sets: a subset is no larger, and an element more or
\* less makes a difference of one.
SubsetsCount ==
  \A S : IsFiniteSet(S) =>
    \A T \in SUBSET S : IsFiniteSet(T) /\ Cardinality(T) <= Cardinality(S)
ElementsCount ==
  \A S : IsFiniteSet(S) =>
    /\ Cardinality(S) \in Nat
    /\ \A x : IsFiniteSet(S \cup {x}) /\ Cardinality(S \cup {x}) <= Cardinality(S) + 1
    /\ \A x \in S : IsFiniteSet(S \ {x}) /\ Cardinality(S \ {x}) = Cardinality(S) - 1
LEMMA AtMostOneMore ==
  ASSUME NEW a \in Nat, NEW b, b = a \/ b = a + 1
  PROVE  b <= a + 1
BY SMTT(60)

Counting == IsFiniteSet({}) /\ Cardinality({}) = 0 /\ SubsetsCount /\ ElementsCount

LEMMA CountPart ==
  ASSUME Counting, NEW S, IsFiniteSet(S), NEW T \in SUBSET S
  PROVE  /\ IsFiniteSet(T) /\ Cardinality(T) \in Nat /\ Cardinality(S) \in Nat
         /\ Cardinality(T) <= Cardinality(S)
BY DEF Counting, SubsetsCount, ElementsCount

LEMMA CountMore ==
  ASSUME Counting, NEW S, IsFiniteSet(S), NEW x, NEW T \in SUBSET (S \cup {x})
  PROVE  /\ IsFiniteSet(T) /\ Cardinality(T) \in Nat
         /\ Cardinality(T) <= Cardinality(S) + 1
<1>1. /\ IsFiniteSet(S \cup {x}) /\ Cardinality(S) \in Nat
      /\ Cardinality(S \cup {x}) <= Cardinality(S) + 1
  BY DEF Counting, ElementsCount
<1>2. /\ IsFiniteSet(T) /\ Cardinality(T) \in Nat /\ Cardinality(S \cup {x}) \in Nat
      /\ Cardinality(T) <= Cardinality(S \cup {x})
  BY <1>1, CountPart
<1> HIDE DEF Counting
<1> QED
  BY <1>1, <1>2

LEMMA CountLess ==
  ASSUME Counting, NEW S, IsFiniteSet(S), NEW x \in S, NEW T \in SUBSET (S \ {x})
  PROVE  Cardinality(T) \in Nat /\ Cardinality(T) + 1 <= Cardinality(S)
<1>1. /\ IsFiniteSet(S \ {x}) /\ Cardinality(S) \in Nat
      /\ Cardinality(S \ {x}) = Cardinality(S) - 1
  BY DEF Counting, ElementsCount
<1>2. Cardinality(T) \in Nat /\ Cardinality(T) <= Cardinality(S \ {x})
  BY <1>1, CountPart
<1> QED
  BY <1>1, <1>2, SMTT(60)

\* A connection stores a share once, after it missed it in the index, and the
\* index has the share from then on; each place was filled by one of them.
OnceFor(s) ==
  /\ IsFiniteSet(Kept(s)) /\ Cardinality(Kept(s)) <= Cardinality(Storers(s))
  /\ \A t \in Threads : /\ made[t][s] <= 1
                        /\ made[t][s] > 0 => index[s] # NoEntry
                        /\ t \in Missed(s) => made[t][s] = 0

OnceInv ==
  /\ made \in [Threads -> [Shares -> Nat]]
  /\ \A s \in Shares : OnceFor(s)

LEMMA AtPrefix ==
  ASSUME NEW q \in Seq(Shares), NEW k \in 0 .. Len(q), NEW i, NEW s, At(SubSeq(q, 1, k), i, s)
  PROVE  At(q, i, s)
<1>1. /\ SubSeq(q, 1, k) \in Seq(Shares) /\ Len(SubSeq(q, 1, k)) = k
      /\ \A j \in 1 .. k : SubSeq(q, 1, k)[j] = q[j]
  OBVIOUS
<1> QED
  BY <1>1 DEF At

LEMMA FlushedPrefix ==
  ASSUME TypeInv, NEW nodes \in SUBSET Names, NEW kept \in WholeOrFaulty(nodes), NEW c \in Names
  PROVE  \/ Flushed(kept)[c] = disk[c]
         \/ \E n \in nodes : /\ node[n].container = c
                             /\ kept[n] \in 0 .. Len(node[n].buf)
                             /\ Flushed(kept)[c] = SubSeq(node[n].buf, 1, kept[n])
<1> DEFINE of == {n \in DOMAIN kept : node[n].container = c /\ node[n].buf # <<>>}
           m  == CHOOSE n \in of : TRUE
<1>1. Flushed(kept)[c] = IF of = {} THEN disk[c] ELSE SubSeq(node[m].buf, 1, kept[m])
  BY DEF Flushed
<1>2. ASSUME of # {}
      PROVE  m \in nodes /\ node[m].container = c /\ kept[m] \in 0 .. Len(node[m].buf)
  <2>1. m \in of /\ DOMAIN kept = nodes /\ kept \in [nodes -> 0 .. ContainerCap]
    BY <1>2 DEF WholeOrFaulty
  <2>2. node[m].buf \in Seq(Shares)
    BY <2>1 DEF TypeInv, TypeOK, Node
  <2> QED
    BY <2>1, <2>2, ConstantsAssumption, SMTT(60) DEF WholeOrFaulty
<1> QED
  BY <1>1, <1>2

LEMMA KeptFrame ==
  ASSUME TypeInv, NEW s \in Shares,
         \A n \in Names : node'[n].buf = <<>> \/ node'[n] = node[n],
         \A t \in Threads :
           \/ pending'[t] = pending[t]
           \/ pending'[t].data = <<>>
           \/ \E n \in Names : pending'[t].container = node[n].container
                               /\ pending'[t].data = node[n].buf,
         \A c \in Names :
           \/ disk'[c] = disk[c]
           \/ \E n \in Names : /\ node[n].container = c
                               /\ \E k \in 0 .. Len(node[n].buf) :
                                    disk'[c] = SubSeq(node[n].buf, 1, k)
           \/ \E t \in Threads : pending[t].container = c /\ disk'[c] = pending[t].data
  PROVE  Kept(s)' \subseteq Kept(s)
<1> SUFFICES ASSUME NEW c \in Names, NEW i \in Nat,
                    \/ \E n \in Names : node'[n].container = c /\ At(node'[n].buf, i, s)
                    \/ \E t \in Threads : pending'[t].container = c /\ At(pending'[t].data, i, s)
                    \/ At(disk'[c], i, s)
             PROVE  \/ \E n \in Names : node[n].container = c /\ At(node[n].buf, i, s)
                    \/ \E t \in Threads : pending[t].container = c /\ At(pending[t].data, i, s)
                    \/ At(disk[c], i, s)
  BY ZenonT(60) DEF Kept, At
<1>1. ~At(<<>>, i, s)
  BY SMTT(60) DEF At
<1>2. \A n \in Names : node[n].buf \in Seq(Shares)
  BY DEF TypeInv, TypeOK, Node
<1>3. CASE \E n \in Names : node'[n].container = c /\ At(node'[n].buf, i, s)
  BY <1>1, <1>3
<1>4. CASE \E t \in Threads : pending'[t].container = c /\ At(pending'[t].data, i, s)
  BY <1>1, <1>4, SMTT(60)
<1>5. CASE At(disk'[c], i, s)
  <2>1. CASE disk'[c] = disk[c]
    BY <1>5, <2>1
  <2>2. ASSUME NEW n \in Names, node[n].container = c,
               NEW k \in 0 .. Len(node[n].buf), disk'[c] = SubSeq(node[n].buf, 1, k)
        PROVE  At(node[n].buf, i, s)
    BY <1>2, <1>5, <2>2, AtPrefix, SMTT(60)
  <2>3. CASE \E t \in Threads : pending[t].container = c /\ disk'[c] = pending[t].data
    BY <1>5, <2>3
  <2> QED
    BY <2>1, <2>2, <2>3
<1> QED
  BY <1>3, <1>4, <1>5

LEMMA KeptShrinks ==
  ASSUME TypeInv, NEW t \in Threads, recvMeta(t) \/ Step(t), ~copyShare(t), NEW s \in Shares
  PROVE  Kept(s)' \subseteq Kept(s)
<1>1. ASSUME UNCHANGED <<disk, node, pending>> PROVE Kept(s)' \subseteq Kept(s)
  BY <1>1, KeptFrame
<1>2. CASE recvMeta(t) \/ intraUserIndexUpdate_(t) \/ disconnect(t) \/ skipShare(t)
           \/ rejectShare(t) \/ referenceShare(t) \/ missShare(t) \/ putEntry(t)
  BY <1>1, <1>2 DEF recvMeta, intraUserIndexUpdate_, disconnect, skipShare, rejectShare,
                    referenceShare, missShare, putEntry, store, local
<1>3. CASE findBufferNode_(t)
  <2>1. PICK expired \in SUBSET MayExpire(t) :
          \E kept \in WholeOrFaulty(expired) : disk' = Flushed(kept)
    BY <1>3 DEF findBufferNode_
  <2>2. PICK kept \in WholeOrFaulty(expired) : disk' = Flushed(kept)
    BY <2>1
  <2>3. expired \in SUBSET Names /\ UNCHANGED <<node, pending>>
    BY <1>3 DEF MayExpire, findBufferNode_, TypeInv, TypeOK
  <2>4. ASSUME NEW c \in Names
        PROVE  \/ disk'[c] = disk[c]
               \/ \E n \in Names : /\ node[n].container = c
                                   /\ \E k \in 0 .. Len(node[n].buf) :
                                        disk'[c] = SubSeq(node[n].buf, 1, k)
    BY <2>2, <2>3, FlushedPrefix
  <2> QED
    BY <2>3, <2>4, KeptFrame
<1>4. CASE createBufferNode_(t)
  <2>1. \A n \in Names : node'[n].buf = <<>> \/ node'[n] = node[n]
    BY <1>4 DEF createBufferNode_, TypeInv, TypeOK
  <2>2. UNCHANGED <<disk, pending>>
    BY <1>4 DEF createBufferNode_
  <2> QED
    BY <2>1, <2>2, KeptFrame
<1>5. CASE writeContainer(t)
  <2>1. ptr[t] \in Names /\ UNCHANGED <<node, pending>>
    BY <1>5 DEF writeContainer, TypeInv, TypeOK
  <2>2. PICK k \in 0 .. Len(node[ptr[t]].buf) :
          disk' = [disk EXCEPT ![node[ptr[t]].container] = SubSeq(node[ptr[t]].buf, 1, k)]
    BY <1>5 DEF writeContainer
  <2>3. \A c \in Names : \/ disk'[c] = disk[c]
                         \/ node[ptr[t]].container = c /\ disk'[c] = SubSeq(node[ptr[t]].buf, 1, k)
    BY <2>2 DEF TypeInv, TypeOK
  <2> QED
    BY <2>1, <2>2, <2>3, KeptFrame
<1>6. CASE renewContainer(t)
  <2>1. ptr[t] \in Names /\ node[ptr[t]] \in Node /\ disk' = disk
    BY <1>6 DEF renewContainer, TypeInv, TypeOK
  <2>2. \A n \in Names : node'[n].buf = <<>> \/ node'[n] = node[n]
    BY <1>6, <2>1 DEF renewContainer, TypeInv, TypeOK, Node
  <2>3. \A t2 \in Threads : \/ pending'[t2] = pending[t2]
                            \/ /\ pending'[t2].container = node[ptr[t]].container
                               /\ pending'[t2].data = node[ptr[t]].buf
    BY <1>6 DEF renewContainer, TypeInv, TypeOK
  <2> QED
    BY <2>1, <2>2, <2>3, KeptFrame
<1>7. CASE closeContainer(t)
  <2>1. node' = node
    BY <1>7 DEF closeContainer
  <2>2. \A c \in Names : \/ disk'[c] = disk[c]
                         \/ pending[t].container = c /\ disk'[c] = pending[t].data
    BY <1>7 DEF closeContainer, TypeInv, TypeOK
  <2>3. \A t2 \in Threads : pending'[t2] = pending[t2] \/ pending'[t2].data = <<>>
    BY <1>7 DEF closeContainer, TypeInv, TypeOK, NoFile
  <2> QED
    BY <2>1, <2>2, <2>3, KeptFrame
<1> QED
  BY <1>2, <1>3, <1>4, <1>5, <1>6, <1>7 DEF Step

LEMMA CopyKeepsOneMore ==
  ASSUME TypeInv, NEW t \in Threads, copyShare(t), NEW s \in Shares
  PROVE  \/ Current(t) # s /\ Kept(s)' \subseteq Kept(s)
         \/ Current(t) = s /\ \E x : Kept(s)' \subseteq Kept(s) \cup {x}
<1> DEFINE n == ptr[t]
           b == node[n]
           x == <<b.container, Len(b.buf) + 1>>
<1>1. n \in Names /\ b.buf \in Seq(Shares) /\ Current(t) \in Shares
  BY CurrentType DEF copyShare, Current, TypeInv, TypeOK, Node
<1>2. /\ \A m \in Names : m # n => node'[m] = node[m]
      /\ node'[n].container = b.container
      /\ node'[n].buf = Append(b.buf, Current(t))
  BY CopyEffect
<1>3. UNCHANGED <<disk, pending>>
  BY DEF copyShare
<1>4. ASSUME NEW i, At(node'[n].buf, i, s)
      PROVE  At(b.buf, i, s) \/ (Current(t) = s /\ i = Len(b.buf) + 1)
  BY <1>1, <1>2, <1>4, SMTT(60) DEF At
<1>5. ASSUME NEW y \in Kept(s)'
      PROVE  y \in Kept(s) \/ (Current(t) = s /\ y = x)
  <2>1. y \in Names \X Nat /\ y = <<y[1], y[2]>>
    BY <1>5 DEF Kept
  <2>2. CASE \E m \in Names : node'[m].container = y[1] /\ At(node'[m].buf, y[2], s)
    <3>1. PICK m \in Names : node'[m].container = y[1] /\ At(node'[m].buf, y[2], s)
      BY <2>2
    <3>2. CASE m = n
      BY <1>1, <1>2, <1>4, <2>1, <3>1, <3>2 DEF Kept
    <3>3. CASE m # n
      BY <1>2, <2>1, <3>1, <3>3 DEF Kept
    <3> QED
      BY <3>2, <3>3
  <2>3. CASE ~\E m \in Names : node'[m].container = y[1] /\ At(node'[m].buf, y[2], s)
    BY <1>3, <1>5, <2>1, <2>3 DEF Kept
  <2> QED
    BY <2>2, <2>3
<1> QED
  BY <1>5, SMTT(60)

\* A thread comes to miss s only while the index has no entry for it.
LEMMA MissedShrinks ==
  ASSUME TypeInv, NEW t \in Threads, recvMeta(t) \/ Step(t), NEW s \in Shares, index[s] # NoEntry
  PROVE  Missed(s)' \subseteq IF copyShare(t) THEN Missed(s) \ {t} ELSE Missed(s)
<1> DEFINE Late == {"store", "renew", "close", "put", "copy"}
<1>1. OthersStay(t)
  BY StepLeavesOthers
<1>2. \A t2 \in Threads \ {t} : t2 \in Missed(s)' <=> t2 \in Missed(s)
  BY <1>1 DEF Missed, OthersStay, Current
<1>3. ASSUME t \in Missed(s)' PROVE t \in Missed(s) /\ ~copyShare(t)
  <2>1. pc'[t] \in Late /\ Current(t)' = s
    BY <1>3 DEF Missed
  <2>2. ASSUME NextShare(t) PROVE FALSE
    BY <2>1, <2>2, ZenonT(60) DEF NextShare, Return, Goto, TypeInv, TypeOK
  <2>3. CASE recvMeta(t) \/ intraUserIndexUpdate_(t) \/ disconnect(t) \/ findBufferNode_(t)
             \/ createBufferNode_(t) \/ rejectShare(t)
    BY <2>1, <2>3, ZenonT(60) DEF recvMeta, intraUserIndexUpdate_, disconnect, findBufferNode_,
                      createBufferNode_, rejectShare, Return, Goto, TypeInv, TypeOK
  <2>4. CASE skipShare(t) \/ referenceShare(t) \/ copyShare(t)
    BY <2>2, <2>4 DEF skipShare, referenceShare, copyShare
  <2>5. CASE missShare(t)
    BY <2>1, <2>5 DEF missShare, local, Current
  <2>6. CASE writeContainer(t)
    BY <2>1, <2>6, SMTT(60) DEF writeContainer, copyShare, Return, Goto, Missed, Current, TypeInv, TypeOK
  <2>7. CASE renewContainer(t) \/ closeContainer(t) \/ putEntry(t)
    BY <2>1, <2>7 DEF renewContainer, closeContainer, putEntry, copyShare, local, Missed, Current
  <2> QED
    BY <1>3, <2>3, <2>4, <2>5, <2>6, <2>7 DEF Step
<1> QED
  BY <1>2, <1>3 DEF Missed

\* The history counts the copies.
LEMMA CountsCopies ==
  ASSUME TypeInv, made \in [Threads -> [Shares -> Nat]],
         NEW t \in Threads, recvMeta(t) \/ Step(t), HistoryNext
  PROVE  /\ made' \in [Threads -> [Shares -> Nat]]
         /\ \A t2 \in Threads, s \in Shares :
              made'[t2][s] = IF t2 = t /\ copyShare(t) /\ Current(t) = s
                             THEN made[t2][s] + 1 ELSE made[t2][s]
<1>1. \A t2 \in Threads \ {t} : pc'[t2] = pc[t2]
  BY StepLeavesOthers DEF OthersStay
<1>2. pc[t] = "copy" /\ pc'[t] # "copy" <=> copyShare(t)
  <2>1. ASSUME copyShare(t) PROVE pc[t] = "copy" /\ pc'[t] # "copy"
    BY <2>1, ZenonT(60) DEF copyShare, NextShare, Return, Goto, TypeInv, TypeOK
  <2>2. ASSUME pc[t] = "copy" PROVE copyShare(t)
    BY <2>2, ZenonT(60) DEF Step, recvMeta, intraUserIndexUpdate_, disconnect, skipShare,
             rejectShare, referenceShare, missShare, findBufferNode_, createBufferNode_,
             writeContainer, renewContainer, closeContainer, putEntry
  <2> QED
    BY <2>1, <2>2
<1>3. made' = [t2 \in Threads |-> [s \in Shares |->
                 IF pc[t2] = "copy" /\ pc'[t2] # "copy" /\ Current(t2) = s
                 THEN made[t2][s] + 1 ELSE made[t2][s]]]
  BY DEF HistoryNext
<1>4. ASSUME NEW t2 \in Threads, NEW s \in Shares
      PROVE  /\ made[t2][s] \in Nat
             /\ made'[t2][s] = IF t2 = t /\ copyShare(t) /\ Current(t) = s
                               THEN made[t2][s] + 1 ELSE made[t2][s]
  BY <1>1, <1>2, <1>3, ZenonT(60)
<1>5. \A t2 \in Threads, s \in Shares :
        (IF pc[t2] = "copy" /\ pc'[t2] # "copy" /\ Current(t2) = s
         THEN made[t2][s] + 1 ELSE made[t2][s]) \in Nat
  BY <1>4, SMTT(60)
<1> QED
  BY <1>3, <1>4, <1>5, ZenonT(60)

\* A step that does not store s.
LEMMA OnceFrame ==
  ASSUME Counting, NEW s \in Shares, OnceFor(s),
         \A t \in Threads : made'[t][s] = made[t][s],
         Kept(s)' \subseteq Kept(s), index[s] # NoEntry => index'[s] # NoEntry,
         index[s] # NoEntry => Missed(s)' \subseteq Missed(s),
         made \in [Threads -> [Shares -> Nat]]
  PROVE  OnceFor(s)'
<1>1. Storers(s)' = Storers(s)
  BY DEF Storers
<1>2. /\ IsFiniteSet(Kept(s)') /\ Cardinality(Kept(s)') \in Nat /\ Cardinality(Kept(s)) \in Nat
      /\ Cardinality(Kept(s)') <= Cardinality(Kept(s))
  BY CountPart DEF OnceFor
<1>3. Cardinality(Storers(s)) \in Nat
  BY ThreadsFinite, CountPart DEF Storers
<1>4. Cardinality(Kept(s)) <= Cardinality(Storers(s))
  BY DEF OnceFor
<1>5. Cardinality(Kept(s)') <= Cardinality(Storers(s)')
  BY <1>1, <1>2, <1>3, <1>4, SMTT(60)
<1>6. ASSUME NEW t \in Threads
      PROVE  /\ made'[t][s] <= 1
             /\ made'[t][s] > 0 => index'[s] # NoEntry
             /\ t \in Missed(s)' => made'[t][s] = 0
  <2>1. /\ made[t][s] \in Nat /\ made[t][s] <= 1
        /\ made[t][s] > 0 => index[s] # NoEntry
        /\ t \in Missed(s) => made[t][s] = 0
    BY DEF OnceFor
  <2>2. made[t][s] = 0 \/ made[t][s] > 0
    BY <2>1, SMTT(60)
  <2> QED
    BY <2>1, <2>2
<1> QED
  BY <1>2, <1>5, <1>6 DEF OnceFor

\* A step that stores s: its thread had not stored it, and has now.
LEMMA OnceCopied ==
  ASSUME Counting, TypeInv, StageInv, made \in [Threads -> [Shares -> Nat]],
         NEW t \in Threads, copyShare(t), recvMeta(t) \/ Step(t), HistoryNext, Next,
         NEW s \in Shares, Current(t) = s, OnceFor(s)
  PROVE  OnceFor(s)'
<1>1. index[s] # NoEntry /\ pc[t] = "copy"
  BY DEF StageInv, copyShare
<1>2. index'[s] # NoEntry
  BY <1>1, IndexGrows
<1>3. t \in Missed(s) /\ Missed(s)' \subseteq Missed(s) \ {t}
  BY <1>1, MissedShrinks DEF Missed
<1>4. /\ \A u \in Threads : made[u][s] \in Nat
      /\ \A u \in Threads \ {t} : made'[u][s] = made[u][s]
      /\ made'[t][s] = made[t][s] + 1
      /\ made[t][s] = 0
  <2>1. made[t][s] = 0
    BY <1>3 DEF OnceFor
  <2>2. \A u \in Threads : made'[u][s] = IF u = t /\ copyShare(t) /\ Current(t) = s
                                         THEN made[u][s] + 1 ELSE made[u][s]
    BY CountsCopies
  <2> QED
    BY <2>1, <2>2
<1>5. made'[t][s] = 1
  BY <1>4
<1>6. t \in Storers(s)' /\ Storers(s) \subseteq Storers(s)' \ {t}
  <2>1. made'[t][s] > 0 /\ ~(made[t][s] > 0)
    BY <1>4, <1>5
  <2> QED
    BY <1>4, <2>1 DEF Storers
<1>7. IsFiniteSet(Storers(s)')
  BY ThreadsFinite, CountPart DEF Storers
<1>8. /\ Cardinality(Storers(s)) \in Nat
      /\ Cardinality(Storers(s)) + 1 <= Cardinality(Storers(s)')
  BY <1>6, <1>7, CountLess
<1>9. PICK x : Kept(s)' \subseteq Kept(s) \cup {x}
  BY CopyKeepsOneMore
<1>10. IsFiniteSet(Kept(s)) /\ Cardinality(Kept(s)) <= Cardinality(Storers(s))
  BY DEF OnceFor
<1>11. /\ IsFiniteSet(Kept(s)') /\ Cardinality(Kept(s)') \in Nat
       /\ Cardinality(Kept(s)') <= Cardinality(Kept(s)) + 1
  BY <1>9, <1>10, CountMore
<1>12. Cardinality(Kept(s)) \in Nat /\ Cardinality(Storers(s)') \in Nat
  BY <1>7, <1>10, CountPart
<1>13. Cardinality(Kept(s)') <= Cardinality(Storers(s)')
  BY <1>8, <1>10, <1>11, <1>12, SMTT(60)
<1>14. ASSUME NEW u \in Threads
       PROVE  /\ made'[u][s] <= 1
              /\ u \in Missed(s)' => made'[u][s] = 0
  <2>1. CASE u = t
    BY <1>3, <1>5, <2>1, SMTT(60)
  <2>2. CASE u # t
    BY <1>3, <1>4, <2>2 DEF OnceFor
  <2> QED
    BY <2>1, <2>2
<1> QED
  BY <1>2, <1>11, <1>13, <1>14 DEF OnceFor

LEMMA StepOnce ==
  ASSUME Counting, TypeInv, StageInv, OnceInv, [HistoryNext]_historyVars
  PROVE  OnceInv'
<1>1. made \in [Threads -> [Shares -> Nat]] /\ \A s \in Shares : OnceFor(s)
  BY DEF OnceInv
<1>2. ASSUME NEW t \in Threads, recvMeta(t) \/ Step(t), HistoryNext
      PROVE  OnceInv'
  <2>1. made' \in [Threads -> [Shares -> Nat]]
    BY <1>1, <1>2, CountsCopies
  <2>2. Next
    BY <1>2 DEF HistoryNext
  <2>3. ASSUME NEW s \in Shares PROVE OnceFor(s)'
    <3>1. CASE copyShare(t) /\ Current(t) = s
      BY <1>1, <1>2, <2>2, <3>1, OnceCopied
    <3>2. CASE ~(copyShare(t) /\ Current(t) = s)
      <4>1. \A u \in Threads : made'[u][s] = made[u][s]
        BY <1>1, <1>2, <3>2, CountsCopies
      <4>2. Kept(s)' \subseteq Kept(s)
        BY <1>2, <3>2, KeptShrinks, CopyKeepsOneMore
      <4>3. index[s] # NoEntry => index'[s] # NoEntry
        BY <2>2, IndexGrows
      <4>4. index[s] # NoEntry => Missed(s)' \subseteq Missed(s)
        BY <1>2, MissedShrinks
      <4> QED
        BY <1>1, <4>1, <4>2, <4>3, <4>4, OnceFrame
    <3> QED
      BY <3>1, <3>2
  <2> QED
    BY <2>1, <2>3 DEF OnceInv
<1>3. ASSUME UNCHANGED vars, made' = made PROVE OnceInv'
  <2>1. ASSUME NEW s \in Shares PROVE OnceFor(s)'
    <3>1. Kept(s)' = Kept(s) /\ Missed(s)' = Missed(s) /\ index' = index
      BY <1>3 DEF vars, Kept, Missed, Current
    <3> QED
      BY <1>1, <1>3, <3>1, OnceFrame
  <2> QED
    BY <1>1, <1>3, <2>1 DEF OnceInv
<1>4. CASE Quiet /\ HistoryNext
  <2>1. UNCHANGED vars /\ pc' = pc
    BY <1>4 DEF Quiet, vars
  <2>2. made' = [t \in Threads |-> [s \in Shares |->
                   IF pc[t] = "copy" /\ pc'[t] # "copy" /\ Current(t) = s
                   THEN made[t][s] + 1 ELSE made[t][s]]]
    BY <1>4 DEF HistoryNext
  <2>3. made' = [t \in Threads |-> [s \in Shares |-> made[t][s]]]
    BY <2>1, <2>2
  <2>4. made' = made
    BY <1>1, <2>3
  <2> QED
    BY <1>3, <2>1, <2>4
<1>5. CASE UNCHANGED historyVars
  BY <1>3, <1>5 DEF historyVars
<1> QED
  BY <1>2, <1>4, <1>5 DEF HistoryNext, Next

LEMMA InitOnce == Counting /\ HistoryInit => OnceInv
<1> SUFFICES ASSUME Counting, HistoryInit PROVE OnceInv
  OBVIOUS
<1>1. made = [t \in Threads |-> [s \in Shares |-> 0]] /\ Init
  BY DEF HistoryInit
<1>2. made \in [Threads -> [Shares -> Nat]] /\ \A t \in Threads, s \in Shares : made[t][s] = 0
  BY <1>1
<1>3. ASSUME NEW s \in Shares PROVE OnceFor(s)
  <2>1. Kept(s) = {}
    <3>1. /\ \A n \in Names : node[n].buf = <<>>
          /\ \A t \in Threads : pending[t].data = <<>>
          /\ \A c \in Names : disk[c] = <<>>
      BY <1>1 DEF Init, NoFile
    <3>2. \A i : ~At(<<>>, i, s)
      BY DEF At
    <3> QED
      BY <3>1, <3>2 DEF Kept
  <2>2. Cardinality(Storers(s)) \in Nat
    BY ThreadsFinite, CountPart DEF Storers
  <2>3. IsFiniteSet(Kept(s)) /\ Cardinality(Kept(s)) = 0
    BY <2>1 DEF Counting
  <2>4. Cardinality(Kept(s)) <= Cardinality(Storers(s))
    BY <2>2, <2>3, SMTT(60)
  <2>5. \A t \in Threads : made[t][s] <= 1 /\ ~(made[t][s] > 0) /\ made[t][s] = 0
    BY <1>2
  <2> QED
    BY <2>3, <2>4, <2>5 DEF OnceFor
<1> QED
  BY <1>2, <1>3 DEF OnceInv

LEMMA CopiesKept ==
  ASSUME TypeInv, NEW s \in Shares
  PROVE  Copies(s) \subseteq Kept(s)
<1> SUFFICES ASSUME NEW c \in Names, NEW j \in DOMAIN ReadContainer(c), ReadContainer(c)[j] = s
             PROVE  <<c, j>> \in Kept(s)
  BY SMTT(60) DEF Copies
<1>1. CASE Live(c)
  <2> DEFINE n == CHOOSE m \in link : node[m].container = c
  <2>1. n \in link /\ node[n].container = c
    BY <1>1 DEF Live
  <2>2. ReadContainer(c) = node[n].buf
    BY <1>1 DEF ReadContainer
  <2>3. n \in Names /\ node[n].buf \in Seq(Shares)
    BY <2>1 DEF TypeInv, TypeOK, Node
  <2>4. j \in Nat
    BY <2>2, <2>3
  <2> QED
    BY <2>1, <2>2, <2>3, <2>4 DEF Kept, At
<1>2. CASE ~Live(c)
  <2>1. ReadContainer(c) = disk[c] /\ disk[c] \in Seq(Shares)
    BY <1>2 DEF ReadContainer, TypeInv, TypeOK
  <2>2. j \in Nat
    BY <2>1
  <2> QED
    BY <2>1, <2>2 DEF Kept, At
<1> QED
  BY <1>1, <1>2

LEMMA OnceCopies ==
  ASSUME Counting, TypeInv, OnceInv
  PROVE  StoredOncePerConnection
<1> SUFFICES ASSUME NEW s \in Shares PROVE Cardinality(Copies(s)) <= Cardinality(Storers(s))
  BY DEF StoredOncePerConnection, OnceInv, OnceFor
<1>1. IsFiniteSet(Kept(s)) /\ Cardinality(Kept(s)) <= Cardinality(Storers(s))
  BY DEF OnceInv, OnceFor
<1>2. Cardinality(Storers(s)) \in Nat
  BY ThreadsFinite, CountPart DEF Storers
<1>3. /\ Cardinality(Copies(s)) \in Nat /\ Cardinality(Kept(s)) \in Nat
      /\ Cardinality(Copies(s)) <= Cardinality(Kept(s))
  BY <1>1, CopiesKept, CountPart
<1> QED
  BY <1>1, <1>2, <1>3, SMTT(60)
=============================================================================
