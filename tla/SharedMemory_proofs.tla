------------------------- MODULE SharedMemory_proofs -------------------------
(***************************************************************************)
(* Proofs about the two structures that threads share without giving them  *)
(* to each other: the ring buffer of the client, for every size and every  *)
(* number of calls, and the skip list of a memtable, for every number of   *)
(* keys and every height.  No wake-up of the ring buffer is lost, and it   *)
(* is a bounded first-in first-out queue; a search of the skip list that   *)
(* runs beside an insert passes over no key that was in the list before.   *)
(***************************************************************************)
EXTENDS RingBuffer, SkipList, WellFoundedInduction, TLAPS

\* A step that names no prover is for Zenon, then for the SMT solver, with time to
\* spare.
USE ZenonT(30), SMTT(60)

-----------------------------------------------------------------------------
(* The ring buffer: no wake-up is lost.                                    *)

LEMMA MaxType == max \in Nat /\ max >= 2
BY RingAssumption DEF max

RingInv == TypeOK /\ WaitsForReason

LEMMA InitRing == Init => RingInv
<1> SUFFICES ASSUME Init PROVE RingInv
  OBVIOUS
<1>1. <<>> \in Seq(Items \cup {Empty})
  OBVIOUS
<1> QED
  BY <1>1, MaxType, RingAssumption DEF Init, RingInv, TypeOK, WaitsForReason

\* An Insert that stores has room, and an Extract that loads has an item,
\* although a woken thread does not look at count again.
LEMMA RoomToInsert ==
  ASSUME RingInv, Insert
  PROVE  count < max
BY MaxType, SMTT(60) DEF RingInv, TypeOK, WaitsForReason, Insert

LEMMA ItemToExtract ==
  ASSUME RingInv, Extract
  PROVE  count > 0
BY MaxType DEF RingInv, TypeOK, WaitsForReason, Extract

LEMMA StepRing ==
  ASSUME RingInv, [Next]_vars
  PROVE  RingInv'
<1> USE MaxType, RingAssumption DEF RingInv, TypeOK, WaitsForReason
<1>1. CASE Insert
  <2>1. count < max
    BY <1>1, RoomToInsert
  <2>2. buffer' \in [0 .. max - 1 -> Items \cup {Empty}]
    BY <1>1 DEF Insert
  <2>3. inserts' \in 0 .. MaxInserts
    BY <1>1, SMTT(60) DEF Insert
  <2> QED
    BY <1>1, <2>1, <2>2, <2>3, SMTT(60) DEF Insert, nextVal, Signalled
<1>2. CASE InsertWaits
  BY <1>2 DEF InsertWaits
<1>3. CASE Extract
  <2>1. count > 0
    BY <1>3, ItemToExtract
  <2>2. data' \in Seq(Items \cup {Empty})
    BY <1>3, SMTT(60) DEF Extract
  <2> QED
    BY <1>3, <2>1, <2>2, SMTT(60) DEF Extract, nextVal, Signalled
<1>4. CASE ExtractWaits
  BY <1>4 DEF ExtractWaits
<1>5. CASE UNCHANGED vars
  BY <1>5 DEF vars
<1> QED
  BY <1>1, <1>2, <1>3, <1>4, <1>5 DEF Next, Idle

LEMMA RingInvariant == Spec => []RingInv
BY InitRing, StepRing, PTL DEF Spec

\* A thread of the client waits in Insert only while the buffer is full and in
\* Extract only while it is empty, so two threads never wait for each other;
\* a thread that was woken finds what it was woken for.
THEOREM NoLostWakeup == Spec => []WaitsForReason
<1>1. RingInv => WaitsForReason
  BY DEF RingInv
<1> QED
  BY <1>1, RingInvariant, PTL

-----------------------------------------------------------------------------
(* The ring buffer is a bounded queue.                                     *)

LEMMA InsertAppends ==
  ASSUME RingInv, Insert
  PROVE  \E v \in Items : Fifo!Put(v)
<1> USE MaxType
<1>1. count \in Nat /\ count < max /\ readIndex \in 0 .. max - 1
  BY RoomToInsert, SMTT(60) DEF RingInv, TypeOK
<1>2. PICK v \in Items : buffer' = [buffer EXCEPT ![writeIndex] = v]
  BY DEF Insert
<1>3. \A i \in 1 .. count : Slot(i) \in 0 .. max - 1 /\ Slot(i) # writeIndex /\ Slot(i)' = Slot(i)
  BY <1>1, SMTT(60) DEF RingInv, TypeOK, Slot, Insert
<1>4. Slot(count + 1)' = writeIndex /\ writeIndex \in 0 .. max - 1
  BY <1>1, SMTT(60) DEF RingInv, TypeOK, Slot, Insert
<1>6. Len(Contents) = count /\ Contents = [i \in 1 .. count |-> buffer[Slot(i)]]
  BY <1>1 DEF Contents
<1>7. Contents' = [i \in 1 .. count + 1 |-> IF i <= count THEN buffer[Slot(i)] ELSE v]
  <2>1. Contents' = [i \in 1 .. count + 1 |-> (buffer[Slot(i)])']
    BY DEF Contents, Insert
  <2>2. ASSUME NEW i \in 1 .. count + 1
        PROVE  (buffer[Slot(i)])' = IF i <= count THEN buffer[Slot(i)] ELSE v
    <3>1. buffer \in [0 .. max - 1 -> Items \cup {Empty}]
      BY DEF RingInv, TypeOK
    <3>2. CASE i <= count
      BY <1>1, <1>2, <1>3, <3>1, <3>2, SMTT(60)
    <3>3. CASE i = count + 1
      <4>1. Slot(i)' = writeIndex
        BY <1>1, <3>3, SMTT(60) DEF RingInv, TypeOK, Slot, Insert
      <4> QED
        BY <1>1, <1>2, <1>4, <3>1, <3>3, <4>1
    <3> QED
      BY <1>1, <3>2, <3>3
  <2> QED
    BY <2>1, <2>2
<1>5. Contents' = Append(Contents, v)
  BY <1>1, <1>6, <1>7, SMTT(60)
<1> QED
  BY <1>1, <1>5, <1>6 DEF Fifo!Put, Insert

LEMMA ExtractTakes ==
  ASSUME RingInv, Extract
  PROVE  Fifo!Take
<1> USE MaxType
<1>1. count \in 1 .. max /\ count' = count - 1 /\ readIndex \in 0 .. max - 1
  BY ItemToExtract, SMTT(60) DEF RingInv, TypeOK, Extract
<1>2. \A i \in 1 .. count - 1 : Slot(i)' = Slot(i + 1)
  BY <1>1 DEF Slot, Extract, nextVal
<1>3. Slot(1) = readIndex
  BY <1>1 DEF Slot
<1>4. Contents # <<>> /\ Head(Contents) = buffer[readIndex]
  BY <1>1, <1>3 DEF Contents
<1>5. Contents' = Tail(Contents)
  BY <1>1, <1>2 DEF Contents, Extract
<1> QED
  BY <1>4, <1>5 DEF Fifo!Take, Extract

\* The ring buffer implements the bounded queue that the client's threads rely
\* on: each Insert puts one item, each Extract takes the oldest one.
THEOREM RingIsFifo == Spec => IsBoundedFifo
<1>1. Init => Fifo!FifoInit
  BY SMTT(60) DEF Init, Fifo!FifoInit, Contents
<1>2. RingInv /\ [Next]_vars => [Fifo!FifoNext]_(Fifo!fifoVars)
  <2> SUFFICES ASSUME RingInv, [Next]_vars PROVE [Fifo!FifoNext]_(Fifo!fifoVars)
    OBVIOUS
  <2>1. CASE Insert
    BY <2>1, InsertAppends DEF Fifo!FifoNext
  <2>2. CASE Extract
    BY <2>2, ExtractTakes DEF Fifo!FifoNext
  <2>3. CASE InsertWaits \/ ExtractWaits \/ UNCHANGED vars
    BY <2>3 DEF InsertWaits, ExtractWaits, vars, Fifo!fifoVars, Contents, Slot
  <2> QED
    BY <2>1, <2>2, <2>3 DEF Next, Idle
<1> QED
  BY <1>1, <1>2, RingInvariant, PTL DEF Spec, IsBoundedFifo, Fifo!FifoSpec

-----------------------------------------------------------------------------
(* The skip list.                                                          *)

\* The nodes of level l, with the head.
On(l) == ReachedOn(l) \cup {head_}

\* On each level the links lead from every node to the one after it; a node
\* that is not on the level yet leads nowhere.
Sorted ==
  \A l \in Levels, y \in 0 .. NumKeys :
    /\ y \notin On(l) => next_[y][l] = NULL
    /\ y \in On(l) => /\ y < next_[y][l]
                      /\ \A x \in ReachedOn(l) : ~(y < x /\ x < next_[y][l])

\* A node is linked from the lowest level up, as far as its height.
Nested ==
  \A x \in ListKeys, l \in Levels : x \in ReachedOn(l) =>
    /\ l < height_[x]
    /\ \A m \in 0 .. l : x \in ReachedOn(m)

\* The current height is that of the highest node.
Heights ==
  \E h \in max_height_ : /\ \A g \in max_height_ : g <= h
                         /\ \A x \in ListKeys : height_[x] <= h

\* Node p is the last one of level l before key k.
Before(p, k, l) ==
  p \in On(l) /\ p < k /\ \A x \in ReachedOn(l) : ~(p < x /\ x < k)

\* Insert has linked its node on the levels below at, and still knows the nodes
\* before it on the others.
InsertOnWay ==
  inserting # NotInserting =>
    /\ inserting.key \in ListKeys
    /\ inserting.at \in 0 .. height_[inserting.key] - 1
    /\ \A l \in Levels : inserting.key \in ReachedOn(l) <=> l < inserting.at
    /\ \A l \in inserting.at .. height_[inserting.key] - 1 :
         Before(inserting.prev[l], inserting.key, l)

\* A search stands on a node of its level, before the key it looks for.
SearchOnWay ==
  /\ reader.linked \subseteq ReachedOn(0)
  /\ reader.op # "none" /\ ~reader.done =>
       /\ reader.x \in On(reader.level)
       /\ reader.op # "FindLast" => reader.x < reader.key
  /\ reader.op \in {"FindGreaterOrEqual", "Next"} /\ reader.done =>
       reader.x = NULL \/ reader.x \in ReachedOn(0)

Ops == {"none", "FindGreaterOrEqual", "FindLessThan", "FindLast", "Next"}
Search == [op : Ops, key : 1 .. NULL, x : 0 .. NULL, level : Levels,
           linked : SUBSET ListKeys, done : BOOLEAN]

SkipTypes ==
  /\ next_ \in [0 .. NumKeys -> [Levels -> ListKeys \cup {NULL}]]
  /\ height_ \in [0 .. NumKeys -> 0 .. kMaxHeight]
  /\ max_height_ \subseteq 1 .. kMaxHeight
  /\ inserting = [key |-> inserting.key, prev |-> inserting.prev, at |-> inserting.at]
  /\ reader \in Search
  /\ reader.op = "none" => ~reader.done
  /\ reader.op = "Next" => reader.done

ListInv == SkipTypes /\ Sorted /\ Nested /\ Heights /\ InsertOnWay

SkipInv == ListInv /\ SearchOnWay /\ FoundIsNearest

-----------------------------------------------------------------------------
LEMMA SkipConstants ==
  /\ NumKeys \in Nat \ {0} /\ kMaxHeight \in Nat \ {0}
  /\ NULL \in Nat /\ NULL = NumKeys + 1 /\ head_ = 0
  /\ ListKeys = 1 .. NumKeys /\ Levels = 0 .. kMaxHeight - 1 /\ 0 \in Levels
BY SkipListAssumption DEF NULL, head_, ListKeys, Levels

\* A set of node numbers that is not empty has a last one.
LEMMA LastNode ==
  ASSUME NEW T \in SUBSET (0 .. NumKeys), T # {}
  PROVE  \E x \in T : \A y \in T : y <= x
<1> DEFINE R == {ss \in Nat \X Nat : ss[1] < ss[2]}
           D == {NumKeys - x : x \in T}
<1>1. IsWellFoundedOn(R, Nat)
  BY NatLessThanWellFounded DEF OpToRel
<1>2. D \in SUBSET Nat /\ D # {}
  <2>1. \A x \in T : NumKeys - x \in Nat
    BY SkipConstants, SMTT(60)
  <2>2. \E x \in T : NumKeys - x \in D
    OBVIOUS
  <2> QED
    BY <2>1, <2>2
<1>3. PICK d \in D : \A e \in D : ~(<<e, d>> \in R)
  <2> HIDE DEF R, D
  <2> QED
    BY <1>1, <1>2, WFMin
<1>4. PICK x \in T : d = NumKeys - x
  OBVIOUS
<1>5. ASSUME NEW y \in T PROVE y <= x
  <2>1. NumKeys - y \in D /\ NumKeys - y \in Nat /\ d \in Nat
    BY <1>2
  <2>2. ~(NumKeys - y < d)
    BY <1>3, <2>1
  <2> QED
    BY <1>4, <2>2, SkipConstants
<1> QED
  BY <1>5

LEMMA ReachedType ==
  ASSUME SkipTypes, NEW l \in Levels
  PROVE  /\ ReachedOn(l) \subseteq ListKeys
         /\ On(l) \subseteq 0 .. NumKeys
         /\ head_ \in On(l)
BY SkipConstants, SMTT(60) DEF ReachedOn, On

\* FindGreaterOrEqual finds the node before the key, on every level.
LEMMA LastBeforeIs ==
  ASSUME SkipTypes, NEW k \in ListKeys, NEW l \in Levels
  PROVE  Before(LastBefore(k, l), k, l)
<1> DEFINE before == {x \in ReachedOn(l) : x < k} \cup {head_}
<1>1. before \in SUBSET (0 .. NumKeys) /\ before # {}
  <2>1. ReachedOn(l) \subseteq 0 .. NumKeys /\ head_ \in 0 .. NumKeys
    BY ReachedType, SkipConstants DEF On
  <2> QED
    BY <2>1
<1>2. \E x \in before : \A y \in before : y <= x
  BY <1>1, LastNode
<1>3. /\ LastBefore(k, l) \in before
      /\ \A y \in before : y <= LastBefore(k, l)
  BY <1>2 DEF LastBefore
<1>4. ReachedOn(l) \subseteq 1 .. NumKeys /\ k \in 1 .. NumKeys
  BY ReachedType, SkipConstants
<1>5. LastBefore(k, l) \in 0 .. NumKeys
  BY <1>1, <1>3
<1>6. LastBefore(k, l) \in On(l) /\ LastBefore(k, l) < k
  BY <1>3, <1>4, SkipConstants DEF On
<1>7. ASSUME NEW x \in ReachedOn(l), x < k PROVE ~(LastBefore(k, l) < x)
  <2>1. x <= LastBefore(k, l) /\ x \in Nat
    BY <1>3, <1>4, <1>7
  <2> QED
    BY <1>5, <2>1
<1> QED
  BY <1>6, <1>7 DEF Before

\* The height that GetMaxHeight returns.
LEMMA MaxHeightIs ==
  ASSUME SkipTypes, Heights
  PROVE  /\ GetMaxHeight \in max_height_
         /\ \A g \in max_height_ : g <= GetMaxHeight
         /\ \A x \in ListKeys : height_[x] <= GetMaxHeight
<1>1. PICK h \in max_height_ : /\ \A g \in max_height_ : g <= h
                               /\ \A x \in ListKeys : height_[x] <= h
  BY DEF Heights
<1>2. /\ GetMaxHeight \in max_height_
      /\ \A g \in max_height_ : g <= GetMaxHeight
  BY <1>1 DEF GetMaxHeight
<1>3. GetMaxHeight = h
  BY <1>1, <1>2, SkipConstants, SMTT(60) DEF SkipTypes
<1> QED
  BY <1>1, <1>3

LEMMA InitSkip == SkipListInit => SkipInv
<1> SUFFICES ASSUME SkipListInit PROVE SkipInv
  OBVIOUS
<1> USE SkipConstants DEF SkipListInit
<1>1. SkipTypes
  BY DEF SkipTypes, NotInserting, NotReading, Search, Ops
<1>2. ASSUME NEW l \in Levels PROVE ReachedOn(l) = {} /\ \A y \in 0 .. NumKeys : next_[y][l] = NULL
  BY DEF ReachedOn
<1>3. Sorted
  BY <1>2, SMTT(60) DEF Sorted, On
<1>4. Nested
  BY <1>2 DEF Nested
<1>5. Heights
  BY DEF Heights
<1>6. InsertOnWay
  BY DEF InsertOnWay
<1>7. SearchOnWay /\ FoundIsNearest
  BY DEF SearchOnWay, FoundIsNearest, NotReading
<1> QED
  BY <1>1, <1>3, <1>4, <1>5, <1>6, <1>7 DEF SkipInv, ListInv

\* Insert begins: the node has a height, and the nodes before it are found.
LEMMA StartKeepsList ==
  ASSUME ListInv, NEW k \in ListKeys, NEW h \in 1 .. kMaxHeight, StartInsert(k, h)
  PROVE  ListInv' /\ \A l \in Levels : ReachedOn(l)' = ReachedOn(l)
<1> USE SkipConstants
<1>1. SkipTypes /\ Sorted /\ Nested /\ Heights
  BY DEF ListInv
<1>2. /\ next_' = next_ /\ reader' = reader
      /\ height_[k] = 0 /\ height_' = [height_ EXCEPT ![k] = h]
      /\ max_height_' = IF h > GetMaxHeight THEN max_height_ \cup {h} ELSE max_height_
      /\ inserting' = [key |-> k, prev |-> FindPrev(k, h), at |-> 0]
  BY DEF StartInsert
<1>3. ASSUME NEW l \in Levels PROVE ReachedOn(l)' = ReachedOn(l) /\ On(l)' = On(l)
  BY <1>2 DEF ReachedOn, On
<1>4. SkipTypes'
  BY <1>1, <1>2, SMTT(60) DEF SkipTypes
<1>5. Sorted'
  BY <1>1, <1>2, <1>3, SMTT(60) DEF Sorted
<1>6. \A l \in Levels : k \notin ReachedOn(l)
  BY <1>1, <1>2, SMTT(60) DEF Nested
<1>7. Nested'
  <2> SUFFICES ASSUME NEW x \in ListKeys, NEW l \in Levels, x \in ReachedOn(l)'
               PROVE  l < height_'[x] /\ \A m \in 0 .. l : x \in ReachedOn(m)'
    BY DEF Nested
  <2>1. x \in ReachedOn(l) /\ x # k
    BY <1>3, <1>6
  <2>2. height_'[x] = height_[x]
    BY <1>2, <2>1
  <2>3. \A m \in 0 .. l : m \in Levels
    OBVIOUS
  <2> QED
    BY <1>1, <1>3, <2>1, <2>2, <2>3, SMTT(60) DEF Nested
<1>8. /\ GetMaxHeight \in max_height_ /\ \A g \in max_height_ : g <= GetMaxHeight
      /\ \A x \in ListKeys : height_[x] <= GetMaxHeight
      /\ max_height_ \subseteq 1 .. kMaxHeight
  BY <1>1, MaxHeightIs DEF SkipTypes
<1>9. Heights'
  <2>1. \A x \in ListKeys : height_'[x] = IF x = k THEN h ELSE height_[x]
    BY <1>1, <1>2, SMTT(60) DEF SkipTypes
  <2>2. \A x \in ListKeys : height_[x] \in Nat
    BY <1>1, SMTT(60) DEF SkipTypes
  <2>3. CASE h > GetMaxHeight
    <3>1. h \in max_height_' /\ \A g \in max_height_' : g <= h
      BY <1>2, <1>8, <2>3
    <3>2. \A x \in ListKeys : height_'[x] <= h
      BY <1>8, <2>1, <2>2, <2>3
    <3> QED
      BY <3>1, <3>2 DEF Heights
  <2>4. CASE ~(h > GetMaxHeight)
    <3>1. max_height_' = max_height_
      BY <1>2, <2>4
    <3>2. \A x \in ListKeys : height_'[x] <= GetMaxHeight
      BY <1>8, <2>1, <2>4, SMTT(60)
    <3> QED
      BY <1>8, <3>1, <3>2 DEF Heights
  <2> QED
    BY <2>3, <2>4
<1>10. InsertOnWay'
  <2>1. inserting'.key = k /\ inserting'.at = 0 /\ inserting'.prev = FindPrev(k, h)
        /\ height_'[k] = h
    BY <1>1, <1>2, SMTT(60) DEF SkipTypes
  <2>2. ASSUME NEW l \in 0 .. h - 1 PROVE Before(FindPrev(k, h)[l], k, l)
    <3>1. l \in Levels
      OBVIOUS
    <3>2. CASE l < GetMaxHeight
      BY <1>1, <3>1, <3>2, LastBeforeIs DEF FindPrev
    <3>3. CASE ~(l < GetMaxHeight)
      <4>1. FindPrev(k, h)[l] = head_
        BY <3>3 DEF FindPrev
      <4>2. ASSUME NEW x \in ReachedOn(l) PROVE FALSE
        <5>1. x \in ListKeys /\ l < height_[x] /\ height_[x] <= GetMaxHeight
          BY <1>1, <1>8, <3>1, <4>2, ReachedType DEF Nested
        <5> QED
          BY <1>1, <1>8, <3>3, <5>1, SMTT(60) DEF SkipTypes
      <4> QED
        BY <4>1, <4>2 DEF Before, On
    <3> QED
      BY <3>2, <3>3
  <2>3. ASSUME NEW l \in 0 .. h - 1 PROVE Before(inserting.prev[l], inserting.key, l)'
    <3>1. l \in Levels /\ inserting'.prev[l] = FindPrev(k, h)[l]
      BY <2>1
    <3>2. Before(inserting'.prev[l], k, l)
      BY <2>2, <3>1
    <3> QED
      BY <1>3, <2>1, <3>1, <3>2 DEF Before
  <2> QED
    BY <1>3, <1>6, <2>1, <2>3, SMTT(60) DEF InsertOnWay
<1> QED
  BY <1>3, <1>4, <1>5, <1>7, <1>9, <1>10 DEF ListInv

\* A node is linked on level l0, between node p and the one that came after p.
LEMMA LinkEffect ==
  ASSUME SkipTypes, Sorted, NEW x \in ListKeys, NEW l0 \in Levels, NEW p, Before(p, x, l0),
         x \notin ReachedOn(l0),
         next_' = [next_ EXCEPT ![x][l0] = next_[p][l0], ![p][l0] = x]
  PROVE  /\ next_' \in [0 .. NumKeys -> [Levels -> ListKeys \cup {NULL}]]
         /\ \A l \in Levels : ReachedOn(l)' = IF l = l0 THEN ReachedOn(l) \cup {x} ELSE ReachedOn(l)
         /\ Sorted'
<1> USE SkipConstants
<1> DEFINE n == next_[p][l0]
<1>1. x \in 1 .. NumKeys /\ p \in 0 .. NumKeys /\ p \in On(l0) /\ p < x /\ x \notin On(l0)
  BY ReachedType, SMTT(60) DEF Before, On
<1>2. /\ n \in 1 .. NULL /\ p < n /\ (n = NULL \/ n \in ReachedOn(l0))
      /\ \A z \in ReachedOn(l0) : ~(p < z /\ z < n)
  BY <1>1, SMTT(60) DEF Sorted, SkipTypes, ReachedOn
<1>3. x < n
  <2>1. CASE n = NULL
    BY <1>1, <2>1
  <2>2. CASE n \in ReachedOn(l0)
    <3>1. ~(p < n /\ n < x) /\ n # x
      BY <2>2 DEF Before
    <3> QED
      BY <1>1, <1>2, <3>1
  <2> QED
    BY <1>2, <2>1, <2>2
<1>4. /\ next_' \in [0 .. NumKeys -> [Levels -> ListKeys \cup {NULL}]]
      /\ next_'[x][l0] = n
      /\ next_'[p][l0] = x
      /\ \A y \in 0 .. NumKeys, l \in Levels :
           ~(l = l0 /\ (y = x \/ y = p)) => next_'[y][l] = next_[y][l]
  <2>1. next_ \in [0 .. NumKeys -> [Levels -> ListKeys \cup {NULL}]]
    BY DEF SkipTypes
  <2>2. x # p /\ x \in 0 .. NumKeys /\ n \in ListKeys \cup {NULL}
    BY <1>1, <1>2, SMTT(60)
  <2>3. /\ next_'[x] = [next_[x] EXCEPT ![l0] = n]
        /\ next_'[p] = [next_[p] EXCEPT ![l0] = x]
        /\ \A y \in 0 .. NumKeys : y # x /\ y # p => next_'[y] = next_[y]
        /\ next_' = [y \in 0 .. NumKeys |-> next_'[y]]
    BY <1>1, <2>1, <2>2
  <2> HIDE DEF n
  <2>4. ASSUME NEW y \in 0 .. NumKeys PROVE next_'[y] \in [Levels -> ListKeys \cup {NULL}]
    <3>1. CASE y = x
      <4>1. next_[x] \in [Levels -> ListKeys \cup {NULL}]
        BY <2>1, <2>2
      <4>2. [next_[x] EXCEPT ![l0] = n] \in [Levels -> ListKeys \cup {NULL}]
        BY <2>2, <4>1
      <4> QED
        BY <2>3, <3>1, <4>2
    <3>2. CASE y = p
      BY <1>1, <2>1, <2>2, <2>3, <3>2
    <3> QED
      BY <2>1, <2>3, <3>1, <3>2
  <2>5. next_'[x][l0] = n /\ next_'[p][l0] = x
    BY <1>1, <2>1, <2>2, <2>3, SMTT(60)
  <2>6. ASSUME NEW y \in 0 .. NumKeys, NEW l \in Levels, ~(l = l0 /\ (y = x \/ y = p))
        PROVE  next_'[y][l] = next_[y][l]
    <3>1. CASE y = x
      BY <2>1, <2>2, <2>3, <2>6, <3>1, SMTT(60)
    <3>2. CASE y = p
      BY <1>1, <2>1, <2>2, <2>3, <2>6, <3>2, SMTT(60)
    <3> QED
      BY <2>3, <3>1, <3>2
  <2> QED
    BY <2>3, <2>4, <2>5, <2>6
<1> HIDE DEF n
<1>5. ASSUME NEW l \in Levels, l # l0
      PROVE  ReachedOn(l)' = ReachedOn(l)
  <2>1. \A y \in 0 .. NumKeys : next_'[y][l] = next_[y][l]
    BY <1>4, <1>5
  <2> QED
    BY <2>1 DEF ReachedOn
<1>6. ReachedOn(l0)' = ReachedOn(l0) \cup {x}
  <2>1. ASSUME NEW z \in ReachedOn(l0)' PROVE z \in ReachedOn(l0) \cup {x}
    <3>1. PICK y \in 0 .. NumKeys : next_'[y][l0] = z
      BY <2>1 DEF ReachedOn
    <3>2. z \in ListKeys
      BY <2>1 DEF ReachedOn
    <3>3. CASE y = x /\ y # p
      BY <1>2, <1>4, <3>1, <3>2, <3>3, SMTT(60)
    <3>4. CASE y = p
      BY <1>4, <3>1, <3>4
    <3>5. CASE y # x /\ y # p
      BY <1>4, <3>1, <3>2, <3>5 DEF ReachedOn
    <3> QED
      BY <3>3, <3>4, <3>5
  <2>2. ASSUME NEW z \in ReachedOn(l0) PROVE z \in ReachedOn(l0)'
    <3>1. PICK y \in 0 .. NumKeys : next_[y][l0] = z
      BY <2>2 DEF ReachedOn
    <3>2. z \in ListKeys /\ z # NULL
      BY <2>2 DEF ReachedOn
    <3>3. y # x
      BY <1>1, <3>1, <3>2, SMTT(60) DEF Sorted
    <3>4. CASE y = p
      <4>1. next_'[x][l0] = z
        BY <1>4, <3>1, <3>4 DEF n
      <4>2. x \in 0 .. NumKeys
        BY <1>1
      <4> QED
        BY <3>2, <4>1, <4>2 DEF ReachedOn
    <3>5. CASE y # p
      BY <1>4, <3>1, <3>2, <3>3, <3>5 DEF ReachedOn
    <3> QED
      BY <3>4, <3>5
  <2>3. x \in ReachedOn(l0)'
    BY <1>1, <1>4 DEF ReachedOn
  <2> QED
    BY <2>1, <2>2, <2>3
<1>8. \A l \in Levels : On(l)' = IF l = l0 THEN On(l) \cup {x} ELSE On(l)
  BY <1>5, <1>6 DEF On, head_
<1>9. \A z \in ReachedOn(l0) : z \in 1 .. NumKeys
  BY ReachedType
<1>7. ASSUME NEW l \in Levels, NEW y \in 0 .. NumKeys
      PROVE  /\ y \notin On(l)' => next_'[y][l] = NULL
             /\ y \in On(l)' => /\ y < next_'[y][l]
                                /\ \A z \in ReachedOn(l)' : ~(y < z /\ z < next_'[y][l])
  <2>1. CASE l # l0
    <3>1. On(l)' = On(l) /\ ReachedOn(l)' = ReachedOn(l) /\ next_'[y][l] = next_[y][l]
      BY <1>4, <1>5, <1>8, <2>1
    <3>2. /\ y \notin On(l) => next_[y][l] = NULL
          /\ y \in On(l) => /\ y < next_[y][l]
                            /\ \A z \in ReachedOn(l) : ~(y < z /\ z < next_[y][l])
      BY DEF Sorted
    <3> QED
      BY <3>1, <3>2
  <2>2. CASE l = l0 /\ y = x
    <3>1. y \in On(l)' /\ next_'[y][l] = n
      <4>1. On(l)' = On(l0) \cup {x}
        BY <1>8, <2>2
      <4> QED
        BY <1>4, <2>2, <4>1
    <3>2. ASSUME NEW z \in ReachedOn(l0) PROVE ~(x < z /\ z < n)
      BY <1>1, <1>2, <1>9, <3>2
    <3>3. ~(x < x)
      BY <1>1
    <3> QED
      BY <1>3, <1>6, <2>2, <3>1, <3>2, <3>3
  <2>3. CASE l = l0 /\ y = p
    <3>1. y \in On(l)' /\ next_'[y][l] = x
      BY <1>1, <1>4, <1>8, <2>3, ZenonT(60)
    <3>2. ASSUME NEW z \in ReachedOn(l0) PROVE ~(p < z /\ z < x)
      BY <3>2 DEF Before
    <3>3. ~(x < x)
      BY <1>1
    <3> QED
      BY <1>1, <1>6, <2>3, <3>1, <3>2, <3>3
  <2>4. CASE l = l0 /\ y # x /\ y # p
    <3>1. next_'[y][l] = next_[y][l] /\ (y \in On(l)' <=> y \in On(l))
      BY <1>4, <1>8, <2>4, SMTT(60)
    <3>2. ASSUME y \in On(l) PROVE ~(y < x /\ x < next_[y][l])
      <4>1. SUFFICES ASSUME y < x, x < next_[y][l] PROVE FALSE
        OBVIOUS
      <4>2. ~(p < y)
        BY <1>1, <2>4, <3>2, <4>1, SMTT(60) DEF Before, On
      <4>3. y < p /\ p \in ReachedOn(l)
        BY <1>1, <2>4, <4>2, SMTT(60) DEF On
      <4>4. next_[y][l] \in 1 .. NULL /\ p < next_[y][l]
        <5>1. next_[y][l] \in ListKeys \cup {NULL}
          BY SMTT(60) DEF SkipTypes
        <5> QED
          BY <1>1, <4>1, <5>1, SMTT(60)
      <4> QED
        BY <3>2, <4>3, <4>4 DEF Sorted
    <3>3. /\ y \notin On(l) => next_[y][l] = NULL
          /\ y \in On(l) => /\ y < next_[y][l]
                            /\ \A z \in ReachedOn(l) : ~(y < z /\ z < next_[y][l])
      BY DEF Sorted
    <3> QED
      BY <1>6, <2>4, <3>1, <3>2, <3>3
  <2> QED
    BY <2>1, <2>2, <2>3, <2>4
<1> QED
  BY <1>4, <1>5, <1>6, <1>7 DEF Sorted

\* Insert links its node on one level.
LEMMA LinkKeepsList ==
  ASSUME ListInv, linkLevel
  PROVE  ListInv' /\ \A l \in Levels : ReachedOn(l) \subseteq ReachedOn(l)'
<1> USE SkipConstants
<1>1. SkipTypes /\ Sorted /\ Nested /\ Heights /\ InsertOnWay /\ inserting # NotInserting
  BY DEF ListInv, linkLevel
<1>2. PICK x \in ListKeys, l0 \in Levels :
        /\ x = inserting.key /\ l0 = inserting.at
        /\ height_[x] \in 0 .. kMaxHeight /\ l0 < height_[x]
  BY <1>1, SMTT(60) DEF InsertOnWay, SkipTypes
<1>3. PICK p : p = inserting.prev[l0]
  OBVIOUS
<1>4. \A l \in Levels : x \in ReachedOn(l) <=> l < l0
  BY <1>1, <1>2 DEF InsertOnWay
<1>5. Before(p, x, l0)
  BY <1>1, <1>2, <1>3 DEF InsertOnWay
<1>6. /\ next_' = [next_ EXCEPT ![x][l0] = next_[p][l0], ![p][l0] = x]
      /\ height_' = height_ /\ max_height_' = max_height_ /\ reader' = reader
      /\ inserting' = IF l0 + 1 = height_[x] THEN NotInserting ELSE [inserting EXCEPT !.at = @ + 1]
  BY <1>2, <1>3 DEF linkLevel, Linked, LevelToLink
<1>7. /\ next_' \in [0 .. NumKeys -> [Levels -> ListKeys \cup {NULL}]]
      /\ \A l \in Levels : ReachedOn(l)' = IF l = l0 THEN ReachedOn(l) \cup {x} ELSE ReachedOn(l)
      /\ Sorted'
  <2>1. x \notin ReachedOn(l0)
    BY <1>2, <1>4
  <2> QED
    BY <1>1, <1>5, <1>6, <2>1, LinkEffect
<1>8. inserting' = NotInserting
      \/ /\ l0 + 1 < height_[x]
         /\ inserting' = [key |-> x, prev |-> inserting.prev, at |-> l0 + 1]
  <2>1. inserting = [key |-> x, prev |-> inserting.prev, at |-> l0]
    BY <1>1, <1>2 DEF SkipTypes
  <2> QED
    BY <1>2, <1>6, <2>1
<1>9. SkipTypes'
  BY <1>1, <1>6, <1>7, <1>8 DEF SkipTypes, NotInserting
<1>10. Nested'
  <2> SUFFICES ASSUME NEW y \in ListKeys, NEW l \in Levels, y \in ReachedOn(l)'
               PROVE  l < height_[y] /\ \A m \in 0 .. l : y \in ReachedOn(m)'
    BY <1>6 DEF Nested
  <2>1. \A m \in 0 .. l : m \in Levels
    OBVIOUS
  <2>2. CASE y \in ReachedOn(l)
    BY <1>1, <1>7, <2>1, <2>2, SMTT(60) DEF Nested
  <2>3. CASE y = x /\ l = l0
    <3>1. \A m \in 0 .. l : m = l0 \/ m < l0
      BY <2>3
    <3>2. ASSUME NEW m \in 0 .. l PROVE x \in ReachedOn(m)'
      <4>1. CASE m = l0
        BY <1>7, <4>1
      <4>2. CASE m < l0
        <5>1. x \in ReachedOn(m) /\ m \in Levels
          BY <1>4, <2>1, <4>2
        <5> QED
          BY <1>7, <5>1
      <4> QED
        BY <3>1, <4>1, <4>2
    <3> QED
      BY <1>2, <2>3, <3>2
  <2> QED
    BY <1>7, <2>2, <2>3
<1>11. Heights'
  BY <1>1, <1>6 DEF Heights
<1>12. InsertOnWay'
  <2>1. CASE inserting' = NotInserting
    BY <2>1 DEF InsertOnWay, NotInserting
  <2>2. CASE /\ l0 + 1 < height_[x]
             /\ inserting' = [key |-> x, prev |-> inserting.prev, at |-> l0 + 1]
    <3>1. inserting'.key = x /\ inserting'.at = l0 + 1 /\ inserting'.prev = inserting.prev
      BY <2>2
    <3>2. \A l \in Levels : x \in ReachedOn(l)' <=> l < l0 + 1
      BY <1>4, <1>7, SMTT(60)
    <3>3. ASSUME NEW l \in l0 + 1 .. height_[x] - 1
          PROVE  Before(inserting.prev[l], inserting.key, l)'
      <4>1. l \in Levels /\ l # l0 /\ l \in l0 .. height_[x] - 1
        BY <1>2
      <4>2. Before(inserting.prev[l], x, l) /\ ReachedOn(l)' = ReachedOn(l)
        BY <1>1, <1>2, <1>7, <4>1 DEF InsertOnWay
      <4> QED
        BY <3>1, <4>2 DEF Before, On
    <3> QED
      BY <1>2, <1>6, <2>2, <3>1, <3>2, <3>3, SMTT(60) DEF InsertOnWay
  <2> QED
    BY <1>8, <2>1, <2>2
<1> QED
  BY <1>7, <1>9, <1>10, <1>11, <1>12 DEF ListInv

\* A reader on a node of a level: the link leads to the next node of the level.
LEMMA NextOnLevel ==
  ASSUME ListInv, NEW l \in Levels, NEW y \in On(l)
  PROVE  /\ y \in 0 .. NumKeys
         /\ next_[y][l] \in 1 .. NULL
         /\ y < next_[y][l]
         /\ next_[y][l] # NULL => next_[y][l] \in ReachedOn(l)
         /\ \A x \in ReachedOn(l) : ~(y < x /\ x < next_[y][l])
<1> USE SkipConstants
<1>1. SkipTypes /\ Sorted
  BY DEF ListInv
<1>2. y \in 0 .. NumKeys
  BY <1>1, ReachedType
<1>3. next_[y][l] \in ListKeys \cup {NULL}
  BY <1>1, <1>2, SMTT(60) DEF SkipTypes
<1>4. next_[y][l] # NULL => next_[y][l] \in ReachedOn(l)
  BY <1>2, <1>3 DEF ReachedOn
<1> QED
  BY <1>1, <1>2, <1>3, <1>4, SMTT(60) DEF Sorted

\* A node of a level is on the levels below it.
LEMMA OnLower ==
  ASSUME ListInv, NEW l \in Levels, l > 0, NEW y \in On(l)
  PROVE  l - 1 \in Levels /\ y \in On(l - 1)
<1> USE SkipConstants
<1>1. l - 1 \in Levels /\ l - 1 \in 0 .. l
  OBVIOUS
<1>2. ASSUME y \in ReachedOn(l) PROVE y \in ReachedOn(l - 1)
  BY <1>1, <1>2, ReachedType DEF ListInv, Nested
<1> QED
  BY <1>1, <1>2 DEF On

\* While the list grows, a search stays on its way.
LEMMA ListGrows ==
  ASSUME SkipInv, reader' = reader, \A l \in Levels : ReachedOn(l) \subseteq ReachedOn(l)'
  PROVE  SearchOnWay' /\ FoundIsNearest'
<1>1. reader \in Search
  BY DEF SkipInv, ListInv, SkipTypes
<1>2. reader.level \in Levels /\ 0 \in Levels
  BY <1>1, SkipConstants DEF Search
<1>3. PICK l \in Levels : l = reader.level
  BY <1>2
<1>4. ReachedOn(l) \subseteq ReachedOn(l)' /\ ReachedOn(0) \subseteq ReachedOn(0)'
  BY <1>2
<1>5. On(l) \subseteq On(l)'
  BY <1>4 DEF On, head_
<1>6. reader.x \in On(l) => reader.x \in On(reader.level)'
  BY <1>3, <1>5 DEF On, ReachedOn, head_
<1>7. SearchOnWay'
  BY <1>3, <1>4, <1>6 DEF SkipInv, SearchOnWay
<1>8. FoundIsNearest'
  BY DEF SkipInv, FoundIsNearest
<1> QED
  BY <1>7, <1>8

\* A search begins at the head.
LEMMA StartOnWay ==
  ASSUME SkipInv, NEW op \in {"FindGreaterOrEqual", "FindLessThan", "FindLast"}, NEW k \in ListKeys,
         startSearch(op, k)
  PROVE  reader' \in Search /\ ~reader'.done /\ reader'.op # "none" /\ SearchOnWay' /\ FoundIsNearest'
<1> USE SkipConstants
<1>1. SkipTypes
  BY DEF SkipInv, ListInv
<1>2. PICK h \in max_height_ :
        reader' = [op |-> op, key |-> k, x |-> head_, level |-> h - 1,
                   linked |-> ReachedOn(0), done |-> FALSE]
  BY DEF startSearch
<1>3. next_' = next_
  BY DEF startSearch
<1>4. h - 1 \in Levels /\ ReachedOn(0) \subseteq ListKeys
  BY <1>1, ReachedType, SMTT(60) DEF SkipTypes
<1>5. reader' \in Search
  BY <1>2, <1>4 DEF Search, Ops
<1>6. SearchOnWay'
  BY <1>2, <1>3 DEF SearchOnWay, On, ReachedOn
<1>7. FoundIsNearest'
  BY <1>2 DEF FoundIsNearest
<1> QED
  BY <1>2, <1>5, <1>6, <1>7

\* A round of a search.
LEMMA RoundOnWay ==
  ASSUME SkipInv, searchStep
  PROVE  reader' \in Search /\ reader'.op # "none" /\ SearchOnWay' /\ FoundIsNearest'
<1> USE SkipConstants
<1>1. ListInv /\ SearchOnWay /\ reader \in Search /\ reader.op # "none" /\ ~reader.done
  BY DEF SkipInv, ListInv, SkipTypes, searchStep
<1>2. PICK l \in Levels, y \in 0 .. NULL, key \in 1 .. NULL, op \in Ops, linked \in SUBSET ListKeys :
        /\ l = reader.level /\ y = reader.x /\ key = reader.key /\ op = reader.op
        /\ linked = reader.linked
  BY <1>1 DEF Search
<1>3. /\ y \in On(l) /\ linked \subseteq ReachedOn(0)
      /\ op # "FindLast" => y < key
      /\ op \in {"FindGreaterOrEqual", "FindLessThan", "FindLast"}
      /\ reader = [op |-> op, key |-> key, x |-> y, level |-> l, linked |-> linked, done |-> FALSE]
  <2>1. op # "none" /\ op # "Next"
    BY <1>1, <1>2 DEF ListInv, SkipTypes
  <2>2. reader.done = FALSE
    BY <1>1 DEF Search
  <2> QED
    BY <1>1, <1>2, <2>1, <2>2 DEF SearchOnWay, Search, Ops
<1>4. PICK n \in 1 .. NULL : n = next_[y][l]
  BY <1>1, <1>3, NextOnLevel
<1>5. /\ y \in 0 .. NumKeys /\ y < n
      /\ n # NULL => n \in ReachedOn(l)
      /\ \A x \in ReachedOn(l) : ~(y < x /\ x < n)
  BY <1>1, <1>3, <1>4, NextOnLevel
<1>6. next_' = next_ /\ \A m \in Levels : ReachedOn(m)' = ReachedOn(m) /\ On(m)' = On(m)
  BY DEF searchStep, ReachedOn, On
<1>7. Further(n) <=> n # NULL /\ (op # "FindLast" => n < key)
  BY <1>2, <1>3 DEF Further, KeyIsAfterNode
<1>8. CASE Further(n) /\ reader' = [reader EXCEPT !.x = n]
  <2>1. reader' = [op |-> op, key |-> key, x |-> n, level |-> l, linked |-> linked, done |-> FALSE]
    BY <1>3, <1>8
  <2>2. reader' \in Search
    BY <2>1, SMTT(60) DEF Search
  <2>3. n \in On(l)
    BY <1>5, <1>7, <1>8 DEF On
  <2>4. SearchOnWay'
    BY <1>3, <1>6, <1>7, <1>8, <2>1, <2>3, ZenonT(60) DEF SearchOnWay
  <2> QED
    BY <1>3, <2>1, <2>2, <2>4 DEF FoundIsNearest
<1>9. CASE l > 0 /\ reader' = [reader EXCEPT !.level = @ - 1]
  <2>1. reader' = [op |-> op, key |-> key, x |-> y, level |-> l - 1, linked |-> linked, done |-> FALSE]
    BY <1>3, <1>9
  <2>2. l - 1 \in Levels /\ y \in On(l - 1)
    BY <1>1, <1>3, <1>9, OnLower
  <2>3. reader' \in Search
    BY <2>1, <2>2 DEF Search
  <2>4. SearchOnWay'
    BY <1>3, <1>6, <2>1, <2>2 DEF SearchOnWay
  <2> QED
    BY <1>3, <2>1, <2>3, <2>4 DEF FoundIsNearest
<1>10. CASE ~Further(n) /\ l = 0 /\ reader' = [reader EXCEPT !.done = TRUE, !.x = ResultOf(n)]
  <2> DEFINE r == IF op = "FindGreaterOrEqual" THEN n ELSE y
  <2>1. reader' = [op |-> op, key |-> key, x |-> r, level |-> l, linked |-> linked, done |-> TRUE]
    BY <1>2, <1>3, <1>10 DEF ResultOf
  <2>2. reader' \in Search
    BY <2>1, SMTT(60) DEF Search
  <2>3. SearchOnWay'
    <3>1. reader'.op = op /\ reader'.x = r /\ reader'.linked = linked /\ reader'.done
      BY <2>1
    <3>2. ReachedOn(0)' = ReachedOn(0)
      BY <1>6
    <3>3. op = "FindGreaterOrEqual" => r = NULL \/ r \in ReachedOn(0)
      BY <1>5, <1>10
    <3> QED
      BY <1>3, <3>1, <3>2, <3>3 DEF SearchOnWay
  <2>4. \A k \in linked : k \in 1 .. NumKeys /\ ~(y < k /\ k < n)
    BY <1>3, <1>5, <1>10
  <2>5. FoundIsNearest'
    <3>1. CASE op = "FindGreaterOrEqual"
      <4>1. n >= key
        BY <1>7, <1>10, <3>1
      <4>2. \A k \in linked : ~(key <= k /\ k < n)
        BY <1>3, <1>5, <2>4, <3>1
      <4> QED
        BY <2>1, <3>1, <4>1, <4>2 DEF FoundIsNearest
    <3>2. CASE op = "FindLessThan"
      <4>1. n >= key
        BY <1>7, <1>10, <3>2
      <4>2. \A k \in linked : ~(y < k /\ k < key)
        BY <2>4, <4>1
      <4> QED
        BY <1>3, <2>1, <3>2, <4>2 DEF FoundIsNearest
    <3>3. CASE op = "FindLast"
      <4>1. n = NULL
        BY <1>7, <1>10, <3>3
      <4>2. \A k \in linked : k <= y
        BY <1>5, <2>4, <4>1
      <4> QED
        BY <2>1, <3>3, <4>2 DEF FoundIsNearest
    <3> QED
      BY <1>3, <3>1, <3>2, <3>3
  <2> QED
    BY <1>3, <2>1, <2>2, <2>3, <2>5
<1> QED
  BY <1>2, <1>4, <1>8, <1>9, <1>10 DEF searchStep

\* The iterator goes on to the next node.
LEMMA NextOnWay ==
  ASSUME SkipInv, nextNode
  PROVE  reader' \in Search /\ reader'.op = "Next" /\ reader'.done /\ SearchOnWay' /\ FoundIsNearest'
<1> USE SkipConstants
<1>1. ListInv /\ SearchOnWay /\ SkipTypes /\ reader.x \in ReachedOn(0)
  BY DEF SkipInv, ListInv, nextNode, SearchOnWay
<1>2. PICK y \in ReachedOn(0) : y = reader.x
  BY <1>1
<1>3. y \in 1 .. NumKeys /\ y \in On(0) /\ ReachedOn(0) \subseteq ListKeys
  BY <1>1, ReachedType DEF On
<1>4. PICK n \in 1 .. NULL : n = next_[y][0]
  BY <1>1, <1>3, NextOnLevel
<1>5. /\ y < n
      /\ n # NULL => n \in ReachedOn(0)
      /\ \A x \in ReachedOn(0) : ~(y < x /\ x < n)
  BY <1>1, <1>3, <1>4, NextOnLevel
<1>6. reader' = [op |-> "Next", key |-> y + 1, x |-> n, level |-> 0,
                 linked |-> ReachedOn(0), done |-> TRUE]
  BY <1>2, <1>4 DEF nextNode
<1>7. next_' = next_ /\ ReachedOn(0)' = ReachedOn(0)
  BY DEF nextNode, ReachedOn
<1>8. reader' \in Search
  BY <1>3, <1>6, SMTT(60) DEF Search, Ops
<1>9. SearchOnWay'
  BY <1>5, <1>6, <1>7 DEF SearchOnWay
<1>10. n >= y + 1 /\ \A k \in ReachedOn(0) : ~(y + 1 <= k /\ k < n)
  BY <1>3, <1>5
<1>11. FoundIsNearest'
  BY <1>6, <1>10 DEF FoundIsNearest
<1> QED
  BY <1>6, <1>8, <1>9, <1>11

LEMMA StepSkip ==
  ASSUME SkipInv, [SkipListNext]_skipVars
  PROVE  SkipInv'
<1>1. ListInv /\ SkipTypes
  BY DEF SkipInv, ListInv
<1>2. ASSUME NEW k \in ListKeys, NEW h \in 1 .. kMaxHeight, StartInsert(k, h) PROVE SkipInv'
  <2>1. ListInv' /\ \A l \in Levels : ReachedOn(l)' = ReachedOn(l)
    BY <1>1, <1>2, StartKeepsList
  <2>2. reader' = reader
    BY <1>2 DEF StartInsert
  <2> QED
    BY <2>1, <2>2, ListGrows DEF SkipInv
<1>3. CASE linkLevel
  <2>1. ListInv' /\ \A l \in Levels : ReachedOn(l) \subseteq ReachedOn(l)'
    BY <1>1, <1>3, LinkKeepsList
  <2>2. reader' = reader
    BY <1>3 DEF linkLevel
  <2> QED
    BY <2>1, <2>2, ListGrows DEF SkipInv
<1>4. ASSUME UNCHANGED <<next_, height_, max_height_, inserting>>, reader' \in Search,
             reader'.op = "none" => ~reader'.done, reader'.op = "Next" => reader'.done
      PROVE  ListInv'
  <2>1. SkipTypes'
    BY <1>1, <1>4 DEF SkipTypes
  <2>2. \A l : ReachedOn(l)' = ReachedOn(l) /\ On(l)' = On(l)
    BY <1>4 DEF ReachedOn, On
  <2>3. Sorted' /\ Nested' /\ Heights'
    BY <1>1, <1>4, <2>2 DEF ListInv, Sorted, Nested, Heights
  <2>4. InsertOnWay'
    BY <1>1, <1>4, <2>2 DEF ListInv, InsertOnWay, Before
  <2> QED
    BY <2>1, <2>3, <2>4 DEF ListInv
<1>5. ASSUME NEW k \in ListKeys, NEW op \in {"FindGreaterOrEqual", "FindLessThan", "FindLast"},
             startSearch(op, k)
      PROVE  SkipInv'
  <2>1. /\ reader' \in Search /\ ~reader'.done /\ reader'.op # "none"
        /\ SearchOnWay' /\ FoundIsNearest'
    BY <1>5, StartOnWay
  <2>2. UNCHANGED <<next_, height_, max_height_, inserting>> /\ reader'.op # "Next"
    BY <1>5 DEF startSearch
  <2> QED
    BY <1>4, <2>1, <2>2 DEF SkipInv
<1>6. CASE searchStep
  <2>1. reader' \in Search /\ reader'.op # "none" /\ SearchOnWay' /\ FoundIsNearest'
    BY <1>6, RoundOnWay
  <2>2. UNCHANGED <<next_, height_, max_height_, inserting>> /\ reader'.op # "Next"
    BY <1>1, <1>6 DEF searchStep, SkipTypes, Search
  <2> QED
    BY <1>4, <2>1, <2>2 DEF SkipInv
<1>7. CASE nextNode
  <2>1. reader' \in Search /\ reader'.op = "Next" /\ reader'.done /\ SearchOnWay' /\ FoundIsNearest'
    BY <1>7, NextOnWay
  <2>2. UNCHANGED <<next_, height_, max_height_, inserting>>
    BY <1>7 DEF nextNode
  <2> QED
    BY <1>4, <2>1, <2>2 DEF SkipInv
<1>8. CASE leaveNode
  <2>1. UNCHANGED <<next_, height_, max_height_, inserting>> /\ reader' = NotReading
    BY <1>8 DEF leaveNode
  <2>2. reader' \in Search
    BY <2>1, SkipConstants DEF NotReading, Search, Ops
  <2>3. SearchOnWay' /\ FoundIsNearest'
    BY <2>1 DEF SearchOnWay, FoundIsNearest, NotReading
  <2> QED
    BY <1>4, <2>1, <2>2, <2>3 DEF SkipInv, NotReading
<1>9. CASE UNCHANGED skipVars
  <2>1. UNCHANGED <<next_, height_, max_height_, inserting>> /\ reader' = reader
    BY <1>9 DEF skipVars
  <2>2. ListInv'
    BY <1>1, <1>4, <2>1 DEF SkipTypes
  <2>3. \A l \in Levels : ReachedOn(l) \subseteq ReachedOn(l)'
    BY <2>1 DEF ReachedOn
  <2> QED
    BY <2>1, <2>2, <2>3, ListGrows DEF SkipInv
<1> QED
  BY <1>2, <1>3, <1>5, <1>6, <1>7, <1>8, <1>9 DEF SkipListNext

\* What a search of a memtable finds while the leader of the write queue links
\* another node: no key that was in the list when it began lies between what
\* it asked for and what it found, for any number of keys and any heights.
THEOREM SearchFindsNearest == SkipListSpec => []FoundIsNearest
<1>1. SkipInv => FoundIsNearest
  BY DEF SkipInv
<1> QED
  BY <1>1, InitSkip, StepSkip, PTL DEF SkipListSpec
================================================================================
