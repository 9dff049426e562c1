------------------------------ MODULE SkipList ------------------------------
(***************************************************************************)
(* The skip list of a memtable (db/skiplist.h).  One thread inserts at a   *)
(* time, the leader of the write queue; readers (DBImpl::Get and the flush *)
(* of a memtable) walk the list without a lock while it does.  A step is   *)
(* one load or one store that the two sides share:                         *)
(*                                                                         *)
(*   next_[x][l]    the link of node x at level l                          *)
(*   max_height_    the values max_height_ has had.  It is read and stored *)
(*                  without a barrier, so a reader may see any of them     *)
(*   inserting      the node Insert is linking, its height, the nodes      *)
(*                  before it and the level it links next                  *)
(*   reader         a search: where it stands and on which level           *)
(*                                                                         *)
(* A node is its key.  The head sorts before and NULL after every key.     *)
(* The links are loaded with acquire and stored with release barriers, so  *)
(* a reader that sees a node sees its key and the links set before it.     *)
(***************************************************************************)
EXTENDS Integers, FiniteSets

CONSTANTS NumKeys,      \* keys that are inserted, in any order
          kMaxHeight

ASSUME SkipListAssumption == NumKeys \in Nat \ {0} /\ kMaxHeight \in Nat \ {0}

VARIABLES next_, height_, max_height_, inserting, reader

skipVars == <<next_, height_, max_height_, inserting, reader>>

head_ == 0
NULL == NumKeys + 1
ListKeys == 1 .. NumKeys
Levels == 0 .. kMaxHeight - 1
NotInserting == [key |-> head_, prev |-> <<>>, at |-> 0]
NotReading == [op |-> "none", key |-> NULL, x |-> head_, level |-> 0,
               linked |-> {}, done |-> FALSE]

(* The highest value stored is the current one: heights only grow.         *)
GetMaxHeight == CHOOSE h \in max_height_ : \A g \in max_height_ : g <= h

SkipListInit ==
    /\ next_ = [x \in 0 .. NumKeys |-> [l \in Levels |-> NULL]]
    /\ height_ = [x \in 0 .. NumKeys |-> IF x = head_ THEN kMaxHeight ELSE 0]
    /\ max_height_ = {1}
    /\ inserting = NotInserting
    /\ reader = NotReading

(* The nodes a reader may come to on level l.                              *)
ReachedOn(l) == {x \in ListKeys : \E y \in 0 .. NumKeys : next_[y][l] = x}

KeyIsAfterNode(k, n) == n /= NULL /\ n < k

(* The last node of level l whose key is less than k.                      *)
LastBefore(k, l) ==
    LET before == {x \in ReachedOn(l) : x < k} \cup {head_}
    IN  CHOOSE x \in before : \A y \in before : y <= x

(* FindGreaterOrEqual with a prev array.  Only Insert calls it so, and no  *)
(* other thread stores a link meanwhile.                                   *)
FindPrev(k, h) == [l \in 0 .. h - 1 |-> IF l < GetMaxHeight THEN LastBefore(k, l) ELSE head_]

(* Insert up to the first store: the nodes before the key, RandomHeight,   *)
(* the store of max_height_ and NewNode.                                   *)
StartInsert(k, h) ==
    /\ inserting = NotInserting
    /\ height_[k] = 0
    /\ inserting' = [key |-> k, prev |-> FindPrev(k, h), at |-> 0]
    /\ max_height_' = IF h > GetMaxHeight THEN max_height_ \cup {h} ELSE max_height_
    /\ height_' = [height_ EXCEPT ![k] = h]
    /\ UNCHANGED <<next_, reader>>

(* Variant: the two stores in the other order.                              *)
LinkedSwapped(l) ==
    LET x == inserting.key  p == inserting.prev[l]
    IN  [next_ EXCEPT ![p][l] = x, ![x][l] = x]

(* The links after level l: the node's own link first, then the link to it.*)
Linked(l) ==
    LET x == inserting.key  p == inserting.prev[l]
    IN  [next_ EXCEPT ![x][l] = next_[p][l], ![p][l] = x]

(* The loop of Insert goes up from the lowest level.                       *)
LevelToLink == inserting.at

linkLevel ==
    /\ inserting /= NotInserting
    /\ next_' = Linked(LevelToLink)
    /\ inserting' = IF inserting.at + 1 = height_[inserting.key] THEN NotInserting
                                                               ELSE [inserting EXCEPT !.at = @ + 1]
    /\ UNCHANGED <<height_, max_height_, reader>>

(* A reader loads max_height_, any value it has had, and starts at the     *)
(* head.                                                                   *)
startSearch(op, k) ==
    /\ reader.op = "none"
    /\ \E h \in max_height_ :
          reader' = [op |-> op, key |-> k, x |-> head_, level |-> h - 1,
                     linked |-> ReachedOn(0), done |-> FALSE]
    /\ UNCHANGED <<next_, height_, max_height_, inserting>>

(* Whether the search goes on to the node it has loaded: FindLast goes to  *)
(* the end, the others stop before the first key that is not less.         *)
Further(n) == IF reader.op = "FindLast" THEN n /= NULL ELSE KeyIsAfterNode(reader.key, n)

(* A search that has come to its end returns the node after it             *)
(* (FindGreaterOrEqual) or the node it stands on (FindLessThan, FindLast). *)
ResultOf(n) == IF reader.op = "FindGreaterOrEqual" THEN n ELSE reader.x

(* One round of the search loops: load the next node of the level and go   *)
(* on to it, or a level down, or return.                                   *)
searchStep ==
    /\ reader.op /= "none" /\ ~reader.done
    /\ LET n == next_[reader.x][reader.level]
       IN  \/ /\ Further(n)
              /\ reader' = [reader EXCEPT !.x = n]
           \/ /\ ~Further(n) /\ reader.level > 0
              /\ reader' = [reader EXCEPT !.level = @ - 1]
           \/ /\ ~Further(n) /\ reader.level = 0
              /\ reader' = [reader EXCEPT !.done = TRUE, !.x = ResultOf(n)]
    /\ UNCHANGED <<next_, height_, max_height_, inserting>>

(* Iterator::Next, from a node on: the flush of a memtable goes through    *)
(* the whole list with it.  The node left is the new lower bound.          *)
nextNode ==
    /\ reader.op \in {"FindGreaterOrEqual", "Next"} /\ reader.done /\ reader.x /= NULL
    /\ reader' = [op |-> "Next", key |-> reader.x + 1, x |-> next_[reader.x][0],
                  level |-> 0, linked |-> ReachedOn(0), done |-> TRUE]
    /\ UNCHANGED <<next_, height_, max_height_, inserting>>

(* The reader is done with the node it found.                              *)
leaveNode ==
    /\ reader.done
    /\ reader' = NotReading
    /\ UNCHANGED <<next_, height_, max_height_, inserting>>

SkipListNext ==
    \/ \E k \in ListKeys, h \in 1 .. kMaxHeight : StartInsert(k, h)
    \/ linkLevel
    \/ \E k \in ListKeys, op \in {"FindGreaterOrEqual", "FindLessThan", "FindLast"} :
          (op = "FindLast" => k = 1) /\ startSearch(op, k)
    \/ searchStep
    \/ nextNode
    \/ leaveNode

SkipListSpec == SkipListInit /\ [][SkipListNext]_skipVars

-----------------------------------------------------------------------------
(* Type invariant.  A reader never stands on a level above the node it     *)
(* stands on: next_ of a node is an array of the node's height.            *)
SkipListTypeOK ==
    /\ next_ \in [0 .. NumKeys -> [Levels -> ListKeys \cup {NULL}]]
    /\ height_ \in [0 .. NumKeys -> 0 .. kMaxHeight]
    /\ max_height_ \subseteq 1 .. kMaxHeight
    /\ inserting.key \in 0 .. NumKeys /\ inserting.at \in Levels
    /\ reader.x \in 0 .. NULL
    /\ reader.x \in 0 .. NumKeys => reader.level < height_[reader.x]

(* What a search returns while another thread inserts: no key that was in  *)
(* the list when the search began lies between what it asked for and what  *)
(* it found.  A Get that starts after an insert therefore sees it, and a   *)
(* flush that goes from node to node leaves out no entry.                  *)
FoundIsNearest ==
    reader.done =>
        CASE reader.op \in {"FindGreaterOrEqual", "Next"} ->
                /\ reader.x >= reader.key
                /\ \A k \in reader.linked : ~(reader.key <= k /\ k < reader.x)
          [] reader.op = "FindLessThan" ->
                /\ reader.x < reader.key
                /\ \A k \in reader.linked : ~(reader.x < k /\ k < reader.key)
          [] OTHER -> \A k \in reader.linked : k <= reader.x
=============================================================================
