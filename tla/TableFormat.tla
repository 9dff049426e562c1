---------------------------- MODULE TableFormat ----------------------------
(***************************************************************************)
(* The tables of leveldb: how TableBuilder and BlockBuilder write the      *)
(* sorted entries of a memtable or a compaction (table/table_builder.cc,   *)
(* table/block_builder.cc), and how Table::InternalGet and the iterators   *)
(* find them again (table/block.cc, table/two_level_iterator.cc,           *)
(* table/table.cc), with the comparators (util/comparator.cc,              *)
(* db/dbformat.cc).                                                        *)
(*                                                                         *)
(* A key is a sequence of bytes: those of the user key and, last, the tag  *)
(* (sequence number and type; eight bytes in the code, one here).  The     *)
(* offset of an entry in a block is its place among the entries, and the   *)
(* value of an entry its place in the table.                               *)
(*                                                                         *)
(*   tkeys   the keys of the table, in order                               *)
(*   ttable  the blocks and the index block that were written              *)
(*   titer   an iterator over the table, the index's and the data block's  *)
(*   tpos    where the iterator should stand: 0 before and after the table *)
(***************************************************************************)
EXTENDS Integers, Sequences, SequencesExt, FiniteSets

CONSTANTS UserKeys,       \* user keys: sequences of bytes
          Tags,           \* tags of entries
          MaxByte,        \* 0xff
          MaxTag,         \* the tag of kMaxSequenceNumber
          block_restart_interval, block_size,
          MaxEntries      \* bound: entries of a table

ASSUME TableAssumption ==
    /\ \A u \in UserKeys : u \in Seq(0 .. MaxByte)
    /\ Tags \subseteq 0 .. MaxTag
    /\ block_restart_interval \in Nat \ {0} /\ block_size \in Nat /\ MaxEntries \in Nat

VARIABLES tkeys, ttable, titer, tpos

tableVars == <<tkeys, ttable, titer, tpos>>

-----------------------------------------------------------------------------
ExtractUserKey(k) == SubSeq(k, 1, Len(k) - 1)
TagOf(k) == k[Len(k)]

(* The length of the longest common prefix.                                *)
CommonPrefix(a, b) ==
    LET min_length == IF Len(a) < Len(b) THEN Len(a) ELSE Len(b)
        same == {n \in 0 .. min_length : SubSeq(a, 1, n) = SubSeq(b, 1, n)}
    IN  CHOOSE n \in same : \A m \in same : m <= n

(* BytewiseComparator: a is less than b.                                   *)
BytewiseLess(a, b) ==
    LET n == CommonPrefix(a, b)
    IN  n < Len(b) /\ (n < Len(a) => a[n + 1] < b[n + 1])

(* InternalKeyComparator: by user key, then the newest first.              *)
KeyLess(a, b) ==
    \/ BytewiseLess(ExtractUserKey(a), ExtractUserKey(b))
    \/ ExtractUserKey(a) = ExtractUserKey(b) /\ TagOf(a) > TagOf(b)

(* The user key cut behind the first byte that can be incremented and stay *)
(* below the limit.                                                        *)
BytewiseSeparator(start, limit) ==
    LET d == CommonPrefix(start, limit) + 1
    IN  IF d <= Len(start) /\ d <= Len(limit) /\ start[d] < MaxByte /\ start[d] + 1 < limit[d]
        THEN Append(SubSeq(start, 1, d - 1), start[d] + 1) ELSE start

BytewiseSuccessor(k) ==
    LET room == {i \in 1 .. Len(k) : k[i] /= MaxByte}
        i    == CHOOSE i \in room : \A j \in room : i <= j
    IN  IF room = {} THEN k ELSE Append(SubSeq(k, 1, i - 1), k[i] + 1)

(* InternalKeyComparator takes the shortened user key only if it is        *)
(* physically shorter and logically larger, with the earliest tag.         *)
Shortened(k, user) ==
    IF Len(user) < Len(k) - 1 /\ BytewiseLess(ExtractUserKey(k), user) THEN Append(user, MaxTag) ELSE k

(* Variant: the separator is made without a look at the limit.             *)
SeparatorPastLimit(start, limit) ==
    Shortened(start, BytewiseSuccessor(ExtractUserKey(start)))

FindShortestSeparator(start, limit) ==
    Shortened(start, BytewiseSeparator(ExtractUserKey(start), ExtractUserKey(limit)))

FindShortSuccessor(k) == Shortened(k, BytewiseSuccessor(ExtractUserKey(k)))

-----------------------------------------------------------------------------
(* BlockBuilder: the entries, the restart points and the entries since the *)
(* last one.                                                               *)
EmptyBlock == [buffer |-> <<>>, restarts |-> <<1>>, counter |-> 0, last_key |-> <<>>]

(* BlockBuilder::Add: an entry leaves out the prefix it shares with the    *)
(* one before it, except at a restart point.                               *)
BlockAdd(b, k, value, interval) ==
    LET restart == b.counter >= interval
        shared  == IF restart THEN 0 ELSE CommonPrefix(b.last_key, k)
    IN  [buffer   |-> Append(b.buffer, [shared |-> shared, delta |-> SubSeq(k, shared + 1, Len(k)), value |-> value]),
         restarts |-> IF restart THEN Append(b.restarts, Len(b.buffer) + 1) ELSE b.restarts,
         counter  |-> IF restart THEN 1 ELSE b.counter + 1,
         last_key |-> k]

(* The three lengths of an entry take a byte each, a restart point and     *)
(* their number four.                                                      *)
CurrentSizeEstimate(b) ==
    FoldLeft(LAMBDA n, e : n + 3 + Len(e.delta), 0, b.buffer) + 4 * Len(b.restarts) + 4

(* TableBuilder: the blocks written, the index, and whether the last block *)
(* still waits for its index entry.                                        *)
EmptyTableBuilder == [blocks |-> <<>>, index |-> EmptyBlock, data |-> EmptyBlock,
                      last_key |-> <<>>, pending |-> FALSE, num |-> 0]

IndexAdd(t, k) == [t EXCEPT !.index = BlockAdd(@, k, Len(t.blocks), 1), !.pending = FALSE]

Flush(t) ==
    IF t.data.buffer = <<>> THEN t
    ELSE [t EXCEPT !.blocks = Append(@, t.data), !.data = EmptyBlock, !.pending = TRUE]

(* TableBuilder::Add: the index entry of the block before is added when    *)
(* the first key of the next is known; a block that is full is flushed.    *)
TableAdd(t, k) ==
    LET u == IF t.pending THEN IndexAdd(t, FindShortestSeparator(t.last_key, k)) ELSE t
        v == [u EXCEPT !.last_key = k, !.num = @ + 1, !.data = BlockAdd(@, k, u.num + 1, block_restart_interval)]
    IN  IF CurrentSizeEstimate(v.data) >= block_size THEN Flush(v) ELSE v

Finish(t) ==
    LET u == Flush(t)
    IN  IF u.pending THEN IndexAdd(u, FindShortSuccessor(u.last_key)) ELSE u

BuildTable(keys) == Finish(FoldLeft(TableAdd, EmptyTableBuilder, keys))

-----------------------------------------------------------------------------
(* Block::Iter.  current is the entry it stands on, one past the last when *)
(* it is not valid; next is where ParseNextKey goes on; restart_index      *)
(* counts from 0.                                                          *)
NewIter(b) == [block |-> b, current |-> Len(b.buffer) + 1, next |-> 1, key |-> <<>>, restart_index |-> Len(b.restarts)]

Valid(it) == it.current <= Len(it.block.buffer)
RestartPoint(it, i) == it.block.restarts[i + 1]

SeekToRestartPoint(it, i) == [it EXCEPT !.key = <<>>, !.restart_index = i, !.next = RestartPoint(it, i)]

(* The restart index moves up to the last restart point before current.    *)
RestartIndexAt(it, current) ==
    LET after == {i \in it.restart_index .. Len(it.block.restarts) - 1 :
                     i = it.restart_index \/ RestartPoint(it, i) < current}
    IN  CHOOSE i \in after : \A j \in after : j <= i

ParseNextKey(it) ==
    IF it.next > Len(it.block.buffer)
    THEN [it EXCEPT !.current = Len(it.block.buffer) + 1, !.restart_index = Len(it.block.restarts)]
    ELSE LET e == it.block.buffer[it.next]
         IN  [it EXCEPT !.current = it.next, !.next = it.next + 1,
                        !.key = SubSeq(@, 1, e.shared) \o e.delta,
                        !.restart_index = RestartIndexAt(it, it.next)]

(* The iterator after each number of calls of ParseNextKey, as many as the *)
(* block has entries and one more.                                         *)
Parsed(it) ==
    LET at[n \in 0 .. Len(it.block.buffer) + 1] == IF n = 0 THEN it ELSE ParseNextKey(at[n - 1])
    IN  at

(* ParseNextKey, at least once, until the iterator is not valid or has     *)
(* made one of the numbers of calls in stops.                              *)
ParseUntil(at, stops) ==
    LET ends == {n \in DOMAIN at \ {0} : ~Valid(at[n]) \/ n \in stops}
    IN  at[CHOOSE n \in ends : \A m \in ends : n <= m]

(* The binary search of Seek for the last restart point with a key less    *)
(* than the target.                                                        *)
RECURSIVE LastRestartBefore(_, _, _, _)
LastRestartBefore(it, target, left, right) ==
    IF left >= right THEN left
    ELSE LET mid == (left + right + 1) \div 2
         IN  IF KeyLess(it.block.buffer[RestartPoint(it, mid)].delta, target)
             THEN LastRestartBefore(it, target, mid, right)
             ELSE LastRestartBefore(it, target, left, mid - 1)

BlockSeek(it, target) ==
    LET at == Parsed(SeekToRestartPoint(it, LastRestartBefore(it, target, 0, Len(it.block.restarts) - 1)))
    IN  ParseUntil(at, {n \in DOMAIN at : ~KeyLess(at[n].key, target)})

BlockSeekToFirst(it) == ParseNextKey(SeekToRestartPoint(it, 0))

BlockSeekToLast(it) ==
    LET at == Parsed(SeekToRestartPoint(it, Len(it.block.restarts) - 1))
    IN  ParseUntil(at, {n \in DOMAIN at : at[n].next > Len(it.block.buffer)})

(* Variant: the scan goes back to a restart point at the entry itself.     *)
BlockPrevShort(it) ==
    LET back == {i \in 0 .. it.restart_index : RestartPoint(it, i) <= it.current}
        at   == Parsed(SeekToRestartPoint(it, CHOOSE i \in back : \A j \in back : j <= i))
    IN  ParseUntil(at, {n \in DOMAIN at : at[n].next >= it.current})

(* Iter::Prev: from the last restart point before the entry forward to the *)
(* entry that ends where this one starts.                                  *)
BlockPrev(it) ==
    LET back == {i \in 0 .. it.restart_index : RestartPoint(it, i) < it.current}
        at   == Parsed(SeekToRestartPoint(it, CHOOSE i \in back : \A j \in back : j <= i))
    IN  IF back = {}
        THEN [it EXCEPT !.current = Len(it.block.buffer) + 1, !.restart_index = Len(it.block.restarts)]
        ELSE ParseUntil(at, {n \in DOMAIN at : at[n].next >= it.current})

-----------------------------------------------------------------------------
(* TwoLevelIterator: an iterator over the index and one over the block its *)
(* entry names, which is kept when the index comes back to the same block. *)
NoData == [block |-> EmptyBlock, current |-> 1, next |-> 1, key |-> <<>>, restart_index |-> 0]

BlockOf(index) == index.block.buffer[index.current].value

InitDataBlock(index, data) ==
    IF ~Valid(index) THEN NoData
    ELSE LET b == ttable.blocks[BlockOf(index)]
         IN  IF data.block = b THEN data ELSE NewIter(b)

RECURSIVE SkipEmptyDataBlocksForward(_)
SkipEmptyDataBlocksForward(it) ==
    IF Valid(it.data) THEN it
    ELSE IF ~Valid(it.index) THEN [it EXCEPT !.data = NoData]
    ELSE LET index == ParseNextKey(it.index)
             data  == InitDataBlock(index, it.data)
         IN  SkipEmptyDataBlocksForward([index |-> index, data |-> IF data = NoData THEN data ELSE BlockSeekToFirst(data)])

RECURSIVE SkipEmptyDataBlocksBackward(_)
SkipEmptyDataBlocksBackward(it) ==
    IF Valid(it.data) THEN it
    ELSE IF ~Valid(it.index) THEN [it EXCEPT !.data = NoData]
    ELSE LET index == BlockPrev(it.index)
             data  == InitDataBlock(index, it.data)
         IN  SkipEmptyDataBlocksBackward([index |-> index, data |-> IF data = NoData THEN data ELSE BlockSeekToLast(data)])

SeekTable(target) ==
    LET index == BlockSeek(titer.index, target)
        data  == InitDataBlock(index, titer.data)
    IN  SkipEmptyDataBlocksForward([index |-> index, data |-> IF data = NoData THEN data ELSE BlockSeek(data, target)])

FirstOfTable ==
    LET index == BlockSeekToFirst(titer.index)
        data  == InitDataBlock(index, titer.data)
    IN  SkipEmptyDataBlocksForward([index |-> index, data |-> IF data = NoData THEN data ELSE BlockSeekToFirst(data)])

LastOfTable ==
    LET index == BlockSeekToLast(titer.index)
        data  == InitDataBlock(index, titer.data)
    IN  SkipEmptyDataBlocksBackward([index |-> index, data |-> IF data = NoData THEN data ELSE BlockSeekToLast(data)])

(* Table::InternalGet: the block the index names for the key, and the      *)
(* first entry of that block that is not less; 0 when there is none.       *)
InternalGet(k) ==
    LET index == BlockSeek(NewIter(ttable.index), k)
        data  == BlockSeek(NewIter(ttable.blocks[BlockOf(index)]), k)
    IN  IF Valid(index) /\ Valid(data) THEN data.block.buffer[data.current].value ELSE 0

-----------------------------------------------------------------------------
AllKeys == {Append(u, n) : u \in UserKeys, n \in Tags}

Sorted(K) ==
    [i \in 1 .. Cardinality(K) |-> CHOOSE k \in K : Cardinality({j \in K : KeyLess(j, k)}) = i - 1] \o <<>>

(* The tables that a flush or a compaction can write: entries in strictly  *)
(* increasing order, at least one.                                         *)
TableInit ==
    /\ \E K \in {S \in SUBSET AllKeys : Cardinality(S) \in 1 .. MaxEntries} :
          tkeys = Sorted(K)
    /\ ttable = BuildTable(tkeys)
    /\ titer = [index |-> NewIter(ttable.index), data |-> NoData]
    /\ tpos = 0

(* The place of the first entry that is not less than k.                   *)
FirstFrom(k) ==
    LET from == {i \in 1 .. Len(tkeys) : ~KeyLess(tkeys[i], k)}
    IN  IF from = {} THEN 0 ELSE CHOOSE i \in from : \A j \in from : i <= j

seekIter(k) == titer' = SeekTable(k) /\ tpos' = FirstFrom(k) /\ UNCHANGED <<tkeys, ttable>>
firstIter == titer' = FirstOfTable /\ tpos' = 1 /\ UNCHANGED <<tkeys, ttable>>
lastIter == titer' = LastOfTable /\ tpos' = Len(tkeys) /\ UNCHANGED <<tkeys, ttable>>

nextIter ==
    /\ Valid(titer.data)
    /\ titer' = SkipEmptyDataBlocksForward([titer EXCEPT !.data = ParseNextKey(@)])
    /\ tpos' = IF tpos < Len(tkeys) THEN tpos + 1 ELSE 0
    /\ UNCHANGED <<tkeys, ttable>>

prevIter ==
    /\ Valid(titer.data)
    /\ titer' = SkipEmptyDataBlocksBackward([titer EXCEPT !.data = BlockPrev(@)])
    /\ tpos' = tpos - 1
    /\ UNCHANGED <<tkeys, ttable>>

TableNext == (\E k \in AllKeys : seekIter(k)) \/ firstIter \/ lastIter \/ nextIter \/ prevIter

TableSpec == TableInit /\ [][TableNext]_tableVars

-----------------------------------------------------------------------------
(* After any calls of Seek, SeekToFirst, SeekToLast, Next and Prev, the    *)
(* iterator stands on the entry that these calls mean in the sorted list   *)
(* of keys, with the whole key put together again, and is not valid        *)
(* exactly when there is no such entry.                                    *)
IteratorAtEntry ==
    /\ Valid(titer.data) <=> tpos /= 0
    /\ tpos /= 0 => /\ titer.data.key = tkeys[tpos]
                    /\ titer.data.block.buffer[titer.data.current].value = tpos

(* A Get for a user key at any sequence number finds the newest entry of   *)
(* that user key which is not newer, whichever block it is in, although    *)
(* only the block that the index names is read; and when the table has     *)
(* none it finds no entry of that user key (BuildTable abandons a table    *)
(* with no entry at all).                                                  *)
GetFindsVisible ==
    tkeys /= <<>> => \A k \in AllKeys :
        LET want == FirstFrom(k)
            got  == InternalGet(k)
            Mine(i) == i /= 0 /\ ExtractUserKey(tkeys[i]) = ExtractUserKey(k)
        IN  IF Mine(want) THEN got = want ELSE ~Mine(got)
=============================================================================
