----------------------------- MODULE TableCache -----------------------------
(***************************************************************************)
(* The cache of open tables (db/table_cache.cc) over the LRU cache of      *)
(* leveldb (util/cache.cc, one shard).  Threads that read a table look its *)
(* file up, open it on a miss and insert it, read, and release; a file     *)
(* that no version names any more is evicted and deleted.  Every operation *)
(* of the cache holds its mutex; the file is opened without it, so two     *)
(* threads may open the same file and insert it one after the other.       *)
(*                                                                         *)
(*   refs      the reference count of each entry, in the order in which    *)
(*             they were inserted; 0 when it is freed and its file closed  *)
(*   keyOf     the file each entry is for                                  *)
(*   lru_      the entries of the LRU list, the oldest first               *)
(*   table_    HandleTable: its buckets, each a chain of entries, and      *)
(*             elems_                                                      *)
(*   usage_    the entries that are not freed (TableCache charges 1 each)  *)
(*   readers   what each thread is doing: the file it reads, and the entry *)
(*             it holds (0 while it opens the file)                        *)
(*   gone      the files that have been evicted and deleted                *)
(***************************************************************************)
EXTENDS Integers, Sequences, SequencesExt, FiniteSets

CONSTANTS Readers, TableFiles,
          HashOf,        \* HashOf[f]: the hash of the key of file f
          capacity_,
          MinLength,     \* buckets of the smallest table (4 in the code)
          MaxInserts     \* bound: entries ever inserted

ASSUME TableCacheAssumption ==
    /\ HashOf \in [TableFiles -> Nat]
    /\ capacity_ \in Nat /\ MinLength \in Nat \ {0} /\ MaxInserts \in Nat

VARIABLES refs, keyOf, lru_, table_, usage_, readers, gone, cachepc

cacheVars == <<refs, keyOf, lru_, table_, usage_, readers, gone, cachepc>>

NotIn == [file |-> 0, handle |-> 0, opening |-> FALSE]

EmptyTable == [list |-> [b \in 0 .. MinLength - 1 |-> <<>>], elems |-> 0]

TableCacheInit ==
    /\ refs = <<>> /\ keyOf = <<>> /\ lru_ = <<>> /\ usage_ = 0
    /\ table_ = EmptyTable
    /\ readers = [r \in Readers |-> NotIn]
    /\ gone = {} /\ cachepc = "open"

-----------------------------------------------------------------------------
(* HandleTable.  keys is the file of each entry, the new one included.     *)
length_(t) == Cardinality(DOMAIN t.list)
Bucket(t, f) == HashOf[f] % length_(t)

(* FindPointer: the place in its chain of the entry for file f, or the     *)
(* place after the last.                                                   *)
FindPointer(t, keys, f) ==
    LET chain == t.list[Bucket(t, f)]
        at    == {i \in 1 .. Len(chain) : keys[chain[i]] = f}
    IN  IF at = {} THEN Len(chain) + 1 ELSE CHOOSE i \in at : \A j \in at : i <= j

(* The entry for file f, 0 (NULL) if there is none.                        *)
LookupIn(t, keys, f) ==
    LET chain == t.list[Bucket(t, f)]
        i     == FindPointer(t, keys, f)
    IN  IF i <= Len(chain) THEN chain[i] ELSE 0

(* The number of buckets for n entries: doubled until it is enough.        *)
NewLength[len \in Nat, n \in Nat] == IF len < n THEN NewLength[2 * len, n] ELSE len

(* Resize: every entry goes to the head of its chain in the new table, the *)
(* old chains in order.                                                    *)
Resize(t, keys) ==
    LET n     == NewLength[MinLength, t.elems]
        moved == FlattenSeq([b \in 1 .. length_(t) |-> t.list[b - 1]])
    IN  [t EXCEPT !.list = [b \in 0 .. n - 1 |->
            Reverse(SelectSeq(moved, LAMBDA e : HashOf[keys[e]] % n = b))]]

(* Insert: an entry for the same file is replaced in its chain; the table  *)
(* grows when it has more entries than buckets.                            *)
InsertIn(t, keys, e) ==
    LET b == Bucket(t, keys[e])
        i == FindPointer(t, keys, keys[e])
        new == i > Len(t.list[b])
        put == [t EXCEPT !.list[b] = IF new THEN Append(@, e) ELSE [@ EXCEPT ![i] = e],
                         !.elems = IF new THEN @ + 1 ELSE @]
    IN  IF new /\ put.elems > length_(t) THEN Resize(put, keys) ELSE put

(* Remove.                                                                 *)
RemoveFrom(t, keys, f) ==
    IF LookupIn(t, keys, f) = 0 THEN t
    ELSE [t EXCEPT !.list[Bucket(t, f)] = RemoveAt(@, FindPointer(t, keys, f)), !.elems = @ - 1]

-----------------------------------------------------------------------------
(* Unref for each of a set of entries, and the usage that is left.         *)
Unref(counts, E) == [e \in DOMAIN counts |-> IF e \in E THEN counts[e] - 1 ELSE counts[e]]
Usage(counts) == Cardinality({e \in DOMAIN counts : counts[e] > 0})

LRU_Remove(list, e) == SelectSeq(list, LAMBDA x : x /= e)
LRU_Append(list, e) == Append(list, e)

(* The loop at the end of Insert: the oldest entries leave the list and    *)
(* the table, and are freed if nobody holds them, until the usage is       *)
(* within the capacity.                                                    *)
EvictOldest(list, counts, table, keys) ==
    LET Unrefed(n) == Unref(counts, ToSet(SubSeq(list, 1, n)))
        enough == {n \in 0 .. Len(list) : Usage(Unrefed(n)) <= capacity_ \/ n = Len(list)}
        out == CHOOSE n \in enough : \A k \in enough : n <= k
    IN  [lru    |-> SubSeq(list, out + 1, Len(list)),
         counts |-> Unrefed(out),
         table  |-> FoldLeft(LAMBDA t, e : RemoveFrom(t, keys, keys[e]), table, SubSeq(list, 1, out)),
         keys   |-> keys]

-----------------------------------------------------------------------------
(* FindTable, with the file in the cache: Lookup takes a reference and     *)
(* makes the entry the newest.                                             *)
lookupHit(r, f) ==
    /\ cachepc = "open" /\ readers[r] = NotIn /\ f \notin gone
    /\ LET e == LookupIn(table_, keyOf, f)
       IN  /\ e /= 0
           /\ refs' = [refs EXCEPT ![e] = @ + 1]
           /\ lru_' = LRU_Append(LRU_Remove(lru_, e), e)
           /\ readers' = [readers EXCEPT ![r] = [file |-> f, handle |-> e, opening |-> FALSE]]
    /\ UNCHANGED <<keyOf, table_, usage_, gone, cachepc>>

(* FindTable, with the file not in the cache: the thread goes to open it.  *)
lookupMiss(r, f) ==
    /\ cachepc = "open" /\ readers[r] = NotIn /\ f \notin gone
    /\ LookupIn(table_, keyOf, f) = 0
    /\ readers' = [readers EXCEPT ![r] = [file |-> f, handle |-> 0, opening |-> TRUE]]
    /\ UNCHANGED <<refs, keyOf, lru_, table_, usage_, gone, cachepc>>

(* The file or the table cannot be opened; nothing is cached.              *)
openFails(r) ==
    /\ readers[r].opening
    /\ readers' = [readers EXCEPT ![r] = NotIn]
    /\ UNCHANGED <<refs, keyOf, lru_, table_, usage_, gone, cachepc>>

(* Variant: the entry that is replaced stays in the LRU list.              *)
InsertedOverOld(f) ==
    LET e    == Len(refs) + 1
        keys == Append(keyOf, f)
    IN  EvictOldest(LRU_Append(lru_, e), Append(refs, 2), InsertIn(table_, keys, e), keys)

(* What Insert leaves of the list, the table and the counts, for a new     *)
(* entry that has a reference of the cache and one of the caller.          *)
Inserted(f) ==
    LET e    == Len(refs) + 1
        keys == Append(keyOf, f)
        old  == LookupIn(table_, keyOf, f)
    IN  EvictOldest(LRU_Remove(LRU_Append(lru_, e), old), Unref(Append(refs, 2), {old}),
                    InsertIn(table_, keys, e), keys)

(* FindTable after the file was opened: Insert.                            *)
insertTable(r) ==
    /\ readers[r].opening /\ Len(refs) < MaxInserts
    /\ LET s == Inserted(readers[r].file)
       IN  /\ refs' = s.counts /\ lru_' = s.lru /\ table_' = s.table /\ keyOf' = s.keys
           /\ usage_' = Usage(s.counts)
    /\ readers' = [readers EXCEPT ![r].handle = Len(refs) + 1, ![r].opening = FALSE]
    /\ UNCHANGED <<gone, cachepc>>

(* TableCache::Get has read the table, or the iterator over it is deleted: *)
(* Release.                                                                *)
releaseTable(r) ==
    /\ readers[r].handle /= 0
    /\ refs' = Unref(refs, {readers[r].handle})
    /\ usage_' = Usage(refs')
    /\ readers' = [readers EXCEPT ![r] = NotIn]
    /\ UNCHANGED <<keyOf, lru_, table_, gone, cachepc>>

(* DeleteObsoleteFiles: Evict, and the file is deleted.  It does so only   *)
(* with files of no version, and a thread holds the version of the tables  *)
(* it reads.                                                               *)
Evict(f) ==
    /\ cachepc = "open" /\ f \notin gone /\ \A r \in Readers : readers[r].file /= f
    /\ LET e == LookupIn(table_, keyOf, f)
       IN  /\ table_' = RemoveFrom(table_, keyOf, f)
           /\ lru_' = LRU_Remove(lru_, e)
           /\ refs' = Unref(refs, {e})
    /\ usage_' = Usage(refs')
    /\ gone' = gone \cup {f}
    /\ UNCHANGED <<keyOf, readers, cachepc>>

(* ~TableCache and ~LRUCache, when the database is closed: the references  *)
(* of the cache are given back.                                            *)
closeTables ==
    /\ cachepc = "open" /\ \A r \in Readers : readers[r] = NotIn
    /\ refs' = Unref(refs, ToSet(lru_))
    /\ usage_' = Usage(refs')
    /\ lru_' = <<>> /\ table_' = EmptyTable
    /\ cachepc' = "closed"
    /\ UNCHANGED <<keyOf, readers, gone>>

TableCacheNext ==
    \/ \E r \in Readers, f \in TableFiles : lookupHit(r, f) \/ lookupMiss(r, f)
    \/ \E r \in Readers : openFails(r) \/ insertTable(r) \/ releaseTable(r)
    \/ \E f \in TableFiles : Evict(f)
    \/ closeTables

TableCacheSpec == TableCacheInit /\ [][TableCacheNext]_cacheVars

-----------------------------------------------------------------------------
Holders(e) == {r \in Readers : readers[r].handle = e}
InTable == UNION {ToSet(table_.list[b]) : b \in DOMAIN table_.list}

(* The LRU list and the hash table hold the same entries, at most one for  *)
(* a file, each in the bucket where FindPointer looks for it, and elems_   *)
(* counts them: an entry in one of them only could not be found, or not    *)
(* evicted.                                                                *)
(* Every entry is referenced once by the cache while it is in it and once  *)
(* by each thread that holds it: a file is closed when the last of them    *)
(* lets go, never under a thread that reads it and never twice, and the    *)
(* usage counts the files that are open.  More files than the capacity are *)
(* open only while the cache itself keeps none: all of them are in use.    *)
CacheConsistent ==
    /\ ToSet(lru_) = InTable /\ Len(lru_) = Cardinality(InTable)
    /\ table_.elems = Cardinality(InTable)
    /\ \A e \in InTable : LookupIn(table_, keyOf, keyOf[e]) = e
    /\ \A e \in DOMAIN refs : refs[e] = Cardinality(Holders(e)) + (IF e \in ToSet(lru_) THEN 1 ELSE 0)
    /\ usage_ = Usage(refs)
    /\ cachepc = "closed" => usage_ = 0
    /\ usage_ > capacity_ => lru_ = <<>>
=============================================================================
