---------------------------- MODULE VersionSet ----------------------------
(***************************************************************************)
(* The levels of the bundled leveldb (db/version_set.cc): where a lookup   *)
(* goes, which level a flushed memtable may be put on, which files a       *)
(* compaction takes and what it writes.  All of it is pure: a version is a *)
(* function from levels to sets of table files, a file is its number and   *)
(* its entries, an entry is a user key, a sequence number and a type.  A   *)
(* size in bytes becomes a number of entries.                              *)
(***************************************************************************)
EXTENDS Integers, Sequences, FiniteSets, SequencesExt

CONSTANTS kNumLevels, kL0_CompactionTrigger, kMaxMemCompactLevel,
          MaxBytesForLevel,          \* of the levels from 1 on
          MaxOutputFileSize,         \* of a table that a compaction writes
          kMaxGrandParentOverlapBytes, kExpandedCompactionByteSizeLimit

ASSUME VersionSetAssumption ==
    /\ kNumLevels \in Nat \ {0, 1}
    /\ kMaxMemCompactLevel \in 0 .. kNumLevels - 1
    /\ MaxBytesForLevel \in [1 .. kNumLevels - 1 -> Nat \ {0}]
    /\ {kL0_CompactionTrigger, MaxOutputFileSize} \subseteq Nat \ {0}
    /\ {kMaxGrandParentOverlapBytes, kExpandedCompactionByteSizeLimit} \subseteq Nat

Level == 0 .. kNumLevels - 1

(* InternalKeyComparator: by user key, and the newer entry first *)
Before(a, b) == a.k < b.k \/ (a.k = b.k /\ a.s > b.s)

First(E) == CHOOSE a \in E : \A b \in E \ {a} : Before(a, b)

Final(E) == CHOOSE a \in E : \A b \in E \ {a} : Before(b, a)

Entries(F) == UNION {f.ents : f \in F}

smallest(f) == First(f.ents)

largest(f) == Final(f.ents)

TotalFileSize(F) == Cardinality(Entries(F))

NoFiles == [l \in Level |-> {}]

----------------------------------------------------------------------------
(* Ranges of user keys *)

AfterFile(k, f) == k > largest(f).k

BeforeFile(k, f) == k < smallest(f).k

(* the first file that ends at or after entry e, as a set *)
FindFile(F, e) ==
    LET ends == {f \in F : ~ Before(largest(f), e)}
    IN  {f \in ends : \A g \in ends \ {f} :
            \/ Before(largest(f), largest(g))
            \/ largest(f) = largest(g) /\ f.num < g.num}

(* the first entry that a lookup of k could find: no sequence number is larger *)
SeekEntry(k, s) == [k |-> k, s |-> s, t |-> "val"]

OverlapInLevel(v, l, lo, hi) ==
    IF l = 0
    THEN \E f \in v[0] : ~ (AfterFile(lo, f) \/ BeforeFile(hi, f))
    ELSE LET ends == {f \in v[l] : ~ AfterFile(lo, f)}
         IN  \E f \in ends : /\ \A g \in ends : ~ Before(largest(g), largest(f))
                              /\ ~ BeforeFile(hi, f)

RECURSIVE GetOverlappingInputs(_, _, _, _)
GetOverlappingInputs(v, l, lo, hi) ==
    LET hit  == {f \in v[l] : ~ (AfterFile(lo, f) \/ BeforeFile(hi, f))}
        lo2  == IF hit = {} THEN lo ELSE First(Entries(hit)).k
        hi2  == IF hit = {} THEN hi ELSE Final(Entries(hit)).k
    IN  IF l = 0 /\ (lo2 < lo \/ hi2 > hi)
        THEN GetOverlappingInputs(v, l, IF lo2 < lo THEN lo2 ELSE lo,
                                        IF hi2 > hi THEN hi2 ELSE hi)
        ELSE hit

(* a level deeper as long as nothing there is covered, *)
(* and not too much below                              *)
PickLevelForMemTableOutput(v, lo, hi) ==
    LET free(l) == /\ ~ OverlapInLevel(v, l, lo, hi)
                   /\ l + 1 < kNumLevels =>
                          TotalFileSize(GetOverlappingInputs(v, l + 1, lo, hi))
                              <= kMaxGrandParentOverlapBytes
        ok     == {l \in 0 .. kMaxMemCompactLevel : \A j \in 1 .. l : free(j)}
    IN  IF OverlapInLevel(v, 0, lo, hi) THEN 0
        ELSE CHOOSE l \in ok : \A j \in ok : j <= l

----------------------------------------------------------------------------
(* Version::Get: the files that a lookup may read, in that order *)

Visible(E, k, s) == {e \in E : e.k = k /\ e.s <= s}

Newest(E) == CHOOSE e \in E : \A d \in E : d.s <= e.s

(* Variant: the oldest file of level 0 first *)
FilesOfLevelOldest(v, l, k, s) ==
    IF l = 0
    THEN SetToSortSeq({f \in v[0] : ~ (AfterFile(k, f) \/ BeforeFile(k, f))},
                      LAMBDA f, g : f.num < g.num)
    ELSE SetToSeq({f \in FindFile(v[l], SeekEntry(k, s)) : ~ BeforeFile(k, f)})

FilesOfLevel(v, l, k, s) ==
    IF l = 0
    THEN SetToSortSeq({f \in v[0] : ~ (AfterFile(k, f) \/ BeforeFile(k, f))},
                      LAMBDA f, g : f.num > g.num)
    ELSE SetToSeq({f \in FindFile(v[l], SeekEntry(k, s)) : ~ BeforeFile(k, f)})

FilesToRead(v, k, s) ==
    FlattenSeq([i \in 1 .. kNumLevels |-> FilesOfLevel(v, i - 1, k, s)])

(* the entries that the first file with one for the key gives, *)
(* and how many files were read until then                     *)
VersionGet(v, k, s) ==
    LET files == FilesToRead(v, k, s)
        hit   == SelectInSeq(files, LAMBDA f : Visible(f.ents, k, s) # {})
    IN  [found |-> IF hit = 0 THEN {} ELSE {Newest(Visible(files[hit].ents, k, s))},
         read  |-> IF hit = 0 THEN files ELSE SubSeq(files, 1, hit)]

----------------------------------------------------------------------------
(* Finalize: the level whose fill is the largest, as a fraction *)

Score(v, l) == IF l = 0 THEN <<Cardinality(v[0]), kL0_CompactionTrigger>>
              ELSE <<TotalFileSize(v[l]), MaxBytesForLevel[l]>>

More(a, b) == a[1] * b[2] > b[1] * a[2]

compaction_level_(v) ==
    CHOOSE l \in 0 .. kNumLevels - 2 :
        /\ \A j \in 0 .. kNumLevels - 2 : ~ More(Score(v, j), Score(v, l))
        /\ \A j \in 0 .. l - 1 : More(Score(v, l), Score(v, j))

TooFull(v) == LET f == Score(v, compaction_level_(v)) IN f[1] >= f[2]


(* the files of a compaction that starts with in0, and where the next one *)
(* of the level goes on                                                   *)
SetupOtherInputs(v, l, in0) ==
    LET over(j, F) == GetOverlappingInputs(v, j, First(Entries(F)).k, Final(Entries(F)).k)
        in1    == over(l + 1, in0)
        wider0 == over(l, in0 \cup in1)
        wider1 == over(l + 1, wider0)
        grow   == /\ in1 # {}
                  /\ Cardinality(wider0) > Cardinality(in0)
                  /\ TotalFileSize(in1) + TotalFileSize(wider0)
                         < kExpandedCompactionByteSizeLimit
                  /\ Cardinality(wider1) = Cardinality(in1)
        from   == IF grow THEN wider0 ELSE in0
    IN  [level |-> l, in0 |-> from, in1 |-> in1,
         grandparents |-> IF l + 2 < kNumLevels THEN over(l + 2, from \cup in1) ELSE {},
         pointer |-> Final(Entries(from))]

(* the next compaction: of the fullest level, past its pointer; else of the *)
(* file that was sought too often; a set of at most one                     *)
PickCompaction(v, compact_pointer_, file_to_compact_) ==
    LET setup(l, F) ==
            SetupOtherInputs(v, l,
                IF l # 0 THEN F
                ELSE GetOverlappingInputs(v, 0, First(Entries(F)).k, Final(Entries(F)).k))
        full  == compaction_level_(v)
        past  == {f \in v[full] : \A p \in compact_pointer_[full] : Before(p, largest(f))}
        from  == IF past = {} THEN v[full] ELSE past
        next(F) == {f \in F : \A g \in F \ {f} :
                        \/ Before(smallest(f), smallest(g))
                        \/ smallest(f) = smallest(g) /\ f.num < g.num}
    IN  IF TooFull(v) THEN {setup(full, next(from))}
        ELSE {setup(p.level, {p.file}) : p \in file_to_compact_}

IsTrivialMove(c) == /\ Cardinality(c.in0) = 1
                    /\ c.in1 = {}
                    /\ TotalFileSize(c.grandparents) <= kMaxGrandParentOverlapBytes

IsBaseLevelForKey(v, c, k) ==
    \A l \in c.level + 2 .. kNumLevels - 1 : \A f \in v[l] :
        AfterFile(k, f) \/ BeforeFile(k, f)

(* ShouldStopBefore: how much of the grandparents the entries passed since *)
(* the output began                                                        *)
Passed(c, from, e) == {g \in c.grandparents : /\ Before(largest(g), e)
                                              /\ ~ Before(largest(g), from)}

----------------------------------------------------------------------------
(* the merging iterator over the inputs *)
RECURSIVE InOrder(_)
InOrder(E) == IF E = {} THEN <<>> ELSE <<First(E)>> \o InOrder(E \ {First(E)})

(* DoCompactionWork: the entries in order; the one that is hidden by a newer *)
(* one at or below the oldest snapshot goes, and so does a deletion with     *)
(* nothing under it; an output is closed when it is big enough or covers too *)
(* much of the grandparents.                                                 *)

Dropped(v, c, snapshot, e, last) ==
    \/ \E d \in last : d.k = e.k /\ d.s <= snapshot
    \/ e.t = "del" /\ e.s <= snapshot /\ IsBaseLevelForKey(v, c, e.k)

CompactStep(v, c, snapshot, st, e) ==
    LET stop   == TotalFileSize(Passed(c, st.from, e)) > kMaxGrandParentOverlapBytes
        close  == st.cur # {} /\ (stop \/ Cardinality(st.cur) >= MaxOutputFileSize)
        outs   == IF close THEN Append(st.outs, st.cur) ELSE st.outs
        cur    == IF close THEN {} ELSE st.cur
    IN  [outs |-> outs, last |-> {e}, from |-> IF stop THEN e ELSE st.from,
         cur  |-> IF Dropped(v, c, snapshot, e, st.last) THEN cur ELSE cur \cup {e}]

CompactionOutputs(v, c, snapshot) ==
    LET input == InOrder(Entries(c.in0 \cup c.in1))
        done  == FoldLeft(LAMBDA st, e : CompactStep(v, c, snapshot, st, e),
                          [outs |-> <<>>, last |-> {}, cur |-> {}, from |-> input[1]],
                          input)
    IN  IF done.cur = {} THEN done.outs ELSE Append(done.outs, done.cur)

(* Builder: the version with the files of one edit *)
SaveTo(v, deleted, l, added) ==
    [j \in Level |-> (v[j] \ deleted) \cup (IF j = l THEN added ELSE {})]

============================================================================
