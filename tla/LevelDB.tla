------------------------------ MODULE LevelDB ------------------------------
(***************************************************************************)
(* The bundled leveldb as the servers use it (db/db_impl.cc): threads that *)
(* write through one queue, the log, the two memtables, the background     *)
(* thread that flushes and compacts, readers, and what is left on the disk *)
(* when the process or the machine stops.  The servers take no snapshot    *)
(* and use no iterator.                                                    *)
(*                                                                         *)
(* One action is what a thread does while it holds mutex_, or the work it  *)
(* does in one go without it.  A log record is read back whole or not at   *)
(* all, and a machine that stops keeps a prefix of a log that has at least *)
(* its synced records.                                                     *)
(***************************************************************************)
EXTENDS VersionSet, TLC

CONSTANTS Keys, DBWriters, write_buffer_size, MaxGroup,
          kL0_SlowdownWritesTrigger, kL0_StopWritesTrigger,
          Scenarios                  \* the calls of Write, in their order, and how
                                     \* many stops, faults and Gets come

ASSUME LevelDBAssumption ==
    /\ Keys \subseteq Nat
    /\ {write_buffer_size, MaxGroup} \subseteq Nat
    /\ kL0_CompactionTrigger <= kL0_StopWritesTrigger
    /\ \A x \in Scenarios : \A i \in DOMAIN x.calls :
           /\ x.calls[i].sync \in BOOLEAN
           /\ \A j \in DOMAIN x.calls[i].batch : x.calls[i].batch[j].k \in Keys

VARIABLES
    plan,                            \* calls not yet made
    db,                              \* the process: open, closing, down, opening
    writers_,                        \* queue of the waiting writers
    leader,                          \* what the writer at its front does
    mem_, imm_,                      \* entries; imm_ is a set of at most one
    logs, tables, manifest,          \* the disk
    vset,                            \* next_file_number_, last_sequence_, log_number_
    logfile_number_, current, compact_pointer_, file_to_compact_,
    pending_outputs_, bg,            \* bg: the background thread
    compact,                         \* its compaction, a set of at most one
    bg_error_, getter,
    hist, acked,                     \* what was written; what a sync write was told is safe
    used                             \* what is left of the bounds

memory == <<mem_, imm_, vset, logfile_number_, current, compact_pointer_,
            file_to_compact_, pending_outputs_, bg, compact, bg_error_, getter>>

dbVars == <<plan, db, writers_, leader, memory, logs, tables, manifest, hist, acked, used>>

Idle == [pc |-> "idle"]

NoLeader == [pc |-> "none", n |-> 0, delayed |-> FALSE]

EntriesOf(log) == UNION {log.recs[i] : i \in DOMAIN log.recs}

NewLog == [recs |-> <<>>, safe |-> 0]

Use(what) == used[what] > 0 /\ used' = [used EXCEPT ![what] = @ - 1]

(* NewDB, and DB::Open of the directory that it made *)
LevelDBInit ==
    /\ \E x \in Scenarios : plan = x.calls /\ used = x.bounds
    /\ db = "open"
    /\ writers_ = <<>> /\ leader = NoLeader
    /\ mem_ = {} /\ imm_ = {}
    /\ logs = (3 :> NewLog) /\ tables = {}
    /\ manifest = [files |-> NoFiles, log |-> 3, next |-> 4, seq |-> 0,
                   ptr |-> [l \in Level |-> {}]]
    /\ vset = [next |-> 4, seq |-> 0, log |-> 3]
    /\ logfile_number_ = 3 /\ current = NoFiles
    /\ compact_pointer_ = [l \in Level |-> {}] /\ file_to_compact_ = {}
    /\ pending_outputs_ = {} /\ bg = Idle /\ compact = {} /\ bg_error_ = FALSE
    /\ getter = Idle
    /\ hist = {} /\ acked = {}

----------------------------------------------------------------------------
(* Shared pieces *)

NeedsCompaction(v, ftc) == TooFull(v) \/ ftc # {}

(* MaybeScheduleCompaction: what the background thread is to do *)
Scheduled(b, imm, v, ftc, err) ==
    IF b.pc = "idle" /\ db = "open" /\ ~ err /\ (imm # {} \/ NeedsCompaction(v, ftc))
    THEN [pc |-> "called"] ELSE b

(* Variant: nobody is woken *)
WokenNever(l) == l

(* bg_cv_.SignalAll *)
Woken(l) == IF l.pc = "wait" THEN [l EXCEPT !.pc = "room"] ELSE l

FilesOf(v) == UNION {v[l] : l \in Level}

(* Variant: only the current version counts *)
HeldByNone(cs) == {}

(* AddLiveFiles: the files of the versions that readers and compactions cs hold *)
Held(cs) == UNION ({FilesOf(c.ver) : c \in cs}
                   \cup {FilesOf(g.ver) : g \in {getter} \ {Idle}})

(* DeleteObsoleteFiles, when version v is current and n is the log number *)
DeleteObsoleteFiles(v, n, cs, pending) ==
    IF bg_error_ THEN UNCHANGED <<tables, logs>>
    ELSE /\ tables' = {f \in tables : f \in FilesOf(v) \cup Held(cs) \/ f.num \in pending}
         /\ logs' = [m \in {m \in DOMAIN logs : m >= n} |-> logs[m]]

(* LogAndApply: the record that goes to the manifest, and its effect there *)
Edit(deleted, level, added, log) ==
    [deleted |-> deleted, level |-> level, added |-> added, log |-> log,
     next |-> vset.next, seq |-> vset.seq, ptr |-> compact_pointer_]

Applied(m, e) == [files |-> SaveTo(m.files, e.deleted, e.level, e.added),
                  log |-> e.log, next |-> e.next, seq |-> e.seq, ptr |-> e.ptr]

(* a table file of that number, in place of what has the number already *)
Stored(f) == {g \in tables : g.num # f.num} \cup {f}

----------------------------------------------------------------------------
(* Write *)

Write(w) ==
    /\ db = "open" /\ plan # <<>>
    /\ \A i \in DOMAIN writers_ : writers_[i].w # w
    /\ writers_' = Append(writers_, [w |-> w, batch |-> plan[1].batch, sync |-> plan[1].sync])
    /\ plan' = Tail(plan)
    /\ leader' = IF writers_ = <<>> THEN [NoLeader EXCEPT !.pc = "room"] ELSE leader
    /\ UNCHANGED <<db, memory, logs, tables, manifest, hist, acked, used>>

(* Variant: a sync write joins any other *)
BuildBatchGroupAnySync ==
    LET size(n) == Len(FlattenSeq([i \in 1 .. n |-> writers_[i].batch]))
        ok      == {n \in DOMAIN writers_ : n = 1 \/ size(n) <= MaxGroup}
    IN  CHOOSE n \in ok : \A m \in ok : m <= n

(* the writers behind the first whose batches go with its own *)
BuildBatchGroup ==
    LET size(n) == Len(FlattenSeq([i \in 1 .. n |-> writers_[i].batch]))
        fits(n) == \A i \in 2 .. n : /\ writers_[i].sync => writers_[1].sync
                                     /\ size(i) <= MaxGroup
        ok      == {n \in DOMAIN writers_ : fits(n)}
    IN  CHOOSE n \in ok : \A m \in ok : m <= n

(* the first n writers leave the queue, and the next one is woken *)
Leave(n) ==
    /\ writers_' = SubSeq(writers_, n + 1, Len(writers_))
    /\ leader' = IF n = Len(writers_) THEN NoLeader ELSE [NoLeader EXCEPT !.pc = "room"]

MakeRoomForWrite ==
    /\ db = "open" /\ leader.pc = "room"
    /\ \/ /\ bg_error_
          /\ Leave(1)
          /\ UNCHANGED <<memory, logs>>
       \/ /\ ~ bg_error_ /\ ~ leader.delayed
          /\ Cardinality(current[0]) >= kL0_SlowdownWritesTrigger
          /\ leader' = [leader EXCEPT !.delayed = TRUE]
          /\ UNCHANGED <<writers_, memory, logs>>
       \/ /\ ~ bg_error_
          /\ leader.delayed \/ Cardinality(current[0]) < kL0_SlowdownWritesTrigger
          /\ Cardinality(mem_) <= write_buffer_size
          /\ leader' = [leader EXCEPT !.pc = "log", !.n = BuildBatchGroup]
          /\ UNCHANGED <<writers_, memory, logs>>
       \/ /\ ~ bg_error_
          /\ leader.delayed \/ Cardinality(current[0]) < kL0_SlowdownWritesTrigger
          /\ Cardinality(mem_) > write_buffer_size
          /\ imm_ # {} \/ Cardinality(current[0]) >= kL0_StopWritesTrigger
          /\ leader' = [leader EXCEPT !.pc = "wait"]
          /\ UNCHANGED <<writers_, memory, logs>>
       \/ /\ ~ bg_error_
          /\ leader.delayed \/ Cardinality(current[0]) < kL0_SlowdownWritesTrigger
          /\ Cardinality(mem_) > write_buffer_size
          /\ imm_ = {} /\ Cardinality(current[0]) < kL0_StopWritesTrigger
          /\ vset' = [vset EXCEPT !.next = @ + 1]
          /\ logs' = logs @@ (vset.next :> NewLog)
          /\ logfile_number_' = vset.next
          /\ imm_' = {mem_} /\ mem_' = {}
          /\ bg' = Scheduled(bg, {mem_}, current, file_to_compact_, FALSE)
          /\ leader' = leader
          /\ UNCHANGED <<writers_, current, compact_pointer_, file_to_compact_,
                         pending_outputs_, compact, bg_error_, getter>>
    /\ UNCHANGED <<plan, db, tables, manifest, hist, acked, used>>

(* the entries of the first n batches, numbered from the last sequence on *)
Numbered(n) ==
    LET ops == FlattenSeq([i \in 1 .. n |-> writers_[i].batch])
    IN  {[k |-> ops[i].k, t |-> ops[i].t, s |-> vset.seq + i] : i \in DOMAIN ops}

addRecord ==
    /\ db = "open" /\ leader.pc = "log"
    /\ logs' = [logs EXCEPT ![logfile_number_].recs = Append(@, Numbered(leader.n))]
    /\ leader' = [leader EXCEPT !.pc = "insert"]
    /\ UNCHANGED <<plan, db, writers_, memory, tables, manifest, hist, acked, used>>

(* entries of the writers among the first n who asked for a sync *)
OfSync(n) ==
    LET ends(i) == vset.seq + Len(FlattenSeq([j \in 1 .. i |-> writers_[j].batch]))
    IN  {e \in Numbered(n) : \E i \in 1 .. n : /\ writers_[i].sync
                                               /\ ends(i - 1) < e.s /\ e.s <= ends(i)}

(* the log is synced if the leader asked for it, the entries go to the *)
(* memtable and the group is answered                                  *)
insertInto ==
    /\ db = "open" /\ leader.pc = "insert"
    /\ mem_' = mem_ \cup Numbered(leader.n)
    /\ vset' = [vset EXCEPT !.seq = @ + Cardinality(Numbered(leader.n))]
    /\ logs' = IF writers_[1].sync
               THEN [logs EXCEPT ![logfile_number_].safe = Len(logs[logfile_number_].recs)]
               ELSE logs
    /\ hist' = hist \cup Numbered(leader.n)
    /\ acked' = acked \cup OfSync(leader.n)
    /\ Leave(leader.n)
    /\ UNCHANGED <<plan, db, imm_, logfile_number_, current, compact_pointer_, file_to_compact_,
                   pending_outputs_, bg, compact, bg_error_, getter, tables, manifest,
                   used>>

(* the sync fails: nothing goes to the memtable, and no write succeeds any more *)
syncFails ==
    /\ db = "open" /\ leader.pc = "insert" /\ writers_[1].sync
    /\ Use("fault")
    /\ vset' = [vset EXCEPT !.seq = @ + Cardinality(Numbered(leader.n))]
    /\ bg_error_' = TRUE
    /\ Leave(leader.n)
    /\ UNCHANGED <<plan, db, mem_, imm_, logfile_number_, current, compact_pointer_,
                   file_to_compact_, pending_outputs_, bg, compact, getter, logs, tables,
                   manifest, hist, acked>>

----------------------------------------------------------------------------
(* The background thread *)

(* BackgroundCall ends: it is scheduled again if there is more to do, *)
(* and the waiting writer is woken                                    *)
EndCall(imm, v, ftc, err) ==
    /\ bg' = Scheduled(Idle, imm, v, ftc, err)
    /\ leader' = Woken(leader)

(* CompactMemTable ends; inside of a compaction the loop goes on *)
EndFlush(imm, v, ftc, err) ==
    IF compact = {} THEN EndCall(imm, v, ftc, err)
    ELSE bg' = [pc |-> "work"] /\ leader' = Woken(leader)

StartFlush ==
    /\ bg' = [pc |-> "build", num |-> vset.next]
    /\ vset' = [vset EXCEPT !.next = @ + 1]
    /\ pending_outputs_' = pending_outputs_ \cup {vset.next}

BackgroundCall ==
    /\ bg.pc = "called"
    /\ \/ /\ bg_error_ \/ db = "closing"
          /\ EndCall(imm_, current, file_to_compact_, bg_error_)
          /\ UNCHANGED <<vset, pending_outputs_, compact, compact_pointer_>>
       \/ /\ ~ bg_error_ /\ db = "open" /\ imm_ # {}
          /\ StartFlush
          /\ UNCHANGED <<leader, compact, compact_pointer_>>
       \/ /\ ~ bg_error_ /\ db = "open" /\ imm_ = {}
          /\ \E c \in PickCompaction(current, compact_pointer_, file_to_compact_) :
                /\ compact_pointer_' = [compact_pointer_ EXCEPT ![c.level] = {c.pointer}]
                /\ IF IsTrivialMove(c)
                   THEN /\ bg' = [pc |-> "apply", kind |-> "move",
                                  edit |-> [Edit(c.in0, c.level + 1, c.in0, vset.log)
                                                EXCEPT !.ptr = compact_pointer_']]
                        /\ compact' = {}
                   ELSE /\ bg' = [pc |-> "work"]
                        /\ compact' = {[c |-> c, ver |-> current, made |-> {},
                              outs |-> CompactionOutputs(current, c, vset.seq)]}
          /\ UNCHANGED <<leader, vset, pending_outputs_>>
    /\ UNCHANGED <<plan, db, writers_, mem_, imm_, logs, tables, manifest, logfile_number_,
                   current, file_to_compact_, bg_error_, getter, hist, acked, used>>

(* WriteLevel0Table: mutex_ is free while the table is built *)
WriteLevel0Table ==
    /\ bg.pc = "build"
    /\ LET f == [num |-> bg.num, ents |-> UNION imm_]
           l == PickLevelForMemTableOutput(current, smallest(f).k, largest(f).k)
       IN  /\ tables' = Stored(f)
           /\ \/ /\ db = "open"
                 /\ bg' = [pc |-> "apply", kind |-> "flush",
                           edit |-> Edit({}, l, {f}, logfile_number_)]
                 /\ UNCHANGED <<leader, bg_error_>>
              \/ /\ db = "closing"
                 /\ bg_error_' = TRUE
                 /\ EndFlush(imm_, current, file_to_compact_, TRUE)
    /\ pending_outputs_' = pending_outputs_ \ {bg.num}
    /\ UNCHANGED <<plan, db, writers_, mem_, imm_, vset, logs, manifest, logfile_number_, current,
                   compact_pointer_, file_to_compact_, compact, getter, hist, acked,
                   used>>

(* BuildTable fails and removes the file *)
buildFails ==
    /\ bg.pc = "build"
    /\ Use("fault")
    /\ bg_error_' = TRUE
    /\ pending_outputs_' = pending_outputs_ \ {bg.num}
    /\ EndFlush(imm_, current, file_to_compact_, TRUE)
    /\ UNCHANGED <<plan, db, writers_, mem_, imm_, vset, logs, tables, manifest, logfile_number_,
                   current, compact_pointer_, file_to_compact_, compact, getter, hist,
                   acked>>

(* one round of DoCompactionWork: an immutable memtable goes first *)
DoCompactionWork ==
    /\ bg.pc = "work"
    /\ \E x \in compact :
          LET done == IF db = "closing" THEN "stop" ELSE IF x.outs = <<>> THEN "done" ELSE "more"
              f    == [num |-> vset.next, ents |-> x.outs[1]]
              made == {g.num : g \in x.made}
          IN  \/ /\ done = "more" /\ imm_ # {}
                 /\ StartFlush
                 /\ UNCHANGED <<leader, tables, compact, bg_error_>>
              \/ /\ done = "more"
                 /\ vset' = [vset EXCEPT !.next = @ + 1]
                 /\ pending_outputs_' = pending_outputs_ \cup {vset.next}
                 /\ tables' = Stored(f)
                 /\ compact' = {[x EXCEPT !.outs = Tail(@), !.made = @ \cup {f}]}
                 /\ UNCHANGED <<leader, bg, bg_error_>>
              \/ /\ done = "done"
                 /\ bg' = [pc |-> "apply", kind |-> "compact",
                           edit |-> Edit(x.c.in0 \cup x.c.in1, x.c.level + 1, x.made, vset.log)]
                 /\ UNCHANGED <<leader, vset, pending_outputs_, tables, compact, bg_error_>>
              \/ /\ done = "stop"
                 /\ bg_error_' = TRUE
                 /\ compact' = {}
                 /\ pending_outputs_' = pending_outputs_ \ made
                 /\ EndCall(imm_, current, file_to_compact_, TRUE)
                 /\ UNCHANGED <<vset, tables>>
    /\ UNCHANGED <<plan, db, writers_, mem_, imm_, logs, manifest, logfile_number_, current,
                   compact_pointer_, file_to_compact_, getter, hist, acked, used>>

(* the edit is in the manifest, synced *)
writeManifest ==
    /\ bg.pc = "apply"
    /\ manifest' = Applied(manifest, bg.edit)
    /\ bg' = [bg EXCEPT !.pc = "install"]
    /\ UNCHANGED <<plan, db, writers_, leader, mem_, imm_, vset, logs, tables, logfile_number_,
                   current, compact_pointer_, file_to_compact_, pending_outputs_, compact,
                   bg_error_, getter, hist, acked, used>>

(* the numbers of a compaction's outputs: pending until it is cleaned up *)
MadeBy(kind) == IF kind = "compact" THEN {g.num : g \in UNION {x.made : x \in compact}} ELSE {}

(* its write or its sync fails: the edit may be there or not *)
manifestFails ==
    /\ bg.pc = "apply"
    /\ Use("fault")
    /\ manifest' \in {manifest, Applied(manifest, bg.edit)}
    /\ bg_error_' = TRUE
    /\ pending_outputs_' = pending_outputs_ \ MadeBy(bg.kind)
    /\ \/ /\ bg.kind = "flush"
          /\ EndFlush(imm_, current, file_to_compact_, TRUE)
          /\ UNCHANGED compact
       \/ /\ bg.kind # "flush"
          /\ compact' = {}
          /\ EndCall(imm_, current, file_to_compact_, TRUE)
    /\ UNCHANGED <<plan, db, writers_, mem_, imm_, vset, logs, tables, logfile_number_, current,
                   compact_pointer_, file_to_compact_, getter, hist, acked>>

(* LogAndApply installs the version; then what its caller does after it *)
AppendVersion ==
    /\ bg.pc = "install"
    /\ LET v == SaveTo(current, bg.edit.deleted, bg.edit.level, bg.edit.added)
       IN  /\ current' = v
           /\ vset' = [vset EXCEPT !.log = bg.edit.log]
           /\ file_to_compact_' = {}
           /\ pending_outputs_' = pending_outputs_ \ MadeBy(bg.kind)
           /\ \/ /\ bg.kind = "flush"
                 /\ imm_' = {}
                 /\ DeleteObsoleteFiles(v, bg.edit.log, compact, pending_outputs_)
                 /\ EndFlush({}, v, {}, bg_error_)
                 /\ UNCHANGED compact
              \/ /\ bg.kind = "compact"
                 /\ compact' = {}
                 /\ DeleteObsoleteFiles(v, bg.edit.log, {}, pending_outputs_')
                 /\ EndCall(imm_, v, {}, bg_error_)
                 /\ UNCHANGED imm_
              \/ /\ bg.kind = "move"
                 /\ EndCall(imm_, v, {}, bg_error_)
                 /\ UNCHANGED <<imm_, compact, tables, logs>>
    /\ UNCHANGED <<plan, db, writers_, mem_, manifest, logfile_number_, compact_pointer_,
                   bg_error_, getter, hist, acked, used>>

----------------------------------------------------------------------------
(* Get *)

Get(k) ==
    /\ db = "open" /\ getter = Idle
    /\ Use("get")
    /\ getter' = [pc |-> "get", k |-> k, snapshot |-> vset.seq, ver |-> current,
                  down |-> Visible(mem_ \cup UNION imm_, k, vset.seq) = {}]
    /\ UNCHANGED <<plan, db, writers_, leader, mem_, imm_, vset, logfile_number_, current,
                   compact_pointer_, file_to_compact_, pending_outputs_, bg, compact, bg_error_, logs, tables, manifest, hist, acked>>

(* the lookup is over; the first of several files that it read may have been *)
(* sought often enough for a compaction (UpdateStats)                        *)
getDone ==
    /\ getter # Idle
    /\ LET read == VersionGet(getter.ver, getter.k, getter.snapshot).read
           l    == CHOOSE l \in Level : read[1] \in getter.ver[l]
       IN  \/ file_to_compact_' = file_to_compact_
          \/ /\ getter.down /\ Len(read) > 1
             /\ getter.ver = current /\ file_to_compact_ = {}
             /\ file_to_compact_' = {[level |-> l, file |-> read[1]]}
    /\ bg' = Scheduled(bg, imm_, current, file_to_compact_', bg_error_)
    /\ getter' = Idle
    /\ UNCHANGED <<plan, db, writers_, leader, mem_, imm_, vset, logfile_number_, current,
                   compact_pointer_, pending_outputs_, compact, bg_error_, logs,
                   tables, manifest, hist, acked, used>>

----------------------------------------------------------------------------
(* The end of the process, and the next DB::Open *)

Needed == {n \in DOMAIN logs : n >= manifest.log}

(* nothing but the disk is left, with the logs as in kept *)
Down(kept) ==
    /\ db' = "down"
    /\ logs' = kept
    /\ LET logged(l) == UNION {EntriesOf(l[n]) : n \in Needed}
       IN  hist' = (hist \ (logged(logs) \ Entries(FilesOf(manifest.files)))) \cup logged(kept)
    /\ writers_' = <<>> /\ leader' = NoLeader
    /\ mem_' = {} /\ imm_' = {} /\ vset' = [next |-> 0, seq |-> 0, log |-> 0]
    /\ logfile_number_' = 0 /\ current' = NoFiles
    /\ compact_pointer_' = [l \in Level |-> {}] /\ file_to_compact_' = {}
    /\ pending_outputs_' = {} /\ bg' = Idle /\ compact' = {} /\ bg_error_' = FALSE
    /\ getter' = Idle

(* the process or the machine stops: of a log, the synced records are kept *)
(* and perhaps some of the others                                          *)
stop ==
    /\ db # "down"
    /\ Use("stop")
    /\ \E cut \in [DOMAIN logs -> UNION {logs[n].safe .. Len(logs[n].recs) : n \in DOMAIN logs}] :
          /\ \A n \in DOMAIN logs : cut[n] \in logs[n].safe .. Len(logs[n].recs)
          /\ Down([n \in DOMAIN logs |-> [recs |-> SubSeq(logs[n].recs, 1, cut[n]),
                                          safe |-> cut[n]]])
    /\ UNCHANGED <<plan, tables, manifest, acked>>

(* ~DBImpl: no caller is left, and the background thread is awaited *)
shutDown ==
    /\ db = "open" /\ writers_ = <<>> /\ getter = Idle
    /\ Use("stop")
    /\ db' = "closing"
    /\ UNCHANGED <<plan, writers_, leader, memory, logs, tables, manifest, hist, acked>>

closed ==
    /\ db = "closing" /\ bg = Idle
    /\ Down(logs)
    /\ UNCHANGED <<plan, tables, manifest, acked, used>>

(* RecoverLogFile: the records fill memtables, each of which becomes a table *)
Chunks(log) ==
    LET step(st, r) == LET m == st.mem \cup r
                       IN  IF Cardinality(m) > write_buffer_size
                           THEN [mem |-> {}, outs |-> Append(st.outs, m)]
                           ELSE [st EXCEPT !.mem = m]
        done == FoldLeft(step, [mem |-> {}, outs |-> <<>>], log.recs)
    IN  IF done.mem = {} THEN done.outs ELSE Append(done.outs, done.mem)

RecoverLogFile(st, n) ==
    LET outs == Chunks(logs[n])
        next == st.next + Len(outs)
    IN  [next |-> IF next <= n THEN n + 1 ELSE next,
         made |-> st.made \cup {[num |-> st.next + i - 1, ents |-> outs[i]] : i \in DOMAIN outs}]

(* Recover: the manifest, then the logs that it does not cover, in their order *)
Recover ==
    /\ db = "down"
    /\ FilesOf(manifest.files) \subseteq tables
    /\ LET order == SetToSortSeq(Needed, <)
           done  == FoldLeft(RecoverLogFile, [next |-> manifest.next + 1, made |-> {}], order)
           seqs  == {manifest.seq} \cup {e.s : e \in Entries(done.made)}
           seq   == CHOOSE s \in seqs : \A q \in seqs : q <= s
       IN  /\ tables' = {g \in tables : \A f \in done.made : f.num # g.num} \cup done.made
           /\ logs' = logs @@ (done.next :> NewLog)
           /\ logfile_number_' = done.next
           /\ vset' = [next |-> done.next + 1, seq |-> seq, log |-> manifest.log]
           /\ bg' = [pc |-> "open", kind |-> "open",
                     edit |-> [deleted |-> {}, level |-> 0, added |-> done.made,
                               log |-> done.next, next |-> done.next + 1, seq |-> seq,
                               ptr |-> manifest.ptr]]
    /\ db' = "opening"
    /\ current' = manifest.files
    /\ compact_pointer_' = manifest.ptr
    /\ UNCHANGED <<plan, writers_, leader, mem_, imm_, file_to_compact_, pending_outputs_, compact,
                   bg_error_, getter, manifest, hist, acked, used>>

(* a new manifest is written and CURRENT points to it; the database is open *)
Open ==
    /\ db = "opening"
    /\ db' = "open"
    /\ manifest' = Applied(manifest, bg.edit)
    /\ current' = manifest'.files
    /\ vset' = [vset EXCEPT !.log = bg.edit.log]
    /\ DeleteObsoleteFiles(current', bg.edit.log, {}, {})
    /\ bg' = IF NeedsCompaction(current', {}) THEN [pc |-> "called"] ELSE Idle
    /\ UNCHANGED <<plan, writers_, leader, mem_, imm_, logfile_number_, compact_pointer_,
                   file_to_compact_, pending_outputs_, compact, bg_error_, getter,
                   hist, acked, used>>

Background == \/ BackgroundCall \/ WriteLevel0Table \/ DoCompactionWork \/ writeManifest
              \/ AppendVersion

LevelDBNext ==
    \/ \E w \in DBWriters : Write(w)
    \/ MakeRoomForWrite \/ addRecord \/ insertInto \/ syncFails
    \/ Background \/ buildFails \/ manifestFails
    \/ \E k \in Keys : Get(k)
    \/ getDone
    \/ stop \/ shutDown \/ closed \/ Recover \/ Open

(* A thread that can go on does: weak fairness of the writer at the front and *)
(* of the background thread, whose steps are enabled when their pc says so.   *)
(* Nobody has to call Write or Get, and nothing has to fail.                  *)
LeaderStep == MakeRoomForWrite \/ addRecord \/ insertInto

LevelDBFairness ==
    /\ []<>(leader.pc \in {"none", "wait"}) \/ []<><<LeaderStep>>_dbVars
    /\ []<>(bg.pc \in {"idle", "open"}) \/ []<><<Background>>_dbVars

LevelDBSpec == LevelDBInit /\ [][LevelDBNext]_dbVars /\ LevelDBFairness

----------------------------------------------------------------------------
(* Properties *)

(* A found entry as the caller sees it: a deletion is no entry *)
Seen(E) == {e \in E : e.t = "val"}

(* what DBImpl::Get finds: mem_, then imm_, then the levels *)
Lookup(k, s) ==
    LET m == Visible(mem_, k, s)
        i == Visible(UNION imm_, k, s)
    IN  IF m # {} THEN {Newest(m)} ELSE IF i # {} THEN {Newest(i)}
        ELSE VersionGet(current, k, s).found

(* The counters, queues and sets of db_impl.cc stay in their ranges. *)
LevelDBTypeOK ==
    /\ db \in {"open", "closing", "down", "opening"}
    /\ leader.pc \in {"none", "room", "wait", "log", "insert"}
    /\ leader.pc = "none" <=> writers_ = <<>>
    /\ leader.n <= Len(writers_)
    /\ Cardinality(imm_) <= 1 /\ Cardinality(compact) <= 1 /\ Cardinality(file_to_compact_) <= 1
    /\ \A f \in tables : db \in {"open", "closing"} => f.num < vset.next
    /\ pending_outputs_ \subseteq 0 .. vset.next - 1

(* DBImpl::Get, at the last sequence number, finds the newest entry that  *)
(* was written up to there: whatever was flushed, compacted, dropped,     *)
(* lost or recovered meanwhile.                                           *)
ReadsNewest ==
    db \in {"open", "closing"} =>
        \A k \in Keys :
            LET w == Visible(hist, k, vset.seq)
            IN  Seen(Lookup(k, vset.seq)) = Seen(IF w = {} THEN {} ELSE {Newest(w)})


(* DeleteObsoleteFiles removes no table that the current version, a reader, *)
(* a compaction or the manifest on the disk still names.                    *)
NamedTablesExist ==
    /\ FilesOf(current) \cup FilesOf(manifest.files) \subseteq tables
    /\ getter # Idle => FilesOf(getter.ver) \subseteq tables
    /\ \A x \in compact : FilesOf(x.ver) \subseteq tables

(* A write that was acknowledged after a sync outlives every stop, also when *)
(* another thread's write carried it.                                        *)
SyncedStay == acked \subseteq hist

(* A call of Write returns, unless the process stops first: nobody waits for *)
(* a memtable or for level 0 without being woken.                            *)
WritesReturn ==
    \A w \in DBWriters :
        (\E i \in DOMAIN writers_ : writers_[i].w = w)
            ~> ~ (\E i \in DOMAIN writers_ : writers_[i].w = w)

============================================================================
