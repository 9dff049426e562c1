------------------------------- MODULE MCUnits -------------------------------
(* Components that are checked one by one, in one state space: the share   *)
(* index under flush faults, the codec, the chunker, and the skip list,    *)
(* the log, the table cache and the tables of leveldb.  unit says which of *)
(* them moves; the others stay in an initial state.                        *)
EXTENDS MCShareIndex, ShareHistory, CDCodec, Chunker, SkipList, LogFormat, TableCache, TableFormat

\* The codec on small secrets of every kind of length, each with every
\* choice of three shares of four, and on sizes around its buffers' limits.
MCTypes == {"CRSSS", "AONT_RS", "OLD_CAONT_RS", "CAONT_RS"}
MCSmall(t) == [type |-> t, n |-> 4, m |-> 1, r |-> 2, word |-> 2, max |-> 8]
MCBig(t, w) == [type |-> t, n |-> 4, m |-> 1, r |-> 2, word |-> w, max |-> 65536]
MCSecrets == {<<200>>, <<0, 0, 0>>, <<37, 74, 111, 148>>, <<1, 2, 3, 4, 5>>,
              <<200, 144, 88, 32, 232, 176, 120>>}
MCIds == {s \in [1 .. 3 -> 0 .. 3] : IsInjective(s)}
MCSecretJobs ==
  [codec : {MCSmall(t) : t \in MCTypes}, secret : MCSecrets, ids : MCIds, key : {<<5, 77>>}]
MCSizes == (1 .. 4096) \cup (15360 .. 16384) \cup (61441 .. 65536)
MCSizeJobs ==
  [codec : {MCBig(t, w) : t \in {"CRSSS", "CAONT_RS"}, w \in {16, 32}}, size : MCSizes]
MCIdleJob == [codec |-> MCBig("CAONT_RS", 32), size |-> 1]

\* Every file of up to seven bytes, for the chunker.
MCFiles == UNION {[1 .. l -> 0 .. 2] : l \in 0 .. 7}

\* Two of the three table files share a bucket of the smallest hash table.
MCHashOf == <<5, 2, 7>>

MCUserKeys == {<<1>>, <<1, 3>>, <<2, 3>>, <<3>>}

VARIABLE unit

unitsVars == <<unit, historyVars, codecVars, chunkVars, skipVars, logVars, cacheVars, tableVars>>

Units == {"index", "codec", "chunker", "skiplist", "log", "cache", "table"}

\* The components with several initial states have one when they do not move.
UnitsInit ==
  /\ unit \in Units
  /\ HistoryInit /\ SkipListInit /\ LogInit /\ TableCacheInit
  /\ IF unit = "codec" THEN CodecInit
     ELSE job = MCIdleJob /\ package = <<>> /\ restored = <<>>
  /\ file \in IF unit = "chunker" THEN Files ELSE {<<>>}
  /\ chunkerType \in IF unit = "chunker" THEN ChunkTypes ELSE {"VAR_SIZE"}
  /\ ChunkInit
  /\ IF unit = "table" THEN TableInit
     ELSE /\ tkeys = <<>> /\ ttable = <<>> /\ tpos = 0
          /\ titer = [index |-> NoData, data |-> NoData]

UnitsNext ==
  /\ UNCHANGED unit
  /\ \/ /\ unit = "index" /\ HistoryNext
        /\ UNCHANGED <<codecVars, chunkVars, skipVars, logVars, cacheVars, tableVars>>
     \/ /\ unit = "codec" /\ CodecNext
        /\ UNCHANGED <<historyVars, chunkVars, skipVars, logVars, cacheVars, tableVars>>
     \/ /\ unit = "chunker" /\ ChunkNext
        /\ UNCHANGED <<historyVars, codecVars, skipVars, logVars, cacheVars, tableVars>>
     \/ /\ unit = "skiplist" /\ SkipListNext
        /\ UNCHANGED <<historyVars, codecVars, chunkVars, logVars, cacheVars, tableVars>>
     \/ /\ unit = "log" /\ LogNext
        /\ UNCHANGED <<historyVars, codecVars, chunkVars, skipVars, cacheVars, tableVars>>
     \/ /\ unit = "cache" /\ TableCacheNext
        /\ UNCHANGED <<historyVars, codecVars, chunkVars, skipVars, logVars, tableVars>>
     \/ /\ unit = "table" /\ TableNext
        /\ UNCHANGED <<historyVars, codecVars, chunkVars, skipVars, logVars, cacheVars>>

UnitsSpec == UnitsInit /\ [][UnitsNext]_unitsVars
==============================================================================
