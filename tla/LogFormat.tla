----------------------------- MODULE LogFormat -----------------------------
(***************************************************************************)
(* The format of leveldb's logs (db/log_writer.cc, db/log_reader.cc), used *)
(* for the write-ahead log of the index and for its manifest.  A record is *)
(* cut into fragments so that none crosses a block; the reader puts the    *)
(* fragments together again after the file lost its end in a crash or was  *)
(* damaged.                                                                *)
(*                                                                         *)
(* The file is a sequence of bytes.  A byte knows the fragment it is part  *)
(* of (its type and length), and which byte of which record it holds; a    *)
(* header byte holds byte 0.  A damaged byte is one that the checksum of   *)
(* its fragment does not cover any more as it is.                          *)
(*                                                                         *)
(*   logfile, block_offset_   the file and Writer's place in the block     *)
(*   added                    the records added: their sizes, and where in *)
(*                            the file they end                            *)
(*   damaged, intact          bytes changed on disk; the bytes a crash left *)
(*   lread                    Reader: its place in the file, buffer_,      *)
(*                            scratch, and the records it has returned     *)
(***************************************************************************)
EXTENDS Integers, Sequences, SequencesExt, FiniteSets

CONSTANTS kBlockSize, kHeaderSize,
          RecordSizes,   \* the lengths of the records that are added
          MaxRecords     \* bound: the records of one log

ASSUME LogAssumption ==
    /\ kHeaderSize \in Nat /\ kHeaderSize >= 3 /\ kBlockSize \in Nat /\ kBlockSize > kHeaderSize
    /\ RecordSizes \subseteq Nat /\ MaxRecords \in Nat

VARIABLES logfile, block_offset_, added, damaged, intact, logpc, lread

logVars == <<logfile, block_offset_, added, damaged, intact, logpc, lread>>

Zeroes(n) == [i \in 1 .. n |-> [type |-> "zero", length |-> 0, rec |-> 0, byte |-> 0]]

NotRead == [off |-> 0, buffer |-> <<>>, eof |-> FALSE, scratch |-> <<>>, inFragmented |-> FALSE,
            records |-> <<>>, reports |-> 0]

LogInit ==
    /\ logfile = <<>> /\ block_offset_ = 0 /\ added = <<>> /\ damaged = {} /\ intact = 0
    /\ logpc = "write" /\ lread = NotRead

-----------------------------------------------------------------------------
(* The type of a fragment of `part' bytes with `left' bytes of the record  *)
(* still to come.                                                          *)
FragmentType(begin, left, part) ==
    CASE begin /\ left = part   -> "full"
      [] begin /\ left /= part  -> "first"
      [] ~begin /\ left = part  -> "last"
      [] ~begin /\ left /= part -> "middle"

(* EmitPhysicalRecord: a header and the bytes of record r after byte       *)
(* `from'.                                                                 *)
EmitPhysicalRecord(t, r, from, n) ==
    [i \in 1 .. kHeaderSize + n |->
        [type |-> t, length |-> n, rec |-> r, byte |-> IF i <= kHeaderSize THEN 0 ELSE from + i - kHeaderSize]]

(* The zeroes that fill a block in which no header fits any more.          *)
Trailer(offset) == IF kBlockSize - offset < kHeaderSize THEN kBlockSize - offset ELSE 0

(* What AddRecord appends for record r from byte `from' on, as a function  *)
(* of the place in the block: the loop runs once for an empty record.      *)
Fragments[n \in Nat, offset \in 0 .. kBlockSize, r \in Nat, size \in Nat] ==
    LET fill  == Trailer(offset)
        start == IF fill > 0 \/ offset = kBlockSize THEN 0 ELSE offset
        avail == kBlockSize - start - kHeaderSize
        part  == IF n < avail THEN n ELSE avail
        bytes == Zeroes(fill) \o EmitPhysicalRecord(FragmentType(n = size, n, part), r, size - n, part)
    IN  IF part = n THEN bytes
        ELSE bytes \o Fragments[n - part, start + kHeaderSize + part, r, size]

(* Variant: the place in the block is forgotten with every record.         *)
AddRecordForgets(size) ==
    /\ logpc = "write" /\ Len(added) < MaxRecords
    /\ logfile' = logfile \o Fragments[size, 0, Len(added) + 1, size]
    /\ block_offset_' = 0
    /\ added' = Append(added, [size |-> size, end |-> Len(logfile')])
    /\ UNCHANGED <<damaged, intact, logpc, lread>>

(* Writer::AddRecord.                                                      *)
AddRecord(size) ==
    /\ logpc = "write" /\ Len(added) < MaxRecords
    /\ LET bytes == Fragments[size, block_offset_, Len(added) + 1, size]
       IN  /\ logfile' = logfile \o bytes
           /\ block_offset_' = 1 + ((block_offset_ + Len(bytes) - 1) % kBlockSize)
    /\ added' = Append(added, [size |-> size, end |-> Len(logfile')])
    /\ UNCHANGED <<damaged, intact, logpc, lread>>

(* The process or the machine stops.  The file keeps its first n bytes;    *)
(* when its size was written before its data, the others read as zeroes.   *)
(* leveldb reads the log when it is opened again.                          *)
crashLosesTail(n, zeroed) ==
    /\ logpc = "write" /\ n <= Len(logfile)
    /\ logfile' = SubSeq(logfile, 1, n) \o (IF zeroed THEN Zeroes(Len(logfile) - n) ELSE <<>>)
    /\ intact' = n
    /\ logpc' = "read"
    /\ UNCHANGED <<block_offset_, added, damaged, lread>>

(* The file is whole and one of its bytes has been changed.                *)
damage(i) ==
    /\ logpc = "write" /\ i \in 1 .. Len(logfile)
    /\ damaged' = {i}
    /\ intact' = Len(logfile)
    /\ logpc' = "read"
    /\ UNCHANGED <<logfile, block_offset_, added, lread>>

-----------------------------------------------------------------------------
(* ReportCorruption and ReportDrop: initial_offset_ is 0 for every caller. *)
Reported(c) == IF c THEN lread.reports + 1 ELSE lread.reports

DamagedAt(i) == lread.off - Len(lread.buffer) + i \in damaged

Short == Len(lread.buffer) < kHeaderSize

(* ReadPhysicalRecord: the last read was a full one, so what is left in    *)
(* the buffer is a trailer, and the next block is read.                    *)
readBlock ==
    /\ logpc = "read" /\ Short /\ ~lread.eof
    /\ LET to == IF lread.off + kBlockSize <= Len(logfile) THEN lread.off + kBlockSize ELSE Len(logfile)
       IN  lread' = [lread EXCEPT !.buffer = SubSeq(logfile, lread.off + 1, to), !.off = to,
                                  !.eof = to - lread.off < kBlockSize]
    /\ UNCHANGED <<logfile, block_offset_, added, damaged, intact, logpc>>

(* ReadPhysicalRecord returns kEof: a header that the file ends in, and a  *)
(* record without its last fragment, are reported and dropped.             *)
endOfLog ==
    /\ logpc = "read" /\ Short /\ lread.eof
    /\ logpc' = "done"
    /\ lread' = [lread EXCEPT !.buffer = <<>>, !.scratch = <<>>,
                              !.reports = Reported(lread.buffer /= <<>> \/ lread.inFragmented)]
    /\ UNCHANGED <<logfile, block_offset_, added, damaged, intact>>

(* What the checks on the bytes at the head of the buffer make of them: a  *)
(* fragment of some type, a zeroed one that is skipped without a report,   *)
(* or a bad one.  The length stands before the type, at the end of the     *)
(* header.  A changed length gives a bad length or a bad checksum, which   *)
(* have the same effect; a changed type may be the zero type.              *)
PhysicalRecord ==
    LET length == lread.buffer[kHeaderSize - 2].length
        type   == lread.buffer[kHeaderSize].type
        torn   == \E i \in 1 .. kHeaderSize + length : lread.buffer[i].type = "zero"
    IN  CASE kHeaderSize + length > Len(lread.buffer) -> {"bad"}
          [] type = "zero" /\ length = 0             -> {"skip"}
          [] DamagedAt(kHeaderSize) /\ length = 0    -> {"bad", "skip"}
          [] \E i \in 1 .. kHeaderSize + length : DamagedAt(i) -> {"bad"}
          [] torn                                    -> {"bad"}
          [] OTHER                                   -> {type}

(* Variant: a bad fragment does not end the record it is part of.          *)
badRecordGoesOn(type) ==
    /\ logpc = "read" /\ ~Short /\ type \in PhysicalRecord \cap {"bad", "skip"}
    /\ lread' = [lread EXCEPT !.buffer = <<>>, !.reports = Reported(type = "bad" \/ lread.inFragmented)]
    /\ UNCHANGED <<logfile, block_offset_, added, damaged, intact, logpc>>

(* kBadRecord: the rest of the block is dropped, and with it the record    *)
(* that is being put together.                                             *)
badRecord(type) ==
    /\ logpc = "read" /\ ~Short /\ type \in PhysicalRecord \cap {"bad", "skip"}
    /\ lread' = [lread EXCEPT !.buffer = <<>>, !.scratch = <<>>, !.inFragmented = FALSE,
                              !.reports = Reported(type = "bad" \/ lread.inFragmented)]
    /\ UNCHANGED <<logfile, block_offset_, added, damaged, intact, logpc>>

(* ReadRecord with a fragment: a full record or a last fragment that has   *)
(* its start is returned; a start replaces what was not finished; a middle *)
(* or last fragment without a start is reported and dropped.               *)
fragment(type) ==
    /\ logpc = "read" /\ ~Short /\ type \in PhysicalRecord \cap {"full", "first", "middle", "last"}
    /\ LET end   == kHeaderSize + lread.buffer[1].length
           bytes == [i \in 1 .. end - kHeaderSize |-> <<lread.buffer[kHeaderSize + i].rec, lread.buffer[kHeaderSize + i].byte>>]
           starts == type \in {"full", "first"}
           whole == IF starts THEN bytes ELSE lread.scratch \o bytes
           given == type = "full" \/ (type = "last" /\ lread.inFragmented)
       IN  lread' = [lread EXCEPT
                        !.buffer = SubSeq(lread.buffer, end + 1, Len(lread.buffer)),
                        !.records = IF given THEN Append(@, [rec |-> lread.buffer[1].rec, bytes |-> whole]) ELSE @,
                        !.inFragmented = IF given THEN FALSE ELSE starts \/ @,
                        !.scratch = IF given \/ ~(starts \/ lread.inFragmented) THEN <<>> ELSE whole,
                        !.reports = Reported(IF starts THEN lread.inFragmented /\ lread.scratch /= <<>>
                                                       ELSE ~lread.inFragmented)]
    /\ UNCHANGED <<logfile, block_offset_, added, damaged, intact, logpc>>

LogNext ==
    \/ \E size \in RecordSizes : AddRecord(size)
    \/ \E n \in 0 .. Len(logfile), zeroed \in BOOLEAN : crashLosesTail(n, zeroed)
    \/ \E i \in 1 .. Len(logfile) : damage(i)
    \/ readBlock
    \/ endOfLog
    \/ \E type \in {"bad", "skip"} : badRecord(type)
    \/ \E type \in {"full", "first", "middle", "last"} : fragment(type)

LogSpec == LogInit /\ [][LogNext]_logVars

-----------------------------------------------------------------------------
(* The bytes of the file that hold record r, and the blocks they are in.   *)
BytesOf(r) == {i \in 1 .. Len(logfile) : logfile[i].rec = r}
BlocksOf(I) == {(i - 1) \div kBlockSize : i \in I}

RecordsRead == [i \in 1 .. Len(lread.records) |-> lread.records[i].rec]

(* Whatever the crash or the damage was, every record ReadRecord returns   *)
(* is, byte for byte, one that AddRecord was given, and the records come   *)
(* in the order in which they were added and none twice: fragments of two  *)
(* records are never put together.  Damage in one block costs at most the  *)
(* records with a byte in that block: the reader finds the start of a      *)
(* record again in the next one.                                           *)
DamageStaysInBlock ==
    /\ \A i \in 1 .. Len(lread.records) :
          LET r == lread.records[i]
          IN  r.bytes = [j \in 1 .. added[r.rec].size |-> <<r.rec, j>>]
    /\ \A i \in 1 .. Len(lread.records) - 1 : RecordsRead[i] < RecordsRead[i + 1]
    /\ logpc = "done" /\ damaged /= {} =>
          \A r \in 1 .. Len(added) :
              BlocksOf(BytesOf(r)) \cap BlocksOf(damaged) = {} => r \in ToSet(RecordsRead)

(* After a crash, exactly the records that have kept all their bytes are   *)
(* returned: the reader stops before the first lost byte and loses no      *)
(* record below it.                                                        *)
CutKeepsPrefix ==
    logpc = "done" /\ damaged = {} =>
        LET kept == {r \in 1 .. Len(added) : added[r].end <= intact}
        IN  RecordsRead = [i \in 1 .. Cardinality(kept) |-> i]

=============================================================================
