------------------------------- MODULE Chunker -------------------------------
(***************************************************************************)
(* The client cuts a file into secrets: the upload loop of main.cc reads   *)
(* the file buffer by buffer, chunker.cc finds the chunk ends of a buffer  *)
(* with a rolling fingerprint, and every chunk is handed to the encoder.   *)
(* Widths are parameters: the code has base 257, modulus 2^23 and 32-bit   *)
(* words; an instance keeps their order (byte < base, modulus divides the  *)
(* word) and lets the word overflow.                                       *)
(***************************************************************************)
EXTENDS Integers, Sequences, SequencesExt

CONSTANTS
    Files,         \* the files to upload, sequences of bytes
    polyBase,      \* larger than every byte
    polyMOD,       \* a power of two
    WordMod,       \* 2^32 in the code: uint32_t wraps here
    minChunkSize, avgChunkSize, maxChunkSize, slidingWinSize,
    bufferSize     \* bytes the upload loop reads at a time

ASSUME ChunkerAssumption ==
    /\ 0 < slidingWinSize /\ slidingWinSize <= minChunkSize
    /\ minChunkSize < avgChunkSize /\ avgChunkSize < maxChunkSize
    /\ WordMod % polyMOD = 0 /\ polyMOD % avgChunkSize = 0
    /\ \A f \in Files : \A i \in DOMAIN f : f[i] \in 0 .. polyBase - 1

VARIABLES
    chunkerType,       \* "FIX_SIZE" or "VAR_SIZE"
    file,              \* the file
    total,             \* bytes of it read before the current buffer
    buffer,            \* the current buffer
    chunkEnd,          \* chunkEndIndex: index, from 0, of the chunk's end
    winFp,             \* fingerprint of the window ending at chunkEnd, or -1
    chunkEndIndexList, \* chunk ends found in this buffer
    chunkPc,           \* where the loops are
    secrets            \* what the encoder was given: [id, data, end]

chunkVars == <<chunkerType, file, total, buffer, chunkEnd, winFp,
               chunkEndIndexList, chunkPc, secrets>>

ChunkTypes == {"FIX_SIZE", "VAR_SIZE"}

(* buffer[i] of the code, whose arrays start at 0.                          *)
At(i) == buffer[i + 1]

(* powerLUT_: the powers of the base, modulo polyMOD.                       *)
powerLUT[i \in 0 .. slidingWinSize - 1] ==
    IF i = 0 THEN 1 ELSE (powerLUT[i - 1] * polyBase) % polyMOD

removeLUT(b) ==
    LET r == (b * powerLUT[slidingWinSize - 1]) % polyMOD
    IN  IF r /= 0 THEN polyMOD - r ELSE r

(* The mask keeps the bits below the average size, a power of two.          *)
IsAnchor(fp) == fp % avgChunkSize = 0

LastEnd == IF chunkEndIndexList = <<>> THEN -1 ELSE Last(chunkEndIndexList)

(* Variant: the limit is not moved on when a chunk has been recorded.        *)
LimitOfFirst ==
    IF maxChunkSize > Len(buffer) THEN Len(buffer) - 1 ELSE maxChunkSize - 1

chunkEndIndexLimit ==
    IF LastEnd + maxChunkSize >= Len(buffer) THEN Len(buffer) - 1
    ELSE LastEnd + maxChunkSize

ChunkInit ==
    /\ chunkerType \in ChunkTypes
    /\ file \in Files
    /\ total = 0 /\ buffer = <<>>
    /\ chunkEnd = -1 /\ winFp = -1
    /\ chunkEndIndexList = <<>>
    /\ chunkPc = "read"
    /\ secrets = <<>>

(* The head of the upload loop: fread, and the start of chunking.           *)
readBuffer ==
    /\ chunkPc = "read"
    /\ IF total < Len(file)
       THEN /\ buffer' = SubSeq(file, total + 1,
                   IF total + bufferSize < Len(file) THEN total + bufferSize
                   ELSE Len(file))
            /\ chunkEnd' = (IF chunkerType = "FIX_SIZE" THEN avgChunkSize
                            ELSE minChunkSize) - 1
            /\ chunkPc' = "chunk"
       ELSE /\ chunkPc' = "done"
            /\ UNCHANGED <<buffer, chunkEnd>>
    /\ chunkEndIndexList' = <<>>
    /\ winFp' = -1
    /\ UNCHANGED <<chunkerType, file, total, secrets>>

(* fixSizeChunking: one round of its loop.                                  *)
fixSizeChunk ==
    /\ chunkPc = "chunk" /\ chunkerType = "FIX_SIZE"
    /\ IF chunkEnd < Len(buffer)
       THEN /\ chunkEndIndexList' = Append(chunkEndIndexList, chunkEnd)
            /\ chunkEnd' = chunkEnd + avgChunkSize
            /\ UNCHANGED chunkPc
       ELSE /\ chunkPc' = "tail"
            /\ UNCHANGED <<chunkEndIndexList, chunkEnd>>
    /\ UNCHANGED <<chunkerType, file, total, buffer, winFp, secrets>>

(* varSizeChunking: the fingerprint of a chunk's first window.              *)
RECURSIVE SumWindow(_, _)
SumWindow(i, fp) ==
    IF i = slidingWinSize THEN fp % polyMOD
    ELSE SumWindow(i + 1,
             (fp + ((At(chunkEnd - i) * powerLUT[i]) % polyMOD)) % WordMod)

firstWindow ==
    /\ chunkPc = "chunk" /\ chunkerType = "VAR_SIZE"
    /\ IF chunkEnd < Len(buffer)
       THEN winFp' = SumWindow(0, 0) /\ chunkPc' = "window"
       ELSE winFp' = -1 /\ chunkPc' = "tail"
    /\ UNCHANGED <<chunkerType, file, total, buffer, chunkEnd,
                   chunkEndIndexList, secrets>>

(* The window moves one byte on, with the two tables.                       *)
rollWindow ==
    /\ chunkPc = "window"
    /\ ~IsAnchor(winFp) /\ chunkEnd < chunkEndIndexLimit
    /\ chunkEnd' = chunkEnd + 1
    /\ winFp' = (((((winFp + removeLUT(At(chunkEnd + 1 - slidingWinSize)))
                      * polyBase) % WordMod) + At(chunkEnd + 1)) % WordMod)
                  % polyMOD
    /\ UNCHANGED <<chunkerType, file, total, buffer, chunkEndIndexList,
                   chunkPc, secrets>>

recordChunk ==
    /\ chunkPc = "window"
    /\ IsAnchor(winFp) \/ chunkEnd >= chunkEndIndexLimit
    /\ chunkEndIndexList' = Append(chunkEndIndexList, chunkEnd)
    /\ chunkEnd' = chunkEnd + minChunkSize
    /\ winFp' = -1
    /\ chunkPc' = "chunk"
    /\ UNCHANGED <<chunkerType, file, total, buffer, secrets>>

(* Variant: a buffer cut exactly at its end gets one more, empty, chunk.     *)
tailChunkAlways ==
    /\ chunkPc = "tail"
    /\ chunkEndIndexList' = Append(chunkEndIndexList, Len(buffer) - 1)
    /\ chunkPc' = "add"
    /\ UNCHANGED <<chunkerType, file, total, buffer, chunkEnd, winFp, secrets>>

(* The tail of the buffer, after either loop.                               *)
tailChunk ==
    /\ chunkPc = "tail"
    /\ chunkEndIndexList' =
           IF chunkEndIndexList = <<>> \/ LastEnd /= Len(buffer) - 1
           THEN Append(chunkEndIndexList, Len(buffer) - 1)
           ELSE chunkEndIndexList
    /\ chunkPc' = "add"
    /\ UNCHANGED <<chunkerType, file, total, buffer, chunkEnd, winFp, secrets>>

(* The upload loop hands the chunks of the buffer to the encoder.           *)
Start(c) == IF c = 1 THEN 0 ELSE chunkEndIndexList[c - 1] + 1

SecretOf(c) ==
    [id |-> Len(secrets) + c - 1,
     data |-> SubSeq(buffer, Start(c) + 1, chunkEndIndexList[c] + 1),
     end |-> total + Len(buffer) = Len(file) /\ c = Len(chunkEndIndexList)]

addSecrets ==
    /\ chunkPc = "add"
    /\ secrets' = secrets \o [c \in DOMAIN chunkEndIndexList |-> SecretOf(c)]
    /\ total' = total + Len(buffer)
    /\ chunkPc' = "read"
    /\ UNCHANGED <<chunkerType, file, buffer, chunkEnd, winFp, chunkEndIndexList>>

ChunkNext == \/ readBuffer \/ fixSizeChunk \/ firstWindow \/ rollWindow
             \/ recordChunk \/ tailChunk \/ addSecrets

-----------------------------------------------------------------------------
(* The fingerprint of the window that ends at index e, by its definition.   *)
RECURSIVE Direct(_, _, _)
Direct(b, e, i) ==
    IF i = slidingWinSize THEN 0
    ELSE b[e + 1 - i] * polyBase ^ i + Direct(b, e, i + 1)

DirectFp(b, e) == Direct(b, e, 0) % polyMOD

(* Where a variable chunk ends is decided by the bytes since the last end:  *)
(* it is the first anchor at least minChunkSize in, or maxChunkSize in, or  *)
(* the end of the buffer; so equal content is cut into equal chunks.        *)
EndsAtFirstAnchor ==
    chunkerType = "VAR_SIZE" /\ chunkPc = "add" =>
        \A c \in DOMAIN chunkEndIndexList :
            LET e == chunkEndIndexList[c]
                long(x) == x + 1 - Start(c) >= minChunkSize
            IN  /\ \/ long(e) /\ IsAnchor(DirectFp(buffer, e))
                   \/ e + 1 - Start(c) = maxChunkSize
                   \/ e = Len(buffer) - 1
                /\ \A x \in Start(c) .. e - 1 :
                       long(x) => ~IsAnchor(DirectFp(buffer, x))

(* The secrets given to the encoder are the bytes of the file read so far,  *)
(* in order, none empty and none larger than a secret buffer (maxChunkSize  *)
(* is SECRET_SIZE), numbered from 0; the end flag is on the last secret of  *)
(* the whole file and on no other, so an empty file has none at all.        *)
SecretsTileFile ==
    /\ FlattenSeq([i \in DOMAIN secrets |-> secrets[i].data])
           = SubSeq(file, 1, total)
    /\ \A i \in DOMAIN secrets :
           /\ secrets[i].id = i - 1
           /\ Len(secrets[i].data) \in 1 .. maxChunkSize
           /\ secrets[i].end <=> total = Len(file) /\ i = Len(secrets)
=============================================================================
