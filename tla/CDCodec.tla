------------------------------- MODULE CDCodec -------------------------------
(***************************************************************************)
(* The convergent-dispersal codec of the client (coding/CDCodec.cc): the   *)
(* four schemes that turn a secret into n shares, any k = n - m of which   *)
(* give it back, over bytes and over the field GF(256), and the sizes of   *)
(* the buffers they work in.                                               *)
(*                                                                         *)
(* A codec is a record: its scheme, n, m, r, the bytes of a secret word    *)
(* and the largest secret.  The hash, the cipher and the field are         *)
(* libraries: the field is the real one, the hash and the cipher are small *)
(* functions with the shape of the real ones (a word from any data; a      *)
(* chained, length-preserving permutation for every key).                  *)
(***************************************************************************)
EXTENDS Integers, Sequences, SequencesExt, FiniteSetsExt, Bitwise

CONSTANTS
    SecretJobs,  \* jobs to encode and decode: [codec, secret, ids, key]
    SizeJobs     \* jobs for the sizes only:   [codec, size]

VARIABLES
    job,         \* the job of this behaviour
    package,     \* the n shares of the secret, or <<>> before encoding
    restored     \* what decoding returned, or <<>> before decoding

codecVars == <<job, package, restored>>

-----------------------------------------------------------------------------
(* The field GF(256) of gf_init_easy(&gfObj_, 8).                           *)

Double(a) == IF a < 128 THEN 2 * a ELSE (2 * a - 256) ^^ 29

RECURSIVE multiply(_, _)
multiply(a, b) ==
    IF a = 0 \/ b = 0 THEN 0
    ELSE IF b = 1 THEN a
    ELSE (IF b % 2 = 1 THEN a ELSE 0) ^^ multiply(Double(a), b \div 2)

(* The inverse of b is its power 254.                                       *)
RECURSIVE Power(_, _)
Power(b, e) ==
    IF e = 0 THEN 1
    ELSE multiply(IF e % 2 = 1 THEN b ELSE 1, Power(multiply(b, b), e \div 2))

divide(a, b) == multiply(a, Power(b, 254))

(* A sequence from a function on 1 .. n, as a value and not as a rule.      *)
Seq1(f) == f \o <<>>

XorRegion(s, t) == Seq1([i \in DOMAIN s |-> s[i] ^^ t[i]])

MultiplyRegion(s, coef) == Seq1([i \in DOMAIN s |-> multiply(coef, s[i])])

(* SHA-256 or MD5: one word from any data.                                  *)
generateHash(c, data) ==
    Seq1([i \in 1 .. c.word |->
             FoldLeft(LAMBDA h, b : (31 * h + b + 1) % 256, 17 * i, data)])

(* AES in CBC mode, constant IV, no padding: chained, same length.          *)
encryptWithKey(c, data, key) ==
    LET Next(done, i) ==
            Append(done, (data[i] + 7 * key[1 + (i % c.word)]
                          + 3 * (IF i = 1 THEN 0 ELSE done[i - 1])) % 256)
    IN  FoldLeft(Next, <<>>, [i \in DOMAIN data |-> i])

-----------------------------------------------------------------------------
(* Parameters, sizes and the distribution matrix.                           *)

K(c) == c.n - c.m

IsCrsss(c) == c.type = "CRSSS"

ValidCodec(c) ==
    /\ c.n > 0 /\ c.m > 0 /\ c.m < c.n /\ K(c) > 1
    /\ IF IsCrsss(c) THEN c.r > 0 /\ c.r < K(c) ELSE c.r = K(c) - 1

secretWordsPerGroup(c) == K(c) - c.r

bytesPerGroup(c) == c.word * secretWordsPerGroup(c)

alignedSecretBufferSize(c) ==
    c.max + (IF IsCrsss(c) THEN bytesPerGroup(c) ELSE c.word * K(c))

erasureCodingDataSize(c) ==
    IF IsCrsss(c)
    THEN c.word * (alignedSecretBufferSize(c) \div bytesPerGroup(c)) * K(c)
    ELSE c.word * ((alignedSecretBufferSize(c) \div c.word + 1) \div K(c)) * K(c)

Cauchy(c, i, j) ==
    IF IsCrsss(c) THEN divide(1, i ^^ (c.n + j))
    ELSE divide(1, (i - K(c)) ^^ (c.m + j))

(* Row i + 1 is the row of the code's share i.                              *)
distributionMatrix(c) ==
    Seq1([i \in 1 .. c.n |-> Seq1([j \in 1 .. K(c) |->
        IF IsCrsss(c) \/ i > K(c) THEN Cauchy(c, i - 1, j - 1)
        ELSE IF i = j THEN 1 ELSE 0])])

(* Variant: the package always grows by a group, as if nothing were aligned. *)
alignPackageAlways(c, size) ==
    c.word * K(c) * ((size + c.word) \div (c.word * K(c)) + 2) - c.word

alignPackage(c, size) ==
    IF (size + c.word) % (c.word * K(c)) = 0 THEN size
    ELSE c.word * K(c) * ((size + c.word) \div (c.word * K(c)) + 1) - c.word

alignGroups(c, size) ==
    IF size % bytesPerGroup(c) = 0 THEN size
    ELSE bytesPerGroup(c) * (size \div bytesPerGroup(c) + 1)

alignedSecretSize(c, size) ==
    IF IsCrsss(c) THEN alignGroups(c, size) ELSE alignPackage(c, size)

shareSize(c, size) ==
    IF IsCrsss(c) THEN c.word * (alignGroups(c, size) \div bytesPerGroup(c))
    ELSE c.word * ((alignPackage(c, size) \div c.word + 1) \div K(c))

(* What a decoder takes the aligned size to be, from a share's size.        *)
alignedFromShare(c, share) ==
    IF IsCrsss(c) THEN bytesPerGroup(c) * (share \div c.word)
    ELSE share * K(c) - c.word

aligned(c, secret) ==
    secret \o [i \in 1 .. alignedSecretSize(c, Len(secret)) - Len(secret) |-> 0]

-----------------------------------------------------------------------------
(* Erasure coding: n shares from k data blocks, and back.                   *)

Block(data, size, j) == SubSeq(data, j * size + 1, (j + 1) * size)

Word(c, data, i) == Block(data, c.word, i)

(* The XOR over j of row[j] times the j-th block.                           *)
Combine(c, row, data, size) ==
    FoldLeft(LAMBDA acc, j :
                XorRegion(acc, MultiplyRegion(Block(data, size, j - 1), row[j])),
             [x \in 1 .. size |-> 0], [j \in 1 .. K(c) |-> j])

Disperse(c, data, size) ==
    LET rows == distributionMatrix(c)
    IN  Seq1([i \in 1 .. c.n |-> Combine(c, rows[i], data, size)])

(* Gauss elimination on [square, inverse]; <<>> when it is not invertible.  *)
AddRow(mat, from, to, factor) ==
    [mat EXCEPT ![to] = XorRegion(@, MultiplyRegion(mat[from], factor))]

SwapRows(mat, i, j) == [mat EXCEPT ![i] = mat[j], ![j] = mat[i]]

(* Variant: the row with a zero pivot is not swapped.                        *)
pivotNoSwap(c, s, i) ==
    IF s = <<>> \/ s.sq[i][i] = 0 THEN <<>> ELSE s

pivot(c, s, i) ==
    LET rows == {j \in i .. K(c) : s.sq[j][i] /= 0}
    IN  IF s = <<>> THEN <<>>
        ELSE IF rows = {} THEN <<>>
        ELSE [sq  |-> SwapRows(s.sq, i, Min(rows)),
              inv |-> SwapRows(s.inv, i, Min(rows))]

normalise(s, i) ==
    IF s = <<>> THEN <<>>
    ELSE LET f == divide(1, s.sq[i][i])
         IN  [sq  |-> [s.sq  EXCEPT ![i] = MultiplyRegion(@, f)],
              inv |-> [s.inv EXCEPT ![i] = MultiplyRegion(@, f)]]

eliminate(c, s, i) ==
    IF s = <<>> THEN <<>>
    ELSE LET Below(t, j) == [sq  |-> AddRow(t.sq, i, j, t.sq[j][i]),
                             inv |-> AddRow(t.inv, i, j, t.sq[j][i])]
         IN  FoldLeft(Below, s, [x \in 1 .. K(c) - i |-> i + x])

backSubstitute(c, s, i) ==
    IF s = <<>> THEN <<>>
    ELSE LET Above(t, j) == [sq  |-> [t.sq EXCEPT ![j][i] = 0],
                             inv |-> AddRow(t.inv, i, j, t.sq[j][i])]
         IN  FoldLeft(Above, s, [x \in 1 .. i - 1 |-> x])

squareMatrixInverting(c, square) ==
    LET k == K(c)
        identity == [i \in 1 .. k |->
                        Seq1([j \in 1 .. k |-> IF i = j THEN 1 ELSE 0])]
        Down(s, i) == eliminate(c, normalise(pivot(c, s, i), i), i)
        triangle == FoldLeft(Down, [sq |-> square, inv |-> identity],
                             [x \in 1 .. k |-> x])
    IN  FoldLeft(LAMBDA s, i : backSubstitute(c, s, i), triangle,
                 [x \in 1 .. k |-> k + 1 - x])

(* The k blocks of the data from k shares; <<>> when the rows are singular. *)
Gather(c, shares, ids) ==
    LET rows == distributionMatrix(c)
        square == Seq1([i \in 1 .. K(c) |-> rows[ids[i] + 1]])
        solved == squareMatrixInverting(c, square)
        size == Len(shares[1])
        data == FlattenSeq(shares)
    IN  IF solved = <<>> THEN <<>>
        ELSE FlattenSeq([i \in 1 .. K(c) |->
                            Combine(c, solved.inv[i], data, size)])

-----------------------------------------------------------------------------
(* The four schemes: the data blocks of a secret, and the secret in them.   *)

(* The index i, least significant byte first, in a secret word.             *)
wordForIndex(c, i) ==
    [x \in 1 .. c.word |-> IF x <= 4 THEN (i \div 256 ^ (x - 1)) % 256 ELSE 0]

(* Word by word, the encryption of the word's index.                        *)
IndexPad(c, key, size) ==
    FlattenSeq([i \in 1 .. size \div c.word |->
                   encryptWithKey(c, wordForIndex(c, i - 1), key)])

(* The encryption of the constant bytes 0, 1, ..., 255, 0, 1, ...           *)
ConstantPad(c, key, size) ==
    encryptWithKey(c, [i \in 1 .. size |-> (i - 1) % 256], key)

crsssHashes(c, group) ==
    [j \in 1 .. c.r |-> generateHash(c, Append(group, j - 1))]

crsssEncoding(c, secret) ==
    LET data == aligned(c, secret)
        groups == Len(data) \div bytesPerGroup(c)
        group(i) == Block(data, bytesPerGroup(c), i)
        column(i) == [j \in 1 .. secretWordsPerGroup(c) |->
                         Word(c, group(i), j - 1)] \o crsssHashes(c, group(i))
    IN  FlattenSeq([j \in 1 .. K(c) |->
            FlattenSeq([i \in 1 .. groups |-> column(i - 1)[j]])])

crsssDecoding(c, data, size) ==
    LET share == Len(data) \div K(c)
        word(j, i) == Word(c, Block(data, share, j), i)
        group(i) == FlattenSeq([j \in 1 .. secretWordsPerGroup(c) |->
                                   word(j - 1, i)])
        intact(i) == \A j \in 1 .. c.r :
            word(secretWordsPerGroup(c) + j - 1, i) = crsssHashes(c, group(i))[j]
        groups == share \div c.word
    IN  IF \A i \in 0 .. groups - 1 : intact(i)
        THEN SubSeq(FlattenSeq([i \in 1 .. groups |-> group(i - 1)]), 1, size)
        ELSE <<>>

(* The padded data, then the key hidden under the hash of the padded data.  *)
AontPackage(c, data, pad, key) ==
    LET main == XorRegion(data, pad)
    IN  main \o XorRegion(key, generateHash(c, main))

KeyOf(c, data) ==
    LET n == Len(data) - c.word
    IN  XorRegion(SubSeq(data, n + 1, Len(data)),
                  generateHash(c, SubSeq(data, 1, n)))

aontRSEncoding(c, secret, key) ==
    LET data == aligned(c, secret)
    IN  AontPackage(c, data, IndexPad(c, key, Len(data)), key)

aontRSDecoding(c, data, size) ==
    LET main == SubSeq(data, 1, Len(data) - c.word)
    IN  SubSeq(XorRegion(main, IndexPad(c, KeyOf(c, data), Len(main))), 1, size)

caontRSOldEncoding(c, secret) ==
    aontRSEncoding(c, secret, generateHash(c, aligned(c, secret)))

caontRSOldDecoding(c, data, size) ==
    LET whole == aontRSDecoding(c, data, Len(data) - c.word)
    IN  IF generateHash(c, whole) = KeyOf(c, data) THEN SubSeq(whole, 1, size)
        ELSE <<>>

caontRSEncoding(c, secret) ==
    LET data == aligned(c, secret)
        key == generateHash(c, data)
    IN  AontPackage(c, data, ConstantPad(c, key, Len(data)), key)

caontRSDecoding(c, data, size) ==
    LET main == SubSeq(data, 1, Len(data) - c.word)
        key == KeyOf(c, data)
        whole == XorRegion(main, ConstantPad(c, key, Len(main)))
    IN  IF generateHash(c, whole) = key THEN SubSeq(whole, 1, size) ELSE <<>>

-----------------------------------------------------------------------------
(* encoding and decoding of a job.                                          *)

DataBlocks(c, secret, key) ==
    CASE c.type = "CRSSS" -> crsssEncoding(c, secret)
      [] c.type = "AONT_RS" -> aontRSEncoding(c, secret, key)
      [] c.type = "OLD_CAONT_RS" -> caontRSOldEncoding(c, secret)
      [] c.type = "CAONT_RS" -> caontRSEncoding(c, secret)

SecretFrom(c, data, size) ==
    CASE c.type = "CRSSS" -> crsssDecoding(c, data, size)
      [] c.type = "AONT_RS" -> aontRSDecoding(c, data, size)
      [] c.type = "OLD_CAONT_RS" -> caontRSOldDecoding(c, data, size)
      [] c.type = "CAONT_RS" -> caontRSDecoding(c, data, size)

CodecInit ==
    /\ job \in SecretJobs \cup SizeJobs
    /\ ValidCodec(job.codec)
    /\ package = <<>>
    /\ restored = <<>>

encoding ==
    /\ job \in SecretJobs
    /\ package = <<>>
    /\ package' = Disperse(job.codec,
                      DataBlocks(job.codec, job.secret, job.key),
                      shareSize(job.codec, Len(job.secret)))
    /\ UNCHANGED <<job, restored>>

(* The decoder's checks, then the k shares in the order they came.          *)
DecodeChecks(c, share, size) ==
    /\ share % c.word = 0
    /\ erasureCodingDataSize(c) >= share * K(c)
    /\ alignedSecretBufferSize(c) >= alignedFromShare(c, share)
    /\ size <= alignedFromShare(c, share)

decoding ==
    /\ package /= <<>> /\ restored = <<>>
    /\ LET c == job.codec
           size == Len(job.secret)
           got == Seq1([i \in 1 .. K(c) |-> package[job.ids[i] + 1]])
           data == Gather(c, got, job.ids)
       IN  restored' = IF DecodeChecks(c, Len(got[1]), size) /\ data /= <<>>
                       THEN [ok |-> TRUE, secret |-> SecretFrom(c, data, size)]
                       ELSE [ok |-> FALSE, secret |-> <<>>]
    /\ UNCHANGED <<job, package>>

CodecNext == encoding \/ decoding

-----------------------------------------------------------------------------
(* The buffers of encoder.hh and uploader.hh that hold what the codec made. *)
SECRET_SIZE == 16 * 1024
SHARE_BUFFER_SIZE == 4 * 16 * 1024
RING_BUFFER_DATA_SIZE == 16 * 1024
NAME_FACTOR == 32

(* What a job asks of the sizes.                                            *)
Asked == IF job \in SizeJobs THEN job.size ELSE Len(job.secret)

(* Any k of the n shares of a secret, in any order, give the secret back,   *)
(* in each of the four schemes of CDCodec::encoding and CDCodec::decoding.  *)
AnyKRestore ==
    restored /= <<>> => restored.ok /\ restored.secret = job.secret

(* A secret of any size up to MAX_SECRET_SIZE passes the encoder's one size *)
(* check, the data blocks it writes end inside erasureCodingData_ (the      *)
(* AONT encoders do not check that), and the size the decoder works out     *)
(* from the share is the size the encoder aligned to.                       *)
(* With a production codec, the n shares of a chunk fit the encoder's share *)
(* buffer and each fits a slot of the uploader's ring; and the n shares of  *)
(* a path name fit the encoder's tmp[fullNameSize * 32] exactly when the    *)
(* name, with its final zero, has at least n bytes.                         *)
BuffersHold ==
    LET c == job.codec
        share == shareSize(c, Asked)
    IN  /\ Asked <= c.max =>
               /\ alignedSecretSize(c, Asked) <= alignedSecretBufferSize(c)
               /\ share * K(c) <= erasureCodingDataSize(c)
               /\ alignedFromShare(c, share) = alignedSecretSize(c, Asked)
               /\ DecodeChecks(c, share, Asked)
        /\ job \in SizeJobs /\ c.type = "CAONT_RS" =>
               /\ Asked <= SECRET_SIZE =>
                      /\ c.n * share <= SHARE_BUFFER_SIZE
                      /\ share <= RING_BUFFER_DATA_SIZE
               /\ c.word = 32 => (c.n * share <= Asked * NAME_FACTOR <=> Asked >= c.n)
=============================================================================
