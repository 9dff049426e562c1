---------------------------- MODULE Pipeline_proofs ----------------------------
(***************************************************************************)
(* Proofs about EncodePipeline and DecodePipeline, for every number of     *)
(* threads, size of the buffers and file: no ring buffer of the encoder is *)
(* overfull, collect hands the items on in the order in which main added   *)
(* them, and the restored file is the beginning of the original.           *)
(*                                                                         *)
(* The threads of either pipeline are given items in turn, and the results *)
(* are collected from them in turn, by two threads that go round           *)
(* independently of each other.  The invariant says that the items in the  *)
(* line of a thread (its output buffer, the item in its hands and its      *)
(* input buffer) are as far apart as there are threads, from the next item *)
(* that will be collected from it to the one before the next item that it  *)
(* will be given.                                                          *)
(***************************************************************************)
EXTENDS Integers, EncodePipeline, DecodePipeline, TLAPS

\* A step that names no prover is for Zenon, then for the SMT solver, with time to
\* spare.
USE ZenonT(30), SMTT(60)

------------------------------------------------------------------------------
(* Sequences.                                                               *)

\* The empty sequence is one of any items, and the only one without any.
LEMMA SeqNone ==
  ASSUME NEW T
  PROVE  /\ <<>> \in Seq(T) /\ Len(<<>>) = 0
         /\ \A s \in Seq(T) : s # <<>> => Len(s) \in Nat \ {0}
OBVIOUS

\* The items of two sequences, one after the other.
LEMMA SeqConcat ==
  ASSUME NEW T, NEW s \in Seq(T), NEW t \in Seq(T)
  PROVE  /\ s \o t \in Seq(T)
         /\ Len(s \o t) = Len(s) + Len(t)
         /\ \A i \in 1 .. Len(s) + Len(t) :
              (s \o t)[i] = IF i <= Len(s) THEN s[i] ELSE t[i - Len(s)]
OBVIOUS

\* No items before or after a sequence change nothing.
LEMMA SeqConcatNone ==
  ASSUME NEW T, NEW s \in Seq(T)
  PROVE  <<>> \o s = s /\ s \o <<>> = s
OBVIOUS

\* The first item of a sequence and the ones after it.
LEMMA SeqRest ==
  ASSUME NEW T, NEW s \in Seq(T), s # <<>>
  PROVE  /\ Head(s) \in T /\ Tail(s) \in Seq(T)
         /\ Len(Tail(s)) = Len(s) - 1
         /\ \A i \in 1 .. Len(Tail(s)) : Tail(s)[i] = s[i + 1]
OBVIOUS

\* A sequence with one item more.
LEMMA SeqAppend ==
  ASSUME NEW T, NEW s \in Seq(T), NEW x \in T
  PROVE  /\ Append(s, x) \in Seq(T) /\ Append(s, x) # <<>>
         /\ Len(Append(s, x)) = Len(s) + 1
         /\ Append(s, x)[Len(s) + 1] = x
         /\ \A i \in 1 .. Len(s) : Append(s, x)[i] = s[i]
OBVIOUS

\* An item more is a sequence of one item after it.
LEMMA SeqAppendConcat ==
  ASSUME NEW T, NEW s \in Seq(T), NEW x \in T
  PROVE  Append(s, x) = s \o <<x>>
OBVIOUS

\* Three sequences one after the other.
LEMMA SeqConcatAgain ==
  ASSUME NEW T, NEW s \in Seq(T), NEW t \in Seq(T), NEW u \in Seq(T)
  PROVE  (s \o t) \o u = s \o (t \o u)
OBVIOUS

--------------------------------------------------------------------------------
(* Items dealt out in turn.  Threads are numbered from 0; step is their    *)
(* number.                                                                 *)

\* The items in q are step apart, the first is a, and b comes next.
Chain(step, q, a, b) ==
  IF q = <<>> THEN a = b
  ELSE /\ q[1] = a
       /\ q[Len(q)] + step = b
       /\ \A j \in 1 .. Len(q) - 1 : q[j + 1] = q[j] + step

\* The first item after the first n that belongs to thread w, when item n + 1
\* belongs to thread at.
NextFor(step, w, n, at) == IF w >= at THEN n + 1 + (w - at) ELSE n + 1 + (w - at) + step

--------------------------------------------------------------------------------
\* Going round: after the last thread comes the first.
LEMMA WrapsAround ==
  ASSUME NEW step \in Nat, NEW i \in 0 .. step - 1
  PROVE  (i + 1) % step = IF i + 1 = step THEN 0 ELSE i + 1
<1>1. CASE i + 1 = step
  BY <1>1
<1>2. CASE i + 1 < step
  BY <1>2
<1> QED
  BY <1>1, <1>2

LEMMA DivMod ==
  ASSUME NEW step \in Nat, step > 0, NEW n \in Nat
  PROVE  /\ n \div step \in Nat
         /\ n % step \in 0 .. step - 1
         /\ n = (n \div step) * step + (n % step)
<1>1. n \div step \in Nat /\ n % step \in 0 .. step - 1
  OBVIOUS
<1>2. n = (n \div step) * step + (n % step)
  OBVIOUS
<1> QED
  BY <1>1, <1>2

LEMMA RemainderUnique ==
  ASSUME NEW step \in Nat, step > 0, NEW q \in Nat, NEW r \in 0 .. step - 1, NEW n \in Nat,
         n = q * step + r
  PROVE  n % step = r
OBVIOUS

LEMMA ModOfNext ==
  ASSUME NEW step \in Nat, step > 0, NEW n \in Nat
  PROVE  (n + 1) % step = IF (n % step) + 1 = step THEN 0 ELSE (n % step) + 1
<1> DEFINE q == n \div step
           r == n % step
<1>1. q \in Nat /\ r \in 0 .. step - 1 /\ n = q * step + r
  BY DivMod
<1> HIDE DEF q, r
<1>2. q * step \in Nat /\ (q + 1) * step = q * step + step
  BY <1>1
<1>3. CASE r + 1 = step
  <2>1. n + 1 = (q + 1) * step + 0 /\ 0 \in 0 .. step - 1 /\ q + 1 \in Nat
    BY <1>1, <1>2, <1>3
  <2>2. n + 1 \in Nat
    OBVIOUS
  <2>3. (n + 1) % step = 0
    BY <2>1, <2>2, RemainderUnique, SMTT(60)
  <2> QED
    BY <1>3, <2>3 DEF r
<1>4. CASE r + 1 # step
  <2>1. n + 1 = q * step + (r + 1) /\ r + 1 \in 0 .. step - 1
    BY <1>1, <1>2, <1>4
  <2>2. n + 1 \in Nat
    OBVIOUS
  <2>3. (n + 1) % step = r + 1
    BY <1>1, <2>1, <2>2, RemainderUnique, SMTT(60)
  <2> QED
    BY <1>4, <2>3 DEF r
<1> QED
  BY <1>3, <1>4 DEF r

LEMMA ChainAppend ==
  ASSUME NEW step \in Nat, NEW q \in Seq(Nat), NEW a \in Nat, NEW b \in Nat, Chain(step, q, a, b)
  PROVE  Chain(step, Append(q, b), a, b + step)
<1> DEFINE r == Append(q, b)
<1>1. /\ r # <<>> /\ Len(r) = Len(q) + 1 /\ r[Len(r)] = b
      /\ \A j \in 1 .. Len(q) : r[j] = q[j]
  BY SeqAppend, SMTT(60)
<1>2. CASE q = <<>>
  BY <1>1, <1>2, SMTT(60) DEF Chain
<1>3. CASE q # <<>>
  <2>1. Len(q) \in Nat \ {0}
    BY <1>3, SeqNone
  <2>2. r[1] = a
    BY <1>1, <1>3, <2>1, SMTT(60) DEF Chain
  <2>3. \A j \in 1 .. Len(r) - 1 : r[j + 1] = r[j] + step
    BY <1>1, <1>3, <2>1, SMTT(60) DEF Chain
  <2> HIDE DEF r
  <2>4. Chain(step, r, a, b + step)
    BY <1>1, <2>2, <2>3 DEF Chain
  <2> QED
    BY <2>4 DEF r
<1> QED
  BY <1>2, <1>3

LEMMA ChainTail ==
  ASSUME NEW step \in Nat, NEW q \in Seq(Nat), NEW a \in Nat, NEW b \in Nat, Chain(step, q, a, b), q # <<>>
  PROVE  Head(q) = a /\ Chain(step, Tail(q), a + step, b)
<1> DEFINE r == Tail(q)
<1>1. /\ Head(q) = q[1] /\ r \in Seq(Nat) /\ Len(r) = Len(q) - 1
      /\ \A j \in 1 .. Len(r) : r[j] = q[j + 1]
  BY SeqRest, SMTT(60)
<1>2. Len(q) \in Nat \ {0}
  BY SeqNone
<1>3. CASE r = <<>>
  <2> HIDE DEF r
  <2>1. Len(r) = 0
    BY <1>1, <1>3, SeqNone
  <2>2. Len(q) = 1
    BY <1>1, <1>2, <2>1
  <2> USE DEF r
  <2> QED
    BY <1>1, <1>3, <2>2 DEF Chain
<1>4. CASE r # <<>>
  <2>1. Len(r) \in Nat \ {0}
    BY <1>1, <1>4, SeqNone
  <2>2. r[1] = a + step /\ r[Len(r)] + step = b
    BY <1>1, <1>2, <2>1, SMTT(60) DEF Chain
  <2>3. \A j \in 1 .. Len(r) - 1 : r[j + 1] = r[j] + step
    BY <1>1, <1>2, <2>1, SMTT(60) DEF Chain
  <2> HIDE DEF r
  <2>4. Chain(step, r, a + step, b)
    BY <1>4, <2>2, <2>3 DEF Chain
  <2> QED
    BY <1>1, <2>4 DEF Chain, r
<1> QED
  BY <1>3, <1>4

--------------------------------------------------------------------------------
(* The encoder.                                                            *)

Ids(q) == [i \in 1 .. Len(q) |-> q[i].id]

\* Items that collect has taken from the output buffers.
Taken == Len(collected) + (IF naming THEN 1 ELSE 0)

Line(w, m) ==
  /\ Chain(NumThreads, Ids(outputbuffer[w]), NextFor(NumThreads, w, Taken, nextBufferIndex), m)
  /\ encoding[w] \in {0, m}
  /\ Chain(NumThreads, inputbuffer[w], IF encoding[w] = 0 THEN m ELSE m + NumThreads,
           NextFor(NumThreads, w, added, nextAddIndex))

InTurn == \A w \in Workers : \E m \in Nat : Line(w, m)

\* While collect encodes the pathname it has handed nothing on.
HeaderFirst == naming => collected = <<>> /\ Header \in 1 .. NumItems

EncodeInv ==
  /\ EncodeTypeOK
  /\ InTurn
  /\ HeaderFirst
  /\ CollectedInOrder

--------------------------------------------------------------------------------
LEMMA ThreadsType == NumThreads \in Nat /\ NumThreads >= 1
BY PipelineAssumption

\* The item that is passed on goes to thread at; for the others nothing changes.
LEMMA FollowingAdvances ==
  ASSUME NEW w \in Workers, NEW at \in Workers, NEW n \in Nat
  PROVE  /\ Following(at) \in Workers
         /\ NextFor(NumThreads, w, n, at) \in Nat
         /\ NextFor(NumThreads, at, n, at) = n + 1
         /\ NextFor(NumThreads, w, n + 1, Following(at)) =
              IF w = at THEN NextFor(NumThreads, w, n, at) + NumThreads
              ELSE NextFor(NumThreads, w, n, at)
<1>1. NumThreads \in Nat /\ at \in 0 .. NumThreads - 1
  BY ThreadsType DEF Workers
<1>2. Following(at) = IF at + 1 = NumThreads THEN 0 ELSE at + 1
  BY <1>1, WrapsAround DEF Following
<1> QED
  BY <1>2, ThreadsType DEF NextFor, Workers

LEMMA IdsProperties ==
  ASSUME NEW q \in Seq(Coded)
  PROVE  /\ Ids(q) \in Seq(Nat)
         /\ Ids(q) = <<>> <=> q = <<>>
         /\ \A y \in Coded : Ids(Append(q, y)) = Append(Ids(q), y.id)
         /\ q # <<>> => /\ Head(q) \in Coded
                        /\ Head(Ids(q)) = Head(q).id
                        /\ Ids(Tail(q)) = Tail(Ids(q))
<1>1. \A i \in 1 .. Len(q) : q[i] \in Coded /\ q[i].id \in Nat
  <2>1. \A i \in 1 .. Len(q) : q[i] \in Coded
    OBVIOUS
  <2>2. \A y \in Coded : y.id \in Nat
    BY PipelineAssumption, SMTT(60) DEF Coded
  <2> QED
    BY <2>1, <2>2
<1>2. Ids(q) \in Seq(Nat) /\ Len(Ids(q)) = Len(q)
  BY <1>1 DEF Ids
<1>3. Ids(q) = <<>> <=> q = <<>>
  BY <1>2, SeqNone
<1>4. ASSUME NEW y \in Coded
      PROVE  Ids(Append(q, y)) = Append(Ids(q), y.id)
  BY <1>1, <1>2, SMTT(60) DEF Ids, Coded
<1>5. ASSUME q # <<>>
      PROVE  /\ Head(q) \in Coded
             /\ Head(Ids(q)) = Head(q).id
             /\ Ids(Tail(q)) = Tail(Ids(q))
  BY <1>1, <1>2, <1>3, <1>5 DEF Ids
<1> QED
  BY <1>2, <1>3, <1>4, <1>5

--------------------------------------------------------------------------------
LEMMA InitEncode == EncodeInit => EncodeInv
<1> SUFFICES ASSUME EncodeInit PROVE EncodeInv
  OBVIOUS
<1> USE ThreadsType, PipelineAssumption DEF EncodeInit
<1>1. EncodeTypeOK
  BY DEF EncodeTypeOK, Workers
<1>2. InTurn
  <2> SUFFICES ASSUME NEW w \in Workers PROVE Line(w, w + 1)
    BY SMTT(60) DEF InTurn, Workers
  <2>1. NextFor(NumThreads, w, 0, 0) = w + 1
    BY DEF NextFor, Workers
  <2>2. Ids(<<>>) = <<>>
    BY DEF Ids
  <2> QED
    BY <2>1, <2>2 DEF Line, Taken, Chain
<1>3. CollectedInOrder
  BY DEF CollectedInOrder
<1> QED
  BY <1>1, <1>2, <1>3 DEF EncodeInv, HeaderFirst

\* Types, and the ends of a line, for use in the steps.
LEMMA LineType ==
  ASSUME EncodeTypeOK, NEW w \in Workers
  PROVE  /\ Taken \in Nat /\ added \in Nat
         /\ NextFor(NumThreads, w, Taken, nextBufferIndex) \in Nat
         /\ NextFor(NumThreads, w, added, nextAddIndex) \in Nat
         /\ inputbuffer[w] \in Seq(Nat)
         /\ outputbuffer[w] \in Seq(Coded)
         /\ Ids(outputbuffer[w]) \in Seq(Nat)
<1>1. Taken \in Nat /\ added \in Nat
  BY PipelineAssumption, SMTT(60) DEF EncodeTypeOK, Taken
<1>2. inputbuffer[w] \in Seq(Nat)
  <2>1. inputbuffer[w] \in Seq(1 .. NumItems)
    BY DEF EncodeTypeOK
  <2> QED
    BY <2>1, PipelineAssumption, SMTT(60)
<1>3. outputbuffer[w] \in Seq(Coded)
  BY DEF EncodeTypeOK
<1>4. nextBufferIndex \in Workers /\ nextAddIndex \in Workers
  BY DEF EncodeTypeOK
<1> QED
  BY <1>1, <1>2, <1>3, <1>4, FollowingAdvances, IdsProperties

LEMMA AddStep ==
  ASSUME EncodeInv, add
  PROVE  EncodeInv'
<1> USE DEF add, codecs
<1>1. EncodeTypeOK'
  <2>1. nextAddIndex' \in Workers
    BY FollowingAdvances DEF EncodeInv, EncodeTypeOK
  <2>2. /\ inputbuffer' \in [Workers -> Seq(1 .. NumItems)]
        /\ \A w \in Workers : Len(inputbuffer'[w]) <= EncodeRing
    <3> DEFINE q == inputbuffer[nextAddIndex]
    <3>1. q \in Seq(1 .. NumItems) /\ added + 1 \in 1 .. NumItems /\ nextAddIndex \in Workers
      BY PipelineAssumption, SMTT(60) DEF EncodeInv, EncodeTypeOK
    <3>2. Append(q, added + 1) \in Seq(1 .. NumItems) /\ Len(Append(q, added + 1)) = Len(q) + 1
      BY <3>1, SeqAppend, SMTT(60)
    <3>3. Len(q) \in Nat /\ Len(q) + 1 <= EncodeRing
      BY <3>1, PipelineAssumption
    <3> QED
      BY <3>1, <3>2, <3>3 DEF EncodeInv, EncodeTypeOK
  <2>3. added' \in 0 .. NumItems
    BY PipelineAssumption, SMTT(60) DEF EncodeInv, EncodeTypeOK
  <2> QED
    BY <2>1, <2>2, <2>3 DEF EncodeInv, EncodeTypeOK
<1>2. InTurn'
  <2> SUFFICES ASSUME NEW w \in Workers PROVE \E m \in Nat : Line(w, m)'
    BY DEF InTurn, Workers
  <2>1. PICK m \in Nat : Line(w, m)
    BY DEF EncodeInv, InTurn
  <2> DEFINE a == IF encoding[w] = 0 THEN m ELSE m + NumThreads
             b == NextFor(NumThreads, w, added, nextAddIndex)
  <2>2. a \in Nat /\ b \in Nat /\ inputbuffer[w] \in Seq(Nat) /\ added \in Nat
    BY <2>1, LineType, ThreadsType DEF EncodeInv
  <2>3. nextAddIndex \in Workers
    BY DEF EncodeInv, EncodeTypeOK
  <2>4. Chain(NumThreads, inputbuffer'[w], a, NextFor(NumThreads, w, added', nextAddIndex'))
    <3>1. CASE w = nextAddIndex
      <4>1. inputbuffer'[w] = Append(inputbuffer[w], b)
        BY <2>2, <2>3, <3>1, FollowingAdvances DEF EncodeInv, EncodeTypeOK
      <4>2. NextFor(NumThreads, w, added', nextAddIndex') = b + NumThreads
        BY <2>2, <2>3, <3>1, FollowingAdvances
      <4>3. Chain(NumThreads, inputbuffer[w], a, b)
        BY <2>1 DEF Line
      <4> QED
        BY <2>2, <4>1, <4>2, <4>3, ChainAppend, ThreadsType
    <3>2. CASE w # nextAddIndex
      <4>1. inputbuffer'[w] = inputbuffer[w]
        BY <3>2 DEF EncodeInv, EncodeTypeOK
      <4>2. NextFor(NumThreads, w, added', nextAddIndex') = b
        BY <2>2, <2>3, <3>2, FollowingAdvances, ZenonT(60)
      <4> QED
        BY <2>1, <4>1, <4>2 DEF Line
    <3> QED
      BY <3>1, <3>2
  <2> QED
    BY <2>1, <2>4 DEF Line, Taken
<1>3. HeaderFirst' /\ CollectedInOrder'
  BY DEF EncodeInv, HeaderFirst, CollectedInOrder
<1> QED
  BY <1>1, <1>2, <1>3 DEF EncodeInv

LEMMA ExtractStep ==
  ASSUME EncodeInv, NEW v \in Workers, extract(v)
  PROVE  EncodeInv'
<1> USE DEF extract
<1> DEFINE q == inputbuffer[v]
<1>1. q \in Seq(1 .. NumItems) /\ q # <<>> /\ Len(q) <= EncodeRing
  BY DEF EncodeInv, EncodeTypeOK
<1> HIDE DEF q
<1>2. /\ Head(q) \in 1 .. NumItems /\ Tail(q) \in Seq(1 .. NumItems)
      /\ Len(Tail(q)) <= EncodeRing
  <2>1. Len(q) \in Nat \ {0}
    BY <1>1, SeqNone
  <2>2. /\ Head(q) \in 1 .. NumItems /\ Tail(q) \in Seq(1 .. NumItems)
        /\ Len(Tail(q)) = Len(q) - 1
    BY <1>1, SeqRest
  <2> QED
    BY <1>1, <2>1, <2>2, PipelineAssumption
<1> USE DEF q
<1>3. EncodeTypeOK'
  <2>1. /\ inputbuffer' \in [Workers -> Seq(1 .. NumItems)]
        /\ \A w \in Workers : Len(inputbuffer'[w]) <= EncodeRing
    BY <1>2 DEF EncodeInv, EncodeTypeOK
  <2>2. encoding' \in [Workers -> 0 .. NumItems]
    <3>1. encoding' = [encoding EXCEPT ![v] = Head(q)] /\ Head(q) \in 0 .. NumItems
      BY <1>2, PipelineAssumption
    <3> QED
      BY <3>1 DEF EncodeInv, EncodeTypeOK
  <2>3. clashed' \in [Workers -> BOOLEAN] /\ nameClashed' \in BOOLEAN
    BY DEF EncodeInv, EncodeTypeOK
  <2> QED
    BY <2>1, <2>2, <2>3 DEF EncodeInv, EncodeTypeOK
<1>4. InTurn'
  <2> SUFFICES ASSUME NEW w \in Workers PROVE \E m \in Nat : Line(w, m)'
    BY DEF InTurn, Workers
  <2>1. PICK m \in Nat : Line(w, m)
    BY DEF EncodeInv, InTurn
  <2>2. CASE w = v
    <3> DEFINE b == NextFor(NumThreads, w, added, nextAddIndex)
    <3>1. Chain(NumThreads, q, m, b) /\ q \in Seq(Nat) /\ b \in Nat
      BY <2>1, <2>2, LineType DEF Line, EncodeInv
    <3>2. Head(q) = m /\ Chain(NumThreads, Tail(q), m + NumThreads, b)
      BY <1>1, <3>1, ChainTail, ThreadsType
    <3>3. encoding'[w] = m /\ inputbuffer'[w] = Tail(q) /\ m # 0
      BY <1>2, <2>2, <3>2 DEF EncodeInv, EncodeTypeOK
    <3> QED
      BY <2>1, <3>2, <3>3 DEF Line, Taken
  <2>3. CASE w # v
    <3>1. encoding'[w] = encoding[w] /\ inputbuffer'[w] = inputbuffer[w]
      BY <2>3 DEF EncodeInv, EncodeTypeOK
    <3> QED
      BY <2>1, <3>1 DEF Line, Taken
  <2> QED
    BY <2>2, <2>3
<1>5. HeaderFirst' /\ CollectedInOrder'
  BY DEF EncodeInv, HeaderFirst, CollectedInOrder
<1> QED
  BY <1>3, <1>4, <1>5 DEF EncodeInv

LEMMA InsertStep ==
  ASSUME EncodeInv, NEW v \in Workers, insert(v)
  PROVE  EncodeInv'
<1> USE DEF insert
<1> DEFINE q == outputbuffer[v]
<1>1. PICK y \in Yields(encoding[v], clashed[v]) :
        outputbuffer' = [outputbuffer EXCEPT ![v] = Append(q, y)]
  OBVIOUS
<1>2. encoding[v] \in 1 .. NumItems
  BY PipelineAssumption, SMTT(60) DEF EncodeInv, EncodeTypeOK
<1>3. y \in Coded /\ y.id = encoding[v]
  <2>1. PICK whole \in BOOLEAN : y = [id |-> encoding[v], whole |-> whole]
    BY <1>1 DEF Yields
  <2> QED
    BY <1>2, <2>1 DEF Coded
<1>4. q \in Seq(Coded)
  BY DEF EncodeInv, EncodeTypeOK
<1>5. EncodeTypeOK'
  <2>1. Append(q, y) \in Seq(Coded) /\ Len(Append(q, y)) = Len(q) + 1 /\ Len(q) \in Nat
    BY <1>3, <1>4, SeqAppend, SMTT(60)
  <2>2. /\ outputbuffer' \in [Workers -> Seq(Coded)]
        /\ \A w \in Workers : Len(outputbuffer'[w]) <= EncodeRing
    BY <1>1, <2>1, PipelineAssumption, SMTT(60) DEF EncodeInv, EncodeTypeOK
  <2>3. encoding' \in [Workers -> 0 .. NumItems]
    BY PipelineAssumption, SMTT(60) DEF EncodeInv, EncodeTypeOK
  <2>4. clashed' \in [Workers -> BOOLEAN]
    BY DEF EncodeInv, EncodeTypeOK
  <2> QED
    BY <2>2, <2>3, <2>4 DEF EncodeInv, EncodeTypeOK
<1>6. InTurn'
  <2> SUFFICES ASSUME NEW w \in Workers PROVE \E m \in Nat : Line(w, m)'
    BY DEF InTurn, Workers
  <2>1. PICK m \in Nat : Line(w, m)
    BY DEF EncodeInv, InTurn
  <2>2. CASE w = v
    <3> DEFINE a == NextFor(NumThreads, w, Taken, nextBufferIndex)
    <3>1. Chain(NumThreads, Ids(q), a, m) /\ Ids(q) \in Seq(Nat) /\ a \in Nat
      BY <2>1, <2>2, LineType DEF Line, EncodeInv
    <3>2. encoding[w] = m
      BY <2>1, <2>2 DEF Line
    <3>3. Chain(NumThreads, Append(Ids(q), m), a, m + NumThreads)
      BY <3>1, ChainAppend, ThreadsType
    <3>4. Ids(outputbuffer'[w]) = Append(Ids(q), m)
      <4>1. outputbuffer'[w] = Append(q, y)
        BY <1>1, <2>2 DEF EncodeInv, EncodeTypeOK
      <4> QED
        BY <1>3, <1>4, <2>2, <3>2, <4>1, IdsProperties
    <3>5. encoding'[w] = 0 /\ m + NumThreads \in Nat /\ m # 0
      BY <1>2, <2>2, <3>2, ThreadsType, SMTT(60) DEF EncodeInv, EncodeTypeOK
    <3>6. Line(w, m + NumThreads)'
      BY <2>1, <3>2, <3>3, <3>4, <3>5 DEF Line, Taken
    <3> QED
      BY <3>5, <3>6
  <2>3. CASE w # v
    <3>1. encoding'[w] = encoding[w] /\ outputbuffer'[w] = outputbuffer[w]
      BY <1>1, <2>3 DEF EncodeInv, EncodeTypeOK
    <3> QED
      BY <2>1, <3>1 DEF Line, Taken
  <2> QED
    BY <2>2, <2>3
<1>7. HeaderFirst' /\ CollectedInOrder'
  BY DEF EncodeInv, HeaderFirst, CollectedInOrder
<1> QED
  BY <1>5, <1>6, <1>7 DEF EncodeInv

LEMMA CollectStep ==
  ASSUME EncodeInv, collect
  PROVE  EncodeInv'
<1> USE DEF collect, codecs
<1> DEFINE v == nextBufferIndex
           q == outputbuffer[v]
<1>1. v \in Workers /\ 0 \in Workers
  BY ThreadsType, SMTT(60) DEF EncodeInv, EncodeTypeOK, Workers
<1>2. q \in Seq(Coded) /\ q # <<>> /\ Len(q) <= EncodeRing
  BY <1>1 DEF EncodeInv, EncodeTypeOK
<1> HIDE DEF q
<1>3. Head(q) \in Coded /\ Tail(q) \in Seq(Coded) /\ Len(Tail(q)) <= EncodeRing
  <2>1. Len(q) \in Nat \ {0}
    BY <1>2, SeqNone
  <2>2. Head(q) \in Coded /\ Tail(q) \in Seq(Coded) /\ Len(Tail(q)) = Len(q) - 1
    BY <1>2, SeqRest
  <2> QED
    BY <1>2, <2>1, <2>2, PipelineAssumption
\* collect takes the item that comes next in the order of the file
<1>4. Head(q).id = Taken + 1
  <2>1. PICK m \in Nat : Line(v, m)
    BY <1>1 DEF EncodeInv, InTurn
  <2>2. Chain(NumThreads, Ids(q), Taken + 1, m)
    BY <1>1, <2>1, LineType, FollowingAdvances DEF Line, EncodeInv, q
  <2>3. Ids(q) \in Seq(Nat) /\ Ids(q) # <<>> /\ Head(Ids(q)) = Head(q).id
    BY <1>2, IdsProperties
  <2>4. Taken + 1 \in Nat
    BY <1>1, LineType DEF EncodeInv
  <2> QED
    BY <2>2, <2>3, <2>4, ChainTail, ThreadsType
<1>5. /\ naming = FALSE /\ Taken = Len(collected) /\ collected \in Seq(Coded) /\ Len(collected) \in Nat
  BY DEF Taken, EncodeInv, EncodeTypeOK
<1>6. /\ collected' \in Seq(Coded) /\ Taken' = Taken + 1
      /\ HeaderFirst' /\ CollectedInOrder' /\ naming' \in BOOLEAN
  <2>1. CASE Head(q).id = Header
    <3>1. naming' = TRUE /\ collected' = collected
      BY <2>1 DEF q
    <3>2. Len(collected) = 0
      BY <1>4, <1>5, <2>1 DEF Header
    <3>3. collected = <<>>
      BY <1>5, <3>2, SeqNone
    <3> QED
      BY <1>3, <1>5, <2>1, <3>1, <3>3
         DEF Taken, EncodeInv, HeaderFirst, CollectedInOrder, Coded
  <2>2. CASE Head(q).id # Header
    <3>1. naming' = naming /\ collected' = Append(collected, Head(q))
      BY <2>2 DEF q
    <3>2. /\ collected' \in Seq(Coded) /\ Len(collected') = Len(collected) + 1
          /\ collected'[Len(collected) + 1] = Head(q)
          /\ \A i \in 1 .. Len(collected) : collected'[i] = collected[i]
      BY <1>3, <1>5, <3>1, SeqAppend, SMTT(60)
    <3>3. CollectedInOrder'
      BY <1>4, <1>5, <3>2 DEF EncodeInv, CollectedInOrder
    <3>4. naming' = FALSE
      BY <1>5, <3>1
    <3>5. Taken' = Taken + 1
      BY <1>5, <3>2, <3>4 DEF Taken
    <3>6. HeaderFirst' /\ naming' \in BOOLEAN
      BY <3>4 DEF HeaderFirst
    <3> QED
      BY <3>2, <3>3, <3>5, <3>6
  <2> QED
    BY <2>1, <2>2
<1>7. EncodeTypeOK'
  <2>1. outputbuffer' = [outputbuffer EXCEPT ![v] = Tail(q)]
    BY DEF q
  <2>2. /\ outputbuffer' \in [Workers -> Seq(Coded)]
        /\ \A w \in Workers : Len(outputbuffer'[w]) <= EncodeRing
    BY <1>1, <1>3, <2>1 DEF EncodeInv, EncodeTypeOK
  <2>3. nextBufferIndex' \in Workers
    BY <1>1, FollowingAdvances
  <2>4. clashed' \in [Workers -> BOOLEAN] /\ nameClashed' \in BOOLEAN
    BY <1>1 DEF EncodeInv, EncodeTypeOK
  <2> QED
    BY <1>6, <2>2, <2>3, <2>4 DEF EncodeInv, EncodeTypeOK
<1>8. InTurn'
  <2> SUFFICES ASSUME NEW w \in Workers PROVE \E m \in Nat : Line(w, m)'
    BY DEF InTurn, Workers
  <2>1. PICK m \in Nat : Line(w, m)
    BY DEF EncodeInv, InTurn
  <2> DEFINE a == NextFor(NumThreads, w, Taken, v)
  <2>2. a \in Nat /\ Taken \in Nat /\ Chain(NumThreads, Ids(outputbuffer[w]), a, m)
    BY <2>1, LineType DEF Line, EncodeInv
  <2>3. Chain(NumThreads, Ids(outputbuffer'[w]), NextFor(NumThreads, w, Taken', nextBufferIndex'), m)
    <3>1. CASE w = v
      <4>1. NextFor(NumThreads, w, Taken', nextBufferIndex') = a + NumThreads
        BY <1>1, <1>6, <2>2, <3>1, FollowingAdvances
      <4>2. Ids(outputbuffer'[w]) = Tail(Ids(q))
        <5>1. outputbuffer'[w] = Tail(q)
          BY <1>1, <3>1 DEF EncodeInv, EncodeTypeOK, q
        <5> QED
          BY <1>2, <5>1, IdsProperties
      <4>3. Ids(q) \in Seq(Nat) /\ Ids(q) # <<>>
        BY <1>2, IdsProperties
      <4>4. Chain(NumThreads, Ids(q), a, m)
        BY <2>2, <3>1 DEF q
      <4> HIDE DEF a
      <4>5. Chain(NumThreads, Tail(Ids(q)), a + NumThreads, m)
        BY <2>2, <4>3, <4>4, ChainTail, ThreadsType
      <4> QED
        BY <4>1, <4>2, <4>5
    <3>2. CASE w # v
      <4>1. NextFor(NumThreads, w, Taken', nextBufferIndex') = a
        BY <1>1, <1>6, <2>2, <3>2, FollowingAdvances, SMTT(60)
      <4>2. outputbuffer'[w] = outputbuffer[w]
        BY <3>2 DEF EncodeInv, EncodeTypeOK
      <4> QED
        BY <2>2, <4>1, <4>2
    <3> QED
      BY <3>1, <3>2
  <2> QED
    BY <2>1, <2>3 DEF Line
<1> QED
  BY <1>6, <1>7, <1>8 DEF EncodeInv

LEMMA CollectHeaderStep ==
  ASSUME EncodeInv, collectHeader
  PROVE  EncodeInv'
<1> USE DEF collectHeader
<1>1. PICK y \in Yields(Header, nameClashed) : collected' = Append(collected, y)
  OBVIOUS
<1>2. naming /\ collected = <<>> /\ naming' = FALSE /\ collected' = <<y>>
  BY <1>1 DEF EncodeInv, HeaderFirst
<1>3. PICK whole \in BOOLEAN : y = [id |-> Header, whole |-> whole]
  BY <1>1 DEF Yields
<1>4. Taken' = Taken
  BY <1>2 DEF Taken
<1>5. CollectedInOrder'
  BY <1>2, <1>3 DEF CollectedInOrder, Header
<1>6. InTurn'
  <2> SUFFICES ASSUME NEW w \in Workers PROVE \E m \in Nat : Line(w, m)'
    BY DEF InTurn, Workers
  <2> QED
    BY <1>4 DEF EncodeInv, InTurn, Line
<1>7. EncodeTypeOK'
  <2>1. y \in Coded
    BY <1>3 DEF EncodeInv, HeaderFirst, Coded
  <2>2. collected' \in Seq(Coded)
    BY <1>2, <2>1
  <2> QED
    BY <2>2 DEF EncodeInv, EncodeTypeOK
<1> QED
  BY <1>2, <1>5, <1>6, <1>7 DEF EncodeInv, HeaderFirst

LEMMA StepEncode ==
  ASSUME EncodeInv, [EncodeNext]_encodeVars
  PROVE  EncodeInv'
<1>1. CASE add
  BY <1>1, AddStep
<1>2. ASSUME NEW w \in Workers, thread_handler(w)
      PROVE  EncodeInv'
  BY <1>2, ExtractStep, InsertStep DEF thread_handler
<1>3. CASE CollectThread
  BY <1>3, CollectStep, CollectHeaderStep DEF CollectThread
<1>4. CASE UNCHANGED encodeVars
  BY <1>4 DEF encodeVars, EncodeInv, EncodeTypeOK, InTurn, Line, Taken, HeaderFirst,
              CollectedInOrder
<1> QED
  BY <1>1, <1>2, <1>3, <1>4 DEF EncodeNext, EncodeIdle

LEMMA EncodeInvariant == EncodeSpec => []EncodeInv
BY InitEncode, StepEncode, PTL DEF EncodeSpec

\* The state of the encoder has the types of encoder.hh, and no thread overruns
\* a ring buffer, for every number of threads and every size of the buffers.
THEOREM EncodeTypeCorrect == EncodeSpec => []EncodeTypeOK
<1>1. EncodeInv => EncodeTypeOK
  BY DEF EncodeInv
<1> QED
  BY <1>1, EncodeInvariant, PTL

\* However many threads encode, collect hands the items to the uploader in the
\* order in which main added them.
THEOREM OrderKept == EncodeSpec => []CollectedInOrder
<1>1. EncodeInv => CollectedInOrder
  BY DEF EncodeInv
<1> QED
  BY <1>1, EncodeInvariant, PTL

--------------------------------------------------------------------------------
(* The decoder.                                                            *)

SecretIds == 1 .. Len(SecretSize)

DecodeTypes ==
  /\ totalSecrets \in {Unset, Len(SecretSize)}
  /\ addedSecrets \in 0 .. Len(SecretSize)
  /\ shares \in [Decoders -> Seq(SecretIds)]
  /\ decoding \in [Decoders -> 0 .. Len(SecretSize)]
  /\ secrets \in [Decoders -> Seq(SecretIds)]
  /\ turn \in Decoders
  /\ written \in Nat
  /\ buf \in Seq(Nat)
  /\ file \in Seq(Nat)

SecretLine(w, m) ==
  /\ Chain(DecodeThreads, secrets[w], NextFor(DecodeThreads, w, written, turn), m)
  /\ decoding[w] \in {0, m}
  /\ Chain(DecodeThreads, shares[w], IF decoding[w] = 0 THEN m ELSE m + DecodeThreads,
           NextFor(DecodeThreads, w, addedSecrets, addedSecrets % DecodeThreads))

DecodeInv ==
  /\ DecodeTypes
  /\ \A w \in Decoders : \E m \in Nat : SecretLine(w, m)
  /\ FileInOrder

--------------------------------------------------------------------------------
FollowingDecoder(at) == IF at + 1 = DecodeThreads THEN 0 ELSE at + 1

LEMMA SizeType ==
  /\ DecodeThreads \in Nat /\ DecodeThreads >= 1
  /\ Len(SecretSize) \in Nat
BY DecodeAssumption

\* The thread that gets the shares of the next secret.
LEMMA AddTurn ==
  ASSUME NEW n \in Nat
  PROVE  /\ n % DecodeThreads \in Decoders
         /\ (n + 1) % DecodeThreads = FollowingDecoder(n % DecodeThreads)
<1>1. DecodeThreads \in Nat /\ DecodeThreads > 0
  BY SizeType
<1> QED
  BY <1>1, DivMod, ModOfNext DEF Decoders, FollowingDecoder

LEMMA TurnAdvances ==
  ASSUME NEW w \in Decoders, NEW at \in Decoders, NEW n \in Nat
  PROVE  /\ FollowingDecoder(at) \in Decoders
         /\ FollowingDecoder(at) = (at + 1) % DecodeThreads
         /\ NextFor(DecodeThreads, w, n, at) \in Nat
         /\ NextFor(DecodeThreads, at, n, at) = n + 1
         /\ NextFor(DecodeThreads, w, n + 1, FollowingDecoder(at)) =
              IF w = at THEN NextFor(DecodeThreads, w, n, at) + DecodeThreads
              ELSE NextFor(DecodeThreads, w, n, at)
<1>1. DecodeThreads \in Nat /\ at \in 0 .. DecodeThreads - 1
  BY SizeType DEF Decoders
<1>2. FollowingDecoder(at) = (at + 1) % DecodeThreads
  BY <1>1, WrapsAround DEF FollowingDecoder
<1>3. FollowingDecoder(at) \in Decoders
  BY SizeType DEF FollowingDecoder, Decoders
<1>4. /\ NextFor(DecodeThreads, w, n, at) \in Nat
      /\ NextFor(DecodeThreads, at, n, at) = n + 1
      /\ NextFor(DecodeThreads, w, n + 1, FollowingDecoder(at)) =
           IF w = at THEN NextFor(DecodeThreads, w, n, at) + DecodeThreads
           ELSE NextFor(DecodeThreads, w, n, at)
  BY SizeType DEF NextFor, FollowingDecoder, Decoders
<1> QED
  BY <1>2, <1>3, <1>4

LEMMA SecretLineType ==
  ASSUME DecodeTypes, NEW w \in Decoders
  PROVE  /\ shares[w] \in Seq(Nat) /\ secrets[w] \in Seq(Nat)
         /\ addedSecrets \in Nat
         /\ NextFor(DecodeThreads, w, written, turn) \in Nat
         /\ NextFor(DecodeThreads, w, addedSecrets, addedSecrets % DecodeThreads) \in Nat
<1>1. shares[w] \in Seq(Nat) /\ secrets[w] \in Seq(Nat)
  <2>1. shares[w] \in Seq(SecretIds) /\ secrets[w] \in Seq(SecretIds)
    BY DEF DecodeTypes
  <2> QED
    BY <2>1, SizeType DEF SecretIds
<1>2. addedSecrets \in Nat
  BY SizeType DEF DecodeTypes
<1> QED
  BY <1>1, <1>2, AddTurn, TurnAdvances DEF DecodeTypes

\* The file from the first secret to the nth.
Upto(n) == [i \in 1 .. n |-> i]

LEMMA AppendUpto ==
  ASSUME NEW n \in Nat
  PROVE  Append(Upto(n), n + 1) = Upto(n + 1)
BY DEF Upto

--------------------------------------------------------------------------------
LEMMA InitDecode == DecodeInit => DecodeInv
<1> SUFFICES ASSUME DecodeInit PROVE DecodeInv
  OBVIOUS
<1> USE SizeType DEF DecodeInit
<1>1. DecodeTypes
  BY DEF DecodeTypes, Decoders
<1>2. ASSUME NEW w \in Decoders PROVE \E m \in Nat : SecretLine(w, m)
  <2>1. 0 % DecodeThreads = 0 /\ w + 1 \in Nat
    BY DEF Decoders
  <2>2. NextFor(DecodeThreads, w, 0, 0) = w + 1
    BY DEF NextFor, Decoders
  <2>3. SecretLine(w, w + 1)
    BY <2>1, <2>2 DEF SecretLine, Chain
  <2> QED
    BY <2>1, <2>3
<1>3. FileInOrder
  BY DEF FileInOrder
<1> QED
  BY <1>1, <1>2, <1>3 DEF DecodeInv

LEMMA AddSecretStep ==
  ASSUME DecodeInv, addShares
  PROVE  DecodeInv'
<1> USE DEF addShares
<1> DEFINE v == addedSecrets % DecodeThreads
           q == shares[v]
<1>1. addedSecrets \in Nat /\ addedSecrets + 1 \in SecretIds
  BY SizeType DEF DecodeInv, DecodeTypes, SecretIds, Unset
<1>2. v \in Decoders
  BY <1>1, AddTurn
<1>3. shares' = [shares EXCEPT ![v] = Append(q, addedSecrets + 1)] /\ q \in Seq(SecretIds)
  BY <1>2 DEF DecodeInv, DecodeTypes
<1> HIDE DEF q
<1>4. DecodeTypes'
  <2>1. Append(q, addedSecrets + 1) \in Seq(SecretIds)
    BY <1>1, <1>3, SeqAppend
  <2>2. shares' \in [Decoders -> Seq(SecretIds)]
    BY <1>2, <1>3, <2>1 DEF DecodeInv, DecodeTypes
  <2>3. addedSecrets' \in 0 .. Len(SecretSize)
    BY <1>1, SizeType DEF SecretIds
  <2> QED
    BY <2>2, <2>3 DEF DecodeInv, DecodeTypes
<1>5. ASSUME NEW w \in Decoders PROVE \E m \in Nat : SecretLine(w, m)'
  <2>1. PICK m \in Nat : SecretLine(w, m)
    BY DEF DecodeInv
  <2> DEFINE a == IF decoding[w] = 0 THEN m ELSE m + DecodeThreads
             b == NextFor(DecodeThreads, w, addedSecrets, v)
  <2>2. a \in Nat /\ b \in Nat /\ shares[w] \in Seq(Nat)
    BY <2>1, SecretLineType, SizeType DEF DecodeInv
  <2>3. addedSecrets' % DecodeThreads = FollowingDecoder(v)
    BY <1>1, AddTurn
  <2>4. Chain(DecodeThreads, shares[w], a, b)
    BY <2>1 DEF SecretLine
  <2> HIDE DEF v
  <2>5. NextFor(DecodeThreads, w, addedSecrets', FollowingDecoder(v)) =
          IF w = v THEN b + DecodeThreads ELSE b
    BY <1>1, <1>2, TurnAdvances, SMTT(60)
  <2>6. Chain(DecodeThreads, shares'[w], a, NextFor(DecodeThreads, w, addedSecrets', FollowingDecoder(v)))
    <3>1. CASE w = v
      <4>1. b = addedSecrets + 1
        BY <1>1, <1>2, <3>1, TurnAdvances
      <4>2. shares'[w] = Append(shares[w], b)
        BY <1>2, <1>3, <3>1, <4>1 DEF DecodeInv, DecodeTypes, q
      <4> HIDE DEF a, b
      <4> QED
        BY <2>2, <2>4, <2>5, <3>1, <4>2, ChainAppend, SizeType
    <3>2. CASE w # v
      <4>1. shares'[w] = shares[w]
        BY <1>2, <1>3, <3>2 DEF DecodeInv, DecodeTypes
      <4> QED
        BY <2>4, <2>5, <3>2, <4>1
    <3> QED
      BY <3>1, <3>2
  <2> QED
    BY <2>1, <2>3, <2>6 DEF SecretLine
<1>6. FileInOrder'
  BY DEF DecodeInv, FileInOrder
<1> QED
  BY <1>4, <1>5, <1>6 DEF DecodeInv

LEMMA ExtractShareStep ==
  ASSUME DecodeInv, NEW v \in Decoders, extractShares(v)
  PROVE  DecodeInv'
<1> USE DEF extractShares
<1> DEFINE q == shares[v]
<1>1. q \in Seq(SecretIds) /\ q # <<>>
  BY DEF DecodeInv, DecodeTypes
<1>2. Head(q) \in SecretIds /\ Tail(q) \in Seq(SecretIds)
  BY <1>1, SeqRest
<1>3. Head(q) \in 0 .. Len(SecretSize) /\ Head(q) # 0
  BY <1>2, SizeType DEF SecretIds
<1>4. DecodeTypes'
  BY <1>2, <1>3 DEF DecodeInv, DecodeTypes
<1>5. ASSUME NEW w \in Decoders PROVE \E m \in Nat : SecretLine(w, m)'
  <2>1. PICK m \in Nat : SecretLine(w, m)
    BY DEF DecodeInv
  <2>2. CASE w = v
    <3> DEFINE b == NextFor(DecodeThreads, w, addedSecrets, addedSecrets % DecodeThreads)
    <3>1. Chain(DecodeThreads, q, m, b) /\ q \in Seq(Nat) /\ b \in Nat
      BY <2>1, <2>2, SecretLineType DEF SecretLine, DecodeInv
    <3> HIDE DEF b
    <3>2. Head(q) = m /\ Chain(DecodeThreads, Tail(q), m + DecodeThreads, b)
      BY <1>1, <3>1, ChainTail, SizeType
    <3>3. decoding'[w] = m /\ shares'[w] = Tail(q) /\ m # 0
      BY <1>3, <2>2, <3>2 DEF DecodeInv, DecodeTypes
    <3> QED
      BY <2>1, <3>2, <3>3 DEF SecretLine, b
  <2>3. CASE w # v
    <3>1. decoding'[w] = decoding[w] /\ shares'[w] = shares[w]
      BY <2>3 DEF DecodeInv, DecodeTypes
    <3> QED
      BY <2>1, <3>1 DEF SecretLine
  <2> QED
    BY <2>2, <2>3
<1>6. FileInOrder'
  BY DEF DecodeInv, FileInOrder
<1> QED
  BY <1>4, <1>5, <1>6 DEF DecodeInv

LEMMA InsertSecretStep ==
  ASSUME DecodeInv, NEW v \in Decoders, insertSecret(v)
  PROVE  DecodeInv'
<1> USE DEF insertSecret
<1> DEFINE q == secrets[v]
<1>1. decoding[v] \in SecretIds /\ q \in Seq(SecretIds)
  BY SizeType DEF DecodeInv, DecodeTypes, SecretIds
<1>2. DecodeTypes'
  <2>1. Append(q, decoding[v]) \in Seq(SecretIds)
    BY <1>1, SeqAppend
  <2>2. secrets' \in [Decoders -> Seq(SecretIds)]
    BY <2>1 DEF DecodeInv, DecodeTypes
  <2>3. decoding' \in [Decoders -> 0 .. Len(SecretSize)]
    BY SizeType, SMTT(60) DEF DecodeInv, DecodeTypes
  <2> QED
    BY <2>2, <2>3 DEF DecodeInv, DecodeTypes
<1>3. ASSUME NEW w \in Decoders PROVE \E m \in Nat : SecretLine(w, m)'
  <2>1. PICK m \in Nat : SecretLine(w, m)
    BY DEF DecodeInv
  <2>2. CASE w = v
    <3> DEFINE a == NextFor(DecodeThreads, w, written, turn)
    <3>1. Chain(DecodeThreads, q, a, m) /\ q \in Seq(Nat) /\ a \in Nat
      BY <2>1, <2>2, SecretLineType DEF SecretLine, DecodeInv
    <3>2. decoding[w] = m
      BY <2>1, <2>2 DEF SecretLine
    <3> HIDE DEF a
    <3>3. Chain(DecodeThreads, Append(q, m), a, m + DecodeThreads)
      BY <3>1, ChainAppend, SizeType
    <3>4. secrets'[w] = Append(q, m) /\ decoding'[w] = 0
      BY <2>2, <3>2 DEF DecodeInv, DecodeTypes
    <3>5. m + DecodeThreads \in Nat /\ m # 0
      BY <1>1, <2>2, <3>2, SizeType DEF SecretIds
    <3>6. SecretLine(w, m + DecodeThreads)'
      BY <2>1, <3>2, <3>3, <3>4, <3>5 DEF SecretLine, a
    <3> QED
      BY <3>5, <3>6
  <2>3. CASE w # v
    <3>1. decoding'[w] = decoding[w] /\ secrets'[w] = secrets[w]
      BY <2>3 DEF DecodeInv, DecodeTypes
    <3> QED
      BY <2>1, <3>1 DEF SecretLine
  <2> QED
    BY <2>2, <2>3
<1>4. FileInOrder'
  BY DEF DecodeInv, FileInOrder
<1> QED
  BY <1>2, <1>3, <1>4 DEF DecodeInv

\* Wherever the write buffer is flushed, one secret is added behind the others.
LEMMA WriteOne ==
  ASSUME NEW f \in Seq(Nat), NEW b \in Seq(Nat), NEW s \in Nat
  PROVE  /\ (f \o b) \o <<s>> = Append(f \o b, s)
         /\ f \o Append(b, s) = Append(f \o b, s)
         /\ ((f \o b) \o <<s>>) \o <<>> = Append(f \o b, s)
         /\ (f \o Append(b, s)) \o <<>> = Append(f \o b, s)
<1>1. f \o b \in Seq(Nat) /\ <<s>> \in Seq(Nat) /\ Append(f \o b, s) \in Seq(Nat)
  OBVIOUS
<1>2. Append(b, s) = b \o <<s>> /\ Append(f \o b, s) = (f \o b) \o <<s>>
  BY <1>1, SeqAppendConcat
<1>3. f \o (b \o <<s>>) = (f \o b) \o <<s>>
  BY <1>1, SeqConcatAgain, SMTT(60)
<1>4. Append(f \o b, s) \o <<>> = Append(f \o b, s)
  BY <1>1, SeqConcatNone
<1> QED
  BY <1>2, <1>3, <1>4

LEMMA WriteStep ==
  ASSUME DecodeInv, collectSecret
  PROVE  DecodeInv'
<1> DEFINE v == turn
           q == secrets[v]
           s == Head(q)
           full == Filled(buf) + SecretSize[s] > WriteBuffer
<1>1. v \in Decoders /\ q \in Seq(SecretIds) /\ q # <<>>
  BY DEF DecodeInv, DecodeTypes, collectSecret
<1>2. /\ secrets' = [secrets EXCEPT ![v] = Tail(q)]
      /\ turn' = (v + 1) % DecodeThreads
      /\ written' = written + 1 /\ written \in Nat
  BY DEF collectSecret, DecodeInv, DecodeTypes
<1>3. UNCHANGED <<totalSecrets, addedSecrets, shares, decoding, decoded>>
  BY DEF collectSecret
<1>4. \/ buf' = <<s>> /\ file' = file \o buf
      \/ buf' = Append(buf, s) /\ file' = file
      \/ buf' = <<>> /\ file' = (file \o buf) \o <<s>>
      \/ buf' = <<>> /\ file' = file \o Append(buf, s)
  BY DEF collectSecret
<1> HIDE DEF q, s
<1>5. s \in SecretIds /\ s \in Nat /\ Tail(q) \in Seq(SecretIds)
  BY <1>1, SeqRest, SizeType, SMTT(60) DEF s, SecretIds
<1>6. turn' = FollowingDecoder(v) /\ FollowingDecoder(v) \in Decoders
  BY <1>1, <1>2, TurnAdvances
<1>7. buf \in Seq(Nat) /\ file \in Seq(Nat)
  BY DEF DecodeInv, DecodeTypes
\* collect takes the secret that comes next in the file
<1>8. s = written + 1
  <2>1. PICK m \in Nat : SecretLine(v, m)
    BY <1>1 DEF DecodeInv
  <2>2. Chain(DecodeThreads, q, written + 1, m) /\ q \in Seq(Nat) /\ written + 1 \in Nat
    BY <1>1, <1>2, <2>1, SecretLineType, TurnAdvances DEF SecretLine, DecodeInv, q
  <2> QED
    BY <1>1, <2>2, ChainTail, SizeType DEF s
<1>9. DecodeTypes'
  <2>1. secrets' \in [Decoders -> Seq(SecretIds)]
    BY <1>1, <1>2, <1>5 DEF DecodeInv, DecodeTypes
  <2>2. buf' \in Seq(Nat) /\ file' \in Seq(Nat)
    <3>1. <<s>> \in Seq(Nat) /\ Append(buf, s) \in Seq(Nat) /\ <<>> \in Seq(Nat)
      BY <1>5, <1>7
    <3>2. /\ file \o buf \in Seq(Nat)
          /\ (file \o buf) \o <<s>> \in Seq(Nat)
          /\ file \o Append(buf, s) \in Seq(Nat)
      BY <1>7, <3>1, SeqConcat
    <3> QED
      BY <1>4, <1>7, <3>1, <3>2
  <2> QED
    BY <1>2, <1>3, <1>6, <2>1, <2>2, SMTT(60) DEF DecodeInv, DecodeTypes
<1>10. ASSUME NEW w \in Decoders PROVE \E m \in Nat : SecretLine(w, m)'
  <2>1. PICK m \in Nat : SecretLine(w, m)
    BY DEF DecodeInv
  <2> DEFINE a == NextFor(DecodeThreads, w, written, v)
  <2>2. a \in Nat /\ Chain(DecodeThreads, secrets[w], a, m) /\ secrets[w] \in Seq(Nat)
    BY <2>1, SecretLineType DEF SecretLine, DecodeInv
  <2>3. NextFor(DecodeThreads, w, written', turn') = IF w = v THEN a + DecodeThreads ELSE a
    <3>1. v \in Decoders /\ written \in Nat
      BY <1>1, <1>2
    <3> HIDE DEF v
    <3>2. NextFor(DecodeThreads, w, written + 1, FollowingDecoder(v)) =
            IF w = v THEN a + DecodeThreads ELSE a
      BY <3>1, TurnAdvances, SMTT(60)
    <3> QED
      BY <1>2, <1>6, <3>2
  <2> HIDE DEF a
  <2>4. Chain(DecodeThreads, secrets'[w], NextFor(DecodeThreads, w, written', turn'), m)
    <3>1. CASE w = v
      <4>1. secrets'[w] = Tail(q) /\ q = secrets[w]
        BY <1>1, <1>2, <3>1 DEF DecodeInv, DecodeTypes, q
      <4>2. Chain(DecodeThreads, Tail(q), a + DecodeThreads, m)
        BY <1>1, <2>2, <4>1, ChainTail, SizeType
      <4> QED
        BY <2>3, <3>1, <4>1, <4>2
    <3>2. CASE w # v
      <4>1. secrets'[w] = secrets[w]
        BY <1>2, <3>2 DEF DecodeInv, DecodeTypes
      <4> QED
        BY <2>2, <2>3, <3>2, <4>1
    <3> QED
      BY <3>1, <3>2
  <2> QED
    BY <1>3, <2>1, <2>4 DEF SecretLine
<1>11. FileInOrder'
  <2>1. file' \o buf' = Append(file \o buf, s)
    BY <1>4, <1>5, <1>7, WriteOne, ZenonT(60)
  <2>2. file \o buf = Upto(written)
    BY DEF DecodeInv, FileInOrder, Upto
  <2>3. file' \o buf' = Upto(written')
    BY <1>2, <1>8, <2>1, <2>2, AppendUpto
  <2> QED
    BY <2>3 DEF FileInOrder, Upto
<1> QED
  BY <1>9, <1>10, <1>11 DEF DecodeInv

LEMMA StepDecode ==
  ASSUME DecodeInv, [DecodeNext]_decodeVars
  PROVE  DecodeInv'
<1>1. CASE setTotal
  BY <1>1 DEF setTotal, DecodeInv, DecodeTypes, SecretLine, FileInOrder
<1>2. CASE addShares
  BY <1>2, AddSecretStep
<1>3. CASE collectSecret
  BY <1>3, WriteStep
<1>4. ASSUME NEW w \in Decoders, DecodeThread(w)
      PROVE  DecodeInv'
  BY <1>4, ExtractShareStep, InsertSecretStep DEF DecodeThread
<1>5. CASE UNCHANGED decodeVars
  BY <1>5 DEF decodeVars, DecodeInv, DecodeTypes, SecretLine, FileInOrder
<1> QED
  BY <1>1, <1>2, <1>3, <1>4, <1>5 DEF DecodeNext

\* However many threads decode and wherever the write buffer is flushed, the
\* restored file followed by the write buffer is the beginning of the original.
THEOREM RestoredInOrder == DecodeSpec => []FileInOrder
<1>1. DecodeInv => FileInOrder
  BY DEF DecodeInv
<1> QED
  BY <1>1, InitDecode, StepDecode, PTL DEF DecodeSpec
================================================================================
