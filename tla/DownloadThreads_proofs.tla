----------------------- MODULE DownloadThreads_proofs ------------------------
(***************************************************************************)
(* The invariant that links what a file was uploaded as with what main has *)
(* taken from its connections, for any number of clouds, secrets, meta     *)
(* chunks and sessions and any size of the packages and ring buffers, and  *)
(* its preservation by the downloader's threads and the server's handlers. *)
(***************************************************************************)
EXTENDS DownloadSession, TLAPS

\* A step that names no prover is for Zenon, then for the SMT solver, with time to
\* spare.
USE ZenonT(30), SMTT(60)

------------------------------------------------------------------------------
(* Sequences.                                                               *)

\* What a sequence of items holds at a position of it is an item.
LEMMA SeqItem ==
  ASSUME NEW T, NEW s \in Seq(T), NEW i \in 1 .. Len(s)
  PROVE  s[i] \in T
OBVIOUS

\* The empty sequence is one of any items, and the only one without any.
LEMMA SeqNone ==
  ASSUME NEW T
  PROVE  /\ <<>> \in Seq(T) /\ Len(<<>>) = 0
         /\ \A s \in Seq(T) : s # <<>> => Len(s) \in Nat \ {0}
OBVIOUS

\* A sequence is a function on the positions up to its length.
LEMMA SeqLen ==
  ASSUME NEW T, NEW s \in Seq(T)
  PROVE  Len(s) \in Nat /\ DOMAIN s = 1 .. Len(s) /\ s \in [1 .. Len(s) -> T]
OBVIOUS

\* What writing over an item of a sequence leaves.
LEMMA SeqExcept ==
  ASSUME NEW T, NEW s \in Seq(T), NEW x \in T, NEW k \in 1 .. Len(s)
  PROVE  /\ [s EXCEPT ![k] = x] \in Seq(T)
         /\ Len([s EXCEPT ![k] = x]) = Len(s)
         /\ \A i \in 1 .. Len(s) :
              [s EXCEPT ![k] = x][i] = IF i = k THEN x ELSE s[i]
OBVIOUS

\* The items of two sequences, one after the other.
LEMMA SeqConcat ==
  ASSUME NEW T, NEW s \in Seq(T), NEW t \in Seq(T)
  PROVE  /\ s \o t \in Seq(T)
         /\ Len(s \o t) = Len(s) + Len(t)
         /\ \A i \in 1 .. Len(s) + Len(t) :
              (s \o t)[i] = IF i <= Len(s) THEN s[i] ELSE t[i - Len(s)]
OBVIOUS

\* No items before or after a sequence change nothing.
LEMMA SeqConcatNone ==
  ASSUME NEW T, NEW s \in Seq(T)
  PROVE  <<>> \o s = s /\ s \o <<>> = s
OBVIOUS

\* The items between two positions.
LEMMA SeqPart ==
  ASSUME NEW T, NEW s, NEW a \in Int, NEW b \in Int, \A i \in a .. b : s[i] \in T
  PROVE  /\ SubSeq(s, a, b) \in Seq(T)
         /\ Len(SubSeq(s, a, b)) = IF a <= b THEN b - a + 1 ELSE 0
         /\ \A i \in 1 .. b - a + 1 : SubSeq(s, a, b)[i] = s[a + i - 1]
OBVIOUS

\* The first item of a sequence and the ones after it.
LEMMA SeqRest ==
  ASSUME NEW T, NEW s \in Seq(T), s # <<>>
  PROVE  /\ Head(s) \in T /\ Tail(s) \in Seq(T)
         /\ Len(Tail(s)) = Len(s) - 1
         /\ \A i \in 1 .. Len(Tail(s)) : Tail(s)[i] = s[i + 1]
OBVIOUS

\* A sequence with one item more.
LEMMA SeqAppend ==
  ASSUME NEW T, NEW s \in Seq(T), NEW x \in T
  PROVE  /\ Append(s, x) \in Seq(T) /\ Append(s, x) # <<>>
         /\ Len(Append(s, x)) = Len(s) + 1
         /\ Append(s, x)[Len(s) + 1] = x
         /\ \A i \in 1 .. Len(s) : Append(s, x)[i] = s[i]
OBVIOUS

\* What is in one of two sequences is in the two together.
LEMMA SeqConcatRange ==
  ASSUME NEW T, NEW s \in Seq(T), NEW t \in Seq(T)
  PROVE  Range(s \o t) = Range(s) \cup Range(t)
<1>1. /\ DOMAIN s = 1 .. Len(s) /\ DOMAIN t = 1 .. Len(t)
      /\ DOMAIN (s \o t) = 1 .. Len(s) + Len(t)
      /\ Len(s) \in Nat /\ Len(t) \in Nat
  BY SeqConcat, SeqLen, SMTT(60)
<1>2. ASSUME NEW i \in 1 .. Len(s) + Len(t)
      PROVE  (s \o t)[i] \in Range(s) \cup Range(t)
  <2>1. CASE i <= Len(s)
    BY <1>1, <2>1, SeqConcat, SMTT(60) DEF Range
  <2>2. CASE ~(i <= Len(s))
    <3>1. i - Len(s) \in 1 .. Len(t) /\ (s \o t)[i] = t[i - Len(s)]
      BY <1>1, <2>2, SeqConcat, SMTT(60)
    <3> QED BY <1>1, <3>1 DEF Range
  <2> QED BY <2>1, <2>2
<1>3. ASSUME NEW i \in 1 .. Len(s)
      PROVE  s[i] \in Range(s \o t)
  <2>1. i \in 1 .. Len(s) + Len(t) /\ (s \o t)[i] = s[i]
    BY <1>1, SeqConcat, SMTT(60)
  <2> QED BY <1>1, <2>1 DEF Range
<1>4. ASSUME NEW i \in 1 .. Len(t)
      PROVE  t[i] \in Range(s \o t)
  <2>1. /\ Len(s) + i \in 1 .. Len(s) + Len(t) /\ ~(Len(s) + i <= Len(s))
        /\ (Len(s) + i) - Len(s) = i
    BY <1>1
  <2>2. (s \o t)[Len(s) + i] = t[i]
    BY <1>1, <2>1, SeqConcat, SMTT(60)
  <2> QED BY <1>1, <2>1, <2>2 DEF Range
<1> QED BY <1>1, <1>2, <1>3, <1>4 DEF Range

-----------------------------------------------------------------------------
(* The packages of a restore.                                              *)

AllItems == [type : {"head", "share"}, n : Nat]

\* The n-th item of what a server sends: the header, then the shares.
Item(items, n) == IF n = 1 THEN HeadItem(Len(items)) ELSE ShareItem(items[n - 1])

\* The number of items in the first p packages.
EndOf(items, p) ==
  IF p = 0 THEN 0 ELSE 1 + (IF p < Len(Packages(items)) THEN p * PackCap ELSE Len(items))

\* s is the items after the from-th, up to the to-th.
AreItems(s, items, from, to) ==
  /\ s \in Seq(AllItems)
  /\ Len(s) = to - from
  /\ \A k \in 1 .. Len(s) : s[k] = Item(items, from + k)

\* The arithmetic of the packages.
LEMMA PackageCount ==
  ASSUME NEW L \in Nat, NEW C \in Nat \ {0}
  PROVE  /\ (L + C - 1) \div C \in Nat
         /\ \A n \in Nat : n = (L + C - 1) \div C /\ 0 < n =>
              /\ (n - 1) * C \in Nat /\ (n - 1) * C < L /\ L <= (n - 1) * C + C
<1>1. (L + C - 1) \div C \in Nat
  OBVIOUS
<1>2. ASSUME NEW n \in Nat, n = (L + C - 1) \div C, 0 < n
      PROVE  /\ (n - 1) * C \in Nat /\ (n - 1) * C < L /\ L <= (n - 1) * C + C
  <2>1. n * C <= L + C - 1 /\ L + C - 1 < n * C + C
    BY <1>2
  <2>2. (n - 1) * C = n * C - C /\ n * C \in Nat
    OBVIOUS
  <2>3. (n - 1) * C \in Nat
    BY <1>2
  <2> QED
    BY <2>1, <2>2, <2>3
<1> QED
  BY <1>1, <1>2

\* A multiple grows with its factor.
LEMMA Multiples ==
  ASSUME NEW C \in Nat, NEW m \in Nat, NEW n \in Nat, m <= n
  PROVE  m * C \in Nat /\ m * C <= n * C /\ (m + 1) * C = m * C + C
OBVIOUS

\* The packages are the items in their order.
LEMMA PackageItems ==
  ASSUME NEW items \in Seq(Nat)
  PROVE  /\ Packages(items) \in Seq(Seq(AllItems))
         /\ \A p \in 0 .. Len(Packages(items)) : EndOf(items, p) \in 0 .. Len(items) + 1
         /\ \A p \in 1 .. Len(Packages(items)) :
              AreItems(Packages(items)[p], items, EndOf(items, p - 1), EndOf(items, p))
<1> DEFINE L == Len(items)
           n == (L + PackCap - 1) \div PackCap
           w(p) == IF p < n THEN PackCap ELSE L - (n - 1) * PackCap
           first(p) == IF p = 1 THEN <<HeadItem(L)>> ELSE <<>>
           shares(p) == [i \in 1 .. w(p) |-> ShareItem(items[(p - 1) * PackCap + i])]
<1>1. L \in Nat /\ PackCap \in Nat \ {0} /\ n \in Nat
  BY SeqLen, PackageCount, DownloadAssumption
<1>2. 0 < n => (n - 1) * PackCap \in Nat /\ (n - 1) * PackCap < L /\ L <= (n - 1) * PackCap + PackCap
  BY <1>1, PackageCount
<1>3. Packages(items) = [p \in 1 .. n |-> first(p) \o shares(p)]
  BY DEF Packages
<1> HIDE DEF n
<1>4. ASSUME NEW p \in 1 .. n
      PROVE  /\ w(p) \in Nat
             /\ (p - 1) * PackCap \in Nat
             /\ (p - 1) * PackCap + w(p) = IF p < n THEN p * PackCap ELSE L
             /\ (p - 1) * PackCap + w(p) <= L
  <2>1. p - 1 \in Nat /\ n - 1 \in Nat /\ p - 1 <= n - 1
    BY <1>1
  <2>2. (p - 1) * PackCap \in Nat /\ (p - 1 + 1) * PackCap = (p - 1) * PackCap + PackCap
    BY <1>1, <2>1, Multiples
  <2>3. CASE p < n
    <3>1. p \in Nat /\ p <= n - 1 /\ p - 1 + 1 = p
      BY <1>1, <2>3
    <3>2. p * PackCap \in Nat /\ p * PackCap <= (n - 1) * PackCap
      BY <1>1, <2>1, <3>1, Multiples
    <3>3. p * PackCap = (p - 1) * PackCap + PackCap
      BY <2>2, <3>1
    <3> QED
      BY <1>1, <1>2, <2>2, <2>3, <3>2, <3>3
  <2>4. CASE ~(p < n)
    <3>1. p = n
      BY <1>1, <2>4
    <3> QED
      BY <1>1, <1>2, <2>2, <2>4, <3>1
  <2> QED
    BY <2>3, <2>4
<1>5. ASSUME NEW p \in 1 .. n
      PROVE  \E B \in Nat, W \in Nat :
               /\ B = (p - 1) * PackCap /\ W = w(p) /\ B + W <= L
               /\ EndOf(items, p) = 1 + B + W
               /\ EndOf(items, p - 1) = IF p = 1 THEN 0 ELSE 1 + B
               /\ p = 1 => B = 0
  <2>1. Len(Packages(items)) = n
    BY <1>1, <1>3, SMTT(60)
  <2>2. EndOf(items, p) = 1 + (IF p < n THEN p * PackCap ELSE L)
    BY <1>1, <2>1 DEF EndOf
  <2>3. EndOf(items, p - 1) = IF p = 1 THEN 0 ELSE 1 + (p - 1) * PackCap
    BY <1>1, <2>1 DEF EndOf
  <2>4. p = 1 => (p - 1) * PackCap = 0
    BY <1>1
  <2>5. PICK B \in Nat : B = (p - 1) * PackCap
    BY <1>4
  <2>6. PICK W \in Nat : W = w(p)
    BY <1>4
  <2>7. B + W <= L /\ B + W = IF p < n THEN p * PackCap ELSE L
    BY <1>4, <2>5, <2>6
  <2>8. EndOf(items, p) = 1 + (B + W)
    BY <2>2, <2>7
  <2>9. EndOf(items, p - 1) = (IF p = 1 THEN 0 ELSE 1 + B) /\ (p = 1 => B = 0)
    BY <2>3, <2>4, <2>5
  <2>10. 1 + (B + W) = 1 + B + W
    OBVIOUS
  <2> QED
    BY <2>5, <2>6, <2>7, <2>8, <2>9, <2>10
<1> HIDE DEF w
<1>6. ASSUME NEW p \in 1 .. n
      PROVE  /\ Packages(items)[p] \in Seq(AllItems)
             /\ EndOf(items, p) \in 0 .. L + 1
             /\ AreItems(Packages(items)[p], items, EndOf(items, p - 1), EndOf(items, p))
  <2>1. PICK B \in Nat, W \in Nat :
               /\ B = (p - 1) * PackCap /\ W = w(p) /\ B + W <= L
               /\ EndOf(items, p) = 1 + B + W
               /\ EndOf(items, p - 1) = IF p = 1 THEN 0 ELSE 1 + B
               /\ p = 1 => B = 0
    BY <1>5
  <2> DEFINE b == [i \in 1 .. W |-> ShareItem(items[B + i])]
  <2>2. shares(p) = b
    BY <2>1
  <2>3. \A i \in 1 .. W : B + i \in 1 .. L
    BY <1>1, <2>1
  <2>4. \A i \in 1 .. W : ShareItem(items[B + i]) \in AllItems
    BY <2>3, SeqItem DEF ShareItem, AllItems
  <2>5. b \in Seq(AllItems) /\ Len(b) = W /\ \A i \in 1 .. W : b[i] = ShareItem(items[B + i])
    BY <2>4
  <2>6. PICK h : h = HeadItem(L)
    OBVIOUS
  <2>7. h \in AllItems
    BY <1>1, <2>6 DEF HeadItem, AllItems
  <2>8. PICK a \in Seq(AllItems) : a = first(p)
    <3>1. CASE p = 1
      <4>1. <<h>> \in Seq(AllItems) /\ first(p) = <<h>>
        BY <2>6, <2>7, <3>1
      <4> QED
        BY <4>1
    <3>2. CASE p # 1
      <4>1. <<>> \in Seq(AllItems) /\ first(p) = <<>>
        BY <3>2, SeqNone
      <4> QED
        BY <4>1
    <3> QED
      BY <3>1, <3>2
  <2>9. Len(a) = (IF p = 1 THEN 1 ELSE 0) /\ (p = 1 => a[1] = HeadItem(L))
    BY <2>6, <2>8
  <2>10. Packages(items)[p] = a \o b
    BY <1>3, <2>2, <2>8
  <2> HIDE DEF b, first, shares
  <2>15. /\ EndOf(items, p) = 1 + B + W
         /\ EndOf(items, p - 1) = IF p = 1 THEN 0 ELSE 1 + B
         /\ p = 1 => B = 0
    BY <2>1
  <2>11. /\ a \o b \in Seq(AllItems)
         /\ Len(a \o b) = Len(a) + W
         /\ \A i \in 1 .. Len(a) + W : (a \o b)[i] = IF i <= Len(a) THEN a[i] ELSE b[i - Len(a)]
    BY <2>5, SeqConcat
  <2>12. Len(a \o b) = EndOf(items, p) - EndOf(items, p - 1)
    BY <2>9, <2>11, <2>15, SMTT(60)
  <2>13. ASSUME NEW k \in 1 .. Len(a \o b)
         PROVE  (a \o b)[k] = Item(items, EndOf(items, p - 1) + k)
    <3>1. CASE k <= Len(a)
      <4>1. k = 1 /\ EndOf(items, p - 1) + k = 1 /\ (a \o b)[k] = HeadItem(L)
        BY <2>9, <2>11, <2>15, <3>1, SMTT(60)
      <4> QED
        BY <4>1 DEF Item
    <3>2. CASE ~(k <= Len(a))
      <4>1. k - Len(a) \in 1 .. W /\ (a \o b)[k] = b[k - Len(a)]
        <5>1. PICK l \in Nat : l = Len(a)
          BY <2>9
        <5>2. k \in 1 .. l + W /\ ~(k <= l)
          BY <2>11, <3>2, <5>1
        <5>3. k - l \in 1 .. W
          BY <5>2
        <5>4. (a \o b)[k] = b[k - l]
          BY <2>11, <5>1, <5>2
        <5> QED
          BY <5>1, <5>3, <5>4
      <4>2. (a \o b)[k] = ShareItem(items[B + (k - Len(a))])
        BY <2>5, <4>1
      <4>3. PICK e \in Int : e = EndOf(items, p - 1) + k
        BY <2>1
      <4>4. e # 1 /\ e - 1 = B + (k - Len(a))
        <5>1. k \in Int /\ 1 <= k - Len(a)
          BY <2>9, <2>11, <4>1, SMTT(60)
        <5>2. CASE p = 1
          <6>1. B = 0 /\ Len(a) = 1 /\ e = k
            BY <2>9, <2>15, <4>3, <5>2
          <6> QED
            BY <5>1, <6>1
        <5>3. CASE p # 1
          <6>1. Len(a) = 0 /\ e = 1 + B + k
            BY <2>9, <2>15, <4>3, <5>3
          <6> QED
            BY <5>1, <6>1
        <5> QED
          BY <5>2, <5>3
      <4>5. (a \o b)[k] = Item(items, e)
        BY <4>2, <4>4 DEF Item
      <4> QED
        BY <4>3, <4>5
    <3> QED
      BY <3>1, <3>2
  <2>14. EndOf(items, p) \in 0 .. L + 1
    BY <1>1, <2>1
  <2> QED
    BY <2>10, <2>11, <2>12, <2>13, <2>14 DEF AreItems
<1>7. Len(Packages(items)) = n /\ Packages(items) \in Seq(Seq(AllItems))
  <2>1. \A p \in 1 .. n : Packages(items)[p] \in Seq(AllItems)
    BY <1>6
  <2>2. Packages(items) = [p \in 1 .. n |-> Packages(items)[p]]
    BY <1>3
  <2> QED
    BY <1>1, <2>1, <2>2
<1>8. EndOf(items, 0) \in 0 .. L + 1
  BY <1>1 DEF EndOf
<1> QED
  BY <1>1, <1>6, <1>7, <1>8

-----------------------------------------------------------------------------
(* The items on their way from a server to main.                           *)

\* p packages have been received and q items inserted into the ring buffer;
\* main has taken n of them.
Stream(items, to, box, ring, n) ==
  \E p \in 0 .. Len(Packages(items)), q \in Nat :
    /\ n \in Nat /\ n <= q /\ q <= EndOf(items, p)
    /\ to \in Seq(Seq(AllItems)) /\ Len(to) = Len(Packages(items)) - p
    /\ \A k \in 1 .. Len(to) : to[k] = Packages(items)[p + k]
    /\ AreItems(box, items, q, EndOf(items, p))
    /\ AreItems(ring, items, n, q)

\* No item is between a place and itself.
LEMMA NoItems ==
  ASSUME NEW items, NEW q \in Nat
  PROVE  AreItems(<<>>, items, q, q)
<1>1. <<>> \in Seq(AllItems) /\ Len(<<>>) = 0 /\ q - q = 0
  BY SeqNone
<1> QED
  BY <1>1 DEF AreItems

\* The first of the items, and the others.
LEMMA FirstItem ==
  ASSUME NEW items, NEW q \in Nat, NEW r \in Nat, NEW s, AreItems(s, items, q, r), s # <<>>
  PROVE  /\ q + 1 <= r /\ s[1] = Item(items, q + 1) /\ s[1] \in AllItems
         /\ AreItems(Tail(s), items, q + 1, r)
<1>1. s \in Seq(AllItems) /\ Len(s) = r - q /\ \A k \in 1 .. Len(s) : s[k] = Item(items, q + k)
  BY DEF AreItems
<1>2. Len(s) \in Nat \ {0}
  BY <1>1, SeqNone
<1>3. 1 \in 1 .. Len(s)
  BY <1>2
<1>4. Tail(s) \in Seq(AllItems) /\ Len(Tail(s)) = Len(s) - 1 /\ \A i \in 1 .. Len(Tail(s)) : Tail(s)[i] = s[i + 1]
  BY <1>1, SeqRest
<1>5. ASSUME NEW i \in 1 .. Len(Tail(s))
      PROVE  Tail(s)[i] = Item(items, q + 1 + i)
  <2>1. i + 1 \in 1 .. Len(s) /\ q + (i + 1) = q + 1 + i
    BY <1>2, <1>4
  <2> QED
    BY <1>1, <1>4, <2>1
<1> QED
  BY <1>1, <1>2, <1>3, <1>4, <1>5, SeqItem, SMTT(60) DEF AreItems

\* One item more.
LEMMA NextItem ==
  ASSUME NEW items, NEW n \in Nat, NEW q \in Nat, NEW s, AreItems(s, items, n, q), n <= q,
         NEW x \in AllItems, x = Item(items, q + 1)
  PROVE  AreItems(Append(s, x), items, n, q + 1)
<1>1. s \in Seq(AllItems) /\ Len(s) = q - n /\ \A k \in 1 .. Len(s) : s[k] = Item(items, n + k)
  BY DEF AreItems
<1>2. /\ Append(s, x) \in Seq(AllItems) /\ Len(Append(s, x)) = Len(s) + 1
      /\ \A i \in 1 .. Len(s) : Append(s, x)[i] = s[i]
      /\ Append(s, x)[Len(s) + 1] = x
  BY <1>1, SeqAppend, SMTT(60)
<1>3. n + (Len(s) + 1) = q + 1 /\ Len(s) + 1 = q + 1 - n /\ Len(s) \in Nat
  BY <1>1
<1>4. ASSUME NEW k \in 1 .. Len(Append(s, x))
      PROVE  Append(s, x)[k] = Item(items, n + k)
  <2>1. CASE k = Len(s) + 1
    BY <1>2, <1>3, <2>1
  <2>2. CASE k # Len(s) + 1
    <3>1. k \in 1 .. Len(s)
      BY <1>2, <1>3, <2>2, SMTT(60)
    <3> QED
      BY <1>1, <1>2, <3>1
  <2> QED
    BY <2>1, <2>2
<1> QED
  BY <1>2, <1>3, <1>4, SMTT(60) DEF AreItems

\* A restore has sent its packages.
LEMMA StreamBegins ==
  ASSUME NEW items \in Seq(Nat)
  PROVE  Stream(items, Packages(items), <<>>, <<>>, 0)
<1>1. PICK N \in Nat : N = Len(Packages(items)) /\ N = N - 0 /\ 0 \in 0 .. N
  BY PackageItems, SeqLen, SMTT(60)
<1>2. EndOf(items, 0) = 0
  BY DEF EndOf
<1>3. AreItems(<<>>, items, 0, 0)
  BY NoItems
<1>4. \A k \in 1 .. Len(Packages(items)) : Packages(items)[k] = Packages(items)[0 + k]
  BY <1>1
<1> QED
  BY <1>1, <1>2, <1>3, <1>4, PackageItems, SMTT(60) DEF Stream

\* downloadChunk takes the next package into the empty container.
LEMMA StreamReceives ==
  ASSUME NEW items \in Seq(Nat), NEW to, NEW ring, NEW n, Stream(items, to, <<>>, ring, n), to # <<>>
  PROVE  Stream(items, Tail(to), to[1], ring, n)
<1>1. PICK p \in 0 .. Len(Packages(items)), q \in Nat :
        /\ n \in Nat /\ n <= q /\ q <= EndOf(items, p)
        /\ to \in Seq(Seq(AllItems)) /\ Len(to) = Len(Packages(items)) - p
        /\ \A k \in 1 .. Len(to) : to[k] = Packages(items)[p + k]
        /\ AreItems(<<>>, items, q, EndOf(items, p))
        /\ AreItems(ring, items, n, q)
  BY DEF Stream
<1>2. Len(Packages(items)) \in Nat /\ EndOf(items, p) \in Nat
  BY PackageItems, SeqLen, SMTT(60)
<1>3. Len(to) \in Nat \ {0}
  BY <1>1, SeqNone
<1>4. q = EndOf(items, p)
  BY <1>1, <1>2, SeqNone DEF AreItems
<1>5. p + 1 \in 1 .. Len(Packages(items)) /\ p + 1 - 1 = p
  BY <1>1, <1>2, <1>3
<1>6. to[1] = Packages(items)[p + 1]
  BY <1>1, <1>3, SMTT(60)
<1>7. AreItems(to[1], items, q, EndOf(items, p + 1))
  BY <1>4, <1>5, <1>6, PackageItems
<1>8. EndOf(items, p + 1) \in Nat /\ q <= EndOf(items, p + 1)
  <2>1. EndOf(items, p + 1) \in Nat
    BY <1>2, <1>5, PackageItems, SeqLen, SMTT(60)
  <2>2. Len(to[1]) \in Nat /\ Len(to[1]) = EndOf(items, p + 1) - q
    BY <1>7, SeqLen DEF AreItems
  <2> QED
    BY <2>1, <2>2
<1>9. Tail(to) \in Seq(Seq(AllItems)) /\ Len(Tail(to)) = Len(to) - 1
      /\ \A i \in 1 .. Len(Tail(to)) : Tail(to)[i] = to[i + 1]
  BY <1>1, SeqRest
<1>10. Len(Tail(to)) = Len(Packages(items)) - (p + 1)
  BY <1>1, <1>2, <1>9, SMTT(60)
<1>11. ASSUME NEW k \in 1 .. Len(Tail(to))
       PROVE  Tail(to)[k] = Packages(items)[p + 1 + k]
  <2>1. k + 1 \in 1 .. Len(to) /\ p + (k + 1) = p + 1 + k
    BY <1>2, <1>3, <1>9
  <2> QED
    BY <1>1, <1>9, <2>1
<1>12. p + 1 \in 0 .. Len(Packages(items))
  BY <1>5
<1> QED
  BY <1>1, <1>7, <1>8, <1>9, <1>10, <1>11, <1>12 DEF Stream

\* insertItem moves an item from the container into the ring buffer.
LEMMA StreamInserts ==
  ASSUME NEW items \in Seq(Nat), NEW to, NEW box, NEW ring, NEW n, Stream(items, to, box, ring, n), box # <<>>
  PROVE  Stream(items, to, Tail(box), Append(ring, box[1]), n)
<1>1. PICK p \in 0 .. Len(Packages(items)), q \in Nat :
        /\ n \in Nat /\ n <= q /\ q <= EndOf(items, p)
        /\ to \in Seq(Seq(AllItems)) /\ Len(to) = Len(Packages(items)) - p
        /\ \A k \in 1 .. Len(to) : to[k] = Packages(items)[p + k]
        /\ AreItems(box, items, q, EndOf(items, p))
        /\ AreItems(ring, items, n, q)
  BY DEF Stream
<1>2. EndOf(items, p) \in Nat
  BY PackageItems, SeqLen, SMTT(60)
<1>3. /\ q + 1 <= EndOf(items, p) /\ box[1] = Item(items, q + 1) /\ box[1] \in AllItems
      /\ AreItems(Tail(box), items, q + 1, EndOf(items, p))
  BY <1>1, <1>2, FirstItem
<1>4. AreItems(Append(ring, box[1]), items, n, q + 1)
  BY <1>1, <1>3, NextItem
<1>5. q + 1 \in Nat /\ n <= q + 1
  BY <1>1
<1> QED
  BY <1>1, <1>3, <1>4, <1>5 DEF Stream

\* main takes the next item.
LEMMA StreamExtracts ==
  ASSUME NEW items \in Seq(Nat), NEW to, NEW box, NEW ring, NEW n, Stream(items, to, box, ring, n), ring # <<>>
  PROVE  /\ Stream(items, to, box, Tail(ring), n + 1)
         /\ n + 1 \in 1 .. Len(items) + 1
         /\ ring[1] = Item(items, n + 1)
<1>1. PICK p \in 0 .. Len(Packages(items)), q \in Nat :
        /\ n \in Nat /\ n <= q /\ q <= EndOf(items, p)
        /\ to \in Seq(Seq(AllItems)) /\ Len(to) = Len(Packages(items)) - p
        /\ \A k \in 1 .. Len(to) : to[k] = Packages(items)[p + k]
        /\ AreItems(box, items, q, EndOf(items, p))
        /\ AreItems(ring, items, n, q)
  BY DEF Stream
<1>2. EndOf(items, p) \in 0 .. Len(items) + 1 /\ Len(items) \in Nat
  BY PackageItems, SeqLen
<1>3. n + 1 <= q /\ ring[1] = Item(items, n + 1) /\ AreItems(Tail(ring), items, n + 1, q)
  <2>1. AreItems(ring, items, n, q) /\ n \in Nat
    BY <1>1
  <2> QED
    BY <2>1, FirstItem
<1>4. n + 1 \in Nat /\ n + 1 \in 1 .. Len(items) + 1
  BY <1>1, <1>2, <1>3, SMTT(60)
<1> QED
  BY <1>1, <1>3, <1>4 DEF Stream

-----------------------------------------------------------------------------
(* A connection of the current session.                                    *)

KeyRequest == [type |-> "GET_KEY_RECIPE"]
Request    == [type |-> "DOWNLOAD"]
Message    == {KeyRequest, Request} \cup [type : {"FILE_RECIPE"}, entries : Seq(Nat)]

\* r lists the first secrets of the file, and all with a complete key recipe.
Prefix(kr, r) ==
  /\ Len(r) <= Len(Secrets)
  /\ \A j \in 1 .. Len(r) : r[j] = Secrets[j]
  /\ kr = OwnKeys(NumMeta) => Len(r) = Len(Secrets)

\* What a server that has the key recipe kr sends: the meta chunks, or shares.
Sent(d, kr, items) ==
  /\ items \in Seq(Nat)
  /\ IF d = "meta" THEN Len(items) = NumMeta /\ \A j \in 1 .. NumMeta : items[j] = j
                   ELSE Prefix(kr, items)

OnlyRecipes(req) == req \in Seq(Message) /\ \A k \in 1 .. Len(req) : req[k].type = "FILE_RECIPE"

\* The thread tp of a connection waits for its signal (and main may ask for
\* the key recipe: ask), or it has sent its request, which may get no answer, or
\* the answer is on its way.  req and to are the messages in the connection,
\* box the container and ring the ring buffer; main has taken n items.
Connection(d, kr, req, tp, to, box, ring, n, ask) ==
  \/ /\ tp = "signal" /\ n = 0 /\ box = <<>> /\ ring = <<>>
     /\ \/ ask = "asked" /\ req = <<KeyRequest>> /\ to = <<>>
        \/ ask = "asked" /\ req = <<>> /\ to = <<kr>>
        \/ ask = "none" /\ req = <<>> /\ to = <<>>
  \/ /\ tp # "signal" /\ ask = "none" /\ n = 0 /\ box = <<>> /\ ring = <<>> /\ to = <<>>
     /\ req = <<Request>> \/ req = <<>>
  \/ /\ tp # "signal" /\ ask = "none" /\ OnlyRecipes(req)
     /\ \E items : Sent(d, kr, items) /\ Stream(items, to, box, ring, n)

\* Sequences of at most one element.
LEMMA Single ==
  ASSUME NEW x
  PROVE  /\ Append(<<>>, x) = <<x>> /\ <<>> \o <<x>> = <<x>>
         /\ Tail(<<x>>) = <<>> /\ <<x>>[1] = x /\ <<x>> # <<>>
OBVIOUS

\* The types of the messages.
LEMMA MessageTypes ==
  /\ KeyRequest.type = "GET_KEY_RECIPE" /\ Request.type = "DOWNLOAD"
  /\ KeyRequest \in Message /\ Request \in Message
BY DEF KeyRequest, Request, Message

\* initDownload.
LEMMA ConnectionRequests ==
  ASSUME NEW d, NEW kr, NEW req, NEW to, NEW box, NEW ring, NEW n,
         Connection(d, kr, req, "signal", to, box, ring, n, "none")
  PROVE  Connection(d, kr, Append(req, Request), "header", to, box, ring, n, "none")
<1>1. req = <<>> /\ to = <<>> /\ n = 0 /\ box = <<>> /\ ring = <<>>
  BY DEF Connection
<1>2. Append(req, Request) = <<Request>>
  BY <1>1, Single
<1> QED
  BY <1>1, <1>2 DEF Connection

\* downloadChunk.
LEMMA ConnectionReceives ==
  ASSUME NEW d, NEW kr, NEW req, NEW tp, NEW to, NEW ring, NEW n, NEW ask,
         Connection(d, kr, req, tp, to, <<>>, ring, n, ask), tp # "signal", to # <<>>
  PROVE  Connection(d, kr, req, tp, Tail(to), to[1], ring, n, ask)
<1>1. PICK items : Sent(d, kr, items) /\ Stream(items, to, <<>>, ring, n) /\ ask = "none" /\ OnlyRecipes(req)
  BY DEF Connection
<1>2. Stream(items, Tail(to), to[1], ring, n)
  BY <1>1, StreamReceives DEF Sent
<1> QED
  BY <1>1, <1>2 DEF Connection

\* insertItem.
LEMMA ConnectionInserts ==
  ASSUME NEW d, NEW kr, NEW req, NEW tp, NEW to, NEW box, NEW ring, NEW n, NEW ask, NEW tq,
         Connection(d, kr, req, tp, to, box, ring, n, ask), box # <<>>, tq # "signal"
  PROVE  Connection(d, kr, req, tq, to, Tail(box), Append(ring, box[1]), n, ask)
<1>1. PICK items : Sent(d, kr, items) /\ Stream(items, to, box, ring, n) /\ ask = "none" /\ OnlyRecipes(req)
  BY DEF Connection
<1>2. Stream(items, to, Tail(box), Append(ring, box[1]), n)
  BY <1>1, StreamInserts DEF Sent
<1> QED
  BY <1>1, <1>2 DEF Connection

\* it is the n-th item of what a server sends.
ItemOf(d, kr, n, it) == \E items : Sent(d, kr, items) /\ n \in 1 .. Len(items) + 1 /\ it = Item(items, n)

\* main takes an item.
LEMMA ConnectionExtracts ==
  ASSUME NEW d, NEW kr, NEW req, NEW tp, NEW to, NEW box, NEW ring, NEW n, NEW ask,
         Connection(d, kr, req, tp, to, box, ring, n, ask), ring # <<>>
  PROVE  /\ Connection(d, kr, req, tp, to, box, Tail(ring), n + 1, ask)
         /\ ItemOf(d, kr, n + 1, ring[1])
<1>1. PICK items : Sent(d, kr, items) /\ Stream(items, to, box, ring, n) /\ ask = "none" /\ OnlyRecipes(req)
                   /\ tp # "signal"
  BY DEF Connection
<1>2. /\ Stream(items, to, box, Tail(ring), n + 1)
      /\ n + 1 \in 1 .. Len(items) + 1
      /\ ring[1] = Item(items, n + 1)
  BY <1>1, StreamExtracts DEF Sent
<1>3. ItemOf(d, kr, n + 1, ring[1])
  BY <1>1, <1>2 DEF ItemOf
<1> QED
  BY <1>1, <1>2, <1>3 DEF Connection

\* uploadRetrivedRecipeFile, when main has taken items.
LEMMA ConnectionFiles ==
  ASSUME NEW d, NEW kr, NEW req, NEW tp, NEW to, NEW box, NEW ring, NEW n, NEW ask, NEW msg \in Message,
         Connection(d, kr, req, tp, to, box, ring, n, ask), n # 0, msg.type = "FILE_RECIPE"
  PROVE  Connection(d, kr, Append(req, msg), tp, to, box, ring, n, ask)
<1>1. /\ OnlyRecipes(req) /\ tp # "signal" /\ ask = "none"
      /\ \E items : Sent(d, kr, items) /\ Stream(items, to, box, ring, n)
  BY DEF Connection
<1>2. OnlyRecipes(Append(req, msg))
  <2>1. req \in Seq(Message) /\ Len(req) \in Nat
    BY <1>1, SeqLen DEF OnlyRecipes
  <2>2. /\ Append(req, msg) \in Seq(Message) /\ Len(Append(req, msg)) = Len(req) + 1
        /\ \A i \in 1 .. Len(req) : Append(req, msg)[i] = req[i]
        /\ Append(req, msg)[Len(req) + 1] = msg
    BY <2>1, SeqAppend, SMTT(60)
  <2>3. ASSUME NEW k \in 1 .. Len(Append(req, msg))
        PROVE  Append(req, msg)[k].type = "FILE_RECIPE"
    <3>1. k \in 1 .. Len(req) \/ k = Len(req) + 1
      BY <2>1, <2>2
    <3> QED
      BY <1>1, <2>2, <3>1 DEF OnlyRecipes
  <2> QED
    BY <2>2, <2>3 DEF OnlyRecipes
<1> QED
  BY <1>1, <1>2 DEF Connection

\* A server stores a recipe.
LEMMA ConnectionStores ==
  ASSUME NEW d, NEW kr, NEW req, NEW tp, NEW to, NEW box, NEW ring, NEW n, NEW ask,
         Connection(d, kr, req, tp, to, box, ring, n, ask), req # <<>>, req[1].type = "FILE_RECIPE"
  PROVE  Connection(d, kr, Tail(req), tp, to, box, ring, n, ask)
<1>1. /\ OnlyRecipes(req) /\ tp # "signal" /\ ask = "none"
      /\ \E items : Sent(d, kr, items) /\ Stream(items, to, box, ring, n)
  BY Single, MessageTypes DEF Connection
<1>2. OnlyRecipes(Tail(req))
  <2>1. req \in Seq(Message) /\ Len(req) \in Nat
    BY <1>1, SeqLen DEF OnlyRecipes
  <2>2. /\ Tail(req) \in Seq(Message) /\ Len(Tail(req)) = Len(req) - 1
        /\ \A i \in 1 .. Len(Tail(req)) : Tail(req)[i] = req[i + 1]
    BY <2>1, SeqRest
  <2>3. ASSUME NEW k \in 1 .. Len(Tail(req))
        PROVE  Tail(req)[k].type = "FILE_RECIPE"
    <3>1. k + 1 \in 1 .. Len(req)
      BY <2>1, <2>2
    <3> QED
      BY <1>1, <2>2, <3>1 DEF OnlyRecipes
  <2> QED
    BY <2>2, <2>3 DEF OnlyRecipes
<1> QED
  BY <1>1, <1>2 DEF Connection

\* A server answers, or not, the request of a thread.
LEMMA ConnectionAnswers ==
  ASSUME NEW d, NEW kr, NEW req, NEW tp, NEW to, NEW box, NEW ring, NEW n, NEW ask,
         Connection(d, kr, req, tp, to, box, ring, n, ask), req # <<>>, req[1].type = "DOWNLOAD"
  PROVE  /\ Connection(d, kr, Tail(req), tp, to, box, ring, n, ask)
         /\ \A items : Sent(d, kr, items) =>
              Connection(d, kr, Tail(req), tp, to \o Packages(items), box, ring, n, ask)
<1>1. ~OnlyRecipes(req)
  <2>1. SUFFICES ASSUME OnlyRecipes(req) PROVE FALSE
    OBVIOUS
  <2>2. 1 \in 1 .. Len(req)
    BY <2>1, SeqNone, SMTT(60) DEF OnlyRecipes
  <2> QED
    BY <2>1, <2>2 DEF OnlyRecipes
<1>2. /\ tp # "signal" /\ ask = "none" /\ n = 0 /\ box = <<>> /\ ring = <<>> /\ to = <<>>
      /\ req = <<Request>>
  BY <1>1, Single, MessageTypes DEF Connection
<1>3. Tail(req) = <<>>
  BY <1>2, Single
<1>4. ASSUME NEW items, Sent(d, kr, items)
      PROVE  Connection(d, kr, Tail(req), tp, to \o Packages(items), box, ring, n, ask)
  <2>1. items \in Seq(Nat)
    BY <1>4 DEF Sent
  <2>2. to \o Packages(items) = Packages(items)
    BY <1>2, <2>1, PackageItems, SeqConcatNone
  <2>3. Stream(items, to \o Packages(items), box, ring, n)
    BY <1>2, <2>1, <2>2, StreamBegins
  <2>4. OnlyRecipes(<<>>)
    BY SeqNone DEF OnlyRecipes
  <2> QED
    BY <1>2, <1>3, <1>4, <2>3, <2>4 DEF Connection
<1> QED
  BY <1>2, <1>3, <1>4 DEF Connection

\* main asks for the key recipe, the server sends it, and main takes it.
LEMMA ConnectionKeys ==
  ASSUME NEW d, NEW kr, NEW req, NEW tp, NEW to, NEW box, NEW ring, NEW n, NEW ask,
         Connection(d, kr, req, tp, to, box, ring, n, ask)
  PROVE  /\ ask = "none" /\ tp = "signal" => Connection(d, kr, Append(req, KeyRequest), tp, to, box, ring, n, "asked")
         /\ req # <<>> /\ req[1].type = "GET_KEY_RECIPE" =>
              Connection(d, kr, Tail(req), tp, to \o <<kr>>, box, ring, n, ask)
         /\ ask = "asked" /\ to # <<>> => Connection(d, kr, req, tp, Tail(to), box, ring, n, "none")
<1>1. ASSUME ask = "none", tp = "signal"
      PROVE  Connection(d, kr, Append(req, KeyRequest), tp, to, box, ring, n, "asked")
  <2>1. req = <<>> /\ to = <<>> /\ n = 0 /\ box = <<>> /\ ring = <<>>
    BY <1>1 DEF Connection
  <2>2. Append(req, KeyRequest) = <<KeyRequest>>
    BY <2>1, Single
  <2> QED
    BY <1>1, <2>1, <2>2 DEF Connection
<1>2. ASSUME req # <<>>, req[1].type = "GET_KEY_RECIPE"
      PROVE  Connection(d, kr, Tail(req), tp, to \o <<kr>>, box, ring, n, ask)
  <2>1. ~OnlyRecipes(req)
    <3>1. SUFFICES ASSUME OnlyRecipes(req) PROVE FALSE
      OBVIOUS
    <3>2. 1 \in 1 .. Len(req)
      BY <1>2, <3>1, SeqNone, SMTT(60) DEF OnlyRecipes
    <3> QED
      BY <1>2, <3>1, <3>2 DEF OnlyRecipes
  <2>2. ask = "asked" /\ req = <<KeyRequest>> /\ to = <<>> /\ tp = "signal" /\ n = 0 /\ box = <<>> /\ ring = <<>>
    BY <1>2, <2>1, Single, MessageTypes DEF Connection
  <2>3. Tail(req) = <<>> /\ to \o <<kr>> = <<kr>>
    BY <2>2, Single
  <2> QED
    BY <2>2, <2>3 DEF Connection
<1>3. ASSUME ask = "asked", to # <<>>
      PROVE  Connection(d, kr, req, tp, Tail(to), box, ring, n, "none")
  <2>1. req = <<>> /\ to = <<kr>> /\ tp = "signal" /\ n = 0 /\ box = <<>> /\ ring = <<>>
    BY <1>3 DEF Connection
  <2>2. Tail(to) = <<>>
    BY <2>1, Single
  <2> QED
    BY <2>1, <2>2 DEF Connection
<1> QED
  BY <1>1, <1>2, <1>3

-----------------------------------------------------------------------------
(* The file recipe that main writes from the meta chunks of a cloud.       *)

\* r is share-i.recipe after m meta chunks, with the key recipe kr.
WrittenUpTo(kr, m, r) ==
  \/ Unknown \in Range(r)
  \/ /\ kr \in {OwnKeys(NumMeta), OwnKeys(NumMeta - 1)} \/ m = 0
     /\ Len(r) = Listed(IF kr = OwnKeys(NumMeta) \/ m < NumMeta THEN m ELSE m - 1)
     /\ \A j \in 1 .. Len(r) : r[j] = Secrets[j]

\* No server can restore r, or it is the beginning of the file.
Recipe(kr, r) == Unknown \in Range(r) \/ Prefix(kr, r)

\* The constants.
LEMMA Constants ==
  /\ NumMeta \in Nat \ {0} /\ Len(Secrets) \in Nat \ {0} /\ Clouds \in Nat \ {0}
  /\ Listed(0) = 0 /\ Listed(NumMeta) = Len(Secrets)
  /\ \A m \in 0 .. NumMeta : Listed(m) \in 0 .. Len(Secrets)
  /\ \A m \in 1 .. NumMeta : Listed(m - 1) < Listed(m)
<1>1. /\ Secrets \in Seq(Nat \ {0}) /\ Ends \in Seq(1 .. Len(Secrets)) /\ Ends # <<>>
      /\ Ends[Len(Ends)] = Len(Secrets)
      /\ \A m, n \in DOMAIN Ends : m < n => Ends[m] < Ends[n]
  BY DownloadAssumption
<1>2. NumMeta \in Nat \ {0} /\ Len(Secrets) \in Nat /\ DOMAIN Ends = 1 .. NumMeta
  BY <1>1, SeqNone, SeqLen DEF NumMeta
<1>3. \A m \in 1 .. NumMeta : Ends[m] \in 1 .. Len(Secrets)
  BY <1>1, SeqItem DEF NumMeta
<1>4. Len(Secrets) # 0
  BY <1>2, <1>3
<1>5. ASSUME NEW m \in 1 .. NumMeta
      PROVE  Listed(m - 1) < Listed(m)
  <2>1. CASE m = 1
    <3>1. Listed(m) = Ends[m] /\ Listed(m - 1) = 0
      BY <2>1 DEF Listed
    <3> QED
      BY <1>2, <1>3, <3>1
  <2>2. CASE m # 1
    <3>1. m \in DOMAIN Ends /\ m - 1 \in DOMAIN Ends /\ m - 1 < m /\ m # 0 /\ m - 1 # 0
      BY <1>2, <2>2
    <3> QED
      BY <1>1, <3>1 DEF Listed
  <2> QED
    BY <2>1, <2>2
<1>6. Listed(0) = 0 /\ Listed(NumMeta) = Len(Secrets)
  BY <1>1, <1>2 DEF Listed, NumMeta
<1>7. \A m \in 0 .. NumMeta : Listed(m) \in 0 .. Len(Secrets)
  BY <1>2, <1>3 DEF Listed
<1> QED
  BY <1>2, <1>4, <1>5, <1>6, <1>7, DownloadAssumption

\* The secrets of a meta chunk.
LEMMA SegmentSecrets ==
  ASSUME NEW m \in 1 .. NumMeta
  PROVE  /\ Segment(m) \in Seq(Nat) /\ Len(Segment(m)) = Listed(m) - Listed(m - 1)
         /\ \A i \in 1 .. Len(Segment(m)) : Segment(m)[i] = Secrets[Listed(m - 1) + i]
<1>1. PICK a \in Nat : a = Listed(m - 1)
  BY Constants
<1>2. PICK b \in Nat : b = Listed(m) /\ a < b /\ b <= Len(Secrets)
  <2>1. m \in 0 .. NumMeta
    BY Constants
  <2>2. Listed(m) \in Nat /\ Listed(m) <= Len(Secrets)
    BY <2>1, Constants
  <2> QED
    BY <1>1, <2>2, Constants
<1>3. \A i \in a + 1 .. b : Secrets[i] \in Nat
  <2>1. \A i \in a + 1 .. b : i \in 1 .. Len(Secrets)
    BY <1>1, <1>2, Constants
  <2>2. Secrets \in Seq(Nat \ {0})
    BY DownloadAssumption
  <2> QED
    BY <2>1, <2>2, SeqItem
<1>4. /\ SubSeq(Secrets, a + 1, b) \in Seq(Nat)
      /\ Len(SubSeq(Secrets, a + 1, b)) = IF a + 1 <= b THEN b - (a + 1) + 1 ELSE 0
      /\ \A i \in 1 .. b - (a + 1) + 1 : SubSeq(Secrets, a + 1, b)[i] = Secrets[a + 1 + i - 1]
  <2>1. a + 1 \in Int /\ b \in Int
    BY <1>1, <1>2
  <2> QED
    BY <1>3, <2>1, SeqPart, SMTT(60)
<1>5. Segment(m) = SubSeq(Secrets, a + 1, b)
  BY <1>1, <1>2 DEF Segment
<1>6. Len(Segment(m)) = b - a
  BY <1>1, <1>2, <1>4, <1>5
<1>7. ASSUME NEW i \in 1 .. Len(Segment(m))
      PROVE  Segment(m)[i] = Secrets[a + i]
  <2>1. i \in 1 .. b - (a + 1) + 1 /\ a + 1 + i - 1 = a + i
    BY <1>1, <1>2, <1>6
  <2> QED
    BY <1>4, <1>5, <2>1
<1> QED
  BY <1>1, <1>2, <1>4, <1>5, <1>6, <1>7

\* A key recipe of the upload itself.
LEMMA KeysOfUpload ==
  ASSUME NEW n \in Nat
  PROVE  /\ OwnKeys(n) \in Seq([id : Nat, own : BOOLEAN]) /\ Len(OwnKeys(n)) = n
         /\ \A i \in 1 .. n : OwnKeys(n)[i].id = i /\ OwnKeys(n)[i].own
<1> DEFINE k(i) == [id |-> i, own |-> TRUE]
<1>1. \A i \in 1 .. n : k(i) \in [id : Nat, own : BOOLEAN] /\ k(i).id = i /\ k(i).own
  OBVIOUS
<1>2. OwnKeys(n) = [i \in 1 .. n |-> k(i)]
  BY DEF OwnKeys
<1> HIDE DEF k
<1>3. [i \in 1 .. n |-> k(i)] \in Seq([id : Nat, own : BOOLEAN])
  BY <1>1, SMTT(60)
<1>4. Len([i \in 1 .. n |-> k(i)]) = n
  OBVIOUS
<1> QED
  BY <1>1, <1>2, <1>3, <1>4

\* What is written for a chunk.
LEMMA EntriesOfChunk ==
  ASSUME NEW c \in Cloud, keyRecipe[c] \in KeyRecipes, NEW id \in 1 .. NumMeta, NEW e \in Entries(c, id)
  PROVE  /\ e \in Seq(Nat)
         /\ keyRecipe[c] = OwnKeys(NumMeta) => e = Segment(id)
         /\ keyRecipe[c] = OwnKeys(NumMeta - 1) /\ id < NumMeta => e = Segment(id)
         /\ keyRecipe[c] = OwnKeys(NumMeta - 1) /\ id = NumMeta => e = <<>> \/ Unknown \in Range(e)
         /\ keyRecipe[c] \notin {OwnKeys(NumMeta), OwnKeys(NumMeta - 1)} /\ id = 1 => Unknown \in Range(e)
<1> DEFINE garbled == [i \in DOMAIN Segment(id) |-> Unknown]
           keys == keyRecipe[c]
           key  == keys[IF id <= Len(keys) THEN id ELSE Len(keys)]
<1>1. /\ Segment(id) \in Seq(Nat) /\ Len(Segment(id)) \in Nat \ {0}
      /\ DOMAIN Segment(id) = 1 .. Len(Segment(id))
  <2>1. Segment(id) \in Seq(Nat) /\ Len(Segment(id)) = Listed(id) - Listed(id - 1)
    BY SegmentSecrets
  <2>2. Listed(id - 1) < Listed(id) /\ Listed(id) \in Nat /\ Listed(id - 1) \in Nat
    BY Constants
  <2> QED
    BY <2>1, <2>2, SeqLen, SMTT(60)
<1>2. garbled \in Seq(Nat) /\ Unknown \in Range(garbled)
  <2>1. garbled = [i \in 1 .. Len(Segment(id)) |-> 0]
    BY <1>1 DEF Unknown
  <2>2. garbled \in Seq(Nat)
    BY <1>1, <2>1, SMTT(60)
  <2>3. 1 \in DOMAIN garbled /\ garbled[1] = Unknown
    BY <1>1
  <2> QED
    BY <2>2, <2>3 DEF Range
<1>3. /\ keys = <<>> => e = <<>> \/ e = garbled
      /\ keys # <<>> => e = IF key.id # id THEN <<>> ELSE IF key.own THEN Segment(id) ELSE garbled
  BY DEF Entries
<1> HIDE DEF garbled
<1>4. e \in Seq(Nat)
  BY <1>1, <1>2, <1>3, SeqNone
<1>5. ASSUME NEW n \in {NumMeta, NumMeta - 1}, keys = OwnKeys(n)
      PROVE  /\ Len(keys) = n
             /\ \A i \in 1 .. n : keys[i].id = i /\ keys[i].own
             /\ 0 < n => keys # <<>>
  <2>1. n \in Nat
    BY Constants, SMTT(60)
  <2>2. /\ Len(OwnKeys(n)) = n
        /\ \A i \in 1 .. n : OwnKeys(n)[i].id = i /\ OwnKeys(n)[i].own
    BY <2>1, KeysOfUpload
  <2>3. 0 < n => OwnKeys(n) # <<>>
    BY <2>1, <2>2, SeqNone, SMTT(60)
  <2> QED
    BY <1>5, <2>2, <2>3
<1>10. ASSUME NEW n \in {NumMeta, NumMeta - 1}, keys = OwnKeys(n), id <= n
       PROVE  e = Segment(id)
  <2>1. keys # <<>> /\ Len(keys) = n /\ id \in 1 .. n
    BY <1>5, <1>10, Constants, SMTT(60)
  <2>2. key = keys[id]
    BY <1>10, <2>1
  <2>3. key.id = id /\ key.own
    BY <1>5, <1>10, <2>1, <2>2
  <2> HIDE DEF key, keys
  <2> QED
    BY <1>3, <2>1, <2>3
<1>6. keyRecipe[c] = OwnKeys(NumMeta) => e = Segment(id)
  BY <1>10, Constants
<1>7. keyRecipe[c] = OwnKeys(NumMeta - 1) /\ id < NumMeta => e = Segment(id)
  BY <1>10, Constants
<1>8. ASSUME keyRecipe[c] = OwnKeys(NumMeta - 1), id = NumMeta
      PROVE  e = <<>> \/ Unknown \in Range(e)
  <2>1. CASE keys = <<>>
    BY <1>2, <1>3, <2>1
  <2>2. CASE keys # <<>>
    <3>1. Len(keys) = NumMeta - 1 /\ NumMeta - 1 # 0
      <4>1. Len(keys) = NumMeta - 1
        BY <1>5, <1>8
      <4>2. NumMeta - 1 = 0 => keys = <<>>
        BY <1>8, SMTT(60) DEF OwnKeys
      <4> QED
        BY <2>2, <4>1, <4>2
    <3>2. key.id = NumMeta - 1
      BY <1>5, <1>8, <3>1, Constants, SMTT(60)
    <3> QED
      BY <1>3, <1>8, <2>2, <3>2, Constants
  <2> QED
    BY <2>1, <2>2
<1>9. ASSUME keyRecipe[c] \notin {OwnKeys(NumMeta), OwnKeys(NumMeta - 1)}, id = 1
      PROVE  Unknown \in Range(e)
  <2>1. keys = <<StaleKey>> \o OwnKeys(NumMeta)
    BY <1>9 DEF KeyRecipes
  <2>2. /\ keys # <<>> /\ 1 <= Len(keys) /\ keys[1] = StaleKey
    <3>1. PICK s : s = StaleKey
      OBVIOUS
    <3>2. PICK o : o = OwnKeys(NumMeta) /\ o \in Seq([id : Nat, own : BOOLEAN]) /\ Len(o) = NumMeta
      BY Constants, KeysOfUpload
    <3>3. s \in [id : Nat, own : BOOLEAN]
      BY <3>1 DEF StaleKey
    <3>4. <<s>> \in Seq([id : Nat, own : BOOLEAN]) /\ Len(<<s>>) = 1 /\ <<s>>[1] = s
      BY <3>3, SMTT(60)
    <3>5. /\ Len(<<s>> \o o) = 1 + NumMeta /\ (<<s>> \o o)[1] = s /\ <<s>> \o o # <<>>
      <4>1. /\ <<s>> \o o \in Seq([id : Nat, own : BOOLEAN])
            /\ Len(<<s>> \o o) = Len(<<s>>) + Len(o)
            /\ \A i \in 1 .. Len(<<s>>) + Len(o) :
                 (<<s>> \o o)[i] = IF i <= Len(<<s>>) THEN <<s>>[i] ELSE o[i - Len(<<s>>)]
        BY <3>2, <3>4, SeqConcat, SMTT(60)
      <4>2. Len(<<s>> \o o) = 1 + NumMeta /\ (<<s>> \o o)[1] = s
        BY <3>2, <3>4, <4>1, Constants, SMTT(60)
      <4> QED
        BY <4>2, Constants, SeqNone
    <3> QED
      BY <2>1, <3>1, <3>2, <3>5, Constants
  <2>3. key = StaleKey
    BY <1>9, <2>2
  <2>4. key.id = 1 /\ ~key.own
    BY <2>3 DEF StaleKey
  <2> QED
    BY <1>2, <1>3, <1>9, <2>2, <2>4
<1> QED
  BY <1>4, <1>6, <1>7, <1>8, <1>9

\* The secrets of the next chunk continue those of the chunks before.
LEMMA NextSegment ==
  ASSUME NEW m \in 0 .. NumMeta - 1, NEW r \in Seq(Nat), Len(r) = Listed(m),
         \A j \in 1 .. Len(r) : r[j] = Secrets[j]
  PROVE  /\ Len(r \o Segment(m + 1)) = Listed(m + 1)
         /\ \A j \in 1 .. Len(r \o Segment(m + 1)) : (r \o Segment(m + 1))[j] = Secrets[j]
<1>1. m + 1 \in 1 .. NumMeta /\ m + 1 - 1 = m /\ m + 1 \in 0 .. NumMeta /\ m \in 0 .. NumMeta
  BY Constants
<1>2. PICK a \in Nat, b \in Nat : a = Listed(m) /\ b = Listed(m + 1) /\ a < b
  <2>1. Listed(m) \in Nat /\ Listed(m + 1) \in Nat
    BY <1>1, Constants, SMTT(60)
  <2>2. Listed(m + 1 - 1) < Listed(m + 1)
    BY <1>1, Constants
  <2> QED
    BY <1>1, <2>1, <2>2
<1>3. PICK t \in Seq(Nat) : t = Segment(m + 1)
  BY <1>1, SegmentSecrets
<1>4. Len(t) = b - a /\ \A i \in 1 .. Len(t) : t[i] = Secrets[a + i]
  BY <1>1, <1>2, <1>3, SegmentSecrets, SMTT(60)
<1>5. /\ Len(r \o t) = Len(r) + Len(t)
      /\ \A i \in 1 .. Len(r) + Len(t) : (r \o t)[i] = IF i <= Len(r) THEN r[i] ELSE t[i - Len(r)]
  BY SeqConcat
<1>6. Len(r) = a /\ Len(r \o t) = b
  BY <1>2, <1>4, <1>5, SMTT(60)
<1>7. ASSUME NEW j \in 1 .. b
      PROVE  (r \o t)[j] = Secrets[j]
  <2>1. CASE j <= a
    BY <1>4, <1>5, <1>6, <2>1, SMTT(60)
  <2>2. CASE ~(j <= a)
    <3>1. j - a \in 1 .. Len(t) /\ a + (j - a) = j
      BY <1>2, <1>4, <2>2, SMTT(60)
    <3>2. (r \o t)[j] = t[j - a]
      BY <1>2, <1>4, <1>5, <1>6, <2>2
    <3> QED
      BY <1>4, <3>1, <3>2
  <2> QED
    BY <2>1, <2>2
<1> QED
  BY <1>2, <1>3, <1>6, <1>7

\* writeRetrivedFileRecipe.
LEMMA WrittenNext ==
  ASSUME NEW c \in Cloud, keyRecipe[c] \in KeyRecipes, NEW m \in 0 .. NumMeta - 1,
         NEW r \in Seq(Nat), WrittenUpTo(keyRecipe[c], m, r), NEW e \in Entries(c, m + 1)
  PROVE  r \o e \in Seq(Nat) /\ WrittenUpTo(keyRecipe[c], m + 1, r \o e)
<1>1. m + 1 \in 1 .. NumMeta /\ m < NumMeta /\ m + 1 - 1 = m
  BY Constants
<1>2. /\ e \in Seq(Nat)
      /\ keyRecipe[c] = OwnKeys(NumMeta) => e = Segment(m + 1)
      /\ keyRecipe[c] = OwnKeys(NumMeta - 1) /\ m + 1 < NumMeta => e = Segment(m + 1)
      /\ keyRecipe[c] = OwnKeys(NumMeta - 1) /\ m + 1 = NumMeta => e = <<>> \/ Unknown \in Range(e)
      /\ keyRecipe[c] \notin {OwnKeys(NumMeta), OwnKeys(NumMeta - 1)} /\ m + 1 = 1 => Unknown \in Range(e)
  BY <1>1, EntriesOfChunk
<1>3. r \o e \in Seq(Nat) /\ Range(r \o e) = Range(r) \cup Range(e)
  BY <1>2, SeqConcat, SeqConcatRange, SMTT(60)
<1>4. CASE Unknown \in Range(r) \/ Unknown \in Range(e)
  BY <1>3, <1>4 DEF WrittenUpTo
<1>5. CASE ~(Unknown \in Range(r) \/ Unknown \in Range(e))
  <2>1. /\ keyRecipe[c] \in {OwnKeys(NumMeta), OwnKeys(NumMeta - 1)} \/ m = 0
        /\ Len(r) = Listed(m)
        /\ \A j \in 1 .. Len(r) : r[j] = Secrets[j]
    BY <1>1, <1>5 DEF WrittenUpTo
  <2>2. keyRecipe[c] \in {OwnKeys(NumMeta), OwnKeys(NumMeta - 1)}
    BY <1>2, <1>5, <2>1
  <2>3. CASE e = Segment(m + 1) /\ (keyRecipe[c] = OwnKeys(NumMeta) \/ m + 1 < NumMeta)
    BY <1>3, <2>1, <2>2, <2>3, NextSegment DEF WrittenUpTo
  <2>4. CASE keyRecipe[c] # OwnKeys(NumMeta) /\ m + 1 = NumMeta /\ e = <<>>
    <3>1. r \o e = r
      BY <2>4, SeqConcatNone
    <3> QED
      BY <1>1, <2>1, <2>2, <2>4, <3>1 DEF WrittenUpTo
  <2>5. m + 1 < NumMeta \/ m + 1 = NumMeta
    BY <1>1, Constants
  <2> QED
    BY <1>2, <1>5, <2>2, <2>3, <2>4, <2>5
<1> QED
  BY <1>3, <1>4, <1>5

\* The recipe before the first chunk and after the last.
LEMMA WrittenEnds ==
  ASSUME NEW kr
  PROVE  /\ WrittenUpTo(kr, 0, <<>>)
         /\ \A r \in Seq(Nat) : WrittenUpTo(kr, NumMeta, r) => Recipe(kr, r)
<1>1. WrittenUpTo(kr, 0, <<>>)
  <2>1. Len(<<>>) = 0 /\ Listed(0) = 0 /\ 0 < NumMeta
    BY Constants, SeqNone
  <2> QED
    BY <2>1 DEF WrittenUpTo
<1>2. ASSUME NEW r \in Seq(Nat), WrittenUpTo(kr, NumMeta, r), Unknown \notin Range(r)
      PROVE  Prefix(kr, r)
  <2>1. /\ Len(r) = Listed(IF kr = OwnKeys(NumMeta) THEN NumMeta ELSE NumMeta - 1)
        /\ \A j \in 1 .. Len(r) : r[j] = Secrets[j]
    BY <1>2, Constants DEF WrittenUpTo
  <2>2. NumMeta - 1 \in 0 .. NumMeta
    BY Constants
  <2>3. Listed(NumMeta - 1) <= Len(Secrets) /\ Listed(NumMeta) = Len(Secrets)
    BY <2>2, Constants
  <2> QED
    BY <2>1, <2>3, Constants DEF Prefix
<1> QED
  BY <1>1, <1>2 DEF Recipe

-----------------------------------------------------------------------------
(* The inductive invariant.                                                *)

\* f has a value for every side and cloud.
Table(f) == f = [d \in Sides |-> [c \in Cloud |-> f[d][c]]]

Requests == [1 .. MaxSessions -> [Sides -> [Cloud -> Seq(Message)]]]

DownTypes ==
  /\ session \in 1 .. MaxSessions /\ at \in Cloud
  /\ left \in [Cloud -> Int]
  /\ keyRecipe \in [Cloud -> KeyRecipes]
  /\ recipes \in [Cloud -> Seq(Nat)]
  /\ filed \in [Cloud -> Seq(Seq(Nat))]
  /\ given \in Seq(Seq(Nat))
  /\ signal \in [Sides -> [Cloud -> BOOLEAN]]
  /\ Table(tpc) /\ Table(downloadContainer) /\ Table(ringBuffer) /\ Table(toDownloader)
  /\ fromDownloader \in Requests

\* How many items main has taken from a connection in this session.
Taken(d, c) ==
  IF d = "meta"
  THEN IF mpc \in {"key", "keyAnswer", "pre"} THEN 0
       ELSE IF mpc = "preHead" THEN (IF c < at THEN 1 ELSE 0)
       ELSE IF mpc = "preShare" THEN NumMeta + 1 - left[c]
       ELSE NumMeta + 1
  ELSE IF mpc = "downHead" THEN (IF c < at THEN 1 ELSE 0)
       ELSE IF mpc = "share" THEN 1 + Len(given) - (IF 1 < at /\ at <= c THEN 1 ELSE 0)
       ELSE IF mpc \in {"join", "done"} THEN 1 + Len(given)
       ELSE 0

\* Whether main waits for the key recipe of a cloud.
Asking(d, c) == IF d = "meta" /\ mpc = "keyAnswer" /\ at = c THEN "asked" ELSE "none"

ConnectionOf(d, c) ==
  Connection(d, keyRecipe[c], fromDownloader[session][d][c], tpc[d][c], toDownloader[d][c],
             downloadContainer[d][c], ringBuffer[d][c], Taken(d, c), Asking(d, c))

Connections == \A d \in Sides, c \in Cloud : ConnectionOf(d, c)

\* Every recipe that is stored or on its way; nothing has been sent in a
\* session that has not begun.
Filed ==
  \A c \in Cloud : \A k \in 1 .. Len(filed[c]) : Recipe(keyRecipe[c], filed[c][k])
Mailed ==
  \A i \in 1 .. MaxSessions, c \in Cloud : \A k \in 1 .. Len(fromDownloader[i]["meta"][c]) :
    fromDownloader[i]["meta"][c][k].type = "FILE_RECIPE" =>
      Recipe(keyRecipe[c], fromDownloader[i]["meta"][c][k].entries)
Fresh ==
  \A i \in 1 .. MaxSessions, d \in Sides, c \in Cloud : session < i => fromDownloader[i][d][c] = <<>>
Stored == Filed /\ Mailed /\ Fresh

Unsignalled ==
  mpc \in {"key", "keyAnswer"} => \A d \in Sides, c \in Cloud : signal[d][c] = FALSE /\ tpc[d][c] = "signal"

\* The recipes that main writes and sends.
Written ==
  /\ mpc = "preHead" => \A c \in Cloud : c < at => left[c] = NumMeta
  /\ mpc = "preShare" =>
       \A c \in Cloud : /\ IF c < at THEN left[c] = 0 ELSE left[c] \in 1 .. NumMeta
                        /\ WrittenUpTo(keyRecipe[c], NumMeta - left[c], recipes[c])
  /\ mpc = "upload" =>
       \A c \in Cloud : IF c < at THEN recipes[c] = <<>> ELSE Recipe(keyRecipe[c], recipes[c])
  /\ mpc \notin {"preShare", "upload"} => \A c \in Cloud : recipes[c] = <<>>

AllKeys == \A c \in Cloud : keyRecipe[c] = OwnKeys(NumMeta)

\* What main gives to the decoder, and how much is left.
Given ==
  /\ mpc \notin {"share", "join", "done"} => given = <<>>
  /\ \A j \in 1 .. Len(given) : \A c \in 1 .. Len(given[j]) : given[j][c] = Secrets[j]
  /\ mpc = "share" =>
       /\ given # <<>> => Len(given[Len(given)]) = IF at = 1 THEN Clouds ELSE at - 1
       /\ 1 < at => given # <<>>
       /\ AllKeys => \A c \in Cloud :
            left[c] = Len(Secrets) - Len(given) + (IF 1 < at /\ at <= c THEN 1 ELSE 0)
  /\ mpc \in {"join", "done"} /\ AllKeys =>
       Len(given) = Len(Secrets) /\ Len(given[Len(given)]) = Clouds

DownInv == DownTypes /\ Connections /\ Stored /\ Unsignalled /\ Written /\ Given

-----------------------------------------------------------------------------
(* What the steps leave alone.                                             *)

\* One entry of a table is replaced.
TableWith(f, d, c, v)       == [f EXCEPT ![d][c] = v]
RequestsWith(f, i, d, c, v) == [f EXCEPT ![i][d][c] = v]

LEMMA TableUpdate ==
  ASSUME NEW f, NEW g, Table(f), NEW d \in Sides, NEW c \in Cloud, NEW v, g = TableWith(f, d, c, v)
  PROVE  /\ Table(g)
         /\ \A e \in Sides, b \in Cloud : g[e][b] = IF e = d /\ b = c THEN v ELSE f[e][b]
BY DEF Table, TableWith

\* g is f with the messages of one connection replaced by v.
Replaced(f, g, i, d, c, v) ==
  \A j \in 1 .. MaxSessions, e \in Sides, b \in Cloud :
    g[j][e][b] = IF j = i /\ e = d /\ b = c THEN v ELSE f[j][e][b]

LEMMA RequestUpdate ==
  ASSUME NEW f \in Requests, NEW i \in 1 .. MaxSessions, NEW d \in Sides, NEW c \in Cloud,
         NEW v \in Seq(Message)
  PROVE  /\ RequestsWith(f, i, d, c, v) \in Requests
         /\ Replaced(f, RequestsWith(f, i, d, c, v), i, d, c, v)
BY ZenonT(60) DEF Requests, RequestsWith, Replaced

\* A connection that a step does not touch.
LEMMA SameConnection ==
  ASSUME NEW d, NEW c, ConnectionOf(d, c), keyRecipe' = keyRecipe,
         fromDownloader'[session'][d][c] = fromDownloader[session][d][c],
         tpc'[d][c] = tpc[d][c], toDownloader'[d][c] = toDownloader[d][c],
         downloadContainer'[d][c] = downloadContainer[d][c],
         ringBuffer'[d][c] = ringBuffer[d][c],
         Taken(d, c)' = Taken(d, c), Asking(d, c)' = Asking(d, c)
  PROVE  ConnectionOf(d, c)'
BY DEF ConnectionOf

mainVars == <<mpc, at, left, recipes, given, keyRecipe>>

\* A step of another thread than main.
LEMMA SameMain ==
  ASSUME UNCHANGED mainVars
  PROVE  /\ \A d, c : Taken(d, c)' = Taken(d, c) /\ Asking(d, c)' = Asking(d, c)
         /\ Written => Written'
         /\ Given => Given'
<1>1. /\ mpc' = mpc /\ at' = at /\ left' = left /\ recipes' = recipes /\ given' = given
      /\ keyRecipe' = keyRecipe
  BY DEF mainVars
<1>2. \A d, c : Taken(d, c)' = Taken(d, c) /\ Asking(d, c)' = Asking(d, c)
  BY <1>1 DEF Taken, Asking
<1>3. Written => Written'
  BY <1>1 DEF Written
<1>4. Given => Given'
  BY <1>1 DEF Given, AllKeys
<1> QED
  BY <1>2, <1>3, <1>4

\* A step that neither sends nor stores a message.
LEMMA SameStored ==
  ASSUME Stored, UNCHANGED <<session, fromDownloader, filed, keyRecipe>>
  PROVE  Stored'
BY DEF Stored, Filed, Mailed, Fresh

\* A step that touches one connection.
LEMMA OtherConnections ==
  ASSUME Connections, UNCHANGED mainVars, session' = session,
         NEW d \in Sides, NEW c \in Cloud, ConnectionOf(d, c)',
         \A e \in Sides, b \in Cloud : e # d \/ b # c =>
           /\ fromDownloader'[session][e][b] = fromDownloader[session][e][b]
           /\ tpc'[e][b] = tpc[e][b] /\ toDownloader'[e][b] = toDownloader[e][b]
           /\ downloadContainer'[e][b] = downloadContainer[e][b]
           /\ ringBuffer'[e][b] = ringBuffer[e][b]
  PROVE  Connections'
<1>1. ASSUME NEW e \in Sides, NEW b \in Cloud, e # d \/ b # c
      PROVE  ConnectionOf(e, b)'
  <2>1. ConnectionOf(e, b) /\ keyRecipe' = keyRecipe
    BY DEF Connections, mainVars
  <2>2. Taken(e, b)' = Taken(e, b) /\ Asking(e, b)' = Asking(e, b)
    BY SameMain
  <2>3. fromDownloader'[session'][e][b] = fromDownloader[session][e][b]
    BY <1>1
  <2> QED
    BY <1>1, <2>1, <2>2, <2>3, SameConnection
<1> QED
  BY <1>1 DEF Connections

\* A message has been sent.
LEMMA SentMessage ==
  ASSUME DownInv, NEW d \in Sides, NEW c \in Cloud, NEW msg \in Message, SendTo(d, c, msg),
         msg.type = "FILE_RECIPE" => Recipe(keyRecipe[c], msg.entries),
         session' = session, keyRecipe' = keyRecipe
  PROVE  /\ fromDownloader' \in Requests
         /\ \A j \in 1 .. MaxSessions, e \in Sides, b \in Cloud :
              fromDownloader'[j][e][b] = IF j = session /\ e = d /\ b = c THEN Append(fromDownloader[j][e][b], msg)
                                                                         ELSE fromDownloader[j][e][b]
         /\ Mailed' /\ Fresh'
<1>1. fromDownloader \in Requests /\ Mailed /\ Fresh /\ session \in 1 .. MaxSessions
  BY DEF DownInv, DownTypes, Stored
<1>2. PICK s \in Seq(Message) : s = fromDownloader[session][d][c]
  BY <1>1, ZenonT(60) DEF Requests
<1>3. PICK v \in Seq(Message) : /\ v = Append(s, msg) /\ Len(v) = Len(s) + 1
                                /\ v[Len(s) + 1] = msg /\ \A k \in 1 .. Len(s) : v[k] = s[k]
  <2>1. /\ Append(s, msg) \in Seq(Message) /\ Len(Append(s, msg)) = Len(s) + 1
        /\ Append(s, msg)[Len(s) + 1] = msg /\ \A k \in 1 .. Len(s) : Append(s, msg)[k] = s[k]
    BY SeqAppend, SMTT(60)
  <2> QED
    BY <2>1
<1>4. fromDownloader' = RequestsWith(fromDownloader, session, d, c, v)
  BY <1>2, <1>3 DEF SendTo, RequestsWith
<1>5. /\ RequestsWith(fromDownloader, session, d, c, v) \in Requests
      /\ Replaced(fromDownloader, RequestsWith(fromDownloader, session, d, c, v), session, d, c, v)
  BY <1>1, RequestUpdate
<1>6. /\ fromDownloader' \in Requests
      /\ \A j \in 1 .. MaxSessions, e \in Sides, b \in Cloud :
           fromDownloader'[j][e][b] = IF j = session /\ e = d /\ b = c THEN v ELSE fromDownloader[j][e][b]
  BY <1>4, <1>5, ZenonT(60) DEF Replaced
<1>7. ASSUME NEW j \in 1 .. MaxSessions, NEW b \in Cloud, NEW k \in 1 .. Len(fromDownloader'[j]["meta"][b]),
             fromDownloader'[j]["meta"][b][k].type = "FILE_RECIPE"
      PROVE  Recipe(keyRecipe[b], fromDownloader'[j]["meta"][b][k].entries)
  <2>1. CASE fromDownloader'[j]["meta"][b] = fromDownloader[j]["meta"][b]
    BY <1>1, <1>7, <2>1 DEF Mailed
  <2>2. CASE j = session /\ "meta" = d /\ b = c
    <3>1. fromDownloader'[j]["meta"][b] = v /\ fromDownloader[j]["meta"][b] = s
      BY <1>2, <1>6, <2>2
    <3>2. Len(s) \in Nat
      BY SeqLen
    <3>3. k \in 1 .. Len(s) \/ k = Len(s) + 1
      BY <1>3, <1>7, <3>1, <3>2, SMTT(60)
    <3>4. CASE k \in 1 .. Len(s)
      <4>1. v[k] = s[k]
        BY <1>3, <3>4
      <4>2. s[k].type = "FILE_RECIPE" => Recipe(keyRecipe[b], s[k].entries)
        BY <1>1, <3>1, <3>4 DEF Mailed
      <4> QED
        BY <1>7, <3>1, <4>1, <4>2
    <3>5. CASE k = Len(s) + 1
      BY <1>3, <1>7, <2>2, <3>1, <3>5
    <3> QED
      BY <3>3, <3>4, <3>5
  <2> QED
    BY <1>6, <2>1, <2>2 DEF Sides
<1>8. Mailed'
  BY <1>7 DEF Mailed
<1>9. Fresh'
  <2>1. ASSUME NEW j \in 1 .. MaxSessions, NEW e \in Sides, NEW b \in Cloud, session < j
        PROVE  fromDownloader'[j][e][b] = <<>>
    <3>1. j # session /\ fromDownloader[j][e][b] = <<>>
      BY <1>1, <2>1 DEF Fresh
    <3> QED
      BY <1>6, <3>1
  <2> QED
    BY <2>1 DEF Fresh
<1> QED
  BY <1>2, <1>3, <1>6, <1>8, <1>9, ZenonT(60)

-----------------------------------------------------------------------------
(* The downloader's threads.                                               *)

LEMMA initDownloadStep ==
  ASSUME DownInv, NEW d \in Sides, NEW c \in Cloud, initDownload(d, c)
  PROVE  DownInv'
<1>1. DownTypes /\ Connections /\ Stored /\ Unsignalled /\ Written /\ Given
  BY DEF DownInv
<1>2. /\ tpc[d][c] = "signal" /\ signal[d][c]
      /\ signal' = [signal EXCEPT ![d][c] = FALSE]
      /\ SendTo(d, c, Request)
      /\ tpc' = TableWith(tpc, d, c, "header")
  BY DEF initDownload, Request, TableWith
<1>3. UNCHANGED <<session, mpc, at, left, downloadContainer, ringBuffer, toDownloader, keyRecipe, recipes, filed, given>>
  BY DEF initDownload, main
<1>4. UNCHANGED mainVars
  BY <1>3 DEF mainVars
<1>5. mpc \notin {"key", "keyAnswer"}
  BY <1>1, <1>2 DEF Unsignalled
<1>6. session \in 1 .. MaxSessions
  BY <1>1 DEF DownTypes
<1>7. /\ fromDownloader' \in Requests
      /\ \A j \in 1 .. MaxSessions, e \in Sides, b \in Cloud :
           fromDownloader'[j][e][b] = IF j = session /\ e = d /\ b = c THEN Append(fromDownloader[j][e][b], Request)
                                                                      ELSE fromDownloader[j][e][b]
      /\ Mailed' /\ Fresh'
  BY <1>2, <1>3, MessageTypes, SentMessage
<1>8. Table(tpc') /\ \A e \in Sides, b \in Cloud : tpc'[e][b] = IF e = d /\ b = c THEN "header" ELSE tpc[e][b]
  <2>1. Table(tpc)
    BY <1>1 DEF DownTypes
  <2> QED
    BY <1>2, <2>1, TableUpdate, SMTT(60)
<1>9. DownTypes'
  <2>1. signal' \in [Sides -> [Cloud -> BOOLEAN]]
    BY <1>1, <1>2 DEF DownTypes
  <2> QED
    BY <1>1, <1>3, <1>7, <1>8, <2>1 DEF DownTypes
<1>10. ConnectionOf(d, c)'
  <2>1. Asking(d, c) = "none"
    BY <1>5 DEF Asking
  <2>2. Connection(d, keyRecipe[c], fromDownloader[session][d][c], "signal", toDownloader[d][c],
                   downloadContainer[d][c], ringBuffer[d][c], Taken(d, c), "none")
    BY <1>1, <1>2, <2>1 DEF Connections, ConnectionOf
  <2>3. Connection(d, keyRecipe[c], Append(fromDownloader[session][d][c], Request), "header", toDownloader[d][c],
                   downloadContainer[d][c], ringBuffer[d][c], Taken(d, c), "none")
    BY <2>2, ConnectionRequests
  <2>4. Taken(d, c)' = Taken(d, c) /\ Asking(d, c)' = "none"
    BY <1>4, <2>1, SameMain
  <2>5. fromDownloader'[session'][d][c] = Append(fromDownloader[session][d][c], Request) /\ tpc'[d][c] = "header"
    BY <1>3, <1>6, <1>7, <1>8
  <2> QED
    BY <1>3, <2>3, <2>4, <2>5 DEF ConnectionOf
<1>11. Connections'
  BY <1>1, <1>3, <1>4, <1>6, <1>7, <1>8, <1>10, OtherConnections, SMTT(60)
<1>12. Stored'
  BY <1>1, <1>3, <1>7 DEF Stored, Filed
<1>13. Unsignalled' /\ Written' /\ Given'
  BY <1>1, <1>3, <1>4, <1>5, SameMain DEF Unsignalled
<1> QED
  BY <1>9, <1>11, <1>12, <1>13 DEF DownInv

LEMMA downloadChunkStep ==
  ASSUME DownInv, NEW d \in Sides, NEW c \in Cloud, downloadChunk(d, c)
  PROVE  DownInv'
<1>1. /\ DownTypes /\ Connections /\ Stored /\ Unsignalled /\ Written /\ Given
  BY DEF DownInv
<1>2. /\ tpc[d][c] # "signal" /\ downloadContainer[d][c] = <<>> /\ toDownloader[d][c] # <<>>
      /\ downloadContainer' = TableWith(downloadContainer, d, c, toDownloader[d][c][1])
      /\ toDownloader' = TableWith(toDownloader, d, c, Tail(toDownloader[d][c]))
  BY DEF downloadChunk, Received, TableWith
<1>3. UNCHANGED <<session, mpc, at, left, signal, tpc, ringBuffer, fromDownloader, keyRecipe, recipes, filed, given>>
  BY DEF downloadChunk, main
<1>4. UNCHANGED mainVars
  BY <1>3 DEF mainVars
<1>5. Table(downloadContainer') /\ \A e \in Sides, b \in Cloud :
        downloadContainer'[e][b] = IF e = d /\ b = c THEN toDownloader[d][c][1] ELSE downloadContainer[e][b]
  BY <1>1, <1>2, TableUpdate, SMTT(60) DEF DownTypes
<1>6. Table(toDownloader') /\ \A e \in Sides, b \in Cloud :
        toDownloader'[e][b] = IF e = d /\ b = c THEN Tail(toDownloader[d][c]) ELSE toDownloader[e][b]
  BY <1>1, <1>2, TableUpdate, SMTT(60) DEF DownTypes
<1>7. DownTypes'
  BY <1>1, <1>3, <1>5, <1>6 DEF DownTypes
<1>8. ConnectionOf(d, c)'
  <2>1. Connection(d, keyRecipe[c], fromDownloader[session][d][c], tpc[d][c], toDownloader[d][c],
                   <<>>, ringBuffer[d][c], Taken(d, c), Asking(d, c))
    BY <1>1, <1>2 DEF Connections, ConnectionOf
  <2>2. Connection(d, keyRecipe[c], fromDownloader[session][d][c], tpc[d][c], Tail(toDownloader[d][c]),
                   toDownloader[d][c][1], ringBuffer[d][c], Taken(d, c), Asking(d, c))
    BY <1>2, <2>1, ConnectionReceives
  <2>3. Taken(d, c)' = Taken(d, c) /\ Asking(d, c)' = Asking(d, c)
    BY <1>4, SameMain
  <2>4. downloadContainer'[d][c] = toDownloader[d][c][1] /\ toDownloader'[d][c] = Tail(toDownloader[d][c])
    BY <1>5, <1>6
  <2> QED
    BY <1>3, <2>2, <2>3, <2>4 DEF ConnectionOf
<1>9. Connections'
  BY <1>1, <1>3, <1>4, <1>5, <1>6, <1>8, OtherConnections, ZenonT(60)
<1>10. Stored' /\ Unsignalled' /\ Written' /\ Given'
  BY <1>1, <1>3, <1>4, SameMain, SameStored DEF Unsignalled
<1> QED
  BY <1>7, <1>9, <1>10 DEF DownInv

LEMMA insertItemStep ==
  ASSUME DownInv, NEW d \in Sides, NEW c \in Cloud, insertItem(d, c)
  PROVE  DownInv'
<1>1. /\ DownTypes /\ Connections /\ Stored /\ Unsignalled /\ Written /\ Given
  BY DEF DownInv
<1>2. PICK tq \in {"ended", "shares"} : tpc' = TableWith(tpc, d, c, tq)
  BY DEF insertItem, TableWith
<1>3. /\ tpc[d][c] # "signal" /\ downloadContainer[d][c] # <<>>
      /\ ringBuffer' = TableWith(ringBuffer, d, c, Append(ringBuffer[d][c], downloadContainer[d][c][1]))
      /\ downloadContainer' = TableWith(downloadContainer, d, c, Tail(downloadContainer[d][c]))
  BY DEF insertItem, TableWith
<1>4. UNCHANGED <<session, mpc, at, left, signal, toDownloader, fromDownloader, keyRecipe, recipes, filed, given>>
  BY DEF insertItem, main, connections
<1>5. UNCHANGED mainVars
  BY <1>4 DEF mainVars
<1>6. Table(downloadContainer') /\ \A e \in Sides, b \in Cloud :
        downloadContainer'[e][b] = IF e = d /\ b = c THEN Tail(downloadContainer[d][c]) ELSE downloadContainer[e][b]
  BY <1>1, <1>3, TableUpdate, SMTT(60) DEF DownTypes
<1>7. Table(ringBuffer') /\ \A e \in Sides, b \in Cloud :
        ringBuffer'[e][b] = IF e = d /\ b = c THEN Append(ringBuffer[d][c], downloadContainer[d][c][1])
                                              ELSE ringBuffer[e][b]
  BY <1>1, <1>3, TableUpdate, SMTT(60) DEF DownTypes
<1>8. Table(tpc') /\ \A e \in Sides, b \in Cloud : tpc'[e][b] = IF e = d /\ b = c THEN tq ELSE tpc[e][b]
  <2>1. Table(tpc) /\ tpc' = TableWith(tpc, d, c, tq)
    BY <1>1, <1>2 DEF DownTypes, TableWith
  <2> QED
    BY <2>1, TableUpdate, SMTT(60)
<1>9. DownTypes'
  BY <1>1, <1>4, <1>6, <1>7, <1>8 DEF DownTypes
<1>10. ConnectionOf(d, c)'
  <2>1. Connection(d, keyRecipe[c], fromDownloader[session][d][c], tpc[d][c], toDownloader[d][c],
                   downloadContainer[d][c], ringBuffer[d][c], Taken(d, c), Asking(d, c))
    BY <1>1 DEF Connections, ConnectionOf
  <2>2. Connection(d, keyRecipe[c], fromDownloader[session][d][c], tq, toDownloader[d][c],
                   Tail(downloadContainer[d][c]), Append(ringBuffer[d][c], downloadContainer[d][c][1]),
                   Taken(d, c), Asking(d, c))
    BY <1>2, <1>3, <2>1, ConnectionInserts
  <2>3. Taken(d, c)' = Taken(d, c) /\ Asking(d, c)' = Asking(d, c)
    BY <1>5, SameMain
  <2>4. /\ downloadContainer'[d][c] = Tail(downloadContainer[d][c]) /\ tpc'[d][c] = tq
        /\ ringBuffer'[d][c] = Append(ringBuffer[d][c], downloadContainer[d][c][1])
    BY <1>6, <1>7, <1>8
  <2> QED
    BY <1>4, <2>2, <2>3, <2>4 DEF ConnectionOf
<1>11. Connections'
  BY <1>1, <1>4, <1>5, <1>6, <1>7, <1>8, <1>10, OtherConnections, SMTT(60)
<1>12. Stored' /\ Written' /\ Given'
  BY <1>1, <1>4, <1>5, SameMain, SameStored
<1>13. Unsignalled'
  BY <1>1, <1>3, <1>4 DEF Unsignalled
<1> QED
  BY <1>9, <1>11, <1>12, <1>13 DEF DownInv

-----------------------------------------------------------------------------
(* The server's handlers.                                                  *)

\* A message has been handled.
LEMMA HandledMessage ==
  ASSUME DownInv, NEW i \in 1 .. MaxSessions, NEW d \in Sides, NEW c \in Cloud,
         fromDownloader[i][d][c] # <<>>, Handled(i, d, c), session' = session, keyRecipe' = keyRecipe
  PROVE  /\ fromDownloader' \in Requests
         /\ \A j \in 1 .. MaxSessions, e \in Sides, b \in Cloud :
              fromDownloader'[j][e][b] = IF j = i /\ e = d /\ b = c THEN Tail(fromDownloader[i][d][c])
                                                                   ELSE fromDownloader[j][e][b]
         /\ Mailed' /\ Fresh'
<1>1. fromDownloader \in Requests /\ Mailed /\ Fresh
  BY DEF DownInv, DownTypes, Stored
<1>2. PICK s \in Seq(Message) : s = fromDownloader[i][d][c]
  BY <1>1, ZenonT(60) DEF Requests
<1>3. PICK v \in Seq(Message) : /\ v = Tail(s) /\ Len(v) = Len(s) - 1
                                /\ \A k \in 1 .. Len(v) : v[k] = s[k + 1]
  <2>1. s # <<>>
    BY <1>2
  <2> QED
    BY <2>1, SeqRest, SeqLen, ZenonT(60)
<1>4. fromDownloader' = RequestsWith(fromDownloader, i, d, c, v)
  BY <1>2, <1>3 DEF Handled, RequestsWith
<1>5. /\ RequestsWith(fromDownloader, i, d, c, v) \in Requests
      /\ Replaced(fromDownloader, RequestsWith(fromDownloader, i, d, c, v), i, d, c, v)
  BY <1>1, RequestUpdate
<1>6. /\ fromDownloader' \in Requests
      /\ \A j \in 1 .. MaxSessions, e \in Sides, b \in Cloud :
           fromDownloader'[j][e][b] = IF j = i /\ e = d /\ b = c THEN v ELSE fromDownloader[j][e][b]
  BY <1>4, <1>5, ZenonT(60) DEF Replaced
<1>7. ASSUME NEW j \in 1 .. MaxSessions, NEW b \in Cloud, NEW k \in 1 .. Len(fromDownloader'[j]["meta"][b]),
             fromDownloader'[j]["meta"][b][k].type = "FILE_RECIPE"
      PROVE  Recipe(keyRecipe[b], fromDownloader'[j]["meta"][b][k].entries)
  <2>1. CASE fromDownloader'[j]["meta"][b] = fromDownloader[j]["meta"][b]
    BY <1>1, <1>7, <2>1 DEF Mailed
  <2>2. CASE j = i /\ "meta" = d /\ b = c
    <3>1. fromDownloader'[j]["meta"][b] = v /\ fromDownloader[j]["meta"][b] = s
      BY <1>2, <1>6, <2>2
    <3>2. Len(s) \in Nat /\ Len(v) \in Nat
      BY SeqLen
    <3>3. k \in 1 .. Len(v) /\ k + 1 \in 1 .. Len(s)
      BY <1>3, <1>7, <3>1, <3>2, SMTT(60)
    <3>4. v[k] = s[k + 1]
      BY <1>3, <3>3
    <3>5. s[k + 1].type = "FILE_RECIPE" => Recipe(keyRecipe[b], s[k + 1].entries)
      BY <1>1, <3>1, <3>3 DEF Mailed
    <3> QED
      BY <1>7, <3>1, <3>4, <3>5
  <2> QED
    BY <1>6, <2>1, <2>2 DEF Sides
<1>8. Mailed'
  BY <1>7 DEF Mailed
<1>9. Fresh'
  <2>1. ~(session < i)
    BY <1>1 DEF Fresh
  <2>2. ASSUME NEW j \in 1 .. MaxSessions, NEW e \in Sides, NEW b \in Cloud, session < j
        PROVE  fromDownloader'[j][e][b] = <<>>
    <3>1. j # i /\ fromDownloader[j][e][b] = <<>>
      BY <1>1, <2>1, <2>2 DEF Fresh
    <3> QED
      BY <1>6, <3>1
  <2> QED
    BY <2>2 DEF Fresh
<1> QED
  BY <1>2, <1>3, <1>6, <1>8, <1>9

\* Only the connection of the handler has got anything.
Delivered(i, d, c) ==
  /\ Table(toDownloader')
  /\ i # session => toDownloader' = toDownloader
  /\ \A e \in Sides, b \in Cloud : e # d \/ b # c => toDownloader'[e][b] = toDownloader[e][b]

\* What the answer of a handler does to the connections.
LEMMA AnswerSent ==
  ASSUME Table(toDownloader), NEW i, NEW d \in Sides, NEW c \in Cloud, NEW packs, Answer(i, d, c, packs)
  PROVE  /\ Delivered(i, d, c)
         /\ i = session => toDownloader'[d][c] = toDownloader[d][c] \o packs
<1>1. CASE i = session
  <2>1. PICK v : v = toDownloader[d][c] \o packs
    OBVIOUS
  <2>2. toDownloader' = TableWith(toDownloader, d, c, v)
    BY <1>1, <2>1 DEF Answer, TableWith
  <2>3. /\ Table(toDownloader')
        /\ \A e \in Sides, b \in Cloud : toDownloader'[e][b] = IF e = d /\ b = c THEN v ELSE toDownloader[e][b]
    BY <2>2, TableUpdate, SMTT(60)
  <2> QED
    BY <1>1, <2>1, <2>3 DEF Delivered
<1>2. CASE i # session
  BY <1>2 DEF Answer, Delivered
<1> QED
  BY <1>1, <1>2

\* A step of a handler, when the connection of the current session goes on.
LEMMA HandlerStep ==
  ASSUME DownInv, NEW i \in 1 .. MaxSessions, NEW d \in Sides, NEW c \in Cloud,
         fromDownloader[i][d][c] # <<>>, Handled(i, d, c), UNCHANGED mainVars,
         UNCHANGED <<session, signal, tpc, downloadContainer, ringBuffer>>,
         filed' \in [Cloud -> Seq(Seq(Nat))], Filed', Delivered(i, d, c),
         i = session => Connection(d, keyRecipe[c], Tail(fromDownloader[i][d][c]), tpc[d][c], toDownloader'[d][c],
                                   downloadContainer[d][c], ringBuffer[d][c], Taken(d, c), Asking(d, c))
  PROVE  DownInv'
<1>1. DownTypes /\ Connections /\ Stored /\ Unsignalled /\ Written /\ Given
  BY DEF DownInv
<1>2. /\ session' = session /\ signal' = signal /\ tpc' = tpc /\ downloadContainer' = downloadContainer
      /\ ringBuffer' = ringBuffer /\ mpc' = mpc /\ at' = at /\ left' = left /\ recipes' = recipes
      /\ given' = given /\ keyRecipe' = keyRecipe
  BY DEF mainVars
<1>3. /\ fromDownloader' \in Requests
      /\ \A j \in 1 .. MaxSessions, e \in Sides, b \in Cloud :
           fromDownloader'[j][e][b] = IF j = i /\ e = d /\ b = c THEN Tail(fromDownloader[i][d][c])
                                                                ELSE fromDownloader[j][e][b]
      /\ Mailed' /\ Fresh'
  BY <1>2, HandledMessage
<1>4. DownTypes'
  BY <1>1, <1>2, <1>3 DEF DownTypes, Delivered
<1>5. Stored'
  BY <1>3 DEF Stored
<1>6. session \in 1 .. MaxSessions
  BY <1>1 DEF DownTypes
<1>7. Taken(d, c)' = Taken(d, c) /\ Asking(d, c)' = Asking(d, c) /\ Written' /\ Given'
  BY <1>1, SameMain
<1>8. ConnectionOf(d, c)'
  <2>1. CASE i = session
    <3>1. fromDownloader'[session'][d][c] = Tail(fromDownloader[i][d][c])
      BY <1>2, <1>3, <1>6, <2>1
    <3> QED
      BY <1>2, <1>7, <2>1, <3>1 DEF ConnectionOf
  <2>2. CASE i # session
    <3>1. fromDownloader'[session'][d][c] = fromDownloader[session][d][c]
      BY <1>2, <1>3, <1>6, <2>2, ZenonT(60)
    <3>2. ConnectionOf(d, c) /\ toDownloader'[d][c] = toDownloader[d][c]
      BY <1>1, <2>2 DEF Connections, Delivered
    <3> QED
      BY <1>2, <1>7, <3>1, <3>2, SameConnection
  <2> QED
    BY <2>1, <2>2
<1>9. Connections'
  <2>1. \A e \in Sides, b \in Cloud : e # d \/ b # c =>
           fromDownloader'[session][e][b] = fromDownloader[session][e][b]
    BY <1>3, <1>6, ZenonT(60)
  <2> QED
    BY <1>1, <1>2, <1>8, <2>1, OtherConnections, ZenonT(60) DEF Delivered
<1>10. Unsignalled'
  BY <1>1, <1>2 DEF Unsignalled
<1> QED
  BY <1>4, <1>5, <1>7, <1>9, <1>10 DEF DownInv

\* What a request that has arrived says about its connection.
LEMMA ArrivedConnection ==
  ASSUME DownInv, NEW d \in Sides, NEW c \in Cloud
  PROVE  Connection(d, keyRecipe[c], fromDownloader[session][d][c], tpc[d][c], toDownloader[d][c],
                    downloadContainer[d][c], ringBuffer[d][c], Taken(d, c), Asking(d, c))
BY DEF DownInv, Connections, ConnectionOf

LEMMA sendKeyRecipeStep ==
  ASSUME DownInv, NEW i \in 1 .. MaxSessions, NEW c \in Cloud, sendKeyRecipe(i, c)
  PROVE  DownInv'
<1>1. /\ fromDownloader[i]["meta"][c] # <<>> /\ fromDownloader[i]["meta"][c][1].type = "GET_KEY_RECIPE"
      /\ Handled(i, "meta", c) /\ Answer(i, "meta", c, <<keyRecipe[c]>>)
  BY DEF sendKeyRecipe, Arrived
<1>2. UNCHANGED mainVars /\ UNCHANGED <<session, signal, tpc, downloadContainer, ringBuffer>> /\ filed' = filed
  BY DEF sendKeyRecipe, mainVars, main, threads
<1>3. "meta" \in Sides /\ filed \in [Cloud -> Seq(Seq(Nat))] /\ Filed /\ Table(toDownloader)
  BY DEF Sides, DownInv, DownTypes, Stored
<1>4. Filed'
  BY <1>2, <1>3 DEF Filed, mainVars
<1>5. /\ Delivered(i, "meta", c)
      /\ i = session => toDownloader'["meta"][c] = toDownloader["meta"][c] \o <<keyRecipe[c]>>
  BY <1>1, <1>3, AnswerSent, ZenonT(60)
<1>6. ASSUME i = session
      PROVE  Connection("meta", keyRecipe[c], Tail(fromDownloader[i]["meta"][c]), tpc["meta"][c],
                        toDownloader'["meta"][c], downloadContainer["meta"][c], ringBuffer["meta"][c],
                        Taken("meta", c), Asking("meta", c))
  <2>1. Connection("meta", keyRecipe[c], fromDownloader[i]["meta"][c], tpc["meta"][c], toDownloader["meta"][c],
                   downloadContainer["meta"][c], ringBuffer["meta"][c], Taken("meta", c), Asking("meta", c))
    BY <1>3, <1>6, ArrivedConnection
  <2> QED
    BY <1>1, <1>5, <1>6, <2>1, ConnectionKeys
<1> QED
  BY <1>1, <1>2, <1>3, <1>4, <1>5, <1>6, HandlerStep

\* The numbers of the meta chunks.
LEMMA MetaItems == \A kr : Sent("meta", kr, [j \in 1 .. NumMeta |-> j])
BY Constants DEF Sent

LEMMA restoreMetaStep ==
  ASSUME DownInv, NEW i \in 1 .. MaxSessions, NEW c \in Cloud, restoreMeta(i, c)
  PROVE  DownInv'
<1> DEFINE items == [j \in 1 .. NumMeta |-> j]
<1> HIDE DEF items
<1>1. /\ fromDownloader[i]["meta"][c] # <<>> /\ fromDownloader[i]["meta"][c][1].type = "DOWNLOAD"
      /\ Handled(i, "meta", c) /\ Answer(i, "meta", c, Packages(items))
  BY DEF restoreMeta, Arrived, items
<1>2. UNCHANGED mainVars /\ UNCHANGED <<session, signal, tpc, downloadContainer, ringBuffer>> /\ filed' = filed
  BY DEF restoreMeta, mainVars, main, threads
<1>3. "meta" \in Sides /\ filed \in [Cloud -> Seq(Seq(Nat))] /\ Filed /\ Table(toDownloader)
  BY DEF Sides, DownInv, DownTypes, Stored
<1>4. Filed'
  BY <1>2, <1>3 DEF Filed, mainVars
<1>5. /\ Delivered(i, "meta", c)
      /\ i = session => toDownloader'["meta"][c] = toDownloader["meta"][c] \o Packages(items)
  BY <1>1, <1>3, AnswerSent, ZenonT(60)
<1>6. ASSUME i = session
      PROVE  Connection("meta", keyRecipe[c], Tail(fromDownloader[i]["meta"][c]), tpc["meta"][c],
                        toDownloader'["meta"][c], downloadContainer["meta"][c], ringBuffer["meta"][c],
                        Taken("meta", c), Asking("meta", c))
  <2>1. Connection("meta", keyRecipe[c], fromDownloader[i]["meta"][c], tpc["meta"][c], toDownloader["meta"][c],
                   downloadContainer["meta"][c], ringBuffer["meta"][c], Taken("meta", c), Asking("meta", c))
    BY <1>3, <1>6, ArrivedConnection
  <2>2. Sent("meta", keyRecipe[c], items)
    BY MetaItems DEF items
  <2> QED
    BY <1>1, <1>5, <1>6, <2>1, <2>2, ConnectionAnswers
<1> QED
  BY <1>1, <1>2, <1>3, <1>4, <1>5, <1>6, HandlerStep

LEMMA storeRecipeStep ==
  ASSUME DownInv, NEW i \in 1 .. MaxSessions, NEW c \in Cloud, storeRecipe(i, c)
  PROVE  DownInv'
<1>1. /\ fromDownloader[i]["meta"][c] # <<>> /\ fromDownloader[i]["meta"][c][1].type = "FILE_RECIPE"
      /\ Handled(i, "meta", c)
      /\ filed' = [filed EXCEPT ![c] = Append(filed[c], fromDownloader[i]["meta"][c][1].entries)]
  BY DEF storeRecipe, Arrived
<1>2. /\ UNCHANGED mainVars /\ UNCHANGED <<session, signal, tpc, downloadContainer, ringBuffer>>
      /\ toDownloader' = toDownloader
  BY DEF storeRecipe, mainVars, main, threads
<1>3. /\ "meta" \in Sides /\ filed \in [Cloud -> Seq(Seq(Nat))] /\ Filed /\ Mailed /\ Table(toDownloader)
      /\ fromDownloader \in Requests
  BY DEF Sides, DownInv, DownTypes, Stored
<1>4. PICK r : r = fromDownloader[i]["meta"][c][1].entries
  OBVIOUS
<1>5. r \in Seq(Nat) /\ Recipe(keyRecipe[c], r)
  <2>1. PICK s \in Seq(Message) : s = fromDownloader[i]["meta"][c]
    BY <1>3, SMTT(60) DEF Requests
  <2>2. 1 \in 1 .. Len(s) /\ s[1] \in Message /\ s[1].type = "FILE_RECIPE"
    BY <1>1, <2>1
  <2>3. s[1].entries \in Seq(Nat)
    BY <2>2, SMTT(60) DEF Message, KeyRequest, Request
  <2>4. Recipe(keyRecipe[c], s[1].entries)
    BY <1>3, <2>1, <2>2 DEF Mailed
  <2> QED
    BY <1>4, <2>1, <2>3, <2>4
<1>6. PICK f \in Seq(Seq(Nat)) : f = filed[c]
  BY <1>3
<1>7. /\ Append(f, r) \in Seq(Seq(Nat)) /\ Len(Append(f, r)) = Len(f) + 1
      /\ \A k \in 1 .. Len(f) : Append(f, r)[k] = f[k]
      /\ Append(f, r)[Len(f) + 1] = r
  BY <1>5, SeqAppend, SMTT(60)
<1>8. /\ filed' \in [Cloud -> Seq(Seq(Nat))]
      /\ \A b \in Cloud : filed'[b] = IF b = c THEN Append(f, r) ELSE filed[b]
  BY <1>1, <1>3, <1>4, <1>6, <1>7
<1>9. Filed'
  <2>1. ASSUME NEW b \in Cloud, NEW k \in 1 .. Len(filed'[b])
        PROVE  Recipe(keyRecipe[b], filed'[b][k])
    <3>1. CASE b # c
      <4>1. filed'[b] = filed[b]
        BY <1>8, <3>1
      <4> QED
        BY <1>3, <2>1, <4>1 DEF Filed
    <3>2. CASE b = c
      <4>1. filed'[b] = Append(f, r)
        BY <1>8, <3>2
      <4>2. Len(f) \in Nat
        BY SeqLen
      <4>3. k \in 1 .. Len(f) \/ k = Len(f) + 1
        BY <1>7, <2>1, <4>1, <4>2
      <4>4. CASE k \in 1 .. Len(f)
        <5>1. filed'[b][k] = filed[b][k] /\ k \in 1 .. Len(filed[b])
          BY <1>6, <1>7, <3>2, <4>1, <4>4
        <5> QED
          BY <1>3, <5>1 DEF Filed
      <4>5. CASE k = Len(f) + 1
        BY <1>5, <1>7, <3>2, <4>1, <4>5
      <4> QED
        BY <4>3, <4>4, <4>5
    <3> QED
      BY <3>1, <3>2
  <2> QED
    BY <1>2, <2>1 DEF Filed, mainVars
<1>10. ASSUME i = session
       PROVE  Connection("meta", keyRecipe[c], Tail(fromDownloader[i]["meta"][c]), tpc["meta"][c],
                         toDownloader'["meta"][c], downloadContainer["meta"][c], ringBuffer["meta"][c],
                         Taken("meta", c), Asking("meta", c))
  <2>1. Connection("meta", keyRecipe[c], fromDownloader[i]["meta"][c], tpc["meta"][c], toDownloader["meta"][c],
                   downloadContainer["meta"][c], ringBuffer["meta"][c], Taken("meta", c), Asking("meta", c))
    BY <1>3, <1>10, ArrivedConnection
  <2> QED
    BY <1>1, <1>2, <2>1, ConnectionStores
<1> QED
  BY <1>1, <1>2, <1>3, <1>8, <1>9, <1>10, HandlerStep DEF Delivered

LEMMA restoreDataStep ==
  ASSUME DownInv, NEW i \in 1 .. MaxSessions, NEW c \in Cloud, restoreData(i, c)
  PROVE  DownInv'
<1>1. /\ fromDownloader[i]["data"][c] # <<>> /\ fromDownloader[i]["data"][c][1].type = "DOWNLOAD"
      /\ Handled(i, "data", c)
  BY DEF restoreData, Arrived
<1>2. UNCHANGED mainVars /\ UNCHANGED <<session, signal, tpc, downloadContainer, ringBuffer>>
  BY DEF restoreData, mainVars, main, threads
<1>3. "data" \in Sides /\ filed \in [Cloud -> Seq(Seq(Nat))] /\ Filed /\ Table(toDownloader)
  BY DEF Sides, DownInv, DownTypes, Stored
<1>4. filed' = filed \/ filed' = [filed EXCEPT ![c] = <<>>]
  BY DEF restoreData
<1>5. /\ filed' \in [Cloud -> Seq(Seq(Nat))]
      /\ \A b \in Cloud : filed'[b] = filed[b] \/ filed'[b] = <<>>
  <2>1. <<>> \in Seq(Seq(Nat))
    BY SeqNone
  <2>2. PICK e \in Seq(Seq(Nat)) : e = <<>>
    BY <2>1
  <2>3. CASE filed' = [filed EXCEPT ![c] = e]
    BY <1>3, <2>2, <2>3
  <2> QED
    BY <1>3, <1>4, <2>2, <2>3
<1>6. Filed'
  <2>1. ASSUME NEW b \in Cloud, NEW k \in 1 .. Len(filed'[b])
        PROVE  Recipe(keyRecipe[b], filed'[b][k])
    <3>1. filed'[b] # <<>>
      BY <2>1
    <3>2. filed'[b] = filed[b]
      BY <1>5, <3>1
    <3> QED
      BY <1>3, <2>1, <3>2 DEF Filed
  <2> QED
    BY <1>2, <2>1 DEF Filed, mainVars
<1>7. ASSUME i = session
      PROVE  Connection("data", keyRecipe[c], fromDownloader[i]["data"][c], tpc["data"][c], toDownloader["data"][c],
                        downloadContainer["data"][c], ringBuffer["data"][c], Taken("data", c), Asking("data", c))
  BY <1>3, <1>7, ArrivedConnection
<1>8. CASE toDownloader' = toDownloader
  <2>1. Delivered(i, "data", c)
    BY <1>3, <1>8 DEF Delivered
  <2>2. ASSUME i = session
        PROVE  Connection("data", keyRecipe[c], Tail(fromDownloader[i]["data"][c]), tpc["data"][c],
                          toDownloader'["data"][c], downloadContainer["data"][c], ringBuffer["data"][c],
                          Taken("data", c), Asking("data", c))
    BY <1>1, <1>7, <1>8, <2>2, ConnectionAnswers
  <2> QED
    BY <1>1, <1>2, <1>3, <1>5, <1>6, <2>1, <2>2, HandlerStep
<1>9. CASE filed[c] # <<>> /\ Unknown \notin Range(filed[c][1]) /\ Answer(i, "data", c, Packages(filed[c][1]))
  <2>1. PICK r : r = filed[c][1]
    OBVIOUS
  <2>2. r \in Seq(Nat) /\ Prefix(keyRecipe[c], r)
    <3>1. PICK f \in Seq(Seq(Nat)) : f = filed[c] /\ f # <<>>
      BY <1>3, <1>9
    <3>2. 1 \in 1 .. Len(f) /\ f[1] \in Seq(Nat)
      BY <3>1
    <3>3. Recipe(keyRecipe[c], f[1])
      BY <1>3, <3>1, <3>2 DEF Filed
    <3> QED
      BY <1>9, <2>1, <3>1, <3>2, <3>3 DEF Recipe
  <2>3. Sent("data", keyRecipe[c], r)
    BY <2>2 DEF Sent
  <2>4. /\ Delivered(i, "data", c)
        /\ i = session => toDownloader'["data"][c] = toDownloader["data"][c] \o Packages(r)
    BY <1>3, <1>9, <2>1, AnswerSent
  <2>5. ASSUME i = session
        PROVE  Connection("data", keyRecipe[c], Tail(fromDownloader[i]["data"][c]), tpc["data"][c],
                          toDownloader'["data"][c], downloadContainer["data"][c], ringBuffer["data"][c],
                          Taken("data", c), Asking("data", c))
    BY <1>1, <1>7, <2>3, <2>4, <2>5, ConnectionAnswers
  <2> QED
    BY <1>1, <1>2, <1>3, <1>5, <1>6, <2>4, <2>5, HandlerStep
<1> QED
  BY <1>8, <1>9 DEF restoreData
=============================================================================
