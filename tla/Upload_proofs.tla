----------------------------- MODULE Upload_proofs -----------------------------
(***************************************************************************)
(* Proofs about UploadSession, for every file, size of the shares and size *)
(* of the buffers: the packages that reach the server follow each other    *)
(* without a gap and are the whole file when the session ends, and a       *)
(* stored key recipe lacks at most the key of the last meta chunk.         *)
(*                                                                         *)
(* StreamInv follows the numbered items of an upload from collect through  *)
(* the ring buffer into the hands of the uploader's thread, and says that  *)
(* a thread past its loop has packed the last one.  PackInv says what can  *)
(* be under way between a thread and the server, and up to which item the  *)
(* packages go in each of these situations.  KeyInv says which keys are in *)
(* share-i.key, and in what openssl has read of it.                        *)
(***************************************************************************)
EXTENDS UploadSession, TLAPS

\* A step that names no prover is for Zenon, then for the SMT solver, with time to
\* spare.
USE ZenonT(30), SMTT(60)

------------------------------------------------------------------------------
(* Sequences.                                                               *)

\* What a sequence of items holds at a position of it is an item.
LEMMA SeqItem ==
  ASSUME NEW T, NEW s \in Seq(T), NEW i \in 1 .. Len(s)
  PROVE  s[i] \in T
OBVIOUS

\* The empty sequence is one of any items, and the only one without any.
LEMMA SeqNone ==
  ASSUME NEW T
  PROVE  /\ <<>> \in Seq(T) /\ Len(<<>>) = 0
         /\ \A s \in Seq(T) : s # <<>> => Len(s) \in Nat \ {0}
OBVIOUS

\* A sequence is a function on the positions up to its length.
LEMMA SeqLen ==
  ASSUME NEW T, NEW s \in Seq(T)
  PROVE  Len(s) \in Nat /\ DOMAIN s = 1 .. Len(s) /\ s \in [1 .. Len(s) -> T]
OBVIOUS

\* The first item of a sequence and the ones after it.
LEMMA SeqRest ==
  ASSUME NEW T, NEW s \in Seq(T), s # <<>>
  PROVE  /\ Head(s) \in T /\ Tail(s) \in Seq(T)
         /\ Len(Tail(s)) = Len(s) - 1
         /\ \A i \in 1 .. Len(Tail(s)) : Tail(s)[i] = s[i + 1]
OBVIOUS

\* A sequence with one item more.
LEMMA SeqAppend ==
  ASSUME NEW T, NEW s \in Seq(T), NEW x \in T
  PROVE  /\ Append(s, x) \in Seq(T) /\ Append(s, x) # <<>>
         /\ Len(Append(s, x)) = Len(s) + 1
         /\ Append(s, x)[Len(s) + 1] = x
         /\ \A i \in 1 .. Len(s) : Append(s, x)[i] = s[i]
OBVIOUS

\* Sequences of one length with the same items are equal.
LEMMA SeqSame ==
  ASSUME NEW T, NEW s \in Seq(T), NEW t \in Seq(T), Len(s) = Len(t),
         \A i \in 1 .. Len(s) : s[i] = t[i]
  PROVE  s = t
OBVIOUS

\* A function on the positions up to a length is a sequence of that length.
LEMMA SeqOf ==
  ASSUME NEW T, NEW n \in Nat, NEW s \in [1 .. n -> T]
  PROVE  s \in Seq(T) /\ Len(s) = n
OBVIOUS

--------------------------------------------------------------------------------
(* The session of one cloud.  The items of kind k are numbered from 1 in   *)
(* the order of the file; the file header before them has number 0.        *)

Item == [type : {"FILE_HEADER", "SHARE_OBJECT", "SHARE_END"}, id : Int, size : Nat]

\* The number of the last item of kind k that collect has added, -1 when the
\* file header is still to come.
AddedUpTo(k) ==
  IF cpc = "header" \/ (k = "meta" /\ cpc = "headerMeta") THEN -1
  ELSE IF k = "meta" THEN -metaID - 1
  ELSE IF cpc = "headerMeta" THEN 0
  ELSE IF cpc = "share" THEN secret - 1 ELSE secret

\* The last meta chunk is known once collect has added it.
EndAdded == cpc \in {"key", "waiting"} /\ secret = NumSecrets

IsLast(k, n) == IF k = "data" THEN n = NumSecrets ELSE EndAdded /\ n = -metaID - 1

IdOf(k, n) == IF k = "data" THEN n ELSE -n

\* What collect adds as number n.
Numbered(k, it, n) ==
  IF n = 0 THEN it.type = "FILE_HEADER"
  ELSE /\ it.id = IdOf(k, n)
       /\ it.type = IF IsLast(k, n) THEN "SHARE_END" ELSE "SHARE_OBJECT"

HasItem(k) == upc[k] \in {"flush", "flushStatus", "pack"}
Waiting(k) == upc[k] \in {"flushStatus", "lastStatus"}
Finished(k) == upc[k] \in {"encrypt", "remove", "sendKeys", "exit"}
Packed(k) == head[k].past + head[k].coming
TakenUpTo(k) == IF HasItem(k) THEN Packed(k) + 1 ELSE Packed(k)

\* The ring buffer holds the items from number b + 1 to the last one added.
RingFrom(k, b) ==
  /\ AddedUpTo(k) = b + Len(ring[k])
  /\ \A i \in 1 .. Len(ring[k]) : Numbered(k, ring[k][i], b + i)

Flow(k) ==
  /\ \E b \in Int :
       /\ RingFrom(k, b)
       /\ b = TakenUpTo(k) \/ (b = -1 /\ Packed(k) = 0 /\ upc[k] = "extract")
  /\ HasItem(k) => Numbered(k, item[k], Packed(k) + 1)
  /\ upc[k] # "extract" /\ ~HasItem(k) => IsLast(k, Packed(k))

SessionTypes ==
  /\ cpc \in {"header", "headerMeta", "share", "addMeta", "key", "waiting"}
  /\ secret \in 1 .. NumSecrets
  /\ segment \in Seq(1 .. NumSecrets)
  /\ metaID \in Int /\ metaID <= -1
  /\ cpc \in {"header", "headerMeta"} => secret = 1 /\ metaID = -1
  /\ ring \in [Kinds -> Seq(Item)]
  /\ upc \in [Kinds -> {"extract", "flush", "flushStatus", "pack", "last", "lastStatus",
                        "encrypt", "remove", "sendKeys", "exit"}]
  /\ item \in [Kinds -> Item]
  /\ head \in [Kinds -> [past : Nat, coming : Nat]]
  /\ entries \in [Kinds -> Seq(Item)]
  /\ DOMAIN toServer = Kinds /\ DOMAIN toClient = Kinds /\ DOMAIN packages = Kinds

\* The thread takes the items in the order of the file and knows the last one.
StreamInv == SessionTypes /\ \A k \in Kinds : Flow(k)

--------------------------------------------------------------------------------
LEMMA SessionConstants ==
  /\ NumSecrets \in Nat \ {0}
  /\ \A s \in 1 .. NumSecrets : ShareSize[s] \in Nat
BY SessionAssumption, SMTT(60)

LEMMA ShareIsItem ==
  ASSUME NEW id \in Int, NEW size \in Nat, NEW end
  PROVE  Share(id, size, end) \in Item
BY DEF Share, Item

LEMMA TakenRing ==
  ASSUME NEW s \in Seq(Item), s # <<>>
  PROVE  /\ Tail(s) \in Seq(Item)
         /\ Head(s) = s[1] /\ Head(s) \in Item
         /\ Len(s) >= 1 /\ Len(Tail(s)) = Len(s) - 1
         /\ \A i \in 1 .. Len(s) - 1 : Tail(s)[i] = s[i + 1]
BY SeqRest, SeqItem

LEMMA InitTypes == UploadInit => SessionTypes
BY SessionConstants, SMTT(60) DEF UploadInit, SessionTypes, Item, NoItem, Kinds

--------------------------------------------------------------------------------
LEMMA CollectTypes ==
  ASSUME SessionTypes, Collect
  PROVE  SessionTypes'
<1> USE DEF Kinds
<1>1. CASE addHeader
  <2>1. NoItem \in Item
    BY DEF NoItem, Item
  <2>2. ring' \in [Kinds -> Seq(Item)]
    <3>1. PICK k \in Kinds : ring' = [ring EXCEPT ![k] = Append(@, NoItem)]
      BY <1>1 DEF addHeader, addItem
    <3> QED
      BY <2>1, <3>1, SeqAppend DEF SessionTypes
  <2> QED
    BY <1>1, <2>2 DEF SessionTypes, addHeader, uploading, sockets
<1>2. CASE addShare
  <2>1. Share(secret, ShareSize[secret], secret = NumSecrets) \in Item
    BY SessionConstants, ShareIsItem, SMTT(60) DEF SessionTypes
  <2>2. ring' \in [Kinds -> Seq(Item)]
    BY <1>2, <2>1, SeqAppend DEF SessionTypes, addShare, addItem
  <2>3. segment' \in Seq(1 .. NumSecrets)
    BY <1>2, SeqAppend DEF SessionTypes, addShare
  <2>4. secret' \in 1 .. NumSecrets /\ cpc' \in {"share", "addMeta"}
    BY <1>2, SessionConstants, SMTT(60) DEF SessionTypes, addShare
  <2> QED
    BY <1>2, <2>2, <2>3, <2>4 DEF SessionTypes, addShare, uploading, sockets
<1>3. CASE addMeta
  <2>1. Share(metaID, Len(segment), secret = NumSecrets) \in Item
    BY SeqLen, ShareIsItem DEF SessionTypes
  <2>2. ring' \in [Kinds -> Seq(Item)]
    BY <1>3, <2>1, SeqAppend DEF SessionTypes, addMeta, addItem
  <2> QED
    BY <1>3, <2>2, SMTT(60) DEF SessionTypes, addMeta, uploading, sockets
<1>4. CASE writeKey
  <2>1. secret' \in 1 .. NumSecrets /\ cpc' \in {"share", "waiting"}
    BY <1>4, SessionConstants, SMTT(60) DEF SessionTypes, writeKey
  <2> QED
    BY <1>4, <2>1 DEF SessionTypes, writeKey, uploading, sockets
<1> QED
  BY <1>1, <1>2, <1>3, <1>4 DEF Collect

LEMMA UploadTypes ==
  ASSUME SessionTypes, NEW k \in Kinds, Upload(k)
  PROVE  SessionTypes'
<1>1. CASE extractHeader(k)
  BY <1>1, TakenRing DEF SessionTypes, extractHeader, Take, collectVars, sockets
<1>2. CASE extractShare(k)
  <2>1. ring' \in [Kinds -> Seq(Item)] /\ item' \in [Kinds -> Item]
    BY <1>2, TakenRing DEF SessionTypes, extractShare, Take, Extracted
  <2>2. upc' = [upc EXCEPT ![k] = "flush"] \/ upc' = [upc EXCEPT ![k] = "pack"]
    BY <1>2 DEF extractShare, Goto
  <2> QED
    BY <1>2, <2>1, <2>2 DEF SessionTypes, extractShare, collectVars, sockets
<1>3. CASE packShare(k)
  <2>1. entries' \in [Kinds -> Seq(Item)]
    BY <1>3, SeqAppend, ZenonT(60) DEF SessionTypes, packShare
  <2>2. upc' = [upc EXCEPT ![k] = "last"] \/ upc' = [upc EXCEPT ![k] = "extract"]
    BY <1>3 DEF packShare, Goto
  <2>3. head' \in [Kinds -> [past : Nat, coming : Nat]]
    <3>1. head' = [head EXCEPT ![k] = [@ EXCEPT !.coming = head[k].coming + 1]]
      BY <1>3 DEF packShare
    <3>2. head[k] \in [past : Nat, coming : Nat]
      BY DEF SessionTypes
    <3>3. [head[k] EXCEPT !.coming = head[k].coming + 1] \in [past : Nat, coming : Nat]
      BY <3>2, SMTT(60)
    <3> QED
      BY <3>1, <3>3 DEF SessionTypes
  <2> QED
    BY <1>3, <2>1, <2>2, <2>3 DEF SessionTypes, packShare, collectVars, sockets
<1>4. CASE sendMeta(k)
  <2>1. upc' = [upc EXCEPT ![k] = "flushStatus"] \/ upc' = [upc EXCEPT ![k] = "lastStatus"]
    BY <1>4 DEF sendMeta, Goto
  <2> QED
    BY <1>4, <2>1 DEF SessionTypes, sendMeta, Send, collectVars
<1>5. CASE sendData(k)
  <2>1. /\ DOMAIN toServer' = Kinds /\ DOMAIN toClient' = Kinds /\ DOMAIN packages' = Kinds
        /\ UNCHANGED <<collectVars, ring, item>>
    BY <1>5 DEF SessionTypes, sendData, Send
  <2>2. CASE upc[k] = "flushStatus"
    <3>1. /\ upc' = [upc EXCEPT ![k] = "pack"]
          /\ entries' = [entries EXCEPT ![k] = <<>>]
          /\ head' = [head EXCEPT ![k] = [past |-> head[k].past + head[k].coming, coming |-> 0]]
      BY <1>5, <2>2 DEF SessionTypes, sendData, Goto, updateHeader
    <3>2. head' \in [Kinds -> [past : Nat, coming : Nat]]
      BY <3>1, SMTT(60) DEF SessionTypes
    <3>3. entries' \in [Kinds -> Seq(Item)]
      BY <3>1, SMTT(60) DEF SessionTypes
    <3> QED
      BY <2>1, <3>1, <3>2, <3>3 DEF SessionTypes, collectVars
  <2>3. CASE upc[k] # "flushStatus"
    <3>1. upc' = [upc EXCEPT ![k] = "encrypt"] \/ upc' = [upc EXCEPT ![k] = "exit"]
      BY <1>5, <2>3 DEF sendData, Goto
    <3>2. UNCHANGED <<head, entries>>
      BY <1>5, <2>3 DEF sendData
    <3> QED
      BY <2>1, <3>1, <3>2 DEF SessionTypes, collectVars
  <2> QED
    BY <2>2, <2>3
<1> QED
  BY <1>1, <1>2, <1>3, <1>4, <1>5 DEF Upload

LEMMA OtherTypes ==
  ASSUME SessionTypes,
         \/ KeyUpload \/ indicateEnd \/ recvKeyRecipe \/ UNCHANGED uploadVars
         \/ \E k \in Kinds : Serve(k)
  PROVE  SessionTypes'
<1>1. CASE encryptKeyFile
  BY <1>1 DEF SessionTypes, encryptKeyFile, Goto, collectVars, sockets
<1>2. CASE removeKeyFile
  BY <1>2 DEF SessionTypes, removeKeyFile, Goto, collectVars, sockets
<1>3. CASE sendKeyFile
  BY <1>3 DEF SessionTypes, sendKeyFile, Goto, Send, collectVars
<1>4. CASE indicateEnd
  BY <1>4 DEF SessionTypes, indicateEnd, collectVars, uploading, sockets
<1>5. CASE recvKeyRecipe
  BY <1>5 DEF SessionTypes, recvKeyRecipe, Receive, collectVars, uploading
<1>6. CASE UNCHANGED uploadVars
  BY <1>6 DEF SessionTypes, uploadVars, collectVars, uploading, sockets
<1>7. ASSUME NEW k \in Kinds, Serve(k)
      PROVE  SessionTypes'
  <2>1. UNCHANGED <<collectVars, ring, uploading>>
    BY <1>7 DEF Serve, recvMeta, recvData, Receive
  <2>2. DOMAIN toServer' = Kinds /\ DOMAIN toClient' = Kinds
    BY <1>7 DEF Serve, recvMeta, recvData, SessionTypes
  <2>3. DOMAIN packages' = Kinds
    <3>1. CASE recvMeta(k)
      BY <3>1 DEF recvMeta, SessionTypes
    <3>2. CASE recvData(k)
      BY <3>2 DEF recvData, SessionTypes
    <3> QED
      BY <1>7, <3>1, <3>2 DEF Serve
  <2> QED
    BY <2>1, <2>2, <2>3 DEF SessionTypes, collectVars, uploading
<1> QED
  BY <1>1, <1>2, <1>3, <1>4, <1>5, <1>6, <1>7 DEF KeyUpload

--------------------------------------------------------------------------------
LEMMA AddedUpToType ==
  ASSUME SessionTypes, NEW k \in Kinds
  PROVE  AddedUpTo(k) \in Int /\ TakenUpTo(k) \in Nat /\ Packed(k) \in Nat
BY SessionConstants, SMTT(60) DEF SessionTypes, AddedUpTo, TakenUpTo, Packed, HasItem

\* What of the flow a step of collect may change.
SameLast(k) == \A n \in Int : n <= AddedUpTo(k) => (IsLast(k, n)' <=> IsLast(k, n))
SameThread(k) ==
  upc'[k] = upc[k] /\ item'[k] = item[k] /\ head'[k] = head[k]

LEMMA NumberedStays ==
  ASSUME NEW k \in Kinds, NEW it, NEW n \in Int, IsLast(k, n)' <=> IsLast(k, n), Numbered(k, it, n)
  PROVE  /\ n = 0 => it.type = "FILE_HEADER"
         /\ n # 0 => /\ it.id = IdOf(k, n)
                     /\ it.type = IF IsLast(k, n)' THEN "SHARE_END" ELSE "SHARE_OBJECT"
BY DEF Numbered

LEMMA FlowAdds ==
  ASSUME SessionTypes, NEW k \in Kinds, Flow(k), SameLast(k), SameThread(k),
         NEW it, ring'[k] = Append(ring[k], it),
         AddedUpTo(k)' = AddedUpTo(k) + 1,
         NEW n \in Int, n = AddedUpTo(k) + 1,
         IF n = 0 THEN it.type = "FILE_HEADER"
         ELSE it.id = IdOf(k, n) /\ it.type = IF IsLast(k, n)' THEN "SHARE_END" ELSE "SHARE_OBJECT",
         it \in Item
  PROVE  Flow(k)'
<1>1. ring[k] \in Seq(Item) /\ Len(ring[k]) \in Nat
  BY SeqLen DEF SessionTypes
<1>2. /\ Len(ring'[k]) = Len(ring[k]) + 1
      /\ \A i \in 1 .. Len(ring[k]) : ring'[k][i] = ring[k][i]
      /\ ring'[k][Len(ring[k]) + 1] = it
  BY <1>1, SeqAppend, SMTT(60)
<1>3. /\ TakenUpTo(k)' = TakenUpTo(k) /\ Packed(k)' = Packed(k)
      /\ HasItem(k)' = HasItem(k)
  BY DEF SameThread, TakenUpTo, Packed, HasItem
<1>4. ASSUME NEW b \in Int, RingFrom(k, b)
      PROVE  RingFrom(k, b)'
  <2>1. AddedUpTo(k) = b + Len(ring[k])
    BY <1>4 DEF RingFrom
  <2>2. ASSUME NEW i \in 1 .. Len(ring'[k])
        PROVE  Numbered(k, ring[k][i], b + i)'
    <3>1. CASE i = Len(ring[k]) + 1
      <4>1. ring'[k][i] = it /\ b + i = n
        BY <1>1, <1>2, <2>1, <3>1
      <4> QED
        BY <4>1 DEF Numbered, IdOf
    <3>2. CASE i # Len(ring[k]) + 1
      <4>1. i \in 1 .. Len(ring[k]) /\ b + i \in Int
        BY <1>1, <1>2, <3>2
      <4>2. Numbered(k, ring[k][i], b + i) /\ b + i <= AddedUpTo(k)
        BY <1>1, <1>4, <2>1, <4>1 DEF RingFrom
      <4>3. IsLast(k, b + i)' <=> IsLast(k, b + i)
        BY <4>1, <4>2 DEF SameLast
      <4> QED
        BY <1>2, <4>1, <4>2, <4>3, NumberedStays DEF Numbered, IdOf
    <3> QED
      BY <3>1, <3>2
  <2> QED
    BY <1>1, <1>2, <2>1, <2>2 DEF RingFrom
<1>5. TakenUpTo(k) \in Nat /\ Packed(k) \in Nat /\ AddedUpTo(k) \in Int
  BY AddedUpToType
<1>6. /\ HasItem(k) => Numbered(k, item[k], Packed(k) + 1)
      /\ upc[k] # "extract" /\ ~HasItem(k) => IsLast(k, Packed(k))
  BY DEF Flow
<1>7. PICK b \in Int : /\ RingFrom(k, b)
                       /\ b = TakenUpTo(k) \/ (b = -1 /\ Packed(k) = 0 /\ upc[k] = "extract")
  BY DEF Flow
<1>8. upc[k] # "extract" => TakenUpTo(k) <= AddedUpTo(k)
  BY <1>1, <1>5, <1>7 DEF RingFrom
<1>9. HasItem(k) => Numbered(k, item[k], Packed(k) + 1)'
  <2>1. SUFFICES ASSUME HasItem(k) PROVE Numbered(k, item[k], Packed(k) + 1)'
    OBVIOUS
  <2>2. PICK m \in Int : m = Packed(k) + 1 /\ m <= AddedUpTo(k)
    BY <1>5, <1>8, <2>1 DEF TakenUpTo, HasItem
  <2>3. Numbered(k, item[k], m) /\ (IsLast(k, m)' <=> IsLast(k, m))
    BY <1>6, <2>1, <2>2 DEF SameLast
  <2> QED
    BY <1>3, <2>2, <2>3, NumberedStays DEF Numbered, SameThread, IdOf
<1>10. upc[k] # "extract" /\ ~HasItem(k) => IsLast(k, Packed(k))'
  <2>1. SUFFICES ASSUME upc[k] # "extract", ~HasItem(k) PROVE IsLast(k, Packed(k))'
    OBVIOUS
  <2>2. PICK m \in Int : m = Packed(k) /\ m <= AddedUpTo(k)
    BY <1>5, <1>8, <2>1 DEF TakenUpTo
  <2>3. IsLast(k, m)'
    BY <1>6, <2>1, <2>2 DEF SameLast
  <2> QED
    BY <1>3, <2>2, <2>3 DEF IsLast
<1>11. RingFrom(k, b)'
  BY <1>4, <1>7
<1>12. b = TakenUpTo(k)' \/ (b = -1 /\ Packed(k)' = 0 /\ upc'[k] = "extract")
  BY <1>3, <1>7 DEF SameThread
<1> QED
  BY <1>3, <1>9, <1>10, <1>11, <1>12 DEF Flow, SameThread

LEMMA FlowStays ==
  ASSUME SessionTypes, NEW k \in Kinds, Flow(k), SameLast(k), SameThread(k),
         ring'[k] = ring[k], AddedUpTo(k)' = AddedUpTo(k)
  PROVE  Flow(k)'
<1>1. ring[k] \in Seq(Item) /\ Len(ring[k]) \in Nat
  BY SeqLen DEF SessionTypes
<1>2. /\ TakenUpTo(k)' = TakenUpTo(k) /\ Packed(k)' = Packed(k)
      /\ HasItem(k)' = HasItem(k)
  BY DEF SameThread, TakenUpTo, Packed, HasItem
<1>3. TakenUpTo(k) \in Nat /\ Packed(k) \in Nat /\ AddedUpTo(k) \in Int
  BY AddedUpToType
<1>4. /\ HasItem(k) => Numbered(k, item[k], Packed(k) + 1)
      /\ upc[k] # "extract" /\ ~HasItem(k) => IsLast(k, Packed(k))
  BY DEF Flow
<1>5. PICK b \in Int : /\ RingFrom(k, b)
                       /\ b = TakenUpTo(k) \/ (b = -1 /\ Packed(k) = 0 /\ upc[k] = "extract")
  BY DEF Flow
<1>6. AddedUpTo(k) = b + Len(ring[k])
  BY <1>5 DEF RingFrom
<1>7. upc[k] # "extract" => TakenUpTo(k) <= AddedUpTo(k)
  BY <1>1, <1>3, <1>5, <1>6
<1>8. ASSUME NEW i \in 1 .. Len(ring[k])
      PROVE  Numbered(k, ring[k][i], b + i)'
  <2>1. Numbered(k, ring[k][i], b + i) /\ b + i <= AddedUpTo(k) /\ b + i \in Int
    BY <1>1, <1>5, <1>6, <1>8 DEF RingFrom
  <2>2. IsLast(k, b + i)' <=> IsLast(k, b + i)
    BY <2>1 DEF SameLast
  <2> QED
    BY <2>1, <2>2, NumberedStays DEF Numbered, IdOf
<1>9. RingFrom(k, b)'
  BY <1>6, <1>8 DEF RingFrom
<1>10. HasItem(k) => Numbered(k, item[k], Packed(k) + 1)'
  <2>1. SUFFICES ASSUME HasItem(k) PROVE Numbered(k, item[k], Packed(k) + 1)'
    OBVIOUS
  <2>2. PICK m \in Int : m = Packed(k) + 1 /\ m <= AddedUpTo(k)
    BY <1>3, <1>7, <2>1 DEF TakenUpTo, HasItem
  <2>3. Numbered(k, item[k], m) /\ (IsLast(k, m)' <=> IsLast(k, m))
    BY <1>4, <2>1, <2>2 DEF SameLast
  <2> QED
    BY <1>2, <2>2, <2>3, NumberedStays DEF Numbered, SameThread, IdOf
<1>11. upc[k] # "extract" /\ ~HasItem(k) => IsLast(k, Packed(k))'
  <2>1. SUFFICES ASSUME upc[k] # "extract", ~HasItem(k) PROVE IsLast(k, Packed(k))'
    OBVIOUS
  <2>2. PICK m \in Int : m = Packed(k) /\ m <= AddedUpTo(k)
    BY <1>3, <1>7, <2>1 DEF TakenUpTo
  <2>3. IsLast(k, m)'
    BY <1>4, <2>1, <2>2 DEF SameLast
  <2> QED
    BY <1>2, <2>2, <2>3 DEF IsLast
<1>12. b = TakenUpTo(k)' \/ (b = -1 /\ Packed(k)' = 0 /\ upc'[k] = "extract")
  BY <1>2, <1>5 DEF SameThread
<1> QED
  BY <1>2, <1>9, <1>10, <1>11, <1>12 DEF Flow, SameThread

LEMMA CollectFlow ==
  ASSUME SessionTypes, \A k \in Kinds : Flow(k), Collect
  PROVE  \A k \in Kinds : Flow(k)'
<1> USE DEF Kinds
<1>1. \A k \in Kinds : SameThread(k)
  BY DEF Collect, addHeader, addShare, addMeta, writeKey, uploading, SameThread
<1>2. NumSecrets \in Nat \ {0}
  BY SessionConstants
<1>3. CASE addHeader
  <2>1. \A k \in Kinds : SameLast(k)
    BY <1>3 DEF addHeader, SameLast, IsLast, EndAdded
  <2>2. NoItem \in Item /\ NoItem.type = "FILE_HEADER"
    BY DEF NoItem, Item
  <2>3. CASE cpc = "header"
    <3>1. ring'["data"] = Append(ring["data"], NoItem) /\ ring'["meta"] = ring["meta"]
      BY <1>3, <2>3 DEF addHeader, addItem, SessionTypes
    <3>2. AddedUpTo("data") = -1 /\ AddedUpTo("data")' = 0
      BY <1>3, <2>3 DEF addHeader, AddedUpTo
    <3>3. AddedUpTo("meta") = -1 /\ AddedUpTo("meta")' = -1
      BY <1>3, <2>3 DEF addHeader, AddedUpTo
    <3>4. Flow("data")'
      BY <1>1, <2>1, <2>2, <3>1, <3>2, FlowAdds
    <3>5. Flow("meta")'
      BY <1>1, <2>1, <3>1, <3>3, FlowStays
    <3> QED
      BY <3>4, <3>5
  <2>4. CASE cpc = "headerMeta"
    <3>1. ring'["meta"] = Append(ring["meta"], NoItem) /\ ring'["data"] = ring["data"]
      BY <1>3, <2>4 DEF addHeader, addItem, SessionTypes
    <3>2. AddedUpTo("meta") = -1 /\ AddedUpTo("meta")' = 0
      <4>1. metaID = -1 /\ metaID' = metaID /\ cpc' = "share"
        BY <1>3, <2>4 DEF addHeader, SessionTypes
      <4>2. AddedUpTo("meta")' = -metaID' - 1
        BY <4>1 DEF AddedUpTo
      <4>3. AddedUpTo("meta") = -1
        BY <2>4 DEF AddedUpTo
      <4>4. \A m \in Int : m + 1 = 0 => -m - 1 = 0
        OBVIOUS
      <4>5. metaID' \in Int /\ metaID' + 1 = 0
        BY <4>1
      <4> QED
        BY <4>2, <4>3, <4>4, <4>5
    <3>3. AddedUpTo("data") = 0 /\ AddedUpTo("data")' = 0
      BY <1>3, <2>4, SMTT(60) DEF addHeader, AddedUpTo, SessionTypes
    <3>4. Flow("meta")'
      BY <1>1, <2>1, <2>2, <3>1, <3>2, FlowAdds
    <3>5. Flow("data")'
      BY <1>1, <2>1, <3>1, <3>3, FlowStays
    <3> QED
      BY <3>4, <3>5
  <2> QED
    BY <1>3, <2>3, <2>4 DEF addHeader
<1>4. CASE addShare
  <2> DEFINE it == Share(secret, ShareSize[secret], secret = NumSecrets)
  <2>1. \A k \in Kinds : SameLast(k)
    BY <1>4 DEF addShare, SameLast, IsLast, EndAdded
  <2>2. it \in Item
    BY SessionConstants, ShareIsItem, SMTT(60) DEF SessionTypes
  <2>3. ring'["data"] = Append(ring["data"], it) /\ ring'["meta"] = ring["meta"]
    BY <1>4 DEF addShare, addItem, SessionTypes
  <2>4. /\ secret \in Int /\ secret # 0
        /\ AddedUpTo("data") = secret - 1 /\ AddedUpTo("data")' = secret
    BY <1>4, SMTT(60) DEF addShare, AddedUpTo, SessionTypes
  <2>5. AddedUpTo("meta")' = AddedUpTo("meta")
    BY <1>4 DEF addShare, AddedUpTo
  <2>6. PICK n \in Int : n = secret
    BY <2>4
  <2>7. /\ it.id = IdOf("data", n)
        /\ it.type = IF IsLast("data", n)' THEN "SHARE_END" ELSE "SHARE_OBJECT"
    BY <2>6 DEF Share, IdOf, IsLast
  <2>8. n # 0 /\ n = AddedUpTo("data") + 1 /\ AddedUpTo("data")' = AddedUpTo("data") + 1
    BY <2>4, <2>6
  <2> HIDE DEF it
  <2>9. Flow("data")'
    BY <1>1, <2>1, <2>2, <2>3, <2>7, <2>8, FlowAdds
  <2>10. Flow("meta")'
    BY <1>1, <2>1, <2>3, <2>5, FlowStays
  <2> QED
    BY <2>9, <2>10
<1>5. CASE addMeta
  <2> DEFINE it == Share(metaID, Len(segment), secret = NumSecrets)
  <2>1. AddedUpTo("meta") = -metaID - 1 /\ AddedUpTo("meta")' = -metaID /\ metaID \in Int /\ metaID # 0
    BY <1>5, SMTT(60) DEF addMeta, AddedUpTo, SessionTypes
  <2>2. SameLast("data")
    BY <1>5 DEF SameLast, IsLast
  <2>3. SameLast("meta")
    BY <1>5, <2>1, SMTT(60) DEF addMeta, SameLast, IsLast, EndAdded
  <2>4. it \in Item
    BY SeqLen, ShareIsItem DEF SessionTypes
  <2>5. ring'["meta"] = Append(ring["meta"], it) /\ ring'["data"] = ring["data"]
    BY <1>5 DEF addMeta, addItem, SessionTypes
  <2>6. AddedUpTo("data")' = AddedUpTo("data")
    BY <1>5 DEF addMeta, AddedUpTo
  <2>7. PICK n \in Int : n = -metaID
    BY <2>1
  <2>8. /\ it.id = IdOf("meta", n)
        /\ it.type = IF IsLast("meta", n)' THEN "SHARE_END" ELSE "SHARE_OBJECT"
    <3>1. -n = metaID /\ n = -metaID' - 1
      BY <1>5, <2>1, <2>7 DEF addMeta
    <3>2. EndAdded' <=> secret = NumSecrets
      BY <1>5 DEF addMeta, EndAdded
    <3> QED
      BY <3>1, <3>2 DEF Share, IdOf, IsLast
  <2>9. n # 0 /\ n = AddedUpTo("meta") + 1 /\ AddedUpTo("meta")' = AddedUpTo("meta") + 1
    BY <2>1, <2>7
  <2> HIDE DEF it
  <2>10. Flow("meta")'
    BY <1>1, <2>3, <2>4, <2>5, <2>8, <2>9, FlowAdds
  <2>11. Flow("data")'
    BY <1>1, <2>2, <2>5, <2>6, FlowStays
  <2> QED
    BY <2>10, <2>11
<1>6. CASE writeKey
  <2>1. \A k \in Kinds : SameLast(k)
    BY <1>6 DEF writeKey, SameLast, IsLast, EndAdded
  <2>2. ring' = ring
    BY <1>6 DEF writeKey
  <2>3. \A k \in Kinds : AddedUpTo(k)' = AddedUpTo(k)
    BY <1>6, SMTT(60) DEF writeKey, AddedUpTo, SessionTypes
  <2> QED
    BY <1>1, <2>1, <2>2, <2>3, FlowStays
<1> QED
  BY <1>3, <1>4, <1>5, <1>6 DEF Collect

--------------------------------------------------------------------------------
\* What a thread's step leaves alone.
SameCollect == UNCHANGED <<cpc, secret, metaID>>

LEMMA SameLastOf ==
  ASSUME SameCollect, NEW k \in Kinds
  PROVE  /\ AddedUpTo(k)' = AddedUpTo(k)
         /\ SameLast(k)
         /\ \A n \in Int : IsLast(k, n)' <=> IsLast(k, n)
BY DEF SameCollect, AddedUpTo, SameLast, IsLast, EndAdded

\* The items of the ring buffer once the first has been taken.
LEMMA RingTaken ==
  ASSUME SessionTypes, NEW k \in Kinds, NEW b \in Int, RingFrom(k, b), SameCollect,
         ring[k] # <<>>, ring'[k] = Tail(ring[k]), NEW c \in Int, c = b + 1
  PROVE  Numbered(k, Head(ring[k]), c) /\ RingFrom(k, c)'
<1>1. /\ ring[k] \in Seq(Item) /\ Len(ring[k]) \in Nat
      /\ Len(ring[k]) >= 1 /\ Len(ring'[k]) = Len(ring[k]) - 1
      /\ Head(ring[k]) = ring[k][1]
      /\ \A i \in 1 .. Len(ring[k]) - 1 : ring'[k][i] = ring[k][i + 1]
  BY TakenRing, SeqLen DEF SessionTypes
<1>2. AddedUpTo(k) = b + Len(ring[k])
  BY DEF RingFrom
<1>3. \A i \in 1 .. Len(ring[k]) : Numbered(k, ring[k][i], b + i)
  BY DEF RingFrom
<1>4. ASSUME NEW i \in 1 .. Len(ring'[k])
      PROVE  Numbered(k, ring[k][i], c + i)'
  <2>1. i + 1 \in 1 .. Len(ring[k]) /\ b + (i + 1) = c + i /\ c + i \in Int /\ i \in 1 .. Len(ring[k]) - 1
    BY <1>1
  <2>2. Numbered(k, ring[k][i + 1], c + i)
    BY <1>3, <2>1
  <2>3. ring'[k][i] = ring[k][i + 1]
    BY <1>1, <2>1
  <2>4. IsLast(k, c + i)' <=> IsLast(k, c + i)
    BY <2>1, SameLastOf
  <2> QED
    BY <2>1, <2>2, <2>3, <2>4, NumberedStays DEF Numbered, IdOf
<1>5. AddedUpTo(k)' = c + Len(ring'[k])
  <2>1. AddedUpTo(k)' = AddedUpTo(k)
    BY SameLastOf
  <2>2. \A l \in Int : b + l = c + (l - 1)
    OBVIOUS
  <2>3. Len(ring[k]) \in Int
    BY <1>1
  <2> QED
    BY <1>1, <1>2, <2>1, <2>2, <2>3
<1>6. Numbered(k, ring[k][1], c)
  BY <1>1, <1>3
<1> QED
  BY <1>1, <1>4, <1>5, <1>6 DEF RingFrom

\* A step of the other thread, or one that leaves the thread's place alone.
LEMMA FlowAside ==
  ASSUME SessionTypes, NEW k \in Kinds, Flow(k), SameCollect, SameThread(k), ring'[k] = ring[k]
  PROVE  Flow(k)'
BY FlowStays, SameLastOf

\* A step within the upload of a package, or of the key file.
LEMMA FlowSends ==
  ASSUME SessionTypes, NEW k \in Kinds, Flow(k), SameCollect, ring'[k] = ring[k], item'[k] = item[k],
         Packed(k)' = Packed(k), upc[k] # "extract", upc'[k] # "extract", HasItem(k)' <=> HasItem(k)
  PROVE  Flow(k)'
<1>1. PICK b \in Int : RingFrom(k, b) /\ b = TakenUpTo(k)
  BY DEF Flow
<1>2. Packed(k) \in Nat
  BY AddedUpToType
<1>3. ring[k] \in Seq(Item) /\ Len(ring[k]) \in Nat
  BY SeqLen DEF SessionTypes
<1>4. b = TakenUpTo(k)'
  BY <1>1 DEF TakenUpTo
<1>5. RingFrom(k, b)'
  <2>1. AddedUpTo(k)' = b + Len(ring'[k])
    BY <1>1, SameLastOf DEF RingFrom
  <2>2. ASSUME NEW i \in 1 .. Len(ring'[k])
        PROVE  Numbered(k, ring[k][i], b + i)'
    <3>1. Numbered(k, ring[k][i], b + i) /\ b + i \in Int
      BY <1>1, <1>3 DEF RingFrom
    <3>2. IsLast(k, b + i)' <=> IsLast(k, b + i)
      BY <3>1, SameLastOf
    <3> QED
      BY <3>1, <3>2, NumberedStays DEF Numbered, IdOf
  <2> QED
    BY <2>1, <2>2 DEF RingFrom
<1>6. PICK m \in Int : m = Packed(k)
  BY <1>2
<1>7. HasItem(k)' => Numbered(k, item[k], Packed(k) + 1)'
  <2>1. SUFFICES ASSUME HasItem(k) PROVE Numbered(k, item[k], Packed(k) + 1)'
    OBVIOUS
  <2>2. Numbered(k, item[k], m + 1) /\ (IsLast(k, m + 1)' <=> IsLast(k, m + 1))
    BY <1>6, <2>1, SameLastOf DEF Flow
  <2> QED
    BY <1>6, <2>2, NumberedStays DEF Numbered, IdOf
<1>8. ~HasItem(k)' => IsLast(k, Packed(k))'
  <2>1. ~HasItem(k) => IsLast(k, m)
    BY <1>6 DEF Flow
  <2>2. ~HasItem(k) => IsLast(k, m)'
    BY <2>1, SameLastOf
  <2> QED
    BY <1>6, <2>2 DEF IsLast
<1> QED
  BY <1>1, <1>4, <1>5, <1>7, <1>8 DEF Flow

LEMMA UploadFlow ==
  ASSUME SessionTypes, NEW k \in Kinds, Flow(k), Upload(k)
  PROVE  Flow(k)'
<1>1. SameCollect
  BY DEF Upload, extractHeader, extractShare, packShare, sendMeta, sendData, collectVars, SameCollect
<1>2. PICK b \in Int : /\ RingFrom(k, b)
                       /\ b = TakenUpTo(k) \/ (b = -1 /\ Packed(k) = 0 /\ upc[k] = "extract")
  BY DEF Flow
<1>3. Packed(k) \in Nat
  BY AddedUpToType
<1>4. CASE extractHeader(k)
  <2>1. ring[k] # <<>> /\ ring'[k] = Tail(ring[k]) /\ upc[k] = "extract" /\ upc' = upc
    BY <1>4 DEF extractHeader, Take, SessionTypes
  <2>2. PICK c \in Int : c = b + 1
    OBVIOUS
  <2>3. Numbered(k, Head(ring[k]), c) /\ RingFrom(k, c)'
    BY <1>1, <1>2, <2>1, <2>2, RingTaken
  <2>4. c = 0
    BY <1>2, <1>3, <1>4, <2>1, <2>2, <2>3 DEF extractHeader, Extracted, Numbered, TakenUpTo, HasItem
  <2>5. Packed(k)' = 0
    BY <1>4, SMTT(60) DEF extractHeader, Packed, SessionTypes
  <2>6. c = TakenUpTo(k)' /\ ~HasItem(k)'
    BY <2>1, <2>4, <2>5 DEF TakenUpTo, HasItem
  <2> QED
    BY <2>1, <2>3, <2>6 DEF Flow
<1>5. CASE extractShare(k)
  <2>1. /\ ring[k] # <<>> /\ ring'[k] = Tail(ring[k]) /\ upc[k] = "extract"
        /\ Head(ring[k]).type # "FILE_HEADER"
        /\ item'[k] = Head(ring[k]) /\ head' = head
    BY <1>5 DEF extractShare, Take, Extracted, SessionTypes
  <2>2. upc'[k] \in {"flush", "pack"}
    BY <1>5 DEF extractShare, Goto, SessionTypes
  <2>3. PICK c \in Int : c = b + 1
    OBVIOUS
  <2>4. Numbered(k, Head(ring[k]), c) /\ RingFrom(k, c)'
    BY <1>1, <1>2, <2>1, <2>3, RingTaken
  <2>5. c # 0
    BY <2>1, <2>4 DEF Numbered
  <2>6. c = Packed(k) + 1
    BY <1>2, <1>3, <2>1, <2>3, <2>5 DEF TakenUpTo, HasItem
  <2>7. Packed(k)' = Packed(k) /\ HasItem(k)'
    BY <2>1, <2>2 DEF Packed, HasItem
  <2>8. c = TakenUpTo(k)' /\ c = Packed(k)' + 1
    BY <2>6, <2>7 DEF TakenUpTo
  <2>9. IsLast(k, c)' <=> IsLast(k, c)
    BY <1>1, SameLastOf
  <2>10. Numbered(k, item[k], Packed(k) + 1)'
    BY <2>1, <2>4, <2>5, <2>8, <2>9, NumberedStays DEF Numbered, IdOf
  <2> QED
    BY <2>2, <2>4, <2>7, <2>8, <2>10 DEF Flow
<1>6. CASE packShare(k)
  <2>1. upc[k] = "pack" /\ ring' = ring /\ item' = item
    BY <1>6 DEF packShare
  <2>2. head[k] \in [past : Nat, coming : Nat]
    BY DEF SessionTypes
  <2>3. head'[k] = [head[k] EXCEPT !.coming = @ + 1]
    BY <1>6 DEF packShare, SessionTypes
  <2>4. Packed(k)' = Packed(k) + 1
    BY <2>2, <2>3, SMTT(60) DEF Packed
  <2>5. PICK m \in Int : m = Packed(k) + 1 /\ m # 0
    BY <1>3
  <2>6. RingFrom(k, m) /\ Numbered(k, item[k], m)
    BY <1>2, <2>1, <2>5 DEF Flow, TakenUpTo, HasItem
  <2>7. RingFrom(k, m)'
    <3>1. ring[k] \in Seq(Item) /\ Len(ring[k]) \in Nat
      BY SeqLen DEF SessionTypes
    <3>2. AddedUpTo(k)' = m + Len(ring'[k])
      BY <1>1, <2>1, <2>6, SameLastOf DEF RingFrom
    <3>3. ASSUME NEW i \in 1 .. Len(ring'[k])
          PROVE  Numbered(k, ring[k][i], m + i)'
      <4>1. Numbered(k, ring[k][i], m + i) /\ m + i \in Int
        BY <2>1, <2>6, <3>1 DEF RingFrom
      <4>2. IsLast(k, m + i)' <=> IsLast(k, m + i)
        BY <1>1, <4>1, SameLastOf
      <4> QED
        BY <2>1, <4>1, <4>2, NumberedStays DEF Numbered, IdOf
    <3> QED
      BY <3>2, <3>3 DEF RingFrom
  <2>8. upc'[k] = IF item[k].type = "SHARE_END" THEN "last" ELSE "extract"
    BY <1>6 DEF packShare, Goto, SessionTypes
  <2>9. ~HasItem(k)' /\ m = TakenUpTo(k)' /\ m = Packed(k)'
    BY <2>4, <2>5, <2>8 DEF HasItem, TakenUpTo
  <2>10. upc'[k] # "extract" => IsLast(k, m)
    BY <2>5, <2>6, <2>8 DEF Numbered
  <2>11. upc'[k] # "extract" => IsLast(k, m)'
    BY <1>1, <2>10, SameLastOf
  <2>12. upc'[k] # "extract" => IsLast(k, Packed(k))'
    BY <2>9, <2>11 DEF IsLast
  <2> QED
    BY <2>7, <2>9, <2>12 DEF Flow
<1>7. CASE sendMeta(k)
  <2>1. ring' = ring /\ item' = item /\ head' = head
    BY <1>7 DEF sendMeta
  <2>2. \/ upc[k] = "flush" /\ upc'[k] = "flushStatus"
        \/ upc[k] = "last" /\ upc'[k] = "lastStatus"
    BY <1>7 DEF sendMeta, Goto, SessionTypes
  <2>3. Packed(k)' = Packed(k) /\ (HasItem(k)' <=> HasItem(k))
    BY <2>1, <2>2 DEF Packed, HasItem
  <2> QED
    BY <1>1, <2>1, <2>2, <2>3, FlowSends
<1>8. CASE sendData(k)
  <2>1. ring' = ring /\ item' = item
    BY <1>8 DEF sendData
  <2>2. \/ upc[k] = "flushStatus" /\ upc'[k] = "pack" /\ head'[k] = updateHeader(head[k])
        \/ upc[k] = "lastStatus" /\ upc'[k] \in {"encrypt", "exit"} /\ head' = head
    BY <1>8, SMTT(60) DEF sendData, Goto, SessionTypes
  <2>3. head[k] \in [past : Nat, coming : Nat]
    BY DEF SessionTypes
  <2>4. Packed(k)' = Packed(k) /\ (HasItem(k)' <=> HasItem(k))
    BY <2>2, <2>3, SMTT(60) DEF Packed, HasItem, updateHeader
  <2> QED
    BY <1>1, <2>1, <2>2, <2>4, FlowSends
<1> QED
  BY <1>4, <1>5, <1>6, <1>7, <1>8 DEF Upload

LEMMA StepStream ==
  ASSUME StreamInv, [UploadNext]_uploadVars
  PROVE  StreamInv'
<1> USE DEF StreamInv
<1>1. CASE Collect
  BY <1>1, CollectTypes, CollectFlow
<1>2. ASSUME NEW k \in Kinds, Upload(k)
      PROVE  StreamInv'
  <2>1. SessionTypes' /\ Flow(k)'
    BY <1>2, UploadTypes, UploadFlow
  <2>2. ASSUME NEW j \in Kinds, j # k
        PROVE  Flow(j)'
    <3>1. SameCollect
      BY <1>2 DEF Upload, extractHeader, extractShare, packShare, sendMeta, sendData, collectVars, SameCollect
    <3>2. ring'[j] = ring[j]
      BY <1>2, <2>2 DEF Upload, extractHeader, extractShare, packShare, sendMeta, sendData, Take, SessionTypes
    <3>3. upc'[j] = upc[j]
      BY <1>2, <2>2 DEF Upload, extractHeader, extractShare, packShare, sendMeta, sendData, Goto, SessionTypes
    <3>4. item'[j] = item[j]
      BY <1>2, <2>2 DEF Upload, extractHeader, extractShare, packShare, sendMeta, sendData, SessionTypes
    <3>5. head'[j] = head[j]
      BY <1>2, <2>2 DEF Upload, extractHeader, extractShare, packShare, sendMeta, sendData, SessionTypes
    <3> QED
      BY <3>1, <3>2, <3>3, <3>4, <3>5, FlowAside DEF SameThread
  <2> QED
    BY <2>1, <2>2
<1>3. CASE KeyUpload
  <2>1. SessionTypes'
    BY <1>3, OtherTypes
  <2>2. SameCollect /\ ring' = ring /\ item' = item /\ head' = head
    BY <1>3 DEF KeyUpload, encryptKeyFile, removeKeyFile, sendKeyFile, collectVars, SameCollect
  <2>3. "meta" \in Kinds /\ "data" \in Kinds /\ Kinds = {"data", "meta"}
    BY DEF Kinds
  <2>4. \/ upc' = upc
        \/ /\ upc["meta"] \in {"encrypt", "remove", "sendKeys"}
           /\ upc'["meta"] \in {"remove", "sendKeys", "exit"}
           /\ upc'["data"] = upc["data"]
    BY <1>3, <2>3, ZenonT(60) DEF KeyUpload, encryptKeyFile, removeKeyFile, sendKeyFile, Goto, SessionTypes
  <2>5. CASE upc' = upc
    BY <2>1, <2>2, <2>5, FlowAside DEF SameThread
  <2>6. CASE upc["meta"] \in {"encrypt", "remove", "sendKeys"}
             /\ upc'["meta"] \in {"remove", "sendKeys", "exit"} /\ upc'["data"] = upc["data"]
    <3>1. Flow("data")'
      BY <2>2, <2>3, <2>6, FlowAside DEF SameThread
    <3>2. Flow("meta")'
      BY <2>2, <2>3, <2>6, FlowSends DEF Packed, HasItem
    <3> QED
      BY <2>1, <2>3, <3>1, <3>2
  <2> QED
    BY <2>4, <2>5, <2>6
<1>4. CASE indicateEnd \/ recvKeyRecipe \/ UNCHANGED uploadVars \/ \E k \in Kinds : Serve(k)
  <2>1. SessionTypes'
    BY <1>4, OtherTypes
  <2>2. SameCollect /\ ring' = ring /\ upc' = upc /\ item' = item /\ head' = head
    BY <1>4 DEF indicateEnd, recvKeyRecipe, Receive, Serve, recvMeta, recvData, uploadVars,
                       collectVars, uploading, SameCollect
  <2> QED
    BY <2>1, <2>2, FlowAside DEF SameThread
<1> QED
  BY <1>1, <1>2, <1>3, <1>4 DEF UploadNext, Over

LEMMA InitStream == UploadInit => StreamInv
<1> SUFFICES ASSUME UploadInit PROVE StreamInv
  OBVIOUS
<1>1. SessionTypes
  BY InitTypes
<1>2. ASSUME NEW k \in Kinds
      PROVE  Flow(k)
  <2>1. AddedUpTo(k) = -1 /\ ring[k] = <<>> /\ upc[k] = "extract" /\ Packed(k) = 0 /\ ~HasItem(k)
    BY DEF UploadInit, AddedUpTo, Packed, HasItem
  <2>2. RingFrom(k, -1)
    BY <2>1 DEF RingFrom
  <2> QED
    BY <2>1, <2>2 DEF Flow
<1> QED
  BY <1>1, <1>2 DEF StreamInv

--------------------------------------------------------------------------------
(* The packages and the keys of an upload.                                 *)

MetaMsg(k) == [type |-> "META", past |-> head[k].past, coming |-> head[k].coming,
               entries |-> entries[k]]
KeyMsg == [type |-> "KEY_RECIPE", keys |-> encKeys]

\* The server has the header of the package that the thread waits for.
Answered(k) == toClient[k] # <<>>

\* A package whose header the server has and whose data is on its way.
DataOut(k) == toServer[k] # <<>> /\ Head(toServer[k]).type = "DATA"

Messages(k) ==
  /\ \/ toServer[k] = <<>>
     \/ \E d : d.type = "DATA" /\ toServer[k] = <<d>>
     \/ toServer[k] = <<MetaMsg(k)>> /\ Waiting(k)
     \/ (\E d : d.type = "DATA" /\ toServer[k] = <<d, MetaMsg(k)>>) /\ Waiting(k)
     \/ toServer[k] = <<KeyMsg>> /\ k = "meta" /\ upc[k] = "exit"
     \/ (\E d : d.type = "DATA" /\ toServer[k] = <<d, KeyMsg>>) /\ k = "meta" /\ upc[k] = "exit"
  /\ \/ toClient[k] = <<>>
     \/ (\E s : toClient[k] = <<s>>) /\ Waiting(k) /\ toServer[k] = <<>>
  /\ Waiting(k) /\ toClient[k] = <<>> =>
       \/ toServer[k] = <<MetaMsg(k)>>
       \/ \E d : d.type = "DATA" /\ toServer[k] = <<d, MetaMsg(k)>>

\* The entries in the buffer are those of the package that the header counts.
Buffered(k) ==
  /\ Len(entries[k]) = head[k].coming
  /\ \A i \in 1 .. Len(entries[k]) : entries[k][i].id = IdOf(k, head[k].past + i)

Tiled(k) ==
  \A n \in 1 .. Len(packages[k]) :
    LET p == packages[k][n]
    IN  /\ DOMAIN p = {"past", "coming", "entries", "status", "received", "bytes"}
        /\ p.past \in Nat /\ p.coming \in Nat
        /\ p.past = IF n = 1 THEN 0 ELSE packages[k][n - 1].past + packages[k][n - 1].coming
        /\ p.coming = Len(p.entries)
        /\ \A i \in 1 .. Len(p.entries) : p.entries[i].id = IdOf(k, p.past + i)

Received(k) ==
  /\ Answered(k) \/ DataOut(k) => packages[k] # <<>>
  /\ \A n \in 1 .. Len(packages[k]) :
       n < Len(packages[k]) \/ ~(Answered(k) \/ DataOut(k)) => packages[k][n].received

Packages(k) ==
  /\ \E S : packages[k] \in Seq(S)
  /\ Tiled(k)
  /\ Received(k)
  /\ PackagesEnd(k) = IF Answered(k) \/ Finished(k) THEN Packed(k) ELSE head[k].past

Pack(k) == Messages(k) /\ Buffered(k) /\ Packages(k)

PackInv == \A k \in Kinds : Pack(k)

--------------------------------------------------------------------------------
\* The keys of the first n meta chunks.
KeysUpTo(s, n) == \A i \in 1 .. n : -i \in Range(s)

KeyInv ==
  /\ keyFile \in Seq(Int)
  /\ upc["meta"] \notin {"sendKeys", "exit"} =>
       /\ KeysUpTo(keyFile, -metaID - 2)
       /\ cpc # "key" => KeysUpTo(keyFile, -metaID - 1)
  /\ upc["meta"] \in {"remove", "sendKeys", "exit"} => KeysUpTo(encKeys, -metaID - 2)
  /\ keystore # <<>> => upc["meta"] = "exit" /\ keystore = encKeys

--------------------------------------------------------------------------------
LEMMA Tuples ==
  ASSUME NEW a, NEW b
  PROVE  /\ Append(<<>>, a) = <<a>> /\ Append(<<a>>, b) = <<a, b>>
         /\ Head(<<a>>) = a /\ Tail(<<a>>) = <<>> /\ <<a>> # <<>>
         /\ Head(<<a, b>>) = a /\ Tail(<<a, b>>) = <<b>> /\ <<a, b>> # <<>>
<1>1. Append(<<>>, a) = <<a>>
  OBVIOUS
<1>2. Append(<<a>>, b) = <<a, b>>
  <2>1. <<a>> \in Seq({a, b}) /\ <<a, b>> \in Seq({a, b}) /\ b \in {a, b}
    OBVIOUS
  <2>2. Append(<<a>>, b) \in Seq({a, b})
    BY <2>1, SeqAppend
  <2>3. Len(Append(<<a>>, b)) = 2 /\ Append(<<a>>, b)[1] = a /\ Append(<<a>>, b)[2] = b
    BY <2>1, SeqAppend, SMTT(60)
  <2>4. Len(<<a, b>>) = 2 /\ \A i \in 1 .. 2 : Append(<<a>>, b)[i] = <<a, b>>[i]
    BY <2>3
  <2> QED
    BY <2>1, <2>2, <2>3, <2>4, SeqSame
<1>3. Head(<<a>>) = a /\ Head(<<a, b>>) = a
  OBVIOUS
<1>4. Tail(<<a>>) = <<>>
  OBVIOUS
<1>5. Tail(<<a, b>>) = <<b>>
  OBVIOUS
<1>6. <<a>> # <<>> /\ <<a, b>> # <<>>
  OBVIOUS
<1> QED
  BY <1>1, <1>2, <1>3, <1>4, <1>5, <1>6

LEMMA AppendAny ==
  ASSUME NEW S, NEW s \in Seq(S), NEW e
  PROVE  /\ Append(s, e) \in Seq(S \cup {e})
         /\ Len(s) \in Nat /\ Len(Append(s, e)) = Len(s) + 1
         /\ \A i \in 1 .. Len(s) : Append(s, e)[i] = s[i]
         /\ Append(s, e)[Len(s) + 1] = e
<1>1. s \in Seq(S \cup {e})
  OBVIOUS
<1> QED
  BY <1>1, SeqAppend, SeqLen, SMTT(60)

LEMMA ReplacedLast ==
  ASSUME NEW S, NEW s \in Seq(S), NEW e, NEW t, t = [s EXCEPT ![Len(s)] = e], s # <<>>
  PROVE  /\ t \in Seq(S \cup {e}) /\ Len(s) \in Nat \ {0} /\ Len(t) = Len(s)
         /\ \A i \in 1 .. Len(s) : t[i] = IF i = Len(s) THEN e ELSE s[i]
<1>1. Len(s) \in Nat \ {0} /\ DOMAIN s = 1 .. Len(s)
  BY SeqLen, SeqNone
<1>2. s \in [1 .. Len(s) -> S]
  BY <1>1, SeqLen
<1>3. t \in [1 .. Len(s) -> S \cup {e}]
  BY <1>2
<1>4. t \in Seq(S \cup {e}) /\ Len(t) = Len(s)
  BY <1>1, <1>3, SeqOf, ZenonT(60)
<1> QED
  BY <1>1, <1>2, <1>4

--------------------------------------------------------------------------------
(* The packages.                                                           *)

LEMMA MessageTypes ==
  ASSUME NEW k
  PROVE  MetaMsg(k).type = "META" /\ KeyMsg.type = "KEY_RECIPE"
BY DEF MetaMsg, KeyMsg

\* While the thread is not waiting there is at most the data of the last
\* package under way, or the key file after it.
LEMMA QuietLine ==
  ASSUME NEW k \in Kinds, Messages(k), ~Waiting(k), upc[k] # "exit"
  PROVE  /\ toClient[k] = <<>>
         /\ \/ toServer[k] = <<>>
            \/ \E d : d.type = "DATA" /\ toServer[k] = <<d>>
BY DEF Messages

LEMMA PackStays ==
  ASSUME NEW k \in Kinds, Pack(k),
         toServer'[k] = toServer[k], toClient'[k] = toClient[k], packages'[k] = packages[k],
         entries'[k] = entries[k], head'[k] = head[k],
         Waiting(k)' <=> Waiting(k), Finished(k)' <=> Finished(k),
         upc[k] = "exit" => upc'[k] = "exit", k = "meta" /\ upc[k] = "exit" => encKeys' = encKeys
  PROVE  Pack(k)'
<1>1. Buffered(k)'
  BY DEF Pack, Buffered, IdOf
<1>2. MetaMsg(k)' = MetaMsg(k) /\ (k = "meta" /\ upc[k] = "exit" => KeyMsg' = KeyMsg)
  BY DEF MetaMsg, KeyMsg
<1>3. Messages(k)'
  BY <1>2 DEF Pack, Messages
<1>4. Answered(k)' <=> Answered(k)
  BY DEF Answered
<1>5. DataOut(k)' <=> DataOut(k)
  BY DEF DataOut
<1>6. Packed(k)' = Packed(k) /\ PackagesEnd(k)' = PackagesEnd(k)
  BY DEF Packed, PackagesEnd
<1>7. Tiled(k)'
  BY SMTT(60) DEF Pack, Packages, Tiled, IdOf
<1>8. Received(k)'
  BY <1>4, <1>5 DEF Pack, Packages, Received
<1>9. Packages(k)'
  BY <1>4, <1>6, <1>7, <1>8 DEF Pack, Packages
<1> QED
  BY <1>1, <1>3, <1>9 DEF Pack

--------------------------------------------------------------------------------
LEMMA PackShareKeeps ==
  ASSUME SessionTypes, NEW k \in Kinds, Flow(k), Pack(k), packShare(k)
  PROVE  Pack(k)'
<1>1. /\ upc[k] = "pack" /\ toServer' = toServer /\ toClient' = toClient /\ packages' = packages
      /\ entries'[k] = Append(entries[k], item[k])
      /\ upc'[k] \in {"last", "extract"}
  BY DEF packShare, Goto, SessionTypes, sockets
<1>2. head[k] \in [past : Nat, coming : Nat] /\ head'[k] = [head[k] EXCEPT !.coming = @ + 1]
  BY DEF packShare, SessionTypes
<1>3. head'[k].past = head[k].past /\ head'[k].coming = head[k].coming + 1
      /\ head[k].past \in Nat /\ head[k].coming \in Nat
  BY <1>2
<1>4. /\ toClient[k] = <<>>
      /\ \/ toServer[k] = <<>>
         \/ \E d : d.type = "DATA" /\ toServer[k] = <<d>>
  BY <1>1, QuietLine DEF Pack, Waiting
<1>5. Messages(k)'
  BY <1>1, <1>4 DEF Messages, Waiting
<1>6. Buffered(k)'
  <2>1. entries[k] \in Seq(Item) /\ item[k] \in Item
    BY DEF SessionTypes
  <2>2. /\ Len(entries'[k]) = Len(entries[k]) + 1 /\ Len(entries[k]) \in Nat
        /\ \A i \in 1 .. Len(entries[k]) : entries'[k][i] = entries[k][i]
        /\ entries'[k][Len(entries[k]) + 1] = item[k]
    BY <1>1, <2>1, SeqAppend, SeqLen, SMTT(60)
  <2>3. /\ Len(entries[k]) = head[k].coming
        /\ \A i \in 1 .. Len(entries[k]) : entries[k][i].id = IdOf(k, head[k].past + i)
    BY DEF Pack, Buffered
  <2>4. item[k].id = IdOf(k, head[k].past + (Len(entries[k]) + 1))
    <3>1. Numbered(k, item[k], Packed(k) + 1)
      BY <1>1 DEF Flow, HasItem
    <3>2. \A p, c \in Nat : (p + c) + 1 # 0 /\ (p + c) + 1 = p + (c + 1)
      OBVIOUS
    <3>3. Packed(k) + 1 # 0 /\ Packed(k) + 1 = head[k].past + (Len(entries[k]) + 1)
      BY <1>3, <2>3, <3>2 DEF Packed
    <3> QED
      BY <3>1, <3>3 DEF Numbered
  <2>5. Len(entries'[k]) = head'[k].coming
    BY <1>3, <2>2, <2>3
  <2>6. ASSUME NEW i \in 1 .. Len(entries'[k])
        PROVE  entries'[k][i].id = IdOf(k, head'[k].past + i)
    <3>1. i \in 1 .. Len(entries[k]) \/ i = Len(entries[k]) + 1
      BY <2>2
    <3> QED
      BY <1>3, <2>2, <2>3, <2>4, <3>1
  <2> QED
    BY <2>5, <2>6 DEF Buffered, IdOf
<1>7. Packages(k)'
  <2>1. ~Answered(k) /\ ~Answered(k)' /\ ~Finished(k) /\ ~Finished(k)'
    BY <1>1, <1>4 DEF Answered, Finished
  <2>2. (DataOut(k)' <=> DataOut(k)) /\ PackagesEnd(k)' = PackagesEnd(k)
    BY <1>1 DEF DataOut, PackagesEnd
  <2>3. Tiled(k)'
    BY <1>1 DEF Pack, Packages, Tiled, IdOf
  <2>4. Received(k)'
    BY <1>1, <2>1, <2>2 DEF Pack, Packages, Received
  <2>5. PackagesEnd(k)' = head'[k].past
    BY <1>3, <2>1, <2>2 DEF Pack, Packages
  <2> QED
    BY <1>1, <2>1, <2>3, <2>4, <2>5 DEF Pack, Packages
<1> QED
  BY <1>5, <1>6, <1>7 DEF Pack

LEMMA SendMetaKeeps ==
  ASSUME SessionTypes, NEW k \in Kinds, Pack(k), sendMeta(k)
  PROVE  Pack(k)'
<1>1. /\ upc[k] \in {"flush", "last"} /\ upc'[k] \in {"flushStatus", "lastStatus"}
      /\ head' = head /\ entries' = entries /\ toClient' = toClient /\ packages' = packages
      /\ toServer'[k] = Append(toServer[k], MetaMsg(k))
  BY DEF sendMeta, Goto, Send, SessionTypes, MetaMsg
<1>2. MetaMsg(k)' = MetaMsg(k)
  BY <1>1 DEF MetaMsg
<1>3. /\ toClient[k] = <<>>
      /\ \/ toServer[k] = <<>>
         \/ \E d : d.type = "DATA" /\ toServer[k] = <<d>>
  BY <1>1, QuietLine DEF Pack, Waiting
<1>4. Waiting(k)' /\ ~Finished(k) /\ ~Finished(k)' /\ ~Answered(k) /\ ~Answered(k)'
  BY <1>1, <1>3 DEF Waiting, Finished, Answered
<1>5. ASSUME toServer[k] = <<>>
      PROVE  Messages(k)' /\ Received(k)'
  <2>1. toServer'[k] = <<MetaMsg(k)>>
    BY <1>1, <1>5, Tuples
  <2>2. Messages(k)'
    BY <1>1, <1>2, <1>3, <1>4, <2>1 DEF Messages
  <2>3. ~DataOut(k) /\ ~DataOut(k)'
    BY <1>5, <2>1, Tuples, MessageTypes, SMTT(60) DEF DataOut
  <2>4. Received(k)'
    BY <1>1, <1>4, <2>3 DEF Pack, Packages, Received
  <2> QED
    BY <2>2, <2>4
<1>6. ASSUME NEW d, d.type = "DATA", toServer[k] = <<d>>
      PROVE  Messages(k)' /\ Received(k)'
  <2>1. toServer'[k] = <<d, MetaMsg(k)>>
    BY <1>1, <1>6, Tuples, ZenonT(60)
  <2>2. Messages(k)'
    BY <1>1, <1>2, <1>3, <1>4, <1>6, <2>1 DEF Messages
  <2>3. DataOut(k) /\ DataOut(k)'
    BY <1>6, <2>1, Tuples, ZenonT(60) DEF DataOut
  <2>4. Received(k)'
    BY <1>1, <1>4, <2>3 DEF Pack, Packages, Received
  <2> QED
    BY <2>2, <2>4
<1>7. Messages(k)' /\ Received(k)'
  BY <1>3, <1>5, <1>6
<1>8. Buffered(k)'
  BY <1>1 DEF Pack, Buffered, IdOf
<1>9. Tiled(k)' /\ PackagesEnd(k)' = PackagesEnd(k)
  BY <1>1 DEF Pack, Packages, Tiled, IdOf, PackagesEnd
<1>10. Packages(k)'
  BY <1>1, <1>4, <1>7, <1>9 DEF Pack, Packages
<1> QED
  BY <1>7, <1>8, <1>10 DEF Pack

LEMMA SendDataKeeps ==
  ASSUME SessionTypes, NEW k \in Kinds, Pack(k), sendData(k)
  PROVE  Pack(k)'
<1> DEFINE d == [type |-> "DATA", bytes |-> Compact(container[k], entries[k], Head(toClient[k]))]
<1>1. /\ Waiting(k) /\ toClient[k] # <<>> /\ packages' = packages
      /\ toServer'[k] = Append(toServer[k], d)
      /\ toClient'[k] = Tail(toClient[k])
  BY DEF sendData, Send, SessionTypes, Waiting
<1>2. d.type = "DATA"
  OBVIOUS
<1> HIDE DEF d
<1>3. toServer[k] = <<>> /\ \E s : toClient[k] = <<s>>
  BY <1>1 DEF Pack, Messages
<1>4. toServer'[k] = <<d>> /\ toClient'[k] = <<>>
  BY <1>1, <1>3, Tuples
<1>5. \/ /\ upc'[k] = "pack" /\ head'[k] = updateHeader(head[k]) /\ entries'[k] = <<>>
      \/ upc'[k] \in {"encrypt", "exit"} /\ head' = head /\ entries' = entries
  BY SMTT(60) DEF sendData, Goto, SessionTypes
<1>6. ~Waiting(k)' /\ ~Answered(k)' /\ Answered(k) /\ ~DataOut(k) /\ DataOut(k)'
  <2>1. ~Waiting(k)'
    BY <1>5 DEF Waiting
  <2>2. ~Answered(k)' /\ Answered(k)
    BY <1>1, <1>4 DEF Answered
  <2>3. ~DataOut(k) /\ DataOut(k)'
    BY <1>2, <1>3, <1>4, Tuples DEF DataOut
  <2> QED
    BY <2>1, <2>2, <2>3
<1>7. Messages(k)'
  BY <1>2, <1>4, <1>6 DEF Messages
<1>8. head[k] \in [past : Nat, coming : Nat]
  BY DEF SessionTypes
<1>9. Buffered(k)'
  BY <1>5, <1>8, SMTT(60) DEF Pack, Buffered, IdOf, updateHeader
<1>10. Tiled(k)' /\ PackagesEnd(k)' = PackagesEnd(k)
  BY <1>1 DEF Pack, Packages, Tiled, IdOf, PackagesEnd
<1>11. Received(k)'
  BY <1>1, <1>6 DEF Pack, Packages, Received
<1>12. PackagesEnd(k) = Packed(k)
  BY <1>6 DEF Pack, Packages
<1>13. Packed(k) = IF Finished(k)' THEN Packed(k)' ELSE head'[k].past
  BY <1>5, <1>8, SMTT(60) DEF Finished, Packed, updateHeader
<1>14. Packages(k)'
  BY <1>1, <1>6, <1>10, <1>11, <1>12, <1>13 DEF Pack, Packages
<1> QED
  BY <1>7, <1>9, <1>14 DEF Pack

LEMMA RecvMetaKeeps ==
  ASSUME SessionTypes, NEW k \in Kinds, Pack(k), recvMeta(k)
  PROVE  Pack(k)'
<1>1. /\ toServer[k] # <<>> /\ Head(toServer[k]).type = "META"
      /\ upc' = upc /\ head' = head /\ entries' = entries
      /\ toServer'[k] = Tail(toServer[k])
  BY DEF recvMeta, Receive, uploading, SessionTypes
<1>2. toServer[k] = <<MetaMsg(k)>> /\ Waiting(k) /\ toClient[k] = <<>>
  BY <1>1, Tuples, MessageTypes, SMTT(60) DEF Pack, Messages
<1>3. toServer'[k] = <<>>
  BY <1>1, <1>2, Tuples
<1>4. PICK status :
        /\ toClient'[k] = Append(toClient[k], status)
        /\ packages'[k] = Append(packages[k],
             [past |-> Head(toServer[k]).past, coming |-> Head(toServer[k]).coming,
              entries |-> Head(toServer[k]).entries,
              status |-> status, received |-> FALSE, bytes |-> <<>>])
  BY ZenonT(60) DEF recvMeta, SessionTypes
<1>5. Head(toServer[k]) = MetaMsg(k)
  BY <1>2, Tuples
<1> DEFINE p == [past |-> head[k].past, coming |-> head[k].coming, entries |-> entries[k],
                 status |-> status, received |-> FALSE, bytes |-> <<>>]
<1>6. packages'[k] = Append(packages[k], p)
  <2>1. MetaMsg(k).past = head[k].past /\ MetaMsg(k).coming = head[k].coming /\ MetaMsg(k).entries = entries[k]
    BY DEF MetaMsg
  <2> QED
    BY <1>4, <1>5, <2>1
<1>7. toClient'[k] = <<status>>
  BY <1>2, <1>4, Tuples
<1>8. Messages(k)'
  BY <1>1, <1>2, <1>3, <1>7, Tuples DEF Messages, Waiting
<1>9. Buffered(k)'
  BY <1>1 DEF Pack, Buffered, IdOf
<1>10. PICK S : packages[k] \in Seq(S)
  BY DEF Pack, Packages
<1>11. /\ packages'[k] \in Seq(S \cup {p})
       /\ Len(packages[k]) \in Nat /\ Len(packages'[k]) = Len(packages[k]) + 1
       /\ \A i \in 1 .. Len(packages[k]) : packages'[k][i] = packages[k][i]
       /\ packages'[k][Len(packages[k]) + 1] = p
  BY <1>6, <1>10, AppendAny, SMTT(60)
<1>12. /\ p.past = head[k].past /\ p.coming = head[k].coming /\ p.entries = entries[k]
       /\ DOMAIN p = {"past", "coming", "entries", "status", "received", "bytes"}
  OBVIOUS
<1> HIDE DEF p
<1>13. head[k].past \in Nat /\ head[k].coming \in Nat
  BY DEF SessionTypes
<1>14. ~Answered(k) /\ ~Finished(k) /\ ~DataOut(k)
  BY <1>1, <1>2 DEF Answered, Finished, Waiting, DataOut
<1>15. PackagesEnd(k) = head[k].past
  BY <1>14 DEF Pack, Packages
<1>16. Tiled(k)'
  <2>1. ASSUME NEW n \in 1 .. Len(packages'[k])
        PROVE  /\ DOMAIN packages'[k][n] = {"past", "coming", "entries", "status", "received", "bytes"}
               /\ packages'[k][n].past \in Nat /\ packages'[k][n].coming \in Nat
               /\ packages'[k][n].past = IF n = 1 THEN 0 ELSE packages'[k][n - 1].past + packages'[k][n - 1].coming
               /\ packages'[k][n].coming = Len(packages'[k][n].entries)
               /\ \A i \in 1 .. Len(packages'[k][n].entries) :
                    packages'[k][n].entries[i].id = IdOf(k, packages'[k][n].past + i)
    <3>1. CASE n \in 1 .. Len(packages[k])
      <4>1. packages'[k][n] = packages[k][n]
        BY <1>11, <3>1
      <4>2. n # 1 => packages'[k][n - 1] = packages[k][n - 1]
        BY <1>11, <3>1
      <4>3. /\ DOMAIN packages[k][n] = {"past", "coming", "entries", "status", "received", "bytes"}
            /\ packages[k][n].past \in Nat /\ packages[k][n].coming \in Nat
            /\ packages[k][n].past = IF n = 1 THEN 0 ELSE packages[k][n - 1].past + packages[k][n - 1].coming
            /\ packages[k][n].coming = Len(packages[k][n].entries)
            /\ \A i \in 1 .. Len(packages[k][n].entries) :
                 packages[k][n].entries[i].id = IdOf(k, packages[k][n].past + i)
        BY <3>1 DEF Pack, Packages, Tiled
      <4> QED
        BY <4>1, <4>2, <4>3
    <3>2. CASE n = Len(packages[k]) + 1
      <4>1. packages'[k][n] = p
        BY <1>11, <3>2
      <4>2. n = 1 => packages[k] = <<>>
        BY <1>10, <1>11, <3>2, SeqNone
      <4>3. n # 1 => packages[k] # <<>> /\ packages'[k][n - 1] = packages[k][Len(packages[k])]
        BY <1>10, <1>11, <3>2, SeqNone
      <4>4. p.past = IF n = 1 THEN 0 ELSE packages'[k][n - 1].past + packages'[k][n - 1].coming
        BY <1>12, <1>15, <4>2, <4>3 DEF PackagesEnd
      <4>5. p.coming = Len(p.entries) /\ \A i \in 1 .. Len(p.entries) : p.entries[i].id = IdOf(k, p.past + i)
        BY <1>12 DEF Pack, Buffered
      <4> QED
        BY <1>12, <1>13, <4>1, <4>4, <4>5
    <3> QED
      BY <1>11, <3>1, <3>2
  <2> QED
    BY <2>1 DEF Tiled, IdOf
<1>17. Received(k)'
  <2>1. \A n \in 1 .. Len(packages[k]) : packages[k][n].received
    BY <1>14 DEF Pack, Packages, Received
  <2>2. \A n \in 1 .. Len(packages'[k]) : n < Len(packages'[k]) => packages'[k][n].received
    BY <1>11, <2>1
  <2>3. packages'[k] # <<>>
    BY <1>11, SeqNone
  <2>4. Answered(k)'
    BY <1>7, Tuples DEF Answered
  <2> QED
    BY <2>2, <2>3, <2>4 DEF Received
<1>18. PackagesEnd(k)' = Packed(k)'
  <2>1. packages'[k] # <<>> /\ packages'[k][Len(packages'[k])] = p
    BY <1>11, SeqNone
  <2> QED
    BY <1>1, <1>12, <2>1 DEF PackagesEnd, Packed
<1>19. Packages(k)'
  <2>1. Answered(k)'
    BY <1>7, Tuples DEF Answered
  <2> QED
    BY <1>11, <1>16, <1>17, <1>18, <2>1 DEF Packages
<1> QED
  BY <1>8, <1>9, <1>19 DEF Pack

LEMMA RecvDataKeeps ==
  ASSUME SessionTypes, NEW k \in Kinds, Pack(k), recvData(k)
  PROVE  Pack(k)'
<1>1. /\ toServer[k] # <<>> /\ Head(toServer[k]).type = "DATA"
      /\ upc' = upc /\ head' = head /\ entries' = entries /\ toClient' = toClient /\ encKeys' = encKeys
      /\ toServer'[k] = Tail(toServer[k])
  BY DEF recvData, Receive, uploading, keys, SessionTypes
<1>2. DataOut(k) /\ toClient[k] = <<>>
  BY <1>1 DEF DataOut, Pack, Messages
<1>3. MetaMsg(k)' = MetaMsg(k) /\ KeyMsg' = KeyMsg
  BY <1>1 DEF MetaMsg, KeyMsg
<1>4. \/ toServer'[k] = <<>> /\ ~Waiting(k)
      \/ toServer'[k] = <<MetaMsg(k)>> /\ Waiting(k)
      \/ toServer'[k] = <<KeyMsg>> /\ k = "meta" /\ upc[k] = "exit"
  <2>1. CASE \E d : toServer[k] = <<d>>
    <3>1. toServer'[k] = <<>>
      BY <1>1, <2>1, Tuples
    <3>2. ASSUME Waiting(k)
          PROVE  FALSE
      <4>1. PICK d : toServer[k] = <<d>>
        BY <2>1
      <4>2. Head(toServer[k]) = d /\ Tail(toServer[k]) = <<>>
        BY <4>1, Tuples
      <4>3. CASE toServer[k] = <<MetaMsg(k)>>
        BY <1>1, <4>3, Tuples, MessageTypes, SMTT(60)
      <4>4. CASE \E e : toServer[k] = <<e, MetaMsg(k)>>
        <5>1. PICK e : toServer[k] = <<e, MetaMsg(k)>>
          BY <4>4
        <5>2. Tail(<<e, MetaMsg(k)>>) = <<MetaMsg(k)>> /\ <<MetaMsg(k)>> # <<>>
          BY Tuples
        <5> QED
          BY <4>2, <5>1, <5>2
      <4> QED
        BY <1>2, <3>2, <4>3, <4>4 DEF Pack, Messages
    <3> QED
      BY <3>1, <3>2
  <2>2. CASE \E d : toServer[k] = <<d, MetaMsg(k)>> /\ Waiting(k)
    <3>1. PICK d : toServer[k] = <<d, MetaMsg(k)>>
      BY <2>2
    <3>2. Tail(<<d, MetaMsg(k)>>) = <<MetaMsg(k)>>
      BY Tuples
    <3> QED
      BY <1>1, <2>2, <3>1, <3>2
  <2>3. CASE \E d : toServer[k] = <<d, KeyMsg>> /\ k = "meta" /\ upc[k] = "exit"
    <3>1. PICK d : toServer[k] = <<d, KeyMsg>>
      BY <2>3
    <3>2. Tail(<<d, KeyMsg>>) = <<KeyMsg>>
      BY Tuples
    <3> QED
      BY <1>1, <2>3, <3>1, <3>2
  <2> QED
    BY <1>1, <2>1, <2>2, <2>3 DEF Pack, Messages
<1>5. Messages(k)'
  BY <1>1, <1>2, <1>3, <1>4 DEF Messages, Waiting
<1>6. Buffered(k)'
  BY <1>1 DEF Pack, Buffered, IdOf
<1>7. ~Answered(k) /\ ~Answered(k)' /\ (Finished(k)' <=> Finished(k)) /\ Packed(k)' = Packed(k)
  BY <1>1, <1>2 DEF Answered, Finished, Packed
<1>8. ~DataOut(k)'
  BY <1>4, Tuples, MessageTypes, SMTT(60) DEF DataOut
<1>9. packages[k] # <<>> /\ \A n \in 1 .. Len(packages[k]) : n < Len(packages[k]) => packages[k][n].received
  BY <1>2 DEF Pack, Packages, Received
<1>10. PICK S : packages[k] \in Seq(S)
  BY DEF Pack, Packages
<1> DEFINE last == packages[k][Len(packages[k])]
           p    == [last EXCEPT !.received = TRUE, !.bytes = Head(toServer[k]).bytes]
<1>11. packages'[k] = [packages[k] EXCEPT ![Len(packages[k])] = p]
  BY DEF recvData, SessionTypes
<1>12. DOMAIN last = {"past", "coming", "entries", "status", "received", "bytes"}
  BY <1>9, <1>10, SeqNone, SeqLen, SMTT(60) DEF Pack, Packages, Tiled
<1>13. /\ p.past = last.past /\ p.coming = last.coming /\ p.entries = last.entries
       /\ DOMAIN p = DOMAIN last /\ p.received
  BY <1>12
<1> HIDE DEF p
<1>14. /\ packages'[k] \in Seq(S \cup {p}) /\ Len(packages[k]) \in Nat \ {0}
       /\ Len(packages'[k]) = Len(packages[k])
       /\ \A i \in 1 .. Len(packages[k]) : packages'[k][i] = IF i = Len(packages[k]) THEN p ELSE packages[k][i]
  BY <1>9, <1>10, <1>11, ReplacedLast, SMTT(60)
<1>15. \A i \in 1 .. Len(packages[k]) :
         /\ packages'[k][i].past = packages[k][i].past
         /\ packages'[k][i].coming = packages[k][i].coming
         /\ packages'[k][i].entries = packages[k][i].entries
         /\ DOMAIN packages'[k][i] = DOMAIN packages[k][i]
         /\ packages'[k][i].received
  <2>1. SUFFICES ASSUME NEW i \in 1 .. Len(packages[k])
                 PROVE  /\ packages'[k][i].past = packages[k][i].past
                        /\ packages'[k][i].coming = packages[k][i].coming
                        /\ packages'[k][i].entries = packages[k][i].entries
                        /\ DOMAIN packages'[k][i] = DOMAIN packages[k][i]
                        /\ packages'[k][i].received
    OBVIOUS
  <2>2. CASE i = Len(packages[k])
    BY <1>13, <1>14, <2>2
  <2>3. CASE i # Len(packages[k])
    <3>1. packages'[k][i] = packages[k][i] /\ i < Len(packages[k])
      BY <1>14, <2>3
    <3> QED
      BY <1>9, <3>1
  <2> QED
    BY <2>2, <2>3
<1>16. Tiled(k)'
  <2>1. ASSUME NEW n \in 1 .. Len(packages'[k])
        PROVE  /\ DOMAIN packages'[k][n] = {"past", "coming", "entries", "status", "received", "bytes"}
               /\ packages'[k][n].past \in Nat /\ packages'[k][n].coming \in Nat
               /\ packages'[k][n].past = IF n = 1 THEN 0 ELSE packages'[k][n - 1].past + packages'[k][n - 1].coming
               /\ packages'[k][n].coming = Len(packages'[k][n].entries)
               /\ \A i \in 1 .. Len(packages'[k][n].entries) :
                    packages'[k][n].entries[i].id = IdOf(k, packages'[k][n].past + i)
    <3>1. n \in 1 .. Len(packages[k]) /\ (n # 1 => n - 1 \in 1 .. Len(packages[k]))
      BY <1>14
    <3>2. /\ DOMAIN packages[k][n] = {"past", "coming", "entries", "status", "received", "bytes"}
          /\ packages[k][n].past \in Nat /\ packages[k][n].coming \in Nat
          /\ packages[k][n].past = IF n = 1 THEN 0 ELSE packages[k][n - 1].past + packages[k][n - 1].coming
          /\ packages[k][n].coming = Len(packages[k][n].entries)
          /\ \A i \in 1 .. Len(packages[k][n].entries) :
               packages[k][n].entries[i].id = IdOf(k, packages[k][n].past + i)
      BY <3>1 DEF Pack, Packages, Tiled
    <3>3. /\ packages'[k][n].past = packages[k][n].past
          /\ packages'[k][n].coming = packages[k][n].coming
          /\ packages'[k][n].entries = packages[k][n].entries
          /\ DOMAIN packages'[k][n] = DOMAIN packages[k][n]
          /\ n # 1 => /\ packages'[k][n - 1].past = packages[k][n - 1].past
                      /\ packages'[k][n - 1].coming = packages[k][n - 1].coming
      BY <1>15, <3>1
    <3> QED
      BY <3>2, <3>3
  <2> QED
    BY <2>1 DEF Tiled, IdOf
<1>17. Received(k)'
  BY <1>7, <1>8, <1>14, <1>15 DEF Received
<1>18. PackagesEnd(k)' = PackagesEnd(k)
  <2>1. packages'[k] # <<>> /\ Len(packages[k]) \in 1 .. Len(packages[k])
    BY <1>14, SeqNone
  <2> QED
    BY <1>9, <1>14, <1>15, <2>1 DEF PackagesEnd
<1>19. Packages(k)'
  BY <1>1, <1>7, <1>14, <1>16, <1>17, <1>18 DEF Pack, Packages
<1> QED
  BY <1>5, <1>6, <1>19 DEF Pack

LEMMA HeaderAtZero ==
  ASSUME SessionTypes, NEW k \in Kinds, Flow(k), extractHeader(k)
  PROVE  head'[k] = head[k]
<1>1. PICK b \in Int : /\ RingFrom(k, b)
                       /\ b = TakenUpTo(k) \/ (b = -1 /\ Packed(k) = 0 /\ upc[k] = "extract")
  BY DEF Flow
<1>2. ring[k] # <<>> /\ Head(ring[k]).type = "FILE_HEADER" /\ upc[k] = "extract"
  BY DEF extractHeader, Take, Extracted
<1>3. Head(ring[k]) = ring[k][1] /\ Len(ring[k]) \in Nat /\ Len(ring[k]) >= 1
  BY <1>2, TakenRing, SeqLen DEF SessionTypes
<1>4. Numbered(k, ring[k][1], b + 1)
  BY <1>1, <1>3 DEF RingFrom
<1>5. b = -1 \/ Packed(k) \notin Nat
  BY <1>1, <1>2, <1>3, <1>4 DEF Numbered, TakenUpTo, HasItem
<1>6. Packed(k) = 0
  BY <1>1, <1>2, <1>5, AddedUpToType DEF TakenUpTo, HasItem
<1>7. head[k] \in [past : Nat, coming : Nat]
  BY DEF SessionTypes
<1>8. head[k] = [past |-> 0, coming |-> 0]
  BY <1>6, <1>7 DEF Packed
<1> QED
  BY <1>8 DEF extractHeader, SessionTypes

LEMMA KeyMessageKeeps ==
  ASSUME SessionTypes, Pack("meta"), sendKeyFile
  PROVE  Pack("meta")'
<1>0. "meta" \in Kinds
  BY DEF Kinds
<1>1. /\ upc["meta"] = "sendKeys"
      /\ UNCHANGED <<head, entries, toClient, packages, encKeys>>
  BY DEF sendKeyFile, keys
<1>2. CASE upc' = upc /\ toServer' = toServer
  BY <1>0, <1>1, <1>2, PackStays DEF Waiting, Finished
<1>3. CASE /\ toServer'["meta"] = Append(toServer["meta"], KeyMsg)
           /\ upc'["meta"] = "exit"
  <2>1. /\ toClient["meta"] = <<>>
        /\ \/ toServer["meta"] = <<>>
           \/ \E d : d.type = "DATA" /\ toServer["meta"] = <<d>>
    BY <1>0, <1>1, QuietLine DEF Pack, Waiting
  <2>2. KeyMsg' = KeyMsg
    BY <1>1 DEF KeyMsg
  <2>3. ~Waiting("meta")' /\ Finished("meta") /\ Finished("meta")' /\ ~Answered("meta") /\ ~Answered("meta")'
    BY <1>1, <1>3, <2>1 DEF Waiting, Finished, Answered
  <2>4. ASSUME toServer["meta"] = <<>>
        PROVE  Messages("meta")' /\ Received("meta")'
    <3>1. toServer'["meta"] = <<KeyMsg>>
      BY <1>3, <2>4, Tuples
    <3>2. Messages("meta")'
      BY <1>1, <1>3, <2>1, <2>2, <2>3, <3>1 DEF Messages
    <3>3. ~DataOut("meta") /\ ~DataOut("meta")'
      BY <2>4, <3>1, Tuples, MessageTypes DEF DataOut
    <3> QED
      BY <1>1, <2>3, <3>2, <3>3 DEF Pack, Packages, Received
  <2>5. ASSUME NEW d, d.type = "DATA", toServer["meta"] = <<d>>
        PROVE  Messages("meta")' /\ Received("meta")'
    <3>1. toServer'["meta"] = <<d, KeyMsg>>
      BY <1>3, <2>5, Tuples
    <3>2. Messages("meta")'
      BY <1>1, <1>3, <2>1, <2>2, <2>3, <2>5, <3>1 DEF Messages
    <3>3. DataOut("meta") /\ DataOut("meta")'
      BY <2>5, <3>1, Tuples, ZenonT(60) DEF DataOut
    <3> QED
      BY <1>1, <2>3, <3>2, <3>3 DEF Pack, Packages, Received
  <2>6. Messages("meta")' /\ Received("meta")'
    BY <2>1, <2>4, <2>5
  <2>7. Buffered("meta")'
    BY <1>1 DEF Pack, Buffered, IdOf
  <2>8. Tiled("meta")' /\ PackagesEnd("meta")' = PackagesEnd("meta") /\ Packed("meta")' = Packed("meta")
    BY <1>1 DEF Pack, Packages, Tiled, IdOf, PackagesEnd, Packed
  <2>9. Packages("meta")'
    BY <1>1, <2>3, <2>6, <2>8 DEF Pack, Packages
  <2> QED
    BY <2>6, <2>7, <2>9 DEF Pack
<1> QED
  BY <1>0, <1>2, <1>3, ZenonT(60) DEF sendKeyFile, Send, Goto, SessionTypes, KeyMsg

LEMMA RecvKeysKeeps ==
  ASSUME SessionTypes, Pack("meta"), recvKeyRecipe
  PROVE  Pack("meta")' /\ upc["meta"] = "exit" /\ Head(toServer["meta"]) = KeyMsg
<1>0. "meta" \in Kinds
  BY DEF Kinds
<1>1. /\ UNCHANGED <<upc, head, entries, toClient, packages, encKeys>>
      /\ toServer["meta"] # <<>> /\ Head(toServer["meta"]).type = "KEY_RECIPE"
      /\ toServer'["meta"] = Tail(toServer["meta"])
  BY <1>0 DEF recvKeyRecipe, Receive, uploading, keys, SessionTypes
<1>2. toServer["meta"] = <<KeyMsg>> /\ upc["meta"] = "exit" /\ toClient["meta"] = <<>>
  BY <1>1, Tuples, MessageTypes, SMTT(60) DEF Pack, Messages
<1>3. toServer'["meta"] = <<>> /\ Head(toServer["meta"]) = KeyMsg
  BY <1>1, <1>2, Tuples
<1>4. ~Waiting("meta") /\ ~Waiting("meta")' /\ Finished("meta") /\ Finished("meta")'
      /\ ~Answered("meta") /\ ~Answered("meta")'
  BY <1>1, <1>2 DEF Waiting, Finished, Answered
<1>5. Messages("meta")'
  BY <1>1, <1>2, <1>3, <1>4 DEF Messages
<1>6. ~DataOut("meta") /\ ~DataOut("meta")'
  BY <1>1, <1>3 DEF DataOut
<1>7. Received("meta")'
  BY <1>1, <1>4, <1>6 DEF Pack, Packages, Received
<1>8. Buffered("meta")'
  BY <1>1 DEF Pack, Buffered, IdOf
<1>9. Tiled("meta")' /\ PackagesEnd("meta")' = PackagesEnd("meta") /\ Packed("meta")' = Packed("meta")
  BY <1>1 DEF Pack, Packages, Tiled, IdOf, PackagesEnd, Packed
<1>10. Packages("meta")'
  BY <1>1, <1>4, <1>7, <1>9 DEF Pack, Packages
<1> QED
  BY <1>2, <1>3, <1>5, <1>8, <1>10 DEF Pack

--------------------------------------------------------------------------------
LEMMA StepPack ==
  ASSUME StreamInv, \A k \in Kinds : Pack(k), [UploadNext]_uploadVars
  PROVE  \A k \in Kinds : Pack(k)'
<1>0. SessionTypes /\ \A k \in Kinds : Flow(k)
  BY DEF StreamInv
<1>1. CASE UNCHANGED <<upc, head, entries, toServer, toClient, packages, encKeys>>
  BY <1>1, PackStays DEF Waiting, Finished
<1>2. ASSUME NEW k \in Kinds, Upload(k)
      PROVE  \A j \in Kinds : Pack(j)'
  <2>1. Pack(k)'
    <3>1. CASE extractHeader(k)
      <4>1. head'[k] = head[k]
        BY <1>0, <3>1, HeaderAtZero
      <4>2. UNCHANGED <<upc, entries, toServer, toClient, packages, encKeys>>
        BY <3>1 DEF extractHeader, sockets, keys
      <4> QED
        BY <4>1, <4>2, PackStays DEF Waiting, Finished
    <3>2. CASE extractShare(k)
      <4>1. UNCHANGED <<head, entries, toServer, toClient, packages, encKeys>>
        BY <3>2 DEF extractShare, sockets, keys
      <4>2. upc[k] = "extract" /\ upc'[k] \in {"flush", "pack"}
        BY <1>0, <3>2 DEF extractShare, Take, Goto, SessionTypes
      <4> QED
        BY <4>1, <4>2, PackStays DEF Waiting, Finished
    <3>3. CASE packShare(k)
      BY <1>0, <3>3, PackShareKeeps
    <3>4. CASE sendMeta(k)
      BY <1>0, <3>4, SendMetaKeeps
    <3>5. CASE sendData(k)
      BY <1>0, <3>5, SendDataKeeps
    <3> QED
      BY <1>2, <3>1, <3>2, <3>3, <3>4, <3>5 DEF Upload
  <2>2. ASSUME NEW j \in Kinds, j # k
        PROVE  Pack(j)'
    <3>1. upc'[j] = upc[j]
      BY <1>0, <1>2, <2>2 DEF Upload, extractHeader, extractShare, packShare, sendMeta, sendData, Goto, SessionTypes
    <3>2. head'[j] = head[j]
      BY <1>0, <1>2, <2>2, ZenonT(60) DEF Upload, extractHeader, extractShare, packShare, sendMeta, sendData, SessionTypes
    <3>3. entries'[j] = entries[j]
      BY <1>0, <1>2, <2>2 DEF Upload, extractHeader, extractShare, packShare, sendMeta, sendData, SessionTypes
    <3>4. toServer'[j] = toServer[j] /\ toClient'[j] = toClient[j]
      BY <1>0, <1>2, <2>2 DEF Upload, extractHeader, extractShare, packShare, sendMeta, sendData, Send, sockets,
                              SessionTypes
    <3>5. packages' = packages /\ encKeys' = encKeys
      BY <1>2 DEF Upload, extractHeader, extractShare, packShare, sendMeta, sendData, keys
    <3> QED
      BY <3>1, <3>2, <3>3, <3>4, <3>5, PackStays DEF Waiting, Finished
  <2> QED
    BY <2>1, <2>2
<1>3. ASSUME NEW k \in Kinds, Serve(k)
      PROVE  \A j \in Kinds : Pack(j)'
  <2>1. Pack(k)'
    BY <1>0, <1>3, RecvMetaKeeps, RecvDataKeeps DEF Serve
  <2>2. ASSUME NEW j \in Kinds, j # k
        PROVE  Pack(j)'
    <3>1. UNCHANGED <<upc, head, entries, encKeys>>
      BY <1>3 DEF Serve, recvMeta, recvData, Receive, uploading, keys
    <3>2. toServer'[j] = toServer[j] /\ toClient'[j] = toClient[j]
      BY <1>0, <1>3, <2>2 DEF Serve, recvMeta, recvData, SessionTypes
    <3>3. packages'[j] = packages[j]
      BY <1>0, <1>3, <2>2 DEF Serve, recvMeta, recvData, SessionTypes
    <3> QED
      BY <3>1, <3>2, <3>3, PackStays DEF Waiting, Finished
  <2> QED
    BY <2>1, <2>2
<1>4. Kinds = {"data", "meta"} /\ "data" \in Kinds /\ "meta" \in Kinds
  BY DEF Kinds
<1>5. CASE encryptKeyFile \/ removeKeyFile
  <2>1. /\ UNCHANGED <<head, entries, toServer, toClient, packages>>
        /\ upc'["data"] = upc["data"] /\ upc["meta"] \in {"encrypt", "remove"}
        /\ upc'["meta"] \in {"remove", "sendKeys"}
    BY <1>0, <1>4, <1>5, ZenonT(60) DEF encryptKeyFile, removeKeyFile, Goto, sockets, SessionTypes
  <2>2. Pack("meta")'
    BY <1>4, <2>1, PackStays DEF Waiting, Finished
  <2>3. Pack("data")'
    BY <1>4, <2>1, PackStays DEF Waiting, Finished
  <2> QED
    BY <1>4, <2>2, <2>3
<1>6. CASE sendKeyFile
  <2>1. /\ UNCHANGED <<head, entries, toClient, packages, encKeys>>
        /\ upc'["data"] = upc["data"] /\ toServer'["data"] = toServer["data"]
    BY <1>0, <1>4, <1>6 DEF sendKeyFile, Send, Goto, keys, SessionTypes
  <2>2. Pack("data")'
    BY <1>4, <2>1, PackStays DEF Waiting, Finished
  <2>3. Pack("meta")'
    BY <1>0, <1>4, <1>6, KeyMessageKeeps
  <2> QED
    BY <1>4, <2>2, <2>3
<1>7. CASE recvKeyRecipe
  <2>1. /\ UNCHANGED <<upc, head, entries, toClient, packages, encKeys>>
        /\ toServer'["data"] = toServer["data"]
    BY <1>0, <1>4, <1>7 DEF recvKeyRecipe, Receive, uploading, keys, SessionTypes
  <2>2. Pack("data")'
    BY <1>4, <2>1, PackStays DEF Waiting, Finished
  <2>3. Pack("meta")'
    BY <1>0, <1>4, <1>7, RecvKeysKeeps
  <2> QED
    BY <1>4, <2>2, <2>3
<1>8. CASE Collect \/ indicateEnd \/ UNCHANGED uploadVars
  <2>1. UNCHANGED <<upc, head, entries, toServer, toClient, packages, encKeys>>
    BY <1>8 DEF Collect, addHeader, addShare, addMeta, writeKey, indicateEnd, uploadVars, uploading, sockets, keys
  <2> QED
    BY <1>1, <2>1
<1> QED
  BY <1>2, <1>3, <1>5, <1>6, <1>7, <1>8 DEF UploadNext, KeyUpload, Over

LEMMA InitPack ==
  ASSUME UploadInit, NEW k \in Kinds
  PROVE  Pack(k)
<1>1. /\ toServer[k] = <<>> /\ toClient[k] = <<>> /\ packages[k] = <<>> /\ entries[k] = <<>>
      /\ upc[k] = "extract" /\ head[k].past = 0 /\ head[k].coming = 0
  BY DEF UploadInit
<1>2. Messages(k) /\ Buffered(k)
  BY <1>1 DEF Messages, Waiting, Buffered
<1>3. ~Answered(k) /\ ~DataOut(k) /\ ~Finished(k)
  BY <1>1 DEF Answered, DataOut, Finished
<1>4. Tiled(k) /\ Received(k) /\ PackagesEnd(k) = 0
  BY <1>1, <1>3 DEF Tiled, Received, PackagesEnd
<1>5. packages[k] \in Seq({})
  BY <1>1, SMTT(60)
<1> QED
  BY <1>1, <1>2, <1>3, <1>4, <1>5 DEF Pack, Packages

LEMMA TiledPackages ==
  ASSUME StreamInv, \A k \in Kinds : Pack(k)
  PROVE  PackagesTile
<1>1. SUFFICES ASSUME NEW k \in Kinds
               PROVE  /\ \A n \in 1 .. Len(packages[k]) :
                           /\ packages[k][n].past = IF n = 1 THEN 0
                                                    ELSE packages[k][n - 1].past + packages[k][n - 1].coming
                           /\ packages[k][n].coming = Len(packages[k][n].entries)
                           /\ \A i \in 1 .. Len(packages[k][n].entries) :
                                packages[k][n].entries[i].id = IF k = "data" THEN packages[k][n].past + i
                                                               ELSE -(packages[k][n].past + i)
                      /\ exited /\ (\A j \in Kinds : upc[j] = "exit" /\ toServer[j] = <<>>) =>
                           /\ \A n \in 1 .. Len(packages[k]) : packages[k][n].received
                           /\ PackagesEnd(k) = IF k = "data" THEN NumSecrets ELSE -metaID - 1
  BY DEF PackagesTile
<1>2. Tiled(k)
  BY DEF Pack, Packages
<1>3. ASSUME upc[k] = "exit", toServer[k] = <<>>
      PROVE  /\ \A n \in 1 .. Len(packages[k]) : packages[k][n].received
             /\ PackagesEnd(k) = IF k = "data" THEN NumSecrets ELSE -metaID - 1
  <2>1. ~Waiting(k) /\ ~DataOut(k) /\ Finished(k) /\ ~HasItem(k)
    BY <1>3 DEF Waiting, DataOut, Finished, HasItem
  <2>2. ~Answered(k)
    BY <2>1 DEF Pack, Messages, Answered
  <2>3. IsLast(k, Packed(k))
    BY <1>3, <2>1 DEF StreamInv, Flow
  <2>4. PackagesEnd(k) = Packed(k)
    BY <2>1 DEF Pack, Packages
  <2> QED
    BY <2>1, <2>2, <2>3, <2>4 DEF Pack, Packages, Received, IsLast
<1>4. \A n \in 1 .. Len(packages[k]) :
        /\ packages[k][n].past = IF n = 1 THEN 0
                                 ELSE packages[k][n - 1].past + packages[k][n - 1].coming
        /\ packages[k][n].coming = Len(packages[k][n].entries)
        /\ \A i \in 1 .. Len(packages[k][n].entries) :
             packages[k][n].entries[i].id = IF k = "data" THEN packages[k][n].past + i
                                            ELSE -(packages[k][n].past + i)
  BY <1>2 DEF Tiled, IdOf
<1> QED
  BY <1>3, <1>4

\* Whatever the interleaving, the packages of both of the cloud's threads
\* follow each other without a gap, and a session that ends has sent them
\* all: for every number and size of shares and size of buffer.
THEOREM PackagesFollow == UploadSpec => []PackagesTile
<1>1. UploadInit => StreamInv /\ PackInv
  BY InitStream, InitPack DEF PackInv
<1>2. (StreamInv /\ PackInv) /\ [UploadNext]_uploadVars => (StreamInv /\ PackInv)'
  BY StepStream, StepPack DEF PackInv
<1>3. StreamInv /\ PackInv => PackagesTile
  BY TiledPackages DEF PackInv
<1> QED
  BY <1>1, <1>2, <1>3, PTL DEF UploadSpec

--------------------------------------------------------------------------------
(* The key file.                                                           *)

LEMMA AppendedKey ==
  ASSUME NEW s \in Seq(Int), NEW e \in Int
  PROVE  /\ Append(s, e) \in Seq(Int)
         /\ \A x \in Range(s) : x \in Range(Append(s, e))
         /\ e \in Range(Append(s, e))
<1>1. /\ Append(s, e) \in Seq(Int) /\ Len(s) \in Nat
      /\ DOMAIN s = 1 .. Len(s) /\ DOMAIN Append(s, e) = 1 .. Len(s) + 1
      /\ \A i \in 1 .. Len(s) : Append(s, e)[i] = s[i]
      /\ Append(s, e)[Len(s) + 1] = e
  BY SeqAppend, SeqLen, SMTT(60)
<1>2. ASSUME NEW x \in Range(s)
      PROVE  x \in Range(Append(s, e))
  <2>1. PICK i \in DOMAIN s : x = s[i]
    BY DEF Range
  <2>2. i \in DOMAIN Append(s, e) /\ Append(s, e)[i] = x
    BY <1>1, <2>1
  <2> QED
    BY <2>2 DEF Range
<1>3. e \in Range(Append(s, e))
  <2>1. Len(s) + 1 \in DOMAIN Append(s, e)
    BY <1>1
  <2> QED
    BY <1>1, <2>1 DEF Range
<1> QED
  BY <1>1, <1>2, <1>3

\* From the last meta chunk on collect adds no other.
LEMMA AfterTheLast ==
  ASSUME StreamInv, upc["meta"] # "extract", ~HasItem("meta")
  PROVE  EndAdded
<1>1. "meta" \in Kinds
  BY DEF Kinds
<1> QED
  BY <1>1 DEF StreamInv, Flow, IsLast

LEMMA StepKeys ==
  ASSUME StreamInv, PackInv, KeyInv, [UploadNext]_uploadVars
  PROVE  KeyInv'
<1>0. SessionTypes /\ "meta" \in Kinds /\ "data" \in Kinds /\ metaID \in Int /\ metaID <= -1
  BY DEF StreamInv, SessionTypes, Kinds
<1>1. CASE addHeader \/ addShare
  <2>1. /\ cpc \in {"header", "headerMeta", "share"} /\ cpc' # "key"
        /\ UNCHANGED <<metaID, keyFile, encKeys, upc, keystore>>
    BY <1>1 DEF addHeader, addShare, uploading, keys
  <2> QED
    BY <2>1 DEF KeyInv, KeysUpTo
<1>2. CASE addMeta
  <2>1. /\ cpc = "addMeta" /\ cpc' = "key" /\ metaID' = metaID - 1
        /\ UNCHANGED <<keyFile, encKeys, upc, keystore>>
    BY <1>2 DEF addMeta, uploading, keys
  <2>2. upc["meta"] \notin {"remove", "sendKeys", "exit"}
    BY <2>1, AfterTheLast DEF EndAdded, HasItem
  <2>3. -metaID' - 2 = -metaID - 1
    BY <1>0, <2>1
  <2>4. KeysUpTo(keyFile, -metaID - 1)
    BY <2>1, <2>2 DEF KeyInv
  <2>5. KeysUpTo(keyFile, -metaID - 2)'
    BY <2>1, <2>3, <2>4 DEF KeysUpTo
  <2> QED
    BY <2>1, <2>2, <2>5 DEF KeyInv
<1>3. CASE writeKey
  <2>1. /\ cpc = "key" /\ keyFile' = Append(keyFile, metaID + 1)
        /\ UNCHANGED <<metaID, encKeys, upc, keystore>>
    BY <1>3 DEF writeKey, uploading
  <2>2. keyFile \in Seq(Int) /\ metaID + 1 \in Int
    BY <1>0 DEF KeyInv
  <2>3. /\ keyFile' \in Seq(Int) /\ metaID + 1 \in Range(keyFile')
        /\ \A x \in Range(keyFile) : x \in Range(keyFile')
    BY <2>1, <2>2, AppendedKey
  <2>4. ASSUME upc["meta"] \notin {"sendKeys", "exit"}, NEW i \in 1 .. -metaID - 1
        PROVE  -i \in Range(keyFile')
    <3>1. i \in 1 .. -metaID - 2 \/ -i = metaID + 1
      BY <1>0
    <3> QED
      BY <2>3, <2>4, <3>1 DEF KeyInv, KeysUpTo
  <2>5. \A i \in 1 .. -metaID - 2 : i \in 1 .. -metaID - 1
    BY <1>0
  <2> QED
    BY <2>1, <2>3, <2>4, <2>5 DEF KeyInv, KeysUpTo
<1>4. ASSUME NEW k \in Kinds, Upload(k)
      PROVE  KeyInv'
  <2>1. UNCHANGED <<cpc, metaID, keyFile, encKeys, keystore>>
    BY <1>4 DEF Upload, extractHeader, extractShare, packShare, sendMeta, sendData, collectVars, keys
  <2>2. \/ upc'["meta"] = upc["meta"]
        \/ /\ upc["meta"] \notin {"remove", "sendKeys", "exit"}
           /\ upc'["meta"] \notin {"remove", "sendKeys", "exit"}
    <3>1. CASE k = "data"
      BY <1>0, <1>4, <3>1, ZenonT(60) DEF Upload, extractHeader, extractShare, packShare, sendMeta, sendData, Goto, SessionTypes
    <3>2. CASE k = "meta"
      <4>1. upc["meta"] \notin {"remove", "sendKeys", "exit"}
        BY <1>4, <3>2 DEF Upload, extractHeader, extractShare, packShare, sendMeta, sendData, Take
      <4>2. upc'["meta"] \notin {"remove", "sendKeys", "exit"}
        BY <1>0, <1>4, <3>2, <4>1, ZenonT(60) DEF Upload, extractHeader, extractShare, packShare, sendMeta, sendData, Goto, SessionTypes
      <4> QED
        BY <4>1, <4>2
    <3> QED
      BY <3>1, <3>2 DEF Kinds
  <2> QED
    BY <2>1, <2>2 DEF KeyInv, KeysUpTo
<1>5. CASE encryptKeyFile
  <2>1. /\ UNCHANGED <<cpc, metaID, keyFile, keystore>> /\ encKeys' = keyFile
        /\ upc["meta"] = "encrypt" /\ upc'["meta"] = "remove"
    BY <1>0, <1>5 DEF encryptKeyFile, Goto, collectVars, SessionTypes
  <2> QED
    BY <2>1 DEF KeyInv, KeysUpTo
<1>6. CASE removeKeyFile
  <2>1. /\ UNCHANGED <<cpc, metaID, encKeys, keystore>> /\ keyFile' = <<>>
        /\ upc["meta"] = "remove" /\ upc'["meta"] = "sendKeys"
    BY <1>0, <1>6 DEF removeKeyFile, Goto, collectVars, SessionTypes
  <2> QED
    BY <2>1 DEF KeyInv, KeysUpTo
<1>7. CASE sendKeyFile
  <2>1. /\ UNCHANGED <<cpc, metaID, keyFile, encKeys, keystore>>
        /\ upc["meta"] = "sendKeys" /\ upc'["meta"] \in {"sendKeys", "exit"}
    BY <1>0, <1>7 DEF sendKeyFile, Goto, collectVars, keys, SessionTypes
  <2> QED
    BY <2>1 DEF KeyInv, KeysUpTo
<1>8. CASE recvKeyRecipe
  <2>1. Pack("meta")
    BY <1>0 DEF PackInv
  <2>2. upc["meta"] = "exit" /\ Head(toServer["meta"]) = KeyMsg
    BY <1>0, <1>8, <2>1, RecvKeysKeeps
  <2>3. UNCHANGED <<cpc, metaID, keyFile, encKeys, upc>> /\ keystore' = Head(toServer["meta"]).keys
    BY <1>8 DEF recvKeyRecipe, Receive, uploading, collectVars, keys
  <2>4. keystore' = encKeys
    BY <2>2, <2>3 DEF KeyMsg
  <2> QED
    BY <2>2, <2>3, <2>4 DEF KeyInv, KeysUpTo
<1>9. CASE indicateEnd \/ UNCHANGED uploadVars \/ \E k \in Kinds : Serve(k)
  <2>1. UNCHANGED <<cpc, metaID, keyFile, encKeys, upc, keystore>>
    BY <1>9 DEF indicateEnd, Serve, recvMeta, recvData, Receive, uploadVars, collectVars, uploading, keys
  <2> QED
    BY <2>1 DEF KeyInv, KeysUpTo
<1> QED
  BY <1>1, <1>2, <1>3, <1>4, <1>5, <1>6, <1>7, <1>8, <1>9 DEF UploadNext, Collect, KeyUpload, Over

LEMMA InitKeys == UploadInit => KeyInv
<1> SUFFICES ASSUME UploadInit PROVE KeyInv
  OBVIOUS
<1>1. /\ upc["meta"] = "extract" /\ keystore = <<>> /\ metaID = -1
      /\ keyFile = <<>> \/ keyFile = <<0>>
  BY DEF UploadInit, Kinds
<1>2. keyFile \in Seq(Int)
  <2>1. <<>> \in Seq(Int) /\ <<0>> \in Seq(Int)
    OBVIOUS
  <2> QED
    BY <1>1, <2>1
<1>3. metaID \in Int /\ metaID + 1 = 0
  <2>1. metaID = -1
    BY DEF UploadInit
  <2> QED
    BY <2>1
<1>4. \A m \in Int : m + 1 = 0 => \A i \in Int : i \notin 1 .. -m - 1 /\ i \notin 1 .. -m - 2
  OBVIOUS
<1>5. \A i : i \notin 1 .. -metaID - 1 /\ i \notin 1 .. -metaID - 2
  BY <1>3, <1>4, SMTT(60)
<1> QED
  BY <1>1, <1>2, <1>5 DEF KeyInv, KeysUpTo

\* A stored key recipe has the keys of all the file's meta chunks but perhaps
\* the last: collect appends the key of a chunk after it has added the chunk,
\* and the uploader encrypts the key file once it has uploaded the last one.
THEOREM StoredKeys == UploadSpec => []KeysButTheLast
<1>1. UploadInit => StreamInv /\ PackInv /\ KeyInv
  BY InitStream, InitPack, InitKeys DEF PackInv
<1>2. (StreamInv /\ PackInv /\ KeyInv) /\ [UploadNext]_uploadVars => (StreamInv /\ PackInv /\ KeyInv)'
  BY StepStream, StepPack, StepKeys DEF PackInv
<1>3. StreamInv /\ PackInv /\ KeyInv => KeysButTheLast
  BY DEF KeyInv, KeysUpTo, KeysButTheLast
<1> QED
  BY <1>1, <1>2, <1>3, PTL DEF UploadSpec
================================================================================
