---------------------------- MODULE UploadSession ----------------------------
(***************************************************************************)
(* The upload of one file to one cloud: the collect thread of the encoder, *)
(* the uploader's two threads for the cloud ("data" for the shares of the  *)
(* file's secrets, "meta" for the meta chunks that list them), the main    *)
(* thread that joins them, and the two connections to the server.  A ring  *)
(* buffer is the bounded queue of BoundedFifo, which RingBuffer            *)
(* implements.  The server answers a package with any status list          *)
(* (ShareIndex says which).                                                *)
(***************************************************************************)
EXTENDS Integers, Sequences, Functions

CONSTANTS
  NumSecrets,   \* secrets of the file
  ShareSize,    \* the size of the share of each secret
  BufferSize,   \* UPLOAD_BUFFER_SIZE
  UploadRing,     \* UPLOAD_RB_SIZE
  MaxSegment    \* MAX_SEGMENT_SIZE

ASSUME SessionAssumption ==
  /\ NumSecrets \in Nat \ {0}
  /\ BufferSize \in Nat
  /\ ShareSize \in [1 .. NumSecrets -> 1 .. BufferSize]
  /\ UploadRing \in Nat \ {0, 1}
  /\ MaxSegment \in Nat
  /\ MaxSegment + 1 <= BufferSize   \* a meta chunk fits the buffer

Kinds == {"data", "meta"}

VARIABLES
  cpc,       \* what collect does next for this cloud
  secret,    \* the secret whose share collect deals with
  segment,   \* metaChunkBuffer_: the secrets listed by the next meta chunk
  metaID,    \* metaChunkID
  ring,      \* ringBuffer_ and ringBufferMeta_
  upc,       \* what each uploader thread does next
  item,      \* output: the item it has extracted
  head,      \* *headerArray_: numOfPastSecrets and numOfComingSecrets
  entries,   \* the share entries in uploadMetaBuffer_
  container, \* uploadContainer_, byte by byte
  keyFile,   \* share-i.key, in the client's directory
  encKeys,   \* what openssl has read of it
  toServer,  \* what the client has sent and the server has not yet received
  toClient,  \* the status lists on their way back
  packages,  \* history: the packages the server has received
  keystore,  \* the key recipe the server has stored
  exited     \* main has returned, or the process has crashed

collectVars == <<cpc, secret, segment, metaID>>
uploading  == <<upc, item, head, entries, container>>
sockets    == <<toServer, toClient>>
keys       == <<keyFile, encKeys>>
uploadVars       == <<collectVars, ring, uploading, keys, sockets, packages, keystore, exited>>

NoItem == [type |-> "FILE_HEADER", id |-> 0, size |-> 0]

\* Variant: the last share is not marked.
ShareUnmarked(id, size, end) == [type |-> "SHARE_OBJECT", id |-> id, size |-> size]

Share(id, size, end) == [type |-> IF end THEN "SHARE_END" ELSE "SHARE_OBJECT", id |-> id, size |-> size]

\* The item's bytes are told apart by the share and the place in it.
Bytes(it) == [j \in 1 .. it.size |-> <<it.id, j>>]

\* A key file may hold the last key of an earlier upload from this directory:
\* collect writes it after the uploader has removed the file.
UploadInit ==
  /\ cpc = "header"
  /\ secret = 1
  /\ segment = <<>>
  /\ metaID = -1
  /\ ring = [k \in Kinds |-> <<>>]
  /\ upc = [k \in Kinds |-> "extract"]
  /\ item = [k \in Kinds |-> NoItem]
  /\ head = [k \in Kinds |-> [past |-> 0, coming |-> 0]]
  /\ entries = [k \in Kinds |-> <<>>]
  /\ container = [k \in Kinds |-> <<>>]
  /\ keyFile \in {<<>>, <<0>>}
  /\ encKeys = <<>>
  /\ toServer = [k \in Kinds |-> <<>>]
  /\ toClient = [k \in Kinds |-> <<>>]
  /\ packages = [k \in Kinds |-> <<>>]
  /\ keystore = <<>>
  /\ exited = FALSE

-----------------------------------------------------------------------------
(* The collect thread.                                                     *)

\* Uploader::add and Uploader::addMeta.
addItem(k, it) ==
  /\ Len(ring[k]) < UploadRing
  /\ ring' = [ring EXCEPT ![k] = Append(@, it)]

addHeader ==
  /\ ~exited
  /\ \/ cpc = "header" /\ addItem("data", NoItem) /\ cpc' = "headerMeta"
     \/ cpc = "headerMeta" /\ addItem("meta", NoItem) /\ cpc' = "share"
  /\ UNCHANGED <<secret, segment, metaID, uploading, keys, sockets, packages, keystore, exited>>

SegmentSize(seg) == SumFunction([i \in DOMAIN seg |-> ShareSize[seg[i]]])

\* The share goes to the data thread, and its fingerprint decides whether it
\* is the last of its segment.
addShare ==
  /\ ~exited
  /\ cpc = "share"
  /\ addItem("data", Share(secret, ShareSize[secret], secret = NumSecrets))
  /\ segment' = Append(segment, secret)
  /\ \/ cpc' = "addMeta" /\ UNCHANGED secret
     \/ /\ SegmentSize(segment') <= MaxSegment
        /\ secret < NumSecrets
        /\ secret' = secret + 1
        /\ UNCHANGED cpc
  /\ UNCHANGED <<metaID, uploading, keys, sockets, packages, keystore, exited>>

\* The meta chunk goes to the meta thread.
addMeta ==
  /\ ~exited
  /\ cpc = "addMeta"
  /\ addItem("meta", Share(metaID, Len(segment), secret = NumSecrets))
  /\ segment' = <<>>
  /\ metaID' = metaID - 1
  /\ cpc' = "key"
  /\ UNCHANGED <<secret, uploading, keys, sockets, packages, keystore, exited>>

\* Variant: the key file is opened with "wb".
writeKeyTruncates ==
  /\ ~exited
  /\ cpc = "key"
  /\ keyFile' = <<metaID + 1>>
  /\ IF secret = NumSecrets
     THEN cpc' = "waiting" /\ UNCHANGED secret
     ELSE cpc' = "share" /\ secret' = secret + 1
  /\ UNCHANGED <<segment, metaID, ring, uploading, encKeys, sockets, packages, keystore, exited>>

\* Its key is appended to share-i.key.  After the last secret collect waits
\* for an item that never comes.
writeKey ==
  /\ ~exited
  /\ cpc = "key"
  /\ keyFile' = Append(keyFile, metaID + 1)
  /\ IF secret = NumSecrets
     THEN cpc' = "waiting" /\ UNCHANGED secret
     ELSE cpc' = "share" /\ secret' = secret + 1
  /\ UNCHANGED <<segment, metaID, ring, uploading, encKeys, sockets, packages, keystore, exited>>

-----------------------------------------------------------------------------
(* The uploader's threads.                                                 *)

Goto(k, label) == upc' = [upc EXCEPT ![k] = label]

Extracted(k) == Head(ring[k])
Take(k) ==
  /\ ~exited
  /\ upc[k] = "extract"
  /\ ring[k] # <<>>
  /\ ring' = [ring EXCEPT ![k] = Tail(@)]

extractHeader(k) ==
  /\ Take(k)
  /\ Extracted(k).type = "FILE_HEADER"
  /\ head' = [head EXCEPT ![k] = [past |-> 0, coming |-> 0]]
  /\ UNCHANGED <<collectVars, upc, item, entries, container, keys, sockets, packages, keystore, exited>>

\* The container buffer cannot hold the share: it is uploaded first.
extractShare(k) ==
  /\ Take(k)
  /\ Extracted(k).type # "FILE_HEADER"
  /\ item' = [item EXCEPT ![k] = Extracted(k)]
  /\ Goto(k, IF Extracted(k).size + Len(container[k]) > BufferSize THEN "flush" ELSE "pack")
  /\ UNCHANGED <<collectVars, head, entries, container, keys, sockets, packages, keystore, exited>>

\* The share's entry and bytes are appended and the header counts it.
packShare(k) ==
  /\ ~exited
  /\ upc[k] = "pack"
  /\ entries' = [entries EXCEPT ![k] = Append(@, item[k])]
  /\ container' = [container EXCEPT ![k] = @ \o Bytes(item[k])]
  /\ head' = [head EXCEPT ![k].coming = @ + 1]
  /\ Goto(k, IF item[k].type = "SHARE_END" THEN "last" ELSE "extract")
  /\ UNCHANGED <<collectVars, ring, item, keys, sockets, packages, keystore, exited>>

Send(k, msg) == toServer' = [toServer EXCEPT ![k] = Append(@, msg)]

\* performUpload, sendMeta: after the last share, or to make room.
sendMeta(k) ==
  /\ ~exited
  /\ upc[k] \in {"flush", "last"}
  /\ Send(k, [type |-> "META", past |-> head[k].past, coming |-> head[k].coming, entries |-> entries[k]])
  /\ Goto(k, IF upc[k] = "flush" THEN "flushStatus" ELSE "lastStatus")
  /\ UNCHANGED <<collectVars, ring, item, head, entries, container, keys, toClient, packages, keystore, exited>>

\* Variant: the bytes of a share the server has are not skipped.
CompactNoSkip(bytes, shares, status) ==
  LET move(st, i) ==
        IF status[i] THEN st
        ELSE [bytes |-> [p \in DOMAIN bytes |->
                           IF p - st.indexCount \in 1 .. shares[i].size
                           THEN st.bytes[p - st.indexCount + st.containerIndex] ELSE st.bytes[p]],
              indexCount |-> st.indexCount + shares[i].size,
              containerIndex |-> st.containerIndex + shares[i].size]
      after[i \in 0 .. Len(status)] ==
        IF i = 0 THEN [bytes |-> bytes, indexCount |-> 0, containerIndex |-> 0]
        ELSE move(after[i - 1], i)
      end == after[Len(status)]
  IN  SubSeq(end.bytes, 1, end.indexCount)

\* performUpload, the loop over the status list: within uploadContainer_, the
\* shares that the server does not have are moved to the front.
Compact(bytes, shares, status) ==
  LET move(st, i) ==
        LET size == shares[i].size
            next == st.containerIndex + size
        IN  IF status[i] THEN [st EXCEPT !.containerIndex = next]
            ELSE [bytes |-> [p \in DOMAIN bytes |->
                               IF p - st.indexCount \in 1 .. size
                               THEN st.bytes[p - st.indexCount + st.containerIndex] ELSE st.bytes[p]],
                  indexCount |-> st.indexCount + size,
                  containerIndex |-> next]
      after[i \in 0 .. Len(status)] ==
        IF i = 0 THEN [bytes |-> bytes, indexCount |-> 0, containerIndex |-> 0]
        ELSE move(after[i - 1], i)
      end == after[Len(status)]
  IN  SubSeq(end.bytes, 1, end.indexCount)

\* Variant: the counts of the package are not added to the past ones.
updateHeaderForgets(h) == [past |-> h.past, coming |-> 0]

\* The header of the next package.
updateHeader(h) == [past |-> h.past + h.coming, coming |-> 0]

\* performUpload, getStatus and sendData, then updateHeader, or the thread's
\* last steps.
sendData(k) ==
  /\ ~exited
  /\ upc[k] \in {"flushStatus", "lastStatus"}
  /\ toClient[k] # <<>>
  /\ Send(k, [type |-> "DATA", bytes |-> Compact(container[k], entries[k], Head(toClient[k]))])
  /\ toClient' = [toClient EXCEPT ![k] = Tail(@)]
  /\ IF upc[k] = "flushStatus"
     THEN /\ head' = [head EXCEPT ![k] = updateHeader(@)]
          /\ entries' = [entries EXCEPT ![k] = <<>>]
          /\ container' = [container EXCEPT ![k] = <<>>]
          /\ Goto(k, "pack")
     ELSE /\ Goto(k, IF k = "meta" THEN "encrypt" ELSE "exit")
          /\ UNCHANGED <<head, entries, container>>
  /\ UNCHANGED <<collectVars, ring, item, keys, packages, keystore, exited>>

\* uploadKeyFile: openssl reads share-i.key.
encryptKeyFile ==
  /\ ~exited
  /\ upc["meta"] = "encrypt"
  /\ encKeys' = keyFile
  /\ Goto("meta", "remove")
  /\ UNCHANGED <<collectVars, ring, item, head, entries, container, keyFile, sockets, packages, keystore, exited>>

\* uploadKeyFile: share-i.key is removed.
removeKeyFile ==
  /\ ~exited
  /\ upc["meta"] = "remove"
  /\ keyFile' = <<>>
  /\ Goto("meta", "sendKeys")
  /\ UNCHANGED <<collectVars, ring, item, head, entries, container, encKeys, sockets, packages, keystore, exited>>

\* uploadKeyFile: the encrypted keys are sent.  Without a key file openssl has
\* made no output, and the process crashes on the null file pointer.
sendKeyFile ==
  /\ ~exited
  /\ upc["meta"] = "sendKeys"
  /\ IF encKeys = <<>>
     THEN exited' = TRUE /\ UNCHANGED <<upc, toServer>>
     ELSE /\ Send("meta", [type |-> "KEY_RECIPE", keys |-> encKeys])
          /\ Goto("meta", "exit")
          /\ UNCHANGED exited
  /\ UNCHANGED <<collectVars, ring, item, head, entries, container, keys, toClient, packages, keystore>>

\* indicateEnd joins the uploader's threads, and main returns; collect may be
\* anywhere.
indicateEnd ==
  /\ ~exited
  /\ \A k \in Kinds : upc[k] = "exit"
  /\ exited' = TRUE
  /\ UNCHANGED <<collectVars, ring, uploading, keys, sockets, packages, keystore>>

-----------------------------------------------------------------------------
(* The server.                                                             *)

Receive(k, type) ==
  /\ toServer[k] # <<>>
  /\ Head(toServer[k]).type = type
  /\ UNCHANGED <<collectVars, ring, uploading, keys, exited>>

\* The first stage: the status list of the package is sent back.
recvMeta(k) ==
  /\ Receive(k, "META")
  /\ LET p == Head(toServer[k])
     IN  \E status \in [1 .. Len(p.entries) -> BOOLEAN] :
           /\ toClient' = [toClient EXCEPT ![k] = Append(@, status)]
           /\ packages' = [packages EXCEPT ![k] = Append(@,
                [past |-> p.past, coming |-> p.coming, entries |-> p.entries,
                 status |-> status, received |-> FALSE, bytes |-> <<>>])]
  /\ toServer' = [toServer EXCEPT ![k] = Tail(@)]
  /\ UNCHANGED keystore

\* The second stage gets the bytes of the package.
recvData(k) ==
  /\ Receive(k, "DATA")
  /\ packages' = [packages EXCEPT ![k][Len(packages[k])] =
                    [@ EXCEPT !.received = TRUE, !.bytes = Head(toServer[k]).bytes]]
  /\ toServer' = [toServer EXCEPT ![k] = Tail(@)]
  /\ UNCHANGED <<toClient, keystore>>

recvKeyRecipe ==
  /\ Receive("meta", "KEY_RECIPE")
  /\ keystore' = Head(toServer["meta"]).keys
  /\ toServer' = [toServer EXCEPT !["meta"] = Tail(@)]
  /\ UNCHANGED <<toClient, packages>>

Collect   == addHeader \/ addShare \/ addMeta \/ writeKey
Upload(k) == extractHeader(k) \/ extractShare(k) \/ packShare(k) \/ sendMeta(k) \/ sendData(k)
KeyUpload == encryptKeyFile \/ removeKeyFile \/ sendKeyFile
Serve(k)  == recvMeta(k) \/ recvData(k)

\* The process is gone and the server has received everything.
Over ==
  /\ exited
  /\ \A k \in Kinds : toServer[k] = <<>>
  /\ UNCHANGED uploadVars

UploadNext ==
  \/ Collect
  \/ \E k \in Kinds : Upload(k) \/ Serve(k)
  \/ KeyUpload
  \/ indicateEnd
  \/ recvKeyRecipe
  \/ Over

UploadSpec == UploadInit /\ [][UploadNext]_uploadVars

\* Every thread is scheduled, and the server answers: its two handlers wait
\* for nothing but the client's messages.
FairUploadSpec ==
  /\ UploadSpec
  /\ WF_uploadVars(Collect)
  /\ WF_uploadVars(Upload("data"))
  /\ WF_uploadVars(Upload("meta") \/ KeyUpload)
  /\ WF_uploadVars(indicateEnd)
  /\ WF_uploadVars(Serve("data"))
  /\ WF_uploadVars(Serve("meta") \/ recvKeyRecipe)

-----------------------------------------------------------------------------
\* Types of the session's state.
UploadTypeOK ==
  /\ cpc \in {"header", "headerMeta", "share", "addMeta", "key", "waiting"}
  /\ secret \in 1 .. NumSecrets
  /\ segment \in Seq(1 .. NumSecrets)
  /\ metaID \in -(NumSecrets + 1) .. -1
  /\ \A k \in Kinds :
       /\ Len(ring[k]) <= UploadRing
       /\ Len(container[k]) <= BufferSize
       /\ head[k].past + head[k].coming <= NumSecrets
  /\ keyFile \in Seq(-NumSecrets .. 0)
  /\ encKeys \in Seq(-NumSecrets .. 0)
  /\ exited \in BOOLEAN

\* The place in the upload's list of shares up to which the packages go.
PackagesEnd(k) ==
  IF packages[k] = <<>> THEN 0
  ELSE LET p == packages[k][Len(packages[k])] IN p.past + p.coming

\* Packages of one upload follow each other without a gap or an overlap: the
\* header of each of them says how many shares came before and how many it
\* lists, and the shares come in the order of the file.  The server's recipe
\* code relies on numOfPastSecrets and numOfComingSecrets.  Once the server
\* has received what a session sent that did not crash, the packages are the
\* whole file and the server has all their data.
PackagesTile ==
  \A k \in Kinds :
    /\ \A n \in 1 .. Len(packages[k]) :
         LET p == packages[k][n]
         IN  /\ p.past = IF n = 1 THEN 0 ELSE packages[k][n - 1].past + packages[k][n - 1].coming
             /\ p.coming = Len(p.entries)
             /\ \A i \in 1 .. Len(p.entries) :
                  p.entries[i].id = IF k = "data" THEN p.past + i ELSE -(p.past + i)
    /\ exited /\ (\A j \in Kinds : upc[j] = "exit" /\ toServer[j] = <<>>) =>
         /\ \A n \in 1 .. Len(packages[k]) : packages[k][n].received
         /\ PackagesEnd(k) = IF k = "data" THEN NumSecrets ELSE -metaID - 1

\* The data of a package is what its status list asked for: the bytes of the
\* shares answered 0, in the order of their entries, which is where
\* secondStageDedup looks for them.
DataAsAnswered ==
  \A k \in Kinds : \A n \in DOMAIN packages[k] :
    LET p == packages[k][n]
        asked[i \in 0 .. Len(p.entries)] ==
          IF i = 0 THEN <<>>
          ELSE IF p.status[i] THEN asked[i - 1] ELSE asked[i - 1] \o Bytes(p.entries[i])
    IN  p.received => p.bytes = asked[Len(p.entries)]

\* A stored key recipe has the keys of all meta chunks but the last: a key is
\* written before the next meta chunk is added.
KeysButTheLast ==
  keystore # <<>> => \A i \in 1 .. -metaID - 2 : -i \in Range(keystore)

\* Every upload that has begun ends: no thread of the client waits for ever.
UploadEnds == cpc # "header" ~> exited
===============================================================================
