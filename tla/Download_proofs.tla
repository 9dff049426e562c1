--------------------------- MODULE Download_proofs ---------------------------
(***************************************************************************)
(* What main hands to the decoder: the main thread's steps and those of a  *)
(* client started again preserve the invariant, which makes what the       *)
(* decoder is given the beginning of the file.                             *)
(***************************************************************************)
EXTENDS DownloadThreads_proofs

\* A step that names no prover is for Zenon, then for the SMT solver, with time to
\* spare.
USE ZenonT(30), SMTT(60)

-----------------------------------------------------------------------------
(* The main thread.                                                        *)

\* The loops over the clouds.
LEMMA CloudLoop ==
  /\ 1 \in Cloud
  /\ \A c \in Cloud : /\ c \in Nat /\ 1 <= c /\ c <= Clouds
                      /\ c < Clouds => c + 1 \in Cloud
                      /\ ~(c < Clouds) => c = Clouds
BY DownloadAssumption DEF Cloud

LEMMA CloudOrder ==
  ASSUME NEW c \in Cloud
  PROVE  /\ ~(c < c) /\ c < c + 1 /\ ~(c < 1)
         /\ \A b \in Cloud : b # c => (b < c + 1 <=> b < c)
<1>1. c \in Nat /\ 1 <= c
  BY CloudLoop
<1>2. ASSUME NEW b \in Cloud, b # c PROVE b < c + 1 <=> b < c
  <2>1. b \in Nat
    BY CloudLoop
  <2> QED
    BY <1>1, <1>2, <2>1
<1> QED
  BY <1>1, <1>2

\* A step of main that touches no connection.
LEMMA MainOnly ==
  ASSUME Connections, UNCHANGED <<session, fromDownloader, tpc, toDownloader, downloadContainer, ringBuffer, keyRecipe>>,
         \A d \in Sides, c \in Cloud : Taken(d, c)' = Taken(d, c) /\ Asking(d, c)' = Asking(d, c)
  PROVE  Connections'
<1>1. /\ session' = session /\ fromDownloader' = fromDownloader /\ tpc' = tpc /\ toDownloader' = toDownloader
      /\ downloadContainer' = downloadContainer /\ ringBuffer' = ringBuffer /\ keyRecipe' = keyRecipe
  OBVIOUS
<1>2. ASSUME NEW d \in Sides, NEW c \in Cloud PROVE ConnectionOf(d, c)'
  <2>1. ConnectionOf(d, c) /\ Taken(d, c)' = Taken(d, c) /\ Asking(d, c)' = Asking(d, c)
    BY DEF Connections
  <2> QED
    BY <1>1, <2>1 DEF ConnectionOf
<1> QED
  BY <1>2 DEF Connections

\* A step of main that touches one connection.
LEMMA MainOne ==
  ASSUME Connections, UNCHANGED <<session, keyRecipe>>,
         NEW d \in Sides, NEW c \in Cloud, ConnectionOf(d, c)',
         \A e \in Sides, b \in Cloud : e # d \/ b # c =>
           /\ fromDownloader'[session][e][b] = fromDownloader[session][e][b]
           /\ tpc'[e][b] = tpc[e][b] /\ toDownloader'[e][b] = toDownloader[e][b]
           /\ downloadContainer'[e][b] = downloadContainer[e][b]
           /\ ringBuffer'[e][b] = ringBuffer[e][b]
           /\ Taken(e, b)' = Taken(e, b) /\ Asking(e, b)' = Asking(e, b)
  PROVE  Connections'
<1>1. ASSUME NEW e \in Sides, NEW b \in Cloud, e # d \/ b # c
      PROVE  ConnectionOf(e, b)'
  <2>1. ConnectionOf(e, b)
    BY DEF Connections
  <2>2. fromDownloader'[session'][e][b] = fromDownloader[session][e][b]
    BY <1>1
  <2> QED
    BY <1>1, <2>1, <2>2, SameConnection
<1> QED
  BY <1>1 DEF Connections

\* main takes an item out of a ring buffer.
LEMMA ItemExtracted ==
  ASSUME DownInv, NEW d \in Sides, NEW c \in Cloud, ringBuffer[d][c] # <<>>, ExtractItem(d, c),
         UNCHANGED <<session, fromDownloader, tpc, toDownloader, downloadContainer, keyRecipe>>,
         Taken(d, c)' = Taken(d, c) + 1, Asking(d, c)' = Asking(d, c),
         \A e \in Sides, b \in Cloud : e # d \/ b # c => Taken(e, b)' = Taken(e, b) /\ Asking(e, b)' = Asking(e, b)
  PROVE  Table(ringBuffer') /\ Connections'
<1>1. Table(ringBuffer) /\ Connections
  BY DEF DownInv, DownTypes
<1>2. PICK v : v = Tail(ringBuffer[d][c])
  OBVIOUS
<1>3. ringBuffer' = TableWith(ringBuffer, d, c, v)
  BY <1>2 DEF ExtractItem, TableWith
<1>4. Table(ringBuffer') /\ \A e \in Sides, b \in Cloud : ringBuffer'[e][b] = IF e = d /\ b = c THEN v ELSE ringBuffer[e][b]
  BY <1>1, <1>3, TableUpdate, SMTT(60)
<1>5. ConnectionOf(d, c)'
  <2>1. Connection(d, keyRecipe[c], fromDownloader[session][d][c], tpc[d][c], toDownloader[d][c],
                   downloadContainer[d][c], ringBuffer[d][c], Taken(d, c), Asking(d, c))
    BY ArrivedConnection
  <2>2. Connection(d, keyRecipe[c], fromDownloader[session][d][c], tpc[d][c], toDownloader[d][c],
                   downloadContainer[d][c], v, Taken(d, c) + 1, Asking(d, c))
    BY <1>2, <2>1, ConnectionExtracts
  <2>3. ringBuffer'[d][c] = v
    BY <1>4
  <2> QED
    BY <2>2, <2>3 DEF ConnectionOf
<1> QED
  BY <1>1, <1>4, <1>5, MainOne

\* The item that main takes.
LEMMA ItemTaken ==
  ASSUME DownInv, NEW d \in Sides, NEW c \in Cloud, ringBuffer[d][c] # <<>>
  PROVE  ItemOf(d, keyRecipe[c], Taken(d, c) + 1, ringBuffer[d][c][1])
<1>1. Connection(d, keyRecipe[c], fromDownloader[session][d][c], tpc[d][c], toDownloader[d][c],
                 downloadContainer[d][c], ringBuffer[d][c], Taken(d, c), Asking(d, c))
  BY ArrivedConnection
<1> QED
  BY <1>1, ConnectionExtracts

LEMMA askKeyStep ==
  ASSUME DownInv, askKey
  PROVE  DownInv'
<1>1. DownTypes /\ Connections /\ Stored /\ Unsignalled /\ Written /\ Given
  BY DEF DownInv
<1>2. mpc = "key" /\ mpc' = "keyAnswer" /\ SendTo("meta", at, KeyRequest)
  BY DEF askKey, KeyRequest
<1>3. UNCHANGED <<session, at, left, signal, tpc, downloadContainer, ringBuffer, toDownloader, keyRecipe, recipes, filed, given>>
  BY DEF askKey, threads
<1>4. session \in 1 .. MaxSessions /\ at \in Cloud /\ "meta" \in Sides
  BY <1>1 DEF DownTypes, Sides
<1>5. /\ fromDownloader' \in Requests
      /\ \A j \in 1 .. MaxSessions, e \in Sides, b \in Cloud :
           fromDownloader'[j][e][b] = IF j = session /\ e = "meta" /\ b = at THEN Append(fromDownloader[j][e][b], KeyRequest)
                                                                           ELSE fromDownloader[j][e][b]
      /\ Mailed' /\ Fresh'
  BY <1>2, <1>3, <1>4, MessageTypes, SentMessage
<1>6. DownTypes'
  BY <1>1, <1>3, <1>5 DEF DownTypes
<1>7. Stored'
  BY <1>1, <1>3, <1>5 DEF Stored, Filed
<1>8. /\ \A d \in Sides, c \in Cloud : Taken(d, c)' = Taken(d, c) /\ Asking(d, c) = "none"
      /\ \A d \in Sides, c \in Cloud : d # "meta" \/ c # at => Asking(d, c)' = "none"
      /\ Asking("meta", at)' = "asked"
  BY <1>2, <1>3, <1>4 DEF Taken, Asking, Sides
<1>9. ConnectionOf("meta", at)'
  <2>1. Connection("meta", keyRecipe[at], fromDownloader[session]["meta"][at], tpc["meta"][at], toDownloader["meta"][at],
                   downloadContainer["meta"][at], ringBuffer["meta"][at], Taken("meta", at), "none")
    BY <1>4, <1>8, ArrivedConnection
  <2>2. tpc["meta"][at] = "signal"
    BY <1>1, <1>2, <1>4 DEF Unsignalled
  <2>3. Connection("meta", keyRecipe[at], Append(fromDownloader[session]["meta"][at], KeyRequest), tpc["meta"][at],
                   toDownloader["meta"][at], downloadContainer["meta"][at], ringBuffer["meta"][at],
                   Taken("meta", at), "asked")
    BY <2>1, <2>2, ConnectionKeys
  <2>4. fromDownloader'[session']["meta"][at] = Append(fromDownloader[session]["meta"][at], KeyRequest)
    BY <1>3, <1>4, <1>5
  <2>5. Taken("meta", at)' = Taken("meta", at) /\ at' = at
    BY <1>3, <1>4, <1>8
  <2> QED
    BY <1>3, <1>8, <2>3, <2>4, <2>5 DEF ConnectionOf
<1>10. Connections'
  <2>1. \A e \in Sides, b \in Cloud : e # "meta" \/ b # at =>
          /\ fromDownloader'[session][e][b] = fromDownloader[session][e][b]
          /\ Taken(e, b)' = Taken(e, b) /\ Asking(e, b)' = Asking(e, b)
    BY <1>4, <1>5, <1>8
  <2> QED
    BY <1>1, <1>3, <1>4, <1>9, <2>1, MainOne, ZenonT(60)
<1>11. Unsignalled' /\ Written' /\ Given'
  BY <1>1, <1>2, <1>3 DEF Unsignalled, Written, Given
<1> QED
  BY <1>6, <1>7, <1>10, <1>11 DEF DownInv

LEMMA getKeyStep ==
  ASSUME DownInv, getKey
  PROVE  DownInv'
<1>1. DownTypes /\ Connections /\ Stored /\ Unsignalled /\ Written /\ Given
  BY DEF DownInv
<1>2. /\ mpc = "keyAnswer" /\ mpc' \in {"key", "pre"} /\ at' \in Cloud
      /\ toDownloader["meta"][at] # <<>> /\ Received("meta", at)
  <2>1. at \in Cloud
    BY <1>1 DEF DownTypes
  <2> QED
    BY <2>1, CloudLoop DEF getKey
<1>3. UNCHANGED <<session, left, signal, tpc, downloadContainer, ringBuffer, fromDownloader, keyRecipe, recipes, filed, given>>
  BY DEF getKey, threads
<1>4. PICK c \in Cloud : c = at
  BY <1>1 DEF DownTypes
<1>5. "meta" \in Sides /\ Table(toDownloader)
  BY <1>1 DEF DownTypes, Sides
<1>6. PICK v : v = Tail(toDownloader["meta"][c])
  OBVIOUS
<1>7. toDownloader' = TableWith(toDownloader, "meta", c, v)
  BY <1>2, <1>4, <1>6 DEF Received, TableWith
<1>8. Table(toDownloader') /\ \A e \in Sides, b \in Cloud :
        toDownloader'[e][b] = IF e = "meta" /\ b = c THEN v ELSE toDownloader[e][b]
  BY <1>5, <1>7, TableUpdate, SMTT(60)
<1>9. DownTypes'
  BY <1>1, <1>2, <1>3, <1>8 DEF DownTypes
<1>10. /\ \A e \in Sides, b \in Cloud : Taken(e, b)' = Taken(e, b) /\ Asking(e, b)' = "none"
       /\ \A e \in Sides, b \in Cloud : e # "meta" \/ b # c => Asking(e, b) = "none"
       /\ Asking("meta", c) = "asked"
  BY <1>2, <1>3, <1>4 DEF Taken, Asking, Sides
<1>11. ConnectionOf("meta", c)'
  <2>1. Connection("meta", keyRecipe[c], fromDownloader[session]["meta"][c], tpc["meta"][c], toDownloader["meta"][c],
                   downloadContainer["meta"][c], ringBuffer["meta"][c], Taken("meta", c), "asked")
    BY <1>5, <1>10, ArrivedConnection
  <2>2. Connection("meta", keyRecipe[c], fromDownloader[session]["meta"][c], tpc["meta"][c], v,
                   downloadContainer["meta"][c], ringBuffer["meta"][c], Taken("meta", c), "none")
    BY <1>2, <1>4, <1>6, <2>1, ConnectionKeys
  <2>3. toDownloader'["meta"][c] = v /\ Taken("meta", c)' = Taken("meta", c) /\ Asking("meta", c)' = "none"
    BY <1>5, <1>8, <1>10
  <2> QED
    BY <1>3, <2>2, <2>3 DEF ConnectionOf
<1>12. Connections'
  BY <1>1, <1>3, <1>5, <1>8, <1>10, <1>11, MainOne, SMTT(60)
<1>13. Stored' /\ Unsignalled' /\ Written' /\ Given'
  <2>1. Stored'
    BY <1>1, <1>3, SameStored
  <2>2. Unsignalled' /\ Written' /\ Given'
    BY <1>1, <1>2, <1>3 DEF Unsignalled, Written, Given
  <2> QED
    BY <2>1, <2>2
<1> QED
  BY <1>9, <1>12, <1>13 DEF DownInv

LEMMA signalThreadsStep ==
  ASSUME DownInv, NEW d \in Sides, signalThreads(d)
  PROVE  DownInv'
<1>1. DownTypes /\ Connections /\ Stored /\ Unsignalled /\ Written /\ Given
  BY DEF DownInv
<1>2. UNCHANGED <<session, left, tpc, downloadContainer, ringBuffer, fromDownloader, toDownloader, keyRecipe, recipes, filed, given>>
  BY DEF signalThreads, connections
<1>3. at \in Cloud /\ at' \in Cloud /\ signal' \in [Sides -> [Cloud -> BOOLEAN]]
  <2>1. at \in Cloud /\ signal \in [Sides -> [Cloud -> BOOLEAN]]
    BY <1>1 DEF DownTypes
  <2>2. at' \in Cloud
    BY <2>1, CloudLoop DEF signalThreads, Loop
  <2>3. signal' \in [Sides -> [Cloud -> BOOLEAN]]
    BY <2>1 DEF signalThreads
  <2> QED
    BY <2>1, <2>2, <2>3
<1>4. \/ mpc = "pre" /\ mpc' = "pre"
      \/ mpc = "pre" /\ mpc' = "preHead" /\ at' = 1
      \/ mpc = "down" /\ mpc' = "down"
      \/ mpc = "down" /\ mpc' = "downHead" /\ at' = 1
  BY DEF signalThreads, Loop, Sides
<1>5. DownTypes'
  BY <1>1, <1>2, <1>3 DEF DownTypes
<1>6. \A c \in Cloud : ~(c < 1)
  BY DEF Cloud
<1>7. \A e \in Sides, c \in Cloud : Taken(e, c)' = Taken(e, c) /\ Asking(e, c)' = Asking(e, c)
  BY <1>2, <1>4, <1>6 DEF Taken, Asking
<1>8. Connections'
  BY <1>1, <1>2, <1>7, MainOnly
<1>9. Stored'
  BY <1>1, <1>2, SameStored
<1>10. Unsignalled' /\ Written' /\ Given'
  BY <1>1, <1>2, <1>4, <1>6 DEF Unsignalled, Written, Given
<1> QED
  BY <1>5, <1>8, <1>9, <1>10 DEF DownInv

LEMMA joinThreadsStep ==
  ASSUME DownInv, joinThreads
  PROVE  DownInv'
<1>1. DownTypes /\ Connections /\ Stored /\ Unsignalled /\ Written /\ Given
  BY DEF DownInv
<1>2. UNCHANGED <<session, at, left, signal, tpc, downloadContainer, ringBuffer, fromDownloader, toDownloader, keyRecipe,
                  recipes, filed, given>>
  BY DEF joinThreads, connections, threads
<1>3. mpc = "join" /\ mpc' = "done"
  BY DEF joinThreads
<1>4. DownTypes'
  BY <1>1, <1>2 DEF DownTypes
<1>5. \A e \in Sides, c \in Cloud : Taken(e, c)' = Taken(e, c) /\ Asking(e, c)' = Asking(e, c)
  BY <1>2, <1>3 DEF Taken, Asking
<1>6. Connections'
  BY <1>1, <1>2, <1>5, MainOnly
<1>7. Stored'
  BY <1>1, <1>2, SameStored
<1>8. Unsignalled' /\ Written' /\ Given'
  BY <1>1, <1>2, <1>3 DEF Unsignalled, Written, Given, AllKeys
<1> QED
  BY <1>4, <1>6, <1>7, <1>8 DEF DownInv

LEMMA preHeaderStep ==
  ASSUME DownInv, preHeader
  PROVE  DownInv'
<1>1. DownTypes /\ Connections /\ Stored /\ Unsignalled /\ Written /\ Given
  BY DEF DownInv
<1>2. PICK c \in Cloud : c = at
  BY <1>1 DEF DownTypes
<1>3. PICK x : x = ringBuffer["meta"][c][1].n
  OBVIOUS
<1>4. /\ mpc = "preHead" /\ ringBuffer["meta"][c] # <<>> /\ ExtractItem("meta", c)
      /\ left' = [left EXCEPT ![c] = x]
      /\ IF c < Clouds THEN at' = c + 1 /\ mpc' = "preHead" ELSE at' = 1 /\ mpc' = "preShare"
  BY <1>2, <1>3 DEF preHeader, Loop
<1>5. UNCHANGED <<session, signal, tpc, downloadContainer, fromDownloader, toDownloader, keyRecipe, recipes, filed, given>>
  BY DEF preHeader, connections
<1>6. x = NumMeta
  <2>1. "meta" \in Sides /\ Taken("meta", c) + 1 = 1
    BY <1>2, <1>4, CloudLoop, SMTT(60) DEF Sides, Taken
  <2>2. ItemOf("meta", keyRecipe[c], 1, ringBuffer["meta"][c][1])
    BY <1>4, <2>1, ItemTaken
  <2>3. PICK items : Sent("meta", keyRecipe[c], items) /\ ringBuffer["meta"][c][1] = Item(items, 1)
    BY <2>2 DEF ItemOf
  <2>4. Len(items) = NumMeta
    BY <2>3 DEF Sent
  <2> QED
    BY <1>3, <2>3, <2>4 DEF Item, HeadItem
<1>7. NumMeta \in Nat /\ 0 < NumMeta
  BY Constants
<1>8. /\ left' \in [Cloud -> Int]
      /\ \A b \in Cloud : left'[b] = IF b = c THEN NumMeta ELSE left[b]
  BY <1>1, <1>4, <1>6, <1>7, SMTT(60) DEF DownTypes
<1>9. at' \in Cloud
  BY <1>4, CloudLoop
<1>10. \A b \in Cloud : b < c => left[b] = NumMeta
  BY <1>1, <1>2, <1>4 DEF Written
<1>11. /\ Taken("meta", c) = 0 /\ Taken("meta", c)' = 1
       /\ \A b \in Cloud : b # c => Taken("meta", b)' = Taken("meta", b)
       /\ \A b \in Cloud : Taken("data", b)' = Taken("data", b)
       /\ \A e \in Sides, b \in Cloud : Asking(e, b) = "none" /\ Asking(e, b)' = "none"
  <2>1. CASE c < Clouds
    <3>1. /\ ~(c < c) /\ c < c + 1
          /\ \A b \in Cloud : b # c => (b < c + 1 <=> b < c)
      BY CloudOrder
    <3>2. at = c /\ at' = c + 1 /\ mpc = "preHead" /\ mpc' = "preHead"
      BY <1>2, <1>4, <2>1
    <3> QED
      BY <3>1, <3>2 DEF Taken, Asking
  <2>2. CASE ~(c < Clouds)
    <3>1. \A b \in Cloud : b # c => b < c
      BY <2>2, CloudLoop
    <3>2. \A b \in Cloud : left'[b] = NumMeta
      BY <1>8, <1>10, <3>1
    <3> QED
      BY <1>2, <1>4, <1>7, <2>2, <3>1, <3>2, CloudLoop, SMTT(60) DEF Taken, Asking
  <2> QED
    BY <2>1, <2>2
<1>12. Table(ringBuffer') /\ Connections'
  <2>1. "meta" \in Sides /\ Taken("meta", c)' = Taken("meta", c) + 1
    BY <1>11 DEF Sides
  <2>2. \A e \in Sides, b \in Cloud : e # "meta" \/ b # c => Taken(e, b)' = Taken(e, b) /\ Asking(e, b)' = Asking(e, b)
    BY <1>11 DEF Sides
  <2>3. Asking("meta", c)' = Asking("meta", c)
    BY <1>11, <2>1
  <2> QED
    BY <1>4, <1>5, <2>1, <2>2, <2>3, ItemExtracted
<1>13. DownTypes'
  BY <1>1, <1>5, <1>8, <1>9, <1>12 DEF DownTypes
<1>14. Stored'
  BY <1>1, <1>5, SameStored
<1>15. Unsignalled' /\ Given'
  BY <1>1, <1>4, <1>5 DEF Unsignalled, Given
<1>16. Written'
  <2>1. \A b \in Cloud : recipes'[b] = <<>>
    BY <1>1, <1>4, <1>5 DEF Written
  <2>2. CASE c < Clouds
    <3>1. \A b \in Cloud : b < c + 1 => left'[b] = NumMeta
      BY <1>8, <1>10, CloudLoop, SMTT(60)
    <3> QED
      BY <1>4, <2>1, <2>2, <3>1 DEF Written
  <2>3. CASE ~(c < Clouds)
    <3>1. \A b \in Cloud : left'[b] = NumMeta
      BY <1>8, <1>10, <2>3, CloudLoop
    <3>2. \A b \in Cloud : ~(b < 1)
      BY CloudOrder
    <3>3. \A b \in Cloud : WrittenUpTo(keyRecipe'[b], NumMeta - left'[b], recipes'[b])
      <4>1. NumMeta - NumMeta = 0
        BY <1>7
      <4> QED
        BY <2>1, <3>1, <4>1, WrittenEnds
    <3>4. NumMeta \in 1 .. NumMeta
      BY <1>7
    <3> QED
      BY <1>4, <2>1, <2>3, <3>1, <3>2, <3>3, <3>4 DEF Written
  <2> QED
    BY <2>2, <2>3
<1> QED
  BY <1>12, <1>13, <1>14, <1>15, <1>16 DEF DownInv

LEMMA preShareStep ==
  ASSUME DownInv, preShare
  PROVE  DownInv'
<1>1. DownTypes /\ Connections /\ Stored /\ Unsignalled /\ Written /\ Given
  BY DEF DownInv
<1>2. PICK c \in Cloud : c = at
  BY <1>1 DEF DownTypes
<1>3. PICK x : x = ringBuffer["meta"][c][1].n
  OBVIOUS
<1>4. /\ mpc = "preShare" /\ ringBuffer["meta"][c] # <<>> /\ ExtractItem("meta", c)
      /\ \E entries \in Entries(c, x) : recipes' = [recipes EXCEPT ![c] = recipes[c] \o entries]
      /\ left' = [left EXCEPT ![c] = left[c] - 1]
      /\ IF left[c] > 1 THEN at' = c /\ mpc' = "preShare"
         ELSE IF c < Clouds THEN at' = c + 1 /\ mpc' = "preShare" ELSE at' = 1 /\ mpc' = "upload"
  BY <1>2, <1>3 DEF preShare, Loop
<1>5. UNCHANGED <<session, signal, tpc, downloadContainer, fromDownloader, toDownloader, keyRecipe, filed, given>>
  BY DEF preShare, connections
<1>6. NumMeta \in Nat /\ 0 < NumMeta
  BY Constants
<1>7. /\ \A b \in Cloud : b < c => left[b] = 0
      /\ \A b \in Cloud : ~(b < c) => left[b] \in 1 .. NumMeta
      /\ \A b \in Cloud : WrittenUpTo(keyRecipe[b], NumMeta - left[b], recipes[b])
  BY <1>1, <1>2, <1>4 DEF Written
<1>8. PICK m \in 0 .. NumMeta - 1 : m = NumMeta - left[c]
  BY <1>6, <1>7, CloudLoop, SMTT(60)
<1>9. Taken("meta", c) = m + 1
  BY <1>4, <1>6, <1>7, <1>8, CloudLoop, SMTT(60) DEF Taken
<1>10. x = m + 1
  <2>1. "meta" \in Sides /\ Taken("meta", c) + 1 = m + 2
    BY <1>9 DEF Sides
  <2>2. ItemOf("meta", keyRecipe[c], m + 2, ringBuffer["meta"][c][1])
    BY <1>4, <2>1, ItemTaken
  <2>3. PICK items : Sent("meta", keyRecipe[c], items) /\ ringBuffer["meta"][c][1] = Item(items, m + 2)
    BY <2>2 DEF ItemOf
  <2>4. items[m + 1] = m + 1
    BY <1>6, <2>3 DEF Sent
  <2>5. m + 2 # 1 /\ m + 2 - 1 = m + 1
    OBVIOUS
  <2>6. Item(items, m + 2) = ShareItem(m + 1)
    BY <2>4, <2>5 DEF Item
  <2> QED
    BY <1>3, <2>3, <2>6 DEF ShareItem
<1>11. PICK e \in Entries(c, m + 1) : recipes' = [recipes EXCEPT ![c] = recipes[c] \o e]
  BY <1>4, <1>10
<1>12. PICK r \in Seq(Nat) : r = recipes[c] \o e /\ WrittenUpTo(keyRecipe[c], m + 1, r)
  <2>1. keyRecipe[c] \in KeyRecipes /\ recipes[c] \in Seq(Nat) /\ WrittenUpTo(keyRecipe[c], m, recipes[c])
    BY <1>1, <1>7, <1>8 DEF DownTypes
  <2> QED
    BY <2>1, WrittenNext
<1>13. /\ recipes' \in [Cloud -> Seq(Nat)]
       /\ \A b \in Cloud : recipes'[b] = IF b = c THEN r ELSE recipes[b]
  BY <1>1, <1>11, <1>12 DEF DownTypes
<1>14. /\ left' \in [Cloud -> Int] /\ left'[c] = left[c] - 1 /\ NumMeta - left'[c] = m + 1
       /\ \A b \in Cloud : b # c => left'[b] = left[b]
  <2>1. left \in [Cloud -> Int] /\ left[c] \in Int
    BY <1>1 DEF DownTypes
  <2> QED
    BY <1>4, <1>6, <1>8, <2>1, SMTT(60)
<1>15. at' \in Cloud
  BY <1>4, CloudLoop
<1>16. \A b \in Cloud : WrittenUpTo(keyRecipe[b], NumMeta - left'[b], recipes'[b])
  BY <1>7, <1>12, <1>13, <1>14
<1>17. ASSUME mpc' = "preShare"
       PROVE /\ Written'
             /\ Taken("meta", c)' = m + 2
             /\ \A b \in Cloud : b # c => Taken("meta", b)' = Taken("meta", b)
             /\ \A b \in Cloud : Taken("data", b)' = Taken("data", b)
             /\ \A f \in Sides, b \in Cloud : Asking(f, b) = "none" /\ Asking(f, b)' = "none"
  <2>1. \A b \in Cloud : IF b < at' THEN left'[b] = 0 ELSE left'[b] \in 1 .. NumMeta
    <3>1. CASE left[c] > 1
      <4>1. left'[c] \in 1 .. NumMeta /\ ~(c < c) /\ at' = c
        BY <1>4, <1>6, <1>7, <1>14, <3>1, CloudLoop, SMTT(60)
      <4> QED
        BY <1>7, <1>14, <4>1
    <3>2. CASE ~(left[c] > 1)
      <4>1. left'[c] = 0 /\ at' = c + 1
        BY <1>4, <1>6, <1>7, <1>14, <1>17, <3>2, CloudLoop, SMTT(60)
      <4>2. c < c + 1 /\ \A b \in Cloud : b # c => (b < c + 1 <=> b < c)
        BY CloudOrder
      <4> QED
        BY <1>7, <1>14, <4>1, <4>2
    <3> QED
      BY <3>1, <3>2
  <2>2. Written'
    BY <1>5, <1>16, <1>17, <2>1 DEF Written
  <2>3. /\ Taken("meta", c)' = m + 2
        /\ \A b \in Cloud : b # c => Taken("meta", b)' = Taken("meta", b)
        /\ \A b \in Cloud : Taken("data", b)' = Taken("data", b)
        /\ \A f \in Sides, b \in Cloud : Asking(f, b) = "none" /\ Asking(f, b)' = "none"
    <3>1. NumMeta + 1 - left'[c] = m + 2
      BY <1>6, <1>14, SMTT(60)
    <3> QED
      BY <1>4, <1>14, <1>17, <3>1 DEF Taken, Asking
  <2> QED
    BY <2>2, <2>3
<1>18. ASSUME mpc' = "upload"
       PROVE /\ Written'
             /\ Taken("meta", c)' = m + 2
             /\ \A b \in Cloud : b # c => Taken("meta", b)' = Taken("meta", b)
             /\ \A b \in Cloud : Taken("data", b)' = Taken("data", b)
             /\ \A f \in Sides, b \in Cloud : Asking(f, b) = "none" /\ Asking(f, b)' = "none"
  <2>1. c = Clouds /\ left'[c] = 0 /\ at' = 1
    BY <1>4, <1>6, <1>7, <1>14, <1>18, CloudLoop, SMTT(60)
  <2>2. \A b \in Cloud : left'[b] = 0 /\ (b # c => left[b] = 0)
    BY <1>7, <1>14, <2>1, CloudLoop
  <2>3. \A b \in Cloud : Recipe(keyRecipe[b], recipes'[b])
    <3>1. \A b \in Cloud : NumMeta - left'[b] = NumMeta
      BY <1>6, <2>2
    <3> QED
      BY <1>13, <1>16, <3>1, WrittenEnds
  <2>4. \A b \in Cloud : ~(b < 1)
    BY CloudOrder
  <2>5. Written'
    BY <1>5, <1>18, <2>1, <2>3, <2>4 DEF Written
  <2>6. /\ Taken("meta", c)' = m + 2
        /\ \A b \in Cloud : b # c => Taken("meta", b)' = Taken("meta", b)
        /\ \A b \in Cloud : Taken("data", b)' = Taken("data", b)
        /\ \A f \in Sides, b \in Cloud : Asking(f, b) = "none" /\ Asking(f, b)' = "none"
    <3>1. NumMeta + 1 = m + 2
      BY <1>6, <1>14, <2>1, SMTT(60)
    <3>2. \A b \in Cloud : b # c => NumMeta + 1 - left[b] = NumMeta + 1
      BY <1>6, <2>2
    <3> QED
      BY <1>4, <1>18, <3>1, <3>2 DEF Taken, Asking
  <2> QED
    BY <2>5, <2>6
<1>19. /\ Written'
       /\ Taken("meta", c)' = Taken("meta", c) + 1
       /\ \A b \in Cloud : b # c => Taken("meta", b)' = Taken("meta", b)
       /\ \A b \in Cloud : Taken("data", b)' = Taken("data", b)
       /\ \A f \in Sides, b \in Cloud : Asking(f, b) = "none" /\ Asking(f, b)' = "none"
  <2>1. mpc' = "preShare" \/ mpc' = "upload"
    BY <1>4
  <2>2. Taken("meta", c) + 1 = m + 2
    BY <1>9
  <2> QED
    BY <1>17, <1>18, <2>1, <2>2
<1>20. Table(ringBuffer') /\ Connections'
  <2>1. "meta" \in Sides
    BY DEF Sides
  <2>2. \A f \in Sides, b \in Cloud : f # "meta" \/ b # c => Taken(f, b)' = Taken(f, b) /\ Asking(f, b)' = Asking(f, b)
    BY <1>19 DEF Sides
  <2>3. Asking("meta", c)' = Asking("meta", c)
    BY <1>19, <2>1
  <2> QED
    BY <1>4, <1>5, <1>19, <2>1, <2>2, <2>3, ItemExtracted
<1>21. DownTypes'
  BY <1>1, <1>5, <1>13, <1>14, <1>15, <1>20 DEF DownTypes
<1>22. Stored'
  BY <1>1, <1>5, SameStored
<1>23. Unsignalled' /\ Given'
  BY <1>1, <1>4, <1>5 DEF Unsignalled, Given
<1> QED
  BY <1>19, <1>20, <1>21, <1>22, <1>23 DEF DownInv

LEMMA uploadRetrivedRecipeFileStep ==
  ASSUME DownInv, uploadRetrivedRecipeFile
  PROVE  DownInv'
<1>1. DownTypes /\ Connections /\ Stored /\ Unsignalled /\ Written /\ Given
  BY DEF DownInv
<1>2. PICK c \in Cloud : c = at
  BY <1>1 DEF DownTypes
<1>3. PICK r \in Seq(Nat) : r = recipes[c]
  BY <1>1 DEF DownTypes
<1>4. PICK msg : msg = [type |-> "FILE_RECIPE", entries |-> r]
  OBVIOUS
<1>5. /\ mpc = "upload"
      /\ IF r = <<>> THEN fromDownloader' = fromDownloader ELSE SendTo("meta", c, msg)
      /\ recipes' = [recipes EXCEPT ![c] = <<>>]
      /\ IF c < Clouds THEN at' = c + 1 /\ mpc' = "upload" ELSE at' = 1 /\ mpc' = "down"
  BY <1>2, <1>3, <1>4 DEF uploadRetrivedRecipeFile, Loop
<1>6. UNCHANGED <<session, left, signal, tpc, downloadContainer, ringBuffer, toDownloader, keyRecipe, filed, given>>
  BY DEF uploadRetrivedRecipeFile, threads
<1>7. msg \in Message /\ msg.type = "FILE_RECIPE" /\ msg.entries = r
  BY <1>4 DEF Message
<1>8. /\ \A b \in Cloud : b < c => recipes[b] = <<>>
      /\ \A b \in Cloud : ~(b < c) => Recipe(keyRecipe[b], recipes[b])
  BY <1>1, <1>2, <1>5 DEF Written
<1>9. Recipe(keyRecipe[c], r)
  BY <1>3, <1>8, CloudOrder
<1>10. /\ recipes' \in [Cloud -> Seq(Nat)]
       /\ \A b \in Cloud : recipes'[b] = IF b = c THEN <<>> ELSE recipes[b]
  <2>1. PICK e \in Seq(Nat) : e = <<>>
    BY SeqNone
  <2>2. recipes \in [Cloud -> Seq(Nat)] /\ recipes' = [recipes EXCEPT ![c] = e]
    BY <1>1, <1>5, <2>1 DEF DownTypes
  <2> QED
    BY <2>1, <2>2
<1>11. at' \in Cloud /\ session \in 1 .. MaxSessions /\ "meta" \in Sides
  BY <1>1, <1>5, CloudLoop DEF DownTypes, Sides
<1>12. /\ fromDownloader' \in Requests /\ Mailed' /\ Fresh'
       /\ \A e \in Sides, b \in Cloud : e # "meta" \/ b # c =>
            fromDownloader'[session][e][b] = fromDownloader[session][e][b]
       /\ fromDownloader'[session]["meta"][c] =
            IF r = <<>> THEN fromDownloader[session]["meta"][c] ELSE Append(fromDownloader[session]["meta"][c], msg)
  <2>1. CASE r = <<>>
    <3>1. fromDownloader' = fromDownloader /\ fromDownloader \in Requests /\ Mailed /\ Fresh
      BY <1>1, <1>5, <2>1 DEF DownTypes, Stored
    <3>2. Mailed' /\ Fresh'
      BY <1>6, <3>1 DEF Mailed, Fresh
    <3> QED
      BY <2>1, <3>1, <3>2
  <2>2. CASE r # <<>>
    <3>1. /\ fromDownloader' \in Requests
          /\ \A j \in 1 .. MaxSessions, e \in Sides, b \in Cloud :
               fromDownloader'[j][e][b] = IF j = session /\ e = "meta" /\ b = c THEN Append(fromDownloader[j][e][b], msg)
                                                                              ELSE fromDownloader[j][e][b]
          /\ Mailed' /\ Fresh'
      BY <1>5, <1>6, <1>7, <1>9, <1>11, <2>2, SentMessage
    <3> QED
      BY <1>11, <2>2, <3>1
  <2> QED
    BY <2>1, <2>2
<1>13. /\ Taken("meta", c) = NumMeta + 1
       /\ \A e \in Sides, b \in Cloud : Taken(e, b)' = Taken(e, b) /\ Asking(e, b)' = Asking(e, b)
  BY <1>5 DEF Taken, Asking
<1>14. ConnectionOf("meta", c)'
  <2>1. Connection("meta", keyRecipe[c], fromDownloader[session]["meta"][c], tpc["meta"][c], toDownloader["meta"][c],
                   downloadContainer["meta"][c], ringBuffer["meta"][c], Taken("meta", c), Asking("meta", c))
    BY <1>11, ArrivedConnection
  <2>2. Taken("meta", c) # 0
    BY <1>13, Constants
  <2>3. Connection("meta", keyRecipe[c], Append(fromDownloader[session]["meta"][c], msg), tpc["meta"][c],
                   toDownloader["meta"][c], downloadContainer["meta"][c], ringBuffer["meta"][c],
                   Taken("meta", c), Asking("meta", c))
    BY <1>7, <2>1, <2>2, ConnectionFiles
  <2>4. Taken("meta", c)' = Taken("meta", c) /\ Asking("meta", c)' = Asking("meta", c)
    BY <1>11, <1>13
  <2>5. Connection("meta", keyRecipe[c], fromDownloader'[session]["meta"][c], tpc["meta"][c],
                   toDownloader["meta"][c], downloadContainer["meta"][c], ringBuffer["meta"][c],
                   Taken("meta", c), Asking("meta", c))
    BY <1>12, <2>1, <2>3
  <2> QED
    BY <1>6, <2>4, <2>5 DEF ConnectionOf
<1>15. Connections'
  BY <1>1, <1>6, <1>11, <1>12, <1>13, <1>14, MainOne, ZenonT(60)
<1>16. DownTypes'
  BY <1>1, <1>6, <1>10, <1>11, <1>12 DEF DownTypes
<1>17. Stored'
  BY <1>1, <1>6, <1>12 DEF Stored, Filed
<1>18. Unsignalled' /\ Given'
  BY <1>1, <1>5, <1>6 DEF Unsignalled, Given
<1>19. Written'
  <2>1. CASE c < Clouds
    <3>1. at' = c + 1 /\ mpc' = "upload"
      BY <1>5, <2>1
    <3>2. ASSUME NEW b \in Cloud
          PROVE  IF b < c + 1 THEN recipes'[b] = <<>> ELSE Recipe(keyRecipe[b], recipes'[b])
      <4>1. CASE b = c
        BY <1>10, <4>1, CloudOrder
      <4>2. CASE b # c
        BY <1>8, <1>10, <4>2, CloudOrder
      <4> QED
        BY <4>1, <4>2
    <3> QED
      BY <1>6, <3>1, <3>2 DEF Written
  <2>2. CASE ~(c < Clouds)
    <3>1. mpc' = "down"
      BY <1>5, <2>2
    <3>2. \A b \in Cloud : recipes'[b] = <<>>
      BY <1>8, <1>10, <2>2, CloudLoop
    <3> QED
      BY <3>1, <3>2 DEF Written
  <2> QED
    BY <2>1, <2>2
<1> QED
  BY <1>15, <1>16, <1>17, <1>18, <1>19 DEF DownInv

LEMMA downHeaderStep ==
  ASSUME DownInv, downHeader
  PROVE  DownInv'
<1>1. DownTypes /\ Connections /\ Stored /\ Unsignalled /\ Written /\ Given
  BY DEF DownInv
<1>2. PICK c \in Cloud : c = at
  BY <1>1 DEF DownTypes
<1>3. PICK x : x = ringBuffer["data"][c][1].n
  OBVIOUS
<1>4. /\ mpc = "downHead" /\ ringBuffer["data"][c] # <<>> /\ ExtractItem("data", c)
      /\ left' = [b \in Cloud |-> x]
      /\ IF c < Clouds THEN at' = c + 1 /\ mpc' = "downHead" ELSE at' = 1 /\ mpc' = "share"
  BY <1>2, <1>3 DEF downHeader, Loop
<1>5. UNCHANGED <<session, signal, tpc, downloadContainer, fromDownloader, toDownloader, keyRecipe, recipes, filed, given>>
  BY DEF downHeader, connections
<1>6. x \in Nat /\ (keyRecipe[c] = OwnKeys(NumMeta) => x = Len(Secrets))
  <2>1. "data" \in Sides /\ Taken("data", c) + 1 = 1
    BY <1>2, <1>4, CloudOrder, SMTT(60) DEF Sides, Taken
  <2>2. ItemOf("data", keyRecipe[c], 1, ringBuffer["data"][c][1])
    BY <1>4, <2>1, ItemTaken
  <2>3. PICK items : Sent("data", keyRecipe[c], items) /\ ringBuffer["data"][c][1] = Item(items, 1)
    BY <2>2 DEF ItemOf
  <2>4. x = Len(items)
    BY <1>3, <2>3 DEF Item, HeadItem
  <2>5. items \in Seq(Nat) /\ Prefix(keyRecipe[c], items)
    BY <2>3 DEF Sent
  <2> QED
    BY <2>4, <2>5, SeqLen DEF Prefix
<1>7. left' \in [Cloud -> Int] /\ at' \in Cloud
  BY <1>4, <1>6, CloudLoop, SMTT(60)
<1>8. given = <<>> /\ Len(given) = 0
  BY <1>1, <1>4 DEF Given
<1>9. /\ Taken("data", c) = 0 /\ Taken("data", c)' = 1
      /\ \A b \in Cloud : b # c => Taken("data", b)' = Taken("data", b)
      /\ \A b \in Cloud : Taken("meta", b)' = Taken("meta", b)
      /\ \A e \in Sides, b \in Cloud : Asking(e, b) = "none" /\ Asking(e, b)' = "none"
  <2>1. /\ ~(c < c) /\ c < c + 1
        /\ \A b \in Cloud : b # c => (b < c + 1 <=> b < c)
    BY CloudOrder
  <2>2. CASE c < Clouds
    <3>1. at = c /\ at' = c + 1 /\ mpc = "downHead" /\ mpc' = "downHead"
      BY <1>2, <1>4, <2>2
    <3> QED
      BY <2>1, <3>1 DEF Taken, Asking
  <2>3. CASE ~(c < Clouds)
    <3>1. at = c /\ at' = 1 /\ mpc = "downHead" /\ mpc' = "share" /\ Len(given') = 0
      BY <1>2, <1>4, <1>5, <1>8, <2>3
    <3>2. \A b \in Cloud : b # c => b < c
      BY <2>3, CloudLoop
    <3> QED
      BY <2>1, <3>1, <3>2 DEF Taken, Asking
  <2> QED
    BY <2>2, <2>3
<1>10. Table(ringBuffer') /\ Connections'
  <2>1. "data" \in Sides /\ Taken("data", c)' = Taken("data", c) + 1
    BY <1>9 DEF Sides
  <2>2. \A e \in Sides, b \in Cloud : e # "data" \/ b # c => Taken(e, b)' = Taken(e, b) /\ Asking(e, b)' = Asking(e, b)
    BY <1>9 DEF Sides
  <2>3. Asking("data", c)' = Asking("data", c)
    BY <1>9, <2>1
  <2> QED
    BY <1>4, <1>5, <2>1, <2>2, <2>3, ItemExtracted
<1>11. DownTypes'
  BY <1>1, <1>5, <1>7, <1>10 DEF DownTypes
<1>12. Stored'
  BY <1>1, <1>5, SameStored
<1>13. Unsignalled' /\ Written'
  BY <1>1, <1>4, <1>5 DEF Unsignalled, Written
<1>14. Given'
  <2>1. given' = <<>> /\ Len(given') = 0
    BY <1>5, <1>8
  <2>2. CASE mpc' = "downHead"
    BY <2>1, <2>2, SMTT(60) DEF Given
  <2>3. CASE mpc' = "share"
    <3>1. at' = 1
      BY <1>4, <2>3
    <3>2. AllKeys' => \A b \in Cloud : left'[b] = Len(Secrets)
      BY <1>4, <1>5, <1>6 DEF AllKeys
    <3>3. Len(Secrets) - 0 + 0 = Len(Secrets) /\ ~(1 < 1)
      BY Constants
    <3> QED
      BY <2>1, <2>3, <3>1, <3>2, <3>3, SMTT(60) DEF Given
  <2> QED
    BY <1>4, <2>2, <2>3
<1> QED
  BY <1>10, <1>11, <1>12, <1>13, <1>14 DEF DownInv

\* The share s of cloud c makes h out of the shares g; j is its secret.
Adding(g, c, s, j, h) ==
  /\ g \in Seq(Seq(Nat)) /\ c \in Cloud /\ s \in Nat /\ j \in Nat /\ 1 <= j
  /\ j = (IF c = 1 THEN Len(g) + 1 ELSE Len(g)) /\ s = Secrets[j]
  /\ g # <<>> => Len(g[Len(g)]) = IF c = 1 THEN Clouds ELSE c - 1
  /\ \A k \in 1 .. Len(g) : \A b \in 1 .. Len(g[k]) : g[k][b] = Secrets[k]
  /\ h = IF c = 1 THEN Append(g, <<s>>) ELSE [g EXCEPT ![Len(g)] = Append(g[Len(g)], s)]

\* h has the shares of the first j secrets, those of the last from c clouds.
Shares(h, c, j) ==
  /\ h \in Seq(Seq(Nat)) /\ Len(h) = j /\ Len(h[j]) = c
  /\ \A k \in 1 .. j : \A b \in 1 .. Len(h[k]) : h[k][b] = Secrets[k]

LEMMA MoreGiven ==
  ASSUME NEW g, NEW c, NEW s, NEW j, NEW h, Adding(g, c, s, j, h)
  PROVE  Shares(h, c, j)
<1> USE DEF Adding
<1>1. Len(g) \in Nat /\ c \in Nat
  BY SeqLen, CloudLoop
<1>2. CASE c = 1
  <2>1. PICK x \in Seq(Nat) : x = <<s>> /\ Len(x) = 1 /\ x[1] = s
    <3>1. <<s>> \in Seq(Nat) /\ Len(<<s>>) = 1 /\ <<s>>[1] = s
      BY SMTT(60)
    <3> QED
      BY <3>1
  <2>2. /\ Append(g, x) \in Seq(Seq(Nat)) /\ Len(Append(g, x)) = Len(g) + 1
        /\ \A k \in 1 .. Len(g) : Append(g, x)[k] = g[k]
        /\ Append(g, x)[Len(g) + 1] = x
    BY SeqAppend, SMTT(60)
  <2>3. h = Append(g, x) /\ j = Len(g) + 1
    BY <1>2, <2>1
  <2>4. h \in Seq(Seq(Nat)) /\ Len(h) = j /\ h[j] = x /\ \A k \in 1 .. Len(g) : h[k] = g[k]
    BY <2>2, <2>3
  <2>5. ASSUME NEW k \in 1 .. j, NEW b \in 1 .. Len(h[k])
        PROVE  h[k][b] = Secrets[k]
    <3>1. CASE k = j
      BY <2>1, <2>4, <2>5, <3>1, SMTT(60)
    <3>2. CASE k # j
      <4>1. k \in 1 .. Len(g) /\ h[k] = g[k]
        BY <1>1, <2>3, <2>4, <3>2, SMTT(60)
      <4> QED
        BY <2>5, <4>1
    <3> QED
      BY <3>1, <3>2
  <2> QED
    BY <1>2, <2>1, <2>4, <2>5 DEF Shares
<1>3. CASE c # 1
  <2>1. j = Len(g) /\ g # <<>> /\ j \in 1 .. Len(g)
    BY <1>1, <1>3, SMTT(60)
  <2>2. PICK x \in Seq(Nat) : x = g[j]
    BY <2>1, SMTT(60)
  <2>3. Len(x) = c - 1 /\ Len(x) \in Nat
    BY <1>3, <2>1, <2>2, SeqLen
  <2>4. PICK y \in Seq(Nat) : /\ y = Append(x, s) /\ Len(y) = Len(x) + 1 /\ y[Len(x) + 1] = s
                              /\ \A b \in 1 .. Len(x) : y[b] = x[b]
    <3>1. /\ Append(x, s) \in Seq(Nat) /\ Len(Append(x, s)) = Len(x) + 1 /\ Append(x, s)[Len(x) + 1] = s
          /\ \A b \in 1 .. Len(x) : Append(x, s)[b] = x[b]
      BY SeqAppend, SMTT(60)
    <3> QED
      BY <3>1
  <2>5. h = [g EXCEPT ![j] = y]
    BY <1>3, <2>1, <2>2, <2>4
  <2>6. /\ h \in Seq(Seq(Nat)) /\ Len(h) = Len(g) /\ h[j] = y
        /\ \A k \in 1 .. Len(g) : k # j => h[k] = g[k]
    BY <2>1, <2>5, SeqExcept, SMTT(60)
  <2>7. ASSUME NEW k \in 1 .. j, NEW b \in 1 .. Len(h[k])
        PROVE  h[k][b] = Secrets[k]
    <3>1. CASE k = j
      <4>1. b \in 1 .. Len(x) \/ b = Len(x) + 1
        BY <2>3, <2>4, <2>6, <2>7, <3>1, SMTT(60)
      <4>2. CASE b \in 1 .. Len(x)
        <5>1. g[k][b] = Secrets[k]
          BY <2>1, <2>2, <3>1, <4>2
        <5> QED
          BY <2>2, <2>4, <2>6, <3>1, <4>2, <5>1, SMTT(60)
      <4>3. CASE b = Len(x) + 1
        BY <2>4, <2>6, <3>1, <4>3
      <4> QED
        BY <4>1, <4>2, <4>3
    <3>2. CASE k # j
      <4>1. k \in 1 .. Len(g) /\ h[k] = g[k]
        BY <2>1, <2>6, <3>2
      <4> QED
        BY <2>7, <4>1
    <3> QED
      BY <3>1, <3>2
  <2>8. Len(y) = c
    BY <1>1, <2>3, <2>4, SMTT(60)
  <2> QED
    BY <2>1, <2>6, <2>7, <2>8 DEF Shares
<1> QED
  BY <1>2, <1>3

LEMMA downShareStep ==
  ASSUME DownInv, downShare
  PROVE  DownInv'
<1>1. DownTypes /\ Connections /\ Stored /\ Unsignalled /\ Written /\ Given
  BY DEF DownInv
<1>2. PICK c \in Cloud : c = at
  BY <1>1 DEF DownTypes
<1>3. PICK s : s = ringBuffer["data"][c][1].n
  OBVIOUS
<1>4. /\ mpc = "share" /\ ringBuffer["data"][c] # <<>> /\ ExtractItem("data", c)
      /\ given' = IF c = 1 THEN Append(given, <<s>>) ELSE [given EXCEPT ![Len(given)] = Append(given[Len(given)], s)]
      /\ left' = [left EXCEPT ![c] = left[c] - 1]
      /\ IF c < Clouds THEN at' = c + 1 /\ mpc' = "share"
         ELSE at' = 1 /\ mpc' = IF left[c] > 1 THEN "share" ELSE "join"
  BY <1>2, <1>3 DEF downShare
<1>5. UNCHANGED <<session, signal, tpc, downloadContainer, fromDownloader, toDownloader, keyRecipe, recipes, filed>>
  BY DEF downShare, connections
<1>6. /\ given \in Seq(Seq(Nat)) /\ left \in [Cloud -> Int]
      /\ \A k \in 1 .. Len(given) : \A b \in 1 .. Len(given[k]) : given[k][b] = Secrets[k]
      /\ given # <<>> => Len(given[Len(given)]) = IF c = 1 THEN Clouds ELSE c - 1
      /\ 1 < c => given # <<>>
      /\ AllKeys => \A b \in Cloud :
           left[b] = Len(Secrets) - Len(given) + (IF 1 < c /\ c <= b THEN 1 ELSE 0)
  BY <1>1, <1>2, <1>4 DEF Given, DownTypes
<1>7. PICK g \in Nat : g = Len(given) /\ (1 < c => 1 <= g)
  BY <1>6, SeqLen, SeqNone, SMTT(60)
<1>8. PICK L \in Nat : L = Len(Secrets)
  BY Constants
<1>9. c \in Nat /\ 1 <= c /\ c <= Clouds /\ Clouds \in Nat
  BY CloudLoop, DownloadAssumption
<1>10. PICK j \in Nat : j = (IF c = 1 THEN g + 1 ELSE g) /\ 1 <= j
  BY <1>7, <1>9
<1>11. Taken("data", c) = j
  <2>1. Taken("data", c) = 1 + g - (IF 1 < c /\ c <= c THEN 1 ELSE 0)
    BY <1>2, <1>4, <1>7 DEF Taken
  <2>2. CASE c = 1
    BY <1>7, <1>10, <2>1, <2>2
  <2>3. CASE 1 < c
    BY <1>7, <1>9, <1>10, <2>1, <2>3, SMTT(60)
  <2> QED
    BY <1>9, <2>2, <2>3
<1>12. s = Secrets[j] /\ s \in Nat /\ j <= L
  <2>1. "data" \in Sides
    BY DEF Sides
  <2>2. ItemOf("data", keyRecipe[c], j + 1, ringBuffer["data"][c][1])
    BY <1>4, <1>11, <2>1, ItemTaken
  <2>3. PICK items : /\ Sent("data", keyRecipe[c], items) /\ j + 1 \in 1 .. Len(items) + 1
                     /\ ringBuffer["data"][c][1] = Item(items, j + 1)
    BY <2>2 DEF ItemOf
  <2>4. items \in Seq(Nat) /\ Len(items) \in Nat /\ Prefix(keyRecipe[c], items)
    BY <2>3, SeqLen DEF Sent
  <2>5. j \in 1 .. Len(items) /\ j + 1 # 1 /\ j + 1 - 1 = j
    BY <1>10, <2>3, <2>4
  <2>6. Item(items, j + 1) = ShareItem(items[j])
    BY <2>5 DEF Item
  <2>7. s = items[j]
    BY <1>3, <2>3, <2>6 DEF ShareItem
  <2>8. items[j] = Secrets[j] /\ items[j] \in Nat /\ Len(items) <= L
    BY <1>8, <2>4, <2>5 DEF Prefix
  <2> QED
    BY <1>8, <2>4, <2>5, <2>7, <2>8
<1>13. /\ given' \in Seq(Seq(Nat)) /\ Len(given') = j /\ Len(given'[j]) = c
       /\ \A k \in 1 .. j : \A b \in 1 .. Len(given'[k]) : given'[k][b] = Secrets[k]
  <2>1. j = IF c = 1 THEN Len(given) + 1 ELSE Len(given)
    BY <1>7, <1>10
  <2>2. PICK f, h : f = given /\ h = given'
    OBVIOUS
  <2>3. /\ f \in Seq(Seq(Nat)) /\ j = IF c = 1 THEN Len(f) + 1 ELSE Len(f)
        /\ f # <<>> => Len(f[Len(f)]) = IF c = 1 THEN Clouds ELSE c - 1
        /\ \A k \in 1 .. Len(f) : \A b \in 1 .. Len(f[k]) : f[k][b] = Secrets[k]
        /\ h = IF c = 1 THEN Append(f, <<s>>) ELSE [f EXCEPT ![Len(f)] = Append(f[Len(f)], s)]
    BY <1>4, <1>6, <2>1, <2>2
  <2>4. /\ h \in Seq(Seq(Nat)) /\ Len(h) = j /\ Len(h[j]) = c
        /\ \A k \in 1 .. j : \A b \in 1 .. Len(h[k]) : h[k][b] = Secrets[k]
    <3>1. Adding(f, c, s, j, h)
      BY <1>10, <1>12, <2>3 DEF Adding
    <3>2. Shares(h, c, j)
      BY <3>1, MoreGiven
    <3> QED
      BY <3>2 DEF Shares
  <2> QED
    BY <2>2, <2>4
<1>14. /\ left' \in [Cloud -> Int] /\ left'[c] = left[c] - 1
       /\ \A b \in Cloud : b # c => left'[b] = left[b]
  BY <1>4, <1>6, SMTT(60)
<1>15. at' \in Cloud /\ mpc' \in {"share", "join"} /\ (c < Clouds => mpc' = "share")
  BY <1>4, CloudLoop
<1>16. \A b \in Cloud : b # c =>
         1 + g - (IF 1 < c /\ c <= b THEN 1 ELSE 0) = 1 + j - (IF 1 < at' /\ at' <= b THEN 1 ELSE 0)
  <2>1. SUFFICES ASSUME NEW b \in Cloud, b # c
                 PROVE  1 + g - (IF 1 < c /\ c <= b THEN 1 ELSE 0) = 1 + j - (IF 1 < at' /\ at' <= b THEN 1 ELSE 0)
    OBVIOUS
  <2>2. b \in Nat /\ 1 <= b /\ b <= Clouds
    BY CloudLoop
  <2>3. CASE c < Clouds
    BY <1>4, <1>9, <1>10, <2>1, <2>2, <2>3
  <2>4. CASE ~(c < Clouds)
    <3>1. at' = 1 /\ c = Clouds /\ b < c /\ 1 < c
      BY <1>4, <1>9, <2>1, <2>2, <2>4
    <3> QED
      BY <1>9, <1>10, <2>2, <3>1
  <2> QED
    BY <2>3, <2>4
<1>17. /\ Taken("data", c)' = j + 1
       /\ \A b \in Cloud : b # c => Taken("data", b)' = Taken("data", b)
       /\ \A b \in Cloud : Taken("meta", b)' = Taken("meta", b)
       /\ \A e \in Sides, b \in Cloud : Asking(e, b) = "none" /\ Asking(e, b)' = "none"
  <2>1. \A b \in Cloud : Taken("data", b) = 1 + g - (IF 1 < c /\ c <= b THEN 1 ELSE 0)
    BY <1>2, <1>4, <1>7 DEF Taken
  <2>2. mpc' = "join" => at' = 1 /\ ~(1 < 1)
    BY <1>4
  <2>3. \A b \in Cloud : Taken("data", b)' = 1 + j - (IF 1 < at' /\ at' <= b THEN 1 ELSE 0)
    <3>1. CASE mpc' = "share"
      BY <1>13, <3>1 DEF Taken
    <3>2. CASE mpc' = "join"
      BY <1>13, <2>2, <3>2 DEF Taken
    <3> QED
      BY <1>15, <3>1, <3>2
  <2>4. ~(1 < at' /\ at' <= c)
    BY <1>4, <1>9
  <2>5. Taken("data", c)' = j + 1
    BY <2>3, <2>4
  <2>6. \A b \in Cloud : b # c => Taken("data", b)' = Taken("data", b)
    BY <1>16, <2>1, <2>3
  <2>7. /\ \A b \in Cloud : Taken("meta", b)' = Taken("meta", b)
        /\ \A e \in Sides, b \in Cloud : Asking(e, b) = "none" /\ Asking(e, b)' = "none"
    BY <1>4, <1>15 DEF Taken, Asking
  <2> QED
    BY <2>5, <2>6, <2>7
<1>18. Table(ringBuffer') /\ Connections'
  <2>1. "data" \in Sides /\ Taken("data", c)' = Taken("data", c) + 1
    BY <1>11, <1>17 DEF Sides
  <2>2. \A e \in Sides, b \in Cloud : e # "data" \/ b # c => Taken(e, b)' = Taken(e, b) /\ Asking(e, b)' = Asking(e, b)
    BY <1>17 DEF Sides
  <2>3. Asking("data", c)' = Asking("data", c)
    BY <1>17, <2>1
  <2> QED
    BY <1>4, <1>5, <2>1, <2>2, <2>3, ItemExtracted
<1>19. DownTypes'
  BY <1>1, <1>5, <1>13, <1>14, <1>15, <1>18 DEF DownTypes
<1>20. Stored'
  BY <1>1, <1>5, SameStored
<1>21. Unsignalled' /\ Written'
  BY <1>1, <1>4, <1>5, <1>15 DEF Unsignalled, Written
<1>22. AllKeys => left[c] = L - j + 1
  <2>1. AllKeys => left[c] = L - g + (IF 1 < c /\ c <= c THEN 1 ELSE 0)
    BY <1>6, <1>7, <1>8
  <2>2. CASE c = 1
    BY <1>10, <2>1, <2>2, SMTT(60)
  <2>3. CASE 1 < c
    BY <1>9, <1>10, <2>1, <2>3
  <2> QED
    BY <1>9, <2>2, <2>3, SMTT(60)
<1>23. ASSUME mpc' = "share" PROVE Given'
  <2>1. Len(given'[j]) = IF at' = 1 THEN Clouds ELSE at' - 1
    BY <1>4, <1>9, <1>13, SMTT(60)
  <2>2. given' # <<>>
    BY <1>10, <1>13, SeqNone, SMTT(60)
  <2>3. ASSUME AllKeys, NEW b \in Cloud
        PROVE  left'[b] = L - j + (IF 1 < at' /\ at' <= b THEN 1 ELSE 0)
    <3>1. CASE b = c
      <4>1. ~(1 < at' /\ at' <= c)
        BY <1>4, <1>9
      <4> QED
        BY <1>14, <1>22, <2>3, <3>1, <4>1, SMTT(60)
    <3>2. CASE b # c
      <4>1. left'[b] = L - g + (IF 1 < c /\ c <= b THEN 1 ELSE 0)
        BY <1>6, <1>7, <1>8, <1>14, <2>3, <3>2
      <4>2. 1 + g - (IF 1 < c /\ c <= b THEN 1 ELSE 0) = 1 + j - (IF 1 < at' /\ at' <= b THEN 1 ELSE 0)
        BY <1>16, <3>2
      <4>3. PICK u \in Int, v \in Int : u = (IF 1 < c /\ c <= b THEN 1 ELSE 0) /\ v = (IF 1 < at' /\ at' <= b THEN 1 ELSE 0)
        OBVIOUS
      <4>4. left'[b] = L - g + u /\ 1 + g - u = 1 + j - v
        BY <4>1, <4>2, <4>3
      <4>5. left'[b] = L - j + v
        BY <4>4
      <4> QED
        BY <4>3, <4>5
    <3> QED
      BY <3>1, <3>2
  <2>4. AllKeys' => AllKeys
    BY <1>5 DEF AllKeys
  <2>5. AllKeys' => \A b \in Cloud : left'[b] = Len(Secrets) - Len(given') + (IF 1 < at' /\ at' <= b THEN 1 ELSE 0)
    BY <1>8, <1>13, <2>3, <2>4
  <2>6. \A k \in 1 .. Len(given') : \A b \in 1 .. Len(given'[k]) : given'[k][b] = Secrets[k]
    BY <1>13
  <2>7. Len(given'[Len(given')]) = IF at' = 1 THEN Clouds ELSE at' - 1
    BY <1>13, <2>1
  <2> QED
    <3>1. mpc' \notin {"share", "join", "done"} => given' = <<>>
      BY <1>23
    <3>2. mpc' \in {"join", "done"} /\ AllKeys' =>
            Len(given') = Len(Secrets) /\ Len(given'[Len(given')]) = Clouds
      BY <1>23
    <3>3. mpc' = "share" =>
            /\ given' # <<>> => Len(given'[Len(given')]) = IF at' = 1 THEN Clouds ELSE at' - 1
            /\ 1 < at' => given' # <<>>
            /\ AllKeys' => \A b \in Cloud :
                 left'[b] = Len(Secrets) - Len(given') + (IF 1 < at' /\ at' <= b THEN 1 ELSE 0)
      BY <2>2, <2>5, <2>7
    <3> QED
      BY <2>6, <3>1, <3>2, <3>3 DEF Given
<1>24. ASSUME mpc' = "join" PROVE Given'
  <2>1. c = Clouds /\ ~(left[c] > 1)
    BY <1>4, <1>9, <1>24, SMTT(60)
  <2>2. AllKeys' => AllKeys
    BY <1>5 DEF AllKeys
  <2>3. AllKeys' => j = L
    BY <1>8, <1>10, <1>12, <1>22, <2>1, <2>2, SMTT(60)
  <2>4. \A k \in 1 .. Len(given') : \A b \in 1 .. Len(given'[k]) : given'[k][b] = Secrets[k]
    BY <1>13
  <2>5. AllKeys' => Len(given') = Len(Secrets) /\ Len(given'[Len(given')]) = Clouds
    BY <1>8, <1>13, <2>1, <2>3
  <2> QED
    <3>1. mpc' \notin {"share", "join", "done"} => given' = <<>>
      BY <1>24
    <3>2. mpc' # "share"
      BY <1>24
    <3> QED
      BY <2>4, <2>5, <3>1, <3>2 DEF Given
<1> QED
  BY <1>15, <1>18, <1>19, <1>20, <1>21, <1>23, <1>24 DEF DownInv

-----------------------------------------------------------------------------
(* The beginning, and the client started again.                            *)

LEMMA EachValue ==
  ASSUME NEW v
  PROVE  /\ Table(Each(v)) /\ \A d \in Sides, c \in Cloud : Each(v)[d][c] = v
BY DEF Table, Each

\* A connection that nobody has used.
LEMMA NewConnection ==
  ASSUME NEW d, NEW kr
  PROVE  Connection(d, kr, <<>>, "signal", <<>>, <<>>, <<>>, 0, "none")
BY DEF Connection

\* A client has just been started: its threads wait for their signal, and
\* nothing is in any connection of the session.
NewSession ==
  /\ mpc = "key" /\ at = 1 /\ left = [c \in Cloud |-> 0] /\ given = <<>>
  /\ signal = Each(FALSE) /\ tpc = Each("signal") /\ downloadContainer = Each(<<>>)
  /\ ringBuffer = Each(<<>>) /\ toDownloader = Each(<<>>)
  /\ \A d \in Sides, c \in Cloud : fromDownloader[session][d][c] = <<>>
  /\ session \in 1 .. MaxSessions /\ keyRecipe \in [Cloud -> KeyRecipes]
  /\ recipes \in [Cloud -> Seq(Nat)] /\ \A c \in Cloud : recipes[c] = <<>>
  /\ filed \in [Cloud -> Seq(Seq(Nat))] /\ fromDownloader \in Requests /\ Stored

LEMMA NewSessionInv == NewSession => DownInv
<1> SUFFICES ASSUME NewSession PROVE DownInv
  OBVIOUS
<1>1. DownTypes
  <2>1. left \in [Cloud -> Int] /\ at \in Cloud /\ given \in Seq(Seq(Nat))
    BY CloudLoop, SeqNone, SMTT(60) DEF NewSession
  <2>2. signal \in [Sides -> [Cloud -> BOOLEAN]]
    BY DEF NewSession, Each
  <2>3. Table(tpc) /\ Table(downloadContainer) /\ Table(ringBuffer) /\ Table(toDownloader)
    BY EachValue DEF NewSession
  <2> QED
    BY <2>1, <2>2, <2>3 DEF DownTypes, NewSession
<1>2. \A d \in Sides, c \in Cloud :
        /\ fromDownloader[session][d][c] = <<>> /\ toDownloader[d][c] = <<>> /\ downloadContainer[d][c] = <<>>
        /\ ringBuffer[d][c] = <<>> /\ tpc[d][c] = "signal" /\ signal[d][c] = FALSE
  BY EachValue DEF NewSession
<1>3. \A d \in Sides, c \in Cloud : Taken(d, c) = 0 /\ Asking(d, c) = "none"
  BY DEF NewSession, Taken, Asking
<1>4. Connections
  BY <1>2, <1>3, NewConnection DEF Connections, ConnectionOf
<1>5. Unsignalled /\ Stored
  BY <1>2 DEF Unsignalled, NewSession
<1>6. Written
  BY DEF Written, NewSession
<1>7. Given
  BY SMTT(60) DEF Given, NewSession
<1> QED
  BY <1>1, <1>4, <1>5, <1>6, <1>7 DEF DownInv

\* The same for the state after a step.
LEMMA NextSessionInv == NewSession' => DownInv'
BY NewSessionInv, PTL

LEMMA InitDown == DownloadInit => DownInv
<1> SUFFICES ASSUME DownloadInit PROVE DownInv
  OBVIOUS
<1>1. session \in 1 .. MaxSessions
  BY DownloadAssumption DEF DownloadInit
<1>2. \A i \in 1 .. MaxSessions, d \in Sides, c \in Cloud : fromDownloader[i][d][c] = <<>>
  BY DEF DownloadInit, Each
<1>3. fromDownloader \in Requests
  <2>1. PICK e \in Seq(Message) : e = <<>>
    BY SeqNone
  <2>2. fromDownloader = [i \in 1 .. MaxSessions |-> [d \in Sides |-> [c \in Cloud |-> e]]]
    BY <2>1 DEF DownloadInit, Each
  <2> QED
    BY <2>2 DEF Requests
<1>4. /\ keyRecipe \in [Cloud -> KeyRecipes] /\ recipes \in [Cloud -> Seq(Nat)]
      /\ filed \in [Cloud -> Seq(Seq(Nat))]
      /\ \A c \in Cloud : recipes[c] = <<>> /\ filed[c] = <<>>
  <2>1. <<>> \in Seq(Nat) /\ <<>> \in Seq(Seq(Nat))
    BY SeqNone
  <2> QED
    BY <2>1 DEF DownloadInit
<1>5. Stored
  <2>1. Filed
    BY <1>4 DEF Filed
  <2>2. Mailed
    BY <1>2 DEF Mailed, Sides
  <2>3. Fresh
    BY <1>2 DEF Fresh
  <2> QED
    BY <2>1, <2>2, <2>3 DEF Stored
<1>6. NewSession
  BY <1>1, <1>2, <1>3, <1>4, <1>5 DEF NewSession, DownloadInit
<1> QED
  BY <1>6, NewSessionInv

LEMMA restartStep ==
  ASSUME DownInv, restart
  PROVE  DownInv'
<1>1. DownTypes /\ Stored /\ Written
  BY DEF DownInv
<1>2. /\ mpc \in {"downHead", "share"} /\ session < MaxSessions /\ session' = session + 1
      /\ UNCHANGED <<fromDownloader, keyRecipe, recipes, filed>>
  BY DEF restart
<1>3. session' \in 1 .. MaxSessions /\ session < session'
  BY <1>1, <1>2, DownloadAssumption, SMTT(60) DEF DownTypes
<1>4. \A c \in Cloud : recipes[c] = <<>>
  BY <1>1, <1>2 DEF Written
<1>5. \A d \in Sides, c \in Cloud : fromDownloader[session'][d][c] = <<>>
  BY <1>1, <1>3 DEF Stored, Fresh
<1>6. Stored'
  <2>1. ASSUME NEW i \in 1 .. MaxSessions, session' < i PROVE session < i
    BY <1>1, <1>2, <2>1 DEF DownTypes
  <2>2. Fresh'
    BY <1>1, <1>2, <2>1 DEF Stored, Fresh
  <2>3. Filed' /\ Mailed'
    BY <1>1, <1>2 DEF Stored, Filed, Mailed
  <2> QED
    BY <2>2, <2>3 DEF Stored
<1>7. /\ keyRecipe \in [Cloud -> KeyRecipes] /\ recipes \in [Cloud -> Seq(Nat)]
      /\ filed \in [Cloud -> Seq(Seq(Nat))] /\ fromDownloader \in Requests
  BY <1>1 DEF DownTypes
<1>8. NewSession'
  BY <1>2, <1>3, <1>4, <1>5, <1>6, <1>7 DEF NewSession, restart
<1> QED
  BY <1>8, NextSessionInv

-----------------------------------------------------------------------------
LEMMA DownStep == DownInv /\ [DownloadNext]_downVars => DownInv'
<1> SUFFICES ASSUME DownInv, [DownloadNext]_downVars PROVE DownInv'
  OBVIOUS
<1>1. CASE Main
  BY <1>1, askKeyStep, getKeyStep, preHeaderStep, preShareStep, uploadRetrivedRecipeFileStep, downHeaderStep,
     downShareStep, joinThreadsStep, signalThreadsStep DEF Main
<1>2. CASE restart
  BY <1>2, restartStep
<1>3. ASSUME NEW d \in Sides, NEW c \in Cloud, Thread(d, c) PROVE DownInv'
  BY <1>3, initDownloadStep, downloadChunkStep, insertItemStep DEF Thread
<1>4. ASSUME NEW i \in 1 .. MaxSessions, NEW c \in Cloud, Handler(i, c) PROVE DownInv'
  BY <1>4, sendKeyRecipeStep, restoreMetaStep, storeRecipeStep, restoreDataStep DEF Handler
<1>5. CASE UNCHANGED downVars
  <2>1. UNCHANGED <<session, mpc, at, left, signal, tpc, downloadContainer, ringBuffer, fromDownloader, toDownloader,
                    keyRecipe, recipes, filed, given>>
    BY <1>5 DEF downVars, main, threads, connections
  <2>2. DownTypes /\ Connections /\ Stored /\ Unsignalled /\ Written /\ Given
    BY DEF DownInv
  <2>3. UNCHANGED mainVars
    BY <2>1 DEF mainVars
  <2>4. (\A d, c : Taken(d, c)' = Taken(d, c) /\ Asking(d, c)' = Asking(d, c)) /\ Written' /\ Given'
    BY <2>2, <2>3, SameMain
  <2>5. DownTypes' /\ Stored' /\ Unsignalled'
    BY <2>1, <2>2, SameStored DEF DownTypes, Unsignalled
  <2>6. Connections'
    BY <2>1, <2>2, <2>4, MainOnly
  <2> QED
    BY <2>4, <2>5, <2>6 DEF DownInv
<1> QED
  BY <1>1, <1>2, <1>3, <1>4, <1>5 DEF DownloadNext

LEMMA DownPrefix == DownInv => PrefixOfFile
<1> SUFFICES ASSUME DownInv PROVE PrefixOfFile
  OBVIOUS
<1>1. given \in Seq(Seq(Nat)) /\ Given
  BY DEF DownInv, DownTypes
<1>2. ASSUME NEW j \in DOMAIN given, NEW c \in DOMAIN given[j]
      PROVE  given[j][c] = Secrets[j]
  <2>1. j \in 1 .. Len(given) /\ given[j] \in Seq(Nat)
    BY <1>1
  <2>2. c \in 1 .. Len(given[j])
    BY <2>1
  <2> QED
    BY <1>1, <2>1, <2>2 DEF Given
<1> QED
  BY <1>1, <1>2 DEF PrefixOfFile, Given, AllKeys

\* Downloader: for every number of clouds, every file and every split of it
\* into meta chunks, every buffer size and number of restarts, and every key
\* recipe that an upload leaves behind: what main hands to the decoder is the
\* beginning of the file, each secret with its own shares from all clouds, and
\* the whole file when the download ends with all keys (PrefixOfFile).
THEOREM DownloadGivesPrefix == DownloadSpec => []PrefixOfFile
<1>1. DownloadInit => DownInv
  BY InitDown
<1>2. DownInv /\ [DownloadNext]_downVars => DownInv'
  BY DownStep
<1>3. DownInv => PrefixOfFile
  BY DownPrefix
<1> QED
  BY <1>1, <1>2, <1>3, PTL DEF DownloadSpec
===============================================================================
