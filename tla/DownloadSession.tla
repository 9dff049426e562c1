---------------------------- MODULE DownloadSession ----------------------------
(***************************************************************************)
(* The download of one file from k clouds.  main fetches the key recipes,  *)
(* the meta threads fetch the meta chunks, main decrypts them into a file  *)
(* recipe per cloud and uploads it (FILE_RECIPE), and then the data        *)
(* threads ask for the shares that the recipe lists, on connections of     *)
(* their own.  main hands the shares of each secret to the decoder, which  *)
(* is module DecodePipeline.  FILE_RECIPE has no answer, and the handlers  *)
(* of the two connections of a cloud are different threads.                *)
(*                                                                         *)
(* A user whose client waits for ever for the shares may end it and start  *)
(* it again; what is in the old connections still arrives.                 *)
(***************************************************************************)
EXTENDS Integers, Sequences, Functions

CONSTANTS
  Clouds,      \* k: clouds 1 .. Clouds, in the order of the loops
  Secrets,     \* the secrets of the file, in order
  Ends,        \* how many of them are listed by the meta chunks up to each one
  PackCap,     \* SHARE_FILE_BUFFER_SIZE, in shares
  DownRing,    \* DOWNLOAD_RB_SIZE
  MaxSessions  \* bound: how often the user starts the client

ASSUME DownloadAssumption ==
  /\ Clouds \in Nat \ {0}
  /\ Secrets \in Seq(Nat \ {0})
  /\ Ends \in Seq(1 .. Len(Secrets)) /\ Ends # <<>> /\ Ends[Len(Ends)] = Len(Secrets)
  /\ \A m, n \in DOMAIN Ends : m < n => Ends[m] < Ends[n]
  /\ PackCap \in Nat \ {0}
  /\ DownRing \in Nat \ {0, 1}
  /\ MaxSessions \in Nat \ {0}

Cloud    == 1 .. Clouds
Sides    == {"meta", "data"}
NumMeta  == Len(Ends)

\* The secrets that the first m meta chunks list, and those of the m-th.
Listed(m)  == IF m = 0 THEN 0 ELSE Ends[m]
Segment(m) == SubSeq(Secrets, Listed(m - 1) + 1, Listed(m))

VARIABLES
  session,   \* how often the client has been started
  mpc,       \* what main does next
  at,        \* the cloud of main's loop
  left,      \* how many shares main still has to take from each cloud
  signal,    \* signalBuffer_
  tpc,       \* what each downloader thread does next
  downloadContainer, \* downloadContainer_, from index on
  counted,   \* the shares a thread has still to insert
  ringBuffer,      \* ringBufferMeta_ and ringBuffer_
  fromDownloader,  \* per session, side and cloud: sent and not yet received
  toDownloader,  \* the answers on their way to the current client
  keyRecipe,  \* meta/keystore: the ids of the keys of the file's key recipe
  recipes,   \* share-i.recipe in the client's directory
  filed,     \* meta/RecipeFiles: the recipes appended to name-i.recipe
  given,     \* what main has added to the decoder: the shares of each secret
  overtaken  \* history: a DOWNLOAD was handled before its FILE_RECIPE

main      == <<mpc, at, left>>
threads   == <<signal, tpc, downloadContainer, counted, ringBuffer>>
connections   == <<fromDownloader, toDownloader>>
downVars  == <<session, main, threads, connections, keyRecipe, recipes, filed, given, overtaken>>

HeadItem(n) == [type |-> "head", n |-> n]
ShareItem(s) == [type |-> "share", n |-> s]
Unknown     == 0   \* a recipe entry whose fingerprint no server knows

\* The key recipe of an upload has all keys but perhaps the last, and may
\* begin with the last key of an earlier upload (UploadSession).
StaleKey == [id |-> 1, own |-> FALSE]
OwnKeys(n) == [i \in 1 .. n |-> [id |-> i, own |-> TRUE]]
KeyRecipes == {OwnKeys(NumMeta), OwnKeys(NumMeta - 1), <<StaleKey>> \o OwnKeys(NumMeta)}

Each(v) == [d \in Sides |-> [c \in Cloud |-> v]]

DownloadInit ==
  /\ session = 1
  /\ mpc = "key" /\ at = 1
  /\ left = [c \in Cloud |-> 0]
  /\ signal = Each(FALSE)
  /\ tpc = Each("signal")
  /\ downloadContainer = Each(<<>>)
  /\ counted = Each(0)
  /\ ringBuffer = Each(<<>>)
  /\ fromDownloader = [i \in 1 .. MaxSessions |-> Each(<<>>)]
  /\ toDownloader = Each(<<>>)
  /\ keyRecipe \in [Cloud -> KeyRecipes]
  /\ recipes = [c \in Cloud |-> <<>>]
  /\ filed = [c \in Cloud |-> <<>>]
  /\ given = <<>>
  /\ overtaken = FALSE

-----------------------------------------------------------------------------
(* The main thread.                                                        *)

SendTo(d, c, msg) == fromDownloader' = [fromDownloader EXCEPT ![session][d][c] = Append(@, msg)]
Received(d, c)  == toDownloader' = [toDownloader EXCEPT ![d][c] = Tail(@)]

\* The loops over the clouds: the next cloud, or the label behind the loop.
Loop(label) ==
  IF at < Clouds THEN at' = at + 1 /\ UNCHANGED mpc ELSE at' = 1 /\ mpc' = label

\* downloadKeyFile: one cloud after the other, request and answer.
askKey ==
  /\ mpc = "key"
  /\ SendTo("meta", at, [type |-> "GET_KEY_RECIPE"])
  /\ mpc' = "keyAnswer"
  /\ UNCHANGED <<session, at, left, threads, toDownloader, keyRecipe, recipes, filed, given, overtaken>>

getKey ==
  /\ mpc = "keyAnswer"
  /\ toDownloader["meta"][at] # <<>>
  /\ Received("meta", at)
  /\ IF at < Clouds THEN at' = at + 1 /\ mpc' = "key" ELSE at' = 1 /\ mpc' = "pre"
  /\ UNCHANGED <<session, left, threads, fromDownloader, keyRecipe, recipes, filed, given, overtaken>>

\* preDownloadFile and downloadFile: the threads of one side are signalled.
signalThreads(d) ==
  /\ mpc = (IF d = "meta" THEN "pre" ELSE "down")
  /\ signal' = [signal EXCEPT ![d][at] = TRUE]
  /\ Loop(IF d = "meta" THEN "preHead" ELSE "downHead")
  /\ UNCHANGED <<session, left, tpc, downloadContainer, counted, ringBuffer, connections, keyRecipe,
                 recipes, filed, given, overtaken>>

ExtractItem(d, c) == ringBuffer' = [ringBuffer EXCEPT ![d][c] = Tail(@)]

\* preDownloadFile: the number of meta chunks of every cloud.
preHeader ==
  /\ mpc = "preHead"
  /\ ringBuffer["meta"][at] # <<>>
  /\ ExtractItem("meta", at)
  /\ left' = [left EXCEPT ![at] = ringBuffer["meta"][at][1].n]
  /\ Loop("preShare")
  /\ UNCHANGED <<session, signal, tpc, downloadContainer, counted, connections, keyRecipe,
                 recipes, filed, given, overtaken>>

\* writeRetrivedFileRecipe: the id-th key of the key recipe, or the last,
\* decrypts the chunk if it says so, or else the chunk is left out.  The wrong
\* key makes fingerprints that no server knows.  Without any key keyBuffer is
\* never written, and may say anything.
Entries(c, id) ==
  LET keys    == keyRecipe[c]
      key     == keys[IF id <= Len(keys) THEN id ELSE Len(keys)]
      garbled == [i \in DOMAIN Segment(id) |-> Unknown]
  IN  IF keys = <<>> THEN {<<>>, garbled}
      ELSE {IF key.id # id THEN <<>> ELSE IF key.own THEN Segment(id) ELSE garbled}

\* preDownloadFile: all meta chunks of one cloud, then those of the next.
preShare ==
  /\ mpc = "preShare"
  /\ ringBuffer["meta"][at] # <<>>
  /\ ExtractItem("meta", at)
  /\ \E entries \in Entries(at, ringBuffer["meta"][at][1].n) :
       recipes' = [recipes EXCEPT ![at] = @ \o entries]
  /\ left' = [left EXCEPT ![at] = @ - 1]
  /\ IF left[at] > 1 THEN UNCHANGED <<at, mpc>> ELSE Loop("upload")
  /\ UNCHANGED <<session, signal, tpc, downloadContainer, counted, connections, keyRecipe,
                 filed, given, overtaken>>

\* Variant: share-i.recipe is not removed.
uploadRetrivedRecipeFileKeeps ==
  /\ mpc = "upload"
  /\ IF recipes[at] = <<>> THEN UNCHANGED fromDownloader
     ELSE SendTo("meta", at, [type |-> "FILE_RECIPE", entries |-> recipes[at]])
  /\ Loop("down")
  /\ UNCHANGED <<session, left, threads, toDownloader, keyRecipe, recipes, filed, given, overtaken>>

\* uploadRetrivedRecipeFile: a recipe that was written is sent and removed.
uploadRetrivedRecipeFile ==
  /\ mpc = "upload"
  /\ IF recipes[at] = <<>> THEN UNCHANGED fromDownloader
     ELSE SendTo("meta", at, [type |-> "FILE_RECIPE", entries |-> recipes[at]])
  /\ recipes' = [recipes EXCEPT ![at] = <<>>]
  /\ Loop("down")
  /\ UNCHANGED <<session, left, threads, toDownloader, keyRecipe, filed, given, overtaken>>

\* downloadFile: a header from every cloud; the last one is believed.
downHeader ==
  /\ mpc = "downHead"
  /\ ringBuffer["data"][at] # <<>>
  /\ ExtractItem("data", at)
  /\ left' = [c \in Cloud |-> ringBuffer["data"][at][1].n]
  /\ Loop("share")
  /\ UNCHANGED <<session, signal, tpc, downloadContainer, counted, connections, keyRecipe,
                 recipes, filed, given, overtaken>>

\* downloadFile: a share from every cloud in turn; the shares of the last
\* cloud's round go to the decoder together.
downShare ==
  LET s == ringBuffer["data"][at][1].n
  IN  /\ mpc = "share"
      /\ ringBuffer["data"][at] # <<>>
      /\ ExtractItem("data", at)
      /\ given' = IF at = 1 THEN Append(given, <<s>>)
                  ELSE [given EXCEPT ![Len(given)] = Append(@, s)]
      /\ left' = [left EXCEPT ![at] = @ - 1]
      /\ IF at < Clouds THEN at' = at + 1 /\ UNCHANGED mpc
         ELSE at' = 1 /\ mpc' = IF left[at] > 1 THEN "share" ELSE "join"
      /\ UNCHANGED <<session, signal, tpc, downloadContainer, counted, connections, keyRecipe,
                     recipes, filed, overtaken>>

\* Downloader::indicateEnd: all threads are joined.
joinThreads ==
  /\ mpc = "join"
  /\ \A d \in Sides, c \in Cloud : tpc[d][c] = "ended"
  /\ mpc' = "done"
  /\ UNCHANGED <<session, at, left, threads, connections, keyRecipe, recipes, filed, given, overtaken>>

-----------------------------------------------------------------------------
(* The downloader's threads, one for each connection.                      *)

\* thread_handler, thread_handler_meta: initDownload.
initDownload(d, c) ==
  /\ tpc[d][c] = "signal"
  /\ signal[d][c]
  /\ signal' = [signal EXCEPT ![d][c] = FALSE]
  /\ SendTo(d, c, [type |-> "DOWNLOAD"])
  /\ tpc' = [tpc EXCEPT ![d][c] = "header"]
  /\ UNCHANGED <<session, main, downloadContainer, counted, ringBuffer, toDownloader, keyRecipe,
                 recipes, filed, given, overtaken>>

\* downloadChunk: the next package, when the container is used up.
downloadChunk(d, c) ==
  /\ tpc[d][c] \in {"header", "shares"}
  /\ downloadContainer[d][c] = <<>>
  /\ toDownloader[d][c] # <<>>
  /\ downloadContainer' = [downloadContainer EXCEPT ![d][c] = toDownloader[d][c][1]]
  /\ Received(d, c)
  /\ UNCHANGED <<session, main, signal, tpc, counted, ringBuffer, fromDownloader, keyRecipe,
                 recipes, filed, given, overtaken>>

\* Variant: the thread waits for one share too many.
insertItemOneMore(d, c) ==
  LET it == downloadContainer[d][c][1]
  IN  /\ tpc[d][c] \in {"header", "shares"}
      /\ downloadContainer[d][c] # <<>>
      /\ Len(ringBuffer[d][c]) < DownRing
      /\ ringBuffer' = [ringBuffer EXCEPT ![d][c] = Append(@, it)]
      /\ downloadContainer' = [downloadContainer EXCEPT ![d][c] = Tail(@)]
      /\ counted' = [counted EXCEPT ![d][c] = IF it.type = "head" THEN it.n ELSE IF @ = 0 THEN 0 ELSE @ - 1]
      /\ tpc' = [tpc EXCEPT ![d][c] = IF it.type = "share" /\ counted[d][c] = 0
                                      THEN "ended" ELSE "shares"]
      /\ UNCHANGED <<session, main, signal, connections, keyRecipe, recipes, filed, given, overtaken>>

\* The header, then numOfShares shares, go into the ring buffer.
insertItem(d, c) ==
  LET it == downloadContainer[d][c][1]
  IN  /\ tpc[d][c] \in {"header", "shares"}
      /\ downloadContainer[d][c] # <<>>
      /\ Len(ringBuffer[d][c]) < DownRing
      /\ ringBuffer' = [ringBuffer EXCEPT ![d][c] = Append(@, it)]
      /\ downloadContainer' = [downloadContainer EXCEPT ![d][c] = Tail(@)]
      /\ counted' = [counted EXCEPT ![d][c] = IF it.type = "head" THEN it.n ELSE @ - 1]
      /\ tpc' = [tpc EXCEPT ![d][c] = IF it.type = "share" /\ counted[d][c] = 1
                                      THEN "ended" ELSE "shares"]
      /\ UNCHANGED <<session, main, signal, connections, keyRecipe, recipes, filed, given, overtaken>>

-----------------------------------------------------------------------------
(* The server's handlers of a cloud, for the connections of a session.     *)

\* What a handler sends reaches the client that has the connection.
Answer(i, d, c, packs) ==
  toDownloader' = IF i = session THEN [toDownloader EXCEPT ![d][c] = @ \o packs] ELSE toDownloader

Arrived(i, d, c, type) == fromDownloader[i][d][c] # <<>> /\ fromDownloader[i][d][c][1].type = type
Handled(i, d, c) == fromDownloader' = [fromDownloader EXCEPT ![i][d][c] = Tail(@)]

\* The shares of a restore, in packages; the first one begins with the header.
Packages(items) ==
  LET n == (Len(items) + PackCap - 1) \div PackCap
  IN  [p \in 1 .. n |->
         (IF p = 1 THEN <<HeadItem(Len(items))>> ELSE <<>>) \o
         [i \in 1 .. (IF p < n THEN PackCap ELSE Len(items) - (n - 1) * PackCap) |->
            ShareItem(items[(p - 1) * PackCap + i])]]

\* SocketHandlerMeta, GET_KEY_RECIPE.
sendKeyRecipe(i, c) ==
  /\ Arrived(i, "meta", c, "GET_KEY_RECIPE")
  /\ Handled(i, "meta", c)
  /\ Answer(i, "meta", c, <<keyRecipe[c]>>)
  /\ UNCHANGED <<session, main, threads, keyRecipe, recipes, filed, given, overtaken>>

\* SocketHandlerMeta, DOWNLOAD: the meta chunks of the file.
restoreMeta(i, c) ==
  /\ Arrived(i, "meta", c, "DOWNLOAD")
  /\ Handled(i, "meta", c)
  /\ Answer(i, "meta", c, Packages([j \in 1 .. NumMeta |-> j]))
  /\ UNCHANGED <<session, main, threads, keyRecipe, recipes, filed, given, overtaken>>

\* SocketHandlerMeta, FILE_RECIPE: under mutex, the recipe is appended.
storeRecipe(i, c) ==
  /\ Arrived(i, "meta", c, "FILE_RECIPE")
  /\ Handled(i, "meta", c)
  /\ filed' = [filed EXCEPT ![c] = Append(@, fromDownloader[i]["meta"][c][1].entries)]
  /\ UNCHANGED <<session, main, threads, toDownloader, keyRecipe, recipes, given, overtaken>>

\* SocketHandlerData, DOWNLOAD: under mutex, the shares of the file's first
\* recipe.  Without a recipe nothing is sent.  A share that is not found ends
\* the restore before anything is sent, since the package is not full; then,
\* and when a send fails, the recipe file is not removed.
restoreData(i, c) ==
  /\ Arrived(i, "data", c, "DOWNLOAD")
  /\ Handled(i, "data", c)
  /\ IF filed[c] = <<>>
     THEN overtaken' = TRUE /\ UNCHANGED <<toDownloader, filed>>
     ELSE /\ IF Unknown \in Range(filed[c][1])
             THEN UNCHANGED <<toDownloader, filed>>
             ELSE /\ Answer(i, "data", c, Packages(filed[c][1]))
                  /\ \/ filed' = [filed EXCEPT ![c] = <<>>]
                     \/ i # session /\ UNCHANGED filed   \* send fails
          /\ UNCHANGED overtaken
  /\ UNCHANGED <<session, main, threads, keyRecipe, recipes, given>>

\* The user ends a client that waits for shares and starts it again.
restart ==
  /\ mpc \in {"downHead", "share"}
  /\ session < MaxSessions
  /\ session' = session + 1
  /\ mpc' = "key" /\ at' = 1
  /\ left' = [c \in Cloud |-> 0]
  /\ signal' = Each(FALSE) /\ tpc' = Each("signal") /\ downloadContainer' = Each(<<>>)
  /\ counted' = Each(0) /\ ringBuffer' = Each(<<>>) /\ toDownloader' = Each(<<>>)
  /\ given' = <<>>
  /\ UNCHANGED <<fromDownloader, keyRecipe, recipes, filed, overtaken>>

-----------------------------------------------------------------------------
Main ==
  \/ askKey \/ getKey \/ preHeader \/ preShare \/ uploadRetrivedRecipeFile
  \/ downHeader \/ downShare \/ joinThreads
  \/ \E d \in Sides : signalThreads(d)
Thread(d, c)  == initDownload(d, c) \/ downloadChunk(d, c) \/ insertItem(d, c)
Handler(i, c) == sendKeyRecipe(i, c) \/ restoreMeta(i, c) \/ storeRecipe(i, c) \/ restoreData(i, c)

DownloadNext ==
  \/ Main \/ restart
  \/ \E d \in Sides, c \in Cloud : Thread(d, c)
  \/ \E i \in 1 .. MaxSessions, c \in Cloud : Handler(i, c)

\* Every thread of the client and of the servers is scheduled; nobody has to
\* start the client again.
DownloadFairness ==
  /\ WF_downVars(Main)
  /\ \A d \in Sides, c \in Cloud : WF_downVars(Thread(d, c))
  /\ \A i \in 1 .. MaxSessions, c \in Cloud : WF_downVars(Handler(i, c))

DownloadSpec == DownloadInit /\ [][DownloadNext]_downVars /\ DownloadFairness

-----------------------------------------------------------------------------
\* Types of the session's state; no ring buffer is overfull.
DownloadTypeOK ==
  /\ session \in 1 .. MaxSessions
  /\ at \in Cloud
  /\ left \in [Cloud -> 0 .. Len(Secrets)]
  /\ counted \in [Sides -> [Cloud -> 0 .. Len(Secrets)]]
  /\ \A d \in Sides, c \in Cloud : Len(ringBuffer[d][c]) <= DownRing
  /\ recipes \in [Cloud -> Seq(Nat)]

\* Whatever keys are missing or left over, however the threads of the client
\* and of the servers interleave, and although a recipe may be appended to one
\* that an ended client has left behind: what goes to the decoder is the
\* beginning of the file, and every secret gets the shares of that secret from
\* all clouds.  When every cloud has a key recipe with all keys, a download
\* that ends has handed the whole file to the decoder.
PrefixOfFile ==
  /\ \A j \in DOMAIN given : \A c \in DOMAIN given[j] : given[j][c] = Secrets[j]
  /\ mpc = "done" /\ (\A c \in Cloud : keyRecipe[c] = OwnKeys(NumMeta)) =>
       Len(given) = Len(Secrets) /\ Len(given[Len(given)]) = Clouds

\* "pre - download over": with all keys a download that has begun ends, unless the DOWNLOAD of
\* the data threads has overtaken the recipe that is sent on the other
\* connection of a cloud, without an answer.
DownloadEnds ==
  mpc = "keyAnswer" /\ (\A c \in Cloud : keyRecipe[c] = OwnKeys(NumMeta))
    ~> (mpc = "done" \/ overtaken)
================================================================================
