------------------------------- MODULE MetaStore -------------------------------
(***************************************************************************)
(* DedupCore.cc: the store of the meta chunks.  Its share index, buffers   *)
(* and containers are those of ShareIndex and its restore of the shares is *)
(* that of RestoreShares; this module adds what DedupCore.cc has and       *)
(* minDedupCore.cc has not.  Every file has an inode with an entry for     *)
(* each of its versions, which leads to the version's recipe: a head and   *)
(* one entry per share.  Recipes are collected in the user's buffer node   *)
(* and written to recipe files when the buffer is full or idle; the recipe *)
(* of a file that arrives in several packages may begin in one recipe file *)
(* and be continued in a later buffer, whose entries are then appended.    *)
(*                                                                         *)
(* A head and an entry are one cell each; positions count cells.           *)
(***************************************************************************)
EXTENDS RestoreShares, FiniteSetsExt

CONSTANTS
  Files,            \* the full names of files
  Dirs,             \* the names of directories
  Path,             \* the directories of each file, from the bottom to "/"
  Sends,            \* bound: the files, shares and end marks of the packages
                    \* that each connection may send
  RecipeCap,        \* RECIPE_BUFFER_SIZE, in cells
  MaxRecipeName,    \* bound: recipe file names are 0 .. MaxRecipeName - 1
  Overlap,          \* bound: FALSE if packages of different connections are
                    \* dealt with one after the other, and downloads after them
  NoName

RecipeNames == 0 .. MaxRecipeName - 1
Keys        == Users \X Files

\* A package fits into an empty recipe buffer (UPLOAD_BUFFER_SIZE bounds it).
ASSUME MetaAssumption ==
  /\ Path \in [Files -> Seq(Dirs)]
  /\ \A t \in Threads : Sends[t] \subseteq Files \X Package(t) \X BOOLEAN
  /\ RecipeCap \in Nat /\ \A t \in Threads : MaxBatch[t] < RecipeCap
  /\ MaxRecipeName \in Nat \ {0}
  /\ Overlap \in BOOLEAN

VARIABLES
  inode,     \* db_: for each user and file the versions, newest first
  children,  \* db_: for each user and directory its entries; {} is no inode
  rdisk,     \* the recipe files; <<>> is a file that does not exist
  rnode,     \* the recipe part of each buffer node
  nextRecipe,\* globalRecipeFileName_
  mpc,       \* what each thread has to do before the shares of the package
  pack,      \* the file share metadata head of each thread's package
  level,     \* how many directories of the path have been updated
  rpending,  \* the recipe file that a thread has written and not yet closed
  want,      \* restoreShareFile: the inode entry that was read
  uploads    \* history: what has been uploaded of each version

meta    == <<inode, children, rdisk, rnode, nextRecipe, mpc, pack, level, rpending, uploads>>
allMeta == <<allVars, meta, want>>

HeadCell(n)  == <<"head", n>>
EntryCell(s, id) == <<"entry", s, id>>   \* fingerprint and secretID
Hole      == <<"hole", 0>>
Cell == {HeadCell(n) : n \in 0 .. 2 * RecipeCap} \cup {Hole} \cup
        {EntryCell(s, id) : s \in Shares, id \in 1 .. 2 * RecipeCap}

RecipeNode  == [name : RecipeNames, cells : Seq(Cell), headPos : Nat,
                file : Files \cup {NoName}]
NewRecipe(n) == [name |-> n, cells |-> <<>>, headPos |-> 0, file |-> NoName]
InodeFileEntry == [name : RecipeNames, offset : Nat]
NoPackage   == [file |-> NoName, past |-> 0, end |-> FALSE]
NoRecipe    == [name |-> 0, cells |-> <<>>]
Version(ss) == [shares |-> ss, state |-> "partial"]

MetaInit ==
  /\ RestoreInit
  /\ inode = [k \in Keys |-> <<>>]
  /\ children = [k \in Users \X Dirs |-> {}]
  /\ rdisk = [r \in RecipeNames |-> <<>>]
  /\ rnode = [n \in Names |-> NewRecipe(0)]
  /\ nextRecipe = 0
  /\ mpc = [t \in Threads |-> "none"]
  /\ pack = [t \in Threads |-> NoPackage]
  /\ level = [t \in Threads |-> 1]
  /\ rpending = [t \in Threads |-> NoRecipe]
  /\ uploads = [k \in Keys |-> <<>>]
  /\ want = [key |-> CHOOSE k \in Keys : TRUE, name |-> 0, offset |-> 0]

-----------------------------------------------------------------------------
(* The steps of ShareIndex that leave the recipes alone.                   *)

Key(t) == <<UserOf[t], pack[t].file>>
Mpc(t, label) == mpc' = [mpc EXCEPT ![t] = label]

\* META: the next package of the file that the connection uploads, or the
\* first package of a file, in a new connection.
recvPackage(t) ==
  /\ recvMeta(t)
  /\ Overlap \/ \A t2 \in Threads : pc[t2] = "idle"
  /\ \E f \in Files, end \in BOOLEAN, past \in {0, pack[t].past} :
       /\ <<f, batch'[t], end>> \in Sends[t]
       /\ past # 0 => f = pack[t].file /\ ~pack[t].end
       /\ pack' = [pack EXCEPT ![t] = [file |-> f, past |-> past, end |-> end]]
  /\ UNCHANGED <<inode, children, rdisk, rnode, nextRecipe, mpc, level, rpending, uploads>>

\* The first stage, and a client that goes away after it: nothing happens to
\* the recipes.
firstStage(t) ==
  /\ intraUserIndexUpdate_(t)
  /\ UNCHANGED meta

goAway(t) ==
  /\ disconnect(t)
  /\ pack' = [pack EXCEPT ![t] = NoPackage]
  /\ UNCHANGED <<inode, children, rdisk, rnode, nextRecipe, mpc, level, rpending, uploads>>

\* interUserIndexUpdate_ for a share that the index does not have, between two
\* recipe entries: only once the package's recipe head is in its place.
lookupShare(t) == mpc[t] = "none" /\ missShare(t) /\ UNCHANGED meta

\* storeShareContainer_ after its write: a new name, an empty buffer, fclose.
renewBuffer(t) == renewContainer(t) /\ UNCHANGED meta
closeFile(t)   == closeContainer(t) /\ UNCHANGED meta

\* The key-value entry of the share is put, under DBLock_ taken again.
putShareEntry(t) == putEntry(t) /\ UNCHANGED meta

-----------------------------------------------------------------------------
(* Recipe files.                                                           *)

NumOf(cells, at) == cells[at + 1][2]

\* findOldRecipeFile_: the newest entry of the inode of the node's last file.
OldRecipe(n) == inode[<<node[n].user, rnode[n].file>>][1]

\* Entries are written behind the entries of the recipe at a position of the
\* file, over whatever is there, and its head counts them.
Appended(cells, at, tail, num) ==
  LET from == at + 1 + NumOf(cells, at)
  IN  [i \in 1 .. Max({Len(cells), from + Len(tail)}) |->
         CASE i = at + 1 -> HeadCell(NumOf(cells, at) + num)
           [] i \in from + 1 .. from + Len(tail) -> tail[i - from]
           [] OTHER -> IF i \in DOMAIN cells THEN cells[i] ELSE Hole]

\* appendOldRecipeFile_, for a buffer that begins with the rest of a file.
AppendOld(n, cells) ==
  LET e == OldRecipe(n)
  IN  [rdisk EXCEPT ![e.name] =
         Appended(@, e.offset, Tail(cells), NumOf(cells, 0))]

\* flushBufferNodeIntoDisk_, the recipes: a buffer whose only head is at its
\* beginning goes where the inode says, any other into a file of its own.
FlushTarget(n) == IF rnode[n].headPos = 0 THEN OldRecipe(n).name ELSE rnode[n].name
FlushRecipe(n) ==
  LET b == rnode[n]
  IN  IF b.headPos = 0 /\ rdisk[OldRecipe(n).name] # <<>>
      THEN Appended(rdisk[OldRecipe(n).name], OldRecipe(n).offset,
                    Tail(b.cells), NumOf(b.cells, 0))
      ELSE b.cells

\* The recipe files after the nodes have been flushed.
FlushedRecipes(nodes) ==
  LET of(r) == {n \in nodes : rnode[n].cells # <<>> /\ FlushTarget(n) = r}
  IN  [r \in RecipeNames |->
         IF of(r) = {} THEN rdisk[r] ELSE FlushRecipe(CHOOSE n \in of(r) : TRUE)]

\* findOrCreateBufferNode_: expired nodes are flushed, recipes first.
findNode(t) ==
  /\ findBufferNode_(t)
  /\ rdisk' = FlushedRecipes(link \ link')
  /\ IF pc'[t] = "share" THEN Mpc(t, "room") ELSE UNCHANGED mpc
  /\ UNCHANGED <<inode, children, rnode, nextRecipe, pack, level, rpending, uploads>>

\* A new node takes a recipe file name and a container name.
createNode(t) ==
  /\ nextRecipe < MaxRecipeName
  /\ createBufferNode_(t)
  /\ rnode' = [rnode EXCEPT ![nextName] = NewRecipe(nextRecipe)]
  /\ nextRecipe' = nextRecipe + 1
  /\ Mpc(t, "room")
  /\ UNCHANGED <<inode, children, rdisk, pack, level, rpending, uploads>>

-----------------------------------------------------------------------------
(* secondStageDedup, before the shares: steps 2 and 3 of its comments.     *)

InHead(t, label) == pc[t] = "share" /\ mpc[t] = label
NewFile(t) == pack[t].past = 0
AfterRoom(t) == IF NewFile(t) THEN "inode" ELSE "head"

\* The buffer's recipe began in a previous recipe file.
Continues(b, past) == b.headPos = 0 /\ past > NumOf(b.cells, 0)

\* The rest of a file at the beginning of the buffer, which no inode leads
\* to: it is lost when a new file comes.
Rest(n) ==
  /\ rnode[n].headPos = 0 /\ rnode[n].cells # <<>>
  /\ OldRecipe(n) # [name |-> rnode[n].name, offset |-> 0]
Lost(n) ==
  IF Rest(n) THEN [uploads EXCEPT ![<<node[n].user, rnode[n].file>>][1].state = "cut"]
             ELSE uploads

\* Step 2: room for the package's recipe, or the buffer goes to the disk.
makeRoom(t) ==
  LET b     == rnode[ptr[t]]
      added == Len(batch[t]) + (IF NewFile(t) \/ b.cells = <<>> THEN 1 ELSE 0)
  IN  /\ InHead(t, "room")
      /\ Mpc(t, IF Len(b.cells) + added <= RecipeCap THEN AfterRoom(t)
                ELSE IF Continues(b, pack[t].past) THEN "append" ELSE "store")
      /\ uploads' = IF NewFile(t) THEN Lost(ptr[t]) ELSE uploads
      /\ UNCHANGED <<allVars, inode, children, rdisk, rnode, nextRecipe,
                     pack, level, rpending>>

\* Variant: the buffer keeps its cells.
appendOldRecipeFile_Keeps(t) ==
  /\ InHead(t, "append")
  /\ rdisk' = AppendOld(ptr[t], rnode[ptr[t]].cells)
  /\ Mpc(t, AfterRoom(t))
  /\ UNCHANGED <<allVars, inode, children, rnode, nextRecipe,
                 pack, level, rpending, uploads>>

\* appendOldRecipeFile_: the entries reach the file before the head that
\* counts them, so that a reader sees them all or none.
appendOldRecipeFile_(t) ==
  /\ InHead(t, "append")
  /\ rdisk' = AppendOld(ptr[t], rnode[ptr[t]].cells)
  /\ rnode' = [rnode EXCEPT ![ptr[t]].cells = <<>>, ![ptr[t]].headPos = 0]
  /\ Mpc(t, AfterRoom(t))
  /\ UNCHANGED <<allVars, inode, children, nextRecipe, pack, level, rpending, uploads>>

\* storeNewRecipeFile_, up to the renewal of the buffer: part of the file may
\* still be in the stdio buffer.
storeNewRecipeFile_(t) ==
  LET b == rnode[ptr[t]]
  IN  /\ InHead(t, "store")
      /\ nextRecipe < MaxRecipeName
      /\ \E k \in {0, Len(b.cells)} :
           rdisk' = [rdisk EXCEPT ![b.name] = SubSeq(b.cells, 1, k)]
      /\ rnode' = [rnode EXCEPT ![ptr[t]] = [NewRecipe(nextRecipe) EXCEPT !.file = b.file]]
      /\ rpending' = [rpending EXCEPT ![t] = [name |-> b.name, cells |-> b.cells]]
      /\ nextRecipe' = nextRecipe + 1
      /\ Mpc(t, "close")
      /\ UNCHANGED <<allVars, inode, children, pack, level, uploads>>

\* storeNewRecipeFile_, fclose.
closeRecipeFile(t) ==
  /\ InHead(t, "close")
  /\ rdisk' = [rdisk EXCEPT ![rpending[t].name] = rpending[t].cells]
  /\ rpending' = [rpending EXCEPT ![t] = NoRecipe]
  /\ Mpc(t, AfterRoom(t))
  /\ UNCHANGED <<allVars, inode, children, rnode, nextRecipe, pack, level, uploads>>

\* The recipe of the new version will begin at the end of the buffer.
Here(t) == [name |-> rnode[ptr[t]].name, offset |-> Len(rnode[ptr[t]].cells)]

\* addFileIntoInodeIndex_, under DBLock_: the file has an inode, and a new
\* version is put in front of the others.
addVersion(t) ==
  /\ InHead(t, "inode")
  /\ inode[Key(t)] # <<>>
  /\ inode' = [inode EXCEPT ![Key(t)] = <<Here(t)>> \o @]
  /\ Mpc(t, "head")
  /\ UNCHANGED <<allVars, children, rdisk, rnode, nextRecipe, pack, level, rpending, uploads>>

\* The file has no inode: DBLock_ is released, and taken again for the Put.
missInode(t) ==
  /\ InHead(t, "inode")
  /\ inode[Key(t)] = <<>>
  /\ Mpc(t, "putInode")
  /\ UNCHANGED <<allVars, inode, children, rdisk, rnode, nextRecipe,
                 pack, level, rpending, uploads>>

putInode(t) ==
  /\ InHead(t, "putInode")
  /\ inode' = [inode EXCEPT ![Key(t)] = <<Here(t)>>]
  /\ level' = [level EXCEPT ![t] = 1]
  /\ Mpc(t, "dir")
  /\ UNCHANGED <<allVars, children, rdisk, rnode, nextRecipe, pack, rpending, uploads>>

\* The directory that is updated now, and what it is to list.
Dir(t)   == <<UserOf[t], Path[pack[t].file][level[t]]>>
Child(t) == IF level[t] = 1 THEN pack[t].file ELSE Path[pack[t].file][level[t] - 1]

\* One level up, until the root has been dealt with.
Up(t) ==
  /\ level' = [level EXCEPT ![t] = @ + 1]
  /\ Mpc(t, IF level[t] = Len(Path[pack[t].file]) THEN "head" ELSE "dir")

\* Variant: every directory gets an entry for the file itself.
addChildFile(t) ==
  /\ InHead(t, "dir")
  /\ children[Dir(t)] # {}
  /\ children' = [children EXCEPT ![Dir(t)] = @ \cup {pack[t].file}]
  /\ Up(t)
  /\ UNCHANGED <<allVars, inode, rdisk, rnode, nextRecipe, pack, rpending, uploads>>

\* The directory has an inode: an entry is added unless it has one already.
addChild(t) ==
  /\ InHead(t, "dir")
  /\ children[Dir(t)] # {}
  /\ children' = [children EXCEPT ![Dir(t)] = @ \cup {Child(t)}]
  /\ Up(t)
  /\ UNCHANGED <<allVars, inode, rdisk, rnode, nextRecipe, pack, rpending, uploads>>

\* It has none: DBLock_ is released before the new inode is put.
missDir(t) ==
  /\ InHead(t, "dir")
  /\ children[Dir(t)] = {}
  /\ Mpc(t, "putDir")
  /\ UNCHANGED <<allVars, inode, children, rdisk, rnode, nextRecipe,
                 pack, level, rpending, uploads>>

putDir(t) ==
  /\ InHead(t, "putDir")
  /\ children' = [children EXCEPT ![Dir(t)] = {Child(t)}]
  /\ Up(t)
  /\ UNCHANGED <<allVars, inode, rdisk, rnode, nextRecipe, pack, rpending, uploads>>

\* Step 3: a head for a new file, or for the rest of a file in an empty
\* buffer; otherwise the last head counts the package's shares as well.
putHead(t) ==
  LET b   == rnode[ptr[t]]
      num == Len(batch[t])
  IN  /\ InHead(t, "head")
      /\ rnode' = [rnode EXCEPT ![ptr[t]] =
                     IF NewFile(t) \/ b.cells = <<>>
                     THEN [b EXCEPT !.cells = Append(@, HeadCell(num)),
                                    !.headPos = Len(b.cells), !.file = pack[t].file]
                     ELSE [b EXCEPT !.cells[b.headPos + 1] = HeadCell(@[2] + num)]]
      /\ uploads' = IF NewFile(t)
                    THEN [uploads EXCEPT ![Key(t)] = <<Version(<<>>)>> \o @]
                    ELSE uploads
      /\ Mpc(t, "none")
      /\ UNCHANGED <<allVars, inode, children, rdisk, nextRecipe, pack, level, rpending>>

-----------------------------------------------------------------------------
(* Steps 4 and 5: the entries, and the end of a file.                      *)

Entries(t) == [i \in DOMAIN batch[t] |-> <<batch[t][i], pack[t].past + i>>]

\* What the newest version of the file has been sent; a version of which a
\* package was refused stays cut.
Uploaded(t, state) ==
  uploads' = [uploads EXCEPT ![Key(t)][1] =
                IF state = "cut" \/ @.state = "cut" THEN [@ EXCEPT !.state = "cut"]
                ELSE [shares |-> @.shares \o Entries(t), state |-> state]]

\* The recipe entry of the current share; behind the last one of the file,
\* the entries may go to the recipe file in which the file's recipe began.
\* (b) compares the shares sent before this package with the head's count,
\* which includes this package.
PutRecipeEntry(t) ==
  LET n     == ptr[t]
      cells == Append(rnode[n].cells, EntryCell(Current(t), pack[t].past + pos[t]))
      b     == [rnode[n] EXCEPT !.cells = cells]
      ends  == pos[t] = Len(batch[t]) /\ pack[t].end
  IN  IF ends /\ Continues(b, pack[t].past)
      THEN /\ rdisk' = AppendOld(n, cells)
           /\ rnode' = [rnode EXCEPT ![n].cells = <<>>, ![n].headPos = 0]
      ELSE rnode' = [rnode EXCEPT ![n] = b] /\ UNCHANGED rdisk

\* The client counts what it has sent.
Sent(t) ==
  IF pos[t] = Len(batch[t])
  THEN /\ Uploaded(t, IF pack[t].end THEN "whole" ELSE "partial")
       /\ pack' = [pack EXCEPT ![t].past = @ + Len(batch[t])]
  ELSE UNCHANGED <<uploads, pack>>

\* The recipe entry of a share that is done with is put into the buffer.
Filing(t) ==
  /\ mpc[t] = "none"
  /\ PutRecipeEntry(t)
  /\ Sent(t)
  /\ UNCHANGED <<inode, children, nextRecipe, mpc, level, rpending>>

\* A share that the first stage found to be the user's, one that the index
\* has by now, and one that has just been stored.
fileDuplicate(t) == skipShare(t) /\ Filing(t)
fileReferenced(t) == referenceShare(t) /\ Filing(t)
fileStored(t)    == copyShare(t) /\ Filing(t)

\* secondStageDedup returns early: the head counts entries that are missing.
refuse(t) ==
  /\ mpc[t] = "none"
  /\ rejectShare(t)
  /\ Uploaded(t, "cut")
  /\ pack' = [pack EXCEPT ![t].past = @ + Len(batch[t])]
  /\ UNCHANGED <<inode, children, rdisk, rnode, nextRecipe, mpc, level, rpending>>

writeFullContainer(t) ==
  /\ writeContainer(t)
  /\ IF pc'[t] = "renew" THEN UNCHANGED <<uploads, pack>>
     ELSE Uploaded(t, "cut") /\ pack' = [pack EXCEPT ![t].past = @ + Len(batch[t])]
  /\ UNCHANGED <<inode, children, rdisk, rnode, nextRecipe, mpc, level, rpending>>

-----------------------------------------------------------------------------
(* restoreShareFile: from a file's name to the shares of its recipe.       *)

\* readRecipeFileFromBuffer_: the user's node holds the recipe file.
InBuffer(u, r) == \E n \in link : node[n].user = u /\ rnode[n].name = r
RecipeCells(u, r) ==
  IF InBuffer(u, r)
  THEN rnode[CHOOSE n \in link : node[n].user = u /\ rnode[n].name = r].cells
  ELSE rdisk[r]

\* The recipe at a position: its head, and as many cells as the head counts.
HasRecipe(cells, at) ==
  /\ at + 1 \in DOMAIN cells
  /\ cells[at + 1][1] = "head"
  /\ \A i \in 1 .. NumOf(cells, at) :
       at + 1 + i \in DOMAIN cells /\ cells[at + 1 + i][1] = "entry"
RecipeAt(cells, at) == [i \in 1 .. NumOf(cells, at) |-> <<cells[at + 1 + i][2], cells[at + 1 + i][3]>>]

\* DOWNLOAD: the inode is read under DBLock_, and its newest version is
\* asked for (SocketHandlerMeta passes version 0).
findInode ==
  /\ rpc = "idle" /\ out = <<>>
  /\ \E t \in Threads, f \in Files :
       /\ pc[t] = "idle"
       /\ Overlap \/ \A t2 \in Threads : pc[t2] = "idle" /\ sent[t2] = MaxPackages[t2]
       /\ LET vs == inode[<<UserOf[t], f>>]
          IN  IF vs = <<>> THEN rpc' = "failed" /\ UNCHANGED want
              ELSE /\ want' = [key |-> <<UserOf[t], f>>,
                               name |-> vs[1].name, offset |-> vs[1].offset]
                   /\ rpc' = "recipe"
  /\ UNCHANGED <<vars, recipe, entry, cache, found, out, delivered, settled, meta>>

\* Variant: the recipe file's first recipe is taken.
readRecipeFirst ==
  LET cells == RecipeCells(want.key[1], want.name)
  IN  /\ rpc = "recipe"
      /\ IF HasRecipe(cells, 0) /\ NumOf(cells, 0) > 0
         THEN /\ recipe' = [i \in 1 .. NumOf(cells, 0) |-> RecipeAt(cells, 0)[i][1]]
              /\ rpc' = "lookup"
         ELSE rpc' = "failed" /\ UNCHANGED recipe
      /\ UNCHANGED <<vars, entry, cache, found, out, delivered, settled, meta, want>>

\* The recipe is copied from the buffer, or read from the recipe file; a cell
\* that is no entry leads to no share, and the restore fails.
readRecipe ==
  LET cells == RecipeCells(want.key[1], want.name)
  IN  /\ rpc = "recipe"
      /\ IF HasRecipe(cells, want.offset) /\ NumOf(cells, want.offset) > 0
         THEN /\ recipe' = [i \in 1 .. NumOf(cells, want.offset) |-> RecipeAt(cells, want.offset)[i][1]]
              /\ rpc' = "lookup"
         ELSE rpc' = "failed" /\ UNCHANGED recipe
      /\ UNCHANGED <<vars, entry, cache, found, out, delivered, settled, meta, want>>

\* The shares of the recipe: the index entry under DBLock_, then the container
\* from the cache, from a buffer of the link, or from its file.
lookupEntry   == lookup /\ UNCHANGED <<meta, want>>
fromCache     == cacheHit /\ UNCHANGED <<meta, want>>
fromBuffer    == (searchBuffers \/ memcpyBegins \/ memcpyEnds) /\ UNCHANGED <<meta, want>>
fromContainer == readContainerFile /\ UNCHANGED <<meta, want>>
sendShares    == (sendMessage \/ clientMoves) /\ UNCHANGED <<meta, want>>

-----------------------------------------------------------------------------
MetaStep(t) ==
  \/ recvPackage(t) \/ firstStage(t) \/ goAway(t)
  \/ findNode(t) \/ createNode(t)
  \/ makeRoom(t) \/ appendOldRecipeFile_(t)
  \/ storeNewRecipeFile_(t) \/ closeRecipeFile(t)
  \/ addVersion(t) \/ missInode(t) \/ putInode(t)
  \/ addChild(t) \/ missDir(t) \/ putDir(t) \/ putHead(t)
  \/ lookupShare(t) \/ refuse(t)
  \/ fileDuplicate(t) \/ fileReferenced(t) \/ fileStored(t)
  \/ writeFullContainer(t) \/ renewBuffer(t) \/ closeFile(t) \/ putShareEntry(t)

MetaQuiet == Quiet /\ UNCHANGED <<restoring, meta, want>>

MetaNext ==
  \/ \E t \in Threads : MetaStep(t) /\ Watched(t) /\ UNCHANGED want
  \/ findInode \/ readRecipe
  \/ lookupEntry \/ fromCache \/ fromBuffer \/ fromContainer \/ sendShares
  \/ MetaQuiet

MetaSpec == MetaInit /\ [][MetaNext]_allMeta

-----------------------------------------------------------------------------
\* Types of the recipe state (dataStruct.hh); a buffer is never overfull.
MetaTypeOK ==
  /\ inode \in [Keys -> Seq(InodeFileEntry)]
  /\ rdisk \in [RecipeNames -> Seq(Cell)]
  /\ rnode \in [Names -> RecipeNode]
  /\ \A n \in Names : Len(rnode[n].cells) <= RecipeCap
  /\ nextRecipe \in 0 .. MaxRecipeName

\* The user's connection is not inside secondStageDedup.
Resting(u) == \A t \in Threads : UserOf[t] = u => ~Using(t)

\* What the inode entry of a version leads to, and what the user's buffer
\* still has of it when the version is the buffer's last file.
Filed(k, v) ==
  LET e == inode[k][v]
      c == RecipeCells(k[1], e.name)
  IN  IF HasRecipe(c, e.offset) THEN RecipeAt(c, e.offset) ELSE <<>>
InRest(k, v) ==
  LET of == {n \in link : node[n].user = k[1] /\ rnode[n].file = k[2] /\ v = 1
                           /\ rnode[n].cells # <<>> /\ Rest(n)}
  IN  IF of = {} THEN <<>> ELSE RecipeAt(rnode[CHOOSE n \in of : TRUE].cells, 0)

\* However a file is cut into packages and wherever buffers are flushed,
\* stored, appended or freed between them: every version of every file keeps
\* the recipe that was uploaded, in its recipe file followed by what is still
\* in the user's buffer.  Let off are versions of which a package was refused
\* and those whose rest was left in the buffer when another file came.
VersionsKept ==
  \A k \in Keys : Resting(k[1]) =>
    /\ Len(inode[k]) = Len(uploads[k])
    /\ \A v \in DOMAIN inode[k] :
         uploads[k][v].state # "cut" => Filed(k, v) \o InRest(k, v) = uploads[k][v].shares

\* "if a partial file ends here, append its recipe entries to a previous
\* recipe file": when all of a file has arrived, its inode leads to all of it.
EndedIsFiled ==
  \A k \in Keys : Resting(k[1]) =>
    \A v \in DOMAIN inode[k] :
      uploads[k][v].state = "whole" => Filed(k, v) = uploads[k][v].shares

\* Whoever has been given an inode is found from the root: its directory
\* lists it, and every directory of its path is listed in the next one.
FoundFromRoot ==
  \A t \in Threads, f \in Files :
    inode[<<UserOf[t], f>>] # <<>> /\ ~(mpc[t] \in {"dir", "putDir"} /\ pack[t].file = f) =>
      \A i \in DOMAIN Path[f] :
        (IF i = 1 THEN f ELSE Path[f][i - 1]) \in children[<<UserOf[t], Path[f][i]>>]

\* A download that follows the uploads reads the recipe that was uploaded,
\* without what is still in the buffer, wherever the recipe was filed.
RecipeAsUploaded ==
  LET vs == uploads[want.key]
      ids(es) == [i \in DOMAIN es |-> es[i][1]]
  IN  rpc \notin {"idle", "recipe", "failed"} => \E v \in DOMAIN vs :
        vs[v].state = "cut" \/ recipe \o ids(InRest(want.key, v)) = ids(vs[v].shares)
================================================================================
