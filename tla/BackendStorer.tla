---------------------------- MODULE BackendStorer ----------------------------
(***************************************************************************)
(* The server's optional copy of its recipe and container files to a       *)
(* backend (backend/BackendStorer.cc): the dedup cores add new files and   *)
(* open old ones; one thread copies new files to the backend and one keeps *)
(* the local directory, now a cache, within a size.  Each pthread critical *)
(* section is one step; the conditions are signalled under their lock      *)
(* whenever they may have become true, so a wait is a guard.               *)
(***************************************************************************)
EXTENDS Integers, Sequences, SequencesExt, FiniteSets, FiniteSetsExt

CONSTANTS
    StoredFiles,   \* the files the cores create
    fileSize,      \* fileSize[f]
    maxCacheSize,
    MaxOpens       \* bound: how often files are opened

ASSUME BackendAssumption ==
    /\ IsFiniteSet(StoredFiles) /\ fileSize \in [StoredFiles -> Nat \ {0}]
    /\ maxCacheSize \in Nat \ {0} /\ MaxOpens \in Nat

VARIABLES
    localDir, backendDir,           \* the files in the two directories
    availCacheSize, usedCacheSize,
    adding,                         \* files between the two steps of addNewFile
    newlyStored, newlyUsed, cacheList,  \* the links, and the LRU list (oldest first)
    storing,                        \* the file the storer has in hand, or <<>>
    opened,                         \* files opened and not yet noted as used
    opens,                          \* number of opens
    early,                          \* files opened before the backend had them
    backendStatus                   \* "run", "exit" or "undefined"

backendVars == <<localDir, backendDir, availCacheSize, usedCacheSize, adding,
                 newlyStored, newlyUsed, cacheList, storing, opened, opens, early,
                 backendStatus>>

BackendInit ==
    /\ localDir = {} /\ backendDir = {}
    /\ availCacheSize = maxCacheSize /\ usedCacheSize = 0
    /\ adding = {} /\ newlyStored = <<>> /\ newlyUsed = <<>> /\ cacheList = <<>>
    /\ storing = <<>> /\ opened = {} /\ opens = 0 /\ early = {}
    /\ backendStatus = "run"

(* addNewFile, to its first unlock: a file the core has just written.       *)
reserveSpace(f) ==
    /\ f \notin localDir \cup backendDir \cup early
    /\ localDir' = localDir \cup {f}
    /\ availCacheSize' = availCacheSize - fileSize[f]
    /\ adding' = adding \cup {f}
    /\ UNCHANGED <<backendDir, usedCacheSize, newlyStored, newlyUsed, cacheList,
                   storing, opened, opens, early, backendStatus>>

(* Variant: the new file becomes a cache entry at once.                      *)
queueNewAsUsed(f) ==
    /\ f \in adding
    /\ adding' = adding \ {f}
    /\ newlyStored' = Append(newlyStored, f)
    /\ newlyUsed' = Append(newlyUsed, f)
    /\ UNCHANGED <<localDir, backendDir, availCacheSize, usedCacheSize, cacheList,
                   storing, opened, opens, early, backendStatus>>

(* addNewFile, the rest.                                                    *)
queueNew(f) ==
    /\ f \in adding
    /\ adding' = adding \ {f}
    /\ newlyStored' = Append(newlyStored, f)
    /\ UNCHANGED <<localDir, backendDir, availCacheSize, usedCacheSize,
                   newlyUsed, cacheList, storing, opened, opens, early,
                   backendStatus>>

(* openOldFile on a local file, to fopen.                                   *)
openLocal(f) ==
    /\ f \in localDir \ opened /\ opens < MaxOpens
    /\ opens' = opens + 1
    /\ opened' = opened \cup {f}
    /\ early' = IF f \in backendDir THEN early ELSE early \cup {f}
    /\ UNCHANGED <<localDir, backendDir, availCacheSize, usedCacheSize, adding,
                   newlyStored, newlyUsed, cacheList, storing, backendStatus>>

noteOpened(f) ==
    /\ f \in opened
    /\ opened' = opened \ {f}
    /\ newlyUsed' = Append(newlyUsed, f)
    /\ UNCHANGED <<localDir, backendDir, availCacheSize, usedCacheSize, adding,
                   newlyStored, cacheList, storing, opens, early, backendStatus>>

(* openOldFile on an evicted file: backendRestoreOldFile_ copies it back    *)
(* but leaves fp unset, and the size of the file is then asked of fp.       *)
restoreOld(f) ==
    /\ f \in backendDir \ localDir /\ opens < MaxOpens
    /\ opens' = opens + 1
    /\ localDir' = localDir \cup {f}
    /\ backendStatus' = "undefined"
    /\ UNCHANGED <<backendDir, availCacheSize, usedCacheSize, adding,
                   newlyStored, newlyUsed, cacheList, storing, opened, early>>

(* Variant: the storer forgets the files behind the one it takes.            *)
takeNewForgets ==
    /\ storing = <<>> /\ newlyStored /= <<>>
    /\ storing' = <<Head(newlyStored)>>
    /\ newlyStored' = <<>>
    /\ UNCHANGED <<localDir, backendDir, availCacheSize, usedCacheSize, adding,
                   newlyUsed, cacheList, opened, opens, early, backendStatus>>

(* storeNewFile: take the first new file,                                   *)
takeNew ==
    /\ storing = <<>> /\ newlyStored /= <<>>
    /\ storing' = <<Head(newlyStored)>>
    /\ newlyStored' = Tail(newlyStored)
    /\ UNCHANGED <<localDir, backendDir, availCacheSize, usedCacheSize, adding,
                   newlyUsed, cacheList, opened, opens, early, backendStatus>>

(* copy it (a copy that fails ends the server),                             *)
copyNew ==
    /\ storing /= <<>> /\ storing[1] \notin backendDir
    /\ IF storing[1] \in localDir
       THEN /\ backendDir' = backendDir \cup {storing[1]}
            /\ UNCHANGED backendStatus
       ELSE /\ backendStatus' = "exit"
            /\ UNCHANGED backendDir
    /\ UNCHANGED <<localDir, availCacheSize, usedCacheSize, adding, newlyStored,
                   newlyUsed, cacheList, storing, opened, opens, early>>

(* and count it as evictable; the code subtracts from usedCacheSize_.       *)
noteStored ==
    /\ storing /= <<>> /\ storing[1] \in backendDir
    /\ newlyUsed' = Append(newlyUsed, storing[1])
    /\ availCacheSize' = availCacheSize + fileSize[storing[1]]
    /\ usedCacheSize' = usedCacheSize - fileSize[storing[1]]
    /\ storing' = <<>>
    /\ UNCHANGED <<localDir, backendDir, adding, newlyStored, cacheList, opened,
                   opens, early, backendStatus>>

(* An entry is moved, or added, to the tail.                                *)
touch(list, f) == Append(SelectSeq(list, LAMBDA g : g /= f), f)

(* The eviction loop; an empty list is dereferenced all the same.           *)
RECURSIVE evict(_, _, _)
evict(list, used, gone) ==
    IF availCacheSize >= used
    THEN [cacheList |-> list, used |-> used, gone |-> gone, ok |-> TRUE]
    ELSE IF list = <<>>
    THEN [cacheList |-> list, used |-> used, gone |-> gone, ok |-> FALSE]
    ELSE evict(Tail(list), used - fileSize[Head(list)], gone \cup {Head(list)})

updateCache ==
    /\ newlyUsed /= <<>> \/ availCacheSize < usedCacheSize
    /\ LET after == evict(FoldLeft(touch, cacheList, newlyUsed), usedCacheSize, {})
       IN  /\ cacheList' = after.cacheList
           /\ usedCacheSize' = after.used
           /\ localDir' = localDir \ after.gone
           /\ backendStatus' = IF after.ok THEN backendStatus ELSE "undefined"
    /\ newlyUsed' = <<>>
    /\ UNCHANGED <<backendDir, availCacheSize, adding, newlyStored, storing,
                   opened, opens, early>>

Storer == takeNew \/ copyNew \/ noteStored

BackendNext ==
    /\ backendStatus = "run"
    /\ \/ \E f \in StoredFiles : \/ reserveSpace(f) \/ queueNew(f)
                                 \/ openLocal(f) \/ noteOpened(f)
                                 \/ restoreOld(f)
       \/ takeNew \/ copyNew \/ noteStored
       \/ updateCache

(* The storer's thread and a core inside addNewFile go on.                  *)
BackendFairness ==
    /\ WF_backendVars(backendStatus = "run" /\ Storer)
    /\ \A f \in StoredFiles : WF_backendVars(backendStatus = "run" /\ queueNew(f))

-----------------------------------------------------------------------------
(* Type invariant: no file is twice in the LRU list or on its way to the    *)
(* backend twice.                                                           *)
BackendTypeOK ==
    /\ localDir \subseteq StoredFiles /\ backendDir \subseteq StoredFiles
    /\ availCacheSize \in Int /\ usedCacheSize \in Int
    /\ IsInjective(cacheList) /\ IsInjective(storing \o newlyStored)
    /\ backendStatus \in {"run", "exit", "undefined"}

(* The only way to lose a file is to open it before the backend has it: it  *)
(* is then in the LRU list, and eviction removes the only copy.             *)
LostWasOpenedEarly ==
    \A f \in adding \cup ToSet(storing \o newlyStored) :
        f \notin localDir \cup backendDir => f \in early

(* A file that was added reaches the backend, or the server has stopped     *)
(* because of a file lost before.                                           *)
AddedIsStored ==
    \A f \in StoredFiles : f \in adding ~> (f \in backendDir \/ backendStatus /= "run")
=============================================================================
