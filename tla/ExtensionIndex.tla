---------------------------- MODULE ExtensionIndex ----------------------------
(***************************************************************************)
(* internal/repo/extension.go: one Extension, its RWMutex and the index    *)
(* under it, used by                                                       *)
(*   - the goroutine that processSearch starts for it (search.go:211-258), *)
(*   - the updates of it (repo.go:241-328), which build a new index and    *)
(*     swap it for the old one,                                            *)
(*   - requests for one of its files (files.go:13-60, getMatchFile).       *)
(*                                                                         *)
(* An index is its directory.  All the critical sections of a writer are   *)
(* single steps, taken when the writer has the mutex to itself.  The       *)
(* index's own RWMutex is only ever taken under the extension's and adds   *)
(* nothing.                                                                *)
(***************************************************************************)
EXTENDS RWMutex, FiniteSets

CONSTANTS
    Search,   \* the goroutine of a search; there is one search at a time
    Updates,  \* the updates that may be under way at a time
    Files,    \* the requests for a file that may be in flight at a time
    Dirs,     \* names of index directories
    MaxLeft,  \* bound on the directories that failed steps leave behind
    NoDir     \* the nil index

ASSUME ProcsAssumption == Procs = {Search} \cup Updates \cup Files
ASSUME DisjointAssumption ==
    Search \notin Updates \cup Files /\ Updates \cap Files = {}
ASSUME NoDirAssumption == NoDir \notin Dirs
ASSUME MaxLeftAssumption == MaxLeft \in Nat

VARIABLES
    mutex,   \* Extension.RWMutex
    index,   \* Extension.index
    status,  \* Extension.Status
    disk,    \* the index directories on disk
    pc,      \* where each process is
    held,    \* the directory each process has in hand
    left     \* history: the directories that failed steps have left behind

vars == <<mutex, index, status, disk, pc, held, left>>

Init ==
    /\ mutex = Unlocked
    /\ index = NoDir
    /\ status = "closed"
    /\ disk = {}
    /\ pc = [p \in Procs |-> "idle"]
    /\ held = [p \in Procs |-> NoDir]
    /\ left = {}

Goto(p, to) == pc' = [pc EXCEPT ![p] = to]
Hold(p, d) == held' = [held EXCEPT ![p] = d]

\* A name that no directory has and that nobody remembers.
NewNames == (Dirs \ disk) \ {held[p] : p \in Procs}

-----------------------------------------------------------------------------
(* Variants of the definitions below with a plausible mistake.             *)

\* SwapIndexes forgets the old index.
SwapIndexesLeaks(u) ==
    /\ pc[u] = "swap"
    /\ CanWrite(mutex, u)
    /\ index' = held[u]
    /\ mutex' = WriteUnlocked(mutex)
    /\ Goto(u, "open")
    /\ Hold(u, NoDir)
    /\ UNCHANGED <<status, disk, left>>

\* The status is set before the index is there.
OpenFirst(u) ==
    /\ pc[u] = "build"
    /\ \E d \in NewNames :
          /\ disk' = disk \cup {d}
          /\ Hold(u, d)
    /\ Goto(u, "stats")
    /\ status' = "open"
    /\ UNCHANGED <<mutex, index, left>>

\* The goroutine returns without the deferred RUnlock of line 213.
FinishKeepsLock ==
    /\ pc[Search] = "grep"
    /\ mutex' = RUnlocked(mutex, Search)
    /\ Goto(Search, "idle")
    /\ Hold(Search, NoDir)
    /\ UNCHANGED <<index, status, disk, left>>

\* The locks are released when the index has been read from the struct, before
\* its files are.
InnerRLockReleases ==
    /\ pc[Search] = "inner"
    /\ CanRLock(mutex)
    /\ mutex' = RUnlocked(mutex, Search)
    /\ Hold(Search, index)
    /\ Goto(Search, "grep")
    /\ UNCHANGED <<index, status, disk, left>>

-----------------------------------------------------------------------------
(* The goroutine of a search *)

\* processSearch looks at the status without the mutex.
Visit ==
    /\ pc[Search] = "idle"
    /\ status = "open"
    /\ Goto(Search, "outer")
    /\ UNCHANGED <<mutex, index, status, disk, held, left>>

\* search.go:212
OuterRLock ==
    /\ pc[Search] = "outer"
    /\ CanRLock(mutex)
    /\ mutex' = RLocked(mutex, Search)
    /\ Goto(Search, "inner")
    /\ UNCHANGED <<index, status, disk, held, left>>

\* extension.go:120; the search works on the index it finds now.
InnerRLock ==
    /\ pc[Search] = "inner"
    /\ CanRLock(mutex)
    /\ mutex' = RLocked(mutex, Search)
    /\ Hold(Search, index)
    /\ Goto(Search, "grep")
    /\ UNCHANGED <<index, status, disk, left>>

\* Index.Search has read the files of its directory; both locks are released.
Finish ==
    /\ pc[Search] = "grep"
    /\ mutex' = RUnlocked(RUnlocked(mutex, Search), Search)
    /\ Hold(Search, NoDir)
    /\ Goto(Search, "idle")
    /\ UNCHANGED <<index, status, disk, left>>

-----------------------------------------------------------------------------
(* ProcessUpdate: the sections that write are those of updateMeta, of the  *)
(* file statistics, of SwapIndexes and of SetStatus, in this order.        *)

WriteSections == {"meta", "stats", "swap", "open", "close"}

StartUpdate(u) ==
    /\ pc[u] = "idle"
    /\ Goto(u, "meta")
    /\ UNCHANGED <<mutex, index, status, disk, held, left>>

\* Lock announces the writer ...
Lock(u) ==
    /\ pc[u] \in WriteSections
    /\ CanAnnounce(mutex)
    /\ mutex' = Announced(mutex, u)
    /\ UNCHANGED <<index, status, disk, pc, held, left>>

\* ... and the section runs when the readers are gone.  The answer of the API may
\* not be what json.Unmarshal expects (repo.go:284).
UpdateMeta(u) ==
    /\ pc[u] = "meta"
    /\ CanWrite(mutex, u)
    /\ mutex' = WriteUnlocked(mutex)
    /\ \E to \in {"build", "close"} : Goto(u, to)
    /\ UNCHANGED <<index, status, disk, held, left>>

\* getArchive and generateIndex: no lock, a directory of a new name.
Build(u) ==
    /\ pc[u] = "build"
    /\ \E d \in NewNames :
          /\ disk' = disk \cup {d}
          /\ Hold(u, d)
    /\ Goto(u, "stats")
    /\ UNCHANGED <<mutex, index, status, left>>

\* GetInfo, getArchive or generateIndex fails, the last before it has made the
\* directory (index.go:380-387) ...
Fail(u) ==
    /\ pc[u] \in {"meta", "build"}
    /\ mutex.writer # u
    /\ Goto(u, "close")
    /\ UNCHANGED <<mutex, index, status, disk, held, left>>

\* ... or after, which leaves what there is of the new index (index.go:389-406).
BuildFails(u) ==
    /\ pc[u] = "build"
    /\ Cardinality(left) < MaxLeft
    /\ \E d \in NewNames : disk' = disk \cup {d} /\ left' = left \cup {d}
    /\ Goto(u, "close")
    /\ UNCHANGED <<mutex, index, status, held>>

UpdateStats(u) ==
    /\ pc[u] = "stats"
    /\ CanWrite(mutex, u)
    /\ mutex' = WriteUnlocked(mutex)
    /\ Goto(u, "swap")
    /\ UNCHANGED <<index, status, disk, held, left>>

\* SwapIndexes: the new index is in place, then the old one is destroyed.
SwapIndexes(u) ==
    /\ pc[u] = "swap"
    /\ CanWrite(mutex, u)
    /\ index' = held[u]
    /\ disk' = disk \ {index}
    /\ mutex' = WriteUnlocked(mutex)
    /\ Goto(u, "open")
    /\ Hold(u, NoDir)
    /\ UNCHANGED <<status, left>>

\* Destroy fails: what is left of the old index stays, the new one too, and the
\* extension is closed (repo.go:256, index.go:119-126).
SwapFails(u) ==
    /\ pc[u] = "swap"
    /\ CanWrite(mutex, u)
    /\ index # NoDir
    /\ Cardinality(left) < MaxLeft
    /\ index' = held[u]
    /\ left' = left \cup {index}
    /\ mutex' = WriteUnlocked(mutex)
    /\ Goto(u, "close")
    /\ Hold(u, NoDir)
    /\ UNCHANGED <<status, disk>>

SetStatus(u) ==
    /\ pc[u] \in {"open", "close"}
    /\ CanWrite(mutex, u)
    /\ status' = IF pc[u] = "open" THEN "open" ELSE "closed"
    /\ mutex' = WriteUnlocked(mutex)
    /\ Goto(u, "idle")
    /\ UNCHANGED <<index, disk, held, left>>

-----------------------------------------------------------------------------
(* getMatchFile.  Every index has the file that is asked for.              *)

\* getFilePath looks at the status without the mutex.
RequestFile(f) ==
    /\ pc[f] \in {"idle", "contents", "notFound", "notOpened"}
    /\ status = "open"
    /\ Goto(f, "dir")
    /\ UNCHANGED <<mutex, index, status, disk, held, left>>

\* The directory is read under the read lock, which is released at once.
ReadDir(f) ==
    /\ pc[f] = "dir"
    /\ CanRLock(mutex)
    /\ Hold(f, index)
    /\ Goto(f, "stat")
    /\ UNCHANGED <<mutex, index, status, disk, left>>

\* Whether a directory has the file: one that could not be removed may or may not.
Outcomes(d) == IF d \in left THEN BOOLEAN ELSE {d \in disk}

\* os.Stat
Stat(f) ==
    /\ pc[f] = "stat"
    /\ \/ /\ TRUE \in Outcomes(held[f])
          /\ Goto(f, "path")
          /\ UNCHANGED held
       \/ /\ FALSE \in Outcomes(held[f])
          /\ Goto(f, "notFound")
          /\ Hold(f, NoDir)
    /\ UNCHANGED <<mutex, index, status, disk, left>>

\* os.Open of the path that getFilePath returned.
OpenFile(f) ==
    /\ pc[f] = "path"
    /\ \E found \in Outcomes(held[f]) :
          Goto(f, IF found THEN "contents" ELSE "notOpened")
    /\ Hold(f, NoDir)
    /\ UNCHANGED <<mutex, index, status, disk, left>>

-----------------------------------------------------------------------------
SearchStep == OuterRLock \/ InnerRLock \/ Finish

UpdateStep(u) ==
    \/ Lock(u) \/ UpdateMeta(u) \/ Build(u) \/ UpdateStats(u)
    \/ SwapIndexes(u) \/ SetStatus(u)

FileStep(f) == ReadDir(f) \/ Stat(f) \/ OpenFile(f)

Next ==
    \/ Visit \/ SearchStep
    \/ \E u \in Updates : 
          StartUpdate(u) \/ UpdateStep(u) \/ Fail(u) \/ BuildFails(u) \/ SwapFails(u)
    \/ \E f \in Files : RequestFile(f) \/ FileStep(f)

Spec == Init /\ [][Next]_vars

\* Goroutines that can run do.  The readers that wait when a writer is done get
\* in before the next one (sync.RWMutex), and each announced writer after them.
FairSpec ==
    /\ Spec
    /\ SF_vars(OuterRLock) /\ SF_vars(InnerRLock) /\ WF_vars(Finish)
    /\ \A u \in Updates : SF_vars(UpdateStep(u))
    /\ \A f \in Files : SF_vars(FileStep(f))

-----------------------------------------------------------------------------
(* Properties *)

\* While a search reads the files of an index, that index stays the one in place
\* and its directory stays on disk: SwapIndexes waits for it.
SearchedIndexStays ==
    pc[Search] = "grep" =>
        held[Search] = index /\ held[Search] # NoDir /\ index \in disk

\* Whoever has seen the status open finds an index when he reads it, though the
\* status may have changed since: no nil index is searched (search.go:205,
\* files.go:25).
OpenLeadsToIndex ==
    (\E p \in Procs : pc[p] \in {"outer", "inner", "grep", "dir", "stat", "path"})
        => index \in disk

\* Each directory on disk is the index in place, in the hands of an update that
\* will install it, or what a failed step has left behind: a step that succeeds
\* forgets none, and none that is in use is lost to a failed one.
NoDirIsForgotten ==
    /\ disk = ({index} \cup {held[u] : u \in Updates} \cup left) \ {NoDir}
    /\ left \cap ({index} \cup {held[u] : u \in Updates}) = {}

\* An announced update gets the mutex, unless the search is between its two read
\* locks: every other reader leaves by itself.
UpdatesGetIn ==
    \A u \in Updates :
        mutex.writer = u ~> (mutex.writer # u \/ pc[Search] = "inner")

\* extension.go:117: Search performs a search on the current index, so the
\* goroutine that calls it comes to an end.
SearchEnds == pc[Search] = "outer" ~> pc[Search] = "idle"
====
