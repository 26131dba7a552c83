------------------------ MODULE ExtensionIndexProofs ------------------------
(***************************************************************************)
(* Proofs about ExtensionIndex, for any number of updates and of requests  *)
(* for files: the index under a running search stays, nobody who saw the   *)
(* extension open finds no index, only failed steps leave directories      *)
(* behind, nothing but the search delays an update, and a search that is   *)
(* blocked is so for good.  The search is that of one goroutine, as in the *)
(* module; requests for files hold no lock while they read.                *)
(***************************************************************************)
EXTENDS ExtensionIndex, TLAPS

\* Where the three kinds of processes can be.
SearchPlaces == {"idle", "outer", "inner", "grep"}
UpdatePlaces == {"idle", "build"} \cup WriteSections
FilePlaces == {"idle", "dir", "stat", "path", "contents", "notFound", "notOpened"}

PlacesInv ==
    /\ DOMAIN pc = Procs /\ DOMAIN held = Procs
    /\ pc[Search] \in SearchPlaces
    /\ \A u \in Updates : pc[u] \in UpdatePlaces
    /\ \A f \in Files : pc[f] \in FilePlaces

\* The read locks that the search holds are told by where it is, and no one else
\* keeps one from one step to the next.
LocksInv ==
    /\ mutex \in Mutex
    /\ mutex.readers[Search] = CASE pc[Search] = "inner" -> 1
                                 [] pc[Search] = "grep" -> 2
                                 [] OTHER -> 0

\* Updates that have built a directory hold it until it is installed.
HasBuilt(u) == pc[u] \in {"stats", "swap"}

DirsInv ==
    /\ NoDirIsForgotten /\ NoDir \notin left
    /\ \A u \in Updates :
          IF HasBuilt(u) THEN held[u] \in disk /\ held[u] # index ELSE held[u] = NoDir
    /\ \A u, v \in Updates : u # v /\ HasBuilt(u) => held[u] # held[v]

\* Those that have seen the status open, or are about to set it.
SawOpen(p) == pc[p] \in {"outer", "inner", "grep", "dir", "stat", "path", "open"}

IndexInv ==
    /\ (status = "open" \/ \E p \in Procs : SawOpen(p)) => index # NoDir
    /\ pc[Search] = "grep" => held[Search] = index

ExtInv == PlacesInv /\ LocksInv /\ DirsInv /\ IndexInv

-----------------------------------------------------------------------------
LEMMA ExtInit == Init => ExtInv
  <1> SUFFICES ASSUME Init PROVE ExtInv
    OBVIOUS
  <1> USE ProcsAssumption DEF Init
  <1>1. PlacesInv
    BY DEF PlacesInv, SearchPlaces, UpdatePlaces, FilePlaces
  <1>2. LocksInv
    BY NoProcAssumption DEF LocksInv, Mutex, Unlocked
  <1>3. DirsInv
    BY DEF DirsInv, HasBuilt, NoDirIsForgotten
  <1>4. IndexInv
    BY DEF IndexInv, SawOpen
  <1> QED BY <1>1, <1>2, <1>3, <1>4 DEF ExtInv

\* A section of a writer runs when the search holds no lock.
LEMMA WriterIsAlone ==
    ASSUME PlacesInv, LocksInv, NEW u \in Updates, CanWrite(mutex, u)
    PROVE  /\ pc[Search] \in {"idle", "outer"}
           /\ WriteUnlocked(mutex) \in Mutex
           /\ WriteUnlocked(mutex).readers = mutex.readers
  <1>1. mutex.readers[Search] = 0
    BY ProcsAssumption DEF LocksInv, Mutex, CanWrite, HasReaders
  <1>2. pc[Search] \in {"idle", "outer"}
    BY <1>1 DEF LocksInv, PlacesInv, SearchPlaces
  <1>3. WriteUnlocked(mutex) \in Mutex /\ WriteUnlocked(mutex).readers = mutex.readers
    BY DEF LocksInv, Mutex, WriteUnlocked
  <1> QED BY <1>2, <1>3

\* A step of the search changes neither index, status nor disk.
LEMMA SearchKeeps ==
    ASSUME ExtInv, Visit \/ SearchStep
    PROVE  ExtInv'
  <1> USE DEF ExtInv
  <1> DEFINE to == pc'[Search]
  <1>1. /\ UNCHANGED <<index, status, disk, left>>
        /\ Search \in Procs /\ Search \notin Updates \cup Files
        /\ DOMAIN pc = Procs /\ DOMAIN held = Procs
    BY ProcsAssumption, DisjointAssumption
    DEF Visit, SearchStep, OuterRLock, InnerRLock, Finish, PlacesInv
  <1>2. /\ DOMAIN pc' = Procs /\ DOMAIN held' = Procs /\ to \in SearchPlaces
        /\ \A p \in Procs \ {Search} : pc'[p] = pc[p] /\ held'[p] = held[p]
    BY <1>1 DEF Visit, SearchStep, OuterRLock, InnerRLock, Finish, Goto, Hold, SearchPlaces
  <1>3. PlacesInv'
    BY <1>1, <1>2, ProcsAssumption DEF PlacesInv
  <1>4. LocksInv'
    <2>1. mutex = [readers |-> mutex.readers, writer |-> mutex.writer]
          /\ mutex.readers \in [Procs -> Nat] /\ mutex.writer \in Procs \cup {NoProc}
      BY DEF LocksInv, Mutex
    <2>2. CASE Visit
      BY <1>1, <2>2 DEF Visit, LocksInv, Goto
    <2>3. CASE OuterRLock
      BY <1>1, <2>1, <2>3 DEF OuterRLock, LocksInv, Goto, RLocked, Mutex
    <2>4. CASE InnerRLock
      BY <1>1, <2>1, <2>4 DEF InnerRLock, LocksInv, Goto, RLocked, Mutex
    <2>5. CASE Finish
      <3>1. mutex.readers[Search] = 2 /\ pc'[Search] = "idle"
        BY <1>1, <2>5 DEF Finish, LocksInv, Goto
      <3>2. RUnlocked(mutex, Search) =
               [mutex EXCEPT !.readers = [mutex.readers EXCEPT ![Search] = 1]]
        BY <3>1, <2>1 DEF RUnlocked
      <3>3. mutex'.readers = [mutex.readers EXCEPT ![Search] = 0] /\ mutex' \in Mutex
        BY <1>1, <2>1, <2>5, <3>1, <3>2 DEF Finish, RUnlocked, Mutex
      <3> QED BY <1>1, <2>1, <3>1, <3>3 DEF LocksInv
    <2> QED BY <2>2, <2>3, <2>4, <2>5 DEF SearchStep
  <1>5. DirsInv'
    <2>1. \A u \in Updates : pc'[u] = pc[u] /\ held'[u] = held[u]
      BY <1>1, <1>2, ProcsAssumption
    <2>2. \A u \in Updates : HasBuilt(u)' <=> HasBuilt(u)
      BY <2>1 DEF HasBuilt
    <2>3. NoDirIsForgotten'
      BY <1>1, <2>1 DEF DirsInv, NoDirIsForgotten
    <2> QED BY <1>1, <2>1, <2>2, <2>3 DEF DirsInv
  <1>6. IndexInv'
    <2>1. index # NoDir
      BY <1>1 DEF Visit, SearchStep, OuterRLock, InnerRLock, Finish, IndexInv, SawOpen
    <2>2. to = "grep" => held'[Search] = index
      BY <1>1 DEF Visit, SearchStep, OuterRLock, InnerRLock, Finish, Goto, Hold
    <2> QED BY <1>1, <2>1, <2>2 DEF IndexInv
  <1> QED BY <1>3, <1>4, <1>5, <1>6

\* Requests for files take no lock that outlives a step.
LEMMA FileKeeps ==
    ASSUME ExtInv, NEW f \in Files, RequestFile(f) \/ FileStep(f)
    PROVE  ExtInv'
  <1> USE DEF ExtInv
  <1>1. /\ UNCHANGED <<mutex, index, status, disk, left>>
        /\ f \in Procs /\ f # Search /\ f \notin Updates
        /\ DOMAIN pc = Procs /\ DOMAIN held = Procs
    BY ProcsAssumption, DisjointAssumption
    DEF RequestFile, FileStep, ReadDir, Stat, OpenFile, PlacesInv
  <1>2. /\ DOMAIN pc' = Procs /\ DOMAIN held' = Procs /\ pc'[f] \in FilePlaces
        /\ \A p \in Procs \ {f} : pc'[p] = pc[p] /\ held'[p] = held[p]
    BY <1>1 DEF RequestFile, FileStep, ReadDir, Stat, OpenFile, Goto, Hold, FilePlaces
  <1>3. PlacesInv'
    BY <1>1, <1>2, ProcsAssumption DEF PlacesInv
  <1>4. LocksInv'
    BY <1>1, <1>2, ProcsAssumption DEF LocksInv
  <1>5. DirsInv'
    <2>1. \A u \in Updates : pc'[u] = pc[u] /\ held'[u] = held[u]
      BY <1>1, <1>2, ProcsAssumption
    <2>2. \A u \in Updates : HasBuilt(u)' <=> HasBuilt(u)
      BY <2>1 DEF HasBuilt
    <2>3. NoDirIsForgotten'
      BY <1>1, <2>1 DEF DirsInv, NoDirIsForgotten
    <2> QED BY <1>1, <2>1, <2>2, <2>3 DEF DirsInv
  <1>6. IndexInv'
    <2>1. index # NoDir
      BY <1>1 DEF RequestFile, FileStep, ReadDir, Stat, OpenFile, IndexInv, SawOpen
    <2>2. pc'[Search] = pc[Search] /\ held'[Search] = held[Search]
      BY <1>1, <1>2, ProcsAssumption
    <2> QED BY <1>1, <2>1, <2>2 DEF IndexInv
  <1> QED BY <1>3, <1>4, <1>5, <1>6

\* What the steps of an update have in common.
UpdateOnly(u) ==
    /\ DOMAIN pc' = Procs /\ DOMAIN held' = Procs
    /\ pc'[u] \in UpdatePlaces
    /\ \A p \in Procs \ {u} : pc'[p] = pc[p] /\ held'[p] = held[p]

LEMMA UpdatePart ==
    ASSUME PlacesInv, NEW u \in Updates, UpdateOnly(u)
    PROVE  /\ PlacesInv'
           /\ \A p \in Procs \ {u} : pc'[p] = pc[p] /\ held'[p] = held[p]
           /\ u \in Procs /\ u # Search /\ u \notin Files
  BY ProcsAssumption, DisjointAssumption DEF PlacesInv, UpdateOnly

\* Those that change no directory.
LEMMA QuietUpdateKeeps ==
    ASSUME ExtInv, NEW u \in Updates,
           StartUpdate(u) \/ Lock(u) \/ UpdateMeta(u) \/ Fail(u) \/ UpdateStats(u) \/ SetStatus(u)
    PROVE  ExtInv'
  <1> USE DEF ExtInv
  <1>1. UNCHANGED <<index, disk, held, left>>
    BY DEF StartUpdate, Lock, UpdateMeta, Fail, UpdateStats, SetStatus
  <1>2. u \in Procs /\ DOMAIN pc = Procs /\ DOMAIN held = Procs
    BY ProcsAssumption DEF PlacesInv
  <1>3. UpdateOnly(u)
    BY <1>1, <1>2 DEF StartUpdate, Lock, UpdateMeta, Fail, UpdateStats, SetStatus, Goto,
                      UpdateOnly, UpdatePlaces, WriteSections, PlacesInv
  <1>4. /\ PlacesInv' /\ u # Search
        /\ \A p \in Procs \ {u} : pc'[p] = pc[p] /\ held'[p] = held[p]
    BY <1>3, UpdatePart
  <1>5. LocksInv'
    <2>1. mutex' \in Mutex /\ mutex'.readers = mutex.readers
      <3>1. CASE Lock(u)
        BY <1>2, <3>1 DEF Lock, LocksInv, Mutex, Announced
      <3>2. CASE UpdateMeta(u) \/ UpdateStats(u) \/ SetStatus(u)
        BY <3>2, WriterIsAlone DEF UpdateMeta, UpdateStats, SetStatus
      <3>3. CASE StartUpdate(u) \/ Fail(u)
        BY <3>3 DEF StartUpdate, Fail, LocksInv
      <3> QED BY <3>1, <3>2, <3>3
    <2>2. Search \in Procs \ {u}
      BY <1>4, ProcsAssumption
    <2> QED BY <1>4, <2>1, <2>2 DEF LocksInv
  <1>6. DirsInv'
    <2>1. HasBuilt(u)' <=> HasBuilt(u)
      BY <1>2 DEF HasBuilt, StartUpdate, Lock, UpdateMeta, Fail, UpdateStats, SetStatus, Goto,
                  PlacesInv
    <2>2. \A v \in Updates : HasBuilt(v)' <=> HasBuilt(v)
      BY <1>4, <2>1, ProcsAssumption DEF HasBuilt
    <2> QED BY <1>1, <2>2 DEF DirsInv, NoDirIsForgotten
  <1>7. IndexInv'
    <2>1. SawOpen(u)' => SawOpen(u)
      BY <1>2 DEF SawOpen, StartUpdate, Lock, UpdateMeta, Fail, UpdateStats, SetStatus, Goto,
                  PlacesInv
    <2>2. \A p \in Procs : SawOpen(p)' => SawOpen(p)
      BY <1>4, <2>1 DEF SawOpen
    <2>3. status' = "open" => status = "open" \/ SawOpen(u)
      BY DEF SawOpen, StartUpdate, Lock, UpdateMeta, Fail, UpdateStats, SetStatus
    <2>4. pc'[Search] = pc[Search]
      BY <1>4, ProcsAssumption
    <2> QED BY <1>1, <1>2, <2>2, <2>3, <2>4 DEF IndexInv
  <1> QED BY <1>4, <1>5, <1>6, <1>7

\* A new directory has a name that is not in use.
LEMMA BuildKeeps ==
    ASSUME ExtInv, NEW u \in Updates, Build(u)
    PROVE  ExtInv'
  <1> USE DEF ExtInv
  <1>1. PICK d \in Dirs \ disk :
          /\ disk' = disk \cup {d}
          /\ held' = [held EXCEPT ![u] = d] /\ pc' = [pc EXCEPT ![u] = "stats"]
          /\ UNCHANGED <<mutex, index, status, left>>
    BY DEF Build, NewNames, Goto, Hold
  <1>2. u \in Procs /\ held'[u] = d /\ pc'[u] = "stats"
    BY <1>1, ProcsAssumption DEF PlacesInv
  <1>3. UpdateOnly(u)
    BY <1>1, <1>2 DEF UpdateOnly, UpdatePlaces, WriteSections, PlacesInv
  <1>4. /\ PlacesInv' /\ u # Search
        /\ \A p \in Procs \ {u} : pc'[p] = pc[p] /\ held'[p] = held[p]
    BY <1>3, UpdatePart
  <1>5. Search \in Procs \ {u} /\ Updates \subseteq Procs
    BY <1>4, ProcsAssumption
  <1>6. LocksInv'
    BY <1>1, <1>4, <1>5 DEF LocksInv
  <1>7. DirsInv'
    <2>1. held[u] = NoDir
      BY DEF DirsInv, HasBuilt, Build
    <2>2. d # NoDir /\ d # index
      BY <1>1, NoDirAssumption DEF DirsInv, NoDirIsForgotten
    <2>3. \A v \in Updates \ {u} : held[v] # d
      BY <1>1, <2>2 DEF DirsInv
    <2>4. \A v \in Updates \ {u} : (HasBuilt(v)' <=> HasBuilt(v)) /\ held'[v] = held[v]
      BY <1>4, <1>5 DEF HasBuilt
    <2>5. NoDirIsForgotten'
      <3>1. {held'[v] : v \in Updates} = {held[v] : v \in Updates \ {u}} \cup {d}
        BY <1>2, <2>4
      <3>2. {held[v] : v \in Updates} = {held[v] : v \in Updates \ {u}} \cup {NoDir}
        BY <2>1
      <3> QED BY <1>1, <2>2, <3>1, <3>2 DEF DirsInv, NoDirIsForgotten
    <2>6. HasBuilt(u)' /\ held'[u] = d
      BY <1>2 DEF HasBuilt
    <2> QED BY <1>1, <2>2, <2>3, <2>4, <2>5, <2>6 DEF DirsInv
  <1>8. IndexInv'
    <2>1. \A p \in Procs : SawOpen(p)' => SawOpen(p)
      BY <1>2, <1>4 DEF SawOpen
    <2> QED BY <1>1, <1>4, <1>5, <2>1 DEF IndexInv
  <1> QED BY <1>4, <1>6, <1>7, <1>8

\* The old directory is removed when nobody has it in hand.
LEMMA SwapKeeps ==
    ASSUME ExtInv, NEW u \in Updates, SwapIndexes(u)
    PROVE  ExtInv'
  <1> USE DEF ExtInv
  <1>1. /\ pc[u] = "swap" /\ CanWrite(mutex, u)
        /\ index' = held[u] /\ disk' = disk \ {index} /\ UNCHANGED <<status, left>>
        /\ mutex' = WriteUnlocked(mutex)
        /\ pc' = [pc EXCEPT ![u] = "open"] /\ held' = [held EXCEPT ![u] = NoDir]
    BY DEF SwapIndexes, Goto, Hold
  <1>2. u \in Procs /\ held'[u] = NoDir /\ pc'[u] = "open"
    BY <1>1, ProcsAssumption DEF PlacesInv
  <1>3. UpdateOnly(u)
    BY <1>1, <1>2 DEF UpdateOnly, UpdatePlaces, WriteSections, PlacesInv
  <1>4. /\ PlacesInv' /\ u # Search
        /\ \A p \in Procs \ {u} : pc'[p] = pc[p] /\ held'[p] = held[p]
    BY <1>3, UpdatePart
  <1>5. Search \in Procs \ {u} /\ Updates \subseteq Procs
    BY <1>4, ProcsAssumption
  <1>6. /\ pc[Search] \in {"idle", "outer"}
        /\ mutex' \in Mutex /\ mutex'.readers = mutex.readers
    BY <1>1, WriterIsAlone
  <1>7. LocksInv'
    BY <1>4, <1>5, <1>6 DEF LocksInv
  <1>8. held[u] \in disk /\ held[u] # index /\ held[u] # NoDir
    BY <1>1 DEF DirsInv, HasBuilt, NoDirIsForgotten
  <1>9. DirsInv'
    <2>1. \A v \in Updates \ {u} : (HasBuilt(v)' <=> HasBuilt(v)) /\ held'[v] = held[v]
      BY <1>4, <1>5 DEF HasBuilt
    <2>2. \A v \in Updates \ {u} : HasBuilt(v) =>
             held[v] # held[u] /\ held[v] # index /\ held[v] \in disk
      BY <1>1 DEF DirsInv, HasBuilt
    <2>3. \A v \in Updates \ {u} : ~HasBuilt(v) => held[v] = NoDir
      BY DEF DirsInv
    <2>4. ~HasBuilt(u)'
      BY <1>2 DEF HasBuilt
    <2>5. NoDirIsForgotten'
      <3>1. {held'[v] : v \in Updates} = {held[v] : v \in Updates \ {u}} \cup {NoDir}
        BY <1>2, <2>1
      <3>2. {held[v] : v \in Updates} = {held[v] : v \in Updates \ {u}} \cup {held[u]}
        OBVIOUS
      <3>3. index \in {held[v] : v \in Updates \ {u}} => index = NoDir
        BY <2>2, <2>3
      <3> QED BY <1>1, <1>8, <3>1, <3>2, <3>3 DEF DirsInv, NoDirIsForgotten
    <2>6. \A v \in Updates : HasBuilt(v)' => v # u /\ HasBuilt(v) /\ held'[v] = held[v]
      BY <2>1, <2>4
    <2>7. \A v \in Updates : HasBuilt(v)' => held'[v] \in disk' /\ held'[v] # index'
      BY <1>1, <2>2, <2>6
    <2>8. \A v \in Updates : ~HasBuilt(v)' => held'[v] = NoDir
      BY <1>2, <2>1, <2>3
    <2>9. \A v, w \in Updates : v # w /\ HasBuilt(v)' => held'[v] # held'[w]
      <3> SUFFICES ASSUME NEW v \in Updates, NEW w \in Updates, v # w, HasBuilt(v)'
                   PROVE  held'[v] # held'[w]
        OBVIOUS
      <3>1. v # u /\ HasBuilt(v) /\ held'[v] = held[v] /\ held[v] # held[w] /\ held[v] # NoDir
        BY <2>6 DEF DirsInv, NoDirIsForgotten
      <3>2. held'[w] \in {held[w], NoDir}
        BY <1>2, <2>1
      <3> QED BY <3>1, <3>2
    <2> QED BY <1>1, <2>5, <2>7, <2>8, <2>9 DEF DirsInv
  <1>10. IndexInv'
    BY <1>1, <1>4, <1>5, <1>6, <1>8 DEF IndexInv
  <1> QED BY <1>4, <1>7, <1>9, <1>10

\* What a failed build leaves behind has a new name too.
LEMMA BuildFailsKeeps ==
    ASSUME ExtInv, NEW u \in Updates, BuildFails(u)
    PROVE  ExtInv'
  <1> USE DEF ExtInv
  <1>1. PICK d \in Dirs \ disk :
          /\ disk' = disk \cup {d} /\ left' = left \cup {d}
          /\ pc[u] = "build" /\ pc' = [pc EXCEPT ![u] = "close"]
          /\ UNCHANGED <<mutex, index, status, held>>
    BY DEF BuildFails, NewNames, Goto
  <1>2. u \in Procs /\ pc'[u] = "close"
    BY <1>1, ProcsAssumption DEF PlacesInv
  <1>3. UpdateOnly(u)
    BY <1>1, <1>2 DEF UpdateOnly, UpdatePlaces, WriteSections, PlacesInv
  <1>4. /\ PlacesInv' /\ u # Search
        /\ \A p \in Procs \ {u} : pc'[p] = pc[p] /\ held'[p] = held[p]
    BY <1>3, UpdatePart
  <1>5. Search \in Procs \ {u} /\ Updates \subseteq Procs
    BY <1>4, ProcsAssumption
  <1>6. LocksInv'
    BY <1>1, <1>4, <1>5 DEF LocksInv
  <1>7. DirsInv'
    <2>1. d # NoDir /\ d # index /\ d \notin {held[v] : v \in Updates}
      BY <1>1, NoDirAssumption DEF DirsInv, NoDirIsForgotten
    <2>2. \A v \in Updates : HasBuilt(v)' <=> HasBuilt(v)
      BY <1>1, <1>2, <1>4, <1>5 DEF HasBuilt
    <2>3. NoDirIsForgotten'
      BY <1>1, <2>1 DEF DirsInv, NoDirIsForgotten
    <2> QED BY <1>1, <2>1, <2>2, <2>3 DEF DirsInv
  <1>8. IndexInv'
    <2>1. \A p \in Procs : SawOpen(p)' => SawOpen(p)
      BY <1>2, <1>4 DEF SawOpen
    <2> QED BY <1>1, <1>4, <1>5, <2>1 DEF IndexInv
  <1> QED BY <1>4, <1>6, <1>7, <1>8

\* The old directory stays when Destroy fails, but nobody has it in hand any more.
LEMMA SwapFailsKeeps ==
    ASSUME ExtInv, NEW u \in Updates, SwapFails(u)
    PROVE  ExtInv'
  <1> USE DEF ExtInv
  <1>1. /\ pc[u] = "swap" /\ CanWrite(mutex, u) /\ index # NoDir
        /\ index' = held[u] /\ left' = left \cup {index} /\ UNCHANGED <<status, disk>>
        /\ mutex' = WriteUnlocked(mutex)
        /\ pc' = [pc EXCEPT ![u] = "close"] /\ held' = [held EXCEPT ![u] = NoDir]
    BY DEF SwapFails, Goto, Hold
  <1>2. u \in Procs /\ held'[u] = NoDir /\ pc'[u] = "close"
    BY <1>1, ProcsAssumption DEF PlacesInv
  <1>3. UpdateOnly(u)
    BY <1>1, <1>2 DEF UpdateOnly, UpdatePlaces, WriteSections, PlacesInv
  <1>4. /\ PlacesInv' /\ u # Search
        /\ \A p \in Procs \ {u} : pc'[p] = pc[p] /\ held'[p] = held[p]
    BY <1>3, UpdatePart
  <1>5. Search \in Procs \ {u} /\ Updates \subseteq Procs
    BY <1>4, ProcsAssumption
  <1>6. /\ pc[Search] \in {"idle", "outer"}
        /\ mutex' \in Mutex /\ mutex'.readers = mutex.readers
    BY <1>1, WriterIsAlone
  <1>7. LocksInv'
    BY <1>4, <1>5, <1>6 DEF LocksInv
  <1>8. held[u] \in disk /\ held[u] # index /\ held[u] # NoDir
    BY <1>1 DEF DirsInv, HasBuilt, NoDirIsForgotten
  <1>9. DirsInv'
    <2>1. \A v \in Updates \ {u} : (HasBuilt(v)' <=> HasBuilt(v)) /\ held'[v] = held[v]
      BY <1>4, <1>5 DEF HasBuilt
    <2>2. \A v \in Updates \ {u} : HasBuilt(v) =>
             held[v] # held[u] /\ held[v] # index /\ held[v] \in disk
      BY <1>1 DEF DirsInv, HasBuilt
    <2>3. \A v \in Updates \ {u} : ~HasBuilt(v) => held[v] = NoDir
      BY DEF DirsInv
    <2>4. ~HasBuilt(u)'
      BY <1>2 DEF HasBuilt
    <2>5. NoDirIsForgotten'
      <3>1. {held'[v] : v \in Updates} = {held[v] : v \in Updates \ {u}} \cup {NoDir}
        BY <1>2, <2>1
      <3>2. {held[v] : v \in Updates} = {held[v] : v \in Updates \ {u}} \cup {held[u]}
        OBVIOUS
      <3>3. index \notin {held[v] : v \in Updates \ {u}}
        BY <1>1, <2>2, <2>3
      <3>4. NoDir \notin left \cup {index} /\ held[u] \notin left \cup {index}
        BY <1>1, <1>8, <3>2 DEF DirsInv, NoDirIsForgotten
      <3> QED BY <1>1, <1>8, <3>1, <3>2, <3>3, <3>4 DEF DirsInv, NoDirIsForgotten
    <2>6. \A v \in Updates : HasBuilt(v)' => v # u /\ HasBuilt(v) /\ held'[v] = held[v]
      BY <2>1, <2>4
    <2>7. \A v \in Updates : HasBuilt(v)' => held'[v] \in disk' /\ held'[v] # index'
      BY <1>1, <2>2, <2>6
    <2>8. \A v \in Updates : ~HasBuilt(v)' => held'[v] = NoDir
      BY <1>2, <2>1, <2>3
    <2>9. \A v, w \in Updates : v # w /\ HasBuilt(v)' => held'[v] # held'[w]
      <3> SUFFICES ASSUME NEW v \in Updates, NEW w \in Updates, v # w, HasBuilt(v)'
                   PROVE  held'[v] # held'[w]
        OBVIOUS
      <3>1. v # u /\ HasBuilt(v) /\ held'[v] = held[v] /\ held[v] # held[w] /\ held[v] # NoDir
        BY <2>6 DEF DirsInv, NoDirIsForgotten
      <3>2. held'[w] \in {held[w], NoDir}
        BY <1>2, <2>1
      <3> QED BY <3>1, <3>2
    <2> QED BY <1>1, <2>5, <2>7, <2>8, <2>9 DEF DirsInv
  <1>10. IndexInv'
    BY <1>1, <1>4, <1>5, <1>6, <1>8 DEF IndexInv
  <1> QED BY <1>4, <1>7, <1>9, <1>10

LEMMA ExtStep == ExtInv /\ [Next]_vars => ExtInv'
  <1> SUFFICES ASSUME ExtInv, [Next]_vars PROVE ExtInv'
    OBVIOUS
  <1>1. CASE UNCHANGED vars
    BY <1>1 DEF vars, ExtInv, PlacesInv, LocksInv, DirsInv, NoDirIsForgotten, HasBuilt,
                IndexInv, SawOpen
  <1> QED BY <1>1, SearchKeeps, FileKeeps, QuietUpdateKeeps, BuildKeeps, SwapKeeps,
             BuildFailsKeeps, SwapFailsKeeps
          DEF Next, UpdateStep

LEMMA ExtAlways == Spec => []ExtInv
  BY ExtInit, ExtStep, PTL DEF Spec

-----------------------------------------------------------------------------
\* While the goroutine of a search reads the files of an index (its step grep, under the
\* locks of search.go:212 and extension.go:120), that index stays in place and on disk,
\* however many updates run and wherever they fail.  Requests for files are not covered:
\* they hold no lock while they read.
THEOREM SearchIsUndisturbed == Spec => []SearchedIndexStays
  <1>1. ExtInv => SearchedIndexStays
    <2> SUFFICES ASSUME ExtInv, pc[Search] = "grep"
                 PROVE  held[Search] = index /\ held[Search] # NoDir /\ index \in disk
      BY DEF SearchedIndexStays
    <2>1. SawOpen(Search) /\ Search \in Procs
      BY ProcsAssumption DEF SawOpen
    <2> QED BY <2>1 DEF ExtInv, IndexInv, DirsInv, NoDirIsForgotten
  <1> QED BY <1>1, ExtAlways, PTL

\* Whoever has seen the status open finds an index, although he looks later and the
\* status is read without the lock.
THEOREM OpenIsIndexed == Spec => []OpenLeadsToIndex
  <1>1. ExtInv => OpenLeadsToIndex
    <2> SUFFICES ASSUME ExtInv, NEW p \in Procs,
                        pc[p] \in {"outer", "inner", "grep", "dir", "stat", "path"}
                 PROVE  index \in disk
      BY DEF OpenLeadsToIndex
    <2>1. SawOpen(p)
      BY DEF SawOpen
    <2> QED BY <2>1 DEF ExtInv, IndexInv, DirsInv, NoDirIsForgotten
  <1> QED BY <1>1, ExtAlways, PTL

\* Every directory on disk is the index in place, one that an update is about to install,
\* or what a failed step left behind (BuildFromZip after its first Mkdir, Destroy of the old
\* index), and these three stay apart, however many updates run.
THEOREM DirsAreAccountedFor == Spec => []NoDirIsForgotten
  <1>1. ExtInv => NoDirIsForgotten
    BY DEF ExtInv, DirsInv
  <1> QED BY <1>1, ExtAlways, PTL

-----------------------------------------------------------------------------
(* Two read locks and a writer in between                                   *)

\* No one but the search is a reader from one step to the next.
OnlySearchReads == \A p \in Procs \ {Search} : mutex.readers[p] = 0

LEMMA OnlySearchReadsAlways == Spec => []OnlySearchReads
  <1>1. Init => OnlySearchReads
    <2>1. Unlocked.readers = [p \in Procs |-> 0]
      BY DEF Unlocked
    <2> QED BY <2>1 DEF Init, OnlySearchReads
  <1>2. ASSUME ExtInv, OnlySearchReads, [Next]_vars PROVE OnlySearchReads'
    <2>1. mutex \in Mutex /\ Search \in Procs
      BY <1>2, ProcsAssumption DEF ExtInv, LocksInv
    <2>2. CASE SearchStep
      <3>1. PICK n, w : mutex' = [readers |-> [mutex.readers EXCEPT ![Search] = n], writer |-> w]
        <4>1. mutex = [readers |-> mutex.readers, writer |-> mutex.writer]
          BY <2>1 DEF Mutex
        <4>2. RLocked(mutex, Search) =
                 [readers |-> [mutex.readers EXCEPT ![Search] = @ + 1], writer |-> mutex.writer]
          BY <4>1 DEF RLocked
        <4>3. \A m \in Mutex : RUnlocked(m, Search) =
                 [readers |-> [m.readers EXCEPT ![Search] = @ - 1], writer |-> m.writer]
          BY DEF RUnlocked, Mutex
        <4>4. \A r \in [Procs -> Nat] : \A a, b :
                 [[r EXCEPT ![Search] = a] EXCEPT ![Search] = b] = [r EXCEPT ![Search] = b]
          OBVIOUS
        <4>5. CASE Finish
          <5>1. mutex.readers[Search] = 2
            BY <1>2, <4>5 DEF Finish, ExtInv, LocksInv
          <5>2. /\ RUnlocked(mutex, Search) =
                     [readers |-> [mutex.readers EXCEPT ![Search] = 1], writer |-> mutex.writer]
                /\ RUnlocked(mutex, Search) \in Mutex
            BY <2>1, <4>3, <5>1 DEF Mutex
          <5>3. RUnlocked(RUnlocked(mutex, Search), Search).readers
                  = [mutex.readers EXCEPT ![Search] = 0]
            BY <2>1, <4>3, <4>4, <5>2 DEF Mutex
          <5>4. mutex' = [readers |-> mutex'.readers, writer |-> mutex'.writer]
            BY <4>3, <4>5, <5>2 DEF Finish
          <5> QED BY <4>5, <5>3, <5>4 DEF Finish
        <4> QED BY <2>2, <4>2, <4>5 DEF SearchStep, OuterRLock, InnerRLock
      <3> QED BY <1>2, <2>1, <3>1 DEF OnlySearchReads, Mutex
    <2>3. CASE ~SearchStep
      <3>1. mutex'.readers = mutex.readers
        BY <1>2, <2>1, <2>3
        DEF Next, Visit, StartUpdate, UpdateStep, Fail, BuildFails, SwapFails, RequestFile, FileStep, Lock, UpdateMeta,
            Build, UpdateStats, SwapIndexes, SetStatus, ReadDir, Stat, OpenFile, vars, Announced,
            WriteUnlocked, Mutex
      <3> QED BY <1>2, <3>1 DEF OnlySearchReads
    <2> QED BY <2>2, <2>3
  <1>3. ExtInv /\ OnlySearchReads /\ [Next]_vars => OnlySearchReads'
    BY <1>2
  <1> QED BY <1>1, <1>3, ExtAlways, PTL DEF Spec

\* An update that has announced itself has the extension to itself as soon as the search
\* holds no lock of it: neither requests for files nor other updates keep it waiting.
THEOREM OnlyTheSearchDelaysUpdates ==
    Spec => [](\A u \in Updates :
                  mutex.writer = u => CanWrite(mutex, u) \/ pc[Search] \in {"inner", "grep"})
  <1>1. ExtInv /\ OnlySearchReads
        => \A u \in Updates :
              mutex.writer = u => CanWrite(mutex, u) \/ pc[Search] \in {"inner", "grep"}
    BY DEF ExtInv, PlacesInv, SearchPlaces, LocksInv, OnlySearchReads, CanWrite, HasReaders
  <1> QED BY <1>1, ExtAlways, OnlySearchReadsAlways, PTL

\* The goroutine of a search has its first read lock, and an update has announced itself
\* before the second.
SearchBlocked == pc[Search] = "inner" /\ mutex.writer # NoProc

\* That is for good, however many updates and requests there are: the search waits for the
\* update, the update for the search, and nobody gets the lock of the extension any more.
THEOREM BlockedForGood ==
    Spec => [][SearchBlocked => SearchBlocked' /\ UNCHANGED <<mutex, index, status>>]_vars
  <1>1. ASSUME ExtInv, SearchBlocked, [Next]_vars
        PROVE  SearchBlocked' /\ UNCHANGED <<mutex, index, status>>
    <2>1. HasReaders(mutex) /\ Search \notin Updates \cup Files /\ DOMAIN pc = Procs
      BY <1>1, ProcsAssumption, DisjointAssumption
      DEF SearchBlocked, ExtInv, LocksInv, PlacesInv, HasReaders
    <2>2. CASE UNCHANGED vars
      BY <1>1, <2>2 DEF vars, SearchBlocked
    <2>3. ASSUME NEW p \in Updates \cup Files,
                 \/ p \in Updates /\ (StartUpdate(p) \/ Build(p) \/ Fail(p) \/ BuildFails(p))
                 \/ p \in Files /\ (RequestFile(p) \/ Stat(p) \/ OpenFile(p))
          PROVE  SearchBlocked' /\ UNCHANGED <<mutex, index, status>>
      <3>1. UNCHANGED <<mutex, index, status>> /\ \E to : Goto(p, to)
        BY <2>3 DEF StartUpdate, Build, Fail, BuildFails, RequestFile, Stat, OpenFile
      <3>2. pc'[Search] = pc[Search]
        BY <2>1, <3>1 DEF Goto
      <3> QED BY <1>1, <3>1, <3>2 DEF SearchBlocked
    <2>4. ~Visit /\ ~SearchStep /\ \A f \in Files : ~ReadDir(f)
      BY <1>1 DEF SearchBlocked, Visit, SearchStep, OuterRLock, InnerRLock, Finish, ReadDir, CanRLock
    <2>5. \A u \in Updates : ~Lock(u) /\ ~UpdateMeta(u) /\ ~UpdateStats(u) /\ ~SwapIndexes(u)
                            /\ ~SwapFails(u) /\ ~SetStatus(u)
      BY <1>1, <2>1 DEF SearchBlocked, Lock, CanAnnounce, UpdateMeta, UpdateStats, SwapIndexes,
                        SwapFails, SetStatus, CanWrite
    <2> QED BY <1>1, <2>2, <2>3, <2>4, <2>5 DEF Next, UpdateStep, FileStep
  <1>2. ExtInv /\ [Next]_vars
        => [SearchBlocked => SearchBlocked' /\ UNCHANGED <<mutex, index, status>>]_vars
    BY <1>1
  <1> QED BY <1>2, ExtAlways, PTL DEF Spec
=============================================================================
