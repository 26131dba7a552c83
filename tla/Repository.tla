------------------------------ MODULE Repository ------------------------------
(***************************************************************************)
(* internal/repo: one Repo (plugins or themes), its update queue, the      *)
(* update workers, the change log job, start-up and restarts.              *)
(*                                                                         *)
(* The directory on wordpress.org is `log', the sequence of its changes:   *)
(* change i is revision i and touches the extension log[i].  An archive    *)
(* that is downloaded holds the last change of its extension; that number  *)
(* stands for the content of an index.                                     *)
(*                                                                         *)
(* An Extension is its status and its index.  objs[s] are the structs that *)
(* Add and LoadExisting made for the slug s in this process, in order: the *)
(* last one is r.List[s], the others are reachable from a worker only.     *)
(* The critical sections of the Repo's RWMutex are single steps, but for   *)
(* the two that keep the read lock during a call: save during PutToBucket  *)
(* and jobCheckChangelog during GetChangeLog.                              *)
(***************************************************************************)
EXTENDS Integers, Sequences, FiniteSets, FiniteSetsExt

CONSTANTS
    Slugs,       \* the extensions of the directory
    NoSlug,      \* "no extension"
    Workers,     \* the update workers (Config.UpdateWorkers)
    QueueCap,    \* the capacity of updateQueue
    Limit,       \* Config.PluginLimit: how many extensions UpdateList takes
    FreshFlags,  \* the values of the -fresh flag a start may have
    MaxRev,      \* bound: the directory's last revision
    MaxDirs,     \* bound: the highest name of an index directory
    MaxCrashes,  \* bound: how often the process is killed and started again
    MaxFaults    \* bound: failed downloads, builds, removals and writes

ASSUME SlugsAssumption == IsFiniteSet(Slugs) /\ Cardinality(Slugs) <= MaxRev
ASSUME NoSlugAssumption == NoSlug \notin Slugs
ASSUME QueueCapAssumption == QueueCap \in Nat \ {0}
ASSUME LimitAssumption == Limit \in Nat
ASSUME FreshAssumption == FreshFlags \subseteq BOOLEAN
ASSUME RepoBounds == {MaxRev, MaxDirs, MaxCrashes, MaxFaults} \subseteq Nat

VARIABLES
    log,      \* the changes of the directory
    phase,    \* where LoadData is
    fresh,    \* the -fresh flag of this process
    list,     \* the extensions UpdateList has still to visit
    listRev,  \* the revision it gives to their updates
    objs,     \* the Extension structs, by slug
    revision, \* Repo.Revision
    total,    \* Repo.Total
    closed,   \* Repo.Closed
    queue,    \* updateQueue
    wk,       \* the update workers
    job,      \* the running jobCheckChangelog
    dbExts,   \* the keys of the extensions' bucket
    dbRev,    \* repos/<type>: the saved revision, 0 for none
    disk,     \* the index directories with a manifest
    crashes,  \* the process is the (crashes + 1)-th
    faults    \* failures so far

loadVars == <<phase, fresh, list, listRev>>
countVars == <<total, closed>>
dbVars == <<dbExts, dbRev>>
envVars == <<crashes, faults>>
vars == <<log, loadVars, objs, revision, countVars, queue, wk, job, dbVars, disk,
          envVars>>

-----------------------------------------------------------------------------
Revs == 0..MaxRev
Dirs == 1..MaxDirs      \* names of index directories; 0 is no directory
Extension == [status : {"open", "closed"}, dir : 0..MaxDirs]
UpdateRequest == [slug : Slugs, rev : Revs]

IdleWorker == [pc |-> "idle", slug |-> NoSlug, rev |-> 0, obj |-> 0, got |-> 0,
               dir |-> 0]
IdleJob == [pc |-> "idle", latest |-> 0, todo |-> {}]

\* Repo.Exists, and the position of r.List[s] in objs[s].
Exists(s) == objs[s] # <<>>
Current(s) == Len(objs[s])

\* Directories are named by ULIDs: later ones have greater names, and only the
\* order of the names on disk matters.
IsNewDir(i) ==
    /\ \A d \in disk : d.id < i
    /\ i = 1 \/ \E d \in disk : d.id = i - 1
Without(i) == {d \in disk : d.id # i}

LastChange(s) == Max({0} \cup {i \in DOMAIN log : log[i] = s})
Latest == Len(log)

\* A variant of RFree: save releases the read lock before it writes.
RFreeDuringSave == job.pc # "log"

\* The Repo's write lock is free when nobody keeps the read lock.
RFree == job.pc # "log" /\ \A w \in Workers : wk[w].pc # "put"

\* The first process finds no data, and a directory where every extension has
\* been published once.
Init ==
    /\ log \in {f \in [1..Cardinality(Slugs) -> Slugs] :
                   \A s \in Slugs : \E i \in DOMAIN f : f[i] = s}
    /\ phase = "load"
    /\ fresh \in FreshFlags
    /\ list = {}
    /\ listRev = 0
    /\ objs = [s \in Slugs |-> <<>>]
    /\ revision = 0
    /\ total = 0
    /\ closed = 0
    /\ queue = <<>>
    /\ wk = [w \in Workers |-> IdleWorker]
    /\ job = IdleJob
    /\ dbExts = {}
    /\ dbRev = 0
    /\ disk = {}
    /\ crashes = 0
    /\ faults = 0

-----------------------------------------------------------------------------
(* Variants of the definitions below with a plausible mistake.             *)

\* The index that is installed is destroyed in place of the old one.
SwapDestroysNew(w) ==
    LET s == wk[w].slug
    IN  /\ wk[w].pc = "swap"
        /\ objs' = [objs EXCEPT ![s][wk[w].obj].dir = wk[w].dir]
        /\ disk' = Without(wk[w].dir)
        /\ wk' = [wk EXCEPT ![w].pc = "open"]
        /\ UNCHANGED <<log, loadVars, revision, countVars, queue, job, dbVars,
                       envVars>>

\* The old index is not destroyed.
SwapKeepsOld(w) ==
    LET s == wk[w].slug
    IN  /\ wk[w].pc = "swap"
        /\ objs' = [objs EXCEPT ![s][wk[w].obj].dir = wk[w].dir]
        /\ wk' = [wk EXCEPT ![w].pc = "open"]
        /\ UNCHANGED <<log, loadVars, revision, countVars, queue, job, dbVars,
                       disk, envVars>>

\* SetStatus without the test of the old status.
ClosedAfterAlways(old, new) == (closed - 1) + (IF new = "closed" THEN 1 ELSE 0)

\* The revision after the one of the update is set.
SetRevPast(w) ==
    /\ wk[w].pc = "setrev"
    /\ RFree
    /\ revision' = IF wk[w].rev > revision THEN wk[w].rev + 1 ELSE revision
    /\ wk' = [wk EXCEPT ![w].pc = "save"]
    /\ UNCHANGED <<log, loadVars, objs, countVars, queue, job, dbVars, disk,
                   envVars>>

\* The directory is named after the extension.
BuildNamedBySlug(w) ==
    /\ wk[w].pc = "build"
    /\ \E i \in Dirs :
          /\ IF \E d \in disk : d.slug = wk[w].slug
             THEN \E d \in disk : d.slug = wk[w].slug /\ d.id = i
             ELSE IsNewDir(i)
          /\ disk' = Without(i) \cup
                      {[id |-> i, slug |-> wk[w].slug, ver |-> wk[w].got]}
          /\ wk' = [wk EXCEPT ![w].pc = "swap", ![w].dir = i, ![w].got = 0]
    /\ UNCHANGED <<log, loadVars, objs, revision, countVars, queue, job, dbVars,
                   envVars>>

\* The workers are started once the queue is empty.
StartUpdateWorkersLater ==
    /\ phase = "queue"
    /\ list = {}
    /\ queue = <<>>
    /\ phase' = "ready"
    /\ UNCHANGED <<log, fresh, list, listRev, objs, revision, countVars, queue, wk,
                   job, dbVars, disk, envVars>>

\* Of two indexes of an extension start-up keeps the older one.
KeptDirsOldest ==
    {d \in disk : d.slug \in dbExts
                  /\ \A e \in disk : e.slug = d.slug => e.id >= d.id}

\* The job waits for a queue that has something in it.
JobStartWhenBusy ==
    /\ job.pc = "idle"
    /\ queue # <<>>
    /\ job' = [job EXCEPT !.pc = "rev"]
    /\ UNCHANGED <<log, loadVars, objs, revision, countVars, queue, wk, dbVars,
                   disk, envVars>>

-----------------------------------------------------------------------------
(* wordpress.org *)

\* An extension is changed.
Commit(s) ==
    /\ Len(log) < MaxRev
    /\ log' = Append(log, s)
    /\ UNCHANGED <<loadVars, objs, revision, countVars, queue, wk, job, dbVars,
                   disk, envVars>>

\* GetChangeLog: the extensions with a change after `from' and up to `to'; the
\* job keeps the last revision of each.
Changes(from, to) ==
    {u \in UpdateRequest :
        /\ u.rev \in (from + 1)..to
        /\ log[u.rev] = u.slug
        /\ \A i \in (u.rev + 1)..to : log[i] # u.slug}

-----------------------------------------------------------------------------
(* LoadData *)

\* Start-up keeps the last index of every extension with a record: the ones
\* before it are destroyed by SwapIndexes, the others are removed.
KeptDirs ==
    {d \in disk : d.slug \in dbExts
                  /\ \A e \in disk : e.slug = d.slug => e.id <= d.id}

Loaded(kept, s) ==
    IF \E d \in kept : d.slug = s
    THEN [status |-> "open", dir |-> (CHOOSE d \in kept : d.slug = s).id]
    ELSE [status |-> "closed", dir |-> 0]

\* An extension with an index is open, the counters are taken anew.
LoadIndexes(kept, rest) ==
    /\ phase = "load"
    /\ objs' = [s \in Slugs |-> IF s \in dbExts THEN <<Loaded(kept, s)>> ELSE <<>>]
    /\ disk' = kept \cup rest
    /\ total' = Cardinality(dbExts)
    /\ closed' = Cardinality({s \in dbExts : \A d \in kept : d.slug # s})
    /\ phase' = "list"
    /\ UNCHANGED <<log, fresh, list, listRev, revision, queue, wk, job, dbVars, crashes>>

LoadExisting == LoadIndexes(KeptDirs, {}) /\ UNCHANGED faults

\* One directory that is to go stays.  If SwapIndexes was to destroy it for the last
\* one of its extension, that one is installed nevertheless, the extension closed,
\* and the directory of the index it has now removed (repo.go:725).
LoadFails(d) ==
    LET IsPrevious == /\ d.slug \in dbExts
                      /\ \A e \in disk : e.slug = d.slug /\ e.id > d.id => e \in KeptDirs
    IN  /\ faults < MaxFaults
        /\ faults' = faults + 1
        /\ LoadIndexes({e \in KeptDirs : IsPrevious => e.slug # d.slug}, {d})

\* UpdateList fetches the list, the revision and, with a limit, the dates that
\* select the extensions it takes.
FetchList ==
    /\ phase = "list"
    /\ \E S \in SUBSET Slugs :
          /\ IF Limit = 0 \/ Limit >= Cardinality(Slugs)
             THEN S = Slugs
             ELSE Cardinality(S) \in (Limit \div 2)..Limit
          /\ list' = S
    /\ listRev' = Latest
    /\ phase' = "queue"
    /\ UNCHANGED <<log, fresh, objs, revision, countVars, queue, wk, job, dbVars,
                   disk, envVars>>

\* Its loop: add what is new; with -fresh or no revision queue an update,
\* which blocks while the queue is full.
ListNext(s) ==
    /\ phase = "queue"
    /\ s \in list
    /\ IF Exists(s)
       THEN UNCHANGED <<objs, countVars>>
       ELSE /\ RFree
            /\ objs' = [objs EXCEPT ![s] = <<[status |-> "closed", dir |-> 0]>>]
            /\ total' = total + 1
            /\ closed' = closed + 1
    /\ IF fresh \/ revision = 0
       THEN /\ Len(queue) < QueueCap
            /\ queue' = Append(queue, [slug |-> s, rev |-> listRev])
       ELSE UNCHANGED queue
    /\ list' = list \ {s}
    /\ UNCHANGED <<log, phase, fresh, listRev, revision, wk, job, dbVars, disk,
                   envVars>>

StartUpdateWorkers ==
    /\ phase = "queue"
    /\ list = {}
    /\ phase' = "ready"
    /\ UNCHANGED <<log, fresh, list, listRev, objs, revision, countVars, queue, wk,
                   job, dbVars, disk, envVars>>

-----------------------------------------------------------------------------
(* The update workers: ProcessUpdate. *)

\* Receive a request, and Repo.Exists.
Take(w) ==
    /\ phase = "ready"
    /\ wk[w].pc = "idle"
    /\ queue # <<>>
    /\ queue' = Tail(queue)
    /\ wk' = [wk EXCEPT ![w] =
                 [IdleWorker EXCEPT !.pc = IF Exists(Head(queue).slug)
                                           THEN "get" ELSE "add",
                                    !.slug = Head(queue).slug,
                                    !.rev = Head(queue).rev]]
    /\ UNCHANGED <<log, loadVars, objs, revision, countVars, job, dbVars, disk,
                   envVars>>

Add(w) ==
    /\ wk[w].pc = "add"
    /\ RFree
    /\ objs' = [objs EXCEPT ![wk[w].slug] =
                   Append(@, [status |-> "closed", dir |-> 0])]
    /\ total' = total + 1
    /\ closed' = closed + 1
    /\ wk' = [wk EXCEPT ![w].pc = "get"]
    /\ UNCHANGED <<log, loadVars, revision, queue, job, dbVars, disk, envVars>>

Get(w) ==
    /\ wk[w].pc = "get"
    /\ wk' = [wk EXCEPT ![w].pc = "fetch", ![w].obj = Current(wk[w].slug)]
    /\ UNCHANGED <<log, loadVars, objs, revision, countVars, queue, job, dbVars,
                   disk, envVars>>

\* updateMeta and getArchive.
Fetch(w) ==
    /\ wk[w].pc = "fetch"
    /\ wk' = [wk EXCEPT ![w].pc = "build", ![w].got = LastChange(wk[w].slug)]
    /\ UNCHANGED <<log, loadVars, objs, revision, countVars, queue, job, dbVars,
                   disk, envVars>>

\* generateIndex: a new directory, whose manifest is written last.
Build(w) ==
    /\ wk[w].pc = "build"
    /\ \E i \in Dirs :
          /\ IsNewDir(i)
          /\ disk' = disk \cup {[id |-> i, slug |-> wk[w].slug, ver |-> wk[w].got]}
          /\ wk' = [wk EXCEPT ![w].pc = "swap", ![w].dir = i, ![w].got = 0]
    /\ UNCHANGED <<log, loadVars, objs, revision, countVars, queue, job, dbVars,
                   envVars>>

\* SwapIndexes: install the new index, then destroy the old one.
Swap(w) ==
    LET s == wk[w].slug
        old == objs[s][wk[w].obj].dir
    IN  /\ wk[w].pc = "swap"
        /\ objs' = [objs EXCEPT ![s][wk[w].obj].dir = wk[w].dir]
        /\ disk' = Without(old)
        /\ wk' = [wk EXCEPT ![w].pc = "open"]
        /\ UNCHANGED <<log, loadVars, revision, countVars, queue, job, dbVars,
                       envVars>>

\* Destroy fails: the new index is in place, the old directory remains, and
\* the update has failed.
SwapFails(w) ==
    LET s == wk[w].slug
    IN  /\ wk[w].pc = "swap"
        /\ objs[s][wk[w].obj].dir # 0
        /\ faults < MaxFaults
        /\ faults' = faults + 1
        /\ objs' = [objs EXCEPT ![s][wk[w].obj].dir = wk[w].dir]
        /\ wk' = [wk EXCEPT ![w].pc = "close"]
        /\ UNCHANGED <<log, loadVars, revision, countVars, queue, job, dbVars,
                       disk, crashes>>

\* updateMeta, getArchive or generateIndex fails; what is left of a build has
\* no manifest.
UpdateFails(w) ==
    /\ wk[w].pc \in {"fetch", "build"}
    /\ faults < MaxFaults
    /\ faults' = faults + 1
    /\ wk' = [wk EXCEPT ![w].pc = "close", ![w].got = 0]
    /\ UNCHANGED <<log, loadVars, objs, revision, countVars, queue, job, dbVars,
                   disk, crashes>>

\* SetStatus moves the counter of closed extensions with the status.
ClosedAfter(old, new) == (closed - (IF old = "closed" THEN 1 ELSE 0))
                         + (IF new = "closed" THEN 1 ELSE 0)

SetStatus(w, from, new, to) ==
    LET s == wk[w].slug
        k == wk[w].obj
    IN  /\ wk[w].pc = from
        /\ RFree
        /\ closed' = ClosedAfter(objs[s][k].status, new)
        /\ objs' = [objs EXCEPT ![s][k].status = new]
        /\ wk' = [wk EXCEPT ![w] = to]
        /\ UNCHANGED <<log, loadVars, revision, total, queue, job, dbVars, disk,
                       envVars>>

SetClosed(w) == SetStatus(w, "close", "closed", IdleWorker)
SetOpen(w) == SetStatus(w, "open", "open", [wk[w] EXCEPT !.pc = "saveext"])

\* saveExt; the error of the write is dropped.
SaveExt(w) ==
    /\ wk[w].pc = "saveext"
    /\ \/ dbExts' = dbExts \cup {wk[w].slug} /\ UNCHANGED faults
       \/ faults < MaxFaults /\ faults' = faults + 1 /\ UNCHANGED dbExts
    /\ wk' = [wk EXCEPT ![w] = [IdleWorker EXCEPT !.pc = "setrev",
                                    !.slug = wk[w].slug, !.rev = wk[w].rev]]
    /\ UNCHANGED <<log, loadVars, objs, revision, countVars, queue, job, dbRev,
                   disk, crashes>>

SetRev(w) ==
    /\ wk[w].pc = "setrev"
    /\ RFree
    /\ revision' = IF wk[w].rev > revision THEN wk[w].rev ELSE revision
    /\ wk' = [wk EXCEPT ![w].pc = "save"]
    /\ UNCHANGED <<log, loadVars, objs, countVars, queue, job, dbVars, disk,
                   envVars>>

\* save: read the revision under the read lock ...
SaveBegin(w) ==
    /\ wk[w].pc = "save"
    /\ wk' = [wk EXCEPT ![w].pc = "put", ![w].rev = revision]
    /\ UNCHANGED <<log, loadVars, objs, revision, countVars, queue, job, dbVars,
                   disk, envVars>>

\* ... and write it; ProcessUpdate drops the error.
SaveEnd(w) ==
    /\ wk[w].pc = "put"
    /\ \/ dbRev' = wk[w].rev /\ UNCHANGED faults
       \/ faults < MaxFaults /\ faults' = faults + 1 /\ UNCHANGED dbRev
    /\ wk' = [wk EXCEPT ![w] = IdleWorker]
    /\ UNCHANGED <<log, loadVars, objs, revision, countVars, queue, job, dbExts,
                   disk, crashes>>

-----------------------------------------------------------------------------
(* jobCheckChangelog, which cron starts once an hour *)

JobStart ==
    /\ job.pc = "idle"
    /\ queue = <<>>
    /\ job' = [job EXCEPT !.pc = "rev"]
    /\ UNCHANGED <<log, loadVars, objs, revision, countVars, queue, wk, dbVars,
                   disk, envVars>>

\* GetRevision; then the read lock is taken.
JobRevision ==
    /\ job.pc = "rev"
    /\ job' = [job EXCEPT !.pc = "log", !.latest = Latest]
    /\ UNCHANGED <<log, loadVars, objs, revision, countVars, queue, wk, dbVars,
                   disk, envVars>>

\* GetChangeLog; the read lock is released.
JobLog ==
    LET todo == Changes(revision, job.latest)
    IN  /\ job.pc = "log"
        /\ job' = IF todo = {} THEN IdleJob
                  ELSE [pc |-> "queue", latest |-> 0, todo |-> todo]
        /\ UNCHANGED <<log, loadVars, objs, revision, countVars, queue, wk, dbVars,
                       disk, envVars>>

\* One of the two calls fails; a failed GetRevision leaves revision 0 to read the
\* log up to, which is taken for a failure of GetChangeLog.
JobFails ==
    /\ job.pc \in {"rev", "log"}
    /\ faults < MaxFaults
    /\ faults' = faults + 1
    /\ job' = IdleJob
    /\ UNCHANGED <<log, loadVars, objs, revision, countVars, queue, wk, dbVars,
                   disk, crashes>>

\* QueueUpdate, in the order of a map; it blocks while the queue is full.
JobQueue(u) ==
    /\ job.pc = "queue"
    /\ u \in job.todo
    /\ Len(queue) < QueueCap
    /\ queue' = Append(queue, u)
    /\ job' = IF job.todo = {u} THEN IdleJob ELSE [job EXCEPT !.todo = @ \ {u}]
    /\ UNCHANGED <<log, loadVars, objs, revision, countVars, wk, dbVars, disk,
                   envVars>>

-----------------------------------------------------------------------------
\* The process is killed, or UpdateList ends it, and a new one starts: the load
\* of repo.New takes the saved revision, its save writes the same one back.
Restart ==
    /\ crashes < MaxCrashes
    /\ crashes' = crashes + 1
    /\ phase' = "load"
    /\ fresh' \in FreshFlags
    /\ list' = {}
    /\ listRev' = 0
    /\ objs' = [s \in Slugs |-> <<>>]
    /\ revision' = dbRev
    /\ total' = 0
    /\ closed' = 0
    /\ queue' = <<>>
    /\ wk' = [w \in Workers |-> IdleWorker]
    /\ job' = IdleJob
    /\ UNCHANGED <<log, dbVars, disk, faults>>

LoadStep ==
    \/ LoadExisting \/ FetchList \/ StartUpdateWorkers
    \/ \E s \in Slugs : ListNext(s)

UpdateStep(w) ==
    \/ Take(w) \/ Add(w) \/ Get(w) \/ Fetch(w) \/ Build(w)
    \/ Swap(w) \/ SetOpen(w) \/ SetClosed(w)
    \/ SaveExt(w) \/ SetRev(w) \/ SaveBegin(w) \/ SaveEnd(w)

JobStep == JobRevision \/ JobLog \/ \E u \in UpdateRequest : JobQueue(u)

Next ==
    \/ LoadStep \/ JobStart \/ JobStep \/ JobFails \/ Restart
    \/ \E s \in Slugs : Commit(s)
    \/ \E w \in Workers : UpdateStep(w) \/ SwapFails(w) \/ UpdateFails(w)
    \/ \E d \in disk \ KeptDirs : LoadFails(d)

Spec == Init /\ [][Next]_vars

\* Goroutines that can run do; cron starts its job again and again.  LoadData or
\* a worker that waits for the write lock gets it although the job takes the
\* read lock once an hour: a waiting writer keeps new readers out (sync.RWMutex).
Fairness ==
    /\ SF_vars(LoadStep)
    /\ WF_vars(JobStart)
    /\ WF_vars(JobStep)
    /\ \A w \in Workers : SF_vars(UpdateStep(w))

FairSpec == Spec /\ Fairness

-----------------------------------------------------------------------------
(* Properties *)

Worker == [pc : {"idle", "add", "get", "fetch", "build", "swap", "open", "close",
                 "saveext", "setrev", "save", "put"},
           slug : Slugs \cup {NoSlug}, rev : Revs, obj : Nat, got : Revs,
           dir : 0..MaxDirs]

\* The types of the variables.
RTypeOK ==
    /\ log \in Seq(Slugs) /\ Len(log) <= MaxRev
    /\ phase \in {"load", "list", "queue", "ready"}
    /\ fresh \in FreshFlags
    /\ list \in SUBSET Slugs
    /\ listRev \in Revs
    /\ objs \in [Slugs -> Seq(Extension)]
    /\ revision \in Revs
    /\ total \in Int
    /\ closed \in Int
    /\ queue \in Seq(UpdateRequest) /\ Len(queue) <= QueueCap
    /\ wk \in [Workers -> Worker]
    /\ job \in [pc : {"idle", "rev", "log", "queue"}, latest : Revs,
                todo : SUBSET UpdateRequest]
    /\ dbExts \in SUBSET Slugs
    /\ dbRev \in Revs
    /\ disk \in SUBSET [id : Dirs, slug : Slugs, ver : Revs]
    /\ crashes \in 0..MaxCrashes
    /\ faults \in 0..MaxFaults

\* The index that r.List[s] searches, and the content it has.
DirOf(s) == IF Exists(s) THEN objs[s][Current(s)].dir ELSE 0
Indexed(s) == \E d \in disk : d.id = DirOf(s)
Version(s) == (CHOOSE d \in disk : d.id = DirOf(s)).ver

\* An extension that is open, in the list or still in the hands of a worker,
\* has an index of its own files on disk: what processSearch and getMatchFile
\* rely on when they test the status only (search.go:205, files.go:25).
OpenIsServed ==
    \A s \in Slugs : \A k \in DOMAIN objs[s] :
        objs[s][k].status = "open" =>
            \E d \in disk : d.id = objs[s][k].dir /\ d.slug = s

\* No index is shared by two structs, and none that a worker has built is
\* already in use: destroying the old index of one hurts nobody else.
IndexesAreOwned ==
    \A s, t \in Slugs : \A k \in DOMAIN objs[s], l \in DOMAIN objs[t] :
        objs[s][k].dir = objs[t][l].dir /\ objs[s][k].dir # 0 => s = t /\ k = l

Undisturbed == crashes = 0 /\ faults = 0

\* As long as no step of an update fails, the disk holds only indexes that are in use or
\* about to be: SwapIndexes destroys each one it replaces, LoadExisting the
\* ones a crash left.
DiskIsBounded ==
    phase # "load" /\ faults = 0 =>
        \A d \in disk :
            \/ \E s \in Slugs : \E k \in DOMAIN objs[s] : objs[s][k].dir = d.id
            \/ \E w \in Workers : wk[w].pc = "swap" /\ wk[w].dir = d.id

\* Total and Closed, kept step by step in Add and SetStatus, are the numbers of
\* the extensions in the list and of the closed ones among them.
CountersMatchList ==
    LET Listed == {s \in Slugs : Exists(s)}
    IN  /\ total = Cardinality(Listed)
        /\ closed = Cardinality({s \in Listed :
                                    objs[s][Current(s)].status = "closed"})

\* A change that the Repo's revision covers is indexed, or its update is still
\* under way: the change log is never read from before that revision again.
UnderWay(s) ==
    \/ s \in list
    \/ \E n \in DOMAIN queue : queue[n].slug = s
    \/ \E w \in Workers : wk[w].slug = s
    \/ \E u \in job.todo : u.slug = s

RevisionIsCovered ==
    \A s \in Slugs :
        Exists(s) /\ LastChange(s) <= revision /\ ~UnderWay(s) =>
            Indexed(s) /\ Version(s) = LastChange(s)

\* No failure and no restart, no change is lost.
NoChangeIsLost == Undisturbed => RevisionIsCovered

\* No update replaces the files of an extension by older ones, and a start takes
\* the newest of the indexes that a crash or a failure has left.
NeverOlder ==
    [][\A s \in Slugs : Indexed(s)' =>
         /\ Indexed(s) => Version(s)' >= Version(s)
         /\ phase = "load" => \A d \in disk : d.slug = s => Version(s)' >= d.ver]_vars

\* The saved revision never falls, whichever of two workers saves last: save
\* holds the read lock while it writes, so that SetRev waits for it.
SavedRevisionNeverFalls == [][dbRev' >= dbRev]_dbRev

\* Every start of the process ends with the workers running, whatever the list
\* and the change log hold.
LoadFinishes == phase # "ready" ~> phase = "ready"

\* Without failures and restarts, when the directory stops changing, every
\* extension ends up open with its last files.
EventuallyCurrent ==
    []Undisturbed => \A s \in Slugs :
        <>[](Indexed(s) /\ Version(s) = LastChange(s)
             /\ objs[s][Current(s)].status = "open")
====
