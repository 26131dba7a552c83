---------------------------- MODULE SearchManager ----------------------------
(***************************************************************************)
(* internal/search (Manager), the search buckets of internal/db and the    *)
(* two handlers of internal/server that create and look up a search.       *)
(*                                                                         *)
(* A search lives in memory (List) from createSearch until the only worker *)
(* has written its summary, its matches and its record to the database;    *)
(* then it is dropped from memory and answered from the database.          *)
(*                                                                         *)
(* The manager's RWMutex: every critical section but one runs without      *)
(* blocking and is one atomic step whose guard is that the lock is free.   *)
(* The exception is NewSearch, which keeps the lock while the queue's Add  *)
(* may block; `holder' is the request that is inside it.  The deletion     *)
(* from the map (search.go:315) takes no lock, so its step has no guard.   *)
(***************************************************************************)
EXTENDS SearchQueue

CONSTANTS
    Clients,    \* the requests that may be in flight at a time
    NoClient,   \* "nobody is inside NewSearch"
    Slugs,      \* the extensions of the searched repository
    Privacy,    \* the values of a request's private flag
    MaxTime,    \* bound: the last second the clock can show
    MaxCrashes, \* bound: how often the process is killed and started again
    MaxFaults,  \* bound: how many database writes fail
    MaxTroubles \* bound: how many restarts and failed writes there are together

ASSUME NoClientAssumption == NoClient \notin Clients
ASSUME PrivacyAssumption == Privacy \subseteq BOOLEAN
ASSUME BoundsAssumption ==
    /\ MaxTime \in Nat
    /\ MaxCrashes \in Nat /\ MaxFaults \in Nat /\ MaxTroubles \in Nat

VARIABLES
    loaded,      \* Manager.Loaded
    holder,      \* the client inside NewSearch, which holds the lock
    List,        \* the keys of Manager.List
    srch,        \* the Search structs on the heap, by ID
    known,       \* the IDs createSearch has returned to a client
    wpc,         \* where the worker is ("off" until LoadData starts it)
    cur,         \* the search the worker has in hand
    todo,        \* the extensions its loop has still to visit
    found,       \* the extensions with matches: keys of sum.List and matchList
    cpc,         \* where each client's request is
    ask,         \* the ID the request is about
    copied,      \* the status in the handler's copy of the Search
    reply,       \* the last answer the client received
    summaryData, \* searches/search_data/<id>_summary, by ID
    matchData,   \* the keys searches/search_data/<id>_matches_<slug>
    searchData,  \* searches/search_data/<id>, by ID
    allDates,    \* searches/all_dates: time of start -> ID
    publicDates, \* searches/public_dates: time of start -> ID
    now,         \* the last reading of the clock, as a place among the strings
    setBack,     \* (history) a reading was lower than the one before it
    crashes,     \* the process is the (crashes + 1)-th
    faults       \* failed database writes so far

workerVars == <<wpc, cur, todo, found>>
clientVars == <<cpc, ask, copied, reply>>
dbVars == <<summaryData, matchData, searchData, allDates, publicDates>>
clockVars == <<now, setBack>>
envVars == <<clockVars, crashes, faults>>
memVars == <<loaded, holder, List, srch, known>>
vars == <<qvars, memVars, workerVars, clientVars, dbVars, envVars>>

Statuses == {"queued", "started", "completed"}

\* `matched' is Matches # 0 as the completed search has it; `boot' is no field
\* of the code's struct but the process that created the search.
Search == [status : Statuses, private : BOOLEAN, started : Nat, matched : BOOLEAN,
           boot : Nat]
NewStruct(private, boot) ==
    [status |-> "queued", private |-> private, started |-> 0, matched |-> FALSE,
     boot |-> boot]
Blank == NewStruct(FALSE, 0)
NoReply == [id |-> NoID, status |-> "none", pos |-> -1]

Free == holder = NoClient

-----------------------------------------------------------------------------
Init ==
    /\ QInit
    /\ loaded = FALSE
    /\ holder = NoClient
    /\ List = {}
    /\ srch = [id \in IDs |-> Blank]
    /\ known = {}
    /\ wpc = "off" /\ cur = NoID /\ todo = {} /\ found = {}
    /\ cpc = [c \in Clients |-> "idle"]
    /\ ask = [c \in Clients |-> NoID]
    /\ copied = [c \in Clients |-> "queued"]
    /\ reply = [c \in Clients |-> NoReply]
    /\ summaryData = [id \in {} |-> {}]
    /\ matchData = {}
    /\ searchData = [id \in {} |-> Blank]
    /\ allDates = [t \in {} |-> NoID]
    /\ publicDates = [t \in {} |-> NoID]
    /\ now = 0 /\ setBack = FALSE /\ crashes = 0 /\ faults = 0

\* The end of LoadData: the worker is started and searches are accepted.
LoadDone ==
    /\ wpc = "off" /\ Free
    /\ wpc' = "idle"
    /\ loaded' = TRUE
    /\ UNCHANGED <<qvars, holder, List, srch, known, cur, todo, found,
                   clientVars, dbVars, envVars>>

\* The handler returns: its local state goes away.
Return(c) ==
    /\ cpc' = [cpc EXCEPT ![c] = "idle"]
    /\ ask' = [ask EXCEPT ![c] = NoID]
    /\ copied' = [copied EXCEPT ![c] = "queued"]

\* An answer without a QueuePos is written with -1 here.
AnswerAt(c, status, place) ==
    /\ reply' = [reply EXCEPT ![c] = [id |-> ask[c], status |-> status, pos |-> place]]
    /\ Return(c)

Answer(c, status) == AnswerAt(c, status, -1)

\* The end of a call of processSearch: the worker goes back to Queue.Get.
ToIdle == wpc' = "idle" /\ cur' = NoID /\ todo' = {} /\ found' = {}

-----------------------------------------------------------------------------
(* Faulty forms of actions defined below, for the mutation runs.           *)

\* A search without matches is taken for a failed one.
ScanDoneNeedsMatches ==
    /\ wpc = "scan"
    /\ todo = {} \/ found # {}
    /\ IF found = {} THEN ToIdle
                     ELSE wpc' = "saveSummary" /\ todo' = {} /\ UNCHANGED <<cur, found>>
    /\ UNCHANGED <<qvars, memVars, clientVars, dbVars, envVars>>

\* A loop that is left by the limit of matches only.
ScanDoneByLimit ==
    /\ wpc = "scan"
    /\ found # {}
    /\ todo' = {}
    /\ wpc' = "saveSummary"
    /\ UNCHANGED <<qvars, memVars, cur, found, clientVars, dbVars, envVars>>

\* The status is set before the results are stored.
ScanDoneCompletes ==
    /\ wpc = "scan"
    /\ todo = {} \/ found # {}
    /\ todo' = {}
    /\ wpc' = "saveSummary"
    /\ srch' = [srch EXCEPT ![cur].status = "completed"]
    /\ UNCHANGED <<qvars, loaded, holder, List, known, cur, found, clientVars,
                   dbVars, envVars>>

\* The search leaves memory before its record is stored.
CompleteSearchDrops ==
    /\ wpc = "complete" /\ Free
    /\ srch' = [srch EXCEPT ![cur].status = "completed",
                            ![cur].matched = (found # {})]
    /\ List' = List \ {cur}
    /\ wpc' = "saveSearch"
    /\ UNCHANGED <<qvars, loaded, holder, known, cur, todo, found, clientVars,
                   dbVars, envVars>>

\* A failed write removes the search from memory.
DBFaultDrops ==
    /\ wpc \in {"saveSummary", "saveMatches", "saveSearch"}
    /\ faults < MaxFaults /\ crashes + faults < MaxTroubles
    /\ faults' = faults + 1
    /\ List' = List \ {cur}
    /\ ToIdle
    /\ UNCHANGED <<qvars, loaded, holder, srch, known, clientVars, dbVars,
                   clockVars, crashes>>

\* A failed write is ignored.
DBFaultIgnored ==
    /\ wpc \in {"saveSummary", "saveMatches"}
    /\ faults < MaxFaults /\ crashes + faults < MaxTroubles
    /\ faults' = faults + 1
    /\ wpc' = IF wpc = "saveSummary" THEN "saveMatches" ELSE "complete"
    /\ UNCHANGED <<qvars, memVars, cur, todo, found, clientVars, dbVars,
                   clockVars, crashes>>

\* A failed write ends the worker's loop, not the call of processSearch only.
DBFaultEndsWorker ==
    /\ wpc \in {"saveSummary", "saveMatches", "saveSearch"}
    /\ wpc = "saveSearch" => Free
    /\ faults < MaxFaults /\ crashes + faults < MaxTroubles
    /\ faults' = faults + 1
    /\ wpc' = "ended" /\ cur' = NoID /\ todo' = {} /\ found' = {}
    /\ UNCHANGED <<qvars, memVars, clientVars, dbVars, clockVars, crashes>>

\* A failed write makes the search look queued again.
DBFaultResets ==
    /\ wpc \in {"saveSummary", "saveMatches", "saveSearch"}
    /\ faults < MaxFaults /\ crashes + faults < MaxTroubles
    /\ faults' = faults + 1
    /\ srch' = [srch EXCEPT ![cur].status = "queued"]
    /\ ToIdle
    /\ UNCHANGED <<qvars, loaded, holder, List, known, clientVars, dbVars,
                   clockVars, crashes>>

-----------------------------------------------------------------------------
(* createSearch and NewSearch.                                             *)

\* A valid request on a loaded site: NewSearch takes the lock and stores the
\* new Search.  A request that finds Loaded false is refused and changes nothing.
NewSearch(c) == \E id \in IDs, private \in Privacy :
    /\ cpc[c] = "idle" /\ loaded /\ Free
    /\ NewID(id)
    /\ holder' = c
    /\ List' = List \cup {id}
    /\ srch' = [srch EXCEPT ![id] = NewStruct(private, crashes)]
    /\ cpc' = [cpc EXCEPT ![c] = "send"]
    /\ ask' = [ask EXCEPT ![c] = id]
    /\ UNCHANGED <<queueVars, loaded, known, workerVars, copied, reply,
                   dbVars, envVars>>

\* Queue.Add's send, with the manager's lock held; it waits for a free slot.
NewSearchSend(c) ==
    /\ cpc[c] = "send"
    /\ AddSend(ask[c])
    /\ cpc' = [cpc EXCEPT ![c] = "place"]
    /\ UNCHANGED <<issued, memVars, workerVars, ask, copied, reply, dbVars,
                   envVars>>

\* The rest of Queue.Add; the deferred Unlock; the ID goes to the client.
NewSearchReturn(c) ==
    /\ cpc[c] = "place"
    /\ AddPos
    /\ holder' = NoClient
    /\ known' = known \cup {ask[c]}
    /\ Return(c)
    /\ UNCHANGED <<issued, loaded, List, srch, workerVars, reply, dbVars,
                   envVars>>

-----------------------------------------------------------------------------
(* getSearch: Exists, Get and Queue.Pos are three critical sections, and   *)
(* the database is read only when Exists said no.                          *)

GetSearch(c) == \E id \in known :
    /\ cpc[c] = "idle" /\ Free
    /\ ask' = [ask EXCEPT ![c] = id]
    /\ cpc' = [cpc EXCEPT ![c] = IF id \in List THEN "get" ELSE "db"]
    /\ UNCHANGED <<qvars, memVars, workerVars, copied, reply, dbVars, envVars>>

\* Manager.Get: the struct is copied, or the nil pointer of a missing key is
\* dereferenced; the router's Recoverer turns that panic into an error 500.
GetFromMemory(c) ==
    /\ cpc[c] = "get" /\ Free
    /\ IF ask[c] \in List
       THEN /\ copied' = [copied EXCEPT ![c] = srch[ask[c]].status]
            /\ cpc' = [cpc EXCEPT ![c] = "pos"]
            /\ UNCHANGED <<ask, reply>>
       ELSE Answer(c, "panic")
    /\ UNCHANGED <<qvars, memVars, workerVars, dbVars, envVars>>

\* Queue.Pos, read after the copy was made (the search may have left the queue
\* in between), and the answer.
GetPosition(c) ==
    /\ cpc[c] = "pos"
    /\ AnswerAt(c, copied[c], Pos(ask[c]))
    /\ UNCHANGED <<qvars, memVars, workerVars, dbVars, envVars>>

\* A record of the database is always answered as completed.
GetFromDB(c) ==
    /\ cpc[c] = "db"
    /\ Answer(c, IF ask[c] \in DOMAIN searchData THEN "completed" ELSE "notfound")
    /\ UNCHANGED <<qvars, memVars, workerVars, dbVars, envVars>>

-----------------------------------------------------------------------------
(* Worker and processSearch.                                               *)

WorkerRecv ==
    /\ wpc = "idle"
    /\ GetRecv
    /\ cur' = getting'
    /\ wpc' = "forget"
    /\ UNCHANGED <<issued, memVars, todo, found, clientVars, dbVars, envVars>>

WorkerForget ==
    /\ wpc = "forget"
    /\ GetForget
    /\ wpc' = "lookup"
    /\ UNCHANGED <<issued, memVars, cur, todo, found, clientVars, dbVars, envVars>>

\* The first critical sections of processSearch; an ID that is not in the map
\* ends the call.
LookUp ==
    /\ wpc = "lookup" /\ Free
    /\ IF cur \in List THEN wpc' = "start" /\ UNCHANGED <<cur, todo, found>>
                       ELSE ToIdle
    /\ UNCHANGED <<qvars, memVars, clientVars, dbVars, envVars>>

\* time.Now().Format(time.RFC3339): the clock is read here and nowhere else.  The
\* strings are of the local time, so a reading may be below the one before: an hour
\* comes twice in autumn, and the clock or the zone may be set anew.
ReadClock(t) ==
    /\ now' = t
    /\ setBack' = (setBack \/ t < now)

\* Status Started and the time of start; then the repository's list is read.
StartSearch == \E t \in 0 .. MaxTime :
    /\ wpc = "start" /\ Free
    /\ ReadClock(t)
    /\ srch' = [srch EXCEPT ![cur].status = "started", ![cur].started = t,
                            ![cur].matched = FALSE]
    /\ todo' = Slugs
    /\ found' = {}
    /\ wpc' = "scan"
    /\ UNCHANGED <<qvars, loaded, holder, List, known, cur, clientVars, dbVars,
                   crashes, faults>>

\* One turn of the loop: progress is stored under the lock, then a goroutine
\* searches the extension and may add it to the results.
ScanExtension == \E slug \in todo, hit \in BOOLEAN :
    /\ wpc = "scan" /\ Free
    /\ todo' = todo \ {slug}
    /\ found' = IF hit THEN found \cup {slug} ELSE found
    /\ UNCHANGED <<qvars, memVars, wpc, cur, clientVars, dbVars, envVars>>

\* The loop ends with the list, or earlier once there are too many matches.
ScanDone ==
    /\ wpc = "scan"
    /\ todo = {} \/ found # {}
    /\ todo' = {}
    /\ wpc' = "saveSummary"
    /\ UNCHANGED <<qvars, memVars, cur, found, clientVars, dbVars, envVars>>

SaveSummary ==
    /\ wpc = "saveSummary"
    /\ summaryData' = [id \in DOMAIN summaryData \cup {cur} |->
                          IF id = cur THEN found ELSE summaryData[id]]
    /\ wpc' = "saveMatches"
    /\ UNCHANGED <<qvars, memVars, cur, todo, found, clientVars, matchData,
                   searchData, allDates, publicDates, envVars>>

\* One transaction for all the extensions.
SaveMatches ==
    /\ wpc = "saveMatches"
    /\ matchData' = matchData \cup ({cur} \X found)
    /\ wpc' = "complete"
    /\ UNCHANGED <<qvars, memVars, cur, todo, found, clientVars, summaryData,
                   searchData, allDates, publicDates, envVars>>

CompleteSearch ==
    /\ wpc = "complete" /\ Free
    /\ srch' = [srch EXCEPT ![cur].status = "completed",
                            ![cur].matched = (found # {})]
    /\ wpc' = "saveSearch"
    /\ UNCHANGED <<qvars, loaded, holder, List, known, cur, todo, found,
                   clientVars, dbVars, envVars>>

\* A bucket keyed by the time of start: a second search of one second replaces
\* the first.
PutDate(dates) ==
    [t \in DOMAIN dates \cup {srch[cur].started} |->
        IF t = srch[cur].started THEN cur ELSE dates[t]]

\* Faulty form: private searches are filed under public_dates too.
SaveSearchPublic ==
    /\ wpc = "saveSearch" /\ Free
    /\ searchData' = [id \in DOMAIN searchData \cup {cur} |->
                         IF id = cur THEN srch[cur] ELSE searchData[id]]
    /\ allDates' = PutDate(allDates)
    /\ publicDates' = PutDate(publicDates)
    /\ wpc' = "drop"
    /\ UNCHANGED <<qvars, memVars, cur, todo, found, clientVars, summaryData,
                   matchData, envVars>>

\* The copy of the struct under the read lock and SaveSearch's transaction.
SaveSearch ==
    /\ wpc = "saveSearch" /\ Free
    /\ searchData' = [id \in DOMAIN searchData \cup {cur} |->
                         IF id = cur THEN srch[cur] ELSE searchData[id]]
    /\ allDates' = PutDate(allDates)
    /\ publicDates' = IF srch[cur].private THEN publicDates
                                           ELSE PutDate(publicDates)
    /\ wpc' = "drop"
    /\ UNCHANGED <<qvars, memVars, cur, todo, found, clientVars, summaryData,
                   matchData, envVars>>

\* delete(sm.List, searchID), without the lock.
DropSearch ==
    /\ wpc = "drop"
    /\ List' = List \ {cur}
    /\ ToIdle
    /\ UNCHANGED <<qvars, loaded, holder, srch, known, clientVars, dbVars,
                   envVars>>

\* A failed transaction writes nothing and ends the call: the search stays in
\* memory with the status it has.
DBFault ==
    /\ wpc \in {"saveSummary", "saveMatches", "saveSearch"}
    /\ wpc = "saveSearch" => Free
    /\ faults < MaxFaults /\ crashes + faults < MaxTroubles
    /\ faults' = faults + 1
    /\ ToIdle
    /\ UNCHANGED <<qvars, memVars, clientVars, dbVars, clockVars, crashes>>

-----------------------------------------------------------------------------
(* The environment.                                                        *)

\* The process ends (a signal, a fatal error of the runtime, a shutdown: none
\* of them waits for the worker) and is started again with an empty memory.
\* Requests in flight are cut off.
Restart ==
    /\ crashes < MaxCrashes /\ crashes + faults < MaxTroubles
    /\ crashes' = crashes + 1
    /\ queue' = <<>>
    /\ pos' = [id \in {} |-> 0]
    /\ adding' = NoID
    /\ getting' = NoID
    /\ loaded' = FALSE
    /\ holder' = NoClient
    /\ List' = {}
    /\ wpc' = "off" /\ cur' = NoID /\ todo' = {} /\ found' = {}
    /\ cpc' = [c \in Clients |-> "idle"]
    /\ ask' = [c \in Clients |-> NoID]
    /\ copied' = [c \in Clients |-> "queued"]
    /\ UNCHANGED <<issued, srch, known, reply, dbVars, clockVars, faults>>

ClientStep(c) ==
    \/ NewSearchSend(c) \/ NewSearchReturn(c)
    \/ GetFromMemory(c) \/ GetPosition(c) \/ GetFromDB(c)

WorkerStep ==
    \/ WorkerRecv \/ WorkerForget \/ LookUp \/ StartSearch
    \/ ScanExtension \/ ScanDone \/ SaveSummary \/ SaveMatches
    \/ CompleteSearch \/ SaveSearch \/ DropSearch \/ DBFault

Next ==
    \/ LoadDone \/ WorkerStep \/ Restart
    \/ \E c \in Clients : NewSearch(c) \/ GetSearch(c) \/ ClientStep(c)

Spec == Init /\ [][Next]_vars

\* LoadData's goroutine, the worker's goroutine and the handlers of accepted
\* requests keep running; nobody is obliged to send requests or to crash.
Fairness ==
    /\ WF_vars(LoadDone)
    /\ WF_vars(WorkerStep)
    /\ \A c \in Clients : WF_vars(ClientStep(c))

FairSpec == Spec /\ Fairness

-----------------------------------------------------------------------------
(* Properties.                                                             *)

WorkerPCs == {"off", "idle", "forget", "lookup", "start", "scan", "saveSummary",
              "saveMatches", "complete", "saveSearch", "drop"}
ClientPCs == {"idle", "send", "place", "get", "pos", "db"}
Reply == [id : IDs \cup {NoID},
          status : Statuses \cup {"none", "notfound", "panic"},
          pos : Int]

MemTypeOK ==
    /\ loaded \in BOOLEAN
    /\ holder \in Clients \cup {NoClient}
    /\ List \subseteq IDs
    /\ srch \in [IDs -> Search]
    /\ known \subseteq IDs

WorkerTypeOK ==
    /\ wpc \in WorkerPCs
    /\ cur \in IDs \cup {NoID}
    /\ todo \subseteq Slugs
    /\ found \subseteq Slugs

ClientTypeOK ==
    /\ cpc \in [Clients -> ClientPCs]
    /\ ask \in [Clients -> IDs \cup {NoID}]
    /\ copied \in [Clients -> Statuses]
    /\ reply \in [Clients -> Reply]

DBTypeOK ==
    /\ DOMAIN summaryData \subseteq IDs
    /\ \A id \in DOMAIN summaryData : summaryData[id] \subseteq Slugs
    /\ matchData \subseteq IDs \X Slugs
    /\ DOMAIN searchData \subseteq IDs
    /\ \A id \in DOMAIN searchData : searchData[id] \in Search
    /\ DOMAIN allDates \subseteq Nat
    /\ \A t \in DOMAIN allDates : allDates[t] \in IDs
    /\ DOMAIN publicDates \subseteq Nat
    /\ \A t \in DOMAIN publicDates : publicDates[t] \in IDs

EnvTypeOK == now \in Nat /\ setBack \in BOOLEAN /\ crashes \in Nat /\ faults \in Nat

\* The types of the manager's state.
TypeOK ==
    QTypeOK /\ MemTypeOK /\ WorkerTypeOK /\ ClientTypeOK /\ DBTypeOK /\ EnvTypeOK

\* A search accepted by the running process can always be looked up: it is in
\* memory until its record is in the database, whatever database write fails.
Findable ==
    \A id \in Elements(issued) :
        srch[id].boot = crashes => id \in List \cup DOMAIN searchData

\* A client whose search is answered "not found" created it before a restart; and
\* a lookup that panics, the worker having dropped the search between Exists and
\* Get, is about a stored search: a second try finds it.
DeniedOnlyIfLostOrStored ==
    \A c \in Clients :
        /\ reply[c].status = "notfound" => srch[reply[c].id].boot < crashes
        /\ reply[c].status = "panic" => reply[c].id \in DOMAIN searchData

\* The extensions whose results the API serves: db.GetSummary takes the empty
\* summary, which is marshalled to no byte, for a missing one, and either gives
\* the page nothing to list.
Listed(id) == IF id \in DOMAIN summaryData THEN summaryData[id] ELSE {}
Fetchable(id) == {slug \in Slugs : <<id, slug>> \in matchData}

\* A search that has matches has a summary, any other is answered that none was
\* found; and the summary lists the very extensions whose matches can be fetched.
HasResults(id, matched) ==
    /\ matched <=> Listed(id) # {}
    /\ Fetchable(id) = Listed(id)

\* Of a search that getSearch reports as completed with a number of matches, the
\* summary, and the matches of each extension it lists and of no other, can be
\* fetched for good; of one completed without matches there is nothing to fetch.
ResultsServed ==
    \A c \in Clients : reply[c].status = "completed"
        => HasResults(reply[c].id, srch[reply[c].id].matched)

\* So it is with every search whose record is in the database and the number of
\* matches in that record (these are the searches getSearches lists), over failed
\* writes and restarts.
SavedHasResults ==
    \A id \in DOMAIN searchData : HasResults(id, searchData[id].matched)

IssuedBefore(a, b) ==
    \E i, j \in 1 .. Len(issued) : i < j /\ issued[i] = a /\ issued[j] = b

\* GetLatestPublicSearchList: the bucket is read from its last key backwards.
LatestPublic(limit) ==
    LET Times == DOMAIN publicDates
        Newest(k) == CHOOSE t \in Times : Cardinality({u \in Times : u >= t}) = k
    IN  [k \in {n \in 1 .. limit : n <= Cardinality(Times)} |-> publicDates[Newest(k)]]

\* The list getSearches shows holds saved public searches only, each of them once,
\* wherever the clock goes; and as long as the clock has not gone back each was
\* created before those that are listed above it.
PublicHistoryInOrder ==
    LET latest == LatestPublic(Cardinality(IDs))
    IN  /\ \A k \in DOMAIN latest :
              latest[k] \in DOMAIN searchData /\ ~searchData[latest[k]].private
        /\ \A j, k \in DOMAIN latest :
              j < k => /\ latest[j] # latest[k]
                       /\ setBack \/ IssuedBefore(latest[k], latest[j])

Rank(status) == CASE status = "queued" -> 0
                  [] status = "started" -> 1
                  [] status = "completed" -> 2

\* Polling one search, a client never sees its status go back.
StatusNeverGoesBack ==
    [][\A c \in Clients :
         (/\ reply[c].id = reply'[c].id
          /\ reply[c].status \in Statuses /\ reply'[c].status \in Statuses)
         => Rank(reply[c].status) <= Rank(reply'[c].status)]_vars

InProgress(answer) == answer.status \in {"queued", "started"}

\* Polling one search that is in progress, a client is never told a later place in
\* the queue than before, nor any place once it is told that the search has
\* started, although the place is read after the status was copied.
PlaceNeverWorsens ==
    [][\A c \in Clients :
         (/\ reply[c].id = reply'[c].id
          /\ InProgress(reply[c]) /\ InProgress(reply'[c]))
         => /\ reply'[c].pos <= reply[c].pos
            /\ reply'[c].status = "started" => reply'[c].pos <= 0]_vars

\* Every accepted search is completed and stored, in whatever order the requests
\* and the worker run, unless a write fails or the process is restarted.
EverySearchIsStored ==
    \A id \in IDs :
        id \in Elements(issued)
            ~> (id \in DOMAIN searchData \/ faults > 0 \/ crashes > 0)

\* Every request is answered.
RequestsReturn == \A c \in Clients : cpc[c] # "idle" ~> cpc[c] = "idle"

\* api_handlers.go:409: createSearch performs a non-blocking search, so it
\* returns whatever the load.
CreateSearchIsNonBlocking ==
    \A c \in Clients : cpc[c] = "send" ~> cpc[c] # "send"
=============================================================================
