------------------------ MODULE SearchServiceProofs ------------------------
(***************************************************************************)
(* What the manager promises its clients, for every number of clients,     *)
(* searches, restarts and failed writes and every capacity of the channel. *)
(*                                                                         *)
(* SearchManager implements SearchService: its initial states are those of *)
(* the service under the mapping of SearchRefinement, and each of its      *)
(* steps is one of the service or none.                                    *)
(*                                                                         *)
(* The position of a search that waits is at most one too small, however   *)
(* the two halves of Queue.Add and Queue.Get interleave, and a search that *)
(* has left the queue is not reported as waiting.                          *)
(*                                                                         *)
(* Polling one search, a client never sees its status go back: not when it *)
(* is answered from a copy that is old by the time it is sent, not when    *)
(* the search moves from memory to the database between two polls, and not *)
(* over a restart, which forgets the search but not its record.            *)
(*                                                                         *)
(* The list of the latest public searches has saved public searches only,  *)
(* the younger above the older.                                            *)
(*                                                                         *)
(* Searches are started in the order of their creation.  Requests and      *)
(* worker that wait for each other do so for good, which takes more        *)
(* searches than the channel has slots.                                    *)
(***************************************************************************)
EXTENDS SearchRefinement, SearchManagerProofs, SumLemmas

-----------------------------------------------------------------------------
(* The service                                                             *)

\* What waits is in memory, so that LookUp finds it.
MemInv ==
    /\ Elements(queue) \subseteq List
    /\ \A c \in Clients : cpc[c] = "send" => ask[c] \in List
    /\ wpc \in {"forget", "lookup", "start"} => cur \in List

ManagerInv == TypeInv /\ OnceInv /\ StoredInv /\ MemInv

-----------------------------------------------------------------------------
(* Sequences                                                               *)

LEMMA AppendToAll ==
    ASSUME NEW S, NEW h \in Seq(S), NEW q \in Seq(S), NEW e \in S
    PROVE  /\ h \o q \o <<e>> = Append(h \o q \o <<>>, e)
           /\ h \o Append(q, e) \o <<>> = h \o q \o <<e>>
  OBVIOUS

LEMMA HeadToHand ==
    ASSUME NEW S, NEW q \in Seq(S), q # <<>>, NEW u \in Seq(S)
    PROVE  <<Head(q)>> \o Tail(q) \o u = <<>> \o q \o u
  <1>1. Len(q) \in Nat \ {0} /\ Head(q) \in S /\ Tail(q) \in Seq(S)
    OBVIOUS
  <1>2. <<Head(q)>> \o Tail(q) = q
    BY <1>1
  <1>3. <<>> \o q = q
    OBVIOUS
  <1> QED BY <1>2, <1>3

LEMMA HandToActive ==
    ASSUME NEW S, NEW e \in S, NEW q \in Seq(S), NEW u \in Seq(S)
    PROVE  LET w == <<e>> \o q \o u
           IN  w # <<>> /\ Head(w) = e /\ Tail(w) = <<>> \o q \o u
  <1> DEFINE w == <<e>> \o q \o u
             r == <<>> \o q \o u
  <1>1. r \in Seq(S) /\ r = q \o u /\ <<e>> \o q \in Seq(S) /\ w \in Seq(S)
    OBVIOUS
  <1>2. Len(w) = 1 + Len(r) /\ Len(r) \in Nat /\ Len(q) \in Nat /\ Len(u) \in Nat
    BY <1>1
  <1>3. w[1] = e
    BY <1>1, <1>2
  <1>4. \A i \in 1 .. Len(r) : w[i + 1] = r[i]
    BY <1>1, <1>2
  <1>5. Tail(w) \in Seq(S) /\ Len(Tail(w)) = Len(r) /\ w # <<>> /\ Head(w) = w[1]
    BY <1>1, <1>2
  <1>6. \A i \in 1 .. Len(r) : Tail(w)[i] = w[i + 1]
    BY <1>1, <1>2, <1>5
  <1>7. Tail(w) = r
    BY <1>1, <1>4, <1>5, <1>6
  <1> QED BY <1>3, <1>5, <1>7

-----------------------------------------------------------------------------
(* What waits is in memory                                                 *)

LEMMA MemInit == Init => MemInv
  BY DEF Init, QInit, QueueInit, MemInv, Elements

LEMMA MemStep ==
    ASSUME ManagerInv, [Next]_vars
    PROVE  MemInv'
  <1> USE DEF ManagerInv, MemInv
  <1>t. /\ queue \in Seq(IDs) /\ cpc \in [Clients -> ClientPCs]
        /\ ask \in [Clients -> IDs \cup {NoID}]
    BY DEF TypeInv, TypeOK, QTypeOK, QueueTypeOK, ClientTypeOK
  <1>q. queue' = queue => Elements(queue') = Elements(queue)
    BY DEF Elements
  <1>1. ASSUME NEW c \in Clients, NewSearch(c) PROVE MemInv'
    BY <1>1, <1>t, <1>q DEF NewSearch, queueVars, workerVars
  <1>2. ASSUME NEW c \in Clients, NewSearchSend(c) PROVE MemInv'
    <2>1. /\ queue' = Append(queue, ask[c]) /\ ask[c] \in IDs /\ ask[c] \in List
          /\ List' = List /\ ask' = ask /\ wpc' = wpc /\ cur' = cur
          /\ cpc' = [cpc EXCEPT ![c] = "place"]
      BY <1>2 DEF NewSearchSend, AddSend, TypeInv, Busy, memVars, workerVars
    <2>2. Elements(queue') = Elements(queue) \cup {ask[c]}
      BY <1>t, <2>1, ElementsAppend
    <2> QED BY <1>t, <2>1, <2>2
  <1>3. ASSUME NEW c \in Clients,
               \/ NewSearchReturn(c) \/ GetSearch(c)
               \/ GetFromMemory(c) \/ GetPosition(c) \/ GetFromDB(c)
        PROVE  MemInv'
    <2>1. UNCHANGED <<queue, List, wpc, cur>>
      BY <1>3 DEF NewSearchReturn, AddPos, GetSearch, GetFromMemory, GetPosition, GetFromDB,
                  qvars, queueVars, memVars, workerVars
    <2>2. /\ cpc'[c] # "send"
          /\ \A d \in Clients \ {c} : cpc'[d] = cpc[d] /\ ask'[d] = ask[d]
      BY <1>3, <1>t DEF NewSearchReturn, GetSearch, GetFromMemory, GetPosition, GetFromDB,
                        Return, Answer, AnswerAt
    <2> QED BY <1>q, <2>1, <2>2
  <1>4. CASE WorkerRecv
    <2>1. /\ cur' = Head(queue) /\ queue' = Tail(queue) /\ queue # <<>>
          /\ UNCHANGED <<List, cpc, ask>>
      BY <1>4 DEF WorkerRecv, GetRecv, memVars, clientVars
    <2> QED BY <1>t, <2>1, ElementsTail
  <1>5. CASE DropSearch
    <2>1. /\ List' = List \ {cur} /\ wpc' = "idle" /\ UNCHANGED <<queue, cpc, ask>>
          /\ wpc = "drop"
      BY <1>5 DEF DropSearch, ToIdle, qvars, queueVars, clientVars
    <2>2. srch[cur].status = "completed"
      BY <2>1 DEF StoredInv, WorkerStored, IsCompleted
    <2>3. cur \notin Elements(queue) /\ \A c \in Clients : cpc[c] = "send" => ask[c] # cur
      BY <2>2 DEF OnceInv
    <2> QED BY <1>q, <2>1, <2>3
  <1>6. CASE Restart
    <2>1. Elements(queue') = {}
      BY <1>6 DEF Restart, Elements
    <2> QED BY <1>6, <2>1 DEF Restart
  <1>7. CASE \/ LoadDone \/ WorkerForget \/ LookUp \/ StartSearch \/ ScanExtension \/ ScanDone
             \/ SaveSummary \/ SaveMatches \/ CompleteSearch \/ SaveSearch \/ DBFault
             \/ UNCHANGED vars
    <2>1. UNCHANGED <<queue, List, cpc, ask>>
      BY <1>7 DEF LoadDone, WorkerForget, GetForget, LookUp, StartSearch, ScanExtension, ScanDone,
                  SaveSummary, SaveMatches, CompleteSearch, SaveSearch, DBFault,
                  qvars, queueVars, memVars, clientVars, vars
    <2>2. wpc' \in {"forget", "lookup", "start"} =>
             cur' = cur /\ wpc \in {"forget", "lookup", "start"}
      BY <1>7 DEF LoadDone, WorkerForget, LookUp, StartSearch, ScanExtension, ScanDone,
                  SaveSummary, SaveMatches, CompleteSearch, SaveSearch, DBFault, ToIdle,
                  workerVars, vars
    <2> QED BY <1>q, <2>1, <2>2
  <1> QED BY <1>1, <1>2, <1>3, <1>4, <1>5, <1>6, <1>7 DEF Next, WorkerStep, ClientStep

LEMMA ManagerAlways == Spec => []ManagerInv
  <1>1. Init => MemInv
    BY MemInit
  <1>2. TypeInv /\ OnceInv /\ StoredInv /\ MemInv /\ [Next]_vars => MemInv'
    BY MemStep DEF ManagerInv
  <1> QED BY <1>1, <1>2, StoredInvariant, PTL DEF Spec, ManagerInv

-----------------------------------------------------------------------------
(* The steps                                                               *)

LEMMA InitMaps == Init => Service!Init
  BY DEF Init, QInit, QueueInit, Service!Init, waitingBar, activeBar, InHand, Unsent

\* Only NewSearch and NewSearchSend touch the search that is being added.
LEMMA UnsentStays ==
    ASSUME ManagerInv, [Next]_vars,
           \A c \in Clients : ~NewSearch(c) /\ ~NewSearchSend(c),
           ~Restart
    PROVE  Unsent' = Unsent
  <1>t. /\ holder \in Clients \cup {NoClient} /\ cpc \in [Clients -> ClientPCs]
        /\ ask \in [Clients -> IDs \cup {NoID}]
    BY DEF ManagerInv, TypeInv, TypeOK, MemTypeOK, ClientTypeOK
  <1>1. ASSUME NEW c \in Clients, NewSearchReturn(c) PROVE Unsent' = Unsent
    <2>1. holder = c /\ cpc[c] = "place" /\ holder' = NoClient
      BY <1>1 DEF NewSearchReturn, ManagerInv, OnceInv
    <2> QED BY <2>1 DEF Unsent
  <1>2. ASSUME NEW c \in Clients,
               GetSearch(c) \/ GetFromMemory(c) \/ GetPosition(c) \/ GetFromDB(c)
        PROVE  Unsent' = Unsent
    <2>1. /\ cpc[c] # "send" /\ cpc'[c] # "send" /\ holder' = holder
          /\ \A d \in Clients \ {c} : cpc'[d] = cpc[d] /\ ask'[d] = ask[d]
      BY <1>2, <1>t DEF GetSearch, GetFromMemory, GetPosition, GetFromDB, Return, Answer, AnswerAt, memVars
    <2> QED BY <1>t, <2>1 DEF Unsent
  <1>3. CASE LoadDone \/ WorkerStep \/ UNCHANGED vars
    <2>1. UNCHANGED <<holder, cpc, ask>>
      BY <1>3 DEF WorkerStep, LoadDone, WorkerRecv, WorkerForget, LookUp, StartSearch,
                  ScanExtension, ScanDone, SaveSummary, SaveMatches, CompleteSearch, SaveSearch,
                  DropSearch, DBFault, memVars, clientVars, vars
    <2> QED BY <2>1 DEF Unsent
  <1> QED BY <1>1, <1>2, <1>3 DEF Next, ClientStep

\* Each step of the manager is one of the service, or leaves it as it is.
LEMMA StepMaps ==
    ASSUME ManagerInv, [Next]_vars
    PROVE  [Service!Next]_(Service!serviceVars)
  <1>t. /\ issued \in Seq(IDs) /\ queue \in Seq(IDs)
        /\ InHand \in Seq(IDs) /\ Unsent \in Seq(IDs)
        /\ wpc \notin {"off", "idle"} => cur \in IDs
        /\ cpc \in [Clients -> ClientPCs] /\ ask \in [Clients -> IDs \cup {NoID}]
    <2>1. /\ issued \in Seq(IDs) /\ queue \in Seq(IDs) /\ holder \in Clients \cup {NoClient}
          /\ wpc \notin {"off", "idle"} => cur \in IDs
          /\ cpc \in [Clients -> ClientPCs] /\ ask \in [Clients -> IDs \cup {NoID}]
          /\ \A c \in Clients : cpc[c] # "idle" => ask[c] \in IDs
      BY DEF ManagerInv, TypeInv, TypeOK, Busy, QTypeOK, QueueTypeOK, MemTypeOK, ClientTypeOK
    <2>2. InHand \in Seq(IDs)
      BY <2>1 DEF InHand
    <2>3. Unsent \in Seq(IDs)
      BY <2>1 DEF Unsent
    <2> QED BY <2>1, <2>2, <2>3
  <1>1. ASSUME NEW c \in Clients, NewSearch(c) PROVE Service!Next
    <2>1. PICK id \in IDs :
            /\ cpc[c] = "idle" /\ holder = NoClient /\ NewID(id) /\ holder' = c
            /\ cpc' = [cpc EXCEPT ![c] = "send"] /\ ask' = [ask EXCEPT ![c] = id]
            /\ UNCHANGED <<queue, wpc, cur, searchData>>
      BY <1>1 DEF NewSearch, Free, queueVars, workerVars, dbVars
    <2>2. Unsent = <<>> /\ Unsent' = <<id>> /\ InHand' = InHand /\ activeBar' = activeBar
      BY <1>t, <2>1, NoClientAssumption DEF Unsent, InHand, activeBar
    <2>3. waitingBar' = Append(waitingBar, id)
      BY <1>t, <2>1, <2>2, AppendToAll DEF waitingBar
    <2>4. Service!Create(id)
      BY <2>1, <2>2, <2>3 DEF Service!Create, Service!Members, NewID, Elements
    <2> QED BY <2>4 DEF Service!Next
  <1>2. ASSUME NEW c \in Clients, NewSearchSend(c) PROVE UNCHANGED Service!serviceVars
    <2>1. /\ cpc[c] = "send" /\ holder = c /\ holder' = c /\ ask[c] \in IDs
          /\ cpc' = [cpc EXCEPT ![c] = "place"] /\ queue' = Append(queue, ask[c])
          /\ UNCHANGED <<issued, ask, wpc, cur, searchData>>
      BY <1>2 DEF NewSearchSend, AddSend, memVars, workerVars, dbVars, ManagerInv, OnceInv,
                  TypeInv, Busy
    <2>2. Unsent = <<ask[c]>> /\ Unsent' = <<>> /\ InHand' = InHand /\ activeBar' = activeBar
      BY <1>t, <2>1, NoClientAssumption DEF Unsent, InHand, activeBar
    <2>3. waitingBar' = waitingBar
      BY <1>t, <2>1, <2>2, AppendToAll DEF waitingBar
    <2> QED BY <2>1, <2>2, <2>3 DEF Service!serviceVars
  <1>3. CASE Restart
    <2>1. waitingBar' = <<>> /\ activeBar' = NoID /\ issued' = issued /\ searchData' = searchData
      BY <1>3 DEF Restart, waitingBar, activeBar, InHand, Unsent, dbVars
    <2> QED BY <2>1 DEF Service!Next, Service!Restart
  <1> SUFFICES ASSUME \A c \in Clients : ~NewSearch(c) /\ ~NewSearchSend(c), ~Restart
               PROVE  [Service!Next]_(Service!serviceVars)
    BY <1>1, <1>2, <1>3
  <1>u. Unsent' = Unsent
    BY UnsentStays
  <1>4. CASE WorkerRecv
    <2>1. /\ wpc = "idle" /\ queue # <<>> /\ cur' = Head(queue) /\ queue' = Tail(queue)
          /\ wpc' = "forget" /\ UNCHANGED <<issued, searchData>>
      BY <1>4 DEF WorkerRecv, GetRecv, dbVars
    <2>2. InHand = <<>> /\ InHand' = <<Head(queue)>> /\ activeBar' = activeBar
      BY <2>1 DEF InHand, activeBar
    <2>3. waitingBar' = waitingBar
      BY <1>t, <1>u, <2>1, <2>2, HeadToHand DEF waitingBar
    <2> QED BY <2>1, <2>2, <2>3 DEF Service!serviceVars
  <1>5. CASE StartSearch
    <2>1. wpc = "start" /\ wpc' = "scan" /\ UNCHANGED <<issued, queue, cur, searchData>>
      BY <1>5 DEF StartSearch, qvars, queueVars, dbVars
    <2>2. /\ InHand = <<cur>> /\ InHand' = <<>> /\ cur \in IDs
          /\ activeBar = NoID /\ activeBar' = cur
      BY <1>t, <2>1 DEF InHand, activeBar
    <2>3. waitingBar # <<>> /\ cur = Head(waitingBar) /\ waitingBar' = Tail(waitingBar)
      BY <1>t, <1>u, <2>1, <2>2, HandToActive DEF waitingBar
    <2> QED BY <2>1, <2>2, <2>3 DEF Service!Next, Service!Start
  <1>6. CASE SaveSearch
    <2>1. /\ wpc = "saveSearch" /\ wpc' = "drop" /\ UNCHANGED <<issued, queue>>
          /\ DOMAIN searchData' = DOMAIN searchData \cup {cur}
      BY <1>6 DEF SaveSearch, qvars, queueVars
    <2>2. /\ InHand = <<>> /\ InHand' = <<>> /\ cur \in IDs
          /\ activeBar = cur /\ activeBar' = NoID
      BY <1>t, <2>1 DEF InHand, activeBar
    <2>3. waitingBar' = waitingBar
      BY <1>u, <2>1, <2>2 DEF waitingBar
    <2> QED BY <2>1, <2>2, <2>3, NoIDAssumption DEF Service!Next, Service!Finish
  <1>7. CASE DBFault
    <2>1. /\ wpc \in {"saveSummary", "saveMatches", "saveSearch"} /\ wpc' = "idle"
          /\ UNCHANGED <<issued, queue, searchData>>
      BY <1>7 DEF DBFault, ToIdle, qvars, queueVars, dbVars
    <2>2. /\ InHand = <<>> /\ InHand' = <<>> /\ cur \in IDs
          /\ activeBar = cur /\ activeBar' = NoID
      BY <1>t, <2>1 DEF InHand, activeBar
    <2>3. waitingBar' = waitingBar
      BY <1>u, <2>1, <2>2 DEF waitingBar
    <2> QED BY <2>1, <2>2, <2>3, NoIDAssumption DEF Service!Next, Service!Fail
  <1>8. CASE LookUp
    <2>1. /\ wpc = "lookup" /\ wpc' = "start" /\ UNCHANGED <<issued, queue, cur, searchData>>
      BY <1>8 DEF LookUp, ManagerInv, MemInv, qvars, queueVars, dbVars
    <2>2. UNCHANGED <<waitingBar, activeBar>>
      BY <1>u, <2>1 DEF waitingBar, InHand, activeBar
    <2> QED BY <2>1, <2>2 DEF Service!serviceVars
  <1>9. CASE \/ LoadDone \/ WorkerForget \/ ScanExtension \/ ScanDone
             \/ SaveSummary \/ SaveMatches \/ CompleteSearch \/ DropSearch
             \/ \E c \in Clients : GetSearch(c) \/ ClientStep(c)
             \/ UNCHANGED vars
    <2>1. UNCHANGED <<issued, queue, searchData>>
      BY <1>9 DEF LoadDone, WorkerForget, GetForget, ScanExtension, ScanDone, SaveSummary,
                  SaveMatches, CompleteSearch, DropSearch, GetSearch, ClientStep,
                  NewSearchReturn, AddPos, GetFromMemory, GetPosition, GetFromDB,
                  qvars, queueVars, dbVars, vars
    <2>2. InHand' = InHand /\ activeBar' = activeBar
      BY <1>9 DEF LoadDone, WorkerForget, ScanExtension, ScanDone, SaveSummary,
                  SaveMatches, CompleteSearch, DropSearch, GetSearch, ClientStep,
                  NewSearchReturn, GetFromMemory, GetPosition, GetFromDB, ToIdle,
                  workerVars, vars, InHand, activeBar
    <2> QED BY <1>u, <2>1, <2>2 DEF waitingBar, Service!serviceVars
  <1> QED BY <1>4, <1>5, <1>6, <1>7, <1>8, <1>9 DEF Next, WorkerStep

\* The manager, with its lock, its channel, its tables and its three transactions,
\* is a queue with one server: searches are started in the order of createSearch,
\* one at a time and once each, and a search that is done stays done.
THEOREM ManagerIsService == Spec => Service!Spec
  <1>1. ManagerInv /\ [Next]_vars => [Service!Next]_(Service!serviceVars)
    BY StepMaps
  <1> QED BY <1>1, InitMaps, ManagerAlways, PTL DEF Spec, Service!Spec

-----------------------------------------------------------------------------
(* The positions                                                           *)

\* A search is given its position once, while it is the last of the channel or
\* after the worker has taken everything; the worker drops the position of the
\* search it has in hand.
PosInv ==
    /\ DOMAIN pos \subseteq Elements(issued)
    /\ \A c \in Clients : cpc[c] = "send" => ask[c] \notin DOMAIN pos
    /\ adding # NoID =>
          /\ adding \in Elements(issued)
          /\ queue = <<>> \/ queue[Len(queue)] = adding
    /\ getting # NoID => wpc = "forget" /\ cur = getting
    /\ PosWithinOne

-----------------------------------------------------------------------------
(* The four halves of Add and Get                                          *)

\* A send makes all the positions that there are neither better nor worse.
LEMMA SendKeepsPositions ==
    ASSUME QueueTypeOK, PosWithinOne, NEW id \in IDs, id \notin DOMAIN pos, AddSend(id)
    PROVE  PosWithinOne' /\ queue'[Len(queue')] = id
  <1>1. queue \in Seq(IDs) /\ Len(queue) \in Nat
    BY DEF QueueTypeOK
  <1>2. /\ queue' = Append(queue, id) /\ pos' = pos /\ getting' = getting
        /\ Elements(queue') = Elements(queue) \cup {id}
    BY <1>1, ElementsAppend DEF AddSend
  <1>3. /\ Len(queue') = Len(queue) + 1 /\ queue'[Len(queue) + 1] = id
        /\ \A i \in 1 .. Len(queue) : queue'[i] = queue[i]
    BY <1>1, <1>2
  <1>4. Pending' = Pending
    BY <1>2 DEF Pending
  <1>5. ASSUME NEW i \in 1 .. Len(queue'), queue'[i] \in DOMAIN pos'
        PROVE  pos'[queue'[i]] - Pending' \in {i - 1, i}
    <2>1. i \in 1 .. Len(queue)
      BY <1>1, <1>2, <1>3, <1>5
    <2> QED BY <1>2, <1>3, <1>4, <1>5, <2>1 DEF PosWithinOne
  <1>6. \A x \in DOMAIN pos' : x \notin Elements(queue') \cup {getting'} => pos'[x] <= 0
    BY <1>2 DEF PosWithinOne
  <1> QED BY <1>1, <1>3, <1>5, <1>6 DEF PosWithinOne

\* The position that is recorded is the length of the channel by then, of which
\* the search is the last, or nothing.
LEMMA PlaceIsRight ==
    ASSUME QueueTypeOK, PosWithinOne, Distinct(queue), AddPos,
           queue = <<>> \/ queue[Len(queue)] = adding
    PROVE  PosWithinOne'
  <1>1. /\ queue \in Seq(IDs) /\ Len(queue) \in Nat
        /\ queue' = queue /\ getting' = getting /\ Elements(queue') = Elements(queue)
        /\ DOMAIN pos' = DOMAIN pos \cup {adding}
        /\ pos'[adding] = Len(queue)
        /\ \A x \in DOMAIN pos \ {adding} : pos'[x] = pos[x]
    BY DEF QueueTypeOK, AddPos, Elements
  <1>2. Pending' = Pending /\ Pending \in {0, 1}
    BY <1>1 DEF Pending
  <1>3. ASSUME NEW i \in 1 .. Len(queue'), queue'[i] \in DOMAIN pos'
        PROVE  pos'[queue'[i]] - Pending' \in {i - 1, i}
    <2>1. CASE queue[i] = adding
      <3>1. queue[Len(queue)] = adding /\ Len(queue) \in 1 .. Len(queue)
        BY <1>1, <1>3
      <3>2. i = Len(queue)
        BY <1>1, <1>3, <2>1, <3>1 DEF Distinct
      <3> QED BY <1>1, <1>2, <2>1, <3>2
    <2>2. CASE queue[i] # adding
      BY <1>1, <1>2, <1>3, <2>2 DEF PosWithinOne
    <2> QED BY <2>1, <2>2
  <1>4. ASSUME NEW x \in DOMAIN pos', x \notin Elements(queue') \cup {getting'}
        PROVE  pos'[x] <= 0
    <2>1. CASE x = adding
      <3>1. queue = <<>>
        BY <1>1, <1>4, <2>1 DEF Elements
      <3> QED BY <1>1, <2>1, <3>1
    <2>2. CASE x # adding
      BY <1>1, <1>4, <2>2 DEF PosWithinOne
    <2> QED BY <2>1, <2>2
  <1> QED BY <1>3, <1>4 DEF PosWithinOne

\* Everybody moves up by one, and what is read until the decrement is one too large.
LEMMA RecvKeepsPositions ==
    ASSUME QueueTypeOK, PosWithinOne, GetRecv
    PROVE  /\ PosWithinOne'
           /\ queue' = <<>> \/ queue'[Len(queue')] = queue[Len(queue)]
  <1>1. /\ queue \in Seq(IDs) /\ queue # <<>> /\ queue' = Tail(queue) /\ pos' = pos
        /\ getting = NoID /\ getting' = Head(queue) /\ Head(queue) \in IDs
        /\ DOMAIN pos \subseteq IDs /\ \A x \in DOMAIN pos : pos[x] \in Int
    BY ElementsTail DEF QueueTypeOK, GetRecv
  <1>2. /\ Elements(queue) = {getting'} \cup Elements(queue')
        /\ Pending = 0 /\ Pending' = 1
    BY <1>1, ElementsTail, NoIDAssumption DEF Pending
  <1>3. /\ Len(queue) \in Nat /\ Len(queue') = Len(queue) - 1
        /\ \A i \in 1 .. Len(queue') : i + 1 \in 1 .. Len(queue) /\ queue'[i] = queue[i + 1]
    BY <1>1
  <1>4. ASSUME NEW i \in 1 .. Len(queue'), queue'[i] \in DOMAIN pos'
        PROVE  pos'[queue'[i]] - Pending' \in {i - 1, i}
    <2>1. pos[queue[i + 1]] - 0 \in {(i + 1) - 1, i + 1}
      BY <1>1, <1>2, <1>3, <1>4 DEF PosWithinOne
    <2> QED BY <1>1, <1>2, <1>3, <1>4, <2>1
  <1>5. \A x \in DOMAIN pos' : x \notin Elements(queue') \cup {getting'} => pos'[x] <= 0
    BY <1>1, <1>2, NoIDAssumption DEF PosWithinOne
  <1>6. queue' = <<>> \/ queue'[Len(queue')] = queue[Len(queue)]
    <2>1. CASE Len(queue') = 0
      BY <1>1, <2>1
    <2>2. CASE Len(queue') # 0
      BY <1>1, <1>3, <2>2
    <2> QED BY <2>1, <2>2
  <1> QED BY <1>4, <1>5, <1>6 DEF PosWithinOne

\* The decrement makes up for the receive.
LEMMA ForgetKeepsPositions ==
    ASSUME QueueTypeOK, PosWithinOne, GetForget
    PROVE  PosWithinOne'
  <1>1. /\ queue' = queue /\ Elements(queue') = Elements(queue)
        /\ getting # NoID /\ getting' = NoID
        /\ DOMAIN pos' = DOMAIN pos \ {getting}
        /\ \A x \in DOMAIN pos' : pos'[x] = pos[x] - 1 /\ pos[x] \in Int
        /\ Len(queue) \in Nat
    BY DEF QueueTypeOK, GetForget, Elements
  <1>2. Pending = 1 /\ Pending' = 0
    BY <1>1 DEF Pending
  <1>3. ASSUME NEW i \in 1 .. Len(queue'), queue'[i] \in DOMAIN pos'
        PROVE  pos'[queue'[i]] - Pending' \in {i - 1, i}
    <2>1. pos[queue[i]] - 1 \in {i - 1, i}
      BY <1>1, <1>2, <1>3 DEF PosWithinOne
    <2> QED BY <1>1, <1>2, <1>3, <2>1
  <1>4. \A x \in DOMAIN pos' : x \notin Elements(queue') \cup {getting'} => pos'[x] <= 0
    BY <1>1 DEF PosWithinOne
  <1> QED BY <1>3, <1>4 DEF PosWithinOne

\* Nobody else touches the queue.
LEMMA QueueKeepsPositions ==
    ASSUME PosWithinOne, UNCHANGED queueVars
    PROVE  PosWithinOne'
  BY DEF queueVars, PosWithinOne, Pending, Elements

-----------------------------------------------------------------------------
(* The manager                                                             *)

\* There are no positions before the first search.
LEMMA PosInit == Init => PosInv
  BY DEF Init, QInit, QueueInit, PosInv, PosWithinOne, Elements

\* Every step of the requests, of the worker and of the environment.
LEMMA PosStep ==
    ASSUME TypeInv, OnceInv, PosInv, [Next]_vars
    PROVE  PosInv'
  <1> USE DEF PosInv
  <1>t. /\ QueueTypeOK /\ queue \in Seq(IDs) /\ issued \in Seq(IDs)
        /\ cpc \in [Clients -> ClientPCs] /\ ask \in [Clients -> IDs \cup {NoID}]
    BY DEF TypeInv, TypeOK, QTypeOK, QueueTypeOK, ClientTypeOK
  <1>q. issued' = issued => Elements(issued') = Elements(issued)
    BY DEF Elements
  <1>1. ASSUME NEW c \in Clients, NewSearch(c) PROVE PosInv'
    <2>1. PICK id \in IDs : /\ NewID(id)
                            /\ cpc' = [cpc EXCEPT ![c] = "send"]
                            /\ ask' = [ask EXCEPT ![c] = id]
      BY <1>1 DEF NewSearch
    <2>2. id \notin Elements(issued) /\ Elements(issued') = Elements(issued) \cup {id}
      BY <1>t, <2>1, ElementsAppend DEF NewID
    <2>3. UNCHANGED <<queueVars, wpc, cur>>
      BY <1>1 DEF NewSearch, workerVars
    <2>4. PosWithinOne'
      BY <2>3, QueueKeepsPositions
    <2>5. cpc'[c] = "send" /\ ask'[c] = id
          /\ \A d \in Clients \ {c} : cpc'[d] = cpc[d] /\ ask'[d] = ask[d]
      BY <1>t, <2>1
    <2> QED BY <2>2, <2>3, <2>4, <2>5 DEF queueVars
  <1>2. ASSUME NEW c \in Clients, NewSearchSend(c) PROVE PosInv'
    <2>1. /\ cpc[c] = "send" /\ AddSend(ask[c]) /\ cpc' = [cpc EXCEPT ![c] = "place"]
          /\ adding' = ask[c] /\ UNCHANGED <<issued, ask, wpc, cur, pos, getting>>
      BY <1>2 DEF NewSearchSend, AddSend, workerVars
    <2>2. ask[c] \in IDs /\ ask[c] \in Elements(issued)
      BY <1>t, <2>1 DEF TypeInv, Busy, OnceInv
    <2>3. PosWithinOne' /\ queue'[Len(queue')] = ask[c]
      BY <1>t, <2>1, <2>2, SendKeepsPositions
    <2>4. \A d \in Clients : cpc'[d] = "send" => cpc[d] = "send"
      BY <1>t, <2>1
    <2> QED BY <1>q, <2>1, <2>2, <2>3, <2>4
  <1>3. ASSUME NEW c \in Clients, NewSearchReturn(c) PROVE PosInv'
    <2>1. /\ cpc[c] = "place" /\ AddPos /\ Return(c)
          /\ adding # NoID /\ adding' = NoID
          /\ UNCHANGED <<issued, wpc, cur, getting, queue>>
      BY <1>3 DEF NewSearchReturn, AddPos, workerVars
    <2>2. DOMAIN pos' = DOMAIN pos \cup {adding}
      BY <2>1 DEF AddPos
    <2>3. PosWithinOne'
      BY <1>t, <2>1, PlaceIsRight DEF OnceInv
    <2>4. \A d \in Clients : cpc'[d] # "send"
      BY <1>t, <2>1 DEF OnceInv, Return
    <2> QED BY <1>q, <2>1, <2>2, <2>3, <2>4
  <1>4. ASSUME NEW c \in Clients,
               GetSearch(c) \/ GetFromMemory(c) \/ GetPosition(c) \/ GetFromDB(c)
        PROVE  PosInv'
    <2>1. UNCHANGED <<issued, queueVars, wpc, cur>>
      BY <1>4 DEF GetSearch, GetFromMemory, GetPosition, GetFromDB, qvars, workerVars
    <2>2. /\ cpc'[c] # "send"
          /\ \A d \in Clients \ {c} : cpc'[d] = cpc[d] /\ ask'[d] = ask[d]
      BY <1>4, <1>t DEF GetSearch, GetFromMemory, GetPosition, GetFromDB, Return, Answer, AnswerAt
    <2>3. PosWithinOne'
      BY <2>1, QueueKeepsPositions
    <2> QED BY <1>q, <2>1, <2>2, <2>3 DEF queueVars
  <1>5. CASE WorkerRecv
    <2>1. /\ GetRecv /\ cur' = getting' /\ wpc' = "forget"
          /\ UNCHANGED <<issued, cpc, ask, pos, adding>>
      BY <1>5 DEF WorkerRecv, GetRecv, clientVars
    <2>2. PosWithinOne' /\ (queue' = <<>> \/ queue'[Len(queue')] = queue[Len(queue)])
      BY <1>t, <2>1, RecvKeepsPositions
    <2>3. queue # <<>>
      BY <2>1 DEF GetRecv
    <2> QED BY <1>q, <2>1, <2>2, <2>3
  <1>6. CASE WorkerForget
    <2>1. GetForget /\ UNCHANGED <<issued, cpc, ask>>
      BY <1>6 DEF WorkerForget, clientVars
    <2>2. /\ PosWithinOne' /\ getting' = NoID
          /\ DOMAIN pos' \subseteq DOMAIN pos /\ UNCHANGED <<adding, queue>>
      BY <1>t, <2>1, ForgetKeepsPositions DEF GetForget
    <2> QED BY <1>q, <2>1, <2>2
  <1>7. CASE Restart
    <2>1. /\ queue' = <<>> /\ DOMAIN pos' = {} /\ adding' = NoID /\ getting' = NoID
          /\ \A c \in Clients : cpc'[c] = "idle"
      BY <1>7 DEF Restart
    <2>2. PosWithinOne'
      BY <2>1 DEF PosWithinOne
    <2> QED BY <2>1, <2>2
  <1>8. CASE \/ LoadDone \/ LookUp \/ StartSearch \/ ScanExtension \/ ScanDone
             \/ SaveSummary \/ SaveMatches \/ CompleteSearch \/ SaveSearch \/ DropSearch
             \/ DBFault \/ UNCHANGED vars
    <2>1. UNCHANGED <<issued, queueVars, cpc, ask>>
      BY <1>8 DEF LoadDone, LookUp, StartSearch, ScanExtension, ScanDone, SaveSummary,
                  SaveMatches, CompleteSearch, SaveSearch, DropSearch, DBFault,
                  qvars, clientVars, vars
    <2>2. wpc = "forget" => UNCHANGED <<wpc, cur>>
      BY <1>8 DEF LoadDone, LookUp, StartSearch, ScanExtension, ScanDone, SaveSummary,
                  SaveMatches, CompleteSearch, SaveSearch, DropSearch, DBFault,
                  workerVars, vars
    <2>3. PosWithinOne'
      BY <2>1, QueueKeepsPositions
    <2> QED BY <1>q, <2>1, <2>2, <2>3 DEF queueVars
  <1> QED BY <1>1, <1>2, <1>3, <1>4, <1>5, <1>6, <1>7, <1>8 DEF Next, WorkerStep, ClientStep

\* PosWithinOne: a queued search is told its place or the one before it, and a
\* search that has left the queue is never told that it waits.
THEOREM PositionsAreClose == Spec => []PosWithinOne
  <1>1. Init => PosInv
    BY PosInit
  <1>2. TypeInv /\ OnceInv /\ PosInv /\ [Next]_vars => PosInv'
    BY PosStep
  <1>3. PosInv => PosWithinOne
    BY DEF PosInv
  <1>4. Spec => [](TypeInv /\ OnceInv)
    BY StoredInvariant, PTL
  <1> QED BY <1>1, <1>2, <1>3, <1>4, PTL DEF Spec
-----------------------------------------------------------------------------
(* The status of a search, as its clients see it                           *)

\* What a client was told is behind the search's own status, and a copy a
\* handler has taken lies between the two: the client that asks again waits for
\* the answer, so its last one is older than the copy.
ToldBehind(c) == reply[c].status \in Statuses =>
    /\ reply[c].id \in Elements(issued)
    /\ Rank(reply[c].status) <= Rank(srch[reply[c].id].status)

CopyBetween(c) == cpc[c] = "pos" =>
    /\ Rank(copied[c]) <= Rank(srch[ask[c]].status)
    /\ reply[c].status \in Statuses /\ reply[c].id = ask[c]
          => Rank(reply[c].status) <= Rank(copied[c])

StatusInv == \A c \in Clients : ToldBehind(c) /\ CopyBetween(c)

-----------------------------------------------------------------------------
\* The order of the statuses.
LEMMA Ranks ==
    /\ Rank("queued") = 0 /\ Rank("started") = 1 /\ Rank("completed") = 2
    /\ \A s \in Statuses : Rank(s) \in 0 .. 2
  BY DEF Rank, Statuses

\* The status of an issued search only goes forward: NewSearch writes a fresh ID,
\* and the worker never starts a completed search again (OnceInv).
LEMMA StatusForward ==
    ASSUME TypeInv, OnceInv, [Next]_vars,
           NEW id \in Elements(issued)
    PROVE  Rank(srch[id].status) <= Rank(srch'[id].status)
<1>t. /\ id \in IDs /\ srch \in [IDs -> Search]
      /\ srch[id].status \in Statuses
    BY DEF TypeInv, TypeOK, QTypeOK, MemTypeOK, Elements, Search
<1>r. Rank(srch[id].status) \in 0 .. 2
    BY <1>t, Ranks
<1>1. ASSUME NEW c \in Clients, NewSearch(c) PROVE srch'[id] = srch[id]
  <2>1. PICK new \in IDs, private \in Privacy :
            /\ new \notin Elements(issued)
            /\ srch' = [srch EXCEPT ![new] = NewStruct(private, crashes)]
      BY <1>1 DEF NewSearch, NewID
  <2> QED BY <1>t, <2>1
<1>2. ASSUME StartSearch PROVE Rank(srch[id].status) <= Rank(srch'[id].status)
  <2>1. CASE id # cur
    <3>1. srch'[id] = srch[id]
        BY <1>2, <1>t, <2>1 DEF StartSearch
    <3> QED BY <1>r, <3>1
  <2>2. CASE id = cur
    <3>1. srch'[id].status = "started"
        BY <1>2, <1>t, <2>2 DEF StartSearch, Search
    <3>2. srch[id].status \in {"queued", "started"}
        BY <1>2, <1>t, <2>2 DEF StartSearch, OnceInv, Working, Statuses
    <3> QED BY <3>1, <3>2, Ranks
  <2> QED BY <2>1, <2>2
<1>3. ASSUME CompleteSearch PROVE Rank(srch[id].status) <= Rank(srch'[id].status)
  <2>1. srch'[id].status \in {srch[id].status, "completed"}
      BY <1>3, <1>t DEF CompleteSearch, Search
  <2> QED BY <1>r, <2>1, Ranks
<1>4. \/ \E c \in Clients : NewSearch(c)
      \/ StartSearch
      \/ CompleteSearch
      \/ srch' = srch
    BY DEF Next, WorkerStep, ClientStep, NewSearchSend, NewSearchReturn, GetSearch,
           GetFromMemory, GetPosition, GetFromDB, LoadDone, WorkerRecv,
           WorkerForget, LookUp, ScanExtension, ScanDone, SaveSummary, SaveMatches,
           SaveSearch, DropSearch, DBFault, Restart, vars, memVars
<1> QED BY <1>r, <1>1, <1>2, <1>3, <1>4

\* Which steps touch what a client holds: its own answers, and what takes a copy.
LEMMA AnswerSteps ==
    ASSUME TypeInv, [Next]_vars, NEW c \in Clients
    PROVE  \/ reply'[c] = reply[c]
              /\ (cpc'[c] = "pos" =>
                     /\ cpc[c] = "pos" /\ ask'[c] = ask[c] /\ copied'[c] = copied[c])
           \/ /\ reply'[c] = reply[c]
              /\ GetFromMemory(c)
              /\ ask'[c] = ask[c] /\ copied'[c] = srch[ask[c]].status
           \/ /\ cpc'[c] = "idle" /\ reply'[c].status \notin Statuses
           \/ /\ cpc[c] = "pos" /\ cpc'[c] = "idle"
              /\ reply'[c] = [id |-> ask[c], status |-> copied[c], pos |-> Pos(ask[c])]
           \/ /\ cpc[c] = "db" /\ cpc'[c] = "idle"
              /\ reply'[c] = [id |-> ask[c], status |-> "completed", pos |-> -1]
              /\ ask[c] \in DOMAIN searchData
<1>t. /\ cpc \in [Clients -> ClientPCs]
      /\ ask \in [Clients -> IDs \cup {NoID}]
      /\ copied \in [Clients -> Statuses]
      /\ reply \in [Clients -> Reply]
    BY DEF TypeInv, TypeOK, ClientTypeOK
<1> DEFINE Same == /\ reply'[c] = reply[c]
                   /\ cpc'[c] = "pos" =>
                        /\ cpc[c] = "pos" /\ ask'[c] = ask[c]
                        /\ copied'[c] = copied[c]
<1>1. ASSUME NEW d \in Clients, NewSearch(d) PROVE Same
    BY <1>t, <1>1 DEF NewSearch
<1>2. ASSUME NEW d \in Clients, NewSearchSend(d) PROVE Same
    BY <1>t, <1>2 DEF NewSearchSend
<1>3. ASSUME NEW d \in Clients, NewSearchReturn(d) PROVE Same
    BY <1>t, <1>3 DEF NewSearchReturn, Return
<1>4. ASSUME NEW d \in Clients, GetSearch(d) PROVE Same
    BY <1>t, <1>4 DEF GetSearch
<1>5. ASSUME NEW d \in Clients, d # c,
             GetFromMemory(d) \/ GetPosition(d) \/ GetFromDB(d)
      PROVE  Same
    BY <1>t, <1>5 DEF GetFromMemory, GetPosition, GetFromDB, Answer, AnswerAt, Return
<1>6. ASSUME GetFromMemory(c)
      PROVE  \/ reply'[c] = reply[c] /\ ask'[c] = ask[c]
                /\ copied'[c] = srch[ask[c]].status
             \/ cpc'[c] = "idle" /\ reply'[c].status \notin Statuses
    BY <1>t, <1>6 DEF GetFromMemory, Answer, AnswerAt, Return, Statuses
<1>7. ASSUME GetPosition(c)
      PROVE  /\ cpc[c] = "pos" /\ cpc'[c] = "idle"
             /\ reply'[c] = [id |-> ask[c], status |-> copied[c], pos |-> Pos(ask[c])]
    BY <1>t, <1>7 DEF GetPosition, Answer, AnswerAt, Return
<1>8. ASSUME GetFromDB(c)
      PROVE  \/ cpc'[c] = "idle" /\ reply'[c].status \notin Statuses
             \/ /\ cpc[c] = "db" /\ cpc'[c] = "idle"
                /\ reply'[c] = [id |-> ask[c], status |-> "completed", pos |-> -1]
                /\ ask[c] \in DOMAIN searchData
    BY <1>t, <1>8 DEF GetFromDB, Answer, AnswerAt, Return, Statuses
<1>9. CASE Restart
    BY <1>9 DEF Restart
<1>10. CASE UNCHANGED clientVars
    BY <1>10 DEF clientVars
<1>11. \/ \E d \in Clients : NewSearch(d) \/ GetSearch(d) \/ ClientStep(d)
       \/ Restart
       \/ UNCHANGED clientVars
    BY DEF Next, WorkerStep, LoadDone, WorkerRecv, WorkerForget, LookUp,
           StartSearch, ScanExtension, ScanDone, SaveSummary, SaveMatches,
           CompleteSearch, SaveSearch, DropSearch, DBFault, vars
<1> QED BY <1>1, <1>2, <1>3, <1>4, <1>5, <1>6, <1>7, <1>8, <1>9, <1>10, <1>11
        DEF ClientStep

\* An answer is the copy, or it comes from a record, which says "completed"; a
\* copy is the status the search has when it is taken.
LEMMA StatusInvStep ==
    ASSUME TypeInv, TypeInv', OnceInv, StoredInv, StatusInv, [Next]_vars
    PROVE  /\ StatusInv'
           /\ \A c \in Clients :
                 (/\ reply[c].id = reply'[c].id
                  /\ reply[c].status \in Statuses /\ reply'[c].status \in Statuses)
                 => Rank(reply[c].status) <= Rank(reply'[c].status)
<1> SUFFICES ASSUME NEW c \in Clients
             PROVE  /\ ToldBehind(c)' /\ CopyBetween(c)'
                    /\ (/\ reply[c].id = reply'[c].id
                        /\ reply[c].status \in Statuses
                        /\ reply'[c].status \in Statuses)
                       => Rank(reply[c].status) <= Rank(reply'[c].status)
    BY DEF StatusInv
<1>s. ToldBehind(c) /\ CopyBetween(c)
    BY DEF StatusInv
<1>f. \A id \in Elements(issued) :
         /\ id \in Elements(issued') /\ id \in IDs
         /\ Rank(srch[id].status) \in 0 .. 2 /\ Rank(srch'[id].status) \in 0 .. 2
         /\ Rank(srch[id].status) <= Rank(srch'[id].status)
  <2> SUFFICES ASSUME NEW id \in Elements(issued)
               PROVE  /\ id \in Elements(issued') /\ id \in IDs
                      /\ Rank(srch[id].status) \in 0 .. 2
                      /\ Rank(srch'[id].status) \in 0 .. 2
                      /\ Rank(srch[id].status) <= Rank(srch'[id].status)
      OBVIOUS
  <2>1. id \in Elements(issued') /\ id \in IDs
    <3>1. id \in IDs
        BY DEF TypeInv, TypeOK, QTypeOK, Elements
    <3> QED BY <3>1, Lasting
  <2>2. srch[id].status \in Statuses /\ srch'[id].status \in Statuses
      BY <2>1 DEF TypeInv, TypeOK, MemTypeOK, Search
  <2> QED BY <2>1, <2>2, Ranks, StatusForward
<1>t. /\ copied[c] \in Statuses /\ Rank(copied[c]) \in 0 .. 2
      /\ reply[c].status \in Statuses => Rank(reply[c].status) \in 0 .. 2
    BY Ranks DEF TypeInv, TypeOK, ClientTypeOK
<1>a. cpc[c] # "idle" => ask[c] \in Elements(issued)
    BY DEF StoredInv, ClientsTold
<1>1. CASE /\ reply'[c] = reply[c]
           /\ cpc'[c] = "pos" =>
                 cpc[c] = "pos" /\ ask'[c] = ask[c] /\ copied'[c] = copied[c]
  <2>1. ToldBehind(c)'
      BY <1>1, <1>s, <1>f, <1>t DEF ToldBehind
  <2>2. CopyBetween(c)'
      BY <1>1, <1>s, <1>f, <1>t, <1>a DEF CopyBetween
  <2> QED BY <1>1, <1>t, <2>1, <2>2
<1>2. CASE /\ reply'[c] = reply[c] /\ GetFromMemory(c)
           /\ ask'[c] = ask[c] /\ copied'[c] = srch[ask[c]].status
  <2>1. ToldBehind(c)'
      BY <1>2, <1>s, <1>f, <1>t DEF ToldBehind
  <2>2. ask[c] \in Elements(issued) /\ srch' = srch
      BY <1>2, <1>a DEF GetFromMemory, memVars
  <2>3. CopyBetween(c)'
      BY <1>2, <1>s, <1>f, <2>2 DEF CopyBetween, ToldBehind
  <2> QED BY <1>2, <1>t, <2>1, <2>3
<1>3. CASE cpc'[c] = "idle" /\ reply'[c].status \notin Statuses
    BY <1>3 DEF ToldBehind, CopyBetween
<1>4. CASE /\ cpc[c] = "pos" /\ cpc'[c] = "idle"
           /\ reply'[c] = [id |-> ask[c], status |-> copied[c], pos |-> Pos(ask[c])]
  <2>1. ask[c] \in Elements(issued)
      BY <1>4, <1>a
  <2>2. ToldBehind(c)'
      BY <1>4, <1>s, <1>f, <1>t, <2>1 DEF ToldBehind, CopyBetween
  <2> QED BY <1>4, <1>s, <2>2 DEF CopyBetween
<1>5. CASE /\ cpc[c] = "db" /\ cpc'[c] = "idle"
           /\ reply'[c] = [id |-> ask[c], status |-> "completed", pos |-> -1]
           /\ ask[c] \in DOMAIN searchData
  <2>1. ask[c] \in Elements(issued) /\ srch[ask[c]].status = "completed"
      BY <1>5 DEF StoredInv, RecordsCompleted, IsCompleted
  <2>2. Rank("completed") = 2 /\ Rank(srch'[ask[c]].status) = 2
      BY <1>f, <2>1, Ranks
  <2>3. ToldBehind(c)'
      BY <1>5, <1>f, <2>1, <2>2 DEF ToldBehind
  <2> QED BY <1>5, <1>t, <2>2, <2>3 DEF CopyBetween
<1> QED BY <1>1, <1>2, <1>3, <1>4, <1>5, AnswerSteps

\* For every number of requests, restarts and failed writes: of the answers a
\* client gets about one search, one after the other, none is behind the last.
THEOREM StatusForwardOnly == Spec => StatusNeverGoesBack
<1>1. Init => StatusInv
    BY DEF Init, StatusInv, ToldBehind, CopyBetween, NoReply, Statuses
<1> DEFINE Known == TypeInv /\ OnceInv /\ StoredInv
<1>2. Known /\ Known' /\ StatusInv /\ [Next]_vars => StatusInv'
    BY StatusInvStep
<1>3. Known /\ Known' /\ StatusInv /\ [Next]_vars
      => [\A c \in Clients :
            (/\ reply[c].id = reply'[c].id
             /\ reply[c].status \in Statuses /\ reply'[c].status \in Statuses)
            => Rank(reply[c].status) <= Rank(reply'[c].status)]_vars
    BY StatusInvStep
<1> QED BY <1>1, <1>2, <1>3, StoredInvariant, PTL DEF Spec, StatusNeverGoesBack

-----------------------------------------------------------------------------
(* The public history                                                      *)

\* The search the worker has in hand, and whether its time of start is set.
HandPCs == {"forget", "lookup", "start", "scan", "saveSummary", "saveMatches", "complete",
           "saveSearch"}
BegunPCs == HandPCs \ {"forget", "lookup", "start"}

\* Every search of the history was created before x.
DatesBefore(x) == \A t \in DOMAIN publicDates : IssuedBefore(publicDates[t], x)

\* The history has public searches with a record, each once; and while the clock has
\* not gone back, none from after its last reading, and the later the younger.
DatesInv ==
    /\ IsFiniteSet(DOMAIN publicDates)
    /\ \A t \in DOMAIN publicDates :
          /\ setBack \/ t <= now
          /\ publicDates[t] \in Elements(issued) \cap DOMAIN searchData
          /\ ~searchData[publicDates[t]].private /\ ~srch[publicDates[t]].private
    /\ \A t, u \in DOMAIN publicDates :
          t < u => /\ publicDates[t] # publicDates[u]
                   /\ setBack \/ IssuedBefore(publicDates[t], publicDates[u])

\* The search in hand is younger than all of them and older than those that wait; and
\* it has no record yet, and its time is not before theirs, if the clock is right.
HandInv ==
    /\ wpc \in HandPCs =>
          /\ DatesBefore(cur)
          /\ \A i \in DOMAIN queue : IssuedBefore(cur, queue[i])
          /\ \A c \in Clients : cpc[c] = "send" => IssuedBefore(cur, ask[c])
    /\ wpc \in BegunPCs =>
          /\ srch[cur].started = now
          /\ \A t \in DOMAIN publicDates : setBack \/ t <= srch[cur].started
    /\ wpc = "saveSearch" => cur \notin DOMAIN searchData

\* Those that wait are younger than the history, and wait in the order of their creation.
WaitInv ==
    /\ \A i \in DOMAIN queue : DatesBefore(queue[i])
    /\ \A i, j \in DOMAIN queue : i < j => IssuedBefore(queue[i], queue[j])
    /\ \A c \in Clients : cpc[c] = "send" =>
          /\ DatesBefore(ask[c])
          /\ \A i \in DOMAIN queue : IssuedBefore(queue[i], ask[c])

HistoryInv == DatesInv /\ HandInv /\ WaitInv

\* What was created before something else stays so.
LEMMA IssuedLasts ==
    ASSUME TypeInv, issued' = issued \/ \E id \in IDs : NewID(id)
    PROVE  /\ \A a, b : IssuedBefore(a, b) => IssuedBefore(a, b)'
           /\ Elements(issued) \subseteq Elements(issued)'
<1>1. issued \in Seq(IDs)
    BY DEF TypeInv, TypeOK, QTypeOK
<1>2. \A i \in 1 .. Len(issued) : i \in 1 .. Len(issued') /\ issued'[i] = issued[i]
    BY <1>1 DEF NewID
<1> QED BY <1>2 DEF IssuedBefore, Elements

\* A new search is younger than all the others.
LEMMA NewIsYoungest ==
    ASSUME TypeInv, NEW id \in IDs, NewID(id), NEW a \in Elements(issued)
    PROVE  IssuedBefore(a, id)'
<1>1. issued \in Seq(IDs) /\ Len(issued) \in Nat /\ issued' = Append(issued, id)
    BY DEF TypeInv, TypeOK, QTypeOK, NewID
<1>2. PICK i \in 1 .. Len(issued) : issued[i] = a
    BY DEF Elements
<1>3. /\ i \in 1 .. Len(issued') /\ issued'[i] = a
      /\ Len(issued) + 1 \in 1 .. Len(issued') /\ issued'[Len(issued) + 1] = id
      /\ i < Len(issued) + 1
    BY <1>1, <1>2
<1> QED BY <1>3 DEF IssuedBefore

\* The steps that change the history, the queue or the search in hand, and the others.
LEMMA OtherSteps ==
    ASSUME TypeInv, [Next]_vars,
           ~SaveSearch, ~WorkerRecv, ~StartSearch, ~Restart,
           \A c \in Clients : ~NewSearch(c) /\ ~NewSearchSend(c)
    PROVE  /\ UNCHANGED <<issued, queue, searchData, publicDates, now, setBack>>
           /\ wpc' = "saveSearch" => wpc \in {"complete", "saveSearch"}
           /\ \A id \in IDs : /\ srch'[id].private = srch[id].private
                              /\ srch'[id].started = srch[id].started
           /\ wpc' \in HandPCs => cur' = cur /\ wpc \in HandPCs /\ (wpc' \in BegunPCs => wpc \in BegunPCs)
           /\ \A c \in Clients : cpc'[c] = "send" => cpc[c] = "send" /\ ask'[c] = ask[c]
<1>t. /\ now \in Nat /\ srch \in [IDs -> Search]
      /\ cpc \in [Clients -> ClientPCs] /\ ask \in [Clients -> IDs \cup {NoID}]
      /\ wpc \notin {"off", "idle"} => cur \in IDs
    BY DEF TypeInv, TypeOK, MemTypeOK, ClientTypeOK, EnvTypeOK, Busy
<1> DEFINE Goal ==
        /\ UNCHANGED <<issued, queue, searchData, publicDates, now, setBack>>
        /\ wpc' = "saveSearch" => wpc \in {"complete", "saveSearch"}
        /\ \A id \in IDs : /\ srch'[id].private = srch[id].private
                           /\ srch'[id].started = srch[id].started
        /\ wpc' \in HandPCs => cur' = cur /\ wpc \in HandPCs /\ (wpc' \in BegunPCs => wpc \in BegunPCs)
        /\ \A c \in Clients : cpc'[c] = "send" => cpc[c] = "send" /\ ask'[c] = ask[c]
<1> USE DEF qvars, queueVars, memVars, workerVars, clientVars, dbVars, envVars, clockVars, HandPCs, BegunPCs
<1>1. ASSUME NEW c \in Clients, NewSearchReturn(c) \/ GetSearch(c) PROVE Goal
    BY <1>1, <1>t DEF NewSearchReturn, GetSearch, AddPos, Return
<1>2. ASSUME NEW c \in Clients, GetFromMemory(c) \/ GetPosition(c) \/ GetFromDB(c) PROVE Goal
    BY <1>2, <1>t DEF GetFromMemory, GetPosition, GetFromDB, Answer, AnswerAt, Return
<1>3. ASSUME WorkerForget \/ LookUp \/ ScanExtension \/ ScanDone PROVE Goal
    BY <1>3, <1>t DEF WorkerForget, GetForget, LookUp, ScanExtension, ScanDone, ToIdle
<1>4. ASSUME SaveSummary \/ SaveMatches \/ DropSearch \/ DBFault PROVE Goal
    BY <1>4, <1>t DEF SaveSummary, SaveMatches, DropSearch, DBFault, ToIdle
<1>5. CASE CompleteSearch
    BY <1>5, <1>t DEF CompleteSearch, Search
<1>6. ASSUME LoadDone \/ UNCHANGED vars PROVE Goal
    BY <1>6, <1>t DEF LoadDone, vars
<1> QED BY <1>1, <1>2, <1>3, <1>4, <1>5, <1>6 DEF Next, WorkerStep, ClientStep

\* No step puts the history, the search in hand and the queue out of order.
LEMMA HistoryStep ==
    ASSUME TypeInv, TypeInv', OnceInv, StoredInv, HistoryInv, [Next]_vars
    PROVE  HistoryInv'
<1> USE DEF HistoryInv
<1>t. /\ now \in Nat /\ srch \in [IDs -> Search] /\ queue \in Seq(IDs) /\ issued \in Seq(IDs)
      /\ cpc \in [Clients -> ClientPCs] /\ ask \in [Clients -> IDs \cup {NoID}]
      /\ wpc \notin {"off", "idle"} => cur \in IDs
      /\ DOMAIN publicDates \subseteq Nat /\ \A t \in DOMAIN publicDates : publicDates[t] \in IDs
      /\ Elements(issued) \subseteq IDs
    BY DEF TypeInv, TypeOK, QTypeOK, QueueTypeOK, MemTypeOK, ClientTypeOK, DBTypeOK,
           EnvTypeOK, Busy, Elements
<1>i. issued' = issued => \A a, b : IssuedBefore(a, b) => IssuedBefore(a, b)'
    BY DEF IssuedBefore
<1>j. issued' = issued => Elements(issued)' = Elements(issued)
    BY DEF Elements
<1>c. wpc \in HandPCs => cur \in Elements(issued)
    BY DEF HandPCs, OnceInv, Working, StoredInv, WorkerStored, IsCompleted
<1>1. ASSUME NEW c \in Clients, NewSearch(c) PROVE HistoryInv'
  <2>1. PICK id \in IDs, private \in Privacy :
            /\ NewID(id)
            /\ srch' = [srch EXCEPT ![id] = NewStruct(private, crashes)]
            /\ ask' = [ask EXCEPT ![c] = id]
      BY <1>1 DEF NewSearch
  <2>2. /\ UNCHANGED <<queue, searchData, publicDates, wpc, cur, now, setBack>>
        /\ \A d \in Clients : d # c => cpc[d] # "send"
        /\ cpc' = [cpc EXCEPT ![c] = "send"]
      BY <1>1, NoClientAssumption DEF NewSearch, queueVars, dbVars, workerVars, envVars, clockVars, Free, OnceInv
  <2>3. /\ \A a, b : IssuedBefore(a, b) => IssuedBefore(a, b)'
        /\ Elements(issued) \subseteq Elements(issued)'
        /\ \A a \in Elements(issued) : IssuedBefore(a, id)' /\ srch'[a] = srch[a]
      BY <2>1, <1>t, IssuedLasts, NewIsYoungest DEF NewID
  <2>4. \A d \in Clients : cpc'[d] = "send" => d = c /\ ask'[d] = id
      BY <2>1, <2>2, <1>t
  <2>5. DatesInv'
      BY <2>2, <2>3 DEF DatesInv
  <2>6. \A i \in DOMAIN queue : queue[i] \in Elements(issued)
    <3>1. \A x \in Elements(queue) : x \in Elements(issued)
        BY Zenon DEF OnceInv
    <3>2. \A i \in DOMAIN queue : queue[i] \in Elements(queue)
      <4>1. DOMAIN queue = 1 .. Len(queue)
          BY <1>t
      <4> QED BY Zenon, <4>1 DEF Elements
    <3> QED BY Zenon, <3>1, <3>2
  <2>7. HandInv'
      BY <2>2, <2>3, <2>4, <1>c DEF HandInv, DatesBefore, HandPCs, BegunPCs
  <2>8. WaitInv'
      BY <2>2, <2>3, <2>4, <2>6 DEF WaitInv, DatesBefore, DatesInv
  <2> QED BY <2>5, <2>7, <2>8
<1>2. ASSUME NEW c \in Clients, NewSearchSend(c) PROVE HistoryInv'
  <2>1. /\ UNCHANGED <<issued, searchData, publicDates, wpc, cur, now, setBack, srch, ask>>
        /\ cpc[c] = "send" /\ queue' = Append(queue, ask[c])
        /\ \A d \in Clients : cpc'[d] # "send"
      BY <1>2, <1>t DEF NewSearchSend, AddSend, memVars, dbVars, workerVars, envVars, clockVars, OnceInv
  <2>2. ask[c] \in IDs
      BY <2>1 DEF TypeInv, Busy
  <2>3. /\ DOMAIN queue = 1 .. Len(queue) /\ Len(queue) \in Nat
        /\ DOMAIN queue' = 1 .. (Len(queue) + 1)
        /\ \A i \in 1 .. Len(queue) : queue'[i] = queue[i]
        /\ queue'[Len(queue) + 1] = ask[c]
      BY <2>1, <2>2, <1>t
  <2>4. DatesInv'
      BY <2>1, <1>i, <1>j DEF DatesInv
  <2>5. HandInv'
      BY <2>1, <2>3, <1>i DEF HandInv, DatesBefore, HandPCs, BegunPCs
  <2>6. WaitInv'
      BY <2>1, <2>3, <1>i DEF WaitInv, DatesBefore
  <2> QED BY <2>4, <2>5, <2>6
<1>3. CASE WorkerRecv
  <2>1. /\ UNCHANGED <<issued, searchData, publicDates, now, setBack, srch, ask, cpc>>
        /\ queue # <<>> /\ queue' = Tail(queue) /\ cur' = Head(queue) /\ wpc' = "forget"
      BY <1>3 DEF WorkerRecv, GetRecv, memVars, dbVars, clientVars, envVars, clockVars
  <2>2. /\ DOMAIN queue = 1 .. Len(queue) /\ Len(queue) \in Nat /\ 1 \in DOMAIN queue
        /\ cur' = queue[1]
        /\ DOMAIN queue' = 1 .. (Len(queue) - 1)
        /\ \A i \in DOMAIN queue' : i + 1 \in DOMAIN queue /\ queue'[i] = queue[i + 1] /\ 1 < i + 1
        /\ \A i, j \in DOMAIN queue' : i < j => i + 1 < j + 1
      BY <2>1, <1>t
  <2>3. DatesInv'
      BY <2>1, <1>i, <1>j DEF DatesInv
  <2>4. HandInv'
      BY <2>1, <2>2, <1>i DEF HandInv, DatesBefore, HandPCs, BegunPCs, WaitInv
  <2>5. WaitInv'
      BY <2>1, <2>2, <1>i DEF WaitInv, DatesBefore
  <2> QED BY <2>3, <2>4, <2>5
<1>4. CASE StartSearch
  <2>1. PICK t \in 0 .. MaxTime :
            /\ now' = t /\ setBack' = (setBack \/ t < now)
            /\ srch' = [srch EXCEPT ![cur].status = "started", ![cur].started = t,
                                    ![cur].matched = FALSE]
      BY <1>4 DEF StartSearch, ReadClock
  <2>2. /\ UNCHANGED <<issued, searchData, publicDates, queue, ask, cpc, cur>>
        /\ wpc = "start" /\ wpc' = "scan" /\ t \in Nat
      BY <1>4, BoundsAssumption DEF StartSearch, qvars, queueVars, dbVars, clientVars
  <2>3. /\ \A id \in IDs : srch'[id].private = srch[id].private
        /\ srch'[cur].started = now'
      BY <2>1, <2>2, <1>t DEF Search
  <2>4. \A u \in DOMAIN publicDates : setBack' \/ u <= now'
    <3>1. ASSUME NEW u \in DOMAIN publicDates, ~(t < now), ~setBack PROVE u <= t
      <4>1. u <= now /\ u \in Nat
          BY <3>1, <1>t DEF DatesInv
      <4> QED BY <3>1, <4>1, <2>2, <1>t
    <3> QED BY <2>1, <3>1
  <2>5. setBack => setBack'
      BY <2>1
  <2>6. DatesInv'
      BY <2>2, <2>3, <2>4, <2>5, <1>i, <1>j, <1>t DEF DatesInv
  <2>7. HandInv'
      BY <2>2, <2>3, <2>4, <1>i, <1>t DEF HandInv, DatesBefore, HandPCs, BegunPCs
  <2>8. WaitInv'
      BY <2>2, <1>i DEF WaitInv, DatesBefore
  <2> QED BY <2>6, <2>7, <2>8
<1>5. CASE SaveSearch
  <2> DEFINE s == srch[cur].started
  <2>1. /\ UNCHANGED <<issued, now, setBack, queue, ask, cpc, cur, srch>>
        /\ wpc = "saveSearch" /\ wpc' = "drop"
        /\ searchData' = [id \in DOMAIN searchData \cup {cur} |->
                             IF id = cur THEN srch[cur] ELSE searchData[id]]
        /\ srch[cur].private => publicDates' = publicDates
        /\ ~srch[cur].private =>
              publicDates' = [t \in DOMAIN publicDates \cup {s} |->
                                 IF t = s THEN cur ELSE publicDates[t]]
      BY <1>5 DEF SaveSearch, PutDate, qvars, queueVars, memVars, clientVars, envVars, clockVars
  <2>2. /\ s \in Nat /\ s = now /\ \A t \in DOMAIN publicDates : setBack \/ t <= s
        /\ DatesBefore(cur) /\ \A i \in DOMAIN queue : IssuedBefore(cur, queue[i])
        /\ \A c \in Clients : cpc[c] = "send" => IssuedBefore(cur, ask[c])
        /\ cur \in Elements(issued)
      BY <2>1, <1>t, <1>c DEF HandInv, HandPCs, BegunPCs, Search
  <2>3. /\ DOMAIN searchData' = DOMAIN searchData \cup {cur}
        /\ searchData'[cur].private = srch[cur].private
        /\ \A id \in DOMAIN searchData : id # cur => searchData'[id] = searchData[id]
        /\ \A t \in DOMAIN publicDates : publicDates[t] # cur
      BY <2>1, <1>5 DEF SaveSearch, HandInv, DatesInv
  <2>4. CASE srch[cur].private
    <3>1. \A t \in DOMAIN publicDates : publicDates[t] # cur
        BY <2>4 DEF DatesInv
    <3>2. DatesInv'
        BY <2>1, <2>3, <2>4, <3>1, <1>i, <1>j DEF DatesInv
    <3>3. HandInv' /\ WaitInv'
        BY <2>1, <2>4, <1>i DEF HandInv, WaitInv, HandPCs, BegunPCs, DatesBefore
    <3> QED BY <3>2, <3>3
  <2>5. CASE ~srch[cur].private
    <3>1. /\ DOMAIN publicDates' = DOMAIN publicDates \cup {s}
          /\ publicDates'[s] = cur
          /\ \A t \in DOMAIN publicDates : t # s => publicDates'[t] = publicDates[t]
        BY <2>1, <2>5
    <3>2. IsFiniteSet(DOMAIN publicDates')
        BY <3>1, FS_AddElement DEF DatesInv
    <3>3. ASSUME NEW t \in DOMAIN publicDates'
          PROVE  /\ setBack' \/ t <= now'
                 /\ publicDates'[t] \in Elements(issued)' \cap DOMAIN searchData'
                 /\ ~searchData'[publicDates'[t]].private /\ ~srch'[publicDates'[t]].private
        BY <2>1, <2>2, <2>3, <2>5, <3>1, <1>j DEF DatesInv
    <3>4. ASSUME NEW t \in DOMAIN publicDates', NEW u \in DOMAIN publicDates', t < u
          PROVE  /\ publicDates'[t] # publicDates'[u]
                 /\ setBack' \/ IssuedBefore(publicDates[t], publicDates[u])'
      <4>1. CASE t = s
          BY <4>1, <2>1, <2>2, <2>3, <3>1, <3>4, <1>t
      <4>2. CASE t # s /\ u = s
          BY <4>2, <2>1, <2>2, <2>3, <3>1, <1>i DEF DatesBefore
      <4>3. CASE t # s /\ u # s
          BY <4>3, <2>1, <3>1, <3>4, <1>i DEF DatesInv
      <4> QED BY <4>1, <4>2, <4>3
    <3>5. DatesInv'
        BY <3>2, <3>3, <3>4 DEF DatesInv, IssuedBefore
    <3>6. HandInv'
        BY <2>1 DEF HandInv, HandPCs, BegunPCs
    <3>7. WaitInv'
        BY <2>1, <2>2, <3>1, <1>i DEF WaitInv, DatesBefore
    <3> QED BY <3>5, <3>6, <3>7
  <2> QED BY <2>4, <2>5
<1>6. CASE Restart
  <2>1. /\ UNCHANGED <<issued, now, setBack, srch, searchData, publicDates>>
        /\ queue' = <<>> /\ wpc' = "off" /\ \A c \in Clients : cpc'[c] = "idle"
      BY <1>6 DEF Restart, dbVars, clockVars
  <2>2. DatesInv'
      BY <2>1, <1>i, <1>j DEF DatesInv
  <2>3. HandInv' /\ WaitInv'
      BY <2>1 DEF HandInv, WaitInv, HandPCs, BegunPCs
  <2> QED BY <2>2, <2>3
<1>7. CASE /\ ~SaveSearch /\ ~WorkerRecv /\ ~StartSearch /\ ~Restart
           /\ \A c \in Clients : ~NewSearch(c) /\ ~NewSearchSend(c)
  <2>1. /\ UNCHANGED <<issued, queue, searchData, publicDates, now, setBack>>
        /\ wpc' = "saveSearch" => wpc \in {"complete", "saveSearch"}
        /\ \A id \in IDs : /\ srch'[id].private = srch[id].private
                           /\ srch'[id].started = srch[id].started
        /\ wpc' \in HandPCs => cur' = cur /\ wpc \in HandPCs /\ (wpc' \in BegunPCs => wpc \in BegunPCs)
        /\ \A c \in Clients : cpc'[c] = "send" => cpc[c] = "send" /\ ask'[c] = ask[c]
      BY <1>7, OtherSteps
  <2>2. DatesInv'
      BY <2>1, <1>i, <1>j, <1>t DEF DatesInv
  <2>3. HandInv'
    <3>1. ASSUME wpc' \in BegunPCs
          PROVE  /\ srch'[cur'].started = now'
                 /\ \A t \in DOMAIN publicDates' : setBack' \/ t <= srch'[cur'].started
      <4>1. wpc \in BegunPCs /\ cur' = cur /\ cur \in IDs
          BY <3>1, <2>1, <1>t DEF BegunPCs, HandPCs
      <4>2. srch[cur].started \in Nat
          BY <4>1, <1>t DEF Search
      <4> QED BY <4>1, <4>2, <2>1, <1>t DEF HandInv
    <3>2. wpc' = "saveSearch" => cur' \notin DOMAIN searchData'
      <4>1. wpc = "complete" => cur \notin DOMAIN searchData
          BY DEF OnceInv, Working, StoredInv, RecordsCompleted, IsCompleted
      <4> QED BY <4>1, <2>1 DEF HandInv, HandPCs
    <3> QED BY <3>1, <3>2, <2>1, <1>i DEF HandInv, DatesBefore
  <2>4. WaitInv'
      BY <2>1, <1>i DEF WaitInv, DatesBefore
  <2> QED BY <2>2, <2>3, <2>4
<1> QED BY <1>1, <1>2, <1>3, <1>4, <1>5, <1>6, <1>7

\* A finite set of times has, for each number up to its size, a time with so many at or
\* after it.
LEMMA RankExists ==
    ASSUME NEW T \in SUBSET Nat, IsFiniteSet(T)
    PROVE  \A k \in 1 .. Cardinality(T) : \E t \in T : Cardinality({u \in T : u >= t}) = k
<1> DEFINE From(S, t) == {u \in S : u >= t}
           Ranked(S) == \A k \in 1 .. Cardinality(S) : \E t \in S : Cardinality(From(S, t)) = k
           C == {S \in SUBSET T : Ranked(S)}
<1>1. ASSUME NEW S \in SUBSET T, \A x \in S : S \ {x} \in C PROVE Ranked(S)
  <2>1. IsFiniteSet(S) /\ Cardinality(S) \in Nat /\ S \in SUBSET Nat
      BY FS_Subset, FS_CardinalityType
  <2>2. CASE S = {}
      BY <2>2, FS_EmptySet
  <2>3. CASE S # {}
    <3>1. PICK n \in S : \A m \in S : n <= m
        BY <2>1, <2>3, NatMin
    <3>2. Cardinality(S \ {n}) = Cardinality(S) - 1
        BY <2>1, FS_RemoveElement
    <3>3. Ranked(S \ {n})
        BY <1>1
    <3>4. From(S, n) = S
        BY <3>1
    <3>5. \A t \in S \ {n} : From(S, t) = From(S \ {n}, t)
      <4> SUFFICES ASSUME NEW t \in S \ {n} PROVE ~(n >= t)
          OBVIOUS
      <4> QED BY <3>1, <2>1
    <3> SUFFICES ASSUME NEW k \in 1 .. Cardinality(S)
                 PROVE  \E t \in S : Cardinality(From(S, t)) = k
        OBVIOUS
    <3>6. CASE k = Cardinality(S)
        BY <3>4, <3>6
    <3>7. CASE k # Cardinality(S)
      <4>1. k \in 1 .. Cardinality(S \ {n})
          BY <3>2, <3>7, <2>1
      <4>2. PICK t \in S \ {n} : Cardinality(From(S \ {n}, t)) = k
          BY <3>3, <4>1
      <4> QED BY <4>2, <3>5
    <3> QED BY <3>6, <3>7
  <2> QED BY <2>2, <2>3
<1>2. \A S \in SUBSET T : (\A x \in S : S \ {x} \in C) => S \in C
    BY <1>1
<1> HIDE DEF C
<1>3. T \in C
    BY <1>2, SubsetInduction
<1> QED BY <1>3 DEF C

\* The list getSearches shows holds saved public searches only, each of them once, over
\* restarts, failed writes and whatever the clock does; and as long as no reading of the
\* clock was below the one before, each was created before those above it, although the
\* list is made of the times at which the worker started them.
THEOREM HistoryIsInOrder == Spec => []PublicHistoryInOrder
<1>1. TypeInv /\ HistoryInv => PublicHistoryInOrder
  <2> SUFFICES ASSUME TypeInv, HistoryInv PROVE PublicHistoryInOrder
      OBVIOUS
  <2> DEFINE Times == DOMAIN publicDates
             From(t) == {u \in Times : u >= t}
             Newest(k) == CHOOSE t \in Times : Cardinality(From(t)) = k
             Places == {n \in 1 .. Cardinality(IDs) : n <= Cardinality(Times)}
             latest == LatestPublic(Cardinality(IDs))
  <2>1. Times \in SUBSET Nat /\ IsFiniteSet(Times) /\ Cardinality(Times) \in Nat
      BY FS_CardinalityType DEF TypeInv, TypeOK, DBTypeOK, HistoryInv, DatesInv
  <2>2. DOMAIN latest = Places /\ \A k \in Places : latest[k] = publicDates[Newest(k)]
      BY DEF LatestPublic
  <2>3. \A k \in Places : k \in 1 .. Cardinality(Times)
      BY <2>1
  <2>4. \A k \in Places : Newest(k) \in Times /\ Cardinality(From(Newest(k))) = k
    <3> SUFFICES ASSUME NEW k \in Places
                 PROVE  Newest(k) \in Times /\ Cardinality(From(Newest(k))) = k
        OBVIOUS
    <3> QED BY <2>1, <2>3, RankExists
  <2> HIDE DEF Newest
  <2>5. ASSUME NEW j \in Places, NEW k \in Places, j < k PROVE Newest(k) < Newest(j)
    <3>1. /\ Newest(j) \in Nat /\ Cardinality(From(Newest(j))) = j /\ j \in Nat
          /\ Newest(k) \in Nat /\ Cardinality(From(Newest(k))) = k /\ k \in Nat
        BY <2>1, <2>3, <2>4
    <3> SUFFICES ASSUME Newest(k) >= Newest(j) PROVE FALSE
        BY <3>1
    <3>2. From(Newest(k)) \subseteq From(Newest(j))
        BY <2>1, <3>1
    <3>3. From(Newest(j)) \subseteq Times
        OBVIOUS
    <3>4. IsFiniteSet(From(Newest(j)))
        BY <2>1, <3>3, FS_Subset
    <3> HIDE DEF From
    <3>5. k <= j
        BY <3>1, <3>2, <3>4, FS_Subset
    <3> QED BY <3>1, <3>5, <2>5
  <2> QED BY <2>1, <2>2, <2>4, <2>5 DEF PublicHistoryInOrder, HistoryInv, DatesInv
<1>2. Init => HistoryInv
    BY FS_EmptySet DEF Init, QInit, QueueInit, HistoryInv, DatesInv, HandInv, WaitInv, HandPCs, BegunPCs
<1>3. TypeInv /\ TypeInv' /\ OnceInv /\ StoredInv /\ HistoryInv /\ [Next]_vars => HistoryInv'
    BY HistoryStep
<1> QED BY <1>1, <1>2, <1>3, StoredInvariant, PTL DEF Spec

-----------------------------------------------------------------------------
(* First come, first served, and the jam                                    *)

\* The searches that are still to be started: in the channel, with the request that
\* sends them to it, or received.
Waits(id) ==
    \/ id \in Elements(queue)
    \/ \E c \in Clients : cpc[c] = "send" /\ ask[c] = id
    \/ wpc \in {"forget", "lookup", "start"} /\ cur = id

\* A search that was accepted and says queued does wait, what was started is older than
\* what waits, and the search in hand is started from its start on.
ServedInv ==
    /\ Distinct(issued)
    /\ wpc \in BegunPCs => srch[cur].status # "queued"
    /\ \A id \in Elements(issued) :
          srch[id].status = "queued" /\ srch[id].boot = crashes => Waits(id)
    /\ \A a \in Elements(issued), b \in IDs :
          srch[a].status # "queued" /\ Waits(b) => IssuedBefore(a, b)

\* Searches are started in the order of their creation: none that was started leaves an
\* older one of the same process queued.
StartedInOrder ==
    \A a, b \in IDs :
        /\ IssuedBefore(a, b) /\ srch[b].status # "queued"
        /\ srch[a].boot = crashes
        => srch[a].status # "queued"

\* The worker has to take the lock before it can receive again.
NeedsLock ==
    \/ wpc \in {"lookup", "start", "complete", "saveSearch"}
    \/ wpc = "scan" /\ todo # {} /\ found = {}

\* A request in Queue.Add holds the lock and waits for a slot of a full channel, and
\* the worker, who has a search in hand, waits for the lock.
Jammed ==
    /\ \E c \in Clients : cpc[c] = "send"
    /\ Len(queue) = QueueCap
    /\ NeedsLock

\* The searches in memory that have no record yet.
Unfinished == List \ DOMAIN searchData

\* Memory is finite, and the search in hand is in it and has no record.
SlotInv ==
    /\ IsFiniteSet(List)
    /\ wpc \in HandPCs => cur \in Unfinished

\* Only NewSearch adds a search to those that wait, and only StartSearch and Restart take
\* one away; the other steps leave what says queued as it is.
LEMMA WaitsKept ==
    ASSUME ManagerInv, ServedInv, [Next]_vars, ~StartSearch, ~Restart,
           \A c \in Clients : ~NewSearch(c)
    PROVE  /\ \A id \in IDs : Waits(id)' <=> Waits(id)
           /\ UNCHANGED <<issued, crashes>>
           /\ \A id \in IDs : /\ srch'[id].status = "queued" <=> srch[id].status = "queued"
                              /\ srch'[id].boot = srch[id].boot
           /\ wpc' \in BegunPCs => wpc \in BegunPCs /\ cur' = cur
<1> DEFINE Goal ==
        /\ \A id \in IDs : Waits(id)' <=> Waits(id)
        /\ UNCHANGED <<issued, crashes>>
        /\ \A id \in IDs : /\ srch'[id].status = "queued" <=> srch[id].status = "queued"
                           /\ srch'[id].boot = srch[id].boot
        /\ wpc' \in BegunPCs => wpc \in BegunPCs /\ cur' = cur
<1>t. /\ srch \in [IDs -> Search] /\ queue \in Seq(IDs)
      /\ cpc \in [Clients -> ClientPCs] /\ ask \in [Clients -> IDs \cup {NoID}]
      /\ wpc \notin {"off", "idle"} => cur \in IDs
      /\ \A c \in Clients : cpc[c] = "send" => ask[c] \in IDs
    BY DEF ManagerInv, TypeInv, TypeOK, QTypeOK, QueueTypeOK, MemTypeOK, ClientTypeOK, Busy
<1>q. queue' = queue => Elements(queue)' = Elements(queue)
    BY DEF Elements
<1> USE DEF qvars, queueVars, memVars, workerVars, clientVars, dbVars, envVars, clockVars, HandPCs, BegunPCs
<1>1. ASSUME NEW c \in Clients, NewSearchSend(c) PROVE Goal
  <2>1. /\ queue' = Append(queue, ask[c]) /\ cpc[c] = "send" /\ cpc'[c] # "send"
        /\ UNCHANGED <<issued, crashes, srch, wpc, cur, ask>>
        /\ \A d \in Clients : d # c => cpc'[d] = cpc[d]
      BY <1>1, <1>t DEF NewSearchSend, AddSend
  <2>2. Elements(queue') = Elements(queue) \cup {ask[c]}
      BY <2>1, <1>t, ElementsAppend
  <2>3. \A id \in IDs : Waits(id)' <=> Waits(id)
      BY <2>1, <2>2 DEF Waits
  <2> QED BY <2>1, <2>3
<1>2. CASE WorkerRecv
  <2>1. /\ queue # <<>> /\ queue' = Tail(queue) /\ cur' = Head(queue)
        /\ wpc = "idle" /\ wpc' = "forget"
        /\ UNCHANGED <<issued, crashes, srch, cpc, ask>>
      BY <1>2 DEF WorkerRecv, GetRecv
  <2>2. Elements(queue) = Elements(Tail(queue)) \cup {Head(queue)}
    <3>1. /\ Len(queue) \in Nat \ {0} /\ Len(Tail(queue)) = Len(queue) - 1
          /\ Head(queue) = queue[1]
          /\ \A i \in 1 .. (Len(queue) - 1) : Tail(queue)[i] = queue[i + 1]
        BY <2>1, <1>t
    <3>2. ASSUME NEW x \in Elements(queue) PROVE x \in Elements(Tail(queue)) \cup {Head(queue)}
      <4>1. PICK i \in 1 .. Len(queue) : queue[i] = x
          BY <3>2 DEF Elements
      <4>2. i # 1 => i - 1 \in 1 .. Len(Tail(queue)) /\ Tail(queue)[i - 1] = x
          BY <3>1, <4>1
      <4> QED BY <3>1, <4>1, <4>2 DEF Elements
    <3>3. ASSUME NEW x \in Elements(Tail(queue)) PROVE x \in Elements(queue)
      <4>1. PICK i \in 1 .. Len(Tail(queue)) : Tail(queue)[i] = x
          BY <3>3 DEF Elements
      <4>2. i + 1 \in 1 .. Len(queue) /\ queue[i + 1] = x
          BY <3>1, <4>1
      <4> QED BY <4>2 DEF Elements
    <3>4. Head(queue) \in Elements(queue)
        BY <3>1 DEF Elements
    <3> QED BY <3>2, <3>3, <3>4
  <2>3. \A id \in IDs : Waits(id)' <=> Waits(id)
      BY <2>1, <2>2 DEF Waits
  <2> QED BY <2>1, <2>3
<1>3. ASSUME NEW c \in Clients,
             \/ NewSearchReturn(c) \/ GetSearch(c)
             \/ GetFromMemory(c) \/ GetPosition(c) \/ GetFromDB(c)
      PROVE  Goal
  <2>1. UNCHANGED <<issued, queue, crashes, srch, wpc, cur>>
      BY <1>3 DEF NewSearchReturn, AddPos, GetSearch, GetFromMemory, GetPosition, GetFromDB
  <2>2. /\ cpc[c] # "send" /\ cpc'[c] # "send"
        /\ \A d \in Clients \ {c} : cpc'[d] = cpc[d] /\ ask'[d] = ask[d]
      BY <1>3, <1>t DEF NewSearchReturn, GetSearch, GetFromMemory, GetPosition, GetFromDB,
                        Return, Answer, AnswerAt
  <2>3. \A id \in IDs : Waits(id)' <=> Waits(id)
      BY <1>q, <2>1, <2>2 DEF Waits
  <2> QED BY <2>1, <2>3
<1>4. CASE LookUp
  <2>1. /\ wpc = "lookup" /\ wpc' = "start" /\ UNCHANGED <<issued, queue, crashes, srch, cur, cpc, ask>>
      BY <1>4 DEF LookUp, ManagerInv, MemInv
  <2> QED BY <1>q, <2>1 DEF Waits
<1>5. CASE CompleteSearch
  <2>1. /\ wpc = "complete" /\ wpc' = "saveSearch" /\ UNCHANGED <<issued, queue, crashes, cur, cpc, ask>>
        /\ srch' = [srch EXCEPT ![cur].status = "completed",
                                ![cur].matched = (found # {})]
        /\ srch[cur].status # "queued"
      BY <1>5 DEF CompleteSearch, ServedInv
  <2>2. \A id \in IDs : /\ srch'[id].status = "queued" <=> srch[id].status = "queued"
                        /\ srch'[id].boot = srch[id].boot
      BY <2>1, <1>t DEF Search
  <2> QED BY <1>q, <2>1, <2>2 DEF Waits
<1>6. CASE \/ LoadDone \/ WorkerForget \/ ScanExtension \/ ScanDone \/ SaveSummary
           \/ SaveMatches \/ SaveSearch \/ DropSearch \/ DBFault \/ UNCHANGED vars
  <2>1. UNCHANGED <<issued, queue, crashes, srch, cpc, ask>>
      BY <1>6 DEF LoadDone, WorkerForget, GetForget, ScanExtension, ScanDone, SaveSummary,
                  SaveMatches, SaveSearch, DropSearch, DBFault, vars
  <2>2. /\ wpc' \in {"forget", "lookup", "start"} <=> wpc \in {"forget", "lookup", "start"}
        /\ wpc' \in {"forget", "lookup", "start"} \cup BegunPCs => cur' = cur
        /\ wpc' \in BegunPCs => wpc \in BegunPCs
      BY <1>6 DEF LoadDone, WorkerForget, ScanExtension, ScanDone, SaveSummary,
                  SaveMatches, SaveSearch, DropSearch, DBFault, ToIdle, vars
  <2> QED BY <1>q, <2>1, <2>2 DEF Waits
<1> QED BY <1>1, <1>2, <1>3, <1>4, <1>5, <1>6 DEF Next, WorkerStep, ClientStep

\* No step loses a search that waits or starts one out of its turn.
LEMMA ServedStep ==
    ASSUME ManagerInv, ManagerInv', LookupInv, HistoryInv, ServedInv, [Next]_vars
    PROVE  ServedInv'
<1>t. /\ srch \in [IDs -> Search] /\ queue \in Seq(IDs) /\ issued \in Seq(IDs)
      /\ cpc \in [Clients -> ClientPCs] /\ ask \in [Clients -> IDs \cup {NoID}]
      /\ wpc \notin {"off", "idle"} => cur \in IDs
      /\ crashes \in Nat /\ Elements(issued) \subseteq IDs
      /\ TypeInv
    BY DEF ManagerInv, TypeInv, TypeOK, QTypeOK, QueueTypeOK, MemTypeOK, ClientTypeOK,
           EnvTypeOK, Busy, Elements
<1>i. issued' = issued => /\ Elements(issued)' = Elements(issued)
                          /\ \A a, b : IssuedBefore(a, b)' <=> IssuedBefore(a, b)
                          /\ Distinct(issued)' <=> Distinct(issued)
    BY DEF Elements, IssuedBefore, Distinct
<1>1. ASSUME NEW c \in Clients, NewSearch(c) PROVE ServedInv'
  <2>1. PICK id \in IDs, private \in Privacy :
            /\ NewID(id)
            /\ srch' = [srch EXCEPT ![id] = NewStruct(private, crashes)]
            /\ ask' = [ask EXCEPT ![c] = id]
      BY <1>1 DEF NewSearch
  <2>2. /\ UNCHANGED <<queue, wpc, cur, crashes>> /\ cpc[c] = "idle"
        /\ cpc' = [cpc EXCEPT ![c] = "send"]
      BY <1>1 DEF NewSearch, queueVars, workerVars, envVars, clockVars
  <2>3. /\ id \notin Elements(issued) /\ issued' = Append(issued, id)
        /\ Elements(issued)' = Elements(issued) \cup {id}
      BY <2>1, <1>t, ElementsAppend DEF NewID
  <2>4. \A x \in IDs : Waits(x)' <=> Waits(x) \/ x = id
      BY <2>1, <2>2, <1>t DEF Waits, Elements
  <2>5. /\ srch'[id].status = "queued"
        /\ \A x \in IDs \ {id} : srch'[x] = srch[x]
      BY <2>1, <1>t DEF NewStruct
  <2>6. /\ \A a, b : IssuedBefore(a, b) => IssuedBefore(a, b)'
        /\ \A a \in Elements(issued) : IssuedBefore(a, id)'
      BY <2>1, <1>t, IssuedLasts, NewIsYoungest
  <2>7. Distinct(issued)'
      BY <2>3, <1>t, DistinctAppend DEF ServedInv
  <2>8. (wpc \in BegunPCs => srch[cur].status # "queued")'
    <3>1. wpc \in BegunPCs => cur \in Elements(issued)
        BY DEF HandPCs, BegunPCs, ManagerInv, OnceInv, Working, StoredInv, WorkerStored, IsCompleted
    <3> QED BY <3>1, <2>2, <2>3, <2>5, <1>t DEF ServedInv
  <2>9. (\A x \in Elements(issued) : srch[x].status = "queued" /\ srch[x].boot = crashes => Waits(x))'
      BY <2>2, <2>3, <2>4, <2>5, <1>t DEF ServedInv
  <2>10. ASSUME NEW a \in Elements(issued)', NEW b \in IDs, srch'[a].status # "queued", Waits(b)'
         PROVE  IssuedBefore(a, b)'
      BY <2>10, <2>3, <2>4, <2>5, <2>6, <1>t DEF ServedInv
  <2> QED BY <2>7, <2>8, <2>9, <2>10 DEF ServedInv
<1>2. CASE StartSearch
  <2>1. /\ UNCHANGED <<issued, queue, cpc, ask, cur, crashes>>
        /\ wpc = "start" /\ wpc' = "scan" /\ cur \in IDs
        /\ \E t \in 0 .. MaxTime :
              srch' = [srch EXCEPT ![cur].status = "started", ![cur].started = t,
                                   ![cur].matched = FALSE]
      BY <1>2, <1>t DEF StartSearch, qvars, queueVars, dbVars, clientVars, envVars, clockVars
  <2>2. /\ srch'[cur].status = "started"
        /\ \A id \in IDs \ {cur} : srch'[id] = srch[id]
      BY <2>1, <1>t DEF Search
  <2>3. /\ cur \in Elements(issued) \ Elements(queue)
        /\ \A c \in Clients : cpc[c] = "send" => ask[c] # cur
      BY <2>1 DEF ManagerInv, OnceInv, Working
  <2>4. \A id \in IDs : Waits(id)' <=> Waits(id) /\ id # cur
      BY <2>1, <2>3 DEF Waits, Elements
  <2>5. ASSUME NEW b \in IDs, Waits(b)' PROVE IssuedBefore(cur, b)
    <3>1. \/ b \in Elements(queue)
          \/ \E c \in Clients : cpc[c] = "send" /\ ask[c] = b
        BY <2>5, <2>1 DEF Waits, Elements
    <3>2. DOMAIN queue = 1 .. Len(queue)
        BY <1>t
    <3> QED BY <3>1, <3>2, <2>1 DEF HistoryInv, HandInv, HandPCs, Elements
  <2>6. \A a \in Elements(issued), b \in IDs :
            srch'[a].status # "queued" /\ Waits(b)' => IssuedBefore(a, b)
      BY <2>2, <2>4, <2>5, <1>t DEF ServedInv
  <2>7. (\A x \in Elements(issued) : srch[x].status = "queued" /\ srch[x].boot = crashes => Waits(x))'
      BY <2>1, <2>2, <2>4, <1>t, <1>i DEF ServedInv
  <2> QED BY <2>1, <2>2, <2>6, <2>7, <1>i DEF ServedInv
<1>3. CASE Restart
  <2>1. /\ UNCHANGED <<issued, srch>> /\ crashes' = crashes + 1
        /\ queue' = <<>> /\ wpc' = "off" /\ \A c \in Clients : cpc'[c] = "idle"
      BY <1>3 DEF Restart
  <2>2. \A id \in IDs : ~Waits(id)'
      BY <2>1 DEF Waits, Elements
  <2>3. \A id \in Elements(issued) : srch[id].boot # crashes'
      BY <2>1, <1>t DEF LookupInv, Search
  <2> QED BY <2>1, <2>2, <2>3, <1>i DEF ServedInv, BegunPCs, HandPCs
<1>4. CASE ~StartSearch /\ ~Restart /\ \A c \in Clients : ~NewSearch(c)
  <2>1. /\ \A id \in IDs : Waits(id)' <=> Waits(id)
        /\ UNCHANGED <<issued, crashes>>
        /\ \A id \in IDs : /\ srch'[id].status = "queued" <=> srch[id].status = "queued"
                           /\ srch'[id].boot = srch[id].boot
        /\ wpc' \in BegunPCs => wpc \in BegunPCs /\ cur' = cur
      BY <1>4, WaitsKept
  <2>2. wpc \in BegunPCs => cur \in IDs
      BY <1>t DEF BegunPCs, HandPCs
  <2> QED BY <2>1, <2>2, <1>t, <1>i DEF ServedInv
<1> QED BY <1>1, <1>2, <1>3, <1>4

\* First come, first served, through the lock of NewSearch, the channel, the two halves of
\* Queue.Get and the look-up, whatever writes fail: what the polls of two clients show is
\* never a younger search started before an older one.
THEOREM FirstComeFirstServed == Spec => []StartedInOrder
<1>1. ManagerInv /\ ServedInv => StartedInOrder
  <2> SUFFICES ASSUME ManagerInv, ServedInv, NEW a \in IDs, NEW b \in IDs,
                      IssuedBefore(a, b), srch[b].status # "queued",
                      srch[a].boot = crashes, srch[a].status = "queued"
               PROVE  FALSE
      BY DEF StartedInOrder
  <2>1. PICK i, j \in 1 .. Len(issued) : i < j /\ issued[i] = a /\ issued[j] = b
      BY DEF IssuedBefore
  <2>2. a \in Elements(issued) /\ b \in Elements(issued)
      BY <2>1 DEF Elements
  <2>3. IssuedBefore(b, a)
      BY <2>2 DEF ServedInv
  <2>4. PICK k, l \in 1 .. Len(issued) : k < l /\ issued[k] = b /\ issued[l] = a
      BY <2>3 DEF IssuedBefore
  <2>5. k = j /\ l = i
      BY <2>1, <2>4 DEF ServedInv, Distinct
  <2> QED BY <2>1, <2>4, <2>5
<1>2. Init => LookupInv /\ HistoryInv /\ ServedInv
  <2>1. Init => LookupInv
      BY DEF Init, QInit, LookupInv, Findable, Elements, Blank, NewStruct, NoReply
  <2>2. Init => HistoryInv
      BY FS_EmptySet DEF Init, QInit, QueueInit, HistoryInv, DatesInv, HandInv, WaitInv, HandPCs, BegunPCs
  <2>3. Init => ServedInv
      BY DEF Init, QInit, ServedInv, Distinct, Elements, BegunPCs, HandPCs
  <2> QED BY <2>1, <2>2, <2>3
<1>3. ManagerInv /\ ManagerInv' /\ LookupInv /\ HistoryInv /\ ServedInv /\ [Next]_vars
      => LookupInv' /\ HistoryInv' /\ ServedInv'
    BY LookupInvStep, HistoryStep, ServedStep DEF ManagerInv
<1> QED BY <1>1, <1>2, <1>3, ManagerAlways, PTL DEF Spec

\* A jam is for good: but for a restart nothing is created, received, stored or dropped
\* any more, not even by a failing write.  Only positions and records are still read.
THEOREM JamIsForGood ==
    Spec => [][Jammed /\ crashes' = crashes
                => Jammed' /\ UNCHANGED <<issued, queue, holder, List, srch, wpc, dbVars>>]_vars
<1>1. ASSUME TypeInv, OnceInv, [Next]_vars, Jammed, crashes' = crashes
      PROVE  Jammed' /\ UNCHANGED <<issued, queue, holder, List, srch, wpc, dbVars>>
  <2> DEFINE Goal == Jammed' /\ UNCHANGED <<issued, queue, holder, List, srch, wpc, dbVars>>
  <2>1. PICK c \in Clients : cpc[c] = "send"
      BY <1>1 DEF Jammed
  <2>2. ~Free /\ \A d \in Clients : cpc[d] = "place" => d = c
      BY <1>1, <2>1, NoClientAssumption DEF Free, OnceInv
  <2>3. /\ Len(queue) = QueueCap /\ QueueCap \in Nat /\ NeedsLock
        /\ cpc \in [Clients -> ClientPCs] /\ crashes \in Nat
      BY <1>1, QueueCapAssumption DEF Jammed, TypeInv, TypeOK, ClientTypeOK, EnvTypeOK
  <2>4. ASSUME NEW d \in Clients, GetPosition(d) \/ GetFromDB(d) PROVE Goal
    <3>1. UNCHANGED <<qvars, memVars, workerVars, dbVars>> /\ cpc'[c] = "send"
        BY <2>1, <2>3, <2>4 DEF GetPosition, GetFromDB, Answer, AnswerAt, Return
    <3> QED BY <2>3, <3>1 DEF Jammed, NeedsLock, qvars, queueVars, memVars, workerVars
  <2>5. CASE UNCHANGED vars
    <3>1. UNCHANGED <<qvars, memVars, workerVars, clientVars, dbVars>>
        BY <2>5 DEF vars
    <3> QED BY <2>1, <2>3, <3>1 DEF Jammed, NeedsLock, qvars, queueVars, memVars, workerVars, clientVars
  <2>6. \A d \in Clients :
            ~NewSearch(d) /\ ~GetSearch(d) /\ ~NewSearchSend(d) /\ ~NewSearchReturn(d) /\ ~GetFromMemory(d)
      BY <2>1, <2>2, <2>3 DEF NewSearch, GetSearch, NewSearchSend, AddSend, NewSearchReturn, GetFromMemory
  <2>7. ~WorkerStep /\ ~LoadDone
      BY <2>2, <2>3 DEF NeedsLock, WorkerStep, WorkerRecv, WorkerForget, LookUp, StartSearch,
                        ScanExtension, ScanDone, SaveSummary, SaveMatches, CompleteSearch,
                        SaveSearch, DropSearch, DBFault, LoadDone
  <2>8. ~Restart
      BY <1>1, <2>3 DEF Restart
  <2> QED BY <1>1, <2>4, <2>5, <2>6, <2>7, <2>8 DEF Next, ClientStep
<1>2. TypeInv /\ OnceInv /\ [Next]_vars
      => [Jammed /\ crashes' = crashes
            => Jammed' /\ UNCHANGED <<issued, queue, holder, List, srch, wpc, dbVars>>]_vars
    BY <1>1
<1> QED BY <1>2, StoredInvariant, PTL DEF Spec

\* A sequence without repetitions has as many elements as places.
LEMMA DistinctCardinality ==
    ASSUME NEW S, NEW s \in Seq(S), Distinct(s)
    PROVE  IsFiniteSet(Elements(s)) /\ Cardinality(Elements(s)) = Len(s)
<1> DEFINE f == [i \in 1 .. Len(s) |-> s[i]]
<1>1. f \in Bijection(1 .. Len(s), Elements(s))
    BY DEF Bijection, Injection, Surjection, IsInjective, Distinct, Elements
<1>2. ExistsBijection(1 .. Len(s), Elements(s))
    BY <1>1 DEF ExistsBijection
<1> QED BY <1>2, FS_CountingElements, FS_NatBijection

\* The search in hand stays in memory without a record until SaveSearch has stored it.
LEMMA SlotStep ==
    ASSUME ManagerInv, SlotInv, [Next]_vars
    PROVE  SlotInv'
<1> USE DEF HandPCs, Unfinished
<1>t. queue \in Seq(IDs) /\ DOMAIN searchData \subseteq IDs
    BY DEF ManagerInv, TypeInv, TypeOK, QTypeOK, QueueTypeOK, DBTypeOK
<1>1. ASSUME NEW c \in Clients, NewSearch(c) PROVE SlotInv'
  <2>1. PICK id \in IDs : List' = List \cup {id}
      BY <1>1 DEF NewSearch
  <2>2. UNCHANGED <<wpc, cur, searchData>>
      BY <1>1 DEF NewSearch, workerVars, dbVars
  <2> QED BY <2>1, <2>2, FS_AddElement DEF SlotInv
<1>2. CASE WorkerRecv
  <2>1. queue # <<>> /\ cur' = Head(queue) /\ UNCHANGED <<List, searchData>>
      BY <1>2 DEF WorkerRecv, GetRecv, memVars, dbVars
  <2>2. Head(queue) \in Elements(queue)
      BY <2>1, <1>t, ElementsTail
  <2>3. Head(queue) \in List \ DOMAIN searchData
      BY <2>2 DEF ManagerInv, MemInv, OnceInv, StoredInv, RecordsCompleted, IsCompleted
  <2> QED BY <2>1, <2>3 DEF SlotInv
<1>3. CASE SaveSearch
    BY <1>3 DEF SaveSearch, memVars, SlotInv
<1>4. CASE DropSearch
  <2>1. List' = List \ {cur} /\ wpc' = "idle"
      BY <1>4 DEF DropSearch, ToIdle
  <2> QED BY <2>1, FS_Subset DEF SlotInv
<1>5. CASE Restart
    BY <1>5, FS_EmptySet DEF Restart, SlotInv
<1>6. CASE \/ LoadDone \/ WorkerForget \/ LookUp \/ StartSearch \/ ScanExtension \/ ScanDone
           \/ SaveSummary \/ SaveMatches \/ CompleteSearch \/ DBFault \/ UNCHANGED vars
  <2>1. UNCHANGED <<List, searchData>>
      BY <1>6 DEF LoadDone, WorkerForget, LookUp, StartSearch, ScanExtension, ScanDone, SaveSummary,
                  SaveMatches, CompleteSearch, DBFault, memVars, dbVars, vars
  <2>2. wpc' \in HandPCs => wpc \in HandPCs /\ cur' = cur
      BY <1>6 DEF LoadDone, WorkerForget, LookUp, StartSearch, ScanExtension, ScanDone, SaveSummary,
                  SaveMatches, CompleteSearch, DBFault, ToIdle, workerVars, vars
  <2> QED BY <2>1, <2>2 DEF SlotInv
<1>7. ASSUME NEW c \in Clients, GetSearch(c) \/ ClientStep(c) PROVE SlotInv'
  <2>1. UNCHANGED <<List, searchData, wpc, cur>>
      BY <1>7 DEF GetSearch, ClientStep, NewSearchSend, NewSearchReturn, GetFromMemory, GetPosition,
                  GetFromDB, memVars, dbVars, workerVars
  <2> QED BY <2>1 DEF SlotInv
<1> QED BY <1>1, <1>2, <1>3, <1>4, <1>5, <1>6, <1>7 DEF Next, WorkerStep

\* A jam takes as many unfinished searches at a time as the channel holds, and two more:
\* those in the channel, the one the worker has in hand and the one that is sent.  The
\* run manager_blocks has no more than that, so the bound is tight.
THEOREM JamNeedsLoad == Spec => [](Jammed => Cardinality(Unfinished) >= QueueCap + 2)
<1>1. ASSUME ManagerInv, SlotInv, Jammed PROVE Cardinality(Unfinished) >= QueueCap + 2
  <2>1. PICK c \in Clients : cpc[c] = "send"
      BY <1>1 DEF Jammed
  <2>2. /\ queue \in Seq(IDs) /\ Len(queue) = QueueCap /\ QueueCap \in Nat
        /\ wpc \in HandPCs
      BY <1>1, QueueCapAssumption
      DEF ManagerInv, TypeInv, TypeOK, QTypeOK, QueueTypeOK, Jammed, NeedsLock, HandPCs
  <2> DEFINE A == Elements(queue)
             B == A \cup {cur}
             C == B \cup {ask[c]}
  <2>3. IsFiniteSet(A) /\ Cardinality(A) = QueueCap
      BY <1>1, <2>2, DistinctCardinality DEF ManagerInv, OnceInv
  <2>4. cur \notin A /\ ask[c] \notin B
    <3>1. ask[c] \notin A /\ srch[ask[c]].status # "completed"
        BY <1>1, <2>1 DEF ManagerInv, OnceInv
    <3>2. CASE wpc \in Working
        BY <1>1, <2>1, <3>1, <3>2 DEF ManagerInv, OnceInv
    <3>3. CASE wpc = "saveSearch"
      <4>1. srch[cur].status = "completed"
          BY <1>1, <3>3 DEF ManagerInv, StoredInv, WorkerStored, IsCompleted
      <4> QED BY <1>1, <3>1, <4>1 DEF ManagerInv, OnceInv
    <3> QED BY <2>2, <3>2, <3>3 DEF HandPCs, Working
  <2>5. IsFiniteSet(B) /\ Cardinality(B) = QueueCap + 1
      BY <2>3, <2>4, FS_AddElement
  <2>6. IsFiniteSet(C) /\ Cardinality(C) = QueueCap + 2
    <3> HIDE DEF B
    <3>1. IsFiniteSet(C) /\ Cardinality(C) = Cardinality(B) + 1
        BY <2>4, <2>5, FS_AddElement
    <3> HIDE DEF C
    <3> QED BY <2>2, <2>5, <3>1
  <2>7. C \subseteq Unfinished
    <3>1. A \subseteq Unfinished
        BY <1>1 DEF ManagerInv, MemInv, OnceInv, StoredInv, RecordsCompleted, IsCompleted, Unfinished
    <3>2. ask[c] \in Unfinished
        BY <1>1, <2>1 DEF ManagerInv, MemInv, OnceInv, StoredInv, RecordsCompleted, IsCompleted, Unfinished
    <3>3. cur \in Unfinished
        BY <1>1, <2>2 DEF SlotInv
    <3> QED BY <3>1, <3>2, <3>3
  <2>8. IsFiniteSet(Unfinished)
      BY <1>1, FS_Subset DEF SlotInv, Unfinished
  <2> HIDE DEF C
  <2>9. Cardinality(C) <= Cardinality(Unfinished)
      BY <2>7, <2>8, FS_Subset
  <2> QED BY <2>6, <2>9
<1>2. ManagerInv /\ SlotInv => (Jammed => Cardinality(Unfinished) >= QueueCap + 2)
    BY <1>1
<1>3. Init => SlotInv
    BY FS_EmptySet DEF Init, SlotInv, HandPCs
<1>4. ManagerInv /\ SlotInv /\ [Next]_vars => SlotInv'
    BY SlotStep
<1> QED BY <1>2, <1>3, <1>4, ManagerAlways, PTL DEF Spec

=============================================================================
