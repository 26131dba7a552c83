------------------------ MODULE SearchManagerProofs ------------------------
(***************************************************************************)
(* Proofs about SearchManager, for every number of searches, clients,      *)
(* extensions, restarts and failed writes: its variables keep their types, *)
(* a search of the running process can always be looked up, and a search   *)
(* that is reported or recorded as completed has its results stored.       *)
(***************************************************************************)
EXTENDS SearchManager, TLAPS

-----------------------------------------------------------------------------
(* Sequences and their elements.                                           *)

\* Append adds its element and nothing else (NewID, AddSend).
LEMMA ElementsAppend ==
    ASSUME NEW S, NEW s \in Seq(S), NEW e \in S
    PROVE  /\ Append(s, e) \in Seq(S)
           /\ Elements(Append(s, e)) = Elements(s) \cup {e}
PROOF BY DEF Elements

\* What is received was in the channel, and so was what is left (GetRecv).
LEMMA ElementsTail ==
    ASSUME NEW S, NEW s \in Seq(S), s # <<>>
    PROVE  /\ Head(s) \in S
           /\ Tail(s) \in Seq(S)
           /\ Elements(s) = {Head(s)} \cup Elements(Tail(s))
<1>1. Head(s) \in S /\ Tail(s) \in Seq(S) /\ Len(s) \in Nat /\ Len(s) > 0
    OBVIOUS
<1>2. Elements(s) \subseteq {Head(s)} \cup Elements(Tail(s))
  <2> SUFFICES ASSUME NEW i \in 1 .. Len(s)
               PROVE  s[i] \in {Head(s)} \cup Elements(Tail(s))
      BY DEF Elements
  <2>1. CASE i = 1
      BY <2>1
  <2>2. CASE i # 1
    <3>1. i - 1 \in 1 .. Len(Tail(s)) /\ Tail(s)[i - 1] = s[i]
        BY <1>1, <2>2
    <3> QED BY <3>1 DEF Elements
  <2> QED BY <2>1, <2>2
<1>3. Elements(Tail(s)) \subseteq Elements(s)
  <2> SUFFICES ASSUME NEW i \in 1 .. Len(Tail(s))
               PROVE  Tail(s)[i] \in Elements(s)
      BY DEF Elements
  <2>1. i + 1 \in 1 .. Len(s) /\ Tail(s)[i] = s[i + 1]
      BY <1>1
  <2> QED BY <2>1 DEF Elements
<1>4. Head(s) \in Elements(s)
  <2>1. 1 \in 1 .. Len(s) /\ Head(s) = s[1]
      BY <1>1
  <2> QED BY <2>1 DEF Elements
<1> QED BY <1>1, <1>2, <1>3, <1>4

-----------------------------------------------------------------------------
(* Type correctness.                                                       *)

\* Typing needs to know that a request or a worker that is busy is busy with
\* some search.
Busy ==
    /\ \A c \in Clients : cpc[c] # "idle" => ask[c] \in IDs
    /\ wpc \notin {"off", "idle"} => cur \in IDs

TypeInv == TypeOK /\ Busy

\* A process that has just started is well typed.
LEMMA InitTypeInv == Init => TypeInv
<1> SUFFICES ASSUME Init PROVE TypeInv
    OBVIOUS
<1> USE DEF Init
<1>1. QTypeOK
    BY QueueCapAssumption DEF QInit, QueueInit, QTypeOK, QueueTypeOK
<1>2. MemTypeOK
    BY DEF MemTypeOK, Search, Blank, NewStruct, Statuses
<1>3. WorkerTypeOK
    BY DEF WorkerTypeOK, WorkerPCs
<1>4. ClientTypeOK
    BY DEF ClientTypeOK, ClientPCs, Statuses, Reply, NoReply
<1>5. DBTypeOK
    BY DEF DBTypeOK
<1>6. EnvTypeOK /\ Busy
    BY DEF EnvTypeOK, Busy
<1> QED BY <1>1, <1>2, <1>3, <1>4, <1>5, <1>6 DEF TypeInv, TypeOK

\* The steps of the queue keep its types, whoever takes them.
LEMMA QueueSteps ==
    ASSUME QueueTypeOK
    PROVE  /\ \A id \in IDs : AddSend(id) => QueueTypeOK'
           /\ AddPos \/ GetRecv \/ GetForget => QueueTypeOK'
           /\ UNCHANGED queueVars => QueueTypeOK'
<1> USE QueueCapAssumption
<1>1. ASSUME NEW id \in IDs, AddSend(id) PROVE QueueTypeOK'
    BY <1>1, ElementsAppend DEF AddSend, QueueTypeOK
<1>2. ASSUME AddPos PROVE QueueTypeOK'
    BY <1>2 DEF AddPos, QueueTypeOK
<1>3. ASSUME GetRecv PROVE QueueTypeOK'
    BY <1>3, ElementsTail DEF GetRecv, QueueTypeOK
<1>4. ASSUME GetForget PROVE QueueTypeOK'
    BY <1>4 DEF GetForget, QueueTypeOK
<1>5. ASSUME UNCHANGED queueVars PROVE QueueTypeOK'
    BY <1>5 DEF queueVars, QueueTypeOK
<1> QED BY <1>1, <1>2, <1>3, <1>4, <1>5

\* Every step of a client, of the worker and of the environment keeps the types.
LEMMA TypeInvStep == TypeInv /\ [Next]_vars => TypeInv'
<1> SUFFICES ASSUME TypeInv, [Next]_vars PROVE TypeInv'
    OBVIOUS
<1> USE DEF TypeInv, TypeOK, QTypeOK
<1>1. ASSUME NEW c \in Clients, NewSearch(c) PROVE TypeInv'
  <2> USE DEF NewSearch
  <2>1. PICK id \in IDs, private \in Privacy :
            /\ NewID(id)
            /\ List' = List \cup {id}
            /\ srch' = [srch EXCEPT ![id] = NewStruct(private, crashes)]
            /\ ask' = [ask EXCEPT ![c] = id]
      BY <1>1
  <2>2. QTypeOK'
      BY <1>1, <2>1, QueueSteps, ElementsAppend DEF NewID
  <2>3. NewStruct(private, crashes) \in Search
      BY PrivacyAssumption DEF NewStruct, Search, Statuses, EnvTypeOK
  <2>4. MemTypeOK'
      BY <1>1, <2>1, <2>3 DEF MemTypeOK
  <2>5. ClientTypeOK' /\ Busy'
      BY <1>1, <2>1 DEF ClientTypeOK, ClientPCs, Busy, workerVars
  <2>6. WorkerTypeOK' /\ DBTypeOK' /\ EnvTypeOK'
      BY <1>1 DEF WorkerTypeOK, DBTypeOK, EnvTypeOK, workerVars, dbVars, envVars, clockVars
  <2> QED BY <2>2, <2>4, <2>5, <2>6
<1>2. ASSUME NEW c \in Clients, NewSearchSend(c) PROVE TypeInv'
    BY <1>2, QueueSteps, ElementsAppend, BoundsAssumption
    DEF NewSearchSend, NewID, Return, Answer, AnswerAt, MemTypeOK, WorkerTypeOK, ClientTypeOK, DBTypeOK, EnvTypeOK, Busy,
        qvars, memVars, workerVars, clientVars, dbVars, envVars, clockVars, ClientPCs, Statuses, Search, Reply
<1>3. ASSUME NEW c \in Clients, NewSearchReturn(c) PROVE TypeInv'
    BY <1>3, QueueSteps, ElementsAppend, BoundsAssumption
    DEF NewSearchReturn, NewID, Return, Answer, AnswerAt, MemTypeOK, WorkerTypeOK, ClientTypeOK, DBTypeOK, EnvTypeOK, Busy,
        qvars, memVars, workerVars, clientVars, dbVars, envVars, clockVars, ClientPCs, Statuses, Search, Reply
<1>4. ASSUME NEW c \in Clients, GetSearch(c) PROVE TypeInv'
    BY <1>4, QueueSteps, ElementsAppend, BoundsAssumption
    DEF GetSearch, NewID, Return, Answer, AnswerAt, MemTypeOK, WorkerTypeOK, ClientTypeOK, DBTypeOK, EnvTypeOK, Busy,
        qvars, memVars, workerVars, clientVars, dbVars, envVars, clockVars, ClientPCs, Statuses, Search, Reply
<1>5. ASSUME NEW c \in Clients, GetFromMemory(c) PROVE TypeInv'
  <2> USE DEF GetFromMemory
  <2>1. ask[c] \in IDs /\ srch[ask[c]].status \in Statuses
      BY <1>5 DEF Busy, MemTypeOK, Search
  <2>2. ASSUME ask[c] \in List PROVE ClientTypeOK'
      BY <1>5, <2>1, <2>2 DEF ClientTypeOK, ClientPCs
  <2>3. ASSUME ask[c] \notin List PROVE ClientTypeOK'
    <3>1. reply' = [reply EXCEPT ![c] = [id |-> ask[c], status |-> "panic", pos |-> -1]]
        BY <1>5, <2>3 DEF Answer, AnswerAt
    <3>2. [id |-> ask[c], status |-> "panic", pos |-> -1] \in Reply
        BY <2>1 DEF Reply
    <3> QED BY <1>5, <2>3, <3>1, <3>2 DEF ClientTypeOK, ClientPCs, Answer, AnswerAt, Return, Statuses
  <2>4. Busy'
      BY <1>5, <2>1 DEF Busy, ClientTypeOK, ClientPCs, Answer, AnswerAt, Return, workerVars
  <2>5. QTypeOK' /\ MemTypeOK' /\ WorkerTypeOK' /\ DBTypeOK' /\ EnvTypeOK'
      BY <1>5, QueueSteps DEF qvars, MemTypeOK, WorkerTypeOK, DBTypeOK, EnvTypeOK,
                              memVars, workerVars, dbVars, envVars, clockVars
  <2> QED BY <2>2, <2>3, <2>4, <2>5
<1>6. ASSUME NEW c \in Clients, GetPosition(c) PROVE TypeInv'
  <2> USE DEF GetPosition
  <2>1. /\ ask[c] \in IDs /\ copied[c] \in Statuses /\ Pos(ask[c]) \in Int
      BY <1>6 DEF Busy, ClientTypeOK, Pos, QueueTypeOK
  <2>2. [id |-> ask[c], status |-> copied[c], pos |-> Pos(ask[c])] \in Reply
      BY <2>1 DEF Reply
  <2>3. ClientTypeOK'
      BY <1>6, <2>2 DEF ClientTypeOK, ClientPCs, AnswerAt, Return, Statuses
  <2>4. Busy'
      BY <1>6, <2>1 DEF Busy, ClientTypeOK, ClientPCs, AnswerAt, Return, workerVars
  <2>5. QTypeOK' /\ MemTypeOK' /\ WorkerTypeOK' /\ DBTypeOK' /\ EnvTypeOK'
      BY <1>6, QueueSteps DEF qvars, MemTypeOK, WorkerTypeOK, DBTypeOK, EnvTypeOK,
                              memVars, workerVars, dbVars, envVars, clockVars
  <2> QED BY <2>3, <2>4, <2>5
<1>7. ASSUME NEW c \in Clients, GetFromDB(c) PROVE TypeInv'
  <2> USE DEF GetFromDB
  <2>1. ask[c] \in IDs
      BY <1>7 DEF Busy
  <2>2. PICK status \in {"completed", "notfound"} :
            /\ reply' = [reply EXCEPT ![c] = [id |-> ask[c], status |-> status, pos |-> -1]]
            /\ Return(c)
      BY <1>7 DEF Answer, AnswerAt
  <2>3. [id |-> ask[c], status |-> status, pos |-> -1] \in Reply
      BY <2>1 DEF Reply, Statuses
  <2>4. ClientTypeOK'
      BY <1>7, <2>2, <2>3 DEF ClientTypeOK, ClientPCs, Return, Statuses
  <2>5. Busy'
      BY <1>7, <2>1, <2>2 DEF Busy, ClientTypeOK, ClientPCs, Return, workerVars
  <2>6. QTypeOK' /\ MemTypeOK' /\ WorkerTypeOK' /\ DBTypeOK' /\ EnvTypeOK'
      BY <1>7, QueueSteps DEF qvars, MemTypeOK, WorkerTypeOK, DBTypeOK, EnvTypeOK,
                              memVars, workerVars, dbVars, envVars, clockVars
  <2> QED BY <2>4, <2>5, <2>6
<1>8. CASE LoadDone
    BY <1>8, QueueSteps, BoundsAssumption
    DEF LoadDone, ToIdle, MemTypeOK, WorkerTypeOK, ClientTypeOK, DBTypeOK, EnvTypeOK, Busy,
        qvars, memVars, workerVars, clientVars, dbVars, envVars, clockVars, WorkerPCs, Statuses, Search
<1>9. CASE WorkerRecv
  <2> USE DEF WorkerRecv
  <2>1. QTypeOK'
      BY <1>9, QueueSteps
  <2>2. cur' \in IDs
      BY <1>9, ElementsTail DEF GetRecv, QueueTypeOK
  <2>3. WorkerTypeOK' /\ Busy'
      BY <1>9, <2>2 DEF WorkerTypeOK, WorkerPCs, Busy, clientVars
  <2>4. MemTypeOK' /\ ClientTypeOK' /\ DBTypeOK' /\ EnvTypeOK'
      BY <1>9 DEF MemTypeOK, ClientTypeOK, DBTypeOK, EnvTypeOK, memVars, clientVars,
                  dbVars, envVars, clockVars
  <2> QED BY <2>1, <2>3, <2>4
<1>10. CASE WorkerForget
    BY <1>10, QueueSteps, BoundsAssumption
    DEF WorkerForget, ToIdle, MemTypeOK, WorkerTypeOK, ClientTypeOK, DBTypeOK, EnvTypeOK, Busy,
        qvars, memVars, workerVars, clientVars, dbVars, envVars, clockVars, WorkerPCs, Statuses, Search
<1>11. CASE LookUp
    BY <1>11, QueueSteps, BoundsAssumption
    DEF LookUp, ToIdle, MemTypeOK, WorkerTypeOK, ClientTypeOK, DBTypeOK, EnvTypeOK, Busy,
        qvars, memVars, workerVars, clientVars, dbVars, envVars, clockVars, WorkerPCs, Statuses, Search
<1>12. CASE StartSearch
  <2>1. PICK t \in 0 .. MaxTime :
            /\ ReadClock(t)
            /\ srch' = [srch EXCEPT ![cur].status = "started", ![cur].started = t,
                                    ![cur].matched = FALSE]
      BY <1>12 DEF StartSearch
  <2> USE DEF StartSearch
  <2>2. t \in Nat /\ cur \in IDs
      BY <1>12, BoundsAssumption DEF Busy
  <2>3. srch' \in [IDs -> Search]
    <3> DEFINE new == [srch[cur] EXCEPT !.status = "started", !.started = t,
                                        !.matched = FALSE]
    <3>1. srch' = [srch EXCEPT ![cur] = new]
        BY <2>1, <2>2 DEF MemTypeOK, Search
    <3>2. new \in Search
        BY <2>2 DEF MemTypeOK, Search, Statuses
    <3> HIDE DEF new
    <3> QED BY <3>1, <3>2 DEF MemTypeOK
  <2>4. MemTypeOK' /\ WorkerTypeOK' /\ Busy'
      BY <1>12, <2>3 DEF MemTypeOK, WorkerTypeOK, WorkerPCs, Busy, clientVars
  <2>5. EnvTypeOK'
      BY <1>12, <2>1, <2>2 DEF EnvTypeOK, ReadClock
  <2>6. QTypeOK' /\ ClientTypeOK' /\ DBTypeOK'
      BY <1>12, QueueSteps DEF qvars, ClientTypeOK, DBTypeOK, clientVars, dbVars
  <2> QED BY <2>4, <2>5, <2>6
<1>13. CASE ScanExtension
    BY <1>13, QueueSteps, BoundsAssumption
    DEF ScanExtension, ToIdle, MemTypeOK, WorkerTypeOK, ClientTypeOK, DBTypeOK, EnvTypeOK, Busy,
        qvars, memVars, workerVars, clientVars, dbVars, envVars, clockVars, WorkerPCs, Statuses, Search
<1>14. CASE ScanDone
    BY <1>14, QueueSteps, BoundsAssumption
    DEF ScanDone, ToIdle, MemTypeOK, WorkerTypeOK, ClientTypeOK, DBTypeOK, EnvTypeOK, Busy,
        qvars, memVars, workerVars, clientVars, dbVars, envVars, clockVars, WorkerPCs, Statuses, Search
<1>15. CASE SaveSummary
    BY <1>15, QueueSteps, BoundsAssumption
    DEF SaveSummary, ToIdle, MemTypeOK, WorkerTypeOK, ClientTypeOK, DBTypeOK, EnvTypeOK, Busy,
        qvars, memVars, workerVars, clientVars, dbVars, envVars, clockVars, WorkerPCs, Statuses, Search
<1>16. CASE SaveMatches
    BY <1>16, QueueSteps, BoundsAssumption
    DEF SaveMatches, ToIdle, MemTypeOK, WorkerTypeOK, ClientTypeOK, DBTypeOK, EnvTypeOK, Busy,
        qvars, memVars, workerVars, clientVars, dbVars, envVars, clockVars, WorkerPCs, Statuses, Search
<1>17. CASE CompleteSearch
  <2> USE DEF CompleteSearch
  <2>1. cur \in IDs /\ (found # {}) \in BOOLEAN
      BY <1>17 DEF Busy
  <2>2. srch' \in [IDs -> Search]
      BY <1>17, <2>1 DEF MemTypeOK, Search, Statuses
  <2>3. MemTypeOK' /\ WorkerTypeOK' /\ Busy'
      BY <1>17, <2>2 DEF MemTypeOK, WorkerTypeOK, WorkerPCs, Busy, clientVars
  <2>4. QTypeOK' /\ ClientTypeOK' /\ DBTypeOK' /\ EnvTypeOK'
      BY <1>17, QueueSteps DEF qvars, ClientTypeOK, DBTypeOK, EnvTypeOK, clientVars,
                               dbVars, envVars, clockVars
  <2> QED BY <2>3, <2>4
<1>18. CASE SaveSearch
  <2> USE DEF SaveSearch
  <2>1. cur \in IDs /\ srch[cur] \in Search /\ srch[cur].started \in Nat
      BY <1>18 DEF Busy, MemTypeOK, Search
  <2>2. /\ DOMAIN searchData' \subseteq IDs
        /\ \A id \in DOMAIN searchData' : searchData'[id] \in Search
      BY <1>18, <2>1 DEF DBTypeOK
  <2>3. ASSUME NEW dates, DOMAIN dates \subseteq Nat,
               \A t \in DOMAIN dates : dates[t] \in IDs
        PROVE  /\ DOMAIN PutDate(dates) \subseteq Nat
               /\ \A t \in DOMAIN PutDate(dates) : PutDate(dates)[t] \in IDs
      BY <2>1, <2>3 DEF PutDate
  <2>4. /\ DOMAIN allDates' \subseteq Nat
        /\ \A t \in DOMAIN allDates' : allDates'[t] \in IDs
      BY <1>18, <2>3 DEF DBTypeOK
  <2>5. /\ DOMAIN publicDates' \subseteq Nat
        /\ \A t \in DOMAIN publicDates' : publicDates'[t] \in IDs
    <3>1. CASE srch[cur].private
        BY <1>18, <3>1 DEF DBTypeOK
    <3>2. CASE ~srch[cur].private
        BY <1>18, <2>3, <3>2 DEF DBTypeOK
    <3> QED BY <3>1, <3>2
  <2>6. DBTypeOK'
      BY <1>18, <2>2, <2>4, <2>5 DEF DBTypeOK
  <2>7. WorkerTypeOK' /\ Busy'
      BY <1>18 DEF WorkerTypeOK, WorkerPCs, Busy, clientVars
  <2>8. QTypeOK' /\ MemTypeOK' /\ ClientTypeOK' /\ EnvTypeOK'
      BY <1>18, QueueSteps DEF qvars, MemTypeOK, ClientTypeOK, EnvTypeOK, memVars,
                               clientVars, envVars, clockVars
  <2> QED BY <2>6, <2>7, <2>8
<1>19. CASE DropSearch
    BY <1>19, QueueSteps, BoundsAssumption
    DEF DropSearch, ToIdle, MemTypeOK, WorkerTypeOK, ClientTypeOK, DBTypeOK, EnvTypeOK, Busy,
        qvars, memVars, workerVars, clientVars, dbVars, envVars, clockVars, WorkerPCs, Statuses, Search
<1>20. CASE DBFault
    BY <1>20, QueueSteps, BoundsAssumption
    DEF DBFault, ToIdle, MemTypeOK, WorkerTypeOK, ClientTypeOK, DBTypeOK, EnvTypeOK, Busy,
        qvars, memVars, workerVars, clientVars, dbVars, envVars, clockVars, WorkerPCs, Statuses, Search
<1>22. CASE Restart
  <2> USE DEF Restart
  <2>1. queue' \in Seq(IDs) /\ Len(queue') = 0 /\ issued' \in Seq(IDs)
      BY <1>22
  <2>2. /\ DOMAIN pos' = {}
        /\ pos' = [id \in DOMAIN pos' |-> pos'[id]]
        /\ adding' = NoID /\ getting' = NoID
      BY <1>22
  <2>3. QTypeOK'
      BY <2>1, <2>2, QueueCapAssumption DEF QueueTypeOK
  <2>4. ClientTypeOK' /\ Busy'
      BY <1>22 DEF ClientTypeOK, ClientPCs, Statuses, Busy
  <2>5. MemTypeOK' /\ WorkerTypeOK'
      BY <1>22 DEF MemTypeOK, WorkerTypeOK, WorkerPCs
  <2>6. DBTypeOK' /\ EnvTypeOK'
      BY <1>22 DEF DBTypeOK, EnvTypeOK, dbVars, clockVars
  <2> QED BY <2>3, <2>4, <2>5, <2>6
<1>23. CASE UNCHANGED vars
    BY <1>23, QueueSteps DEF vars, MemTypeOK, WorkerTypeOK, ClientTypeOK, DBTypeOK, EnvTypeOK, Busy,
        qvars, memVars, workerVars, clientVars, dbVars, envVars, clockVars
<1> QED BY <1>1, <1>2, <1>3, <1>4, <1>5, <1>6, <1>7, <1>8, <1>9, <1>10, <1>11, <1>12, <1>13, <1>14, <1>15, <1>16, <1>17, <1>18, <1>19, <1>20, <1>22, <1>23 DEF Next, WorkerStep, ClientStep

\* Every variable keeps its type.
THEOREM TypeCorrect == Spec => []TypeOK
<1>1. Init => TypeInv
    BY InitTypeInv
<1>2. TypeInv /\ [Next]_vars => TypeInv'
    BY TypeInvStep
<1>3. TypeInv => TypeOK
    BY DEF TypeInv
<1> QED BY <1>1, <1>2, <1>3, PTL DEF Spec

-----------------------------------------------------------------------------
(* Every accepted search can be looked up.                                 *)

\* What no step takes back: issued IDs, the process a search was created in, the
\* number of restarts and the records of the database.
LEMMA Lasting ==
    ASSUME TypeInv, [Next]_vars
    PROVE  /\ Elements(issued) \subseteq Elements(issued')
           /\ \A id \in Elements(issued) : srch'[id].boot = srch[id].boot
           /\ crashes <= crashes'
           /\ DOMAIN searchData \subseteq DOMAIN searchData'
<1> DEFINE Goal == /\ Elements(issued) \subseteq Elements(issued')
                   /\ \A id \in Elements(issued) : srch'[id].boot = srch[id].boot
                   /\ crashes <= crashes'
                   /\ DOMAIN searchData \subseteq DOMAIN searchData'
<1>t. /\ Elements(issued) \subseteq IDs
      /\ srch \in [IDs -> Search]
      /\ crashes \in Nat
    BY DEF TypeInv, TypeOK, QTypeOK, MemTypeOK, EnvTypeOK, Elements
<1>a. ASSUME issued' = issued PROVE Elements(issued') = Elements(issued)
    BY <1>a DEF Elements
<1>1. ASSUME NEW c \in Clients, NewSearch(c) PROVE Goal
  <2>1. PICK id \in IDs, private \in Privacy :
            /\ NewID(id)
            /\ srch' = [srch EXCEPT ![id] = NewStruct(private, crashes)]
      BY <1>1 DEF NewSearch
  <2>2. id \notin Elements(issued) /\ Elements(issued) \subseteq Elements(issued')
      BY <2>1, ElementsAppend DEF NewID, TypeInv, TypeOK, QTypeOK
  <2> QED BY <1>1, <1>t, <2>1, <2>2 DEF NewSearch, dbVars, envVars, clockVars
<1>2. ASSUME NEW c \in Clients, NewSearchSend(c) PROVE Goal
    BY <1>2, <1>t, <1>a
    DEF NewSearchSend, qvars, memVars, workerVars, clientVars, dbVars, envVars, clockVars
<1>3. ASSUME NEW c \in Clients, NewSearchReturn(c) PROVE Goal
    BY <1>3, <1>t, <1>a
    DEF NewSearchReturn, qvars, memVars, workerVars, clientVars, dbVars, envVars, clockVars
<1>4. ASSUME NEW c \in Clients, GetSearch(c) PROVE Goal
    BY <1>4, <1>t, <1>a
    DEF GetSearch, qvars, memVars, workerVars, clientVars, dbVars, envVars, clockVars
<1>5. ASSUME NEW c \in Clients, GetFromMemory(c) PROVE Goal
    BY <1>5, <1>t, <1>a
    DEF GetFromMemory, qvars, memVars, workerVars, clientVars, dbVars, envVars, clockVars
<1>6. ASSUME NEW c \in Clients, GetPosition(c) PROVE Goal
    BY <1>6, <1>t, <1>a
    DEF GetPosition, qvars, memVars, workerVars, clientVars, dbVars, envVars, clockVars
<1>7. ASSUME NEW c \in Clients, GetFromDB(c) PROVE Goal
    BY <1>7, <1>t, <1>a
    DEF GetFromDB, qvars, memVars, workerVars, clientVars, dbVars, envVars, clockVars
<1>8. CASE LoadDone
    BY <1>8, <1>t, <1>a
    DEF LoadDone, qvars, memVars, workerVars, clientVars, dbVars, envVars, clockVars, Search
<1>9. CASE WorkerRecv
    BY <1>9, <1>t, <1>a
    DEF WorkerRecv, qvars, memVars, workerVars, clientVars, dbVars, envVars, clockVars, Search
<1>10. CASE WorkerForget
    BY <1>10, <1>t, <1>a
    DEF WorkerForget, qvars, memVars, workerVars, clientVars, dbVars, envVars, clockVars, Search
<1>11. CASE LookUp
    BY <1>11, <1>t, <1>a
    DEF LookUp, qvars, memVars, workerVars, clientVars, dbVars, envVars, clockVars, Search
<1>12. CASE StartSearch
    BY <1>12, <1>t, <1>a
    DEF StartSearch, qvars, memVars, workerVars, clientVars, dbVars, envVars, clockVars, Search
<1>13. CASE ScanExtension
    BY <1>13, <1>t, <1>a
    DEF ScanExtension, qvars, memVars, workerVars, clientVars, dbVars, envVars, clockVars, Search
<1>14. CASE ScanDone
    BY <1>14, <1>t, <1>a
    DEF ScanDone, qvars, memVars, workerVars, clientVars, dbVars, envVars, clockVars, Search
<1>15. CASE SaveSummary
    BY <1>15, <1>t, <1>a
    DEF SaveSummary, qvars, memVars, workerVars, clientVars, dbVars, envVars, clockVars, Search
<1>16. CASE SaveMatches
    BY <1>16, <1>t, <1>a
    DEF SaveMatches, qvars, memVars, workerVars, clientVars, dbVars, envVars, clockVars, Search
<1>17. CASE CompleteSearch
    BY <1>17, <1>t, <1>a
    DEF CompleteSearch, qvars, memVars, workerVars, clientVars, dbVars, envVars, clockVars, Search
<1>18. CASE SaveSearch
    BY <1>18, <1>t, <1>a
    DEF SaveSearch, qvars, memVars, workerVars, clientVars, dbVars, envVars, clockVars, Search
<1>19. CASE DropSearch
    BY <1>19, <1>t, <1>a
    DEF DropSearch, qvars, memVars, workerVars, clientVars, dbVars, envVars, clockVars, Search
<1>20. CASE DBFault
    BY <1>20, <1>t, <1>a
    DEF DBFault, qvars, memVars, workerVars, clientVars, dbVars, envVars, clockVars, Search
<1>22. CASE Restart
    BY <1>22, <1>t, <1>a
    DEF Restart, qvars, memVars, workerVars, clientVars, dbVars, envVars, clockVars, Search
<1>23. CASE UNCHANGED vars
    BY <1>23, <1>t, <1>a
    DEF vars, qvars, memVars, workerVars, clientVars, dbVars, envVars, clockVars
<1> QED BY <1>1, <1>2, <1>3, <1>4, <1>5, <1>6, <1>7, <1>8, <1>9, <1>10, <1>11, <1>12, <1>13, <1>14, <1>15, <1>16, <1>17, <1>18, <1>19, <1>20, <1>22, <1>23 DEF Next, WorkerStep, ClientStep
\* A search of an earlier process: its memory is gone.
Old(id) == id \in Elements(issued) /\ srch[id].boot < crashes

\* Why a search can be looked up: only a search whose record is stored leaves
\* memory, and a handler reads the database for a search that is stored or old
\* and asks memory for one that is there or has been stored since.
LookupInv ==
    /\ Findable
    /\ known \subseteq Elements(issued)
    /\ \A id \in IDs : srch[id].boot <= crashes
    /\ wpc = "drop" => cur \in DOMAIN searchData
    /\ \A c \in Clients : cpc[c] # "idle" => ask[c] \in Elements(issued)
    /\ \A c \in Clients :
          cpc[c] = "db" => ask[c] \in DOMAIN searchData \/ Old(ask[c])
    /\ \A c \in Clients :
          cpc[c] = "get" => ask[c] \in List \cup DOMAIN searchData
    /\ \A c \in Clients : reply[c].status = "notfound" => Old(reply[c].id)
    /\ \A c \in Clients :
          reply[c].status = "panic" => reply[c].id \in DOMAIN searchData

\* No step loses a search of the running process: only DropSearch and Restart
\* shrink memory, the one after SaveSearch, the other for a new process.
LEMMA LookupInvStep ==
    ASSUME TypeInv, LookupInv, [Next]_vars
    PROVE  LookupInv'
<1> USE DEF LookupInv
<1>t. /\ Elements(issued) \subseteq IDs
      /\ srch \in [IDs -> Search]
      /\ crashes \in Nat
      /\ cpc \in [Clients -> ClientPCs]
      /\ ask \in [Clients -> IDs \cup {NoID}]
      /\ reply \in [Clients -> Reply]
    BY DEF TypeInv, TypeOK, QTypeOK, MemTypeOK, ClientTypeOK, EnvTypeOK, Elements
<1>p. crashes' \in Nat /\ srch' \in [IDs -> Search]
    BY TypeInvStep DEF TypeInv, TypeOK, MemTypeOK, EnvTypeOK
<1>o. ASSUME NEW id, Old(id)
      PROVE  id \in Elements(issued') /\ srch'[id].boot < crashes'
  <2>1. id \in IDs /\ id \in Elements(issued)
      BY <1>o, <1>t DEF Old
  <2>2. /\ id \in Elements(issued')
        /\ srch'[id].boot = srch[id].boot
        /\ crashes <= crashes'
      BY <2>1, Lasting
  <2>3. srch[id].boot \in Nat
      BY <1>t, <2>1 DEF Search
  <2> QED BY <1>o, <1>t, <1>p, <2>2, <2>3 DEF Old
<1>i. ASSUME issued' = issued PROVE Elements(issued') = Elements(issued)
    BY <1>i DEF Elements
<1>1. ASSUME NEW c \in Clients, NewSearch(c) PROVE LookupInv'
  <2>1. PICK id \in IDs, private \in Privacy :
            /\ NewID(id)
            /\ List' = List \cup {id}
            /\ srch' = [srch EXCEPT ![id] = NewStruct(private, crashes)]
            /\ cpc' = [cpc EXCEPT ![c] = "send"]
            /\ ask' = [ask EXCEPT ![c] = id]
      BY <1>1 DEF NewSearch
  <2>2. Elements(issued') = Elements(issued) \cup {id}
      BY <2>1, ElementsAppend DEF NewID, TypeInv, TypeOK, QTypeOK
  <2>3. /\ srch'[id].boot = crashes
        /\ \A x \in IDs \ {id} : srch'[x] = srch[x]
      BY <1>t, <2>1 DEF NewStruct
  <2>4. UNCHANGED <<known, wpc, cur, reply, searchData, crashes>>
      BY <1>1 DEF NewSearch, workerVars, dbVars, envVars, clockVars
  <2>5. Findable'
      BY <1>t, <2>1, <2>2, <2>3, <2>4 DEF Findable, Elements
  <2>6. \A x \in IDs : srch'[x].boot <= crashes'
      BY <1>t, <2>3, <2>4
  <2>7. \A d \in Clients :
          /\ cpc'[d] # "idle" => ask'[d] \in Elements(issued')
          /\ cpc'[d] = "db" => ask'[d] \in DOMAIN searchData' \/ Old(ask[d])'
          /\ cpc'[d] = "get" => ask'[d] \in List' \cup DOMAIN searchData'
      BY <1>t, <1>o, <2>1, <2>2, <2>4 DEF Old
  <2>8. \A d \in Clients : (reply[d].status = "notfound" => Old(reply[d].id))'
      BY <1>o, <2>4 DEF Old
  <2> QED BY <2>2, <2>4, <2>5, <2>6, <2>7, <2>8
<1>2. ASSUME NEW c \in Clients, NewSearchSend(c) PROVE LookupInv'
    BY <1>2, <1>t, <1>o, <1>i, Lasting
    DEF NewSearchSend, Return, Answer, AnswerAt, Findable, Old, qvars, memVars, workerVars, clientVars, dbVars, envVars, clockVars
<1>3. ASSUME NEW c \in Clients, NewSearchReturn(c) PROVE LookupInv'
    BY <1>3, <1>t, <1>o, <1>i, Lasting
    DEF NewSearchReturn, Return, Answer, AnswerAt, Findable, Old, qvars, memVars, workerVars, clientVars, dbVars, envVars, clockVars
<1>4. ASSUME NEW c \in Clients, GetSearch(c) PROVE LookupInv'
  <2>1. PICK id \in known :
            /\ ask' = [ask EXCEPT ![c] = id]
            /\ cpc' = [cpc EXCEPT ![c] = IF id \in List THEN "get" ELSE "db"]
      BY <1>4 DEF GetSearch
  <2>2. UNCHANGED <<issued, List, srch, known, wpc, cur, reply, searchData, crashes>>
      BY <1>4 DEF GetSearch, qvars, memVars, workerVars, dbVars, envVars, clockVars
  <2>3. id \in Elements(issued) /\ id \in IDs
      BY <1>t
  <2>4. id \notin List => id \in DOMAIN searchData \/ Old(id)
    <3>1. srch[id].boot \in Nat /\ srch[id].boot <= crashes
        BY <1>t, <2>3 DEF Search
    <3>2. srch[id].boot = crashes => id \in List \cup DOMAIN searchData
        BY <2>3 DEF Findable
    <3> HIDE DEF LookupInv
    <3> QED BY <1>t, <2>3, <3>1, <3>2 DEF Old
  <2>5. \A d \in Clients :
          /\ cpc'[d] # "idle" => ask'[d] \in Elements(issued')
          /\ cpc'[d] = "db" => ask'[d] \in DOMAIN searchData' \/ Old(ask[d])'
      BY <1>t, <1>o, <1>i, <2>1, <2>2, <2>3, <2>4 DEF Old
  <2>8. \A d \in Clients :
          cpc'[d] = "get" => ask'[d] \in List' \cup DOMAIN searchData'
      BY <1>t, <2>1, <2>2
  <2>6. Findable'
      BY <1>i, <2>2 DEF Findable
  <2>7. \A d \in Clients : (reply[d].status = "notfound" => Old(reply[d].id))'
      BY <1>o, <2>2 DEF Old
  <2> QED BY <1>i, <2>2, <2>5, <2>6, <2>7, <2>8
<1>5. ASSUME NEW c \in Clients, GetFromMemory(c) PROVE LookupInv'
    BY <1>5, <1>t, <1>o, <1>i, Lasting
    DEF GetFromMemory, Return, Answer, AnswerAt, Findable, Old, qvars, memVars, workerVars, clientVars, dbVars, envVars, clockVars
<1>6. ASSUME NEW c \in Clients, GetPosition(c) PROVE LookupInv'
  <2>1. copied[c] \notin {"notfound", "panic"}
      BY DEF TypeInv, TypeOK, ClientTypeOK, Statuses
  <2> QED BY <1>6, <1>t, <1>o, <1>i, <2>1
          DEF GetPosition, Return, Answer, AnswerAt, Findable, Old, qvars, memVars,
              workerVars, dbVars, envVars, clockVars
<1>7. ASSUME NEW c \in Clients, GetFromDB(c) PROVE LookupInv'
    BY <1>7, <1>t, <1>o, <1>i, Lasting
    DEF GetFromDB, Return, Answer, AnswerAt, Findable, Old, qvars, memVars, workerVars, clientVars, dbVars, envVars, clockVars
<1>8. CASE LoadDone
    BY <1>8, <1>t, <1>o, <1>i, Lasting
    DEF LoadDone, ToIdle, Findable, Old, qvars, memVars, workerVars, clientVars, dbVars, envVars, clockVars
<1>9. CASE WorkerRecv
    BY <1>9, <1>t, <1>o, <1>i, Lasting
    DEF WorkerRecv, ToIdle, Findable, Old, qvars, memVars, workerVars, clientVars, dbVars, envVars, clockVars
<1>10. CASE WorkerForget
    BY <1>10, <1>t, <1>o, <1>i, Lasting
    DEF WorkerForget, ToIdle, Findable, Old, qvars, memVars, workerVars, clientVars, dbVars, envVars, clockVars
<1>11. CASE LookUp
    BY <1>11, <1>t, <1>o, <1>i, Lasting
    DEF LookUp, ToIdle, Findable, Old, qvars, memVars, workerVars, clientVars, dbVars, envVars, clockVars
<1>12. CASE StartSearch
    BY <1>12, <1>t, <1>o, <1>i, Lasting
    DEF StartSearch, ToIdle, Findable, Old, qvars, memVars, workerVars, clientVars, dbVars, envVars, clockVars
<1>13. CASE ScanExtension
    BY <1>13, <1>t, <1>o, <1>i, Lasting
    DEF ScanExtension, ToIdle, Findable, Old, qvars, memVars, workerVars, clientVars, dbVars, envVars, clockVars
<1>14. CASE ScanDone
    BY <1>14, <1>t, <1>o, <1>i, Lasting
    DEF ScanDone, ToIdle, Findable, Old, qvars, memVars, workerVars, clientVars, dbVars, envVars, clockVars
<1>15. CASE SaveSummary
    BY <1>15, <1>t, <1>o, <1>i, Lasting
    DEF SaveSummary, ToIdle, Findable, Old, qvars, memVars, workerVars, clientVars, dbVars, envVars, clockVars
<1>16. CASE SaveMatches
    BY <1>16, <1>t, <1>o, <1>i, Lasting
    DEF SaveMatches, ToIdle, Findable, Old, qvars, memVars, workerVars, clientVars, dbVars, envVars, clockVars
<1>17. CASE CompleteSearch
    BY <1>17, <1>t, <1>o, <1>i, Lasting
    DEF CompleteSearch, ToIdle, Findable, Old, qvars, memVars, workerVars, clientVars, dbVars, envVars, clockVars
<1>18. CASE SaveSearch
    BY <1>18, <1>t, <1>o, <1>i, Lasting
    DEF SaveSearch, ToIdle, Findable, Old, qvars, memVars, workerVars, clientVars, dbVars, envVars, clockVars
<1>19. CASE DropSearch
    BY <1>19, <1>t, <1>o, <1>i, Lasting
    DEF DropSearch, ToIdle, Findable, Old, qvars, memVars, workerVars, clientVars, dbVars, envVars, clockVars
<1>20. CASE DBFault
    BY <1>20, <1>t, <1>o, <1>i, Lasting
    DEF DBFault, ToIdle, Findable, Old, qvars, memVars, workerVars, clientVars, dbVars, envVars, clockVars
<1>22. CASE Restart
  <2>1. /\ UNCHANGED <<issued, srch, known, reply, searchData>>
        /\ crashes' = crashes + 1 /\ wpc' = "off"
        /\ cpc' = [d \in Clients |-> "idle"]
      BY <1>22 DEF Restart, dbVars
  <2>2. \A id \in IDs : srch[id].boot \in Nat /\ srch[id].boot < crashes'
      BY <1>t, <2>1 DEF Search
  <2>3. Findable'
      BY <1>t, <1>i, <2>1, <2>2 DEF Findable
  <2>4. \A id \in IDs : srch'[id].boot <= crashes'
      BY <1>t, <2>1, <2>2
  <2>5. \A d \in Clients : (reply[d].status = "notfound" => Old(reply[d].id))'
      BY <1>o, <2>1 DEF Old
  <2> QED BY <1>i, <2>1, <2>3, <2>4, <2>5
<1>23. CASE UNCHANGED vars
    BY <1>23, <1>t, <1>o, <1>i
    DEF vars, Findable, Old, qvars, memVars, workerVars, clientVars, dbVars, envVars, clockVars
<1> QED BY <1>1, <1>2, <1>3, <1>4, <1>5, <1>6, <1>7, <1>8, <1>9, <1>10, <1>11, <1>12, <1>13, <1>14, <1>15, <1>16, <1>17, <1>18, <1>19, <1>20, <1>22, <1>23 DEF Next, WorkerStep, ClientStep

\* An accepted search can be looked up whatever database write fails.
THEOREM AcceptedIsFindable == Spec => []Findable
<1>1. Init => LookupInv
    BY DEF Init, QInit, LookupInv, Findable, Elements, Blank, NewStruct, NoReply
<1>2. TypeInv /\ LookupInv /\ [Next]_vars => LookupInv'
    BY LookupInvStep
<1>3. LookupInv => Findable
    BY DEF LookupInv
<1> QED BY <1>1, <1>2, <1>3, InitTypeInv, TypeInvStep, PTL DEF Spec

\* "Not found" is only ever said of a search that a restart has dropped, and a
\* lookup only panics on a search that is stored.
THEOREM DeniedIsLostOrStored == Spec => []DeniedOnlyIfLostOrStored
<1>1. Init => LookupInv
    BY DEF Init, QInit, LookupInv, Findable, Elements, Blank, NewStruct, NoReply
<1>2. TypeInv /\ LookupInv /\ [Next]_vars => LookupInv'
    BY LookupInvStep
<1>3. LookupInv => DeniedOnlyIfLostOrStored
    BY DEF LookupInv, DeniedOnlyIfLostOrStored, Old
<1> QED BY <1>1, <1>2, <1>3, InitTypeInv, TypeInvStep, PTL DEF Spec

-----------------------------------------------------------------------------
(* No search is processed twice.                                           *)

Distinct(s) == \A i, j \in 1 .. Len(s) : s[i] = s[j] => i = j

\* A send of a search that is not in the channel keeps its searches distinct.
LEMMA DistinctAppend ==
    ASSUME NEW S, NEW s \in Seq(S), NEW e \in S, Distinct(s), e \notin Elements(s)
    PROVE  Distinct(Append(s, e))
PROOF BY DEF Distinct, Elements

\* The search that is received is not among those that are left.
LEMMA DistinctTail ==
    ASSUME NEW S, NEW s \in Seq(S), s # <<>>, Distinct(s)
    PROVE  Distinct(Tail(s)) /\ Head(s) \notin Elements(Tail(s))
<1>1. /\ Head(s) = s[1]
      /\ \A i \in 1 .. Len(Tail(s)) : i + 1 \in 1 .. Len(s) /\ Tail(s)[i] = s[i + 1]
      /\ 1 \in 1 .. Len(s)
    OBVIOUS
<1>2. Distinct(Tail(s))
    BY <1>1 DEF Distinct
<1>3. Head(s) \notin Elements(Tail(s))
    BY <1>1 DEF Distinct, Elements
<1> QED BY <1>2, <1>3

Working == {"forget", "lookup", "start", "scan", "saveSummary", "saveMatches",
            "complete"}

\* A search is in one place at a time: with the request that creates it, in the
\* channel (once), or with the worker; and until the worker completes it its
\* status says so.
OnceInv ==
    /\ \A c \in Clients : cpc[c] \in {"send", "place"} => holder = c
    /\ Distinct(queue)
    /\ \A c \in Clients : cpc[c] = "send" =>
          /\ ask[c] \in Elements(issued) \ Elements(queue)
          /\ wpc \in Working => ask[c] # cur
          /\ srch[ask[c]].status # "completed"
    /\ \A id \in Elements(queue) :
          id \in Elements(issued) /\ srch[id].status # "completed"
    /\ wpc \in Working =>
          /\ cur \in Elements(issued) \ Elements(queue)
          /\ srch[cur].status # "completed"

\* No step puts a search in two places or requeues a completed one.
LEMMA OnceInvStep ==
    ASSUME TypeInv, OnceInv, [Next]_vars
    PROVE  OnceInv'
<1> USE DEF OnceInv
<1>t. /\ Elements(issued) \subseteq IDs
      /\ queue \in Seq(IDs)
      /\ srch \in [IDs -> Search]
      /\ cpc \in [Clients -> ClientPCs]
      /\ ask \in [Clients -> IDs \cup {NoID}]
    BY DEF TypeInv, TypeOK, QTypeOK, QueueTypeOK, MemTypeOK, ClientTypeOK, Elements
<1>i. /\ issued' = issued => Elements(issued') = Elements(issued)
      /\ queue' = queue => /\ Elements(queue') = Elements(queue)
                           /\ Distinct(queue) => Distinct(queue')
    BY DEF Elements, Distinct
<1>1. ASSUME NEW c \in Clients, NewSearch(c) PROVE OnceInv'
  <2>1. PICK id \in IDs, private \in Privacy :
            /\ NewID(id)
            /\ srch' = [srch EXCEPT ![id] = NewStruct(private, crashes)]
            /\ cpc' = [cpc EXCEPT ![c] = "send"]
            /\ ask' = [ask EXCEPT ![c] = id]
      BY <1>1 DEF NewSearch
  <2>2. id \notin Elements(issued) /\ Elements(issued') = Elements(issued) \cup {id}
      BY <2>1, ElementsAppend DEF NewID, TypeInv, TypeOK, QTypeOK
  <2>3. /\ srch'[id].status = "queued"
        /\ \A x \in IDs \ {id} : srch'[x] = srch[x]
      BY <1>t, <2>1 DEF NewStruct
  <2>4. holder = NoClient /\ holder' = c /\ UNCHANGED <<queue, wpc, cur>>
      BY <1>1 DEF NewSearch, Free, queueVars, workerVars
  <2>5. \A d \in Clients \ {c} : cpc'[d] = cpc[d] /\ cpc[d] \notin {"send", "place"}
      BY <1>t, <2>1, <2>4, NoClientAssumption
  <2>6. cpc'[c] = "send" /\ ask'[c] = id
      BY <1>t, <2>1
  <2> QED BY <1>t, <1>i, <2>2, <2>3, <2>4, <2>5, <2>6
<1>2. ASSUME NEW c \in Clients, NewSearchSend(c) PROVE OnceInv'
  <2>1. /\ cpc[c] = "send"
        /\ queue' = Append(queue, ask[c])
        /\ cpc' = [cpc EXCEPT ![c] = "place"]
        /\ UNCHANGED <<issued, holder, srch, wpc, cur, ask>>
      BY <1>2 DEF NewSearchSend, AddSend, memVars, workerVars
  <2>2. /\ ask[c] \in Elements(issued) \ Elements(queue) /\ ask[c] \in IDs
        /\ wpc \in Working => ask[c] # cur
        /\ srch[ask[c]].status # "completed"
      BY <1>t, <2>1
  <2>3. Elements(queue') = Elements(queue) \cup {ask[c]} /\ Distinct(queue')
      BY <1>t, <2>1, <2>2, ElementsAppend, DistinctAppend
  <2>4. cpc'[c] = "place" /\ \A d \in Clients \ {c} : cpc'[d] = cpc[d]
      BY <1>t, <2>1
  <2>5. \A d \in Clients : cpc'[d] # "send"
      BY <2>1, <2>4
  <2> QED BY <1>t, <1>i, <2>1, <2>2, <2>3, <2>4, <2>5
<1>3. ASSUME NEW c \in Clients, NewSearchReturn(c) PROVE OnceInv'
    BY <1>3, <1>t, <1>i, NoClientAssumption
    DEF NewSearchReturn, AddPos, Return, Answer, AnswerAt, Free, Working, qvars, queueVars, memVars, workerVars, clientVars, dbVars,
        envVars, clockVars
<1>4. ASSUME NEW c \in Clients, GetSearch(c) PROVE OnceInv'
    BY <1>4, <1>t, <1>i, NoClientAssumption
    DEF GetSearch, Return, Answer, AnswerAt, Free, Working, qvars, queueVars, memVars, workerVars, clientVars, dbVars,
        envVars, clockVars
<1>5. ASSUME NEW c \in Clients, GetFromMemory(c) PROVE OnceInv'
    BY <1>5, <1>t, <1>i, NoClientAssumption
    DEF GetFromMemory, Return, Answer, AnswerAt, Free, Working, qvars, queueVars, memVars, workerVars, clientVars, dbVars,
        envVars, clockVars
<1>6. ASSUME NEW c \in Clients, GetPosition(c) PROVE OnceInv'
    BY <1>6, <1>t, <1>i, NoClientAssumption
    DEF GetPosition, Return, Answer, AnswerAt, Free, Working, qvars, queueVars, memVars, workerVars, clientVars, dbVars,
        envVars, clockVars
<1>7. ASSUME NEW c \in Clients, GetFromDB(c) PROVE OnceInv'
    BY <1>7, <1>t, <1>i, NoClientAssumption
    DEF GetFromDB, Return, Answer, AnswerAt, Free, Working, qvars, queueVars, memVars, workerVars, clientVars, dbVars,
        envVars, clockVars
<1>8. CASE LoadDone
    BY <1>8, <1>t, <1>i
    DEF LoadDone, ToIdle, Working, qvars, queueVars, memVars, workerVars, clientVars, dbVars,
        envVars, clockVars
<1>9. CASE WorkerRecv
  <2>1. /\ queue # <<>> /\ cur' = Head(queue) /\ queue' = Tail(queue)
        /\ wpc' = "forget"
        /\ UNCHANGED <<issued, holder, srch, cpc, ask>>
      BY <1>9 DEF WorkerRecv, GetRecv, memVars, clientVars
  <2>2. /\ Elements(queue) = {cur'} \cup Elements(queue')
        /\ Distinct(queue') /\ cur' \notin Elements(queue')
      BY <1>t, <2>1, ElementsTail, DistinctTail
  <2> QED BY <1>t, <1>i, <2>1, <2>2
<1>10. CASE WorkerForget
    BY <1>10, <1>t, <1>i
    DEF WorkerForget, GetForget, ToIdle, Working, qvars, queueVars, memVars, workerVars, clientVars, dbVars,
        envVars, clockVars
<1>11. CASE LookUp
    BY <1>11, <1>t, <1>i
    DEF LookUp, ToIdle, Working, qvars, queueVars, memVars, workerVars, clientVars, dbVars,
        envVars, clockVars
<1>12. CASE StartSearch
    BY <1>12, <1>t, <1>i
    DEF StartSearch, ToIdle, Working, qvars, queueVars, memVars, workerVars, clientVars, dbVars,
        envVars, clockVars
<1>13. CASE ScanExtension
    BY <1>13, <1>t, <1>i
    DEF ScanExtension, ToIdle, Working, qvars, queueVars, memVars, workerVars, clientVars, dbVars,
        envVars, clockVars
<1>14. CASE ScanDone
    BY <1>14, <1>t, <1>i
    DEF ScanDone, ToIdle, Working, qvars, queueVars, memVars, workerVars, clientVars, dbVars,
        envVars, clockVars
<1>15. CASE SaveSummary
    BY <1>15, <1>t, <1>i
    DEF SaveSummary, ToIdle, Working, qvars, queueVars, memVars, workerVars, clientVars, dbVars,
        envVars, clockVars
<1>16. CASE SaveMatches
    BY <1>16, <1>t, <1>i
    DEF SaveMatches, ToIdle, Working, qvars, queueVars, memVars, workerVars, clientVars, dbVars,
        envVars, clockVars
<1>17. CASE CompleteSearch
    BY <1>17, <1>t, <1>i
    DEF CompleteSearch, ToIdle, Working, qvars, queueVars, memVars, workerVars, clientVars, dbVars,
        envVars, clockVars
<1>18. CASE SaveSearch
    BY <1>18, <1>t, <1>i
    DEF SaveSearch, ToIdle, Working, qvars, queueVars, memVars, workerVars, clientVars, dbVars,
        envVars, clockVars
<1>19. CASE DropSearch
    BY <1>19, <1>t, <1>i
    DEF DropSearch, ToIdle, Working, qvars, queueVars, memVars, workerVars, clientVars, dbVars,
        envVars, clockVars
<1>20. CASE DBFault
    BY <1>20, <1>t, <1>i
    DEF DBFault, ToIdle, Working, qvars, queueVars, memVars, workerVars, clientVars, dbVars,
        envVars, clockVars
<1>22. CASE Restart
  <2>1. queue' = <<>> /\ wpc' = "off" /\ cpc' = [d \in Clients |-> "idle"]
      BY <1>22 DEF Restart
  <2>2. Elements(queue') = {} /\ Distinct(queue')
      BY <2>1 DEF Elements, Distinct
  <2> QED BY <2>1, <2>2 DEF Working
<1>23. CASE UNCHANGED vars
    BY <1>23, <1>t, <1>i
    DEF vars, qvars, queueVars, memVars, workerVars, clientVars, dbVars,
        envVars, clockVars
<1> QED BY <1>1, <1>2, <1>3, <1>4, <1>5, <1>6, <1>7, <1>8, <1>9, <1>10, <1>11, <1>12, <1>13, <1>14, <1>15, <1>16, <1>17, <1>18, <1>19, <1>20, <1>22, <1>23 DEF Next, WorkerStep, ClientStep

-----------------------------------------------------------------------------
(* A completed search has its results.                                     *)

\* The Search struct of id says "completed"; it was issued, so it is not reset.
IsCompleted(id) == id \in Elements(issued) /\ srch[id].status = "completed"

\* What the database has of a search agrees with the search in memory.
ResultsOf(id) == HasResults(id, srch[id].matched)

\* Whoever says that a search is completed says so of one whose struct has that
\* status; the worker gives it only after it has written the results; and the
\* results of a completed search are not written again (OnceInv).
CompletedStored == \A id \in IDs : IsCompleted(id) => ResultsOf(id)

WorkerStored ==
    /\ wpc = "saveMatches" => Listed(cur) = found
    /\ wpc = "complete" => Listed(cur) = found /\ Fetchable(cur) = found
    /\ wpc \in {"saveSearch", "drop"} => IsCompleted(cur)

RecordsCompleted ==
    \A id \in DOMAIN searchData :
        IsCompleted(id) /\ searchData[id].matched = srch[id].matched

\* A search has no matches in the database before the worker puts them there.
Untouched ==
    /\ \A id \in IDs \ Elements(issued) : Fetchable(id) = {}
    /\ \A c \in Clients : cpc[c] = "send" => Fetchable(ask[c]) = {}
    /\ \A id \in Elements(queue) : Fetchable(id) = {}
    /\ wpc \in Working \ {"complete"} => Fetchable(cur) = {}

ClientsTold ==
    /\ known \subseteq Elements(issued)
    /\ \A c \in Clients :
          /\ cpc[c] # "idle" => ask[c] \in Elements(issued)
          /\ cpc[c] # "pos" => copied[c] = "queued"
          /\ copied[c] = "completed" => IsCompleted(ask[c])
          /\ reply[c].status = "completed" => IsCompleted(reply[c].id)

StoredInv ==
    CompletedStored /\ WorkerStored /\ RecordsCompleted /\ Untouched /\ ClientsTold

\* No step but SaveMatches stores matches, and it does so for the search in hand.
LEMMA UntouchedStep ==
    ASSUME TypeInv, OnceInv, Untouched, [Next]_vars
    PROVE  Untouched'
<1> USE DEF Untouched
<1>t. /\ issued \in Seq(IDs) /\ queue \in Seq(IDs) /\ Elements(issued) \subseteq IDs
      /\ cpc \in [Clients -> ClientPCs] /\ ask \in [Clients -> IDs \cup {NoID}]
    BY DEF TypeInv, TypeOK, QTypeOK, QueueTypeOK, ClientTypeOK, Elements
<1>i. /\ issued' = issued => Elements(issued') = Elements(issued)
      /\ queue' = queue => Elements(queue') = Elements(queue)
      /\ matchData' = matchData => \A id : Fetchable(id)' = Fetchable(id)
    BY DEF Elements, Fetchable
<1>1. ASSUME NEW c \in Clients, NewSearch(c) PROVE Untouched'
  <2>1. PICK id \in IDs : NewID(id) /\ ask' = [ask EXCEPT ![c] = id]
      BY <1>1 DEF NewSearch
  <2>2. /\ cpc' = [cpc EXCEPT ![c] = "send"]
        /\ UNCHANGED <<queue, wpc, cur, matchData>>
      BY <1>1 DEF NewSearch, queueVars, workerVars, dbVars
  <2>3. id \notin Elements(issued) /\ Elements(issued') = Elements(issued) \cup {id}
      BY <1>t, <2>1, ElementsAppend DEF NewID
  <2>4. /\ cpc'[c] = "send" /\ ask'[c] = id
        /\ \A d \in Clients \ {c} : cpc'[d] = cpc[d] /\ ask'[d] = ask[d]
      BY <1>t, <2>1, <2>2
  <2> QED BY <1>t, <1>i, <2>2, <2>3, <2>4
<1>2. ASSUME NEW c \in Clients, NewSearchSend(c) PROVE Untouched'
  <2>1. /\ cpc[c] = "send" /\ queue' = Append(queue, ask[c])
        /\ cpc' = [cpc EXCEPT ![c] = "place"]
        /\ UNCHANGED <<issued, wpc, cur, ask, matchData>>
      BY <1>2 DEF NewSearchSend, AddSend, workerVars, dbVars
  <2>2. Elements(queue') = Elements(queue) \cup {ask[c]}
      BY <1>t, <2>1, ElementsAppend DEF OnceInv
  <2>3. \A d \in Clients : cpc'[d] = "send" => cpc[d] = "send"
      BY <1>t, <2>1
  <2> QED BY <1>i, <2>1, <2>2, <2>3
<1>3. CASE WorkerRecv
  <2>1. /\ queue # <<>> /\ cur' = Head(queue) /\ queue' = Tail(queue)
        /\ UNCHANGED <<issued, cpc, ask, matchData>>
      BY <1>3 DEF WorkerRecv, GetRecv, clientVars, dbVars
  <2>2. Elements(queue) = {cur'} \cup Elements(queue')
      BY <1>t, <2>1, ElementsTail
  <2> QED BY <1>i, <2>1, <2>2
<1>4. CASE SaveMatches
  <2>1. /\ wpc = "saveMatches" /\ wpc' = "complete" /\ cur' = cur
        /\ matchData' = matchData \cup ({cur} \X found)
        /\ UNCHANGED <<issued, queue, cpc, ask>>
      BY <1>4 DEF SaveMatches, qvars, queueVars, clientVars
  <2>2. \A id : id # cur => Fetchable(id)' = Fetchable(id)
      BY <2>1 DEF Fetchable
  <2>3. /\ cur \in Elements(issued) \ Elements(queue)
        /\ \A c \in Clients : cpc[c] = "send" => ask[c] # cur
      BY <2>1 DEF OnceInv, Working
  <2> QED BY <1>i, <2>1, <2>2, <2>3 DEF Working
<1>5. CASE Restart
  <2>1. /\ queue' = <<>> /\ wpc' = "off" /\ \A c \in Clients : cpc'[c] = "idle"
        /\ UNCHANGED <<issued, matchData>>
      BY <1>5 DEF Restart, dbVars
  <2> QED BY <1>i, <2>1 DEF Elements, Working
<1>6. ASSUME /\ UNCHANGED <<issued, queue, matchData>>
             /\ \A c \in Clients : cpc'[c] = "send" => cpc[c] = "send" /\ ask'[c] = ask[c]
             /\ wpc' \in Working \ {"complete"} =>
                   wpc \in Working \ {"complete"} /\ cur' = cur
      PROVE  Untouched'
    BY <1>6, <1>i
<1> USE DEF qvars, queueVars, workerVars, clientVars, dbVars, Working
<1>7. ASSUME NEW c \in Clients, NewSearchReturn(c) \/ GetSearch(c) PROVE Untouched'
    BY <1>7, <1>t, <1>6 DEF NewSearchReturn, GetSearch, AddPos, Return
<1>8. ASSUME NEW c \in Clients, GetFromMemory(c) \/ GetPosition(c) \/ GetFromDB(c)
      PROVE  Untouched'
    BY <1>8, <1>t, <1>6 DEF GetFromMemory, GetPosition, GetFromDB, Answer, AnswerAt, Return
<1>9. ASSUME WorkerForget \/ LookUp \/ StartSearch \/ ScanExtension \/ ScanDone
      PROVE  Untouched'
    BY <1>9, <1>6 DEF WorkerForget, GetForget, LookUp, StartSearch, ScanExtension, ScanDone,
                      ToIdle
<1>10. ASSUME \/ SaveSummary \/ CompleteSearch \/ SaveSearch \/ DropSearch \/ DBFault
              \/ LoadDone \/ UNCHANGED vars
       PROVE  Untouched'
    BY <1>10, <1>6 DEF SaveSummary, CompleteSearch, SaveSearch, DropSearch, DBFault, LoadDone,
                       ToIdle, vars
<1> QED BY <1>1, <1>2, <1>3, <1>4, <1>5, <1>7, <1>8, <1>9, <1>10
        DEF Next, WorkerStep, ClientStep

\* A completed search stays completed, and nothing about it changes.
LEMMA CompletedLasts ==
    ASSUME TypeInv, OnceInv, [Next]_vars
    PROVE  \A id : IsCompleted(id) => IsCompleted(id)' /\ srch'[id] = srch[id]
<1> SUFFICES ASSUME NEW id \in Elements(issued), srch[id].status = "completed"
             PROVE  id \in Elements(issued') /\ srch'[id] = srch[id]
    BY DEF IsCompleted
<1>t. id \in IDs /\ srch \in [IDs -> Search]
    BY DEF TypeInv, TypeOK, QTypeOK, MemTypeOK, Elements
<1>1. id \in Elements(issued')
    BY Lasting
<1>2. ASSUME NEW c \in Clients, NewSearch(c) PROVE srch'[id] = srch[id]
  <2>1. PICK new \in IDs, private \in Privacy :
            /\ new \notin Elements(issued)
            /\ srch' = [srch EXCEPT ![new] = NewStruct(private, crashes)]
      BY <1>2 DEF NewSearch, NewID
  <2> QED BY <1>t, <2>1
<1>3. ASSUME StartSearch PROVE srch'[id] = srch[id]
    BY <1>3, <1>t DEF StartSearch, OnceInv, Working
<1>4. ASSUME CompleteSearch PROVE srch'[id] = srch[id]
    BY <1>4, <1>t DEF CompleteSearch, OnceInv, Working
<1>5. ASSUME srch' = srch PROVE srch'[id] = srch[id]
    BY <1>5
<1>6. /\ \/ \E c \in Clients : NewSearch(c)
         \/ StartSearch
         \/ CompleteSearch
         \/ srch' = srch
    BY DEF Next, WorkerStep, ClientStep, NewSearchSend, NewSearchReturn, GetSearch, GetFromMemory, GetPosition, GetFromDB, LoadDone, WorkerRecv, WorkerForget, LookUp, ScanExtension, ScanDone, SaveSummary, SaveMatches, SaveSearch, DropSearch, DBFault, Restart, vars, memVars
<1> QED BY <1>1, <1>2, <1>3, <1>4, <1>5, <1>6

\* The results of a completed search are not written again.
LEMMA ResultsLast ==
    ASSUME TypeInv, OnceInv, [Next]_vars,
           NEW id, IsCompleted(id), ResultsOf(id)
    PROVE  ResultsOf(id)'
<1>0. srch'[id] = srch[id]
    BY CompletedLasts
<1>1. CASE SaveSummary
  <2>1. id # cur
      BY <1>1 DEF SaveSummary, OnceInv, Working, IsCompleted
  <2>2. Listed(id)' = Listed(id) /\ Fetchable(id)' = Fetchable(id)
      BY <1>1, <2>1 DEF SaveSummary, Listed, Fetchable
  <2> QED BY <1>0, <2>2 DEF ResultsOf, HasResults
<1>2. CASE SaveMatches
  <2>1. id # cur
      BY <1>2 DEF SaveMatches, OnceInv, Working, IsCompleted
  <2>2. Listed(id)' = Listed(id) /\ Fetchable(id)' = Fetchable(id)
      BY <1>2, <2>1 DEF SaveMatches, Listed, Fetchable
  <2> QED BY <1>0, <2>2 DEF ResultsOf, HasResults
<1>3. CASE UNCHANGED <<summaryData, matchData>>
    BY <1>0, <1>3 DEF ResultsOf, HasResults, Listed, Fetchable
<1>4. \/ SaveSummary
      \/ SaveMatches
      \/ UNCHANGED <<summaryData, matchData>>
    BY DEF Next, WorkerStep, ClientStep, NewSearch, NewSearchSend, NewSearchReturn, GetSearch, GetFromMemory, GetPosition, GetFromDB, LoadDone, WorkerRecv, WorkerForget, LookUp, StartSearch, ScanExtension, ScanDone, CompleteSearch, SaveSearch, DropSearch, DBFault, Restart, vars, dbVars
<1> QED BY <1>1, <1>2, <1>3, <1>4

\* No step reports, stores or records as completed a search without results.
LEMMA StoredInvStep ==
    ASSUME TypeInv, OnceInv, StoredInv, [Next]_vars
    PROVE  StoredInv'
<1> USE DEF StoredInv
<1>t. /\ Elements(issued) \subseteq IDs
      /\ srch \in [IDs -> Search]
      /\ cpc \in [Clients -> ClientPCs]
      /\ ask \in [Clients -> IDs \cup {NoID}]
      /\ copied \in [Clients -> Statuses]
      /\ reply \in [Clients -> Reply]
    BY DEF TypeInv, TypeOK, QTypeOK, MemTypeOK, ClientTypeOK, Elements
<1>i. Elements(issued) \subseteq Elements(issued')
    BY Lasting
<1>c. ASSUME NEW id, IsCompleted(id)
      PROVE  /\ id \in Elements(issued') /\ srch'[id].status = "completed"
             /\ srch'[id] = srch[id]
    BY <1>c, CompletedLasts DEF IsCompleted
<1>r. ASSUME NEW id, IsCompleted(id), ResultsOf(id) PROVE ResultsOf(id)'
    BY <1>r, ResultsLast
<1>1. CompletedStored'
  <2> SUFFICES ASSUME NEW id \in IDs, IsCompleted(id)'
               PROVE  ResultsOf(id)'
      BY DEF CompletedStored
  <2>1. ASSUME NEW c \in Clients, NewSearch(c) PROVE IsCompleted(id)
    <3>1. PICK new \in IDs, private \in Privacy :
              /\ NewID(new)
              /\ srch' = [srch EXCEPT ![new] = NewStruct(private, crashes)]
        BY <2>1 DEF NewSearch
    <3>2. Elements(issued') = Elements(issued) \cup {new}
        BY <3>1, ElementsAppend DEF NewID, TypeInv, TypeOK, QTypeOK
    <3> QED BY <1>t, <3>1, <3>2 DEF IsCompleted, NewStruct
  <2>2. ASSUME StartSearch PROVE IsCompleted(id)
      BY <2>2, <1>t DEF StartSearch, qvars, IsCompleted, Elements
  <2>3. ASSUME CompleteSearch, id # cur PROVE IsCompleted(id)
      BY <2>3, <1>t DEF CompleteSearch, qvars, IsCompleted, Elements
  <2>4. ASSUME CompleteSearch, id = cur PROVE ResultsOf(id)'
    <3>1. /\ wpc = "complete" /\ UNCHANGED <<summaryData, matchData>>
          /\ srch' = [srch EXCEPT ![cur].status = "completed",
                                  ![cur].matched = (found # {})]
        BY <2>4 DEF CompleteSearch, dbVars
    <3>2. srch'[id].matched = (found # {})
        BY <1>t, <2>4, <3>1 DEF Search
    <3>3. Listed(id)' = found /\ Fetchable(id)' = found
        BY <2>4, <3>1 DEF WorkerStored, Listed, Fetchable
    <3> QED BY <3>2, <3>3 DEF ResultsOf, HasResults
  <2>5. ASSUME UNCHANGED <<issued, srch>> PROVE IsCompleted(id)
      BY <2>5 DEF IsCompleted, Elements
  <2>6. \/ \E c \in Clients : NewSearch(c)
        \/ StartSearch
        \/ CompleteSearch
        \/ UNCHANGED <<issued, srch>>
      BY DEF Next, WorkerStep, ClientStep,
             NewSearchSend, NewSearchReturn, GetSearch, GetFromMemory,
        GetPosition, GetFromDB, LoadDone, WorkerRecv, WorkerForget,
        LookUp, ScanExtension, ScanDone, SaveSummary, SaveMatches,
        SaveSearch, DropSearch, DBFault, Restart,
             vars, qvars, memVars
  <2> QED BY <1>r, <2>1, <2>2, <2>3, <2>4, <2>5, <2>6 DEF CompletedStored
<1>2. WorkerStored'
  <2>1. CASE SaveSummary
      BY <2>1 DEF SaveSummary, WorkerStored, Listed
  <2>2. CASE SaveMatches
    <3>1. /\ wpc = "saveMatches" /\ wpc' = "complete" /\ UNCHANGED <<cur, found, summaryData>>
          /\ matchData' = matchData \cup ({cur} \X found)
        BY <2>2 DEF SaveMatches
    <3>2. Fetchable(cur) = {} /\ Listed(cur)' = found /\ found \subseteq Slugs
        BY <3>1 DEF Untouched, Working, WorkerStored, Listed, TypeInv, TypeOK, WorkerTypeOK
    <3>3. Fetchable(cur)' = found
        BY <3>1, <3>2 DEF Fetchable
    <3> QED BY <3>1, <3>2, <3>3 DEF WorkerStored, Listed, Fetchable
  <2>3. CASE CompleteSearch
    <3>1. cur \in Elements(issued) /\ cur' = cur /\ wpc' = "saveSearch"
          /\ srch'[cur].status = "completed"
        BY <1>t, <2>3 DEF CompleteSearch, OnceInv, Working
    <3> QED BY <1>i, <3>1 DEF WorkerStored, IsCompleted
  <2>4. CASE SaveSearch
      BY <1>c, <2>4 DEF SaveSearch, WorkerStored, IsCompleted
  <2>5. CASE wpc' \in {"off", "idle", "forget", "lookup", "start", "scan", "saveSummary"}
      BY <2>5 DEF WorkerStored
  <2>6. CASE UNCHANGED <<wpc, cur, found, summaryData, matchData>>
      BY <1>c, <2>6 DEF WorkerStored, IsCompleted, Listed, Fetchable
  <2>7. \/ SaveSummary \/ SaveMatches \/ CompleteSearch \/ SaveSearch
        \/ wpc' \in {"off", "idle", "forget", "lookup", "start", "scan", "saveSummary"}
        \/ UNCHANGED <<wpc, cur, found, summaryData, matchData>>
      BY DEF Next, WorkerStep, ClientStep,
             NewSearch, NewSearchSend, NewSearchReturn, GetSearch, GetFromMemory,
        GetPosition, GetFromDB, LoadDone, WorkerRecv, WorkerForget,
        LookUp, StartSearch, ScanExtension, ScanDone, DropSearch,
        DBFault, Restart,
             ToIdle, vars, workerVars, dbVars
  <2> QED BY <2>1, <2>2, <2>3, <2>4, <2>5, <2>6, <2>7
<1>3. RecordsCompleted'
  <2>1. CASE SaveSearch
      BY <1>c, <2>1 DEF SaveSearch, RecordsCompleted, WorkerStored, IsCompleted
  <2>2. CASE UNCHANGED searchData
      BY <1>c, <2>2 DEF RecordsCompleted, IsCompleted
  <2>3. SaveSearch \/ UNCHANGED searchData
      BY DEF Next, WorkerStep, ClientStep,
             NewSearch, NewSearchSend, NewSearchReturn, GetSearch, GetFromMemory,
        GetPosition, GetFromDB, LoadDone, WorkerRecv, WorkerForget,
        LookUp, StartSearch, ScanExtension, ScanDone, SaveSummary,
        SaveMatches, CompleteSearch, DropSearch, DBFault, Restart,
             vars, dbVars
  <2> QED BY <2>1, <2>2, <2>3
<1>4. ClientsTold'
  <2> USE DEF ClientsTold
  <2>1. ASSUME NEW c \in Clients, NewSearch(c) PROVE ClientsTold'
    <3>1. PICK id \in IDs :
              /\ NewID(id)
              /\ cpc' = [cpc EXCEPT ![c] = "send"]
              /\ ask' = [ask EXCEPT ![c] = id]
        BY <2>1 DEF NewSearch
    <3>2. id \in Elements(issued')
        BY <3>1, ElementsAppend DEF NewID, TypeInv, TypeOK, QTypeOK
    <3>3. cpc[c] = "idle" /\ UNCHANGED <<known, copied, reply>>
        BY <2>1 DEF NewSearch
    <3>4. cpc'[c] = "send" /\ ask'[c] = id
          /\ \A d \in Clients \ {c} : cpc'[d] = cpc[d] /\ ask'[d] = ask[d]
        BY <1>t, <3>1
    <3> QED BY <1>i, <1>c, <3>2, <3>3, <3>4 DEF IsCompleted
  <2>2. ASSUME NEW c \in Clients, NewSearchSend(c) PROVE ClientsTold'
      BY <1>t, <1>i, <1>c, <2>2
      DEF NewSearchSend, Return, Answer, AnswerAt, RecordsCompleted, IsCompleted, memVars
  <2>3. ASSUME NEW c \in Clients, NewSearchReturn(c) PROVE ClientsTold'
      BY <1>t, <1>i, <1>c, <2>3
      DEF NewSearchReturn, Return, Answer, AnswerAt, RecordsCompleted, IsCompleted, memVars
  <2>4. ASSUME NEW c \in Clients, GetSearch(c) PROVE ClientsTold'
      BY <1>t, <1>i, <1>c, <2>4
      DEF GetSearch, Return, Answer, AnswerAt, RecordsCompleted, IsCompleted, memVars
  <2>5. ASSUME NEW c \in Clients, GetFromMemory(c) PROVE ClientsTold'
      BY <1>t, <1>i, <1>c, <2>5
      DEF GetFromMemory, Return, Answer, AnswerAt, RecordsCompleted, IsCompleted, memVars
  <2>6. ASSUME NEW c \in Clients, GetPosition(c) PROVE ClientsTold'
      BY <1>t, <1>i, <1>c, <2>6
      DEF GetPosition, Return, Answer, AnswerAt, RecordsCompleted, IsCompleted, memVars
  <2>7. ASSUME NEW c \in Clients, GetFromDB(c) PROVE ClientsTold'
      BY <1>t, <1>i, <1>c, <2>7
      DEF GetFromDB, Return, Answer, AnswerAt, RecordsCompleted, IsCompleted, memVars
  <2>8. CASE Restart
      BY <1>t, <1>i, <1>c, <2>8 DEF Restart, IsCompleted
  <2>9. CASE UNCHANGED <<known, clientVars>>
      BY <1>t, <1>i, <1>c, <2>9 DEF IsCompleted, clientVars
  <2>10. \/ \E c \in Clients : NewSearch(c) \/ GetSearch(c) \/ ClientStep(c)
         \/ Restart
         \/ UNCHANGED <<known, clientVars>>
      BY DEF Next, WorkerStep,
             LoadDone, WorkerRecv, WorkerForget, LookUp, StartSearch,
        ScanExtension, ScanDone, SaveSummary, SaveMatches,
        CompleteSearch, SaveSearch, DropSearch, DBFault,
             vars, memVars
  <2> QED BY <2>1, <2>2, <2>3, <2>4, <2>5, <2>6, <2>7, <2>8, <2>9, <2>10 DEF ClientStep
<1>5. Untouched'
    BY UntouchedStep
<1> QED BY <1>1, <1>2, <1>3, <1>4, <1>5

\* The three invariants above hold together in every reachable state.
LEMMA StoredInvariant == Spec => [](TypeInv /\ OnceInv /\ StoredInv)
<1>1. Init => TypeInv /\ OnceInv /\ StoredInv
  <2> SUFFICES ASSUME Init PROVE OnceInv /\ StoredInv
      BY InitTypeInv
  <2> USE DEF Init, QInit, QueueInit
  <2>1. OnceInv
      BY DEF OnceInv, Distinct, Elements, Working
  <2>2. StoredInv
      BY DEF StoredInv, CompletedStored, WorkerStored, RecordsCompleted, ClientsTold,
             Untouched, Fetchable, Working, IsCompleted, Elements, NoReply
  <2> QED BY <2>1, <2>2
<1>2. TypeInv /\ OnceInv /\ StoredInv /\ [Next]_vars => (TypeInv /\ OnceInv /\ StoredInv)'
    BY TypeInvStep, OnceInvStep, StoredInvStep
<1> QED BY <1>1, <1>2, PTL DEF Spec

\* What a client is told of a completed search agrees with what it can fetch, now and
\* after any restart: with matches, the summary and the matches of each extension it
\* lists; without, neither.
THEOREM CompletedIsServed == Spec => []ResultsServed
<1>1. TypeInv /\ StoredInv => ResultsServed
    BY DEF TypeInv, TypeOK, QTypeOK, StoredInv, CompletedStored, ClientsTold,
           IsCompleted, ResultsServed, ResultsOf, Elements
<1> QED BY <1>1, StoredInvariant, PTL

\* What the database lists as a search with matches has its results there, and what
\* it lists as a search without matches has none.
THEOREM SavedIsComplete == Spec => []SavedHasResults
<1>1. TypeInv /\ StoredInv => SavedHasResults
    BY DEF TypeInv, TypeOK, DBTypeOK, StoredInv, CompletedStored, RecordsCompleted,
           SavedHasResults, ResultsOf
<1> QED BY <1>1, StoredInvariant, PTL
=============================================================================
