----------------------- MODULE RepositoryWorkerProofs -----------------------
(***************************************************************************)
(* What holds of a repository as long as its update workers keep apart,    *)
(* for every number of extensions, workers, changes, restarts and          *)
(* failures: the counters are those of the list, the files of an extension *)
(* are never replaced by older ones, and, if nothing fails, a change that  *)
(* the revision covers is indexed.                                         *)
(*                                                                         *)
(* Two workers that have the same extension in their hands may add it      *)
(* twice, or install its archives in the wrong order; nothing in           *)
(* ProcessUpdate prevents it.  WorkersApart says that this does not        *)
(* happen, and no more.  It is sure with one worker only; the program      *)
(* starts four unless it is configured otherwise (config.go:36).           *)
(***************************************************************************)
EXTENDS RepositoryProofs

\* No two workers are about to add the same extension, or have archives of the same
\* extension that are not installed.
WorkersApart ==
    \A v, w \in Workers :
        /\ v # w
        /\ wk[v].pc \in {"add", "build", "swap"} /\ wk[w].pc \in {"add", "build", "swap"}
        => wk[v].slug # wk[w].slug

-----------------------------------------------------------------------------
(* The last change of an extension                                         *)

\* LastChange of any log.
LastOf(l, s) == Max({0} \cup {i \in DOMAIN l : l[i] = s})

\* It is the last place of the extension in the log, or 0.
LEMMA LastOfIs ==
    ASSUME NEW l \in Seq(Slugs), NEW s \in Slugs
    PROVE  /\ LastOf(l, s) \in 0 .. Len(l)
           /\ LastOf(l, s) # 0 => l[LastOf(l, s)] = s
           /\ \A i \in 1 .. Len(l) : l[i] = s => i <= LastOf(l, s)
<1> DEFINE S == {0} \cup {i \in DOMAIN l : l[i] = s}
<1>1. Len(l) \in Nat /\ DOMAIN l = 1 .. Len(l)
    OBVIOUS
<1>2. S \in SUBSET (0 .. Len(l)) /\ S # {}
    BY <1>1
<1>3. /\ \A i \in 1 .. Len(l) : l[i] = s => i \in S
      /\ \A i \in S : i # 0 => l[i] = s
    BY <1>1
<1> HIDE DEF S
<1>4. PICK x \in S : \A y \in S : x >= y
    BY <1>1, <1>2, MaxExists
<1>5. Max(S) \in S /\ \A y \in S : Max(S) >= y
    BY <1>4 DEF Max
<1>6. LastOf(l, s) = Max(S)
    BY DEF LastOf, S
<1>7. Max(S) \in 0 .. Len(l) /\ \A i \in S : i \in 0 .. Len(l)
    BY <1>2, <1>5
<1> QED BY <1>3, <1>5, <1>6, <1>7, <1>1

\* LastChange is LastOf, before and after a step.
LEMMA LastIs ==
    /\ \A s : LastChange(s) = LastOf(log, s)
    /\ \A s : LastChange(s)' = LastOf(log', s)
BY DEF LastChange, LastOf

\* The changes are numbered: LastChange is a number of them, or 0.
LEMMA LastBound ==
    ASSUME RTypeInv, NEW s \in Slugs
    PROVE  LastChange(s) \in 0 .. Len(log) /\ Len(log) \in Nat
BY LastOfIs, LastIs DEF RTypeInv, RTypeOK

\* A change is the last of its extension, and of no other.
LEMMA CommitLast ==
    ASSUME RTypeInv, NEW s \in Slugs, Commit(s), NEW t \in Slugs
    PROVE  LastChange(t)' = IF t = s THEN Len(log) + 1 ELSE LastChange(t)
<1> DEFINE l == Append(log, s)
<1>1. log \in Seq(Slugs) /\ log' = l /\ Len(log) \in Nat
    BY DEF RTypeInv, RTypeOK, Commit
<1>2. /\ l \in Seq(Slugs) /\ Len(l) = Len(log) + 1 /\ l[Len(log) + 1] = s
      /\ \A i \in 1 .. Len(log) : l[i] = log[i]
    BY <1>1, AppendProperties
<1> HIDE DEF l
<1>3. /\ LastOf(log, t) \in 0 .. Len(log)
      /\ LastOf(log, t) # 0 => log[LastOf(log, t)] = t
      /\ \A i \in 1 .. Len(log) : log[i] = t => i <= LastOf(log, t)
    BY <1>1, LastOfIs
<1>4. /\ LastOf(l, t) \in 0 .. Len(l)
      /\ LastOf(l, t) # 0 => l[LastOf(l, t)] = t
      /\ \A i \in 1 .. Len(l) : l[i] = t => i <= LastOf(l, t)
    BY <1>2, LastOfIs
<1>5. LastOf(l, t) = IF t = s THEN Len(log) + 1 ELSE LastOf(log, t)
  <2>1. CASE t = s
    <3>1. Len(log) + 1 <= LastOf(l, t)
      BY <2>1, <1>1, <1>2, <1>4
    <3> QED BY <2>1, <3>1, <1>1, <1>2, <1>4
  <2>2. CASE t # s
    <3>1. LastOf(l, t) # Len(log) + 1
      BY <2>2, <1>1, <1>2, <1>4
    <3>2. LastOf(l, t) \in 0 .. Len(log)
      BY <3>1, <1>1, <1>2, <1>4
    <3>3. LastOf(l, t) # 0 => LastOf(l, t) <= LastOf(log, t)
      BY <3>2, <1>1, <1>2, <1>3, <1>4
    <3>4. LastOf(log, t) # 0 => LastOf(log, t) <= LastOf(l, t)
      BY <1>1, <1>2, <1>3, <1>4
    <3> QED BY <2>2, <3>2, <3>3, <3>4, <1>1, <1>3
  <2> QED BY <2>1, <2>2
<1> QED BY <1>1, <1>5, LastIs

\* Only a commit changes the log.
LEMMA LogSteps ==
    ASSUME [Next]_vars
    PROVE  log' = log \/ \E s \in Slugs : Commit(s)
BY DEF Next, Load, LoadStep, LoadExisting, LoadFails, LoadIndexes, FetchList, ListNext,
    StartUpdateWorkers,
       JobStart, JobStep, JobRevision, JobLog, JobQueue, JobFails, Restart,
       UpdateStep, Take, Add, Get, Fetch, Build, Swap, SetOpen, SetClosed, SetStatus,
       SaveExt, SetRev, SaveBegin, SaveEnd, SwapFails, UpdateFails, vars

\* The log only grows.
LEMMA LastGrows ==
    ASSUME RTypeInv, [Next]_vars, NEW t \in Slugs
    PROVE  LastChange(t)' >= LastChange(t) /\ Len(log') >= Len(log)
<1>1. LastChange(t) \in Nat /\ Len(log) \in Nat /\ LastChange(t) <= Len(log)
    BY LastBound
<1>2. CASE log' = log
    BY <1>1, <1>2, LastIs
<1>3. ASSUME NEW s \in Slugs, Commit(s)
      PROVE  LastChange(t)' >= LastChange(t) /\ Len(log') >= Len(log)
  <2>1. Len(log') = Len(log) + 1
    BY <1>3 DEF Commit, RTypeInv, RTypeOK
  <2> QED BY <1>1, <1>3, <2>1, CommitLast
<1> QED BY <1>2, <1>3, LogSteps

\* Nothing but a change of an extension moves its last change.
LEMMA LastSame ==
    ASSUME RTypeInv, [Next]_vars, NEW s \in Slugs, ~Commit(s)
    PROVE  LastChange(s)' = LastChange(s)
<1>1. CASE log' = log
    BY <1>1, LastIs
<1>2. ASSUME NEW t \in Slugs, Commit(t) PROVE LastChange(s)' = LastChange(s)
  <2>1. t # s
    BY <1>2
  <2> QED BY <1>2, <2>1, CommitLast
<1> QED BY <1>1, <1>2, LogSteps

-----------------------------------------------------------------------------
(* The worker                                                              *)

\* What a step of the worker that is not its first or last one leaves in its hands.
SameUpdate(w) == wk'[w].slug = wk[w].slug /\ wk'[w].rev = wk[w].rev

\* The steps of an update, in the order of ProcessUpdate.
LEMMA WorkerMoves ==
    ASSUME RTypeInv, NEW w \in Workers
    PROVE  /\ Take(w) => /\ wk[w].pc = "idle"
                         /\ wk'[w].pc = IF Exists(Head(queue).slug) THEN "get" ELSE "add"
                         /\ wk'[w].slug = Head(queue).slug /\ wk'[w].rev = Head(queue).rev
           /\ Add(w) => wk'[w].pc = "get" /\ SameUpdate(w)
           /\ Get(w) => wk'[w].pc = "fetch" /\ SameUpdate(w)
           /\ Fetch(w) => /\ wk'[w].pc = "build" /\ SameUpdate(w)
                          /\ wk'[w].got = LastChange(wk[w].slug)
           /\ Swap(w) => wk'[w].pc = "open" /\ SameUpdate(w)
           /\ SwapFails(w) => wk'[w].pc = "close" /\ SameUpdate(w)
           /\ UpdateFails(w) => wk'[w].pc = "close" /\ SameUpdate(w)
           /\ SetOpen(w) => wk'[w].pc = "saveext" /\ SameUpdate(w)
           /\ SetClosed(w) => wk'[w].pc = "idle"
           /\ SaveExt(w) => wk'[w].pc = "setrev" /\ SameUpdate(w)
           /\ SetRev(w) => wk'[w].pc = "save" /\ SameUpdate(w)
           /\ SaveBegin(w) => wk'[w].pc = "put" /\ wk'[w].slug = wk[w].slug
                              /\ wk'[w].rev = revision
           /\ SaveEnd(w) => wk'[w].pc = "idle" /\ wk'[w].rev = 0
<1>a. wk \in [Workers -> Worker] /\ wk[w] \in Worker
    BY DEF RTypeInv, RTypeOK
<1>1. Take(w) => /\ wk[w].pc = "idle"
                 /\ wk'[w].pc = IF Exists(Head(queue).slug) THEN "get" ELSE "add"
                 /\ wk'[w].slug = Head(queue).slug /\ wk'[w].rev = Head(queue).rev
    BY <1>a DEF Take, IdleWorker
<1>2. Add(w) => wk'[w].pc = "get" /\ SameUpdate(w)
    BY <1>a DEF Add, SameUpdate, Worker
<1>3. Get(w) => wk'[w].pc = "fetch" /\ SameUpdate(w)
    BY <1>a DEF Get, SameUpdate, Worker
<1>4. Fetch(w) => /\ wk'[w].pc = "build" /\ SameUpdate(w)
                  /\ wk'[w].got = LastChange(wk[w].slug)
    BY <1>a DEF Fetch, SameUpdate, Worker
<1>5. Swap(w) => wk'[w].pc = "open" /\ SameUpdate(w)
    BY <1>a DEF Swap, SameUpdate, Worker
<1>6. SwapFails(w) => wk'[w].pc = "close" /\ SameUpdate(w)
    BY <1>a DEF SwapFails, SameUpdate, Worker
<1>7. UpdateFails(w) => wk'[w].pc = "close" /\ SameUpdate(w)
    BY <1>a DEF UpdateFails, SameUpdate, Worker
<1>8. SetOpen(w) => wk'[w].pc = "saveext" /\ SameUpdate(w)
    BY <1>a DEF SetOpen, SetStatus, SameUpdate, Worker
<1>9. SetClosed(w) => wk'[w].pc = "idle"
    BY <1>a DEF SetClosed, SetStatus, IdleWorker
<1>10. SaveExt(w) => wk'[w].pc = "setrev" /\ SameUpdate(w)
    BY <1>a DEF SaveExt, SameUpdate, IdleWorker
<1>11. SetRev(w) => wk'[w].pc = "save" /\ SameUpdate(w)
    BY <1>a DEF SetRev, SameUpdate, Worker
<1>12. SaveBegin(w) => /\ wk'[w].pc = "put" /\ wk'[w].slug = wk[w].slug
                       /\ wk'[w].rev = revision
    BY <1>a DEF SaveBegin, Worker
<1>13. SaveEnd(w) => wk'[w].pc = "idle" /\ wk'[w].rev = 0
    BY <1>a DEF SaveEnd, IdleWorker
<1> QED BY <1>1, <1>2, <1>3, <1>4, <1>5, <1>6, <1>7, <1>8, <1>9, <1>10, <1>11, <1>12, <1>13

\* A step of no worker moves none.
LEMMA QuietWorker ==
    ASSUME [Next]_vars, \A w \in Workers : ~UpdateStep(w) /\ ~SwapFails(w) /\ ~UpdateFails(w),
           ~Restart
    PROVE  wk' = wk
BY DEF Next, Load, LoadStep, LoadExisting, LoadFails, LoadIndexes, FetchList, ListNext,
    StartUpdateWorkers,
       JobStart, JobStep, JobRevision, JobLog, JobQueue, JobFails, Commit, vars

\* A step of one worker leaves the others alone.
LEMMA OthersStay ==
    ASSUME RTypeInv, NEW v \in Workers, UpdateStep(v) \/ SwapFails(v) \/ UpdateFails(v),
           NEW w \in Workers, w # v
    PROVE  wk'[w] = wk[w]
<1>a. wk \in [Workers -> Worker]
    BY DEF RTypeInv, RTypeOK
<1>1. CASE Build(v)
  <2>1. PICK i : wk' = [wk EXCEPT ![v].pc = "swap", ![v].dir = i, ![v].got = 0]
    BY <1>1 DEF Build
  <2> QED BY <1>a, <2>1
<1>2. CASE ~Build(v)
    BY <1>a, <1>2 DEF UpdateStep, Take, Add, Get, Fetch, Swap, SetOpen, SetClosed,
                      SetStatus, SaveExt, SetRev, SaveBegin, SaveEnd, SwapFails, UpdateFails
<1> QED BY <1>1, <1>2

\* A worker is moved by its own steps and by a restart.
LEMMA WorkerSteps ==
    ASSUME RTypeInv, [Next]_vars, ~Restart, NEW w \in Workers
    PROVE  wk'[w] = wk[w] \/ UpdateStep(w) \/ SwapFails(w) \/ UpdateFails(w)
BY OthersStay, QuietWorker

-----------------------------------------------------------------------------
(* The structs, of which there is one for an extension                     *)

\* A worker comes to Add only when the extension is missing, and still then.
SingleInv ==
    /\ \A s \in Slugs : Len(objs[s]) <= 1
    /\ \A w \in Workers : wk[w].pc = "add" => objs[wk[w].slug] = <<>>

\* A list of one struct, as the load and UpdateList make it, and as Add does.
LEMMA OneLong ==
    ASSUME NEW x
    PROVE  Len(<<x>>) = 1 /\ <<x>>[1] = x /\ Append(<<>>, x) = <<x>> /\ Len(<<>>) = 0
OBVIOUS

\* The struct of an extension is the first one.
LEMMA OneStruct ==
    ASSUME RTypeInv, SingleInv, NEW s \in Slugs
    PROVE  /\ Len(objs[s]) \in {0, 1}
           /\ Exists(s) <=> Len(objs[s]) = 1
           /\ Exists(s) => Current(s) = 1 /\ 1 \in DOMAIN objs[s]
           /\ \A w \in Workers : wk[w].pc \in Holding /\ wk[w].slug = s
                                 => wk[w].obj = 1 /\ Exists(s)
<1> DEFINE n == Len(objs[s])
<1>1. objs[s] \in Seq(Extension) /\ n \in Nat /\ DOMAIN objs[s] = 1 .. n
    BY DEF RTypeInv, RTypeOK
<1>2. n <= 1 /\ (Exists(s) <=> n # 0)
    BY <1>1, EmptySeq DEF SingleInv, Exists
<1>3. ASSUME NEW w \in Workers, wk[w].pc \in Holding, wk[w].slug = s
      PROVE  wk[w].obj \in 1 .. n
    BY <1>3 DEF RTypeInv, InHand
<1> HIDE DEF n, Holding
<1>4. n \in {0, 1} /\ (Exists(s) <=> n = 1)
    BY <1>1, <1>2
<1>5. Exists(s) => n = 1 /\ 1 \in DOMAIN objs[s]
    BY <1>1, <1>4
<1>6. ASSUME NEW w \in Workers, wk[w].pc \in Holding, wk[w].slug = s
      PROVE  wk[w].obj = 1 /\ Exists(s)
    BY <1>3, <1>4, <1>6
<1> QED BY <1>4, <1>5, <1>6, Zenon DEF n, Current

\* What a step does to the structs.
LEMMA StructSteps ==
    ASSUME RTypeInv, [Next]_vars
    PROVE  \/ objs' = objs /\ UNCHANGED countVars
           \/ Restart
           \/ Load
           \/ \E s \in Slugs : /\ ListNext(s) /\ ~Exists(s)
                               /\ objs' = [objs EXCEPT ![s] = <<Closed0>>]
                               /\ total' = total + 1 /\ closed' = closed + 1
                               /\ phase = "queue" /\ wk' = wk
           \/ \E w \in Workers : Add(w)
           \/ \E w \in Workers : Swap(w) \/ SwapFails(w)
           \/ \E w \in Workers : SetOpen(w) \/ SetClosed(w)
<1>1. ASSUME NEW s \in Slugs, ListNext(s)
      PROVE  \/ objs' = objs /\ UNCHANGED countVars
             \/ /\ ~Exists(s) /\ objs' = [objs EXCEPT ![s] = <<Closed0>>]
                /\ total' = total + 1 /\ closed' = closed + 1
                /\ phase = "queue" /\ wk' = wk
  <2>1. CASE Exists(s)
    BY <1>1, <2>1 DEF ListNext
  <2>2. CASE ~Exists(s)
    BY <1>1, <2>2 DEF ListNext, Closed0
  <2> QED BY <2>1, <2>2
<1>2. ASSUME \/ FetchList \/ StartUpdateWorkers \/ JobStart \/ JobStep \/ JobFails
             \/ \E s \in Slugs : Commit(s)
             \/ UNCHANGED vars
      PROVE  objs' = objs /\ UNCHANGED countVars
    BY <1>2 DEF FetchList, StartUpdateWorkers, JobStart, JobStep, JobRevision, JobLog,
                JobQueue, JobFails, Commit, vars
<1>3. ASSUME NEW w \in Workers,
             \/ Take(w) \/ Get(w) \/ Fetch(w) \/ Build(w) \/ SaveExt(w) \/ SetRev(w)
             \/ SaveBegin(w) \/ SaveEnd(w) \/ UpdateFails(w)
      PROVE  objs' = objs /\ UNCHANGED countVars
    BY <1>3 DEF Take, Get, Fetch, Build, SaveExt, SetRev, SaveBegin, SaveEnd, UpdateFails
<1> QED BY <1>1, <1>2, <1>3 DEF Next, Load, LoadStep, UpdateStep

\* A worker comes to "add" when it takes the request of an extension that is missing.
LEMMA ToAdd ==
    ASSUME RTypeInv, [Next]_vars, NEW w \in Workers, wk'[w].pc = "add"
    PROVE  \/ wk'[w] = wk[w] /\ phase = "ready"
           \/ objs' = objs /\ ~Exists(wk'[w].slug)
<1>1. ~Restart
    BY DEF Restart, IdleWorker
<1>2. CASE wk'[w] = wk[w]
    BY <1>2 DEF RTypeInv, InHand
<1>3. CASE Take(w)
    BY <1>3, WorkerMoves DEF Take
<1>4. CASE Build(w)
  <2>1. wk'[w].pc = "swap"
    BY <1>4 DEF Build, RTypeInv, RTypeOK, Worker
  <2> QED BY <2>1
<1> QED BY <1>1, <1>2, <1>3, <1>4, WorkerSteps, WorkerMoves DEF UpdateStep

\* There is at most one struct of an extension.
LEMMA SingleStep ==
    ASSUME RTypeInv, RTypeInv', WorkersApart, SingleInv, [Next]_vars
    PROVE  SingleInv'
<1>a. objs \in [Slugs -> Seq(Extension)] /\ \A s \in Slugs : Len(objs[s]) \in Nat
    BY DEF RTypeInv, RTypeOK
<1>1. ASSUME NEW s \in Slugs PROVE Len(objs'[s]) <= 1
  <2> DEFINE n == Len(objs'[s])
             m == Len(objs[s])
  <2>m. m <= 1
    BY DEF SingleInv
  <2>1. CASE objs' = objs
    BY <2>1 DEF SingleInv
  <2>2. CASE Restart
    <3>1. objs'[s] = <<>>
      BY <2>2 DEF Restart
    <3>2. n = 0 \/ n = 1
      BY <3>1, OneLong, Zenon
    <3> HIDE DEF n
    <3>3. n <= 1
      BY <3>2
    <3> QED BY <3>3, Zenon DEF n
  <2>3. CASE Load
    <3>1. \/ objs'[s] = <<>>
          \/ \E x : objs'[s] = <<x>>
      BY <2>3, LoadIs DEF LoadIndexes
    <3>2. n = 0 \/ n = 1
      BY <3>1, OneLong, Zenon
    <3> HIDE DEF n
    <3>3. n <= 1
      BY <3>2
    <3> QED BY <3>3, Zenon DEF n
  <2>4. ASSUME NEW t \in Slugs, objs' = [objs EXCEPT ![t] = <<Closed0>>]
        PROVE  Len(objs'[s]) <= 1
    <3>1. objs'[s] = <<Closed0>> \/ objs'[s] = objs[s]
      BY <2>4, <1>a
    <3>2. n = 1 \/ n = m
      BY <3>1, OneLong, Zenon
    <3> HIDE DEF n, m
    <3>3. n <= 1
      BY <2>m, <3>2
    <3> QED BY <3>3, Zenon DEF n
  <2>5. ASSUME NEW w \in Workers, Add(w) PROVE Len(objs'[s]) <= 1
    <3>1. wk[w].slug \in Slugs /\ objs[wk[w].slug] = <<>>
      BY <2>5 DEF Add, SingleInv, RTypeInv, InHand
    <3>2. objs' = [objs EXCEPT ![wk[w].slug] = Append(@, Closed0)]
      BY <2>5 DEF Add, Closed0
    <3>3. objs'[s] = Append(<<>>, Closed0) \/ objs'[s] = objs[s]
      BY <3>1, <3>2, <1>a
    <3>4. n = 1 \/ n = m
      <4>1. Append(<<>>, Closed0) = <<Closed0>> /\ Len(<<Closed0>>) = 1
        BY OneLong
      <4> QED BY <3>3, <4>1, Zenon
    <3> HIDE DEF n, m
    <3>5. n <= 1
      BY <2>m, <3>4
    <3> QED BY <3>5, Zenon DEF n
  <2>6. ASSUME NEW w \in Workers, Swap(w) \/ SwapFails(w) PROVE Len(objs'[s]) <= 1
    <3>1. /\ wk[w].pc = "swap"
          /\ objs' = [objs EXCEPT ![wk[w].slug][wk[w].obj].dir = wk[w].dir]
      BY <2>6 DEF Swap, SwapFails
    <3> QED BY <3>1, SwappedObjs DEF SingleInv
  <2>7. ASSUME NEW w \in Workers, SetOpen(w) \/ SetClosed(w) PROVE Len(objs'[s]) <= 1
    <3>1. PICK x \in {"open", "closed"} :
              /\ wk[w].pc \in {"open", "close"}
              /\ objs' = [objs EXCEPT ![wk[w].slug][wk[w].obj].status = x]
      BY <2>7 DEF SetOpen, SetClosed, SetStatus
    <3>2. IsStatus(objs', wk[w].slug, wk[w].obj, x)
      BY <3>1, StatusObjs
    <3> QED BY <3>2 DEF SingleInv, IsStatus, IsChanged
  <2> QED BY <2>1, <2>2, <2>3, <2>4, <2>5, <2>6, <2>7, StructSteps
<1>2. ASSUME NEW w \in Workers, wk'[w].pc = "add" PROVE objs'[wk'[w].slug] = <<>>
  <2>1. CASE objs' = objs /\ ~Exists(wk'[w].slug)
    BY <2>1 DEF Exists
  <2>2. CASE wk'[w] = wk[w] /\ phase = "ready"
    <3>1. PICK s \in Slugs : s = wk[w].slug /\ objs[s] = <<>> /\ wk[w].pc = "add"
      BY <1>2, <2>2 DEF SingleInv, RTypeInv, InHand
    <3>2. ~Restart /\ ~Load
      BY <1>2, <2>2 DEF Restart, IdleWorker, Load, LoadExisting, LoadFails, LoadIndexes
    <3>3. ASSUME NEW v \in Workers, Add(v) PROVE objs'[s] = <<>>
      <4>1. v # w
        BY <1>2, <3>3, WorkerMoves
      <4>2. wk[v].pc = "add" /\ wk[v].slug # s /\ wk[v].slug \in Slugs
        BY <3>1, <3>3, <4>1 DEF Add, WorkersApart, RTypeInv, InHand
      <4>3. objs' = [objs EXCEPT ![wk[v].slug] = Append(@, Closed0)]
        BY <3>3 DEF Add, Closed0
      <4> QED BY <1>a, <3>1, <4>2, <4>3
    <3>4. ASSUME NEW v \in Workers, Swap(v) \/ SwapFails(v) \/ SetOpen(v) \/ SetClosed(v)
          PROVE  objs'[s] = <<>>
      <4>1. Len(objs'[s]) = Len(objs[s])
        <5>1. CASE Swap(v) \/ SwapFails(v)
          <6>1. /\ wk[v].pc = "swap"
                /\ objs' = [objs EXCEPT ![wk[v].slug][wk[v].obj].dir = wk[v].dir]
            BY <5>1 DEF Swap, SwapFails
          <6> QED BY <6>1, SwappedObjs
        <5>2. CASE SetOpen(v) \/ SetClosed(v)
          <6>1. PICK x \in {"open", "closed"} :
                    /\ wk[v].pc \in {"open", "close"}
                    /\ objs' = [objs EXCEPT ![wk[v].slug][wk[v].obj].status = x]
            BY <5>2 DEF SetOpen, SetClosed, SetStatus
          <6>2. IsStatus(objs', wk[v].slug, wk[v].obj, x)
            BY <6>1, StatusObjs
          <6> QED BY <6>2 DEF IsStatus, IsChanged
        <5> QED BY <3>4, <5>1, <5>2
      <4>2. objs'[s] \in Seq(Extension) /\ objs[s] \in Seq(Extension)
        BY DEF RTypeInv, RTypeOK
      <4> QED BY <3>1, <4>1, <4>2, EmptySeq
    <3>5. objs'[s] = <<>>
      BY <2>2, <3>1, <3>2, <3>3, <3>4, StructSteps
    <3> QED BY <2>2, <3>1, <3>5
  <2> QED BY <1>2, <2>1, <2>2, ToAdd
<1> QED BY <1>1, <1>2 DEF SingleInv

-----------------------------------------------------------------------------
(* The counters                                                            *)

Listed == {s \in Slugs : Exists(s)}
ClosedOnes == {s \in Listed : objs[s][Current(s)].status = "closed"}

\* The two counters are those of two finite sets.
LEMMA CountersAre ==
    /\ CountersMatchList <=> total = Cardinality(Listed) /\ closed = Cardinality(ClosedOnes)
    /\ IsFiniteSet(Listed) /\ IsFiniteSet(ClosedOnes)
    /\ Cardinality(Listed) \in Nat /\ Cardinality(ClosedOnes) \in Nat
<1>1. IsFiniteSet(Listed) /\ IsFiniteSet(ClosedOnes)
  <2>1. Listed \subseteq Slugs /\ ClosedOnes \subseteq Slugs
    BY DEF Listed, ClosedOnes
  <2> QED BY <2>1, SlugsAssumption, FS_Subset
<1>2. CountersMatchList <=> total = Cardinality(Listed) /\ closed = Cardinality(ClosedOnes)
    BY DEF CountersMatchList, Listed, ClosedOnes
<1> QED BY <1>1, <1>2, FS_CardinalityType

\* A new struct is closed and counts twice.
LEMMA AddCounts ==
    ASSUME CountersMatchList, NEW s \in Slugs, ~Exists(s),
           total' = total + 1, closed' = closed + 1,
           Listed' = Listed \cup {s}, ClosedOnes' = ClosedOnes \cup {s}
    PROVE  CountersMatchList'
<1>1. s \notin Listed /\ s \notin ClosedOnes
    BY DEF Listed, ClosedOnes
<1>2. /\ Cardinality(Listed \cup {s}) = Cardinality(Listed) + 1
      /\ Cardinality(ClosedOnes \cup {s}) = Cardinality(ClosedOnes) + 1
    BY <1>1, CountersAre, FS_AddElement
<1>3. total' = Cardinality(Listed') /\ closed' = Cardinality(ClosedOnes')
    BY <1>2, CountersAre
<1> QED BY <1>3 DEF CountersMatchList, Listed, ClosedOnes

\* A status that is set moves the second counter if it is another one.
LEMMA StatusCounts ==
    ASSUME CountersMatchList, NEW s \in Slugs, Exists(s), NEW x \in {"open", "closed"},
           total' = total, closed' = ClosedAfter(objs[s][Current(s)].status, x),
           Listed' = Listed,
           ClosedOnes' = IF x = "closed" THEN ClosedOnes \cup {s} ELSE ClosedOnes \ {s}
    PROVE  CountersMatchList'
<1> DEFINE old == objs[s][Current(s)].status
<1>1. s \in ClosedOnes <=> old = "closed"
    BY DEF ClosedOnes, Listed
<1> HIDE DEF old
<1>2. /\ s \notin ClosedOnes => Cardinality(ClosedOnes \cup {s}) = Cardinality(ClosedOnes) + 1
      /\ s \in ClosedOnes => Cardinality(ClosedOnes \ {s}) = Cardinality(ClosedOnes) - 1
    BY CountersAre, FS_AddElement, FS_RemoveElement
<1>3. /\ s \in ClosedOnes => ClosedOnes \cup {s} = ClosedOnes
      /\ s \notin ClosedOnes => ClosedOnes \ {s} = ClosedOnes
    OBVIOUS
<1>4. closed' = (closed - (IF old = "closed" THEN 1 ELSE 0)) + (IF x = "closed" THEN 1 ELSE 0)
    BY DEF old, ClosedAfter
<1>5. closed = Cardinality(ClosedOnes) /\ Cardinality(ClosedOnes) \in Nat
      /\ total = Cardinality(Listed)
    BY CountersAre
<1>6. closed' = Cardinality(ClosedOnes')
  <2>1. CASE x = "closed"
    BY <2>1, <1>1, <1>2, <1>3, <1>4, <1>5
  <2>2. CASE x = "open" /\ s \in ClosedOnes
    <3>1. ClosedOnes' = ClosedOnes \ {s} /\ closed' = closed - 1
      BY <2>2, <1>1, <1>4, <1>5
    <3> QED BY <2>2, <3>1, <1>2, <1>5
  <2>3. CASE x = "open" /\ s \notin ClosedOnes
    <3>1. ClosedOnes' = ClosedOnes /\ closed' = closed
      BY <2>3, <1>1, <1>3, <1>4, <1>5
    <3> QED BY <3>1, <1>5
  <2> QED BY <2>1, <2>2, <2>3
<1>7. total' = Cardinality(Listed')
    BY <1>5
<1> QED BY <1>6, <1>7 DEF CountersMatchList, Listed, ClosedOnes

\* The list and the status of an extension after a step are read off its struct.
LEMMA ListedNext ==
    /\ Listed' = {s \in Slugs : objs'[s] # <<>>}
    /\ ClosedOnes' = {s \in Slugs : objs'[s] # <<>> /\ objs'[s][Len(objs'[s])].status = "closed"}
    /\ ClosedOnes = {s \in Slugs : objs[s] # <<>> /\ objs[s][Len(objs[s])].status = "closed"}
    /\ Listed = {s \in Slugs : objs[s] # <<>>}
BY DEF Listed, ClosedOnes, Exists, Current

\* The counters are those of the list after every step.
LEMMA CountersStep ==
    ASSUME RTypeInv, RTypeInv', SingleInv, CountersMatchList, [Next]_vars
    PROVE  CountersMatchList'
<1>a. objs \in [Slugs -> Seq(Extension)]
    BY DEF RTypeInv, RTypeOK
<1>1. CASE objs' = objs /\ UNCHANGED countVars
    BY <1>1 DEF CountersMatchList, Exists, Current, countVars
<1>2. CASE Restart
  <2>1. Listed' = {} /\ ClosedOnes' = {} /\ total' = 0 /\ closed' = 0
    BY <1>2, ListedNext DEF Restart
  <2> QED BY <2>1, FS_EmptySet DEF CountersMatchList, Listed, ClosedOnes
<1>3. CASE Load
  <2>1. PICK kept \in SUBSET KeptDirs, rest \in SUBSET disk : LoadIndexes(kept, rest)
    BY <1>3, LoadIs
  <2> DEFINE without == {s \in dbExts : \A d \in kept : d.slug # s}
  <2>2. \A s : Loaded(kept, s).status = "closed" <=> \A d \in kept : d.slug # s
    BY DEF Loaded
  <2>3. dbExts \subseteq Slugs
    BY DEF RTypeInv, RTypeOK
  <2>4. \A s \in Slugs : objs'[s] = IF s \in dbExts THEN <<Loaded(kept, s)>> ELSE <<>>
    BY <2>1 DEF LoadIndexes
  <2>5. ASSUME NEW s \in dbExts PROVE objs'[s][Len(objs'[s])] = Loaded(kept, s)
    <3> DEFINE x == Loaded(kept, s)
    <3>1. objs'[s] = <<x>>
      BY <2>3, <2>4
    <3> HIDE DEF x
    <3>2. Len(objs'[s]) = 1 /\ objs'[s][1] = x
      BY <3>1
    <3>3. objs'[s][Len(objs'[s])] = x
      BY <3>2
    <3> QED BY <3>3, Zenon DEF x
  <2>6. Listed' = dbExts /\ ClosedOnes' = without
    <3>1. ASSUME NEW s \in Slugs PROVE objs'[s] # <<>> <=> s \in dbExts
      <4> DEFINE x == Loaded(kept, s)
      <4>1. objs'[s] = IF s \in dbExts THEN <<x>> ELSE <<>>
        BY <2>4
      <4> HIDE DEF x
      <4> QED BY <4>1
    <3>2. \A s \in dbExts : objs'[s][Len(objs'[s])].status = "closed" <=> s \in without
      BY <2>2, <2>5
    <3> HIDE DEF without
    <3>3. without \subseteq dbExts
      BY DEF without
    <3> QED BY <2>3, <3>1, <3>2, <3>3, ListedNext
  <2>7. total' = Cardinality(Listed') /\ closed' = Cardinality(ClosedOnes')
    BY <2>1, <2>6 DEF LoadIndexes
  <2> QED BY <2>7 DEF CountersMatchList, Listed, ClosedOnes
<1>4. ASSUME NEW s \in Slugs, ~Exists(s), objs' = [objs EXCEPT ![s] = <<Closed0>>],
             total' = total + 1, closed' = closed + 1
      PROVE  CountersMatchList'
  <2>1. /\ objs[s] = <<>> /\ objs'[s] = <<Closed0>>
        /\ \A t \in Slugs \ {s} : objs'[t] = objs[t]
    BY <1>a, <1>4 DEF Exists
  <2>2. objs'[s] # <<>> /\ objs'[s][Len(objs'[s])].status = "closed"
    BY <2>1, OneLong DEF Closed0
  <2>3. Listed' = Listed \cup {s} /\ ClosedOnes' = ClosedOnes \cup {s}
    BY <2>1, <2>2, ListedNext
  <2> QED BY <1>4, <2>3, AddCounts
<1>5. ASSUME NEW w \in Workers, Add(w) PROVE CountersMatchList'
  <2>1. wk[w].slug \in Slugs /\ objs[wk[w].slug] = <<>>
    BY <1>5 DEF Add, SingleInv, RTypeInv, InHand
  <2>2. /\ objs' = [objs EXCEPT ![wk[w].slug] = Append(@, Closed0)]
        /\ total' = total + 1 /\ closed' = closed + 1
    BY <1>5 DEF Add, Closed0
  <2>3. objs' = [objs EXCEPT ![wk[w].slug] = <<Closed0>>]
    BY <1>a, <2>1, <2>2, OneLong
  <2> QED BY <1>4, <2>1, <2>2, <2>3 DEF Exists
<1>6. ASSUME NEW w \in Workers, Swap(w) \/ SwapFails(w) PROVE CountersMatchList'
  <2>1. /\ wk[w].pc = "swap" /\ UNCHANGED countVars
        /\ objs' = [objs EXCEPT ![wk[w].slug][wk[w].obj].dir = wk[w].dir]
    BY <1>6 DEF Swap, SwapFails
  <2>2. /\ \A t \in Slugs : Len(objs'[t]) = Len(objs[t])
        /\ \A t \in Slugs : \A l \in 1..Len(objs[t]) : objs'[t][l].status = objs[t][l].status
    <3>1. /\ objs' \in [Slugs -> Seq(Extension)]
          /\ \A t \in Slugs : Len(objs'[t]) = Len(objs[t])
          /\ \A t \in Slugs : \A l \in 1..Len(objs[t]) :
                 objs'[t][l] = IF t = wk[w].slug /\ l = wk[w].obj
                               THEN [objs[t][l] EXCEPT !.dir = wk[w].dir]
                               ELSE objs[t][l]
      BY <2>1, SwappedObjs
    <3>2. \A t \in Slugs : \A l \in 1..Len(objs[t]) : objs[t][l] \in Extension
      BY <1>a, ElementOfSeq
    <3>3. \A i : \A x \in Extension : [x EXCEPT !.dir = i].status = x.status
      BY DEF Extension
    <3>4. ASSUME NEW t \in Slugs, NEW l \in 1..Len(objs[t])
          PROVE  objs'[t][l].status = objs[t][l].status
      <4>1. objs'[t][l] = [objs[t][l] EXCEPT !.dir = wk[w].dir] \/ objs'[t][l] = objs[t][l]
        BY <3>1
      <4>2. objs[t][l] \in Extension
        BY <3>2
      <4>3. [objs[t][l] EXCEPT !.dir = wk[w].dir].status = objs[t][l].status
        BY <3>3, <4>2
      <4> QED BY <4>1, <4>3, Zenon
    <3> QED BY <3>1, <3>4
  <2>3. \A t \in Slugs : /\ (objs'[t] # <<>> <=> objs[t] # <<>>)
                         /\ objs[t] # <<>> => Len(objs[t]) \in 1 .. Len(objs[t])
    <3>1. \A t \in Slugs : objs'[t] \in Seq(Extension) /\ objs[t] \in Seq(Extension)
      BY DEF RTypeInv, RTypeOK
    <3> QED BY <2>2, <3>1, EmptySeq, LenProperties
  <2>4. Listed' = Listed /\ ClosedOnes' = ClosedOnes
    BY <2>2, <2>3, ListedNext
  <2>5. total' = Cardinality(Listed') /\ closed' = Cardinality(ClosedOnes')
    BY <2>1, <2>4, CountersAre DEF countVars
  <2> QED BY <2>5 DEF CountersMatchList, Listed, ClosedOnes
<1>7. ASSUME NEW w \in Workers, SetOpen(w) \/ SetClosed(w) PROVE CountersMatchList'
  <2> DEFINE s == wk[w].slug
             k == wk[w].obj
  <2>1. PICK x \in {"open", "closed"} :
            /\ wk[w].pc \in {"open", "close"}
            /\ objs' = [objs EXCEPT ![s][k].status = x]
            /\ closed' = ClosedAfter(objs[s][k].status, x) /\ total' = total
    BY <1>7 DEF SetOpen, SetClosed, SetStatus
  <2>2. IsStatus(objs', s, k, x)
    BY <2>1, StatusObjs
  <2>3. s \in Slugs
    BY <2>1, StructInHand DEF Holding
  <2>4. k = 1 /\ Exists(s) /\ Current(s) = 1 /\ 1 \in DOMAIN objs[s]
    BY <2>1, <2>3, OneStruct DEF Holding
  <2> HIDE DEF s, k
  <2>5. PICK e \in Extension : e.status = x /\ IsChanged(objs', objs, s, k, e)
    BY <2>2 DEF IsStatus
  <2>6. /\ \A t \in Slugs : Len(objs'[t]) = Len(objs[t])
        /\ \A t \in Slugs : \A l \in 1..Len(objs[t]) :
              objs'[t][l] = IF t = s /\ l = k THEN e ELSE objs[t][l]
    BY <2>5 DEF IsChanged
  <2>7. \A t \in Slugs : /\ (objs'[t] # <<>> <=> objs[t] # <<>>)
                         /\ objs[t] # <<>> => Len(objs[t]) \in 1 .. Len(objs[t])
    <3>1. \A t \in Slugs : objs'[t] \in Seq(Extension) /\ objs[t] \in Seq(Extension)
      BY DEF RTypeInv, RTypeOK
    <3> QED BY <2>6, <3>1, EmptySeq, LenProperties
  <2>8. objs'[s][Len(objs'[s])].status = x /\ objs'[s] # <<>>
    BY <2>3, <2>4, <2>5, <2>6, <2>7 DEF Current, Exists
  <2>9. \A t \in Slugs \ {s} : objs[t] # <<>> => objs'[t][Len(objs'[t])] = objs[t][Len(objs[t])]
    BY <2>6, <2>7
  <2>10. /\ Listed' = Listed
         /\ ClosedOnes' = IF x = "closed" THEN ClosedOnes \cup {s} ELSE ClosedOnes \ {s}
    <3>1. Listed' = Listed
      BY <2>7, ListedNext
    <3>2. CASE x = "closed"
      BY <3>2, <2>3, <2>7, <2>8, <2>9, ListedNext
    <3>3. CASE x = "open"
      BY <3>3, <2>3, <2>7, <2>8, <2>9, ListedNext
    <3> QED BY <3>1, <3>2, <3>3
  <2>11. closed' = ClosedAfter(objs[s][Current(s)].status, x)
    BY <2>1, <2>4
  <2> QED BY <2>1, <2>3, <2>4, <2>10, <2>11, StatusCounts
<1> QED BY <1>1, <1>2, <1>3, <1>4, <1>5, <1>6, <1>7, StructSteps

\* While the workers keep apart: types, structs and counters.
LEMMA SingleAlways ==
    Spec /\ []WorkersApart => [](RTypeInv /\ IndexInv /\ SingleInv /\ CountersMatchList)
<1>1. Init => SingleInv /\ CountersMatchList
  <2> SUFFICES ASSUME Init PROVE SingleInv /\ CountersMatchList
    OBVIOUS
  <2>1. /\ \A s \in Slugs : objs[s] = <<>> /\ Len(objs[s]) = 0
        /\ \A w \in Workers : wk[w].pc # "add"
    BY OneLong DEF Init, IdleWorker
  <2>2. Listed = {} /\ ClosedOnes = {}
    BY <2>1 DEF Listed, ClosedOnes, Exists
  <2> QED BY <2>1, <2>2, CountersAre, FS_EmptySet DEF Init, SingleInv
<1>2. /\ RTypeInv /\ RTypeInv' /\ WorkersApart /\ SingleInv /\ CountersMatchList
      /\ [Next]_vars
      => SingleInv' /\ CountersMatchList'
    BY SingleStep, CountersStep
<1> QED BY <1>1, <1>2, IndexCorrect, PTL DEF Spec

\* While the workers keep apart Total and Closed, which Add and SetStatus count up and
\* down, are at every moment the numbers of the extensions in the list and of the closed
\* ones.
THEOREM CountersAreRight == Spec /\ []WorkersApart => []CountersMatchList
BY SingleAlways, PTL
-----------------------------------------------------------------------------
(* The order of the files                                                  *)

\* The directories of an extension are the newer the later they were built, and the
\* worker has nothing older in its hands than what is on disk.
VersionsExist == \A d \in disk : d.ver <= LastChange(d.slug)
LaterIsNewer == \A d, e \in disk : d.slug = e.slug /\ d.id <= e.id => d.ver <= e.ver
FetchedIsNewest ==
    \A w \in Workers : wk[w].pc = "build" =>
        /\ wk[w].got <= LastChange(wk[w].slug)
        /\ \A d \in disk : d.slug = wk[w].slug => d.ver <= wk[w].got
BuiltIsNewest ==
    \A w \in Workers : wk[w].pc = "swap" =>
        \A d, e \in disk : d.id = wk[w].dir /\ e.slug = wk[w].slug => e.ver <= d.ver

NewestInv == VersionsExist /\ LaterIsNewer /\ FetchedIsNewest /\ BuiltIsNewest

\* Directories are made by Build only, and removed by Swap and at the start only.
LEMMA DiskSteps ==
    ASSUME [Next]_vars
    PROVE  \/ disk' = disk
           \/ Load /\ disk' \subseteq disk
           \/ \E w \in Workers : Swap(w) /\ disk' \subseteq disk
           \/ \E w \in Workers : Build(w)
<1>1. ASSUME NEW w \in Workers, Swap(w) PROVE disk' \subseteq disk
    BY <1>1 DEF Swap, Without
<1>2. ASSUME Load PROVE disk' \subseteq disk
    BY <1>2, LoadIs DEF LoadIndexes, KeptDirs
<1>3. ASSUME NEW w \in Workers,
             \/ Take(w) \/ Add(w) \/ Get(w) \/ Fetch(w) \/ SetOpen(w) \/ SetClosed(w)
             \/ SaveExt(w) \/ SetRev(w) \/ SaveBegin(w) \/ SaveEnd(w)
             \/ SwapFails(w) \/ UpdateFails(w)
      PROVE  disk' = disk
    BY <1>3 DEF Take, Add, Get, Fetch, SetOpen, SetClosed, SetStatus, SaveExt, SetRev,
                SaveBegin, SaveEnd, SwapFails, UpdateFails
<1>4. ASSUME \/ FetchList \/ StartUpdateWorkers \/ JobStart \/ JobStep \/ JobFails
             \/ Restart \/ (\E s \in Slugs : Commit(s) \/ ListNext(s))
             \/ UNCHANGED vars
      PROVE  disk' = disk
    BY <1>4 DEF FetchList, StartUpdateWorkers, JobStart, JobStep, JobRevision, JobLog,
                JobQueue, JobFails, Restart, Commit, ListNext, vars
<1> QED BY <1>1, <1>2, <1>3, <1>4 DEF Next, Load, LoadStep, UpdateStep

\* What Build makes.
LEMMA BuildMakes ==
    ASSUME RTypeInv, NEW w \in Workers, Build(w)
    PROVE  \E n \in disk' :
               /\ wk[w].pc = "build" /\ wk'[w].pc = "swap" /\ SameUpdate(w)
               /\ n.id = wk'[w].dir /\ n.slug = wk[w].slug /\ n.ver = wk[w].got
               /\ disk' = disk \cup {n} /\ \A d \in disk : d.id < n.id
<1>1. PICK i \in Dirs :
          /\ \A d \in disk : d.id < i
          /\ disk' = disk \cup {[id |-> i, slug |-> wk[w].slug, ver |-> wk[w].got]}
          /\ wk' = [wk EXCEPT ![w].pc = "swap", ![w].dir = i, ![w].got = 0]
          /\ wk[w].pc = "build"
    BY DEF Build, IsNewDir
<1> DEFINE n == [id |-> i, slug |-> wk[w].slug, ver |-> wk[w].got]
<1>2. n \in disk' /\ n.id = i /\ n.slug = wk[w].slug /\ n.ver = wk[w].got
      /\ disk' = disk \cup {n}
    BY <1>1
<1>3. wk'[w].pc = "swap" /\ wk'[w].dir = i /\ SameUpdate(w)
    BY <1>1 DEF RTypeInv, RTypeOK, Worker, SameUpdate
<1> HIDE DEF n
<1> QED BY <1>1, <1>2, <1>3

\* A worker comes to "build" by Fetch and to "swap" by Build.
LEMMA ToBuild ==
    ASSUME RTypeInv, [Next]_vars, NEW w \in Workers, wk'[w].pc \in {"build", "swap"}
    PROVE  wk'[w] = wk[w] \/ Fetch(w) \/ Build(w)
<1>1. ~Restart
    BY DEF Restart, IdleWorker
<1> QED BY <1>1, WorkerSteps, WorkerMoves DEF UpdateStep

\* An archive that is fetched is the newest there is, and stays so until it is
\* built, for nobody else builds an index of its extension.
LEMMA NewestStep ==
    ASSUME RTypeInv, IndexInv, WorkersApart, NewestInv, [Next]_vars
    PROVE  NewestInv'
<1>t. /\ \A d \in disk : d.ver \in Nat /\ d.id \in Nat /\ d.slug \in Slugs
      /\ \A s \in Slugs : LastChange(s) \in Nat
      /\ wk \in [Workers -> Worker] /\ \A w \in Workers : wk[w].got \in Nat
  <2>1. \A d \in disk : d.ver \in Nat /\ d.id \in Nat /\ d.slug \in Slugs
    BY RepoBounds DEF RTypeInv, RTypeOK, Dirs, Revs
  <2>2. wk \in [Workers -> Worker] /\ \A w \in Workers : wk[w].got \in Nat
    BY RepoBounds DEF RTypeInv, RTypeOK, Worker, Revs
  <2>3. \A s \in Slugs : LastChange(s) \in Nat
    BY LastBound
  <2> QED BY <2>1, <2>2, <2>3
<1>g. \A s \in Slugs : LastChange(s)' \in Nat /\ LastChange(s) <= LastChange(s)'
  <2> SUFFICES ASSUME NEW s \in Slugs
               PROVE  LastChange(s)' \in Nat /\ LastChange(s) <= LastChange(s)'
    OBVIOUS
  <2>1. LastChange(s)' \in 0 .. Len(log') /\ Len(log') \in Nat
    <3>1. log' \in Seq(Slugs)
      BY RTypeInvStep DEF RTypeInv, RTypeOK
    <3> QED BY <3>1, LastOfIs, LastIs
  <2>2. LastChange(s)' >= LastChange(s)
    BY LastGrows
  <2> QED BY <1>t, <2>1, <2>2
<1>w. \A w \in Workers : wk[w].pc \in {"build", "swap"} => wk[w].slug \in Slugs
    BY DEF RTypeInv, InHand
<1>1. CASE disk' \subseteq disk /\ \A w \in Workers : ~Build(w)
  <2>1. VersionsExist'
    <3> SUFFICES ASSUME NEW d \in disk' PROVE d.ver <= LastChange(d.slug)'
      BY DEF VersionsExist
    <3>1. d \in disk /\ d.slug \in Slugs /\ d.ver <= LastChange(d.slug)
      BY <1>1, <1>t DEF NewestInv, VersionsExist
    <3> QED BY <3>1, <1>t, <1>g
  <2>2. LaterIsNewer'
    BY <1>1 DEF NewestInv, LaterIsNewer
  <2>3. ASSUME NEW w \in Workers, wk'[w].pc = "build"
        PROVE  /\ wk'[w].got <= LastChange(wk[w].slug)'
               /\ \A d \in disk' : d.slug = wk'[w].slug => d.ver <= wk'[w].got
    <3>1. CASE wk'[w] = wk[w]
      <4>1. wk[w].pc = "build"
        BY <2>3, <3>1
      <4>2. PICK s \in Slugs, g \in Nat : s = wk[w].slug /\ g = wk[w].got
        BY <4>1, <1>w, <1>t
      <4>3. g <= LastChange(s) /\ \A d \in disk : d.slug = s => d.ver <= g
        BY <4>1, <4>2 DEF NewestInv, FetchedIsNewest
      <4>4. g <= LastChange(s)'
        BY <4>3, <1>t, <1>g
      <4>5. \A d \in disk' : d.slug = s => d.ver <= g
        BY <1>1, <4>3
      <4>6. wk'[w].slug = s /\ wk'[w].got = g
        BY <3>1, <4>2
      <4> QED BY <4>4, <4>5, <4>6
    <3>2. CASE Fetch(w)
      <4>1. PICK s \in Slugs : s = wk[w].slug
        BY <3>2 DEF Fetch, RTypeInv, InHand
      <4>2. wk'[w].slug = s /\ wk'[w].got = LastChange(s) /\ log' = log
        BY <3>2, <4>1, WorkerMoves DEF Fetch, SameUpdate
      <4>3. LastChange(s)' = LastChange(s) /\ LastChange(s) \in Nat
        BY <4>2, LastIs, <1>t
      <4>4. ASSUME NEW d \in disk', d.slug = s PROVE d.ver <= LastChange(s)
        <5>1. d \in disk
          BY <1>1
        <5>2. d.ver <= LastChange(d.slug)
          BY <5>1 DEF NewestInv, VersionsExist
        <5> QED BY <4>4, <5>2
      <4>5. wk'[w].got <= LastChange(s)'
        BY <4>2, <4>3
      <4> QED BY <4>2, <4>4, <4>5
    <3> QED BY <1>1, <2>3, <3>1, <3>2, ToBuild
  <2>4. ASSUME NEW w \in Workers, wk'[w].pc = "swap"
        PROVE  \A d, e \in disk' : d.id = wk'[w].dir /\ e.slug = wk'[w].slug => e.ver <= d.ver
    <3>1. ~Fetch(w)
      BY <2>4, WorkerMoves
    <3>2. wk'[w] = wk[w]
      BY <1>1, <2>4, <3>1, ToBuild
    <3>3. \A d, e \in disk : d.id = wk[w].dir /\ e.slug = wk[w].slug => e.ver <= d.ver
      BY <2>4, <3>2 DEF NewestInv, BuiltIsNewest
    <3>4. disk' \subseteq disk /\ wk'[w].dir = wk[w].dir /\ wk'[w].slug = wk[w].slug
      BY <1>1, <3>2
    <3> QED BY <3>3, <3>4
  <2> QED BY <2>1, <2>2, <2>3, <2>4 DEF NewestInv, FetchedIsNewest, BuiltIsNewest
<1>2. ASSUME NEW w \in Workers, Build(w) PROVE NewestInv'
  <2>1. PICK n \in disk' :
            /\ wk[w].pc = "build" /\ wk'[w].pc = "swap" /\ SameUpdate(w)
            /\ n.id = wk'[w].dir /\ n.slug = wk[w].slug /\ n.ver = wk[w].got
            /\ disk' = disk \cup {n} /\ \A d \in disk : d.id < n.id
    BY <1>2, BuildMakes
  <2>2. wk'[w].slug = n.slug /\ log' = log
    BY <1>2, <2>1 DEF Build, SameUpdate
  <2>v. ASSUME NEW v \in Workers, v # w, wk'[v].pc \in {"build", "swap"}
        PROVE  wk'[v] = wk[v] /\ wk[v].slug # n.slug
    <3>1. wk'[v] = wk[v]
      BY <1>2, <2>v, OthersStay DEF UpdateStep
    <3> QED BY <2>1, <2>v, <3>1 DEF WorkersApart
  <2>3. LastChange(n.slug)' = LastChange(n.slug)
        /\ \A d \in disk : LastChange(d.slug)' = LastChange(d.slug)
    BY <2>2, LastIs
  <2>4. n.ver <= LastChange(n.slug)
    BY <2>1 DEF NewestInv, FetchedIsNewest
  <2>5. \A d \in disk : d.slug = n.slug => d.ver <= n.ver
    BY <2>1 DEF NewestInv, FetchedIsNewest
  <2>6. n.id \in Nat /\ n.ver \in Nat
    <3>1. n \in [id : Dirs, slug : Slugs, ver : Revs]
      BY <2>1, RTypeInvStep DEF RTypeInv, RTypeOK
    <3> QED BY <3>1, RepoBounds DEF Dirs, Revs
  <2>7. VersionsExist'
    <3> SUFFICES ASSUME NEW d \in disk' PROVE d.ver <= LastChange(d.slug)'
      BY DEF VersionsExist
    <3>1. CASE d = n
      BY <3>1, <2>3, <2>4
    <3>2. CASE d \in disk
      BY <3>2, <2>3 DEF NewestInv, VersionsExist
    <3> QED BY <2>1, <3>1, <3>2
  <2>8. LaterIsNewer'
    <3> SUFFICES ASSUME NEW d \in disk', NEW e \in disk', d.slug = e.slug, d.id <= e.id
                 PROVE  d.ver <= e.ver
      BY DEF LaterIsNewer
    <3>1. CASE d \in disk /\ e \in disk
      BY <3>1 DEF NewestInv, LaterIsNewer
    <3>2. CASE e = n
      BY <2>1, <2>5, <2>6, <3>2
    <3>3. CASE d = n /\ e \in disk
      <4>1. e.id < n.id /\ e.id \in Nat
        BY <2>1, <3>3, <1>t
      <4> QED BY <2>6, <3>3, <4>1
    <3> QED BY <2>1, <3>1, <3>2, <3>3
  <2>9. ASSUME NEW d \in disk', NEW e \in disk', d.id = wk'[w].dir, e.slug = wk'[w].slug
        PROVE  e.ver <= d.ver
    <3>1. d = n
      <4>1. d.id = n.id
        BY <2>1, <2>9
      <4>2. d \in disk => d.id < n.id /\ d.id \in Nat
        BY <2>1, <1>t
      <4> QED BY <2>1, <2>6, <4>1, <4>2
    <3>2. CASE e = n
      BY <2>6, <3>1, <3>2
    <3>3. CASE e \in disk
      BY <2>2, <2>5, <2>9, <3>1, <3>3
    <3> QED BY <2>1, <3>2, <3>3
  <2>10. FetchedIsNewest'
    <3> SUFFICES ASSUME NEW v \in Workers, wk'[v].pc = "build"
                 PROVE  /\ wk'[v].got <= LastChange(wk[v].slug)'
                        /\ wk'[v].slug = wk[v].slug
                        /\ \A d \in disk' : d.slug = wk[v].slug => d.ver <= wk'[v].got
      BY DEF FetchedIsNewest
    <3>1. wk'[v] = wk[v] /\ wk[v].slug # n.slug
      BY <2>1, <2>v
    <3>2. /\ wk[v].got <= LastChange(wk[v].slug)
          /\ \A d \in disk : d.slug = wk[v].slug => d.ver <= wk[v].got
      BY <3>1 DEF NewestInv, FetchedIsNewest
    <3>3. LastChange(wk[v].slug)' = LastChange(wk[v].slug)
      BY <2>2, <3>1, LastIs
    <3> QED BY <2>1, <3>1, <3>2, <3>3
  <2>11. BuiltIsNewest'
    <3> SUFFICES ASSUME NEW v \in Workers, wk'[v].pc = "swap",
                        NEW d \in disk', NEW e \in disk',
                        d.id = wk'[v].dir, e.slug = wk'[v].slug
                 PROVE  e.ver <= d.ver
      BY DEF BuiltIsNewest
    <3>1. CASE v = w
      BY <3>1, <2>9
    <3>2. CASE v # w
      <4>1. wk'[v] = wk[v] /\ wk[v].slug # n.slug
        BY <2>v, <3>2
      <4>2. e \in disk
        BY <2>1, <4>1
      <4>3. d \in disk
        <5>1. PICK c \in disk : c.id = wk[v].dir
          BY <4>1 DEF IndexInv, BuiltIsOwn
        <5>2. c.id < n.id /\ c.id \in Nat /\ d.id = c.id
          BY <2>1, <1>t, <4>1, <5>1
        <5>3. d # n
          BY <2>6, <5>2
        <5> QED BY <2>1, <5>3
      <4> QED BY <4>1, <4>2, <4>3 DEF NewestInv, BuiltIsNewest
    <3> QED BY <3>1, <3>2
  <2> QED BY <2>7, <2>8, <2>10, <2>11 DEF NewestInv
<1> QED BY <1>1, <1>2, DiskSteps
-----------------------------------------------------------------------------
(* The files that are searched                                             *)

\* The directory of the last struct of a list, and the version in a directory.
DirIn(q) == IF q # <<>> THEN q[Len(q)].dir ELSE 0
VersionOf(D, i) == (CHOOSE d \in D : d.id = i).ver

\* Directories have their names for themselves.
LEMMA VersionIs ==
    ASSUME NEW D, \A d, e \in D : d.id = e.id => d = e, NEW d \in D
    PROVE  VersionOf(D, d.id) = d.ver
<1>1. (CHOOSE e \in D : e.id = d.id) = d
    OBVIOUS
<1> QED BY <1>1 DEF VersionOf

\* DirOf and Version before and after a step.
LEMMA DirIs ==
    ASSUME NEW s
    PROVE  /\ DirOf(s) = DirIn(objs[s]) /\ DirOf(s)' = DirIn(objs'[s])
           /\ Version(s) = VersionOf(disk, DirOf(s))
           /\ Version(s)' = VersionOf(disk', DirOf(s)')
BY DEF DirOf, DirIn, Exists, Current, Version, VersionOf

\* A list of one struct.
LEMMA DirInOne == DirIn(<<>>) = 0 /\ \A x : DirIn(<<x>>) = x.dir
<1>1. DirIn(<<>>) = 0
    BY DEF DirIn
<1>2. ASSUME NEW x PROVE DirIn(<<x>>) = x.dir
  <2>1. <<x>> # <<>> /\ <<x>>[Len(<<x>>)] = x
    BY OneLong
  <2> QED BY <2>1 DEF DirIn
<1> QED BY <1>1, <1>2

\* SwapIndexes changes what is searched of its extension.
LEMMA SwapDir ==
    ASSUME RTypeInv, SingleInv, NEW w \in Workers, Swap(w) \/ SwapFails(w), NEW s \in Slugs
    PROVE  DirOf(s)' = IF wk[w].slug = s THEN wk[w].dir ELSE DirOf(s)
<1>a. objs \in [Slugs -> Seq(Extension)] /\ DirOf(s) = DirIn(objs[s])
      /\ DirOf(s)' = DirIn(objs'[s])
    BY DirIs DEF RTypeInv, RTypeOK
<1>1. /\ wk[w].pc = "swap"
      /\ objs' = [objs EXCEPT ![wk[w].slug][wk[w].obj].dir = wk[w].dir]
    BY DEF Swap, SwapFails
<1>2. /\ objs' \in [Slugs -> Seq(Extension)]
      /\ Len(objs'[s]) = Len(objs[s])
      /\ \A l \in 1..Len(objs[s]) :
            objs'[s][l] = IF s = wk[w].slug /\ l = wk[w].obj
                          THEN [objs[s][l] EXCEPT !.dir = wk[w].dir]
                          ELSE objs[s][l]
    BY <1>1, SwappedObjs
<1>3. objs[s] # <<>> => Len(objs[s]) \in 1 .. Len(objs[s])
    BY <1>a, EmptySeq, LenProperties
<1>4. objs'[s] # <<>> <=> objs[s] # <<>>
    BY <1>a, <1>2, EmptySeq, LenProperties
<1>5. CASE s # wk[w].slug
  <2>1. DirIn(objs'[s]) = DirIn(objs[s])
    BY <1>5, <1>2, <1>3, <1>4 DEF DirIn
  <2> QED BY <1>5, <2>1, <1>a
<1>6. CASE s = wk[w].slug
  <2>1. wk[w].obj = Len(objs[s]) /\ objs[s] # <<>>
    <3>1. wk[w].obj = 1 /\ Exists(s) /\ Current(s) = 1
      BY <1>1, <1>6, OneStruct DEF Holding
    <3> QED BY <3>1 DEF Current, Exists
  <2>2. objs'[s][Len(objs[s])] = [objs[s][Len(objs[s])] EXCEPT !.dir = wk[w].dir]
    BY <1>2, <1>3, <1>6, <2>1
  <2>3. objs[s][Len(objs[s])] \in Extension
    BY <1>a, <1>3, <2>1, ElementOfSeq
  <2>4. \A i : \A x \in Extension : [x EXCEPT !.dir = i].dir = i
    BY DEF Extension
  <2>5. DirIn(objs'[s]) = wk[w].dir
    BY <1>2, <1>4, <2>1, <2>2, <2>3, <2>4 DEF DirIn
  <2> QED BY <1>6, <2>5, <1>a
<1> QED BY <1>5, <1>6

\* What is searched changes by SwapIndexes only, once the process is up.
LEMMA DirSteps ==
    ASSUME RTypeInv, SingleInv, [Next]_vars, NEW s \in Slugs, ~Load
    PROVE  \/ DirOf(s)' = DirOf(s)
           \/ Restart /\ DirOf(s)' = 0
           \/ \E w \in Workers : /\ Swap(w) \/ SwapFails(w)
                                 /\ wk[w].slug = s /\ DirOf(s)' = wk[w].dir
<1>a. objs \in [Slugs -> Seq(Extension)] /\ DirOf(s) = DirIn(objs[s])
      /\ DirOf(s)' = DirIn(objs'[s])
    BY DirIs DEF RTypeInv, RTypeOK
<1>b. DirIn(<<Closed0>>) = 0 /\ DirIn(<<>>) = 0
    BY DirInOne DEF Closed0
<1>1. CASE objs' = objs
    BY <1>1, <1>a
<1>2. CASE Restart
    BY <1>2, <1>a, <1>b DEF Restart
<1>3. ASSUME NEW t \in Slugs, ~Exists(t), objs' = [objs EXCEPT ![t] = <<Closed0>>]
      PROVE  DirOf(s)' = DirOf(s)
  <2>1. objs[t] = <<>>
    BY <1>3 DEF Exists
  <2> QED BY <1>3, <2>1, <1>a, <1>b
<1>4. ASSUME NEW w \in Workers, Add(w) PROVE DirOf(s)' = DirOf(s)
  <2>1. wk[w].slug \in Slugs /\ objs[wk[w].slug] = <<>>
    BY <1>4 DEF Add, SingleInv, RTypeInv, InHand
  <2>2. objs' = [objs EXCEPT ![wk[w].slug] = Append(@, Closed0)]
    BY <1>4 DEF Add, Closed0
  <2>3. objs' = [objs EXCEPT ![wk[w].slug] = <<Closed0>>]
    BY <1>a, <2>1, <2>2, OneLong
  <2> QED BY <1>3, <2>1, <2>3 DEF Exists
<1>5. ASSUME NEW w \in Workers, Swap(w) \/ SwapFails(w)
      PROVE  DirOf(s)' = DirOf(s) \/ (wk[w].slug = s /\ DirOf(s)' = wk[w].dir)
    BY <1>5, SwapDir
<1>6. ASSUME NEW w \in Workers, SetOpen(w) \/ SetClosed(w) PROVE DirOf(s)' = DirOf(s)
  <2>1. PICK x \in {"open", "closed"} :
            /\ wk[w].pc \in {"open", "close"}
            /\ objs' = [objs EXCEPT ![wk[w].slug][wk[w].obj].status = x]
    BY <1>6 DEF SetOpen, SetClosed, SetStatus
  <2>2. IsStatus(objs', wk[w].slug, wk[w].obj, x)
    BY <2>1, StatusObjs
  <2>3. PICK e \in Extension :
            e.dir = objs[wk[w].slug][wk[w].obj].dir
            /\ IsChanged(objs', objs, wk[w].slug, wk[w].obj, e)
    BY <2>2 DEF IsStatus
  <2>4. /\ objs' \in [Slugs -> Seq(Extension)] /\ Len(objs'[s]) = Len(objs[s])
        /\ \A l \in 1..Len(objs[s]) : objs'[s][l].dir = objs[s][l].dir
    BY <2>3 DEF IsChanged
  <2>5. objs[s] # <<>> => Len(objs[s]) \in 1 .. Len(objs[s])
    BY <1>a, EmptySeq, LenProperties
  <2>6. objs'[s] # <<>> <=> objs[s] # <<>>
    BY <1>a, <2>4, EmptySeq, LenProperties
  <2>7. DirIn(objs'[s]) = DirIn(objs[s])
    BY <2>4, <2>5, <2>6 DEF DirIn
  <2> QED BY <2>7, <1>a
<1> QED BY <1>1, <1>2, <1>3, <1>4, <1>5, <1>6, StructSteps

\* A directory that is searched is one of its extension, and not during the load.
LEMMA SearchedDir ==
    ASSUME RTypeInv, IndexInv, NEW s \in Slugs, NEW e \in disk, e.id = DirOf(s)
    PROVE  e.slug = s /\ Version(s) = e.ver /\ phase # "load" /\ DirOf(s) # 0
<1>1. e.id \in Dirs /\ Dirs \subseteq Nat \ {0}
    BY RepoBounds DEF RTypeInv, RTypeOK, Dirs
<1>2. DirOf(s) # 0 /\ Exists(s)
    BY <1>1 DEF DirOf
<1>3. Current(s) \in 1 .. Len(objs[s])
  <2>1. objs[s] \in Seq(Extension) /\ objs[s] # <<>>
    BY <1>2 DEF Exists, RTypeInv, RTypeOK
  <2> QED BY <2>1, EmptySeq, LenProperties DEF Current
<1>4. PICK d \in disk : d.id = DirOf(s) /\ d.slug = s
  <2>1. DirOf(s) = objs[s][Current(s)].dir
    BY <1>2 DEF DirOf
  <2> QED BY <1>2, <1>3, <2>1 DEF IndexInv, StructsAreBacked
<1>5. \A a, c \in disk : a.id = c.id => a = c
    BY DEF IndexInv, UniqueIds
<1>6. Version(s) = e.ver
    BY <1>5, VersionIs, DirIs
<1>7. phase # "load"
    BY <1>2 DEF Exists, RTypeInv, InHand
<1> QED BY <1>2, <1>4, <1>5, <1>6, <1>7

\* The index that start-up takes is the last of its extension.
LEMMA LoadedIsLast ==
    ASSUME RTypeInv, Load, NEW s \in Slugs, DirOf(s)' # 0
    PROVE  \E k \in disk' : /\ k.id = DirOf(s)' /\ k.slug = s /\ k \in disk
                            /\ \A e \in disk : e.slug = s => e.id <= k.id
<1>1. PICK kept \in SUBSET KeptDirs, rest \in SUBSET disk : LoadIndexes(kept, rest)
    BY LoadIs
<1> DEFINE x == Loaded(kept, s)
<1>2. objs'[s] = (IF s \in dbExts THEN <<x>> ELSE <<>>) /\ kept \subseteq disk'
    BY <1>1 DEF LoadIndexes
<1>3. x.dir # 0 => \E d \in kept : d.id = x.dir /\ d.slug = s
    BY LoadedType
<1> HIDE DEF x
<1>4. DirOf(s)' = DirIn(objs'[s])
    BY DirIs
<1>5. DirOf(s)' = x.dir
    BY <1>2, <1>4, DirInOne
<1>6. PICK k \in kept : k.slug = s /\ k.id = x.dir
    BY <1>3, <1>5
<1>7. k \in disk /\ \A e \in disk : e.slug = s => e.id <= k.id
    BY <1>6 DEF KeptDirs
<1> QED BY <1>2, <1>5, <1>6, <1>7

\* SwapIndexes and start-up put nothing older in the place of what is searched.
LEMMA NeverOlderStep ==
    ASSUME RTypeInv, RTypeInv', IndexInv, IndexInv', SingleInv, NewestInv, [Next]_vars,
           NEW s \in Slugs, Indexed(s)'
    PROVE  /\ Indexed(s) => Version(s)' >= Version(s)
           /\ phase = "load" => \A d \in disk : d.slug = s => Version(s)' >= d.ver
<1>1. PICK k \in disk' : k.id = DirOf(s)'
    BY DEF Indexed
<1>2. k.id \in Nat /\ k.id # 0 /\ k.ver \in Nat
  <2>1. k \in [id : Dirs, slug : Slugs, ver : Revs]
    BY DEF RTypeInv, RTypeOK
  <2> QED BY <2>1, RepoBounds DEF Dirs, Revs
<1>3. Version(s)' = k.ver
  <2>1. \A c, d \in disk' : c.id = d.id => c = d
    BY DEF IndexInv, UniqueIds
  <2>2. VersionOf(disk', k.id) = k.ver
    BY <2>1, VersionIs
  <2>3. Version(s)' = VersionOf(disk', DirOf(s)')
    BY DirIs
  <2> QED BY <1>1, <2>2, <2>3
<1>4. \A d \in disk : d.ver \in Nat /\ d.id \in Nat
  <2>1. disk \in SUBSET [id : Dirs, slug : Slugs, ver : Revs]
    BY DEF RTypeInv, RTypeOK
  <2> QED BY <2>1, RepoBounds DEF Dirs, Revs
<1>5. ASSUME NEW w \in Workers, Swap(w) \/ SwapFails(w), wk[w].slug = s,
             DirOf(s)' = wk[w].dir, NEW e \in disk, e.slug = s
      PROVE  e.ver <= k.ver
  <2>1. disk' \subseteq disk /\ wk[w].pc = "swap"
    BY <1>5 DEF Swap, SwapFails, Without
  <2>2. k \in disk /\ k.id = wk[w].dir
    BY <1>1, <1>5, <2>1
  <2> QED BY <1>5, <2>1, <2>2 DEF NewestInv, BuiltIsNewest
<1>6. ASSUME Indexed(s) PROVE k.ver >= Version(s)
  <2>1. PICK e \in disk : e.id = DirOf(s)
    BY <1>6 DEF Indexed
  <2>2. e.slug = s /\ Version(s) = e.ver /\ ~Load
    BY <2>1, SearchedDir DEF Load, LoadExisting, LoadFails, LoadIndexes
  <2>3. CASE DirOf(s)' = DirOf(s)
    <3>1. k.id = e.id
      BY <1>1, <2>1, <2>3
    <3>2. CASE k \in disk
      BY <3>1, <3>2, <2>2, <1>2 DEF IndexInv, UniqueIds
    <3>3. ASSUME NEW w \in Workers, Build(w) PROVE k \in disk
      <4>1. PICK n \in disk' : disk' = disk \cup {n} /\ \A d \in disk : d.id < n.id
        BY <3>3, BuildMakes
      <4>2. k # n
        BY <4>1, <3>1, <1>2
      <4> QED BY <4>1, <4>2
    <3> QED BY <3>2, <3>3, DiskSteps
  <2>4. ASSUME NEW w \in Workers, Swap(w) \/ SwapFails(w), wk[w].slug = s,
               DirOf(s)' = wk[w].dir
        PROVE  k.ver >= Version(s)
    <3>1. e.ver <= k.ver
      BY <1>5, <2>2, <2>4
    <3> QED BY <3>1, <2>2, <1>2, <1>4
  <2> QED BY <1>1, <1>2, <2>2, <2>3, <2>4, DirSteps
<1>7. ASSUME phase = "load", NEW d \in disk, d.slug = s PROVE k.ver >= d.ver
  <2>1. Load
    <3>1. DirOf(s) = 0 /\ \A w \in Workers : wk[w].pc = "idle"
      BY <1>7 DEF DirOf, Exists, RTypeInv, InHand
    <3>2. \A w \in Workers : ~Swap(w) /\ ~SwapFails(w)
      BY <3>1 DEF Swap, SwapFails
    <3> QED BY <1>1, <1>2, <3>1, <3>2, DirSteps
  <2>2. PICK c \in disk' : /\ c.id = DirOf(s)' /\ c.slug = s /\ c \in disk
                           /\ \A e \in disk : e.slug = s => e.id <= c.id
    BY <1>1, <1>2, <2>1, LoadedIsLast
  <2>3. c = k
    BY <1>1, <2>2 DEF IndexInv, UniqueIds
  <2>4. d.ver <= c.ver
    BY <1>7, <2>2 DEF NewestInv, LaterIsNewer
  <2> QED BY <2>3, <2>4, <1>2, <1>4
<1> QED BY <1>3, <1>6, <1>7

\* While the workers keep apart: what is above, and the order of the files.
LEMMA NewestAlways ==
    Spec /\ []WorkersApart => [](RTypeInv /\ IndexInv /\ SingleInv /\ NewestInv)
<1>1. Init => NewestInv
    BY DEF Init, NewestInv, VersionsExist, LaterIsNewer, FetchedIsNewest, BuiltIsNewest,
           IdleWorker
<1>2. RTypeInv /\ IndexInv /\ WorkersApart /\ NewestInv /\ [Next]_vars => NewestInv'
    BY NewestStep
<1> QED BY <1>1, <1>2, SingleAlways, PTL DEF Spec

\* While the workers keep apart no update replaces the files of an extension by older
\* ones, across failures and restarts, and a start takes the newest of what it finds on
\* disk.  The condition leaves out that one worker overtakes another with the same
\* extension, which several workers may do, and the configuration starts four
\* (config.go:36): a step to the theorem about one worker.
LEMMA NeverOlderApart == Spec /\ []WorkersApart => NeverOlder
<1> DEFINE A == \A s \in Slugs : Indexed(s)' =>
                    /\ Indexed(s) => Version(s)' >= Version(s)
                    /\ phase = "load" => \A d \in disk : d.slug = s => Version(s)' >= d.ver
<1>1. RTypeInv /\ RTypeInv' /\ IndexInv /\ IndexInv' /\ SingleInv /\ NewestInv /\ [Next]_vars
      => [A]_vars
    BY NeverOlderStep
<1> HIDE DEF A
<1>2. Spec /\ []WorkersApart => [][A]_vars
    BY <1>1, NewestAlways, PTL DEF Spec
<1> QED BY <1>2 DEF NeverOlder, A

-----------------------------------------------------------------------------
(* No change is lost                                                       *)

\* The updates that are waiting.
Elems(q) == {q[n] : n \in DOMAIN q}
Requests == Elems(queue) \cup job.todo

\* The revisions that the Repo has or is going to take.
Planned == {revision, listRev} \cup {u.rev : u \in Requests}
           \cup {wk[w].rev : w \in Workers}

\* The last change of an extension is still to be fetched, or in the hands of a
\* worker, or in the index that is searched.
Pending(s) == s \in list \/ \E u \in Requests : u.slug = s
InWork(w, s) ==
    /\ wk[w].slug = s
    /\ \/ wk[w].pc \in {"add", "get", "fetch"}
       \/ wk[w].pc = "build" /\ wk[w].got = LastChange(s)
       \/ wk[w].pc = "swap" /\ \E d \in disk : d.id = wk[w].dir /\ d.ver = LastChange(s)
IsCurrent(s) == \E d \in disk : d.id = DirOf(s) /\ d.ver = LastChange(s)
Served(s) == Pending(s) \/ (\E w \in Workers : InWork(w, s)) \/ IsCurrent(s)

\* Every change up to a revision that the Repo may take is served.
Covered(r) ==
    /\ r <= Len(log)
    /\ \A s \in Slugs : Exists(s) /\ LastChange(s) <= r => Served(s)

\* Every extension has been published, and the job reads the log up to a change
\* that exists and keeps no list but the one it is working on.
AllPublished == \A s \in Slugs : LastChange(s) # 0
JobInv == job.latest <= Len(log) /\ (job.pc # "queue" => job.todo = {})

\* The first process finds nothing, and has no revision until its workers run.
FirstStart ==
    /\ phase # "ready" => dbExts = {} /\ revision = 0
    /\ phase \in {"load", "list"} => \A s \in Slugs : ~Exists(s)

CoverInv ==
    /\ AllPublished
    /\ JobInv
    /\ Undisturbed => FirstStart /\ \A r \in Planned : Covered(r)

\* What is in a queue that is sent to or received from.
LEMMA ElemsAppend ==
    ASSUME NEW S, NEW q \in Seq(S), NEW u \in S
    PROVE  Elems(Append(q, u)) = Elems(q) \cup {u}
<1>1. /\ Append(q, u) \in Seq(S) /\ Len(Append(q, u)) = Len(q) + 1 /\ Len(q) \in Nat
      /\ \A i \in 1 .. Len(q) : Append(q, u)[i] = q[i]
      /\ Append(q, u)[Len(q) + 1] = u
    BY AppendProperties, LenProperties
<1>2. DOMAIN Append(q, u) = 1 .. (Len(q) + 1) /\ DOMAIN q = 1 .. Len(q)
    BY <1>1, LenProperties
<1>3. 1 .. (Len(q) + 1) = (1 .. Len(q)) \cup {Len(q) + 1}
    BY <1>1
<1> QED BY <1>1, <1>2, <1>3 DEF Elems

\* The first element leaves the queue, the others stay in it.
LEMMA ElemsTail ==
    ASSUME NEW S, NEW q \in Seq(S), q # <<>>
    PROVE  /\ Elems(Tail(q)) \subseteq Elems(q) /\ Head(q) \in Elems(q)
           /\ Elems(q) \subseteq Elems(Tail(q)) \cup {Head(q)}
<1>1. Len(q) \in Nat /\ DOMAIN q = 1 .. Len(q) /\ Len(q) # 0
    BY LenProperties, EmptySeq
<1>2. /\ Tail(q) \in Seq(S) /\ Len(Tail(q)) = Len(q) - 1 /\ Head(q) = q[1]
      /\ \A i \in 1 .. Len(Tail(q)) : Tail(q)[i] = q[i + 1]
    BY <1>1, HeadTailProperties
<1>3. DOMAIN Tail(q) = 1 .. (Len(q) - 1)
    BY <1>2, LenProperties
<1>4. ASSUME NEW i \in 1 .. (Len(q) - 1)
      PROVE  Tail(q)[i] = q[i + 1] /\ i + 1 \in 1 .. Len(q)
    BY <1>1, <1>2, <1>4
<1>5. Elems(Tail(q)) \subseteq Elems(q)
    BY <1>1, <1>3, <1>4 DEF Elems
<1>6. Head(q) \in Elems(q)
    BY <1>1, <1>2 DEF Elems
<1>7. ASSUME NEW i \in 1 .. Len(q) PROVE q[i] = Head(q) \/ q[i] \in Elems(Tail(q))
  <2>1. CASE i = 1
    BY <2>1, <1>2
  <2>2. CASE i # 1
    <3>1. i - 1 \in 1 .. (Len(q) - 1) /\ (i - 1) + 1 = i
      BY <2>2, <1>1
    <3>2. Tail(q)[i - 1] = q[i]
      BY <3>1, <1>4
    <3> QED BY <3>1, <3>2, <1>3 DEF Elems
  <2> QED BY <2>1, <2>2
<1>8. Elems(q) \subseteq Elems(Tail(q)) \cup {Head(q)}
    BY <1>1, <1>7 DEF Elems
<1> QED BY <1>5, <1>6, <1>8

\* Where requests come from, and where they go.
LEMMA RequestSteps ==
    ASSUME RTypeInv, JobInv, [Next]_vars, ~Restart
    PROVE  \/ Requests' = Requests
           \/ \E w \in Workers : /\ Take(w) /\ Head(queue) \in Requests
                                 /\ Requests' \subseteq Requests
                                 /\ Requests \subseteq Requests' \cup {Head(queue)}
           \/ \E s \in Slugs : /\ ListNext(s)
                               /\ Requests' = Requests \cup {[slug |-> s, rev |-> listRev]}
           \/ /\ JobLog /\ job.todo = {} /\ job'.todo = Changes(revision, job.latest)
              /\ Requests' = Requests \cup Changes(revision, job.latest)
<1>a. queue \in Seq(UpdateRequest) /\ listRev \in Revs
    BY DEF RTypeInv, RTypeOK
<1>1. ASSUME NEW w \in Workers, Take(w)
      PROVE  /\ Head(queue) \in Requests
             /\ Requests' \subseteq Requests
             /\ Requests \subseteq Requests' \cup {Head(queue)}
  <2>1. queue # <<>> /\ queue' = Tail(queue) /\ job' = job
    BY <1>1 DEF Take
  <2>2. /\ Elems(Tail(queue)) \subseteq Elems(queue) /\ Head(queue) \in Elems(queue)
        /\ Elems(queue) \subseteq Elems(Tail(queue)) \cup {Head(queue)}
    BY <1>a, <2>1, ElemsTail
  <2>3. Elems(queue)' = Elems(Tail(queue))
    BY <2>1 DEF Elems
  <2> HIDE DEF Elems
  <2> QED BY <2>1, <2>2, <2>3 DEF Requests
<1>2. ASSUME NEW s \in Slugs, ListNext(s)
      PROVE  \/ Requests' = Requests
             \/ Requests' = Requests \cup {[slug |-> s, rev |-> listRev]}
  <2> DEFINE u == [slug |-> s, rev |-> listRev]
  <2>1. job' = job /\ (queue' = queue \/ queue' = Append(queue, u))
    BY <1>2 DEF ListNext
  <2>2. u \in UpdateRequest
    BY <1>a DEF UpdateRequest
  <2> HIDE DEF u
  <2>3. CASE queue' = queue
    BY <2>1, <2>3 DEF Requests, Elems
  <2>4. CASE queue' = Append(queue, u)
    <3>1. Elems(queue)' = Elems(queue) \cup {u}
      BY <1>a, <2>2, <2>4, ElemsAppend DEF Elems
    <3> QED BY <2>1, <3>1 DEF Requests, u
  <2> QED BY <2>1, <2>3, <2>4
<1>3. ASSUME NEW u \in UpdateRequest, JobQueue(u) PROVE Requests' = Requests
  <2>1. /\ u \in job.todo /\ queue' = Append(queue, u)
        /\ job' = IF job.todo = {u} THEN IdleJob ELSE [job EXCEPT !.todo = @ \ {u}]
    BY <1>3 DEF JobQueue
  <2>2. job'.todo = job.todo \ {u}
    BY <2>1 DEF IdleJob, RTypeInv, RTypeOK
  <2>3. Elems(queue)' = Elems(queue) \cup {u}
    BY <1>a, <2>1, ElemsAppend DEF Elems
  <2> QED BY <2>1, <2>2, <2>3 DEF Requests
<1>4. ASSUME JobLog
      PROVE  /\ job.todo = {} /\ job'.todo = Changes(revision, job.latest)
             /\ Requests' = Requests \cup Changes(revision, job.latest)
  <2>1. job.todo = {}
    BY <1>4 DEF JobLog, JobInv
  <2> DEFINE C == Changes(revision, job.latest)
  <2>2. job' = (IF C = {} THEN IdleJob
               ELSE [pc |-> "queue", latest |-> 0, todo |-> C]) /\ queue' = queue
    BY <1>4 DEF JobLog
  <2> HIDE DEF C
  <2>3. job'.todo = C
    BY <2>2 DEF IdleJob
  <2> QED BY <2>1, <2>2, <2>3 DEF Requests, Elems, C
<1>5. CASE JobFails
  <2>1. job.todo = {} /\ job'.todo = {} /\ queue' = queue
    BY <1>5 DEF JobFails, JobInv, IdleJob
  <2> QED BY <2>1 DEF Requests, Elems
<1>6. CASE JobStart \/ JobRevision
  <2>1. job'.todo = job.todo /\ queue' = queue
    BY <1>6 DEF JobStart, JobRevision, RTypeInv, RTypeOK
  <2> QED BY <2>1 DEF Requests, Elems
<1>7. ASSUME NEW w \in Workers,
             \/ Add(w) \/ Get(w) \/ Fetch(w) \/ Build(w) \/ Swap(w) \/ SetOpen(w)
             \/ SetClosed(w) \/ SaveExt(w) \/ SetRev(w) \/ SaveBegin(w) \/ SaveEnd(w)
             \/ SwapFails(w) \/ UpdateFails(w)
      PROVE  Requests' = Requests
  <2>1. job' = job /\ queue' = queue
    BY <1>7 DEF Add, Get, Fetch, Build, Swap, SetOpen, SetClosed, SetStatus, SaveExt, SetRev,
                SaveBegin, SaveEnd, SwapFails, UpdateFails
  <2> QED BY <2>1 DEF Requests, Elems
<1>8. ASSUME \/ Load \/ FetchList \/ StartUpdateWorkers \/ UNCHANGED vars
             \/ \E s \in Slugs : Commit(s)
      PROVE  Requests' = Requests
  <2>1. job' = job /\ queue' = queue
    BY <1>8 DEF Load, LoadExisting, LoadFails, LoadIndexes, FetchList,
        StartUpdateWorkers, Commit, vars
  <2> QED BY <2>1 DEF Requests, Elems
<1> QED BY <1>1, <1>2, <1>3, <1>4, <1>5, <1>6, <1>7, <1>8
        DEF Next, Load, LoadStep, UpdateStep, JobStep

\* Where a revision that is planned comes from.
LEMMA PlannedSteps ==
    ASSUME RTypeInv, JobInv, [Next]_vars, ~Restart, NEW r \in Planned'
    PROVE  \/ r \in Planned
           \/ r = 0
           \/ FetchList /\ r = Latest
           \/ JobLog /\ \E u \in Changes(revision, job.latest) : r = u.rev
<1>1. CASE r = revision'
  <2>1. revision' = revision \/ \E w \in Workers : revision' = wk[w].rev
    BY DEF Next, Load, LoadStep, LoadExisting, LoadFails, LoadIndexes, FetchList,
        ListNext, StartUpdateWorkers,
           JobStart, JobStep, JobRevision, JobLog, JobQueue, JobFails, Commit,
           UpdateStep, Take, Add, Get, Fetch, Build, Swap, SetOpen, SetClosed, SetStatus,
           SaveExt, SetRev, SaveBegin, SaveEnd, SwapFails, UpdateFails, vars
  <2> QED BY <1>1, <2>1 DEF Planned
<1>2. CASE r = listRev'
  <2>1. listRev' = listRev \/ (FetchList /\ listRev' = Latest)
    BY DEF Next, Load, LoadStep, LoadExisting, LoadFails, LoadIndexes, FetchList,
        ListNext, StartUpdateWorkers,
           JobStart, JobStep, JobRevision, JobLog, JobQueue, JobFails, Commit,
           UpdateStep, Take, Add, Get, Fetch, Build, Swap, SetOpen, SetClosed, SetStatus,
           SaveExt, SetRev, SaveBegin, SaveEnd, SwapFails, UpdateFails, vars, loadVars
  <2> QED BY <1>2, <2>1 DEF Planned
<1>3. ASSUME NEW u \in Requests', r = u.rev
      PROVE  r \in Planned \/ (JobLog /\ u \in Changes(revision, job.latest))
  <2>1. CASE u \in Requests
    BY <1>3, <2>1 DEF Planned
  <2>2. CASE u.rev = listRev
    BY <1>3, <2>2 DEF Planned
  <2>3. \/ u \in Requests
        \/ u.rev = listRev
        \/ JobLog /\ u \in Changes(revision, job.latest)
    BY <1>3, RequestSteps
  <2> QED BY <1>3, <2>1, <2>2, <2>3
<1>4. ASSUME NEW w \in Workers, r = wk'[w].rev
      PROVE  r \in Planned \/ r = 0
  <2>1. wk'[w] = wk[w] \/ UpdateStep(w) \/ SwapFails(w) \/ UpdateFails(w)
    BY WorkerSteps
  <2>2. CASE Take(w)
    <3>1. r = Head(queue).rev
      BY <1>4, <2>2, WorkerMoves
    <3>2. Head(queue) \in Requests
      <4>1. queue # <<>> /\ queue \in Seq(UpdateRequest)
        BY <2>2 DEF Take, RTypeInv, RTypeOK
      <4> QED BY <4>1, ElemsTail DEF Requests
    <3> QED BY <3>1, <3>2 DEF Planned
  <2>3. CASE SetClosed(w) \/ SaveEnd(w)
    <3>1. wk \in [Workers -> Worker]
      BY DEF RTypeInv, RTypeOK
    <3>2. wk'[w].rev = 0
      BY <2>3, <3>1 DEF SetClosed, SetStatus, SaveEnd, IdleWorker
    <3> QED BY <1>4, <3>2
  <2>4. CASE wk'[w].rev = wk[w].rev \/ wk'[w].rev = revision
    BY <1>4, <2>4 DEF Planned
  <2>5. CASE \/ Add(w) \/ Get(w) \/ Fetch(w) \/ Swap(w) \/ SwapFails(w) \/ UpdateFails(w)
              \/ SetOpen(w) \/ SaveExt(w) \/ SetRev(w) \/ SaveBegin(w)
    <3>1. wk'[w].rev = wk[w].rev \/ wk'[w].rev = revision
      BY <2>5, WorkerMoves DEF SameUpdate
    <3> QED BY <2>4, <3>1
  <2>6. CASE Build(w)
    <3>1. wk'[w].rev = wk[w].rev
      BY <2>6, BuildMakes DEF SameUpdate
    <3> QED BY <2>4, <3>1
  <2>7. CASE wk'[w] = wk[w]
    BY <2>4, <2>7
  <2> QED BY <2>1, <2>2, <2>3, <2>5, <2>6, <2>7 DEF UpdateStep
<1> QED BY <1>1, <1>2, <1>3, <1>4 DEF Planned

\* As long as nothing has failed and no restart has happened, it has not before.
LEMMA StillUndisturbed ==
    ASSUME RTypeInv, [Next]_vars, Undisturbed'
    PROVE  /\ Undisturbed /\ ~Restart /\ ~JobFails
           /\ \A w \in Workers : ~SwapFails(w) /\ ~UpdateFails(w)
<1>1. crashes \in Nat /\ faults \in Nat
    BY RepoBounds DEF RTypeInv, RTypeOK
<1>2. /\ crashes' = crashes \/ (Restart /\ crashes' = crashes + 1)
      /\ faults' = faults \/ faults' = faults + 1
    BY DEF Next, Load, LoadStep, LoadExisting, LoadFails, LoadIndexes, FetchList,
        ListNext, StartUpdateWorkers,
           JobStart, JobStep, JobRevision, JobLog, JobQueue, JobFails, Commit, Restart,
           UpdateStep, Take, Add, Get, Fetch, Build, Swap, SetOpen, SetClosed, SetStatus,
           SaveExt, SetRev, SaveBegin, SaveEnd, SwapFails, UpdateFails, vars, envVars
<1>3. crashes' = 0 /\ faults' = 0
    BY DEF Undisturbed
<1>4. Undisturbed
    BY <1>1, <1>2, <1>3 DEF Undisturbed
<1>5. ~Restart
    BY <1>1, <1>3 DEF Restart
<1>6. ~JobFails /\ \A w \in Workers : ~SwapFails(w) /\ ~UpdateFails(w)
    BY <1>1, <1>3 DEF JobFails, SwapFails, UpdateFails
<1> QED BY <1>4, <1>5, <1>6

\* UpdateList queues what it finds new, on the first start.
LEMMA ListNextQueues ==
    ASSUME RTypeInv, JobInv, FirstStart, [Next]_vars, NEW s \in Slugs, ListNext(s)
    PROVE  Pending(s)'
<1> DEFINE u == [slug |-> s, rev |-> listRev]
<1>1. revision = 0
    BY DEF FirstStart, ListNext
<1>2. queue' = Append(queue, u)
    BY <1>1 DEF ListNext
<1>3. queue \in Seq(UpdateRequest) /\ u \in UpdateRequest
    BY DEF RTypeInv, RTypeOK, UpdateRequest
<1>4. u.slug = s
    OBVIOUS
<1> HIDE DEF u
<1>5. Elems(queue)' = Elems(queue) \cup {u}
    BY <1>2, <1>3, ElemsAppend DEF Elems
<1>6. u \in Requests'
    BY <1>5 DEF Requests
<1> QED BY <1>4, <1>6 DEF Pending

\* What is waiting goes on waiting or is taken.
LEMMA PendingStep ==
    ASSUME RTypeInv, JobInv, FirstStart, [Next]_vars, ~Restart,
           NEW s \in Slugs, Exists(s), Pending(s)
    PROVE  Pending(s)' \/ \E w \in Workers : Take(w) /\ Head(queue).slug = s
<1>1. ASSUME s \in list PROVE Pending(s)'
  <2>1. ~FetchList
    BY DEF FetchList, FirstStart
  <2>2. list' = list \/ \E t \in Slugs : ListNext(t) /\ list' = list \ {t}
    BY <2>1 DEF Next, Load, LoadStep, LoadExisting, LoadFails, LoadIndexes, ListNext,
        StartUpdateWorkers,
           JobStart, JobStep, JobRevision, JobLog, JobQueue, JobFails, Commit,
           UpdateStep, Take, Add, Get, Fetch, Build, Swap, SetOpen, SetClosed, SetStatus,
           SaveExt, SetRev, SaveBegin, SaveEnd, SwapFails, UpdateFails, vars, loadVars
  <2>3. CASE s \in list'
    BY <2>3 DEF Pending
  <2>4. CASE ListNext(s)
    BY <2>4, ListNextQueues
  <2> QED BY <1>1, <2>2, <2>3, <2>4
<1>2. ASSUME NEW u \in Requests, u.slug = s
      PROVE  Pending(s)' \/ \E w \in Workers : Take(w) /\ Head(queue).slug = s
  <2>1. CASE u \in Requests'
    BY <1>2, <2>1 DEF Pending
  <2>2. CASE u \notin Requests'
    <3>1. PICK w \in Workers : Take(w) /\ Requests \subseteq Requests' \cup {Head(queue)}
      BY <1>2, <2>2, RequestSteps
    <3>2. u = Head(queue)
      BY <1>2, <2>2, <3>1
    <3> QED BY <1>2, <3>1, <3>2
  <2> QED BY <2>1, <2>2
<1> QED BY <1>1, <1>2 DEF Pending

\* What a worker has in its hands it keeps until it installs it.
LEMMA InWorkStep ==
    ASSUME RTypeInv, IndexInv, [Next]_vars, ~Restart,
           \A w \in Workers : ~SwapFails(w) /\ ~UpdateFails(w),
           NEW s \in Slugs, ~Commit(s), NEW w \in Workers, InWork(w, s)
    PROVE  InWork(w, s)' \/ Swap(w)
<1>a. LastChange(s)' = LastChange(s)
    BY LastSame
<1>b. wk[w].slug = s /\ wk[w].pc \in {"add", "get", "fetch", "build", "swap"}
      /\ phase = "ready"
  <2>1. wk[w].slug = s /\ wk[w].pc \in {"add", "get", "fetch", "build", "swap"}
    BY DEF InWork
  <2> QED BY <2>1 DEF RTypeInv, InHand
<1>1. CASE wk'[w] = wk[w]
  <2>1. ASSUME NEW d \in disk, wk[w].pc = "swap", d.id = wk[w].dir PROVE d \in disk'
    <3>1. ~Load
      BY <1>b DEF Load, LoadExisting, LoadFails, LoadIndexes
    <3>2. ASSUME NEW v \in Workers, Swap(v) PROVE d \in disk'
      <4>1. /\ disk' = Without(objs[wk[v].slug][wk[v].obj].dir)
            /\ wk[v].pc = "swap" /\ wk[v].slug \in Slugs
            /\ wk[v].obj \in 1 .. Len(objs[wk[v].slug])
        BY <3>2, StructInHand DEF Swap, Holding
      <4>2. objs[wk[v].slug][wk[v].obj].dir # wk[w].dir
        BY <2>1, <4>1 DEF IndexInv, BuiltIsOwn
      <4> QED BY <2>1, <4>1, <4>2 DEF Without
    <3>3. ASSUME NEW v \in Workers, Build(v) PROVE d \in disk'
      BY <3>3, BuildMakes
    <3> QED BY <2>1, <3>1, <3>2, <3>3, DiskSteps
  <2> QED BY <1>1, <1>a, <2>1 DEF InWork
<1>2. CASE Add(w) \/ Get(w)
  <2>1. wk'[w].slug = s /\ wk'[w].pc \in {"get", "fetch"}
    BY <1>2, <1>b, WorkerMoves DEF SameUpdate
  <2> QED BY <2>1 DEF InWork
<1>3. CASE Fetch(w)
  <2>1. wk'[w].slug = s /\ wk'[w].pc = "build" /\ wk'[w].got = LastChange(s)
    BY <1>3, <1>b, WorkerMoves DEF SameUpdate
  <2> QED BY <2>1, <1>a DEF InWork
<1>4. CASE Build(w)
  <2>1. PICK n \in disk' :
            /\ wk[w].pc = "build" /\ wk'[w].pc = "swap" /\ SameUpdate(w)
            /\ n.id = wk'[w].dir /\ n.ver = wk[w].got
    BY <1>4, BuildMakes
  <2>2. wk[w].got = LastChange(s)
    BY <2>1 DEF InWork
  <2> QED BY <1>a, <1>b, <2>1, <2>2 DEF InWork, SameUpdate
<1>5. UpdateStep(w) => Add(w) \/ Get(w) \/ Fetch(w) \/ Build(w) \/ Swap(w)
    BY <1>b DEF UpdateStep, Take, SetOpen, SetClosed, SetStatus, SaveExt, SetRev, SaveBegin,
                SaveEnd
<1> QED BY <1>1, <1>2, <1>3, <1>4, <1>5, WorkerSteps

\* What is installed is what was last fetched, and nothing older than it replaces.
LEMMA SwapServes ==
    ASSUME RTypeInv, IndexInv, SingleInv, NewestInv, [Next]_vars,
           NEW w \in Workers, Swap(w), NEW s \in Slugs, wk[w].slug = s,
           InWork(w, s) \/ IsCurrent(s)
    PROVE  IsCurrent(s)'
<1>1. wk[w].pc = "swap" /\ disk' = Without(objs[s][wk[w].obj].dir) /\ log' = log
    BY DEF Swap
<1>2. DirOf(s)' = wk[w].dir /\ LastChange(s)' = LastChange(s)
    BY <1>1, SwapDir, LastIs
<1>3. PICK d \in disk : d.id = wk[w].dir /\ d.slug = s
    BY <1>1 DEF IndexInv, BuiltIsOwn
<1>4. d \in disk'
  <2>1. wk[w].obj \in 1 .. Len(objs[s])
    BY <1>1, StructInHand DEF Holding
  <2>2. objs[s][wk[w].obj].dir # wk[w].dir
    BY <1>1, <2>1 DEF IndexInv, BuiltIsOwn
  <2> QED BY <1>1, <1>3, <2>2 DEF Without
<1>5. d.ver = LastChange(s)
  <2>1. CASE InWork(w, s)
    <3>1. PICK e \in disk : e.id = wk[w].dir /\ e.ver = LastChange(s)
      BY <1>1, <2>1 DEF InWork
    <3> QED BY <1>3, <3>1 DEF IndexInv, UniqueIds
  <2>2. CASE IsCurrent(s)
    <3>1. PICK e \in disk : e.id = DirOf(s) /\ e.ver = LastChange(s)
      BY <2>2 DEF IsCurrent
    <3>2. e.slug = s
      BY <3>1, SearchedDir
    <3>3. e.ver <= d.ver
      BY <1>1, <1>3, <3>2 DEF NewestInv, BuiltIsNewest
    <3>4. d.ver <= LastChange(s)
      BY <1>3 DEF NewestInv, VersionsExist
    <3>5. d.ver \in Nat /\ LastChange(s) \in Nat
      <4>1. disk \in SUBSET [id : Dirs, slug : Slugs, ver : Revs]
        BY DEF RTypeInv, RTypeOK
      <4> QED BY <4>1, LastBound, RepoBounds DEF Revs
    <3> QED BY <3>1, <3>3, <3>4, <3>5
  <2> QED BY <2>1, <2>2
<1> QED BY <1>2, <1>3, <1>4, <1>5 DEF IsCurrent

\* An index that holds the last change stays the one that is searched, or makes room for
\* another one.
LEMMA IsCurrentStep ==
    ASSUME RTypeInv, IndexInv, SingleInv, NewestInv, [Next]_vars, ~Restart,
           \A w \in Workers : ~SwapFails(w),
           NEW s \in Slugs, ~Commit(s), IsCurrent(s)
    PROVE  IsCurrent(s)'
<1>1. LastChange(s)' = LastChange(s)
    BY LastSame
<1>2. PICK e \in disk : e.id = DirOf(s) /\ e.ver = LastChange(s)
    BY DEF IsCurrent
<1>3. e.slug = s /\ phase # "load" /\ DirOf(s) # 0 /\ ~Load
    BY <1>2, SearchedDir DEF Load, LoadExisting, LoadFails, LoadIndexes
<1>4. ASSUME NEW w \in Workers, Swap(w) PROVE IsCurrent(s)'
  <2>1. CASE wk[w].slug = s
    BY <1>4, <2>1, SwapServes
  <2>2. CASE wk[w].slug # s
    <3> DEFINE old == objs[wk[w].slug][wk[w].obj].dir
    <3>1. wk[w].pc = "swap" /\ disk' = Without(old)
      BY <1>4 DEF Swap
    <3>2. DirOf(s)' = DirOf(s)
      BY <1>4, <2>2, SwapDir
    <3>3. e.id # old
      <4>1. wk[w].slug \in Slugs /\ wk[w].obj \in 1 .. Len(objs[wk[w].slug])
        BY <3>1, StructInHand DEF Holding
      <4>2. old # 0 => \E d \in disk : d.id = old /\ d.slug = wk[w].slug
        BY <4>1 DEF IndexInv, StructsAreBacked
      <4>3. \A d \in disk : d.id = e.id => d = e
        BY DEF IndexInv, UniqueIds
      <4> HIDE DEF old
      <4> QED BY <4>2, <4>3, <1>2, <1>3, <2>2
    <3> QED BY <1>1, <1>2, <3>1, <3>2, <3>3 DEF IsCurrent, Without
  <2> QED BY <2>1, <2>2
<1>5. CASE \A w \in Workers : ~Swap(w)
  <2>1. DirOf(s)' = DirOf(s)
    BY <1>3, <1>5, DirSteps
  <2>2. disk \subseteq disk'
    BY <1>3, <1>5, DiskSteps, BuildMakes
  <2> QED BY <1>1, <1>2, <2>1, <2>2 DEF IsCurrent
<1> QED BY <1>4, <1>5

\* An extension that comes into the list is queued, or in the hands of a worker.
LEMMA NewIsServed ==
    ASSUME RTypeInv, RTypeInv', SingleInv, JobInv, FirstStart, [Next]_vars, ~Restart,
           NEW s \in Slugs, ~Exists(s), Exists(s)'
    PROVE  Served(s)'
<1>a. objs[s] = <<>> /\ objs'[s] # <<>>
    BY DEF Exists
<1>b. objs \in [Slugs -> Seq(Extension)] /\ objs' \in [Slugs -> Seq(Extension)]
    BY DEF RTypeInv, RTypeOK
<1>1. ~Load
  <2>1. Load => dbExts = {} /\ objs'[s] = IF s \in dbExts THEN objs'[s] ELSE <<>>
    BY DEF Load, LoadExisting, LoadFails, LoadIndexes, FirstStart
  <2> QED BY <1>a, <2>1
<1>2. ASSUME NEW t \in Slugs, ListNext(t), objs' = [objs EXCEPT ![t] = <<Closed0>>]
      PROVE  Served(s)'
  <2>1. t = s
    BY <1>a, <1>b, <1>2
  <2> QED BY <1>2, <2>1, ListNextQueues DEF Served
<1>3. ASSUME NEW w \in Workers, Add(w) PROVE Served(s)'
  <2>1. objs' = [objs EXCEPT ![wk[w].slug] = Append(@, Closed0)]
    BY <1>3 DEF Add, Closed0
  <2>2. wk[w].slug = s
    BY <1>a, <1>b, <2>1
  <2>3. wk'[w].slug = s /\ wk'[w].pc = "get"
    BY <1>3, <2>2, WorkerMoves DEF SameUpdate
  <2>4. InWork(w, s)'
    BY <2>3 DEF InWork
  <2> QED BY <2>4 DEF Served
<1>4. ASSUME NEW w \in Workers, Swap(w) \/ SwapFails(w) \/ SetOpen(w) \/ SetClosed(w)
      PROVE  FALSE
  <2>1. Len(objs'[s]) = Len(objs[s])
    <3>1. CASE Swap(w) \/ SwapFails(w)
      <4>1. /\ wk[w].pc = "swap"
            /\ objs' = [objs EXCEPT ![wk[w].slug][wk[w].obj].dir = wk[w].dir]
        BY <3>1 DEF Swap, SwapFails
      <4> QED BY <4>1, SwappedObjs
    <3>2. CASE SetOpen(w) \/ SetClosed(w)
      <4>1. PICK x \in {"open", "closed"} :
                /\ wk[w].pc \in {"open", "close"}
                /\ objs' = [objs EXCEPT ![wk[w].slug][wk[w].obj].status = x]
        BY <3>2 DEF SetOpen, SetClosed, SetStatus
      <4>2. IsStatus(objs', wk[w].slug, wk[w].obj, x)
        BY <4>1, StatusObjs
      <4> QED BY <4>2 DEF IsStatus, IsChanged
    <3> QED BY <1>4, <3>1, <3>2
  <2> QED BY <1>a, <1>b, <2>1, EmptySeq
<1> QED BY <1>a, <1>1, <1>2, <1>3, <1>4, StructSteps

\* What is served stays so, until the next change of the extension.
LEMMA ServedStep ==
    ASSUME RTypeInv, RTypeInv', IndexInv, SingleInv, NewestInv, JobInv, FirstStart,
           [Next]_vars, Undisturbed', NEW s \in Slugs, ~Commit(s),
           Exists(s) => Served(s), Exists(s)'
    PROVE  Served(s)'
<1>a. ~Restart /\ \A w \in Workers : ~SwapFails(w) /\ ~UpdateFails(w)
    BY StillUndisturbed
<1>1. CASE ~Exists(s)
    BY <1>a, <1>1, NewIsServed
<1>2. CASE Exists(s) /\ Pending(s)
  <2>1. ASSUME NEW w \in Workers, Take(w), Head(queue).slug = s PROVE Served(s)'
    <3>1. wk'[w].slug = s /\ wk'[w].pc \in {"get", "add"}
      BY <2>1, WorkerMoves
    <3>2. InWork(w, s)'
      BY <3>1 DEF InWork
    <3> QED BY <3>2 DEF Served
  <2> QED BY <1>a, <1>2, <2>1, PendingStep DEF Served
<1>3. ASSUME NEW w \in Workers, InWork(w, s) PROVE Served(s)'
  <2>1. CASE InWork(w, s)'
    BY <2>1 DEF Served
  <2>2. CASE Swap(w)
    <3>1. wk[w].slug = s
      BY <1>3 DEF InWork
    <3> QED BY <1>3, <2>2, <3>1, SwapServes DEF Served
  <2> QED BY <1>a, <1>3, <2>1, <2>2, InWorkStep
<1>4. CASE IsCurrent(s)
    BY <1>a, <1>4, IsCurrentStep DEF Served
<1> QED BY <1>1, <1>2, <1>3, <1>4 DEF Served

\* The change log names the last change of every extension that has one in its range.
LEMMA ChangesHoldLast ==
    ASSUME RTypeInv, JobInv, NEW s \in Slugs, LastChange(s) # 0,
           LastChange(s) > revision, LastChange(s) <= job.latest
    PROVE  \E u \in Changes(revision, job.latest) : u.slug = s
<1> DEFINE u == [slug |-> s, rev |-> LastChange(s)]
<1>1. /\ log \in Seq(Slugs) /\ Len(log) \in Nat /\ revision \in Nat
      /\ job.latest \in Nat /\ job.latest <= Len(log)
    BY RepoBounds DEF RTypeInv, RTypeOK, Revs, JobInv
<1>2. /\ LastChange(s) \in 0 .. Len(log) /\ log[LastChange(s)] = s
      /\ \A i \in 1 .. Len(log) : log[i] = s => i <= LastChange(s)
    BY <1>1, LastOfIs, LastIs
<1>3. u \in UpdateRequest
    BY <1>1, LastChangeType DEF RTypeInv, RTypeOK, UpdateRequest
<1>4. u.slug = s /\ u.rev = LastChange(s)
    OBVIOUS
<1> HIDE DEF u
<1>5. u.rev \in (revision + 1) .. job.latest /\ log[u.rev] = u.slug
    BY <1>1, <1>2, <1>4
<1>6. ASSUME NEW i \in (u.rev + 1) .. job.latest PROVE log[i] # u.slug
  <2>1. i \in 1 .. Len(log) /\ ~(i <= LastChange(s))
    BY <1>1, <1>2, <1>4
  <2> QED BY <1>2, <1>4, <2>1
<1>7. u \in Changes(revision, job.latest)
    BY <1>3, <1>5, <1>6 DEF Changes
<1> QED BY <1>4, <1>7

\* Every revision that may be taken covers its changes.
LEMMA CoveredStep ==
    ASSUME RTypeInv, RTypeInv', IndexInv, SingleInv, NewestInv, CoverInv,
           [Next]_vars, Undisturbed', NEW r \in Planned'
    PROVE  Covered(r)'
<1>a. ~Restart /\ FirstStart /\ JobInv /\ AllPublished /\ \A p \in Planned : Covered(p)
    BY StillUndisturbed DEF CoverInv
<1>b. /\ Len(log) \in Nat /\ Len(log') \in Nat /\ Len(log') >= Len(log)
      /\ \A s \in Slugs : LastChange(s) \in Nat /\ LastChange(s) <= Len(log)
  <2>1. Slugs # {} => Len(log') >= Len(log)
    BY LastGrows
  <2>2. log' = log => Len(log') >= Len(log)
    BY DEF RTypeInv, RTypeOK
  <2>3. Len(log') >= Len(log)
    BY <2>1, <2>2, LogSteps
  <2> QED BY <2>3, LastBound DEF RTypeInv, RTypeOK
<1>c. /\ revision \in Nat /\ revision \in Planned
      /\ \A u \in Changes(revision, job.latest) :
             u.rev \in Nat /\ u.rev <= job.latest /\ u.rev <= Len(log)
  <2>1. revision \in Nat /\ job.latest \in Nat /\ job.latest <= Len(log)
    BY <1>a, RepoBounds DEF RTypeInv, RTypeOK, Revs, JobInv
  <2> QED BY <1>b, <2>1 DEF Changes, Planned
<1>d. \/ r \in Planned
      \/ r = 0
      \/ FetchList /\ r = Latest
      \/ JobLog /\ \E u \in Changes(revision, job.latest) : r = u.rev
    BY <1>a, PlannedSteps
<1>1. r \in Nat /\ r <= Len(log)
  <2>1. r \in Nat
    <3>1. revision' \in Revs /\ listRev' \in Revs
      BY DEF RTypeInv, RTypeOK
    <3>2. \A w \in Workers : wk'[w].rev \in Revs
      BY DEF RTypeInv, RTypeOK, Worker
    <3>3. \A u \in Requests' : u.rev \in Revs
      <4>1. queue' \in Seq(UpdateRequest) /\ job'.todo \in SUBSET UpdateRequest
        BY DEF RTypeInv, RTypeOK
      <4>2. \A n \in DOMAIN queue' : queue'[n] \in UpdateRequest
        BY <4>1, ElementOfSeq, LenProperties
      <4> QED BY <4>1, <4>2 DEF Requests, Elems, UpdateRequest
    <3>4. r \in Revs
      BY <3>1, <3>2, <3>3 DEF Planned
    <3> QED BY <3>4, RepoBounds DEF Revs
  <2>2. CASE r \in Planned
    BY <1>a, <2>1, <2>2 DEF Covered
  <2>3. CASE r = 0
    BY <2>3, <1>b
  <2>4. CASE r = Latest
    BY <2>4, <1>b DEF Latest
  <2>5. CASE \E u \in Changes(revision, job.latest) : r = u.rev
    BY <2>5, <1>c
  <2> QED BY <1>d, <2>1, <2>2, <2>3, <2>4, <2>5
<1>2. ASSUME NEW s \in Slugs, Exists(s)', LastChange(s)' <= r PROVE Served(s)'
  <2>1. ~Commit(s)
    <3>1. Commit(s) => LastChange(s)' = Len(log) + 1
      BY CommitLast
    <3> QED BY <1>1, <1>2, <1>b, <3>1
  <2>2. LastChange(s)' = LastChange(s)
    BY <2>1, LastSame
  <2>3. LastChange(s) <= r /\ LastChange(s) # 0 /\ LastChange(s) \in Nat
    BY <1>2, <1>a, <1>b, <2>2 DEF AllPublished
  <2>4. CASE Exists(s) => Served(s)
    BY <1>2, <1>a, <2>1, <2>4, ServedStep
  <2>5. CASE r \in Planned
    BY <2>3, <2>4, <2>5, <1>a DEF Covered
  <2>6. CASE r = 0
    BY <2>3, <2>6
  <2>7. CASE FetchList
    <3>1. ~Exists(s)
      BY <2>7, <1>a DEF FetchList, FirstStart
    <3> QED BY <2>4, <3>1
  <2>8. ASSUME JobLog, NEW v \in Changes(revision, job.latest), r = v.rev PROVE Served(s)'
    <3>1. CASE LastChange(s) <= revision
      BY <2>4, <3>1, <1>a, <1>c DEF Covered
    <3>2. CASE LastChange(s) > revision
      <4>1. LastChange(s) <= job.latest
        <5>1. job.latest \in Nat
          BY RepoBounds DEF RTypeInv, RTypeOK, Revs
        <5> QED BY <2>3, <2>8, <1>c, <5>1
      <4>2. PICK u \in Changes(revision, job.latest) : u.slug = s
        BY <1>a, <2>3, <3>2, <4>1, ChangesHoldLast
      <4>3. u \in Requests'
        <5>1. job' = IF Changes(revision, job.latest) = {} THEN IdleJob
                     ELSE [pc |-> "queue", latest |-> 0,
                           todo |-> Changes(revision, job.latest)]
          BY <2>8 DEF JobLog
        <5>2. u \in job'.todo
          BY <4>2, <5>1
        <5> QED BY <5>2 DEF Requests
      <4> QED BY <4>2, <4>3 DEF Served, Pending
    <3> QED BY <2>3, <3>1, <3>2, <1>c
  <2> QED BY <1>d, <2>5, <2>6, <2>7, <2>8
<1> QED BY <1>1, <1>2, <1>b DEF Covered

\* The job reads the log up to a change that exists, and an extension that has been
\* published has been.
LEMMA LogInvStep ==
    ASSUME RTypeInv, RTypeInv', AllPublished, JobInv, [Next]_vars
    PROVE  AllPublished' /\ JobInv'
<1>a. Len(log) \in Nat /\ Len(log') \in Nat /\ job.latest \in Nat /\ job.latest <= Len(log)
  <2>1. log \in Seq(Slugs) /\ log' \in Seq(Slugs) /\ job.latest \in Revs
    BY DEF RTypeInv, RTypeOK
  <2> QED BY <2>1, RepoBounds DEF Revs, JobInv
<1>b. Len(log') >= Len(log)
  <2>1. Slugs # {} => Len(log') >= Len(log)
    BY LastGrows
  <2>2. log' = log => Len(log') >= Len(log)
    BY <1>a
  <2> QED BY <2>1, <2>2, LogSteps
<1>1. AllPublished'
  <2> SUFFICES ASSUME NEW s \in Slugs PROVE LastChange(s)' # 0
    BY DEF AllPublished
  <2>1. LastChange(s) \in Nat /\ LastChange(s) # 0
    BY LastBound DEF AllPublished
  <2>2. LastChange(s)' >= LastChange(s)
    BY LastGrows
  <2> QED BY <2>1, <2>2
<1>2. JobInv'
  <2>1. CASE job' = job
    BY <2>1, <1>a, <1>b DEF JobInv
  <2>2. CASE job' = IdleJob
    BY <2>2, <1>a DEF IdleJob, JobInv
  <2>3. CASE JobStart
    <3>1. job'.latest = job.latest /\ job'.todo = job.todo /\ job.pc = "idle"
      BY <2>3 DEF JobStart, RTypeInv, RTypeOK
    <3> QED BY <3>1, <1>a, <1>b DEF JobInv
  <2>4. CASE JobRevision
    <3>1. /\ job'.latest = Len(log) /\ job'.todo = job.todo /\ job.pc = "rev"
          /\ log' = log
      BY <2>4 DEF JobRevision, RTypeInv, RTypeOK, Latest
    <3> QED BY <3>1, <1>a DEF JobInv
  <2>5. CASE JobLog
    <3>1. job' = IdleJob \/ (job'.pc = "queue" /\ job'.latest = 0)
      BY <2>5 DEF JobLog
    <3>2. CASE job'.pc = "queue" /\ job'.latest = 0
      BY <3>2, <1>a DEF JobInv
    <3> QED BY <2>2, <3>1, <3>2
  <2>6. ASSUME NEW u \in UpdateRequest, JobQueue(u) PROVE JobInv'
    <3>1. job' = IdleJob \/ (job'.pc = "queue" /\ job'.latest = job.latest)
      BY <2>6 DEF JobQueue, RTypeInv, RTypeOK
    <3>2. CASE job'.pc = "queue" /\ job'.latest = job.latest
      BY <3>2, <1>a, <1>b DEF JobInv
    <3> QED BY <2>2, <3>1, <3>2
  <2>7. \/ job' = job \/ job' = IdleJob \/ JobStart \/ JobRevision \/ JobLog
        \/ \E u \in UpdateRequest : JobQueue(u)
    BY DEF Next, Load, LoadStep, LoadExisting, LoadFails, LoadIndexes, FetchList,
        ListNext, StartUpdateWorkers,
           JobStep, JobFails, Restart, Commit,
           UpdateStep, Take, Add, Get, Fetch, Build, Swap, SetOpen, SetClosed, SetStatus,
           SaveExt, SetRev, SaveBegin, SaveEnd, SwapFails, UpdateFails, vars
  <2> QED BY <2>1, <2>2, <2>3, <2>4, <2>5, <2>6, <2>7
<1> QED BY <1>1, <1>2

\* The first process finds nothing during the whole of its start.
LEMMA FirstStartStep ==
    ASSUME RTypeInv, FirstStart, [Next]_vars, ~Restart
    PROVE  FirstStart'
<1>1. CASE Load
  <2>1. dbExts = {} /\ revision = 0
    BY <1>1 DEF Load, LoadExisting, LoadFails, LoadIndexes, FirstStart
  <2>2. dbExts' = {} /\ revision' = 0 /\ \A s \in Slugs : objs'[s] = <<>>
    BY <1>1, <2>1 DEF Load, LoadExisting, LoadFails, LoadIndexes, dbVars
  <2> QED BY <2>2 DEF FirstStart, Exists
<1>2. CASE FetchList
    BY <1>2 DEF FetchList, FirstStart, dbVars
<1>3. ASSUME NEW s \in Slugs, ListNext(s) PROVE FirstStart'
    BY <1>3 DEF ListNext, FirstStart, dbVars
<1>4. CASE StartUpdateWorkers
    BY <1>4 DEF StartUpdateWorkers, FirstStart
<1>5. ASSUME NEW w \in Workers, UpdateStep(w) \/ SwapFails(w) \/ UpdateFails(w)
      PROVE  FirstStart'
  <2>1. phase = "ready"
    BY <1>5 DEF UpdateStep, Take, Add, Get, Fetch, Build, Swap, SetOpen, SetClosed, SetStatus,
                SaveExt, SetRev, SaveBegin, SaveEnd, SwapFails, UpdateFails, RTypeInv, InHand
  <2>2. phase' = phase
    BY <1>5 DEF UpdateStep, Take, Add, Get, Fetch, Build, Swap, SetOpen, SetClosed, SetStatus,
                SaveExt, SetRev, SaveBegin, SaveEnd, SwapFails, UpdateFails, loadVars
  <2> QED BY <2>1, <2>2 DEF FirstStart
<1>6. ASSUME JobStart \/ JobStep \/ JobFails \/ (\E s \in Slugs : Commit(s)) \/ UNCHANGED vars
      PROVE  FirstStart'
  <2>1. UNCHANGED <<phase, dbExts, revision, objs>>
    BY <1>6 DEF JobStart, JobStep, JobRevision, JobLog, JobQueue, JobFails, Commit,
                loadVars, dbVars, vars
  <2> QED BY <2>1 DEF FirstStart, Exists
<1> QED BY <1>1, <1>2, <1>3, <1>4, <1>5, <1>6 DEF Next, Load, LoadStep

\* The first process starts with an empty list and a directory where everything has
\* been published.
LEMMA InitCover == Init => CoverInv
<1> SUFFICES ASSUME Init PROVE CoverInv
    OBVIOUS
<1>0. RTypeInv
    BY InitRTypeInv
<1>1. AllPublished
  <2> SUFFICES ASSUME NEW s \in Slugs PROVE LastChange(s) # 0
    BY DEF AllPublished
  <2>1. log \in Seq(Slugs) /\ Len(log) \in Nat /\ DOMAIN log = 1 .. Len(log)
    BY <1>0 DEF RTypeInv, RTypeOK
  <2>2. PICK i \in 1 .. Len(log) : log[i] = s
    BY <2>1 DEF Init
  <2>3. i <= LastChange(s) /\ LastChange(s) \in 0 .. Len(log)
    BY <2>1, <2>2, LastOfIs, LastIs
  <2> QED BY <2>1, <2>2, <2>3
<1>2. JobInv
    BY <1>0 DEF Init, JobInv, IdleJob, RTypeInv, RTypeOK
<1>3. FirstStart /\ \A s \in Slugs : ~Exists(s)
    BY DEF Init, FirstStart, Exists
<1>4. ASSUME NEW r \in Planned PROVE r = 0
  <2>1. /\ revision = 0 /\ listRev = 0 /\ queue = <<>> /\ job.todo = {}
        /\ \A w \in Workers : wk[w].rev = 0
    BY DEF Init, IdleJob, IdleWorker
  <2>2. Requests = {}
    BY <2>1 DEF Requests, Elems
  <2> QED BY <2>1, <2>2 DEF Planned
<1>5. ASSUME NEW r \in Planned PROVE Covered(r)
  <2>1. r = 0 /\ 0 <= Len(log)
    BY <1>0, <1>4 DEF RTypeInv, RTypeOK
  <2> QED BY <1>3, <2>1 DEF Covered
<1> QED BY <1>1, <1>2, <1>3, <1>5 DEF CoverInv

\* While the workers keep apart: everything above.
LEMMA CoverAlways ==
    Spec /\ []WorkersApart
    => [](RTypeInv /\ IndexInv /\ SingleInv /\ NewestInv /\ CoverInv)
<1>1. /\ RTypeInv /\ RTypeInv' /\ IndexInv /\ SingleInv /\ NewestInv /\ CoverInv
      /\ [Next]_vars
      => CoverInv'
  <2> SUFFICES ASSUME RTypeInv, RTypeInv', IndexInv, SingleInv, NewestInv, CoverInv,
                      [Next]_vars
               PROVE  CoverInv'
    OBVIOUS
  <2>1. AllPublished' /\ JobInv'
    BY LogInvStep DEF CoverInv
  <2>2. ASSUME Undisturbed' PROVE FirstStart' /\ \A r \in Planned' : Covered(r)'
    <3>1. ~Restart /\ FirstStart
      BY <2>2, StillUndisturbed DEF CoverInv
    <3> QED BY <2>2, <3>1, FirstStartStep, CoveredStep
  <2> QED BY <2>1, <2>2 DEF CoverInv
<1> QED BY <1>1, NewestAlways, InitCover, PTL DEF Spec

\* While the workers keep apart, and as long as no step of an update fails and the process
\* is not restarted, the files of every extension whose last change the Repo's revision
\* covers are indexed, or their update is under way: no change is lost.
THEOREM NoChangeGetsLost == Spec /\ []WorkersApart => []NoChangeIsLost
<1>1. RTypeInv /\ IndexInv /\ CoverInv => NoChangeIsLost
  <2> SUFFICES ASSUME RTypeInv, IndexInv, CoverInv, Undisturbed, NEW s \in Slugs,
                      Exists(s), LastChange(s) <= revision, ~UnderWay(s)
               PROVE  Indexed(s) /\ Version(s) = LastChange(s)
    BY DEF NoChangeIsLost, RevisionIsCovered
  <2>1. Served(s)
    BY DEF CoverInv, Planned, Covered
  <2>2. ~Pending(s)
    BY DEF Pending, Requests, Elems, UnderWay
  <2>3. \A w \in Workers : ~InWork(w, s)
    BY DEF InWork, UnderWay
  <2>4. PICK d \in disk : d.id = DirOf(s) /\ d.ver = LastChange(s)
    BY <2>1, <2>2, <2>3 DEF Served, IsCurrent
  <2> QED BY <2>4, SearchedDir DEF Indexed
<1> QED BY <1>1, CoverAlways, PTL

\* With one worker, as in repo_one, all this holds without a condition: it keeps apart
\* from itself.  The counters are right, files never get older, and a change that the
\* revision covers is indexed.
COROLLARY OneWorkerSuffices ==
    (\A v, w \in Workers : v = w)
    => (Spec => []CountersMatchList /\ NeverOlder /\ []NoChangeIsLost)
<1> SUFFICES ASSUME \A v, w \in Workers : v = w
             PROVE  Spec => []CountersMatchList /\ NeverOlder /\ []NoChangeIsLost
    OBVIOUS
<1>1. WorkersApart
    BY DEF WorkersApart
<1>2. []WorkersApart
    BY <1>1, PTL
<1> QED BY <1>2, CountersAreRight, NeverOlderApart, NoChangeGetsLost, PTL
=============================================================================
