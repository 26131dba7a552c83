--------------------------- MODULE RepositoryProofs ---------------------------
(***************************************************************************)
(* Proofs about Repository, for every number of extensions, workers,       *)
(* failures and restarts: the variables keep their types, an open          *)
(* extension has an index of its own on disk, no index is shared, the      *)
(* saved revision never falls, and the load does not block on a queue that *)
(* has two places for each extension.                                      *)
(***************************************************************************)
EXTENDS Repository, TLAPS, FiniteSetTheorems, SequenceTheorems, WellFoundedInduction

-----------------------------------------------------------------------------
(* What the load does, whether or not all the directories that are to go do *)

Load == LoadExisting \/ \E d \in disk \ KeptDirs : LoadFails(d)

LEMMA LoadIs ==
    ASSUME Load
    PROVE  \E kept \in SUBSET KeptDirs, rest \in SUBSET disk :
               /\ LoadIndexes(kept, rest)
               /\ \/ kept = KeptDirs /\ rest = {} /\ faults' = faults
                  \/ faults < MaxFaults /\ faults' = faults + 1
<1>1. CASE LoadExisting
    BY <1>1 DEF LoadExisting
<1>2. ASSUME NEW d \in disk \ KeptDirs, LoadFails(d)
      PROVE  \E kept \in SUBSET KeptDirs : /\ LoadIndexes(kept, {d})
                                          /\ faults < MaxFaults /\ faults' = faults + 1
    BY <1>2 DEF LoadFails
<1>3. ASSUME NEW d \in disk \ KeptDirs, LoadFails(d)
      PROVE  \E kept \in SUBSET KeptDirs, rest \in SUBSET disk :
               /\ LoadIndexes(kept, rest)
               /\ faults < MaxFaults /\ faults' = faults + 1
    BY <1>2, <1>3
<1> QED BY <1>1, <1>3 DEF Load

-----------------------------------------------------------------------------
(* Numbers and sequences *)

\* A set of revisions has a last one: the least of the distances to the bound.
LEMMA MaxExists ==
    ASSUME NEW n \in Nat, NEW S \in SUBSET (0..n), S # {}
    PROVE  \E x \in S : \A y \in S : x >= y
<1> DEFINE T == {n - x : x \in S}
<1>1. T \subseteq Nat /\ T # {}
  <2>1. \A x \in S : n - x \in Nat
      OBVIOUS
  <2>2. PICK x \in S : TRUE
      OBVIOUS
  <2>3. n - x \in T
      OBVIOUS
  <2> QED BY <2>1, <2>3, Zenon
<1>2. \E t \in T : \A u \in T : <<u, t>> \notin OpToRel(<, Nat)
    BY <1>1, NatLessThanWellFounded, WFMin, Zenon
<1>3. PICK t \in T : \A u \in T : <<u, t>> \notin OpToRel(<, Nat)
    BY <1>2
<1>4. \A u \in T : ~(u < t)
    BY <1>1, <1>3 DEF OpToRel
<1>5. PICK x \in S : t = n - x
    OBVIOUS
<1>6. ASSUME NEW y \in S PROVE x >= y
    BY <1>4, <1>5
<1> QED BY <1>6

\* The last change of an extension is a revision (Fetch).
LEMMA LastChangeType ==
    ASSUME log \in Seq(Slugs), Len(log) <= MaxRev, NEW s \in Slugs
    PROVE  LastChange(s) \in Revs
<1> DEFINE S == {0} \cup {i \in DOMAIN log : log[i] = s}
<1>1. MaxRev \in Nat /\ Len(log) \in Nat
    BY RepoBounds
<1>2. S \in SUBSET (0..MaxRev) /\ S # {}
    BY <1>1
<1> HIDE DEF S
<1>3. \E x \in S : \A y \in S : x >= y
    BY <1>1, <1>2, MaxExists
<1>4. Max(S) \in S
    BY <1>3 DEF Max
<1> QED BY <1>2, <1>4 DEF LastChange, S, Revs

\* Replacing an element of a sequence (SwapIndexes and SetStatus change a struct
\* in place).
LEMMA ReplaceInSeq ==
    ASSUME NEW S, NEW q \in Seq(S), NEW k \in 1..Len(q), NEW e \in S
    PROVE  /\ [q EXCEPT ![k] = e] \in Seq(S)
           /\ Len([q EXCEPT ![k] = e]) = Len(q)
           /\ \A i \in 1..Len(q) :
                 [q EXCEPT ![k] = e][i] = IF i = k THEN e ELSE q[i]
BY ExceptSeq

-----------------------------------------------------------------------------
(* Type correctness *)

\* A worker past Get has a struct of its extension in hand.
Holding == {"fetch", "build", "swap", "open", "close"}

\* What typing needs beside the types: a busy worker has an extension, which was
\* in the list when it was looked up, and nobody works during the load.
InHand ==
    /\ phase # "ready" => \A w \in Workers : wk[w].pc = "idle"
    /\ phase = "load" => \A s \in Slugs : objs[s] = <<>>
    /\ \A w \in Workers :
          /\ wk[w].pc # "idle" => wk[w].slug \in Slugs
          /\ wk[w].pc = "get" => objs[wk[w].slug] # <<>>
          /\ wk[w].pc \in Holding => wk[w].obj \in 1..Len(objs[wk[w].slug])

RTypeInv == RTypeOK /\ InHand

\* The first process is well typed.
LEMMA InitRTypeInv == Init => RTypeInv
<1> SUFFICES ASSUME Init PROVE RTypeInv
    OBVIOUS
<1> USE DEF Init
<1>1. Cardinality(Slugs) \in Nat
    BY SlugsAssumption, FS_CardinalityType
<1>2. log \in Seq(Slugs) /\ Len(log) <= MaxRev
    BY <1>1, SlugsAssumption
<1>3. IdleWorker \in Worker
    BY RepoBounds DEF IdleWorker, Worker, Revs
<1>4. RTypeOK
    BY <1>2, <1>3, RepoBounds, QueueCapAssumption
    DEF RTypeOK, IdleJob, Revs, Dirs
<1>5. InHand
    BY DEF InHand, IdleWorker, Holding
<1> QED BY <1>4, <1>5 DEF RTypeInv

\* A step of one worker that leaves it an extension and a struct whenever it needs
\* them, and shortens no list of structs, keeps what is said of the workers.
LEMMA WorkerStep ==
    ASSUME RTypeInv, NEW w \in Workers, phase' = "ready",
           wk' \in [Workers -> Worker], \A v \in Workers \ {w} : wk'[v] = wk[v],
           objs' \in [Slugs -> Seq(Extension)],
           \A s \in Slugs : Len(objs'[s]) >= Len(objs[s]),
           wk'[w].pc # "idle" => wk'[w].slug \in Slugs,
           wk'[w].pc = "get" => objs'[wk'[w].slug] # <<>>,
           wk'[w].pc \in Holding => wk'[w].obj \in 1..Len(objs'[wk'[w].slug])
    PROVE  InHand'
<1>1. \A s \in Slugs : /\ Len(objs[s]) \in Nat /\ Len(objs'[s]) \in Nat
                       /\ objs[s] # <<>> <=> Len(objs[s]) > 0
                       /\ objs'[s] # <<>> <=> Len(objs'[s]) > 0
    BY EmptySeq, LenProperties DEF RTypeInv, RTypeOK
<1>2. ASSUME NEW v \in Workers
      PROVE  /\ wk'[v].pc # "idle" => wk'[v].slug \in Slugs
             /\ wk'[v].pc = "get" => objs'[wk'[v].slug] # <<>>
             /\ wk'[v].pc \in Holding => wk'[v].obj \in 1..Len(objs'[wk'[v].slug])
  <2>1. CASE v = w
      BY <2>1
  <2>2. CASE v # w
    <3>1. wk'[v] = wk[v] /\ wk[v] \in Worker
        BY <2>2 DEF RTypeInv, RTypeOK
    <3>2. CASE wk[v].pc = "idle"
        BY <3>1, <3>2 DEF Holding
    <3>3. CASE wk[v].pc # "idle"
      <4>1. wk[v].slug \in Slugs
          BY <3>3 DEF RTypeInv, InHand
      <4>2. wk[v].pc = "get" => objs'[wk[v].slug] # <<>>
          BY <4>1, <1>1 DEF RTypeInv, InHand
      <4>3. wk[v].pc \in Holding => wk[v].obj \in 1..Len(objs'[wk[v].slug])
        <5>1. wk[v].pc \in Holding => wk[v].obj \in 1..Len(objs[wk[v].slug])
            BY DEF RTypeInv, InHand
        <5> QED BY <4>1, <5>1, <1>1
      <4> QED BY <3>1, <4>1, <4>2, <4>3
    <3> QED BY <3>2, <3>3
  <2> QED BY <2>1, <2>2
<1> QED BY <1>2 DEF InHand

\* Records of a worker: when it receives a request and after SaveExt ...
Pcs == {"idle", "add", "get", "fetch", "build", "swap", "open", "close", "saveext",
        "setrev", "save", "put"}

LEMMA IdleIsWorker == IdleWorker \in Worker
BY RepoBounds DEF Worker, IdleWorker, Revs

Requested(x, p, s, n) == [x EXCEPT !.pc = p, !.slug = s, !.rev = n]

LEMMA RequestedIsWorker ==
    ASSUME NEW x \in Worker, NEW p \in Pcs, NEW s \in Slugs, NEW n \in Revs
    PROVE  /\ Requested(x, p, s, n) \in Worker
           /\ Requested(x, p, s, n).pc = p /\ Requested(x, p, s, n).slug = s
<1>1. [x EXCEPT !.pc = p, !.slug = s, !.rev = n] \in Worker
    BY DEF Worker, Pcs
<1>2. LET r == [x EXCEPT !.pc = p, !.slug = s, !.rev = n]
      IN  r.pc = p /\ r.slug = s
    BY DEF Worker
<1> QED BY <1>1, <1>2 DEF Requested

\* ... and when it has built a directory.
HasBuilt(x, i) == [x EXCEPT !.pc = "swap", !.dir = i, !.got = 0]

LEMMA HasBuiltIsWorker ==
    ASSUME NEW x \in Worker, NEW i \in Dirs
    PROVE  /\ HasBuilt(x, i) \in Worker
           /\ HasBuilt(x, i).pc = "swap" /\ HasBuilt(x, i).dir = i
           /\ HasBuilt(x, i).slug = x.slug /\ HasBuilt(x, i).obj = x.obj
<1>0. i \in 0..MaxDirs /\ 0 \in Revs
    BY RepoBounds DEF Dirs, Revs
<1>1. [x EXCEPT !.pc = "swap", !.dir = i, !.got = 0] \in Worker
    BY <1>0 DEF Worker
<1>2. LET r == [x EXCEPT !.pc = "swap", !.dir = i, !.got = 0]
      IN  r.pc = "swap" /\ r.dir = i /\ r.slug = x.slug /\ r.obj = x.obj
    BY DEF Worker
<1> QED BY <1>1, <1>2 DEF HasBuilt

\* The workers' steps that leave the structs alone.
LEMMA WorkerTypes ==
    ASSUME RTypeInv, NEW w \in Workers,
           \/ Take(w) \/ Get(w) \/ Fetch(w) \/ Build(w) \/ UpdateFails(w)
           \/ SaveExt(w) \/ SetRev(w) \/ SaveBegin(w) \/ SaveEnd(w)
    PROVE  RTypeInv'
<1> USE RepoBounds
<1>b. wk \in [Workers -> Worker] /\ revision \in Revs /\ 0 \in Revs
    BY DEF RTypeInv, RTypeOK, Revs
<1>a. /\ \A s \in Slugs : Len(objs[s]) \in Nat /\ Len(objs[s]) >= Len(objs[s])
      /\ objs \in [Slugs -> Seq(Extension)]
    BY DEF RTypeInv, RTypeOK
<1>1. ASSUME Take(w) PROVE RTypeInv'
  <2> DEFINE u == Head(queue)
  <2>1. /\ phase = "ready" /\ u \in UpdateRequest
        /\ Tail(queue) \in Seq(UpdateRequest) /\ Len(Tail(queue)) <= QueueCap
      BY <1>1, QueueCapAssumption DEF Take, RTypeInv, RTypeOK
  <2>2. /\ wk' \in [Workers -> Worker]
        /\ \A v \in Workers \ {w} : wk'[v] = wk[v]
        /\ wk'[w].slug = u.slug /\ u.slug \in Slugs
        /\ wk'[w].pc = IF Exists(u.slug) THEN "get" ELSE "add"
    <3> HIDE DEF u
    <3>1. u.slug \in Slugs /\ u.rev \in Revs
        BY <2>1 DEF UpdateRequest
    <3> DEFINE p == IF Exists(u.slug) THEN "get" ELSE "add"
               r == Requested(IdleWorker, p, u.slug, u.rev)
    <3>2. wk' = [wk EXCEPT ![w] = r]
        BY <1>1 DEF Take, Requested, u
    <3>3. p \in {"get", "add"}
        OBVIOUS
    <3> HIDE DEF p
    <3>4. p \in Pcs
        BY <3>3 DEF Pcs
    <3> HIDE DEF u
    <3>5. r \in Worker /\ r.slug = u.slug /\ r.pc = p
        BY <3>1, <3>4, IdleIsWorker, RequestedIsWorker
    <3> HIDE DEF r
    <3> QED BY <1>b, <3>1, <3>2, <3>5 DEF p
  <2>3. UNCHANGED <<phase, objs>>
      BY <1>1 DEF Take, loadVars
  <2> HIDE DEF u
  <2>4. InHand'
      BY <1>a, <2>1, <2>2, <2>3, WorkerStep DEF Holding, Exists
  <2>5. RTypeOK'
      BY <1>1, <2>1, <2>2
      DEF Take, RTypeInv, RTypeOK, loadVars, countVars, dbVars, envVars
  <2> QED BY <2>4, <2>5 DEF RTypeInv
<1>2. ASSUME Get(w) PROVE RTypeInv'
  <2>1. phase = "ready" /\ wk[w].slug \in Slugs /\ objs[wk[w].slug] # <<>>
      BY <1>2 DEF Get, RTypeInv, InHand
  <2>2. /\ Current(wk[w].slug) \in Nat
        /\ Current(wk[w].slug) \in 1..Len(objs[wk[w].slug])
      BY <1>a, <2>1, EmptySeq, LenProperties DEF Current
  <2>3. /\ wk' \in [Workers -> Worker]
        /\ \A v \in Workers \ {w} : wk'[v] = wk[v]
        /\ wk'[w].pc = "fetch" /\ wk'[w].slug = wk[w].slug
        /\ wk'[w].obj = Current(wk[w].slug)
      BY <1>2, <2>2 DEF Get, RTypeInv, RTypeOK, Worker
  <2>4. UNCHANGED <<phase, objs>>
      BY <1>2 DEF Get, loadVars
  <2>5. InHand'
      BY <1>a, <2>1, <2>2, <2>3, <2>4, WorkerStep DEF Holding
  <2>6. RTypeOK'
      BY <1>2, <2>3
      DEF Get, RTypeInv, RTypeOK, loadVars, countVars, dbVars, envVars
  <2> QED BY <2>5, <2>6 DEF RTypeInv
<1>3. ASSUME Fetch(w) PROVE RTypeInv'
  <2>0. LastChange(wk[w].slug) \in Revs
      BY <1>3, LastChangeType DEF Fetch, RTypeInv, RTypeOK, InHand
  <2>1. phase = "ready" /\ wk[w].slug \in Slugs /\ wk[w].rev \in Revs /\ wk[w].got \in Revs
        /\ (wk[w].pc \in Holding => wk[w].obj \in 1..Len(objs[wk[w].slug]))
      BY <1>3 DEF Fetch, RTypeInv, InHand, RTypeOK, Worker
  <2>2. /\ wk' \in [Workers -> Worker]
        /\ \A v \in Workers \ {w} : wk'[v] = wk[v]
        /\ wk'[w].pc = "build" /\ wk'[w].slug = wk[w].slug /\ wk'[w].obj = wk[w].obj
      BY <1>3, <1>b, <2>0 DEF Fetch, Worker
  <2>3. UNCHANGED <<phase, objs>>
      BY <1>3 DEF Fetch, loadVars
  <2>4. InHand'
      BY <1>3, <1>a, <2>1, <2>2, <2>3, WorkerStep DEF Fetch, Holding
  <2>5. RTypeOK'
      BY <1>3, <2>1, <2>2
      DEF Fetch, RTypeInv, RTypeOK, loadVars, countVars, dbVars, envVars
  <2> QED BY <2>4, <2>5 DEF RTypeInv
<1>4. ASSUME Build(w) PROVE RTypeInv'
  <2>1. phase = "ready" /\ wk[w].slug \in Slugs /\ wk[w].rev \in Revs /\ wk[w].got \in Revs
        /\ (wk[w].pc \in Holding => wk[w].obj \in 1..Len(objs[wk[w].slug]))
      BY <1>4 DEF Build, RTypeInv, InHand, RTypeOK, Worker
  <2>2. /\ wk' \in [Workers -> Worker]
        /\ \A v \in Workers \ {w} : wk'[v] = wk[v]
        /\ wk'[w].pc = "swap" /\ wk'[w].slug = wk[w].slug /\ wk'[w].obj = wk[w].obj
    <3>1. PICK i \in Dirs :
              wk' = [wk EXCEPT ![w].pc = "swap", ![w].dir = i, ![w].got = 0]
        BY <1>4 DEF Build
    <3> DEFINE r == HasBuilt(wk[w], i)
    <3>2. wk' = [wk EXCEPT ![w] = r]
        BY <1>b, <3>1 DEF HasBuilt
    <3>3. wk[w] \in Worker
        BY <1>b
    <3>4. r \in Worker /\ r.pc = "swap" /\ r.slug = wk[w].slug /\ r.obj = wk[w].obj
        BY <3>3, HasBuiltIsWorker
    <3> HIDE DEF r
    <3> QED BY <1>b, <3>2, <3>4
  <2>3. UNCHANGED <<phase, objs>>
      BY <1>4 DEF Build, loadVars
  <2>4. InHand'
      BY <1>4, <1>a, <2>1, <2>2, <2>3, WorkerStep DEF Build, Holding
  <2>d. disk' \in SUBSET [id : Dirs, slug : Slugs, ver : Revs]
    <3>1. PICK i \in Dirs :
              disk' = disk \cup {[id |-> i, slug |-> wk[w].slug, ver |-> wk[w].got]}
        BY <1>4 DEF Build
    <3>2. disk \in SUBSET [id : Dirs, slug : Slugs, ver : Revs]
        BY DEF RTypeInv, RTypeOK
    <3> QED BY <2>1, <3>1, <3>2
  <2>5. RTypeOK'
      BY <1>4, <2>1, <2>2, <2>d
      DEF Build, RTypeInv, RTypeOK, loadVars, countVars, dbVars, envVars
  <2> QED BY <2>4, <2>5 DEF RTypeInv
<1>5. ASSUME UpdateFails(w) PROVE RTypeInv'
  <2>1. phase = "ready" /\ wk[w].slug \in Slugs /\ wk[w].rev \in Revs /\ wk[w].got \in Revs
        /\ (wk[w].pc \in Holding => wk[w].obj \in 1..Len(objs[wk[w].slug]))
      BY <1>5 DEF UpdateFails, RTypeInv, InHand, RTypeOK, Worker
  <2>2. /\ wk' \in [Workers -> Worker]
        /\ \A v \in Workers \ {w} : wk'[v] = wk[v]
        /\ wk'[w].pc = "close" /\ wk'[w].slug = wk[w].slug /\ wk'[w].obj = wk[w].obj
      BY <1>5, <1>b DEF UpdateFails, Worker
  <2>3. UNCHANGED <<phase, objs>>
      BY <1>5 DEF UpdateFails, loadVars
  <2>4. InHand'
      BY <1>5, <1>a, <2>1, <2>2, <2>3, WorkerStep DEF UpdateFails, Holding
  <2>5. RTypeOK'
      BY <1>5, <2>1, <2>2
      DEF UpdateFails, RTypeInv, RTypeOK, loadVars, countVars, dbVars, envVars
  <2> QED BY <2>4, <2>5 DEF RTypeInv
<1>6. ASSUME SaveExt(w) PROVE RTypeInv'
  <2>1. phase = "ready" /\ wk[w].slug \in Slugs /\ wk[w].rev \in Revs /\ wk[w].got \in Revs
        /\ (wk[w].pc \in Holding => wk[w].obj \in 1..Len(objs[wk[w].slug]))
      BY <1>6 DEF SaveExt, RTypeInv, InHand, RTypeOK, Worker
  <2>2. /\ wk' \in [Workers -> Worker]
        /\ \A v \in Workers \ {w} : wk'[v] = wk[v]
        /\ wk'[w].pc = "setrev" /\ wk'[w].slug = wk[w].slug
    <3> DEFINE r == Requested(IdleWorker, "setrev", wk[w].slug, wk[w].rev)
    <3>1. wk' = [wk EXCEPT ![w] = r]
        BY <1>6 DEF SaveExt, Requested
    <3>2. "setrev" \in Pcs
        BY DEF Pcs
    <3>3. r \in Worker /\ r.pc = "setrev" /\ r.slug = wk[w].slug
        BY <2>1, <3>2, IdleIsWorker, RequestedIsWorker
    <3> HIDE DEF r
    <3> QED BY <1>b, <3>1, <3>3
  <2>3. UNCHANGED <<phase, objs>>
      BY <1>6 DEF SaveExt, loadVars
  <2>4. InHand'
      BY <1>6, <1>a, <2>1, <2>2, <2>3, WorkerStep DEF SaveExt, Holding
  <2>5. RTypeOK'
      BY <1>6, <2>1, <2>2
      DEF SaveExt, RTypeInv, RTypeOK, loadVars, countVars, dbVars, envVars
  <2> QED BY <2>4, <2>5 DEF RTypeInv
<1>7. ASSUME SetRev(w) PROVE RTypeInv'
  <2>1. phase = "ready" /\ wk[w].slug \in Slugs /\ wk[w].rev \in Revs /\ wk[w].got \in Revs
        /\ (wk[w].pc \in Holding => wk[w].obj \in 1..Len(objs[wk[w].slug]))
      BY <1>7 DEF SetRev, RTypeInv, InHand, RTypeOK, Worker
  <2>2. /\ wk' \in [Workers -> Worker]
        /\ \A v \in Workers \ {w} : wk'[v] = wk[v]
        /\ wk'[w].pc = "save" /\ wk'[w].slug = wk[w].slug /\ wk'[w].obj = wk[w].obj
      BY <1>7, <1>b DEF SetRev, Worker
  <2>3. UNCHANGED <<phase, objs>>
      BY <1>7 DEF SetRev, loadVars
  <2>4. InHand'
      BY <1>7, <1>a, <2>1, <2>2, <2>3, WorkerStep DEF SetRev, Holding
  <2>5. RTypeOK'
      BY <1>7, <2>1, <2>2
      DEF SetRev, RTypeInv, RTypeOK, loadVars, countVars, dbVars, envVars
  <2> QED BY <2>4, <2>5 DEF RTypeInv
<1>8. ASSUME SaveBegin(w) PROVE RTypeInv'
  <2>1. phase = "ready" /\ wk[w].slug \in Slugs /\ wk[w].rev \in Revs /\ wk[w].got \in Revs
        /\ (wk[w].pc \in Holding => wk[w].obj \in 1..Len(objs[wk[w].slug]))
      BY <1>8 DEF SaveBegin, RTypeInv, InHand, RTypeOK, Worker
  <2>2. /\ wk' \in [Workers -> Worker]
        /\ \A v \in Workers \ {w} : wk'[v] = wk[v]
        /\ wk'[w].pc = "put" /\ wk'[w].slug = wk[w].slug /\ wk'[w].obj = wk[w].obj
      BY <1>8, <1>b DEF SaveBegin, Worker
  <2>3. UNCHANGED <<phase, objs>>
      BY <1>8 DEF SaveBegin, loadVars
  <2>4. InHand'
      BY <1>8, <1>a, <2>1, <2>2, <2>3, WorkerStep DEF SaveBegin, Holding
  <2>5. RTypeOK'
      BY <1>8, <2>1, <2>2
      DEF SaveBegin, RTypeInv, RTypeOK, loadVars, countVars, dbVars, envVars
  <2> QED BY <2>4, <2>5 DEF RTypeInv
<1>9. ASSUME SaveEnd(w) PROVE RTypeInv'
  <2>1. phase = "ready" /\ wk[w].slug \in Slugs /\ wk[w].rev \in Revs /\ wk[w].got \in Revs
        /\ (wk[w].pc \in Holding => wk[w].obj \in 1..Len(objs[wk[w].slug]))
      BY <1>9 DEF SaveEnd, RTypeInv, InHand, RTypeOK, Worker
  <2>2. /\ wk' \in [Workers -> Worker]
        /\ \A v \in Workers \ {w} : wk'[v] = wk[v]
        /\ wk'[w].pc = "idle"
      BY <1>9, <1>b DEF SaveEnd, Worker, IdleWorker, Revs
  <2>3. UNCHANGED <<phase, objs>>
      BY <1>9 DEF SaveEnd, loadVars
  <2>4. InHand'
      BY <1>9, <1>a, <2>1, <2>2, <2>3, WorkerStep DEF SaveEnd, Holding
  <2>5. RTypeOK'
      BY <1>9, <2>1, <2>2
      DEF SaveEnd, RTypeInv, RTypeOK, loadVars, countVars, dbVars, envVars
  <2> QED BY <2>4, <2>5 DEF RTypeInv
<1> QED BY <1>1, <1>2, <1>3, <1>4, <1>5, <1>6, <1>7, <1>8, <1>9

\* A struct is changed in place (SwapIndexes, SetStatus).
Changed(o, s, k, e) == [o EXCEPT ![s][k] = e]

IsChanged(n, o, s, k, e) ==
    /\ n \in [Slugs -> Seq(Extension)]
    /\ \A t \in Slugs : Len(n[t]) = Len(o[t])
    /\ \A t \in Slugs : \A l \in 1..Len(o[t]) :
          n[t][l] = IF t = s /\ l = k THEN e ELSE o[t][l]

LEMMA StructChanged ==
    ASSUME NEW o \in [Slugs -> Seq(Extension)], NEW s \in Slugs,
           NEW k \in 1..Len(o[s]), NEW e \in Extension
    PROVE  IsChanged(Changed(o, s, k, e), o, s, k, e)
<1> DEFINE q == [o[s] EXCEPT ![k] = e]
<1>1. q \in Seq(Extension) /\ Len(q) = Len(o[s])
      /\ \A l \in 1..Len(o[s]) : q[l] = IF l = k THEN e ELSE o[s][l]
    BY ReplaceInSeq
<1> DEFINE n == Changed(o, s, k, e)
<1>2. n = [o EXCEPT ![s] = q]
    BY DEF Changed
<1> HIDE DEF q, n
<1>3. \A t \in Slugs : n[t] = IF t = s THEN q ELSE o[t]
    BY <1>2
<1>4. /\ n \in [Slugs -> Seq(Extension)]
      /\ \A t \in Slugs : Len(n[t]) = Len(o[t])
      /\ \A t \in Slugs : \A l \in 1..Len(o[t]) :
            n[t][l] = IF t = s /\ l = k THEN e ELSE o[t][l]
    BY <1>1, <1>2, <1>3
<1> QED BY <1>4 DEF n, IsChanged

\* The struct a worker has in hand is one.
LEMMA StructInHand ==
    ASSUME RTypeInv, NEW w \in Workers, wk[w].pc \in Holding
    PROVE  /\ phase = "ready" /\ wk[w].slug \in Slugs
           /\ wk[w].obj \in 1..Len(objs[wk[w].slug])
           /\ objs[wk[w].slug][wk[w].obj] \in Extension
<1>1. phase = "ready" /\ wk[w].slug \in Slugs /\ wk[w].obj \in 1..Len(objs[wk[w].slug])
    BY DEF RTypeInv, InHand, Holding
<1>2. objs[wk[w].slug] \in Seq(Extension)
    BY <1>1 DEF RTypeInv, RTypeOK
<1> QED BY <1>1, <1>2, ElementOfSeq

\* The structs after SwapIndexes and after SetStatus.
LEMMA SwappedObjs ==
    ASSUME RTypeInv, NEW w \in Workers, wk[w].pc = "swap"
    PROVE  objs' = [objs EXCEPT ![wk[w].slug][wk[w].obj].dir = wk[w].dir] =>
           /\ objs' \in [Slugs -> Seq(Extension)]
           /\ \A t \in Slugs : Len(objs'[t]) = Len(objs[t])
           /\ \A t \in Slugs : \A l \in 1..Len(objs[t]) :
                 objs'[t][l] = IF t = wk[w].slug /\ l = wk[w].obj
                               THEN [objs[t][l] EXCEPT !.dir = wk[w].dir]
                               ELSE objs[t][l]
<1> DEFINE s == wk[w].slug
           k == wk[w].obj
           e == [objs[s][k] EXCEPT !.dir = wk[w].dir]
           n == Changed(objs, s, k, e)
<1>1. s \in Slugs /\ k \in 1..Len(objs[s]) /\ objs[s][k] \in Extension
    BY StructInHand DEF Holding
<1>2. wk[w].dir \in 0..MaxDirs /\ objs \in [Slugs -> Seq(Extension)]
    BY DEF RTypeInv, RTypeOK, Worker
<1>3. e \in Extension
    BY <1>1, <1>2 DEF Extension
<1> HIDE DEF e, s, k
<1>4. IsChanged(n, objs, s, k, e)
    BY <1>1, <1>2, <1>3, StructChanged
<1>5. ASSUME objs' = [objs EXCEPT ![wk[w].slug][wk[w].obj].dir = wk[w].dir]
      PROVE  objs' = n
    BY <1>5 DEF Changed, e, s, k
<1> HIDE DEF n
<1>6. ASSUME objs' = n
      PROVE  /\ objs' \in [Slugs -> Seq(Extension)]
             /\ \A t \in Slugs : Len(objs'[t]) = Len(objs[t])
             /\ \A t \in Slugs : \A l \in 1..Len(objs[t]) :
                   objs'[t][l] = IF t = s /\ l = k THEN e ELSE objs[t][l]
    BY <1>4, <1>6 DEF IsChanged
<1> QED BY <1>5, <1>6 DEF e, s, k

IsStatus(o, s, k, x) ==
    \E e \in Extension :
        e.status = x /\ e.dir = objs[s][k].dir /\ IsChanged(o, objs, s, k, e)

LEMMA StatusObjs ==
    ASSUME RTypeInv, NEW w \in Workers, wk[w].pc \in {"open", "close"},
           NEW x \in {"open", "closed"},
           objs' = [objs EXCEPT ![wk[w].slug][wk[w].obj].status = x]
    PROVE  IsStatus(objs', wk[w].slug, wk[w].obj, x)
<1> DEFINE s == wk[w].slug
           k == wk[w].obj
           e == [objs[s][k] EXCEPT !.status = x]
<1>1. s \in Slugs /\ k \in 1..Len(objs[s]) /\ objs[s][k] \in Extension
    BY StructInHand DEF Holding
<1>2. objs \in [Slugs -> Seq(Extension)]
    BY DEF RTypeInv, RTypeOK
<1>3. e \in Extension /\ e.status = x /\ e.dir = objs[s][k].dir
    BY <1>1 DEF Extension
<1>4. objs' = Changed(objs, s, k, e)
    BY DEF Changed
<1> HIDE DEF e, s, k
<1>5. IsChanged(Changed(objs, s, k, e), objs, s, k, e)
    BY <1>1, <1>2, <1>3, StructChanged
<1>6. IsChanged(objs', objs, s, k, e)
    BY <1>4, <1>5
<1> QED BY <1>3, <1>6 DEF IsStatus, s, k

\* The structs after Add, of a worker or of UpdateList.
Closed0 == [status |-> "closed", dir |-> 0]

LEMMA AddedObjs ==
    ASSUME RTypeInv, NEW s \in Slugs
    PROVE  objs' = [objs EXCEPT ![s] = Append(@, Closed0)] =>
           /\ objs' \in [Slugs -> Seq(Extension)]
           /\ \A t \in Slugs \ {s} : objs'[t] = objs[t]
           /\ Len(objs'[s]) = Len(objs[s]) + 1
           /\ \A l \in 1..Len(objs[s]) : objs'[s][l] = objs[s][l]
           /\ objs'[s][Len(objs[s]) + 1] = Closed0
<1> DEFINE q == Append(objs[s], Closed0)
<1>1. Closed0 \in Extension
    BY RepoBounds DEF Extension, Closed0
<1>2. objs \in [Slugs -> Seq(Extension)]
    BY DEF RTypeInv, RTypeOK
<1>3. /\ q \in Seq(Extension) /\ Len(q) = Len(objs[s]) + 1
      /\ \A l \in 1..Len(objs[s]) : q[l] = objs[s][l]
      /\ q[Len(objs[s]) + 1] = Closed0
    BY <1>1, <1>2, AppendProperties
<1> HIDE DEF q
<1>4. ASSUME objs' = [objs EXCEPT ![s] = Append(@, Closed0)]
      PROVE  /\ objs' \in [Slugs -> Seq(Extension)]
             /\ objs'[s] = q /\ \A t \in Slugs \ {s} : objs'[t] = objs[t]
    BY <1>2, <1>3, <1>4 DEF q
<1> QED BY <1>3, <1>4

\* The workers' steps that change the structs.
LEMMA StructTypes ==
    ASSUME RTypeInv, NEW w \in Workers,
           Add(w) \/ Swap(w) \/ SwapFails(w) \/ SetOpen(w) \/ SetClosed(w)
    PROVE  RTypeInv'
<1>a. /\ wk \in [Workers -> Worker] /\ objs \in [Slugs -> Seq(Extension)]
      /\ \A s \in Slugs : Len(objs[s]) \in Nat
    BY DEF RTypeInv, RTypeOK
<1>1. ASSUME Add(w) PROVE RTypeInv'
  <2> DEFINE s == wk[w].slug
  <2>1. phase = "ready" /\ s \in Slugs
      BY <1>1 DEF Add, RTypeInv, InHand
  <2>2. objs' = [objs EXCEPT ![s] = Append(@, Closed0)]
      BY <1>1 DEF Add, Closed0
  <2>3. /\ wk' \in [Workers -> Worker]
        /\ \A v \in Workers \ {w} : wk'[v] = wk[v]
        /\ wk'[w].pc = "get" /\ wk'[w].slug = s
      BY <1>1, <1>a DEF Add, Worker
  <2> HIDE DEF s
  <2>4. /\ objs' \in [Slugs -> Seq(Extension)]
        /\ \A t \in Slugs : Len(objs'[t]) >= Len(objs[t])
        /\ objs'[s] # <<>>
    <3>1. /\ objs' \in [Slugs -> Seq(Extension)]
          /\ \A t \in Slugs \ {s} : objs'[t] = objs[t]
          /\ Len(objs'[s]) = Len(objs[s]) + 1
        BY <2>1, <2>2, AddedObjs
    <3>2. Len(objs'[s]) > 0 /\ Len(objs'[s]) \in Nat
        BY <3>1, <2>1, <1>a
    <3>3. objs'[s] # <<>>
        BY <3>2, EmptySeq
    <3> QED BY <3>1, <3>3, <1>a
  <2>5. InHand'
    <3>1. phase' = "ready"
        BY <1>1, <2>1 DEF Add, loadVars
    <3> QED BY <2>1, <2>3, <2>4, <3>1, WorkerStep DEF Holding
  <2>6. RTypeOK'
      BY <1>1, <2>3, <2>4
      DEF Add, RTypeInv, RTypeOK, loadVars, dbVars, envVars
  <2> QED BY <2>5, <2>6 DEF RTypeInv
<1>2. ASSUME Swap(w) \/ SwapFails(w) PROVE RTypeInv'
  <2> DEFINE s == wk[w].slug
  <2>1. phase = "ready" /\ s \in Slugs /\ wk[w].obj \in 1..Len(objs[s])
      BY <1>2, StructInHand DEF Swap, SwapFails, Holding
  <2>2. /\ wk[w].pc = "swap"
        /\ objs' = [objs EXCEPT ![wk[w].slug][wk[w].obj].dir = wk[w].dir]
      BY <1>2 DEF Swap, SwapFails
  <2>3. /\ wk' \in [Workers -> Worker]
        /\ \A v \in Workers \ {w} : wk'[v] = wk[v]
        /\ wk'[w].pc \in {"open", "close"} /\ wk'[w].slug = s
        /\ wk'[w].obj = wk[w].obj
    <3>1. PICK p \in {"open", "close"} : wk' = [wk EXCEPT ![w].pc = p]
        BY <1>2 DEF Swap, SwapFails
    <3> QED BY <3>1, <1>a DEF Worker
  <2>4. /\ objs' \in [Slugs -> Seq(Extension)]
        /\ \A t \in Slugs : Len(objs'[t]) = Len(objs[t])
      BY <2>2, SwappedObjs
  <2> HIDE DEF s
  <2>5. InHand'
    <3>1. phase' = "ready"
        BY <1>2, <2>1 DEF Swap, SwapFails, loadVars
    <3>2. /\ \A t \in Slugs : Len(objs'[t]) >= Len(objs[t])
          /\ wk'[w].obj \in 1..Len(objs'[s])
        BY <1>a, <2>1, <2>3, <2>4
    <3> QED BY <2>1, <2>3, <2>4, <3>1, <3>2, WorkerStep
  <2>6. disk' \in SUBSET [id : Dirs, slug : Slugs, ver : Revs]
        /\ faults' \in 0..MaxFaults
      BY <1>2, RepoBounds DEF Swap, SwapFails, Without, RTypeInv, RTypeOK, envVars
  <2>7. RTypeOK'
      BY <1>2, <2>3, <2>4, <2>6
      DEF Swap, SwapFails, RTypeInv, RTypeOK, loadVars, countVars, dbVars, envVars
  <2> QED BY <2>5, <2>7 DEF RTypeInv
<1>3. ASSUME SetOpen(w) \/ SetClosed(w) PROVE RTypeInv'
  <2> DEFINE s == wk[w].slug
  <2>1. PICK new \in {"open", "closed"} :
            /\ wk[w].pc \in {"open", "close"}
            /\ closed' = ClosedAfter(objs[s][wk[w].obj].status, new)
            /\ objs' = [objs EXCEPT ![wk[w].slug][wk[w].obj].status = new]
      BY <1>3 DEF SetOpen, SetClosed, SetStatus
  <2>2. phase = "ready" /\ s \in Slugs /\ wk[w].obj \in 1..Len(objs[s])
      BY <2>1, StructInHand DEF Holding
  <2>3. /\ wk' \in [Workers -> Worker]
        /\ \A v \in Workers \ {w} : wk'[v] = wk[v]
        /\ \/ wk'[w].pc = "saveext" /\ wk'[w].slug = s
           \/ wk'[w].pc = "idle"
    <3>1. CASE SetOpen(w)
      <4>1. wk' = [wk EXCEPT ![w] = [wk[w] EXCEPT !.pc = "saveext"]]
          BY <3>1 DEF SetOpen, SetStatus
      <4> QED BY <4>1, <1>a DEF Worker
    <3>2. CASE SetClosed(w)
      <4>1. wk' = [wk EXCEPT ![w] = IdleWorker] /\ IdleWorker.pc = "idle"
          BY <3>2 DEF SetClosed, SetStatus, IdleWorker
      <4> QED BY <4>1, <1>a, IdleIsWorker
    <3> QED BY <1>3, <3>1, <3>2
  <2>4. /\ objs' \in [Slugs -> Seq(Extension)]
        /\ \A t \in Slugs : Len(objs'[t]) = Len(objs[t])
      BY <2>1, StatusObjs DEF IsStatus, IsChanged
  <2>5. closed' \in Int
      BY <2>1 DEF ClosedAfter, RTypeInv, RTypeOK
  <2> HIDE DEF s
  <2>6. InHand'
    <3>1. phase' = "ready"
        BY <1>3, <2>2 DEF SetOpen, SetClosed, SetStatus, loadVars
    <3>2. \A t \in Slugs : Len(objs'[t]) >= Len(objs[t])
        BY <1>a, <2>4
    <3> QED BY <2>2, <2>3, <2>4, <3>1, <3>2, WorkerStep DEF Holding
  <2>7. RTypeOK'
      BY <1>3, <2>3, <2>4, <2>5
      DEF SetOpen, SetClosed, SetStatus, RTypeInv, RTypeOK, loadVars, dbVars, envVars
  <2> QED BY <2>6, <2>7 DEF RTypeInv
<1> QED BY <1>1, <1>2, <1>3

\* QueueUpdate.
LEMMA QueueTypes ==
    ASSUME RTypeInv,
           \/ queue' = queue
           \/ \E u \in UpdateRequest : queue' = Append(queue, u) /\ Len(queue) < QueueCap
    PROVE  queue' \in Seq(UpdateRequest) /\ Len(queue') <= QueueCap
<1>1. queue \in Seq(UpdateRequest) /\ Len(queue) <= QueueCap
    BY DEF RTypeInv, RTypeOK
<1>2. CASE queue' = queue
    BY <1>1, <1>2
<1>3. ASSUME NEW u \in UpdateRequest, queue' = Append(queue, u), Len(queue) < QueueCap
      PROVE  queue' \in Seq(UpdateRequest) /\ Len(queue') <= QueueCap
    BY <1>1, <1>3, AppendProperties, QueueCapAssumption
<1> QED BY <1>2, <1>3

\* What it makes of an extension with a record.
LEMMA LoadedType ==
    ASSUME RTypeInv, NEW s \in Slugs, NEW kept \in SUBSET KeptDirs
    PROVE  /\ <<Loaded(kept, s)>> \in Seq(Extension)
           /\ LET x == Loaded(kept, s)
              IN  /\ x.dir # 0 => \E d \in kept : d.id = x.dir /\ d.slug = s
                  /\ x.status = "open" => x.dir # 0
                  /\ \A d \in kept : d.slug = s => x.status = "open"
<1> DEFINE c == CHOOSE d \in kept : d.slug = s
           x == Loaded(kept, s)
<1>1. \A d \in kept : d.id \in 1..MaxDirs
    BY DEF KeptDirs, RTypeInv, RTypeOK, Dirs
<1>2. CASE \E d \in kept : d.slug = s
  <2>1. c \in kept /\ c.slug = s
      BY <1>2
  <2>3. x = [status |-> "open", dir |-> c.id]
      BY <1>2 DEF Loaded
  <2> HIDE DEF c, x
  <2>2. c.id \in 0..MaxDirs /\ c.id # 0
      BY <1>1, <2>1, RepoBounds
  <2>4. x \in Extension /\ x.dir = c.id /\ x.status = "open"
      BY <2>2, <2>3 DEF Extension
  <2>5. <<x>> \in Seq(Extension)
      BY <2>4
  <2> QED BY <2>1, <2>2, <2>4, <2>5 DEF x
<1>3. CASE ~\E d \in kept : d.slug = s
  <2>1. x = [status |-> "closed", dir |-> 0]
      BY <1>3 DEF Loaded
  <2> HIDE DEF x
  <2>2. x \in Extension /\ x.dir = 0 /\ x.status = "closed"
      BY <2>1, RepoBounds DEF Extension
  <2>3. <<x>> \in Seq(Extension)
      BY <2>2
  <2> QED BY <1>3, <2>2, <2>3 DEF x
<1> QED BY <1>2, <1>3

\* Start-up, the directory, the job and a restart.
LEMMA OtherTypes ==
    ASSUME RTypeInv,
           \/ LoadStep \/ Load \/ JobStart \/ JobStep \/ JobFails \/ Restart
           \/ \E s \in Slugs : Commit(s)
    PROVE  RTypeInv'
<1> USE RepoBounds
<1>1. ASSUME Load PROVE RTypeInv'
  <2>1. PICK kept \in SUBSET KeptDirs, rest \in SUBSET disk :
            /\ LoadIndexes(kept, rest)
            /\ \/ kept = KeptDirs /\ rest = {} /\ faults' = faults
               \/ faults < MaxFaults /\ faults' = faults + 1
      BY <1>1, LoadIs
  <2>2. objs' \in [Slugs -> Seq(Extension)]
    <3>1. <<>> \in Seq(Extension)
        OBVIOUS
    <3> QED BY <2>1, <3>1, LoadedType DEF LoadIndexes
  <2>3. total' \in Int /\ closed' \in Int
    <3>1. \A S \in SUBSET dbExts : Cardinality(S) \in Int
      <4>1. IsFiniteSet(dbExts)
          BY SlugsAssumption, FS_Subset DEF RTypeInv, RTypeOK
      <4> QED BY <4>1, FS_Subset, FS_CardinalityType
    <3> QED BY <2>1, <3>1 DEF LoadIndexes
  <2>4. disk' \in SUBSET [id : Dirs, slug : Slugs, ver : Revs]
      BY <2>1 DEF LoadIndexes, KeptDirs, RTypeInv, RTypeOK
  <2>5. phase' = "list" /\ phase = "load" /\ faults' \in 0..MaxFaults
      BY <2>1 DEF LoadIndexes, RTypeInv, RTypeOK
  <2>6. RTypeOK'
      BY <2>1, <2>2, <2>3, <2>4, <2>5 DEF LoadIndexes, RTypeInv, RTypeOK, dbVars
  <2>7. InHand'
      BY <2>1, <2>5 DEF LoadIndexes, RTypeInv, InHand, Holding
  <2> QED BY <2>6, <2>7 DEF RTypeInv
<1>2. ASSUME FetchList PROVE RTypeInv'
  <2>1. list' \in SUBSET Slugs /\ listRev' \in Revs /\ phase' = "queue" /\ phase = "list"
      BY <1>2 DEF FetchList, Latest, Revs, RTypeInv, RTypeOK
  <2>2. RTypeOK'
      BY <1>2, <2>1
      DEF FetchList, RTypeInv, RTypeOK, countVars, dbVars, envVars
  <2>3. InHand'
      BY <1>2, <2>1 DEF FetchList, RTypeInv, InHand
  <2> QED BY <2>2, <2>3 DEF RTypeInv
<1>3. ASSUME NEW s \in Slugs, ListNext(s) PROVE RTypeInv'
  <2>1. phase = "queue" /\ phase' = "queue" /\ wk' = wk
      BY <1>3 DEF ListNext
  <2>2. objs' \in [Slugs -> Seq(Extension)]
    <3>1. <<[status |-> "closed", dir |-> 0]>> \in Seq(Extension)
        BY DEF Extension
    <3> QED BY <1>3, <3>1 DEF ListNext, RTypeInv, RTypeOK
  <2>3. total' \in Int /\ closed' \in Int
      BY <1>3 DEF ListNext, countVars, RTypeInv, RTypeOK
  <2>4. queue' \in Seq(UpdateRequest) /\ Len(queue') <= QueueCap
    <3>1. [slug |-> s, rev |-> listRev] \in UpdateRequest
        BY DEF UpdateRequest, RTypeInv, RTypeOK
    <3>2. \/ queue' = queue
          \/ \E u \in UpdateRequest : queue' = Append(queue, u) /\ Len(queue) < QueueCap
        BY <1>3, <3>1 DEF ListNext
    <3> QED BY <3>2, QueueTypes
  <2>5. list' \in SUBSET Slugs
      BY <1>3 DEF ListNext, RTypeInv, RTypeOK
  <2>6. RTypeOK'
      BY <1>3, <2>1, <2>2, <2>3, <2>4, <2>5
      DEF ListNext, RTypeInv, RTypeOK, dbVars, envVars
  <2>7. InHand'
      BY <2>1 DEF RTypeInv, InHand, Holding
  <2> QED BY <2>6, <2>7 DEF RTypeInv
<1>4. ASSUME StartUpdateWorkers PROVE RTypeInv'
  <2>1. RTypeOK'
      BY <1>4
      DEF StartUpdateWorkers, RTypeInv, RTypeOK, countVars, dbVars, envVars
  <2>2. InHand'
      BY <1>4 DEF StartUpdateWorkers, RTypeInv, InHand, Holding
  <2> QED BY <2>1, <2>2 DEF RTypeInv
<1>5. ASSUME \/ JobStart \/ JobStep \/ JobFails
             \/ \E s \in Slugs : Commit(s)
      PROVE  RTypeInv'
  <2>1. UNCHANGED <<phase, fresh, list, listRev, objs, revision, total, closed, wk,
                    dbExts, dbRev, disk, crashes>>
      BY <1>5 DEF JobStart, JobStep, JobRevision, JobLog, JobQueue, JobFails, Commit,
                  loadVars, countVars, dbVars, envVars
  <2>2. log' \in Seq(Slugs) /\ Len(log') <= MaxRev
    <3>1. \/ log' = log
          \/ \E s \in Slugs : log' = Append(log, s) /\ Len(log) < MaxRev
        BY <1>5 DEF JobStart, JobStep, JobRevision, JobLog, JobQueue, JobFails, Commit
    <3>2. log \in Seq(Slugs) /\ Len(log) <= MaxRev
        BY DEF RTypeInv, RTypeOK
    <3>3. ASSUME NEW s \in Slugs, log' = Append(log, s), Len(log) < MaxRev
          PROVE  log' \in Seq(Slugs) /\ Len(log') <= MaxRev
        BY <3>2, <3>3, AppendProperties
    <3> QED BY <3>1, <3>2, <3>3
  <2>3. queue' \in Seq(UpdateRequest) /\ Len(queue') <= QueueCap
    <3>1. \/ queue' = queue
          \/ \E u \in UpdateRequest : queue' = Append(queue, u) /\ Len(queue) < QueueCap
        BY <1>5 DEF JobStart, JobStep, JobRevision, JobLog, JobQueue, JobFails, Commit
    <3> QED BY <3>1, QueueTypes
  <2>4. faults' \in 0..MaxFaults
      BY <1>5 DEF JobStart, JobStep, JobRevision, JobLog, JobQueue, JobFails, Commit,
                  RTypeInv, RTypeOK, envVars
  <2> DEFINE J == [pc : {"idle", "rev", "log", "queue"}, latest : Revs,
                   todo : SUBSET UpdateRequest]
  <2>5. job' \in J
    <3>1. job \in J /\ Latest \in Revs /\ IdleJob \in J
        BY DEF RTypeInv, RTypeOK, Latest, Revs, IdleJob
    <3>2. CASE JobStart
        BY <3>1, <3>2 DEF JobStart
    <3>3. CASE JobRevision
        BY <3>1, <3>3 DEF JobRevision
    <3>4. CASE JobLog
      <4>1. Changes(revision, job.latest) \subseteq UpdateRequest /\ 0 \in Revs
          BY DEF Changes, Revs
      <4>2. [pc |-> "queue", latest |-> 0, todo |-> Changes(revision, job.latest)] \in J
          BY <4>1
      <4> QED BY <3>1, <3>4, <4>2 DEF JobLog
    <3>5. CASE \E u \in UpdateRequest : JobQueue(u)
      <4>1. PICK u \in UpdateRequest :
                job' = IdleJob \/ job' = [job EXCEPT !.todo = @ \ {u}]
          BY <3>5 DEF JobQueue
      <4> QED BY <3>1, <4>1
    <3>6. CASE JobFails
        BY <3>1, <3>6 DEF JobFails
    <3>7. CASE \E s \in Slugs : Commit(s)
        BY <3>1, <3>7 DEF Commit
    <3> QED BY <1>5, <3>2, <3>3, <3>4, <3>5, <3>6, <3>7 DEF JobStep
  <2>6. RTypeOK'
      BY <2>1, <2>2, <2>3, <2>4, <2>5 DEF RTypeInv, RTypeOK
  <2>7. InHand'
      BY <2>1 DEF RTypeInv, InHand
  <2> QED BY <2>6, <2>7 DEF RTypeInv
<1>6. ASSUME Restart PROVE RTypeInv'
  <2>1. IdleWorker \in Worker /\ IdleWorker.pc = "idle"
      BY IdleIsWorker DEF IdleWorker
  <2>2. wk' \in [Workers -> Worker] /\ \A w \in Workers : wk'[w].pc = "idle"
      BY <1>6, <2>1 DEF Restart
  <2>3. InHand'
      BY <1>6, <2>2 DEF Restart, InHand, Holding
  <2>4. queue' \in Seq(UpdateRequest) /\ Len(queue') <= QueueCap
      BY <1>6, QueueCapAssumption DEF Restart
  <2>5. objs' \in [Slugs -> Seq(Extension)]
      BY <1>6 DEF Restart
  <2>6. job' \in [pc : {"idle", "rev", "log", "queue"}, latest : Revs,
                  todo : SUBSET UpdateRequest]
      BY <1>6 DEF Restart, IdleJob, Revs
  <2>7. RTypeOK'
      BY <1>6, <2>2, <2>4, <2>5, <2>6 DEF Restart, RTypeInv, RTypeOK, dbVars, Revs
  <2> QED BY <2>3, <2>7 DEF RTypeInv
<1> QED BY <1>1, <1>2, <1>3, <1>4, <1>5, <1>6 DEF LoadStep, Load

\* Every step keeps the types.
LEMMA RTypeInvStep == RTypeInv /\ [Next]_vars => RTypeInv'
<1> SUFFICES ASSUME RTypeInv, [Next]_vars PROVE RTypeInv'
    OBVIOUS
<1>1. ASSUME NEW w \in Workers, UpdateStep(w) \/ SwapFails(w) \/ UpdateFails(w)
      PROVE  RTypeInv'
    BY <1>1, WorkerTypes, StructTypes DEF UpdateStep
<1>2. CASE UNCHANGED vars
    BY <1>2 DEF vars, loadVars, countVars, dbVars, envVars, RTypeInv, RTypeOK, InHand
<1>3. CASE \/ LoadStep \/ Load \/ JobStart \/ JobStep \/ JobFails \/ Restart
           \/ \E s \in Slugs : Commit(s)
    BY <1>3, OtherTypes
<1> QED BY <1>1, <1>2, <1>3 DEF Next, Load

\* The variables always have their types, and nobody works on an extension that
\* is not in the list.
THEOREM RTypeCorrect == Spec => []RTypeOK
<1>1. Spec => []RTypeInv
    BY InitRTypeInv, RTypeInvStep, PTL DEF Spec
<1>2. RTypeInv => RTypeOK
    BY DEF RTypeInv
<1> QED BY <1>1, <1>2, PTL

-----------------------------------------------------------------------------
(* The saved revision *)

\* save writes the revision it has read: nobody sets it in between, for save
\* holds the read lock (repo.go:411).
RevInv ==
    /\ dbRev <= revision
    /\ \A w \in Workers : wk[w].pc = "put" => wk[w].rev = revision

\* The steps that neither set nor save the revision.
LEMMA RevisionKept ==
    ASSUME RTypeInv, RevInv, UNCHANGED <<revision, dbRev>>, NEW w \in Workers,
           \A v \in Workers \ {w} : wk'[v] = wk[v],
           wk'[w].pc = "put" => wk'[w].rev = revision
    PROVE  RevInv'
BY DEF RevInv

\* Every step keeps it, and the saved revision does not fall in it.
LEMMA RevInvStep ==
    ASSUME RTypeInv, RevInv, [Next]_vars
    PROVE  RevInv' /\ dbRev' >= dbRev
<1>a. wk \in [Workers -> Worker] /\ revision \in Nat /\ dbRev \in Nat
    BY RepoBounds DEF RTypeInv, RTypeOK, Revs
<1>1. ASSUME UNCHANGED <<revision, dbRev, wk>>
      PROVE  RevInv' /\ dbRev' >= dbRev
    BY <1>1, <1>a DEF RevInv
<1>2. ASSUME \/ LoadStep \/ Load \/ JobStart \/ JobStep \/ JobFails
             \/ \E s \in Slugs : Commit(s)
             \/ UNCHANGED vars
      PROVE  UNCHANGED <<revision, dbRev, wk>>
    BY <1>2 DEF Load, LoadStep, LoadExisting, LoadFails, LoadIndexes, FetchList,
        ListNext, StartUpdateWorkers,
                JobStart, JobStep, JobRevision, JobLog, JobQueue, JobFails, Commit,
                vars, loadVars, countVars, dbVars, envVars
<1>3. CASE Restart
  <2>1. revision' = dbRev /\ dbRev' = dbRev
        /\ \A w \in Workers : wk'[w].pc = "idle"
      BY <1>3 DEF Restart, dbVars, IdleWorker
  <2> QED BY <2>1, <1>a DEF RevInv
<1>4. ASSUME NEW w \in Workers, UpdateStep(w) \/ SwapFails(w) \/ UpdateFails(w)
      PROVE  RevInv' /\ dbRev' >= dbRev
  <2>0. wk[w] \in Worker
      BY <1>a
  <2>1. CASE SetRev(w)
    <3>1. wk' = [wk EXCEPT ![w].pc = "save"] /\ RFree /\ dbRev' = dbRev
          /\ revision' = IF wk[w].rev > revision THEN wk[w].rev ELSE revision
        BY <2>1 DEF SetRev, dbVars
    <3>2. wk[w].rev \in Nat
        BY <2>0, RepoBounds DEF Worker, Revs
    <3>3. dbRev <= revision'
        BY <1>a, <3>1, <3>2 DEF RevInv
    <3>4. \A v \in Workers : wk'[v].pc # "put"
        BY <1>a, <3>1 DEF RFree, Worker
    <3> QED BY <3>1, <3>3, <3>4, <1>a DEF RevInv
  <2>2. CASE SaveBegin(w)
    <3>1. wk' = [wk EXCEPT ![w].pc = "put", ![w].rev = revision]
          /\ UNCHANGED <<revision, dbRev>>
        BY <2>2 DEF SaveBegin, dbVars
    <3>2. wk'[w].rev = revision /\ \A v \in Workers \ {w} : wk'[v] = wk[v]
        BY <1>a, <3>1 DEF Worker
    <3>3. RevInv'
        BY <3>1, <3>2, RevisionKept
    <3> QED BY <3>1, <3>3, <1>a
  <2>3. CASE SaveEnd(w)
    <3>1. /\ wk[w].pc = "put" /\ wk' = [wk EXCEPT ![w] = IdleWorker]
          /\ dbRev' \in {wk[w].rev, dbRev} /\ revision' = revision
        BY <2>3 DEF SaveEnd
    <3>2. dbRev' <= revision /\ dbRev' >= dbRev
        BY <1>a, <3>1 DEF RevInv
    <3>3. \A v \in Workers : wk'[v].pc = "put" => wk'[v] = wk[v]
        BY <1>a, <3>1 DEF IdleWorker
    <3> QED BY <3>1, <3>2, <3>3 DEF RevInv
  <2>4. ASSUME \/ Take(w) \/ Add(w) \/ Get(w) \/ Fetch(w) \/ Build(w)
               \/ Swap(w) \/ SetOpen(w) \/ SetClosed(w) \/ SaveExt(w)
               \/ SwapFails(w) \/ UpdateFails(w)
        PROVE  RevInv' /\ dbRev' >= dbRev
    <3>1. UNCHANGED <<revision, dbRev>>
        BY <2>4 DEF Take, Add, Get, Fetch, Build, Swap, SetOpen, SetClosed, SetStatus,
                    SaveExt, SwapFails, UpdateFails, dbVars
    <3>2. wk'[w].pc # "put" /\ \A v \in Workers \ {w} : wk'[v] = wk[v]
      <4>1. CASE Take(w)
        <5>1. PICK p \in {"get", "add"} : \E s, n :
                  wk' = [wk EXCEPT ![w] =
                            [IdleWorker EXCEPT !.pc = p, !.slug = s, !.rev = n]]
            BY <4>1 DEF Take
        <5> QED BY <1>a, <5>1 DEF IdleWorker
      <4>2. CASE Add(w)
          BY <1>a, <4>2 DEF Add, Worker
      <4>3. CASE Get(w)
          BY <1>a, <4>3 DEF Get, Worker
      <4>4. CASE Fetch(w)
          BY <1>a, <4>4 DEF Fetch, Worker
      <4>5. CASE Build(w)
        <5>1. PICK i \in Dirs :
                  wk' = [wk EXCEPT ![w].pc = "swap", ![w].dir = i, ![w].got = 0]
            BY <4>5 DEF Build
        <5> QED BY <1>a, <5>1 DEF Worker
      <4>6. CASE Swap(w)
          BY <1>a, <4>6 DEF Swap, Worker
      <4>7. CASE SwapFails(w)
          BY <1>a, <4>7 DEF SwapFails, Worker
      <4>8. CASE UpdateFails(w)
          BY <1>a, <4>8 DEF UpdateFails, Worker
      <4>9. CASE SetOpen(w)
          BY <1>a, <4>9 DEF SetOpen, SetStatus, Worker
      <4>10. CASE SetClosed(w)
          BY <1>a, <4>10 DEF SetClosed, SetStatus, IdleWorker
      <4>11. CASE SaveExt(w)
          BY <1>a, <4>11 DEF SaveExt, IdleWorker
      <4> QED BY <2>4, <4>1, <4>2, <4>3, <4>4, <4>5, <4>6, <4>7, <4>8, <4>9, <4>10, <4>11
    <3>3. RevInv'
        BY <3>1, <3>2, RevisionKept
    <3> QED BY <3>1, <3>3, <1>a
  <2> QED BY <1>4, <2>1, <2>2, <2>3, <2>4 DEF UpdateStep
<1> QED BY <1>1, <1>2, <1>3, <1>4 DEF Next, Load

\* The saved revision never falls, however many workers save, fail and restart.
THEOREM RevisionIsKept == Spec => SavedRevisionNeverFalls
<1>1. Init => RTypeInv /\ RevInv
  <2>1. Init => RevInv
      BY DEF Init, RevInv, IdleWorker
  <2> QED BY <2>1, InitRTypeInv
<1>2. RTypeInv /\ RevInv /\ [Next]_vars => RTypeInv' /\ RevInv'
    BY RTypeInvStep, RevInvStep
<1>3. RTypeInv /\ RevInv /\ [Next]_vars => [dbRev' >= dbRev]_dbRev
    BY RevInvStep
<1> QED BY <1>1, <1>2, <1>3, PTL DEF Spec, SavedRevisionNeverFalls

-----------------------------------------------------------------------------
(* The indexes on disk *)

UniqueIds == \A d, e \in disk : d.id = e.id => d = e

\* A struct that has a directory has one of its extension on disk, an open one
\* has a directory.
StructsAreBacked ==
    \A s \in Slugs : \A k \in 1..Len(objs[s]) :
        /\ objs[s][k].dir # 0 => \E d \in disk : d.id = objs[s][k].dir /\ d.slug = s
        /\ objs[s][k].status = "open" => objs[s][k].dir # 0

\* Two structs of an extension, of which there may be several after Add, have
\* directories of their own.
StructsAreApart ==
    \A s \in Slugs : \A k, l \in 1..Len(objs[s]) :
        objs[s][k].dir = objs[s][l].dir /\ objs[s][k].dir # 0 => k = l

\* A directory that is built and not installed is on disk and nobody else's.
BuiltIsOwn ==
    \A w \in Workers : wk[w].pc = "swap" =>
        /\ \E d \in disk : d.id = wk[w].dir /\ d.slug = wk[w].slug
        /\ \A s \in Slugs : \A k \in 1..Len(objs[s]) : objs[s][k].dir # wk[w].dir
        /\ \A v \in Workers \ {w} : wk[v].pc = "swap" => wk[v].dir # wk[w].dir

\* What is about to be opened has a directory.
OpensIndexed ==
    \A w \in Workers : wk[w].pc = "open" => objs[wk[w].slug][wk[w].obj].dir # 0

IndexInv ==
    UniqueIds /\ StructsAreBacked /\ StructsAreApart /\ BuiltIsOwn /\ OpensIndexed

\* Steps that leave the structs and the disk alone, and install nothing.
LEMMA IndexKept ==
    ASSUME IndexInv, UNCHANGED <<objs, disk>>,
           \A v \in Workers : wk'[v] = wk[v] \/ wk'[v].pc \notin {"swap", "open"}
    PROVE  IndexInv'
<1>1. UniqueIds' /\ StructsAreBacked' /\ StructsAreApart'
    BY DEF IndexInv, UniqueIds, StructsAreBacked, StructsAreApart
<1>2. BuiltIsOwn'
    BY DEF IndexInv, BuiltIsOwn
<1>3. OpensIndexed'
    BY DEF IndexInv, OpensIndexed
<1> QED BY <1>1, <1>2, <1>3 DEF IndexInv

\* Add: a struct without a directory.
LEMMA IndexAdd ==
    ASSUME RTypeInv, IndexInv, NEW w \in Workers, Add(w)
    PROVE  IndexInv'
<1> DEFINE s == wk[w].slug
<1>1. s \in Slugs
    BY DEF Add, RTypeInv, InHand
<1>2. objs' = [objs EXCEPT ![s] = Append(@, Closed0)] /\ disk' = disk
    BY DEF Add, Closed0
<1>3. /\ wk'[w].pc = "get"
      /\ \A v \in Workers \ {w} : wk'[v] = wk[v]
    BY DEF Add, RTypeInv, RTypeOK, Worker
<1> HIDE DEF s
<1>4. /\ \A t \in Slugs \ {s} : objs'[t] = objs[t]
      /\ Len(objs'[s]) = Len(objs[s]) + 1
      /\ \A l \in 1..Len(objs[s]) : objs'[s][l] = objs[s][l]
      /\ objs'[s][Len(objs[s]) + 1] = Closed0
    BY <1>1, <1>2, AddedObjs
<1>5. Len(objs[s]) \in Nat
    BY <1>1 DEF RTypeInv, RTypeOK
<1>6. ASSUME NEW t \in Slugs, NEW l \in 1..Len(objs'[t])
      PROVE  \/ objs'[t][l] = Closed0
             \/ l \in 1..Len(objs[t]) /\ objs'[t][l] = objs[t][l]
  <2>1. CASE t # s
      BY <1>4, <2>1
  <2>2. CASE t = s
      BY <1>4, <1>5, <2>2
  <2> QED BY <2>1, <2>2
<1>7. Closed0.dir = 0 /\ Closed0.status = "closed"
    BY DEF Closed0
<1>8. UniqueIds' /\ StructsAreBacked'
    BY <1>2, <1>6, <1>7 DEF IndexInv, UniqueIds, StructsAreBacked
<1>9. StructsAreApart'
    BY <1>6, <1>7 DEF IndexInv, StructsAreApart
<1>10. BuiltIsOwn'
  <2> SUFFICES ASSUME NEW v \in Workers, wk'[v].pc = "swap"
               PROVE  /\ \E d \in disk' : d.id = wk'[v].dir /\ d.slug = wk'[v].slug
                      /\ \A t \in Slugs : \A k \in 1..Len(objs'[t]) :
                            objs'[t][k].dir # wk'[v].dir
                      /\ \A u \in Workers \ {v} : wk'[u].pc = "swap" =>
                            wk'[u].dir # wk'[v].dir
      BY DEF BuiltIsOwn
  <2>1. wk'[v] = wk[v]
      BY <1>3
  <2>2. PICK d \in disk : d.id = wk[v].dir /\ d.slug = wk[v].slug
      BY <2>1 DEF IndexInv, BuiltIsOwn
  <2>3. wk[v].dir # 0
      BY <2>2 DEF RTypeInv, RTypeOK, Dirs
  <2>4. \A t \in Slugs : \A k \in 1..Len(objs'[t]) : objs'[t][k].dir # wk'[v].dir
      BY <2>1, <2>3, <1>6, <1>7 DEF IndexInv, BuiltIsOwn
  <2>5. \A u \in Workers \ {v} : wk'[u].pc = "swap" => wk'[u].dir # wk'[v].dir
      BY <2>1, <1>3 DEF IndexInv, BuiltIsOwn
  <2> QED BY <2>1, <2>2, <2>4, <2>5, <1>2
<1>11. OpensIndexed'
  <2> SUFFICES ASSUME NEW v \in Workers, wk'[v].pc = "open"
               PROVE  objs'[wk'[v].slug][wk'[v].obj].dir # 0
      BY DEF OpensIndexed
  <2>1. wk'[v] = wk[v] /\ wk[v].pc = "open"
      BY <1>3
  <2>2. wk[v].slug \in Slugs /\ wk[v].obj \in 1..Len(objs[wk[v].slug])
      BY <2>1, StructInHand DEF Holding
  <2>3. objs'[wk[v].slug][wk[v].obj] = objs[wk[v].slug][wk[v].obj]
      BY <2>2, <1>4
  <2> QED BY <2>1, <2>3 DEF IndexInv, OpensIndexed
<1> QED BY <1>8, <1>9, <1>10, <1>11 DEF IndexInv

\* Build: a directory later than all there are.
LEMMA IndexBuild ==
    ASSUME RTypeInv, IndexInv, NEW w \in Workers, Build(w)
    PROVE  IndexInv'
<1>1. PICK i \in Dirs :
          /\ \A d \in disk : d.id < i
          /\ disk' = disk \cup {[id |-> i, slug |-> wk[w].slug, ver |-> wk[w].got]}
          /\ wk' = [wk EXCEPT ![w].pc = "swap", ![w].dir = i, ![w].got = 0]
    BY DEF Build, IsNewDir
<1>2. objs' = objs
    BY DEF Build
<1>3. /\ wk'[w].pc = "swap" /\ wk'[w].dir = i /\ wk'[w].slug = wk[w].slug
      /\ \A v \in Workers \ {w} : wk'[v] = wk[v]
  <2>1. wk \in [Workers -> Worker]
      BY DEF RTypeInv, RTypeOK
  <2> QED BY <1>1, <2>1 DEF Worker
<1> DEFINE n == [id |-> i, slug |-> wk[w].slug, ver |-> wk[w].got]
<1>4. /\ n \in disk' /\ n.id = i /\ n.slug = wk[w].slug
      /\ \A d \in disk' : d = n \/ d \in disk
      /\ \A d \in disk : d \in disk'
    BY <1>1
<1>5. i \in Nat /\ \A d \in disk : d.id \in Nat /\ d.id # i
    BY <1>1 DEF RTypeInv, RTypeOK, Dirs
<1> HIDE DEF n
<1>6. UniqueIds'
    BY <1>4, <1>5 DEF IndexInv, UniqueIds
<1>7. StructsAreBacked'
    BY <1>2, <1>4 DEF IndexInv, StructsAreBacked
<1>8. StructsAreApart'
    BY <1>2 DEF IndexInv, StructsAreApart
<1>9. \A s \in Slugs : \A k \in 1..Len(objs[s]) : objs[s][k].dir # i
    BY <1>5, RepoBounds DEF IndexInv, StructsAreBacked, Dirs
<1>10. \A v \in Workers : wk[v].pc = "swap" => wk[v].dir # i
    BY <1>5 DEF IndexInv, BuiltIsOwn
<1>11. BuiltIsOwn'
  <2> SUFFICES ASSUME NEW v \in Workers, wk'[v].pc = "swap"
               PROVE  /\ \E d \in disk' : d.id = wk'[v].dir /\ d.slug = wk'[v].slug
                      /\ \A t \in Slugs : \A k \in 1..Len(objs'[t]) :
                            objs'[t][k].dir # wk'[v].dir
                      /\ \A u \in Workers \ {v} : wk'[u].pc = "swap" =>
                            wk'[u].dir # wk'[v].dir
      BY DEF BuiltIsOwn
  <2>1. CASE v = w
      BY <2>1, <1>2, <1>3, <1>4, <1>9, <1>10
  <2>2. CASE v # w
      BY <2>2, <1>2, <1>3, <1>4, <1>10 DEF IndexInv, BuiltIsOwn
  <2> QED BY <2>1, <2>2
<1>12. OpensIndexed'
    BY <1>2, <1>3 DEF IndexInv, OpensIndexed
<1> QED BY <1>6, <1>7, <1>8, <1>11, <1>12 DEF IndexInv

\* SwapIndexes: the old directory was this struct's alone, the new one is too.
LEMMA IndexSwap ==
    ASSUME RTypeInv, IndexInv, NEW w \in Workers, Swap(w) \/ SwapFails(w)
    PROVE  IndexInv'
<1> DEFINE s == wk[w].slug
           k == wk[w].obj
           b == wk[w].dir
           old == objs[s][k].dir
<1>1. /\ wk[w].pc = "swap"
      /\ objs' = [objs EXCEPT ![wk[w].slug][wk[w].obj].dir = wk[w].dir]
    BY DEF Swap, SwapFails
<1>2. s \in Slugs /\ k \in 1..Len(objs[s]) /\ objs[s][k] \in Extension
    BY <1>1, StructInHand DEF Holding
<1>3. /\ \A t \in Slugs : Len(objs'[t]) = Len(objs[t])
      /\ \A t \in Slugs : \A l \in 1..Len(objs[t]) :
            objs'[t][l] = IF t = s /\ l = k THEN [objs[t][l] EXCEPT !.dir = b]
                          ELSE objs[t][l]
    BY <1>1, SwappedObjs
<1>4. /\ wk'[w].pc \in {"open", "close"} /\ wk'[w].slug = s /\ wk'[w].obj = k
      /\ \A v \in Workers \ {w} : wk'[v] = wk[v]
  <2>1. PICK p \in {"open", "close"} : wk' = [wk EXCEPT ![w].pc = p]
      BY DEF Swap, SwapFails
  <2>2. wk \in [Workers -> Worker]
      BY DEF RTypeInv, RTypeOK
  <2> QED BY <2>1, <2>2 DEF Worker
<1>5. /\ \A d \in disk' : d \in disk
      /\ \A d \in disk : d.id # old => d \in disk'
    BY DEF Swap, SwapFails, Without
<1>6. /\ \A d \in disk : d.id \in Nat /\ d.id # 0
      /\ \A d, e \in disk : d.id = e.id => d = e
    BY DEF RTypeInv, RTypeOK, Dirs, IndexInv, UniqueIds
<1>7. PICK n \in disk : n.id = b /\ n.slug = s
    BY <1>1 DEF IndexInv, BuiltIsOwn
<1>8. \A t \in Slugs : \A l \in 1..Len(objs[t]) : objs[t][l].dir # b
    BY <1>1 DEF IndexInv, BuiltIsOwn
<1>9. b # 0 /\ b # old /\ n \in disk'
    BY <1>2, <1>5, <1>6, <1>7, <1>8
<1>10. objs'[s][k].dir = b /\ objs'[s][k].status = objs[s][k].status
    BY <1>2, <1>3 DEF Extension
<1>11. ASSUME NEW t \in Slugs, NEW l \in 1..Len(objs[t]), ~(t = s /\ l = k)
       PROVE  /\ objs'[t][l] = objs[t][l]
              /\ objs[t][l].dir # 0 => objs[t][l].dir # old
  <2>1. objs'[t][l] = objs[t][l]
      BY <1>3, <1>11
  <2>2. ASSUME objs[t][l].dir # 0, objs[t][l].dir = old PROVE FALSE
    <3>1. PICK d \in disk : d.id = old /\ d.slug = t
        BY <2>2 DEF IndexInv, StructsAreBacked
    <3>2. PICK e \in disk : e.id = old /\ e.slug = s
        BY <2>2, <1>2 DEF IndexInv, StructsAreBacked
    <3>3. t = s
        BY <3>1, <3>2, <1>6
    <3> QED BY <3>3, <2>2, <1>2, <1>11 DEF IndexInv, StructsAreApart
  <2> QED BY <2>1, <2>2
<1> HIDE DEF s, k, b, old
<1>12. UniqueIds'
    BY <1>5, <1>6 DEF UniqueIds
<1>13. StructsAreBacked'
  <2> SUFFICES ASSUME NEW t \in Slugs, NEW l \in 1..Len(objs'[t])
               PROVE  /\ objs'[t][l].dir # 0 =>
                            \E d \in disk' : d.id = objs'[t][l].dir /\ d.slug = t
                      /\ objs'[t][l].status = "open" => objs'[t][l].dir # 0
      BY DEF StructsAreBacked
  <2>0. l \in 1..Len(objs[t])
      BY <1>3
  <2>1. CASE t = s /\ l = k
      BY <2>1, <1>7, <1>9, <1>10
  <2>2. CASE ~(t = s /\ l = k)
    <3>1. /\ objs[t][l].dir # 0 => \E d \in disk : d.id = objs[t][l].dir /\ d.slug = t
          /\ objs[t][l].status = "open" => objs[t][l].dir # 0
        BY <2>0 DEF IndexInv, StructsAreBacked
    <3> QED BY <2>0, <2>2, <3>1, <1>5, <1>11
  <2> QED BY <2>1, <2>2
<1>14. StructsAreApart'
  <2> SUFFICES ASSUME NEW t \in Slugs, NEW i \in 1..Len(objs'[t]),
                      NEW j \in 1..Len(objs'[t]),
                      objs'[t][i].dir = objs'[t][j].dir, objs'[t][i].dir # 0
               PROVE  i = j
      BY DEF StructsAreApart
  <2>0. i \in 1..Len(objs[t]) /\ j \in 1..Len(objs[t])
      BY <1>3
  <2>1. CASE t = s /\ i = k
      BY <2>0, <2>1, <1>8, <1>10, <1>11
  <2>2. CASE t = s /\ j = k
      BY <2>0, <2>2, <1>8, <1>10, <1>11
  <2>3. CASE ~(t = s /\ i = k) /\ ~(t = s /\ j = k)
      BY <2>0, <2>3, <1>11 DEF IndexInv, StructsAreApart
  <2> QED BY <2>1, <2>2, <2>3
<1>15. BuiltIsOwn'
  <2> SUFFICES ASSUME NEW v \in Workers, wk'[v].pc = "swap"
               PROVE  /\ \E d \in disk' : d.id = wk'[v].dir /\ d.slug = wk'[v].slug
                      /\ \A t \in Slugs : \A l \in 1..Len(objs'[t]) :
                            objs'[t][l].dir # wk'[v].dir
                      /\ \A u \in Workers \ {v} : wk'[u].pc = "swap" =>
                            wk'[u].dir # wk'[v].dir
      BY DEF BuiltIsOwn
  <2>1. v # w /\ wk'[v] = wk[v]
      BY <1>4
  <2>2. /\ \E d \in disk : d.id = wk[v].dir /\ d.slug = wk[v].slug
        /\ \A t \in Slugs : \A l \in 1..Len(objs[t]) : objs[t][l].dir # wk[v].dir
        /\ \A u \in Workers \ {v} : wk[u].pc = "swap" => wk[u].dir # wk[v].dir
      BY <2>1 DEF IndexInv, BuiltIsOwn
  <2>3. wk[v].dir # b /\ wk[v].dir # old
      BY <2>1, <2>2, <1>1, <1>2 DEF b, old
  <2>4. \E d \in disk' : d.id = wk'[v].dir /\ d.slug = wk'[v].slug
      BY <2>1, <2>2, <2>3, <1>5
  <2>5. ASSUME NEW t \in Slugs, NEW l \in 1..Len(objs'[t])
        PROVE  objs'[t][l].dir # wk'[v].dir
    <3>1. l \in 1..Len(objs[t])
        BY <1>3
    <3> QED BY <3>1, <2>1, <2>2, <2>3, <1>10, <1>11
  <2>6. \A u \in Workers \ {v} : wk'[u].pc = "swap" => wk'[u].dir # wk'[v].dir
      BY <2>1, <2>2, <1>4
  <2> QED BY <2>4, <2>5, <2>6
<1>16. OpensIndexed'
  <2> SUFFICES ASSUME NEW v \in Workers, wk'[v].pc = "open"
               PROVE  objs'[wk'[v].slug][wk'[v].obj].dir # 0
      BY DEF OpensIndexed
  <2>1. CASE v = w
      BY <2>1, <1>4, <1>9, <1>10
  <2>2. CASE v # w
    <3>1. wk'[v] = wk[v] /\ wk[v].pc = "open"
        BY <2>2, <1>4
    <3>2. wk[v].slug \in Slugs /\ wk[v].obj \in 1..Len(objs[wk[v].slug])
          /\ objs[wk[v].slug][wk[v].obj].dir # 0
        BY <3>1, StructInHand DEF Holding, IndexInv, OpensIndexed
    <3> QED BY <3>1, <3>2, <1>9, <1>10, <1>11
  <2> QED BY <2>1, <2>2
<1> QED BY <1>12, <1>13, <1>14, <1>15, <1>16 DEF IndexInv

\* SetStatus: only what has a directory is opened.
LEMMA IndexStatus ==
    ASSUME RTypeInv, IndexInv, NEW w \in Workers, SetOpen(w) \/ SetClosed(w)
    PROVE  IndexInv'
<1> DEFINE s == wk[w].slug
           k == wk[w].obj
<1>1. PICK new \in {"open", "closed"} :
          /\ wk[w].pc \in {"open", "close"}
          /\ new = "open" => wk[w].pc = "open"
          /\ objs' = [objs EXCEPT ![wk[w].slug][wk[w].obj].status = new]
    BY DEF SetOpen, SetClosed, SetStatus
<1>2. s \in Slugs /\ k \in 1..Len(objs[s]) /\ objs[s][k] \in Extension
    BY <1>1, StructInHand DEF Holding
<1>3. PICK e \in Extension :
          e.status = new /\ e.dir = objs[s][k].dir /\ IsChanged(objs', objs, s, k, e)
    BY <1>1, StatusObjs DEF IsStatus
<1>a. /\ \A t \in Slugs : Len(objs'[t]) = Len(objs[t])
      /\ \A t \in Slugs : \A l \in 1..Len(objs[t]) :
            objs'[t][l] = IF t = s /\ l = k THEN e ELSE objs[t][l]
    BY <1>3 DEF IsChanged
<1>4. /\ disk' = disk /\ wk'[w].pc \in {"saveext", "idle"}
      /\ \A v \in Workers \ {w} : wk'[v] = wk[v]
  <2>1. wk \in [Workers -> Worker]
      BY DEF RTypeInv, RTypeOK
  <2>2. CASE SetOpen(w)
      BY <2>1, <2>2 DEF SetOpen, SetStatus, Worker
  <2>3. CASE SetClosed(w)
      BY <2>1, <2>3 DEF SetClosed, SetStatus, IdleWorker
  <2> QED BY <2>2, <2>3
<1>5. objs'[s][k].status = new /\ objs'[s][k].dir = objs[s][k].dir
    BY <1>2, <1>3, <1>a
<1>6. new = "open" => objs[s][k].dir # 0
    BY <1>1 DEF IndexInv, OpensIndexed
<1> HIDE DEF s, k
<1>7. ASSUME NEW t \in Slugs, NEW l \in 1..Len(objs[t])
      PROVE  /\ objs'[t][l].dir = objs[t][l].dir
             /\ objs'[t][l].status = "open" =>
                   objs[t][l].status = "open" \/ objs[t][l].dir # 0
  <2>1. CASE t = s /\ l = k
      BY <2>1, <1>5, <1>6
  <2>2. CASE ~(t = s /\ l = k)
      BY <2>2, <1>a
  <2> QED BY <2>1, <2>2
<1>8. UniqueIds'
    BY <1>4 DEF IndexInv, UniqueIds
<1>9. StructsAreBacked'
    BY <1>a, <1>4, <1>7 DEF IndexInv, StructsAreBacked
<1>10. StructsAreApart'
    BY <1>a, <1>7 DEF IndexInv, StructsAreApart
<1>11. BuiltIsOwn'
    BY <1>a, <1>4, <1>7 DEF IndexInv, BuiltIsOwn
<1>12. OpensIndexed'
  <2> SUFFICES ASSUME NEW v \in Workers, wk'[v].pc = "open"
               PROVE  objs'[wk'[v].slug][wk'[v].obj].dir # 0
      BY DEF OpensIndexed
  <2>1. wk'[v] = wk[v] /\ wk[v].pc = "open"
      BY <1>4
  <2>2. wk[v].slug \in Slugs /\ wk[v].obj \in 1..Len(objs[wk[v].slug])
        /\ objs[wk[v].slug][wk[v].obj].dir # 0
      BY <2>1, StructInHand DEF Holding, IndexInv, OpensIndexed
  <2> QED BY <2>1, <2>2, <1>7
<1> QED BY <1>8, <1>9, <1>10, <1>11, <1>12 DEF IndexInv

\* Of a start or a restart: nobody works, and of every extension there is at most
\* one struct.
LEMMA IndexStart ==
    ASSUME RTypeInv, IndexInv, Load \/ Restart \/ \E s \in Slugs : ListNext(s)
    PROVE  IndexInv'
<1>1. CASE Load
  <2>0. PICK kept \in SUBSET KeptDirs, rest \in SUBSET disk : LoadIndexes(kept, rest)
      BY <1>1, LoadIs
  <2>1. \A w \in Workers : wk'[w].pc = "idle"
      BY <2>0 DEF LoadIndexes, RTypeInv, InHand
  <2>2. kept \subseteq disk' /\ disk' \subseteq disk
      BY <2>0 DEF LoadIndexes, KeptDirs
  <2>3. ASSUME NEW s \in Slugs, NEW k \in 1..Len(objs'[s])
        PROVE  /\ k = 1
               /\ objs'[s][k].dir # 0 =>
                     \E d \in disk' : d.id = objs'[s][k].dir /\ d.slug = s
               /\ objs'[s][k].status = "open" => objs'[s][k].dir # 0
    <3> DEFINE x == Loaded(kept, s)
    <3>1. objs'[s] = IF s \in dbExts THEN <<x>> ELSE <<>>
        BY <2>0 DEF LoadIndexes
    <3>2. /\ x.dir # 0 => \E d \in disk' : d.id = x.dir /\ d.slug = s
          /\ x.status = "open" => x.dir # 0
        BY <2>2, LoadedType
    <3> HIDE DEF x
    <3>3. k = 1 /\ objs'[s][k] = x
        BY <3>1, <2>3
    <3> QED BY <3>2, <3>3
  <2>4. UniqueIds'
      BY <2>2 DEF IndexInv, UniqueIds
  <2>5. StructsAreBacked' /\ StructsAreApart'
      BY <2>3 DEF StructsAreBacked, StructsAreApart
  <2>6. BuiltIsOwn' /\ OpensIndexed'
      BY <2>1 DEF BuiltIsOwn, OpensIndexed
  <2> QED BY <2>4, <2>5, <2>6 DEF IndexInv
<1>2. CASE Restart
  <2>1. /\ \A w \in Workers : wk'[w].pc = "idle"
        /\ \A s \in Slugs : Len(objs'[s]) = 0
        /\ disk' = disk
      BY <1>2, EmptySeq DEF Restart, IdleWorker
  <2>2. UniqueIds'
      BY <2>1 DEF IndexInv, UniqueIds
  <2>3. StructsAreBacked' /\ StructsAreApart'
      BY <2>1 DEF StructsAreBacked, StructsAreApart
  <2>4. BuiltIsOwn' /\ OpensIndexed'
      BY <2>1 DEF BuiltIsOwn, OpensIndexed
  <2> QED BY <2>2, <2>3, <2>4 DEF IndexInv
<1>3. ASSUME NEW s \in Slugs, ListNext(s) PROVE IndexInv'
  <2>1. \A w \in Workers : wk'[w].pc = "idle"
      BY <1>3 DEF ListNext, RTypeInv, InHand
  <2>2. disk' = disk
      BY <1>3 DEF ListNext
  <2>3. CASE objs' = objs
      BY <2>1, <2>2, <2>3, IndexKept
  <2>4. CASE objs' = [objs EXCEPT ![s] = <<Closed0>>]
    <3>1. \A t \in Slugs \ {s} : objs'[t] = objs[t]
        BY <2>4 DEF RTypeInv, RTypeOK
    <3>2. objs'[s] = <<Closed0>> /\ Closed0.dir = 0 /\ Closed0.status = "closed"
        BY <2>4 DEF RTypeInv, RTypeOK, Closed0
    <3>3. UniqueIds'
        BY <2>2 DEF IndexInv, UniqueIds
    <3>4. \A k \in 1..Len(objs'[s]) : objs'[s][k] = Closed0
        BY <3>2
    <3>5. StructsAreBacked'
        BY <2>2, <3>1, <3>2, <3>4 DEF IndexInv, StructsAreBacked
    <3>6. StructsAreApart'
        BY <3>1, <3>2, <3>4 DEF IndexInv, StructsAreApart
    <3>7. BuiltIsOwn' /\ OpensIndexed'
        BY <2>1 DEF BuiltIsOwn, OpensIndexed
    <3> QED BY <3>3, <3>5, <3>6, <3>7 DEF IndexInv
  <2>5. objs' = objs \/ objs' = [objs EXCEPT ![s] = <<Closed0>>]
      BY <1>3 DEF ListNext, Closed0
  <2> QED BY <2>3, <2>4, <2>5
<1> QED BY <1>1, <1>2, <1>3

\* Every step keeps it.
LEMMA IndexInvStep ==
    ASSUME RTypeInv, IndexInv, [Next]_vars
    PROVE  IndexInv'
<1>a. wk \in [Workers -> Worker]
    BY DEF RTypeInv, RTypeOK
<1>1. ASSUME \/ FetchList \/ StartUpdateWorkers \/ JobStart \/ JobStep \/ JobFails
             \/ \E s \in Slugs : Commit(s)
             \/ UNCHANGED vars
      PROVE  IndexInv'
  <2>1. UNCHANGED <<objs, disk, wk>>
      BY <1>1 DEF FetchList, StartUpdateWorkers, JobStart, JobStep, JobRevision, JobLog,
                  JobQueue, JobFails, Commit, vars
  <2> QED BY <2>1, IndexKept
<1>2. ASSUME NEW w \in Workers,
             \/ Take(w) \/ Get(w) \/ Fetch(w) \/ SaveExt(w) \/ SetRev(w)
             \/ SaveBegin(w) \/ SaveEnd(w) \/ UpdateFails(w)
      PROVE  IndexInv'
  <2>1. UNCHANGED <<objs, disk>>
      BY <1>2 DEF Take, Get, Fetch, SaveExt, SetRev, SaveBegin, SaveEnd, UpdateFails
  <2>2. /\ wk'[w].pc \notin {"swap", "open"}
        /\ \A v \in Workers \ {w} : wk'[v] = wk[v]
    <3>1. CASE Take(w)
      <4>1. PICK p \in {"get", "add"} : \E s, n :
                wk' = [wk EXCEPT ![w] =
                          [IdleWorker EXCEPT !.pc = p, !.slug = s, !.rev = n]]
          BY <3>1 DEF Take
      <4> QED BY <1>a, <4>1 DEF IdleWorker
    <3>2. CASE Get(w)
        BY <1>a, <3>2 DEF Get, Worker
    <3>3. CASE Fetch(w)
        BY <1>a, <3>3 DEF Fetch, Worker
    <3>4. CASE SaveExt(w)
        BY <1>a, <3>4 DEF SaveExt, IdleWorker
    <3>5. CASE SetRev(w)
        BY <1>a, <3>5 DEF SetRev, Worker
    <3>6. CASE SaveBegin(w)
        BY <1>a, <3>6 DEF SaveBegin, Worker
    <3>7. CASE SaveEnd(w)
        BY <1>a, <3>7 DEF SaveEnd, IdleWorker
    <3>8. CASE UpdateFails(w)
        BY <1>a, <3>8 DEF UpdateFails, Worker
    <3> QED BY <1>2, <3>1, <3>2, <3>3, <3>4, <3>5, <3>6, <3>7, <3>8
  <2> QED BY <2>1, <2>2, IndexKept
<1>3. ASSUME NEW w \in Workers,
             \/ Add(w) \/ Build(w) \/ Swap(w) \/ SwapFails(w) \/ SetOpen(w) \/ SetClosed(w)
      PROVE  IndexInv'
    BY <1>3, IndexAdd, IndexBuild, IndexSwap, IndexStatus
<1>4. ASSUME Load \/ Restart \/ \E s \in Slugs : ListNext(s)
      PROVE  IndexInv'
    BY <1>4, IndexStart
<1> QED BY <1>1, <1>2, <1>3, <1>4 DEF Next, Load, LoadStep, UpdateStep

\* Types and indexes are right in every state.
LEMMA IndexCorrect == Spec => [](RTypeInv /\ IndexInv)
<1>1. Init => RTypeInv /\ IndexInv
  <2>1. ASSUME Init PROVE IndexInv
    <3>1. /\ disk = {} /\ \A s \in Slugs : Len(objs[s]) = 0
          /\ \A w \in Workers : wk[w].pc = "idle"
        BY <2>1, EmptySeq DEF Init, IdleWorker
    <3> QED BY <3>1 DEF IndexInv, UniqueIds, StructsAreBacked, StructsAreApart,
                        BuiltIsOwn, OpensIndexed
  <2> QED BY <2>1, InitRTypeInv
<1>2. RTypeInv /\ IndexInv /\ [Next]_vars => RTypeInv' /\ IndexInv'
    BY RTypeInvStep, IndexInvStep
<1> QED BY <1>1, <1>2, PTL DEF Spec

\* Whatever fails and whenever the process is restarted, an extension whose status
\* is open has an index of its own files on disk.
THEOREM OpenIsServedAlways == Spec => []OpenIsServed
<1>1. RTypeInv /\ IndexInv => OpenIsServed
  <2> SUFFICES ASSUME RTypeInv, IndexInv, NEW s \in Slugs, NEW k \in DOMAIN objs[s],
                      objs[s][k].status = "open"
               PROVE  \E d \in disk : d.id = objs[s][k].dir /\ d.slug = s
      BY DEF OpenIsServed
  <2>1. k \in 1..Len(objs[s])
      BY DEF RTypeInv, RTypeOK
  <2> QED BY <2>1 DEF IndexInv, StructsAreBacked
<1> QED BY <1>1, IndexCorrect, PTL

\* No two structs share a directory.
THEOREM IndexesAreOwnedAlways == Spec => []IndexesAreOwned
<1>1. RTypeInv /\ IndexInv => IndexesAreOwned
  <2> SUFFICES ASSUME RTypeInv, IndexInv, NEW s \in Slugs, NEW t \in Slugs,
                      NEW k \in DOMAIN objs[s], NEW l \in DOMAIN objs[t],
                      objs[s][k].dir = objs[t][l].dir, objs[s][k].dir # 0
               PROVE  s = t /\ k = l
      BY DEF IndexesAreOwned
  <2>1. k \in 1..Len(objs[s]) /\ l \in 1..Len(objs[t])
      BY DEF RTypeInv, RTypeOK
  <2>2. PICK d \in disk : d.id = objs[s][k].dir /\ d.slug = s
      BY <2>1 DEF IndexInv, StructsAreBacked
  <2>3. PICK e \in disk : e.id = objs[t][l].dir /\ e.slug = t
      BY <2>1 DEF IndexInv, StructsAreBacked
  <2>4. s = t
      BY <2>2, <2>3 DEF IndexInv, UniqueIds
  <2> QED BY <2>1, <2>4 DEF IndexInv, StructsAreApart
<1> QED BY <1>1, IndexCorrect, PTL

-----------------------------------------------------------------------------
(* The size of the disk *)

\* Some struct uses the directory i, or a worker has built it and is about to
\* install it.
IsUsed(i) == \E s \in Slugs : \E k \in 1..Len(objs[s]) : objs[s][k].dir = i
IsBuilt(i) == \E w \in Workers : wk[w].pc = "swap" /\ wk[w].dir = i

DiskInv == phase # "load" /\ faults = 0 => \A d \in disk : IsUsed(d.id) \/ IsBuilt(d.id)

\* Steps that add no directory, take none from a struct and leave those that wait to
\* be installed alone.
LEMMA DiskKept ==
    ASSUME DiskInv, phase' # "load" => phase # "load", faults' = 0 => faults = 0,
           \A d \in disk' : d \in disk,
           \A i : IsUsed(i) => IsUsed(i)',
           \A v \in Workers : wk[v].pc = "swap" => wk'[v] = wk[v]
    PROVE  DiskInv'
BY DEF DiskInv, IsBuilt

\* LoadExisting gives every directory it keeps to its extension: there is only one
\* that is the last of it.
LEMMA DiskLoaded ==
    ASSUME RTypeInv, Load
    PROVE  DiskInv'
<1>a. faults \in Nat
    BY RepoBounds DEF RTypeInv, RTypeOK
<1>0. CASE faults' = faults + 1
    BY <1>0, <1>a DEF DiskInv
<1>1. CASE faults' = faults
  <2>1. LoadIndexes(KeptDirs, {})
    <3>1. PICK kept \in SUBSET KeptDirs, rest \in SUBSET disk :
              LoadIndexes(kept, rest) /\ ((kept = KeptDirs /\ rest = {}) \/ faults' = faults + 1)
        BY LoadIs
    <3> QED BY <1>1, <1>a, <3>1
  <2> SUFFICES ASSUME NEW d \in KeptDirs PROVE IsUsed(d.id)'
      BY <2>1 DEF LoadIndexes, DiskInv
  <2> DEFINE s == d.slug
             x == Loaded(KeptDirs, s)
  <2>2. s \in Slugs /\ s \in dbExts /\ KeptDirs \in SUBSET KeptDirs
      BY DEF KeptDirs, RTypeInv, RTypeOK
  <2>3. \A e \in KeptDirs : e.slug = s => e.id = d.id
      BY DEF KeptDirs, RTypeInv, RTypeOK, Dirs
  <2>4. x.dir = d.id
      BY <2>2, <2>3, LoadedType
  <2>5. objs'[s] = <<x>>
      BY <2>1, <2>2 DEF LoadIndexes
  <2> HIDE DEF x, s
  <2>6. Len(objs'[s]) = 1 /\ objs'[s][1].dir = d.id
      BY <2>4, <2>5
  <2> QED BY <2>2, <2>6 DEF IsUsed
<1> QED BY <1>0, <1>1, LoadIs

\* SwapIndexes destroys the one directory that it takes from a struct.
LEMMA DiskSwap ==
    ASSUME RTypeInv, DiskInv, NEW w \in Workers, Swap(w)
    PROVE  DiskInv'
<1> DEFINE s == wk[w].slug
           k == wk[w].obj
           b == wk[w].dir
           old == objs[s][k].dir
<1>1. /\ wk[w].pc = "swap"
      /\ objs' = [objs EXCEPT ![wk[w].slug][wk[w].obj].dir = wk[w].dir]
      /\ phase' = phase /\ faults' = faults
    BY DEF Swap, loadVars, envVars
<1>2. s \in Slugs /\ k \in 1..Len(objs[s]) /\ objs[s][k] \in Extension
    BY <1>1, StructInHand DEF Holding
<1>3. /\ \A t \in Slugs : Len(objs'[t]) = Len(objs[t])
      /\ \A t \in Slugs : \A l \in 1..Len(objs[t]) :
            objs'[t][l] = IF t = s /\ l = k THEN [objs[t][l] EXCEPT !.dir = b]
                          ELSE objs[t][l]
    BY <1>1, SwappedObjs
<1>4. \A d \in disk' : d \in disk /\ d.id # old
    BY DEF Swap, Without
<1>5. \A v \in Workers \ {w} : wk'[v] = wk[v]
    BY DEF Swap, RTypeInv, RTypeOK
<1>6. objs'[s][k].dir = b
    BY <1>2, <1>3 DEF Extension
<1> HIDE DEF s, k, b, old
<1>7. ASSUME NEW i, i = b PROVE IsUsed(i)'
  <2>1. k \in 1..Len(objs'[s]) /\ objs'[s][k].dir = i
      BY <1>2, <1>3, <1>6, <1>7
  <2> QED BY <1>2, <2>1 DEF IsUsed
<1>8. ASSUME NEW i, IsUsed(i), i # old PROVE IsUsed(i)'
  <2>1. PICK t \in Slugs : \E l \in 1..Len(objs[t]) : objs[t][l].dir = i
      BY <1>8 DEF IsUsed
  <2>2. PICK l \in 1..Len(objs[t]) : objs[t][l].dir = i
      BY <2>1
  <2>3. ~(t = s /\ l = k)
      BY <2>2, <1>8 DEF old
  <2> QED BY <2>2, <2>3, <1>3 DEF IsUsed
<1>9. ASSUME NEW i, IsBuilt(i), i # b PROVE IsBuilt(i)'
    BY <1>5, <1>9 DEF IsBuilt, b
<1> SUFFICES ASSUME phase # "load", faults = 0, NEW d \in disk, d.id # old
             PROVE  (IsUsed(d.id) \/ IsBuilt(d.id))'
    BY <1>1, <1>4 DEF DiskInv
<1>10. IsUsed(d.id) \/ IsBuilt(d.id)
    BY DEF DiskInv
<1> QED BY <1>7, <1>8, <1>9, <1>10

\* Build: the new directory is in the worker's hand.
LEMMA DiskBuild ==
    ASSUME RTypeInv, DiskInv, NEW w \in Workers, Build(w)
    PROVE  DiskInv'
<1>1. PICK i \in Dirs :
          /\ disk' = disk \cup {[id |-> i, slug |-> wk[w].slug, ver |-> wk[w].got]}
          /\ wk' = [wk EXCEPT ![w].pc = "swap", ![w].dir = i, ![w].got = 0]
    BY DEF Build
<1>2. wk[w].pc = "build" /\ UNCHANGED <<phase, faults, objs>>
    BY DEF Build, loadVars, envVars
<1>3. /\ wk'[w].pc = "swap" /\ wk'[w].dir = i
      /\ \A v \in Workers \ {w} : wk'[v] = wk[v]
  <2>1. wk \in [Workers -> Worker]
      BY DEF RTypeInv, RTypeOK
  <2> QED BY <1>1, <2>1 DEF Worker
<1>4. \A d \in disk' : d.id = i \/ d \in disk
    BY <1>1
<1>5. \A j : (IsUsed(j) => IsUsed(j)') /\ (IsBuilt(j) => IsBuilt(j)')
    BY <1>2, <1>3 DEF IsUsed, IsBuilt
<1>6. IsBuilt(i)'
    BY <1>3 DEF IsBuilt
<1> QED BY <1>2, <1>4, <1>5, <1>6 DEF DiskInv

\* Add, of a worker or of UpdateList, and SetStatus: every struct keeps its
\* directory.
LEMMA DiskStructs ==
    ASSUME RTypeInv, DiskInv,
           \/ \E s \in Slugs : ListNext(s)
           \/ \E w \in Workers : Add(w) \/ SetOpen(w) \/ SetClosed(w)
    PROVE  DiskInv'
<1>1. /\ disk' = disk /\ phase' = phase /\ faults' = faults
      /\ \A v \in Workers : wk[v].pc = "swap" => wk'[v] = wk[v]
    BY DEF ListNext, Add, SetOpen, SetClosed, SetStatus, loadVars, envVars, RTypeInv, RTypeOK
<1>2. ASSUME NEW i, NEW t \in Slugs, NEW l \in 1..Len(objs[t]), objs[t][l].dir = i
      PROVE  l \in 1..Len(objs'[t]) /\ objs'[t][l].dir = i
  <2>0. objs \in [Slugs -> Seq(Extension)]
      BY DEF RTypeInv, RTypeOK
  <2>1. CASE \E s \in Slugs : ListNext(s)
    <3>1. PICK s \in Slugs : ListNext(s)
        BY <2>1
    <3>2. \/ objs' = objs
          \/ objs[s] = <<>> /\ objs' = [objs EXCEPT ![s] = <<Closed0>>]
        BY <3>1 DEF ListNext, Exists, Closed0
    <3>3. t # s \/ objs' = objs
        BY <1>2, <3>2
    <3> QED BY <2>0, <1>2, <3>2, <3>3
  <2>2. ASSUME NEW w \in Workers, Add(w) PROVE l \in 1..Len(objs'[t]) /\ objs'[t][l].dir = i
    <3> DEFINE s == wk[w].slug
    <3>1. s \in Slugs /\ objs' = [objs EXCEPT ![s] = Append(@, Closed0)]
        BY <2>2 DEF Add, Closed0, RTypeInv, InHand
    <3> HIDE DEF s
    <3>2. /\ \A u \in Slugs \ {s} : objs'[u] = objs[u]
          /\ Len(objs'[s]) = Len(objs[s]) + 1
          /\ \A j \in 1..Len(objs[s]) : objs'[s][j] = objs[s][j]
        BY <3>1, AddedObjs
    <3>3. Len(objs[t]) \in Nat
        BY <2>0
    <3> QED BY <1>2, <3>2, <3>3
  <2>3. ASSUME NEW w \in Workers, SetOpen(w) \/ SetClosed(w)
        PROVE  l \in 1..Len(objs'[t]) /\ objs'[t][l].dir = i
    <3> DEFINE s == wk[w].slug
               k == wk[w].obj
    <3>1. PICK new \in {"open", "closed"} :
              /\ wk[w].pc \in {"open", "close"}
              /\ objs' = [objs EXCEPT ![wk[w].slug][wk[w].obj].status = new]
        BY <2>3 DEF SetOpen, SetClosed, SetStatus
    <3>2. PICK e \in Extension : e.dir = objs[s][k].dir /\ IsChanged(objs', objs, s, k, e)
        BY <3>1, StatusObjs DEF IsStatus
    <3> QED BY <1>2, <3>2 DEF IsChanged
  <2> QED BY <2>1, <2>2, <2>3
<1>3. \A i : IsUsed(i) => IsUsed(i)'
    BY <1>2 DEF IsUsed
<1> QED BY <1>1, <1>3, DiskKept

LEMMA DiskInvStep ==
    ASSUME RTypeInv, DiskInv, [Next]_vars
    PROVE  DiskInv'
<1>a. wk \in [Workers -> Worker] /\ faults \in Nat
    BY RepoBounds DEF RTypeInv, RTypeOK
<1>1. ASSUME \/ FetchList \/ StartUpdateWorkers \/ JobStart \/ JobStep
             \/ \E s \in Slugs : Commit(s)
             \/ UNCHANGED vars
      PROVE  DiskInv'
  <2>1. UNCHANGED <<objs, disk, wk, faults>> /\ (phase' # "load" => phase # "load")
      BY <1>1 DEF FetchList, StartUpdateWorkers, JobStart, JobStep, JobRevision, JobLog,
                  JobQueue, Commit, vars, loadVars, envVars
  <2>2. \A i : IsUsed(i) => IsUsed(i)'
      BY <2>1 DEF IsUsed
  <2> QED BY <2>1, <2>2, DiskKept
\* Whatever fails, DiskInv says nothing of the disk from then on; nor of that of a
\* process that has not loaded it.
<1>2. ASSUME \/ JobFails \/ Restart \/ \E w \in Workers : SwapFails(w) \/ UpdateFails(w)
      PROVE  DiskInv'
  <2>1. faults' = faults + 1 \/ phase' = "load"
      BY <1>2 DEF JobFails, Restart, SwapFails, UpdateFails
  <2> QED BY <1>a, <2>1 DEF DiskInv
<1>3. ASSUME NEW w \in Workers,
             \/ Take(w) \/ Get(w) \/ Fetch(w) \/ SaveExt(w) \/ SetRev(w)
             \/ SaveBegin(w) \/ SaveEnd(w)
      PROVE  DiskInv'
  <2>1. UNCHANGED <<objs, disk, phase>> /\ (faults' = faults \/ faults' = faults + 1)
      BY <1>3 DEF Take, Get, Fetch, SaveExt, SetRev, SaveBegin, SaveEnd, loadVars, envVars
  <2>2. wk[w].pc # "swap" /\ \A v \in Workers \ {w} : wk'[v] = wk[v]
      BY <1>3, <1>a DEF Take, Get, Fetch, SaveExt, SetRev, SaveBegin, SaveEnd
  <2>3. \A i : IsUsed(i) => IsUsed(i)'
      BY <2>1 DEF IsUsed
  <2> QED BY <1>a, <2>1, <2>2, <2>3, DiskKept
<1>4. ASSUME \/ Load \/ \E s \in Slugs : ListNext(s)
             \/ \E w \in Workers : Add(w) \/ Build(w) \/ Swap(w) \/ SetOpen(w) \/ SetClosed(w)
      PROVE  DiskInv'
    BY <1>4, DiskLoaded, DiskStructs, DiskBuild, DiskSwap
<1> QED BY <1>1, <1>2, <1>3, <1>4 DEF Next, Load, LoadStep, UpdateStep

\* As long as no step of an update fails, the disk holds no index but those in use
\* and those about to be, whenever the process is restarted.
THEOREM DiskIsBoundedAlways == Spec => []DiskIsBounded
<1>1. Init => RTypeInv /\ DiskInv
    BY InitRTypeInv DEF Init, DiskInv
<1>2. RTypeInv /\ DiskInv /\ [Next]_vars => RTypeInv' /\ DiskInv'
    BY RTypeInvStep, DiskInvStep
<1>3. RTypeInv /\ DiskInv => DiskIsBounded
  <2>1. RTypeInv => \A s \in Slugs : DOMAIN objs[s] = 1..Len(objs[s])
      BY DEF RTypeInv, RTypeOK
  <2> QED BY <2>1 DEF DiskInv, DiskIsBounded, IsUsed, IsBuilt
<1> QED BY <1>1, <1>2, <1>3, PTL DEF Spec

-----------------------------------------------------------------------------
(* The queue during the load: the workers start after it *)

\* What the load has put into the queue at most: one update of each extension it has visited.
ByLoad == IF phase = "queue" THEN Cardinality(Slugs) - Cardinality(list) ELSE 0

\* Before the workers run nothing leaves the queue: it holds what the load has put there
\* and the changes of one run of the job, which does not start while something is queued.
RoomInv ==
    /\ IsFiniteSet(job.todo)
    /\ job.pc # "queue" => job.todo = {}
    /\ phase # "ready" =>
          Len(queue) + Cardinality(job.todo)
            <= ByLoad + (IF job.pc \in {"rev", "log"} THEN 0 ELSE Cardinality(Slugs))

\* The change log names each extension once at most (JobLog).
LEMMA ChangesAreFew ==
    ASSUME NEW from \in Revs, NEW to \in Revs
    PROVE  /\ IsFiniteSet(Changes(from, to))
           /\ Cardinality(Changes(from, to)) <= Cardinality(Slugs)
<1> DEFINE C == Changes(from, to)
           f == [u \in C |-> u.slug]
<1>1. \A u \in C : u \in UpdateRequest /\ u.rev \in (from + 1)..to /\ log[u.rev] = u.slug
                   /\ \A i \in (u.rev + 1)..to : log[i] # u.slug
    BY DEF Changes
<1>2. ASSUME NEW u \in C, NEW v \in C, u.slug = v.slug PROVE u = v
  <2>1. /\ u.rev \in Int /\ v.rev \in Int /\ from \in Int /\ to \in Int
        /\ u = [slug |-> u.slug, rev |-> u.rev] /\ v = [slug |-> v.slug, rev |-> v.rev]
      BY <1>1, RepoBounds DEF Revs, UpdateRequest
  <2>2. ~(u.rev < v.rev) /\ ~(v.rev < u.rev)
      BY <1>1, <1>2, <2>1
  <2> QED BY <1>2, <2>1, <2>2
<1>3. f \in [C -> Slugs]
    BY <1>1 DEF UpdateRequest
<1> HIDE DEF C
<1>4. f \in Injection(C, Slugs)
    BY <1>2, <1>3 DEF Injection, IsInjective
<1>5. IsFiniteSet(C) /\ Cardinality(C) <= Cardinality(Slugs)
    BY <1>4, SlugsAssumption, FS_Injection
<1> QED BY <1>5 DEF C

\* Each step of the load or of the job that queues an update has one extension less to queue.
LEMMA RoomStep ==
    ASSUME RTypeInv, RoomInv, [Next]_vars
    PROVE  RoomInv'
<1> USE DEF RoomInv
<1>t. /\ queue \in Seq(UpdateRequest) /\ Len(queue) \in Nat /\ list \subseteq Slugs
      /\ IsFiniteSet(list) /\ Cardinality(list) \in Nat /\ Cardinality(Slugs) \in Nat
      /\ Cardinality(list) <= Cardinality(Slugs)
      /\ Cardinality(job.todo) \in Nat /\ job.pc \in {"idle", "rev", "log", "queue"}
      /\ phase \in {"load", "list", "queue", "ready"} /\ revision \in Revs
      /\ job.latest \in Revs /\ job = [pc |-> job.pc, latest |-> job.latest, todo |-> job.todo]
  <2>1. /\ queue \in Seq(UpdateRequest) /\ list \subseteq Slugs
        /\ job \in [pc : {"idle", "rev", "log", "queue"}, latest : Revs, todo : SUBSET UpdateRequest]
        /\ phase \in {"load", "list", "queue", "ready"} /\ revision \in Revs
      BY DEF RTypeInv, RTypeOK
  <2>2. /\ IsFiniteSet(list) /\ Cardinality(list) \in Nat /\ Cardinality(Slugs) \in Nat
        /\ Cardinality(list) <= Cardinality(Slugs)
      BY <2>1, SlugsAssumption, FS_Subset, FS_CardinalityType
  <2>3. Cardinality(job.todo) \in Nat
      BY FS_CardinalityType
  <2> QED BY <2>1, <2>2, <2>3
<1>e. IsFiniteSet({}) /\ Cardinality({}) = 0
    BY FS_EmptySet
<1>1. ASSUME NEW s \in Slugs, ListNext(s) PROVE RoomInv'
  <2>1. /\ phase = "queue" /\ s \in list /\ list' = list \ {s} /\ UNCHANGED <<phase, job>>
        /\ \/ queue' = queue
           \/ \E u \in UpdateRequest : queue' = Append(queue, u)
    <3>1. [slug |-> s, rev |-> listRev] \in UpdateRequest
        BY DEF RTypeInv, RTypeOK, UpdateRequest
    <3> QED BY <1>1, <3>1 DEF ListNext
  <2>2. Cardinality(list') = Cardinality(list) - 1
      BY <1>t, <2>1, FS_RemoveElement
  <2>3. Len(queue') \in Nat /\ Len(queue') <= Len(queue) + 1
      BY <1>t, <2>1
  <2> QED BY <1>t, <2>1, <2>2, <2>3 DEF ByLoad
<1>2. CASE FetchList
  <2>1. /\ phase = "list" /\ phase' = "queue" /\ UNCHANGED <<queue, job>> /\ list' \subseteq Slugs
      BY <1>2 DEF FetchList
  <2>2. Cardinality(list') \in Nat /\ Cardinality(list') <= Cardinality(Slugs)
      BY <2>1, SlugsAssumption, FS_Subset, FS_CardinalityType
  <2> QED BY <1>t, <2>1, <2>2 DEF ByLoad
<1>3. CASE Load \/ StartUpdateWorkers
    BY <1>3, <1>t DEF Load, LoadExisting, LoadFails, LoadIndexes, StartUpdateWorkers, ByLoad
<1>4. CASE JobStart
  <2>1. /\ queue = <<>> /\ UNCHANGED <<phase, list, queue>>
        /\ job' = [pc |-> "rev", latest |-> job.latest, todo |-> {}]
      BY <1>4, <1>t DEF JobStart, loadVars
  <2> QED BY <1>t, <1>e, <2>1 DEF ByLoad
<1>5. CASE JobRevision
  <2>1. /\ job.pc = "rev" /\ UNCHANGED <<phase, list, queue>>
        /\ job' = [pc |-> "log", latest |-> Latest, todo |-> {}]
      BY <1>5, <1>t DEF JobRevision, loadVars
  <2> QED BY <1>t, <1>e, <2>1 DEF ByLoad
<1>6. CASE JobLog
  <2> DEFINE C == Changes(revision, job.latest)
  <2>1. /\ job.pc = "log" /\ job.todo = {} /\ UNCHANGED <<phase, list, queue>>
        /\ \/ job' = IdleJob
           \/ job' = [pc |-> "queue", latest |-> 0, todo |-> C]
      BY <1>6 DEF JobLog, loadVars
  <2>2. IsFiniteSet(C) /\ Cardinality(C) <= Cardinality(Slugs) /\ Cardinality(C) \in Nat
      BY <1>t, ChangesAreFew, FS_CardinalityType
  <2> HIDE DEF C
  <2>3. /\ IsFiniteSet(job'.todo) /\ job'.pc \in {"idle", "queue"}
        /\ job'.pc # "queue" => job'.todo = {}
        /\ Cardinality(job'.todo) \in Nat /\ Cardinality(job'.todo) <= Cardinality(Slugs)
    <3>1. \/ job'.pc = "idle" /\ job'.todo = {}
          \/ job'.pc = "queue" /\ job'.todo = C
        BY <2>1 DEF IdleJob
    <3>2. 0 \in Nat /\ 0 <= Cardinality(Slugs)
        BY <1>t
    <3> QED BY <1>e, <2>2, <3>1, <3>2
  <2>4. Cardinality(job.todo) = 0 /\ ByLoad' = ByLoad /\ ByLoad \in Int
      BY <1>t, <1>e, <2>1 DEF ByLoad
  <2>5. phase # "ready" => Len(queue) <= ByLoad
      BY <1>t, <2>1, <2>4
  <2> QED BY <1>t, <2>1, <2>3, <2>4, <2>5
<1>7. CASE JobFails
  <2>1. job' = IdleJob /\ job.pc \in {"rev", "log"} /\ UNCHANGED <<phase, list, queue>>
      BY <1>7 DEF JobFails, loadVars
  <2> QED BY <1>t, <1>e, <2>1 DEF ByLoad, IdleJob
<1>8. ASSUME NEW u \in UpdateRequest, JobQueue(u) PROVE RoomInv'
  <2>1. /\ job.pc = "queue" /\ u \in job.todo /\ UNCHANGED <<phase, list>>
        /\ queue' = Append(queue, u) /\ Len(queue') = Len(queue) + 1
        /\ \/ job.todo = {u} /\ job' = IdleJob
           \/ job'.pc = "queue" /\ job'.todo = job.todo \ {u}
    <3>1. /\ job.pc = "queue" /\ u \in job.todo /\ UNCHANGED <<phase, list>>
          /\ queue' = Append(queue, u)
          /\ job' = IF job.todo = {u} THEN IdleJob ELSE [job EXCEPT !.todo = job.todo \ {u}]
        BY <1>8 DEF JobQueue, loadVars
    <3>2. \A j \in [pc : {"idle", "rev", "log", "queue"}, latest : Revs, todo : SUBSET UpdateRequest] : \A T :
             /\ [j EXCEPT !.todo = T].pc = j.pc
             /\ [j EXCEPT !.todo = T].todo = T
        OBVIOUS
    <3>3. Len(queue') = Len(queue) + 1
        BY <1>t, <3>1
    <3>4. job \in [pc : {"idle", "rev", "log", "queue"}, latest : Revs, todo : SUBSET UpdateRequest]
        BY DEF RTypeInv, RTypeOK
    <3> QED BY <3>1, <3>2, <3>3, <3>4
  <2>2. IsFiniteSet(job.todo \ {u}) /\ Cardinality(job.todo \ {u}) = Cardinality(job.todo) - 1
      BY <2>1, FS_RemoveElement
  <2>3. job'.todo = job.todo \ {u} /\ job'.pc \in {"idle", "queue"} /\ (job'.pc # "queue" => job'.todo = {})
      BY <2>1 DEF IdleJob
  <2> QED BY <1>t, <2>1, <2>2, <2>3 DEF ByLoad
<1>9. CASE Restart
    BY <1>9, <1>t, <1>e DEF Restart, IdleJob, ByLoad
<1>10. ASSUME NEW w \in Workers, UpdateStep(w) \/ SwapFails(w) \/ UpdateFails(w) PROVE RoomInv'
  <2>1. phase = "ready" /\ UNCHANGED <<phase, job>>
    <3>1. Take(w) \/ wk[w].pc # "idle"
        BY <1>10 DEF UpdateStep, SwapFails, UpdateFails, Add, Get, Fetch, Build, Swap, SetOpen, SetClosed,
                     SetStatus, SaveExt, SetRev, SaveBegin, SaveEnd
    <3>2. phase = "ready"
        BY <3>1 DEF RTypeInv, InHand, Take
    <3> QED BY <1>10, <3>2 DEF UpdateStep, SwapFails, UpdateFails, Take, Add, Get, Fetch, Build, Swap, SetOpen,
                        SetClosed, SetStatus, SaveExt, SetRev, SaveBegin, SaveEnd, loadVars
  <2> QED BY <2>1
<1>11. ASSUME (\E s \in Slugs : Commit(s)) \/ UNCHANGED vars PROVE RoomInv'
  <2>1. UNCHANGED <<phase, list, queue, job>>
      BY <1>11 DEF Commit, vars, loadVars
  <2> QED BY <2>1 DEF ByLoad
<1> QED BY <1>1, <1>2, <1>3, <1>4, <1>5, <1>6, <1>7, <1>8, <1>9, <1>10, <1>11 DEF Next, Load, LoadStep, JobStep

\* UpdateList never blocks if the queue has two places for each extension, one for the load
\* and one for a change log that is read meanwhile.  With one place less it may, and then
\* for good (the next theorem): the workers that would empty the queue start after it.
THEOREM LoadHasRoom ==
    ASSUME QueueCap >= 2 * Cardinality(Slugs)
    PROVE  Spec => [](phase = "queue" /\ list # {} => Len(queue) < QueueCap)
<1>1. Init => RoomInv
  <2>1. Cardinality(Slugs) \in Nat /\ IsFiniteSet({}) /\ Cardinality({}) = 0
      BY SlugsAssumption, FS_CardinalityType, FS_EmptySet
  <2> QED BY <2>1 DEF Init, RoomInv, IdleJob, ByLoad
<1>2. RTypeInv /\ RoomInv /\ [Next]_vars => RTypeInv' /\ RoomInv'
    BY RTypeInvStep, RoomStep
<1>3. RTypeInv /\ RoomInv => (phase = "queue" /\ list # {} => Len(queue) < QueueCap)
  <2> SUFFICES ASSUME RTypeInv, RoomInv, phase = "queue", list # {} PROVE Len(queue) < QueueCap
      OBVIOUS
  <2>1. list \subseteq Slugs /\ Len(queue) \in Nat /\ QueueCap \in Nat
      BY QueueCapAssumption DEF RTypeInv, RTypeOK
  <2>2. Cardinality(list) \in Nat \ {0} /\ Cardinality(Slugs) \in Nat
    <3>1. IsFiniteSet(list)
        BY <2>1, SlugsAssumption, FS_Subset
    <3> QED BY <3>1, SlugsAssumption, FS_EmptySet, FS_CardinalityType
  <2>3. Cardinality(job.todo) \in Nat
      BY FS_CardinalityType DEF RoomInv
  <2> QED BY <2>1, <2>2, <2>3 DEF RoomInv, ByLoad
<1> QED BY <1>1, <1>2, <1>3, InitRTypeInv, PTL DEF Spec

\* A load that has an update to queue finds the queue full.
LoadBlocked ==
    /\ phase = "queue" /\ list # {} /\ Len(queue) = QueueCap
    /\ fresh \/ revision = 0

\* It waits for good: no update is processed and no search accepted before a restart.
THEOREM BlockedLoadStays ==
    Spec => [][LoadBlocked /\ crashes' = crashes
                 => LoadBlocked' /\ UNCHANGED <<list, objs, queue, wk, dbExts, dbRev>>]_vars
<1>1. ASSUME RTypeInv, LoadBlocked, crashes' = crashes, [Next]_vars
      PROVE  LoadBlocked' /\ UNCHANGED <<list, objs, queue, wk, dbExts, dbRev>>
  <2> DEFINE Goal == LoadBlocked' /\ UNCHANGED <<list, objs, queue, wk, dbExts, dbRev>>
  <2>1. /\ QueueCap \in Nat /\ Len(queue) = QueueCap /\ queue # <<>> /\ crashes \in Nat
      BY <1>1, QueueCapAssumption DEF LoadBlocked, RTypeInv, RTypeOK
  <2>2. CASE \/ JobRevision \/ JobLog \/ JobFails \/ (\E s \in Slugs : Commit(s)) \/ UNCHANGED vars
      BY <1>1, <2>2 DEF JobRevision, JobLog, JobFails, Commit, vars, loadVars, dbVars, LoadBlocked
  <2>3. ~JobStart /\ ~Restart /\ \A u \in UpdateRequest : ~JobQueue(u)
      BY <1>1, <2>1 DEF JobStart, JobQueue, Restart
  <2>4. ~Load /\ ~FetchList /\ ~StartUpdateWorkers /\ \A s \in Slugs : ~ListNext(s)
      BY <1>1, <2>1 DEF LoadBlocked, Load, LoadExisting, LoadFails, LoadIndexes,
          FetchList, StartUpdateWorkers, ListNext
  <2>5. \A w \in Workers : ~UpdateStep(w) /\ ~SwapFails(w) /\ ~UpdateFails(w)
    <3>1. \A w \in Workers : wk[w].pc = "idle" /\ phase = "queue"
        BY <1>1 DEF LoadBlocked, RTypeInv, InHand
    <3> QED BY <3>1 DEF UpdateStep, SwapFails, UpdateFails, Take, Add, Get, Fetch, Build, Swap, SetOpen,
                        SetClosed, SetStatus, SaveExt, SetRev, SaveBegin, SaveEnd
  <2> QED BY <1>1, <2>2, <2>3, <2>4, <2>5 DEF Next, Load, LoadStep, JobStep
<1>2. RTypeInv /\ [Next]_vars
      => [LoadBlocked /\ crashes' = crashes
            => LoadBlocked' /\ UNCHANGED <<list, objs, queue, wk, dbExts, dbRev>>]_vars
    BY <1>1
<1>3. RTypeInv /\ [Next]_vars => RTypeInv'
    BY RTypeInvStep
<1> QED BY <1>2, <1>3, InitRTypeInv, PTL DEF Spec
====
