------------------------ MODULE SearchResultsProofs ------------------------
(***************************************************************************)
(* Proofs about SearchResults, for any number of extensions, goroutines,   *)
(* matches and rows of a page.  First the loop of SearchScan: what its     *)
(* counters count, what the results are, which extensions are searched,    *)
(* what the progress is and how far the total goes; then the table of      *)
(* ResultsList: what an open row shows.  After the theorems about these    *)
(* comes the refinement: the loop is the scan of SearchManager.            *)
(***************************************************************************)
EXTENDS SearchResults, ScanRefinement, SumLemmas

Stages == {"none", "slot", "search", "files", "done", "release", "ended"}
AtWork == {"search", "files", "done", "release"}   \* with a slot of the limiter
Awaited == {"slot", "search", "files", "done"}     \* before wg.Done

In(S) == {e \in Exts : go[e] \in S}

-----------------------------------------------------------------------------
(* The counters                                                            *)

\* A stage that is left or entered by one extension changes the number of those
\* in the stages S by one, and no other does.
LEMMA GotoCounts ==
    ASSUME go \in [Exts -> Stages], NEW e \in Exts, NEW to \in Stages, Goto(e, to),
           NEW S
    PROVE  /\ go' \in [Exts -> Stages]
           /\ Cardinality(In(S)) \in Nat
           /\ (go[e] \in S <=> to \in S) => Cardinality(In(S))' = Cardinality(In(S))
           /\ go[e] \notin S /\ to \in S => Cardinality(In(S))' = Cardinality(In(S)) + 1
           /\ go[e] \in S /\ to \notin S => Cardinality(In(S))' = Cardinality(In(S)) - 1
  <1>1. go' = [go EXCEPT ![e] = to]
    BY DEF Goto
  <1>2. IsFiniteSet(In(S))
    BY ExtsAssumption, FS_Subset DEF In
  <1>3. Cardinality(In(S)) \in Nat
    BY <1>2, FS_CardinalityType
  <1>4. CASE go[e] \in S <=> to \in S
    <2>1. In(S)' = In(S)
      BY <1>1, <1>4 DEF In
    <2> QED BY <1>1, <1>3, <1>4, <2>1
  <1>5. CASE go[e] \notin S /\ to \in S
    <2>1. In(S)' = In(S) \cup {e} /\ e \notin In(S)
      BY <1>1, <1>5 DEF In
    <2> QED BY <1>1, <1>2, <1>3, <1>5, <2>1, FS_AddElement
  <1>6. CASE go[e] \in S /\ to \notin S
    <2>1. In(S)' = In(S) \ {e} /\ e \in In(S)
      BY <1>1, <1>6 DEF In
    <2> QED BY <1>1, <1>2, <1>3, <1>6, <2>1, FS_RemoveElement
  <1> QED BY <1>4, <1>5, <1>6

\* limiter and wg count what they are there for, and the loop is left with no
\* extension in hand.
CountInv ==
    /\ go \in [Exts -> Stages]
    /\ loop \in {"range", "wait", "done"}
    /\ \A e \in Exts \ visited : go[e] = "none"
    /\ limiter = Cardinality(In(AtWork)) /\ limiter <= Limit
    /\ wg = Cardinality(In(Awaited))
    /\ loop # "range" => \A e \in Exts : go[e] # "slot"
    /\ loop = "done" => \A e \in Exts : go[e] \notin Awaited

\* No goroutine runs before the loop does.
LEMMA CountInit == Init => CountInv
  <1> SUFFICES ASSUME Init PROVE CountInv
    OBVIOUS
  <1>1. In(AtWork) = {} /\ In(Awaited) = {}
    BY DEF Init, In, AtWork, Awaited
  <1> QED BY <1>1, FS_EmptySet, LimitsAssumption DEF Init, CountInv, Stages

\* A goroutine is counted from the step of the loop that starts it to its last step.
LEMMA CountStep ==
    ASSUME CountInv, [Next]_vars
    PROVE  CountInv'
  <1> USE DEF CountInv
  <1>1. ASSUME NEW e \in Exts, Visit(e) PROVE CountInv'
    <2>1. loop = "range" /\ loop' = loop /\ limiter' = limiter
          /\ visited' = visited \cup {e} /\ go[e] = "none"
      BY <1>1 DEF Visit, AtTop
    <2>2. CASE e \in open
      <3>1. Goto(e, "slot") /\ wg' = wg + 1
        BY <1>1, <2>2 DEF Visit
      <3>2. go' = [go EXCEPT ![e] = "slot"] /\ go' \in [Exts -> Stages]
        BY <3>1 DEF Goto, Stages
      <3>3. limiter' = Cardinality(In(AtWork))'
        BY <2>1, <3>1, GotoCounts DEF AtWork, Stages
      <3>4. wg' = Cardinality(In(Awaited))'
        BY <2>1, <3>1, GotoCounts DEF Awaited, Stages
      <3> QED BY <2>1, <3>2, <3>3, <3>4
    <2>3. CASE e \notin open
      <3>1. go' = go /\ wg' = wg
        BY <1>1, <2>3 DEF Visit
      <3> QED BY <2>1, <3>1 DEF In
    <2> QED BY <2>2, <2>3
  <1>2. ASSUME NEW e \in Exts, StartGoroutine(e) PROVE CountInv'
    <2>1. /\ go[e] = "slot" /\ limiter < Limit /\ limiter' = limiter + 1
          /\ Goto(e, "search") /\ wg' = wg /\ loop' = loop /\ visited' = visited
      BY <1>2 DEF StartGoroutine, loopVars
    <2>2. go' = [go EXCEPT ![e] = "search"] /\ go' \in [Exts -> Stages]
      BY <2>1 DEF Goto, Stages
    <2>3. limiter' = Cardinality(In(AtWork))' /\ limiter' <= Limit
      <3>1. limiter \in Nat
        BY <2>1, GotoCounts DEF Stages
      <3> QED BY <2>1, <3>1, GotoCounts, LimitsAssumption DEF AtWork, Stages
    <2>4. wg' = Cardinality(In(Awaited))'
      BY <2>1, GotoCounts DEF Awaited, Stages
    <2> QED BY <2>1, <2>2, <2>3, <2>4
  <1>3. ASSUME NEW e \in Exts, GoStep(e), UNCHANGED <<go, limiter, wg>> PROVE CountInv'
    <2>1. loop' = loop /\ visited' = visited /\ go' = go /\ limiter' = limiter /\ wg' = wg
      BY <1>3 DEF GoStep, Search, CountFile, PutResult, Done, Release, loopVars
    <2> QED BY <2>1 DEF In
  \* A goroutine goes from one stage to another, and the counters with it.
  <1>4. ASSUME NEW e \in Exts, NEW from \in Stages \ {"none", "slot"},
               NEW to \in Stages \ {"none", "slot"},
               go[e] = from, Goto(e, to), loop' = loop, visited' = visited,
               to \in Awaited => from \in Awaited,
               limiter' = IF from \in AtWork /\ to \notin AtWork THEN limiter - 1 ELSE limiter,
               to \in AtWork => from \in AtWork,
               wg' = IF from \in Awaited /\ to \notin Awaited THEN wg - 1 ELSE wg
        PROVE  CountInv'
    <2>1. go' = [go EXCEPT ![e] = to] /\ go' \in [Exts -> Stages]
      BY <1>4 DEF Goto
    <2>2. limiter' = Cardinality(In(AtWork))' /\ limiter' <= Limit
      BY <1>4, GotoCounts, LimitsAssumption
    <2>3. wg' = Cardinality(In(Awaited))'
      BY <1>4, GotoCounts
    <2>4. loop' = "done" => \A f \in Exts : go'[f] \notin Awaited
      BY <1>4, <2>1
    <2> QED BY <1>4, <2>1, <2>2, <2>3, <2>4
  <1>5. ASSUME NEW e \in Exts, GoStep(e) PROVE CountInv'
    <2>1. loop' = loop /\ visited' = visited
      BY <1>5 DEF GoStep, Search, CountFile, PutResult, Done, Release, loopVars
    <2>2. CASE Search(e)
      <3>1. go[e] = "search" /\ limiter' = limiter
        BY <2>2 DEF Search
      <3>2. \/ wg' = wg - 1 /\ Goto(e, "release")
            \/ wg' = wg /\ Goto(e, "files")
        BY <2>2 DEF Search
      <3> QED BY <1>4, <2>1, <3>1, <3>2 DEF AtWork, Awaited, Stages
    <2>3. CASE CountFile(e)
      BY <1>3, <1>5, <2>3 DEF CountFile, waitVars
    <2>4. CASE PutResult(e)
      BY <1>4, <2>1, <2>4 DEF PutResult, waitVars, AtWork, Awaited, Stages
    <2>5. CASE Done(e)
      BY <1>4, <2>1, <2>5 DEF Done, AtWork, Awaited, Stages
    <2>6. CASE Release(e)
      BY <1>4, <2>1, <2>6 DEF Release, AtWork, Awaited, Stages
    <2> QED BY <1>5, <2>2, <2>3, <2>4, <2>5, <2>6 DEF GoStep
  <1>6. CASE LeaveLoop
    BY <1>6 DEF LeaveLoop, AtTop, waitVars, goVars, In
  <1>7. CASE Wait
    <2>1. loop = "wait" /\ wg = 0 /\ loop' = "done"
          /\ go' = go /\ limiter' = limiter /\ wg' = wg /\ visited' = visited
      BY <1>7 DEF Wait, waitVars, goVars
    <2>2. In(Awaited) = {}
      BY <2>1, ExtsAssumption, FS_Subset, FS_EmptySet DEF In
    <2> QED BY <2>1, <2>2 DEF In
  <1>8. ASSUME NEW e \in Exts, Add(e) \/ SetStatus(e) PROVE CountInv'
    BY <1>8 DEF Add, SetStatus, loopVars, waitVars, goVars, In
  <1>9. CASE UNCHANGED vars
    BY <1>9 DEF vars, loopVars, waitVars, goVars, In
  <1> QED BY <1>1, <1>2, <1>5, <1>6, <1>7, <1>8, <1>9 DEF Next, LoopStep

\* What the counters are there for.
LEMMA CountWithinLimit == CountInv => WithinLimit
  BY DEF CountInv, WithinLimit, In, AtWork, Awaited, Stages

-----------------------------------------------------------------------------
(* The results                                                             *)

\* How far the results of extension e have come.
ResultOf(e) ==
    /\ resp[e] \in Seq(Nat \ {0})
    /\ file[e] \in 0 .. Len(resp[e])
    /\ matchList[e] = file[e]
    /\ file[e] # 0 => eMatches[e] = resp[e][file[e]]
    /\ go[e] \in {"none", "slot", "search"} => resp[e] = <<>> /\ sum[e] = 0
    /\ go[e] = "files" => resp[e] # <<>> /\ sum[e] = 0
    /\ go[e] \in {"done", "release", "ended"} =>
          \/ resp[e] = <<>> /\ sum[e] = 0
          \/ resp[e] # <<>> /\ file[e] = Len(resp[e]) /\ sum[e] = eMatches[e]

ResultInv ==
    /\ go \in [Exts -> Stages]
    /\ \A f \in {resp, file, eMatches, matchList, sum} : DOMAIN f = Exts
    /\ \A e \in Exts : ResultOf(e)

resultsOf == <<go, resp, file, eMatches, matchList, sum>>

\* Nothing has been found before the loop runs.
LEMMA ResultInit == Init => ResultInv
  BY DEF Init, ResultInv, ResultOf, Stages

\* No results change but those of e.
OnlyOf(e) ==
    /\ go' \in [Exts -> Stages]
    /\ \A f \in {resp', file', eMatches', matchList', sum'} : DOMAIN f = Exts
    /\ \A f \in Exts \ {e} :
          /\ go'[f] = go[f] /\ resp'[f] = resp[f] /\ file'[f] = file[f]
          /\ eMatches'[f] = eMatches[f] /\ matchList'[f] = matchList[f] /\ sum'[f] = sum[f]

\* The results of one extension do not depend on those of another.
LEMMA OnlyOfKeeps ==
    ASSUME ResultInv, NEW e \in Exts, OnlyOf(e), ResultOf(e)'
    PROVE  ResultInv'
  <1> SUFFICES ASSUME NEW f \in Exts \ {e} PROVE ResultOf(f)'
    BY DEF ResultInv, OnlyOf
  <1> QED BY DEF ResultInv, ResultOf, OnlyOf

\* A goroutine changes the results of its own extension only.
LEMMA ResultStep ==
    ASSUME CountInv, ResultInv, [Next]_vars
    PROVE  ResultInv'
  <1> USE DEF ResultInv
  <1>1. CASE UNCHANGED resultsOf
    BY <1>1 DEF resultsOf, ResultOf
  <1>2. ASSUME NEW e \in Exts, Visit(e) PROVE ResultInv'
    <2>1. go[e] = "none" /\ UNCHANGED <<resp, file, eMatches, matchList, sum>>
      BY <1>2 DEF Visit, CountInv, resultVars
    <2>2. CASE e \in open
      <3>1. go' = [go EXCEPT ![e] = "slot"]
        BY <1>2, <2>2 DEF Visit, Goto
      <3>2. OnlyOf(e) /\ ResultOf(e)'
        BY <2>1, <3>1 DEF OnlyOf, ResultOf, Stages
      <3> QED BY <3>2, OnlyOfKeeps
    <2>3. CASE e \notin open
      BY <1>1, <1>2, <2>1, <2>3 DEF Visit, resultsOf
    <2> QED BY <2>2, <2>3
  <1>3. ASSUME NEW e \in Exts, StartGoroutine(e) PROVE ResultInv'
    <2>1. go[e] = "slot" /\ go' = [go EXCEPT ![e] = "search"]
          /\ UNCHANGED <<resp, file, eMatches, matchList, sum>>
      BY <1>3 DEF StartGoroutine, Goto, resultVars
    <2>2. OnlyOf(e) /\ ResultOf(e)'
      BY <2>1 DEF OnlyOf, ResultOf, Stages
    <2> QED BY <2>2, OnlyOfKeeps
  <1>4. ASSUME NEW e \in Exts, Search(e) PROVE ResultInv'
    <2>1. PICK r \in Results \cup {<<>>} :
            /\ go[e] = "search"
            /\ resp' = [resp EXCEPT ![e] = SearchResult(r)]
            /\ IF resp'[e] = <<>> THEN wg' = wg - 1 /\ Goto(e, "release")
                                  ELSE wg' = wg /\ Goto(e, "files")
            /\ UNCHANGED <<envVars, loopVars, limiter, file, eMatches, resultVars>>
      BY <1>4 DEF Search
    <2>2. SearchResult(r) \in Seq(Nat \ {0})
      <3>1. \A s : s \in {<<>>} => s \in Seq(Nat \ {0})
        OBVIOUS
      <3>2. r \in Results => r \in Seq(Nat \ {0})
        BY ResultsAssumption
      <3>3. SearchResult(r) = r \/ SearchResult(r) = <<>>
        BY DEF SearchResult
      <3> QED BY <3>1, <3>2, <3>3
    <2>3. PICK to \in {"release", "files"} :
            go' = [go EXCEPT ![e] = to] /\ (to = "release" <=> resp'[e] = <<>>)
      BY <2>1 DEF Goto
    <2>4. UNCHANGED <<file, eMatches, matchList, sum>>
      BY <2>1 DEF resultVars
    <2>5. file[e] = 0 /\ matchList[e] = 0 /\ sum[e] = 0
      BY <2>1 DEF ResultOf
    <2>6. OnlyOf(e)
      BY <2>1, <2>3, <2>4 DEF OnlyOf, Stages
    <2>7. ResultOf(e)'
      BY <2>1, <2>2, <2>3, <2>4, <2>5 DEF ResultOf
    <2> QED BY <2>6, <2>7, OnlyOfKeeps
  <1>5. ASSUME NEW e \in Exts, CountFile(e) PROVE ResultInv'
    <2> DEFINE n == file[e] + 1
    <2>1. /\ go[e] = "files" /\ n <= Len(resp[e])
          /\ file' = [file EXCEPT ![e] = n]
          /\ eMatches' = [eMatches EXCEPT ![e] = resp[e][n]]
          /\ matchList' = [matchList EXCEPT ![e] = n]
          /\ UNCHANGED <<go, resp, sum>>
      BY <1>5 DEF CountFile
    <2>2. OnlyOf(e)
      BY <2>1 DEF OnlyOf
    <2>3. ResultOf(e)'
      BY <2>1 DEF ResultOf
    <2> QED BY <2>2, <2>3, OnlyOfKeeps
  <1>6. ASSUME NEW e \in Exts, PutResult(e) PROVE ResultInv'
    <2>1. /\ go[e] = "files" /\ file[e] = Len(resp[e])
          /\ sum' = [sum EXCEPT ![e] = eMatches[e]]
          /\ go' = [go EXCEPT ![e] = "done"]
          /\ UNCHANGED <<resp, file, eMatches, matchList>>
      BY <1>6 DEF PutResult, Goto
    <2>2. OnlyOf(e) /\ ResultOf(e)'
      BY <2>1 DEF OnlyOf, ResultOf, Stages
    <2> QED BY <2>2, OnlyOfKeeps
  <1>7. ASSUME NEW e \in Exts, Done(e) \/ Release(e) PROVE ResultInv'
    <2>1. PICK to \in {"release", "ended"} :
            go[e] \in {"done", "release"} /\ go' = [go EXCEPT ![e] = to]
            /\ UNCHANGED <<resp, file, eMatches, matchList, sum>>
      BY <1>7 DEF Done, Release, Goto, resultVars
    <2>2. OnlyOf(e) /\ ResultOf(e)'
      BY <2>1 DEF OnlyOf, ResultOf, Stages
    <2> QED BY <2>2, OnlyOfKeeps
  <1>8. CASE LeaveLoop \/ Wait \/ UNCHANGED vars \/ \E e \in Exts : Add(e) \/ SetStatus(e)
    BY <1>1, <1>8 DEF LeaveLoop, Wait, Add, SetStatus, vars, goVars, resultVars, resultsOf
  <1> QED BY <1>2, <1>3, <1>4, <1>5, <1>6, <1>7, <1>8 DEF Next, LoopStep, GoStep

\* What is read of the results when the loop is done.
LEMMA ResultsAgree == CountInv /\ ResultInv => SummaryAgrees
  <1> SUFFICES ASSUME CountInv, ResultInv, loop = "done", NEW e \in Exts
               PROVE  /\ (sum[e] # 0) <=> (resp[e] # <<>>)
                      /\ sum[e] # 0 => sum[e] = resp[e][matchList[e]]
    BY DEF SummaryAgrees
  <1>1. go[e] \in {"none", "release", "ended"}
    BY DEF CountInv, Awaited, Stages
  <1>2. ResultOf(e)
    BY DEF ResultInv
  <1>3. CASE resp[e] = <<>>
    BY <1>1, <1>2, <1>3 DEF ResultOf
  <1>4. CASE resp[e] # <<>>
    <2>1. file[e] = Len(resp[e]) /\ sum[e] = eMatches[e] /\ matchList[e] = file[e]
      BY <1>1, <1>2, <1>4 DEF ResultOf
    <2>2. resp[e] \in Seq(Nat \ {0}) /\ Len(resp[e]) \in Nat \ {0}
      BY <1>2, <1>4 DEF ResultOf
    <2>3. sum[e] = resp[e][file[e]]
      BY <1>2, <2>1, <2>2 DEF ResultOf
    <2>4. resp[e][file[e]] \in Nat \ {0}
      BY <2>1, <2>2
    <2> QED BY <1>4, <2>1, <2>3, <2>4
  <1> QED BY <1>3, <1>4

-----------------------------------------------------------------------------
(* The extensions that are searched                                        *)

\* Those whose status no update changes are open as long as the loop runs, so that
\* every one that is visited has a goroutine.  The range does not end before it has
\* produced them all, unless it is cut short.
VisitInv ==
    /\ list \subseteq Exts /\ Initial \subseteq list /\ visited \subseteq list
    /\ totalMatches \in Nat
    /\ Initial \ Updated \subseteq open
    /\ \A e \in visited \ Updated : go[e] # "none"
    /\ loop # "range" => TooMany \/ Initial \subseteq visited

\* The loop begins with none of the extensions passed, and all that no update closes open.
LEMMA VisitInit == Init => VisitInv
  BY ExtsAssumption DEF Init, VisitInv

\* The loop leaves no extension behind that was there all the while.
LEMMA VisitStep ==
    ASSUME CountInv, ResultInv, VisitInv, [Next]_vars
    PROVE  VisitInv'
  <1> USE DEF VisitInv
  <1>1. ASSUME NEW e \in Exts, Visit(e) PROVE VisitInv'
    <2>1. /\ e \in list /\ visited' = visited \cup {e} /\ loop' = loop /\ loop = "range"
          /\ UNCHANGED <<list, open, totalMatches>>
      BY <1>1 DEF Visit, AtTop, envVars, resultVars
    <2>2. CASE e \in open
      BY <1>1, <2>1, <2>2 DEF Visit, Goto, CountInv, TooMany
    <2>3. CASE e \notin open
      <3>1. e \in Updated
        BY <2>3, ExtsAssumption
      <3>2. go' = go
        BY <1>1, <2>3 DEF Visit
      <3> QED BY <2>1, <3>1, <3>2 DEF TooMany
    <2> QED BY <2>2, <2>3
  <1>2. ASSUME NEW e \in Exts, StartGoroutine(e) \/ GoStep(e) PROVE VisitInv'
    <2>1. UNCHANGED <<list, open, loop, visited>>
      BY <1>2 DEF StartGoroutine, GoStep, Search, CountFile, PutResult, Done, Release,
                  envVars, loopVars
    <2>2. \A f \in Exts : go[f] # "none" => go'[f] # "none"
      BY <1>2 DEF StartGoroutine, GoStep, Search, CountFile, PutResult, Done, Release,
                  Goto, CountInv
    <2>3. totalMatches' \in Nat /\ totalMatches' >= totalMatches
      <3>1. CASE CountFile(e)
        <4>1. totalMatches' = totalMatches + resp[e][file[e] + 1] /\ file[e] + 1 <= Len(resp[e])
          BY <3>1 DEF CountFile
        <4>2. resp[e] \in Seq(Nat \ {0}) /\ file[e] \in Nat
          BY DEF ResultInv, ResultOf
        <4>3. resp[e][file[e] + 1] \in Nat
          BY <4>1, <4>2
        <4> QED BY <4>1, <4>3
      <3>2. CASE ~CountFile(e)
        BY <1>2, <3>2 DEF StartGoroutine, GoStep, Search, PutResult, Done, Release, resultVars
      <3> QED BY <3>1, <3>2
    <2> QED BY <2>1, <2>2, <2>3, LimitsAssumption DEF TooMany
  <1>3. CASE LeaveLoop
    BY <1>3 DEF LeaveLoop, envVars, goVars, resultVars, TooMany
  <1>4. CASE Wait
    BY <1>4 DEF Wait, envVars, goVars, resultVars, TooMany
  <1>5. ASSUME NEW e \in Exts, Add(e) PROVE VisitInv'
    BY <1>5 DEF Add, loopVars, goVars, resultVars, TooMany
  <1>6. ASSUME NEW e \in Exts, SetStatus(e) PROVE VisitInv'
    BY <1>6 DEF SetStatus, loopVars, goVars, resultVars, TooMany
  <1>7. CASE UNCHANGED vars
    BY <1>7 DEF vars, envVars, loopVars, goVars, resultVars, TooMany
  <1> QED BY <1>1, <1>2, <1>3, <1>4, <1>5, <1>6, <1>7 DEF Next, LoopStep

\* What the loop has passed has been searched, once all goroutines are done.
LEMMA OpenAreScanned == CountInv /\ VisitInv => EveryOpenIsScanned
  <1> SUFFICES ASSUME CountInv, VisitInv, loop = "done", ~TooMany,
                      NEW e \in Initial \ Updated
               PROVE  go[e] \in {"release", "ended"}
    BY DEF EveryOpenIsScanned
  <1>1. e \in Exts /\ go[e] # "none"
    BY ExtsAssumption DEF VisitInv
  <1> QED BY <1>1 DEF CountInv, Awaited, Stages

-----------------------------------------------------------------------------
(* The progress                                                            *)

\* It is always what the last turn has stored, and only a list that has grown
\* can take it past 100.
ProgressInv == progress = Percent(Cardinality(visited), Cardinality(Initial))

\* Rounding the part n of d keeps it within a percentage, and the whole of d is 100.
LEMMA PercentBounds ==
    ASSUME NEW d \in Nat \ {0}, NEW n \in 0 .. d
    PROVE  Percent(n, d) <= 100 /\ Percent(d, d) = 100 /\ Percent(0, d) = 0
  <1>1. Percent(n, d) <= 100
    <2> DEFINE q == (200 * n + d) \div (2 * d)
    <2>1. q \in Int /\ q * (2 * d) <= 200 * n + d
      OBVIOUS
    <2> QED BY <2>1 DEF Percent
  <1>2. Percent(d, d) = 100
    <2> DEFINE q == (200 * d + d) \div (2 * d)
    <2>1. q \in Int /\ q * (2 * d) <= 201 * d /\ 201 * d < q * (2 * d) + 2 * d
      OBVIOUS
    <2> QED BY <2>1 DEF Percent
  <1>3. Percent(0, d) = 0
    BY DEF Percent
  <1> QED BY <1>1, <1>2, <1>3

\* The list of extensions that the search takes is finite and not empty.
LEMMA InitialIsFinite == IsFiniteSet(Initial) /\ Cardinality(Initial) \in Nat \ {0}
  BY ExtsAssumption, FS_Subset, FS_EmptySet, FS_CardinalityType

\* The progress begins at 0.
LEMMA ProgressInit == Init => ProgressInv
  BY InitialIsFinite, PercentBounds, FS_EmptySet DEF Init, ProgressInv

\* The progress is computed from the number of the extensions passed.
LEMMA ProgressStep ==
    ASSUME ProgressInv, [Next]_vars
    PROVE  ProgressInv'
  <1>1. ASSUME NEW e \in Exts, Visit(e) PROVE ProgressInv'
    BY <1>1 DEF Visit, ProgressInv
  <1>2. ASSUME \/ LeaveLoop \/ Wait \/ UNCHANGED vars
               \/ \E e \in Exts : StartGoroutine(e) \/ GoStep(e) \/ Add(e) \/ SetStatus(e)
        PROVE  ProgressInv'
    <2>1. UNCHANGED <<visited, progress>>
      BY <1>2 DEF LeaveLoop, Wait, vars, StartGoroutine, GoStep, Search, CountFile,
                  PutResult, Done, Release, Add, SetStatus, loopVars
    <2> QED BY <2>1 DEF ProgressInv
  <1> QED BY <1>1, <1>2 DEF Next, LoopStep

\* A percentage as long as there are no more extensions than were counted.
LEMMA ProgressIsRight == VisitInv /\ ProgressInv => ProgressIsPercent
  <1> SUFFICES ASSUME VisitInv, ProgressInv, list = Initial
               PROVE  progress <= 100 /\ (list \subseteq visited => progress = 100)
    BY DEF ProgressIsPercent
  <1>1. Cardinality(visited) \in 0 .. Cardinality(Initial)
    BY InitialIsFinite, FS_Subset, FS_CardinalityType DEF VisitInv
  <1>2. list \subseteq visited => visited = Initial
    BY DEF VisitInv
  <1> QED BY <1>1, <1>2, InitialIsFinite, PercentBounds DEF ProgressInv

-----------------------------------------------------------------------------
(* The total                                                               *)

\* The matches of extension e that are counted, and those that may still be.
Counted(e) == SumFunctionOnSet(resp[e], 1 .. file[e])
Counting == {"slot", "search", "files"}
Room(e) == IF go[e] \in Counting THEN MatchLimit - Counted(e) ELSE 0

CountedSum == SumFunction([e \in Exts |-> Counted(e)])
RoomSum == SumFunction([e \in Exts |-> Room(e)])

\* The total is what the goroutines have counted.  With all that they may still
\* count, it passes the cap by no more than those can that were at work when it did.
SumInv ==
    /\ \A e \in Exts : SumFunction(resp[e]) <= MatchLimit
    /\ totalMatches = CountedSum
    /\ totalMatches + RoomSum <= Cap + (Limit + 1) * MatchLimit

\* A result and its parts as sums.
LEMMA CountedPart ==
    ASSUME NEW r \in Seq(Nat \ {0}), NEW n \in 0 .. Len(r)
    PROVE  /\ SumFunctionOnSet(r, 1 .. n) \in Nat
           /\ SumFunctionOnSet(r, 1 .. n) <= SumFunction(r)
           /\ SumFunctionOnSet(r, 1 .. Len(r)) = SumFunction(r)
           /\ n # 0 => SumFunctionOnSet(r, 1 .. n)
                         = r[n] + SumFunctionOnSet(r, 1 .. (n - 1))
           /\ SumFunctionOnSet(r, 1 .. 0) = 0
  <1>1. /\ DOMAIN r = 1 .. Len(r) /\ Len(r) \in Nat /\ 1 .. n \in SUBSET (1 .. Len(r))
        /\ \A x \in 1 .. Len(r) : r[x] \in Nat
    OBVIOUS
  <1>2. IsFiniteSet(1 .. Len(r)) /\ IsFiniteSet(1 .. n)
    BY FS_Interval
  <1>3. SumFunctionOnSet(r, 1 .. n) \in Nat
        /\ \A x \in 1 .. n : SumFunctionOnSet(r, 1 .. n)
                               = r[x] + SumFunctionOnSet(r, (1 .. n) \ {x})
    <2>1. \A x \in 1 .. n : r[x] \in Nat
      BY <1>1
    <2> QED BY <1>2, <2>1, SumOfSet
  <1>4. SumFunction(r) = SumFunctionOnSet(r, 1 .. Len(r))
    BY <1>1 DEF SumFunction
  <1>5. SumFunctionOnSet(r, 1 .. n) <= SumFunction(r)
    BY <1>1, <1>2, <1>4, SumOfPart
  <1>6. SumFunctionOnSet(r, 1 .. 0) = 0
    <2>1. 1 .. 0 = {}
      OBVIOUS
    <2> QED BY <2>1, FS_EmptySet, SumUnfold
  <1>7. ASSUME n # 0
        PROVE  SumFunctionOnSet(r, 1 .. n) = r[n] + SumFunctionOnSet(r, 1 .. (n - 1))
    <2>1. n \in 1 .. n /\ (1 .. n) \ {n} = 1 .. (n - 1)
      BY <1>7
    <2> QED BY <1>3, <2>1
  <1> QED BY <1>3, <1>4, <1>5, <1>6, <1>7

\* What is counted of an extension and what may be is a number up to the limit.
LEMMA RoomBounds ==
    ASSUME ResultInv, NEW e \in Exts, SumFunction(resp[e]) <= MatchLimit
    PROVE  /\ Counted(e) \in Nat /\ Room(e) \in 0 .. MatchLimit
           /\ Counted(e) <= SumFunction(resp[e])
  <1>1. resp[e] \in Seq(Nat \ {0}) /\ file[e] \in 0 .. Len(resp[e])
    BY DEF ResultInv, ResultOf
  <1>2. Counted(e) \in Nat /\ Counted(e) <= SumFunction(resp[e])
    BY <1>1, CountedPart DEF Counted
  <1>3. SumFunction(resp[e]) \in Nat
    <2>1. Len(resp[e]) \in 0 .. Len(resp[e])
      BY <1>1
    <2> QED BY <1>1, <2>1, CountedPart
  <1>4. MatchLimit \in Nat
    BY LimitsAssumption
  <1>5. MatchLimit - Counted(e) \in 0 .. MatchLimit
    BY <1>2, <1>3, <1>4
  <1> QED BY <1>2, <1>4, <1>5 DEF Room

\* Only what is counted of e changes, and with it the two sums.
LEMMA SumsMove ==
    ASSUME ResultInv, ResultInv', NEW e \in Exts,
           \A f \in Exts : SumFunction(resp[f]) <= MatchLimit,
           \A f \in Exts : SumFunction(resp'[f]) <= MatchLimit,
           \A f \in Exts \ {e} : resp'[f] = resp[f] /\ file'[f] = file[f]
    PROVE  /\ CountedSum \in Nat /\ RoomSum \in Nat
           /\ CountedSum' = CountedSum + Counted(e)' - Counted(e)
           /\ (\A f \in Exts \ {e} : go'[f] = go[f])
                => RoomSum' = RoomSum + Room(e)' - Room(e)
  <1> DEFINE C == [f \in Exts |-> Counted(f)]
             R == [f \in Exts |-> Room(f)]
             C1 == [f \in Exts |-> Counted(f)']
             R1 == [f \in Exts |-> Room(f)']
  <1>1. ASSUME NEW f \in Exts
        PROVE C[f] \in Nat /\ R[f] \in Nat /\ C1[f] \in Nat /\ R1[f] \in Nat
    <2>1. Counted(f) \in Nat /\ Room(f) \in 0 .. MatchLimit
      BY RoomBounds
    <2>2. Counted(f)' \in Nat /\ Room(f)' \in 0 .. MatchLimit
      <3>1. resp'[f] \in Seq(Nat \ {0}) /\ file'[f] \in 0 .. Len(resp'[f])
        BY DEF ResultInv, ResultOf
      <3>2. Counted(f)' \in Nat /\ Counted(f)' <= SumFunction(resp'[f])
        BY <3>1, CountedPart DEF Counted
      <3>3. SumFunction(resp'[f]) \in Nat
        <4>1. Len(resp'[f]) \in 0 .. Len(resp'[f])
          BY <3>1
        <4> QED BY <3>1, <4>1, CountedPart
      <3>4. MatchLimit \in Nat
        BY LimitsAssumption
      <3>5. MatchLimit - Counted(f)' \in 0 .. MatchLimit
        BY <3>2, <3>3, <3>4
      <3> QED BY <3>2, <3>4, <3>5 DEF Room
    <2> QED BY <2>1, <2>2, LimitsAssumption
  <1>2. IsFiniteSet(Exts)
    BY ExtsAssumption
  <1>3. DOMAIN C = Exts /\ DOMAIN R = Exts /\ DOMAIN C1 = Exts /\ DOMAIN R1 = Exts
    OBVIOUS
  <1>4. /\ CountedSum = SumFunctionOnSet(C, Exts) /\ RoomSum = SumFunctionOnSet(R, Exts)
        /\ CountedSum' = SumFunctionOnSet(C1, Exts) /\ RoomSum' = SumFunctionOnSet(R1, Exts)
    BY DEF CountedSum, RoomSum, SumFunction
  <1>5. \A f \in Exts \ {e} : C[f] = C1[f]
    BY DEF Counted
  <1>6. ASSUME \A f \in Exts \ {e} : go'[f] = go[f]
        PROVE  \A f \in Exts \ {e} : R[f] = R1[f]
    BY <1>6 DEF Room, Counted
  <1>7. C[e] = Counted(e) /\ C1[e] = Counted(e)' /\ R[e] = Room(e) /\ R1[e] = Room(e)'
    OBVIOUS
  <1> HIDE DEF C, R, C1, R1
  <1>8. SumFunctionOnSet(C1, Exts) = SumFunctionOnSet(C, Exts) + C1[e] - C[e]
    BY <1>1, <1>2, <1>5, SumChange
  <1>9. ASSUME \A f \in Exts \ {e} : go'[f] = go[f]
        PROVE  SumFunctionOnSet(R1, Exts) = SumFunctionOnSet(R, Exts) + R1[e] - R[e]
    BY <1>1, <1>2, <1>6, <1>9, SumChange
  <1>10. SumFunctionOnSet(C, Exts) \in Nat /\ SumFunctionOnSet(R, Exts) \in Nat
    BY <1>1, <1>2, SumOfSet
  <1> QED BY <1>4, <1>7, <1>8, <1>9, <1>10

\* An extension of which no file was counted adds nothing to the total.
LEMMA NothingCounted == ResultInv => \A e \in Exts : file[e] = 0 => Counted(e) = 0
  <1> SUFFICES ASSUME ResultInv, NEW e \in Exts, file[e] = 0 PROVE Counted(e) = 0
    OBVIOUS
  <1>1. resp[e] \in Seq(Nat \ {0}) /\ 0 \in 0 .. Len(resp[e])
    BY DEF ResultInv, ResultOf
  <1> QED BY <1>1, CountedPart DEF Counted

\* No extension, no matches.
LEMMA EmptyResult == SumFunction(<<>>) = 0
  <1>1. DOMAIN <<>> = {}
    OBVIOUS
  <1> QED BY <1>1, FS_EmptySet, SumUnfold DEF SumFunction

\* A sum of zeros.
LEMMA ZeroSum ==
    ASSUME NEW f, DOMAIN f = Exts, \A e \in Exts : f[e] = 0
    PROVE  SumFunction(f) = 0
  <1>1. SumFunctionOnSet(f, Exts) <= Cardinality({}) * 0
    <2>1. {} \in SUBSET Exts /\ IsFiniteSet(Exts) /\ \A e \in Exts : f[e] \in 0 .. 0
      BY ExtsAssumption
    <2> QED BY <2>1, SumBound
  <1>2. SumFunctionOnSet(f, Exts) \in Nat
    BY ExtsAssumption, SumOfSet
  <1> QED BY <1>1, <1>2, FS_EmptySet DEF SumFunction

\* The total begins at 0.
LEMMA SumInit == Init => SumInv
  <1> SUFFICES ASSUME Init PROVE SumInv
    OBVIOUS
  <1>1. \A e \in Exts : SumFunction(resp[e]) = 0
    BY EmptyResult DEF Init
  <1>2. \A e \in Exts : Counted(e) = 0 /\ Room(e) = 0
    BY ResultInit, NothingCounted DEF Init, Room, Counting
  <1>3. CountedSum = 0
    <2> DEFINE C == [e \in Exts |-> Counted(e)]
    <2>1. DOMAIN C = Exts /\ \A e \in Exts : C[e] = 0
      BY <1>2
    <2> HIDE DEF C
    <2>2. SumFunction(C) = 0
      BY <2>1, ZeroSum
    <2> QED BY <2>2 DEF CountedSum, C
  <1>4. RoomSum = 0
    <2> DEFINE R == [e \in Exts |-> Room(e)]
    <2>1. DOMAIN R = Exts /\ \A e \in Exts : R[e] = 0
      BY <1>2
    <2> HIDE DEF R
    <2>2. SumFunction(R) = 0
      BY <2>1, ZeroSum
    <2> QED BY <2>2 DEF RoomSum, R
  <1>5. totalMatches = 0 /\ 0 <= Cap + (Limit + 1) * MatchLimit
    <2>1. (Limit + 1) * MatchLimit \in Nat
      BY LimitsAssumption
    <2> QED BY <2>1, LimitsAssumption DEF Init
  <1> QED BY <1>1, <1>3, <1>4, <1>5, LimitsAssumption DEF SumInv

\* While the total is no more than the cap, the goroutines that are at work and one
\* more may count up to MatchLimit each.
LEMMA RoomIsLimited ==
    ASSUME CountInv, ResultInv, SumInv, NEW e \in Exts, AtTop,
           CountInv', ResultInv', UNCHANGED <<resp, file>>,
           Goto(e, "slot")
    PROVE  RoomSum' \in Nat /\ RoomSum' <= (Limit + 1) * MatchLimit
  <1> DEFINE L == In(Counting)'
             R1 == [f \in Exts |-> Room(f)']
  <1>1. Cardinality(L) <= Limit + 1
    <2>1. go \in [Exts -> Stages] /\ "slot" \in Stages
      BY DEF CountInv, Stages
    <2>2. /\ Cardinality(In(Counting)) \in Nat
          /\ Cardinality(In(Counting))' <= Cardinality(In(Counting)) + 1
      BY <2>1, GotoCounts DEF Counting
    <2>3. In(Counting) \in SUBSET In(AtWork) /\ IsFiniteSet(In(AtWork))
      BY ExtsAssumption, FS_Subset DEF In, Counting, AtWork, AtTop
    <2>4. Cardinality(In(Counting)) <= Limit
      BY <2>2, <2>3, FS_Subset, FS_CardinalityType, LimitsAssumption DEF CountInv
    <2>5. Cardinality(L) = Cardinality(In(Counting))'
      OBVIOUS
    <2>6. IsFiniteSet(L)
      BY ExtsAssumption, FS_Subset DEF In
    <2>7. Cardinality(L) \in Nat
      BY <2>6, FS_CardinalityType
    <2> HIDE DEF L
    <2> QED BY <2>2, <2>4, <2>5, <2>7, LimitsAssumption
  <1>2. L \in SUBSET Exts /\ IsFiniteSet(L) /\ Cardinality(L) \in Nat
    BY ExtsAssumption, FS_Subset, FS_CardinalityType DEF In
  <1>3. ASSUME NEW f \in Exts PROVE R1[f] \in 0 .. MatchLimit /\ (f \notin L => R1[f] = 0)
    <2>1. Counted(f)' = Counted(f)
      BY DEF Counted
    <2>2. SumFunction(resp[f]) <= MatchLimit
      BY DEF SumInv
    <2>3. Counted(f) \in Nat /\ Counted(f) <= SumFunction(resp[f])
      BY <2>2, RoomBounds
    <2>4. SumFunction(resp[f]) \in Nat
      <3>1. resp[f] \in Seq(Nat \ {0})
        BY DEF ResultInv, ResultOf
      <3>2. Len(resp[f]) \in 0 .. Len(resp[f])
        BY <3>1
      <3> QED BY <3>1, <3>2, CountedPart
    <2>5. MatchLimit - Counted(f)' \in 0 .. MatchLimit /\ 0 \in 0 .. MatchLimit
      BY <2>1, <2>2, <2>3, <2>4, LimitsAssumption
    <2> QED BY <2>5 DEF Room, In
  <1>4. RoomSum' = SumFunctionOnSet(R1, Exts)
    BY DEF RoomSum, SumFunction
  <1> HIDE DEF R1, L
  <1>5. SumFunctionOnSet(R1, Exts) <= Cardinality(L) * MatchLimit
    BY <1>2, <1>3, ExtsAssumption, LimitsAssumption, SumBound
  <1>6. Cardinality(L) * MatchLimit <= (Limit + 1) * MatchLimit
    BY <1>1, <1>2, LimitsAssumption
  <1>7. SumFunctionOnSet(R1, Exts) \in Nat
    BY <1>3, ExtsAssumption, LimitsAssumption, SumOfSet
  <1>8. Cardinality(L) * MatchLimit \in Nat /\ (Limit + 1) * MatchLimit \in Nat
    BY <1>2, LimitsAssumption
  <1> QED BY <1>4, <1>5, <1>6, <1>7, <1>8

sumsOf == <<go, resp, file, totalMatches>>

\* Only a goroutine that counts its file moves the total, by what that file holds.
LEMMA SumStep ==
    ASSUME CountInv, ResultInv, SumInv, [Next]_vars
    PROVE  SumInv'
  <1>c. CountInv' /\ ResultInv'
    BY CountStep, ResultStep
  <1>l. \A e \in Exts : SumFunction(resp[e]) <= MatchLimit
    BY DEF SumInv
  <1>b. Cap + (Limit + 1) * MatchLimit \in Nat
    BY LimitsAssumption
  \* What every step of the loop or of a goroutine comes to: one extension moves on.
  <1>m. ASSUME NEW e \in Exts,
               \A f \in Exts \ {e} : resp'[f] = resp[f] /\ file'[f] = file[f] /\ go'[f] = go[f],
               SumFunction(resp'[e]) <= MatchLimit,
               totalMatches' - totalMatches = Counted(e)' - Counted(e),
               totalMatches' \in Int,
               \/ Room(e)' - Room(e) <= totalMatches - totalMatches'
               \/ totalMatches' + RoomSum' <= Cap + (Limit + 1) * MatchLimit
        PROVE  SumInv'
    <2>1. \A f \in Exts : SumFunction(resp'[f]) <= MatchLimit
      BY <1>l, <1>m
    <2>2. /\ CountedSum \in Nat /\ RoomSum \in Nat
          /\ CountedSum' = CountedSum + Counted(e)' - Counted(e)
          /\ RoomSum' = RoomSum + Room(e)' - Room(e)
      BY <1>c, <1>l, <1>m, <2>1, SumsMove
    <2>3. Counted(e) \in Nat /\ Room(e) \in Int
      BY <1>l, RoomBounds, LimitsAssumption
    <2>4. Counted(e)' \in Nat /\ Room(e)' \in Int
      <3>1. resp'[e] \in Seq(Nat \ {0}) /\ file'[e] \in 0 .. Len(resp'[e])
        BY <1>c DEF ResultInv, ResultOf
      <3>2. Counted(e)' \in Nat
        BY <3>1, CountedPart DEF Counted
      <3> QED BY <3>2, LimitsAssumption DEF Room
    <2>5. totalMatches = CountedSum /\ totalMatches + RoomSum <= Cap + (Limit + 1) * MatchLimit
      BY DEF SumInv
    <2>6. totalMatches' = CountedSum'
      BY <1>m, <2>2, <2>3, <2>4, <2>5
    <2>7. totalMatches' + RoomSum' <= Cap + (Limit + 1) * MatchLimit
      BY <1>b, <1>m, <2>2, <2>3, <2>4, <2>5
    <2> QED BY <2>1, <2>6, <2>7 DEF SumInv
  <1>n. totalMatches \in Nat
    <2>1. totalMatches = CountedSum
      BY DEF SumInv
    <2>2. CASE Exts = {}
      <3>1. CountedSum = 0
        BY <2>2, ZeroSum DEF CountedSum
      <3> QED BY <2>1, <3>1
    <2>3. CASE Exts # {}
      <3>1. PICK e \in Exts : TRUE
        BY <2>3
      <3> DEFINE C == [f \in Exts |-> Counted(f)]
      <3>2. DOMAIN C = Exts /\ \A f \in Exts : C[f] \in Nat
        BY <1>l, RoomBounds
      <3>3. CountedSum = SumFunctionOnSet(C, Exts)
        BY DEF CountedSum, SumFunction
      <3> HIDE DEF C
      <3> QED BY <2>1, <3>2, <3>3, ExtsAssumption, SumOfSet
    <2> QED BY <2>2, <2>3
  <1>1. CASE UNCHANGED sumsOf
    BY <1>1 DEF sumsOf, SumInv, CountedSum, RoomSum, Counted, Room
  <1>2. ASSUME NEW e \in Exts, Visit(e) PROVE SumInv'
    <2>1. UNCHANGED <<resp, file, totalMatches>> /\ AtTop /\ totalMatches <= Cap
      BY <1>2, <1>n, LimitsAssumption DEF Visit, resultVars, TooMany
    <2>2. CASE e \notin open
      BY <1>1, <1>2, <2>1, <2>2 DEF Visit, sumsOf
    <2>3. CASE e \in open
      <3>1. Goto(e, "slot")
        BY <1>2, <2>3 DEF Visit
      <3>2. RoomSum' \in Nat /\ RoomSum' <= (Limit + 1) * MatchLimit
        BY <1>c, <2>1, <3>1, RoomIsLimited
      <3>3. Counted(e)' = Counted(e) /\ Counted(e) \in Nat
        BY <1>l, <2>1, RoomBounds DEF Counted
      <3>4. \A f \in Exts \ {e} : go'[f] = go[f]
        BY <3>1 DEF Goto, CountInv
      <3>5. SumInv'
        <4>1. SumFunction(resp'[e]) <= MatchLimit
          BY <1>l, <2>1
        <4>2. totalMatches' + RoomSum' <= Cap + (Limit + 1) * MatchLimit
          <5>1. totalMatches + RoomSum' <= Cap + (Limit + 1) * MatchLimit
            <6>1. PICK most \in Nat : most = (Limit + 1) * MatchLimit
              BY LimitsAssumption
            <6>2. RoomSum' <= most
              BY <3>2, <6>1
            <6>3. totalMatches <= Cap /\ Cap \in Nat
              BY <2>1, LimitsAssumption
            <6>4. totalMatches + RoomSum' <= Cap + most
              <7>1. \A x, y, z, w \in Nat : x <= y /\ z <= w => x + z <= y + w
                OBVIOUS
              <7>2. RoomSum' \in Nat
                BY <3>2
              <7> QED BY <1>n, <6>1, <6>2, <6>3, <7>1, <7>2
            <6> QED BY <6>1, <6>4
          <5> QED BY <2>1, <5>1
        <4>3. totalMatches' - totalMatches = Counted(e)' - Counted(e) /\ totalMatches' \in Int
          BY <1>n, <2>1, <3>3
        <4> QED BY <1>m, <2>1, <3>4, <4>1, <4>2, <4>3
      <3> QED BY <3>5
    <2> QED BY <2>2, <2>3
  <1>3. ASSUME NEW e \in Exts, StartGoroutine(e) PROVE SumInv'
    <2>1. /\ go[e] = "slot" /\ go' = [go EXCEPT ![e] = "search"]
          /\ UNCHANGED <<resp, file, totalMatches>>
      BY <1>3 DEF StartGoroutine, Goto, resultVars
    <2>2. Counted(e)' = Counted(e) /\ Counted(e) \in Nat
      BY <1>l, <2>1, RoomBounds DEF Counted
    <2>3. Room(e)' = Room(e) /\ Room(e) \in Int
      BY <1>l, <2>1, <2>2, RoomBounds, LimitsAssumption DEF Room, Counting, CountInv
    <2>4. \A f \in Exts \ {e} : go'[f] = go[f]
      BY <2>1 DEF CountInv
    <2>5. totalMatches' - totalMatches = Counted(e)' - Counted(e) /\ totalMatches' \in Int
          /\ Room(e)' - Room(e) <= totalMatches - totalMatches'
      BY <1>n, <2>1, <2>2, <2>3
    <2>6. SumFunction(resp'[e]) <= MatchLimit
      BY <1>l, <2>1
    <2> QED BY <1>m, <2>1, <2>4, <2>5, <2>6
  <1>4. ASSUME NEW e \in Exts, Search(e) PROVE SumInv'
    <2>1. PICK r \in Results \cup {<<>>} :
            /\ go[e] = "search"
            /\ resp' = [resp EXCEPT ![e] = SearchResult(r)]
            /\ IF resp'[e] = <<>> THEN wg' = wg - 1 /\ Goto(e, "release")
                                  ELSE wg' = wg /\ Goto(e, "files")
            /\ UNCHANGED <<envVars, loopVars, limiter, file, eMatches, resultVars>>
      BY <1>4 DEF Search
    <2>2. UNCHANGED <<file, totalMatches>> /\ file[e] = 0
      <3>1. file' = file /\ totalMatches' = totalMatches
        BY <2>1 DEF resultVars
      <3>2. ResultOf(e)
        BY DEF ResultInv
      <3>3. file[e] \in 0 .. Len(resp[e]) /\ resp[e] = <<>>
        BY <2>1, <3>2 DEF ResultOf
      <3> QED BY <3>1, <3>3
    <2>3. Counted(e) = 0 /\ Counted(e)' = 0
      <3>1. Counted(e) = 0
        BY <2>2, NothingCounted
      <3>2. resp'[e] \in Seq(Nat \ {0}) /\ 0 \in 0 .. Len(resp'[e]) /\ file'[e] = 0
        BY <1>c, <2>2 DEF ResultInv, ResultOf
      <3> QED BY <3>1, <3>2, CountedPart DEF Counted
    <2>4. SumFunction(resp'[e]) <= MatchLimit
      <3>1. resp'[e] = SearchResult(r)
        BY <2>1 DEF ResultInv
      <3>2. SumFunction(r) \in Int
        <4>1. r \in Seq(Nat \ {0})
          <5>1. <<>> \in Seq(Nat \ {0})
            OBVIOUS
          <5> QED BY <5>1, ResultsAssumption
        <4>2. Len(r) \in 0 .. Len(r)
          BY <4>1
        <4> QED BY <4>1, <4>2, CountedPart
      <3> QED BY <3>1, <3>2, EmptyResult, LimitsAssumption DEF SearchResult
    <2>5. PICK to \in {"release", "files"} : go' = [go EXCEPT ![e] = to]
      BY <2>1 DEF Goto
    <2>6. Room(e) = MatchLimit /\ Room(e)' <= MatchLimit /\ Room(e)' \in Int
      BY <2>1, <2>3, <2>5, LimitsAssumption DEF Room, Counting, CountInv
    <2>7. \A f \in Exts \ {e} : resp'[f] = resp[f] /\ file'[f] = file[f] /\ go'[f] = go[f]
      BY <2>1, <2>2, <2>5 DEF CountInv, ResultInv
    <2>8. totalMatches' - totalMatches = Counted(e)' - Counted(e) /\ totalMatches' \in Int
          /\ Room(e)' - Room(e) <= totalMatches - totalMatches'
      BY <1>n, <2>2, <2>3, <2>6, LimitsAssumption
    <2> QED BY <1>m, <2>4, <2>7, <2>8
  <1>5. ASSUME NEW e \in Exts, CountFile(e) PROVE SumInv'
    <2> DEFINE n == file[e] + 1
    <2>1. /\ go[e] = "files" /\ n <= Len(resp[e])
          /\ file' = [file EXCEPT ![e] = n]
          /\ totalMatches' = totalMatches + resp[e][n]
          /\ UNCHANGED <<go, resp>>
      BY <1>5 DEF CountFile
    <2>2. resp[e] \in Seq(Nat \ {0}) /\ file[e] \in 0 .. Len(resp[e])
      BY DEF ResultInv, ResultOf
    <2>3. n \in 0 .. Len(resp[e]) /\ n # 0 /\ n - 1 = file[e] /\ resp[e][n] \in Nat
      BY <2>1, <2>2
    <2>4. Counted(e)' = resp[e][n] + Counted(e)
      <3>1. file'[e] = n /\ resp' = resp
        BY <2>1 DEF ResultInv
      <3> HIDE DEF n
      <3>2. SumFunctionOnSet(resp[e], 1 .. n)
              = resp[e][n] + SumFunctionOnSet(resp[e], 1 .. (n - 1))
        BY <2>2, <2>3, CountedPart
      <3> QED BY <2>3, <3>1, <3>2 DEF Counted
    <2>5. Counted(e) \in Nat
      BY <1>l, RoomBounds
    <2>6. Room(e) = MatchLimit - Counted(e) /\ Room(e)' = MatchLimit - Counted(e)'
      BY <2>1 DEF Room, Counting
    <2>7. \A f \in Exts \ {e} : resp'[f] = resp[f] /\ file'[f] = file[f] /\ go'[f] = go[f]
      BY <2>1 DEF ResultInv
    <2>8. totalMatches' - totalMatches = Counted(e)' - Counted(e) /\ totalMatches' \in Int
          /\ Room(e)' - Room(e) <= totalMatches - totalMatches'
      <3>1. PICK k \in Nat : resp[e][n] = k
        BY <2>3
      <3>2. totalMatches' = totalMatches + k /\ Counted(e)' = k + Counted(e)
        BY <2>1, <2>4, <3>1
      <3> QED BY <1>n, <2>5, <2>6, <3>2, LimitsAssumption
    <2>9. SumFunction(resp'[e]) <= MatchLimit
      BY <1>l, <2>1
    <2> QED BY <1>m, <2>7, <2>8, <2>9
  <1>6. ASSUME NEW e \in Exts, PutResult(e) \/ Done(e) \/ Release(e) PROVE SumInv'
    <2>1. PICK to \in {"done", "release", "ended"} :
            /\ go[e] \in {"files", "done", "release"} /\ go' = [go EXCEPT ![e] = to]
            /\ UNCHANGED <<resp, file, totalMatches>>
      BY <1>6 DEF PutResult, Done, Release, Goto, resultVars
    <2>2. Counted(e)' = Counted(e) /\ Counted(e) \in Nat
      BY <1>l, <2>1, RoomBounds DEF Counted
    <2>3. Room(e)' = 0 /\ Room(e) \in Nat
      BY <1>l, <2>1, RoomBounds, LimitsAssumption DEF Room, Counting, CountInv
    <2>4. \A f \in Exts \ {e} : go'[f] = go[f]
      BY <2>1 DEF CountInv
    <2>5. totalMatches' - totalMatches = Counted(e)' - Counted(e) /\ totalMatches' \in Int
          /\ Room(e)' - Room(e) <= totalMatches - totalMatches'
      BY <1>n, <2>1, <2>2, <2>3
    <2>6. SumFunction(resp'[e]) <= MatchLimit
      BY <1>l, <2>1
    <2> QED BY <1>m, <2>1, <2>4, <2>5, <2>6
  <1>7. CASE LeaveLoop \/ Wait \/ UNCHANGED vars \/ \E e \in Exts : Add(e) \/ SetStatus(e)
    BY <1>1, <1>7 DEF LeaveLoop, Wait, Add, SetStatus, vars, goVars, resultVars, sumsOf
  <1> QED BY <1>2, <1>3, <1>4, <1>5, <1>6, <1>7 DEF Next, LoopStep, GoStep

\* Nothing is left to be counted when the loop is done.
LEMMA AllCounted == CountInv /\ ResultInv /\ SumInv => TotalIsExact
  <1> SUFFICES ASSUME CountInv, ResultInv, SumInv, loop = "done"
               PROVE  totalMatches = SumFunction([e \in Exts |-> SumFunction(resp[e])])
    BY DEF TotalIsExact
  <1>1. ASSUME NEW e \in Exts PROVE Counted(e) = SumFunction(resp[e])
    <2>1. go[e] \in {"none", "release", "ended"}
      BY DEF CountInv, Awaited, Stages
    <2>2. ResultOf(e)
      BY DEF ResultInv
    <2>3. resp[e] \in Seq(Nat \ {0}) /\ file[e] \in 0 .. Len(resp[e])
          /\ (resp[e] = <<>> \/ file[e] = Len(resp[e]))
      BY <2>1, <2>2 DEF ResultOf
    <2>4. file[e] = Len(resp[e])
      BY <2>3
    <2> QED BY <2>3, <2>4, CountedPart DEF Counted
  <1>2. [e \in Exts |-> Counted(e)] = [e \in Exts |-> SumFunction(resp[e])]
    BY <1>1
  <1> QED BY <1>2 DEF SumInv, CountedSum

\* Each goroutine may pass the limit by the matches of one file.
LEMMA TotalIsBounded == ResultInv /\ SumInv => MatchesBounded
  <1> SUFFICES ASSUME ResultInv, SumInv PROVE MatchesBounded
    OBVIOUS
  <1> DEFINE C == [e \in Exts |-> Counted(e)]
             R == [e \in Exts |-> Room(e)]
  <1>1. \A e \in Exts : C[e] \in Nat /\ R[e] \in Nat
    BY RoomBounds, LimitsAssumption DEF SumInv
  <1>2. CountedSum = SumFunctionOnSet(C, Exts) /\ RoomSum = SumFunctionOnSet(R, Exts)
    BY DEF CountedSum, RoomSum, SumFunction
  <1> HIDE DEF C, R
  <1>3. CountedSum \in Nat /\ RoomSum \in Nat
    BY <1>1, <1>2, ExtsAssumption, SumOfSet
  <1>4. Cap + (Limit + 1) * MatchLimit \in Nat
    BY LimitsAssumption
  <1> QED BY <1>3, <1>4 DEF SumInv, MatchesBounded

-----------------------------------------------------------------------------
(* The table                                                               *)

TableFields == {"on", "loading", "error", "items", "sorting", "desc", "page", "close"}
RowFields == {"show", "slug", "modal"}

\* Once there is a table every render of it closes the rows: forceClose is set by
\* the first sort and never reset.
TableInv == DOMAIN table = TableFields /\ (table.on => table.close)

RowInv(t, r) ==
    /\ r \in 1 .. PageLen(t)
    /\ DOMAIN rows[r] = RowFields
    /\ IsActive(rows[r]) => rows[r].slug = ItemAt(t, r).slug

RowsInv == \A r \in DOMAIN rows : RowInv(table, r)

ListInv == TableInv /\ RowsInv

\* The state that a sort leaves is one in which rows are closed.
LEMMA SortCloses ==
    ASSUME NEW l, DOMAIN l = TableFields, NEW col
    PROVE  /\ DOMAIN SortBy(l, col) = TableFields
           /\ SortBy(l, col).close
           /\ SortBy(l, col).on = l.on
  BY DEF SortBy, TableFields

\* A render with such a state leaves no row open, whatever was open before.
LEMMA RenderCloses ==
    ASSUME NEW t, DOMAIN t = TableFields, t.close, Render(t)
    PROVE  ListInv'
  <1>1. table' = t /\ rows' = RowsOf(t)
    BY DEF Render
  <1>2. DOMAIN ClosedRow = RowFields /\ ~IsActive(ClosedRow)
    BY DEF ClosedRow, RowFields, IsActive
  <1>3. \A r \in DOMAIN RowsOf(t) : r \in 1 .. PageLen(t) /\ RowsOf(t)[r] = ClosedRow
    BY DEF RowsOf, ReceiveProps
  <1>4. TableInv'
    BY <1>1 DEF TableInv
  <1>5. RowsInv'
    BY <1>1, <1>2, <1>3 DEF RowsInv, RowInv, PageLen, FirstItem, ItemAt
  <1> QED BY <1>4, <1>5 DEF ListInv

\* A step that sets one row of a table that stays.
LEMMA SetRowKeeps ==
    ASSUME ListInv, NEW r \in DOMAIN rows, NEW row, SetRow(r, row),
           DOMAIN row = RowFields,
           IsActive(row) => row.slug = ItemAt(table, r).slug
    PROVE  ListInv'
  <1>1. table' = table /\ rows' = [rows EXCEPT ![r] = row]
    BY DEF SetRow
  <1>2. DOMAIN rows' = DOMAIN rows
    BY <1>1
  <1>3. \A q \in DOMAIN rows : rows'[q] = IF q = r THEN row ELSE rows[q]
    BY <1>1
  <1>4. RowsInv'
    <2> SUFFICES ASSUME NEW q \in DOMAIN rows PROVE RowInv(table, q)'
      BY <1>1, <1>2 DEF RowsInv
    <2>1. RowInv(table, q)
      BY DEF ListInv, RowsInv
    <2> QED BY <1>1, <1>3, <2>1 DEF RowInv, PageLen, FirstItem, ItemAt
  <1> QED BY <1>1, <1>4 DEF ListInv, TableInv

\* Every step of the table keeps the invariant, whatever the server found.
LEMMA ListStepKeeps ==
    ASSUME ListInv, NEW found, ListStep(found)
    PROVE  ListInv'
  <1> USE DEF ListInv
  <1>1. CASE ListLoaded(found)
    <2>1. PICK s \in Orders(found) :
            Render(SortBy([table EXCEPT !.items = s, !.loading = FALSE], "installs"))
      BY <1>1 DEF ListLoaded
    <2>2. DOMAIN [table EXCEPT !.items = s, !.loading = FALSE] = TableFields
      BY DEF TableInv, TableFields
    <2> QED BY <2>1, <2>2, SortCloses, RenderCloses
  <1>2. CASE ListFails
    BY <1>2, RenderCloses DEF ListFails, TableInv, TableFields
  <1>3. ASSUME NEW col \in Columns, ClickColumn(col) PROVE ListInv'
    BY <1>3, SortCloses, RenderCloses DEF ClickColumn, TableInv
  <1>4. CASE PrevPage
    <2>1. DOMAIN [table EXCEPT !.page = @ - 1] = TableFields
          /\ [table EXCEPT !.page = @ - 1].close
      BY <1>4 DEF PrevPage, TableInv, TableFields
    <2> QED BY <1>4, <2>1, RenderCloses DEF PrevPage
  <1>5. CASE NextPage
    <2>1. DOMAIN [table EXCEPT !.page = @ + 1] = TableFields
          /\ [table EXCEPT !.page = @ + 1].close
      BY <1>5 DEF NextPage, TableInv, TableFields
    <2> QED BY <1>5, <2>1, RenderCloses DEF NextPage
  <1>6. ASSUME NEW r \in DOMAIN rows, ToggleRow(r) PROVE ListInv'
    <2> DEFINE row == IF IsActive(rows[r]) THEN ClosedRow
                      ELSE [ClosedRow EXCEPT !.show = "loading",
                                             !.slug = ItemAt(table, r).slug]
    <2>1. SetRow(r, row)
      BY <1>6 DEF ToggleRow
    <2>2. DOMAIN row = RowFields
      BY DEF ClosedRow, RowFields
    <2>3. IsActive(row) => row.slug = ItemAt(table, r).slug
      BY DEF ClosedRow, IsActive
    <2> QED BY <2>1, <2>2, <2>3, SetRowKeeps
  <1>7. ASSUME NEW r \in DOMAIN rows,
               \/ MatchesLoaded(r) \/ MatchesFail(r)
               \/ ToggleModal(r) \/ FileLoaded(r) \/ FileFails(r)
        PROVE ListInv'
    <2>1. DOMAIN rows[r] = RowFields
          /\ (IsActive(rows[r]) => rows[r].slug = ItemAt(table, r).slug)
      BY DEF RowsInv, RowInv
    <2>2. \A to : DOMAIN [rows[r] EXCEPT !.modal = to] = RowFields
                  /\ [rows[r] EXCEPT !.modal = to].show = rows[r].show
                  /\ [rows[r] EXCEPT !.modal = to].slug = rows[r].slug
      BY <2>1 DEF RowFields
    <2>3. \A to : DOMAIN [rows[r] EXCEPT !.show = to] = RowFields
                  /\ [rows[r] EXCEPT !.show = to].slug = rows[r].slug
      BY <2>1 DEF RowFields
    <2>4. CASE MatchesLoaded(r)
      BY <2>1, <2>3, <2>4, SetRowKeeps DEF MatchesLoaded, IsActive
    <2>5. CASE MatchesFail(r)
      BY <2>1, <2>3, <2>5, SetRowKeeps DEF MatchesFail, IsActive
    <2>6. CASE ToggleModal(r)
      BY <2>1, <2>2, <2>6, SetRowKeeps
      DEF ToggleModal, IsActive, HasModal, OpenModal, CloseModal
    <2>7. CASE FileLoaded(r)
      BY <2>1, <2>2, <2>7, SetRowKeeps DEF FileLoaded, IsActive, ShowFile
    <2>8. CASE FileFails(r)
      BY <2>1, <2>2, <2>8, SetRowKeeps DEF FileFails, IsActive
    <2> QED BY <1>7, <2>4, <2>5, <2>6, <2>7, <2>8
  <1>8. CASE Escape
    <2>1. table' = table /\ rows' = [r \in DOMAIN rows |-> CloseModal(rows[r])]
      BY <1>8 DEF Escape
    <2> SUFFICES ASSUME NEW r \in DOMAIN rows PROVE RowInv(table, r)'
      BY <2>1 DEF RowsInv, TableInv
    <2>2. RowInv(table, r) /\ rows'[r] = CloseModal(rows[r])
      BY <2>1 DEF RowsInv
    <2>3. DOMAIN rows'[r] = RowFields /\ rows'[r].show = rows[r].show
          /\ rows'[r].slug = rows[r].slug
      BY <2>2 DEF RowInv, CloseModal, RowFields
    <2> QED BY <2>1, <2>2, <2>3 DEF RowInv, IsActive, PageLen, FirstItem, ItemAt
  <1> QED BY <1>1, <1>2, <1>3, <1>4, <1>5, <1>6, <1>7, <1>8 DEF ListStep

\* Nothing else touches the rows of a table.
LEMMA ShowStepKeeps ==
    ASSUME ListInv, ShowStep
    PROVE  ListInv'
  <1> USE DEF ListInv
  <1>1. DOMAIN NoTable = TableFields
    BY DEF NoTable, TableFields
  <1>2. CASE MountTable
    <2>1. DOMAIN [NoTable EXCEPT !.on = TRUE, !.loading = TRUE] = TableFields
      BY DEF NoTable, TableFields
    <2>2. DOMAIN NewTable = TableFields /\ NewTable.close
      BY <2>1, SortCloses DEF NewTable
    <2>3. table' = NewTable /\ rows' = <<>>
      BY <1>2 DEF MountTable
    <2>4. DOMAIN rows' = {}
      BY <2>3
    <2> QED BY <2>2, <2>3, <2>4 DEF TableInv, RowsInv
  <1>3. CASE UnmountTable
    BY <1>1, <1>3 DEF UnmountTable, NoTable, TableInv, RowsInv
  <1>4. CASE RenderTable
    BY <1>4, RenderCloses DEF RenderTable, TableInv
  <1> QED BY <1>2, <1>3, <1>4, ListStepKeeps DEF ShowStep

\* A title and the matches under it belong together, although Items stay where
\* they are when the table is sorted or its page turned, and Matches asks once.
THEOREM OpenRowIsRight == ResultsSpec => []OpenRowShowsItsOwn
  <1>1. ResultsInit => ListInv
    BY DEF ResultsInit, ListInit, NoTable, ListInv, TableInv, TableFields, RowsInv
  <1>2. ListInv /\ [ResultsNext]_allVars => ListInv'
    <2> SUFFICES ASSUME ListInv, [ResultsNext]_allVars PROVE ListInv'
      OBVIOUS
    <2>1. CASE ScanStep \/ UNCHANGED allVars
      <3>1. table' = table /\ rows' = rows
        BY <2>1 DEF ScanStep, allVars, listVars
      <3> QED BY <3>1 DEF ListInv, TableInv, RowsInv, RowInv, PageLen, FirstItem, ItemAt
    <2> QED BY <2>1, ShowStepKeeps DEF ResultsNext
  <1>3. ListInv => OpenRowShowsItsOwn
    BY DEF ListInv, RowsInv, RowInv, OpenRowShowsItsOwn
  <1> QED BY <1>1, <1>2, <1>3, PTL DEF ResultsSpec

-----------------------------------------------------------------------------
(* The search                                                              *)

\* Until it is complete a search takes the steps of SearchScan, and from then on
\* none.
LEMMA SearchMoves == [ResultsNext]_allVars => [Next]_vars
  BY DEF ResultsNext, ScanStep, ShowStep, allVars

\* Never more than Limit goroutines are at work, and none when the search is taken
\* for complete, but for giving back its slot.
THEOREM LimitIsKept == ResultsSpec => []WithinLimit
  <1>1. ResultsInit => CountInv
    BY CountInit DEF ResultsInit
  <1>2. CountInv /\ [ResultsNext]_allVars => CountInv'
    BY CountStep, SearchMoves
  <1> QED BY <1>1, <1>2, CountWithinLimit, PTL DEF ResultsSpec

\* The summary that is stored names exactly the extensions with matches, and for
\* each the number of the matches that are listed of it.
THEOREM SummaryIsRight == ResultsSpec => []SummaryAgrees
  <1>1. ResultsInit => CountInv /\ ResultInv
    BY CountInit, ResultInit DEF ResultsInit
  <1>2. CountInv /\ ResultInv /\ [ResultsNext]_allVars => (CountInv /\ ResultInv)'
    BY CountStep, ResultStep, SearchMoves
  <1> QED BY <1>1, <1>2, ResultsAgree, PTL DEF ResultsSpec

\* A complete search that was not cut short has searched every extension that was
\* open all the while, whatever was added, closed or opened in between.
THEOREM OpenAreSearched == ResultsSpec => []EveryOpenIsScanned
  <1> DEFINE Inv == CountInv /\ ResultInv /\ VisitInv
  <1>1. ResultsInit => Inv
    BY CountInit, ResultInit, VisitInit DEF ResultsInit
  <1>2. Inv /\ [ResultsNext]_allVars => Inv'
    BY CountStep, ResultStep, VisitStep, SearchMoves
  <1>3. Inv => EveryOpenIsScanned
    BY OpenAreScanned
  <1> QED BY <1>1, <1>2, <1>3, PTL DEF ResultsSpec

\* The progress that is shown goes up to 100 and no further while no extension is
\* added, and a loop that has gone through the whole list leaves it there.
THEOREM ProgressIsCorrect == ResultsSpec => []ProgressIsPercent
  <1> DEFINE Inv == CountInv /\ ResultInv /\ VisitInv /\ ProgressInv
  <1>1. ResultsInit => Inv
    BY CountInit, ResultInit, VisitInit, ProgressInit DEF ResultsInit
  <1>2. Inv /\ [ResultsNext]_allVars => Inv'
    BY CountStep, ResultStep, VisitStep, ProgressStep, SearchMoves
  <1>3. Inv => ProgressIsPercent
    BY ProgressIsRight
  <1> QED BY <1>1, <1>2, <1>3, PTL DEF ResultsSpec

\* The number of matches that is stored with a search is that of all its files, in
\* whichever order the goroutines have added them.
THEOREM TotalIsRight == ResultsSpec => []TotalIsExact
  <1> DEFINE Inv == CountInv /\ ResultInv /\ SumInv
  <1>1. ResultsInit => Inv
    BY CountInit, ResultInit, SumInit DEF ResultsInit
  <1>2. Inv /\ [ResultsNext]_allVars => Inv'
    BY CountStep, ResultStep, SumStep, SearchMoves
  <1>3. Inv => TotalIsExact
    BY AllCounted
  <1> QED BY <1>1, <1>2, <1>3, PTL DEF ResultsSpec

\* The total, that becomes a uint32, goes beyond the cap by no more than the matches
\* of one extension per goroutine and of one more.
THEOREM MatchesAreBounded == ResultsSpec => []MatchesBounded
  <1> DEFINE Inv == CountInv /\ ResultInv /\ SumInv
  <1>1. ResultsInit => Inv
    BY CountInit, ResultInit, SumInit DEF ResultsInit
  <1>2. Inv /\ [ResultsNext]_allVars => Inv'
    BY CountStep, ResultStep, SumStep, SearchMoves
  <1>3. Inv => MatchesBounded
    BY TotalIsBounded
  <1> QED BY <1>1, <1>2, <1>3, PTL DEF ResultsSpec

-----------------------------------------------------------------------------
(* The scan of the manager                                                 *)

\* A step that settles the extension e and finds it or not is one of the manager's,
\* whose lock is free and whose other variables keep their values.
LEMMA SettlesOne ==
    ASSUME NEW e \in todoBar, NEW hit \in BOOLEAN,
           todoBar' = todoBar \ {e},
           foundBar' = IF hit THEN foundBar \cup {e} ELSE foundBar,
           wpcBar = "scan", wpcBar' = "scan"
    PROVE  Manager!ScanExtension
  BY DEF Manager!ScanExtension, Manager!Free, Manager!qvars, Manager!queueVars,
         Manager!memVars, Manager!clientVars, Manager!dbVars, Manager!envVars

\* The end of the loop is the manager's.
LEMMA SettlesAll ==
    ASSUME wpcBar = "scan", wpcBar' = "saveSummary", todoBar = {} \/ foundBar # {},
           todoBar' = {}, foundBar' = foundBar
    PROVE  Manager!ScanDone
  BY DEF Manager!ScanDone, Manager!qvars, Manager!queueVars,
         Manager!memVars, Manager!clientVars, Manager!dbVars, Manager!envVars

ScanInv == CountInv /\ ResultInv /\ VisitInv /\ SumInv

\* Where nothing was found and no goroutine is awaited, nothing was counted, so that
\* the loop was not cut short.
LEMMA NothingFoundNotCut ==
    ASSUME ScanInv, list = Initial, foundBar = {}, \A e \in Exts : go[e] \notin Awaited
    PROVE  ~TooMany
  <1> DEFINE C == [e \in Exts |-> Counted(e)]
  <1>1. ASSUME NEW e \in Exts PROVE Counted(e) = 0
    <2>1. go[e] \in {"none", "release", "ended"} /\ ResultOf(e)
      BY DEF ScanInv, CountInv, ResultInv, Stages, Awaited
    <2>2. sum[e] = 0
      <3>1. CASE e \in Initial
        BY <3>1 DEF foundBar
      <3>2. CASE e \notin Initial
        BY <2>1, <3>2 DEF ScanInv, CountInv, VisitInv, ResultOf
      <3> QED BY <3>1, <3>2
    <2>3. file[e] = 0
      <3>1. resp[e] \in Seq(Nat \ {0}) /\ file[e] \in 0 .. Len(resp[e])
        BY <2>1 DEF ResultOf
      <3>2. resp[e] = <<>> \/ (resp[e] # <<>> /\ file[e] = Len(resp[e]) /\ eMatches[e] = 0)
        BY <2>1, <2>2 DEF ResultOf
      <3>3. file[e] # 0 => eMatches[e] = resp[e][file[e]]
        BY <2>1 DEF ResultOf
      <3>4. file[e] # 0 => resp[e][file[e]] \in Nat \ {0}
        BY <3>1
      <3> QED BY <3>1, <3>2, <3>3, <3>4
    <2> QED BY <2>3, NothingCounted DEF ScanInv
  <1>2. DOMAIN C = Exts /\ \A e \in Exts : C[e] = 0
    BY <1>1
  <1> HIDE DEF C
  <1>3. SumFunction(C) = 0
    BY <1>2, ZeroSum
  <1>4. totalMatches = 0
    BY <1>3 DEF C, ScanInv, SumInv, CountedSum
  <1> QED BY <1>4, LimitsAssumption DEF TooMany

barVars == <<wpcBar, todoBar, foundBar>>

\* One step of the loop or of a goroutine settles at most the extension it is about.
LEMMA ScanStepRefines ==
    ASSUME ScanInv, ScanInv', list = Initial, list' = Initial, [Next]_vars
    PROVE  [ManagerScans]_barVars
  <1> USE DEF ScanInv
  <1>0. Initial \subseteq Exts
    BY ExtsAssumption
  <1>1. ASSUME UNCHANGED <<loop, visited, go, sum>> PROVE UNCHANGED barVars
    BY <1>1 DEF barVars, wpcBar, todoBar, foundBar, Settled
  \* The stage and the summary of an extension that is neither settled nor visited
  \* anew, or is settled already, change nothing.
  <1>2. ASSUME NEW e \in Exts, NEW to, Goto(e, to), UNCHANGED <<loop, sum>>,
               visited' = visited \/ visited' = visited \cup {e},
               Settled(e) <=> Settled(e)'
        PROVE  UNCHANGED barVars
    <2>1. \A f \in Exts \ {e} : Settled(f)' <=> Settled(f)
      BY <1>2 DEF Goto, Settled, CountInv
    <2> QED BY <1>0, <1>2, <2>1 DEF barVars, wpcBar, todoBar, foundBar
  <1>3. ASSUME NEW e \in Exts, Visit(e) PROVE [ManagerScans]_barVars
    <2>1. /\ loop = "range" /\ loop' = loop /\ e \in Initial \ visited
          /\ visited' = visited \cup {e} /\ sum' = sum /\ go[e] = "none"
      BY <1>3 DEF Visit, AtTop, resultVars, CountInv
    <2>2. CASE e \in open
      <3>1. Goto(e, "slot")
        BY <1>3, <2>2 DEF Visit
      <3>2. ~Settled(e) /\ ~Settled(e)'
        BY <2>1, <3>1 DEF Settled, Goto, CountInv
      <3> QED BY <1>2, <2>1, <3>1, <3>2
    <2>3. CASE e \notin open
      <3>1. go' = go
        BY <1>3, <2>3 DEF Visit
      <3>2. e \in todoBar /\ todoBar' = todoBar \ {e} /\ foundBar' = foundBar
        BY <2>1, <3>1 DEF todoBar, foundBar, Settled
      <3>3. wpcBar = "scan" /\ wpcBar' = "scan"
        BY <2>1 DEF wpcBar
      <3> QED BY <3>2, <3>3, SettlesOne DEF ManagerScans
    <2> QED BY <2>2, <2>3
  <1>4. ASSUME NEW e \in Exts, StartGoroutine(e) PROVE [ManagerScans]_barVars
    <2>1. go[e] = "slot" /\ Goto(e, "search") /\ UNCHANGED <<loop, visited, sum>>
      BY <1>4 DEF StartGoroutine, loopVars, resultVars
    <2>2. ~Settled(e) /\ ~Settled(e)'
      BY <2>1 DEF Settled, Goto, CountInv
    <2> QED BY <1>2, <2>1, <2>2
  \* What a goroutine is about was visited, so that the loop is not done.
  <1>5. ASSUME NEW e \in Exts, go[e] \in {"search", "files"}
        PROVE  e \in Initial /\ e \in visited /\ loop # "done" /\ e \in todoBar /\ sum[e] = 0
    <2>1. e \in visited /\ loop # "done"
      BY <1>5 DEF CountInv, Awaited
    <2>2. sum[e] = 0
      BY <1>5 DEF ResultInv, ResultOf
    <2> QED BY <1>5, <2>1, <2>2 DEF VisitInv, todoBar, Settled
  <1>6. ASSUME NEW e \in Exts, Search(e) PROVE [ManagerScans]_barVars
    <2>1. go[e] = "search" /\ UNCHANGED <<loop, visited, sum>>
      BY <1>6 DEF Search, loopVars, resultVars
    <2>2. CASE Goto(e, "files")
      <3>1. ~Settled(e) /\ ~Settled(e)'
        BY <2>1, <2>2 DEF Settled, Goto, CountInv
      <3> QED BY <1>2, <2>1, <2>2, <3>1
    <2>3. CASE Goto(e, "release")
      <3>1. go' = [go EXCEPT ![e] = "release"]
        BY <2>3 DEF Goto
      <3>2. e \in todoBar /\ e \in visited /\ loop # "done"
        BY <1>5, <2>1
      <3>3. todoBar' = todoBar \ {e}
        BY <1>0, <2>1, <3>1, <3>2 DEF todoBar, Settled, CountInv
      <3>4. foundBar' = foundBar /\ wpcBar = "scan" /\ wpcBar' = "scan"
        BY <2>1, <3>2 DEF foundBar, wpcBar
      <3> QED BY <3>2, <3>3, <3>4, SettlesOne DEF ManagerScans
    <2> QED BY <1>6, <2>2, <2>3 DEF Search
  <1>7. ASSUME NEW e \in Exts, CountFile(e) PROVE [ManagerScans]_barVars
    BY <1>1, <1>7 DEF CountFile, loopVars
  <1>8. ASSUME NEW e \in Exts, PutResult(e) PROVE [ManagerScans]_barVars
    <2>1. /\ go[e] = "files" /\ go' = [go EXCEPT ![e] = "done"]
          /\ sum' = [sum EXCEPT ![e] = eMatches[e]]
          /\ UNCHANGED <<loop, visited>>
      BY <1>8 DEF PutResult, Goto, loopVars
    <2>2. e \in Initial /\ e \in todoBar /\ e \in visited /\ loop # "done"
      BY <1>5, <2>1
    <2>3. todoBar' = todoBar \ {e}
      BY <1>0, <2>1, <2>2 DEF todoBar, Settled, CountInv
    <2>4. sum'[e] # 0
      <3>1. resp[e] \in Seq(Nat \ {0}) /\ resp[e] # <<>> /\ file[e] = Len(resp[e])
        BY <1>8, <2>1 DEF PutResult, ResultInv, ResultOf
      <3>2. file[e] # 0
        BY <3>1
      <3>3. eMatches[e] = resp[e][file[e]]
        BY <3>2 DEF ResultInv, ResultOf
      <3>4. sum'[e] = eMatches[e]
        BY <2>1 DEF ResultInv
      <3> QED BY <3>1, <3>2, <3>3, <3>4
    <2>5. foundBar' = foundBar \cup {e}
      BY <1>0, <2>1, <2>2, <2>4 DEF foundBar, ResultInv
    <2>6. wpcBar = "scan" /\ wpcBar' = "scan"
      BY <2>1, <2>2 DEF wpcBar
    <2> QED BY <2>2, <2>3, <2>5, <2>6, SettlesOne DEF ManagerScans
  <1>9. ASSUME NEW e \in Exts, Done(e) \/ Release(e) PROVE [ManagerScans]_barVars
    <2>1. PICK to \in {"release", "ended"} :
            go[e] \in {"done", "release"} /\ Goto(e, to) /\ UNCHANGED <<loop, visited, sum>>
      BY <1>9 DEF Done, Release, loopVars, resultVars
    <2>2. Settled(e) /\ Settled(e)'
      BY <2>1 DEF Settled, Goto, CountInv
    <2> QED BY <1>2, <2>1, <2>2
  <1>10. CASE LeaveLoop
    <2>1. loop = "range" /\ loop' = "wait" /\ UNCHANGED <<visited, go, sum>>
      BY <1>10 DEF LeaveLoop, AtTop, goVars, resultVars
    <2> QED BY <2>1 DEF barVars, wpcBar, todoBar, foundBar, Settled
  <1>11. CASE Wait
    <2>1. loop = "wait" /\ loop' = "done" /\ UNCHANGED <<visited, go, sum>>
      BY <1>11 DEF Wait, goVars, resultVars
    <2>2. \A e \in Exts : go[e] \notin Awaited
      BY <2>1 DEF CountInv
    <2>3. todoBar = {} \/ foundBar # {}
      <3>1. SUFFICES ASSUME foundBar = {} PROVE todoBar = {}
        OBVIOUS
      <3>2. Initial \subseteq visited
        BY <2>1, <2>2, <3>1, NothingFoundNotCut DEF VisitInv
      <3> QED BY <1>0, <2>2, <3>2 DEF todoBar, Settled, CountInv, Stages, Awaited
    <2>4. wpcBar = "scan" /\ wpcBar' = "saveSummary" /\ todoBar' = {} /\ foundBar' = foundBar
      BY <2>1 DEF wpcBar, todoBar, foundBar
    <2> QED BY <2>3, <2>4, SettlesAll DEF ManagerScans
  <1>12. CASE UNCHANGED vars \/ \E e \in Exts : Add(e) \/ SetStatus(e)
    BY <1>1, <1>12 DEF Add, SetStatus, vars, loopVars, goVars, resultVars
  <1> QED BY <1>3, <1>4, <1>6, <1>7, <1>8, <1>9, <1>10, <1>11, <1>12
          DEF Next, LoopStep, GoStep

\* The goroutines of a search together are the scan of the manager, which takes one
\* extension after the other: while no extension is added to the list, whatever is
\* closed or opened, the search finds as the manager does, and the loop that is cut
\* short by too many matches has found something.
THEOREM ScanIsTheManagers == ResultsSpec /\ [](list = Initial) => ImplementsScan
  <1>1. ResultsInit => ScanInv
    BY CountInit, ResultInit, VisitInit, SumInit DEF ResultsInit, ScanInv
  <1>2. ScanInv /\ [ResultsNext]_allVars => ScanInv'
    BY CountStep, ResultStep, VisitStep, SumStep, SearchMoves DEF ScanInv
  <1>3. ResultsInit => wpcBar = "scan" /\ todoBar = Initial /\ foundBar = {}
    BY ExtsAssumption DEF ResultsInit, Init, wpcBar, todoBar, foundBar, Settled
  <1>4. ScanInv /\ ScanInv' /\ list = Initial /\ (list = Initial)' /\ [ResultsNext]_allVars
            => [ManagerScans]_<<wpcBar, todoBar, foundBar>>
    BY ScanStepRefines, SearchMoves DEF barVars
  <1> QED BY <1>1, <1>2, <1>3, <1>4, PTL DEF ResultsSpec, ImplementsScan
=============================================================================
