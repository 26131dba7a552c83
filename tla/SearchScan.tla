------------------------------ MODULE SearchScan ------------------------------
(***************************************************************************)
(* The loop of processSearch (search.go:170-267): one search over the      *)
(* extensions of a repository, with a goroutine for each open one and a    *)
(* limiter that bounds how many of them run.  SearchManager has one step   *)
(* for what is a goroutine here.                                           *)
(*                                                                         *)
(* The loop ranges over the live map of the repository, to which updates   *)
(* add extensions meanwhile; they also change the status of extensions.    *)
(* A goroutine's search of its index (Index.Search) is one step: its       *)
(* result is the number of matches in each file that has any.              *)
(***************************************************************************)
EXTENDS Integers, Sequences, FiniteSets, Functions

CONSTANTS
    Exts,       \* the extensions there may be
    Initial,    \* those in the list when the search starts
    Updated,    \* those whose status updates may change meanwhile
    Results,    \* the matches per file that a search of one of them may find
    Limit,      \* Manager.limit
    Cap,        \* 100000 (search.go:197)
    MatchLimit  \* the matchLimit of internal/index

ASSUME ExtsAssumption ==
    /\ IsFiniteSet(Exts)
    /\ Initial \subseteq Exts /\ Initial # {}
    /\ Exts \ Initial \subseteq Updated /\ Updated \subseteq Exts
ASSUME ResultsAssumption == Results \subseteq Seq(Nat \ {0})
ASSUME LimitsAssumption ==
    Limit \in Nat \ {0} /\ Cap \in Nat /\ MatchLimit \in Nat

VARIABLES
    list,         \* the keys of Repo.List
    open,         \* the extensions whose Status is Open
    loop,         \* whether the loop goes on, waits for its goroutines, is done
    visited,      \* the keys the range has produced
    progress,     \* Search.Progress
    limiter,      \* the slots of the limiter that are taken
    wg,           \* the counter of the WaitGroup
    go,           \* where the goroutine of each extension is
    resp,         \* what its search has returned
    file,         \* how many files of resp it has gone through
    eMatches,     \* its variable of that name
    totalMatches, \* the matches of all the goroutines
    matchList,    \* the file whose matches are listed for an extension, or 0
    sum           \* the matches that its summary names, or 0

envVars == <<list, open>>
loopVars == <<loop, visited, progress>>
waitVars == <<limiter, wg>>
goVars == <<go, resp, file, eMatches>>
resultVars == <<totalMatches, matchList, sum>>
vars == <<envVars, loopVars, waitVars, goVars, resultVars>>

Init ==
    /\ list = Initial
    /\ open \in {Initial \ C : C \in SUBSET Updated}
    /\ loop = "range" /\ visited = {} /\ progress = 0
    /\ limiter = 0 /\ wg = 0
    /\ go = [e \in Exts |-> "none"]
    /\ resp = [e \in Exts |-> <<>>]
    /\ file = [e \in Exts |-> 0]
    /\ eMatches = [e \in Exts |-> 0]
    /\ totalMatches = 0
    /\ matchList = [e \in Exts |-> 0]
    /\ sum = [e \in Exts |-> 0]

\* With a mistake: the extension in hand is counted twice.
PercentAhead(n, d) == (200 * (n + 1) + d) \div (2 * d)

\* Go's math.Round of 100 * n / d.
Percent(n, d) == (200 * n + d) \div (2 * d)

Goto(e, to) == go' = [go EXCEPT ![e] = to]

-----------------------------------------------------------------------------
(* Variants of the definitions below with a plausible mistake.             *)

\* The cap is compared with the matches of a single extension.
TooManyOfOne == \E e \in Exts : eMatches[e] > Cap

\* The goroutine is started before there is a slot for it.
StartWithoutSlot(e) ==
    /\ go[e] = "slot"
    /\ limiter' = limiter + 1
    /\ Goto(e, "search")
    /\ UNCHANGED <<envVars, loopVars, wg, resp, file, eMatches, resultVars>>

\* break in the place of continue at a closed extension.
VisitStopsAtClosed(e) ==
    /\ loop = "range" /\ totalMatches <= Cap
    /\ \A f \in Exts : go[f] # "slot"
    /\ e \in list \ visited
    /\ visited' = visited \cup {e}
    /\ progress' = Percent(Cardinality(visited'), Cardinality(Initial))
    /\ IF e \in open
       THEN wg' = wg + 1 /\ Goto(e, "slot") /\ loop' = loop
       ELSE loop' = "wait" /\ UNCHANGED <<wg, go>>
    /\ UNCHANGED <<envVars, limiter, resp, file, eMatches, resultVars>>

\* The branch without matches keeps its slot of the limiter.
SearchKeepsSlot(e) == \E r \in Results \cup {<<>>} :
    /\ go[e] = "search"
    /\ resp' = [resp EXCEPT ![e] = r]
    /\ IF r = <<>> THEN wg' = wg - 1 /\ Goto(e, "ended")
                   ELSE wg' = wg /\ Goto(e, "files")
    /\ UNCHANGED <<envVars, loopVars, limiter, file, eMatches, resultVars>>

\* The matches are added up for the summary, but not for the list.
CountFileAdds(e) ==
    LET n == file[e] + 1
    IN  /\ go[e] = "files" /\ n <= Len(resp[e])
        /\ file' = [file EXCEPT ![e] = n]
        /\ eMatches' = [eMatches EXCEPT ![e] = @ + resp[e][n]]
        /\ totalMatches' = totalMatches + resp[e][n]
        /\ matchList' = [matchList EXCEPT ![e] = n]
        /\ UNCHANGED <<envVars, loopVars, waitVars, go, resp, sum>>

\* The total is increased by the first file only.
CountFileOnce(e) ==
    LET n == file[e] + 1
    IN  /\ go[e] = "files" /\ n <= Len(resp[e])
        /\ file' = [file EXCEPT ![e] = n]
        /\ eMatches' = [eMatches EXCEPT ![e] = resp[e][n]]
        /\ totalMatches' = IF n = 1 THEN totalMatches + resp[e][n] ELSE totalMatches
        /\ matchList' = [matchList EXCEPT ![e] = n]
        /\ UNCHANGED <<envVars, loopVars, waitVars, go, resp, sum>>

-----------------------------------------------------------------------------
(* The loop.  It reads totalMatches without synchronisation; a value that   *)
(* is read late counts as an addition that is made late.                    *)

TooMany == totalMatches > Cap

\* Nothing is in hand between wg.Add and the start of its goroutine.
AtTop == loop = "range" /\ \A e \in Exts : go[e] # "slot"

\* One turn: progress is stored, and a goroutine prepared if the extension is
\* open.  The length was taken before the loop.
Visit(e) ==
    /\ AtTop /\ ~TooMany
    /\ e \in list \ visited
    /\ visited' = visited \cup {e}
    /\ progress' = Percent(Cardinality(visited'), Cardinality(Initial))
    /\ IF e \in open THEN wg' = wg + 1 /\ Goto(e, "slot") ELSE UNCHANGED <<wg, go>>
    /\ UNCHANGED <<envVars, loop, limiter, resp, file, eMatches, resultVars>>

\* limiter <- struct{}{}; go func(...)
StartGoroutine(e) ==
    /\ go[e] = "slot"
    /\ limiter < Limit
    /\ limiter' = limiter + 1
    /\ Goto(e, "search")
    /\ UNCHANGED <<envVars, loopVars, wg, resp, file, eMatches, resultVars>>

\* The loop ends at the break, or when the range has produced all the keys that
\* were there from the start and, of those added since, whichever it likes.
LeaveLoop ==
    /\ AtTop
    /\ TooMany \/ Initial \subseteq visited
    /\ loop' = "wait"
    /\ UNCHANGED <<envVars, visited, progress, waitVars, goVars, resultVars>>

\* wg.Wait; from here on the results are read.
Wait ==
    /\ loop = "wait" /\ wg = 0
    /\ loop' = "done"
    /\ UNCHANGED <<envVars, visited, progress, waitVars, goVars, resultVars>>

-----------------------------------------------------------------------------
(* The goroutines.                                                         *)

\* Index.Search gives up with an error once it has more than MatchLimit.
SearchResult(r) == IF SumFunction(r) > MatchLimit THEN <<>> ELSE r

\* An error and a result without matches end the goroutine.
Search(e) == \E r \in Results \cup {<<>>} :
    /\ go[e] = "search"
    /\ resp' = [resp EXCEPT ![e] = SearchResult(r)]
    /\ IF resp'[e] = <<>> THEN wg' = wg - 1 /\ Goto(e, "release")
                          ELSE wg' = wg /\ Goto(e, "files")
    /\ UNCHANGED <<envVars, loopVars, limiter, file, eMatches, resultVars>>

\* One file: its matches are added to the total, and replace those that eMatches
\* and the list hold of the file before.
CountFile(e) ==
    LET n == file[e] + 1
    IN  /\ go[e] = "files" /\ n <= Len(resp[e])
        /\ file' = [file EXCEPT ![e] = n]
        /\ eMatches' = [eMatches EXCEPT ![e] = resp[e][n]]
        /\ totalMatches' = totalMatches + resp[e][n]
        /\ matchList' = [matchList EXCEPT ![e] = n]
        /\ UNCHANGED <<envVars, loopVars, waitVars, go, resp, sum>>

PutResult(e) ==
    /\ go[e] = "files" /\ file[e] = Len(resp[e])
    /\ sum' = [sum EXCEPT ![e] = eMatches[e]]
    /\ Goto(e, "done")
    /\ UNCHANGED <<envVars, loopVars, waitVars, resp, file, eMatches, totalMatches,
                   matchList>>

Done(e) ==
    /\ go[e] = "done"
    /\ wg' = wg - 1
    /\ Goto(e, "release")
    /\ UNCHANGED <<envVars, loopVars, limiter, resp, file, eMatches, resultVars>>

Release(e) ==
    /\ go[e] = "release"
    /\ limiter' = limiter - 1
    /\ Goto(e, "ended")
    /\ UNCHANGED <<envVars, loopVars, wg, resp, file, eMatches, resultVars>>

-----------------------------------------------------------------------------
(* The updates that run meanwhile. *)

Add(e) ==
    /\ e \notin list
    /\ list' = list \cup {e}
    /\ UNCHANGED <<open, loopVars, waitVars, goVars, resultVars>>

SetStatus(e) ==
    /\ e \in list \cap Updated
    /\ open' = IF e \in open THEN open \ {e} ELSE open \cup {e}
    /\ UNCHANGED <<list, loopVars, waitVars, goVars, resultVars>>

-----------------------------------------------------------------------------
LoopStep ==
    \/ LeaveLoop \/ Wait
    \/ \E e \in Exts : Visit(e) \/ StartGoroutine(e)

GoStep(e) == Search(e) \/ CountFile(e) \/ PutResult(e) \/ Done(e) \/ Release(e)

Next ==
    \/ LoopStep
    \/ \E e \in Exts : GoStep(e) \/ Add(e) \/ SetStatus(e)

\* Goroutines that can run do.  That a search of an index ends is assumed here;
\* ExtensionIndex shows when it does not.
Fairness == WF_vars(LoopStep) /\ \A e \in Exts : WF_vars(GoStep(e))

-----------------------------------------------------------------------------
(* Properties *)

\* However the loop and the goroutines interleave, no more than Limit of them
\* are at work, and none goes on when the search is taken for complete, but for
\* giving back its slot.
WithinLimit ==
    /\ Cardinality({e \in Exts : go[e] \in {"search", "files", "done", "release"}})
           <= Limit
    /\ loop = "done" => \A e \in Exts : go[e] \in {"none", "release", "ended"}

\* The cap is only tested between two extensions, while others are counting.
\* Still the total, which becomes the uint32 of Search.Matches, is bounded: by
\* one extension per goroutine and one more beyond the cap.
MatchesBounded == totalMatches <= Cap + (Limit + 1) * MatchLimit

\* The number of matches that is stored with a search is that of all its files.
TotalIsExact ==
    loop = "done" =>
        totalMatches = SumFunction([e \in Exts |-> SumFunction(resp[e])])

\* A complete search that was not cut short has searched every extension that
\* was in the list and open all the while, whatever was added or closed.
EveryOpenIsScanned ==
    loop = "done" /\ ~TooMany => \A e \in Initial \ Updated : go[e] \in {"release", "ended"}

\* The progress shown is a percentage as long as no extension is added, and 100
\* for a loop that went through the whole list.
ProgressIsPercent ==
    list = Initial => progress <= 100 /\ (list \subseteq visited => progress = 100)

\* The summary names exactly the extensions that have matches, and for each the
\* number of matches that is listed of it.
SummaryAgrees ==
    loop = "done" => \A e \in Exts :
        /\ (sum[e] # 0) <=> (resp[e] # <<>>)
        /\ sum[e] # 0 => sum[e] = resp[e][matchList[e]]

\* The loop ends and all its goroutines do.
ScanEnds == <>(loop = "done" /\ limiter = 0)

\* api_handlers.go:242: getSearchMatches returns a list of the search matches of
\* an extension, so none is missing.
AllMatchesListed ==
    loop = "done" => \A e \in Exts :
        resp[e] # <<>> => SumFunction(resp[e]) = resp[e][matchList[e]]
====
