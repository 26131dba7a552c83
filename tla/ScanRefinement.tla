---------------------------- MODULE ScanRefinement ----------------------------
(***************************************************************************)
(* The loop of SearchScan is the scan of SearchManager, which takes one    *)
(* step for each extension: the one in which the loop passes a closed      *)
(* extension, or in which the goroutine of an open one finds nothing or    *)
(* puts its result.  The list of a search is fixed there, so this is about *)
(* searches during which no extension is added.                            *)
(***************************************************************************)
EXTENDS SearchScan

CONSTANT Rest   \* whatever the rest of the manager's state is: the loop leaves it alone

Settled(e) == e \in visited /\ go[e] \in {"none", "done", "release", "ended"}

wpcBar == IF loop = "done" THEN "saveSummary" ELSE "scan"

todoBar == {e \in Initial : loop # "done" /\ ~Settled(e)}

foundBar == {e \in Initial : sum[e] # 0}

\* A turn of the loop needs the manager's lock, which is free if no request is
\* inside NewSearch.
Manager == INSTANCE SearchManager WITH
    Slugs <- Initial, wpc <- wpcBar, todo <- todoBar, found <- foundBar,
    IDs <- Rest, NoID <- Rest, QueueCap <- Rest, Clients <- Rest, NoClient <- Rest,
    Privacy <- Rest, MaxTime <- Rest, MaxCrashes <- Rest, MaxFaults <- Rest,
    MaxTroubles <- Rest,
    issued <- Rest, queue <- Rest, pos <- Rest, adding <- Rest, getting <- Rest,
    loaded <- Rest, holder <- Rest, List <- Rest, srch <- Rest, known <- Rest,
    cur <- Rest, cpc <- Rest, ask <- Rest, copied <- Rest, reply <- Rest,
    summaryData <- Rest, matchData <- Rest, searchData <- Rest, allDates <- Rest,
    publicDates <- Rest, now <- Rest, setBack <- Rest,
    crashes <- Rest, faults <- Rest

ManagerScans == Manager!ScanExtension \/ Manager!ScanDone

\* The loop starts with what StartSearch leaves: every extension still to be visited
\* and none found.
ImplementsScan ==
    /\ wpcBar = "scan" /\ todoBar = Initial /\ foundBar = {}
    /\ [][ManagerScans]_<<wpcBar, todoBar, foundBar>>
=============================================================================
