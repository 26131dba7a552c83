------------------------- MODULE SearchRefinement -------------------------
(***************************************************************************)
(* SearchManager implements SearchService: what waits is the search the    *)
(* worker has taken but not started, then the channel, then the search     *)
(* NewSearch has stored in memory and not yet sent.                        *)
(***************************************************************************)
EXTENDS SearchManager

InHand == IF wpc \in {"forget", "lookup", "start"} THEN <<cur>> ELSE <<>>

Unsent ==
    IF holder # NoClient /\ cpc[holder] = "send" THEN <<ask[holder]>> ELSE <<>>

waitingBar == InHand \o queue \o Unsent

activeBar ==
    IF wpc \in {"scan", "saveSummary", "saveMatches", "complete", "saveSearch"}
    THEN cur ELSE NoID

Service == INSTANCE SearchService WITH
    created <- issued,
    waiting <- waitingBar,
    active <- activeBar,
    done <- DOMAIN searchData

\* Searches are started in the order of createSearch, one at a time, once each,
\* none disappears but by a failed database write or a restart, and none waits
\* for ever, not even behind one whose writes failed.
ImplementsFairService == Service!FairSpec
=============================================================================
