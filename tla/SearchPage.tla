----------------------------- MODULE SearchPage -----------------------------
(***************************************************************************)
(* Search.js, the page of one search, with its ProgressBlock: it asks the  *)
(* server when it is mounted and then, as long as the last answer said     *)
(* that the search is queued or running, at every tick of an interval.  No *)
(* request waits for the one before, so answers may come in any order.     *)
(***************************************************************************)
EXTENDS Integers, Bags, Functions

CONSTANTS
    IDs, NoID,
    Matching,       \* the searches that have matches
    MaxPolls        \* bound on the requests under way at once

ASSUME MatchingAssumption == Matching \subseteq IDs /\ NoID \notin IDs
ASSUME MaxPollsAssumption == MaxPolls \in Nat \ {0}

VARIABLES
    search,     \* the state of Search
    polls,      \* its requests to /search/:id, which no order is kept of
    timers      \* the intervals that run

searchVars == <<search, polls, timers>>

NoStatus == 5
Waiting == -1       \* the answer of a poll that has none
NotFound == -2

\* table: the search whose Summary is mounted.  moved: history, whether the
\* address was changed to another search under the mounted page.
NoSearch == [on |-> FALSE, id |-> NoID, status |-> NoStatus, loading |-> FALSE,
             error |-> FALSE, table |-> NoID, moved |-> FALSE]

SearchTypeOK ==
    /\ search \in [on : BOOLEAN, id : IDs \cup {NoID}, status : {0, 1, 2, NoStatus},
                   loading : BOOLEAN, error : BOOLEAN, table : IDs \cup {NoID},
                   moved : BOOLEAN]
    /\ IsABag(polls) /\ BagToSet(polls) \subseteq [of : IDs, answer : {Waiting, 0, 1, 2}]
    /\ SumFunction(polls) <= MaxPolls
    /\ timers \subseteq {"queue", "update", "tick", "message"}

-----------------------------------------------------------------------------
(* What is rendered                                                        *)

Ready(s) == s.on /\ ~s.loading /\ ~s.error

\* What the title says of the search, even beside an error.
Title(s) ==
    IF ~s.on \/ s.loading THEN "Search"
    ELSE CASE s.status = 1 -> "In Progress"
           [] s.status = 2 -> "Completed"
           [] OTHER -> "Queued"

\* What formatOverview shows: what is searched for, with the matches so far, or
\* with those of a complete search and the time it took.
Overview(s) ==
    IF ~Ready(s) THEN "none"
    ELSE CASE s.status = 1 -> "running"
           [] s.status = 2 -> "complete"
           [] OTHER -> "queued"

ShowsProgress(s) == Overview(s) = "running"

ShowsSummary(s) == Overview(s) = "complete" /\ s.id \in Matching

\* componentDidMount and componentWillUnmount of the page.
PageTimersUpdateOnly(s) == IF s.on THEN {"update"} ELSE {}
PageTimers(s) == IF s.on THEN {"queue", "update"} ELSE {}

\* Those of the ProgressBlock, for its clock and its messages.
BlockTimers(s) == IF ShowsProgress(s) THEN {"tick", "message"} ELSE {}

\* The Summary that is mounted stays, whatever the page says of its search.
Table(s) == IF ~ShowsSummary(s) THEN NoID
            ELSE IF search.table # NoID THEN search.table ELSE s.id

SetState(s) ==
    /\ search' = [s EXCEPT !.table = Table(s)]
    /\ timers' = PageTimers(s) \cup BlockTimers(s)

-----------------------------------------------------------------------------
Poll(id) == [of |-> id, answer |-> Waiting]

\* componentWillMount asks at once.
MountSearch(id) ==
    /\ SetState([NoSearch EXCEPT !.on = TRUE, !.loading = TRUE])
    /\ polls' = SetToBag({Poll(id)})

\* Whatever is answered later goes nowhere.
UnmountSearch == SetState(NoSearch) /\ polls' = EmptyBag

\* The address is another search's now: the page is the same component, and
\* only its ticks will ask for the new one.
MoveSearch == SetState([search EXCEPT !.moved = TRUE]) /\ UNCHANGED polls

FetchData(id) ==
    /\ SumFunction(polls) < MaxPolls
    /\ polls' = polls (+) SetToBag({Poll(id)})
    /\ UNCHANGED <<search, timers>>

QueueTick(id) == "queue" \in timers /\ search.status = 0 /\ FetchData(id)

UpdateTick(id) == "update" \in timers /\ search.status = 1 /\ FetchData(id)

-----------------------------------------------------------------------------
(* Answers                                                                 *)

\* That a search is not found stays so: PollFails has the answer.
ServerAnswers(p, status) ==
    /\ p.answer = Waiting /\ status # NotFound
    /\ polls' = (polls (-) SetToBag({p})) (+) SetToBag({[p EXCEPT !.answer = status]})
    /\ UNCHANGED <<search, timers>>

\* A plausible mistake: the page is named after its address, not the answer.
DeliverPollByPath(p, id) ==
    /\ p.answer \in {0, 1, 2}
    /\ SetState([search EXCEPT !.id = id, !.status = p.answer, !.loading = FALSE])
    /\ polls' = polls (-) SetToBag({p})

\* An answer does not take an earlier error away.
DeliverPoll(p, id) ==
    /\ p.answer \in {0, 1, 2}
    /\ SetState([search EXCEPT !.id = p.of, !.status = p.answer,
                               !.loading = FALSE])
    /\ polls' = polls (-) SetToBag({p})

\* Not found, or the request or its answer is lost.
PollFails(p) ==
    /\ SetState([search EXCEPT !.error = TRUE, !.loading = FALSE])
    /\ polls' = polls (-) SetToBag({p})
=============================================================================
