------------------------------ MODULE WebClient ------------------------------
(***************************************************************************)
(* The web client of App.js in one browser tab, against the service: the   *)
(* home page with its form and its list of recent searches, the lists of   *)
(* searches and of repositories, and the page of one search.  A user       *)
(* follows links, reloads or opens a shared address at any time; answers   *)
(* come late, in any order, or never.  The table of results is in          *)
(* SearchResults.                                                          *)
(***************************************************************************)
EXTENDS SearchForm, SearchPage, FiniteSets

CONSTANTS
    HasMatch,   \* whether the router gives pages the prop match
    Failing     \* the searches whose processing may fail

ASSUME WebAssumption == HasMatch \in BOOLEAN /\ NoAnswer = NoID /\ Failing \subseteq IDs
ASSUME IDsAssumption == IDs = 1 .. Cardinality(IDs)

VARIABLES
    created, waiting, active, done, \* the service (SearchService)
    stuck,      \* failed searches that it keeps with the status of a running
    late,       \* or of a completed one
    hidden,     \* the searches it was asked to keep private
    exposed,    \* history: those it was not, although the switch said so
    path,       \* the address: a page and the id in it
    page,       \* the state of Home, Searches or Repos
    crashed     \* whether an exception has unmounted the whole client

serviceVars == <<created, waiting, active, done, stuck, late, hidden, exposed>>
tabVars == <<path, page, crashed>>
webVars == <<serviceVars, tabVars, formVars, searchVars>>

Service == INSTANCE SearchService

Created == Service!Members(created)

-----------------------------------------------------------------------------
(* The service                                                             *)

\* What getSearch answers of an id.
StatusOf(id) ==
    CASE id \in Service!Members(waiting) -> 0
      [] id = active \/ id \in stuck -> 1
      [] id \in done \cup late -> 2
      [] OTHER -> NotFound

\* What getSearches lists.
Listed == done \ hidden

\* Ids grow with time.
CreateSearch(i) ==
    \E id \in IDs :
        /\ id = Len(created) + 1
        /\ PostAccepted(i, id)
        /\ Service!Create(id)
        /\ hidden' = IF posts[i].private THEN hidden \cup {id} ELSE hidden
        /\ exposed' = IF posts[i].asked /\ ~posts[i].private THEN exposed \cup {id} ELSE exposed
        /\ UNCHANGED <<stuck, late, tabVars, searchVars>>

ServiceWorks ==
    /\ Service!Start \/ Service!Finish
    /\ UNCHANGED <<stuck, late, hidden, exposed>>

ServiceFails ==
    /\ Service!Fail /\ active \in Failing
    /\ \/ stuck' = stuck \cup {active} /\ UNCHANGED late
       \/ late' = late \cup {active} /\ UNCHANGED stuck
    /\ UNCHANGED <<hidden, exposed>>

ServiceRestarts ==
    /\ Service!Restart
    /\ stuck' = {} /\ late' = {}
    /\ UNCHANGED <<hidden, exposed>>

-----------------------------------------------------------------------------
(* Pages                                                                   *)

Search(id) == [page |-> "search", id |-> id]
At(name) == [page |-> name, id |-> NoID]
ListPages == {"home", "searches", "repos"}

\* The pages of text, which ask the server nothing: beside them nothing is mounted
\* that hears an answer.
About == At("about")
Examples == At("examples")
NotFoundPage == At("notfound")

Static == {At(name) : name \in ListPages} \cup {About, Examples, NotFoundPage}

NoPage == [fetch |-> "idle", ids |-> {}]
NewPage(to) == IF to.page \in ListPages THEN [NoPage EXCEPT !.fetch = "loading"] ELSE NoPage

\* What becomes of an answer with these searches: without any it has status 204
\* and no body, and the page says there was a problem.
Content(ids) == IF ids = {} THEN "error" ELSE "shown"

Mounts(to) == to.page = "search" /\ ~(path.page = "search" /\ search.on)

\* Components of the page that is left are unmounted, those of the other one are
\* mounted.  The page of a search reads its id from match, or throws.
Enter(to) ==
    /\ path' = to
    /\ crashed' = (Mounts(to) /\ ~HasMatch)
    /\ page' = NewPage(to)
    /\ form' = IF to.page = "home" THEN NewForm ELSE NoForm
    /\ IF to.page # "search" \/ crashed' THEN UnmountSearch
       ELSE IF Mounts(to) THEN MountSearch(to.id) ELSE MoveSearch

\* A link in the header or in a list of searches, or a button of the history.
FollowLink(to) ==
    /\ ~crashed /\ to # path
    /\ Enter(to) /\ posts' = Orphans
    /\ UNCHANGED serviceVars

\* Opening an address, in this tab: what ran in it is gone.
Open(to) ==
    /\ path' = to
    /\ crashed' = (to.page = "search" /\ ~HasMatch)
    /\ page' = NewPage(to)
    /\ form' = IF to.page = "home" THEN NewForm ELSE NoForm
    /\ posts' = Abandoned
    /\ IF to.page = "search" /\ HasMatch THEN MountSearch(to.id) ELSE UnmountSearch
    /\ UNCHANGED serviceVars

\* The new search was accepted: its page is shown, wherever the user is now.
PostAnswered(i) ==
    /\ ~crashed /\ posts[i].owner # "none" /\ posts[i].answer # NoAnswer
    /\ LET to == Search(posts[i].answer)
       IN IF to = path THEN posts' = RemoveAt(posts, i) /\ UNCHANGED <<tabVars, form, searchVars>>
          ELSE Enter(to) /\ posts' = RemoveAt(Orphans, i)
    /\ UNCHANGED serviceVars

-----------------------------------------------------------------------------
(* Answers to the pages                                                    *)

ShowSearches ==
    /\ page' = [fetch |-> Content(Listed), ids |-> Listed]
    /\ UNCHANGED <<path, crashed>>

LatestAnswered == page.fetch = "loading" /\ path.page = "home" /\ ShowSearches

SearchesAnswered == page.fetch = "loading" /\ path.page = "searches" /\ ShowSearches

ReposAnswered ==
    /\ page.fetch = "loading" /\ path.page = "repos"
    /\ page' = [page EXCEPT !.fetch = "shown"]
    /\ UNCHANGED <<path, crashed>>

PageFails ==
    /\ page.fetch = "loading"
    /\ page' = [page EXCEPT !.fetch = "error"]
    /\ UNCHANGED <<path, crashed>>

-----------------------------------------------------------------------------
WebInit ==
    /\ Service!Init /\ stuck = {} /\ late = {} /\ hidden = {} /\ exposed = {}
    /\ path = At("home") /\ page = NewPage(path)
    /\ crashed = FALSE
    /\ form = NewForm /\ posts = <<>>
    /\ search = NoSearch /\ polls = EmptyBag /\ timers = {}

OfService(A) == A /\ UNCHANGED <<tabVars, formVars, searchVars>>

ServiceStep == OfService(ServiceWorks \/ ServiceFails \/ ServiceRestarts)

FormStep ==
    /\ \/ UpdateInput \/ UpdateTarget \/ TogglePrivate \/ KeySwitch \/ HandleSubmit
       \/ \E i \in DOMAIN posts : PostFails(i)
    /\ UNCHANGED <<serviceVars, tabVars, searchVars>>

Ticks == QueueTick(path.id) \/ UpdateTick(path.id)

Answer(p) == ServerAnswers(p, StatusOf(p.of))

OfPage(A) == A /\ UNCHANGED <<serviceVars, tabVars, formVars>>

PageStep ==
    OfPage(Ticks \/ \E p \in BagToSet(polls) : Answer(p) \/ DeliverPoll(p, path.id) \/ PollFails(p))

TabStep ==
    /\ LatestAnswered \/ SearchesAnswered \/ ReposAnswered \/ PageFails
    /\ UNCHANGED <<serviceVars, formVars, searchVars>>

\* An address of the history or in a list is that of a search that exists.
UserStep ==
    \/ \E to \in Static : FollowLink(to) \/ Open(to)
    \/ \E id \in Created : FollowLink(Search(id)) \/ Open(Search(id))

WebNext ==
    \/ ServiceStep \/ FormStep \/ PageStep \/ TabStep \/ UserStep
    \/ \E i \in DOMAIN posts : CreateSearch(i) \/ PostAnswered(i)

\* Intervals run, the server answers and its answers arrive, unless they are
\* lost.  The service has the progress of SearchService.  Users owe nothing.
WebFairness ==
    /\ WF_webVars(OfPage(Ticks))
    /\ WF_webVars(OfPage(\E p \in BagToSet(polls) : Answer(p)))
    /\ WF_webVars(OfPage(\E p \in BagToSet(polls) : DeliverPoll(p, path.id)))
    /\ WF_webVars(OfService(ServiceWorks \/ ServiceFails))

WebSpec == WebInit /\ [][WebNext]_webVars /\ WebFairness

-----------------------------------------------------------------------------
(* Properties                                                              *)

WTypeOK ==
    /\ FormTypeOK(IDs) /\ SearchTypeOK
    /\ hidden \subseteq Created /\ exposed \subseteq Created
    /\ path \in Static \cup {Search(id) : id \in Created}
    /\ page \in [fetch : {"idle", "loading", "error", "shown"}, ids : SUBSET IDs]
    /\ ~crashed => /\ search.on <=> path.page = "search"
                   /\ form.on <=> path.page = "home"

\* A search that was submitted with the switch at "Yes" is on no list of
\* searches, in whichever order forms, requests and pages came and went.
PrivateNotListed == page.ids \cap (hidden \cup exposed) = {}

\* What the page says of a search is true of it, however many requests are under
\* way and whether or not they were sent for the address it has now: one shown as
\* running or complete was started, one shown as complete is not being processed.
\* The table under it is of the same search, unless the address was changed.
ShownIsTrue ==
    /\ Title(search) \in {"In Progress", "Completed"} =>
          search.id \in Created \ Service!Members(waiting)
    /\ Title(search) = "Completed" => search.id # active
    /\ ~search.moved => search.id \in {path.id, NoID} /\ search.table \in {path.id, NoID}

\* A page that is mounted and left open shows the results in the end: answers that
\* come in the wrong order may hide them, but only for a while.  Without HasMatch no
\* page is mounted, and this says nothing.
OpenOn(id) ==
    /\ path = Search(id) /\ Ready(search) /\ ~search.moved
    /\ id \in Service!Members(waiting) \cup {active} \cup done

EventuallyShown == \A id \in IDs : <>[]OpenOn(id) => <>[](Overview(search) = "complete")
=============================================================================
