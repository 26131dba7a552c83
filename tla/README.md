# A TLA+ model of WPdir-Updates

WPdir-Updates is a web service that keeps an indexed copy of every plugin and
theme of the WordPress directory and searches it with regular expressions. This
directory holds TLA+ modules that model the service, the TLC configurations
that check them on small instances, and proofs for TLAPS. Paths and line numbers
below are those of the repository (`internal/...`, `web/...`).

Contents: 1 the system · 2 the modules and the code they stand for · 3 what
is checked · 4 fairness · 5 what is proved · 6 where the code and its documents
disagree · 7 other behaviour the models show · 8 what is not modelled · 9 plan.

## 1. The system

| Part | State | Operations | Talks to |
|---|---|---|---|
| search queue (`internal/search/queue`) | a buffered channel of 100 IDs, a map of positions | `Add`, `Get`, `Pos` | manager (Add under the manager's lock), worker (Get), `getSearch` (Pos) |
| search manager (`internal/search`) | `List` (searches in memory), `Loaded`, an RWMutex | `NewSearch`, `Exists`, `Get`, `Worker`, `processSearch` | queue, repositories, extensions, database |
| storage (`internal/db`) | a BoltDB file: `search_data`, `all_dates`, `public_dates`, the buckets of the repositories | `SaveSummary`, `SaveMatches`, `SaveSearch`, `GetSearch`, `GetLatestPublicSearchList`, ... | everybody |
| API (`internal/server/api_handlers.go`) | none of its own | `createSearch`, `getSearch`, `getSearches`, `getSearchSummary`, `getSearchMatches`, repository and file handlers | manager, database, repositories |
| repository (`internal/repo`) | `List` of extensions, `Revision`, counters `Total` and `Closed`, the update queue | `LoadExisting`, `UpdateList`, `ProcessUpdate`, `jobCheckChangelog`, `jobUpdateMeta`, `save` | WordPress API, extensions, database |
| extension (`internal/repo/extension.go`) | meta data, `Status`, the index, an RWMutex | `Search`, `SwapIndexes`, `SetStatus` | index on disk, search goroutines |
| index (`internal/index`, `internal/codesearch`) | a directory with raw files, a trigram index and a manifest | `BuildFromZip`, `Open`, `Search`, `Destroy` | file system |
| file lookup (`internal/server/files.go`) | none | `getFilePath`, `getMatchFile` | extension, file system |
| start-up (`internal/server/server.go`) | none | `LoadData`, `startUpdateWorkers` | repositories, manager |
| web client, form (`web/src/.../SearchForm.js`) | the text, the target, the private flag, the requests under way | `handleSubmit`, `togglePrivate`, `updateTarget` | `createSearch`, router |
| web client, pages (`web/src/components/pages`) | the address and, per page, loading, error and content | mount, unmount, answers; the page of a search polls `getSearch` | API |
| web client, table of results (`web/src/.../search`) | the sorted list, the page of it, open rows, open files | sort, page, open, close | `getSearchSummary`, `getSearchMatches`, `getMatchFile` |

`PROJECT.json` lists the remaining parts (configuration, metrics, rate limit,
statistics of files, the generated messages and so on) with the reason why each
is or is not modelled.

What is hard: HTTP handlers, one search worker, several update workers and
cron jobs share maps under several RWMutexes, and some accesses take none;
channels block with locks held; a search is split over memory and three
database transactions; the process can stop at any point, and nothing waits
for the workers when it does; updates of one extension can overtake each other.
In the browser several requests are under way at once, none waits for the one
before it, and the component that asked may be gone, or stand for something
else, when the answer comes.

What makes each part correct:

- *queue*: first in, first out, nothing lost or twice; the positions shown are
  close to the truth, and never those of a search that no longer waits.
- *manager, storage and API*: a search that was accepted can be looked up
  until the process ends, and for good once it is stored; a search shown as
  completed has all its results, if it has matches; what a client polls, the status and
  the place in the queue, never gets worse;
  one search cannot hold up the others; every request is answered.
- *processSearch's loop*: it ends, keeps within its limiter, visits every open
  extension, and its total, its summary and its lists of matches agree.
- *repository*: an extension that is open has an index of its own files; files
  never become older; a change covered by the revision is indexed; the
  counters are those of the list; directories do not pile up; start-up ends.
- *extension*: the index under a running search stays; a reader that saw
  "open" finds an index; an update gets its turn.
- *web client*: a search that was made private is on no list; what a page says
  of a search is true of it, in whatever order answers come; the results are shown in the end; an open row shows the
  matches of the extension in its title.

## 2. The modules and the code they stand for

| Module | Models | Uses |
|---|---|---|
| `SearchQueue` | `internal/search/queue`, each call in two atomic halves | |
| `SearchManager` | `NewSearch`, the worker, `getSearch`, the search buckets, failed writes, restarts | extends `SearchQueue` |
| `SearchService` | the promise of the search service, with no locks, channels or tables | |
| `SearchRefinement` | the mapping under which `SearchManager` implements `SearchService` | extends `SearchManager`, instantiates `SearchService` |
| `SearchScan` | the loop of `processSearch`, its goroutines, its limiter | |
| `ScanRefinement` | the mapping under which the loop of `SearchScan` is the scan of `SearchManager` | extends `SearchScan`, instantiates `SearchManager` |
| `Repository` | one `Repo`: start-up, update queue, workers, change log job, indexes on disk, restarts | |
| `RWMutex` | `sync.RWMutex` as the program uses it | |
| `ExtensionIndex` | one `Extension` under a search, updates and file requests, lock by lock | extends `RWMutex` |
| `ResultsList` | the table of results: `Summary`, `Pagination`, `Item`, `Matches`, `Match`, `Modal` | |
| `SearchResults` | a search from its loop to the table that shows what it found | extends `SearchScan`, `ResultsList` |
| `TrigramQuery` | sets of strings as slices of Go, and the queries made of trigrams (`codesearch/index/regexp.go`) | |
| `RegexpAnalysis` | the analysis of a regular expression and the files its query finds (`regexp.go`, `PostingQuery` of `read.go`) | extends `TrigramQuery` |
| `SearchForm` | the form of the home page and its requests | |
| `SearchPage` | the page of one search: its polls, its timers, what it renders | |
| `WebClient` | one tab of the browser, with its pages, against the service | extends `SearchForm`, `SearchPage`, instantiates `SearchService` |
| `SearchManagerProofs`, `RepositoryProofs`, `ExtensionIndexProofs` | proofs | extend the module they are about |
| `SearchServiceProofs` | proofs of what a user of the search service sees: that the manager is one, the positions, the status, the history, the order of service, and when and how long it is jammed | extends `SearchRefinement`, `SearchManagerProofs`, `SumLemmas` |
| `RepositoryWorkerProofs` | proofs of what holds while the workers keep apart (counters, changes), and with one worker (these and the order of files) | extends `RepositoryProofs` |
| `SumLemmas` | induction over finite sets, and the sums of the models | |
| `SearchResultsProofs` | the properties of the loop and of the table in the composed system, and the refinement of the scan | extends `SearchResults`, `ScanRefinement`, `SumLemmas` |
| `WebClientProofs` | the safety properties of the client, and that it leaves the service to `SearchService` | extends `WebClient`, `SumLemmas` |
| `MCSearchManager`, `MCRepository`, `MCExtensionIndex`, `MCSearchScan`, `MCWebClient`, `MCRegexpAnalysis` | instances for TLC: symmetry sets and sets of data | |

The parts meet in this way. `SearchService` stands between the two ends of the
system: `SearchManager` implements it, and `WebClient` has it for its server.
Both are proved. `SearchManager` scans the extensions in one step
each; `SearchScan` opens that step up, and `ScanRefinement` maps the one to the other. `SearchScan` takes for granted that a
search of one index ends; `ExtensionIndex` asks whether it does.
`ExtensionIndex` in turn lets updates of one extension come whenever they like;
`Repository` says which updates there are. What the loop of `SearchScan` has
found is what the table of `ResultsList` shows: `SearchResults` composes the two, and
leaves the page around the table to `WebClient`. Definitions that are
called a variant, a faulty form or a plausible mistake (`AddSendShort`,
`SwapIndexesLeaks`, `DeliverPollByPath`, ...) are just that: put in place of the
definition whose name they begin with they make a property fail, which
shows that the property can see such a mistake. They are not part of any
specification.

### SearchQueue

`queue` is the channel and `pos` the map of positions. The mutex of the queue
covers the map only: `Add` sends before it takes the mutex (queue.go:25-33) and
`Get` takes it after it has received (queue.go:37-47). So `Add` is `AddSend`
then `AddPos`, and `Get` is `GetRecv` then `GetForget`, with `adding` and `getting`
the ID between the two halves. `issued` is the history of `ulid.New`, which is
assumed never to hand out an ID twice.

### SearchManager

The state is that of `Manager` (`List`, `Loaded`, the `Search` structs), of the
program counters of the worker and of each request, and of the buckets. The RWMutex of
the manager has one critical section in which a goroutine blocks, that of
`NewSearch` (the deferred unlock of search.go:91 covers `Queue.Add`); `holder`
is who is in it, and every other section is one step with the guard
`Free`. `DropSearch` has no guard because search.go:315 takes no lock.

| Action | Code |
|---|---|
| `LoadDone` | server.go:65-73, the end of `LoadData` |
| `NewSearch`, `NewSearchSend`, `NewSearchReturn` | `createSearch` and `NewSearch` around the two halves of `Queue.Add` |
| `GetSearch`, `GetFromMemory`, `GetPosition`, `GetFromDB` | `getSearch`: `Exists`, `Get`, `Queue.Pos`, or the database |
| `WorkerRecv`, `WorkerForget` | `Worker` around the two halves of `Queue.Get` |
| `LookUp` ... `DropSearch` | `processSearch` from top to bottom, one step per critical section and per transaction |
| `DBFault` | any of its three transactions fails (search.go:277-313): nothing is written and the call ends |
| `ReadClock` | `time.Now` and its string, which `StartSearch` reads (search.go:154); it may be below the last one |
| `Restart` | the process ends, by a signal, a fatal error or a shutdown (none of them waits for the worker), and starts again with what the database has |

A request stands for all the requests its goroutine could be: when it returns it
is idle again. `boot` is the process that created a search, a history
variable for the properties. The keys of the date buckets are strings of the local time in seconds (search.go:154,
db.go:184), and `now` is the place of the last one read in their order: it may be anything, since an hour comes twice in
autumn, and clock and zone may be set anew, also between two processes. The history variable `setBack` says that a reading was below the one before.

A search that has no match has an empty summary, which is marshalled to no byte and stored; `db.GetSummary` takes it for a missing
one (db.go:238). `Listed` is what the summary gives a client, `Fetchable` the extensions whose matches it can
ask for, and `matched` whether the completed search says that it has any (`Matches`).

### SearchService and SearchRefinement

`SearchService` has four variables: the searches created, those waiting, the
active one, those done. Searches are started in the order of their creation,
one at a time; an active one is done or fails; a restart forgets what waits. The
mapping puts together what waits from three places: the ID the worker has received
and not yet marked as started, the channel, and the ID that `NewSearch` has put
into the map and not yet sent. That is the order the worker will see.

### SearchScan

One search. The loop ranges over the live map of the repository, to which
updates add extensions and whose extensions they open and close (`Add`,
`SetStatus`); Go's `range` produces every key that was there all the time, and of the
others whichever it likes (`LeaveLoop`). `Visit` is one turn, `StartGoroutine`
waits for a slot of the limiter, `Wait` is `wg.Wait`. The goroutine is `Search`
(the index is searched, or there is nothing or an error), one `CountFile` per
file, `PutResult`, `Done` and `Release`: the order in which the deferred calls
run is part of the model. A result is the number of matches in each file with
matches.

`ScanRefinement` maps this to `ScanExtension` and `ScanDone` of `SearchManager`: an extension is
settled there in the turn in which the loop passes it closed, or in the step in which its goroutine finds
nothing or puts its result. The rest of the manager's state is one constant, which the loop
leaves alone.

### Repository

One `Repo`; the program has two, which share the queue and the workers. The
directory of wordpress.org is the sequence `log` of its changes, and `Commit`
extends it at any time. A revision is a position in `log`; the content of an
archive is the last change of its extension when it was fetched (`ver` of a
directory). `objs[s]` are all the structs made for the slug `s`: more than one
when two workers add the same extension, of which only the last one is in the
list and the others are in the hands of a worker.

| Action | Code |
|---|---|
| `LoadExisting`, `LoadFails`, `FetchList`, `ListNext`, `StartUpdateWorkers` | `LoadData` for one repository: repo.go `LoadExisting` (one removal of an old directory may fail), `UpdateList`, server.go:65 |
| `Take`, `Add`, `Get`, `Fetch`, `Build`, `Swap`, `SetOpen`, `SaveExt`, `SetRev`, `SaveBegin`, `SaveEnd` | `ProcessUpdate` from top to bottom |
| `UpdateFails`, `SwapFails`, `SetClosed` | its error paths |
| `JobStart`, `JobRevision`, `JobLog`, `JobQueue`, `JobFails` | `jobCheckChangelog` |
| `Restart` | the process ends and `New` loads the saved revision |

The RWMutex of the `Repo` is kept across a call in two places, both read locks:
`save` while it writes, and the change log job while it fetches the log; `RFree`
is the guard of all the writers. The names of index directories are ULIDs, of
which only the order matters: a new name is greater than all the others, and a name
that is not in use any more may be used again (`IsNewDir`).

### RWMutex and ExtensionIndex

`RWMutex` models Go's read-write mutex with its two steps of `Lock`: announce
the writer, which keeps new readers out, and wait for those that are in. A
goroutine that is a reader already is a new reader like any other: that is the
point of `ExtensionIndex`, where the goroutine of a search takes the read
lock in search.go:212 and again in extension.go:120. An update is its sequence
of critical sections (`UpdateMeta`, `UpdateStats`, `SwapIndexes`, `SetStatus`)
with `Build` in between; a request for a file is `RequestFile`, `ReadDir`, `Stat`, `OpenFile` (files.go:13-60).
Its failures are three: before there is a directory (`Fail`, and the outcome of `UpdateMeta`), after `BuildFromZip` has made one
(`BuildFails`, index.go:389-406), and in the removal of the old index, when the new one is in place already (`SwapFails`,
index.go:119-126). The last two leave a directory behind, which `left` remembers, and all of them close the extension.

### ResultsList and SearchResults

A component of React is the part of the state it keeps between renders. `table`
is the state of `Summary`; `rows` are the `Item`s of the page shown, by position,
because the code gives them their position for a key: when the table is
sorted or its page turned, the `Item` at a position stays and gets another
extension. `Render` is what a change of the state of `Summary` does to them, `forceClose`
included, which is set by the first sort and never reset. Each request of a component
(summary, matches, file) is answered, fails, or is never answered; an answer to
a component that is gone is ignored, as React ignores it. `Orders` is the order
in which the server ranges over its map of results.

`SearchResults` lets the loop end before the table is mounted, since the page shows
it for completed searches only (Search.js), and then hands `Summary`, the
records of the extensions with matches, to the table. The updates of the
repository that come after the end of the search are left out: the stored results do not
depend on them.

### TrigramQuery and RegexpAnalysis

Before a search opens a file it asks the trigram index for the files that can have a
match at all: `RegexpQuery` turns the regular expression into a `Query` of trigrams,
and `PostingQuery` evaluates it. A string is a sequence of numbers, its bytes. A
`stringSet` is a slice, so the model has its array with the capacity that `append` gives
it; `Union` writes to it in place when there is room, as union (regexp.go:831) does.
Where two sets are made from one array (`Alternate`, and then `Concat` and
`SimplifySet` of what comes out) the other one changes with it: `shared` says that
prefix and suffix have one array, and `spoilt`, which is not in the code, that
this has happened below.

`analyze` goes through the tree of the expression from the leaves up. An action is one of its
cases, and `stack` has what is analyzed and not yet combined.

| Action | Case of `analyze` |
|---|---|
| `Literal`, `FoldCase` | `OpLiteral`, without and with `(?i)` |
| `CharClass`, `AnyCharacter`, `Boundary`, `Nothing` | the other leaves |
| `FoldConcat`, `FoldAlternate` | `fold` with `concat` or `alternate`, two operands at a time |
| `Quest`, `Star`, `OneOrMore` | `OpQuest`, `OpStar`, `OpPlus` and `OpRepeat` |

Each entry has `words`, some of the strings that its expression matches (all of them, unless
there is a `*`, a `+` or a `.`): they are built beside the analysis and are what its results are compared with.
A file is its text, and the list of a trigram the set of files that have it. `and`,
`or` and the factoring of common trigrams (`AndOr`, `Factor`, `Implies`) are
recursive, which keeps these modules to TLC.

### SearchForm, SearchPage and WebClient

`posts` are the requests of the form. The submit button is never disabled and
an answer is handled even when the form is gone, so each has an `owner` that says who
is left to handle it. `form.switch` is what the user sees of the
uncontrolled checkbox and `form.private` the flag the component keeps: a click turns
both, the keyboard only the first.

`polls` is the bag of requests of the page of a search. Two timers ask again, one
while the status is 0 and one while it is 1, whether or not the last request
was answered; answers arrive in any order. `SetState` renders: it derives which
components exist (`BlockTimers` of `ProgressBlock`, `Table`) from the new state.

| Action | Code |
|---|---|
| `UpdateInput`, `UpdateTarget`, `TogglePrivate`, `KeySwitch`, `HandleSubmit` | the handlers of `SearchForm` |
| `CreateSearch`, `PostFails`, `PostAnswered` | the request to `/search/new`, accepted, refused or lost, and the `then` that goes to the new page |
| `QueueTick`, `UpdateTick`, `ServerAnswers`, `DeliverPoll`, `PollFails` | the intervals of `Search.js`, `getSearch`, and the `then` and `catch` of `fetchData` |
| `FollowLink`, `Open` | the router: an address inside the client, or a reload |
| `LatestAnswered`, `SearchesAnswered`, `ReposAnswered`, `PageFails` | the answers to `Home`, `Searches`, `Repos` |
| `ServiceWorks`, `ServiceFails`, `ServiceRestarts` | the steps of `SearchService` that no client asks for |

The service keeps failed searches with the status they had (`stuck`, `late`: section
7). The answer to a list is taken from the server at the moment of its delivery; a list that was read
earlier holds no other kind of search. The constant `HasMatch` says whether the
router passes the prop `match` to a page: the router that the client is built with does not
(section 7), and the client is checked as if it did.

## 3. What is checked

Eight runs must pass; four must find the disagreements of section 6. The
numbers of states are distinct states, with symmetry where it is used (never in
a run that checks liveness).

| Run | Instance | States | Properties |
|---|---|---|---|
| `manager_safe` | 3 searches, queue of 2, 1 request at a time, 1 extension, 1 restart, 1 failed write | 2.61 M | `TypeOK`, `Findable`, `DeniedOnlyIfLostOrStored`, `ResultsServed`, `SavedHasResults`, `PosWithinOne`, `StatusNeverGoesBack`, `PlaceNeverWorsens` |
| `manager_live` | 2 searches, public and private, queue of 1, 1 request, 2 seconds in any order, 1 restart or 1 failed write, fair | 562 k | `EverySearchIsStored`, `RequestsReturn`, `ImplementsFairService`, `PublicHistoryInOrder` |
| `repo_one` | 2 extensions, 1 worker, 3 revisions, queue of 4, without `-fresh`, 1 restart, 1 failure, fair | 742 k | `RTypeOK`, `OpenIsServed`, `DiskIsBounded`, `CountersMatchList`, `NoChangeIsLost`, `NeverOlder`, `LoadFinishes`, `EventuallyCurrent` |
| `repo_two` | 2 extensions, 2 workers, 3 revisions, with and without `-fresh`, `UpdateList` limited to 1 | 2.67 M | `IndexesAreOwned`, `SavedRevisionNeverFalls` |
| `extension` | 1 search, 2 updates, 1 file request, 4 directories, 1 left by a failure, fair | 299 k | `SearchedIndexStays`, `OpenLeadsToIndex`, `NoDirIsForgotten`, `UpdatesGetIn` |
| `scan` | 4 extensions, 3 of them listed at first, 2 that updates change; results of one file, two files or too many matches; limiter of 2, cap of 1; pages of 2 rows | 624 k | `WithinLimit`, `MatchesBounded`, `TotalIsExact`, `EveryOpenIsScanned`, `ProgressIsPercent`, `SummaryAgrees`, `ScanEnds`; of the table: `OpenRowShowsItsOwn` |
| `web_client` | 2 searches, one of them without matches, which may fail; 1 request of the form and 2 polls at a time, any number of restarts, `HasMatch` | 356 k | `WTypeOK`, `PrivateNotListed`, `ShownIsTrue`, `EventuallyShown` |
| `regexp` | expressions of 3 leaves and one `?`, `*` or `+`; literals of 1, 2 and 4 bytes, a class of 3, three letters in any case, up to 8 prefixes | 24 k | `InfoIsTrue`, `EveryMatchIsOpened` |

Why the bounds are enough for what is asked:

- *manager*: three searches are one in the hands of the worker, one in the channel and one
  being added, so that every pair of halves of `Add` and `Get` meets; a fourth adds only another
  waiting one. One failed write and one restart at every point cover each single
  failure and a failure before or after a restart. `manager_live` has
  one slot, so that a request waits in `Add` while the worker is on its way to the
  lock. It has a failed write or a restart, not both, to stay small (`MaxTroubles` bounds their sum): the second
  search then waits behind the one whose write failed. With two searches it cannot fill the queue behind a busy worker; that
  case is `manager_blocks`. `RequestsReturn` and `EverySearchIsStored` therefore hold
  *below the capacity of the queue*, and section 6 says what happens above it.
- *history*: two seconds and two searches are the cases of one second for both and of one
  each, in both orders of storing and of the clock; public and private in all combinations.
- *repository*: with two extensions and three revisions one of them has a
  change after its first publication, while the other's is still queued, being
  fetched or installed. Two workers with `Limit` 1 make one extension unknown to the list, so that
  both workers may find it missing and add it. The queue has two places for each
  extension, which is just enough (`LoadHasRoom`, section 5). Eight directory names are never used up: deadlock is
  checked in all runs of `Repository`. The one failure of `repo_one` may be that of the removal of an old index at a
  start, and then leaves two directories for the next one.
- *extension*: two updates give every order of a swap with another's, a third
  would wait behind them for the mutex. Four directories are one per update, the
  index in place and one that a failed step has left.
- *scan*: two goroutines at a time, two waiting extensions, one extension that is
  added and one that is closed during the loop; the cap is reached by one goroutine
  while another is counting. Four results on pages of two rows are two full pages, three
  are one full page and one row; two extensions have the same number of installs.
- *web client*: two polls under way are enough for an answer to overtake another, and
  for a late answer about another search than the address names. Two searches are one that is on
  the page and one that waits, is private or fails. One request of the form at a time
  excludes the double submit, which only creates one more search.

- *regular expressions*: the literals are shorter than a trigram, of two bytes (so that a
  trigram only arises across a concatenation) and of four, which is no longer kept as exact. Three
  letters in any case are eight strings, one more than `MaxExact`. `MaxSet` is 8 instead of 20, so that
  three leaves reach it: nine prefixes of two bytes are then cut to one.

What the properties say is in the comment above each; the less obvious ones:

- `PosWithinOne` is what is left of an exact queue position once `Add` and `Get`
  interleave. An exact position is not an invariant (section 7).
- `Findable` with `DeniedOnlyIfLostOrStored`: the order "store, then delete from
  memory", without a lock around both, is right for a reader that looks in
  memory first. A client that is told "not found" lost its search by a restart, and one whose
  request panicked (section 7) finds the search when it asks again.
- `ResultsServed` and `SavedHasResults`: the three transactions of a search
  are in the order that makes the last one a commit point. Both speak of what the API serves, not of what is stored:
  a search has a summary to fetch exactly if it says that it has matches (`HasResults`). One without is answered 404 (section 7).
- `PlaceNeverWorsens`: the place is read after the status was copied, so an answer mixes two moments;
  in the order of the two a place is at least as good as the status, and a search told as started has none. The other order would
  not have this.
- `PublicHistoryInOrder` demands the order of creation as long as the clock was not set back (`setBack`); that the list holds saved
  public searches only, each once, it demands always.
- `ImplementsFairService`: from outside, the manager is a queue with one server that
  makes progress, also behind a search whose write failed.
- `NoDirIsForgotten`: only a failed step leaves a directory behind, and never one that is in use.
- `OpenLeadsToIndex` and `SearchedIndexStays` are about the index in place and about the search; a file request may
  have the path of an index that is gone (section 7).
- `ProgressIsPercent` speaks of searches during which no extension is added (section 7).
- `OpenIsServed`: the search and the file handler test the status alone;
  this is the invariant that makes it enough. It speaks of all structs, not only of
  those in the list.
- `NoChangeIsLost` is checked with one worker and without failures or restarts;
  it does not hold after a failure or a restart (section 7).
- `MatchesBounded`: the cap is tested between two extensions only, so the
  total may exceed it, by one extension per goroutine and one more.
- `OpenRowShowsItsOwn`: `Matches` asks once, when it is mounted, for the slug it has then, and
  rows are reused for other extensions; that every sort closes all rows, and that
  the flag is never reset, is what keeps title and matches together.
- `EveryMatchIsOpened` is what the whole analysis is for, and `InfoIsTrue` the
  reason: exact strings, prefixes, suffixes and query describe every match at every node. Both
  leave out the expressions in which two sets had one array, of which section 6 speaks.
- `ShownIsTrue` allows what really happens when answers overtake each other (a
  completed search shown as running for a moment), but no statement about the wrong
  search or about one that has not begun; `EventuallyShown` says that the
  moment ends.

Safety runs of the manager switch the deadlock check off, for the system stops
when the bounds are used up (no ID is left, nobody may crash); so does the one
search of `scan`, which ends, the search of `extension`, which may block
(section 6), and the expressions of `regexp`, whose tree is finished. The liveness runs say what must not stop.

Every property of a passing run is paired in `PROJECT.json` with a mutated
action that makes it fail under the same configuration, so that none holds
because the interesting case never happens.

## 4. Fairness

Nobody is obliged to send a request, to publish a plugin, to fail or to crash.

- `SearchManager`: weak fairness of `LoadDone`, of the worker and of each request
  that is under way, because goroutines that can run do. Weak fairness is enough: what a
  worker waits for (a lock held by `NewSearch`) is released by a request that
  cannot be stopped while it holds it, save by a full queue.
- `Repository`: the same for the job (`JobStart`, `JobStep`); cron starts it
  again and again. The load and the workers have strong fairness, because they wait for a
  write lock that the job and the other workers take for reading again and
  again: Go's RWMutex promises that a waiting writer gets it, as it keeps new
  readers out. `Repository` models the lock without announced writers, so that
  the promise appears as fairness there; in `ExtensionIndex` it is modelled.
- `ExtensionIndex`: strong fairness of the two `RLock`s, of each update and of
  each file request. A writer that unlocks lets the waiting readers in before the next writer,
  and a reader that waits while writers follow each other gets its turn. What strong fairness does not give is
  a lock to a goroutine that itself keeps the lock from being released.
- `SearchScan`: weak fairness of the loop and of each goroutine. `SearchResults`
  adds none: nobody has to look at the results.
- `WebClient`: weak fairness of the intervals, of the server's answers, of their
  delivery, and of the service, whose progress is that of `SearchService`
  (`ImplementsFairService`). A request or an answer may be lost all the same; the page then shows
  an error, which `EventuallyShown` excludes with `Ready`. Users owe nothing.

`EventuallyCurrent` asks only about behaviours without failures and restarts;
that the directory stops changing is built in, as `log` has a last revision.

## 5. What is proved

The proofs are for every number of searches, requests, extensions, workers,
revisions, restarts and failures, and every queue capacity. They use the
assumptions named in the modules (`NoIDAssumption`, `QueueCapAssumption`,
`SlugsAssumption`, ...): that constants such as `NoID` are none of the values they stand
apart from, that the bounds are natural numbers, that the queue has at least one slot,
and, for `Repository`, that there are finitely many extensions and a change for each in
the first `log`. Some theorems have a condition of their own, explained below: `WorkersApart` of two
theorems of `RepositoryWorkerProofs`, one worker of a third, a clock that is not set back of the order in `HistoryIsInOrder`, the size of the queue of
`LoadHasRoom`, and a list to which nothing is added of `ScanIsTheManagers`. Theorems that state no property of
a run are described in words.

| Theorem | States | Inductive invariant |
|---|---|---|
| `TypeCorrect` | `Spec => []TypeOK` | `TypeInv` |
| `AcceptedIsFindable`, `DeniedIsLostOrStored` | `Findable`, `DeniedOnlyIfLostOrStored` | `TypeInv`, `LookupInv` |
| `CompletedIsServed`, `SavedIsComplete` | `ResultsServed`, `SavedHasResults` | `TypeInv`, `OnceInv`, `StoredInv` |
| `PositionsAreClose` | `PosWithinOne` | `TypeInv`, `OnceInv`, `PosInv` |
| `StatusForwardOnly` | `StatusNeverGoesBack` | `TypeInv`, `OnceInv`, `StoredInv`, `StatusInv` |
| `RTypeCorrect` | `Spec => []RTypeOK` | `RTypeInv` |
| `RevisionIsKept` | `SavedRevisionNeverFalls` | `RTypeInv`, `RevInv` |
| `OpenIsServedAlways`, `IndexesAreOwnedAlways` | `OpenIsServed`, `IndexesAreOwned` | `RTypeInv`, `IndexInv` |
| `DiskIsBoundedAlways` | `DiskIsBounded` | `RTypeInv`, `DiskInv` |
| `HistoryIsInOrder` | `PublicHistoryInOrder` | `TypeInv`, `OnceInv`, `StoredInv`, `HistoryInv` |
| `ManagerIsService` | `Spec => Service!Spec`, the safety half of `ImplementsFairService` | `ManagerInv` |
| `FirstComeFirstServed` | no search is started before an older one of its process | `ManagerInv`, `LookupInv`, `HistoryInv`, `ServedInv` |
| `JamIsForGood`, `JamNeedsLoad` | the jam of section 6 only ends with a restart, and takes `QueueCap + 2` unfinished searches | `ManagerInv`, `SlotInv` |
| `SearchIsUndisturbed`, `OpenIsIndexed`, `DirsAreAccountedFor` | `SearchedIndexStays`, `OpenLeadsToIndex`, `NoDirIsForgotten` | `ExtInv` |
| `OnlyTheSearchDelaysUpdates`, `BlockedForGood` | an update waits for nobody but the search; a search that waits for an update does so for good | `ExtInv`, `OnlySearchReads` |
| `LoadHasRoom`, `BlockedLoadStays` | the load never finds the queue full, if it has two places per extension; a load that does waits until a restart | `RTypeInv`, `RoomInv` |
| `LimitIsKept` | `WithinLimit` | `CountInv` |
| `SummaryIsRight` | `SummaryAgrees` | `CountInv`, `ResultInv` |
| `OpenAreSearched` | `EveryOpenIsScanned` | `CountInv`, `ResultInv`, `VisitInv` |
| `ProgressIsCorrect` | `ProgressIsPercent` | `CountInv`, `ResultInv`, `VisitInv`, `ProgressInv` |
| `TotalIsRight` | `TotalIsExact` | `CountInv`, `ResultInv`, `SumInv` |
| `MatchesAreBounded` | `MatchesBounded` | `CountInv`, `ResultInv`, `SumInv` |
| `ScanIsTheManagers` | the loop implements the scan of `SearchManager`, while no extension is added | `ScanInv` |
| `OpenRowIsRight` | `OpenRowShowsItsOwn` | `ListInv` |
| `CountersAreRight` | `CountersMatchList`, if `WorkersApart` | `RTypeInv`, `IndexInv`, `SingleInv` |
| `NoChangeGetsLost` | `NoChangeIsLost`, if `WorkersApart` | the same with `NewestInv`, `CoverInv` |
| `OneWorkerSuffices` | `NeverOlder` and the last two, for one worker | `NewestInv` for `NeverOlder` |
| `ClientTypeCorrect`, `PrivateStaysUnlisted`, `PageTellsTheTruth` | `WTypeOK`, `PrivateNotListed`, `ShownIsTrue` | `Inv` of `WebClientProofs` |
| `ClientKeepsService` | `WebSpec => Service!Spec` | |

**Manager.** The types alone are not inductive: an action types its results by
the ID in hand, so `TypeInv` adds that a request or a worker that is busy has
one (`Busy`). `LookupInv` says why a lookup cannot miss: the worker is at "drop" only
with a stored search, and a handler goes to the database only for a
search that is stored or belongs to an earlier process. The lemma `Lasting`
(what no step takes away: stored records, issued IDs, the process of birth) is used
for every action. A handler past `Exists` has an ID that is in memory or has been stored since, which is
all that is left for a panic.

For the results two more facts are needed. `OnceInv`: an ID is in one place at a
time (with the request that sends it, in the channel once, or with the
worker) and is not completed there. Without it a second pass over a completed
search could be imagined, which would overwrite its summary before its matches.
`StoredInv`: a completed search has its results, the worker past
"saveMatches" has stored those of its own, records are of completed searches
only, and clients are told of completed searches only when they are; and of a search that the worker has not
stored matches of there are none (`Untouched`), so that what can be fetched is what the summary lists, and no more. The two lemmas `CompletedLasts` and
`ResultsLast` carry these facts over each step.

**Positions.** `PosInv` counts what can stand between an entry of the map and the place in the channel:
a position is recorded after the send, when the search is the last one in the channel or the channel is empty, and
a received ID that is not yet forgotten makes all of them one too large (`Pending`). A receive
moves each place down by one and raises `Pending`; the forgetting lowers both. `OnceInv` is needed for the
second half of the property: an ID that has left the queue is not sent again.

**Status.** `StatusInv` puts what a client was told behind the status in the struct of the search
(`ToldBehind`), and the copy a handler holds between the two (`CopyBetween`): a client has one request at a time, so
what it was told is older than the copy. `StatusForward` says that the struct itself only goes forward;
it rests on `OnceInv`, since the worker would set a completed search it took up again back to started. An
answer from the database says completed, and by `StoredInv` its search is. The property is one of steps, and
follows from the same case analysis (`AnswerSteps`) as the invariant.

**History.** The list of public searches is ordered by the times at which the worker started them, and the claim is about
the order of their creation. `HistoryInv` says why that is the same: the search in hand is younger than
all the dated ones and was not started before them (`HandInv`); what waits is younger still, and
waits in the order of its creation (`WaitInv`), which `NewSearch` ensures because it keeps the lock
from the new ID to the end of its `Add`; and two dates have their searches in order (`DatesInv`). Where two
were started in one second the second replaces the first, and the order stays. Where the clock was set back (`setBack`) the
parts of `HistoryInv` on times claim nothing, and what is left is that the list has saved public searches, each once. `RankExists` says that
`LatestPublic` finds an entry for each place of the list; it is an induction over the entries.

**First come, first served.** `ServedInv` says that a search of this process that is queued does wait somewhere
(with its request, in the channel or in the worker's hand), and that everything that was started is older than
everything that waits. The first part needs `ManagerInv`, for a worker that does not find its search in the
map skips it; the second rests on `WaitInv`.

**Jam.** `Jammed` is the disagreement `manager_blocks` finds (section 6), as a predicate: a request
in `Queue.Add` has the lock, the channel is full, and the worker cannot receive before it has the lock. `JamIsForGood`
is an action property and says, for every instance, that nothing gets out of it: no step but a restart changes
the channel, the lock, the map of searches or the database. `JamNeedsLoad` bounds what it takes. `SlotInv`
keeps the search in the worker's hand unfinished, `OnceInv` keeps it, the one being sent and those in
the channel different, and so there are `QueueCap + 2` of them. `manager_blocks` has that many searches,
three with one slot, so that no better bound exists. `RequestsReturn` is checked below it.

**Repository.** `InHand` adds to the types that a worker that has looked its
extension up has a struct that exists, and that nobody works before the load is
over. `RevInv` is the reason for the read lock in `save`: the revision a worker is
about to write is the one in memory (`SetRev` waits), and the saved one is not
greater. `RevisionIsKept` is an action property and follows from the same step.

`IndexInv` has five parts. `UniqueIds`: a name on disk names one
directory. `StructsAreBacked`: a struct with a directory has one of its own
extension on disk, and an open one has a directory. `StructsAreApart`: two
structs do not share a directory. `BuiltIsOwn`: a directory that is built and
not yet installed is on disk and nobody else's. `OpensIndexed`: what is about to
be opened has a directory. The middle ones are there for `Swap`, which removes
the old directory of one struct: no other struct and no other worker may have it. `Build`
is the step that makes names, `LoadExisting` the one that takes them from
disk; `LoadIs` joins it with `LoadFails`, in which one directory that was to go stays and the newest may go in its place.

`DiskIsBounded` is inductive by itself, over the types; `DiskInv` only names its two cases. `LoadExisting` keeps one
directory of each extension and removes the others, which a restart left; `Build` adds one
that its worker has in hand, and `Swap` removes the one it takes away. A step that fails may leave
its directory, which is why the property ends with the first failure.

`LoadData` queues the updates of all the extensions before any worker runs (server.go:54-65). `RoomInv` counts what the queue
has then: of each extension at most one update of the load (`ByLoad`), for which it is no longer in the list of what is to be
queued, and one of the job, which reads the change log once in that time. With one place less TLC fills
the queue, and by `BlockedLoadStays` the site then stays as it is. The program gives the queue 200000 places
(internal/repo/updates.go:18) for both repositories together.

**Workers that keep apart.** Nothing in `ProcessUpdate` keeps two workers from having the same
extension in their hands, and section 7 says what happens then: it is added twice, or
its archives are installed in the wrong order. `WorkersApart` says that it does not happen: no two
workers are at the same time between "add" and "swap" with one extension. It is a condition on behaviours that
one worker always meets; several meet it as long as the updates of each
extension come one after the other. By default the program starts four
(internal/config/config.go:36), which may break it. That files never get older is therefore
stated for one worker only (`OneWorkerSuffices`, by the lemma `NeverOlderApart`): the condition excludes
the very overtaking that makes files older, and with two workers the property is violated (section 7).

`SingleInv`: an extension has one struct at most, and a worker at "add" has none for its own. Then `Total` and
`Closed` are cardinalities, and each step of `Add` and `SetStatus` moves one element. `NewestInv` has four parts: what is
on disk has been published (`VersionsExist`); of the directories of an extension the later one has the newer files
(`LaterIsNewer`), which is what `LoadExisting` relies on when it takes the greatest name; and what a worker
has fetched or built is not older than what is on disk (`FetchedIsNewest`, `BuiltIsNewest`). The
property is one of steps and says so of `Swap` and of the start. `CoverInv` looks
at every revision the Repo has or may still take (`Planned`): in the queue, with the job, in a
worker's hand. Every change up to any of them is `Served`, that is, still in a queue, in a
worker's hand (with the right archive, if it has one) or in the index that is searched. It is not enough to say
this of the current revision: a worker that takes an update with a greater one sets it, and
would have to know that all the changes in between were queued with it. `FirstStart` is the case
before the workers run: nothing is on disk, and there is no revision yet.

**Refinement.** What waits is spread over the ID in the worker's hand, the channel and
the ID in the hand of `NewSearch`, and the mapping joins the three. `MemInv` adds to
the invariants of the manager (together `ManagerInv`) that an ID in one of those places is in
the map, so that `LookUp` never skips one that the service still has waiting. `AppendToAll`, `HeadToHand`
and `HandToActive` are the three facts on sequences: a step within
the three places leaves the joined sequence as it is. `StepMaps` has one case per action.

**Extension.** `PlacesInv` has the places each process can be at. `LocksInv` says how
often the search holds the read lock at each of its places, once at "inner" and
twice at "grep". `DirsInv` is `NoDirIsForgotten` with what makes it inductive: the directories that
updates have built are on disk, pairwise different, and none of them the index in use or left by a failure. `IndexInv`: an
extension that is open, or that somebody saw open, has an index, and a search at
"grep" has the one in use. `SwapIndexes` is the step that needs all four: it
removes the old directory, which no other update has built, and which no search reads,
because a writer that gets in is alone (`WriterIsAlone`). `OpenLeadsToIndex` speaks of
readers that saw the status before it changed; it holds because an index, once
there, is only ever replaced.

`OnlySearchReads`: besides the search nobody keeps a read lock from one step to the next, so that an announced
update waits for the search alone (`OnlyTheSearchDelaysUpdates`). Between its two read locks the waiting is mutual, and
`BlockedForGood` is for an extension what `JamIsForGood` is for the manager.

**The loop and the table.** `CountInv` ties the two counters to the goroutines: the
`limiter` has a slot for each goroutine that is `AtWork`, and the `WaitGroup` counts those that
are `Awaited`, from the turn of the loop to `Done`. Both are equations on cardinalities, and each
action moves one extension between the sets. `ResultInv` follows each goroutine
through its files: what is in `sum` and `matchList` is of the file it went through last. `VisitInv`
says that the loop leaves nothing out: each visited extension that updates do not touch has
its goroutine, and a loop that was not cut short has visited all that were listed at first. The
proofs hold for `ResultsSpec`, whose steps after the end of the search leave the
variables of the loop alone. By `ProgressInv` the
progress is what the last turn has stored, the visited extensions in percent of those listed at first; `VisitInv` says that
no others are visited while none is added. For the table, `ListInv` says that a mounted table has its flag
`close` set (its first sort did so), so that every render closes every row;
the rows that are open were opened since, and ask for what stands at their
position.

**The scan.** `ScanStepRefines` has one case per action of the loop and of a goroutine: it settles at most the
extension it is about, and finds it exactly when it puts a result, whose number is not 0. The end of the
loop is the hard step, for the manager ends its scan with nothing left to visit or with something found:
a loop that was cut short has counted matches (`NothingFoundNotCut`, from `SumInv` and `ResultInv`), hence
found something, and one that was not has visited them all (`VisitInv`). An extension that is added during the search
has no place in `SearchManager`, where the list of a search is fixed; the properties of
`scan` do not leave it out.

**Sums.** `SumFunction` of the community modules is a fold, defined through a function that
recurs on smaller sets. The library's induction theorems take an operator as a parameter, which no installed prover
can instantiate; `SumLemmas` therefore argues with least counterexamples, as sets: the subsets of a finite
set are well-founded (`FS_StrictSubsetOrderingWellFounded`, `WFMin`), so that a set of subsets that has each subset whose smaller
ones it has is the set of all (`SubsetInduction`). From it come
that the equation of the fold has a solution and only one, that the order of the elements does not
matter, and the sums of parts and their bounds. `SumInv` then says that the total is the sum
of what each goroutine has counted, and, for the cap, that the total with all that the goroutines at work may still
count stays within `Cap + (Limit + 1) * MatchLimit`: a turn of the loop below the cap adds one goroutine, and at most
`Limit` others are at work then.

**Web client.** The invariant has a part for each actor. `FormInv`: a request was made private if the user clicked the switch,
whatever the owner of its answer. `ServiceInv`: a search that was started does not wait again, and one that is
settled is not worked on again, so that what a poll was told stays true for good (`SettledStays`).
`PollsInv` uses it: each answer under way, however late, is true of its search, and all are about the
search in the address unless the page has moved. `SearchInv` has the same of what the page took from such answers.
`TabInv`: what is on a list is a search the service listed, and none that was asked for as private.
The number of polls is the sum over a bag, with `SumLemmas` for its bound. The lemma `PageNeedsMatch` says that the client
has thrown exactly when the page of a search is shown without `match`: with the router it is built with that is each time (section 7), so that the theorems then
say nothing of that page, and with the router it was written for no answer makes any page throw. `ClientKeepsService` needs no invariant:
a form that is accepted creates a search, and everything else that a tab does leaves the service alone.

**Only model-checked.** All liveness, which is out of the prover's reach, with the fairness half of
`ImplementsFairService`. `PlaceNeverWorsens`. `InfoIsTrue` and `EveryMatchIsOpened`, whose operators on queries are recursive.

## 6. Where the code and its documents disagree

Each has a run that finds it.

1. `manager_blocks`. api_handlers.go:409 announces a non-blocking search, but
   `NewSearch` sends on a bounded channel with the manager's lock held
   (search.go:94). With the queue full and the worker in the middle of a search, the request
   waits for a slot and the worker for the lock; so does every request that comes
   later. Nothing but a restart ends it, and two searches more than slots are needed. Both hold for every instance (`JamIsForGood`,
   `JamNeedsLoad`): with the channel of 100 it takes 102 unfinished searches.
2. `extension_search`. `Search` is to search the current index
   (extension.go:117). Its caller holds the read lock already (search.go:212); when an
   update calls `Lock` between the two, the second `RLock` waits for the writer
   and the writer for the first. The search, and with it the only worker, stops for ever (`BlockedForGood`). The
   documentation of `sync.RWMutex` warns of recursive read locking for this reason.
3. `scan_matches`. `getSearchMatches` is to return the matches of an extension
   (api_handlers.go:242). The loop over its files assigns list and number anew for each
   file (search.go:225, 242), so that only the last one is listed and only its
   number is in the summary, while the total counts them all.
4. `regexp_share`. A query is to match everything that the regular expression matches (regexp.go:17).
   `alternate` makes the prefixes and the suffixes of `x|y` with two unions into the array of the same exact
   set (regexp.go:607-608). A class of three letters has room for a fourth, so
   that the second union overwrites the result of the first: of
   `mnopq([abc]|xyzw)` the prefix `xy` becomes `zw`, the query asks for the trigrams `pqz` and `qzw`, and
   a file with `mnopqxyzw` is not opened. The search reports no error; it has fewer matches.

## 7. Other behaviour the models show

Most of these contradict no document; none has a run of its own.

- **The page of a search does not work in the client as it is built.** It reads its ID from `this.props.match.params.id`
  (Search.js:34), but version 6 of the router passes no `match` to the element of
  a route (App.js:28): the component throws whenever it is mounted, and the client
  shows an empty page. README.md:24 of the repository promises that a search can be shared by its URL. With
  `HasMatch` false `crashed` is true in every state of the page (`PageNeedsMatch`), and `ShownIsTrue` and `EventuallyShown`, which
  speak of a mounted page, say nothing. They are checked with `HasMatch` true, the version of the router the component was
  written for, and show what would hold of the client with that repaired.
- A search without matches has an empty summary, which is marshalled to no byte; `db.GetSummary` reports "No data found" for it
  (db.go:238), and the summary of such a search is answered 404, as if there were none, although the search is listed and completed.
- The times in the history are strings of the local time (search.go:154, db.go:184). In the hour that comes twice in autumn,
  after a change of the zone, or when the clock is set back, a later search is filed below an earlier
  one, or replaces one of the same second of the other hour (`setBack`).
- A search that the worker has received and not yet marked as started is answered as queued with the position -1: the position
  is read last (api_handlers.go:134).
- When the removal of an old index fails, the directory stays until the next start, and the extension is closed although its new index is in
  place (extension.go:103, repo.go:322-324, 256; `SwapFails`). A build that fails after its first `Mkdir` leaves its directory too (`BuildFails`).
- When at the start the directory before the newest one cannot be removed, `UpdateIndex` fails, and the start removes
  the newest index, which it has just installed (repo.go:725-727); the extension is closed until its next update (`LoadFails`).
- An update that fails closes its extension and is not repeated; the next update that succeeds
  advances the revision past it (repo.go:264), so that the change log, which is
  read from the revision on, does not name it again until its next change. README.md:20 promises
  an up-to-date copy. With one failure TLC finds `RevisionIsCovered` violated.

- A queue position may be one too small for good, and an entry of the map may
  remain for ever: `Add` records the position after its send (queue.go:29).
- `getSearch` calls `Exists` and `Get` in two critical sections
  (api_handlers.go:108). When the worker drops the search in between, a nil pointer is
  dereferenced; the router's `Recoverer` answers 500 (reply "panic"). The search is stored then.
- Two searches started within one second have the same key in `all_dates` and
  `public_dates` (db.go:184): one of them is missing in the history.
- After a failed write a search stays in memory, started or completed, until the
  process ends; it is not in the database then.
- Updates in the queue are lost by a restart. Those whose revision the saved one already covers are
  not fetched again until the next change.
- With two workers, two updates of one extension may overtake each other: what was
  fetched first may be installed last (repo.go:322).
- `Exists` and `Add` of an update are two critical sections (repo.go:242): with
  two workers an extension may be added twice, and `Total` counts it twice.
- `LoadData` fills the update queue before it starts the workers
  (server.go:65), and waits for ever when it finds the queue full. The
  runs have two slots for each extension, with which it does not (`LoadHasRoom`). The queue of the program has
  200000 (updates.go:18), shared by plugins and themes. With `QueueCap` 1 TLC reports the deadlock.
- `getMatchFile` opens a path of an index that may have been replaced since
  (files.go:34): the file cannot be opened then, although the extension has it.
- `Progress` may exceed 100 when extensions are added during a search.
- An answer that comes late sets the status of the page back from 2 to 1 (Search.js): the table is
  unmounted with all its open rows, and shown anew after the next tick.
- One lost poll shows an error, and no later answer takes it away (`DeliverPoll`).
- From the address of one search to that of another the page is the same
  component: it shows the old search until a tick asks for the new one, which does not happen at all
  when the old one is complete (`search.moved`).
- The answer to a submitted form leads to the new search wherever the user is by
  then, and the button may be pressed again while the first request is under way.
- The switch "private" turned by the keyboard changes the checkbox but not the flag
  (SearchForm.js:101), so the search is public (`KeySwitch`; `PrivateNotListed` speaks of those
  who clicked).
- A click on the icon in a button of the form makes the target undefined
  (SearchForm.js:22), and the request is refused with 400.
- No list of searches yet is answered 204 without a body; Home.js:58 and Searches.js:51
  do not throw, but show the text of an error.
- The timeout of the client is read from `window.config.Timeout` (Config.js:7), which the page
  sets under another name (index.html:74): requests have no timeout.
- A file that cannot be opened is answered with status 200 (api_handlers.go:313-330): the
  editor opens without a text.
- The arrow of the table and the flag are one for all columns, so that a click on
  another column sorts in the other direction than the last; the column "name"
  sorts by the slug.
- The refresh of the meta data never runs: its schedule "0 2 31 * * *" is refused by the cron
  library (there is no hour 31), and `tasks.Add` drops the error (repo.go:73). It is not an action of
  `Repository`.

## 8. What is not modelled

Per component the list is in `PROJECT.json`. In the modelled parts these are left
out or assumed:

- The content of an index, as files on disk: the encoding of the posting lists (`write.go`, `read.go`), which
  `RegexpAnalysis` has as sets of files. In `Repository` a directory is one with a manifest: what `BuildFromZip`
  leaves when it stops halfway has none and is removed by the next start (repo.go:711-714); `ExtensionIndex` has it, as a directory
  left behind. The search of one index is one step with any result.
- Failures of the removal of directories are part of `ExtensionIndex` (`SwapFails`) and of `Repository` (`SwapFails`, `LoadFails`: one directory at each start,
  which stays whole). That two removals fail at one start, or that one leaves a directory whose manifest is gone, is left out.
- `SetStatus` of the repository is one step (repo.go:185-199): the counters and the field of the extension are assigned one after the other with the extension's lock held; a reader
  that takes no lock (search.go:205) may see the counters of the new status with the old one for a moment.
- Concurrent map accesses. `delete(sm.List, ...)` (search.go:315) and the range
  over the repository's list (search.go:191) take no lock; Go may then stop the
  process, which is the `Restart` of the models. That a map is otherwise intact is assumed.
- The read of `totalMatches` without synchronisation (search.go:197) may see an older
  value; an addition that is seen late is one that is made late.
- Deletions of all searches (`Manager.Empty`, `DeleteSearches`), `Manager.Set`
  and `merge.go`, which nothing calls.
- The two repositories share one update queue and its workers; `Repository` has them for
  itself. The other repository's requests would only delay its own.
- Meta data, the charts of `Repos`, pages of the API, the layout of results.
- Of the web client: the menu of the header, the footer and the icons; the cursor and the scrolling of the
  editor; the counter of minutes; components nothing renders (`Overview.js`, `Highlighter.js`,
  `registerServiceWorker.js`); the scripts and the configuration of the build.
- Of the analysis of expressions: the limit of 100 on the size of a class, which makes it any character, and
  UTF-8, which only makes literals longer. `append` beyond 16 strings rounds its capacity up further than the model.
- The regexp matcher: an automaton over bytes, whose correctness is about the meaning
  of regular expressions.

## 9. Plan

Done: the search service and its refinement, the loop of a search, the
repository, the locks of an extension, the web client, the composition of a search with
the table that shows it, the trigram query of a regular expression, and the proofs of section 5. Next, in this order:

1. *Pure algorithms of the index*, as functions checked against a
   reference definition over bounded inputs: encoding and intersection of posting lists
   (`codesearch/index/read.go`, `write.go`), the sparse set (`codesearch/sparse`), the lines
   and contexts of `grep` (`internal/index`), the statistics of files (`internal/filestats`).
2. *The index on disk in detail*: the steps of `BuildFromZip`, the manifest that makes a
   directory count, failures between them, and what start-up finds.
3. *Two repositories* on one queue and one pool of workers.

New checks join the runs that exist where they share an instance, or take the place
of a weaker one.

To repeat the checks, with TLC, the community modules and TLAPS installed:

    tlc -workers 2 -config MCManagerSafe.cfg MCSearchManager.tla
    tlc -workers 2 -config MCWebClient.cfg MCWebClient.tla
    tlapm SearchManagerProofs.tla
    tlapm SearchServiceProofs.tla
    tlapm RepositoryProofs.tla
    tlapm RepositoryWorkerProofs.tla
    tlapm ExtensionIndexProofs.tla
    tlapm SumLemmas.tla
    tlapm SearchResultsProofs.tla
    tlapm WebClientProofs.tla

and likewise for the other configurations, each with the module that its run names in `PROJECT.json`.
