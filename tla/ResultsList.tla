---------------------------- MODULE ResultsList ----------------------------
(***************************************************************************)
(* The table of the results of one completed search in the web client:     *)
(* Summary.js with its Pagination, an Item per extension of the page, and  *)
(* in an open Item the Matches, with the Match and its Modal.  Components  *)
(* are the rows of the page by position, as in the code (key={key}): the   *)
(* Item at a position stays when the table is sorted or the page turned,   *)
(* and gets another extension.  What a component asks the server when it   *)
(* is mounted is answered while it is, or its answer is ignored.           *)
(***************************************************************************)
EXTENDS Integers, Sequences, FiniteSets

CONSTANTS
    PerPage,    \* rows of a page, 100 in the code
    NoSlug

ASSUME PerPageAssumption == PerPage \in Nat \ {0}
ASSUME NoSlugAssumption == NoSlug \notin Nat

VARIABLES
    table,      \* the state of Summary
    rows        \* the state of the Items on the page, from top to bottom

listVars == <<table, rows>>

\* What an Item shows of an extension; a slug is its rank in the alphabet.
Result == [slug : Nat, installs : Nat, matches : Nat]

Columns == {"name", "installs", "matches"}

NoTable == [on |-> FALSE, loading |-> FALSE, error |-> FALSE, items |-> <<>>,
            sorting |-> "installs", desc |-> FALSE, page |-> 1, close |-> FALSE]

ClosedRow == [show |-> "closed", slug |-> NoSlug, modal |-> "closed"]

IsActive(row) == row.show # "closed"

ListInit == table = NoTable /\ rows = <<>>

-----------------------------------------------------------------------------
(* Sorting: Array.sort with a comparison of one column, which is stable.   *)

Key(col, e) ==
    CASE col = "name" -> e.slug
      [] col = "installs" -> e.installs
      [] col = "matches" -> e.matches

Sorted(s, col, desc) ==
    LET Before(i, j) == IF desc THEN Key(col, s[i]) > Key(col, s[j])
                                ELSE Key(col, s[i]) < Key(col, s[j])
        Place(i) == Cardinality({j \in DOMAIN s :
                        Before(j, i) \/ (~Before(i, j) /\ j <= i)})
    IN [k \in DOMAIN s |-> s[CHOOSE i \in DOMAIN s : Place(i) = k]]

\* sortByName, sortByInstalls, sortByMatches: one flag for the three of them.
SortBy(l, col) ==
    [l EXCEPT !.items = Sorted(l.items, col, l.desc), !.desc = ~l.desc,
              !.sorting = col, !.close = TRUE]

-----------------------------------------------------------------------------
(* Pages.  The number of pages is items.length / perPage, not rounded.     *)

FirstItem(l) == (l.page - 1) * PerPage

PageLen(l) ==
    LET left == Len(l.items) - FirstItem(l)
    IN IF left < 0 THEN 0 ELSE IF left < PerPage THEN left ELSE PerPage

ItemAt(l, r) == l.items[FirstItem(l) + r]

NeedsPagination(l) == Len(l.items) > PerPage

PrevDisabled(l) == l.page <= 1

NextDisabled(l) == l.page * PerPage >= Len(l.items)

-----------------------------------------------------------------------------
(* What a render of Summary with the state l makes of the rows.            *)

\* componentWillReceiveProps of an Item that stays; forceClose is never reset.
ReceivePropsIgnored(row, l) == row
ReceiveProps(row, l) == IF l.close THEN ClosedRow ELSE row

RowsOf(l) ==
    IF l.loading \/ l.error THEN <<>>
    ELSE [r \in 1 .. PageLen(l) |->
             IF r <= Len(rows) THEN ReceiveProps(rows[r], l) ELSE ClosedRow]

Render(t) == table' = t /\ rows' = RowsOf(t)

-----------------------------------------------------------------------------
(* Summary                                                                 *)

\* componentWillMount asks for the summary and sorts the empty list, which is
\* why the first sort of the answer is a descending one.
NewTable == SortBy([NoTable EXCEPT !.on = TRUE, !.loading = TRUE], "installs")

MountTable == ~table.on /\ table' = NewTable /\ rows' = <<>>

UnmountTable == table.on /\ table' = NoTable /\ rows' = <<>>

\* Every render of the search page renders the table again.
RenderTable == table.on /\ Render(table)

\* The order in which the server ranges over the map of results is arbitrary.
Orders(S) == {s \in [1 .. Cardinality(S) -> S] : \A e \in S : \E i \in DOMAIN s : s[i] = e}

ListLoaded(found) ==
    /\ table.on /\ table.loading
    /\ \E s \in Orders(found) :
          Render(SortBy([table EXCEPT !.items = s, !.loading = FALSE], "installs"))

ListFails ==
    /\ table.on /\ table.loading
    /\ Render([table EXCEPT !.error = TRUE, !.loading = FALSE])

ClickColumn(col) ==
    /\ table.on /\ ~table.loading
    /\ Render(SortBy(table, col))

PrevPage ==
    /\ table.on /\ ~table.loading
    /\ NeedsPagination(table) /\ ~PrevDisabled(table)
    /\ Render([table EXCEPT !.page = @ - 1])

NextPage ==
    /\ table.on /\ ~table.loading
    /\ NeedsPagination(table) /\ ~NextDisabled(table)
    /\ Render([table EXCEPT !.page = @ + 1])

-----------------------------------------------------------------------------
(* Item and Matches                                                        *)

SetRow(r, row) == rows' = [rows EXCEPT ![r] = row] /\ UNCHANGED table

\* An Item that is opened mounts Matches, which asks for the slug it has then.
ToggleRow(r) ==
    SetRow(r, IF IsActive(rows[r]) THEN ClosedRow
              ELSE [ClosedRow EXCEPT !.show = "loading", !.slug = ItemAt(table, r).slug])

MatchesLoaded(r) ==
    /\ rows[r].show = "loading"
    /\ SetRow(r, [rows[r] EXCEPT !.show = "list"])

MatchesFail(r) ==
    /\ rows[r].show = "loading"
    /\ SetRow(r, [rows[r] EXCEPT !.show = "error"])

-----------------------------------------------------------------------------
(* Match, Modal and the editor.  One Match of a list stands for all of them. *)

HasModal(row) == row.modal # "closed"

\* The Modal is mounted and asks for the file; the answer may be late.
OpenModal(row) == [row EXCEPT !.modal = "loading"]

\* A file that cannot be opened is answered with status 200 and no code too
\* (api_handlers.go:313-330): the editor is then mounted without a text.
ShowFile(row) == [row EXCEPT !.modal = "file"]

\* The Modal is unmounted, and the editor if it has one.
CloseModal(row) == [row EXCEPT !.modal = "closed"]

ToggleModal(r) ==
    /\ rows[r].show = "list"
    /\ SetRow(r, IF HasModal(rows[r]) THEN CloseModal(rows[r]) ELSE OpenModal(rows[r]))

FileLoaded(r) ==
    /\ rows[r].modal = "loading"
    /\ SetRow(r, ShowFile(rows[r]))

FileFails(r) ==
    /\ rows[r].modal = "loading"
    /\ SetRow(r, [rows[r] EXCEPT !.modal = "error"])

\* Every Match that is mounted hears the key.
Escape ==
    /\ \E r \in DOMAIN rows : HasModal(rows[r])
    /\ rows' = [r \in DOMAIN rows |-> CloseModal(rows[r])]
    /\ UNCHANGED table

\* The answer names the extensions of found, of which there is at least one.
ListStep(found) ==
    \/ ListLoaded(found)
    \/ ListFails
    \/ \E col \in Columns : ClickColumn(col)
    \/ PrevPage
    \/ NextPage
    \/ \E r \in DOMAIN rows :
          \/ ToggleRow(r) \/ MatchesLoaded(r) \/ MatchesFail(r)
          \/ ToggleModal(r) \/ FileLoaded(r) \/ FileFails(r)
    \/ Escape

-----------------------------------------------------------------------------
(* Properties                                                              *)

\* An open row shows the matches of the extension that its title names, although
\* Matches asks only once and rows get other extensions when the table is sorted
\* or the page turned (Item.js:49, Summary.js:46).
OpenRowShowsItsOwn ==
    \A r \in DOMAIN rows : IsActive(rows[r]) =>
        r <= PageLen(table) /\ rows[r].slug = ItemAt(table, r).slug
=============================================================================
