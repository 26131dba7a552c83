----------------------------- MODULE MCSearchScan -----------------------------
(* Instances of SearchScan and SearchResults for TLC. *)
EXTENDS SearchResults

\* Extensions with one or two files of matches, and one with too many.
OneOrTwoFiles == {<<2>>, <<1, 1>>, <<3>>}

\* Two extensions are installed equally often.
SomeInstalls == [e \in Exts |-> <<20, 10, 20, 0>>[e]]
====
