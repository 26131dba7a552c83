----------------------------- MODULE TrigramQuery -----------------------------
(***************************************************************************)
(* internal/codesearch/index/regexp.go: sets of strings, the queries that  *)
(* are made of trigrams, and regexpInfo, what the analysis of a regular    *)
(* expression knows of the strings that match it.                          *)
(*                                                                         *)
(* A string is a sequence of numbers, its bytes.  A stringSet is a Go      *)
(* slice: arr is its array, whose length is the capacity, of which the     *)
(* first len strings are in the set.  union appends to the array in place  *)
(* when there is room, so that whoever holds the same array sees it        *)
(* change; the arrays are part of the model for that reason only.          *)
(***************************************************************************)
EXTENDS Integers, Sequences, SequencesExt, FiniteSetsExt, TLC

CONSTANTS
    MaxExact,   \* 7: how many exact strings a regexpInfo may have
    MaxSet      \* 20: how many prefixes or suffixes

ASSUME MaxAssumption == MaxExact \in Nat \ {0} /\ MaxSet \in Nat \ {0}

-----------------------------------------------------------------------------
(* stringSet *)

\* Orders of clean: bytes from the front, or from the back for suffixes.
Before(s, t) ==
    LET n == Min({Len(s), Len(t)})
        D == {i \in 1 .. n : s[i] # t[i]}
    IN  IF D = {} THEN Len(s) < Len(t) ELSE s[Min(D)] < t[Min(D)]
BeforeFromBack(s, t) == Before(Reverse(s), Reverse(t))
InOrder(strs, isSuffix) ==
    IF isSuffix THEN SortSeq(strs, BeforeFromBack) ELSE SortSeq(strs, Before)

\* The second pass of clean: a string is dropped when it is the last one kept.
Unique(strs) ==
    FoldLeft(LAMBDA kept, s : IF kept # <<>> /\ s = Last(kept) THEN kept
                              ELSE Append(kept, s), <<>>, strs)

NoSet == [arr |-> <<>>, len |-> 0]      \* nil
Strings(s) == SubSeq(s.arr, 1, s.len)
Have(s) == s.len > 0                    \* no set that is made here is empty

\* The strings are written to the array of s, over those it starts with; the rest of
\* the array stays as it is.
Overwrite(s, strs) ==
    [arr |-> strs \o SubSeq(s.arr, Len(strs) + 1, Len(s.arr)), len |-> Len(strs)]

\* Where append has no room it takes a new array, of twice the size or as much as it
\* needs.  (Above 16 strings the allocator rounds that up, which is left out.)
HasRoom(s, n) == s.len + n <= Len(s.arr)
Grown(s, strs) ==
    LET size == Max({2 * Len(s.arr), s.len + Len(strs)})
        all == Strings(s) \o strs
    IN  [arr |-> all \o [i \in 1 .. size - Len(all) |-> <<>>], len |-> Len(all)]
AppendAll(s, strs) ==
    IF HasRoom(s, Len(strs)) THEN Overwrite(s, Strings(s) \o strs) ELSE Grown(s, strs)

\* add, once for each string.
SetOf(strs) == FoldLeft(LAMBDA s, str : AppendAll(s, <<str>>), NoSet, strs)

Clean(s, isSuffix) ==
    LET sorted == Overwrite(s, InOrder(Strings(s), isSuffix))
    IN  Overwrite(sorted, Unique(Strings(sorted)))

Union(s, t, isSuffix) == Clean(AppendAll(s, Strings(t)), isSuffix)

Cross(s, t, isSuffix) ==
    Clean(SetOf(FlattenSeq([i \in 1 .. s.len |->
                               [j \in 1 .. t.len |-> s.arr[i] \o t.arr[j]]])),
          isSuffix)

MinLen(s) == IF s.len = 0 THEN 0 ELSE Min({Len(s.arr[i]) : i \in 1 .. s.len})

-----------------------------------------------------------------------------
(* Query.  Nobody holds the trigrams of a query but the query. *)

AllQuery == [op |-> "all", tri |-> <<>>, sub |-> <<>>]
NoneQuery == [op |-> "none", tri |-> <<>>, sub |-> <<>>]
TrigramsOf(s) == Unique(InOrder([i \in 1 .. Len(s) - 2 |-> SubSeq(s, i, i + 2)], FALSE))

\* isSubsetOf, which takes both lists to be sorted: next is where it has got to in t,
\* 0 once it has missed a trigram.
IsSubsetOf(s, t) ==
    LET Seek(next, x) ==
            LET K == {k \in next .. Len(t) : ~Before(t[k], x)}
            IN  IF next = 0 \/ K = {} THEN 0
                ELSE IF t[Min(K)] = x THEN Min(K) ELSE 0
    IN  FoldLeft(Seek, 1, s) # 0

RECURSIVE TrigramsImply(_, _)
TrigramsImply(tri, q) ==
    \/ /\ q.op = "or"
       /\ \/ \E i \in DOMAIN q.sub : TrigramsImply(tri, q.sub[i])
          \/ \E i \in DOMAIN tri : IsSubsetOf(<<tri[i]>>, q.tri)
    \/ /\ q.op = "and"
       /\ \A i \in DOMAIN q.sub : TrigramsImply(tri, q.sub[i])
       /\ IsSubsetOf(q.tri, tri)

IsAtom(q) == Len(q.tri) = 1 /\ q.sub = <<>>

\* It may say no where it should say yes.
Implies(q, r) ==
    \/ q.op = "none" \/ r.op = "all"
    \/ /\ q.op # "all" /\ r.op # "none"
       /\ IF q.op = "and" \/ IsAtom(q) THEN TrigramsImply(q.tri, r)
          ELSE r.op = "or" /\ q.tri # <<>> /\ q.sub = <<>> /\ IsSubsetOf(q.tri, r.tri)

\* The loop that takes what two lists have in common out of both.
RECURSIVE Factor(_, _)
Factor(s, t) ==
    IF s = <<>> \/ t = <<>> THEN [q |-> s, r |-> t, common |-> <<>>]
    ELSE IF Before(Head(s), Head(t)) THEN
        [Factor(Tail(s), t) EXCEPT !.q = <<Head(s)>> \o @]
    ELSE IF Before(Head(t), Head(s)) THEN
        [Factor(s, Tail(t)) EXCEPT !.r = <<Head(t)>> \o @]
    ELSE [Factor(Tail(s), Tail(t)) EXCEPT !.common = <<Head(s)>> \o @]

Unwrapped(q) == IF q.tri = <<>> /\ Len(q.sub) = 1 THEN q.sub[1] ELSE q
Other(op) == IF op = "and" THEN "or" ELSE "and"
UnionTri(s, t) == Unique(InOrder(s \o t, FALSE))

RECURSIVE AndOr(_, _, _)
AndOr(q0, r0, op) ==
    LET q == Unwrapped(q0)
        r == Unwrapped(r0)
        f == Factor(q.tri, r.tri)
        rest == AndOr([q EXCEPT !.tri = f.q], [r EXCEPT !.tri = f.r], op)
        common == [op |-> Other(op), tri |-> f.common, sub |-> <<>>]
    IN  CASE Implies(q, r) -> (IF op = "and" THEN q ELSE r)
          [] ~Implies(q, r) /\ Implies(r, q) -> (IF op = "and" THEN r ELSE q)
          [] OTHER ->
             IF q.op = op /\ (r.op = op \/ IsAtom(r)) THEN
                 [q EXCEPT !.tri = UnionTri(@, r.tri), !.sub = @ \o r.sub]
             ELSE IF r.op = op /\ IsAtom(q) THEN [r EXCEPT !.tri = UnionTri(@, q.tri)]
             ELSE IF IsAtom(q) /\ IsAtom(r) THEN [q EXCEPT !.op = op, !.tri = @ \o r.tri]
             ELSE IF q.op = op THEN [q EXCEPT !.sub = Append(@, r)]
             ELSE IF r.op = op THEN [r EXCEPT !.sub = Append(@, q)]
             ELSE IF f.common # <<>> THEN AndOr(common, rest, Other(op))
             ELSE [op |-> op, tri |-> <<>>, sub |-> <<q, r>>]

\* With a mistake: strings of two bytes count as having trigrams.
AndTrigramsShort(q, strs) ==
    IF Min({3} \cup {Len(strs[i]) : i \in DOMAIN strs}) < 2 \/ strs = <<>> THEN q
    ELSE AndOr(q, FoldLeft(LAMBDA or, s :
                   AndOr(or, [op |-> "and", tri |-> TrigramsOf(s), sub |-> <<>>], "or"),
                   NoneQuery, strs), "and")

\* q, and all the trigrams of one of the strings.
AndTrigrams(q, strs) ==
    IF strs = <<>> \/ \E i \in DOMAIN strs : Len(strs[i]) < 3 THEN q
    ELSE AndOr(q, FoldLeft(LAMBDA or, s :
                   AndOr(or, [op |-> "and", tri |-> TrigramsOf(s), sub |-> <<>>], "or"),
                   NoneQuery, strs), "and")
=============================================================================
