---------------------------- MODULE RegexpAnalysis ----------------------------
(***************************************************************************)
(* analyze and RegexpQuery (regexp.go), and PostingQuery (read.go): how    *)
(* Index.Search turns a regular expression into the files it has to open.  *)
(*                                                                         *)
(* analyze works through the tree of the expression from the leaves up.    *)
(* An action is one of its cases; stack holds the results that wait for    *)
(* the next one, each with `words', some of the strings that the           *)
(* expression matches, which is what the results are checked against.      *)
(* Any tree is one that a user can write, with groups if need be.          *)
(***************************************************************************)
EXTENDS TrigramQuery

CONSTANTS
    Literals,   \* the literals of the expressions
    Classes,    \* their character classes, as increasing sequences of bytes
    Folded,     \* the literals in any case: for each letter the class of its cases
    Bytes,      \* the bytes that any character may stand for
    MaxLeaves,  \* bound: leaves of the tree, a literal in any case counting for two
    MaxUnary    \* bound: ?, * and +

ASSUME LeavesAssumption ==
    /\ Literals \subseteq Seq(Nat) \ {<<>>} /\ Classes \subseteq Seq(Nat) \ {<<>>}
    /\ Folded \subseteq Seq(Seq(Nat) \ {<<>>}) \ {<<>>}
    /\ Bytes \subseteq Nat /\ Bytes # {}

VARIABLES
    stack,   \* the expressions that are analyzed and wait to be combined
    leaves,  \* how many leaves have been analyzed
    unary    \* how many ?, * and +

vars == <<stack, leaves, unary>>

-----------------------------------------------------------------------------
(* regexpInfo *)

\* shared says that prefix and suffix have one array between them; spoilt is not in the
\* code: somewhere two sets that were both in use have had the same array.
NoInfo == [canEmpty |-> FALSE, exact |-> NoSet, prefix |-> NoSet, suffix |-> NoSet,
           match |-> AllQuery, shared |-> FALSE, spoilt |-> FALSE]
Just(s) == [arr |-> <<s>>, len |-> 1]

AnyChar == [NoInfo EXCEPT !.prefix = Just(<<>>), !.suffix = Just(<<>>)]
AnyMatch == [AnyChar EXCEPT !.canEmpty = TRUE]
EmptyString == [NoInfo EXCEPT !.canEmpty = TRUE, !.exact = Just(<<>>)]
NoMatch == [NoInfo EXCEPT !.match = NoneQuery]

AddExact(info) ==
    IF Have(info.exact)
    THEN [info EXCEPT !.match = AndTrigrams(@, Strings(info.exact))]
    ELSE info

\* With a mistake: it is the first bytes that a suffix keeps.
CutFront(s, n, isSuffix) == IF Len(s) < n THEN s ELSE SubSeq(s, 1, n - 1)

\* s without what it has beyond n - 1 bytes.
Cut(s, n, isSuffix) ==
    IF Len(s) < n THEN s
    ELSE IF isSuffix THEN SubSeq(s, Len(s) - n + 2, Len(s))
    ELSE SubSeq(s, 1, n - 1)

\* The strings of t cut to n - 1 bytes, then to less while there are too many.
RECURSIVE Shortened(_, _, _)
Shortened(t, n, isSuffix) ==
    LET cut == Overwrite(t, Unique([i \in 1 .. t.len |-> Cut(t.arr[i], n, isSuffix)]))
    IN  IF n = 3 \/ t.len > MaxSet THEN Shortened(Clean(cut, isSuffix), n - 1, isSuffix)
        ELSE t

\* A string is dropped when it begins (ends) with the last one kept.
Irredundant(strs, isSuffix) ==
    LET Covers(t, s) == IF isSuffix THEN IsSuffix(t, s) ELSE IsPrefix(t, s)
    IN  FoldLeft(LAMBDA kept, s : IF kept # <<>> /\ Covers(Last(kept), s) THEN kept
                                  ELSE Append(kept, s), <<>>, strs)

\* simplifySet: the set loses its long strings, and those that begin (end) like another;
\* the query takes the trigrams they had.
SimplifySet(info, part) ==
    LET isSuffix == part = "suffix"
        t == Clean(info[part], isSuffix)
        u == Shortened(t, 3, isSuffix)
        v == Overwrite(u, Irredundant(Strings(u), isSuffix))
        other == IF isSuffix THEN "prefix" ELSE "suffix"
    IN  [info EXCEPT !.match = AndTrigrams(@, Strings(t)),
                     ![part] = v,
                     ![other].arr = IF info.shared THEN v.arr ELSE @]

\* simplify: too many or too long exact strings become prefixes and suffixes.
Simplify(info, force) ==
    LET e == Clean(info.exact, FALSE)
        flush == \/ e.len > MaxExact
                 \/ MinLen(e) >= 3 /\ force
                 \/ MinLen(e) >= 4
        Ends == [i \in 1 .. e.len |->
                    LET s == e.arr[i]
                    IN  IF Len(s) < 3 THEN [head |-> s, tail |-> s]
                        ELSE [head |-> SubSeq(s, 1, 2),
                              tail |-> SubSeq(s, Len(s) - 1, Len(s))]]
        i0 == [info EXCEPT !.exact = e]
        i1 == IF flush
              THEN [AddExact(i0) EXCEPT !.exact = NoSet,
                        !.prefix = SetOf([i \in 1 .. e.len |-> Ends[i].head]),
                        !.suffix = SetOf([i \in 1 .. e.len |-> Ends[i].tail])]
              ELSE i0
    IN  IF Have(i1.exact) THEN i1 ELSE SimplifySet(SimplifySet(i1, "prefix"), "suffix")

\* concat.  Where a union has room, the array of its set changes under the other set that
\* has it.
Concat(x, y) ==
    LET match == AndOr(x.match, y.match, "and")
        spoilt == x.spoilt \/ y.spoilt
        both == [NoInfo EXCEPT !.match = match, !.spoilt = spoilt]
        prefix == IF Have(x.exact) THEN Cross(x.exact, y.prefix, FALSE)
                  ELSE IF x.canEmpty THEN Union(x.prefix, y.prefix, FALSE)
                  ELSE x.prefix
        xsuffix == IF ~Have(x.exact) /\ x.canEmpty /\ x.shared
                      /\ HasRoom(x.prefix, y.prefix.len)
                   THEN [x.suffix EXCEPT !.arr = prefix.arr] ELSE x.suffix
        suffix == IF Have(y.exact) THEN Cross(xsuffix, y.exact, TRUE)
                  ELSE IF y.canEmpty THEN Union(y.suffix, xsuffix, TRUE)
                  ELSE y.suffix
        yprefix == IF ~Have(y.exact) /\ y.canEmpty /\ y.shared
                      /\ HasRoom(y.suffix, xsuffix.len)
                   THEN [y.prefix EXCEPT !.arr = suffix.arr] ELSE y.prefix
        across == /\ ~Have(x.exact) /\ ~Have(y.exact)
                  /\ xsuffix.len <= MaxSet /\ yprefix.len <= MaxSet
                  /\ MinLen(xsuffix) + MinLen(yprefix) >= 3
    IN  Simplify(
            IF Have(x.exact) /\ Have(y.exact)
            THEN [both EXCEPT !.exact = Cross(x.exact, y.exact, FALSE)]
            ELSE [both EXCEPT !.prefix = prefix, !.suffix = suffix,
                     !.match = IF across
                               THEN AndTrigrams(@, Strings(Cross(xsuffix, yprefix, FALSE)))
                               ELSE @], FALSE)

\* With a mistake: what is exact on one side only is not added to its query.
AlternateForgets(x, y) ==
    Simplify([NoInfo EXCEPT !.canEmpty = x.canEmpty \/ y.canEmpty,
                            !.match = AndOr(x.match, y.match, "and"),
                            !.exact = Union(x.exact, y.exact, FALSE),
                            !.prefix = Union(x.prefix, y.prefix, FALSE),
                            !.suffix = Union(x.suffix, y.suffix, TRUE),
                            !.spoilt = x.spoilt \/ y.spoilt], FALSE)

\* alternate.  Of an exact x both sets are made from the one array, so that the second
\* union reads, and where there is room overwrites, what the first has left there; then
\* addExact reads it too.
Alternate(x, y) ==
    LET heads == IF Have(x.exact) THEN x.exact ELSE x.prefix
        yheads == IF Have(y.exact) THEN y.exact ELSE y.prefix
        ytails == IF Have(y.exact) THEN y.exact ELSE y.suffix
        oneArray == Have(x.exact) \/ x.shared
        prefix == Union(heads, yheads, FALSE)
        inPlace == oneArray /\ HasRoom(heads, yheads.len)
        tails0 == IF Have(x.exact) THEN x.exact ELSE x.suffix
        tails == IF inPlace THEN [tails0 EXCEPT !.arr = prefix.arr] ELSE tails0
        suffix == Union(tails, ytails, TRUE)
        again == oneArray /\ HasRoom(tails, ytails.len)
        left == IF again THEN suffix.arr ELSE tails.arr
        x1 == IF Have(x.exact) THEN AddExact([x EXCEPT !.exact.arr = left]) ELSE x
        either == [NoInfo EXCEPT !.canEmpty = x.canEmpty \/ y.canEmpty,
                                 !.spoilt = x.spoilt \/ y.spoilt]
    IN  Simplify(
            IF Have(x.exact) /\ Have(y.exact)
            THEN [either EXCEPT !.exact = prefix,
                                !.match = AndOr(x.match, y.match, "or")]
            ELSE [either EXCEPT
                     !.prefix = IF inPlace /\ again THEN [prefix EXCEPT !.arr = left]
                                ELSE prefix,
                     !.suffix = suffix,
                     !.shared = inPlace /\ again,
                     !.spoilt = @ \/ inPlace \/ again,
                     !.match = AndOr(x1.match, AddExact(y).match, "or")], FALSE)

\* OpPlus, and OpRepeat from one on.
Plus(x) ==
    Simplify(IF Have(x.exact)
             THEN [x EXCEPT !.prefix = x.exact, !.exact = NoSet,
                            !.suffix = [arr |-> Strings(x.exact), len |-> x.exact.len]]
             ELSE x, FALSE)

RegexpQuery(info) == AddExact(Simplify(info, TRUE)).match

-----------------------------------------------------------------------------
(* PostingQuery: the files of the index that satisfy a query.  A file is its   *)
(* text, the lists of file IDs are sets.                                        *)

PostingList(trigram, files) ==
    {f \in files : \E i \in 1 .. Len(f) - 2 : SubSeq(f, i, i + 2) = trigram}

\* An AND of nothing finds no file, as its list stays nil.
RECURSIVE PostingQuery(_, _)
PostingQuery(q, restrict) ==
    LET lists == {PostingList(q.tri[i], restrict) : i \in DOMAIN q.tri}
                 \cup {PostingQuery(q.sub[i], restrict) : i \in DOMAIN q.sub}
    IN  CASE q.op = "none" -> {}
          [] q.op = "all" -> restrict
          [] q.op = "and" -> {f \in UNION lists : \A l \in lists : f \in l}
          [] q.op = "or" -> UNION lists

-----------------------------------------------------------------------------
(* analyze *)

Init == stack = <<>> /\ leaves = 0 /\ unary = 0

Push(words, info, count) ==
    /\ leaves + count <= MaxLeaves
    /\ leaves' = leaves + count
    /\ stack' = Append(stack, [words |-> words, info |-> info])
    /\ UNCHANGED unary

Literal(s) == Push({s}, Simplify([NoInfo EXCEPT !.exact = Just(s)], FALSE), 1)

Class(c) == Simplify([NoInfo EXCEPT !.exact = SetOf([i \in DOMAIN c |-> <<c[i]>>])], FALSE)
CharClass(c) == Push({<<c[i]>> : i \in DOMAIN c}, Class(c), 1)

\* With (?i), which the search puts before what the user typed to ignore case.
FoldCase(cs) ==
    Push({s \in [DOMAIN cs -> UNION {ToSet(cs[i]) : i \in DOMAIN cs}] :
             \A i \in DOMAIN cs : s[i] \in ToSet(cs[i])},
         IF Len(cs) = 1 THEN Class(cs[1])
         ELSE FoldLeft(LAMBDA info, c : Concat(info, Class(c)), EmptyString, cs),
         2)

AnyCharacter == Push({<<b>> : b \in Bytes}, AnyChar, 1)
Boundary == Push({<<>>}, EmptyString, 1)    \* ^, $, \b and the like
Nothing == Push({}, NoMatch, 1)             \* an empty class

Top == stack[Len(stack)]
Below == stack[Len(stack) - 1]
Both == {v \o w : v \in Below.words, w \in Top.words}

\* fold applies concat or alternate to the results of two sub-expressions.
Combine(words, info) ==
    /\ stack' = Append(SubSeq(stack, 1, Len(stack) - 2), [words |-> words, info |-> info])
    /\ UNCHANGED <<leaves, unary>>
FoldConcat == Len(stack) >= 2 /\ Combine(Both, Concat(Below.info, Top.info))
FoldAlternate ==
    Len(stack) >= 2 /\ Combine(Below.words \cup Top.words, Alternate(Below.info, Top.info))

Replace(words, info) ==
    /\ unary < MaxUnary
    /\ unary' = unary + 1
    /\ stack' = Append(Front(stack), [words |-> words, info |-> info])
    /\ UNCHANGED leaves
Repeated == Top.words \cup {v \o w : v, w \in Top.words}
Quest == stack # <<>> /\ Replace(Top.words \cup {<<>>}, Alternate(Top.info, EmptyString))
Star == stack # <<>> /\ Replace(Repeated \cup {<<>>}, AnyMatch)
OneOrMore == stack # <<>> /\ Replace(Repeated, Plus(Top.info))

Next ==
    \/ \E s \in Literals : Literal(s)
    \/ \E c \in Classes : CharClass(c)
    \/ \E cs \in Folded : FoldCase(cs)
    \/ AnyCharacter \/ Boundary \/ Nothing
    \/ FoldConcat \/ FoldAlternate \/ Quest \/ Star \/ OneOrMore

Spec == Init /\ [][Next]_vars

-----------------------------------------------------------------------------
(* Properties *)

Satisfies(s, q) == s \in PostingQuery(q, {s})

\* What the analysis knows of an expression is true of each of its matches.  While exact
\* is known it is exactly what the expression matches; after that each match begins with
\* one of the prefixes, ends with one of the suffixes and satisfies the query so far, unless
\* sets have been spoilt by the array they had in common.
Describes(x, s) ==
    /\ \E p \in ToSet(Strings(x.prefix)) : IsPrefix(p, s)
    /\ \E t \in ToSet(Strings(x.suffix)) : IsSuffix(t, s)
    /\ Satisfies(s, x.match)
InfoIsTrue ==
    \A i \in DOMAIN stack : LET x == stack[i].info
        IN  IF Have(x.exact) THEN ToSet(Strings(x.exact)) = stack[i].words
            ELSE ~x.spoilt => \A s \in stack[i].words : Describes(x, s)

\* Index.Search opens every file that has a match in it, unless sets have been spoilt.
EveryMatchIsOpened ==
    \A i \in DOMAIN stack : ~stack[i].info.spoilt =>
        \A s \in stack[i].words : Satisfies(s, RegexpQuery(stack[i].info))

\* regexp.go:17: a Query matches everything the regexp would match.
QueryMatchesAll ==
    \A i \in DOMAIN stack :
        \A s \in stack[i].words : Satisfies(s, RegexpQuery(stack[i].info))
=============================================================================
