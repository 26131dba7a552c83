--------------------------- MODULE MCRegexpAnalysis ---------------------------
(* Literals and classes of RegexpAnalysis for TLC. *)
EXTENDS RegexpAnalysis

MCLiterals == {<<1>>, <<1, 2>>, <<2, 1, 2, 3>>}
MCClasses == {<<1, 2, 3>>}
MCFolded == {<<<<1, 4>>, <<2, 5>>, <<3, 6>>>>}
MCBytes == {3}

SpoilLiterals == {<<1, 1, 2, 2>>, <<4, 1, 1, 1>>}
=============================================================================
