-------------------------- MODULE MCSearchManager --------------------------
(* Model-checking instances of SearchManager.                              *)
EXTENDS SearchRefinement, TLC

\* IDs, requests and extensions are interchangeable: only the order in which
\* IDs are issued matters, and that is part of the state.
Symmetry == Permutations(IDs) \cup Permutations(Clients) \cup Permutations(Slugs)
=============================================================================
