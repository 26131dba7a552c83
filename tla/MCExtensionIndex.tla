--------------------------- MODULE MCExtensionIndex ---------------------------
(* Instances of ExtensionIndex for TLC: one search, one or two updates of  *)
(* its extension, and requests for files.  Their properties include        *)
(* liveness, so that no symmetry is used.                                  *)
EXTENDS ExtensionIndex
====
