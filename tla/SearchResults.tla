---------------------------- MODULE SearchResults ----------------------------
(***************************************************************************)
(* A search from the loop that finds its matches (SearchScan) to the table *)
(* that shows them in a browser (ResultsList).  The page shows the table   *)
(* once the search is complete and if its total is not zero; whatever the  *)
(* page then goes through is here a table that is rendered again, or is    *)
(* taken away and shown anew (WebClient has the page).                     *)
(***************************************************************************)
EXTENDS SearchScan, ResultsList

CONSTANT Installs   \* the active installs of each extension

ASSUME SlugsAssumption == Exts \subseteq Nat /\ Installs \in [Exts -> Nat]

allVars == <<vars, listVars>>

\* The records of the stored summary: those of the extensions with matches.
Summary ==
    {[slug |-> e, installs |-> Installs[e], matches |-> sum[e]] :
        e \in {f \in Exts : sum[f] # 0}}

Complete == loop = "done" /\ limiter = 0

\* Until the search is complete its page shows no table.
ScanStep == ~Complete /\ Next /\ UNCHANGED listVars

\* From then on no update touches what was found.
ShowStep ==
    /\ Complete /\ totalMatches > 0
    /\ MountTable \/ UnmountTable \/ RenderTable \/ ListStep(Summary)
    /\ UNCHANGED vars

ResultsInit == Init /\ ListInit

ResultsNext == ScanStep \/ ShowStep

ResultsSpec == ResultsInit /\ [][ResultsNext]_allVars /\ Fairness
=============================================================================
