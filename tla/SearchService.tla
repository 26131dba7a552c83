--------------------------- MODULE SearchService ---------------------------
(***************************************************************************)
(* What the search service promises, with no word about locks, channels or *)
(* tables: searches are taken in the order in which they were accepted,    *)
(* one at a time, each at most once, and a search that is done stays done. *)
(* A search that is not done can be lost in two ways only: its processing  *)
(* fails, or the service restarts.                                         *)
(***************************************************************************)
EXTENDS Sequences, Naturals

CONSTANTS IDs, NoID

VARIABLES
    created,    \* the searches accepted so far, oldest first
    waiting,    \* those that are still to be started, oldest first
    active,     \* the one being processed, or NoID
    done        \* those whose results are stored

serviceVars == <<created, waiting, active, done>>

Members(s) == {s[i] : i \in 1 .. Len(s)}

Init == created = <<>> /\ waiting = <<>> /\ active = NoID /\ done = {}

Create(id) ==
    /\ id \notin Members(created)
    /\ created' = Append(created, id)
    /\ waiting' = Append(waiting, id)
    /\ UNCHANGED <<active, done>>

Start ==
    /\ active = NoID /\ waiting # <<>>
    /\ active' = Head(waiting)
    /\ waiting' = Tail(waiting)
    /\ UNCHANGED <<created, done>>

Finish ==
    /\ active # NoID
    /\ done' = done \cup {active}
    /\ active' = NoID
    /\ UNCHANGED <<created, waiting>>

Fail ==
    /\ active # NoID
    /\ active' = NoID
    /\ UNCHANGED <<created, waiting, done>>

Restart ==
    /\ waiting' = <<>>
    /\ active' = NoID
    /\ UNCHANGED <<created, done>>

Next == (\E id \in IDs : Create(id)) \/ Start \/ Finish \/ Fail \/ Restart

Spec == Init /\ [][Next]_serviceVars

\* While searches wait or are processed, the service goes on.
Progress == WF_serviceVars(Start) /\ WF_serviceVars(Finish \/ Fail)

FairSpec == Spec /\ Progress
=============================================================================
