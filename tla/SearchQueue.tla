---------------------------- MODULE SearchQueue ----------------------------
(***************************************************************************)
(* internal/search/queue: the buffered channel of search IDs and the map   *)
(* of queue positions beside it.                                           *)
(*                                                                         *)
(* The channel is not covered by the queue's mutex.  Add sends first and   *)
(* takes the mutex afterwards; Get receives first and takes the mutex      *)
(* afterwards.  So each of the two calls is two atomic steps here, with    *)
(* the other side's steps in between.  Calls of Add never overlap one      *)
(* another (Manager.NewSearch makes them under the manager's lock) and     *)
(* only the search worker calls Get, so one `adding' and one `getting'     *)
(* are enough.                                                             *)
(***************************************************************************)
EXTENDS Integers, Sequences, FiniteSets

CONSTANTS
    IDs,        \* the search IDs that ulid.New may hand out
    NoID,       \* "no search"
    QueueCap    \* capacity of the channel (100 in NewManager)

ASSUME NoIDAssumption == NoID \notin IDs
ASSUME QueueCapAssumption == QueueCap \in Nat \ {0}

VARIABLES
    issued,     \* the IDs handed out so far, oldest first (an ID is never reused)
    queue,      \* Queue.queue, the channel
    pos,        \* Queue.pos, the map of positions
    adding,     \* the ID an Add has sent and not yet given a position
    getting     \* the ID a Get has received and not yet dropped from pos

queueVars == <<queue, pos, adding, getting>>
qvars == <<issued, queueVars>>

Elements(s) == {s[i] : i \in 1 .. Len(s)}

-----------------------------------------------------------------------------
(* Faulty forms of actions defined below: the mutation runs put each in the *)
(* place of the action and expect a property to fail.                       *)

\* AddSend on an unbounded queue.
AddSendUnbounded(id) ==
    /\ adding = NoID
    /\ queue' = Append(queue, id)
    /\ adding' = id
    /\ UNCHANGED <<pos, getting>>

\* AddSend on a channel that is one too short.
AddSendShort(id) ==
    /\ adding = NoID
    /\ Len(queue) < QueueCap - 1
    /\ queue' = Append(queue, id)
    /\ adding' = id
    /\ UNCHANGED <<pos, getting>>

\* GetForget without decrementPos.
GetForgetNoDecrement ==
    /\ getting # NoID
    /\ pos' = [id \in DOMAIN pos \ {getting} |-> pos[id]]
    /\ getting' = NoID
    /\ UNCHANGED <<queue, adding>>

\* GetForget that moves the others up only and keeps the entry of its own search.
GetForgetKeeps ==
    /\ getting # NoID
    /\ pos' = [id \in DOMAIN pos |-> IF id = getting THEN pos[id] ELSE pos[id] - 1]
    /\ getting' = NoID
    /\ UNCHANGED <<queue, adding>>

-----------------------------------------------------------------------------
QueueInit ==
    /\ queue = <<>>
    /\ pos = [id \in {} |-> 0]
    /\ adding = NoID
    /\ getting = NoID

QInit == issued = <<>> /\ QueueInit

\* ulid.New: an ID that was never handed out before.
NewID(id) ==
    /\ id \notin Elements(issued)
    /\ issued' = Append(issued, id)

\* Add, first half: the send, which blocks while the channel is full.
AddSend(id) ==
    /\ adding = NoID
    /\ Len(queue) < QueueCap
    /\ queue' = Append(queue, id)
    /\ adding' = id
    /\ UNCHANGED <<pos, getting>>

\* Add, second half: the position is the length of the channel by now.
AddPos ==
    /\ adding # NoID
    /\ pos' = [id \in DOMAIN pos \cup {adding} |->
                  IF id = adding THEN Len(queue) ELSE pos[id]]
    /\ adding' = NoID
    /\ UNCHANGED <<queue, getting>>

\* Get, first half: the receive, which blocks while the channel is empty.
GetRecv ==
    /\ getting = NoID
    /\ queue # <<>>
    /\ getting' = Head(queue)
    /\ queue' = Tail(queue)
    /\ UNCHANGED <<pos, adding>>

\* Get, second half: delete the ID from the map, decrementPos all the others.
GetForget ==
    /\ getting # NoID
    /\ pos' = [id \in DOMAIN pos \ {getting} |-> pos[id] - 1]
    /\ getting' = NoID
    /\ UNCHANGED <<queue, adding>>

\* Pos: -1 for an ID that is not in the map.
Pos(id) == IF id \in DOMAIN pos THEN pos[id] ELSE -1

-----------------------------------------------------------------------------
(* Properties.                                                             *)

\* The types of the queue's state.
QueueTypeOK ==
    /\ queue \in Seq(IDs)
    /\ Len(queue) <= QueueCap
    /\ DOMAIN pos \subseteq IDs
    /\ pos = [id \in DOMAIN pos |-> pos[id]]
    /\ \A id \in DOMAIN pos : pos[id] \in Int
    /\ adding \in IDs \cup {NoID}
    /\ getting \in IDs \cup {NoID}

\* The types of the state of the queue and of the ID generator.
QTypeOK == issued \in Seq(IDs) /\ QueueTypeOK

Pending == IF getting = NoID THEN 0 ELSE 1

\* The position reported for a queued search is at most one too small, however
\* the two halves of Add and of Get interleave (a Get that has received but not
\* yet decremented makes every position one too large, and a position recorded
\* in that window one too small for ever).  A search that has left the queue is
\* never again reported as waiting, although its entry may stay in the map for
\* ever: Add records it after a Get that has already forgotten the ID.
PosWithinOne ==
    /\ \A i \in 1 .. Len(queue) :
          queue[i] \in DOMAIN pos => pos[queue[i]] - Pending \in {i - 1, i}
    /\ \A id \in DOMAIN pos :
          id \notin Elements(queue) \cup {getting} => pos[id] <= 0
=============================================================================
