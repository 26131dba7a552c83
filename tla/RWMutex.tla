-------------------------------- MODULE RWMutex --------------------------------
(***************************************************************************)
(* The RWMutex of Go's sync package, as the program uses it.  Lock first   *)
(* announces the writer, which keeps new readers out, then waits for the   *)
(* readers that are in; further writers wait for the announced one.  RLock *)
(* does not ask whether its goroutine already is a reader.                 *)
(* The state of a mutex is a record: how often each process has read       *)
(* locked it, and the announced writer.                                    *)
(***************************************************************************)
EXTENDS Naturals

CONSTANTS Procs,  \* the goroutines that use the mutex
          NoProc  \* "no writer is announced"

ASSUME NoProcAssumption == NoProc \notin Procs

Mutex == [readers : [Procs -> Nat], writer : Procs \cup {NoProc}]

Unlocked == [readers |-> [p \in Procs |-> 0], writer |-> NoProc]

HasReaders(m) == \E p \in Procs : m.readers[p] > 0

CanRLock(m) == m.writer = NoProc
RLocked(m, p) == [m EXCEPT !.readers[p] = @ + 1]
RUnlocked(m, p) == [m EXCEPT !.readers[p] = @ - 1]

CanAnnounce(m) == m.writer = NoProc
Announced(m, p) == [m EXCEPT !.writer = p]

\* The announced writer has the mutex to itself.
CanWrite(m, p) == m.writer = p /\ ~HasReaders(m)
WriteUnlocked(m) == [m EXCEPT !.writer = NoProc]
====
