------------------------- MODULE WorkbookCoordinator -------------------------
(***************************************************************************)
(* workbook/coordinator.ts: createWorkbookCoordinator.                     *)
(*                                                                         *)
(* The coordinator keeps, for every workbook key, a revision counter, a    *)
(* queue of writes and the write in progress.  JavaScript runs one         *)
(* synchronous stretch of code at a time, so one action here is one such   *)
(* stretch: from a call or a settled promise to the next await.            *)
(*                                                                         *)
(*   - running and activeWrite are set and cleared together; `active' is   *)
(*     both (None when running is false).                                  *)
(*   - a write's body is the caller's function: it ends when it likes,     *)
(*     with success or not, or throws before its first await.              *)
(*   - between the end of a body and the hand-over to the next write a     *)
(*     promise continuation has to run; other code may run first, so       *)
(*     the hand-over (Release) is an action of its own.                    *)
(*   - listeners are assumed not to throw (the one the task pane registers *)
(*     only records a lock state); what they do is in CoordinatedTools.    *)
(***************************************************************************)
EXTENDS Naturals, Sequences, FiniteSets

CONSTANTS
    Ops,        \* the writes: each value stands for one call of runWrite
    Books,      \* workbook keys, after normalizeWorkbookId
    None        \* no active write; no workbook yet

ASSUME OpsAssumption == IsFiniteSet(Ops)
ASSUME NoneAssumption == None \notin Ops /\ None \notin Books

VARIABLES
    queue,      \* queue[b]: writes admitted and not yet started
    active,     \* active[b]: activeWrite of b, None when not running
    revision,   \* revision[b]
    status,     \* status[o]: where the write o is
    book,       \* book[o]: the workbook key o was submitted with
    seen        \* seen[o]: the revision runWrite's promise resolved with

vars == <<queue, active, revision, status, book, seen>>

Statuses == {"new", "waiting", "executing", "committed", "failed"}

Settled(o) == status[o] \in {"committed", "failed"}

\* ensureState: every workbook starts idle at revision 0.
Init ==
    /\ queue = [b \in Books |-> <<>>]
    /\ active = [b \in Books |-> None]
    /\ revision = [b \in Books |-> 0]
    /\ status = [o \in Ops |-> "new"]
    /\ book = [o \in Ops |-> None]
    /\ seen = [o \in Ops |-> 0]

\* Mutant of ProcessQueue: without `if (state.running) return'.
ProcessQueue_Reentrant(b, q, running, st, throws) ==
    IF q # <<>>
    THEN /\ active' = [active EXCEPT ![b] = Head(q)]
         /\ queue' = [queue EXCEPT ![b] = Tail(q)]
         /\ status' = [st EXCEPT ![Head(q)] =
                          IF throws THEN "failed" ELSE "executing"]
    ELSE /\ active' = [active EXCEPT ![b] = None]
         /\ queue' = [queue EXCEPT ![b] = q]
         /\ status' = st

(***************************************************************************)
(* processQueue(b), once b's queue is q, running is whether b has an       *)
(* active write and st is the statuses: start the oldest write unless one  *)
(* is running or none waits.  `throws' says that the started body throws   *)
(* before its first await: its write is rejected in the same step, and     *)
(* stays the active one until Release.                                     *)
(***************************************************************************)
ProcessQueue(b, q, running, st, throws) ==
    IF ~running /\ q # <<>>
    THEN /\ active' = [active EXCEPT ![b] = Head(q)]
         /\ queue' = [queue EXCEPT ![b] = Tail(q)]
         /\ status' = [st EXCEPT ![Head(q)] =
                          IF throws THEN "failed" ELSE "executing"]
    ELSE /\ active' = [active EXCEPT ![b] = IF running THEN @ ELSE None]
         /\ queue' = [queue EXCEPT ![b] = q]
         /\ status' = st

\* Mutant of RunWrite: the new operation is put at the front of the queue.
RunWrite_Lifo(o, b, throws) ==
    /\ status[o] = "new"
    /\ book' = [book EXCEPT ![o] = b]
    /\ ProcessQueue(b, <<o>> \o queue[b], active[b] # None,
                    [status EXCEPT ![o] = "waiting"], throws)
    /\ UNCHANGED <<revision, seen>>

\* runWrite: push the operation, then processQueue.
RunWrite(o, b, throws) ==
    /\ status[o] = "new"
    /\ book' = [book EXCEPT ![o] = b]
    /\ ProcessQueue(b, Append(queue[b], o), active[b] # None,
                    [status EXCEPT ![o] = "waiting"], throws)
    /\ UNCHANGED <<revision, seen>>

\* Mutant of Commit: the caller is given the revision read before the bump.
Commit_StaleRevision(o) ==
    /\ status[o] = "executing"
    /\ revision' = [revision EXCEPT ![book[o]] = @ + 1]
    /\ seen' = [seen EXCEPT ![o] = revision[book[o]]]
    /\ status' = [status EXCEPT ![o] = "committed"]
    /\ UNCHANGED <<queue, active, book>>

\* execute(), when fn() has resolved: bump the revision, resolve with it.
Commit(o) ==
    /\ status[o] = "executing"
    /\ revision' = [revision EXCEPT ![book[o]] = @ + 1]
    /\ seen' = [seen EXCEPT ![o] = revision[book[o]] + 1]
    /\ status' = [status EXCEPT ![o] = "committed"]
    /\ UNCHANGED <<queue, active, book>>

\* execute(), when fn() has rejected: reject, the revision stays.
Fail(o) ==
    /\ status[o] = "executing"
    /\ status' = [status EXCEPT ![o] = "failed"]
    /\ UNCHANGED <<queue, active, revision, book, seen>>

\* Mutant of Release: no finally, so only a committed write hands over.
Release_OnlyOnSuccess(b, throws) ==
    /\ active[b] # None
    /\ status[active[b]] = "committed"
    /\ ProcessQueue(b, queue[b], FALSE, status, throws)
    /\ UNCHANGED <<revision, book, seen>>

\* The finally block of processQueue: running = false, then processQueue.
Release(b, throws) ==
    /\ active[b] # None
    /\ Settled(active[b])
    /\ ProcessQueue(b, queue[b], FALSE, status, throws)
    /\ UNCHANGED <<revision, book, seen>>

Settle(o) == Commit(o) \/ Fail(o)

Next ==
    \/ \E o \in Ops : Settle(o)
    \/ \E b \in Books, throws \in BOOLEAN :
          \/ Release(b, throws)
          \/ \E o \in Ops : RunWrite(o, b, throws)

Spec == Init /\ [][Next]_vars

\* Promise continuations run, and the bodies of writes end (each is one
\* Office.js batch, which the host answers or rejects).
Fairness ==
    /\ \A o \in Ops : WF_vars(Settle(o))
    /\ \A b \in Books : WF_vars(\E throws \in BOOLEAN : Release(b, throws))

FairSpec == Spec /\ Fairness

-----------------------------------------------------------------------------
\* The types of the state.
TypeOK ==
    /\ queue \in [Books -> Seq(Ops)]
    /\ active \in [Books -> Ops \cup {None}]
    /\ revision \in [Books -> Nat]
    /\ status \in [Ops -> Statuses]
    /\ book \in [Ops -> Books \cup {None}]
    /\ seen \in [Ops -> Nat]

Committed(b) == {o \in Ops : status[o] = "committed" /\ book[o] = b}

(***************************************************************************)
(* "Serialized workbook mutation" (the file's header): two write bodies of *)
(* the same workbook key never execute at the same time, whatever arrives  *)
(* between a body's end and the hand-over to the next one.                 *)
(***************************************************************************)
OneWriteAtATime ==
    \A o, p \in Ops :
        status[o] = "executing" /\ status[p] = "executing" /\ book[o] = book[p]
        => o = p

(***************************************************************************)
(* The revision a workbook shows is the number of writes that succeeded on *)
(* it: a failed or an aborted write is not counted, and none is counted    *)
(* twice.                                                                  *)
(***************************************************************************)
RevisionCountsCommits ==
    \A b \in Books : revision[b] = Cardinality(Committed(b))

(***************************************************************************)
(* runWrite tells every successful caller a revision of its own: no two    *)
(* writes of a workbook are given the same one, and none is ahead of the   *)
(* workbook.                                                               *)
(***************************************************************************)
RevisionsIdentifyWrites ==
    \A o \in Ops : status[o] = "committed" =>
        /\ seen[o] \in 1..revision[book[o]]
        /\ \A p \in Committed(book[o]) \ {o} : seen[p] # seen[o]

(***************************************************************************)
(* The queue never stalls: while a workbook has a waiting write, a write   *)
(* is active on it whose end will start the next (the flag `running' and   *)
(* the queue are kept together over two code paths).                       *)
(***************************************************************************)
WaitingBehindActive ==
    \A o \in Ops : status[o] = "waiting" =>
        /\ active[book[o]] # None
        /\ \E i \in DOMAIN queue[book[o]] : queue[book[o]][i] = o

-----------------------------------------------------------------------------
(***************************************************************************)
(* The refinement: a workbook's line is its executing write, if any, and   *)
(* then its queue.  A settled write that is still `active' has left.       *)
(***************************************************************************)
Line(b) ==
    IF active[b] # None /\ status[active[b]] = "executing"
    THEN <<active[b]>> \o queue[b]
    ELSE queue[b]

Result(o) == IF Settled(o) THEN status[o] ELSE "none"

Serial == INSTANCE SerialWrites WITH
    line <- [b \in Books |-> Line(b)],
    result <- [o \in Ops |-> Result(o)]

\* The coordinator keeps every workbook's writes in one line, finished in
\* the order they were submitted (SerialWrites).
ImplementsSerialWrites == Serial!Spec
=============================================================================
