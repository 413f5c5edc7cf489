----------------------------- MODULE RecoveryLog -----------------------------
(***************************************************************************)
(* packages/add-in/src/workbook/recovery-log.ts: WorkbookRecoveryLog, the  *)
(* list of snapshots from which changes of a workbook can be reverted, and *)
(* its copy in the settings store (workbook/recovery/log-store.ts).        *)
(*                                                                         *)
(* Every task pane has a log of its own, in memory; all panes store it     *)
(* under one key of one store.                                             *)
(*                                                                         *)
(* Abstractions:                                                           *)
(*   - an operation stands for the snapshot it appends (append: before a   *)
(*     mutation; restore: the inverse), Old are snapshots of earlier days; *)
(*     their contents, kinds and sizes are left out;                       *)
(*   - every pane has its own workbook, and a snapshot belongs to the      *)
(*     workbook of the pane that made it; the identity of the workbook may *)
(*     be unavailable at any call;                                         *)
(*   - a "list" stands for the calls that only load and read; those of a   *)
(*     loaded log change nothing;                                          *)
(*   - the store serves its requests, of all panes, in the order they were *)
(*     made; each may fail.                                                *)
(***************************************************************************)
EXTENDS Naturals, Sequences, SequencesExt, FiniteSets

CONSTANTS
    Panes,
    Ops,          \* calls to the log
    KindOf,       \* "append", "restore", "delete", "clear" or "list"
    Old,          \* snapshots stored before
    PaneOf,       \* the pane of an operation or of an old snapshot
    MaxEntries,   \* MAX_RECOVERY_ENTRIES
    MaxRestarts   \* how often panes are reloaded

Snapshots == Ops \cup Old

ASSUME RecoveryAssumption ==
    /\ Ops \cap Old = {}
    /\ KindOf \in [Ops -> {"append", "restore", "delete", "clear", "list"}]
    /\ PaneOf \in [Snapshots -> Panes]
    /\ MaxEntries \in Nat \ {0}
    /\ IsFiniteSet(Old) /\ Cardinality(Old) <= MaxEntries
    /\ MaxRestarts \in Nat

VARIABLES
    loaded,    \* loaded[p]: the flag of pane p's log
    list,      \* list[p]: its `snapshots', newest first
    disk,      \* the stored snapshots
    requests,  \* reads and writes the store has not served
    pc,        \* pc[o]: how far operation o is
    restarts,  \* counts reloads, up to MaxRestarts
    made,      \* snapshots whose operation has returned them
    cut,       \* cut[o]: what o deleted, cleared or dropped at the limit
    erased,    \* snapshots whose removal, from their own pane, was written
    revived,   \* of these, those that another pane has written since
    lost       \* snapshots that are lost although nobody has removed them: to
               \* a failing read or write, to the list of another pane, or to
               \* calls that did not wait for the log to be read

logVars == <<loaded, list>>
ghosts == <<made, cut, erased, revived, lost>>
vars == <<logVars, disk, requests, pc, restarts, ghosts>>

Read(o) == [ask |-> "read", op |-> o, payload |-> <<>>]
Write(o, s) == [ask |-> "write", op |-> o, payload |-> s]
Of(p) == {s \in Snapshots : PaneOf[s] = p}

\* The sequence s without the members of S.
Without(s, S) ==
    LET rest[n \in 0..Len(s)] ==
            IF n = 0 THEN <<>>
            ELSE IF s[n] \in S THEN rest[n - 1] ELSE Append(rest[n - 1], s[n])
    IN  rest[Len(s)]

Init ==
    /\ loaded = [p \in Panes |-> FALSE]
    /\ list = [p \in Panes |-> <<>>]
    /\ disk = SetToSeq(Old)
    /\ requests = <<>>
    /\ pc = [o \in Ops |-> "idle"]
    /\ restarts = 0
    /\ made = Old
    /\ cut = [o \in Ops |-> {}]
    /\ erased = {}
    /\ revived = {}
    /\ lost = {}

\* The list of pane p has been read from the store.
Ready(p) ==
    /\ loaded[p]
    /\ \A i \in DOMAIN requests :
          ~(requests[i].ask = "read" /\ PaneOf[requests[i].op] = p)

-----------------------------------------------------------------------------
\* An operation begins with ensureLoaded, which sets the flag and then reads.
Begin(o) ==
    LET p == PaneOf[o]
    IN  /\ pc[o] = "idle"
        /\ KindOf[o] = "list" => ~loaded[p]
        /\ IF loaded[p]
           THEN /\ pc' = [pc EXCEPT ![o] = "loaded"]
                /\ UNCHANGED <<loaded, requests>>
           ELSE /\ loaded' = [loaded EXCEPT ![p] = TRUE]
                /\ requests' = Append(requests, Read(o))
                /\ pc' = [pc EXCEPT ![o] = "loading"]
        /\ UNCHANGED <<list, disk, restarts, ghosts>>

\* The store serves a read; one that fails counts as an empty log.  What calls
\* have put into the list in the meantime is overwritten.
ServeRead ==
    /\ requests # <<>> /\ Head(requests).ask = "read"
    /\ requests' = Tail(requests)
    /\ LET o == Head(requests).op
           p == PaneOf[o]
       IN  /\ \/ /\ list' = [list EXCEPT ![p] = disk]
                 /\ lost' = lost \cup (ToSet(list[p]) \ ToSet(disk))
              \/ /\ list' = [list EXCEPT ![p] = <<>>]
                 /\ lost' = lost \cup ToSet(disk) \cup ToSet(list[p])
           /\ pc' = [pc EXCEPT ![o] = "loaded"]
    /\ UNCHANGED <<loaded, disk, restarts, made, cut, erased, revived>>

\* The store holds s, from operation o: what was removed by o is erased; what
\* o's pane does not know of other panes is lost, and what it still knows of
\* them is back.
Stored(o, s) ==
    LET others == {x \in Snapshots : PaneOf[x] # PaneOf[o]}
    IN  /\ disk' = s
        /\ erased' = erased \cup (cut[o] \ others)
        /\ revived' = revived \cup (ToSet(s) \cap erased \cap others)
        /\ lost' = lost \cup ((ToSet(disk) \ ToSet(s)) \cap others)

\* The store ignores a write that fails (log-store.ts).
NotStored(s) ==
    /\ lost' = lost \cup (ToSet(s) \ ToSet(disk))
    /\ UNCHANGED <<disk, erased, revived>>

\* appendSnapshot returns the snapshot when its write is over.
Returns(o) ==
    IF pc[o] = "writing"
    THEN /\ pc' = [pc EXCEPT ![o] = "done"]
         /\ made' = IF KindOf[o] \in {"append", "restore"} THEN made \cup {o} ELSE made
    ELSE UNCHANGED <<pc, made>>

\* Mutant of ServeWrite: the log goes back to what was written.
ServeWrite_ReadsBack ==
    /\ requests # <<>> /\ Head(requests).ask = "write"
    /\ requests' = Tail(requests)
    /\ LET o == Head(requests).op
           s == Head(requests).payload
       IN  /\ Stored(o, s) \/ NotStored(s)
           /\ Returns(o)
           /\ list' = [list EXCEPT ![PaneOf[o]] = s]
    /\ UNCHANGED <<loaded, restarts, cut>>

\* The store serves a write.
ServeWrite ==
    /\ requests # <<>> /\ Head(requests).ask = "write"
    /\ requests' = Tail(requests)
    /\ LET o == Head(requests).op
           s == Head(requests).payload
       IN  (Stored(o, s) \/ NotStored(s)) /\ Returns(o)
    /\ UNCHANGED <<logVars, restarts, cut>>

-----------------------------------------------------------------------------
\* The operation ends without a change of the list: there is no identity of
\* the workbook, no such snapshot, the workbook rejects the restore, or the
\* operation only lists.
Ends(o) ==
    /\ pc' = [pc EXCEPT ![o] = IF KindOf[o] = "list" THEN "idle" ELSE "done"]
    /\ UNCHANGED <<logVars, disk, requests, restarts, ghosts>>

\* The list of o's pane becomes s; what is not in it any more is removed.
ListBecomes(o, s) ==
    LET p == PaneOf[o]
    IN  /\ list' = [list EXCEPT ![p] = s]
        /\ cut' = [cut EXCEPT ![o] = ToSet(list[p]) \ ToSet(s)]
        /\ pc' = [pc EXCEPT ![o] = "changed"]
        /\ UNCHANGED <<loaded, disk, requests, restarts, made, erased, revived, lost>>

\* Mutant of Limited: one entry too many.
Limited_OffByOne(s) ==
    SubSeq(s, 1, IF Len(s) <= MaxEntries THEN Len(s) ELSE MaxEntries + 1)

\* appendSnapshot
Limited(s) == SubSeq(s, 1, IF Len(s) < MaxEntries THEN Len(s) ELSE MaxEntries)
AppendSnapshot(o) == ListBecomes(o, Limited(<<o>> \o list[PaneOf[o]]))

\* append, appendFormatCells and the others.
AppendOp(o) ==
    /\ KindOf[o] = "append" /\ pc[o] = "loaded"
    /\ AppendSnapshot(o) \/ Ends(o)

\* delete: any snapshot id, but only of this workbook.
Delete(o) ==
    /\ KindOf[o] = "delete" /\ pc[o] = "loaded"
    /\ \/ \E s \in ToSet(list[PaneOf[o]]) \cap Of(PaneOf[o]) :
             ListBecomes(o, Without(list[PaneOf[o]], {s}))
       \/ Ends(o)

\* clearForCurrentWorkbook
Clear(o) ==
    /\ KindOf[o] = "clear" /\ pc[o] = "loaded"
    /\ \/ /\ ToSet(list[PaneOf[o]]) \cap Of(PaneOf[o]) # {}
          /\ ListBecomes(o, Without(list[PaneOf[o]], Of(PaneOf[o])))
       \/ Ends(o)

\* restore: find the snapshot, read the identity of the workbook and compare.
RestoreFinds(o) ==
    /\ KindOf[o] = "restore" /\ pc[o] = "loaded"
    /\ \/ /\ ToSet(list[PaneOf[o]]) \cap Of(PaneOf[o]) # {}
          /\ pc' = [pc EXCEPT ![o] = "found"]
          /\ UNCHANGED <<logVars, disk, requests, restarts, ghosts>>
       \/ Ends(o)

\* restoreWorkbookRecoverySnapshot: the snapshot found, still listed or not, is
\* applied, or refused by the workbook; then its inverse is appended.
RestoreApplies(o) ==
    /\ pc[o] = "found"
    /\ AppendSnapshot(o) \/ Ends(o)

ListOp(o) == KindOf[o] = "list" /\ pc[o] = "loaded" /\ Ends(o)

\* Mutant of Persist: the log is appended to what is stored.
Persist_Merges(o) ==
    /\ pc[o] = "changed"
    /\ requests' = Append(requests, Write(o, list[PaneOf[o]]
                      \o Without(disk, ToSet(list[PaneOf[o]]))))
    /\ pc' = [pc EXCEPT ![o] = "writing"]
    /\ UNCHANGED <<logVars, disk, restarts, ghosts>>

\* Mutant of Persist: the list from before the snapshot was put in.
Persist_Before(o) ==
    /\ pc[o] = "changed"
    /\ requests' = Append(requests, Write(o, Without(list[PaneOf[o]], {o})))
    /\ pc' = [pc EXCEPT ![o] = "writing"]
    /\ UNCHANGED <<logVars, disk, restarts, ghosts>>

\* persist: the list as it is by then.  If it has not been read yet, it will
\* replace what is stored.
Persist(o) ==
    LET p == PaneOf[o]
    IN  /\ pc[o] = "changed"
        /\ requests' = Append(requests, Write(o, list[p]))
        /\ pc' = [pc EXCEPT ![o] = "writing"]
        /\ lost' = IF Ready(p) THEN lost
                   ELSE lost \cup ((made \cap Of(p)) \ ToSet(list[p]))
        /\ UNCHANGED <<logVars, disk, restarts, made, cut, erased, revived>>

\* The pane is reloaded or closed: what it has asked for is written or not.
Restart(p) ==
    /\ restarts < MaxRestarts
    /\ restarts' = restarts + 1
    /\ loaded' = [loaded EXCEPT ![p] = FALSE]
    /\ list' = [list EXCEPT ![p] = <<>>]
    /\ pc' = [o \in Ops |-> IF PaneOf[o] = p /\ pc[o] \notin {"idle", "done"}
                            THEN (IF KindOf[o] = "list" THEN "idle" ELSE "dead")
                            ELSE pc[o]]
    /\ \E gone \in {{"read"}, {"read", "write"}} :
          requests' = Without(requests, {r \in ToSet(requests) : PaneOf[r.op] = p /\ r.ask \in gone})
    /\ UNCHANGED <<disk, ghosts>>

OpStep(o) ==
    \/ AppendOp(o) \/ Delete(o) \/ Clear(o)
    \/ RestoreFinds(o) \/ RestoreApplies(o)
    \/ ListOp(o) \/ Persist(o)

Next ==
    \/ \E o \in Ops : Begin(o) \/ OpStep(o)
    \/ ServeRead
    \/ ServeWrite
    \/ \E p \in Panes : Restart(p)

Spec == Init /\ [][Next]_vars

-----------------------------------------------------------------------------
removed == UNION {cut[o] : o \in Ops}

\* The values the variables take; a list never exceeds MaxEntries.
RecoveryTypeOK ==
    /\ loaded \in [Panes -> BOOLEAN]
    /\ \A s \in {disk} \cup {list[p] : p \in Panes}
                       \cup {requests[i].payload : i \in DOMAIN requests} :
          /\ s \in Seq(Snapshots)
          /\ Len(s) <= MaxEntries
          /\ IsInjective(s)
    /\ pc \in [Ops -> {"idle", "loading", "loaded", "found", "changed",
                       "writing", "done", "dead"}]
    /\ restarts \in 0..MaxRestarts

\* A snapshot that an operation has returned can be restored from the pane it
\* was made in, until it is deleted, cleared or pushed out by newer ones, also
\* after the pane was reloaded; unless it was lost to a failure of the store, to
\* the list of another pane (all store theirs under one key), or to a call that
\* came while the log was being read (ensureLoaded lets it pass).
\* (docs/archive/design-yolo-recovery.md:45, "Automatic checkpoints for
\* successful mutations", and :62, "Restore is itself reversible".)
Kept ==
    \A s \in made \ (removed \cup lost) :
        Ready(PaneOf[s]) => s \in ToSet(list[PaneOf[s]])

\* Such a snapshot is also stored, at every moment, with the same exceptions:
\* reloading the pane now would find it.  (appendSnapshot awaits persist;
\* log-store.ts.)
Acknowledged ==
    \A s \in made \ (removed \cup lost) : s \in ToSet(disk)

\* A snapshot that was removed in its own pane, and has left the store, does not
\* come back, also not when the pane is reloaded; unless another pane, which
\* had read it before, stores its own list.
\* (delete, clearForCurrentWorkbook, appendSnapshot.)
NoResurrection == (erased \ revived) \cap ToSet(disk) = {}
=============================================================================
