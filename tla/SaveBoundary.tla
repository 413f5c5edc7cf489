----------------------------- MODULE SaveBoundary -----------------------------
(***************************************************************************)
(* packages/add-in/src/workbook/save-boundary-monitor.ts, as init.ts       *)
(* starts it: a poll that clears the backups of a workbook which has been  *)
(* saved; one in each task pane, over its recovery log (RecoveryLog).      *)
(*                                                                         *)
(* Abstractions:                                                           *)
(*   - a poll is an operation of kind "clear" that first reads the flag of *)
(*     the workbook; it is repeated until it clears;                       *)
(*   - a poll that finds no identity or no flag has no effect and is left  *)
(*     out;                                                                *)
(*   - the workbook is changed by the operation whose backup is then       *)
(*     appended, by a restore, and by the user.                            *)
(***************************************************************************)
EXTENDS RecoveryLog

CONSTANT Polls

ASSUME BoundaryAssumption == Polls \subseteq {o \in Ops : KindOf[o] = "clear"}

VARIABLES
    unsaved,   \* operations whose change of the workbook is not saved
    dirty,     \* dirty[p]: Workbook.isDirty in pane p, by these or by the
               \* user's own changes
    wasClean,  \* wasClean[p]: whether the last poll of pane p read "clean"
               \* (lastDirtyByWorkbookId; that it read "dirty" and that there was
               \* none come to the same)
    flag,      \* flag[x]: what poll x has read, "none" before
    late       \* late[x]: those made after poll x read the flag

boundaryVars == <<unsaved, dirty, wasClean, flag, late>>
allVars == <<vars, boundaryVars>>

BoundaryInit ==
    /\ Init
    /\ unsaved = {} /\ dirty = [p \in Panes |-> FALSE]
    /\ wasClean = [p \in Panes |-> FALSE]
    /\ flag = [x \in Polls |-> "none"]
    /\ late = [x \in Polls |-> {}]

-----------------------------------------------------------------------------
\* Poll x has read the flag and not cleared yet: it decides, loads the log or
\* reads the identity of the workbook.
UnderWay(x) == flag[x] # "none" /\ pc[x] \in {"idle", "loading", "loaded"}

\* Operation o changes the workbook.
Changes(o) ==
    /\ unsaved' = unsaved \cup {o}
    /\ dirty' = [dirty EXCEPT ![PaneOf[o]] = TRUE]
    /\ late' = [x \in Polls |-> IF UnderWay(x) THEN late[x] \cup ({o} \cap Of(PaneOf[x]))
                              ELSE {}]
    /\ UNCHANGED <<wasClean, flag>>

\* A backup is appended when the change it is for has been made.
Calls(o) ==
    /\ o \notin Polls
    /\ Begin(o)
    /\ IF KindOf[o] = "append" THEN Changes(o) ELSE UNCHANGED boundaryVars

Applies(o) ==
    /\ RestoreApplies(o)
    /\ IF pc'[o] = "changed" THEN Changes(o) ELSE UNCHANGED boundaryVars

Goes(o) ==
    /\ AppendOp(o) \/ Delete(o) \/ Clear(o) \/ RestoreFinds(o) \/ ListOp(o) \/ Persist(o)
    /\ UNCHANGED boundaryVars

Served == (ServeRead \/ ServeWrite) /\ UNCHANGED boundaryVars

\* The workbook of pane p, which a poll looks at; what it does is up to its user.
Edit(p) ==
    /\ dirty' = [dirty EXCEPT ![p] = TRUE]
    /\ UNCHANGED <<vars, unsaved, wasClean, flag, late>>

SaveWorkbook(p) ==
    /\ unsaved' = unsaved \ Of(p) /\ dirty' = [dirty EXCEPT ![p] = FALSE]
    /\ late' = [x \in Polls |-> late[x] \ Of(p)]
    /\ UNCHANGED <<vars, wasClean, flag>>

-----------------------------------------------------------------------------
\* readWorkbookDirtyState
PollReads(x) ==
    /\ pc[x] = "idle" /\ flag[x] = "none"
    /\ flag' = [flag EXCEPT ![x] = IF dirty[PaneOf[x]] THEN "dirty" ELSE "clean"]
    /\ UNCHANGED <<vars, unsaved, dirty, wasClean, late>>

\* Mutant of Saved: the flag just read is not looked at.
Saved_NotYetKnown(x) == ~wasClean[PaneOf[x]]

\* savedTransitionObserved or firstObservationIsAlreadySaved
Saved(x) == flag[x] = "clean" /\ ~wasClean[PaneOf[x]]

\* The rest of checkOnce, up to clearBackupsForCurrentWorkbook.
PollDecides(x) ==
    /\ pc[x] = "idle" /\ flag[x] # "none"
    /\ wasClean' = [wasClean EXCEPT ![PaneOf[x]] = (flag[x] = "clean")]
    /\ IF Saved(x)
       THEN Begin(x) /\ UNCHANGED <<flag, late>>
       ELSE /\ flag' = [flag EXCEPT ![x] = "none"]
            /\ late' = [late EXCEPT ![x] = {}]
            /\ UNCHANGED vars
    /\ UNCHANGED <<unsaved, dirty>>

\* A reload takes the monitor along.
Reload(p) ==
    /\ Restart(p)
    /\ wasClean' = [wasClean EXCEPT ![p] = FALSE]
    /\ flag' = [x \in Polls |-> IF pc[x] = "idle" /\ PaneOf[x] = p THEN "none" ELSE flag[x]]
    /\ late' = [x \in Polls |-> IF pc[x] = "idle" /\ PaneOf[x] = p THEN {} ELSE late[x]]
    /\ UNCHANGED <<unsaved, dirty>>

BoundaryNext ==
    \/ \E o \in Ops : Calls(o) \/ Applies(o) \/ Goes(o)
    \/ Served
    \/ \E x \in Polls : PollReads(x) \/ PollDecides(x)
    \/ \E x \in Polls : Edit(PaneOf[x]) \/ SaveWorkbook(PaneOf[x])
    \/ \E p \in Panes : Reload(p)

BoundarySpec == BoundaryInit /\ [][BoundaryNext]_allVars

-----------------------------------------------------------------------------
\* A poll takes away no backup of a change that was waiting to be saved when
\* it looked: only those of saved changes, and those made while it was under
\* way, which the code does not tell apart.  (tools/DECISIONS.md:343, backups
\* are "in between saves" recovery points; checkOnce.)
ClearsOnlySaved ==
    [][\A x \in Polls : (cut'[x] \ cut[x]) \cap unsaved \subseteq late[x]]_allVars
=============================================================================
