-------------------------- MODULE CoordinatedTools --------------------------
(***************************************************************************)
(* Everything in the task pane that touches the open document, around one  *)
(* WorkbookCoordinator:                                                    *)
(*                                                                         *)
(*   - tool calls of the agents (tools/with-workbook-coordinator.ts):      *)
(*     identify the workbook, ask for approval in Confirm ("safe") mode,   *)
(*     then run the read, or queue the write; the call's abort signal is   *)
(*     looked at between those steps;                                      *)
(*   - restores the user asks for (taskpane/init.ts:                       *)
(*     restoreCheckpointById), queued without approval or abort signal;    *)
(*   - operations Pi sends over the bridge (bridge/delegate.ts), which run *)
(*     the same tool factories as the agents do;                           *)
(*   - the lock state every tab shows, set by the coordinator's events,    *)
(*     and closing a tab, which looks at it.                               *)
(*                                                                         *)
(* A call is one value of Ops.  Its `phase' is where the wrapper is; the   *)
(* coordinator's `status' is where its write is.  A promise continuation   *)
(* that always runs right after the promise settled is part of the action  *)
(* that settles it, except where other code can run in between.            *)
(***************************************************************************)
EXTENDS WorkbookCoordinator

CONSTANTS
    Sessions,   \* the tabs open at the start, each with its agent
    SessionOf,  \* SessionOf[o]: the tab whose agent or user makes call o
    Kind,       \* Kind[o]: "read" or "write" (a tool call's execution mode),
                \* "restore" or "bridge"
    Unknown,    \* the key used when the document has no identity yet
    MayRename,  \* whether the document's identity may change (Save As)
    MaxToggles, \* bound: how often the user switches the execution mode
    MaxReplaced \* bound: how often a tab's session is replaced

ASSUME ToolsAssumption ==
    /\ SessionOf \in [Ops -> Sessions]
    /\ Kind \in [Ops -> {"read", "write", "restore", "bridge"}]
    /\ Unknown \in Books
    /\ MayRename \in BOOLEAN
    /\ MaxToggles \in Nat
    /\ MaxReplaced \in Nat

VARIABLES
    phase,      \* phase[o]: where the call is
    aborted,    \* aborted[o]: the call's abort signal has fired
    consent,    \* consent[o]: "none", "auto" (yolo mode) or "user"
    asker,      \* asker[o]: which session of its tab made the call
    target,     \* target[o]: the workbook key in the call's context
    observed,   \* observed[o]: onWriteCommitted was called
    document,   \* the key the open document has now
    mode,       \* execution mode: "yolo" (Auto) or "safe" (Confirm)
    toggles,    \* how often it was switched
    renamed,    \* calls on their way when the document was renamed
    switched,   \* calls past the look at the mode when it was switched
    lock,       \* lock[s]: the lock state the tab shows
    sessionNo,  \* sessionNo[s]: which session tab s shows, in its history
    tab         \* tab[s]: "open", "confirming", "saving" or "closed"

coordVars == <<queue, active, revision, status, book, seen>>
callVars == <<phase, aborted, consent, asker, target, observed>>
paneVars == <<document, mode, toggles, renamed, switched>>
tabVars == <<lock, sessionNo, tab>>
toolVars == <<coordVars, callVars, paneVars, tabVars>>

Phases == {"idle", "identifying", "deciding", "approving", "coordinated",
           "reading", "bridge", "done", "rejected"}

ToolsInit ==
    /\ Init
    /\ phase = [o \in Ops |-> "idle"]
    /\ aborted = [o \in Ops |-> FALSE]
    /\ consent = [o \in Ops |-> "none"]
    /\ asker = [o \in Ops |-> 0]
    /\ target = [o \in Ops |-> None]
    /\ observed = [o \in Ops |-> FALSE]
    /\ document = Unknown
    /\ mode \in {"yolo", "safe"}
    /\ toggles = 0
    /\ renamed = {}
    /\ switched = {}
    /\ lock = [s \in Sessions |-> "idle"]
    /\ sessionNo = [s \in Sessions |-> 0]
    /\ tab = [s \in Sessions |-> "open"]

IsTool(o) == Kind[o] \in {"read", "write"}
IsWrite(o) == Kind[o] \in {"write", "restore"}
InFlight(o) == phase[o] \notin {"idle", "done", "rejected"}

\* findRuntimeBySessionId: a closed tab has no runtime left.
HasRuntime(s) == tab[s] # "closed"

\* setRuntimeLockState, for the session of the write an event is about: the
\* tab that still shows this session, if there is one.
SetLock(l, o, state) ==
    LET s == SessionOf[o]
    IN  IF HasRuntime(s) /\ sessionNo[s] = asker[o]
        THEN [l EXCEPT ![s] = state] ELSE l

\* The lock states after "started" (and "failed", when the body throws at
\* once) for the write that b's queue starts next, if it starts one.
LockAfterStart(l, b, q, running, throws) ==
    IF ~running /\ q # <<>>
    THEN SetLock(l, Head(q), IF throws THEN "idle" ELSE "holding_lock")
    ELSE l

-----------------------------------------------------------------------------
\* execute(): the tool call begins by asking for the workbook's identity.
\* restoreCheckpointById begins the same way.  A restore's session is the one
\* its tab shows now; a tool call's too, for a busy tab keeps its session.
Begin(o) ==
    /\ phase[o] = "idle"
    /\ Kind[o] # "bridge"
    /\ HasRuntime(SessionOf[o])
    /\ phase' = [phase EXCEPT ![o] = "identifying"]
    /\ asker' = [asker EXCEPT ![o] = sessionNo[SessionOf[o]]]
    /\ UNCHANGED <<coordVars, aborted, consent, target, observed, paneVars, tabVars>>

\* Mutant of Throws: the check inside the queued function is left out.
Throws_Never(o) == FALSE

\* The body of the write that starts next throws at once when its call was
\* aborted (throwIfAborted inside runWrite's function).  A restore has no
\* signal.
Throws(o) == aborted[o]

\* coordinator.runWrite(context, ...), with the events it emits.
Submit(o, b) ==
    LET q == Append(queue[b], o)
        running == active[b] # None
        throws == Throws(Head(q))
        waits == IF running \/ queue[b] # <<>>
                 THEN SetLock(lock, o, "waiting_for_lock") ELSE lock
    IN  /\ RunWrite(o, b, throws)
        /\ lock' = LockAfterStart(waits, b, q, running, throws)
        /\ phase' = [phase EXCEPT ![o] = "coordinated"]

\* throwIfAborted, outside the queue: the call rejects.
Reject(o) ==
    /\ phase' = [phase EXCEPT ![o] = "rejected"]
    /\ UNCHANGED <<coordVars, lock, consent>>

\* getWorkbookId has answered with the document's key at that moment.
IdentifiedRead(o) ==
    /\ phase[o] = "identifying"
    /\ Kind[o] = "read"
    /\ \/ /\ aborted[o]
          /\ Reject(o)
       \/ /\ ~aborted[o]
          /\ phase' = [phase EXCEPT ![o] = "reading"]
          /\ UNCHANGED <<coordVars, lock, consent>>
    /\ UNCHANGED <<aborted, asker, target, observed, paneVars, sessionNo, tab>>

\* Mutant of IdentifiedWrite: the execution mode is not asked for.
IdentifiedWrite_NeverAsks(o) ==
    /\ phase[o] = "identifying"
    /\ Kind[o] = "write"
    /\ target' = [target EXCEPT ![o] = document]
    /\ phase' = [phase EXCEPT ![o] = IF aborted[o] THEN "rejected" ELSE "deciding"]
    /\ UNCHANGED <<coordVars, aborted, consent, asker, observed, paneVars, tabVars>>

\* The same for a write, which then asks for the execution mode: the mode
\* that counts is the one at this moment.
IdentifiedWrite(o) ==
    /\ phase[o] = "identifying"
    /\ Kind[o] = "write"
    /\ target' = [target EXCEPT ![o] = document]
    /\ phase' = [phase EXCEPT ![o] =
                    IF aborted[o] THEN "rejected"
                    ELSE IF mode = "safe" THEN "approving" ELSE "deciding"]
    /\ UNCHANGED <<coordVars, aborted, consent, asker, observed, paneVars, tabVars>>

\* Auto mode: after the mode's promise, throwIfAborted, then queue.
Decided(o) ==
    /\ phase[o] = "deciding"
    /\ \/ /\ aborted[o]
          /\ Reject(o)
       \/ /\ ~aborted[o]
          /\ consent' = [consent EXCEPT ![o] = "auto"]
          /\ Submit(o, target[o])
    /\ UNCHANGED <<aborted, asker, target, observed, paneVars, sessionNo, tab>>

\* Confirm mode: the user allows the call.
Approved(o) ==
    /\ phase[o] = "approving"
    /\ \/ /\ aborted[o]
          /\ Reject(o)
       \/ /\ ~aborted[o]
          /\ consent' = [consent EXCEPT ![o] = "user"]
          /\ Submit(o, target[o])
    /\ UNCHANGED <<aborted, asker, target, observed, paneVars, sessionNo, tab>>

\* Confirm mode: the user declines, or the confirmation UI is unavailable.
Denied(o) ==
    /\ phase[o] = "approving"
    /\ Reject(o)
    /\ UNCHANGED <<aborted, asker, target, observed, paneVars, sessionNo, tab>>

\* Mutant of IdentifiedRestore: the restore runs beside the queue.
IdentifiedRestore_Direct(o) ==
    /\ phase[o] = "identifying"
    /\ Kind[o] = "restore"
    /\ phase' = [phase EXCEPT ![o] = "coordinated"]
    /\ book' = [book EXCEPT ![o] = document]
    /\ status' = [status EXCEPT ![o] = "executing"]
    /\ UNCHANGED <<queue, active, revision, seen, aborted, consent, asker,
                   target, observed, paneVars, tabVars>>

\* Mutant of IdentifiedRestore: the context has no workbook key.
IdentifiedRestore_NoKey(o) ==
    /\ phase[o] = "identifying"
    /\ Kind[o] = "restore"
    /\ consent' = [consent EXCEPT ![o] = "user"]
    /\ Submit(o, Unknown)
    /\ UNCHANGED <<aborted, asker, target, observed, paneVars, sessionNo, tab>>

\* restoreCheckpointById, once the workbook is identified: queued at once.
IdentifiedRestore(o) ==
    /\ phase[o] = "identifying"
    /\ Kind[o] = "restore"
    /\ consent' = [consent EXCEPT ![o] = "user"]
    /\ Submit(o, document)
    /\ UNCHANGED <<aborted, asker, target, observed, paneVars, sessionNo, tab>>

\* A read's body ends; reads are never queued.
ReadEnds(o) ==
    /\ phase[o] = "reading"
    /\ \E p \in {"done", "rejected"} : phase' = [phase EXCEPT ![o] = p]
    /\ UNCHANGED <<coordVars, aborted, consent, asker, target, observed, paneVars, tabVars>>

-----------------------------------------------------------------------------
\* Mutant of WriteEnds: the lock state listener ignores "failed" events.
WriteEnds_FailedIgnored(o) ==
    /\ phase[o] = "coordinated"
    /\ Settle(o)
    /\ lock' = IF status'[o] = "failed" THEN lock ELSE SetLock(lock, o, "idle")
    /\ UNCHANGED <<callVars, paneVars, sessionNo, tab>>

\* A queued write's body ends: the coordinator settles it, its tab is idle.
WriteEnds(o) ==
    /\ phase[o] = "coordinated"
    /\ Settle(o)
    /\ lock' = SetLock(lock, o, "idle")
    /\ UNCHANGED <<callVars, paneVars, sessionNo, tab>>

\* processQueue's finally block: hand over to the next write.
HandOver(b) ==
    LET throws == queue[b] # <<>> /\ Throws(Head(queue[b]))
    IN  /\ Release(b, throws)
        /\ lock' = LockAfterStart(lock, b, queue[b], FALSE, throws)
        /\ UNCHANGED <<callVars, paneVars, sessionNo, tab>>

\* Mutant of Resume: the observer is told before the outcome is looked at.
Resume_AnyOutcome(o) ==
    /\ phase[o] = "coordinated"
    /\ Settled(o)
    /\ observed' = [observed EXCEPT ![o] = IsTool(o)]
    /\ phase' = [phase EXCEPT ![o] =
                    IF status[o] = "committed" THEN "done" ELSE "rejected"]
    /\ UNCHANGED <<coordVars, aborted, consent, asker, target, paneVars, tabVars>>

\* The caller of runWrite resumes: a committed tool write is told to the
\* mutation observer; a failure rejects the call.
Resume(o) ==
    /\ phase[o] = "coordinated"
    /\ Settled(o)
    /\ observed' = [observed EXCEPT ![o] =
                       status[o] = "committed" /\ Kind[o] = "write"]
    /\ phase' = [phase EXCEPT ![o] =
                    IF status[o] = "committed" THEN "done" ELSE "rejected"]
    /\ UNCHANGED <<coordVars, aborted, consent, asker, target, paneVars, tabVars>>

\* handleToolCall and delegateTool: the tool runs at once.
BridgeCall(o) ==
    /\ phase[o] = "idle"
    /\ Kind[o] = "bridge"
    /\ phase' = [phase EXCEPT ![o] = "bridge"]
    /\ UNCHANGED <<coordVars, aborted, consent, asker, target, observed, paneVars, tabVars>>

BridgeCallEnds(o) ==
    /\ phase[o] = "bridge"
    /\ phase' = [phase EXCEPT ![o] = "done"]
    /\ UNCHANGED <<coordVars, aborted, consent, asker, target, observed, paneVars, tabVars>>

-----------------------------------------------------------------------------
\* agent.abort(): the signals of all of a session's tool calls fire.
AbortedBy(s) ==
    [o \in Ops |-> aborted[o] \/ (SessionOf[o] = s /\ IsTool(o) /\ InFlight(o))]

\* The user stops an agent.
Abort(s) ==
    /\ HasRuntime(s)
    /\ \E o \in Ops : SessionOf[o] = s /\ IsTool(o) /\ InFlight(o) /\ ~aborted[o]
    /\ aborted' = AbortedBy(s)
    /\ UNCHANGED <<coordVars, phase, consent, asker, target, observed, paneVars, tabVars>>

\* The user switches between Auto and Confirm.  `switched' only records
\* under which calls: the mode was looked at, the write has not started.
ToggleMode ==
    /\ toggles < MaxToggles
    /\ mode' = IF mode = "yolo" THEN "safe" ELSE "yolo"
    /\ toggles' = toggles + 1
    /\ switched' = switched \cup {o \in Ops : phase[o] = "deciding" \/ status[o] = "waiting"}
    /\ UNCHANGED <<coordVars, callVars, document, renamed, tabVars>>

\* The call is on its way to the document: its workbook has been looked up,
\* and its write is not over.
OnItsWay(o) ==
    phase[o] \in {"deciding", "approving"} \/ status[o] \in {"waiting", "executing"}

\* The document is saved under another name: its identity is a hash of its
\* address.  A saved document never becomes unknown again.  `renamed' only
\* records under which calls.
Rename ==
    /\ MayRename
    /\ \E b \in Books \ {document, Unknown} : document' = b
    /\ renamed' = renamed \cup {o \in Ops : OnItsWay(o)}
    /\ UNCHANGED <<coordVars, callVars, mode, toggles, switched, tabVars>>

OpenTabs == {s \in Sessions : HasRuntime(s)}

\* The agent of s is streaming: at least while a tool call of it is running.
Busy(s) == \E o \in Ops : SessionOf[o] = s /\ IsTool(o) /\ InFlight(o)

\* closeRuntimeWithRecovery, up to its first await: not the last tab, not a
\* tab that shows it holds the lock; a streaming one is asked about.
CloseTab(s) ==
    /\ tab[s] = "open"
    /\ Cardinality(OpenTabs) > 1
    /\ lock[s] # "holding_lock"
    /\ tab' = [tab EXCEPT ![s] = IF Busy(s) THEN "confirming" ELSE "saving"]
    /\ UNCHANGED <<coordVars, callVars, paneVars, lock, sessionNo>>

\* "Stop and close": the agent is aborted, then the session is saved.
StopAndClose(s) ==
    /\ tab[s] = "confirming"
    /\ aborted' = AbortedBy(s)
    /\ tab' = [tab EXCEPT ![s] = "saving"]
    /\ UNCHANGED <<coordVars, phase, consent, asker, target, observed, paneVars, lock, sessionNo>>

KeepOpen(s) ==
    /\ tab[s] = "confirming"
    /\ tab' = [tab EXCEPT ![s] = "open"]
    /\ UNCHANGED <<coordVars, callVars, paneVars, lock, sessionNo>>

\* The session is saved: closeRuntime removes the tab and disposes of its
\* runtime (agent.abort) unless it is now the last one.
CloseSaved(s) ==
    /\ tab[s] = "saving"
    /\ \/ /\ Cardinality(OpenTabs) > 1
          /\ tab' = [tab EXCEPT ![s] = "closed"]
          /\ aborted' = AbortedBy(s)
       \/ /\ Cardinality(OpenTabs) = 1
          /\ tab' = [tab EXCEPT ![s] = "open"]
          /\ UNCHANGED aborted
    /\ UNCHANGED <<coordVars, phase, consent, asker, target, observed, paneVars, lock, sessionNo>>

\* replaceActiveRuntimeSession: a tab whose agent is not busy shows another
\* stored session.
ReplaceSession(s) ==
    /\ tab[s] = "open"
    /\ sessionNo[s] < MaxReplaced
    /\ ~Busy(s)
    /\ sessionNo' = [sessionNo EXCEPT ![s] = @ + 1]
    /\ UNCHANGED <<coordVars, callVars, paneVars, lock, tab>>

CallStep(o) ==
    \/ Begin(o) \/ IdentifiedRead(o) \/ IdentifiedWrite(o) \/ IdentifiedRestore(o)
    \/ Decided(o) \/ Approved(o) \/ Denied(o) \/ ReadEnds(o)
    \/ WriteEnds(o) \/ Resume(o) \/ BridgeCall(o) \/ BridgeCallEnds(o)

TabStep(s) ==
    \/ Abort(s) \/ CloseTab(s) \/ StopAndClose(s) \/ KeepOpen(s)
    \/ CloseSaved(s) \/ ReplaceSession(s)

ToolsNext ==
    \/ \E o \in Ops : CallStep(o)
    \/ \E b \in Books : HandOver(b)
    \/ \E s \in Sessions : TabStep(s)
    \/ ToggleMode
    \/ Rename

ToolsSpec == ToolsInit /\ [][ToolsNext]_toolVars

\* Promise continuations run, tool bodies end, and the user answers an
\* approval request one way or the other.
ToolsFairness ==
    /\ \A o \in Ops :
          WF_toolVars(\/ IdentifiedRead(o) \/ IdentifiedWrite(o)
                      \/ IdentifiedRestore(o) \/ Decided(o) \/ Approved(o)
                      \/ Denied(o) \/ ReadEnds(o) \/ WriteEnds(o) \/ Resume(o))
    /\ \A b \in Books : WF_toolVars(HandOver(b))

ToolsFairSpec == ToolsSpec /\ ToolsFairness

-----------------------------------------------------------------------------
\* A body that may be changing the open document right now.
Mutating(o) == status[o] = "executing" \/ phase[o] = "bridge"

(***************************************************************************)
(* "Parallel reasoning, serialized workbook mutation" (coordinator.ts, the *)
(* header; docs/archive/design-multi-session-workbook.md): two bodies      *)
(* never change the open document at the same time, whichever keys it has  *)
(* had and however calls of agents and restores meet renames.  Two kinds   *)
(* of call do not keep to it in the code, and are named here: those that   *)
(* come over the bridge, which are not queued, and those that were already *)
(* on their way when the document got another key.                         *)
(***************************************************************************)
SerializedMutation ==
    \A o, p \in {x \in Ops : Kind[x] # "bridge"} \ renamed :
        Mutating(o) /\ Mutating(p) => o = p

(***************************************************************************)
(* A call whose abort signal has fired does not start changing the         *)
(* workbook, however long it has waited for its identity, its approval or  *)
(* its turn (the three throwIfAborted of with-workbook-coordinator.ts).    *)
(***************************************************************************)
NoStartAfterAbort ==
    [][\A o \in Ops : aborted[o] /\ status[o] # "executing"
          => status'[o] # "executing"]_toolVars

(***************************************************************************)
(* In Confirm mode Pi asks before each workbook mutation                   *)
(* (execution/mode.ts): no tool's write starts in that mode unless the     *)
(* user has allowed it, however the mode is switched while calls wait.     *)
(* Only a write that had looked at the mode and not yet started when it    *)
(* was switched does not keep to it in the code.                           *)
(***************************************************************************)
AskedInConfirmMode ==
    [][\A o \in Ops \ switched :
          Kind[o] = "write" /\ mode = "safe"
          /\ status[o] # "executing" /\ status'[o] = "executing"
          => consent'[o] = "user"]_toolVars

(***************************************************************************)
(* The mutation observer, which invalidates cached structure, hears of     *)
(* every committed tool write by the time its call returns, and of nothing *)
(* that did not commit.                                                    *)
(***************************************************************************)
ObserverHearsCommits ==
    \A o \in Ops :
        /\ observed[o] => status[o] = "committed"
        /\ Kind[o] = "write" /\ phase[o] = "done" => observed[o]

(***************************************************************************)
(* A tab that shows "holding lock" has a write executing: closing it is    *)
(* "disabled until write completes" (design-session-resume-ux.md) and no   *)
(* longer.  The state is folded from the events of all the session's       *)
(* writes and restores.                                                    *)
(***************************************************************************)
LockNeverStuck ==
    \A s \in Sessions : HasRuntime(s) /\ lock[s] = "holding_lock" =>
        \E o \in Ops : SessionOf[o] = s /\ status[o] = "executing"

(***************************************************************************)
(* "If lock is held: close action disabled until write completes"          *)
(* (docs/archive/design-session-resume-ux.md).  The code does not keep     *)
(* this: it looks at the lock state before a dialog and a save, and a      *)
(* write of the session may start before the tab is closed.                *)
(***************************************************************************)
NoCloseDuringWrite ==
    [][\A s \in Sessions : HasRuntime(s) /\ tab'[s] = "closed" =>
          ~ \E o \in Ops : SessionOf[o] = s /\ status[o] = "executing"]_toolVars

\* The wrapper drives the coordinator only through its operations, so what
\* is proved of the coordinator holds of the whole pane.
UsesCoordinator == Spec

\* Every call returns to its caller, also when it was stopped while queued or
\* its tab was closed under it.
EveryCallReturns == \A o \in Ops : InFlight(o) /\ Kind[o] # "bridge" ~> ~InFlight(o)
=============================================================================
