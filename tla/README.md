# Pi for Office: specifications

TLA+ models of the parts of Pi for Office whose correctness depends on the
order in which things happen, the TLC configurations that check them on small
instances, and theorems that TLAPS checks for every instance.

Paths below are relative to the repository root. `add-in` stands for
`packages/add-in`, `bridge` for `packages/bridge-extension`.

- [The system](#the-system)
- [The modules](#the-modules) and how they correspond to the code
- [The runs](#the-runs), their bounds, and the fairness they assume
- [What is proved](#what-is-proved)
- [Where code and documents disagree](#where-code-and-documents-disagree)
- [What is not modelled](#what-is-not-modelled)
- [Plan](#plan)
- [Running the checks](#running-the-checks)

## The system

Pi for Office is a coding agent inside a task pane of Excel, Word and
PowerPoint. One pane has several *tabs*; each tab is a *session runtime* with
an agent of its own, and all of them work on the one document that is open.
The agents' tools, the user's restores from backups, and operations that a
separate Pi terminal sends over a WebSocket *bridge* all change that document.

JavaScript runs one stretch of code at a time, so there are no data races in
the usual sense. What makes this system hard are its `await`s: everything read
before one may be stale after it, callbacks come in orders nobody wrote a test
for, and sockets, timers, promises and the user all race.

| Part | State it keeps | Operations | Talks to |
|---|---|---|---|
| Workbook coordinator (`add-in/src/workbook/coordinator.ts`) | per workbook key: queue, active write, `running`, revision | `runRead`, `runWrite`, `processQueue`; events queued, started, completed, failed | called by the tool wrapper and by restores; its events set the tabs' lock state |
| Tool wrapper (`add-in/src/tools/with-workbook-coordinator.ts`) | nothing but the call in progress | identify the workbook, ask for approval, queue, tell the observer | coordinator, execution mode, mutation observer |
| Tabs and sessions (`add-in/src/taskpane/init.ts`, `session-runtime-manager.ts`, `sessions.ts`) | runtimes with lock state, session id and messages; recently closed ones; stored sessions | make, duplicate, close, reopen; resume, replace, rename, save a session; restore a backup | agents, coordinator events, storage, recovery log |
| Execution mode (`add-in/src/execution/`) | stored mode, Auto or Confirm | get, toggle | asked by the tool wrapper |
| Recovery log (`add-in/src/workbook/recovery-log.ts`, `recovery/log-store.ts`) | `loaded`, the list of snapshots, its stored copy | append, restore, delete, clear, list | written by mutating tools; cleared by the save boundary monitor |
| Bridge server (`bridge/src/bridge-server.ts`) | attached panes, pending calls with timers | hello, call, answer, abort, timeout, heartbeat, stop | Pi's tools above it, the panes' sockets below |
| Pane client (`add-in/src/bridge/pane-client.ts`) | socket, connect promise, welcome timer, watchdog | connect, disconnect, execute a call, answer it | bridge server; its status callbacks drive the manager |
| Bridge manager (`add-in/src/bridge/pi-bridge-manager.ts`) | status, `enabled`, generation, client, retry and stable timers, attempt count | enable, disable, init, retry, online and visibility events | pane client, settings store, settings page |
| Pi extension entry (`bridge/src/index.ts`) | server of the session, list of reply targets | session start and shutdown, user messages, replies | bridge server, Pi's agent |
| Action queue (`add-in/src/taskpane/action-queue.ts`) | queued prompts and commands, `running`, `closed` | submit, process, drain, shut down | agent, run recovery, compaction |
| Run recovery (`add-in/src/compaction/run-recovery.ts`, `failure-classification.ts`) | attempts made for one prompt | classify, retry after a backoff, compact once | agent |
| Compaction (`add-in/src/compaction/engine.ts`, `commands/builtins/export.ts`) | the transcript and its summary | cut, trim, summarize, verify, commit | agent, session persistence |
| Structure cache and context injection (`add-in/src/context/blueprint.ts`, `taskpane/context-injection.ts`) | per workbook: overview and revision; per agent: what it noted last | build, invalidate, decide, inject | mutation observer of the tool wrapper, agents |
| Extension runtimes (`add-in/src/extensions/runtime-manager.ts`, `taskpane/runtime-utils.ts`) | entries, active loads, tools and commands with owners, the refresh in flight | install, enable, disable, permit, reload, uninstall, start; refresh the agents' tools | settings, agents |
| Save boundary monitor (`add-in/src/workbook/save-boundary-monitor.ts`) | last dirty flag | poll, clear backups | recovery log |

Everything else (files workspace, connections, authentication, models, the
Office tools themselves, helpers, user interface, scripts) is listed in
`PROJECT.json` with the reason it has no module.

What would make each of the parts wrong, with the line where it would happen,
is the list `hazards` of `PROJECT.json`. The properties were chosen from that
list. In short:

- *coordinator*: two bodies at once on one workbook; a queue that stalls after
  a body failed, threw at once, or ended just as another write came in; a
  revision that does not identify the write;
- *tools and tabs*: a stopped call that still writes; an unasked write in
  Confirm mode; a cache that is not told; a tab that stays locked; a call
  nobody answers because its tab was closed;
- *bridge server*: a call that is never settled, or is settled with an answer
  its executor did not give; a dead socket that takes calls; a pane listed
  twice; an operation carried out twice;
- *bridge manager*: an enabled bridge that stops trying; a badge that says
  connected when nothing is; callbacks of a superseded client that disturb
  its successor; a bridge that runs though it is switched off;
- *Pi extension*: a reply that goes to a pane which asked for nothing; a call
  that outlives its session;
- *recovery log, save boundary*: a backup that the user was promised and that
  is gone, now or after a reload; a removed one that comes back; a poll that
  takes the backup of a change it should have seen was unsaved;
- *action queue and recovery*: prompts out of order, sent twice or left in the
  queue; retries without an end; an error that vanishes from the transcript;
- *compaction*: a cut through a turn; a turn given up that need not be; a summary
  or a turn that is lost;
- *sessions*: a turn that is not stored, is written over, or is stored under
  another session;
- *structure*: an agent that takes an old overview for the present one;
- *extensions*: half an extension that stays after a failure; agents that keep
  tools of a load that is gone.

## The modules

Every module begins with a header that lists its abstractions. An action is
one stretch of synchronous code: from a call, an event or a settled promise to
the next `await`, with everything it calls. Definitions keep the names of the
code where they can; `PROJECT.json` (`map`) gives the lines of each.
Definitions named `X_Something` before a definition `X` are *mutants*: the
same step with a plausible bug. Each property of a passing run is violated
when one of them takes the place of the definition it mutates.

```
   SerialWrites  <--refines--  WorkbookCoordinator  <--extends--  CoordinatedTools
   (the promise)               (the write queue)                  (tools, tabs, locks)

   BridgeServer  <--extends--  PiBridgeSession      RecoveryLog  <--extends--  SaveBoundary
   (server, sockets, panes)    (Pi's session)       (log, store)              (dirty-flag poll)

   BridgeManager               StructureContext     SessionTabs
   (life of a connection)      (cache, injectors)   (tabs and storage)

   ActionQueue                 Compaction           ExtensionRuntimes
   (with run recovery)         (one transcript)     (manager and tool refresh)
```

Each `MC...` module gives the constants of one of these their instances for TLC.
The proofs are in modules whose names end in `Proofs`, which extend the modules
they are about: CoordinatedToolsProofs (with the coordinator),
QueueAndCompactionProofs (ActionQueue and Compaction, which is one of the
queue's commands), BridgeProofs (the server and Pi's session), RecoveryLogProofs
(the log and the monitor), BridgeManagerProofs, StructureContextProofs,
SessionTabsProofs and ExtensionRuntimesProofs.
StructureContext stands on CoordinatedTools through a theorem, not through
EXTENDS: its writes are told to the cache because `ObserverIsTold` says that the
observer hears of every commit.

### SerialWrites

What the coordinator promises: every workbook has one line of writes, only its
head can finish, and the revision counts the successes. No queue, no flag, no
hand-over.

### WorkbookCoordinator

`createWorkbookCoordinator`. `active[b]` stands for `running` and `activeWrite`
(set and cleared together), `queue[b]` and `revision[b]` for the fields of the
workbook's record, `status[o]` and `seen[o]` for what the caller's promise
knows.

| Action | Code |
|---|---|
| `RunWrite(o, b, throws)` | `runWrite` pushes the operation and calls `processQueue` |
| `ProcessQueue` | `processQueue` up to the first await of the body, with a body that throws at once |
| `Commit`, `Fail` | `execute`: the body resolved (bump, event, resolve) or rejected |
| `Release(b, throws)` | the `finally` of `processQueue`: clear the flag, process again |

`Release` is an action of its own: between the end of a body and its hand-over
other code can run, and may submit a write. `ImplementsSerialWrites` states the
refinement: the line of a workbook is its executing write and then its queue.

### CoordinatedTools

Extends the coordinator with all that uses it in a pane. A call is one value of
`Ops`; `phase[o]` says where the wrapper is (identifying the workbook, deciding,
waiting for approval, in the coordinator, reading, over the bridge, done,
rejected). `target[o]` is the workbook key the call read at its start and
queues with later, `document` the key the document has now.

| Action | Code |
|---|---|
| `Begin`, `IdentifiedRead`, `IdentifiedWrite`, `Decided`, `Approved`, `Denied`, `ReadEnds`, `Resume` | `with-workbook-coordinator.ts`: `execute`, one step per await; each `throwIfAborted` is a guard |
| `IdentifiedRestore` | `restoreCheckpointById` in `taskpane/init.ts` |
| `WriteEnds`, `HandOver` | the coordinator's `Settle` and `Release` with the lock listener of `init.ts` |
| `BridgeCall`, `BridgeCallEnds` | `bridge/delegate.ts`: the tool runs at once, outside the coordinator |
| `Abort`, `CloseTab`, `StopAndClose`, `KeepOpen`, `CloseSaved`, `ReplaceSession` | closing a tab with its dialog and save, stopping an agent, loading another session |
| `ToggleMode`, `Rename` | the execution mode; the document saved under another name |

`UsesCoordinator` says that every behaviour of this module is, on the
coordinator's variables, a behaviour of `WorkbookCoordinator`: what is proved
of the coordinator therefore holds in the pane.

### BridgeServer

`OfficeBridgeServer`, with the panes and sockets as its environment. `attached`
with `order` is the array `panes` with `connectedAt`; `pending` and `outcome`
are the map of pending calls and their promises; `inbox` and `outbox` are what
is on the wire. `answer[k]`, what the executor returned, is never read by the
server: it is there for `ResolvedAsAnswered`.

| Action | Code |
|---|---|
| `Start`, `Listening`, `Stop` | `start`, its listening and error events, `stop` |
| `Connect`, `HelloTimeout`, `HelloOutdated`, `Hello` | `handleConnection`: hello timer, version check, record in `panes` |
| `SocketError`, `SocketClosed`, `Heartbeat` | the socket's events and the sweep over `panes`, all through `detachPane`; the heartbeat removes from the array it walks, so it skips the record after a removed one (`Swept`) |
| `CallNoPane`, `CallGated`, `CallUnsent`, `CallSent`, `GiveUp` | `callOfficeTool`: its early ends, the send, the timer and the abort signal |
| `HandleToolResult` | `handleToolResult` |
| `PaneReceives`, `PaneAnswers`, `Lose` | the pane's `handleFrame` and executor, the network |

### BridgeManager

`pi-bridge-manager.ts` with the connect half of `pane-client.ts` and the page
that toggles it. A client connects once, so one value of `Clients` is a client,
the run of `startBridge` that makes it, and its generation; `current` is the
generation, `NoClient` once `stopBridge` has bumped it. `phase[c]` is the
client's socket, from waiting for the URL to half-open.

| Action | Code |
|---|---|
| `BootAnswered`, `EnableSaved`, `DisableSaved`, `SaveFails`, `UrlAnswered` | answers of the settings store, and what `initPiBridgeFromSettings`, `enablePiBridge`, `disablePiBridge` and `startBridge` do after them |
| `Welcome`, `ConnectFails`, `LateEnds`, `GoesSilent`, `Drops` | the ends of `connect()` and of a connection, with the callbacks that check the generation |
| `TimerFires`, `StableFires`, `Wake` | the reconnect timer, the stable timer, the online and visibility listeners (`retryNow`) |
| `Toggle`, `ReopenPage` | the toggle of the settings page, which ignores clicks while it is busy |

Two things of the code that are easy to miss are in the model: a connect that
timed out keeps its socket (`"late"`) and may still be welcomed; and a client
that is superseded while it waits for the URL connects all the same, with its
callbacks ignored.

### RecoveryLog

`WorkbookRecoveryLog` and its store. Every pane keeps the whole list in memory
and stores all of it under one key. An operation loads the list once
(`Begin`, `ServeRead`: the flag is set *before* the read), changes it in memory
(`AppendOp`, `Delete`, `Clear`, `RestoreFinds`, `RestoreApplies`), and then
stores it (`Persist`, `ServeWrite`). A pane may be reloaded at any moment
(`Restart`). Reads and writes of the store may fail, as the code allows.
`made`, `cut`, `erased`, `revived` and `lost` are history variables for the
properties: which snapshots were returned to a caller, which were taken out of
the list, which of those were also written, which of these another pane has
written again, and which are gone though nobody has removed them: by a failing
store, the list of another pane, or a call made while the list was being read.

### SaveBoundary

RecoveryLog with `save-boundary-monitor.ts`, which polls `Workbook.isDirty` and
clears the backups of a workbook that was saved. A poll starts with the pane, so
it may be the first that calls the log, and loads it. A poll
is an operation of kind `"clear"` with two awaits before it: `PollReads` (the
flag), `PollDecides` (the memory of the last poll, and the clearing). `Edit`
and `SaveWorkbook` are the user. `late[x]` is what changed after poll `x` had
read its flag: the code cannot tell these backups from the saved ones, and
`ClearsOnlySaved` allows it to take them, but none that was unsaved before.

### PiBridgeSession

`bridge/src/index.ts` on top of BridgeServer: what a Pi session does with its
server. `held` is the module's variable `server`, set when `await
bridge.start()` returns; a shutdown before that finds nothing to stop.
`targets` is `pendingReplyTargets`, to which a pane's message is appended and
from which *every* assistant message takes one. Pi itself (`waiting`, `turn`) is
external: prompts wait while it works, a turn ends with an assistant message
after any number of others.

| Action | Code |
|---|---|
| `SessionStart`, `Started`, `SessionShutdown` | `session_start` before and after its await, `session_shutdown` |
| `UserMessage`, `TerminalPrompt`, `TurnBegins` | `onUserMessage`; a prompt in the terminal; Pi takes a prompt |
| `StepEnds`, `TurnEnds` | `message_end` of a message that calls tools, and of the last one |
| `ToolExecutes` | `execute` of an office tool: `callOfficeTool` while the server runs |
| `BridgeStep` | what goes on in the server, its sockets and the panes |

### ActionQueue

`createActionQueue` with `recoverAfterRun`. `step` is the await at which the
loop of `process()` stands: waiting for the agent to be idle, in a command, in
the guard before a prompt, in a run, in the backoff or the compaction of a
recovery. The transcript is its last message; `held` is a failed message that
the recovery has dropped and may have to put back.

| Action | Code |
|---|---|
| `Enqueue`, `TakeNext`, `CommandEnds`, `GuardEnds` | `enqueuePrompt`/`enqueueCommand` and the loop, one step per await |
| `RunEnds` with `Recover`, `Exhausted` | the classification of the last message and the decision of `recoverAfterRun` |
| `CompactionEnds`, `BackoffEnds` | its two awaits, each followed by `agent.continue()` or the end |
| `Escape`, `Stop`, `Restore`, `Shutdown` | the Esc shortcut, the stop button, taking messages back, closing the tab |

### Compaction

`executeCompaction` over a transcript of messages with a role, the size of the
text and that of the arguments and thinking. The plan (`SelectCut`, then
`PlanKeptTail` with its four trims: previews of tool results, truncated calls,
dropped turns, truncated text) is made of operators that take the transcript and
return it, with the sizes a trim leaves; what the steps drop or shorten is exact,
estimates and wording are left out. `keep` counts half tokens, since the recent
budget that the second plan starts from is not rounded and those after it are
rounded down. The actions are the awaits: `Plan`, `NothingOlder` (three outcomes), `SummarizeOlder`,
`Summarizer` (with its failures and the escalation to a second plan), `Verify`.

### SessionTabs

The tabs of a pane, what they show, and the storage of sessions, with its
requests in order. A session's messages are the set of its turns.

| Action | Code |
|---|---|
| `NewTab`, `Duplicate`, `NewSession`, `Rename` | the commands of `init.ts` on tabs; `startNewSession` of the error banner |
| `Send`, `Answer`, `Compact`, `CompactEnds` | a turn, saved at `message_end`; a compaction, saved when it commits, also after the tab was closed |
| `Resume`, `Reopen`, `ServeRead`, `LoadMakesTab`, `LoadFillsTab`, `LoadReplaces` | loading a stored session into a new tab or in place of another |
| `Close`, `StopAndClose`, `CloseEnds` | `closeRuntimeWithRecovery`, one step per await: dialog, save, workbook identity |
| `ServeSave`, `Reload` | the store; the pane reloaded with its stored layout |

`owed` and `own` are history variables: the turns a session should have, and
those it may have.

### StructureContext

The overview cache and the injectors of the agents. The structure of the
document is the number of changes made to it. `GetBlueprint` and `BuildEnds`
are the two halves of `getBlueprint`, `Invalidate` is `invalidateBlueprint`;
`ContextStarts`, `ContextIdentified`, `ContextTimesOut`, `ContextInjected` are the
awaits of the injector; `NeedsRefresh` its decision. A write announces itself
(`WriteTold`) for the key that the document had when its call began. Restores,
bridge operations and the user announce nothing (`ChangesUntold`).

### ExtensionRuntimes

`ExtensionRuntimeManager` and the refresh that gives the extensions' tools to the
agents. Nothing serializes the manager's calls, so each is a little program of
its own, one step per await (`pc[c]`): begin, save, tear down (`Cleared`, `Torn`,
`TeardownThrew`), load (`Register`, `Activate`, `LoadFails`, `CleanFailure`),
erase. A load is named after the call that makes it, so that one can say whose
tool is registered. The refresh is `createAsyncCoalescer` around a pass that
reads (`PassReads`) and applies (`PassApplies`); between the end of the last pass
and the clearing of `inFlight` (`RefreshEnds`) a request is accepted and lost.

## The runs

A property that holds on a small instance has been checked in every
interleaving of that instance. `PROJECT.json` says of every run what it shows;
this is the summary, with the reason for its bounds. States are distinct
states.

| Run (`.cfg`) | Instance | Checked | States |
|---|---|---|---|
| `tools_quiet` (`ToolsQuiet`) | two tabs, each with a write of its agent, and a restore in one of them; aborts, closing of tabs | `OneWriteAtATime`, `RevisionsIdentifyWrites`, `ImplementsSerialWrites`, `LockNeverStuck`, `NoStartAfterAbort`, `EveryCallReturns` | 200 762 |
| `tools_moving` (`ToolsMoving`) | one tab with a write, a restore and a read, and a bridge operation; the document renamed, the mode toggled once, the session replaced once | `SerializedMutation`, `AskedInConfirmMode`, `ObserverHearsCommits`, `UsesCoordinator` | 2 001 354 |
| `bridge_panes` (`BridgePanes`) | 2 panes of one application, one of which does not know the op, 3 sockets (one pane reconnects), one call | `UnsettledIsPending`, `ResolvedAsAnswered`, `OnePanePerId`, `NoDeadRecord`, `StartsOnce`, `CallSettles` | 175 245 |
| `pi_session` (`PiSession`) | a session with an excel pane (which advertises a known and an unknown op) and a word pane, 2 calls, 3 prompts | `NoStaleTarget`, `ShutdownSettles` | 484 572 |
| `manager` (`Manager`) | 5 clients at a time, 2 wake events, backoff of 2 steps | `KeepsTrying`, `TruthfulBadge`, `RunsOnlyAsSaved`, `BackoffKept`, `SelfHeals` | 94 414 |
| `manager_off` (`ManagerOff`) | the same; see [below](#where-code-and-documents-disagree) | `OffMeansOffline`, violated | |
| `recovery` (`Recovery`) | a pane with an older snapshot, a restore, a delete, a list and a poll that clears; another pane that appends; at most 2 entries, one reload, edits and saves of the user | `RecoveryTypeOK`, `Kept`, `Acknowledged`, `NoResurrection`, `ClearsOnlySaved` | 1 136 530 |
| `action_queue` (`ActionQueue`) | 3 prompts, a command, 2 retries | `QueueTypeOK`, `SentInTurn`, `OutcomeStaysVisible`, `BoundedRecovery`, `QueueDrains` | 133 101 |
| `compaction` (`Compaction`) | every transcript of up to 5 messages with texts of two sizes and, in the assistant's, arguments of one size or none, with and without a summary | `CommittedIsTurnSuffix`, `DropsOnlyToFit` | 635 097 |
| `sessions` (`SessionTabs`) | 2 tabs, 4 session ids, one of them stored before; 2 turns, 4 commands, one reload or failure, one tab being closed | `EveryTurnIsSaved`, `NoTurnStrays` | 4 062 336 |
| `structure` (`Structure`) | 2 agents, 2 writes, 2 keys, 2 model calls, one unannounced change, one rename, one replaced session | `ContextSeesAnnounced` | 2 030 778 |
| `extensions` (`Extensions`) | 2 extensions that share a tool name, one of them with a command; a start, disable, permission, uninstall and install | `SettledAsListed`, `AgentsRunCurrentTools` | 688 799 |

### Why the bounds are enough

- *tools*. A call is a whole execution of the wrapper. Three queued calls of two
  tabs let one execute, one be handed over to and one still wait or arrive at
  the worst moment, with two of them in the same tab, so that its lock state is
  folded from both. The second run has one call of every kind and two workbook
  keys. `MaxToggles`, `MaxReplaced` and `MayRename` bound what the user does
  around the calls; they separate the two runs. What speaks of renames, switches
  or the bridge is checked in the second. For the coordinator the proofs
  remove the bounds.
- *bridge*. Three sockets are the least with which a pane reconnects while
  another one of the same application is attached; two records are enough for
  the heartbeat's walk to skip one. Most races are about one call, which
  settles once; `pi_session` has the sweep, the timer and the answers of one
  call happen around another, in panes of two applications. (Two calls with
  the reconnecting panes are beyond a few minutes of TLC.) In a session, three
  prompts let one be worked on, one wait and one come from the terminal in
  between; two of a turn's messages can each take a target.
- *manager*. Each wake event can leave behind one client that nobody
  disconnects, so the number of clients grows with `MaxWakes`; with two events,
  five clients are enough: in every reachable state one is free. (With three
  events the instance would run out of clients, and `StartBridge` would stop for
  a reason the code does not have.) Gone clients are used again, so the run
  has no bound on the number of retries, toggles, drops and refusals.
  `MaxTries` is where the count of tries saturates; two is enough to see it
  rise, stay and be reset. This run checks for deadlock as well; in the others
  the system may come to rest, because all calls have been made.
- *recovery*. The older snapshot, the append of the other pane and the inverse
  that a restore appends exceed the limit of 2. Each kind of operation overlaps
  each other one, may be the first to load the log of its pane, or come while it
  is being read; the reload of either pane falls anywhere. One poll is repeated
  until it clears, so it remembers both values of the flag.
- *action_queue*. Three prompts let one run, one wait behind it and one arrive;
  a command can stand before, between and after them. Two retries with one
  compaction are the least with which failures alternate both ways. `returned`,
  `sent` and the budgets are finite, so nothing else is bounded.
- *compaction*. Texts of 1 and 9 and arguments of 5 against a preview of 2, a
  text limit of 6, a budget of 7, a recent tail of 9 with a floor of 2, and a
  window of 8 make each trim apply, not apply, and apply without effect, and the
  recent budget be halved twice with its rounding; five messages hold two turns
  with a tool call and its result between them, or four turns. The module asks
  for four messages, as the code does.
- *sessions*. Two tabs and one being closed show every interference of a save
  with a load; four commands suffice to resume, replace, compact and close. Tabs
  are interchangeable for TLC: only `Reload` picks one, among those whose session
  is not stored; whichever it picks comes back empty and the others of these are
  gone, so the results differ by a permutation of tabs.
- *structure*. Two agents let one build for the other; two model calls and two
  writes let a build begin before the first announcement and end after the
  second. The proof removes these bounds.
- *extensions*. Five calls on two extensions: three of them overlap on the same
  one, and the two extensions fight for one tool name; each may fail at each of
  its awaits.

### Assumptions of the passing runs

Where the code is known not to keep a property in some situation, the passing
run leaves that situation out by a constant with a name, and the README and the
hazard say so:

| Constant | What the passing run assumes | What TLC finds without it |
|---|---|---|
| `MaxReplaced = 0` in `ToolsQuiet` | no session is replaced during a restore | `LockNeverStuck` violated: the end of the restore finds no tab |
| `OpensTwice = FALSE` in `SessionTabs` | no session is opened that a tab can still save | `EveryTurnIsSaved` violated: of two copies of a session the later save wins |
| `Closers = {k1}` in `SessionTabs` | one tab at a time is being closed | with `Closers = {k1, k2}`: `EveryTurnIsSaved` violated by a tab that was closed under the dialog about it |

Elsewhere the situation is in the run, and the property says which actors it
makes an exception for. A ghost variable, which no guard reads, marks them:

| Property | Says nothing of | Without the exception |
|---|---|---|
| `SerializedMutation` | calls over the bridge; calls that had looked up their workbook and were not over when the document was renamed (`renamed`) | a bridge operation changes the document beside a write; a write queued under the old key and one under the new key execute together |
| `AskedInConfirmMode` | writes between the wrapper's look at the mode and their start when it was switched (`switched`) | a write queued in Auto mode starts after the switch to Confirm |
| `Kept`, `Acknowledged` | backups that a failing read or write, the list of another pane, or a call made while the log was being read has cost (`lost`) | the later of two panes takes the other's snapshot off the store; an append during the load is overwritten by what was read, or stores itself over it |
| `NoResurrection` | backups that another pane has written again (`revived`) | that pane had read them before they were removed |
| `ClearsOnlySaved` | changes made after the poll had read the flag (`late`) | the code clears with the others the backups of a change it has not seen |
| `ContextSeesAnnounced` | an overview that was being read, or handed to a model call and not yet injected, when a change was announced for its workbook (`racing`); sessions that were handed none (`known`) | `ContextSeesRacing`: a late build is cached as current, and a late injection notes the revision of after the announcement |
| `SettledAsListed` | extensions whose own calls overlapped, or whose save or teardown failed (`mixed`, `shaken`) | `OffIsUnloaded`, `UninstalledIsGone` |
| `AgentsRunCurrentTools` | a request in the gap of the coalescer (`missed`) | `NoRefreshIsLost` |

Except in the last two rows, where a second uninstall or a lost request clouds
all extensions, an exception is for the one call, backup or overview that was in
the window; of all others the property speaks, also while the window is open.

Other assumptions: no two hellos come in one millisecond (`findPane` would
take the older pane); event listeners do not throw; the settings store answers
in the order it was asked.

### Fairness

Fairness is assumed only for what the environment of the code guarantees.

- *CoordinatedTools*: bodies of writes end (each is an
  Office.js batch, which the host answers or rejects), promise continuations
  run, the user answers an approval request one way or the other. Nothing is
  assumed of new calls, aborts, tabs or modes.
- *BridgeServer*: the timer of a call fires if nothing else settles the call;
  a socket that is closing gets its close event. Nothing is assumed of panes:
  they may never answer, never say hello, never reconnect.
- *BridgeManager*: the settings store answers, the reconnect timer and the
  welcome timer fire, the watchdog finds a silent socket. For `SelfHeals` a
  server that is asked again and again must welcome sometimes (strong fairness
  of `Welcome` for the present client): without a server there is nothing to
  heal to.
- *ActionQueue*: the loop goes on from each of its awaits: runs of the agent
  end, commands and compactions return, timers fire. Nothing is assumed of the
  user. `QueueDrains` then says that what is queued is taken up.
- The other modules have no liveness property.

## What is proved

Every invariant and every action property that a run checks is also a theorem;
eight modules hold the proofs, 12 941 obligations in all. No theorem bounds
the number of calls, panes, sockets, tabs, messages, retries or edits: their
assumptions are those of the modules (`...Assumption`). Where the code does not
keep a property in some situation, the property itself names the exception (the
second [table above](#assumptions-of-the-passing-runs)), and the theorem has no
further hypothesis; only `LocksAreReleased` and `TurnsAreSaved` have one, with a
name that says what they leave out.

Two means recur. *Hypotheses on behaviours*, `ReplacedWhenQuiet` and `AskedIsOpen`,
say what the user does not do at a bad moment; beside each such theorem is
one that has no such hypothesis, for an instance in which it cannot happen.
*Induction over data* is not available in the prover, so what the recursive
functions of the models return (`Without`, `CommandsOf`, `Total`) is proved by a
least counterexample: a set of numbers that is not empty has a least member
(`LeastExists`, from the well-foundedness of the strict subsets of a finite
set), and for the least index that violates the claim the one before it does
not.

Each inductive invariant was checked by TLC, as an invariant of the run or of
further instances, before it was proved.

### CoordinatedToolsProofs

For every finite set of calls, every set of workbooks and tabs, all kinds and
sessions of calls, and all bounds on what the user does, from `OpsAssumption`,
`NoneAssumption` and `ToolsAssumption`. Of the coordinator:

| Theorem | Says |
|---|---|
| `TypeCorrect` | `Spec => []TypeOK` |
| `SerializedWrites` | `Spec => []OneWriteAtATime` |
| `NoStalledQueue` | `Spec => []WaitingBehindActive` |
| `DistinctRevisions` | `Spec => []RevisionsIdentifyWrites` |
| `RevisionIsCommitCount` | `Spec => []RevisionCountsCommits` |
| `CoordinatorImplementsSerialWrites` | `Spec => ImplementsSerialWrites`, the refinement |

`OneWriteAtATime` is not inductive: nothing in it says that a
started write was not running already. The inductive invariant `IInv` adds how
the parts of the record belong together:

- `QueueHoldsWaiting`: a queue holds waiting writes of its own workbook, each
  once;
- `ActiveIsStarted`: the active write of a workbook is one of its own, started;
- `ExecutingIsActive`: a write executes only as its workbook's active write,
  which gives `OneWriteAtATime` at once;
- `SubmittedHasBook` and `WaitingBehindActive`: a submitted write has a
  workbook, a waiting one is in its queue, behind an active one.

The two theorems on revisions extend `IInv`: only `Commit` changes what a
revision counts (`OnlyCommitCounts`), and the number of the committed writes
grows by exactly one with it. The refinement is proved per action: `RunWrite` is
`Join`, or `JoinAndFail` when the body throws at once; `Settle` is `Finish`;
`Release` is a stutter, or the `Finish` of a write whose body throws at once.

Of the pane:

| Theorem | Says | Hypothesis |
|---|---|---|
| `PaneUsesCoordinator` | `UsesCoordinator` | |
| `PaneSerializedWrites` | `[]OneWriteAtATime` | |
| `AbortedCallsDoNotStart` | `NoStartAfterAbort` | |
| `ObserverIsTold` | `[]ObserverHearsCommits` | |
| `MutationsAreSerialized` | `[]SerializedMutation` | |
| `WritesAreAllowed` | `AskedInConfirmMode` | |
| `LocksAreReleased` | `[]LockNeverStuck` | `ReplacedWhenQuiet` |
| `LocksAreReleasedWithoutRestores` | the same | no session is replaced, or nothing is restored |

The wrapper has to hand the coordinator a workbook and to know whether a body
throws at once; `CallsWellFormed` (signals are flags, the document has a key, a
call that is being decided has a target) is enough for that. With it, queueing
a call is `RunWrite` (`SubmitIsRunWrite`), a hand-over is `Release`
(`HandOverIsRelease`), and every step of the pane is a step of the coordinator
or leaves its variables alone (`StepRefines`). So each theorem about the
coordinator speaks of the whole pane.
`ObserverIsTold` needs beside it that only reads are in phase "reading" and
only bridge calls in phase "bridge" (`ObserverInv`), so that a write returns
through `Resume` alone, and that a committed write stays committed.

The last four are about what the code does not keep in general, and say how
narrow the gap is. A call reads the key of its workbook, and then waits for a
decision, the user or its turn. `Placed` says that every call on that way which
is not in `renamed` is decided or queued under the key the document has now;
with the coordinator's `OneWriteAtATime` this is `SerializedMutation`, with
renames and bridge calls at any moment. In the same way `AllowedWrites` says of
every write that is not in `switched` that, in Confirm mode, it was allowed if it
has passed the question. `ReplacedWhenQuiet` asks that no tab gets
another session while a restore of its checkpoints is in flight
(`AskersCurrent`: the events of a call in flight find the tab that made it); of
tool calls the code sees to that itself.

### BridgeProofs

For all sets of panes, calls, ops and hosts and every finite set of sockets, from
`BridgeAssumption` and, for the session, `SessionAssumption`.

| Theorem | Says |
|---|---|
| `CallsAreNotForgotten` | `Spec => []UnsettledIsPending` |
| `PiIsToldTheAnswer` | `Spec => []ResolvedAsAnswered` |
| `PanesAreListedOnce` | `Spec => []OnePanePerId` |
| `RecordsDieWithSockets` | `Spec => []NoDeadRecord` |
| `CallsRunOnce` | `Spec => StartsOnce` |
| `SessionUsesServer` | `SessionSpec => Spec` |
| `ShutdownLeavesNoCall` | `SessionSpec => []ShutdownSettles` |
| `TargetsMatchPrompts` | `SessionSpec => []NoStaleTarget` |

`ResolvedAsAnswered` needs to know where a call is. `Delivered` says that it is
in one place only: on the wire to the pane it was sent to, running there, or
answered; `Truthful`, that every answer on the wire is the one the executor gave.
Neither a reconnect (which makes a new socket with nothing on it) nor a late
answer (which finds nothing pending) disturbs them. `CallsRunOnce` follows from
`Delivered`: what a pane takes in runs nowhere and has not run. The records
(`Records`) need beside their types only that a socket with a record has said
hello; that the heartbeat skips records while it removes others does no harm,
since every removed one is closed.

A session's steps are steps of the server, so all of this holds in it. Its own
invariant follows the phases: `held` is the listening server once the start has
returned (`Phases`), and the number of reply targets is compared with the
number of the panes' prompts that wait or are worked on (`Working`), which needs
how a position moves when a queue is shifted or appended to (`PanePlaces`).

### RecoveryLogProofs

For all sets of panes, operations and old snapshots and every limit, from
`RecoveryAssumption` and `BoundaryAssumption`; calls may come before the log is
read, while it is being read, or after.

| Theorem | Says |
|---|---|
| `LogInvariant`, `KeptInvariant` | the inductive invariants |
| `ListsAreLimited` | `Spec => []RecoveryTypeOK` |
| `RemovedStaysRemoved` | `Spec => []NoResurrection` |
| `ReturnedIsStored` | `Spec => []Acknowledged` |
| `ReturnedIsListed` | `Spec => []Kept` |
| `MonitorUsesLog` | `BoundarySpec => Spec` |
| `PollsClearOnlySaved` | `BoundarySpec => ClearsOnlySaved` |

That a list has no snapshot twice needs that a snapshot is nowhere before its
operation puts it into a list (`Unknown`), and that an operation has at most one
request waiting (`Waiting`). For the others the order of the store's requests
matters (`KeptInv`). What an operation has taken out is in no list its pane can
still write: not in the one in memory, and not in a write behind its own
(`CutGone`, `WrittenGone`, `ErasedGone`). What was returned is in the store and in
every waiting write of its pane (`ReturnedStays`), and what was put in and not yet
returned, in every write from its own on (`PutStays`): a reload loses the requests
of the pane that were not served, which is why these speak of every write and not
of the last. A read in flight is what could break both, since it replaces the
list. `Loading` says that a pane reads once, before all its writes but those from
before a reload; and `Fresh`, that what calls have put into the list or taken out
of it during the read was not in the store, nor will be before the read is
served, so that what the read finds can neither bring a removed snapshot back nor
lose a returned one that is not counted as lost. Writes of other panes may do
both, and what they do is counted in `lost` and `revived`.

### SessionTabsProofs

For all sets of tabs, ids and calls and all limits, from `SessionAssumption`.

| Theorem | Says | Hypotheses |
|---|---|---|
| `TurnsStayInTheirSession` | `Spec => []NoTurnStrays` | none |
| `TurnsAreSaved` | `Spec => []EveryTurnIsSaved` | `~OpensTwice`; `[]AskedIsOpen` |
| `TurnsAreSavedClosingOne` | the same | `~OpensTwice`; `OneCloser` |

No turn strays, also where two tabs show one session: every place that holds
turns of a session (the store, a tab, a waiting save, a session being opened)
holds turns of its own (`Own`), a save carries the id of the moment it was asked
for, and an id that was just made is held nowhere.

That no turn is lost is a matter of order. Where no session is opened that a tab
can still save, the stored turns, those of the waiting saves and those in the tab
form a chain that only grows (`Above`, `Growing`), with at most one tab for a
session (`Apart`) or a load that nobody else writes under (`OpenedAlone`).

The proof found a hole that the run with one `Closers` does not reach. A tab may
be closed by a second call while the first one's "Stop and close?" dialog is
open; its session can then be opened in another tab and go on there; and "Stop
and close" (`closeRuntimeWithRecovery`, `taskpane/init.ts`), which does not look
again whether its tab is open, saves what the closed tab had over it. With
`Closers = {k1, k2}` TLC finds this in 15 states. `AskedIsOpen` excludes
exactly it: the tab that the user is asked about is open.

### BridgeManagerProofs

For every finite set of clients, any number of wake events and tries, from
`ManagerAssumption`.

| Theorem | Says |
|---|---|
| `ManagerTypes` | `Spec => []ManagerTypeOK` |
| `RetryIsNeverLost` | `Spec => []KeepsTrying` |
| `BadgeIsTruthful` | `Spec => []TruthfulBadge` |
| `RunsAsSaved` | `Spec => []RunsOnlyAsSaved` |
| `BackoffIsKept` | `Spec => BackoffKept` |

The difficulty is that `startBridge` waits for the URL and then sets `client`
whatever has become of its generation. The badge is still truthful, because the
store answers in order: the present client's URL is the last one asked for, so
once the present client has its URL, no older run of `startBridge` can put
another client in its place. `UrlsInOrder` states that of the pending requests,
`CurrentIsClient` what follows from it. `LiveIsShown` (a connected present
client is shown, or the setting could not be saved) makes a drop of it
schedule a retry, and `StableIsCurrent` that the stable timer which resets the
tries belongs to the connection that is up. If the
settings store answered out of order the argument would not hold; the list of
assumptions names this.

### StructureContextProofs

For every set of workbook keys, agents and writes and for all bounds, from
`StructureAssumption`: `OverviewIsCurrent`, `Spec => []ContextSeesAnnounced`.

The property speaks of what an agent injected last, and the way of an overview
is long: it is read by a build, cached, handed to a call, injected, and the
revision is noted at the end of that way and not at its start. An overview that
is being read, or was handed to a call and is not injected, when a change is
announced for its workbook is out of reach of the theorem, because the code
loses the announcement there (`ContextSeesRacing` does not hold); so is a session
that takes over a history in which another one's overview is. What is proved is
the rest, for every other overview, also while some are on their way: an
announcement before the reading, while the overview is cached, or after its
injection is never missed.

`StructureInv` says at each stage that the overview shows what was announced for
its key, unless it was on its way then (`CacheFresh`, `CallFresh`); that calls and
builds have numbers of their own, so that a build is handed to no call of another
key (`Numbered`); and that a noted revision is never ahead (`Noted`), which makes
a bump visible. One lemma per kind of step: `DocumentSteps`, `Announcement`,
`EndOfBuild`, `CallSteps`, `Identification`.

### QueueAndCompactionProofs

Of the queue, for all sets of prompts and commands and every number of retries,
from `QueueAssumption`:

| Theorem | Says |
|---|---|
| `QueueTypeCorrect` | `Spec => []QueueTypeOK` |
| `RecoveryIsBounded` | `Spec => []BoundedRecovery` |
| `OutcomesStay` | `Spec => []OutcomeStaysVisible` |
| `PromptsAreSentInTurn` | `Spec => SentInTurn` |

While a recovery compacts or sleeps nothing in the second and the third
says how many runs were made or where the error is. `QueueInv` adds
that each run after the first was paid for by a retry or a compaction (`Paid`),
and that a failure is held exactly while it is out of the transcript
(`HeldBack`). `RecoverInv` proves both of the decision, for any message and any
attempts made so far. The order of prompts has an invariant of its own,
`OrderInv`: the queue keeps the order of acceptance (`InOrder`), also when the
commands are picked out of it and queued again (`CommandsOfPicks`); what was
taken up was accepted before all that waits (`TakenInOrder`); and what was given
back to the editor is neither queued nor taken up (`ReturnedIsOut`).

Of a compaction, for transcripts of every length, and all budgets, limits and
sizes, from `CompactionAssumption`:

| Theorem | Says |
|---|---|
| `CommittedTranscriptsFit` | `CompactionSpec => []CommittedIsTurnSuffix` |
| `TurnsAreDroppedLast` | `CompactionSpec => []DropsOnlyToFit` |

`TrimsFrom(t, s, i)` says that `t` is the end of transcript `s` from the turn at
`i` on, message for message, none of them larger. The cut is at a turn
(`CutsAreTurns`), dropping turns moves `i` to a later one, and the other levels
keep it, in whatever combination the planner applies them (`PlansAreEnds`).
`PlansDropLate` follows a turn that the plan has dropped back through the levels:
what is left from it on was too large with one verbatim result and with short
arguments of calls. That the dropped turn may be the user's latest is the code's
behaviour (`LatestUserKept` below); the theorem says when it may happen.

### ExtensionRuntimesProofs

For all sets of extensions, tools and calls of the manager, from
`ExtensionAssumption`.

| Theorem | Says |
|---|---|
| `LoadsAreOwn` | `Spec => []LoadInv`: no call tears down or activates a load of another extension |
| `AgentsAreUpToDate` | `Spec => []AgentsRunCurrentTools` |
| `ExtensionsSettle` | `Spec => []SettledAsListed` |

The refresh needs nothing of the calls but `LoadInv`. `RefreshInv` says that a
tool that differs from what the agents have, or will have when the present pass
ends, is one for which another pass was asked, or of a load that will still ask
for one (`Announced`).

`ExtensionsSettle` has to survive calls that interleave on *other* extensions and
that fail anywhere. `StoryInv` gives, for an extension whose own calls came one
after the other and were not left half done, its whole state: at each place of
the one call that is under way (`Stage`), and between calls (`Rest`). A step of a
call on another extension leaves all of this alone (`Untouched`), except that an
uninstall removes the entry at the index that it found three awaits earlier, so
that `ListInv` has to say when that index is still right: unless two
uninstalls have overlapped, after which `mixed` holds every extension
(`OneRemoves`, `IndexIsRight`).

### Only model-checked

The liveness properties (`EveryCallReturns`, `CallSettles`, `SelfHeals`,
`QueueDrains`): the prover cannot treat `ENABLED`, which fairness is made of. The
statements of the next section, which the code does not keep.

## Where code and documents disagree

One disagreement is kept as a run (`manager_off`), because nothing but the run
shows it: **a bridge that was switched off connects**. `startBridge` does not
look at its generation after waiting for the URL: when it was disabled
meanwhile, the client it makes is never disconnected, while
`docs/local-development.md` says that toggling off disconnects immediately.

The modules state the others next to the properties that do hold, or the table
of assumptions above says how they come about. To see one, give the
configuration in the second column the property as its only one (INVARIANT, or
PROPERTY where marked *).

| Statement | Configuration | What the code does |
|---|---|---|
| `SerializedMutation`, `AskedInConfirmMode`* without their exceptions | `ToolsMoving` | the coordinator's header says "serialized workbook mutation"; the bridge's executors call the tools directly, and key and mode are read before the wait |
| `LockNeverStuck` | `ToolsQuiet`, `MaxReplaced = 1` | lock states follow session ids: after a replacement the tab stays locked |
| `NoCloseDuringWrite`* | `ToolsQuiet` | the lock is looked at before a dialog and a save, and the tab is closed after them |
| `OnlyAdvertised` | `PiSession` with an advertised list that holds no known op | a list of which the server knows nothing counts as none, and the v1 ops are allowed |
| `OnlyOwnDisconnect`* | `BridgePanes` | `detachPane` rejects every pending call, also those of other panes |
| `StoppedHasNoPanes` | `BridgePanes` | a hello that arrives after `stop()` attaches its pane again |
| `FinalReplyHasTarget` | `PiSession` | every assistant message takes a reply target, so a message that calls a tool takes that of the final reply |
| `Acknowledged`, `Kept` without their exceptions | `Recovery` | every pane stores its own list under the same key; calls do not wait for the list that another is loading |
| `ContextSeesRacing` | `Structure` | a late build is cached after the announcement; the revision is noted at the injection |
| `ContextSeesChanges` | `Structure` | restores and bridge operations announce nothing, and what `ContextSeesRacing` says |
| `ClosedTabIsQuiet`* | `ActionQueue` | the backoff gets no abort signal: a tab closed during it retries |
| `LatestUserKept` | `Compaction` | dropping turns to fit may drop the latest user message |
| `NothingOnlyIfFits` | `Compaction` | "nothing to compact" is reported over budget when all that was trimmed are call arguments |
| `SummaryStays`* | `Compaction` | a tail that was only trimmed is committed without the summary before it |
| `NoTurnVanishes` | `Compaction` | turns dropped from the tail, and those between the first and the second plan, are neither kept nor summarized |
| `EveryTurnIsSaved` | `SessionTabs`, `OpensTwice = TRUE` | a session open in two tabs |
| `EveryTurnIsSaved` | `SessionTabs` with `Closers = {k1, k2}` | a tab that was closed under the dialog about it writes over its session, see [SessionTabsProofs](#sessiontabsproofs) |
| `OffIsUnloaded` | `Extensions` | a disable that arrives during an activation finds nothing to tear down |
| `UninstalledIsGone` | `Extensions`, `Calls = {gone, gone2, install}` | `splice` with an index found before three awaits |
| `NoRefreshIsLost` | `Extensions` | a refresh requested between the last pass and the clearing of `inFlight` |

Seen while modelling, without a statement: a setting that cannot be saved leaves
the status `error` over a running bridge, after which a drop is not retried
(`KeepsTrying` and `SelfHeals` leave this state out); a bridge enabled at load
never binds the online and visibility listeners; a `connect()` that is
superseded is never settled, so the toggle that waits for it stays busy until
the page is opened again; a command that throws ends the queue's loop, and what
is queued behind it waits for the next submission (`QueueDrains` leaves this
state out).

## What is not modelled

- Data: contents of snapshots, results of tools, texts, formatting, prompts.
  The bodies of tools are one step that ends in success or failure.
- Time: delays are events that may come at any moment; the backoff is the
  number of tries.
- The order of tabs and which one is active; a session's title and usage totals.
- Token estimates and thresholds of the compaction, its archives, and
  `prepareNextTurn`, which may compact inside a run of the agent.
- Widgets, events, models and connections of extensions, and their sandbox: the
  manager tears these down beside tools and commands, in the same stretch.
- Pi's list of active tools, the status line and the tool activity of the panes.
- The session id a closing tab is reopened by is read when its save is served; the
  code reads it one await later.
- The components with status `not_modelled` in `PROJECT.json`, each with its
  reason. Most of the repository's lines are of this kind: rendering (`ui/`),
  catalogs and constant tables, Office.js batches, text for the model, network
  calls and scripts. They keep little state across an `await`, so the share of
  the source that the modules cover stays small; what they cover is the part in
  which order matters.

## Plan

Modelled: all parts of the table above. Proved: every invariant and every action
property that a run checks. What is left:

1. Sharper hypotheses. `TurnsAreSaved` asks that no session is open in two tabs,
   which excludes what the code is known not to keep, but more than that.
2. What the safety side of the liveness properties rests on, as theorems: that
   each pending call has a timer, each queued action a step of the loop that will
   reach it, each waiting call of the pane a body or a hand-over that will come
   (`NoStalledQueue` is the first of these).
3. Parts that could still be modelled: the connection store (a read-modify-write
   across awaits), tab order and layout, the extension sandbox's message protocol.

## Running the checks

```
tlc -workers 2 -config ToolsMoving.cfg MCCoordinatedTools.tla
tlapm CoordinatedToolsProofs.tla
```

and the same for the other pairs of module and configuration listed under
`runs` in `PROJECT.json`, and for the other modules whose names end in `Proofs`.
The longest runs, `tools_quiet`, `sessions` and `recovery`, take two to three
minutes with two workers; the longest proofs, those of CoordinatedTools, some
minutes.
