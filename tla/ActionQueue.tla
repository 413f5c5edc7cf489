----------------------------- MODULE ActionQueue -----------------------------
(***************************************************************************)
(* taskpane/action-queue.ts: the ordered queue of what the user submits to *)
(* one tab, with the recovery loop that follows a failed run               *)
(* (compaction/run-recovery.ts).                                           *)
(*                                                                         *)
(* `step' is the await at which the loop of process() stands; "idle" means *)
(* that no loop runs (running = false).  Between two awaits the code runs  *)
(* without interruption, so one action is one continuation.                *)
(*                                                                         *)
(* Abstractions:                                                           *)
(*   - an action is a model value, submitted once; the texts are left out; *)
(*   - of the transcript only the last message is kept: what the next      *)
(*     request answers ("request"), an answer, or the failure that         *)
(*     failure-classification.ts sees in it ("recoverable-length" is       *)
(*     handled as "overflow" is);                                          *)
(*   - the agent (prompt, continue, abort, waitForIdle) is external: a run *)
(*     ends with any of these messages; one that was aborted ends aborted, *)
(*     unless it was already complete;                                     *)
(*   - token estimates are left out: a guard may or may not compact, and a *)
(*     compaction may or may not free room.                                *)
(***************************************************************************)
EXTENDS Naturals, Sequences, SequencesExt

CONSTANTS
    Prompts,
    Commands,
    AutoCompact,  \* autoCompactEnabled: also whether runs are recovered
    MaxRetries    \* RetryPolicy.maxRetries; 0 when retries are disabled

None == "none"

ASSUME QueueAssumption ==
    /\ Prompts \cap Commands = {}
    /\ AutoCompact \in BOOLEAN
    /\ MaxRetries \in Nat
    /\ None \notin Prompts \cup Commands

VARIABLES
    accepted,   \* what was submitted, in order
    queue,      \* `actions'
    step,       \* the await of process() and of recoverAfterRun
    closed,     \* the flag set by shutdown()
    current,    \* the action taken off the queue last
    mustCompact,\* `pendingCompact'
    tail,       \* the last message of the transcript
    held,       \* the failed message that the recovery has dropped
    retries,    \* `retryAttempts'
    compactions,\* `overflowAttempts'
    aborting,   \* agent.abort() was called in this run
    sent,       \* prompts given to the agent
    returned,   \* prompts put back into the editor
    requests    \* runs of the agent for `current'

queueVars == <<accepted, queue, step, closed, current, mustCompact>>
runVars == <<tail, held, retries, compactions, aborting>>
ghosts == <<sent, returned, requests>>
vars == <<queueVars, runVars, ghosts>>

Actions == Prompts \cup Commands
Failures == {"overflow", "transient", "fatal"}
Answers == {"answer", "full"}  \* "full": accepted, with the window all but used up
Streaming == step \in {"prompted", "continued"}

Init ==
    /\ accepted = <<>> /\ queue = <<>>
    /\ step = "idle" /\ closed = FALSE
    /\ current = None /\ mustCompact = FALSE
    /\ tail = "answer" /\ held = None
    /\ retries = 0 /\ compactions = 0 /\ aborting = FALSE
    /\ sent = {} /\ returned = {} /\ requests = 0

\* Mutant of LoopOn: the loop is left after every action.
LoopOn_Leaves(q) == "idle"

\* The loop of process(): on to the next action, or out.
LoopOn(q) == IF ~closed /\ q # <<>> THEN "waiting" ELSE "idle"

-----------------------------------------------------------------------------
\* enqueuePrompt and enqueueCommand; process() starts unless it runs.
Enqueue(a) ==
    /\ ~closed
    /\ a \notin ToSet(accepted)
    /\ accepted' = Append(accepted, a)
    /\ queue' = Append(queue, a)
    /\ step' = IF step = "idle" THEN "waiting" ELSE step
    /\ UNCHANGED <<closed, current, mustCompact, runVars, ghosts>>

\* Mutant of TakeNext: the newest action first.
TakeNext_Newest ==
    /\ step = "waiting"
    /\ IF closed \/ queue = <<>>
       THEN /\ step' = "idle"
            /\ UNCHANGED <<queue, current>>
       ELSE /\ current' = Last(queue)
            /\ queue' = Front(queue)
            /\ step' = IF Last(queue) \in Commands THEN "command" ELSE "guarding"
    /\ UNCHANGED <<accepted, closed, mustCompact, runVars, ghosts>>

\* The agent is idle: the next action, if the queue was not drained or closed
\* by now.
TakeNext ==
    /\ step = "waiting"
    /\ IF closed \/ queue = <<>>
       THEN /\ step' = "idle"
            /\ UNCHANGED <<queue, current>>
       ELSE /\ current' = Head(queue)
            /\ queue' = Tail(queue)
            /\ step' = IF Head(queue) \in Commands THEN "command" ELSE "guarding"
    /\ UNCHANGED <<accepted, closed, mustCompact, runVars, ghosts>>

\* runCommand has returned.  One that throws, or is not registered, ends the
\* loop: what is queued behind it stays there.
CommandEnds ==
    /\ step = "command"
    /\ step' \in {LoopOn(queue), "idle"}
    /\ UNCHANGED <<accepted, queue, closed, current, mustCompact, runVars, ghosts>>

\* maybeAutoCompactBeforePrompt has returned, having compacted or not; its
\* result is not looked at.  Then agent.prompt.
GuardEnds ==
    /\ step = "guarding"
    /\ mustCompact' = FALSE
    /\ IF closed
       THEN /\ step' = "idle"
            /\ UNCHANGED <<tail, aborting, sent, requests>>
       ELSE /\ step' = "prompted"
            /\ tail' = "request"
            /\ aborting' = FALSE
            /\ sent' = sent \cup {current}
            /\ requests' = 1
    /\ UNCHANGED <<accepted, queue, closed, current, held, retries, compactions, returned>>

-----------------------------------------------------------------------------
\* agent.continue(): another run for the same prompt.
Continue ==
    /\ step' = "continued"
    /\ aborting' = FALSE
    /\ requests' = requests + 1

\* Mutant of Exhausted: the budget of retries is not looked at.
Exhausted_Never(m, r, c) == m = "fatal" \/ (m = "overflow" /\ c >= 1)

\* The failure m is not recovered after r retries and c compactions.
Exhausted(m, r, c) ==
    \/ m = "fatal"
    \/ (m = "overflow" /\ c >= 1)
    \/ (m = "transient" /\ r >= MaxRetries)

\* recoverAfterRun classifies the last message m, with the attempts made so
\* far, up to its next await: a failure it recovers is dropped, the transcript
\* compacted or the backoff slept; else the loop of process() goes on.
Recover(m, r, c) ==
    IF m \in Failures /\ ~Exhausted(m, r, c)
    THEN /\ tail' = "request"
         /\ held' = m
         /\ step' = IF m = "overflow" THEN "compacting" ELSE "backoff"
         /\ retries' = IF m = "transient" THEN r + 1 ELSE r
         /\ compactions' = IF m = "overflow" THEN c + 1 ELSE c
         /\ UNCHANGED mustCompact
    ELSE /\ tail' = m
         /\ held' = None
         /\ step' = LoopOn(queue)
         /\ mustCompact' = (mustCompact \/ m = "full")
         /\ retries' = r /\ compactions' = c

\* Mutant of RunEnds: every run has budgets of its own.
RunEnds_FreshBudgets ==
    /\ Streaming
    /\ \E m \in IF aborting THEN {"aborted"} \cup Answers ELSE Failures \cup Answers :
          IF step = "continued" \/ (AutoCompact /\ ~closed) THEN Recover(m, 0, 0)
          ELSE /\ tail' = m
               /\ step' = LoopOn(queue)
               /\ UNCHANGED <<held, retries, compactions, mustCompact>>
    /\ UNCHANGED <<accepted, queue, closed, current, aborting, ghosts>>

\* A run of the agent ends with the message m.
RunEnds ==
    /\ Streaming
    /\ \E m \in IF aborting THEN {"aborted"} \cup Answers ELSE Failures \cup Answers :
          IF step = "continued" THEN Recover(m, retries, compactions)
          ELSE IF AutoCompact /\ ~closed THEN Recover(m, 0, 0)
          ELSE /\ tail' = m
               /\ step' = LoopOn(queue)
               /\ UNCHANGED <<held, retries, compactions, mustCompact>>
    /\ UNCHANGED <<accepted, queue, closed, current, aborting, ghosts>>

\* Mutant of CompactionEnds: the failure is not put back.
CompactionEnds_Forgets ==
    /\ step = "compacting"
    /\ held' = None
    /\ \/ Continue /\ UNCHANGED tail
       \/ /\ step' = LoopOn(queue)
          /\ UNCHANGED <<tail, aborting, requests>>
    /\ UNCHANGED <<accepted, queue, closed, current, mustCompact, retries,
                   compactions, sent, returned>>

\* The compaction after an overflow: the run goes on if it freed room,
\* otherwise the failure is put back.
CompactionEnds ==
    /\ step = "compacting"
    /\ held' = None
    /\ \/ Continue /\ UNCHANGED tail
       \/ /\ tail' = held
          /\ step' = LoopOn(queue)
          /\ UNCHANGED <<aborting, requests>>
    /\ UNCHANGED <<accepted, queue, closed, current, mustCompact, retries,
                   compactions, sent, returned>>

\* The backoff is over.  It gets no abort signal from action-queue.ts, and
\* neither agent.abort() nor shutdown() ends it.
BackoffEnds ==
    /\ step = "backoff"
    /\ held' = None
    /\ Continue
    /\ UNCHANGED <<accepted, queue, closed, current, mustCompact, tail, retries,
                   compactions, sent, returned>>

-----------------------------------------------------------------------------
\* Esc while the agent streams: all that is queued is drained, the prompts
\* into the editor, the commands are dropped; then agent.abort().
Escape ==
    /\ Streaming /\ ~closed
    /\ queue' = <<>>
    /\ returned' = returned \cup (ToSet(queue) \cap Prompts)
    /\ aborting' = TRUE
    /\ UNCHANGED <<accepted, step, closed, current, mustCompact, tail, held,
                   retries, compactions, sent, requests>>

\* The stop button: agent.abort() alone.
Stop ==
    /\ Streaming /\ ~closed
    /\ aborting' = TRUE
    /\ UNCHANGED <<queueVars, tail, held, retries, compactions, ghosts>>

\* The commands among the queued actions, in their order.
CommandsOf(q) ==
    LET kept[n \in 0..Len(q)] ==
            IF n = 0 THEN <<>>
            ELSE IF q[n] \in Commands THEN Append(kept[n - 1], q[n]) ELSE kept[n - 1]
    IN  kept[Len(q)]

\* The shortcut that takes queued messages back into the editor: commands are
\* queued again, which starts process() if it does not run.
Restore ==
    /\ ~closed /\ queue # <<>>
    /\ queue' = CommandsOf(queue)
    /\ returned' = returned \cup (ToSet(queue) \cap Prompts)
    /\ step' = IF step = "idle" /\ CommandsOf(queue) # <<>> THEN "waiting" ELSE step
    /\ UNCHANGED <<accepted, closed, current, mustCompact, runVars, sent, requests>>

\* Closing the tab: shutdown(), agent.abort().
Shutdown ==
    /\ ~closed
    /\ closed' = TRUE
    /\ queue' = <<>>
    /\ aborting' = (aborting \/ Streaming)
    /\ UNCHANGED <<accepted, step, current, mustCompact, tail, held, retries,
                   compactions, ghosts>>

LoopStep == \/ TakeNext \/ CommandEnds \/ GuardEnds \/ RunEnds
            \/ CompactionEnds \/ BackoffEnds

Next ==
    \/ \E a \in Actions : Enqueue(a)
    \/ LoopStep
    \/ Escape \/ Stop \/ Restore \/ Shutdown

\* The loop's awaits end: the agent answers, fails or is aborted, commands and
\* compactions return, timers fire.
Spec == Init /\ [][Next]_vars /\ WF_vars(LoopStep)

-----------------------------------------------------------------------------
\* The values the variables take.
QueueTypeOK ==
    /\ accepted \in Seq(Actions) /\ queue \in Seq(Actions)
    /\ step \in {"idle", "waiting", "command", "guarding", "prompted",
                 "compacting", "backoff", "continued"}
    /\ closed \in BOOLEAN /\ mustCompact \in BOOLEAN /\ aborting \in BOOLEAN
    /\ current \in Actions \cup {None}
    /\ tail \in {"request", "aborted"} \cup Failures \cup Answers
    /\ held \in Failures \cup {None}
    /\ retries \in 0..MaxRetries /\ compactions \in 0..1
    /\ sent \subseteq Prompts /\ returned \subseteq Prompts
    /\ requests \in Nat

Position(a) == CHOOSE i \in DOMAIN accepted : accepted[i] = a

(***************************************************************************)
(* Prompts are given to the agent one at a time, in the order they were    *)
(* submitted, while it is idle and its tab open; one that was taken back   *)
(* into the editor is not sent as well (action-queue.ts: "Never start      *)
(* queued actions while the agent is still streaming", the tests           *)
(* "drainQueuedActions clears pending prompts and commands in FIFO order"  *)
(* and "ordered queue runs compact, prompt, then compact").                *)
(***************************************************************************)
SentInTurn ==
    [][\A p \in sent' \ sent :
          /\ ~closed /\ ~Streaming /\ held = None
          /\ p \notin returned
          /\ \A q \in sent : Position(q) < Position(p)]_vars

(***************************************************************************)
(* A prompt's outcome stays in the transcript: whenever the loop does not  *)
(* work on a prompt, the last message is an answer, an abort or the error, *)
(* also when a recovery has dropped the error on its way (run-recovery.ts: *)
(* "error stays in transcript", "restore the failure so it stays           *)
(* visible").                                                              *)
(***************************************************************************)
OutcomeStaysVisible ==
    step \in {"idle", "waiting", "command", "guarding"} => tail # "request" /\ held = None

(***************************************************************************)
(* However failures alternate, one prompt costs at most one run, one after *)
(* a compaction and MaxRetries after a backoff; the next prompt has the    *)
(* budgets anew ("Never loops forever - budgets are bounded").             *)
(***************************************************************************)
BoundedRecovery ==
    /\ requests <= 2 + MaxRetries
    /\ step = "prompted" => requests = 1

(***************************************************************************)
(* What was queued does not stay queued: it is taken up, taken back or     *)
(* dropped with the tab, unless a command failed and ended the loop.       *)
(***************************************************************************)
QueueDrains ==
    \A a \in Actions :
        a \in ToSet(queue) ~>
            (a \notin ToSet(queue) \/ (step = "idle" /\ current \in Commands))

(***************************************************************************)
(* "Aborts are terminal and never retried" (run-recovery.ts:12).  The code *)
(* does not keep this for a tab that is closed between two runs of a       *)
(* prompt: agent.abort() finds nothing to abort, and the retry follows.    *)
(***************************************************************************)
ClosedTabIsQuiet == [][closed => requests' = requests]_vars
=============================================================================
