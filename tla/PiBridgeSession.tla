--------------------------- MODULE PiBridgeSession ---------------------------
(***************************************************************************)
(* packages/bridge-extension/src/index.ts: the extension that runs the     *)
(* bridge server for a Pi session, gives Pi the office tools, takes        *)
(* prompts from the panes to Pi and Pi's replies to the panes.             *)
(*                                                                         *)
(* Abstractions:                                                           *)
(*   - one Pi session, its turns one after the other; a prompt stands for  *)
(*     the place it came from, a pane or the terminal;                     *)
(*   - Pi itself is external: what it gets while it works waits, a turn    *)
(*     ends with an assistant message after any number of others that call *)
(*     tools, and the end of the session drops what waits;                 *)
(*   - a pane's prompt is under way for no time;                           *)
(*   - the tool list, the status line and tool activity are left out.      *)
(***************************************************************************)
EXTENDS BridgeServer

CONSTANTS
    Terminal,   \* the place of a prompt typed in Pi
    Nobody,     \* no turn
    MaxPrompts  \* bound: prompts of a session

ASSUME SessionAssumption ==
    /\ Terminal \notin Panes
    /\ Nobody \notin Panes \cup {Terminal}
    /\ MaxPrompts \in Nat

VARIABLES
    phase,    \* "before", "on" or "over"
    held,     \* the module's `server' is the bridge
    targets,  \* pendingReplyTargets
    waiting,  \* prompts that Pi has not begun
    turn,     \* where the prompt that Pi works on came from
    prompts   \* counts prompts

replyVars == <<targets, waiting, turn, prompts>>
sessionVars == <<vars, phase, held, replyVars>>

SessionInit ==
    /\ Init
    /\ phase = "before"
    /\ held = FALSE
    /\ targets = <<>> /\ waiting = <<>>
    /\ turn = Nobody
    /\ prompts = 0

Running == held /\ server = "listening"

-----------------------------------------------------------------------------
\* session_start, up to `await bridge.start()'.
SessionStart ==
    /\ phase = "before"
    /\ phase' = "on"
    /\ Start
    /\ UNCHANGED <<held, replyVars>>

\* The await ends.  The bridge becomes `server', also after a shutdown.
Started ==
    /\ Listening
    /\ held' = (server' = "listening")
    /\ UNCHANGED <<phase, replyVars>>

\* session_shutdown: a bridge that is still starting is not stopped.
SessionShutdown ==
    /\ phase = "on"
    /\ phase' = "over"
    /\ IF held THEN Stop ELSE UNCHANGED vars
    /\ held' = FALSE
    /\ targets' = <<>> /\ waiting' = <<>> /\ turn' = Nobody
    /\ UNCHANGED prompts

-----------------------------------------------------------------------------
\* A prompt for Pi (sendUserMessage with deliverAs "followUp", or typed).
Prompt(from) ==
    /\ prompts < MaxPrompts
    /\ prompts' = prompts + 1
    /\ waiting' = IF phase = "on" THEN Append(waiting, from) ELSE waiting
    /\ UNCHANGED <<phase, held, turn>>

\* A user_message frame, onUserMessage: also over the socket of a replaced
\* record, or one the server is closing.
UserMessage(c) ==
    /\ greeted[c] /\ conn[c] \in {"open", "closing"}
    /\ Prompt(PaneOf[c])
    /\ targets' = Append(targets, PaneOf[c])
    /\ UNCHANGED vars

TerminalPrompt ==
    /\ phase = "on"
    /\ Prompt(Terminal)
    /\ UNCHANGED <<targets, vars>>

TurnBegins ==
    /\ turn = Nobody /\ waiting # <<>>
    /\ turn' = Head(waiting)
    /\ waiting' = Tail(waiting)
    /\ UNCHANGED <<vars, phase, held, targets, prompts>>

\* Mutant of MessageEnd: a message without text takes no target.
MessageEnd_WithText(text) ==
    targets' = IF Running /\ text /\ targets # <<>> THEN Tail(targets) ELSE targets

\* message_end of an assistant message: it takes the first target, and if it
\* has text all attached panes are shown it.
MessageEnd(text) ==
    targets' = IF Running /\ targets # <<>> THEN Tail(targets) ELSE targets

\* An assistant message that calls tools ends; with or without text.
StepEnds ==
    /\ turn # Nobody
    /\ \E text \in BOOLEAN : MessageEnd(text)
    /\ UNCHANGED <<vars, phase, held, waiting, turn, prompts>>

\* The last message of a turn ends; a failed or aborted one has no text.
TurnEnds ==
    /\ turn # Nobody
    /\ \E text \in BOOLEAN : MessageEnd(text)
    /\ turn' = Nobody
    /\ UNCHANGED <<vars, phase, held, waiting, prompts>>

\* An office tool executes: it throws while the server does not run.
ToolExecutes(k) ==
    /\ turn # Nobody /\ Running
    /\ CallNoPane(k) \/ CallGated(k) \/ CallUnsent(k) \/ CallSent(k)
    /\ UNCHANGED <<phase, held, replyVars>>

\* What goes on in the server, its sockets and the panes.
BridgeStep ==
    /\ \/ Heartbeat
       \/ \E k \in Calls : GiveUp(k)
       \/ \E c \in Conns : SocketStep(c)
       \/ \E p \in Panes, k \in Calls : PaneAnswers(p, k)
    /\ UNCHANGED <<phase, held, replyVars>>

SessionNext ==
    \/ SessionStart \/ Started \/ SessionShutdown
    \/ \E c \in Conns : UserMessage(c)
    \/ TerminalPrompt \/ TurnBegins \/ StepEnds \/ TurnEnds
    \/ \E k \in Calls : ToolExecutes(k)
    \/ BridgeStep

SessionSpec == SessionInit /\ [][SessionNext]_sessionVars

-----------------------------------------------------------------------------
PanePrompts ==
    Cardinality({n \in DOMAIN waiting : waiting[n] \in Panes})
        + IF turn \in Panes THEN 1 ELSE 0

(***************************************************************************)
(* In a session there are never more panes to reply to than prompts of     *)
(* panes that Pi still has to answer, whatever messages with and without   *)
(* text a turn has and from wherever prompts come while it runs: nothing   *)
(* of a conversation typed in the terminal is shown in the panes when no   *)
(* pane waits for an answer (onUserMessage, message_end).                  *)
(***************************************************************************)
NoStaleTarget == phase = "on" => Len(targets) <= PanePrompts

(***************************************************************************)
(* When the session is over no tool of it waits for an answer, even if its *)
(* bridge listens only then or a pane says hello or answers after the stop *)
(* (session_shutdown).                                                     *)
(***************************************************************************)
ShutdownSettles ==
    phase = "over" => \A k \in Calls : sentTo[k] # NoConn => outcome[k] # "none"

(***************************************************************************)
(* "Forward the final assistant reply to the pane that prompted it"        *)
(* (message_end).  The code does not keep this: every assistant message    *)
(* takes a target, so the first message of a turn that calls a tool takes  *)
(* that of the final reply, and so does a turn of the terminal.            *)
(***************************************************************************)
FinalReplyHasTarget ==
    Running /\ turn \in Panes => targets # <<>> /\ Head(targets) = turn
=============================================================================
