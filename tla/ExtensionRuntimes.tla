-------------------------- MODULE ExtensionRuntimes --------------------------
(***************************************************************************)
(* packages/add-in/src/extensions/runtime-manager.ts: the manager that     *)
(* loads extensions, and the refresh (taskpane/init.ts with the coalescer  *)
(* of taskpane/runtime-utils.ts) that gives their tools to the agents.     *)
(*                                                                         *)
(* The calls of the manager come from the settings page, whose controls do *)
(* not wait for each other, from the agents' tool extensions_manager and   *)
(* from the start of the pane.  Nothing serializes them.                   *)
(*                                                                         *)
(* Abstractions:                                                           *)
(*   - a call is made once; the load it may make (LoadedExtensionState) is *)
(*     named after it;                                                     *)
(*   - an extension registers one tool, always under the same name, which  *)
(*     two extensions may share, and some register a command; its other    *)
(*     contributions (widgets, events, models, connections) and changes of *)
(*     its tools after activation are left out;                            *)
(*   - one agent stands for all of them; a refresh pass does not fail      *)
(*     (runCapabilityRefreshPass catches what a tab's refresh throws).     *)
(***************************************************************************)
EXTENDS Naturals, Sequences, SequencesExt, FiniteSets

CONSTANTS
    Exts,       \* extensions
    Tools,      \* tool names
    ToolOf,     \* the name under which an extension registers its tool
    Commanders, \* the extensions that register a command too
    Stored,     \* the extensions of the stored list, in its order
    OnAtStart,  \* those that are enabled in it
    Calls,      \* calls of the manager, each made once
    KindOf, ExtOf,
    None        \* no load

Kinds == {"boot", "install", "enable", "disable", "permit", "reload", "uninstall"}

ASSUME ExtensionAssumption ==
    /\ ToolOf \in [Exts -> Tools]
    /\ Commanders \subseteq Exts
    /\ Stored \in Seq(Exts) /\ IsInjective(Stored)
    /\ OnAtStart \subseteq ToSet(Stored)
    /\ KindOf \in [Calls -> Kinds]
    /\ ExtOf \in [Calls -> Exts]
    /\ \A c \in Calls : KindOf[c] = "install" =>
          /\ ExtOf[c] \notin ToSet(Stored)
          /\ \A d \in Calls \ {c} : KindOf[d] = "install" => ExtOf[d] # ExtOf[c]
    /\ \A e \in OnAtStart : \E c \in Calls : KindOf[c] = "boot" /\ ExtOf[c] = e
    /\ None \notin Calls \cup Exts

VARIABLES
    list,       \* `entries', by id
    enabled,    \* enabled[e], the flag of e's entry
    failed,     \* failed[e]: lastErrors has a message for e
    active,     \* active[e]: the load of e in activeStates, or None
    owner,      \* owner[n]: who owns the tool name n
    tool,       \* tool[n]: the load whose tool is registered as n
    command,    \* command[e]: e's command is registered
    names,      \* names[l]: the tool names of load l (state.toolNames)
    commands,   \* loads that hold their command (state.commandNames)
    pc,         \* pc[c]: how far call c is
    victim,     \* victim[c]: the load that c is tearing down
    broke,      \* broke[c]: that teardown has failed
    second,     \* second[c]: a reload has torn down once
    index,      \* index[c]: where an uninstall has found its entry
    refresh,    \* "no", or where the refresh in flight is
    rerun,      \* rerunRequested
    snapshot,   \* what the present pass has read
    offered,    \* the tools the agents have
    mixed,      \* extensions of which calls have overlapped
    shaken,     \* extensions with a failed save or a teardown that threw
    missed      \* a refresh was asked for when the last pass was over

registry == <<list, enabled, failed>>
tools == <<owner, tool, command, names, commands>>
steps == <<victim, broke, second, index>>
refreshing == <<refresh, rerun, snapshot, offered, missed>>
ghosts == <<mixed, shaken>>
vars == <<registry, active, tools, pc, steps, refreshing, ghosts>>

Init ==
    /\ list = Stored
    /\ enabled = [e \in Exts |-> e \in OnAtStart]
    /\ failed = [e \in Exts |-> FALSE]
    /\ active = [e \in Exts |-> None]
    /\ owner = [n \in Tools |-> None]
    /\ tool = [n \in Tools |-> None]
    /\ command = [e \in Exts |-> FALSE]
    /\ names = [c \in Calls |-> {}]
    /\ commands = {}
    /\ pc = [c \in Calls |-> "idle"]
    /\ victim = [c \in Calls |-> None]
    /\ broke = [c \in Calls |-> FALSE]
    /\ second = [c \in Calls |-> FALSE]
    /\ index = [c \in Calls |-> 0]
    /\ refresh = "no" /\ rerun = FALSE
    /\ snapshot = tool
    /\ offered = tool
    /\ mixed = {} /\ shaken = {} /\ missed = FALSE

UnderWay(c) == pc[c] \notin {"idle", "done"}
Listed(e) == e \in ToSet(list)

-----------------------------------------------------------------------------
\* A call of createAsyncCoalescer's function.
AskRefresh ==
    /\ IF refresh = "no"
       THEN refresh' = "reading" /\ rerun' = FALSE /\ missed' = FALSE
       ELSE refresh' = refresh /\ rerun' = TRUE /\ missed' = (refresh = "over")
    /\ UNCHANGED <<snapshot, offered>>

\* buildRuntimeCapabilities reads the tools, and their revision with them.
PassReads ==
    /\ refresh = "reading"
    /\ snapshot' = tool
    /\ refresh' = "applying"
    /\ UNCHANGED <<registry, active, tools, pc, steps, rerun, offered, missed, ghosts>>

\* shouldApplyRuntimeToolUpdate: the fingerprint or the revision has changed,
\* which is bumped whenever a tool is registered or removed.
Differs(s) == s # offered

\* Mutant of PassApplies: what was asked for during the pass is forgotten.
PassApplies_NoRerun ==
    /\ refresh = "applying"
    /\ offered' = IF Differs(snapshot) THEN snapshot ELSE offered
    /\ refresh' = "over"
    /\ rerun' = FALSE
    /\ snapshot' = offered'
    /\ UNCHANGED <<registry, active, tools, pc, steps, missed, ghosts>>

\* refreshRuntimeCapabilities assigns the tools; the loop of the coalescer
\* goes round or ends.
PassApplies ==
    /\ refresh = "applying"
    /\ offered' = IF Differs(snapshot) THEN snapshot ELSE offered
    /\ refresh' = IF rerun THEN "reading" ELSE "over"
    /\ rerun' = FALSE
    /\ snapshot' = offered'
    /\ UNCHANGED <<registry, active, tools, pc, steps, missed, ghosts>>

\* The coalescer's caller sees the end and clears inFlight; who waits goes on.
RefreshEnds ==
    /\ refresh = "over"
    /\ refresh' = "no"
    /\ pc' = [c \in Calls |->
                IF pc[c] = "refreshing down" THEN "torn"
                ELSE IF pc[c] = "refreshing up" THEN "up"
                ELSE IF pc[c] = "refreshing failed" THEN "failed"
                ELSE pc[c]]
    /\ UNCHANGED <<registry, active, tools, steps, rerun, snapshot, offered, missed, ghosts>>

-----------------------------------------------------------------------------
\* deactivateEntry, up to its first wait.
GoDown(c) ==
    LET e == ExtOf[c]
    IN  /\ active' = [active EXCEPT ![e] = None]
        /\ victim' = [victim EXCEPT ![c] = active[e]]
        /\ pc' = [pc EXCEPT ![c] = IF active[e] = None THEN "torn" ELSE "clearing"]

Goto(c, p) == pc' = [pc EXCEPT ![c] = p] /\ UNCHANGED <<active, victim>>

\* A call on e begins among others: on e, or, for uninstall, another uninstall
\* of any extension, for both hold on to an index.
Overlaps(c) ==
    LET e == ExtOf[c]
        removing == KindOf[c] = "uninstall" /\ \E d \in Calls :
                        UnderWay(d) /\ KindOf[d] = "uninstall"
        meeting == \E d \in Calls : UnderWay(d) /\ ExtOf[d] = e
    IN  mixed' = IF removing THEN Exts
                 ELSE IF meeting THEN mixed \cup {e} ELSE mixed

\* installEntry: a new entry, enabled.
Install(c) ==
    /\ KindOf[c] = "install"
    /\ list' = Append(list, ExtOf[c])
    /\ enabled' = [enabled EXCEPT ![ExtOf[c]] = TRUE]
    /\ Goto(c, "saving")
    /\ UNCHANGED index

\* setExtensionEnabled
SetEnabled(c) ==
    LET e == ExtOf[c]
        want == KindOf[c] = "enable"
    IN  /\ KindOf[c] \in {"enable", "disable"}
        /\ IF Listed(e) /\ enabled[e] # want
           THEN enabled' = [enabled EXCEPT ![e] = want] /\ Goto(c, "saving")
           ELSE Goto(c, "done") /\ UNCHANGED enabled
        /\ UNCHANGED <<list, index>>

\* setExtensionCapability, with another value.
Permit(c) ==
    /\ KindOf[c] = "permit"
    /\ Goto(c, IF Listed(ExtOf[c]) THEN "saving" ELSE "done")
    /\ UNCHANGED <<list, enabled, index>>

\* reloadExtension; initialize, which comes to one enabled entry at a time.
Reload(c) ==
    /\ KindOf[c] \in {"reload", "boot"}
    /\ KindOf[c] = "boot" => ~\E d \in Calls : KindOf[d] = "boot" /\ UnderWay(d)
    /\ IF Listed(ExtOf[c]) /\ (KindOf[c] = "boot" => enabled[ExtOf[c]])
       THEN GoDown(c) ELSE Goto(c, "done")
    /\ UNCHANGED <<list, enabled, index>>

\* uninstallExtension
Uninstall(c) ==
    /\ KindOf[c] = "uninstall"
    /\ IF Listed(ExtOf[c])
       THEN /\ index' = [index EXCEPT ![c] = CHOOSE i \in DOMAIN list : list[i] = ExtOf[c]]
            /\ GoDown(c)
       ELSE Goto(c, "done") /\ UNCHANGED index
    /\ UNCHANGED <<list, enabled>>

Begin(c) ==
    /\ pc[c] = "idle"
    /\ \/ Install(c) \/ SetEnabled(c) \/ Permit(c) \/ Reload(c) \/ Uninstall(c)
    /\ Overlaps(c)
    /\ UNCHANGED <<failed, tools, broke, second, refreshing, shaken>>

\* persistEntries has saved the list.
Saved(c) ==
    /\ pc[c] = "saving"
    /\ IF \/ KindOf[c] = "uninstall"
          \/ KindOf[c] = "permit" /\ ~(enabled[ExtOf[c]] /\ Listed(ExtOf[c]))
       THEN Goto(c, "done") ELSE GoDown(c)
    /\ UNCHANGED <<registry, tools, broke, second, index, refreshing, ghosts>>

\* What the call has set stays in memory, and nothing follows it.
SaveFails(c) ==
    /\ pc[c] = "saving"
    /\ Goto(c, "done")
    /\ shaken' = shaken \cup {ExtOf[c]}
    /\ UNCHANGED <<registry, tools, broke, second, index, refreshing, mixed>>

-----------------------------------------------------------------------------
\* The synchronous part of cleanupState for load l of e: its command and its
\* tools, as far as e owns them.  Then the refresh, if a tool has gone.
CleanUp(c, l, refreshes, over) ==
    LET e == ExtOf[c]
        removed == {n \in names[l] : owner[n] = e}
    IN  /\ command' = [command EXCEPT ![e] = command[e] /\ l \notin commands]
        /\ commands' = commands \ {l}
        /\ owner' = [n \in Tools |-> IF n \in removed THEN None ELSE owner[n]]
        /\ tool' = [n \in Tools |-> IF n \in removed THEN None ELSE tool[n]]
        /\ names' = [names EXCEPT ![l] = {}]
        /\ IF removed = {}
           THEN pc' = [pc EXCEPT ![c] = over] /\ UNCHANGED refreshing
           ELSE pc' = [pc EXCEPT ![c] = refreshes] /\ AskRefresh

\* The extension's own deactivate() has ended, well or not; the rest of
\* cleanupState follows in either case.
Cleared(c) ==
    /\ pc[c] = "clearing"
    /\ \E failure \in BOOLEAN : broke' = [broke EXCEPT ![c] = failure]
    /\ CleanUp(c, victim[c], "refreshing down", "torn")
    /\ victim' = [victim EXCEPT ![c] = None]
    /\ UNCHANGED <<registry, active, second, index, ghosts>>

\* The part that waited for deactivateEntry, when it has thrown: inside
\* tryActivateEntry the message is kept, elsewhere the call rejects.
TeardownThrew(c) ==
    /\ pc[c] = "torn" /\ broke[c]
    /\ Goto(c, "done")
    /\ IF KindOf[c] \in {"boot", "install", "enable"} \/ second[c]
       THEN failed' = [failed EXCEPT ![ExtOf[c]] = TRUE] /\ UNCHANGED shaken
       ELSE shaken' = shaken \cup {ExtOf[c]} /\ UNCHANGED failed
    /\ broke' = [broke EXCEPT ![c] = FALSE]
    /\ UNCHANGED <<list, enabled, tools, second, index, refreshing, mixed>>

\* ... and when it has returned: a reload of an enabled entry deactivates once
\* more, in activateEntry.
Torn(c) ==
    LET once == KindOf[c] \in {"reload", "permit"} /\ ~second[c]
    IN  /\ pc[c] = "torn" /\ ~broke[c]
        /\ \/ /\ KindOf[c] = "disable" \/ (once /\ ~enabled[ExtOf[c]])
              /\ Goto(c, "done") /\ UNCHANGED second
           \/ /\ KindOf[c] = "uninstall"
              /\ Goto(c, "erasing") /\ UNCHANGED second
           \/ /\ once /\ enabled[ExtOf[c]]
              /\ GoDown(c) /\ second' = [second EXCEPT ![c] = TRUE]
           \/ /\ KindOf[c] \notin {"disable", "uninstall"} /\ ~once
              /\ Goto(c, "loading") /\ UNCHANGED second
        /\ UNCHANGED <<registry, tools, broke, index, refreshing, ghosts>>

-----------------------------------------------------------------------------
\* The activator registers its command and its tool; a conflict makes it
\* throw.  registerTool lets an extension replace its own tool.
Register(c) ==
    LET e == ExtOf[c]
        n == ToolOf[e]
        clash == e \in Commanders /\ command[e]
        taken == owner[n] \notin {None, e}
    IN  /\ pc[c] = "loading"
        /\ commands' = IF e \in Commanders /\ ~clash THEN commands \cup {c} ELSE commands
        /\ command' = [command EXCEPT ![e] = command[e] \/ e \in Commanders]
        /\ IF clash \/ taken
           THEN /\ pc' = [pc EXCEPT ![c] = "failing"]
                /\ UNCHANGED <<owner, tool, names>>
           ELSE /\ pc' = [pc EXCEPT ![c] = "registered"]
                /\ owner' = [owner EXCEPT ![n] = e]
                /\ tool' = [tool EXCEPT ![n] = c]
                /\ names' = [names EXCEPT ![c] = {n}]
        /\ UNCHANGED <<registry, active, steps, refreshing, ghosts>>

\* The source cannot be loaded, the activator throws, or a check of what it
\* registered fails.
LoadFails(c) ==
    /\ pc[c] \in {"loading", "registered"}
    /\ pc' = [pc EXCEPT ![c] = "failing"]
    /\ UNCHANGED <<registry, active, tools, steps, refreshing, ghosts>>

\* Mutant of CleanFailure: what a failed activation has registered stays.
CleanFailure_Keeps(c) ==
    /\ pc[c] = "failing"
    /\ pc' = [pc EXCEPT ![c] = "failed"]
    /\ UNCHANGED <<registry, active, tools, steps, refreshing, ghosts>>

CleanFailure(c) ==
    /\ pc[c] = "failing"
    /\ CleanUp(c, c, "refreshing failed", "failed")
    /\ UNCHANGED <<registry, active, steps, ghosts>>

\* activateEntry: the load is complete and becomes the active one.
Activate(c) ==
    /\ pc[c] = "registered"
    /\ active' = [active EXCEPT ![ExtOf[c]] = c]
    /\ pc' = [pc EXCEPT ![c] = "refreshing up"]
    /\ AskRefresh
    /\ UNCHANGED <<registry, tools, steps, ghosts>>

\* The end of tryActivateEntry.
Tried(c) ==
    /\ pc[c] \in {"up", "failed"}
    /\ failed' = [failed EXCEPT ![ExtOf[c]] = (pc[c] = "failed")]
    /\ pc' = [pc EXCEPT ![c] = "done"]
    /\ UNCHANGED <<list, enabled, active, tools, steps, refreshing, ghosts>>

\* uninstallExtension, when the extension's storage is cleared: splice at the
\* index found before.
Erased(c) ==
    /\ pc[c] = "erasing"
    /\ list' = IF index[c] \in DOMAIN list THEN RemoveAt(list, index[c]) ELSE list
    /\ failed' = [failed EXCEPT ![ExtOf[c]] = FALSE]
    /\ pc' = [pc EXCEPT ![c] = "saving"]
    /\ UNCHANGED <<enabled, active, tools, steps, refreshing, ghosts>>

EraseFails(c) ==
    /\ pc[c] = "erasing"
    /\ pc' = [pc EXCEPT ![c] = "done"]
    /\ shaken' = shaken \cup {ExtOf[c]}
    /\ UNCHANGED <<registry, active, tools, steps, refreshing, mixed>>

CallStep(c) ==
    \/ Begin(c)
    \/ Saved(c) \/ SaveFails(c)
    \/ Cleared(c) \/ TeardownThrew(c) \/ Torn(c)
    \/ Register(c) \/ LoadFails(c) \/ CleanFailure(c) \/ Activate(c) \/ Tried(c)
    \/ Erased(c) \/ EraseFails(c)

Next ==
    \/ \E c \in Calls : CallStep(c)
    \/ PassReads
    \/ PassApplies
    \/ RefreshEnds

Spec == Init /\ [][Next]_vars

-----------------------------------------------------------------------------
\* No call on e is under way, and the start of the pane has come past it.
AtRest(e) == \A c \in Calls : ExtOf[c] = e =>
    pc[c] = "done" \/ (pc[c] = "idle" /\ KindOf[c] # "boot")

\* Whatever loads, teardowns and other extensions' calls have failed in
\* between, an extension whose own calls came one after the other ends loaded,
\* with its tool and its command, just when it is enabled and shows no error;
\* else nothing of it is left.  (runtime-manager.ts:4-8, "failure isolation",
\* "clean unload".)
SettledAsListed ==
    \A e \in Exts \ (mixed \cup shaken) : AtRest(e) =>
        LET loaded == active[e] # None
        IN  /\ loaded <=> Listed(e) /\ enabled[e] /\ ~failed[e]
            /\ {n \in Tools : owner[n] = e} = IF loaded THEN {ToolOf[e]} ELSE {}
            /\ \A n \in Tools : owner[n] = e => tool[n] = active[e]
            /\ command[e] <=> loaded /\ e \in Commanders

\* When no call and no refresh is under way, the agents have the tools that
\* are registered, each of the load that registered it last: however calls,
\* of one extension too, and passes have overlapped.  (createAsyncCoalescer,
\* and init.ts:1185, "Snapshot extension tools + revision together".)
AgentsRunCurrentTools ==
    (\A c \in Calls : ~UnderWay(c)) /\ refresh = "no" /\ ~missed
        => offered = tool

\* NOT kept by the code: the same without the exception.  A request that
\* comes between the end of the last pass and the clearing of inFlight waits
\* for that pass and starts none.
NoRefreshIsLost ==
    (\A c \in Calls : ~UnderWay(c)) /\ refresh = "no" => offered = tool

\* NOT kept by the code: what is off or gone is not loaded.  A disable or an
\* uninstall that arrives during an activation finds nothing to tear down.
OffIsUnloaded ==
    \A e \in Exts \ shaken :
        AtRest(e) /\ ~(Listed(e) /\ enabled[e]) => active[e] = None

\* NOT kept by the code: what has been uninstalled is not listed any more.
\* The index of an uninstall is out of date at its splice when another one has
\* come in between; it may then take a third extension off the list.
UninstalledIsGone ==
    \A c \in Calls : KindOf[c] = "uninstall" /\ pc[c] = "saving" => ~Listed(ExtOf[c])
=============================================================================
