----------------------------- MODULE SessionTabs -----------------------------
(***************************************************************************)
(* The tabs of a task pane (taskpane/session-runtime-manager.ts) and how   *)
(* the sessions they show are stored (taskpane/sessions.ts), with the      *)
(* commands of taskpane/init.ts that open, fill, replace, duplicate, close *)
(* and reopen them.                                                        *)
(*                                                                         *)
(* Abstractions:                                                           *)
(*   - a session's messages are the set of its turns: a turn is a prompt   *)
(*     and its answer, and a summary stands for the turns it replaces;     *)
(*   - the order of the tabs and their stored layout are left out: any     *)
(*     open tab may be the active one, and a reload brings back the tabs   *)
(*     it finds (of those without a stored session, one);                  *)
(*   - the pane keeps to one workbook;                                     *)
(*   - the store serves saves and reads of sessions in the order of the    *)
(*     requests; each may fail;                                            *)
(*   - one session is being opened at a time;                              *)
(*   - the start-up (Reload) is one step.                                  *)
(***************************************************************************)
EXTENDS Naturals, Sequences, SequencesExt, FiniteSets

CONSTANTS
    Tabs,        \* runtimes; a closed one's name may be used again
    Ids,         \* session ids
    Old,         \* sessions stored before
    None,
    Closers,     \* calls of closeRuntimeWithRecovery
    OpensTwice,  \* whether a session may be opened that a tab can still save
    MaxTurns,    \* bound: turns
    MaxFaults,   \* bound: reloads of the pane and failures of the store
    MaxPending,  \* bound: requests the store has not served
    MaxCommands, \* bound: tabs and sessions opened, made, renamed, closed ...
    RecentLimit  \* the limit of RecentlyClosedStack

ASSUME SessionAssumption ==
    /\ Old \subseteq Ids
    /\ Old # Ids
    /\ None \notin Ids \cup Tabs \cup Closers
    /\ \A H \in SUBSET (0 .. MaxTurns) : H # None
    /\ MaxTurns \in Nat /\ MaxFaults \in Nat /\ MaxPending \in Nat /\ MaxCommands \in Nat
    /\ OpensTwice \in BOOLEAN
    /\ RecentLimit \in Nat \ {0}

VARIABLES
    open,      \* the runtimes of the manager
    session,   \* session[t]: the id of tab t's session
    history,   \* history[t]: agent.state.messages
    seen,      \* seen[t]: firstAssistantSeen
    work,      \* work[t]: "idle", "streaming" or "compacting"
    closer,    \* closer[k]: a call of closeRuntimeWithRecovery
    recent,    \* recentlyClosed: session ids, newest first
    opening,   \* the session being opened
    stored,    \* stored[i]: the stored turns of session i, or None;
               \* turn 0 is one an old session already has
    requests,  \* saves and reads the store has not served
    turns,     \* counts turns
    commands,  \* counts commands
    faults,    \* counts reloads and failures
    owed,      \* owed[i]: the turns session i should have
    own,       \* own[i]: the turns session i may have
    failed     \* sessions a save of which failed

tabVars == <<open, session, history, seen, work>>
callVars == <<closer, recent, opening>>
storeVars == <<stored, requests>>
ghosts == <<owed, own, failed>>
vars == <<tabVars, callVars, storeVars, turns, commands, faults, ghosts>>

\* A tab can still save: it is open, or it was closed while a compaction ran,
\* which saves when it is done (persistBridge).
Live == {t \in Tabs : t \in open \/ work[t] = "compacting"}
Shown == {session[t] : t \in Live}

NoLoad == [pc |-> "none", how |-> None, id |-> None, data |-> {}, tab |-> None]
NotClosing == [pc |-> "none", tab |-> None, id |-> None]

SaveOf(i, h, k) == [ask |-> "save", id |-> i, data |-> h, closer |-> k]
Save(t, k) == SaveOf(session[t], history[t], k)
Read(i) == [ask |-> "read", id |-> i, data |-> {}, closer |-> None]
Ask(r) == Len(requests) < MaxPending /\ requests' = Append(requests, r)

\* crypto.randomUUID: an id nothing refers to; which one does not matter.
Unused == {i \in Ids : /\ stored[i] = None /\ owed[i] = {}
                       /\ \A t \in Tabs : session[t] # i
                       /\ \A k \in Closers : closer[k].id # i
                       /\ i \notin ToSet(recent) /\ opening.id # i
                       /\ \A n \in DOMAIN requests : requests[n].id # i}
Fresh == CHOOSE i \in Unused : TRUE

\* The user gives a command.
Command == commands < MaxCommands /\ commands' = commands + 1

\* The pane is reloaded, or the store fails.
Fault == faults < MaxFaults /\ faults' = faults + 1

Init ==
    /\ \E t \in Tabs, i \in Ids \ Old :
          /\ open = {t}
          /\ session = [u \in Tabs |-> IF u = t THEN i ELSE None]
    /\ history = [t \in Tabs |-> {}]
    /\ seen = [t \in Tabs |-> FALSE]
    /\ work = [t \in Tabs |-> "idle"]
    /\ closer = [k \in Closers |-> NotClosing]
    /\ recent = <<>>
    /\ opening = NoLoad
    /\ stored = [i \in Ids |-> IF i \in Old THEN {0} ELSE None]
    /\ requests = <<>>
    /\ turns = 0 /\ commands = 0 /\ faults = 0
    /\ owed = [i \in Ids |-> IF i \in Old THEN {0} ELSE {}]
    /\ own = owed
    /\ failed = {}

-----------------------------------------------------------------------------
\* What tab t shows from now on.
Shows(t, i, h, s) ==
    /\ session' = [session EXCEPT ![t] = i]
    /\ history' = [history EXCEPT ![t] = h]
    /\ seen' = [seen EXCEPT ![t] = s]

\* Nothing refers to tab t.
Free(t) ==
    /\ t \notin Live /\ opening.tab # t
    /\ \A k \in Closers : closer[k].tab # t

\* createRuntime: a new tab with an id of its own and messages h.
AddTab(t, h) ==
    /\ Free(t) /\ Unused # {}
    /\ open' = open \cup {t}
    /\ Shows(t, Fresh, h, FALSE)
    /\ own' = [own EXCEPT ![Fresh] = h]

\* createRuntimeFromUi, also /new.
NewTab(t) ==
    /\ Command
    /\ AddTab(t, {})
    /\ UNCHANGED <<work, callVars, storeVars, turns, faults, owed, failed>>

\* duplicateRuntimeTab, cloneRuntimeToNewTab: the copy is saved at once.
Duplicate(t) ==
    /\ Command
    /\ t \in open /\ work[t] = "idle"
    /\ \E u \in Tabs : AddTab(u, history[t])
    /\ Ask(SaveOf(Fresh, history[t], None))
    /\ owed' = [owed EXCEPT ![Fresh] = history[t]]
    /\ UNCHANGED <<work, callVars, stored, turns, faults, failed>>

\* A prompt is sent from tab t.
Send(t) ==
    /\ t \in open /\ work[t] = "idle" /\ turns < MaxTurns
    /\ work' = [work EXCEPT ![t] = "streaming"]
    /\ UNCHANGED <<open, session, history, seen, callVars, storeVars, turns, commands,
                   faults, ghosts>>

\* Mutant of Answer: only a session that had an answer before is saved.
Answer_NotTheFirst(t) ==
    /\ t \in open /\ work[t] = "streaming" /\ turns < MaxTurns
    /\ turns' = turns + 1
    /\ work' = [work EXCEPT ![t] = "idle"]
    /\ Shows(t, session[t], history[t] \cup {turns'}, TRUE)
    /\ IF seen[t] THEN Ask(SaveOf(session[t], history[t] \cup {turns'}, None))
       ELSE UNCHANGED requests
    /\ owed' = [owed EXCEPT ![session[t]] = @ \cup {turns'}]
    /\ own' = [own EXCEPT ![session[t]] = @ \cup {turns'}]
    /\ UNCHANGED <<open, callVars, stored, commands, faults, failed>>

\* The agent's message_end for an assistant message: the session is saved.
Answer(t) ==
    /\ t \in open /\ work[t] = "streaming" /\ turns < MaxTurns
    /\ turns' = turns + 1
    /\ work' = [work EXCEPT ![t] = "idle"]
    /\ Shows(t, session[t], history[t] \cup {turns'}, TRUE)
    /\ Ask(SaveOf(session[t], history[t] \cup {turns'}, None))
    /\ owed' = [owed EXCEPT ![session[t]] = @ \cup {turns'}]
    /\ own' = [own EXCEPT ![session[t]] = @ \cup {turns'}]
    /\ UNCHANGED <<open, callVars, stored, commands, faults, failed>>

\* /compact, or a compaction before a prompt, begins in tab t.
Compact(t) ==
    /\ Command
    /\ t \in open /\ work[t] = "idle" /\ history[t] # {}
    /\ work' = [work EXCEPT ![t] = "compacting"]
    /\ UNCHANGED <<open, session, history, seen, callVars, storeVars, turns,
                   faults, ghosts>>

\* What tab t shows, unless it is closed and nothing refers to it any more.
Forgotten(t, gone) ==
    IF gone THEN Shows(t, None, {}, FALSE) ELSE UNCHANGED <<session, history, seen>>

\* It ends: committed, it is saved at once, also in a tab closed since
\* (onCommitted: saveSession({ force: true })); or nothing was compacted.
CompactEnds(t) ==
    /\ work[t] = "compacting"
    /\ work' = [work EXCEPT ![t] = "idle"]
    /\ Ask(Save(t, None)) \/ UNCHANGED requests
    /\ Forgotten(t, t \notin open /\ \A k \in Closers : closer[k].tab # t)
    /\ UNCHANGED <<open, callVars, stored, turns, commands, faults, ghosts>>

\* startNewSession, from the error banner: another id, the same messages.
NewSession(t) ==
    /\ Command
    /\ t \in open /\ Unused # {}
    /\ Shows(t, Fresh, history[t], FALSE)
    /\ own' = [own EXCEPT ![Fresh] = history[t]]
    /\ UNCHANGED <<open, work, callVars, storeVars, turns, faults, owed, failed>>

\* renameRuntimeTab: saved if the session has an answer.
Rename(t) ==
    /\ Command
    /\ t \in open /\ work[t] = "idle" /\ seen[t]
    /\ Ask(Save(t, None))
    /\ UNCHANGED <<tabVars, callVars, stored, turns, faults, ghosts>>

-----------------------------------------------------------------------------
\* RecentlyClosedStack.push
Pushed(i) == SubSeq(<<i>> \o recent, 1,
                    IF Len(recent) < RecentLimit THEN Len(recent) + 1 ELSE RecentLimit)

\* A session is loaded, to be shown in a new tab or in the active one.  If a
\* live tab has it, there will be two copies, which write over each other.
StartLoad(i, how) ==
    /\ Command
    /\ opening = NoLoad
    /\ OpensTwice \/ i \notin Shown
    /\ opening' = [NoLoad EXCEPT !.pc = "reading", !.how = how, !.id = i]
    /\ Ask(Read(i))
    /\ UNCHANGED <<tabVars, closer, stored, turns, faults, ghosts>>

\* showResumeDialog: any session that is stored.
Resume(i) ==
    /\ stored[i] # None
    /\ \E how \in {"new", "replace"} : StartLoad(i, how)
    /\ UNCHANGED recent

\* reopenLastClosed takes the first item, reopenRecentlyClosedById any.
Reopen ==
    \E n \in DOMAIN recent :
        /\ recent' = RemoveAt(recent, n)
        /\ StartLoad(recent[n], "reopen")

\* The read is served; there may be no such session.  A failure puts a
\* recently closed item back.
ServeRead ==
    /\ requests # <<>> /\ Head(requests).ask = "read"
    /\ requests' = Tail(requests)
    /\ LET i == Head(requests).id
       IN  \/ /\ opening' = IF stored[i] = None THEN NoLoad
                            ELSE [opening EXCEPT !.pc = "loaded", !.data = stored[i]]
              /\ UNCHANGED <<recent, faults>>
           \/ /\ Fault
              /\ opening' = NoLoad
              /\ recent' = IF opening.how = "reopen" THEN Pushed(i) ELSE recent
    /\ UNCHANGED <<tabVars, closer, stored, turns, commands, ghosts>>

\* openSessionInNewTab makes a tab, with an id of its own, ...
LoadMakesTab(t) ==
    /\ opening.pc = "loaded" /\ opening.how # "replace"
    /\ AddTab(t, {})
    /\ opening' = [opening EXCEPT !.pc = "made", !.tab = t]
    /\ UNCHANGED <<work, closer, recent, storeVars, turns, commands, faults, owed, failed>>

\* applyLoadedSession
Applied(t) ==
    /\ Shows(t, opening.id, opening.data, opening.data # {})
    /\ opening' = NoLoad
    /\ UNCHANGED <<open, work, closer, recent, storeVars, turns, commands, faults, ghosts>>

\* ... and gives it the session; it may be closed by then.
LoadFillsTab ==
    /\ opening.pc = "made"
    /\ IF opening.tab \in open THEN Applied(opening.tab)
       ELSE /\ opening' = NoLoad
            /\ UNCHANGED <<tabVars, closer, recent, storeVars, turns, commands, faults, ghosts>>

\* replaceActiveRuntimeSession: refused while the tab is busy.
LoadReplaces(t) ==
    /\ opening.pc = "loaded" /\ opening.how = "replace"
    /\ t \in open
    /\ \/ work[t] = "idle" /\ Applied(t)
       \/ /\ work[t] # "idle"
          /\ opening' = NoLoad
          /\ UNCHANGED <<tabVars, closer, recent, storeVars, turns, commands, faults, ghosts>>

-----------------------------------------------------------------------------
\* closeRuntimeWithRecovery, up to its first await: not the last tab; a
\* streaming one is asked about.  (The lock state: CoordinatedTools.CloseTab.)
Close(k, t) ==
    /\ Command
    /\ closer[k] = NotClosing
    /\ t \in open /\ open # {t}
    /\ IF work[t] = "streaming"
       THEN /\ closer' = [closer EXCEPT ![k] = [pc |-> "asking", tab |-> t, id |-> None]]
            /\ UNCHANGED requests
       ELSE /\ closer' = [closer EXCEPT ![k] = [pc |-> "saving", tab |-> t, id |-> None]]
            /\ Ask(Save(t, k))
    /\ UNCHANGED <<tabVars, recent, opening, stored, turns, faults, ghosts>>

\* "Stop and close" aborts the agent, whose last message_end may still come;
\* "Keep open" ends the call.
StopAndClose(k) ==
    /\ closer[k].pc = "asking"
    /\ \/ /\ closer' = [closer EXCEPT ![k].pc = "saving"]
          /\ Ask(Save(closer[k].tab, k))
       \/ /\ closer' = [closer EXCEPT ![k] = NotClosing]
          /\ UNCHANGED requests
    /\ UNCHANGED <<tabVars, recent, opening, stored, turns, commands, faults, ghosts>>

\* closeRuntime: the tab goes and its runtime is disposed of, which stops its
\* agent but not a compaction.
RemoveTab(t, again) ==
    /\ open' = open \ {t}
    /\ work' = [work EXCEPT ![t] = IF @ = "compacting" THEN @ ELSE "idle"]
    /\ Forgotten(t, work[t] # "compacting" /\ ~again)

\* The workbook's identity is known: the tab is closed, unless it is gone or the
\* only one by now; it is listed as closed in any case.
CloseEnds(k) ==
    LET t == closer[k].tab
    IN  /\ closer[k].pc = "saved"
        /\ IF t \in open /\ open # {t}
           THEN RemoveTab(t, \E j \in Closers \ {k} : closer[j].tab = t)
           ELSE UNCHANGED tabVars
        /\ recent' = Pushed(closer[k].id)
        /\ closer' = [closer EXCEPT ![k] = NotClosing]
        /\ UNCHANGED <<opening, storeVars, turns, commands, faults, ghosts>>

-----------------------------------------------------------------------------
\* Mutant of SavedAs: the save of a tab being closed reads the id when it is
\* written.
SavedAs_Late(r) ==
    IF r.closer = None THEN r.id ELSE session[closer[r.closer].tab]

\* savedSessionId: the id of the moment the save was asked for.
SavedAs(r) == r.id

\* The store serves a save; a failure is only logged.  A tab being closed takes
\* its session id for the list now.
ServeSave ==
    /\ requests # <<>> /\ Head(requests).ask = "save"
    /\ requests' = Tail(requests)
    /\ LET r == Head(requests)
       IN  /\ \/ /\ stored' = [stored EXCEPT ![SavedAs(r)] = r.data]
                 /\ UNCHANGED <<failed, faults>>
              \/ /\ Fault
                 /\ failed' = failed \cup {r.id}
                 /\ UNCHANGED stored
           /\ closer' = IF r.closer = None THEN closer
                        ELSE [closer EXCEPT ![r.closer].pc = "saved",
                                            ![r.closer].id = session[closer[r.closer].tab]]
    /\ UNCHANGED <<tabVars, recent, opening, turns, commands, owed, own>>

\* The pane is reloaded; what it asked the store for is lost.  The tabs come
\* back with their stored sessions (restorePersistedTabLayout); where none is
\* stored the tab is a new one, and saved.
Reload ==
    LET known == {t \in open : stored[session[t]] # None}
        blank == IF open \ known # {} /\ Unused # {}
                 THEN {CHOOSE t \in open \ known : TRUE} ELSE {}
    IN  /\ Fault
        /\ known \cup blank # {}
        /\ open' = known \cup blank
        /\ session' = [t \in Tabs |-> IF t \in known THEN session[t]
                                      ELSE IF t \in blank THEN Fresh ELSE None]
        /\ history' = [t \in Tabs |-> IF t \in known THEN stored[session[t]] ELSE {}]
        /\ requests' = IF blank = {} THEN <<>> ELSE <<SaveOf(Fresh, {}, None)>>
        /\ seen' = [t \in Tabs |-> history'[t] # {}]
        /\ work' = [t \in Tabs |-> "idle"]
        /\ closer' = [k \in Closers |-> NotClosing]
        /\ recent' = <<>>
        /\ opening' = NoLoad
        /\ owed' = [i \in Ids |-> IF stored[i] = None THEN {} ELSE stored[i]]
        /\ own' = owed'
        /\ failed' = {}
        /\ UNCHANGED <<stored, turns, commands>>

TabStep(t) ==
    \/ NewTab(t) \/ Duplicate(t) \/ Send(t) \/ Answer(t)
    \/ Compact(t) \/ CompactEnds(t) \/ NewSession(t) \/ Rename(t)
    \/ LoadMakesTab(t) \/ LoadReplaces(t)

CloseStep(k) == (\E t \in Tabs : Close(k, t)) \/ StopAndClose(k) \/ CloseEnds(k)

Next ==
    \/ \E t \in Tabs : TabStep(t)
    \/ \E k \in Closers : CloseStep(k)
    \/ \E i \in Ids : Resume(i)
    \/ Reopen \/ ServeRead \/ LoadFillsTab
    \/ ServeSave
    \/ Reload

Spec == Init /\ [][Next]_vars

-----------------------------------------------------------------------------
\* The turns of session i that the store holds or is asked to hold.
Saved(i) ==
    (IF stored[i] = None THEN {} ELSE stored[i])
    \cup UNION {requests[n].data : n \in {m \in DOMAIN requests :
                    requests[m].ask = "save" /\ requests[m].id = i}}

(***************************************************************************)
(* Every turn that a tab completed is stored under the session the tab     *)
(* showed then, or about to be, whatever is opened, replaced, duplicated,  *)
(* compacted, closed or reopened meanwhile, and nothing stored is written  *)
(* over, unless a save of the session failed (sessions.ts: saveSession and *)
(* the header, "auto-saving agent state to IndexedDB").  It needs          *)
(* ~OpensTwice: of two copies of a session the later save wins.            *)
(***************************************************************************)
EveryTurnIsSaved ==
    \A i \in Ids \ failed : owed[i] \subseteq Saved(i)

(***************************************************************************)
(* No turn gets into a session it does not belong to: what is stored of a  *)
(* session, and what a tab shows of it, was said in it, or in the session  *)
(* it was copied from by a duplicate or by the error banner, whatever the  *)
(* tab was made to show while a save of it was waiting (saveSession's      *)
(* savedSessionId, applyLoadedSession).                                    *)
(***************************************************************************)
NoTurnStrays ==
    /\ \A i \in Ids : stored[i] # None => stored[i] \subseteq own[i]
    /\ \A t \in open : history[t] \subseteq own[session[t]]
=============================================================================
