---------------------------- MODULE BridgeManager ----------------------------
(***************************************************************************)
(* packages/add-in/src/bridge/pi-bridge-manager.ts: the life of the pane's *)
(* connection to Pi, with the client it drives (bridge/pane-client.ts,     *)
(* connect() to disconnect()) and the settings page that toggles it.       *)
(*                                                                         *)
(* Every client connects once.  A client stands for the run of startBridge *)
(* that made it and for the generation of that run: `generation' is the    *)
(* client `current', NoClient once stopBridge has bumped it.  Clients that *)
(* are gone and that nothing refers to are used again.                     *)
(*                                                                         *)
(* Abstractions:                                                           *)
(*   - the settings store answers requests in the order they were made;    *)
(*   - phase: "url" (startBridge waits for the URL), "connecting" (socket  *)
(*     made, no welcome), "late" (the welcome timer fired; the socket is   *)
(*     still there), "up", "silent" (half-open: nothing comes any more)    *)
(*     and "down" (no socket);                                             *)
(*   - the catch of startBridge runs in the microtask after the rejection, *)
(*     before any other event: one action;                                 *)
(*   - delays are not timed; the backoff is the number of tries; what is   *)
(*     only shown (server, attempt, connectFailure) is left out.           *)
(***************************************************************************)
EXTENDS Naturals, Sequences, FiniteSets

CONSTANTS
    Clients,     \* as many as the instance has room for
    NoClient,    \* null
    MaxTries,    \* where the count of tries saturates (the 30 s cap)
    MaxWakes     \* how many online and visibility events come

ASSUME ManagerAssumption ==
    /\ IsFiniteSet(Clients)
    /\ NoClient \notin Clients
    /\ MaxTries \in Nat \ {0}
    /\ MaxWakes \in Nat

VARIABLES
    saved,     \* the stored pi-bridge.enabled
    requests,  \* what the settings store has been asked and not answered
    page,      \* the settings page: "idle"; busy "saving"; or waiting for
               \* the connect of a client, "hung" when that never settles
    status,    \* state.status
    enabled,   \* state.enabled
    current,   \* the client of the current generation
    client,    \* `client'
    timer,     \* reconnectTimer: the generation it was armed for
    stable,    \* stableTimer: the client whose welcome armed it
    tries,     \* reconnectAttempt
    bound,     \* windowTriggersBound
    phase,     \* phase[c]: the socket of client c, see above
    wakes      \* counts online and visibility events, up to MaxWakes

stateVars == <<status, enabled>>
timerVars == <<timer, stable, tries>>
vars == <<saved, requests, page, stateVars, current, client, timerVars, bound,
          phase, wakes>>

Phases == {"down", "url", "connecting", "late", "up", "silent"}
Asked(what, c) == [what |-> what, client |-> c]

\* The task pane has loaded and asks whether the bridge is enabled.
Init ==
    /\ saved \in BOOLEAN
    /\ requests = <<Asked("boot", NoClient)>>
    /\ page = "idle"
    /\ status = "off"
    /\ enabled = FALSE
    /\ current = NoClient
    /\ client = NoClient
    /\ timer = NoClient
    /\ stable = NoClient
    /\ tries = 0
    /\ bound = FALSE
    /\ phase = [c \in Clients |-> "down"]
    /\ wakes = 0

-----------------------------------------------------------------------------
\* A client that is gone and that nothing refers to.
Free(c) == phase[c] = "down" /\ c \notin {current, client, timer, stable, page}
NewClient == CHOOSE c \in Clients : Free(c)

\* client.disconnect(): its socket is closed; a connect() still waiting is
\* neither resolved nor rejected.
Disconnected(c) == [d \in Clients |-> IF d = c THEN "down" ELSE phase[d]]
PageWithout(c) == IF page = c THEN "hung" ELSE page

\* startBridge up to `await getPiBridgeUrl()', as the run that will make
\* NewClient; `asked' is the rest of the requests.
StartBridge(asked) ==
    /\ \E c \in Clients : Free(c)
    /\ current' = NewClient
    /\ status' = "connecting"
    /\ enabled' = TRUE
    /\ client' = NoClient
    /\ phase' = [Disconnected(client) EXCEPT ![NewClient] = "url"]
    /\ requests' = Append(asked, Asked("url", NewClient))

\* Mutant of StopBridge: the settings card still shows the bridge as enabled.
StopBridge_StaysEnabled ==
    /\ current' = NoClient
    /\ client' = NoClient
    /\ phase' = Disconnected(client)
    /\ status' = "off"
    /\ timer' = NoClient
    /\ stable' = NoClient
    /\ tries' = 0
    /\ UNCHANGED enabled

StopBridge ==
    /\ current' = NoClient
    /\ client' = NoClient
    /\ phase' = Disconnected(client)
    /\ status' = "off"
    /\ enabled' = FALSE
    /\ timer' = NoClient
    /\ stable' = NoClient
    /\ tries' = 0

\* scheduleReconnect, called for client c.
ScheduleReconnect(c) ==
    /\ status' = "connecting"
    /\ tries' = IF tries < MaxTries THEN tries + 1 ELSE tries
    /\ timer' = c
    /\ UNCHANGED stable

Nothing == UNCHANGED <<stateVars, timerVars>>

-----------------------------------------------------------------------------
\* The settings page: its toggle, ignored while a change is under way
\* (runMutation), and a new page after the user has left it.  The page shows
\* the stored setting, which it has read after the boot did.
Toggle ==
    /\ page = "idle"
    /\ \A i \in DOMAIN requests : requests[i].what # "boot"
    /\ page' = "saving"
    /\ requests' = Append(requests, Asked(IF saved THEN "off" ELSE "on", NoClient))
    /\ UNCHANGED <<saved, stateVars, current, client, timerVars, bound, phase, wakes>>

ReopenPage ==
    /\ page \notin {"idle", "saving"}
    /\ page' = "idle"
    /\ UNCHANGED <<saved, requests, stateVars, current, client, timerVars, bound,
                   phase, wakes>>

\* The settings store answers its first request.
Answers(what) == requests # <<>> /\ Head(requests).what = what

\* initPiBridgeFromSettings: a read that fails counts as disabled.
BootAnswered ==
    /\ Answers("boot")
    /\ \/ /\ saved
          /\ StartBridge(Tail(requests))
       \/ /\ requests' = Tail(requests)
          /\ UNCHANGED <<stateVars, current, client, phase>>
    /\ UNCHANGED <<saved, page, timerVars, bound, wakes>>

\* enablePiBridge
EnableSaved ==
    /\ Answers("on")
    /\ saved' = TRUE
    /\ bound' = TRUE
    /\ StartBridge(Tail(requests))
    /\ page' = NewClient
    /\ UNCHANGED <<timerVars, wakes>>

\* disablePiBridge
DisableSaved ==
    /\ Answers("off")
    /\ saved' = FALSE
    /\ requests' = Tail(requests)
    /\ page' = "idle"
    /\ StopBridge
    /\ UNCHANGED <<bound, wakes>>

\* enablePiBridge, disablePiBridge: the setting cannot be saved.
SaveFails ==
    /\ Answers("on") \/ Answers("off")
    /\ requests' = Tail(requests)
    /\ page' = "idle"
    /\ status' = "error"
    /\ UNCHANGED <<saved, enabled, current, client, timerVars, bound, phase, wakes>>

\* startBridge after `await getPiBridgeUrl()': make the client and connect,
\* whatever has become of the generation.
UrlAnswered ==
    /\ Answers("url")
    /\ LET c == Head(requests).client
       IN  /\ client' = c
           /\ phase' = [phase EXCEPT ![c] = "connecting"]
    /\ requests' = Tail(requests)
    /\ UNCHANGED <<saved, page, stateVars, current, timerVars, bound, wakes>>

-----------------------------------------------------------------------------
\* The connect of c is resolved or rejected.
Returned(c) == page' = IF page = c THEN "idle" ELSE page

\* Mutant of Welcome: armStableReset is forgotten, so a timer armed for an
\* earlier connection resets the tries.
Welcome_KeepsStableTimer(c) ==
    /\ phase[c] \in {"connecting", "late"}
    /\ phase' = [phase EXCEPT ![c] = "up"]
    /\ IF c = current
       THEN /\ status' = "connected"
            /\ stable' = IF stable = NoClient THEN c ELSE stable
            /\ UNCHANGED <<enabled, timer, tries>>
       ELSE Nothing
    /\ Returned(c)
    /\ UNCHANGED <<saved, requests, current, client, bound, wakes>>

\* Mutant of Welcome: callbacks of a superseded client are not ignored.
Welcome_AnyGeneration(c) ==
    /\ phase[c] \in {"connecting", "late"}
    /\ phase' = [phase EXCEPT ![c] = "up"]
    /\ status' = "connected"
    /\ stable' = c
    /\ Returned(c)
    /\ UNCHANGED <<saved, requests, enabled, current, client, timer, tries, bound,
                   wakes>>

\* The welcome arrives: handleFrame, onStatusChange(true).
Welcome(c) ==
    /\ phase[c] \in {"connecting", "late"}
    /\ phase' = [phase EXCEPT ![c] = "up"]
    /\ IF c = current
       THEN /\ status' = "connected"
            /\ stable' = c
            /\ UNCHANGED <<enabled, timer, tries>>
       ELSE Nothing
    /\ Returned(c)
    /\ UNCHANGED <<saved, requests, current, client, bound, wakes>>

\* connect() is rejected, because the connection failed, was closed or speaks
\* another protocol version ("down"), or because the welcome timer fired: then
\* failConnect keeps the socket ("late").
ConnectFails(c, left) ==
    /\ phase[c] = "connecting"
    /\ phase' = [phase EXCEPT ![c] = left]
    /\ IF c = current /\ enabled
       THEN ScheduleReconnect(c) /\ UNCHANGED enabled
       ELSE Nothing
    /\ Returned(c)
    /\ UNCHANGED <<saved, requests, current, client, bound, wakes>>

\* The socket of a connect that timed out ends too.
LateEnds(c) ==
    /\ phase[c] = "late"
    /\ phase' = [phase EXCEPT ![c] = "down"]
    /\ UNCHANGED <<saved, requests, page, stateVars, current, client, timerVars,
                   bound, wakes>>

GoesSilent(c) ==
    /\ phase[c] = "up"
    /\ phase' = [phase EXCEPT ![c] = "silent"]
    /\ UNCHANGED <<saved, requests, page, stateVars, current, client, timerVars,
                   bound, wakes>>

\* Mutant of Drops: the drop is not reported.
Drops_Unnoticed(c) ==
    /\ phase[c] \in {"up", "silent"}
    /\ phase' = [phase EXCEPT ![c] = "down"]
    /\ UNCHANGED <<saved, requests, page, stateVars, current, client, timerVars,
                   bound, wakes>>

\* The socket ends, or the watchdog finds it silent (killConnection):
\* onStatusChange(false).
Drops(c) ==
    /\ phase[c] \in {"up", "silent"}
    /\ phase' = [phase EXCEPT ![c] = "down"]
    /\ IF c = current /\ status = "connected" /\ enabled
       THEN ScheduleReconnect(c) /\ UNCHANGED enabled
       ELSE Nothing
    /\ UNCHANGED <<saved, requests, page, current, client, bound, wakes>>

-----------------------------------------------------------------------------
\* Mutant of TimerFires: a retry that finds the bridge still connecting is
\* dropped.
TimerFires_Drops ==
    /\ timer # NoClient
    /\ timer' = NoClient
    /\ IF timer = current /\ enabled /\ status = "connected"
       THEN /\ StartBridge(requests)
            /\ page' = PageWithout(client)
       ELSE UNCHANGED <<requests, page, stateVars, current, client, phase>>
    /\ UNCHANGED <<saved, stable, tries, bound, wakes>>

\* The reconnect timer fires.
TimerFires ==
    /\ timer # NoClient
    /\ timer' = NoClient
    /\ IF timer = current /\ enabled
       THEN /\ StartBridge(requests)
            /\ page' = PageWithout(client)
       ELSE UNCHANGED <<requests, page, stateVars, current, client, phase>>
    /\ UNCHANGED <<saved, stable, tries, bound, wakes>>

\* The stable timer fires.
StableFires ==
    /\ stable # NoClient
    /\ stable' = NoClient
    /\ tries' = IF status = "connected" THEN 0 ELSE tries
    /\ UNCHANGED <<saved, requests, page, stateVars, current, client, timer, bound,
                   phase, wakes>>

\* The network is back or the tab is visible: retryNow, once the listeners are
\* bound.
Wake ==
    /\ wakes < MaxWakes
    /\ wakes' = wakes + 1
    /\ IF bound /\ enabled /\ status # "connected"
       THEN /\ timer' = NoClient
            /\ StartBridge(requests)
            /\ page' = PageWithout(client)
       ELSE UNCHANGED <<requests, page, stateVars, current, client, timer, phase>>
    /\ UNCHANGED <<saved, stable, tries, bound>>

StoreAnswers ==
    \/ BootAnswered \/ EnableSaved \/ DisableSaved \/ SaveFails \/ UrlAnswered

ClientStep(c) ==
    \/ Welcome(c)
    \/ \E left \in {"down", "late"} : ConnectFails(c, left)
    \/ LateEnds(c)
    \/ GoesSilent(c)
    \/ Drops(c)

Next ==
    \/ Toggle
    \/ ReopenPage
    \/ StoreAnswers
    \/ \E c \in Clients : ClientStep(c)
    \/ TimerFires
    \/ StableFires
    \/ Wake

Spec == Init /\ [][Next]_vars

\* The store answers, timers fire (so a connect ends one way or another and
\* the watchdog finds a silent socket), and a server that is asked again and
\* again sometimes welcomes.
FairSpec ==
    /\ Spec
    /\ WF_vars(StoreAnswers)
    /\ WF_vars(TimerFires)
    /\ \A c \in Clients :
          /\ WF_vars(ConnectFails(c, "late"))
          /\ WF_vars(phase[c] = "silent" /\ Drops(c))
    /\ SF_vars(\E c \in Clients : c = current /\ phase[c] = "connecting" /\ Welcome(c))

-----------------------------------------------------------------------------
Live(c) == phase[c] \in {"up", "silent"}

\* The values the variables of the manager, its clients and the page take.
ManagerTypeOK ==
    /\ saved \in BOOLEAN
    /\ requests \in Seq({Asked(what, NoClient) : what \in {"boot", "on", "off"}}
                          \cup {Asked("url", c) : c \in Clients})
    /\ page \in {"idle", "saving", "hung"} \cup Clients
    /\ status \in {"off", "connecting", "connected", "error"}
    /\ enabled \in BOOLEAN
    /\ {current, client, timer, stable} \subseteq Clients \cup {NoClient}
    /\ tries \in 0..MaxTries
    /\ bound \in BOOLEAN
    /\ phase \in [Clients -> Phases]
    /\ wakes \in 0..MaxWakes

\* While the bridge is enabled something will connect it again: a retry is
\* scheduled for the present generation, its start or its connect is under
\* way, or its client is connected; but for a change of the setting that could
\* not be saved, after which a drop is not retried.  (startBridge,
\* scheduleReconnect.)
KeepsTrying ==
    enabled /\ status # "error" =>
        /\ current # NoClient
        /\ \/ timer = current
           \/ phase[current] \in {"url", "connecting"}
           \/ Live(current)

\* The card says connected only while the client of the present generation
\* has not ended, and that client is the one a stop would disconnect.  (The
\* generation checks of the callbacks.)
TruthfulBadge ==
    status = "connected" => /\ current # NoClient
                            /\ Live(current)
                            /\ client = current

\* A bridge that runs is one that the stored setting enables: in whatever
\* order boot, toggles and retries come, the next load of the pane agrees with
\* what the card shows.  (enablePiBridge, disablePiBridge,
\* initPiBridgeFromSettings.)
RunsOnlyAsSaved == enabled => saved

\* The backoff is shortened only when the bridge is disabled, or after the
\* very connection that is up now has been up since it armed the timer.
\* (armStableReset.)
BackoffKept ==
    [][tries' < tries => \/ ~enabled'
                         \/ stable = current /\ Live(current)]_vars

\* An enabled bridge comes to a connection that carries messages, after any
\* number of refusals, timeouts, drops and silences, unless it is disabled or
\* a change of the setting could not be saved.
\* (docs/local-development.md:146-151, "The connection self-heals".)
SelfHeals ==
    enabled ~> \/ ~enabled
               \/ status = "error"
               \/ status = "connected" /\ phase[current] = "up"

\* A disabled bridge has no connection.  (docs/local-development.md:141,
\* "Toggling off disconnects immediately".)
OffMeansOffline == ~enabled => \A c \in Clients : ~Live(c)
=============================================================================
