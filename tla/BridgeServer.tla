----------------------------- MODULE BridgeServer -----------------------------
(***************************************************************************)
(* packages/bridge-extension/src/bridge-server.ts: OfficeBridgeServer, with *)
(* the panes (packages/add-in/src/bridge/pane-client.ts) and the sockets   *)
(* between them as its environment.                                        *)
(*                                                                         *)
(* Pi calls Office operations; the server sends each call to one attached  *)
(* pane and settles it with the pane's answer, a timeout, an abort, or the *)
(* end of a connection.                                                    *)
(*                                                                         *)
(* Abstractions:                                                           *)
(*   - a pane is a PaneBridgeClient; each connect() uses a new socket and  *)
(*     sends one hello first; messages of a socket arrive in order;        *)
(*   - the array `panes' is the set `attached' with the order of the       *)
(*     hellos: records are only appended, and removed in place; no two     *)
(*     hellos fall in one millisecond (the sort of findPane would then     *)
(*     take the older pane);                                               *)
(*   - conn is the server's view: "open" is readyState OPEN; "closing" is  *)
(*     a socket the server closed, which still delivers what its pane has  *)
(*     sent; "dying" one that delivers nothing more; "closed" is after the *)
(*     close event;                                                        *)
(*   - ping, pong, status and broadcast change no state kept here; the     *)
(*     HTTP health page only reads.                                        *)
(***************************************************************************)
EXTENDS Naturals, Sequences, FiniteSets

CONSTANTS
    Panes,      \* pane clients, each with its paneId
    HostOf,     \* HostOf[p]: the host application in the hello of p
    Advertised, \* Advertised[p]: the ops in the hello; {} when there are none
    Conns,      \* sockets; each connects at most once
    PaneOf,     \* PaneOf[c]: the pane that opens socket c
    Catalog,    \* the ops this server knows
    OpHost,     \* OpHost[op]: the host an op belongs to, for ops of any pane
    V1Ops,      \* LEGACY_V1_OPS
    Calls,      \* callOfficeTool calls; a call stands for its id too
    OpOf,       \* OpOf[k]: the op that call k asks for (`${host}.${op}`)
    NoConn      \* no socket

ASSUME BridgeAssumption ==
    /\ IsFiniteSet(Conns)
    /\ NoConn \notin Conns
    /\ PaneOf \in [Conns -> Panes]
    /\ V1Ops \subseteq Catalog

VARIABLES
    server,     \* "new", "starting", "listening", "unbound" (the port is
                \* taken) or "stopped"
    conn,       \* conn[c]: "new", "open", "closing", "dying" or "closed"
    current,    \* current[p]: the socket pane p uses, its `ws'
    greeted,    \* greeted[c]: the connection's handler has a pane record
    attached,   \* sockets whose record is in `panes'
    order,      \* order[c]: connectedAt, as the place of the hello among all
                \* hellos (0: none)
    inbox,      \* inbox[c]: calls under way to the pane
    outbox,     \* outbox[c]: answers under way to the server
    running,    \* running[p]: calls that pane p is executing
    answer,     \* answer[k]: what the executor of call k returned, if it did
    pending,    \* ids in the `pending' map
    outcome,    \* outcome[k]: how call k was settled, "none" while it is not
    sentTo      \* sentTo[k]: the socket call k was sent on

paneVars == <<greeted, attached, order>>
workVars == <<running, answer>>
netVars == <<current, inbox, outbox, workVars>>
callVars == <<pending, outcome, sentTo>>
vars == <<server, conn, paneVars, netVars, callVars>>

Outcomes == {"none", "ok", "failed", "timeout", "aborted", "nopane", "gated",
             "unsent", "detached", "disconnect", "stopped"}

Init ==
    /\ server = "new"
    /\ conn = [c \in Conns |-> "new"]
    /\ greeted = [c \in Conns |-> FALSE]
    /\ attached = {}
    /\ order = [c \in Conns |-> 0]
    /\ inbox = [c \in Conns |-> <<>>]
    /\ outbox = [c \in Conns |-> <<>>]
    /\ current = [p \in Panes |-> NoConn]
    /\ running = [p \in Panes |-> {}]
    /\ answer = [k \in Calls |-> "none"]
    /\ pending = {}
    /\ outcome = [k \in Calls |-> "none"]
    /\ sentTo = [k \in Calls |-> NoConn]

\* A promise settles once; a later resolve or reject of it does nothing.
Settle(ks, how) ==
    outcome' = [k \in Calls |->
                   IF k \in ks /\ outcome[k] = "none" THEN how ELSE outcome[k]]

Maximum(S) == CHOOSE x \in S : \A y \in S : y <= x

-----------------------------------------------------------------------------
\* start(): the extension makes a new server for each session and starts it
\* once.
Start ==
    /\ server = "new"
    /\ server' = "starting"
    /\ UNCHANGED <<conn, paneVars, netVars, callVars>>

\* The http server is listening, or the port is taken.
Listening ==
    /\ server = "starting"
    /\ server' \in {"listening", "unbound"}
    /\ UNCHANGED <<conn, paneVars, netVars, callVars>>

\* Mutant of Stop: the pending calls are forgotten, not rejected.
Stop_ForgetsCalls ==
    /\ server \notin {"new", "stopped"}
    /\ server' = "stopped"
    /\ pending' = {}
    /\ conn' = [c \in Conns |-> IF c \in attached /\ conn[c] = "open"
                                THEN "closing" ELSE conn[c]]
    /\ attached' = {}
    /\ UNCHANGED <<greeted, order, netVars, outcome, sentTo>>

\* stop(): reject every pending call, close and forget every pane.  Sockets
\* that have not said hello are not in `panes' and stay as they are.
Stop ==
    /\ server \notin {"new", "stopped"}
    /\ server' = "stopped"
    /\ Settle(pending, "stopped")
    /\ pending' = {}
    /\ conn' = [c \in Conns |-> IF c \in attached /\ conn[c] = "open"
                                THEN "closing" ELSE conn[c]]
    /\ attached' = {}
    /\ UNCHANGED <<greeted, order, netVars, sentTo>>

-----------------------------------------------------------------------------
\* A pane connects (handleConnection).  It lets go of the socket it had: what
\* comes in on that one is dropped, what it has sent may still arrive.
Connect(c) ==
    LET p == PaneOf[c]
    IN  /\ server = "listening"
        /\ conn[c] = "new"
        /\ conn' = [conn EXCEPT ![c] = "open"]
        /\ current' = [current EXCEPT ![p] = c]
        /\ inbox' = [d \in Conns |-> IF d = current[p] THEN <<>> ELSE inbox[d]]
        /\ UNCHANGED <<server, paneVars, outbox, workVars, callVars>>

\* The hello timer: no pane record yet, the server closes the socket.
HelloTimeout(c) ==
    /\ conn[c] = "open"
    /\ ~greeted[c]
    /\ conn' = [conn EXCEPT ![c] = "closing"]
    /\ UNCHANGED <<server, paneVars, netVars, callVars>>

\* hello with another protocol version, which a page of any connection may
\* have: an error message, then close.  Its page says hello once, and what else
\* comes from a socket without a record means nothing.
HelloOutdated(c) ==
    /\ conn[c] \in {"open", "closing"}
    /\ ~greeted[c]
    /\ conn' = [conn EXCEPT ![c] = "dying"]
    /\ UNCHANGED <<server, paneVars, netVars, callVars>>

\* Mutant of Hello: older records with the same paneId are kept.
Hello_KeepsOld(c) ==
    /\ conn[c] \in {"open", "closing"}
    /\ ~greeted[c]
    /\ greeted' = [greeted EXCEPT ![c] = TRUE]
    /\ attached' = attached \cup {c}
    /\ order' = [order EXCEPT ![c] = 1 + Maximum({order[d] : d \in Conns})]
    /\ UNCHANGED <<server, conn, netVars, callVars>>

\* Mutant of Hello: a call of the record it replaces is sent again.
Hello_Resends(c) ==
    LET own == {k \in pending : sentTo[k] # NoConn /\ PaneOf[sentTo[k]] = PaneOf[c]}
    IN  /\ conn[c] \in {"open", "closing"}
        /\ ~greeted[c]
        /\ greeted' = [greeted EXCEPT ![c] = TRUE]
        /\ attached' = {d \in attached : PaneOf[d] # PaneOf[c]} \cup {c}
        /\ order' = [order EXCEPT ![c] = 1 + Maximum({order[d] : d \in Conns})]
        /\ inbox' = IF own = {} THEN inbox
                    ELSE [inbox EXCEPT ![c] = Append(@, CHOOSE k \in own : TRUE)]
        /\ UNCHANGED <<server, conn, current, outbox, workVars, callVars>>

\* hello: a record at the end of `panes', in place of any with its paneId.
\* The socket of a replaced record stays open.  A late hello is taken even
\* while its socket is being closed.
Hello(c) ==
    /\ conn[c] \in {"open", "closing"}
    /\ ~greeted[c]
    /\ greeted' = [greeted EXCEPT ![c] = TRUE]
    /\ attached' = {d \in attached : PaneOf[d] # PaneOf[c]} \cup {c}
    /\ order' = [order EXCEPT ![c] = 1 + Maximum({order[d] : d \in Conns})]
    /\ UNCHANGED <<server, conn, netVars, callVars>>

\* Nothing more comes over socket c: what was under way on it is lost.
Cut(c, how) ==
    /\ conn' = [conn EXCEPT ![c] = how]
    /\ inbox' = [inbox EXCEPT ![c] = <<>>]
    /\ outbox' = [outbox EXCEPT ![c] = <<>>]
    /\ UNCHANGED <<current, workVars>>

\* The connection is lost, or the pane's close arrives.
Lose(c) ==
    /\ conn[c] \in {"open", "closing"}
    /\ Cut(c, "dying")
    /\ UNCHANGED <<server, paneVars, callVars>>

\* detachPane, for a set of records: drop them, and sweep every pending call.
Detach(cs) ==
    /\ attached' = attached \ cs
    /\ Settle(pending, "disconnect")
    /\ pending' = {}
    /\ UNCHANGED <<greeted, order, sentTo>>

DetachIfGreeted(c) ==
    IF greeted[c] THEN Detach({c}) ELSE UNCHANGED <<paneVars, callVars>>

\* The "error" event of a socket; its close event follows.
SocketError(c) ==
    /\ conn[c] \in {"open", "closing"}
    /\ Cut(c, "dying")
    /\ DetachIfGreeted(c)
    /\ UNCHANGED server

\* Mutant of SocketClosed: a pane with calls under way keeps its record.
SocketClosed_KeepsRecord(c) ==
    /\ conn[c] \in {"closing", "dying"}
    /\ Cut(c, "closed")
    /\ IF greeted[c] /\ pending = {} THEN Detach({c}) ELSE UNCHANGED <<paneVars, callVars>>
    /\ UNCHANGED server

\* The "close" event of a socket.
SocketClosed(c) ==
    /\ conn[c] \in {"closing", "dying"}
    /\ Cut(c, "closed")
    /\ DetachIfGreeted(c)
    /\ UNCHANGED server

(***************************************************************************)
(* The heartbeat walks `panes' and terminates and detaches records whose   *)
(* socket is not OPEN.  Detaching splices the array under the walk, so the *)
(* record after a detached one is not looked at.                           *)
(***************************************************************************)
Place(c) == Cardinality({d \in attached : order[d] <= order[c]})

Swept ==
    LET dead == {Place(c) : c \in {d \in attached : conn[d] # "open"}}
        gone[i \in 0..Cardinality(attached)] == i \in dead /\ ~gone[i - 1]
    IN  {c \in attached : gone[Place(c)]}

Heartbeat ==
    /\ server = "listening"
    /\ Swept # {}
    /\ Detach(Swept)
    /\ conn' = [c \in Conns |-> IF c \in Swept THEN "dying" ELSE conn[c]]
    /\ inbox' = [c \in Conns |-> IF c \in Swept THEN <<>> ELSE inbox[c]]
    /\ outbox' = [c \in Conns |-> IF c \in Swept THEN <<>> ELSE outbox[c]]
    /\ UNCHANGED <<server, current, workVars>>

-----------------------------------------------------------------------------
Candidates(host) == {c \in attached : HostOf[PaneOf[c]] = host}

\* findPane: the record with the latest connectedAt.
FindPane(host) ==
    CHOOSE c \in Candidates(host) : \A d \in Candidates(host) :
        order[d] <= order[c]

\* normalizeAdvertisedOps and the capability gate: known ops of the pane's
\* host, or the v1 ops when none is left.
Supports(c, op) ==
    LET p == PaneOf[c]
        known == {o \in Advertised[p] \cap Catalog : OpHost[o] = HostOf[p]}
    IN  IF known # {} THEN op \in known ELSE op \in V1Ops

\* callOfficeTool, when it settles the call at once.
Refused(k, how) ==
    /\ outcome[k] = "none" /\ sentTo[k] = NoConn /\ k \notin pending
    /\ Settle({k}, how)
    /\ UNCHANGED <<server, conn, paneVars, netVars, pending, sentTo>>

CallNoPane(k) ==
    /\ Candidates(OpHost[OpOf[k]]) = {}
    /\ Refused(k, "nopane")

CallGated(k) ==
    /\ Candidates(OpHost[OpOf[k]]) # {}
    /\ ~Supports(FindPane(OpHost[OpOf[k]]), OpOf[k])
    /\ Refused(k, "gated")

\* The caller's signal has fired before the call, or the pane's socket is no
\* longer open: nothing is sent.
CallUnsent(k) ==
    LET host == OpHost[OpOf[k]]
    IN  /\ Candidates(host) # {}
        /\ Supports(FindPane(host), OpOf[k])
        /\ \/ Refused(k, "aborted")
           \/ conn[FindPane(host)] # "open" /\ Refused(k, "unsent")

\* Mutant of CallSent: the call is sent before it is put into `pending', and
\* an exception in between loses it.
CallSent_NotPending(k) ==
    LET host == OpHost[OpOf[k]]
        c == FindPane(host)
    IN  /\ outcome[k] = "none" /\ sentTo[k] = NoConn /\ k \notin pending
        /\ Candidates(host) # {}
        /\ Supports(c, OpOf[k])
        /\ conn[c] = "open"
        /\ sentTo' = [sentTo EXCEPT ![k] = c]
        /\ inbox' = [inbox EXCEPT ![c] = Append(@, k)]
        /\ UNCHANGED <<server, conn, paneVars, current, outbox, workVars, outcome, pending>>

\* callOfficeTool: the call waits in `pending', with its timer, for an answer.
CallSent(k) ==
    LET host == OpHost[OpOf[k]]
        c == FindPane(host)
    IN  /\ outcome[k] = "none" /\ sentTo[k] = NoConn /\ k \notin pending
        /\ Candidates(host) # {}
        /\ Supports(c, OpOf[k])
        /\ conn[c] = "open"
        /\ pending' = pending \cup {k}
        /\ sentTo' = [sentTo EXCEPT ![k] = c]
        /\ inbox' = [inbox EXCEPT ![c] = Append(@, k)]
        /\ UNCHANGED <<server, conn, paneVars, current, outbox, workVars, outcome>>

\* The call's timer, or its caller's signal, while it is pending.
GiveUp(k) ==
    /\ k \in pending
    /\ pending' = pending \ {k}
    /\ \E how \in {"timeout", "aborted"} : Settle({k}, how)
    /\ UNCHANGED <<server, conn, paneVars, netVars, sentTo>>

-----------------------------------------------------------------------------
\* The pane takes the next call from the socket it uses and starts its
\* executor.
PaneReceives(c) ==
    LET p == PaneOf[c]
    IN  /\ current[p] = c
        /\ conn[c] \in {"open", "closing"}
        /\ inbox[c] # <<>>
        /\ running' = [running EXCEPT ![p] = @ \cup {Head(inbox[c])}]
        /\ inbox' = [inbox EXCEPT ![c] = Tail(@)]
        /\ UNCHANGED <<server, conn, paneVars, current, outbox, answer, callVars>>

\* An executor ends.  Its answer goes over the socket the pane uses now, and
\* is dropped when that is not open.
PaneAnswers(p, k) ==
    LET c == current[p]
    IN  /\ k \in running[p]
        /\ running' = [running EXCEPT ![p] = @ \ {k}]
        /\ \E how \in {"ok", "failed"} :
              /\ answer' = [answer EXCEPT ![k] = how]
              /\ outbox' = IF conn[c] \in {"open", "closing"}
                           THEN [outbox EXCEPT ![c] = Append(@, [id |-> k, ok |-> how = "ok"])]
                           ELSE outbox
        /\ UNCHANGED <<server, conn, paneVars, current, inbox, callVars>>

\* Mutant of HandleToolResult: the answer's ok flag is not looked at.
HandleToolResult_AnyOutcome(c) ==
    LET msg == Head(outbox[c])
    IN  /\ outbox[c] # <<>>
        /\ greeted[c]
        /\ conn[c] # "closed"
        /\ outbox' = [outbox EXCEPT ![c] = Tail(@)]
        /\ pending' = pending \ {msg.id}
        /\ Settle({msg.id}, "ok")
        /\ UNCHANGED <<server, conn, paneVars, current, inbox, workVars, sentTo>>

\* handleToolResult: unknown ids are ignored; an answer over a socket that is
\* not attached rejects the call and leaves it in `pending'.
HandleToolResult(c) ==
    LET msg == Head(outbox[c])
    IN  /\ outbox[c] # <<>>
        /\ greeted[c]
        /\ conn[c] # "closed"
        /\ outbox' = [outbox EXCEPT ![c] = Tail(@)]
        /\ IF msg.id \notin pending
           THEN UNCHANGED <<pending, outcome>>
           ELSE IF c \notin attached
           THEN Settle({msg.id}, "detached") /\ UNCHANGED pending
           ELSE /\ pending' = pending \ {msg.id}
                /\ Settle({msg.id}, IF msg.ok THEN "ok" ELSE "failed")
        /\ UNCHANGED <<server, conn, paneVars, current, inbox, workVars, sentTo>>

CallStep(k) ==
    CallNoPane(k) \/ CallGated(k) \/ CallUnsent(k) \/ CallSent(k) \/ GiveUp(k)

SocketStep(c) ==
    \/ Connect(c) \/ HelloTimeout(c) \/ HelloOutdated(c) \/ Hello(c)
    \/ Lose(c) \/ SocketError(c) \/ SocketClosed(c)
    \/ PaneReceives(c) \/ HandleToolResult(c)

Next ==
    \/ Start \/ Listening \/ Stop \/ Heartbeat
    \/ \E k \in Calls : CallStep(k)
    \/ \E c \in Conns : SocketStep(c)
    \/ \E p \in Panes, k \in Calls : PaneAnswers(p, k)

Spec == Init /\ [][Next]_vars

\* Timers fire, and a socket that ends gets its close event.
Fairness ==
    /\ \A k \in Calls : WF_vars(GiveUp(k))
    /\ \A c \in Conns : WF_vars(SocketClosed(c))

FairSpec == Spec /\ Fairness
-----------------------------------------------------------------------------
(***************************************************************************)
(* A call that went out and has no result yet is in `pending': whichever   *)
(* of the answer, the timer, the abort, the sweep and the stop comes first *)
(* finds it there (callOfficeTool, detachPane, stop).                      *)
(***************************************************************************)
UnsettledIsPending ==
    \A k \in Calls : sentTo[k] # NoConn /\ outcome[k] = "none" => k \in pending

(***************************************************************************)
(* Pi is told that an operation succeeded or failed only when the executor *)
(* in the pane returned just that, across reconnects, replaced records and *)
(* answers that come after a timeout (handleToolResult).                   *)
(***************************************************************************)
ResolvedAsAnswered ==
    \A k \in Calls : outcome[k] \in {"ok", "failed"} => answer[k] = outcome[k]

\* Of the records in `panes' no two have the same paneId: a pane that
\* reconnects is listed once (the hello handler).
OnePanePerId ==
    \A c, d \in attached : PaneOf[c] = PaneOf[d] => c = d

(***************************************************************************)
(* `panes' lists no socket whose close event has run, in whatever order    *)
(* stop, hello timer, a late hello, errors, the heartbeat and the close    *)
(* events come: a record that outlived its socket would take calls until   *)
(* the next heartbeat (handleConnection, detachPane).                      *)
(***************************************************************************)
NoDeadRecord == \A c \in attached : conn[c] # "closed"

(***************************************************************************)
(* An operation on the workbook is started at most once: what a pane takes *)
(* in neither runs nor has run, in it or in another pane, whatever         *)
(* reconnects, replaced records, timeouts and late answers there are.      *)
(* (PaneBridgeClient executes every tool_call it receives; callOfficeTool  *)
(* sends each id once.)                                                    *)
(***************************************************************************)
StartsOnce ==
    [][\A p \in Panes : \A k \in running'[p] \ running[p] :
          answer[k] = "none" /\ \A q \in Panes : k \notin running[q]]_vars

\* A pane that advertises ops is sent only those (the capability gate).  The
\* code does not keep this: normalizeAdvertisedOps takes a list of which it
\* knows nothing for no list, and allows the v1 ops.
OnlyAdvertised ==
    \A k \in Calls : sentTo[k] # NoConn =>
        LET ops == Advertised[PaneOf[sentTo[k]]] IN ops # {} => OpOf[k] \in ops

\* A call "rejects when [...] the pane disconnects" (callOfficeTool): only
\* the end of the connection it was sent on rejects a call in that way.  The
\* code does not keep this: detachPane rejects the calls of all panes.
OnlyOwnDisconnect ==
    [][\A k \in Calls : outcome[k] = "none" /\ outcome'[k] = "disconnect" =>
          conn'[sentTo[k]] # "open"]_vars

\* stop(): "Close the server and drop all panes".  The code does not keep this:
\* a hello that arrives after stop() attaches its pane again.
StoppedHasNoPanes == server = "stopped" => attached = {}

\* Every call that went out settles (the timer of callOfficeTool).
CallSettles ==
    \A k \in Calls : sentTo[k] # NoConn ~> outcome[k] # "none"
=============================================================================
