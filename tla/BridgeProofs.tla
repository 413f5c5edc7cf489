----------------------------- MODULE BridgeProofs -----------------------------
(***************************************************************************)
(* What holds of the bridge server and of the Pi session that runs it, for *)
(* all sets of panes, calls and ops and every finite set of sockets.       *)
(*                                                                         *)
(* The first part is about BridgeServer.  Its records and its calls need   *)
(* little more than their types; that Pi is told what the executor         *)
(* returned needs a call to be in one place only, which the invariant      *)
(* Delivered says.  The second part shows that a Pi session takes only     *)
(* steps of the server, so that all of this holds in it, and follows the   *)
(* session's phases.                                                       *)
(***************************************************************************)
EXTENDS PiBridgeSession, FiniteSetTheorems, TLAPS

Answers == {"none", "ok", "failed"}
Messages == [id : Calls, ok : BOOLEAN]

\* The values the server's variables take.
ServerTypes ==
    /\ server \in {"new", "starting", "listening", "unbound", "stopped"}
    /\ conn \in [Conns -> {"new", "open", "closing", "dying", "closed"}]
    /\ greeted \in [Conns -> BOOLEAN]
    /\ attached \in SUBSET Conns
    /\ order \in [Conns -> Nat]
    /\ current \in [Panes -> Conns \cup {NoConn}]
    /\ inbox \in [Conns -> Seq(Calls)]
    /\ outbox \in [Conns -> Seq(Messages)]
    /\ running \in [Panes -> SUBSET Calls]
    /\ answer \in [Calls -> Answers]
    /\ pending \in SUBSET Calls
    /\ outcome \in [Calls -> Outcomes]
    /\ sentTo \in [Calls -> Conns \cup {NoConn}]

\* The records: a socket with one has said hello and is not closed, and no
\* pane has two.
Records ==
    /\ \A c \in attached : greeted[c]
    /\ NoDeadRecord
    /\ OnePanePerId

\* A call is under way to its pane once, or runs there, or has its answer.
Delivered ==
    /\ \A k \in Calls : sentTo[k] = NoConn => answer[k] = "none"
    /\ \A c \in Conns : \A i \in 1..Len(inbox[c]) :
          /\ sentTo[inbox[c][i]] = c
          /\ answer[inbox[c][i]] = "none"
          /\ inbox[c][i] \notin running[PaneOf[c]]
          /\ \A j \in 1..Len(inbox[c]) : inbox[c][i] = inbox[c][j] => i = j
    /\ \A p \in Panes : \A k \in running[p] :
          /\ sentTo[k] # NoConn
          /\ PaneOf[sentTo[k]] = p
          /\ answer[k] = "none"

\* What comes back over a socket is what the executor returned.
Truthful ==
    \A c \in Conns : \A i \in 1..Len(outbox[c]) :
        answer[outbox[c][i].id] = IF outbox[c][i].ok THEN "ok" ELSE "failed"

ServerInv ==
    ServerTypes /\ Records /\ UnsettledIsPending /\ Delivered /\ Truthful /\ ResolvedAsAnswered
-----------------------------------------------------------------------------
\* Of finitely many numbered things one has the largest number.  (By taking a
\* smallest set without one.)
LEMMA LatestExists ==
    ASSUME NEW S, IsFiniteSet(S), S # {}, NEW f, \A x \in S : f[x] \in Nat
    PROVE  \E x \in S : \A y \in S : f[y] <= f[x]
<1> DEFINE Bad == {T \in SUBSET S : T # {} /\ ~\E x \in T : \A y \in T : f[y] <= f[x]}
           R == StrictSubsetOrdering(S)
<1> SUFFICES ASSUME S \in Bad PROVE FALSE
  OBVIOUS
<1>1. IsWellFoundedOn(R, SUBSET S)
  BY FS_StrictSubsetOrderingWellFounded, FS_FiniteSubsetsOfFinite
<1>2. PICK T \in Bad : \A U \in Bad : <<U, T>> \notin R
  <2>1. Bad \subseteq SUBSET S /\ Bad # {}
    OBVIOUS
  <2> HIDE DEF Bad, R
  <2> QED BY <1>1, <2>1, WFMin
<1>3. PICK x \in T : TRUE
  OBVIOUS
<1>4. T \ {x} \notin Bad
  <2>1. <<T \ {x}, T>> \in R
    BY <1>3 DEF StrictSubsetOrdering
  <2> HIDE DEF Bad, R
  <2> QED BY <1>2, <2>1
<1>5. CASE T \ {x} = {}
  BY <1>3, <1>5
<1>6. CASE T \ {x} # {}
  <2>1. PICK m \in T \ {x} : \A y \in T \ {x} : f[y] <= f[m]
    BY <1>4, <1>6
  <2>2. f[x] \in Nat /\ f[m] \in Nat /\ \A y \in T : f[y] \in Nat
    BY <1>3, <2>1
  <2>3. CASE f[x] <= f[m]
    BY <2>1, <2>3
  <2>4. CASE ~(f[x] <= f[m])
    <3>1. \A y \in T : f[y] <= f[x]
      BY <2>1, <2>2, <2>4
    <3> QED BY <1>3, <3>1
  <2> QED BY <2>3, <2>4
<1> QED BY <1>5, <1>6

\* findPane finds a record when there is one for the host.
LEMMA FoundIsAttached ==
    ASSUME ServerTypes, NEW host, Candidates(host) # {}
    PROVE  FindPane(host) \in Candidates(host)
<1>1. IsFiniteSet(Candidates(host))
  <2>1. Candidates(host) \in SUBSET Conns
    BY DEF Candidates, ServerTypes
  <2> QED BY <2>1, BridgeAssumption, FS_Subset
<1>2. \A c \in Candidates(host) : order[c] \in Nat
  BY DEF Candidates, ServerTypes
<1>3. \E c \in Candidates(host) : \A d \in Candidates(host) : order[d] <= order[c]
  BY <1>1, <1>2, LatestExists
<1> QED BY <1>3 DEF FindPane

\* The next place in the order of the hellos is a number.
LEMMA NextPlace ==
    ASSUME ServerTypes, NEW c \in Conns
    PROVE  1 + Maximum({order[d] : d \in Conns}) \in Nat
<1>1. \A d \in Conns : order[d] \in Nat
  BY DEF ServerTypes
<1>2. \E d \in Conns : \A e \in Conns : order[e] <= order[d]
  BY <1>1, BridgeAssumption, LatestExists
<1>3. \E x \in {order[d] : d \in Conns} : \A y \in {order[d] : d \in Conns} : y <= x
  BY <1>2
<1>4. Maximum({order[d] : d \in Conns}) \in {order[d] : d \in Conns}
  BY <1>3 DEF Maximum
<1> QED BY <1>1, <1>4

-----------------------------------------------------------------------------
\* What settling calls does to the outcomes.
LEMMA Settled ==
    ASSUME ServerTypes, NEW ks, NEW how \in Outcomes, Settle(ks, how)
    PROVE  /\ outcome' \in [Calls -> Outcomes]
           /\ \A k \in Calls : outcome'[k] = IF k \in ks /\ outcome[k] = "none"
                                            THEN how ELSE outcome[k]
BY DEF Settle, ServerTypes

\* Cutting a socket keeps the types of what it changes.
LEMMA CutTypes ==
    ASSUME ServerTypes, NEW c \in Conns, NEW how \in {"dying", "closed"}, Cut(c, how)
    PROVE  /\ conn' \in [Conns -> {"new", "open", "closing", "dying", "closed"}]
           /\ inbox' \in [Conns -> Seq(Calls)]
           /\ outbox' \in [Conns -> Seq(Messages)]
           /\ UNCHANGED <<current, running, answer>>
BY DEF Cut, ServerTypes, workVars

\* So does detaching records.
LEMMA DetachTypes ==
    ASSUME ServerTypes, NEW cs,
           Detach(cs) \/ UNCHANGED <<paneVars, callVars>>
    PROVE  /\ UNCHANGED <<greeted, order, sentTo>>
           /\ attached' \in SUBSET attached
           /\ pending' \in SUBSET Calls
           /\ outcome' \in [Calls -> Outcomes]
<1>1. CASE Detach(cs)
  <2>1. outcome' \in [Calls -> Outcomes]
    BY <1>1, Settled DEF Detach, Outcomes
  <2> QED BY <1>1, <2>1 DEF Detach
<1>2. CASE UNCHANGED <<paneVars, callVars>>
  BY <1>2 DEF paneVars, callVars, ServerTypes
<1> QED BY <1>1, <1>2

\* The server's part of a step keeps the types.
LEMMA ServerStepTypes ==
    ASSUME ServerTypes, Start \/ Listening \/ Stop \/ Heartbeat
    PROVE  ServerTypes'
<1>1. CASE Start \/ Listening
  BY <1>1 DEF Start, Listening, ServerTypes, paneVars, netVars, callVars, workVars
<1>2. CASE Stop
  <2>1. outcome' \in [Calls -> Outcomes]
    BY <1>2, Settled DEF Stop, Outcomes
  <2> QED BY <1>2, <2>1 DEF Stop, ServerTypes, netVars, workVars
<1>3. CASE Heartbeat
  <2>1. /\ UNCHANGED <<greeted, order, sentTo>>
        /\ attached' \in SUBSET attached
        /\ pending' \in SUBSET Calls
        /\ outcome' \in [Calls -> Outcomes]
    BY <1>3, DetachTypes DEF Heartbeat
  <2>2. /\ conn' = [c \in Conns |-> IF c \in Swept THEN "dying" ELSE conn[c]]
        /\ inbox' = [c \in Conns |-> IF c \in Swept THEN <<>> ELSE inbox[c]]
        /\ outbox' = [c \in Conns |-> IF c \in Swept THEN <<>> ELSE outbox[c]]
        /\ UNCHANGED <<server, current, running, answer>>
    BY <1>3 DEF Heartbeat, workVars
  <2> QED BY <2>1, <2>2 DEF ServerTypes
<1> QED BY <1>1, <1>2, <1>3

\* So does a call's.
LEMMA CallStepTypes ==
    ASSUME ServerTypes, NEW k \in Calls, CallStep(k)
    PROVE  ServerTypes'
<1>1. ASSUME NEW how \in Outcomes, Refused(k, how) PROVE ServerTypes'
  <2>1. outcome' \in [Calls -> Outcomes]
    BY <1>1, Settled DEF Refused
  <2> QED BY <1>1, <2>1 DEF Refused, ServerTypes, paneVars, netVars, workVars
<1>2. CASE CallNoPane(k) \/ CallGated(k) \/ CallUnsent(k)
  BY <1>1, <1>2 DEF CallNoPane, CallGated, CallUnsent, Outcomes
<1>3. CASE CallSent(k)
  <2> DEFINE c == FindPane(OpHost[OpOf[k]])
  <2>1. c \in Conns
    BY <1>3, FoundIsAttached DEF CallSent, Candidates, ServerTypes
  <2>2. /\ pending' = pending \cup {k}
        /\ sentTo' = [sentTo EXCEPT ![k] = c]
        /\ inbox' = [inbox EXCEPT ![c] = Append(@, k)]
        /\ UNCHANGED <<server, conn, paneVars, current, outbox, workVars, outcome>>
    BY <1>3 DEF CallSent
  <2> HIDE DEF c
  <2> QED BY <2>1, <2>2 DEF ServerTypes, paneVars, workVars
<1>4. CASE GiveUp(k)
  <2>1. outcome' \in [Calls -> Outcomes]
    BY <1>4, Settled DEF GiveUp, Outcomes
  <2> QED BY <1>4, <2>1 DEF GiveUp, ServerTypes, paneVars, netVars, workVars
<1> QED BY <1>2, <1>3, <1>4 DEF CallStep

\* So does a socket's.
LEMMA SocketStepTypes ==
    ASSUME ServerTypes, NEW c \in Conns, SocketStep(c)
    PROVE  ServerTypes'
<1>1. CASE Connect(c) \/ HelloTimeout(c) \/ HelloOutdated(c)
  <2>1. CASE Connect(c)
    <3>1. /\ conn' = [conn EXCEPT ![c] = "open"]
          /\ current' = [current EXCEPT ![PaneOf[c]] = c]
          /\ UNCHANGED <<server, paneVars, outbox, workVars, callVars>>
      BY <2>1 DEF Connect
    <3>2. inbox' = [d \in Conns |-> IF d = current[PaneOf[c]] THEN <<>> ELSE inbox[d]]
      BY <2>1 DEF Connect
    <3>3. inbox' \in [Conns -> Seq(Calls)]
      BY <3>2 DEF ServerTypes
    <3> QED BY <3>1, <3>3 DEF ServerTypes, paneVars, workVars, callVars
  <2>2. CASE HelloTimeout(c) \/ HelloOutdated(c)
    BY <2>2 DEF HelloTimeout, HelloOutdated, ServerTypes, paneVars, netVars, workVars,
                callVars
  <2> QED BY <1>1, <2>1, <2>2
<1>2. CASE Hello(c)
  BY <1>2, NextPlace DEF Hello, ServerTypes, netVars, workVars, callVars
<1>3. CASE Lose(c)
  BY <1>3, CutTypes DEF Lose, ServerTypes, paneVars, callVars
<1>4. CASE SocketError(c) \/ SocketClosed(c)
  <2>1. /\ UNCHANGED <<greeted, order, sentTo>>
        /\ attached' \in SUBSET attached
        /\ pending' \in SUBSET Calls
        /\ outcome' \in [Calls -> Outcomes]
    BY <1>4, DetachTypes DEF SocketError, SocketClosed, DetachIfGreeted
  <2> QED BY <1>4, <2>1, CutTypes DEF SocketError, SocketClosed, ServerTypes
<1>5. CASE PaneReceives(c)
  <2>1. PaneOf[c] \in Panes /\ inbox[c] \in Seq(Calls) /\ inbox[c] # <<>>
    BY <1>5, BridgeAssumption DEF PaneReceives, ServerTypes
  <2>2. Head(inbox[c]) \in Calls /\ Tail(inbox[c]) \in Seq(Calls)
    BY <2>1
  <2> QED BY <1>5, <2>1, <2>2 DEF PaneReceives, ServerTypes, paneVars, callVars
<1>6. CASE HandleToolResult(c)
  <2>1. outbox[c] \in Seq(Messages) /\ outbox[c] # <<>>
    BY <1>6 DEF HandleToolResult, ServerTypes
  <2>2. Tail(outbox[c]) \in Seq(Messages)
    BY <2>1
  <2>3. outcome' \in [Calls -> Outcomes]
    BY <1>6, Settled DEF HandleToolResult, Outcomes, ServerTypes
  <2> QED BY <1>6, <2>2, <2>3 DEF HandleToolResult, ServerTypes, paneVars, workVars
<1> QED BY <1>1, <1>2, <1>3, <1>4, <1>5, <1>6 DEF SocketStep

\* So does a pane's.
LEMMA PaneAnswersTypes ==
    ASSUME ServerTypes, NEW p \in Panes, NEW k \in Calls, PaneAnswers(p, k)
    PROVE  ServerTypes'
<1> DEFINE c == current[p]
<1>1. PICK how \in {"ok", "failed"} :
          /\ answer' = [answer EXCEPT ![k] = how]
          /\ outbox' = IF conn[c] \in {"open", "closing"}
                       THEN [outbox EXCEPT ![c] = Append(@, [id |-> k, ok |-> how = "ok"])]
                       ELSE outbox
  BY DEF PaneAnswers
<1>2. [id |-> k, ok |-> how = "ok"] \in Messages
  BY DEF Messages
<1>3. outbox' \in [Conns -> Seq(Messages)]
  <2> DEFINE m == [id |-> k, ok |-> how = "ok"]
  <2>1. outbox' = outbox \/ outbox' = [outbox EXCEPT ![c] = Append(outbox[c], m)]
    BY <1>1
  <2>2. m \in Messages
    BY <1>2
  <2> HIDE DEF m, c
  <2>3. outbox \in [Conns -> Seq(Messages)]
    BY DEF ServerTypes
  <2>4. CASE c \in Conns
    <3>1. Append(outbox[c], m) \in Seq(Messages)
      BY <2>2, <2>3, <2>4
    <3> QED BY <2>1, <2>3, <3>1
  <2>5. CASE c \notin Conns
    BY <2>1, <2>3, <2>5
  <2> QED BY <2>4, <2>5
<1>4. answer' \in [Calls -> Answers]
  BY <1>1 DEF ServerTypes, Answers
<1>5. /\ running' = [running EXCEPT ![p] = @ \ {k}]
      /\ UNCHANGED <<server, conn, paneVars, current, inbox, callVars>>
  BY DEF PaneAnswers
<1> QED BY <1>3, <1>4, <1>5 DEF ServerTypes, paneVars, callVars

LEMMA StepTypes == ServerTypes /\ [Next]_vars => ServerTypes'
<1> SUFFICES ASSUME ServerTypes, [Next]_vars PROVE ServerTypes'
  OBVIOUS
<1>1. CASE UNCHANGED vars
  BY <1>1 DEF vars, paneVars, netVars, workVars, callVars, ServerTypes
<1> QED BY <1>1, ServerStepTypes, CallStepTypes, SocketStepTypes, PaneAnswersTypes DEF Next

-----------------------------------------------------------------------------
\* Records that only go, from sockets that do not close, keep in order.
LEMMA FewerRecords ==
    ASSUME Records, attached' \subseteq attached,
           \A c \in attached' : greeted'[c] /\ conn'[c] # "closed"
    PROVE  Records'
BY DEF Records, NoDeadRecord, OnePanePerId

\* Every step keeps the records in order.
LEMMA StepRecords == ServerTypes /\ Records /\ [Next]_vars => Records'
<1> SUFFICES ASSUME ServerTypes, Records, [Next]_vars PROVE Records'
  OBVIOUS
<1>1. CASE UNCHANGED <<attached, greeted, conn>>
  BY <1>1, FewerRecords DEF Records, NoDeadRecord
<1>2. CASE Start \/ Listening \/ UNCHANGED vars
  BY <1>1, <1>2 DEF Start, Listening, vars, paneVars
<1>3. CASE Stop
  BY <1>3, FewerRecords DEF Stop
<1>4. CASE Heartbeat
  <2>1. attached' = attached \ Swept /\ UNCHANGED greeted
    BY <1>4 DEF Heartbeat, Detach
  <2>2. \A c \in attached \ Swept : conn'[c] = conn[c]
    BY <1>4 DEF Heartbeat, ServerTypes
  <2> QED BY <2>1, <2>2, FewerRecords DEF Records, NoDeadRecord
<1>5. ASSUME NEW k \in Calls, CallStep(k) PROVE Records'
  <2>1. UNCHANGED <<attached, greeted, conn>>
    BY <1>5 DEF CallStep, CallNoPane, CallGated, CallUnsent, CallSent, GiveUp, Refused,
                paneVars
  <2> QED BY <1>1, <2>1
<1>6. ASSUME NEW p \in Panes, NEW k \in Calls, PaneAnswers(p, k) PROVE Records'
  BY <1>1, <1>6 DEF PaneAnswers, paneVars
<1>7. ASSUME NEW c \in Conns, SocketStep(c) PROVE Records'
  <2>1. CASE PaneReceives(c) \/ HandleToolResult(c)
    BY <1>1, <2>1 DEF PaneReceives, HandleToolResult, paneVars
  <2>2. CASE Connect(c) \/ HelloTimeout(c) \/ HelloOutdated(c) \/ Lose(c)
    <3>1. UNCHANGED <<attached, greeted>>
      BY <2>2 DEF Connect, HelloTimeout, HelloOutdated, Lose, paneVars
    <3>2. \E how \in {"open", "closing", "dying"} : conn' = [conn EXCEPT ![c] = how]
      BY <2>2 DEF Connect, HelloTimeout, HelloOutdated, Lose, Cut
    <3> QED BY <3>1, <3>2, FewerRecords DEF Records, NoDeadRecord, ServerTypes
  <2>3. CASE Hello(c)
    <3>1. /\ attached' = {d \in attached : PaneOf[d] # PaneOf[c]} \cup {c}
          /\ greeted' = [greeted EXCEPT ![c] = TRUE]
          /\ conn' = conn /\ conn[c] # "closed"
      BY <2>3 DEF Hello
    <3> QED BY <3>1 DEF Records, NoDeadRecord, OnePanePerId, ServerTypes
  <2>4. CASE SocketError(c)
    <3>1. attached' \subseteq attached /\ UNCHANGED greeted
      BY <2>4, DetachTypes DEF SocketError, DetachIfGreeted
    <3>2. conn' = [conn EXCEPT ![c] = "dying"]
      BY <2>4 DEF SocketError, Cut
    <3> QED BY <3>1, <3>2, FewerRecords DEF Records, NoDeadRecord, ServerTypes
  <2>5. CASE SocketClosed(c)
    <3>1. attached' \subseteq attached /\ UNCHANGED greeted
      BY <2>5, DetachTypes DEF SocketClosed, DetachIfGreeted
    <3>2. c \notin attached'
      BY <2>5, <3>1 DEF SocketClosed, DetachIfGreeted, Detach, Records
    <3>3. conn' = [conn EXCEPT ![c] = "closed"]
      BY <2>5 DEF SocketClosed, Cut
    <3> QED BY <3>1, <3>2, <3>3, FewerRecords DEF Records, NoDeadRecord, ServerTypes
  <2> QED BY <1>7, <2>1, <2>2, <2>3, <2>4, <2>5 DEF SocketStep
<1> QED BY <1>2, <1>3, <1>4, <1>5, <1>6, <1>7 DEF Next

\* A call that is swept, stopped or detached with the others gets its outcome.
LEMMA SweptAreSettled ==
    ASSUME ServerTypes, UnsettledIsPending, NEW how \in Outcomes \ {"none"},
           Settle(pending, how), UNCHANGED sentTo
    PROVE  UnsettledIsPending'
BY Settled DEF UnsettledIsPending

\* Every step keeps a call without a result in `pending'.
LEMMA StepUnsettled == ServerTypes /\ UnsettledIsPending /\ [Next]_vars => UnsettledIsPending'
<1> SUFFICES ASSUME ServerTypes, UnsettledIsPending, [Next]_vars PROVE UnsettledIsPending'
  OBVIOUS
<1>1. CASE UNCHANGED callVars
  BY <1>1 DEF callVars, UnsettledIsPending
<1>2. ASSUME NEW cs, Detach(cs) PROVE UnsettledIsPending'
  BY <1>2, SweptAreSettled DEF Detach, Outcomes
<1>3. CASE Start \/ Listening \/ UNCHANGED vars
  BY <1>1, <1>3 DEF Start, Listening, vars
<1>4. CASE Stop
  BY <1>4, SweptAreSettled DEF Stop, Outcomes
<1>5. CASE Heartbeat
  BY <1>2, <1>5 DEF Heartbeat
<1>6. ASSUME NEW p \in Panes, NEW k \in Calls, PaneAnswers(p, k) PROVE UnsettledIsPending'
  BY <1>1, <1>6 DEF PaneAnswers
<1>7. ASSUME NEW k \in Calls, CallStep(k) PROVE UnsettledIsPending'
  <2>1. ASSUME NEW how \in Outcomes, Refused(k, how) PROVE UnsettledIsPending'
    BY <2>1, Settled DEF Refused, UnsettledIsPending
  <2>2. CASE CallNoPane(k) \/ CallGated(k) \/ CallUnsent(k)
    BY <2>1, <2>2 DEF CallNoPane, CallGated, CallUnsent, Outcomes
  <2>3. CASE CallSent(k)
    BY <2>3 DEF CallSent, UnsettledIsPending, ServerTypes
  <2>4. CASE GiveUp(k)
    <3>1. PICK how \in {"timeout", "aborted"} : Settle({k}, how)
      BY <2>4 DEF GiveUp
    <3>2. how \in Outcomes /\ how # "none"
      BY DEF Outcomes
    <3> QED BY <2>4, <3>1, <3>2, Settled DEF GiveUp, UnsettledIsPending
  <2> QED BY <1>7, <2>2, <2>3, <2>4 DEF CallStep
<1>8. ASSUME NEW c \in Conns, SocketStep(c) PROVE UnsettledIsPending'
  <2>1. CASE Connect(c) \/ HelloTimeout(c) \/ HelloOutdated(c) \/ Hello(c) \/ Lose(c)
             \/ PaneReceives(c)
    BY <1>1, <2>1 DEF Connect, HelloTimeout, HelloOutdated, Hello, Lose, PaneReceives
  <2>2. CASE SocketError(c) \/ SocketClosed(c)
    BY <1>1, <1>2, <2>2 DEF SocketError, SocketClosed, DetachIfGreeted, callVars
  <2>3. CASE HandleToolResult(c)
    <3> DEFINE k == Head(outbox[c]).id
    <3>1. \/ UNCHANGED <<pending, outcome>>
          \/ Settle({k}, "detached") /\ UNCHANGED pending
          \/ /\ pending' = pending \ {k}
             /\ \E how \in {"ok", "failed"} : Settle({k}, how)
      BY <2>3 DEF HandleToolResult
    <3>2. sentTo' = sentTo
      BY <2>3 DEF HandleToolResult
    <3> HIDE DEF k
    <3>3. CASE UNCHANGED <<pending, outcome>>
      BY <3>2, <3>3 DEF UnsettledIsPending
    <3>4. CASE Settle({k}, "detached") /\ UNCHANGED pending
      BY <3>2, <3>4, Settled DEF UnsettledIsPending, Outcomes
    <3>5. ASSUME NEW how \in {"ok", "failed"}, Settle({k}, how), pending' = pending \ {k}
          PROVE  UnsettledIsPending'
      <4>1. how \in Outcomes /\ how # "none"
        BY DEF Outcomes
      <4> QED BY <3>2, <3>5, <4>1, Settled DEF UnsettledIsPending
    <3> QED BY <3>1, <3>3, <3>4, <3>5
  <2> QED BY <1>8, <2>1, <2>2, <2>3 DEF SocketStep
<1> QED BY <1>3, <1>4, <1>5, <1>6, <1>7, <1>8 DEF Next

-----------------------------------------------------------------------------
\* What is lost on its way, or taken in, breaks nothing.
LEMMA LostMessages ==
    ASSUME Delivered, Truthful, ServerTypes,
           UNCHANGED <<sentTo, running, answer>>,
           \A c \in Conns : inbox'[c] = inbox[c] \/ inbox'[c] = <<>>,
           \A c \in Conns : \/ outbox'[c] = outbox[c]
                            \/ outbox'[c] = <<>>
                            \/ outbox[c] # <<>> /\ outbox'[c] = Tail(outbox[c])
    PROVE  Delivered' /\ Truthful'
<1>1. Delivered'
  <2>1. ASSUME NEW c \in Conns, NEW i \in 1..Len(inbox'[c])
        PROVE  inbox'[c] = inbox[c]
    BY <2>1
  <2>2. ASSUME NEW c \in Conns, NEW i \in 1..Len(inbox'[c])
        PROVE  /\ sentTo'[inbox'[c][i]] = c
               /\ answer'[inbox'[c][i]] = "none"
               /\ inbox'[c][i] \notin running'[PaneOf[c]]
               /\ \A j \in 1..Len(inbox'[c]) : inbox'[c][i] = inbox'[c][j] => i = j
    BY <2>1, <2>2 DEF Delivered
  <2> QED BY <2>2 DEF Delivered
<1>2. Truthful'
  <2>1. ASSUME NEW c \in Conns, NEW i \in 1..Len(outbox'[c])
        PROVE  answer[outbox'[c][i].id] = IF outbox'[c][i].ok THEN "ok" ELSE "failed"
    <3>1. CASE outbox'[c] = outbox[c]
      BY <2>1, <3>1 DEF Truthful
    <3>2. CASE outbox'[c] = <<>>
      BY <2>1, <3>2
    <3>3. CASE outbox[c] # <<>> /\ outbox'[c] = Tail(outbox[c])
      <4>1. outbox[c] \in Seq(Messages)
        BY DEF ServerTypes
      <4>2. i + 1 \in 1..Len(outbox[c]) /\ outbox'[c][i] = outbox[c][i + 1]
        BY <2>1, <3>3, <4>1
      <4> QED BY <4>2 DEF Truthful
    <3> QED BY <3>1, <3>2, <3>3
  <2> QED BY <2>1 DEF Truthful
<1> QED BY <1>1, <1>2

\* A call that goes out was nowhere before.
LEMMA SentOnce ==
    ASSUME Delivered, Truthful, ServerTypes, NEW k \in Calls, CallSent(k)
    PROVE  Delivered' /\ Truthful'
<1> DEFINE c == FindPane(OpHost[OpOf[k]])
<1>1. c \in Conns /\ c # NoConn
  BY FoundIsAttached, BridgeAssumption DEF CallSent, Candidates, ServerTypes
<1>2. /\ sentTo[k] = NoConn
      /\ sentTo' = [sentTo EXCEPT ![k] = c]
      /\ inbox' = [inbox EXCEPT ![c] = Append(@, k)]
      /\ UNCHANGED <<outbox, running, answer>>
  BY DEF CallSent, workVars
<1> HIDE DEF c
<1>3. answer[k] = "none" /\ \A p \in Panes : k \notin running[p]
  BY <1>2 DEF Delivered
<1>4. \A d \in Conns : inbox[d] \in Seq(Calls)
  BY DEF ServerTypes
<1>5. \A d \in Conns : \A i \in 1..Len(inbox[d]) : inbox[d][i] # k
  BY <1>2, BridgeAssumption DEF Delivered
<1>6. ASSUME NEW d \in Conns, NEW i \in 1..Len(inbox'[d])
      PROVE  /\ sentTo'[inbox'[d][i]] = d
             /\ answer'[inbox'[d][i]] = "none"
             /\ inbox'[d][i] \notin running'[PaneOf[d]]
             /\ \A j \in 1..Len(inbox'[d]) : inbox'[d][i] = inbox'[d][j] => i = j
  <2>1. CASE d # c
    <3>1. inbox'[d] = inbox[d]
      BY <1>2, <2>1 DEF ServerTypes
    <3>2. inbox[d][i] \in Calls /\ sentTo'[inbox[d][i]] = sentTo[inbox[d][i]]
      BY <1>2, <1>4, <1>5, <1>6, <3>1 DEF ServerTypes
    <3>3. i \in 1..Len(inbox[d])
      BY <3>1
    <3>4. /\ sentTo[inbox[d][i]] = d
          /\ answer[inbox[d][i]] = "none"
          /\ inbox[d][i] \notin running[PaneOf[d]]
          /\ \A j \in 1..Len(inbox[d]) : inbox[d][i] = inbox[d][j] => i = j
      BY <3>3 DEF Delivered
    <3> QED BY <1>2, <3>1, <3>2, <3>4
  <2>2. CASE d = c
    <3>1. inbox'[c] = Append(inbox[c], k)
      BY <1>1, <1>2 DEF ServerTypes
    <3>2. /\ Len(inbox'[c]) = Len(inbox[c]) + 1
          /\ inbox'[c][Len(inbox[c]) + 1] = k
          /\ \A j \in 1..Len(inbox[c]) : inbox'[c][j] = inbox[c][j]
          /\ Len(inbox[c]) \in Nat
      BY <1>1, <1>4, <3>1
    <3>3. \A j \in 1..Len(inbox[c]) :
             inbox[c][j] \in Calls /\ sentTo'[inbox[c][j]] = sentTo[inbox[c][j]]
      BY <1>1, <1>2, <1>4, <1>5 DEF ServerTypes
    <3>4. sentTo'[k] = c /\ PaneOf[c] \in Panes
      BY <1>1, <1>2, BridgeAssumption DEF ServerTypes
    <3>5. \A j \in 1..Len(inbox[c]) :
             /\ sentTo[inbox[c][j]] = c
             /\ answer[inbox[c][j]] = "none"
             /\ inbox[c][j] \notin running[PaneOf[c]]
             /\ \A m \in 1..Len(inbox[c]) : inbox[c][j] = inbox[c][m] => j = m
      BY <1>1 DEF Delivered
    <3>6. CASE i = Len(inbox[c]) + 1
      <4>1. inbox'[c][i] = k
        BY <3>2, <3>6
      <4>2. ASSUME NEW j \in 1..Len(inbox'[c]), inbox'[c][j] = k PROVE j = i
        BY <1>1, <1>5, <3>2, <3>6, <4>2
      <4>3. answer'[k] = "none" /\ k \notin running'[PaneOf[c]]
        BY <1>2, <1>3, <3>4
      <4> QED BY <2>2, <3>4, <4>1, <4>2, <4>3
    <3>7. CASE i # Len(inbox[c]) + 1
      <4>1. i \in 1..Len(inbox[c])
        BY <2>2, <3>2, <3>7
      <4>2. inbox'[c][i] = inbox[c][i]
        BY <3>2, <4>1
      <4>3. ASSUME NEW j \in 1..Len(inbox'[c]), inbox'[c][i] = inbox'[c][j] PROVE i = j
        <5>1. CASE j \in 1..Len(inbox[c])
          BY <3>2, <3>5, <4>1, <4>3, <5>1
        <5>2. CASE j = Len(inbox[c]) + 1
          BY <1>1, <1>5, <3>2, <4>1, <4>2, <4>3, <5>2
        <5> QED BY <3>2, <5>1, <5>2
      <4> QED BY <1>2, <2>2, <3>3, <3>5, <4>1, <4>2, <4>3
    <3> QED BY <3>6, <3>7
  <2> QED BY <2>1, <2>2
<1>7. \A p \in Panes : \A j \in running'[p] :
         /\ sentTo'[j] # NoConn
         /\ PaneOf[sentTo'[j]] = p
         /\ answer'[j] = "none"
  <2> SUFFICES ASSUME NEW p \in Panes, NEW j \in running[p]
               PROVE  /\ sentTo'[j] # NoConn
                      /\ PaneOf[sentTo'[j]] = p
                      /\ answer[j] = "none"
    BY <1>2
  <2>1. j # k /\ j \in Calls
    BY <1>3 DEF ServerTypes
  <2> QED BY <1>2, <2>1 DEF Delivered, ServerTypes
<1>8. \A j \in Calls : sentTo'[j] = NoConn => answer'[j] = "none"
  BY <1>1, <1>2 DEF Delivered, ServerTypes
<1>9. Delivered'
  BY <1>6, <1>7, <1>8 DEF Delivered
<1>10. Truthful'
  BY <1>2 DEF Truthful
<1> QED BY <1>9, <1>10

\* A pane takes a call in: it is on its way no longer, and runs.
LEMMA ReceivedOnce ==
    ASSUME Delivered, Truthful, ServerTypes, NEW c \in Conns, PaneReceives(c)
    PROVE  Delivered' /\ Truthful'
<1> DEFINE k == Head(inbox[c])
           p == PaneOf[c]
<1>1. /\ inbox[c] # <<>>
      /\ running' = [running EXCEPT ![p] = @ \cup {k}]
      /\ inbox' = [inbox EXCEPT ![c] = Tail(@)]
      /\ UNCHANGED <<sentTo, answer, outbox>>
  BY DEF PaneReceives, callVars
<1>2. inbox[c] \in Seq(Calls) /\ p \in Panes
  BY BridgeAssumption DEF ServerTypes
<1>3. /\ k = inbox[c][1] /\ k \in Calls
      /\ Len(inbox[c]) \in Nat /\ 1 \in 1..Len(inbox[c])
      /\ Len(Tail(inbox[c])) = Len(inbox[c]) - 1
      /\ \A i \in 1..Len(Tail(inbox[c])) :
            Tail(inbox[c])[i] = inbox[c][i + 1] /\ i + 1 \in 1..Len(inbox[c])
  BY <1>1, <1>2
<1>4. inbox'[c] = Tail(inbox[c])
  BY <1>1 DEF ServerTypes
<1>5. running'[p] = running[p] \cup {k} /\ \A q \in Panes \ {p} : running'[q] = running[q]
  BY <1>1, <1>2 DEF ServerTypes
<1>6. sentTo[k] = c /\ answer[k] = "none"
  BY <1>3 DEF Delivered
<1> HIDE DEF k, p
<1>7. ASSUME NEW d \in Conns, NEW i \in 1..Len(inbox'[d])
      PROVE  /\ sentTo[inbox'[d][i]] = d
             /\ answer[inbox'[d][i]] = "none"
             /\ inbox'[d][i] \notin running'[PaneOf[d]]
             /\ \A j \in 1..Len(inbox'[d]) : inbox'[d][i] = inbox'[d][j] => i = j
  <2>1. CASE d # c
    <3>1. inbox'[d] = inbox[d]
      BY <1>1, <2>1 DEF ServerTypes
    <3>2. PaneOf[d] \in Panes
      BY BridgeAssumption
    <3>3. sentTo[inbox[d][i]] = d
      BY <1>7, <3>1 DEF Delivered
    <3>4. inbox[d][i] # k
      BY <1>6, <2>1, <3>3
    <3>5. inbox[d][i] \notin running[PaneOf[d]]
      BY <1>7, <3>1 DEF Delivered
    <3>6. inbox[d][i] \notin running'[PaneOf[d]]
      BY <1>5, <3>2, <3>4, <3>5
    <3> QED BY <1>7, <3>1, <3>6 DEF Delivered
  <2>2. CASE d = c
    <3>1. i + 1 \in 1..Len(inbox[c]) /\ inbox'[c][i] = inbox[c][i + 1]
      BY <1>3, <1>4, <1>7, <2>2
    <3>2. inbox[c][i + 1] # k
      BY <1>3, <3>1 DEF Delivered
    <3>3. inbox[c][i + 1] \notin running'[p]
      BY <1>5, <3>1, <3>2 DEF Delivered, p
    <3>4. ASSUME NEW j \in 1..Len(inbox'[c]), inbox'[c][i] = inbox'[c][j] PROVE i = j
      <4>1. j + 1 \in 1..Len(inbox[c]) /\ inbox'[c][j] = inbox[c][j + 1]
        BY <1>3, <1>4, <3>4
      <4>2. \A x, y \in 1..Len(inbox[c]) : inbox[c][x] = inbox[c][y] => x = y
        BY DEF Delivered
      <4>3. i + 1 = j + 1
        BY <3>1, <3>4, <4>1, <4>2, <2>2
      <4>4. i \in Int /\ j \in Int
        BY <1>7, <3>4
      <4> QED BY <4>3, <4>4
    <3> QED BY <2>2, <3>1, <3>3, <3>4 DEF Delivered, p
  <2> QED BY <2>1, <2>2
<1>8. ASSUME NEW q \in Panes, NEW j \in running'[q]
      PROVE  /\ sentTo[j] # NoConn
             /\ PaneOf[sentTo[j]] = q
             /\ answer[j] = "none"
  <2>1. CASE j \in running[q]
    BY <2>1 DEF Delivered
  <2>2. CASE j \notin running[q]
    <3>1. q = p /\ j = k
      BY <1>5, <1>8, <2>2
    <3> QED BY <1>6, <3>1, BridgeAssumption DEF p
  <2> QED BY <2>1, <2>2
<1>9. Delivered'
  BY <1>1, <1>7, <1>8 DEF Delivered
<1>10. Truthful'
  BY <1>1 DEF Truthful
<1> QED BY <1>9, <1>10

\* A call that ends was running, once, and on its way to nobody.
LEMMA AnsweredOnce ==
    ASSUME Delivered, Truthful, ResolvedAsAnswered, ServerTypes,
           NEW p \in Panes, NEW k \in Calls, PaneAnswers(p, k)
    PROVE  Delivered' /\ Truthful' /\ ResolvedAsAnswered'
<1> DEFINE c == current[p]
<1>1. PICK how \in {"ok", "failed"} :
          /\ answer' = [answer EXCEPT ![k] = how]
          /\ outbox' = IF conn[c] \in {"open", "closing"}
                       THEN [outbox EXCEPT ![c] = Append(@, [id |-> k, ok |-> how = "ok"])]
                       ELSE outbox
  BY DEF PaneAnswers
<1>2. /\ k \in running[p]
      /\ running' = [running EXCEPT ![p] = @ \ {k}]
      /\ UNCHANGED <<inbox, sentTo, outcome>>
  BY DEF PaneAnswers, callVars
<1> DEFINE m == [id |-> k, ok |-> how = "ok"]
<1>3. m \in Messages /\ m.id = k /\ how = IF m.ok THEN "ok" ELSE "failed"
  BY DEF Messages
<1>4. outbox' = outbox \/ outbox' = [outbox EXCEPT ![c] = Append(@, m)]
  BY <1>1
<1>5. answer'[k] = how /\ \A j \in Calls \ {k} : answer'[j] = answer[j]
  BY <1>1 DEF ServerTypes
<1>6. answer[k] = "none" /\ sentTo[k] # NoConn /\ PaneOf[sentTo[k]] = p
  BY <1>2 DEF Delivered
<1> HIDE DEF c, m
<1>7. \A d \in Conns : \A i \in 1..Len(inbox[d]) : inbox[d][i] # k /\ inbox[d][i] \in Calls
  <2> SUFFICES ASSUME NEW d \in Conns, NEW i \in 1..Len(inbox[d])
               PROVE  inbox[d][i] # k /\ inbox[d][i] \in Calls
    OBVIOUS
  <2>1. inbox[d] \in Seq(Calls)
    BY DEF ServerTypes
  <2>2. sentTo[inbox[d][i]] = d /\ inbox[d][i] \notin running[PaneOf[d]]
    BY DEF Delivered
  <2> QED BY <1>2, <1>6, <2>1, <2>2
<1>8. Delivered'
  <2>1. \A j \in Calls : sentTo'[j] = NoConn => answer'[j] = "none"
    BY <1>2, <1>5, <1>6 DEF Delivered
  <2>2. \A q \in Panes : running'[q] \in SUBSET (running[q] \ {k})
    <3> SUFFICES ASSUME NEW q \in Panes, q # p PROVE k \notin running[q]
      BY <1>2 DEF ServerTypes
    <3> QED BY <1>6 DEF Delivered
  <2>3. \A q \in Panes : \A j \in running'[q] :
           /\ sentTo'[j] # NoConn
           /\ PaneOf[sentTo'[j]] = q
           /\ answer'[j] = "none"
    <3> SUFFICES ASSUME NEW q \in Panes, NEW j \in running'[q]
                 PROVE  /\ sentTo[j] # NoConn
                        /\ PaneOf[sentTo[j]] = q
                        /\ answer'[j] = "none"
      BY <1>2
    <3>1. j \in running[q] /\ j # k /\ j \in Calls
      BY <2>2 DEF ServerTypes
    <3> QED BY <1>5, <3>1 DEF Delivered
  <2>4. ASSUME NEW d \in Conns, NEW i \in 1..Len(inbox[d])
        PROVE  /\ sentTo[inbox[d][i]] = d
               /\ answer'[inbox[d][i]] = "none"
               /\ inbox[d][i] \notin running'[PaneOf[d]]
               /\ \A j \in 1..Len(inbox[d]) : inbox[d][i] = inbox[d][j] => i = j
    <3>1. PaneOf[d] \in Panes
      BY BridgeAssumption
    <3> QED BY <1>5, <1>7, <2>2, <3>1 DEF Delivered
  <2> QED BY <1>2, <2>1, <2>3, <2>4 DEF Delivered
<1>9. \A d \in Conns : \A i \in 1..Len(outbox[d]) :
         /\ outbox[d][i].id \in Calls \ {k}
         /\ answer'[outbox[d][i].id] = IF outbox[d][i].ok THEN "ok" ELSE "failed"
  <2> SUFFICES ASSUME NEW d \in Conns, NEW i \in 1..Len(outbox[d])
               PROVE  /\ outbox[d][i].id \in Calls \ {k}
                      /\ answer'[outbox[d][i].id] = IF outbox[d][i].ok THEN "ok" ELSE "failed"
    OBVIOUS
  <2>1. outbox[d] \in Seq(Messages)
    BY DEF ServerTypes
  <2>2. outbox[d][i].id \in Calls
    <3>1. outbox[d][i] \in Messages
      BY <2>1
    <3> QED BY <3>1 DEF Messages
  <2>3. answer[outbox[d][i].id] = IF outbox[d][i].ok THEN "ok" ELSE "failed"
    BY DEF Truthful
  <2> QED BY <1>5, <1>6, <2>2, <2>3
<1>10. Truthful'
  <2> SUFFICES ASSUME NEW d \in Conns, NEW i \in 1..Len(outbox'[d])
               PROVE  answer'[outbox'[d][i].id] = IF outbox'[d][i].ok THEN "ok" ELSE "failed"
    BY DEF Truthful
  <2>1. CASE outbox'[d] = outbox[d]
    BY <1>9, <2>1
  <2>2. CASE outbox'[d] # outbox[d]
    <3>1. outbox'[d] = Append(outbox[d], m) /\ outbox[d] \in Seq(Messages)
      BY <1>4, <2>2 DEF ServerTypes
    <3>2. CASE i = Len(outbox[d]) + 1
      <4>1. outbox'[d][i] = m
        BY <1>3, <3>1, <3>2
      <4> QED BY <1>3, <1>5, <4>1
    <3>3. CASE i # Len(outbox[d]) + 1
      <4>1. i \in 1..Len(outbox[d]) /\ outbox'[d][i] = outbox[d][i]
        BY <1>3, <3>1, <3>3
      <4> QED BY <1>9, <4>1
    <3> QED BY <3>2, <3>3
  <2> QED BY <2>1, <2>2
<1>11. ResolvedAsAnswered'
  BY <1>2, <1>5, <1>6 DEF ResolvedAsAnswered
<1> QED BY <1>8, <1>10, <1>11

\* Outcomes other than an answer's keep what was told.
LEMMA OtherOutcomes ==
    ASSUME ServerTypes, ResolvedAsAnswered, UNCHANGED answer,
           \/ UNCHANGED outcome
           \/ \E ks, how : how \in Outcomes \ {"ok", "failed"} /\ Settle(ks, how)
    PROVE  ResolvedAsAnswered'
<1>1. CASE UNCHANGED outcome
  BY <1>1 DEF ResolvedAsAnswered
<1>2. ASSUME NEW ks, NEW how \in Outcomes \ {"ok", "failed"}, Settle(ks, how)
      PROVE  ResolvedAsAnswered'
  BY <1>2, Settled DEF ResolvedAsAnswered
<1> QED BY <1>1, <1>2

\* What is sent, received and answered stays true in every step.
LEMMA StepDelivered ==
    ServerTypes /\ Delivered /\ Truthful /\ ResolvedAsAnswered /\ [Next]_vars
        => Delivered' /\ Truthful' /\ ResolvedAsAnswered'
<1> SUFFICES ASSUME ServerTypes, Delivered, Truthful, ResolvedAsAnswered, [Next]_vars
             PROVE  Delivered' /\ Truthful' /\ ResolvedAsAnswered'
  OBVIOUS
<1> DEFINE Goal == Delivered' /\ Truthful' /\ ResolvedAsAnswered'
<1>1. ASSUME UNCHANGED <<sentTo, netVars>>,
             \/ UNCHANGED outcome
             \/ \E ks, how : how \in Outcomes \ {"ok", "failed"} /\ Settle(ks, how)
      PROVE  Goal
  BY <1>1, LostMessages, OtherOutcomes DEF netVars, workVars
<1>2. ASSUME UNCHANGED <<sentTo, running, answer>>,
             \A c \in Conns : inbox'[c] = inbox[c] \/ inbox'[c] = <<>>,
             \A c \in Conns : outbox'[c] = outbox[c] \/ outbox'[c] = <<>>,
             \/ UNCHANGED outcome
             \/ \E ks, how : how \in Outcomes \ {"ok", "failed"} /\ Settle(ks, how)
      PROVE  Goal
  BY <1>2, LostMessages, OtherOutcomes
<1>3. "disconnect" \in Outcomes \ {"ok", "failed"} /\ "stopped" \in Outcomes \ {"ok", "failed"}
  BY DEF Outcomes
<1>4. CASE Start \/ Listening \/ UNCHANGED vars
  BY <1>1, <1>4 DEF Start, Listening, vars, callVars
<1>5. CASE Stop
  BY <1>1, <1>3, <1>5 DEF Stop
<1>6. CASE Heartbeat
  <2>1. Settle(pending, "disconnect") /\ UNCHANGED <<sentTo, running, answer>>
    BY <1>6 DEF Heartbeat, Detach, workVars
  <2>2. \A c \in Conns : /\ inbox'[c] = inbox[c] \/ inbox'[c] = <<>>
                         /\ outbox'[c] = outbox[c] \/ outbox'[c] = <<>>
    BY <1>6 DEF Heartbeat
  <2> QED BY <1>2, <1>3, <2>1, <2>2
<1>7. ASSUME NEW p \in Panes, NEW k \in Calls, PaneAnswers(p, k) PROVE Goal
  BY <1>7, AnsweredOnce
<1>8. ASSUME NEW k \in Calls, CallStep(k) PROVE Goal
  <2>1. ASSUME NEW how \in Outcomes \ {"ok", "failed"}, Refused(k, how) PROVE Goal
    BY <1>1, <2>1 DEF Refused
  <2>2. CASE CallNoPane(k) \/ CallGated(k) \/ CallUnsent(k)
    BY <2>1, <2>2 DEF CallNoPane, CallGated, CallUnsent, Outcomes
  <2>3. CASE CallSent(k)
    <3>1. UNCHANGED <<answer, outcome>>
      BY <2>3 DEF CallSent, workVars
    <3> QED BY <2>3, <3>1, SentOnce, OtherOutcomes
  <2>4. CASE GiveUp(k)
    <3>1. \E how \in {"timeout", "aborted"} : Settle({k}, how)
      BY <2>4 DEF GiveUp
    <3>2. \E ks, how : how \in Outcomes \ {"ok", "failed"} /\ Settle(ks, how)
      BY <3>1 DEF Outcomes
    <3> QED BY <1>1, <2>4, <3>2 DEF GiveUp
  <2> QED BY <1>8, <2>2, <2>3, <2>4 DEF CallStep
<1>9. ASSUME NEW c \in Conns, SocketStep(c) PROVE Goal
  <2>1. CASE HelloTimeout(c) \/ HelloOutdated(c) \/ Hello(c)
    BY <1>1, <2>1 DEF HelloTimeout, HelloOutdated, Hello, callVars
  <2>2. CASE Connect(c)
    <3>1. UNCHANGED <<sentTo, running, answer, outbox, outcome>>
      BY <2>2 DEF Connect, workVars, callVars
    <3>2. \A d \in Conns : inbox'[d] = inbox[d] \/ inbox'[d] = <<>>
      BY <2>2 DEF Connect
    <3> QED BY <1>2, <3>1, <3>2
  <2>3. CASE Lose(c) \/ SocketError(c) \/ SocketClosed(c)
    <3>1. PICK how \in {"dying", "closed"} : Cut(c, how)
      BY <2>3 DEF Lose, SocketError, SocketClosed
    <3>2. UNCHANGED <<running, answer>>
      BY <3>1, CutTypes
    <3>3. \A d \in Conns : /\ inbox'[d] = inbox[d] \/ inbox'[d] = <<>>
                           /\ outbox'[d] = outbox[d] \/ outbox'[d] = <<>>
      BY <3>1 DEF Cut, ServerTypes
    <3>4. /\ sentTo' = sentTo
          /\ UNCHANGED outcome \/ Settle(pending, "disconnect")
      BY <2>3 DEF Lose, SocketError, SocketClosed, DetachIfGreeted, Detach, callVars
    <3> QED BY <1>2, <1>3, <3>2, <3>3, <3>4
  <2>4. CASE PaneReceives(c)
    <3>1. UNCHANGED <<answer, outcome>>
      BY <2>4 DEF PaneReceives, callVars
    <3> QED BY <2>4, <3>1, ReceivedOnce, OtherOutcomes
  <2>5. CASE HandleToolResult(c)
    <3> DEFINE msg == Head(outbox[c])
    <3>1. /\ outbox[c] # <<>>
          /\ outbox' = [outbox EXCEPT ![c] = Tail(@)]
          /\ UNCHANGED <<inbox, running, answer, sentTo>>
      BY <2>5 DEF HandleToolResult, workVars
    <3>2. Delivered' /\ Truthful'
      <4>1. \A d \in Conns : outbox'[d] = IF d = c THEN Tail(outbox[c]) ELSE outbox[d]
        BY <3>1 DEF ServerTypes
      <4> QED BY <3>1, <4>1, LostMessages
    <3>3. answer[msg.id] = IF msg.ok THEN "ok" ELSE "failed"
      <4>1. outbox[c] \in Seq(Messages)
        BY DEF ServerTypes
      <4>2. 1 \in 1..Len(outbox[c]) /\ msg = outbox[c][1]
        BY <3>1, <4>1
      <4> QED BY <4>2 DEF Truthful
    <3>4. \/ UNCHANGED outcome
          \/ Settle({msg.id}, "detached")
          \/ Settle({msg.id}, IF msg.ok THEN "ok" ELSE "failed")
      BY <2>5 DEF HandleToolResult
    <3>5. CASE UNCHANGED outcome \/ Settle({msg.id}, "detached")
      <4>1. "detached" \in Outcomes \ {"ok", "failed"}
        BY DEF Outcomes
      <4> QED BY <3>1, <3>2, <3>5, <4>1, OtherOutcomes
    <3>6. CASE Settle({msg.id}, IF msg.ok THEN "ok" ELSE "failed")
      <4> DEFINE how == IF msg.ok THEN "ok" ELSE "failed"
      <4>1. how \in Outcomes
        BY DEF Outcomes
      <4>2. \A k \in Calls : outcome'[k] = IF k \in {msg.id} /\ outcome[k] = "none"
                                           THEN how ELSE outcome[k]
        BY <3>6, <4>1, Settled
      <4> HIDE DEF msg
      <4>3. ResolvedAsAnswered'
        BY <3>1, <3>3, <4>2 DEF ResolvedAsAnswered
      <4> QED BY <3>2, <4>3
    <3> QED BY <3>4, <3>5, <3>6
  <2> QED BY <1>9, <2>1, <2>2, <2>3, <2>4, <2>5 DEF SocketStep
<1> QED BY <1>4, <1>5, <1>6, <1>7, <1>8, <1>9 DEF Next

\* The invariant holds at first, and every step keeps it.
LEMMA InitServerInv == Init => ServerInv
BY BridgeAssumption
DEF Init, ServerInv, ServerTypes, Records, NoDeadRecord, OnePanePerId, UnsettledIsPending,
    Delivered, Truthful, ResolvedAsAnswered, Answers, Outcomes

LEMMA StepServerInv == ServerInv /\ [Next]_vars => ServerInv'
BY StepTypes, StepRecords, StepUnsettled, StepDelivered DEF ServerInv

-----------------------------------------------------------------------------
\* All the server keeps, for the theorems below and for the session.
THEOREM ServerInvariant == Spec => []ServerInv
BY InitServerInv, StepServerInv, PTL DEF Spec

\* The server's variables keep their types.
THEOREM ServerTypesCorrect == Spec => []ServerTypes
<1>1. ServerInv => ServerTypes
  BY DEF ServerInv
<1> QED BY <1>1, ServerInvariant, PTL

\* Whichever of the answer, the timer, the abort, the sweep and the stop comes
\* first, a call that went out and has no result is found in `pending'.
THEOREM CallsAreNotForgotten == Spec => []UnsettledIsPending
<1>1. ServerInv => UnsettledIsPending
  BY DEF ServerInv
<1> QED BY <1>1, ServerInvariant, PTL

\* Pi is told that an operation succeeded or failed only when the executor
\* returned just that (handleToolResult).
THEOREM PiIsToldTheAnswer == Spec => []ResolvedAsAnswered
<1>1. ServerInv => ResolvedAsAnswered
  BY DEF ServerInv
<1> QED BY <1>1, ServerInvariant, PTL

\* A pane that reconnects is listed once (the hello handler).
THEOREM PanesAreListedOnce == Spec => []OnePanePerId
<1>1. ServerInv => OnePanePerId
  BY DEF ServerInv, Records
<1> QED BY <1>1, ServerInvariant, PTL

\* No record outlives the close event of its socket (handleConnection,
\* detachPane).
THEOREM RecordsDieWithSockets == Spec => []NoDeadRecord
<1>1. ServerInv => NoDeadRecord
  BY DEF ServerInv, Records
<1> QED BY <1>1, ServerInvariant, PTL

\* An operation on the workbook is executed at most once, whatever reconnects,
\* timeouts and replaced records there are.
THEOREM CallsRunOnce == Spec => StartsOnce
<1> DEFINE New == \A p \in Panes : \A k \in running'[p] \ running[p] :
                     answer[k] = "none" /\ \A q \in Panes : k \notin running[q]
<1>1. ServerInv /\ [Next]_vars => [New]_vars
  <2> SUFFICES ASSUME ServerInv, [Next]_vars PROVE New
    OBVIOUS
  <2>1. ServerTypes /\ Delivered
    BY DEF ServerInv
  <2>2. CASE UNCHANGED running
    BY <2>2
  <2>3. ASSUME NEW c \in Conns, PaneReceives(c) PROVE New
    <3> DEFINE k == Head(inbox[c])
    <3>1. inbox[c] \in Seq(Calls) /\ inbox[c] # <<>> /\ PaneOf[c] \in Panes
      BY <2>1, <2>3, BridgeAssumption DEF PaneReceives, ServerTypes
    <3>2. 1 \in 1..Len(inbox[c]) /\ k = inbox[c][1]
      BY <3>1
    <3>3. sentTo[k] = c /\ answer[k] = "none" /\ k \notin running[PaneOf[c]]
      BY <2>1, <3>2 DEF Delivered
    <3>4. \A q \in Panes : k \notin running[q]
      BY <2>1, <3>3 DEF Delivered
    <3>5. running' = [running EXCEPT ![PaneOf[c]] = @ \cup {k}]
      BY <2>3 DEF PaneReceives
    <3> HIDE DEF k
    <3>6. \A p \in Panes : running'[p] \ running[p] \subseteq {k}
      BY <2>1, <3>5 DEF ServerTypes
    <3> QED BY <3>3, <3>4, <3>6
  <2>4. ASSUME NEW p \in Panes, NEW k \in Calls, PaneAnswers(p, k) PROVE New
    <3>1. \A q \in Panes : running'[q] \subseteq running[q]
      BY <2>1, <2>4 DEF PaneAnswers, ServerTypes
    <3> QED BY <3>1
  <2>5. ASSUME NEW c \in Conns, SocketStep(c), ~PaneReceives(c) PROVE New
    <3>1. UNCHANGED running
      BY <2>5 DEF SocketStep, Connect, HelloTimeout, HelloOutdated, Hello, Lose, SocketError,
                  SocketClosed, HandleToolResult, Cut, netVars, workVars
    <3> QED BY <2>2, <3>1
  <2>6. ASSUME NEW k \in Calls, CallStep(k) PROVE New
    <3>1. UNCHANGED running
      BY <2>6 DEF CallStep, CallNoPane, CallGated, CallUnsent, CallSent, GiveUp, Refused,
                  netVars, workVars
    <3> QED BY <2>2, <3>1
  <2>7. CASE Start \/ Listening \/ Stop \/ Heartbeat \/ UNCHANGED vars
    <3>1. UNCHANGED running
      BY <2>7 DEF Start, Listening, Stop, Heartbeat, vars, netVars, workVars
    <3> QED BY <2>2, <3>1
  <2> QED BY <2>3, <2>4, <2>5, <2>6, <2>7 DEF Next
<1> QED BY <1>1, ServerInvariant, PTL DEF Spec, StartsOnce

-----------------------------------------------------------------------------
\* A Pi session does nothing to its server that the server does not do itself.
LEMMA SessionStepIsServers == [SessionNext]_sessionVars => [Next]_vars
<1> SUFFICES ASSUME [SessionNext]_sessionVars PROVE [Next]_vars
  OBVIOUS
<1>1. CASE SessionStart \/ Started
  BY <1>1 DEF SessionStart, Started, Next
<1>2. CASE SessionShutdown
  BY <1>2 DEF SessionShutdown, Next
<1>3. CASE BridgeStep
  BY <1>3 DEF BridgeStep, Next, CallStep
<1>4. ASSUME NEW k \in Calls, ToolExecutes(k) PROVE [Next]_vars
  BY <1>4 DEF ToolExecutes, Next, CallStep
<1>5. CASE TerminalPrompt \/ TurnBegins \/ StepEnds \/ TurnEnds \/ UNCHANGED sessionVars
  BY <1>5 DEF TerminalPrompt, TurnBegins, StepEnds, TurnEnds, sessionVars
<1>6. ASSUME NEW c \in Conns, UserMessage(c) PROVE [Next]_vars
  BY <1>6 DEF UserMessage
<1> QED BY <1>1, <1>2, <1>3, <1>4, <1>5, <1>6 DEF SessionNext

\* So every theorem about the server holds in a Pi session (index.ts).
THEOREM SessionUsesServer == SessionSpec => Spec
<1>1. SessionInit => Init
  BY DEF SessionInit
<1> QED BY <1>1, SessionStepIsServers, PTL DEF SessionSpec, Spec

-----------------------------------------------------------------------------
\* The values the session's variables take.
SessionTypes ==
    /\ phase \in {"before", "on", "over"}
    /\ held \in BOOLEAN
    /\ targets \in Seq(Panes)
    /\ waiting \in Seq(Panes \cup {Terminal})
    /\ turn \in Panes \cup {Terminal, Nobody}

\* How the phases of a session and of its bridge go together: while the session
\* is on a listening bridge is the one it holds, and there are no sockets but
\* of a bridge that has listened.
Phases ==
    /\ phase = "before" => server = "new" /\ ~held /\ targets = <<>>
    /\ phase = "on" => server \in {"starting", "listening", "unbound"}
    /\ phase = "on" /\ server = "listening" => held
    /\ held => server = "listening"
    /\ server \in {"new", "starting", "unbound"} => \A c \in Conns : conn[c] = "new"

\* Pi works only while the session is on; a pane that waits for a reply, and a
\* call that went out, have a bridge that listens.
Working ==
    /\ phase # "on" => turn = Nobody /\ waiting = <<>>
    /\ phase = "on" /\ targets # <<>> => server = "listening"
    /\ phase # "over" /\ ~held => \A k \in Calls : sentTo[k] = NoConn

SessionInv == SessionTypes /\ Phases /\ Working /\ ShutdownSettles /\ NoStaleTarget

\* The places of the prompts of panes among waiting prompts.
PanePlaces(s) == {n \in DOMAIN s : s[n] \in Panes}

LEMMA PlacesFinite ==
    ASSUME NEW X, NEW s \in Seq(X)
    PROVE  IsFiniteSet(PanePlaces(s)) /\ Cardinality(PanePlaces(s)) \in Nat
<1>1. DOMAIN s = 1..Len(s) /\ Len(s) \in Nat
  BY DEF PanePlaces
<1>2. IsFiniteSet(1..Len(s))
  BY <1>1, FS_Interval
<1>3. PanePlaces(s) \in SUBSET (1..Len(s))
  BY <1>1 DEF PanePlaces
<1> QED BY <1>2, <1>3, FS_Subset, FS_CardinalityType

\* A prompt that is put at the end counts if it is a pane's.
LEMMA CountAppend ==
    ASSUME NEW X, NEW s \in Seq(X), NEW x \in X
    PROVE  Cardinality(PanePlaces(Append(s, x)))
               = Cardinality(PanePlaces(s)) + IF x \in Panes THEN 1 ELSE 0
<1> DEFINE t == Append(s, x)
<1>1. /\ Len(s) \in Nat
      /\ DOMAIN s = 1..Len(s) /\ DOMAIN t = 1..(Len(s) + 1)
      /\ t[Len(s) + 1] = x
      /\ \A n \in 1..Len(s) : t[n] = s[n]
  BY DEF PanePlaces
<1> HIDE DEF t
<1>2. CASE x \in Panes
  <2>1. PanePlaces(t) = PanePlaces(s) \cup {Len(s) + 1}
    BY <1>1, <1>2 DEF PanePlaces
  <2>2. Len(s) + 1 \notin PanePlaces(s)
    BY <1>1 DEF PanePlaces
  <2>3. Cardinality(PanePlaces(t)) = Cardinality(PanePlaces(s)) + 1
    BY <2>1, <2>2, PlacesFinite, FS_AddElement
  <2> QED BY <1>2, <2>3 DEF t
<1>3. CASE x \notin Panes
  <2>1. PanePlaces(t) = PanePlaces(s)
    BY <1>1, <1>3 DEF PanePlaces
  <2> QED BY <1>3, <2>1, PlacesFinite DEF t
<1> QED BY <1>2, <1>3

\* A prompt that is taken from the front counted if it is a pane's.
LEMMA CountTail ==
    ASSUME NEW X, NEW s \in Seq(X), s # <<>>
    PROVE  Cardinality(PanePlaces(s))
               = Cardinality(PanePlaces(Tail(s))) + IF Head(s) \in Panes THEN 1 ELSE 0
<1> DEFINE t == Tail(s)
           Rest == PanePlaces(s) \ {1}
           shift == [n \in PanePlaces(t) |-> n + 1]
<1>1. /\ Len(s) \in Nat /\ Len(s) > 0 /\ DOMAIN s = 1..Len(s)
      /\ t \in Seq(X) /\ DOMAIN t = 1..(Len(s) - 1)
      /\ \A n \in 1..(Len(s) - 1) : t[n] = s[n + 1]
      /\ Head(s) = s[1]
  OBVIOUS
<1> HIDE DEF t
<1>2. Cardinality(Rest) = Cardinality(PanePlaces(t))
  <2>1. shift \in [PanePlaces(t) -> Rest]
    BY <1>1 DEF PanePlaces
  <2>2. \A m, n \in PanePlaces(t) : shift[m] = shift[n] => m = n
    BY <1>1 DEF PanePlaces
  <2>3. \A r \in Rest : \E n \in PanePlaces(t) : shift[n] = r
    <3> SUFFICES ASSUME NEW r \in Rest PROVE \E n \in PanePlaces(t) : shift[n] = r
      OBVIOUS
    <3>1. r \in 1..Len(s) /\ r # 1 /\ s[r] \in Panes
      BY <1>1 DEF PanePlaces
    <3>2. r - 1 \in 1..(Len(s) - 1) /\ (r - 1) + 1 = r
      BY <1>1, <3>1
    <3>3. r - 1 \in PanePlaces(t)
      BY <1>1, <3>1, <3>2 DEF PanePlaces
    <3> QED BY <3>2, <3>3
  <2> HIDE DEF shift, Rest
  <2>4. shift \in Bijection(PanePlaces(t), Rest)
    BY <2>1, <2>2, <2>3 DEF Bijection, Injection, Surjection, IsInjective
  <2>5. ExistsBijection(PanePlaces(t), Rest)
    BY <2>4 DEF ExistsBijection
  <2> QED BY <1>1, <2>5, PlacesFinite, FS_Bijection
<1>3. 1 \in PanePlaces(s) <=> Head(s) \in Panes
  BY <1>1 DEF PanePlaces
<1>4. Cardinality(Rest) = IF 1 \in PanePlaces(s) THEN Cardinality(PanePlaces(s)) - 1
                          ELSE Cardinality(PanePlaces(s))
  BY PlacesFinite, FS_RemoveElement
<1>5. Cardinality(PanePlaces(s)) \in Nat /\ Cardinality(PanePlaces(t)) \in Nat
  BY <1>1, PlacesFinite
<1> QED BY <1>2, <1>3, <1>4, <1>5 DEF t

-----------------------------------------------------------------------------
\* What goes on in the server leaves its state, and makes no socket before it
\* listens.
LEMMA BridgeStepPhases ==
    ASSUME Phases, BridgeStep
    PROVE  server' = server /\ Phases'
<1>1. UNCHANGED <<server, phase, held, targets>>
  <2>1. UNCHANGED <<phase, held, targets>>
    BY DEF BridgeStep, replyVars
  <2>2. server' = server
    BY DEF BridgeStep, Heartbeat, GiveUp, PaneAnswers, SocketStep, Connect, HelloTimeout,
           HelloOutdated, Hello, Lose, SocketError, SocketClosed, PaneReceives,
           HandleToolResult
  <2> QED BY <2>1, <2>2
<1>2. ASSUME server \in {"new", "starting", "unbound"} PROVE conn' = conn
  <2>1. \A c \in Conns : conn[c] = "new"
    BY <1>2 DEF Phases
  <2>2. CASE Heartbeat
    BY <1>2, <2>2 DEF Heartbeat
  <2>3. ASSUME NEW k \in Calls, GiveUp(k) PROVE conn' = conn
    BY <2>3 DEF GiveUp
  <2>4. ASSUME NEW p \in Panes, NEW k \in Calls, PaneAnswers(p, k) PROVE conn' = conn
    BY <2>4 DEF PaneAnswers
  <2>5. ASSUME NEW c \in Conns, SocketStep(c) PROVE conn' = conn
    BY <1>2, <2>1, <2>5 DEF SocketStep, Connect, HelloTimeout, HelloOutdated, Hello, Lose,
                            SocketError, SocketClosed, PaneReceives, HandleToolResult
  <2> QED BY <2>2, <2>3, <2>4, <2>5 DEF BridgeStep
<1> QED BY <1>1, <1>2 DEF Phases

\* In every step the phases of the session and the bridge go together.
LEMMA StepPhases == ServerTypes /\ Phases /\ [SessionNext]_sessionVars => Phases'
<1> SUFFICES ASSUME ServerTypes, Phases, [SessionNext]_sessionVars PROVE Phases'
  OBVIOUS
<1>1. CASE SessionStart
  BY <1>1 DEF SessionStart, Start, Phases, replyVars
<1>2. CASE Started
  BY <1>2 DEF Started, Listening, Phases, replyVars
<1>3. CASE SessionShutdown
  <2>1. CASE held
    <3>1. server' = "stopped"
      BY <1>3, <2>1 DEF SessionShutdown, Stop
    <3> QED BY <1>3, <3>1 DEF SessionShutdown, Phases
  <2>2. CASE ~held
    BY <1>3, <2>2 DEF SessionShutdown, Phases, vars
  <2> QED BY <2>1, <2>2
<1>4. ASSUME NEW c \in Conns, UserMessage(c) PROVE Phases'
  <2>1. phase # "before"
    BY <1>4 DEF UserMessage, Phases
  <2> QED BY <1>4, <2>1 DEF UserMessage, Prompt, Phases, vars
<1>5. CASE TerminalPrompt \/ TurnBegins \/ UNCHANGED sessionVars
  BY <1>5 DEF TerminalPrompt, Prompt, TurnBegins, Phases, vars, sessionVars, replyVars
<1>6. CASE StepEnds \/ TurnEnds
  <2>1. UNCHANGED <<vars, phase, held>> /\ \E text \in BOOLEAN : MessageEnd(text)
    BY <1>6 DEF StepEnds, TurnEnds
  <2>2. targets = <<>> => targets' = <<>>
    BY <2>1 DEF MessageEnd
  <2> QED BY <2>1, <2>2 DEF Phases, vars
<1>7. ASSUME NEW k \in Calls, ToolExecutes(k) PROVE Phases'
  <2>1. UNCHANGED <<server, conn, phase, held, targets>>
    BY <1>7 DEF ToolExecutes, CallNoPane, CallGated, CallUnsent, CallSent, Refused, replyVars
  <2> QED BY <2>1 DEF Phases
<1>8. CASE BridgeStep
  BY <1>8, BridgeStepPhases
<1> QED BY <1>1, <1>2, <1>3, <1>4, <1>5, <1>6, <1>7, <1>8 DEF SessionNext

\* The session's variables keep their types.
LEMMA StepSessionTypes == SessionTypes /\ [SessionNext]_sessionVars => SessionTypes'
<1> SUFFICES ASSUME SessionTypes, [SessionNext]_sessionVars PROVE SessionTypes'
  OBVIOUS
<1>1. CASE SessionStart \/ Started
  BY <1>1 DEF SessionStart, Started, SessionTypes, replyVars
<1>2. CASE SessionShutdown
  <2>1. phase' = "over" /\ held' = FALSE /\ targets' = <<>> /\ waiting' = <<>> /\ turn' = Nobody
    BY <1>2 DEF SessionShutdown
  <2>2. targets' \in Seq(Panes) /\ waiting' \in Seq(Panes \cup {Terminal})
    BY <2>1
  <2> QED BY <2>1, <2>2 DEF SessionTypes
<1>3. ASSUME NEW from \in Panes \cup {Terminal}, Prompt(from) PROVE
          waiting' \in Seq(Panes \cup {Terminal}) /\ UNCHANGED <<phase, held, turn>>
  BY <1>3 DEF Prompt, SessionTypes
<1>4. ASSUME NEW c \in Conns, UserMessage(c) PROVE SessionTypes'
  <2>1. PaneOf[c] \in Panes
    BY BridgeAssumption
  <2>2. targets' \in Seq(Panes)
    BY <1>4, <2>1 DEF UserMessage, SessionTypes
  <2> QED BY <1>3, <1>4, <2>1, <2>2 DEF UserMessage, SessionTypes
<1>5. CASE TerminalPrompt
  BY <1>3, <1>5 DEF TerminalPrompt, SessionTypes
<1>6. CASE TurnBegins
  <2>1. Head(waiting) \in Panes \cup {Terminal} /\ Tail(waiting) \in Seq(Panes \cup {Terminal})
    BY <1>6 DEF TurnBegins, SessionTypes
  <2> QED BY <1>6, <2>1 DEF TurnBegins, SessionTypes
<1>7. CASE StepEnds \/ TurnEnds
  <2>1. targets' \in Seq(Panes)
    BY <1>7 DEF StepEnds, TurnEnds, MessageEnd, SessionTypes
  <2> QED BY <1>7, <2>1 DEF StepEnds, TurnEnds, SessionTypes
<1>8. CASE (\E k \in Calls : ToolExecutes(k)) \/ BridgeStep \/ UNCHANGED sessionVars
  BY <1>8 DEF ToolExecutes, BridgeStep, sessionVars, replyVars, SessionTypes
<1> QED BY <1>1, <1>2, <1>4, <1>5, <1>6, <1>7, <1>8 DEF SessionNext

\* Only a tool of a running session sends calls.
LEMMA OnlyToolsSend ==
    ASSUME ServerTypes, [SessionNext]_sessionVars,
           \A k \in Calls : ~ToolExecutes(k)
    PROVE  /\ sentTo' = sentTo
           /\ \A k \in Calls : outcome[k] # "none" => outcome'[k] # "none"
<1>1. ASSUME NEW ks, NEW how \in Outcomes, Settle(ks, how)
      PROVE  \A k \in Calls : outcome[k] # "none" => outcome'[k] # "none"
  BY <1>1, Settled
<1>2. ASSUME NEW cs, Detach(cs) \/ UNCHANGED <<paneVars, callVars>>
      PROVE  /\ sentTo' = sentTo
             /\ \A k \in Calls : outcome[k] # "none" => outcome'[k] # "none"
  BY <1>1, <1>2 DEF Detach, callVars, Outcomes
<1>3. CASE UNCHANGED vars
  BY <1>3 DEF vars, callVars
<1>4. CASE SessionStart \/ Started
  BY <1>4 DEF SessionStart, Started, Start, Listening, callVars
<1>5. CASE SessionShutdown
  <2>1. CASE Stop
    BY <1>1, <2>1 DEF Stop, Outcomes
  <2> QED BY <1>3, <1>5, <2>1 DEF SessionShutdown
<1>6. CASE TerminalPrompt \/ TurnBegins \/ StepEnds \/ TurnEnds \/ UNCHANGED sessionVars
           \/ \E c \in Conns : UserMessage(c)
  BY <1>3, <1>6 DEF TerminalPrompt, TurnBegins, StepEnds, TurnEnds, sessionVars, UserMessage
<1>7. CASE BridgeStep
  <2>1. CASE Heartbeat
    BY <1>2, <2>1 DEF Heartbeat
  <2>2. ASSUME NEW k \in Calls, GiveUp(k)
        PROVE  /\ sentTo' = sentTo
               /\ \A j \in Calls : outcome[j] # "none" => outcome'[j] # "none"
    BY <1>1, <2>2 DEF GiveUp, Outcomes
  <2>3. ASSUME NEW p \in Panes, NEW k \in Calls, PaneAnswers(p, k)
        PROVE  UNCHANGED <<sentTo, outcome>>
    BY <2>3 DEF PaneAnswers, callVars
  <2>4. ASSUME NEW c \in Conns, SocketStep(c)
        PROVE  /\ sentTo' = sentTo
               /\ \A k \in Calls : outcome[k] # "none" => outcome'[k] # "none"
    <3>1. CASE SocketError(c) \/ SocketClosed(c)
      BY <1>2, <3>1 DEF SocketError, SocketClosed, DetachIfGreeted
    <3>2. CASE HandleToolResult(c)
      <4>1. UNCHANGED outcome \/ \E ks, how : how \in Outcomes /\ Settle(ks, how)
        BY <3>2 DEF HandleToolResult, Outcomes
      <4> QED BY <1>1, <3>2, <4>1 DEF HandleToolResult
    <3>3. CASE ~(SocketError(c) \/ SocketClosed(c) \/ HandleToolResult(c))
      BY <2>4, <3>3 DEF SocketStep, Connect, HelloTimeout, HelloOutdated, Hello, Lose,
                        PaneReceives, callVars
    <3> QED BY <3>1, <3>2, <3>3
  <2> QED BY <1>7, <2>1, <2>2, <2>3, <2>4 DEF BridgeStep
<1> QED BY <1>4, <1>5, <1>6, <1>7 DEF SessionNext

\* Pi works only in a session that is on, and calls go out only over a bridge.
LEMMA StepWorking ==
    ServerTypes /\ SessionTypes /\ Phases /\ Working /\ [SessionNext]_sessionVars => Working'
<1> SUFFICES ASSUME ServerTypes, SessionTypes, Phases, Working, [SessionNext]_sessionVars
             PROVE  Working'
  OBVIOUS
<1>1. ASSUME sentTo' = sentTo PROVE Working'
  <2>1. CASE SessionStart
    BY <1>1, <2>1 DEF SessionStart, Start, Phases, Working, replyVars
  <2>2. CASE Started
    <3>1. phase' = phase /\ UNCHANGED replyVars /\ server = "starting"
      BY <2>2 DEF Started, Listening
    <3>2. ~held
      BY <3>1 DEF Phases
    <3>3. phase = "on" => targets = <<>>
      BY <3>1 DEF Working
    <3> QED BY <1>1, <3>1, <3>2, <3>3 DEF Working, replyVars
  <2>3. CASE SessionShutdown
    BY <2>3 DEF SessionShutdown, Working
  <2>4. ASSUME NEW c \in Conns, UserMessage(c) PROVE Working'
    <3>1. conn[c] # "new" /\ UNCHANGED <<phase, held, turn, server>>
      BY <2>4 DEF UserMessage, Prompt, vars
    <3>2. phase = "on" => server = "listening"
      BY <3>1 DEF Phases
    <3>3. phase # "on" => waiting' = waiting
      BY <2>4 DEF UserMessage, Prompt
    <3> QED BY <1>1, <3>1, <3>2, <3>3 DEF Working
  <2>5. CASE TerminalPrompt
    BY <1>1, <2>5 DEF TerminalPrompt, Prompt, Working, vars
  <2>6. CASE TurnBegins
    BY <1>1, <2>6 DEF TurnBegins, Working, vars
  <2>7. CASE StepEnds \/ TurnEnds
    <3>1. /\ UNCHANGED <<vars, phase, held, waiting>>
          /\ turn # Nobody
          /\ turn' = turn \/ turn' = Nobody
          /\ \E text \in BOOLEAN : MessageEnd(text)
      BY <2>7 DEF StepEnds, TurnEnds
    <3>2. targets = <<>> => targets' = <<>>
      BY <3>1 DEF MessageEnd
    <3> QED BY <1>1, <3>1, <3>2 DEF Working, vars
  <2>8. ASSUME NEW k \in Calls, ToolExecutes(k) PROVE Working'
    <3>1. UNCHANGED <<server, phase, held, replyVars>>
      BY <2>8 DEF ToolExecutes, CallNoPane, CallGated, CallUnsent, CallSent, Refused
    <3> QED BY <1>1, <3>1 DEF Working, replyVars
  <2>9. CASE BridgeStep \/ UNCHANGED sessionVars
    <3>1. UNCHANGED <<server, phase, held, replyVars>>
      BY <2>9, BridgeStepPhases DEF BridgeStep, sessionVars, vars
    <3> QED BY <1>1, <3>1 DEF Working, replyVars
  <2> QED BY <2>1, <2>2, <2>3, <2>4, <2>5, <2>6, <2>7, <2>8, <2>9 DEF SessionNext
<1>2. ASSUME NEW k \in Calls, ToolExecutes(k) PROVE Working'
  <2>1. UNCHANGED <<server, phase, held, replyVars>> /\ held
    BY <1>2 DEF ToolExecutes, CallNoPane, CallGated, CallUnsent, CallSent, Refused, Running
  <2> QED BY <2>1 DEF Working, replyVars
<1> QED BY <1>1, <1>2, OnlyToolsSend

\* When the session ends it settles its calls, and sends none later.
LEMMA StepShutdown ==
    /\ ServerTypes /\ UnsettledIsPending /\ SessionTypes /\ Phases /\ Working
    /\ ShutdownSettles /\ [SessionNext]_sessionVars
    => ShutdownSettles'
<1> SUFFICES ASSUME ServerTypes, UnsettledIsPending, SessionTypes, Phases, Working,
                    ShutdownSettles, [SessionNext]_sessionVars
             PROVE  ShutdownSettles'
  OBVIOUS
<1>1. CASE SessionShutdown
  <2>1. CASE held
    <3>1. Settle(pending, "stopped") /\ sentTo' = sentTo
      BY <1>1, <2>1 DEF SessionShutdown, Stop
    <3> QED BY <3>1, Settled DEF UnsettledIsPending, ShutdownSettles, Outcomes
  <2>2. CASE ~held
    <3>1. \A k \in Calls : sentTo'[k] = NoConn
      BY <1>1, <2>2 DEF SessionShutdown, Working, vars, callVars
    <3> QED BY <3>1 DEF ShutdownSettles
  <2> QED BY <2>1, <2>2
<1>2. CASE ~SessionShutdown /\ phase = "over"
  <2>1. \A k \in Calls : ~ToolExecutes(k)
    BY <1>2 DEF ToolExecutes, Working
  <2> QED BY <1>2, <2>1, OnlyToolsSend DEF ShutdownSettles
<1>3. CASE ~SessionShutdown /\ phase # "over"
  <2>1. phase' # "over"
    BY <1>3 DEF SessionNext, SessionStart, Started, UserMessage, TerminalPrompt, Prompt,
                TurnBegins, StepEnds, TurnEnds, ToolExecutes, BridgeStep, sessionVars
  <2> QED BY <2>1 DEF ShutdownSettles
<1> QED BY <1>1, <1>2, <1>3

-----------------------------------------------------------------------------
\* Prompts of panes that wait, and whether Pi works on one.
LEMMA PanePromptsSplit ==
    PanePrompts = Cardinality(PanePlaces(waiting)) + IF turn \in Panes THEN 1 ELSE 0
BY DEF PanePrompts, PanePlaces

LEMMA PanePromptsType == SessionTypes => PanePrompts \in Nat
BY PlacesFinite, PanePromptsSplit DEF SessionTypes

\* The targets never outnumber the prompts of panes.
LEMMA StepTargets ==
    /\ ServerTypes /\ SessionTypes /\ Phases /\ Working
    /\ NoStaleTarget /\ [SessionNext]_sessionVars
    => NoStaleTarget'
<1> SUFFICES ASSUME ServerTypes, SessionTypes, Phases, Working, NoStaleTarget,
                    [SessionNext]_sessionVars
             PROVE  NoStaleTarget'
  OBVIOUS
<1>1. SessionTypes' /\ PanePrompts \in Nat /\ PanePrompts' \in Nat
  <2>1. SessionTypes'
    BY StepSessionTypes
  <2>2. PanePrompts' \in Nat
    <3>1. PanePrompts' = Cardinality(PanePlaces(waiting')) + IF turn' \in Panes THEN 1 ELSE 0
      BY DEF PanePrompts, PanePlaces
    <3>2. Cardinality(PanePlaces(waiting')) \in Nat
      BY <2>1, PlacesFinite DEF SessionTypes
    <3> QED BY <3>1, <3>2
  <2> QED BY <2>1, <2>2, PanePromptsType
<1>2. Len(targets) \in Nat /\ Len(targets') \in Nat
  BY <1>1 DEF SessionTypes
<1>3. CASE UNCHANGED <<phase, replyVars>>
  BY <1>3 DEF NoStaleTarget, PanePrompts, replyVars
<1>4. CASE SessionStart
  <2>1. Len(targets') = 0
    BY <1>4 DEF SessionStart, Phases, replyVars
  <2> QED BY <1>1, <2>1 DEF NoStaleTarget
<1>5. CASE SessionShutdown
  BY <1>5 DEF SessionShutdown, NoStaleTarget
<1>6. CASE Started \/ BridgeStep \/ UNCHANGED sessionVars \/ \E k \in Calls : ToolExecutes(k)
  BY <1>3, <1>6 DEF Started, BridgeStep, ToolExecutes, sessionVars
<1>7. ASSUME NEW c \in Conns, UserMessage(c) PROVE NoStaleTarget'
  <2> SUFFICES ASSUME phase' = "on" PROVE Len(targets') <= PanePrompts'
    BY DEF NoStaleTarget
  <2>1. /\ phase = "on" /\ turn' = turn
        /\ waiting' = Append(waiting, PaneOf[c])
        /\ targets' = Append(targets, PaneOf[c])
    BY <1>7 DEF UserMessage, Prompt
  <2>2. PaneOf[c] \in Panes /\ PaneOf[c] \in Panes \cup {Terminal}
    BY BridgeAssumption
  <2>3. Cardinality(PanePlaces(waiting')) = Cardinality(PanePlaces(waiting)) + 1
    BY <2>1, <2>2, CountAppend DEF SessionTypes
  <2>4. Len(targets') = Len(targets) + 1
    BY <2>1 DEF SessionTypes
  <2>5. Cardinality(PanePlaces(waiting)) \in Nat
    BY PlacesFinite DEF SessionTypes
  <2>6. PanePrompts' = PanePrompts + 1
    <3>1. PanePrompts' = Cardinality(PanePlaces(waiting')) + IF turn' \in Panes THEN 1 ELSE 0
      BY DEF PanePrompts, PanePlaces
    <3> QED BY <2>1, <2>3, <2>5, <3>1, PanePromptsSplit
  <2> QED BY <1>1, <1>2, <2>1, <2>4, <2>6 DEF NoStaleTarget
<1>8. CASE TerminalPrompt
  <2>1. /\ phase' = "on" /\ phase = "on" /\ turn' = turn /\ targets' = targets
        /\ waiting' = Append(waiting, Terminal)
    BY <1>8 DEF TerminalPrompt, Prompt
  <2>2. Cardinality(PanePlaces(waiting')) = Cardinality(PanePlaces(waiting)) + 0
    BY <2>1, SessionAssumption, CountAppend DEF SessionTypes
  <2>3. Cardinality(PanePlaces(waiting)) \in Nat
    BY PlacesFinite DEF SessionTypes
  <2>4. PanePrompts' = PanePrompts
    <3>1. PanePrompts' = Cardinality(PanePlaces(waiting')) + IF turn' \in Panes THEN 1 ELSE 0
      BY DEF PanePrompts, PanePlaces
    <3> QED BY <2>1, <2>2, <2>3, <3>1, PanePromptsSplit
  <2> QED BY <2>1, <2>4 DEF NoStaleTarget
<1>9. CASE TurnBegins
  <2>1. /\ phase' = phase /\ targets' = targets
        /\ turn = Nobody /\ waiting # <<>>
        /\ turn' = Head(waiting) /\ waiting' = Tail(waiting)
    BY <1>9 DEF TurnBegins
  <2>2. Cardinality(PanePlaces(waiting))
            = Cardinality(PanePlaces(waiting')) + IF turn' \in Panes THEN 1 ELSE 0
    BY <2>1, CountTail DEF SessionTypes
  <2>3. PanePrompts' = PanePrompts
    <3>1. PanePrompts' = Cardinality(PanePlaces(waiting')) + IF turn' \in Panes THEN 1 ELSE 0
      BY DEF PanePrompts, PanePlaces
    <3>2. turn \notin Panes /\ Cardinality(PanePlaces(waiting)) \in Nat
      BY <2>1, SessionAssumption, PlacesFinite DEF SessionTypes
    <3> QED BY <2>2, <3>1, <3>2, PanePromptsSplit
  <2> QED BY <2>1, <2>3 DEF NoStaleTarget
<1>10. CASE StepEnds \/ TurnEnds
  <2> SUFFICES ASSUME phase' = "on" PROVE Len(targets') <= PanePrompts'
    BY DEF NoStaleTarget
  <2>1. /\ phase = "on" /\ waiting' = waiting
        /\ turn' = turn \/ turn' = Nobody
        /\ \E text \in BOOLEAN : MessageEnd(text)
    BY <1>10 DEF StepEnds, TurnEnds
  <2>2. PanePrompts' >= PanePrompts - 1
    <3>1. PanePrompts' = Cardinality(PanePlaces(waiting)) + IF turn' \in Panes THEN 1 ELSE 0
      BY <2>1 DEF PanePrompts, PanePlaces
    <3>2. Cardinality(PanePlaces(waiting)) \in Nat
      BY PlacesFinite DEF SessionTypes
    <3> QED BY <3>1, <3>2, PanePromptsSplit
  <2>3. Len(targets) <= PanePrompts
    BY <2>1 DEF NoStaleTarget
  <2>4. CASE targets = <<>>
    <3>1. Len(targets') = 0
      BY <2>1, <2>4 DEF MessageEnd
    <3> QED BY <1>1, <3>1
  <2>5. CASE targets # <<>>
    <3>1. Running
      BY <2>1, <2>5 DEF Working, Phases, Running
    <3>2. targets' = Tail(targets)
      BY <2>1, <2>5, <3>1 DEF MessageEnd
    <3>3. Len(targets') = Len(targets) - 1
      BY <2>5, <3>2 DEF SessionTypes
    <3> QED BY <1>1, <1>2, <2>2, <2>3, <3>3
  <2> QED BY <2>4, <2>5
<1> QED BY <1>4, <1>5, <1>6, <1>7, <1>8, <1>9, <1>10 DEF SessionNext

\* The session's invariant holds at first, and every step keeps it.
LEMMA InitSessionInv == SessionInit => SessionInv
<1> SUFFICES ASSUME SessionInit PROVE SessionInv
  OBVIOUS
<1>1. /\ phase = "before" /\ held = FALSE /\ targets = <<>> /\ waiting = <<>> /\ turn = Nobody
      /\ server = "new" /\ \A c \in Conns : conn[c] = "new"
      /\ \A k \in Calls : sentTo[k] = NoConn
  BY DEF SessionInit, Init
<1>2. SessionTypes
  <2>1. targets \in Seq(Panes) /\ waiting \in Seq(Panes \cup {Terminal})
    BY <1>1
  <2> QED BY <1>1, <2>1 DEF SessionTypes
<1> QED BY <1>1, <1>2 DEF SessionInv, Phases, Working, ShutdownSettles, NoStaleTarget

LEMMA StepSessionInv == ServerInv /\ SessionInv /\ [SessionNext]_sessionVars => SessionInv'
BY StepSessionTypes, StepPhases, StepWorking, StepShutdown, StepTargets
DEF ServerInv, SessionInv

\* All a session keeps.
THEOREM SessionInvariant == SessionSpec => []SessionInv
BY InitSessionInv, StepSessionInv, SessionUsesServer, ServerInvariant, PTL DEF SessionSpec

\* When a session is over none of its tools waits for an answer, even if its
\* bridge listens only then (session_shutdown).
THEOREM ShutdownLeavesNoCall == SessionSpec => []ShutdownSettles
<1>1. SessionInv => ShutdownSettles
  BY DEF SessionInv
<1> QED BY <1>1, SessionInvariant, PTL

\* There are never more panes to reply to than prompts of panes that Pi still
\* has to answer (onUserMessage, message_end).
THEOREM TargetsMatchPrompts == SessionSpec => []NoStaleTarget
<1>1. SessionInv => NoStaleTarget
  BY DEF SessionInv
<1> QED BY <1>1, SessionInvariant, PTL
===============================================================================
