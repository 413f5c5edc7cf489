------------------------- MODULE BridgeManagerProofs -------------------------
(***************************************************************************)
(* Proofs about BridgeManager, for any number of clients, wake events and  *)
(* tries.                                                                  *)
(*                                                                         *)
(* The argument: the client of the present generation is the last one for  *)
(* which startBridge has asked the settings store for the URL.  The store  *)
(* answers in order, so once the present client has its URL no older run   *)
(* of startBridge can still put its own client into `client' (UrlsInOrder, *)
(* CurrentIsClient).                                                       *)
(***************************************************************************)
EXTENDS BridgeManager, SequenceTheorems, TLAPS

Requests == {Asked(what, NoClient) : what \in {"boot", "on", "off"}}
              \cup {Asked("url", c) : c \in Clients}

\* Of the requests s: a client whose URL is asked for waits for it and has one
\* such request; no URL is asked for after that of the present client, and none
\* once it is there.
UrlsInOrder(s) ==
    /\ \A i \in DOMAIN s : s[i].what = "url" => phase[s[i].client] = "url"
    /\ \A i, j \in DOMAIN s :
          s[i].what = "url" /\ s[j].what = "url" /\ i < j =>
              s[i].client # current /\ s[i].client # s[j].client
    /\ current # NoClient /\ phase[current] # "url" =>
          \A i \in DOMAIN s : s[i].what # "url"

ClientHasUrl == client # NoClient => phase[client] # "url"

CurrentIsClient ==
    current # NoClient /\ phase[current] # "url" => client = current

\* A generation is present exactly while the bridge is enabled.
EnabledHasCurrent == enabled <=> current # NoClient

\* A connection of the present client is shown.
LiveIsShown ==
    current # NoClient /\ Live(current) => status \in {"connected", "error"}

\* While the bridge is connected, an armed stable timer was armed by this
\* connection.
StableIsCurrent == status = "connected" /\ stable # NoClient => stable = current

\* The inductive invariant.
IInv ==
    /\ ManagerTypeOK
    /\ UrlsInOrder(requests)
    /\ ClientHasUrl
    /\ CurrentIsClient
    /\ EnabledHasCurrent
    /\ TruthfulBadge
    /\ LiveIsShown
    /\ KeepsTrying
    /\ StableIsCurrent
    /\ RunsOnlyAsSaved

-----------------------------------------------------------------------------
\* A new client is free.
LEMMA NewClientIsFree ==
    ASSUME \E c \in Clients : Free(c)
    PROVE  NewClient \in Clients /\ Free(NewClient)
BY DEF NewClient

\* Answering the first request keeps the order of the others.
LEMMA TailInOrder ==
    ASSUME requests \in Seq(Requests), requests # <<>>, UrlsInOrder(requests)
    PROVE  Tail(requests) \in Seq(Requests) /\ UrlsInOrder(Tail(requests))
<1>1. /\ Tail(requests) \in Seq(Requests)
      /\ Len(Tail(requests)) = Len(requests) - 1
      /\ \A i \in 1..Len(Tail(requests)) : Tail(requests)[i] = requests[i + 1]
      /\ DOMAIN requests = 1..Len(requests)
      /\ DOMAIN Tail(requests) = 1..Len(Tail(requests))
      /\ Len(requests) \in Nat
  OBVIOUS
<1> DEFINE t == Tail(requests)
<1> HIDE DEF t
<1>2. \A i \in DOMAIN t : i + 1 \in DOMAIN requests /\ t[i] = requests[i + 1]
  BY <1>1 DEF t
<1>3. \A i, j \in DOMAIN t : i < j => i + 1 < j + 1
  BY <1>1 DEF t
<1>4. UrlsInOrder(t)
  BY <1>2, <1>3 DEF UrlsInOrder
<1> QED BY <1>1, <1>4 DEF t

\* So does asking for something other than a URL.
LEMMA AppendOtherInOrder ==
    ASSUME requests \in Seq(Requests), UrlsInOrder(requests),
           NEW r \in Requests, r.what # "url"
    PROVE  /\ Append(requests, r) \in Seq(Requests)
           /\ UrlsInOrder(Append(requests, r))
<1> DEFINE t == Append(requests, r)
<1>1. /\ t \in Seq(Requests)
      /\ DOMAIN t = 1..(Len(requests) + 1)
      /\ DOMAIN requests = 1..Len(requests)
      /\ \A i \in DOMAIN requests : t[i] = requests[i]
      /\ t[Len(requests) + 1] = r
      /\ Len(requests) \in Nat
  OBVIOUS
<1> HIDE DEF t
<1>2. \A i \in DOMAIN t : t[i].what = "url" => i \in DOMAIN requests /\ t[i] = requests[i]
  BY <1>1
<1>3. UrlsInOrder(t)
  BY <1>2 DEF UrlsInOrder
<1> QED BY <1>1, <1>3 DEF t

\* startBridge, with what is left to answer, keeps everything that does not
\* depend on why it was called.
LEMMA StartBridgeKeeps ==
    ASSUME IInv, NEW asked \in Seq(Requests), UrlsInOrder(asked), StartBridge(asked)
    PROVE  /\ requests' \in Seq(Requests)
           /\ UrlsInOrder(requests)'
           /\ phase' \in [Clients -> Phases]
           /\ ClientHasUrl'
           /\ current' \in Clients /\ phase'[current'] = "url"
           /\ status' = "connecting" /\ enabled' = TRUE /\ client' = NoClient
<1> DEFINE n == NewClient
<1>1. n \in Clients /\ phase[n] = "down" /\ n \notin {current, client, timer, stable, page}
  BY NewClientIsFree DEF StartBridge, Free
<1> HIDE DEF n
<1>2. /\ current' = n /\ status' = "connecting" /\ enabled' = TRUE
      /\ client' = NoClient
      /\ requests' = Append(asked, Asked("url", n))
      /\ phase' = [Disconnected(client) EXCEPT ![n] = "url"]
  BY DEF StartBridge, n
<1>3. phase \in [Clients -> Phases]
  BY DEF IInv, ManagerTypeOK
<1>4. /\ phase' \in [Clients -> Phases]
      /\ phase'[n] = "url"
      /\ \A c \in Clients : phase[c] = "url" => phase'[c] = "url"
  BY <1>1, <1>2, <1>3, ManagerAssumption DEF Disconnected, Phases, IInv, ClientHasUrl
<1>5. Asked("url", n) \in Requests
  BY <1>1 DEF Requests
<1>6. requests' \in Seq(Requests)
  BY <1>2, <1>5
<1>7. UrlsInOrder(requests)'
  <2> DEFINE t == Append(asked, Asked("url", n))
  <2>1. /\ DOMAIN t = 1..(Len(asked) + 1)
        /\ DOMAIN asked = 1..Len(asked)
        /\ \A i \in DOMAIN asked : t[i] = asked[i]
        /\ t[Len(asked) + 1] = Asked("url", n)
        /\ Len(asked) \in Nat
    BY <1>5
  <2> HIDE DEF t
  <2>2. \A i \in DOMAIN asked : asked[i].what = "url" =>
           asked[i].client \in Clients /\ phase[asked[i].client] = "url"
                                       /\ asked[i].client # n
    <3> SUFFICES ASSUME NEW i \in DOMAIN asked, asked[i].what = "url"
                 PROVE  asked[i].client \in Clients /\ phase[asked[i].client] = "url"
                                                    /\ asked[i].client # n
      OBVIOUS
    <3>1. asked[i] \in Requests
      OBVIOUS
    <3>2. asked[i].client \in Clients
      BY <3>1 DEF Requests, Asked
    <3>3. phase[asked[i].client] = "url"
      BY DEF UrlsInOrder
    <3> QED BY <3>2, <3>3, <1>1
  <2>3. Asked("url", n).what = "url" /\ Asked("url", n).client = n
    BY DEF Asked
  <2>4. \A i \in DOMAIN t : t[i].what = "url" => phase'[t[i].client] = "url"
    BY <2>1, <2>2, <2>3, <1>4
  <2>5. ASSUME NEW i \in DOMAIN t, NEW j \in DOMAIN t, t[i].what = "url",
               t[j].what = "url", i < j
        PROVE  t[i].client # n /\ t[i].client # t[j].client
    <3>1. i \in DOMAIN asked /\ t[i] = asked[i]
      BY <2>1, <2>5
    <3>2. CASE j \in DOMAIN asked
      <4>1. t[j] = asked[j]
        BY <3>2, <2>1
      <4>2. asked[i].client # asked[j].client
        BY <3>1, <3>2, <4>1, <2>5 DEF UrlsInOrder
      <4> QED BY <3>1, <4>1, <4>2, <2>2, <2>5
    <3>3. CASE j \notin DOMAIN asked
      <4>1. t[j] = Asked("url", n)
        BY <3>3, <2>1
      <4> QED BY <3>1, <4>1, <2>2, <2>3, <2>5
    <3> QED BY <3>2, <3>3
  <2>6. phase'[current'] = "url"
    BY <1>2, <1>4
  <2> QED BY <1>2, <2>4, <2>5, <2>6 DEF UrlsInOrder, t
<1> QED BY <1>1, <1>2, <1>4, <1>6, <1>7, ManagerAssumption DEF ClientHasUrl

-----------------------------------------------------------------------------
\* The types of what startBridge leaves alone.
OtherTypes ==
    /\ saved \in BOOLEAN
    /\ page \in {"idle", "saving", "hung"} \cup Clients
    /\ timer \in Clients \cup {NoClient}
    /\ stable \in Clients \cup {NoClient}
    /\ tries \in 0..MaxTries
    /\ bound \in BOOLEAN
    /\ wakes \in 0..MaxWakes

\* They hold as part of the types of all variables.
LEMMA OtherTypesHold == ManagerTypeOK => OtherTypes
BY DEF ManagerTypeOK, OtherTypes

\* A start establishes the invariant again.
LEMMA StartedIInv ==
    ASSUME IInv, NEW asked \in Seq(Requests), UrlsInOrder(asked), StartBridge(asked),
           OtherTypes', saved' = TRUE
    PROVE  IInv'
<1>1. /\ requests' \in Seq(Requests)
      /\ UrlsInOrder(requests)'
      /\ phase' \in [Clients -> Phases]
      /\ ClientHasUrl'
      /\ current' \in Clients /\ phase'[current'] = "url"
      /\ status' = "connecting" /\ enabled' = TRUE /\ client' = NoClient
  BY StartBridgeKeeps
<1>2. ManagerTypeOK'
  BY <1>1 DEF ManagerTypeOK, OtherTypes, Requests
<1>3. current' # NoClient
  BY <1>1, ManagerAssumption
<1>4. CurrentIsClient' /\ EnabledHasCurrent' /\ RunsOnlyAsSaved'
  BY <1>1, <1>3 DEF CurrentIsClient, EnabledHasCurrent, RunsOnlyAsSaved
<1>5. TruthfulBadge' /\ StableIsCurrent' /\ LiveIsShown'
  BY <1>1 DEF TruthfulBadge, StableIsCurrent, LiveIsShown, Live
<1>6. KeepsTrying'
  BY <1>1, <1>3 DEF KeepsTrying
<1> QED BY <1>1, <1>2, <1>4, <1>5, <1>6 DEF IInv

\* The end of a bridge establishes it too.
LEMMA StoppedIInv ==
    ASSUME IInv, StopBridge, NEW asked \in Seq(Requests), UrlsInOrder(asked),
           requests' = asked, OtherTypes'
    PROVE  IInv'
<1>1. /\ current' = NoClient /\ client' = NoClient /\ status' = "off"
      /\ enabled' = FALSE /\ phase' = Disconnected(client)
  BY DEF StopBridge
<1>2. phase \in [Clients -> Phases] /\ \A c \in Clients : client = c => phase[c] # "url"
  BY ManagerAssumption DEF IInv, ManagerTypeOK, ClientHasUrl
<1>3. /\ phase' \in [Clients -> Phases]
      /\ \A c \in Clients : phase[c] = "url" => phase'[c] = "url"
  BY <1>1, <1>2 DEF Disconnected, Phases
<1>4. ManagerTypeOK'
  BY <1>1, <1>3 DEF ManagerTypeOK, OtherTypes, Requests
<1>5. UrlsInOrder(requests)'
  <2>1. \A i \in DOMAIN asked : asked[i].what = "url" => asked[i].client \in Clients
    BY ManagerAssumption DEF Requests, Asked
  <2>2. \A i \in DOMAIN asked : asked[i].what = "url" => asked[i].client # NoClient
    BY <2>1, ManagerAssumption
  <2> QED BY <1>1, <1>3, <2>1, <2>2 DEF UrlsInOrder
<1>6. /\ ClientHasUrl' /\ CurrentIsClient' /\ EnabledHasCurrent' /\ TruthfulBadge'
      /\ LiveIsShown' /\ KeepsTrying' /\ StableIsCurrent' /\ RunsOnlyAsSaved'
  BY <1>1 DEF ClientHasUrl, CurrentIsClient, EnabledHasCurrent, TruthfulBadge,
              LiveIsShown, KeepsTrying, StableIsCurrent, RunsOnlyAsSaved
<1> QED BY <1>4, <1>5, <1>6 DEF IInv

\* A client whose socket changes, with nothing asked and no generation
\* changed, leaves the requests and the generation as they should be.
LEMMA ClientMoves ==
    ASSUME IInv, NEW c \in Clients, NEW x \in Phases \ {"url"}, phase[c] # "url",
           phase' = [phase EXCEPT ![c] = x],
           UNCHANGED <<saved, requests, enabled, current, client, bound, wakes>>
    PROVE  /\ phase' \in [Clients -> Phases]
           /\ UrlsInOrder(requests)' /\ ClientHasUrl' /\ CurrentIsClient'
           /\ EnabledHasCurrent' /\ RunsOnlyAsSaved'
<1>1. /\ phase \in [Clients -> Phases] /\ requests \in Seq(Requests)
      /\ current \in Clients \cup {NoClient} /\ client \in Clients \cup {NoClient}
  BY DEF IInv, ManagerTypeOK, Requests
<1>2. /\ phase' \in [Clients -> Phases]
      /\ \A d \in Clients : phase'[d] = "url" <=> phase[d] = "url"
  BY <1>1
<1>3. \A i \in DOMAIN requests : requests[i].what = "url" => requests[i].client \in Clients
  <2>1. \A i \in DOMAIN requests : requests[i] \in Requests
    BY <1>1
  <2> QED BY <2>1 DEF Requests, Asked
<1>4. UrlsInOrder(requests)'
  BY <1>1, <1>2, <1>3 DEF UrlsInOrder, IInv
<1>5. ClientHasUrl' /\ CurrentIsClient' /\ EnabledHasCurrent' /\ RunsOnlyAsSaved'
  BY <1>1, <1>2 DEF IInv, ClientHasUrl, CurrentIsClient, EnabledHasCurrent, RunsOnlyAsSaved
<1> QED BY <1>2, <1>4, <1>5

-----------------------------------------------------------------------------
\* What scheduleReconnect does to the types, and that it leaves a retry.
LEMMA ScheduleTypes ==
    ASSUME IInv, NEW c \in Clients, ScheduleReconnect(c)
    PROVE  /\ tries' \in 0..MaxTries /\ timer' = c /\ stable' = stable
           /\ status' = "connecting"
BY ManagerAssumption DEF ScheduleReconnect, IInv, ManagerTypeOK

\* The welcome of a client, present or not.
LEMMA WelcomeKeeps ==
    ASSUME IInv, NEW c \in Clients, Welcome(c)
    PROVE  IInv'
<1>1. /\ phase[c] \in {"connecting", "late"} /\ phase' = [phase EXCEPT ![c] = "up"]
      /\ UNCHANGED <<saved, requests, enabled, current, client, bound, wakes, timer, tries>>
      /\ page' = IF page = c THEN "idle" ELSE page
  BY DEF Welcome, Returned, Nothing, stateVars, timerVars
<1>2. /\ phase' \in [Clients -> Phases]
      /\ UrlsInOrder(requests)' /\ ClientHasUrl' /\ CurrentIsClient'
      /\ EnabledHasCurrent' /\ RunsOnlyAsSaved'
  BY <1>1, ClientMoves DEF Phases
<1>3. phase \in [Clients -> Phases] /\ current \in Clients \cup {NoClient}
  BY DEF IInv, ManagerTypeOK
<1>4. CASE c = current
  <2>1. status' = "connected" /\ stable' = c /\ phase'[current'] = "up" /\ current' = c
    BY <1>1, <1>3, <1>4 DEF Welcome
  <2>2. ManagerTypeOK'
    BY <1>1, <1>2, <2>1 DEF IInv, ManagerTypeOK
  <2>3. client' = current' /\ current' # NoClient
    BY <1>2, <2>1, ManagerAssumption DEF CurrentIsClient
  <2>4. TruthfulBadge' /\ LiveIsShown' /\ KeepsTrying' /\ StableIsCurrent'
    BY <2>1, <2>3 DEF TruthfulBadge, LiveIsShown, KeepsTrying, StableIsCurrent, Live
  <2> QED BY <1>2, <2>2, <2>4 DEF IInv
<1>5. CASE c # current
  <2>1. status' = status /\ stable' = stable /\ current' = current
        /\ \A d \in Clients : d # c => phase'[d] = phase[d]
    BY <1>1, <1>3, <1>5 DEF Welcome, Nothing, stateVars, timerVars
  <2>2. ManagerTypeOK'
    BY <1>1, <1>2, <2>1 DEF IInv, ManagerTypeOK
  <2>3. current # NoClient => phase'[current] = phase[current]
    BY <2>1, <1>3, <1>5
  <2>4. TruthfulBadge' /\ LiveIsShown' /\ KeepsTrying' /\ StableIsCurrent'
    BY <1>1, <2>1, <2>3 DEF IInv, TruthfulBadge, LiveIsShown, KeepsTrying,
                            StableIsCurrent, Live
  <2> QED BY <1>2, <2>2, <2>4 DEF IInv
<1> QED BY <1>4, <1>5

\* The end of the present client's socket, or of its connect, after which a
\* retry is scheduled.
LEMMA RetriedEndKeeps ==
    ASSUME IInv, NEW c \in Clients, NEW x \in {"down", "late"},
           phase[c] # "url", phase' = [phase EXCEPT ![c] = x],
           UNCHANGED <<saved, requests, enabled, current, client, bound, wakes>>,
           page' \in {"idle", "saving", "hung"} \cup Clients,
           ScheduleReconnect(c), c = current
    PROVE  IInv'
<1>1. /\ phase' \in [Clients -> Phases]
      /\ UrlsInOrder(requests)' /\ ClientHasUrl' /\ CurrentIsClient'
      /\ EnabledHasCurrent' /\ RunsOnlyAsSaved'
  BY ClientMoves DEF Phases
<1>2. /\ tries' \in 0..MaxTries /\ timer' = c /\ stable' = stable
      /\ status' = "connecting" /\ current' = c
  BY ScheduleTypes
<1>3. phase'[current'] = x
  BY DEF IInv, ManagerTypeOK
<1>4. ManagerTypeOK'
  BY <1>1, <1>2 DEF IInv, ManagerTypeOK
<1>5. TruthfulBadge' /\ LiveIsShown' /\ KeepsTrying' /\ StableIsCurrent'
  BY <1>2, <1>3, ManagerAssumption
     DEF TruthfulBadge, LiveIsShown, KeepsTrying, StableIsCurrent, Live
<1> QED BY <1>1, <1>4, <1>5 DEF IInv

\* The end of a socket or a connect that schedules nothing.
LEMMA QuietEndKeeps ==
    ASSUME IInv, NEW c \in Clients, NEW x \in {"down", "late", "silent"},
           phase[c] # "url", phase' = [phase EXCEPT ![c] = x],
           UNCHANGED <<saved, requests, enabled, current, client, bound, wakes,
                       status, timer, stable, tries>>,
           page' \in {"idle", "saving", "hung"} \cup Clients,
           \/ c # current
           \/ x = "silent" /\ phase[c] = "up"
           \/ x = "down" /\ status = "error"
           \/ x = "down" /\ phase[c] = "late"
    PROVE  IInv'
<1>1. /\ phase' \in [Clients -> Phases]
      /\ UrlsInOrder(requests)' /\ ClientHasUrl' /\ CurrentIsClient'
      /\ EnabledHasCurrent' /\ RunsOnlyAsSaved'
  BY ClientMoves DEF Phases
<1>2. phase \in [Clients -> Phases] /\ current \in Clients \cup {NoClient}
  BY DEF IInv, ManagerTypeOK
<1>3. ManagerTypeOK'
  BY <1>1 DEF IInv, ManagerTypeOK
<1>4. StableIsCurrent'
  BY DEF IInv, StableIsCurrent
<1>5. CASE c # current
  <2>1. current # NoClient => phase'[current] = phase[current]
    BY <1>2, <1>5
  <2>2. TruthfulBadge' /\ LiveIsShown' /\ KeepsTrying'
    BY <2>1 DEF IInv, TruthfulBadge, LiveIsShown, KeepsTrying, Live
  <2> QED BY <1>1, <1>3, <1>4, <2>2 DEF IInv
<1>6. CASE c = current /\ x = "silent" /\ phase[c] = "up"
  <2>1. phase'[current] = "silent"
    BY <1>2, <1>6
  <2>2. TruthfulBadge' /\ LiveIsShown' /\ KeepsTrying'
    BY <1>6, <2>1 DEF IInv, TruthfulBadge, LiveIsShown, KeepsTrying, Live
  <2> QED BY <1>1, <1>3, <1>4, <2>2 DEF IInv
<1>7. CASE c = current /\ x = "down" /\ status = "error"
  <2>1. phase'[current] = "down"
    BY <1>2, <1>7
  <2>2. TruthfulBadge' /\ LiveIsShown' /\ KeepsTrying'
    BY <1>7, <2>1 DEF TruthfulBadge, LiveIsShown, KeepsTrying, Live
  <2> QED BY <1>1, <1>3, <1>4, <2>2 DEF IInv
<1>8. CASE c = current /\ x = "down" /\ phase[c] = "late"
  <2>1. phase'[current] = "down" /\ ~Live(current)
    BY <1>2, <1>8 DEF Live
  <2>2. status # "connected"
    BY <2>1 DEF IInv, TruthfulBadge
  <2>3. enabled /\ status # "error" => timer = current
    BY <1>8, <2>1 DEF IInv, KeepsTrying
  <2>4. TruthfulBadge' /\ LiveIsShown' /\ KeepsTrying'
    BY <1>8, <2>1, <2>2, <2>3, ManagerAssumption
       DEF TruthfulBadge, LiveIsShown, KeepsTrying, Live
  <2> QED BY <1>1, <1>3, <1>4, <2>4 DEF IInv
<1> QED BY <1>5, <1>6, <1>7, <1>8

\* Every step of a client.
LEMMA ClientStepKeeps ==
    ASSUME IInv, NEW c \in Clients, ClientStep(c)
    PROVE  IInv'
<1>1. page \in {"idle", "saving", "hung"} \cup Clients
  BY DEF IInv, ManagerTypeOK
<1>2. ~enabled => c # current
  BY ManagerAssumption DEF IInv, EnabledHasCurrent
<1>3. CASE Welcome(c)
  BY <1>3, WelcomeKeeps
<1>4. ASSUME NEW left \in {"down", "late"}, ConnectFails(c, left)
      PROVE  IInv'
  <2>1. /\ phase[c] = "connecting" /\ phase' = [phase EXCEPT ![c] = left]
        /\ UNCHANGED <<saved, requests, enabled, current, client, bound, wakes>>
        /\ page' \in {"idle", "saving", "hung"} \cup Clients
    BY <1>1, <1>4 DEF ConnectFails, Returned, Nothing, stateVars
  <2>2. CASE c = current /\ enabled
    <3>1. ScheduleReconnect(c)
      BY <1>4, <2>2 DEF ConnectFails
    <3> QED BY <2>1, <2>2, <3>1, RetriedEndKeeps
  <2>3. CASE ~(c = current /\ enabled)
    <3>1. UNCHANGED <<status, timer, stable, tries>> /\ c # current
      BY <1>2, <1>4, <2>3 DEF ConnectFails, Nothing, stateVars, timerVars
    <3> QED BY <2>1, <3>1, QuietEndKeeps
  <2> QED BY <2>2, <2>3
<1>5. CASE LateEnds(c)
  BY <1>1, <1>5, QuietEndKeeps DEF LateEnds, stateVars, timerVars
<1>6. CASE GoesSilent(c)
  BY <1>1, <1>6, QuietEndKeeps DEF GoesSilent, stateVars, timerVars
<1>7. CASE Drops(c)
  <2>1. /\ phase[c] \in {"up", "silent"} /\ phase' = [phase EXCEPT ![c] = "down"]
        /\ UNCHANGED <<saved, requests, enabled, current, client, bound, wakes>>
        /\ page' \in {"idle", "saving", "hung"} \cup Clients
    BY <1>1, <1>7 DEF Drops, Nothing, stateVars
  <2>2. CASE c = current /\ status = "connected" /\ enabled
    <3>1. ScheduleReconnect(c)
      BY <1>7, <2>2 DEF Drops
    <3> QED BY <2>1, <2>2, <3>1, RetriedEndKeeps
  <2>3. CASE ~(c = current /\ status = "connected" /\ enabled)
    <3>1. UNCHANGED <<status, timer, stable, tries>>
      BY <1>7, <2>3 DEF Drops, Nothing, stateVars, timerVars
    <3>2. c # current \/ status = "error"
      BY <1>2, <2>1, <2>3, ManagerAssumption DEF IInv, LiveIsShown, Live
    <3> QED BY <2>1, <3>1, <3>2, QuietEndKeeps
  <2> QED BY <2>2, <2>3
<1> QED BY <1>3, <1>4, <1>5, <1>6, <1>7 DEF ClientStep

-----------------------------------------------------------------------------
\* Changes of the page, of the count of wakes, of the request list (as long as
\* it stays in order), of a spent timer or of the tries keep the invariant.
LEMMA FrameKeeps ==
    ASSUME IInv, UNCHANGED <<saved, status, enabled, current, client, phase>>,
           OtherTypes', requests' \in Seq(Requests), UrlsInOrder(requests'),
           timer' = timer \/ (timer # current /\ timer' = NoClient),
           stable' \in {stable, NoClient}
    PROVE  IInv'
<1>1. ManagerTypeOK'
  BY DEF IInv, ManagerTypeOK, OtherTypes, Requests
<1>2. UrlsInOrder(requests)'
  BY DEF UrlsInOrder
<1>3. /\ ClientHasUrl' /\ CurrentIsClient' /\ EnabledHasCurrent' /\ TruthfulBadge'
      /\ LiveIsShown' /\ RunsOnlyAsSaved'
  BY DEF IInv, ClientHasUrl, CurrentIsClient, EnabledHasCurrent, TruthfulBadge,
         LiveIsShown, RunsOnlyAsSaved, Live
<1>4. KeepsTrying'
  BY DEF IInv, KeepsTrying, Live
<1>5. StableIsCurrent'
  BY DEF IInv, StableIsCurrent
<1> QED BY <1>1, <1>2, <1>3, <1>4, <1>5 DEF IInv

\* The requests that the store answers.
LEMMA Answered ==
    ASSUME IInv, NEW what, Answers(what)
    PROVE  /\ requests \in Seq(Requests) /\ requests # <<>>
           /\ Head(requests) \in Requests /\ Head(requests) = requests[1]
           /\ 1 \in DOMAIN requests
           /\ Tail(requests) \in Seq(Requests) /\ UrlsInOrder(Tail(requests))
<1>1. requests \in Seq(Requests) /\ requests # <<>> /\ UrlsInOrder(requests)
  BY DEF IInv, ManagerTypeOK, Requests, Answers
<1> QED BY <1>1, TailInOrder

\* The answer to a read or a write of the setting.
LEMMA SettingAnsweredKeeps ==
    ASSUME IInv, BootAnswered \/ EnableSaved \/ DisableSaved \/ SaveFails
    PROVE  IInv'
<1>1. Tail(requests) \in Seq(Requests) /\ UrlsInOrder(Tail(requests))
  BY Answered DEF BootAnswered, EnableSaved, DisableSaved, SaveFails
<1>2. OtherTypes
  BY OtherTypesHold DEF IInv
<1>3. CASE BootAnswered
  <2>1. CASE saved /\ StartBridge(Tail(requests))
    <3>1. saved' = TRUE /\ OtherTypes'
      BY <1>2, <1>3, <2>1 DEF BootAnswered, OtherTypes, timerVars
    <3> QED BY <1>1, <2>1, <3>1, StartedIInv
  <2>2. CASE requests' = Tail(requests) /\ UNCHANGED <<stateVars, current, client, phase>>
    <3>1. /\ UNCHANGED <<saved, status, enabled, current, client, phase, timer, stable>>
          /\ OtherTypes'
      BY <1>2, <1>3, <2>2 DEF BootAnswered, OtherTypes, stateVars, timerVars
    <3> QED BY <1>1, <2>2, <3>1, FrameKeeps
  <2> QED BY <1>3, <2>1, <2>2 DEF BootAnswered
<1>4. CASE EnableSaved
  <2>1. StartBridge(Tail(requests)) /\ saved' = TRUE
    BY <1>4 DEF EnableSaved
  <2>2. NewClient \in Clients
    BY <2>1, NewClientIsFree DEF StartBridge
  <2>3. OtherTypes'
    BY <1>2, <1>4, <2>2 DEF EnableSaved, OtherTypes, timerVars
  <2> QED BY <1>1, <2>1, <2>3, StartedIInv
<1>5. CASE DisableSaved
  <2>1. /\ saved' = FALSE /\ page' = "idle" /\ timer' = NoClient
        /\ stable' = NoClient /\ tries' = 0 /\ bound' = bound /\ wakes' = wakes
    BY <1>5 DEF DisableSaved, StopBridge
  <2>2. OtherTypes'
    <3>1. tries' \in 0..MaxTries /\ wakes' \in 0..MaxWakes
      BY <1>2, <2>1, ManagerAssumption DEF OtherTypes
    <3>2. saved' \in BOOLEAN
      BY <2>1, Zenon
    <3> QED BY <1>2, <2>1, <3>1, <3>2 DEF OtherTypes
  <2> QED BY <1>1, <1>5, <2>2, StoppedIInv DEF DisableSaved
<1>6. CASE SaveFails
  <2>1. /\ status' = "error" /\ page' = "idle" /\ requests' = Tail(requests)
        /\ UNCHANGED <<saved, enabled, current, client, timer, stable, tries, bound,
                       phase, wakes>>
    BY <1>6 DEF SaveFails, timerVars
  <2>2. ManagerTypeOK'
    BY <1>1, <2>1 DEF IInv, ManagerTypeOK, Requests
  <2>3. UrlsInOrder(requests)'
    BY <1>1, <2>1 DEF UrlsInOrder
  <2>4. /\ ClientHasUrl' /\ CurrentIsClient' /\ EnabledHasCurrent' /\ RunsOnlyAsSaved'
        /\ TruthfulBadge' /\ LiveIsShown' /\ KeepsTrying' /\ StableIsCurrent'
    BY <2>1 DEF IInv, ClientHasUrl, CurrentIsClient, EnabledHasCurrent,
                RunsOnlyAsSaved, TruthfulBadge, LiveIsShown, KeepsTrying,
                StableIsCurrent
  <2> QED BY <2>2, <2>3, <2>4 DEF IInv
<1> QED BY <1>3, <1>4, <1>5, <1>6

\* The answer with the URL: the present client connects, or one that is
\* superseded does while the present one still waits.
LEMMA UrlAnsweredKeeps ==
    ASSUME IInv, UrlAnswered
    PROVE  IInv'
<1> DEFINE c == Head(requests).client
<1>1. /\ requests \in Seq(Requests) /\ Head(requests) \in Requests
      /\ Head(requests) = requests[1] /\ 1 \in DOMAIN requests
      /\ requests # <<>>
      /\ Tail(requests) \in Seq(Requests) /\ UrlsInOrder(Tail(requests))
      /\ requests[1].what = "url"
  BY Answered DEF UrlAnswered, Answers
<1>2. c \in Clients
  BY <1>1 DEF Requests, Asked
<1>3. phase[c] = "url" /\ UrlsInOrder(requests)
  BY <1>1 DEF IInv, UrlsInOrder
<1> HIDE DEF c
<1>4. /\ client' = c /\ phase' = [phase EXCEPT ![c] = "connecting"]
      /\ requests' = Tail(requests)
      /\ UNCHANGED <<saved, page, status, enabled, current, timer, stable, tries,
                     bound, wakes>>
  BY DEF UrlAnswered, c, stateVars, timerVars
<1>5. phase \in [Clients -> Phases] /\ current \in Clients \cup {NoClient}
  BY DEF IInv, ManagerTypeOK
<1>6. ManagerTypeOK'
  BY <1>1, <1>2, <1>4, <1>5 DEF IInv, ManagerTypeOK, Requests, Phases
<1>7. current # NoClient => phase[current] = "url"
  BY <1>1, <1>3 DEF UrlsInOrder
<1>8. \A i \in DOMAIN Tail(requests) : Tail(requests)[i].what = "url" =>
         Tail(requests)[i].client # c /\ c # current
  <2>1. /\ \A i \in DOMAIN Tail(requests) :
              i + 1 \in DOMAIN requests /\ Tail(requests)[i] = requests[i + 1] /\ 1 < i + 1
    BY <1>1
  <2> QED BY <1>1, <1>3, <2>1 DEF UrlsInOrder, c
<1>9. UrlsInOrder(requests)'
  <2> DEFINE t == Tail(requests)
  <2>1. UrlsInOrder(t) /\ \A i \in DOMAIN t : t[i].what = "url" =>
           t[i].client # c /\ c # current
    BY <1>1, <1>8
  <2>2. \A i \in DOMAIN t : t[i] \in Requests
    BY <1>1
  <2> HIDE DEF t
  <2>3. \A i \in DOMAIN t : t[i].what = "url" => t[i].client \in Clients
    BY <2>2 DEF Requests, Asked
  <2>4. requests' = t
    BY <1>4 DEF t
  <2>5. \A d \in Clients : d # c => phase'[d] = phase[d]
    BY <1>4, <1>5
  <2>6. \A i \in DOMAIN t : t[i].what = "url" => phase'[t[i].client] = "url"
    BY <2>1, <2>3, <2>5 DEF UrlsInOrder
  <2>7. current # NoClient /\ phase'[current] # "url" => \A i \in DOMAIN t : t[i].what # "url"
    BY <1>5, <1>7, <2>1, <2>5
  <2> QED BY <1>4, <2>1, <2>4, <2>6, <2>7 DEF UrlsInOrder
<1>10. ClientHasUrl' /\ EnabledHasCurrent' /\ RunsOnlyAsSaved'
  BY <1>2, <1>4, <1>5 DEF IInv, ClientHasUrl, EnabledHasCurrent, RunsOnlyAsSaved
<1>11. CurrentIsClient' /\ TruthfulBadge' /\ LiveIsShown' /\ KeepsTrying' /\ StableIsCurrent'
  <2>1. current # NoClient => \/ phase'[current] = "url" /\ current # c
                              \/ phase'[current] = "connecting" /\ current = c
    BY <1>4, <1>5, <1>7
  <2>2. status # "connected"
    BY <1>7 DEF IInv, TruthfulBadge, Live
  <2> QED BY <1>4, <2>1, <2>2 DEF IInv, CurrentIsClient, TruthfulBadge, LiveIsShown,
                                  KeepsTrying, StableIsCurrent, Live
<1> QED BY <1>6, <1>9, <1>10, <1>11 DEF IInv

-----------------------------------------------------------------------------
\* The settings page: a change of the setting is asked for, or a new page is
\* opened.
LEMMA PageKeeps ==
    ASSUME IInv, Toggle \/ ReopenPage
    PROVE  IInv'
<1>1. OtherTypes /\ requests \in Seq(Requests) /\ UrlsInOrder(requests)
  BY OtherTypesHold DEF IInv, ManagerTypeOK, Requests
<1>2. UNCHANGED <<saved, status, enabled, current, client, phase, timer, stable, tries,
                  bound, wakes>>
  BY DEF Toggle, ReopenPage, stateVars, timerVars
<1>3. page' \in {"idle", "saving"}
  BY DEF Toggle, ReopenPage
<1>4. OtherTypes'
  BY <1>1, <1>2, <1>3 DEF OtherTypes
<1>5. requests' \in Seq(Requests) /\ UrlsInOrder(requests')
  <2>1. CASE Toggle
    <3> DEFINE r == Asked(IF saved THEN "off" ELSE "on", NoClient)
    <3>1. r \in Requests /\ r.what # "url"
      BY DEF Requests, Asked
    <3>2. requests' = Append(requests, r)
      BY <2>1 DEF Toggle
    <3> HIDE DEF r
    <3> QED BY <1>1, <3>1, <3>2, AppendOtherInOrder
  <2>2. CASE ReopenPage
    BY <1>1, <2>2 DEF ReopenPage
  <2> QED BY <2>1, <2>2
<1> QED BY <1>2, <1>4, <1>5, FrameKeeps

\* The reconnect timer: a retry of the present generation starts it again, any
\* other does nothing.
LEMMA TimerKeeps ==
    ASSUME IInv, TimerFires
    PROVE  IInv'
<1>1. OtherTypes /\ requests \in Seq(Requests) /\ UrlsInOrder(requests)
  BY OtherTypesHold DEF IInv, ManagerTypeOK, Requests
<1>2. timer # NoClient /\ timer' = NoClient /\ UNCHANGED <<saved, stable, tries, bound, wakes>>
  BY DEF TimerFires
<1>3. page' \in {"idle", "saving", "hung"} \cup Clients
  BY <1>1 DEF TimerFires, OtherTypes, PageWithout
<1>4. OtherTypes'
  BY <1>1, <1>2, <1>3 DEF OtherTypes
<1>5. CASE timer = current /\ enabled
  <2>1. StartBridge(requests) /\ saved' = TRUE
    BY <1>2, <1>5 DEF TimerFires, IInv, RunsOnlyAsSaved, ManagerTypeOK
  <2> QED BY <1>1, <1>4, <2>1, StartedIInv
<1>6. CASE ~(timer = current /\ enabled)
  <2>1. UNCHANGED <<requests, status, enabled, current, client, phase>>
    BY <1>6 DEF TimerFires, stateVars
  <2>2. timer # current
    BY <1>2, <1>6 DEF IInv, EnabledHasCurrent
  <2> QED BY <1>1, <1>2, <1>4, <2>1, <2>2, FrameKeeps
<1> QED BY <1>5, <1>6

\* The stable timer resets the tries, or not.
LEMMA StableKeeps ==
    ASSUME IInv, StableFires
    PROVE  IInv'
<1>1. OtherTypes /\ requests \in Seq(Requests) /\ UrlsInOrder(requests)
  BY OtherTypesHold DEF IInv, ManagerTypeOK, Requests
<1>2. /\ stable' = NoClient /\ tries' \in {0, tries}
      /\ UNCHANGED <<saved, requests, page, status, enabled, current, client, timer,
                     bound, phase, wakes>>
  BY DEF StableFires, stateVars
<1>3. tries' \in 0..MaxTries
  BY <1>1, <1>2, ManagerAssumption DEF OtherTypes
<1>4. OtherTypes'
  BY <1>1, <1>2, <1>3 DEF OtherTypes
<1> QED BY <1>1, <1>2, <1>4, FrameKeeps

\* The network or the tab comes back.
LEMMA WakeKeeps ==
    ASSUME IInv, Wake
    PROVE  IInv'
<1>1. OtherTypes /\ requests \in Seq(Requests) /\ UrlsInOrder(requests)
  BY OtherTypesHold DEF IInv, ManagerTypeOK, Requests
<1>2. wakes' \in 0..MaxWakes
  BY <1>1, ManagerAssumption DEF Wake, OtherTypes
<1>3. UNCHANGED <<saved, stable, tries, bound>> /\ timer' \in {timer, NoClient}
  BY DEF Wake
<1>4. page' \in {"idle", "saving", "hung"} \cup Clients
  BY <1>1 DEF Wake, OtherTypes, PageWithout
<1>5. OtherTypes'
  BY <1>1, <1>2, <1>3, <1>4 DEF OtherTypes
<1>6. CASE bound /\ enabled /\ status # "connected"
  <2>1. StartBridge(requests) /\ saved' = TRUE
    BY <1>3, <1>6 DEF Wake, IInv, RunsOnlyAsSaved, ManagerTypeOK
  <2> QED BY <1>1, <1>5, <2>1, StartedIInv
<1>7. CASE ~(bound /\ enabled /\ status # "connected")
  <2>1. UNCHANGED <<requests, status, enabled, current, client, phase, timer>>
    BY <1>7 DEF Wake, stateVars
  <2> QED BY <1>1, <1>3, <1>5, <2>1, FrameKeeps
<1> QED BY <1>6, <1>7

-----------------------------------------------------------------------------
\* The pane starts with the invariant.
LEMMA InitIInv == Init => IInv
<1> SUFFICES ASSUME Init PROVE IInv
  OBVIOUS
<1>1. requests = <<Asked("boot", NoClient)>> /\ Asked("boot", NoClient) \in Requests
  BY DEF Init, Requests
<1>2. requests \in Seq(Requests)
  BY <1>1
<1>3. UrlsInOrder(requests)
  BY <1>1 DEF UrlsInOrder, Asked, Init
<1>4. /\ page = "idle" /\ status = "off" /\ enabled = FALSE /\ current = NoClient
      /\ client = NoClient /\ timer = NoClient /\ stable = NoClient /\ tries = 0
      /\ bound = FALSE /\ phase = [c \in Clients |-> "down"] /\ wakes = 0
  BY DEF Init
<1>5. tries \in 0..MaxTries /\ wakes \in 0..MaxWakes
  BY <1>4, ManagerAssumption
<1>6. saved \in BOOLEAN
  BY Zenon DEF Init
<1>7. ManagerTypeOK
  BY <1>2, <1>4, <1>5, <1>6 DEF ManagerTypeOK, Requests, Phases
<1> QED BY <1>3, <1>4, <1>7
        DEF IInv, ClientHasUrl, CurrentIsClient, EnabledHasCurrent, TruthfulBadge,
            LiveIsShown, KeepsTrying, StableIsCurrent, RunsOnlyAsSaved

\* A step that changes nothing.
LEMMA StutterIInv == IInv /\ UNCHANGED vars => IInv'
BY DEF vars, stateVars, timerVars, IInv, ManagerTypeOK, UrlsInOrder, ClientHasUrl,
       CurrentIsClient, EnabledHasCurrent, TruthfulBadge, LiveIsShown, KeepsTrying,
       StableIsCurrent, RunsOnlyAsSaved, Live

\* Every step keeps the invariant.
LEMMA StepIInv == IInv /\ [Next]_vars => IInv'
<1> SUFFICES ASSUME IInv, [Next]_vars PROVE IInv'
  OBVIOUS
<1>1. CASE Toggle \/ ReopenPage
  BY <1>1, PageKeeps
<1>2. CASE BootAnswered \/ EnableSaved \/ DisableSaved \/ SaveFails
  BY <1>2, SettingAnsweredKeeps
<1>3. CASE UrlAnswered
  BY <1>3, UrlAnsweredKeeps
<1>4. ASSUME NEW c \in Clients, ClientStep(c) PROVE IInv'
  BY <1>4, ClientStepKeeps
<1>5. CASE TimerFires
  BY <1>5, TimerKeeps
<1>6. CASE StableFires
  BY <1>6, StableKeeps
<1>7. CASE Wake
  BY <1>7, WakeKeeps
<1>8. CASE UNCHANGED vars
  BY <1>8, StutterIInv
<1> QED BY <1>1, <1>2, <1>3, <1>4, <1>5, <1>6, <1>7, <1>8 DEF Next, StoreAnswers

\* The inductive invariant holds throughout.
THEOREM InductiveInvariant == Spec => []IInv
BY InitIInv, StepIInv, PTL DEF Spec

\* The values of the manager's, its clients' and the page's variables.
THEOREM ManagerTypes == Spec => []ManagerTypeOK
<1>1. IInv => ManagerTypeOK
  BY DEF IInv
<1> QED BY <1>1, InductiveInvariant, PTL

\* An enabled bridge always has something under way that will connect it: no
\* interleaving of the timers, wakes, late URLs and ends of old clients loses
\* the retry.
THEOREM RetryIsNeverLost == Spec => []KeepsTrying
<1>1. IInv => KeepsTrying
  BY DEF IInv
<1> QED BY <1>1, InductiveInvariant, PTL

\* The badge says "connected" only of a client that is: the present one, which
\* `client' refers to.
THEOREM BadgeIsTruthful == Spec => []TruthfulBadge
<1>1. IInv => TruthfulBadge
  BY DEF IInv
<1> QED BY <1>1, InductiveInvariant, PTL

\* The bridge runs only while the stored setting says so.
THEOREM RunsAsSaved == Spec => []RunsOnlyAsSaved
<1>1. IInv => RunsOnlyAsSaved
  BY DEF IInv
<1> QED BY <1>1, InductiveInvariant, PTL

\* Only the end of the bridge and the stable timer of the connection that is up
\* shorten the backoff.
THEOREM BackoffIsKept == Spec => BackoffKept
<1> DEFINE Allowed == tries' < tries => ~enabled' \/ (stable = current /\ Live(current))
<1>1. IInv /\ [Next]_vars => [Allowed]_vars
  <2> SUFFICES ASSUME IInv, Next, tries' < tries
               PROVE  ~enabled' \/ (stable = current /\ Live(current))
    BY DEF vars
  <2>1. tries \in Nat /\ tries <= MaxTries /\ MaxTries \in Nat
    BY ManagerAssumption DEF IInv, ManagerTypeOK
  <2>2. CASE StableFires
    <3>1. status = "connected" /\ stable # NoClient
      BY <2>1, <2>2 DEF StableFires
    <3> QED BY <3>1 DEF IInv, StableIsCurrent, TruthfulBadge
  <2>3. CASE DisableSaved
    BY <2>3 DEF DisableSaved, StopBridge
  <2>4. ASSUME NEW c \in Clients, ClientStep(c) PROVE FALSE
    <3>1. tries' = tries \/ tries' = (IF tries < MaxTries THEN tries + 1 ELSE tries)
      BY <2>4 DEF ClientStep, Welcome, ConnectFails, LateEnds, GoesSilent, Drops,
                  Nothing, ScheduleReconnect, timerVars
    <3> QED BY <2>1, <3>1
  <2>5. CASE \/ Toggle \/ ReopenPage \/ BootAnswered \/ EnableSaved \/ SaveFails
             \/ UrlAnswered \/ TimerFires \/ Wake
    <3>1. tries' = tries
      BY <2>5 DEF Toggle, ReopenPage, BootAnswered, EnableSaved, SaveFails,
                  UrlAnswered, TimerFires, Wake, timerVars
    <3> QED BY <2>1, <3>1
  <2> QED BY <2>2, <2>3, <2>4, <2>5 DEF Next, StoreAnswers
<1> QED BY <1>1, InductiveInvariant, PTL DEF Spec, BackoffKept
=============================================================================
