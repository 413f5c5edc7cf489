-------------------------- MODULE SessionTabsProofs --------------------------
(***************************************************************************)
(* What holds of the tabs and of their stored sessions for all sets of     *)
(* tabs, ids and calls, and all limits.                                    *)
(*                                                                         *)
(* The first part is about any set-up.  That no turn strays into another   *)
(* session follows once every place that holds turns of a session -- the   *)
(* store, a tab, a request, a session being opened -- holds turns of its   *)
(* own; an id that was just made is held nowhere.                          *)
(*                                                                         *)
(* The second part is about panes that open no session a tab can still     *)
(* save, and in which a tab stays open while its user is asked about it:   *)
(* what is stored of a session, what the waiting saves hold of it and what *)
(* its tab shows only grow, in this order, so that no save can lose a      *)
(* turn.                                                                   *)
(***************************************************************************)
EXTENDS SessionTabs, TLAPS

\* 0 is the turn an old session already has.
TurnNumbers == 0 .. MaxTurns

Requests == [ask : {"save", "read"}, id : Ids, data : SUBSET TurnNumbers, closer : Closers \cup {None}]
Loads == [pc : {"none", "reading", "loaded", "made"}, how : {None, "new", "replace", "reopen"},
          id : Ids \cup {None}, data : SUBSET TurnNumbers, tab : Tabs \cup {None}]
Closings == [pc : {"none", "asking", "saving", "saved"}, tab : Tabs \cup {None},
             id : Ids \cup {None}]

\* The values the variables take.
TabsTypes ==
    /\ open \in SUBSET Tabs
    /\ session \in [Tabs -> Ids \cup {None}]
    /\ history \in [Tabs -> SUBSET TurnNumbers]
    /\ seen \in [Tabs -> BOOLEAN]
    /\ work \in [Tabs -> {"idle", "streaming", "compacting"}]
    /\ closer \in [Closers -> Closings]
    /\ recent \in Seq(Ids)
    /\ opening \in Loads
    /\ stored \in [Ids -> (SUBSET TurnNumbers) \cup {None}]
    /\ requests \in Seq(Requests)
    /\ turns \in TurnNumbers /\ commands \in Nat /\ faults \in Nat
    /\ owed \in [Ids -> SUBSET TurnNumbers]
    /\ own \in [Ids -> SUBSET TurnNumbers]
    /\ failed \in SUBSET Ids

\* A tab that can save has a session, and so has one being closed.
HasSession ==
    /\ \A t \in Live : session[t] # None
    /\ \A k \in Closers :
          /\ closer[k].pc # "none" => closer[k].tab # None /\ session[closer[k].tab] # None
          /\ closer[k].pc = "saved" => closer[k].id # None
    /\ opening.pc # "none" => opening.id # None

\* Requests somebody waits for: one save for each tab that is being closed, one
\* read for the session that is being opened.
Awaited ==
    /\ \A n \in 1..Len(requests) :
          /\ requests[n].closer # None =>
                requests[n].ask = "save" /\ closer[requests[n].closer].pc = "saving"
          /\ requests[n].ask = "read" =>
                opening.pc = "reading" /\ opening.id = requests[n].id
    /\ \A m, n \in 1..Len(requests) :
          \/ requests[m].closer # None /\ requests[m].closer = requests[n].closer
          \/ requests[m].ask = "read" /\ requests[n].ask = "read"
          => m = n

\* Whatever holds turns of a session holds turns of its own.
Own ==
    /\ \A i \in Ids : stored[i] # None => stored[i] \subseteq own[i]
    /\ \A t \in Tabs : session[t] # None => history[t] \subseteq own[session[t]]
    /\ \A n \in 1..Len(requests) : requests[n].data \subseteq own[requests[n].id]
    /\ opening.pc # "none" => opening.data \subseteq own[opening.id]

TabsInv == TabsTypes /\ HasSession /\ Awaited /\ Own

\* What the store holds of session i.
Stored(i) == IF stored[i] = None THEN {} ELSE stored[i]

\* A waiting save of session i.
Saves(n, i) == requests[n].ask = "save" /\ requests[n].id = i

\* The tab that the user is asked about is open; so it is if one tab at a time is
\* being closed.
AskedIsOpen == \A k \in Closers : closer[k].pc = "asking" => closer[k].tab \in open
OneCloser == \A j, k \in Closers : j = k
ClosedLast == \A k \in Closers : closer[k].pc # "none" => closer[k].tab \in open

\* No two tabs can save the same session.
Apart == \A t, u \in Live : session[t] = session[u] => t = u

\* Turns h are all that the store holds of session i or is asked to hold.
Above(i, h) ==
    /\ Stored(i) \subseteq h
    /\ \A n \in 1..Len(requests) : Saves(n, i) => requests[n].data \subseteq h

\* No save holds less of a session than the store or an earlier save, nor more
\* than the session's tab.
Growing ==
    /\ \A t \in Live : Above(session[t], history[t])
    /\ \A n \in 1..Len(requests) : requests[n].ask = "save" =>
          /\ Stored(requests[n].id) \subseteq requests[n].data
          /\ \A m \in 1..(n - 1) :
                Saves(m, requests[n].id) => requests[m].data \subseteq requests[n].data

\* A session being opened is not saved meanwhile.
OpenedAlone ==
    opening.pc # "none" =>
        /\ opening.id \notin Shown
        /\ opening.pc = "reading" =>
              \A n \in 1..Len(requests) : requests[n].ask = "read" =>
                  \A m \in (n + 1)..Len(requests) : ~Saves(m, opening.id)
        /\ opening.pc # "reading" =>
              /\ opening.data = Stored(opening.id)
              /\ \A n \in 1..Len(requests) : ~Saves(n, opening.id)

SavedInv == Apart /\ Growing /\ OpenedAlone /\ EveryTurnIsSaved

-----------------------------------------------------------------------------
LEMMA FreshIsUnused ==
    ASSUME Unused # {}
    PROVE  Fresh \in Unused
BY DEF Fresh

\* An id that was just made is held nowhere.
LEMMA HeldNowhere ==
    ASSUME TabsTypes, Unused # {}
    PROVE  /\ Fresh \in Ids
           /\ stored[Fresh] = None /\ owed[Fresh] = {}
           /\ \A t \in Tabs : session[t] # Fresh
           /\ \A k \in Closers : closer[k].id # Fresh
           /\ \A n \in 1..Len(requests) : requests[n].id # Fresh
           /\ opening.id # Fresh
<1>1. Fresh \in Unused
  BY FreshIsUnused
<1>2. DOMAIN requests = 1..Len(requests)
  BY DEF TabsTypes
<1> QED
  BY <1>1, <1>2 DEF Unused

\* A request is put at the end of the queue ...
LEMMA Queued ==
    ASSUME NEW q \in Seq(Requests), NEW r \in Requests
    PROVE  /\ Append(q, r) \in Seq(Requests)
           /\ Len(Append(q, r)) = Len(q) + 1
           /\ Len(q) \in Nat
           /\ Append(q, r)[Len(q) + 1] = r
           /\ \A n \in 1..Len(q) : Append(q, r)[n] = q[n]
           /\ \A n \in 1..(Len(q) + 1) : n \in 1..Len(q) \/ n = Len(q) + 1
OBVIOUS

\* ... and the first one is served.
LEMMA Served ==
    ASSUME NEW q \in Seq(Requests), q # <<>>
    PROVE  /\ Head(q) = q[1] /\ Head(q) \in Requests
           /\ Tail(q) \in Seq(Requests)
           /\ Len(q) \in Nat /\ 1 \in 1..Len(q)
           /\ Len(Tail(q)) = Len(q) - 1
           /\ \A n \in 1..Len(Tail(q)) : Tail(q)[n] = q[n + 1] /\ n + 1 \in 1..Len(q)
OBVIOUS

LEMMA RequestFields ==
    ASSUME requests \in Seq(Requests), NEW n \in 1..Len(requests)
    PROVE  /\ requests[n] \in Requests
           /\ requests[n].ask \in {"save", "read"} /\ requests[n].id \in Ids
           /\ requests[n].data \in SUBSET TurnNumbers
           /\ requests[n].closer \in Closers \cup {None}
<1>1. requests[n] \in Requests
  OBVIOUS
<1> QED
  BY <1>1 DEF Requests

LEMMA PushedType ==
    ASSUME recent \in Seq(Ids), NEW i \in Ids, SessionAssumption
    PROVE  Pushed(i) \in Seq(Ids)
<1> DEFINE all == <<i>> \o recent
           n == IF Len(recent) < RecentLimit THEN Len(recent) + 1 ELSE RecentLimit
<1>1. all \in Seq(Ids) /\ Len(all) = Len(recent) + 1
  OBVIOUS
<1>2. n \in 0..Len(all)
  BY <1>1 DEF SessionAssumption
<1>3. \A m \in 1..n : all[m] \in Ids
  BY <1>1, <1>2
<1> HIDE DEF all, n
<1>4. SubSeq(all, 1, n) \in Seq(Ids)
  BY <1>1, <1>2, <1>3
<1> QED
  BY <1>4 DEF Pushed, all, n

LEMMA RemoveAtType ==
    ASSUME recent \in Seq(Ids), NEW n \in DOMAIN recent
    PROVE  RemoveAt(recent, n) \in Seq(Ids) /\ recent[n] \in Ids
<1>1. n \in 1..Len(recent) /\ Len(recent) \in Nat
  OBVIOUS
<1>2. SubSeq(recent, 1, n - 1) \in Seq(Ids)
  BY <1>1
<1>3. SubSeq(recent, n + 1, Len(recent)) \in Seq(Ids)
  BY <1>1
<1> QED
  BY <1>1, <1>2, <1>3 DEF RemoveAt

LEMMA TabsInit ==
    ASSUME SessionAssumption, Init
    PROVE  TabsInv
<1>1. requests \in Seq(Requests) /\ recent \in Seq(Ids) /\ Len(requests) = 0
  BY DEF Init
<1>2. TabsTypes
  BY <1>1 DEF Init, SessionAssumption, TabsTypes, TurnNumbers, Closings, Loads, NoLoad, NotClosing
<1>3. HasSession
  BY DEF Init, SessionAssumption, HasSession, Live, NoLoad, NotClosing
<1>4. Awaited
  BY <1>1 DEF Awaited
<1>5. Own
  BY <1>1 DEF Init, SessionAssumption, Own, NoLoad
<1> QED
  BY <1>2, <1>3, <1>4, <1>5 DEF TabsInv

-----------------------------------------------------------------------------
\* A save nobody waits for is asked for.
LEMMA PlainSave ==
    ASSUME TabsTypes, Awaited,
           NEW i \in Ids, NEW h \in SUBSET TurnNumbers,
           Ask(SaveOf(i, h, None)),
           closer' = closer, opening' = opening
    PROVE  /\ requests' \in Seq(Requests)
           /\ Awaited'
           /\ \A n \in 1..Len(requests') :
                 \/ n \in 1..Len(requests) /\ requests'[n] = requests[n]
                 \/ requests'[n].id = i /\ requests'[n].data = h
<1> DEFINE r == SaveOf(i, h, None)
<1>1. r \in Requests /\ r.ask = "save" /\ r.closer = None /\ r.id = i /\ r.data = h
  BY DEF SaveOf, Requests
<1>2. requests \in Seq(Requests) /\ requests' = Append(requests, r)
  BY DEF Ask, TabsTypes
<1> HIDE DEF r
<1>3. /\ requests' \in Seq(Requests)
      /\ Len(requests') = Len(requests) + 1 /\ Len(requests) \in Nat
      /\ requests'[Len(requests) + 1] = r
      /\ \A n \in 1..Len(requests) : requests'[n] = requests[n]
      /\ \A n \in 1..Len(requests') : n \in 1..Len(requests) \/ n = Len(requests) + 1
  BY <1>1, <1>2, Queued
<1>4. Awaited'
  <2>1. \A n \in 1..Len(requests') :
          /\ requests'[n].closer # None =>
                requests'[n].ask = "save" /\ closer'[requests'[n].closer].pc = "saving"
          /\ requests'[n].ask = "read" =>
                opening'.pc = "reading" /\ opening'.id = requests'[n].id
    BY <1>1, <1>3 DEF Awaited
  <2>2. \A m, n \in 1..Len(requests') :
          \/ requests'[m].closer # None /\ requests'[m].closer = requests'[n].closer
          \/ requests'[m].ask = "read" /\ requests'[n].ask = "read"
          => m = n
    BY <1>1, <1>3 DEF Awaited
  <2> QED
    BY <2>1, <2>2 DEF Awaited
<1> QED
  BY <1>1, <1>3, <1>4

\* The steps that ask the store for nothing leave Awaited alone.
LEMMA AwaitedStays ==
    ASSUME Awaited, requests' = requests, closer' = closer, opening' = opening
    PROVE  Awaited'
BY DEF Awaited

\* A new tab is as good as any other.
LEMMA TabAdded ==
    ASSUME SessionAssumption, TabsInv,
           NEW t \in Tabs, NEW h \in SUBSET TurnNumbers, AddTab(t, h), work' = work
    PROVE  /\ open' \in SUBSET Tabs
           /\ session' \in [Tabs -> Ids \cup {None}]
           /\ history' \in [Tabs -> SUBSET TurnNumbers]
           /\ seen' \in [Tabs -> BOOLEAN]
           /\ own' \in [Ids -> SUBSET TurnNumbers]
           /\ \A u \in Live' : session'[u] # None
           /\ \A k \in Closers : closer[k].pc # "none" =>
                 closer[k].tab # None /\ session'[closer[k].tab] # None
           /\ \A i \in Ids : stored[i] # None => stored[i] \subseteq own'[i]
           /\ \A u \in Tabs : session'[u] # None => history'[u] \subseteq own'[session'[u]]
           /\ \A n \in 1..Len(requests) : requests[n].data \subseteq own'[requests[n].id]
           /\ opening.pc # "none" => opening.data \subseteq own'[opening.id]
<1> USE DEF TabsInv
<1>1. /\ Fresh \in Ids /\ stored[Fresh] = None
      /\ \A u \in Tabs : session[u] # Fresh
      /\ \A n \in 1..Len(requests) : requests[n].id # Fresh
      /\ opening.id # Fresh
  BY HeldNowhere DEF AddTab
<1>2. /\ open' = open \cup {t}
      /\ session' = [session EXCEPT ![t] = Fresh]
      /\ history' = [history EXCEPT ![t] = h]
      /\ seen' = [seen EXCEPT ![t] = FALSE]
      /\ own' = [own EXCEPT ![Fresh] = h]
      /\ \A k \in Closers : closer[k].tab # t
  BY DEF AddTab, Shows, Free
<1>3. Fresh # None
  BY <1>1 DEF SessionAssumption
<1>4. \A u \in Live' : u \in Live \/ u = t
  BY <1>2 DEF Live, TabsTypes
<1>5. \A u \in Tabs : session'[u] = IF u = t THEN Fresh ELSE session[u]
  BY <1>2 DEF TabsTypes
<1>6. \A u \in Tabs : history'[u] = IF u = t THEN h ELSE history[u]
  BY <1>2 DEF TabsTypes
<1>7. \A i \in Ids : own'[i] = IF i = Fresh THEN h ELSE own[i]
  BY <1>2 DEF TabsTypes
<1>8. \A u \in Live' : session'[u] # None
  BY <1>3, <1>4, <1>5 DEF HasSession, Live
<1>9. \A k \in Closers : closer[k].pc # "none" =>
        closer[k].tab # None /\ session'[closer[k].tab] # None
  BY <1>2, <1>5 DEF HasSession, TabsTypes, Closings
<1>10. \A i \in Ids : stored[i] # None => stored[i] \subseteq own'[i]
  BY <1>1, <1>7 DEF Own
<1>11. \A u \in Tabs : session'[u] # None => history'[u] \subseteq own'[session'[u]]
  BY <1>1, <1>5, <1>6, <1>7 DEF Own, TabsTypes
<1>12. \A n \in 1..Len(requests) : requests[n].id \in Ids
  BY RequestFields DEF TabsTypes
<1>13. \A n \in 1..Len(requests) : requests[n].data \subseteq own'[requests[n].id]
  BY <1>1, <1>7, <1>12 DEF Own
<1>14. opening.pc # "none" => opening.data \subseteq own'[opening.id]
  BY <1>1, <1>7 DEF Own, HasSession, TabsTypes, Loads
<1> QED
  BY <1>1, <1>2, <1>8, <1>9, <1>10, <1>11, <1>13, <1>14 DEF TabsTypes

LEMMA NewTabKeeps ==
    ASSUME SessionAssumption, TabsInv, NEW t \in Tabs, NewTab(t)
    PROVE  TabsInv'
<1> USE DEF TabsInv
<1>1. work' = work /\ commands' \in Nat /\ AddTab(t, {})
  BY DEF NewTab, Command, TabsTypes
<1> QED
  BY <1>1, TabAdded, AwaitedStays
  DEF NewTab, callVars, storeVars, TabsTypes, HasSession, Own

LEMMA DuplicateKeeps ==
    ASSUME SessionAssumption, TabsInv, NEW t \in Tabs, Duplicate(t)
    PROVE  TabsInv'
<1> USE DEF TabsInv
<1>1. PICK u \in Tabs : AddTab(u, history[t])
  BY DEF Duplicate
<1>2. /\ work' = work /\ commands' \in Nat
      /\ history[t] \in SUBSET TurnNumbers
      /\ Fresh \in Ids
      /\ Ask(SaveOf(Fresh, history[t], None))
      /\ owed' \in [Ids -> SUBSET TurnNumbers]
      /\ closer' = closer /\ opening' = opening /\ recent' = recent
      /\ stored' = stored /\ turns' = turns /\ faults' = faults /\ failed' = failed
  BY <1>1, HeldNowhere DEF Duplicate, Command, TabsTypes, AddTab, callVars
<1>3. own'[Fresh] = history[t]
  BY <1>1, <1>2 DEF AddTab, TabsTypes
<1>4. /\ requests' \in Seq(Requests)
      /\ Awaited'
      /\ \A n \in 1..Len(requests') :
            \/ n \in 1..Len(requests) /\ requests'[n] = requests[n]
            \/ requests'[n].id = Fresh /\ requests'[n].data = history[t]
  BY <1>2, PlainSave
<1>5. TabsTypes'
  BY <1>1, <1>2, <1>4, TabAdded DEF TabsTypes
<1>6. HasSession'
  BY <1>1, <1>2, TabAdded DEF HasSession
<1>7. \A n \in 1..Len(requests') : requests'[n].data \subseteq own'[requests'[n].id]
  BY <1>1, <1>2, <1>3, <1>4, TabAdded
<1>8. Own'
  BY <1>1, <1>2, <1>7, TabAdded DEF Own
<1> QED
  BY <1>4, <1>5, <1>6, <1>8

LEMMA SendKeeps ==
    ASSUME SessionAssumption, TabsInv, NEW t \in Tabs, Send(t)
    PROVE  TabsInv'
<1> USE DEF TabsInv
<1>1. \A u \in Live' : u \in Live
  BY DEF Send, Live, TabsTypes
<1> QED
  BY <1>1, AwaitedStays DEF Send, callVars, storeVars, ghosts, TabsTypes, HasSession, Own

LEMMA CompactKeeps ==
    ASSUME SessionAssumption, TabsInv, NEW t \in Tabs, Compact(t)
    PROVE  TabsInv'
<1> USE DEF TabsInv
<1>1. \A u \in Live' : u \in Live
  BY DEF Compact, Live, TabsTypes
<1> QED
  BY <1>1, AwaitedStays
  DEF Compact, Command, callVars, storeVars, ghosts, TabsTypes, HasSession, Own

LEMMA AnswerKeeps ==
    ASSUME SessionAssumption, TabsInv, NEW t \in Tabs, Answer(t)
    PROVE  TabsInv'
<1> USE DEF TabsInv
<1> DEFINE h == history[t] \cup {turns'}
           i == session[t]
<1>1. /\ i \in Ids /\ t \in Live
      /\ turns' \in TurnNumbers /\ h \in SUBSET TurnNumbers
  BY DEF Answer, Live, HasSession, TabsTypes, TurnNumbers, SessionAssumption
<1>2. /\ session' = session /\ open' = open
      /\ history' = [history EXCEPT ![t] = h]
      /\ seen' \in [Tabs -> BOOLEAN]
      /\ work' = [work EXCEPT ![t] = "idle"]
      /\ own' = [own EXCEPT ![i] = @ \cup {turns'}]
      /\ owed' \in [Ids -> SUBSET TurnNumbers]
      /\ closer' = closer /\ opening' = opening /\ recent' = recent
      /\ stored' = stored /\ commands' = commands /\ faults' = faults /\ failed' = failed
      /\ Ask(SaveOf(i, h, None))
  BY <1>1 DEF Answer, Shows, callVars, TabsTypes
<1> HIDE DEF h
<1>3. /\ requests' \in Seq(Requests)
      /\ Awaited'
      /\ \A n \in 1..Len(requests') :
            \/ n \in 1..Len(requests) /\ requests'[n] = requests[n]
            \/ requests'[n].id = i /\ requests'[n].data = h
  BY <1>1, <1>2, PlainSave
<1>4. TabsTypes'
  BY <1>1, <1>2, <1>3 DEF TabsTypes
<1>5. HasSession'
  BY <1>2 DEF HasSession, Live, TabsTypes
<1>6. /\ own'[i] = own[i] \cup {turns'}
      /\ \A j \in Ids : own[j] \subseteq own'[j]
  BY <1>1, <1>2 DEF TabsTypes
<1>7. h \subseteq own'[i]
  BY <1>1, <1>6 DEF Own, TabsTypes, h, SessionAssumption
<1>8. \A n \in 1..Len(requests') : requests'[n].data \subseteq own'[requests'[n].id]
  BY <1>3, <1>6, <1>7, RequestFields DEF Own, TabsTypes
<1>9. \A u \in Tabs : session'[u] # None => history'[u] \subseteq own'[session'[u]]
  BY <1>2, <1>6, <1>7 DEF Own, TabsTypes
<1>10. opening.pc # "none" => opening.data \subseteq own'[opening.id]
  BY <1>6 DEF Own, HasSession, TabsTypes, Loads
<1>11. Own'
  BY <1>2, <1>6, <1>8, <1>9, <1>10 DEF Own
<1> QED
  BY <1>3, <1>4, <1>5, <1>11

LEMMA RenameKeeps ==
    ASSUME SessionAssumption, TabsInv, NEW t \in Tabs, Rename(t)
    PROVE  TabsInv'
<1> USE DEF TabsInv
<1>1. /\ session[t] \in Ids /\ history[t] \in SUBSET TurnNumbers
      /\ commands' \in Nat
      /\ Ask(SaveOf(session[t], history[t], None))
      /\ UNCHANGED <<tabVars, callVars, stored, turns, faults, ghosts>>
  BY DEF Rename, Save, Command, Live, HasSession, TabsTypes
<1>2. /\ requests' \in Seq(Requests)
      /\ Awaited'
      /\ \A n \in 1..Len(requests') :
            \/ n \in 1..Len(requests) /\ requests'[n] = requests[n]
            \/ requests'[n].id = session[t] /\ requests'[n].data = history[t]
  BY <1>1, PlainSave DEF callVars
<1>3. \A n \in 1..Len(requests') : requests'[n].data \subseteq own[requests'[n].id]
  BY <1>1, <1>2 DEF Own, SessionAssumption
<1> QED
  BY <1>1, <1>2, <1>3
  DEF tabVars, callVars, ghosts, TabsTypes, HasSession, Own, Live

\* A tab nothing refers to any more is forgotten, or not.
LEMMA TabForgotten ==
    ASSUME SessionAssumption, TabsInv, NEW t \in Tabs, NEW gone \in BOOLEAN,
           Forgotten(t, gone), gone => t \notin Live'
    PROVE  /\ session' \in [Tabs -> Ids \cup {None}]
           /\ history' \in [Tabs -> SUBSET TurnNumbers]
           /\ seen' \in [Tabs -> BOOLEAN]
           /\ \A u \in Tabs : session'[u] # None =>
                 session'[u] = session[u] /\ history'[u] = history[u]
           /\ \A u \in Tabs : session[u] # None => session'[u] # None \/ (gone /\ u = t)
<1> USE DEF TabsInv
<1>1. CASE gone
  BY <1>1 DEF Forgotten, Shows, TabsTypes
<1>2. CASE ~gone
  BY <1>2 DEF Forgotten, TabsTypes
<1> QED
  BY <1>1, <1>2

LEMMA CompactEndsKeeps ==
    ASSUME SessionAssumption, TabsInv, NEW t \in Tabs, CompactEnds(t)
    PROVE  TabsInv'
<1> USE DEF TabsInv
<1> DEFINE gone == t \notin open /\ \A k \in Closers : closer[k].tab # t
<1>1. /\ session[t] \in Ids /\ history[t] \in SUBSET TurnNumbers
      /\ work' = [work EXCEPT ![t] = "idle"]
      /\ Forgotten(t, gone)
      /\ UNCHANGED <<open, callVars, stored, turns, commands, faults, ghosts>>
      /\ Ask(SaveOf(session[t], history[t], None)) \/ UNCHANGED requests
  BY DEF CompactEnds, Save, Live, HasSession, TabsTypes
<1>2. gone => t \notin Live'
  BY <1>1 DEF Live, TabsTypes
<1>3. \A u \in Live' : u \in Live
  BY <1>1 DEF Live, TabsTypes
<1>4. /\ session' \in [Tabs -> Ids \cup {None}]
      /\ history' \in [Tabs -> SUBSET TurnNumbers]
      /\ seen' \in [Tabs -> BOOLEAN]
      /\ \A u \in Tabs : session'[u] # None =>
            session'[u] = session[u] /\ history'[u] = history[u]
      /\ \A u \in Tabs : session[u] # None => session'[u] # None \/ (gone /\ u = t)
  BY <1>1, <1>2, TabForgotten
<1>5. /\ requests' \in Seq(Requests)
      /\ Awaited'
      /\ \A n \in 1..Len(requests') :
            \/ n \in 1..Len(requests) /\ requests'[n] = requests[n]
            \/ requests'[n].id = session[t] /\ requests'[n].data = history[t]
  <2>1. CASE Ask(SaveOf(session[t], history[t], None))
    BY <1>1, <2>1, PlainSave DEF callVars
  <2>2. CASE UNCHANGED requests
    BY <1>1, <2>2, AwaitedStays DEF callVars, TabsTypes
  <2> QED
    BY <1>1, <2>1, <2>2
<1>6. \A n \in 1..Len(requests') : requests'[n].data \subseteq own[requests'[n].id]
  BY <1>1, <1>5 DEF Own, SessionAssumption
<1>7. TabsTypes'
  BY <1>1, <1>4, <1>5 DEF TabsTypes, callVars, ghosts
<1>8. HasSession'
  BY <1>1, <1>2, <1>3, <1>4 DEF HasSession, callVars, Live, TabsTypes, Closings
<1>9. Own'
  BY <1>1, <1>4, <1>6 DEF Own, callVars, ghosts
<1> QED
  BY <1>5, <1>7, <1>8, <1>9

LEMMA NewSessionKeeps ==
    ASSUME SessionAssumption, TabsInv, NEW t \in Tabs, NewSession(t)
    PROVE  TabsInv'
<1> USE DEF TabsInv
<1>1. /\ Fresh \in Ids /\ Fresh # None /\ stored[Fresh] = None
      /\ \A u \in Tabs : session[u] # Fresh
      /\ \A n \in 1..Len(requests) : requests[n].id # Fresh
      /\ opening.id # Fresh
  BY HeldNowhere DEF NewSession, SessionAssumption
<1>2. /\ open' = open /\ work' = work /\ commands' \in Nat
      /\ session' = [session EXCEPT ![t] = Fresh]
      /\ history' = [history EXCEPT ![t] = history[t]]
      /\ seen' = [seen EXCEPT ![t] = FALSE]
      /\ own' = [own EXCEPT ![Fresh] = history[t]]
      /\ UNCHANGED <<callVars, storeVars, turns, faults, owed, failed>>
  BY DEF NewSession, Shows, Command, TabsTypes
<1>3. \A u \in Tabs : session'[u] = IF u = t THEN Fresh ELSE session[u]
  BY <1>2 DEF TabsTypes
<1>4. \A i \in Ids : own'[i] = IF i = Fresh THEN history[t] ELSE own[i]
  BY <1>2 DEF TabsTypes
<1>5. \A u \in Tabs : history'[u] = history[u]
  BY <1>2 DEF TabsTypes
<1>6. TabsTypes'
  BY <1>1, <1>2 DEF TabsTypes, callVars, storeVars
<1>7. HasSession'
  BY <1>1, <1>2, <1>3 DEF HasSession, callVars, Live, TabsTypes, Closings
<1>8. Awaited'
  BY <1>2, AwaitedStays DEF callVars, storeVars
<1>9. \A u \in Tabs : session'[u] # None => history'[u] \subseteq own'[session'[u]]
  <2>1. ASSUME NEW u \in Tabs, session'[u] # None
        PROVE  history'[u] \subseteq own'[session'[u]]
    <3>1. CASE u = t
      BY <1>1, <1>3, <1>4, <1>5, <3>1
    <3>2. CASE u # t
      <4>1. session[u] \in Ids /\ session[u] # Fresh /\ session[u] # None
        BY <1>1, <1>3, <2>1, <3>2 DEF TabsTypes
      <4> QED
        BY <1>3, <1>4, <1>5, <3>2, <4>1 DEF Own
    <3> QED
      BY <3>1, <3>2
  <2> QED
    BY <2>1
<1>10. \A n \in 1..Len(requests) : requests[n].data \subseteq own'[requests[n].id]
  BY <1>1, <1>4, RequestFields DEF Own, TabsTypes
<1>11. opening.pc # "none" => opening.data \subseteq own'[opening.id]
  BY <1>1, <1>4 DEF Own, HasSession, TabsTypes, Loads
<1>12. Own'
  BY <1>1, <1>2, <1>4, <1>9, <1>10, <1>11 DEF Own, callVars, storeVars
<1> QED
  BY <1>6, <1>7, <1>8, <1>12

-----------------------------------------------------------------------------
LEMMA StartLoadKeeps ==
    ASSUME SessionAssumption, TabsInv,
           NEW i \in Ids, NEW how \in {"new", "replace", "reopen"}, StartLoad(i, how),
           recent' \in Seq(Ids)
    PROVE  TabsInv'
<1> USE DEF TabsInv
<1> DEFINE r == Read(i)
<1>1. r \in Requests /\ r.ask = "read" /\ r.closer = None /\ r.id = i /\ r.data = {}
  BY DEF Read, Requests
<1>a. NoLoad \in Loads /\ NoLoad.pc = "none" /\ NoLoad.data = {}
  BY DEF NoLoad, Loads
<1>b. opening = NoLoad /\ opening' = [opening EXCEPT !.pc = "reading", !.how = how, !.id = i]
  BY DEF StartLoad
<1>c. /\ opening.pc = "none" /\ opening.data = {}
      /\ opening' \in Loads /\ opening'.pc = "reading" /\ opening'.id = i
      /\ opening'.data = opening.data
  BY <1>a, <1>b DEF TabsTypes, Loads
<1>2. /\ opening.pc = "none" /\ i # None
      /\ opening' \in Loads /\ opening'.pc = "reading" /\ opening'.id = i
      /\ opening'.data = {}
      /\ requests \in Seq(Requests) /\ requests' = Append(requests, r)
      /\ commands' \in Nat
      /\ UNCHANGED <<tabVars, closer, stored, turns, faults, ghosts>>
  BY <1>c DEF StartLoad, Ask, Command, TabsTypes, SessionAssumption
<1> HIDE DEF r
<1>3. /\ requests' \in Seq(Requests)
      /\ Len(requests') = Len(requests) + 1 /\ Len(requests) \in Nat
      /\ requests'[Len(requests) + 1] = r
      /\ \A n \in 1..Len(requests) : requests'[n] = requests[n]
      /\ \A n \in 1..Len(requests') : n \in 1..Len(requests) \/ n = Len(requests) + 1
  BY <1>1, <1>2, Queued
<1>4. TabsTypes'
  BY <1>2, <1>3 DEF TabsTypes, tabVars, ghosts
<1>5. HasSession'
  BY <1>2 DEF HasSession, tabVars, Live
<1>6. \A n \in 1..Len(requests) : requests[n].ask # "read"
  BY <1>2 DEF Awaited
<1>7. Awaited'
  <2>1. \A n \in 1..Len(requests') :
          /\ requests'[n].closer # None =>
                requests'[n].ask = "save" /\ closer'[requests'[n].closer].pc = "saving"
          /\ requests'[n].ask = "read" =>
                opening'.pc = "reading" /\ opening'.id = requests'[n].id
    BY <1>1, <1>2, <1>3, <1>6 DEF Awaited
  <2>2. \A m, n \in 1..Len(requests') :
          \/ requests'[m].closer # None /\ requests'[m].closer = requests'[n].closer
          \/ requests'[m].ask = "read" /\ requests'[n].ask = "read"
          => m = n
    BY <1>1, <1>3, <1>6 DEF Awaited
  <2> QED
    BY <2>1, <2>2 DEF Awaited
<1>8. Own'
  BY <1>1, <1>2, <1>3 DEF Own, tabVars, ghosts
<1> QED
  BY <1>4, <1>5, <1>7, <1>8

LEMMA ResumeKeeps ==
    ASSUME SessionAssumption, TabsInv, NEW i \in Ids, Resume(i)
    PROVE  TabsInv'
<1>1. PICK how \in {"new", "replace"} : StartLoad(i, how)
  BY DEF Resume
<1>2. recent' \in Seq(Ids)
  BY DEF Resume, TabsInv, TabsTypes
<1> QED
  BY <1>1, <1>2, StartLoadKeeps

LEMMA ReopenKeeps ==
    ASSUME SessionAssumption, TabsInv, Reopen
    PROVE  TabsInv'
<1>1. PICK n \in DOMAIN recent :
         recent' = RemoveAt(recent, n) /\ StartLoad(recent[n], "reopen")
  BY DEF Reopen
<1>2. recent' \in Seq(Ids) /\ recent[n] \in Ids
  BY <1>1, RemoveAtType DEF TabsInv, TabsTypes
<1> QED
  BY <1>1, <1>2, StartLoadKeeps

LEMMA LoadMakesTabKeeps ==
    ASSUME SessionAssumption, TabsInv, NEW t \in Tabs, LoadMakesTab(t)
    PROVE  TabsInv'
<1> USE DEF TabsInv
<1>1. /\ work' = work /\ AddTab(t, {})
      /\ opening.pc = "loaded" /\ opening' = [opening EXCEPT !.pc = "made", !.tab = t]
      /\ UNCHANGED <<closer, recent, storeVars, turns, commands, faults, owed, failed>>
  BY DEF LoadMakesTab
<1>2. /\ opening' \in Loads /\ opening'.pc = "made"
      /\ opening'.id = opening.id /\ opening'.data = opening.data
  BY <1>1 DEF TabsTypes, Loads
<1>3. TabsTypes'
  BY <1>1, <1>2, TabAdded DEF TabsTypes, storeVars
<1>4. HasSession'
  BY <1>1, <1>2, TabAdded DEF HasSession
<1>5. Awaited'
  BY <1>1, <1>2 DEF Awaited, storeVars
<1>6. Own'
  BY <1>1, <1>2, TabAdded DEF Own, storeVars
<1> QED
  BY <1>3, <1>4, <1>5, <1>6

LEMMA AppliedKeeps ==
    ASSUME SessionAssumption, TabsInv, NEW t \in Tabs, Applied(t),
           opening.pc \notin {"none", "reading"}
    PROVE  TabsInv'
<1> USE DEF TabsInv
<1>1. opening.id \in Ids /\ opening.id # None /\ opening.data \in SUBSET TurnNumbers
  BY DEF HasSession, TabsTypes, Loads
<1>2. /\ session' = [session EXCEPT ![t] = opening.id]
      /\ history' = [history EXCEPT ![t] = opening.data]
      /\ seen' \in [Tabs -> BOOLEAN]
      /\ opening' = NoLoad
      /\ UNCHANGED <<open, work, closer, recent, storeVars, turns, commands, faults, ghosts>>
  BY DEF Applied, Shows, TabsTypes
<1>3. NoLoad \in Loads /\ NoLoad.pc = "none"
  BY DEF NoLoad, Loads
<1>4. TabsTypes'
  BY <1>1, <1>2, <1>3 DEF TabsTypes, storeVars, ghosts
<1>5. \A u \in Tabs : session'[u] = IF u = t THEN opening.id ELSE session[u]
  BY <1>2 DEF TabsTypes
<1>6. HasSession'
  BY <1>1, <1>2, <1>3, <1>5 DEF HasSession, Live, TabsTypes, Closings
<1>7. Awaited'
  BY <1>2 DEF Awaited, storeVars
<1>8. Own'
  BY <1>1, <1>2, <1>3, <1>5 DEF Own, TabsTypes, storeVars, ghosts
<1> QED
  BY <1>4, <1>6, <1>7, <1>8

LEMMA OpeningEndsKeeps ==
    ASSUME SessionAssumption, TabsInv, opening' = NoLoad, opening.pc # "reading",
           UNCHANGED <<tabVars, closer, recent, storeVars, turns, commands, faults, ghosts>>
    PROVE  TabsInv'
<1>1. NoLoad \in Loads /\ NoLoad.pc = "none"
  BY DEF NoLoad, Loads
<1> QED
  BY <1>1 DEF TabsInv, TabsTypes, HasSession, Awaited, Own, Live, tabVars, storeVars, ghosts

LEMMA LoadFillsTabKeeps ==
    ASSUME SessionAssumption, TabsInv, LoadFillsTab
    PROVE  TabsInv'
<1>1. CASE opening.tab \in open
  BY <1>1, AppliedKeeps DEF LoadFillsTab, TabsInv, TabsTypes
<1>2. CASE opening.tab \notin open
  BY <1>2, OpeningEndsKeeps DEF LoadFillsTab
<1> QED
  BY <1>1, <1>2

LEMMA LoadReplacesKeeps ==
    ASSUME SessionAssumption, TabsInv, NEW t \in Tabs, LoadReplaces(t)
    PROVE  TabsInv'
<1>1. CASE work[t] = "idle"
  BY <1>1, AppliedKeeps DEF LoadReplaces
<1>2. CASE work[t] # "idle"
  BY <1>2, OpeningEndsKeeps DEF LoadReplaces
<1> QED
  BY <1>1, <1>2

-----------------------------------------------------------------------------
\* The first request is served; what is left was asked for already.
LEMMA FirstServed ==
    ASSUME requests \in Seq(Requests), requests # <<>>, requests' = Tail(requests)
    PROVE  /\ requests' \in Seq(Requests)
           /\ Len(requests) \in Nat /\ 1 \in 1..Len(requests)
           /\ Head(requests) = requests[1] /\ Head(requests) \in Requests
           /\ Len(requests') = Len(requests) - 1
           /\ \A n \in 1..Len(requests') : n \in Nat /\ n + 1 \in 1..Len(requests) /\ n + 1 # 1
           /\ \A n \in 1..Len(requests') : requests'[n] = requests[n + 1]
<1>1. \A n \in 1..Len(Tail(requests)) :
         Tail(requests)[n] = requests[n + 1] /\ n + 1 \in 1..Len(requests)
  BY Served
<1> QED
  BY <1>1, Served

LEMMA ServeReadKeeps ==
    ASSUME SessionAssumption, TabsInv, ServeRead
    PROVE  TabsInv'
<1> USE DEF TabsInv
<1> DEFINE i == Head(requests).id
<1>1. /\ requests \in Seq(Requests) /\ requests # <<>> /\ requests' = Tail(requests)
      /\ Head(requests).ask = "read"
      /\ UNCHANGED <<tabVars, closer, stored, turns, commands, ghosts>>
  BY DEF ServeRead, TabsTypes
<1>2. /\ requests' \in Seq(Requests)
      /\ Len(requests) \in Nat /\ 1 \in 1..Len(requests)
      /\ Head(requests) = requests[1] /\ Head(requests) \in Requests
      /\ Len(requests') = Len(requests) - 1
      /\ \A n \in 1..Len(requests') : n \in Nat /\ n + 1 \in 1..Len(requests) /\ n + 1 # 1
      /\ \A n \in 1..Len(requests') : requests'[n] = requests[n + 1]
  BY <1>1, FirstServed
<1>3. i \in Ids /\ opening.pc = "reading" /\ opening.id = i
  BY <1>1, <1>2 DEF Awaited, Requests
<1>4. NoLoad \in Loads /\ NoLoad.pc = "none"
  BY DEF NoLoad, Loads
<1>5. /\ opening' \in Loads /\ recent' \in Seq(Ids) /\ faults' \in Nat
      /\ \/ opening'.pc = "none"
         \/ /\ opening'.pc = "loaded" /\ opening'.id = i
            /\ stored[i] # None /\ opening'.data = stored[i]
  <2>1. CASE /\ opening' = IF stored[i] = None THEN NoLoad
                           ELSE [opening EXCEPT !.pc = "loaded", !.data = stored[i]]
             /\ UNCHANGED <<recent, faults>>
    <3>1. CASE stored[i] = None
      BY <1>4, <2>1, <3>1 DEF TabsTypes
    <3>2. CASE stored[i] # None
      <4>1. opening' = [opening EXCEPT !.pc = "loaded", !.data = stored[i]]
        BY <2>1, <3>2
      <4>2. stored[i] \in SUBSET TurnNumbers
        BY <1>3, <3>2 DEF TabsTypes
      <4>3. opening' \in Loads /\ opening'.pc = "loaded" /\ opening'.id = i /\ opening'.data = stored[i]
        BY <1>3, <4>1, <4>2 DEF TabsTypes, Loads
      <4> QED
        BY <2>1, <3>2, <4>3 DEF TabsTypes
    <3> QED
      BY <3>1, <3>2
  <2>2. CASE /\ Fault
             /\ opening' = NoLoad
             /\ recent' = IF opening.how = "reopen" THEN Pushed(i) ELSE recent
    BY <1>3, <1>4, <2>2, PushedType DEF TabsTypes, Fault
  <2> QED
    BY <2>1, <2>2 DEF ServeRead
<1>6. TabsTypes'
  BY <1>1, <1>2, <1>5 DEF TabsTypes, tabVars, ghosts
<1>7. HasSession'
  BY <1>1, <1>3, <1>5 DEF HasSession, Live, tabVars, SessionAssumption
<1>8. Awaited'
  <2>1. \A n \in 1..Len(requests') :
          /\ requests'[n].ask # "read"
          /\ requests'[n].closer # None =>
                requests'[n].ask = "save" /\ closer'[requests'[n].closer].pc = "saving"
    BY <1>1, <1>2 DEF Awaited
  <2>2. \A m, n \in 1..Len(requests') :
          requests'[m].closer # None /\ requests'[m].closer = requests'[n].closer => m = n
    <3>1. ASSUME NEW m \in 1..Len(requests'), NEW n \in 1..Len(requests'),
                 requests'[m].closer # None, requests'[m].closer = requests'[n].closer
          PROVE  m = n
      <4>1. m + 1 = n + 1
        BY <1>2, <3>1 DEF Awaited
      <4> QED
        BY <1>2, <4>1
    <3> QED
      BY <3>1
  <2> QED
    BY <2>1, <2>2 DEF Awaited
<1>9. \A n \in 1..Len(requests') : requests'[n].data \subseteq own'[requests'[n].id]
  BY <1>1, <1>2 DEF Own, ghosts
<1>10. Own'
  BY <1>1, <1>3, <1>5, <1>9 DEF Own, tabVars, ghosts
<1> QED
  BY <1>6, <1>7, <1>8, <1>10

\* The store serves the save: it is written, or it fails.
LEMMA ServeSaveKeeps ==
    ASSUME SessionAssumption, TabsInv, ServeSave
    PROVE  TabsInv'
<1> USE DEF TabsInv
<1> DEFINE r == Head(requests)
<1>1. /\ requests \in Seq(Requests) /\ requests # <<>> /\ requests' = Tail(requests)
      /\ r.ask = "save"
      /\ UNCHANGED <<tabVars, recent, opening, turns, commands, owed, own>>
  BY DEF ServeSave, TabsTypes
<1>2. /\ requests' \in Seq(Requests)
      /\ Len(requests) \in Nat /\ 1 \in 1..Len(requests)
      /\ Head(requests) = requests[1] /\ Head(requests) \in Requests
      /\ Len(requests') = Len(requests) - 1
      /\ \A n \in 1..Len(requests') : n \in Nat /\ n + 1 \in 1..Len(requests) /\ n + 1 # 1
      /\ \A n \in 1..Len(requests') : requests'[n] = requests[n + 1]
  BY <1>1, FirstServed
<1>3. /\ r.id \in Ids /\ r.data \in SUBSET TurnNumbers /\ r.closer \in Closers \cup {None}
      /\ r.data \subseteq own[r.id]
  BY <1>2 DEF Requests, Own
<1>4. /\ stored' \in [Ids -> (SUBSET TurnNumbers) \cup {None}]
      /\ failed' \in SUBSET Ids /\ faults' \in Nat
      /\ \A i \in Ids : stored'[i] # None => stored'[i] \subseteq own[i]
  <2>1. CASE stored' = [stored EXCEPT ![SavedAs(r)] = r.data] /\ UNCHANGED <<failed, faults>>
    BY <1>3, <2>1 DEF SavedAs, TabsTypes, Own
  <2>2. CASE Fault /\ failed' = failed \cup {r.id} /\ UNCHANGED stored
    BY <1>3, <2>2 DEF Fault, TabsTypes, Own
  <2> QED
    BY <2>1, <2>2 DEF ServeSave
<1>5. /\ closer' \in [Closers -> Closings]
      /\ \A k \in Closers : k # r.closer => closer'[k] = closer[k]
      /\ r.closer # None =>
            /\ closer'[r.closer].tab = closer[r.closer].tab
            /\ closer[r.closer].tab \in Tabs /\ session[closer[r.closer].tab] # None
            /\ closer'[r.closer].id = session[closer[r.closer].tab]
  <2>1. CASE r.closer = None
    BY <2>1 DEF ServeSave, TabsTypes
  <2>2. CASE r.closer # None
    <3> DEFINE k == r.closer
    <3>1. /\ k \in Closers /\ closer[k].pc = "saving" /\ closer[k] \in Closings
          /\ closer[k].tab \in Tabs /\ session[closer[k].tab] # None
      BY <1>2, <1>3, <2>2 DEF Awaited, HasSession, TabsTypes, Closings
    <3>2. session[closer[k].tab] \in Ids
      BY <3>1 DEF TabsTypes
    <3>3. closer' = [closer EXCEPT ![k].pc = "saved", ![k].id = session[closer[k].tab]]
      BY <2>2 DEF ServeSave
    <3> HIDE DEF k
    <3>4. /\ closer'[k].tab = closer[k].tab /\ closer'[k].id = session[closer[k].tab]
          /\ closer'[k] \in Closings
          /\ \A j \in Closers : j # k => closer'[j] = closer[j]
      BY <3>1, <3>2, <3>3 DEF TabsTypes, Closings
    <3>5. closer' \in [Closers -> Closings]
      BY <3>1, <3>3, <3>4 DEF TabsTypes
    <3> QED
      BY <3>1, <3>4, <3>5 DEF k
  <2> QED
    BY <2>1, <2>2
<1>6. TabsTypes'
  BY <1>1, <1>2, <1>4, <1>5 DEF TabsTypes, tabVars
<1>7. HasSession'
  <2>1. \A t \in Live' : session'[t] # None
    BY <1>1 DEF HasSession, Live, tabVars
  <2>2. \A k \in Closers :
          /\ closer'[k].pc # "none" => closer'[k].tab # None /\ session'[closer'[k].tab] # None
          /\ closer'[k].pc = "saved" => closer'[k].id # None
    BY <1>1, <1>5 DEF HasSession, tabVars, SessionAssumption
  <2> QED
    BY <1>1, <2>1, <2>2 DEF HasSession
<1>8. Awaited'
  <2>1. ASSUME NEW n \in 1..Len(requests')
        PROVE  /\ requests'[n].closer # None =>
                     requests'[n].ask = "save" /\ closer'[requests'[n].closer].pc = "saving"
               /\ requests'[n].ask = "read" =>
                     opening'.pc = "reading" /\ opening'.id = requests'[n].id
    <3>1. /\ requests'[n] = requests[n + 1] /\ n + 1 \in 1..Len(requests) /\ n + 1 # 1
          /\ requests[n + 1].closer \in Closers \cup {None}
      BY <1>1, <1>2, RequestFields
    <3>2. requests[n + 1].closer # None => requests[n + 1].closer # r.closer
      BY <1>2, <3>1 DEF Awaited
    <3> QED
      BY <1>1, <1>5, <3>1, <3>2 DEF Awaited
  <2>2. ASSUME NEW m \in 1..Len(requests'), NEW n \in 1..Len(requests'),
               \/ requests'[m].closer # None /\ requests'[m].closer = requests'[n].closer
               \/ requests'[m].ask = "read" /\ requests'[n].ask = "read"
        PROVE  m = n
    <3>1. /\ m + 1 \in 1..Len(requests) /\ n + 1 \in 1..Len(requests)
          /\ requests'[m] = requests[m + 1] /\ requests'[n] = requests[n + 1]
      BY <1>2
    <3>2. \/ requests[m + 1].closer # None /\ requests[m + 1].closer = requests[n + 1].closer
          \/ requests[m + 1].ask = "read" /\ requests[n + 1].ask = "read"
      BY <2>2, <3>1
    <3>3. m + 1 = n + 1
      BY <3>1, <3>2 DEF Awaited
    <3> QED
      BY <1>2, <3>3
  <2> QED
    BY <2>1, <2>2 DEF Awaited
<1>9. \A n \in 1..Len(requests') : requests'[n].data \subseteq own'[requests'[n].id]
  BY <1>1, <1>2 DEF Own
<1>10. Own'
  BY <1>1, <1>4, <1>9 DEF Own, tabVars
<1> QED
  BY <1>6, <1>7, <1>8, <1>10

-----------------------------------------------------------------------------
\* A save is asked for and waited for by the call that closes the tab.
LEMMA ClosingSave ==
    ASSUME SessionAssumption, TabsInv,
           NEW k \in Closers, NEW t \in Tabs, session[t] # None,
           closer[k].pc # "saving",
           closer' \in [Closers -> Closings],
           closer'[k].pc = "saving", closer'[k].tab = t,
           \A j \in Closers : j # k => closer'[j] = closer[j],
           Ask(Save(t, k)), commands' \in Nat,
           UNCHANGED <<tabVars, recent, opening, stored, turns, faults, ghosts>>
    PROVE  TabsInv'
<1> USE DEF TabsInv
<1> DEFINE r == Save(t, k)
<1>1. /\ r \in Requests /\ r.ask = "save" /\ r.closer = k
      /\ r.id = session[t] /\ r.data = history[t] /\ k # None
  BY DEF Save, SaveOf, Requests, TabsTypes, SessionAssumption
<1>2. requests \in Seq(Requests) /\ requests' = Append(requests, r)
  BY DEF Ask, TabsTypes
<1> HIDE DEF r
<1>3. /\ requests' \in Seq(Requests)
      /\ Len(requests') = Len(requests) + 1 /\ Len(requests) \in Nat
      /\ requests'[Len(requests) + 1] = r
      /\ \A n \in 1..Len(requests) : requests'[n] = requests[n]
      /\ \A n \in 1..Len(requests') : n \in 1..Len(requests) \/ n = Len(requests) + 1
  BY <1>1, <1>2, Queued
<1>4. \A n \in 1..Len(requests) : requests[n].closer # k
  BY <1>1 DEF Awaited
<1>5. TabsTypes'
  BY <1>3 DEF TabsTypes, tabVars, ghosts
<1>6. HasSession'
  BY DEF HasSession, Live, tabVars, SessionAssumption
<1>7. Awaited'
  <2>1. \A n \in 1..Len(requests') :
          /\ requests'[n].closer # None =>
                requests'[n].ask = "save" /\ closer'[requests'[n].closer].pc = "saving"
          /\ requests'[n].ask = "read" =>
                opening'.pc = "reading" /\ opening'.id = requests'[n].id
    BY <1>1, <1>3, <1>4, RequestFields DEF Awaited, TabsTypes
  <2>2. \A m, n \in 1..Len(requests') :
          \/ requests'[m].closer # None /\ requests'[m].closer = requests'[n].closer
          \/ requests'[m].ask = "read" /\ requests'[n].ask = "read"
          => m = n
    BY <1>1, <1>3, <1>4 DEF Awaited
  <2> QED
    BY <2>1, <2>2 DEF Awaited
<1>8. Own'
  BY <1>1, <1>3 DEF Own, tabVars, ghosts, SessionAssumption
<1> QED
  BY <1>5, <1>6, <1>7, <1>8

\* A call of closeRuntimeWithRecovery moves on without asking the store.
LEMMA ClosingMoves ==
    ASSUME SessionAssumption, TabsInv,
           NEW k \in Closers, NEW t \in Tabs, session[t] # None,
           closer[k].pc # "saving",
           closer' \in [Closers -> Closings],
           closer'[k].pc = "none" \/ (closer'[k].pc = "asking" /\ closer'[k].tab = t),
           \A j \in Closers : j # k => closer'[j] = closer[j],
           commands' \in Nat,
           UNCHANGED <<tabVars, recent, opening, storeVars, turns, faults, ghosts>>
    PROVE  TabsInv'
<1> USE DEF TabsInv
<1>1. TabsTypes'
  BY DEF TabsTypes, tabVars, storeVars, ghosts
<1>2. HasSession'
  BY DEF HasSession, Live, tabVars, SessionAssumption
<1>3. \A n \in 1..Len(requests) : requests[n].closer # k
  BY DEF Awaited, SessionAssumption
<1>4. Awaited'
  BY <1>3, RequestFields DEF Awaited, storeVars, TabsTypes
<1>5. Own'
  BY DEF Own, tabVars, storeVars, ghosts
<1> QED
  BY <1>1, <1>2, <1>4, <1>5

LEMMA CloseKeeps ==
    ASSUME SessionAssumption, TabsInv, NEW k \in Closers, NEW t \in Tabs, Close(k, t)
    PROVE  TabsInv'
<1>1. session[t] # None /\ closer[k].pc = "none" /\ commands' \in Nat
  BY DEF Close, TabsInv, TabsTypes, HasSession, Live, NotClosing, Command
<1>2. \A p \in {"asking", "saving"} :
         LET c == [pc |-> p, tab |-> t, id |-> None]
         IN  closer' = [closer EXCEPT ![k] = c] =>
                /\ closer' \in [Closers -> Closings]
                /\ closer'[k].pc = p /\ closer'[k].tab = t
                /\ \A j \in Closers : j # k => closer'[j] = closer[j]
  BY DEF TabsInv, TabsTypes, Closings
<1>3. CASE work[t] = "streaming"
  BY <1>1, <1>2, <1>3, ClosingMoves DEF Close, storeVars
<1>4. CASE work[t] # "streaming"
  BY <1>1, <1>2, <1>4, ClosingSave DEF Close
<1> QED
  BY <1>3, <1>4

LEMMA StopAndCloseKeeps ==
    ASSUME SessionAssumption, TabsInv, NEW k \in Closers, StopAndClose(k)
    PROVE  TabsInv'
<1>1. /\ closer[k] \in Closings /\ closer[k].pc = "asking"
      /\ closer[k].tab \in Tabs /\ session[closer[k].tab] # None
      /\ commands' \in Nat
  BY DEF StopAndClose, TabsInv, TabsTypes, HasSession, Closings
<1>2. CASE closer' = [closer EXCEPT ![k].pc = "saving"] /\ Ask(Save(closer[k].tab, k))
  <2>1. /\ closer' \in [Closers -> Closings]
        /\ closer'[k].pc = "saving" /\ closer'[k].tab = closer[k].tab
        /\ \A j \in Closers : j # k => closer'[j] = closer[j]
    BY <1>1, <1>2 DEF TabsInv, TabsTypes, Closings
  <2> QED
    BY <1>1, <1>2, <2>1, ClosingSave DEF StopAndClose
<1>3. CASE closer' = [closer EXCEPT ![k] = NotClosing] /\ UNCHANGED requests
  <2>1. /\ closer' \in [Closers -> Closings]
        /\ closer'[k].pc = "none"
        /\ \A j \in Closers : j # k => closer'[j] = closer[j]
    BY <1>1, <1>3 DEF TabsInv, TabsTypes, Closings, NotClosing
  <2> QED
    BY <1>1, <1>3, <2>1, ClosingMoves DEF StopAndClose, storeVars
<1> QED
  BY <1>2, <1>3 DEF StopAndClose

LEMMA CloseEndsKeeps ==
    ASSUME SessionAssumption, TabsInv, NEW k \in Closers, CloseEnds(k)
    PROVE  TabsInv'
<1> USE DEF TabsInv
<1> DEFINE t == closer[k].tab
           again == \E j \in Closers \ {k} : closer[j].tab = t
           gone == work[t] # "compacting" /\ ~again
<1>1. /\ t \in Tabs /\ closer[k].id \in Ids /\ closer[k].pc = "saved"
      /\ UNCHANGED <<opening, storeVars, turns, commands, faults, ghosts>>
  BY DEF CloseEnds, HasSession, TabsTypes, Closings
<1>2. recent' \in Seq(Ids)
  BY <1>1, PushedType DEF CloseEnds, TabsTypes
<1>3. /\ closer' \in [Closers -> Closings]
      /\ closer'[k].pc = "none"
      /\ \A j \in Closers : j # k => closer'[j] = closer[j]
  BY <1>1 DEF CloseEnds, TabsTypes, Closings, NotClosing
<1>4. /\ open' \in SUBSET Tabs
      /\ work' \in [Tabs -> {"idle", "streaming", "compacting"}]
      /\ session' \in [Tabs -> Ids \cup {None}]
      /\ history' \in [Tabs -> SUBSET TurnNumbers]
      /\ seen' \in [Tabs -> BOOLEAN]
      /\ \A u \in Tabs : session'[u] # None =>
            session'[u] = session[u] /\ history'[u] = history[u]
      /\ \A u \in Live' : u \in Live /\ session'[u] # None
      /\ \A j \in Closers \ {k} : closer[j].pc # "none" => session'[closer[j].tab] # None
  <2>1. CASE t \in open /\ open # {t}
    <3>1. RemoveTab(t, again)
      BY <2>1 DEF CloseEnds
    <3> HIDE DEF t, again
    <3>2. /\ open' = open \ {t}
          /\ work' = [work EXCEPT ![t] = IF @ = "compacting" THEN @ ELSE "idle"]
          /\ Forgotten(t, gone)
      BY <3>1 DEF RemoveTab
    <3>3. gone => t \notin Live'
      BY <1>1, <3>2 DEF Live, TabsTypes
    <3>4. gone \in BOOLEAN
      OBVIOUS
    <3>5. \A u \in Live' : u \in Live
      BY <1>1, <2>1, <3>2 DEF Live, TabsTypes
    <3>6. /\ session' \in [Tabs -> Ids \cup {None}]
          /\ history' \in [Tabs -> SUBSET TurnNumbers]
          /\ seen' \in [Tabs -> BOOLEAN]
          /\ \A u \in Tabs : session'[u] # None =>
                session'[u] = session[u] /\ history'[u] = history[u]
          /\ \A u \in Tabs : session[u] # None => session'[u] # None \/ (gone /\ u = t)
      BY <1>1, <3>2, <3>3, <3>4, TabForgotten
    <3>7. \A j \in Closers \ {k} : closer[j].pc # "none" => session'[closer[j].tab] # None
      BY <3>6 DEF HasSession, TabsTypes, Closings, again
    <3>8. work' \in [Tabs -> {"idle", "streaming", "compacting"}]
      BY <1>1, <3>2 DEF TabsTypes
    <3>9. \A u \in Live' : session'[u] # None
      BY <3>3, <3>5, <3>6 DEF HasSession, Live
    <3>10. open' \in SUBSET Tabs
      BY <3>2 DEF TabsTypes
    <3> QED
      BY <3>5, <3>6, <3>7, <3>8, <3>9, <3>10
  <2>2. CASE ~(t \in open /\ open # {t})
    <3>1. UNCHANGED tabVars
      BY <2>2 DEF CloseEnds
    <3> QED
      BY <3>1 DEF tabVars, TabsTypes, HasSession, Live
  <2> QED
    BY <2>1, <2>2
<1> HIDE DEF t, again, gone
<1>5. TabsTypes'
  BY <1>1, <1>2, <1>3, <1>4 DEF TabsTypes, storeVars, ghosts
<1>6. HasSession'
  BY <1>1, <1>3, <1>4 DEF HasSession
<1>7. \A n \in 1..Len(requests) : requests[n].closer # k
  BY <1>1 DEF Awaited, SessionAssumption
<1>8. Awaited'
  BY <1>1, <1>3, <1>7, RequestFields DEF Awaited, storeVars, TabsTypes
<1>9. Own'
  BY <1>1, <1>4 DEF Own, storeVars, ghosts
<1> QED
  BY <1>5, <1>6, <1>8, <1>9

LEMMA ReloadKeeps ==
    ASSUME SessionAssumption, TabsInv, Reload
    PROVE  TabsInv'
<1> USE DEF TabsInv
<1> DEFINE known == {t \in open : stored[session[t]] # None}
           blank == IF open \ known # {} /\ Unused # {}
                    THEN {CHOOSE t \in open \ known : TRUE} ELSE {}
<1>1. blank \subseteq open \ known /\ (blank # {} => Unused # {})
  OBVIOUS
<1>2. /\ open' = known \cup blank
      /\ session' = [t \in Tabs |-> IF t \in known THEN session[t]
                                    ELSE IF t \in blank THEN Fresh ELSE None]
      /\ history' = [t \in Tabs |-> IF t \in known THEN stored[session[t]] ELSE {}]
      /\ requests' = IF blank = {} THEN <<>> ELSE <<SaveOf(Fresh, {}, None)>>
      /\ seen' = [t \in Tabs |-> history'[t] # {}]
      /\ work' = [t \in Tabs |-> "idle"]
      /\ closer' = [k \in Closers |-> NotClosing]
      /\ recent' = <<>>
      /\ opening' = NoLoad
      /\ owed' = [i \in Ids |-> IF stored[i] = None THEN {} ELSE stored[i]]
      /\ own' = owed'
      /\ failed' = {}
      /\ UNCHANGED <<stored, turns, commands>>
  BY DEF Reload
<1>3. faults' \in Nat
  BY DEF Reload, Fault, TabsTypes
<1>4. \A t \in known : /\ t \in Tabs /\ session[t] \in Ids
                       /\ stored[session[t]] # None
                       /\ stored[session[t]] \in SUBSET TurnNumbers
  BY DEF HasSession, Live, TabsTypes
<1>5. blank # {} => Fresh \in Ids
  BY <1>1, HeldNowhere
<1>6. known \subseteq Tabs /\ blank \subseteq Tabs /\ blank \cap known = {}
  BY <1>1, <1>4 DEF TabsTypes
<1> HIDE DEF known, blank
<1>7. /\ requests' \in Seq(Requests)
      /\ \A n \in 1..Len(requests') :
            /\ n = 1 /\ requests'[n].ask = "save" /\ requests'[n].closer = None
            /\ requests'[n].id \in Ids /\ requests'[n].data = {}
  <2>1. CASE blank = {}
    <3>1. requests' = <<>>
      BY <1>2, <2>1
    <3> QED
      BY <3>1
  <2>2. CASE blank # {}
    <3> DEFINE r == SaveOf(Fresh, {}, None)
    <3>1. /\ r \in Requests /\ r.ask = "save" /\ r.closer = None
          /\ r.id \in Ids /\ r.data = {}
      BY <1>5, <2>2 DEF SaveOf, Requests
    <3>2. requests' = <<r>>
      BY <1>2, <2>2
    <3> HIDE DEF r
    <3> QED
      BY <3>1, <3>2
  <2> QED
    BY <2>1, <2>2
<1>8. /\ session' \in [Tabs -> Ids \cup {None}]
      /\ history' \in [Tabs -> SUBSET TurnNumbers]
      /\ own' \in [Ids -> SUBSET TurnNumbers]
  BY <1>2, <1>4, <1>5 DEF TabsTypes
<1>9. NoLoad \in Loads /\ NoLoad.pc = "none" /\ NotClosing \in Closings /\ NotClosing.pc = "none"
  BY DEF NoLoad, Loads, NotClosing, Closings
<1>10. recent' \in Seq(Ids)
  BY <1>2
<1>11. TabsTypes'
  BY <1>2, <1>3, <1>6, <1>7, <1>8, <1>9, <1>10 DEF TabsTypes
<1>12. HasSession'
  <2>1. \A t \in Live' : t \in known \/ t \in blank
    BY <1>2, <1>6 DEF Live
  <2>2. \A t \in Live' : session'[t] # None
    BY <1>2, <1>4, <1>5, <1>6, <2>1 DEF SessionAssumption
  <2> QED
    BY <1>2, <1>9, <2>2 DEF HasSession
<1>13. Awaited'
  BY <1>7 DEF Awaited
<1>14. Own'
  <2>1. \A i \in Ids : stored'[i] # None => stored'[i] \subseteq own'[i]
    BY <1>2
  <2>2. \A t \in Tabs : session'[t] # None => history'[t] \subseteq own'[session'[t]]
    BY <1>2, <1>4
  <2> QED
    BY <1>2, <1>7, <1>9, <2>1, <2>2 DEF Own
<1> QED
  BY <1>11, <1>12, <1>13, <1>14

LEMMA TabsStep ==
    ASSUME SessionAssumption, TabsInv, [Next]_vars
    PROVE  TabsInv'
<1>1. ASSUME NEW t \in Tabs, TabStep(t)
      PROVE  TabsInv'
  BY <1>1, NewTabKeeps, DuplicateKeeps, SendKeeps, AnswerKeeps, CompactKeeps, CompactEndsKeeps,
     NewSessionKeeps, RenameKeeps, LoadMakesTabKeeps, LoadReplacesKeeps
  DEF TabStep
<1>2. ASSUME NEW k \in Closers, CloseStep(k)
      PROVE  TabsInv'
  BY <1>2, CloseKeeps, StopAndCloseKeeps, CloseEndsKeeps DEF CloseStep
<1>3. CASE UNCHANGED vars
  BY <1>3 DEF vars, tabVars, callVars, storeVars, ghosts, TabsInv, TabsTypes, HasSession, Live,
     Awaited, Own
<1> QED
  BY <1>1, <1>2, <1>3, ResumeKeeps, ReopenKeeps, ServeReadKeeps, LoadFillsTabKeeps,
     ServeSaveKeeps, ReloadKeeps
  DEF Next

(***************************************************************************)
(* Every place that holds turns of a session holds turns of its own, the   *)
(* store answers each call that waits for it once, and a tab that can      *)
(* still save has a session.                                               *)
(***************************************************************************)
THEOREM TabsInvariant ==
    Spec => []TabsInv
<1>1. Init => TabsInv
  BY TabsInit, SessionAssumption
<1>2. TabsInv /\ [Next]_vars => TabsInv'
  BY TabsStep, SessionAssumption
<1> QED
  BY <1>1, <1>2, PTL DEF Spec

(***************************************************************************)
(* No turn gets into a session it does not belong to, whatever is opened,  *)
(* replaced, closed or reloaded while saves and reads are waiting, also    *)
(* where two tabs show one session.                                        *)
(***************************************************************************)
THEOREM TurnsStayInTheirSession ==
    Spec => []NoTurnStrays
<1>1. TabsInv => NoTurnStrays
  BY DEF TabsInv, TabsTypes, HasSession, Live, Own, NoTurnStrays
<1> QED
  BY <1>1, TabsInvariant, PTL

-----------------------------------------------------------------------------
(***************************************************************************)
(* The second part: no session is opened that a tab can still save, and    *)
(* the tab the user is asked about is not closed meanwhile.                *)
(***************************************************************************)
LEMMA SavedTurns ==
    ASSUME TabsTypes, NEW i \in Ids
    PROVE  \A x : x \in Saved(i) <=>
              \/ x \in Stored(i)
              \/ \E n \in 1..Len(requests) : Saves(n, i) /\ x \in requests[n].data
<1>1. DOMAIN requests = 1..Len(requests)
  BY DEF TabsTypes
<1> QED
  BY <1>1 DEF Saved, Stored, Saves

\* What a request put at the end of the queue changes.
LEMMA AtTheEnd ==
    ASSUME TabsTypes, NEW r \in Requests, requests' = Append(requests, r)
    PROVE  /\ Len(requests') = Len(requests) + 1 /\ Len(requests) \in Nat
           /\ requests'[Len(requests) + 1] = r
           /\ \A n \in 1..Len(requests) : requests'[n] = requests[n] /\ n \in 1..Len(requests')
           /\ \A n \in 1..Len(requests') : n \in 1..Len(requests) \/ n = Len(requests) + 1
<1>1. requests \in Seq(Requests)
  BY DEF TabsTypes
<1> QED
  BY <1>1, Queued

LEMMA SavedAsked ==
    ASSUME TabsTypes, TabsTypes', stored' = stored,
           NEW r \in Requests, requests' = Append(requests, r)
    PROVE  /\ \A i \in Ids : Saved(i) \subseteq Saved(i)'
           /\ r.ask = "save" /\ r.id \in Ids => r.data \subseteq Saved(r.id)'
<1>1. ASSUME NEW i \in Ids
      PROVE  /\ Saved(i) \subseteq Saved(i)'
             /\ r.ask = "save" /\ r.id = i => r.data \subseteq Saved(i)'
  <2>1. \A x : x \in Saved(i) <=>
              \/ x \in Stored(i)
              \/ \E n \in 1..Len(requests) : Saves(n, i) /\ x \in requests[n].data
    BY SavedTurns
  <2>2. \A x : x \in Saved(i)' <=>
              \/ x \in Stored(i)'
              \/ \E n \in 1..Len(requests') : Saves(n, i)' /\ x \in requests'[n].data
    <3>1. DOMAIN requests' = 1..Len(requests')
      BY DEF TabsTypes
    <3> QED
      BY <3>1 DEF Saved, Stored, Saves
  <2>3. Stored(i)' = Stored(i)
    BY DEF Stored
  <2> QED
    BY <2>1, <2>2, <2>3, AtTheEnd DEF Saves
<1> QED
  BY <1>1

LEMMA GrowingAsked ==
    ASSUME TabsTypes, Growing, stored' = stored,
           NEW r \in Requests, requests' = Append(requests, r),
           r.ask = "save" => Above(r.id, r.data),
           \A t \in Live' : /\ Above(session'[t], history'[t])
                            /\ r.ask = "save" /\ session'[t] = r.id => r.data \subseteq history'[t]
    PROVE  Growing'
<1>1. \A i, h : Above(i, h) /\ (r.ask = "save" /\ r.id = i => r.data \subseteq h) => Above(i, h)'
  BY AtTheEnd DEF Above, Stored, Saves
<1>2. \A t \in Live' : Above(session[t], history[t])'
  BY <1>1 DEF Above, Stored, Saves
<1>3. ASSUME NEW n \in 1..Len(requests'), requests'[n].ask = "save"
      PROVE  /\ Stored(requests[n].id)' \subseteq requests'[n].data
             /\ \A m \in 1..(n - 1) :
                   Saves(m, requests[n].id)' => requests'[m].data \subseteq requests'[n].data
  <2>1. CASE n \in 1..Len(requests)
    <3>1. \A m \in 1..(n - 1) : m \in 1..Len(requests)
      BY <2>1, AtTheEnd
    <3> QED
      BY <1>3, <2>1, <3>1, AtTheEnd DEF Growing, Stored, Saves
  <2>2. CASE n = Len(requests) + 1
    <3>1. \A m \in 1..(n - 1) : m \in 1..Len(requests)
      BY <2>2, AtTheEnd
    <3> QED
      BY <1>3, <2>2, <3>1, AtTheEnd DEF Above, Stored, Saves
  <2> QED
    BY <2>1, <2>2, AtTheEnd
<1> QED
  BY <1>2, <1>3 DEF Growing

LEMMA GrowingStays ==
    ASSUME Growing, stored' = stored, requests' = requests,
           \A t \in Live' : Above(session'[t], history'[t])
    PROVE  Growing'
<1>1. \A i, h : Above(i, h)' <=> Above(i, h)
  BY DEF Above, Stored, Saves
<1>2. \A t \in Live' : Above(session[t], history[t])'
  BY <1>1 DEF Above, Stored, Saves
<1> QED
  BY <1>2 DEF Growing, Stored, Saves

LEMMA OpenedAloneAsked ==
    ASSUME TabsTypes, OpenedAlone, stored' = stored, opening' = opening,
           NEW r \in Requests, requests' = Append(requests, r), r.ask = "save",
           opening.pc # "none" => opening.id \notin Shown' /\ r.id # opening.id
    PROVE  OpenedAlone'
<1> SUFFICES ASSUME opening.pc # "none"
             PROVE  OpenedAlone'
  BY DEF OpenedAlone
<1>1. opening.id \notin Shown'
  OBVIOUS
<1>2. ASSUME opening.pc = "reading",
             NEW n \in 1..Len(requests'), requests'[n].ask = "read",
             NEW m \in (n + 1)..Len(requests')
      PROVE  ~Saves(m, opening.id)'
  <2>1. n \in 1..Len(requests) /\ requests[n].ask = "read"
    BY <1>2, AtTheEnd
  <2>2. m = Len(requests) + 1 \/ (m \in (n + 1)..Len(requests) /\ m \in 1..Len(requests))
    BY <1>2, <2>1, AtTheEnd
  <2> QED
    BY <1>2, <2>1, <2>2, AtTheEnd DEF OpenedAlone, Saves
<1>3. ASSUME opening.pc # "reading"
      PROVE  /\ opening.data = Stored(opening.id)'
             /\ \A n \in 1..Len(requests') : ~Saves(n, opening.id)'
  BY <1>3, AtTheEnd DEF OpenedAlone, Saves, Stored
<1> QED
  BY <1>1, <1>2, <1>3 DEF OpenedAlone, Saves, Stored

LEMMA OpenedAloneStays ==
    ASSUME OpenedAlone, stored' = stored, opening' = opening, requests' = requests,
           opening.pc # "none" => opening.id \notin Shown'
    PROVE  OpenedAlone'
BY DEF OpenedAlone, Saves, Stored

\* Tab t shows session i with turns h from now on.
LEMMA Reshown ==
    ASSUME TabsTypes, Apart, Growing,
           NEW t \in Tabs, NEW i \in Ids, NEW h \in SUBSET TurnNumbers,
           session' = [session EXCEPT ![t] = i], history' = [history EXCEPT ![t] = h],
           \A u \in Live' : u \in Live \/ u = t,
           \A u \in Live : session[u] = i => u = t,
           Above(i, h)
    PROVE  /\ Apart'
           /\ \A u \in Live' : Above(session'[u], history'[u])
           /\ \A u \in Live' : session'[u] = i => u = t
           /\ Shown' \subseteq Shown \cup {i}
<1>1. Live' \subseteq Tabs
  BY DEF Live
<1>2. \A u \in Tabs : /\ session'[u] = IF u = t THEN i ELSE session[u]
                      /\ history'[u] = IF u = t THEN h ELSE history[u]
  BY DEF TabsTypes
<1>3. \A u \in Live' : Above(session'[u], history'[u])
  BY <1>1, <1>2 DEF Growing
<1>4. \A u \in Live' : session'[u] = i => u = t
  BY <1>1, <1>2
<1>5. Apart'
  BY <1>1, <1>2, <1>4 DEF Apart
<1>6. Shown' \subseteq Shown \cup {i}
  BY <1>1, <1>2 DEF Shown
<1> QED
  BY <1>3, <1>4, <1>5, <1>6

\* The tabs show what they did, or are gone.
LEMMA TabsStay ==
    ASSUME TabsTypes, Apart, Growing,
           \A u \in Live' : u \in Live /\ session'[u] = session[u] /\ history'[u] = history[u]
    PROVE  /\ Apart'
           /\ \A u \in Live' : Above(session'[u], history'[u])
           /\ Shown' \subseteq Shown
BY DEF Apart, Growing, Shown

LEMMA FreshAbove ==
    ASSUME TabsTypes, Unused # {}
    PROVE  /\ \A h : Above(Fresh, h)
           /\ Fresh \in Ids /\ Fresh # opening.id
           /\ \A u \in Live : session[u] # Fresh
BY HeldNowhere DEF Above, Stored, Saves, Live

LEMMA AddTabSaved ==
    ASSUME TabsInv, SavedInv,
           NEW t \in Tabs, NEW h \in SUBSET TurnNumbers, AddTab(t, h), work' = work
    PROVE  /\ Apart'
           /\ \A u \in Live' : Above(session'[u], history'[u])
           /\ \A u \in Live' : session'[u] = Fresh => u = t
           /\ Shown' \subseteq Shown \cup {Fresh}
           /\ open \subseteq open'
           /\ history'[t] = h
<1>1. /\ open' = open \cup {t}
      /\ session' = [session EXCEPT ![t] = Fresh] /\ history' = [history EXCEPT ![t] = h]
  BY DEF AddTab, Shows
<1>2. \A u \in Live' : u \in Live \/ u = t
  BY <1>1 DEF Live
<1>3. Above(Fresh, h) /\ Fresh \in Ids /\ \A u \in Live : session[u] # Fresh
  BY FreshAbove DEF AddTab, TabsInv
<1> QED
  BY <1>1, <1>2, <1>3, Reshown DEF TabsInv, SavedInv, TabsTypes

LEMMA NewTabSaves ==
    ASSUME TabsInv, SavedInv, TabsInv', NEW t \in Tabs, NewTab(t)
    PROVE  SavedInv'
<1> USE DEF TabsInv, SavedInv
<1>1. /\ AddTab(t, {}) /\ work' = work /\ Unused # {}
      /\ UNCHANGED <<callVars, storeVars, owed, failed>>
  BY DEF NewTab, AddTab
<1>3. Growing'
  BY <1>1, AddTabSaved, GrowingStays DEF storeVars
<1>4. opening.pc # "none" => opening.id \notin Shown'
  BY <1>1, AddTabSaved, FreshAbove DEF OpenedAlone
<1>5. OpenedAlone'
  BY <1>1, <1>4, OpenedAloneStays DEF callVars, storeVars
<1>6. EveryTurnIsSaved'
  BY <1>1 DEF EveryTurnIsSaved, Saved, storeVars
<1> QED
  BY <1>1, <1>3, <1>5, <1>6, AddTabSaved

LEMMA DuplicateSaves ==
    ASSUME TabsInv, SavedInv, TabsInv', NEW t \in Tabs, Duplicate(t)
    PROVE  SavedInv'
<1> USE DEF TabsInv, SavedInv
<1> DEFINE h == history[t]
           r == SaveOf(Fresh, h, None)
<1>1. PICK u \in Tabs : AddTab(u, h)
  BY DEF Duplicate
<1>2. /\ work' = work /\ Unused # {} /\ h \in SUBSET TurnNumbers
      /\ requests' = Append(requests, r)
      /\ owed' = [owed EXCEPT ![Fresh] = h]
      /\ UNCHANGED <<callVars, stored, failed>>
  BY <1>1 DEF Duplicate, AddTab, Ask, TabsTypes
<1>3. Fresh \in Ids /\ Fresh # opening.id /\ Above(Fresh, h)
  BY <1>2, FreshAbove
<1>4. r \in Requests /\ r.ask = "save" /\ r.id = Fresh /\ r.data = h
  BY <1>2, <1>3 DEF SaveOf, Requests
<1> HIDE DEF h, r
<1>6. Growing'
  BY <1>1, <1>2, <1>3, <1>4, AddTabSaved, GrowingAsked
<1>7. opening.pc # "none" => opening.id \notin Shown'
  BY <1>1, <1>2, <1>3, AddTabSaved DEF OpenedAlone
<1>8. OpenedAlone'
  BY <1>2, <1>3, <1>4, <1>7, OpenedAloneAsked DEF callVars
<1>9. EveryTurnIsSaved'
  BY <1>2, <1>3, <1>4, SavedAsked DEF EveryTurnIsSaved, TabsTypes
<1> QED
  BY <1>1, <1>2, <1>6, <1>8, <1>9, AddTabSaved

\* A save of what live tab t shows: what every command that saves asks for.
LEMMA ShownSaved ==
    ASSUME SessionAssumption, TabsInv, TabsInv', Apart, Growing, OpenedAlone, EveryTurnIsSaved,
           NEW t \in Live, NEW k \in Closers \cup {None},
           requests' = Append(requests, Save(t, k)),
           \A u \in Live' : u \in Live /\ session'[u] = session[u] /\ history'[u] = history[u],
           UNCHANGED <<stored, opening, owed, failed>>
    PROVE  Apart' /\ Growing' /\ OpenedAlone' /\ EveryTurnIsSaved'
<1> USE DEF TabsInv
<1> DEFINE r == Save(t, k)
<1>1. /\ r \in Requests /\ r.ask = "save" /\ r.id = session[t] /\ r.data = history[t]
      /\ session[t] \in Ids /\ session[t] \in Shown
  BY DEF Save, SaveOf, Requests, HasSession, Live, TabsTypes, Shown
<1> HIDE DEF r
<1>2. Apart' /\ (\A u \in Live' : Above(session'[u], history'[u])) /\ Shown' \subseteq Shown
  BY TabsStay
<1>3. \A u \in Live' : session'[u] = r.id => r.data \subseteq history'[u]
  BY <1>1 DEF Apart
<1>4. Growing'
  BY <1>1, <1>2, <1>3, GrowingAsked DEF Growing, r
<1>5. OpenedAlone'
  BY <1>1, <1>2, OpenedAloneAsked DEF OpenedAlone, r
<1>6. EveryTurnIsSaved'
  BY <1>1, SavedAsked DEF EveryTurnIsSaved, r
<1> QED
  BY <1>2, <1>4, <1>5, <1>6

\* Nothing is asked for, and the tabs show what they did, or are gone.
LEMMA NothingSaved ==
    ASSUME TabsInv, Apart, Growing, OpenedAlone, EveryTurnIsSaved,
           \A u \in Live' : u \in Live /\ session'[u] = session[u] /\ history'[u] = history[u],
           UNCHANGED <<storeVars, opening, owed, failed>>
    PROVE  Apart' /\ Growing' /\ OpenedAlone' /\ EveryTurnIsSaved'
<1> USE DEF TabsInv
<1>1. Apart' /\ (\A u \in Live' : Above(session'[u], history'[u])) /\ Shown' \subseteq Shown
  BY TabsStay
<1>2. Growing'
  BY <1>1, GrowingStays DEF storeVars
<1>3. OpenedAlone'
  BY <1>1, OpenedAloneStays DEF OpenedAlone, storeVars
<1>4. EveryTurnIsSaved'
  BY DEF EveryTurnIsSaved, Saved, storeVars
<1> QED
  BY <1>1, <1>2, <1>3, <1>4

LEMMA SendSaves ==
    ASSUME TabsInv, SavedInv, NEW t \in Tabs, Send(t) \/ Compact(t)
    PROVE  SavedInv'
<1>1. \A u \in Live' : u \in Live /\ session'[u] = session[u] /\ history'[u] = history[u]
  BY DEF Send, Compact, Live, TabsInv, TabsTypes
<1>2. UNCHANGED <<storeVars, opening, closer, open, owed, failed>>
  BY DEF Send, Compact, callVars, ghosts
<1> QED
  BY <1>1, <1>2, NothingSaved DEF SavedInv

LEMMA AnswerSaves ==
    ASSUME TabsInv, SavedInv, TabsInv', NEW t \in Tabs, Answer(t)
    PROVE  SavedInv'
<1> USE DEF TabsInv, SavedInv
<1> DEFINE h == history[t] \cup {turns'}
           i == session[t]
           r == SaveOf(i, h, None)
<1>1. /\ i \in Ids /\ t \in Live /\ i \in Shown
  BY DEF Answer, Live, HasSession, TabsTypes, Shown
<1>2. /\ session' = [session EXCEPT ![t] = i] /\ open' = open
      /\ history' = [history EXCEPT ![t] = h]
      /\ work' = [work EXCEPT ![t] = "idle"]
      /\ owed' = [owed EXCEPT ![i] = @ \cup {turns'}]
      /\ UNCHANGED <<callVars, stored, failed>>
      /\ requests' = Append(requests, r)
  BY <1>1 DEF Answer, Shows, Ask, TabsTypes
<1>3. h \in SUBSET TurnNumbers
  BY <1>2 DEF TabsTypes
<1>4. r \in Requests /\ r.ask = "save" /\ r.id = i /\ r.data = h
  BY <1>1, <1>3 DEF SaveOf, Requests
<1>5. Above(i, h)
  BY <1>1 DEF Growing, Above
<1>6. turns' \in h
  OBVIOUS
<1> HIDE DEF h, i, r
<1>7. \A u \in Live' : u \in Live
  BY <1>2 DEF Live, TabsTypes
<1>8. \A u \in Live : session[u] = i => u = t
  BY <1>1 DEF Apart, i
<1>9. /\ Apart' /\ (\A u \in Live' : Above(session'[u], history'[u]))
      /\ (\A u \in Live' : session'[u] = i => u = t) /\ Shown' \subseteq Shown \cup {i}
  BY <1>1, <1>2, <1>3, <1>5, <1>7, <1>8, Reshown
<1>10. history'[t] = h
  BY <1>2 DEF TabsTypes
<1>11. Growing'
  BY <1>2, <1>4, <1>5, <1>9, <1>10, GrowingAsked
<1>12. OpenedAlone'
  BY <1>1, <1>2, <1>4, <1>9, OpenedAloneAsked DEF OpenedAlone, callVars
<1>13. EveryTurnIsSaved'
  BY <1>1, <1>2, <1>4, <1>6, SavedAsked DEF EveryTurnIsSaved, TabsTypes
<1> QED
  BY <1>9, <1>11, <1>12, <1>13

LEMMA RenameSaves ==
    ASSUME SessionAssumption, TabsInv, SavedInv, TabsInv', NEW t \in Tabs, Rename(t)
    PROVE  SavedInv'
<1>1. /\ t \in Live /\ requests' = Append(requests, Save(t, None))
      /\ UNCHANGED <<tabVars, closer, stored, opening, owed, failed>>
  BY DEF Rename, Ask, Live, callVars, ghosts
<1>2. \A u \in Live' : u \in Live /\ session'[u] = session[u] /\ history'[u] = history[u]
  BY <1>1 DEF tabVars, Live
<1> QED
  BY <1>1, <1>2, ShownSaved DEF SavedInv

LEMMA CompactEndsSaves ==
    ASSUME SessionAssumption, TabsInv, SavedInv, TabsInv', NEW t \in Tabs, CompactEnds(t)
    PROVE  SavedInv'
<1> DEFINE gone == t \notin open /\ \A k \in Closers : closer[k].tab # t
<1>1. /\ t \in Live /\ Forgotten(t, gone)
      /\ work' = [work EXCEPT ![t] = "idle"]
      /\ requests' = Append(requests, Save(t, None)) \/ UNCHANGED requests
      /\ UNCHANGED <<open, closer, stored, opening, owed, failed>>
  BY DEF CompactEnds, Ask, Live, callVars, ghosts
<1>2. gone => t \notin Live'
  BY <1>1 DEF Live, TabsInv, TabsTypes
<1>3. \A u \in Live' : u \in Live /\ u \in Tabs /\ session'[u] # None
  BY <1>1 DEF Live, TabsInv, TabsTypes, HasSession
<1>4. \A u \in Live' : session'[u] = session[u] /\ history'[u] = history[u]
  BY <1>1, <1>2, <1>3, TabForgotten
<1>6. CASE requests' = Append(requests, Save(t, None))
  BY <1>1, <1>3, <1>4, <1>6, ShownSaved DEF SavedInv
<1>7. CASE UNCHANGED requests
  BY <1>1, <1>3, <1>4, <1>7, NothingSaved DEF SavedInv, storeVars
<1> QED
  BY <1>1, <1>6, <1>7

LEMMA NewSessionSaves ==
    ASSUME TabsInv, SavedInv, NEW t \in Tabs, NewSession(t)
    PROVE  SavedInv'
<1> USE DEF TabsInv, SavedInv
<1>1. /\ t \in Live /\ Unused # {} /\ history[t] \in SUBSET TurnNumbers
      /\ session' = [session EXCEPT ![t] = Fresh]
      /\ history' = [history EXCEPT ![t] = history[t]]
      /\ UNCHANGED <<open, work, closer, opening, storeVars, owed, failed>>
  BY DEF NewSession, Shows, Live, callVars, TabsTypes
<1>2. \A u \in Live' : u \in Live
  BY <1>1 DEF Live
<1>3. /\ Fresh \in Ids /\ Fresh # opening.id /\ Above(Fresh, history[t])
      /\ \A u \in Live : session[u] # Fresh
  BY <1>1, FreshAbove
<1>4. /\ Apart' /\ (\A u \in Live' : Above(session'[u], history'[u]))
      /\ Shown' \subseteq Shown \cup {Fresh}
  BY <1>1, <1>2, <1>3, Reshown
<1>5. Growing'
  BY <1>1, <1>4, GrowingStays DEF storeVars
<1>6. OpenedAlone'
  BY <1>1, <1>3, <1>4, OpenedAloneStays DEF OpenedAlone, storeVars
<1>7. EveryTurnIsSaved'
  BY <1>1 DEF EveryTurnIsSaved, Saved, storeVars
<1> QED
  BY <1>4, <1>5, <1>6, <1>7

-----------------------------------------------------------------------------
LEMMA StartLoadSaves ==
    ASSUME TabsInv, SavedInv, TabsInv', ~OpensTwice,
           NEW i \in Ids, NEW how \in {"new", "replace", "reopen"}, StartLoad(i, how)
    PROVE  SavedInv'
<1> USE DEF TabsInv, SavedInv
<1> DEFINE r == Read(i)
<1>1. r \in Requests /\ r.ask = "read"
  BY DEF Read, Requests
<1>a. NoLoad \in Loads /\ NoLoad.pc = "none"
  BY DEF NoLoad, Loads
<1>b. opening = NoLoad /\ opening' = [opening EXCEPT !.pc = "reading", !.how = how, !.id = i]
  BY DEF StartLoad
<1>c. opening.pc = "none" /\ opening'.pc = "reading" /\ opening'.id = i
  BY <1>a, <1>b DEF TabsTypes, Loads
<1>2. /\ i \notin Shown /\ requests' = Append(requests, r)
      /\ UNCHANGED <<tabVars, closer, stored, owed, failed>>
  BY DEF StartLoad, Ask, ghosts
<1> HIDE DEF r
<1>3. /\ Apart' /\ (\A u \in Live' : Above(session'[u], history'[u])) /\ Shown' \subseteq Shown
  BY <1>2, TabsStay DEF tabVars, Live
<1>4. Growing'
  BY <1>1, <1>2, <1>3, GrowingAsked
<1>5. ASSUME NEW n \in 1..Len(requests'), requests'[n].ask = "read",
             NEW m \in (n + 1)..Len(requests')
      PROVE  FALSE
  <2>1. \A l \in 1..Len(requests) : requests[l].ask # "read"
    BY <1>c DEF Awaited
  <2>2. n = Len(requests) + 1
    BY <1>1, <1>2, <1>5, <2>1, AtTheEnd
  <2> QED
    BY <1>1, <1>2, <1>5, <2>2, AtTheEnd
<1>6. OpenedAlone'
  BY <1>c, <1>2, <1>3, <1>5 DEF OpenedAlone
<1>7. EveryTurnIsSaved'
  BY <1>1, <1>2, SavedAsked DEF EveryTurnIsSaved
<1> QED
  BY <1>3, <1>4, <1>6, <1>7

LEMMA ServeReadSaves ==
    ASSUME TabsInv, SavedInv, TabsInv', ServeRead
    PROVE  SavedInv'
<1> USE DEF TabsInv, SavedInv
<1>1. /\ requests \in Seq(Requests) /\ requests # <<>> /\ requests' = Tail(requests)
      /\ Head(requests).ask = "read"
      /\ UNCHANGED <<tabVars, closer, stored, owed, failed>>
  BY DEF ServeRead, TabsTypes, ghosts
<1>2. /\ Len(requests) \in Nat /\ 1 \in 1..Len(requests)
      /\ Head(requests) = requests[1] /\ Head(requests) \in Requests
      /\ Len(requests') = Len(requests) - 1
      /\ \A n \in 1..Len(requests') : n \in Nat /\ n + 1 \in 1..Len(requests) /\ n + 1 # 1
      /\ \A n \in 1..Len(requests') : requests'[n] = requests[n + 1]
  BY <1>1, FirstServed
<1>i. PICK i \in Ids : i = Head(requests).id
  BY <1>2 DEF Requests
<1>3. opening.pc = "reading" /\ opening.id = i
  BY <1>1, <1>2, <1>i DEF Awaited
<1>4. \A n \in 1..Len(requests') : ~Saves(n, i)'
  <2>1. \A n \in 1..Len(requests') : n + 1 \in (1 + 1)..Len(requests)
    BY <1>2
  <2> QED
    BY <1>1, <1>2, <1>3, <2>1 DEF OpenedAlone, Saves
<1>5. \/ opening'.pc = "none"
      \/ opening'.pc = "loaded" /\ opening'.id = i /\ opening'.data = Stored(i)
  <2>1. NoLoad.pc = "none"
    BY DEF NoLoad
  <2>2. CASE opening' = NoLoad
    BY <2>1, <2>2
  <2>3. CASE stored[i] # None /\ opening' = [opening EXCEPT !.pc = "loaded", !.data = stored[i]]
    <3>1. opening'.pc = "loaded" /\ opening'.id = i /\ opening'.data = stored[i]
      BY <1>3, <2>3 DEF TabsTypes, Loads
    <3> QED
      BY <2>3, <3>1 DEF Stored
  <2> QED
    BY <1>i, <2>2, <2>3 DEF ServeRead
<1>6. /\ Apart' /\ (\A u \in Live' : Above(session'[u], history'[u])) /\ Shown' \subseteq Shown
  BY <1>1, TabsStay DEF tabVars, Live
<1>7. Growing'
  <2>1. \A j, h : Above(j, h) => Above(j, h)'
    BY <1>1, <1>2 DEF Above, Stored, Saves
  <2>2. \A u \in Live' : Above(session[u], history[u])'
    BY <1>6, <2>1 DEF Above, Stored, Saves
  <2>3. ASSUME NEW n \in 1..Len(requests'), requests'[n].ask = "save"
        PROVE  /\ Stored(requests[n].id)' \subseteq requests'[n].data
               /\ \A m \in 1..(n - 1) :
                     Saves(m, requests[n].id)' => requests'[m].data \subseteq requests'[n].data
    <3>1. \A m \in 1..(n - 1) : m \in 1..Len(requests') /\ m + 1 \in 1..((n + 1) - 1)
      BY <1>2
    <3> QED
      BY <1>1, <1>2, <2>3, <3>1 DEF Growing, Saves, Stored
  <2> QED
    BY <2>2, <2>3 DEF Growing
<1>8. OpenedAlone'
  <2>1. CASE opening'.pc = "none"
    BY <2>1 DEF OpenedAlone
  <2>2. CASE opening'.pc = "loaded" /\ opening'.id = i /\ opening'.data = Stored(i)
    BY <1>1, <1>3, <1>4, <1>6, <2>2 DEF OpenedAlone, Stored, Saves
  <2> QED
    BY <1>5, <2>1, <2>2
<1>9. EveryTurnIsSaved'
  <2>1. ASSUME NEW j \in Ids
        PROVE  Saved(j) \subseteq Saved(j)'
    <3>1. \A x : x \in Saved(j) <=>
              \/ x \in Stored(j)
              \/ \E n \in 1..Len(requests) : Saves(n, j) /\ x \in requests[n].data
      BY SavedTurns
    <3>2. \A x : x \in Saved(j)' <=>
              \/ x \in Stored(j)'
              \/ \E n \in 1..Len(requests') : Saves(n, j)' /\ x \in requests'[n].data
      <4>1. DOMAIN requests' = 1..Len(requests')
        BY DEF TabsTypes
      <4> QED
        BY <4>1 DEF Saved, Stored, Saves
    <3>3. ASSUME NEW n \in 1..Len(requests), Saves(n, j)
          PROVE  /\ n - 1 \in 1..Len(requests')
                 /\ requests'[n - 1] = requests[n]
      <4>1. n # 1
        BY <1>1, <1>2, <3>3 DEF Saves
      <4>2. n - 1 \in 1..Len(requests') /\ (n - 1) + 1 = n
        BY <1>2, <4>1
      <4> QED
        BY <1>2, <4>2
    <3>4. Stored(j)' = Stored(j)
      BY <1>1 DEF Stored
    <3> QED
      BY <3>1, <3>2, <3>3, <3>4 DEF Saves
  <2> QED
    BY <1>1, <2>1 DEF EveryTurnIsSaved
<1> QED
  BY <1>6, <1>7, <1>8, <1>9

LEMMA LoadMakesTabSaves ==
    ASSUME TabsInv, SavedInv, NEW t \in Tabs, LoadMakesTab(t)
    PROVE  SavedInv'
<1> USE DEF TabsInv, SavedInv
<1>1. /\ AddTab(t, {}) /\ work' = work /\ Unused # {}
      /\ opening.pc = "loaded" /\ opening' = [opening EXCEPT !.pc = "made", !.tab = t]
      /\ UNCHANGED <<closer, storeVars, owed, failed>>
  BY DEF LoadMakesTab, AddTab
<1>2. opening'.pc = "made" /\ opening'.id = opening.id /\ opening'.data = opening.data
  BY <1>1 DEF TabsTypes, Loads
<1>4. Growing'
  BY <1>1, AddTabSaved, GrowingStays DEF storeVars
<1>5. opening.id \notin Shown'
  BY <1>1, AddTabSaved, FreshAbove DEF OpenedAlone
<1>6. OpenedAlone'
  BY <1>1, <1>2, <1>5 DEF OpenedAlone, storeVars, Stored, Saves
<1>7. EveryTurnIsSaved'
  BY <1>1 DEF EveryTurnIsSaved, Saved, storeVars
<1> QED
  BY <1>1, <1>4, <1>6, <1>7, AddTabSaved

LEMMA AppliedSaves ==
    ASSUME TabsInv, SavedInv, NEW t \in open, Applied(t),
           opening.pc \notin {"none", "reading"}
    PROVE  SavedInv'
<1> USE DEF TabsInv, SavedInv
<1> DEFINE i == opening.id
           h == opening.data
<1>1. /\ t \in Tabs /\ i \in Ids /\ h \in SUBSET TurnNumbers
      /\ session' = [session EXCEPT ![t] = i] /\ history' = [history EXCEPT ![t] = h]
      /\ opening' = NoLoad
      /\ UNCHANGED <<open, work, closer, storeVars, owed, failed>>
  BY DEF Applied, Shows, HasSession, TabsTypes, Loads, ghosts
<1>2. i \notin Shown /\ Above(i, h)
  BY DEF OpenedAlone, Above
<1>3. (\A u \in Live : session[u] # i) /\ (\A u \in Live' : u \in Live)
  BY <1>1, <1>2 DEF Shown, Live
<1> HIDE DEF i, h
<1>4. Apart' /\ \A u \in Live' : Above(session'[u], history'[u])
  BY <1>1, <1>2, <1>3, Reshown
<1>5. Growing'
  BY <1>1, <1>4, GrowingStays DEF storeVars
<1>6. OpenedAlone'
  BY <1>1 DEF OpenedAlone, NoLoad
<1>7. EveryTurnIsSaved'
  BY <1>1 DEF EveryTurnIsSaved, Saved, storeVars
<1> QED
  BY <1>4, <1>5, <1>6, <1>7

LEMMA OpeningEndsSaves ==
    ASSUME SavedInv, opening' = NoLoad, UNCHANGED <<tabVars, closer, storeVars, ghosts>>
    PROVE  SavedInv'
BY DEF SavedInv, Apart, Growing, Above, Saves, Stored, OpenedAlone, NoLoad,
   EveryTurnIsSaved, Saved, Live, tabVars, storeVars, ghosts

LEMMA LoadFillsTabSaves ==
    ASSUME TabsInv, SavedInv, LoadFillsTab
    PROVE  SavedInv'
<1>1. CASE opening.tab \in open
  BY <1>1, AppliedSaves DEF LoadFillsTab
<1>2. CASE opening.tab \notin open
  BY <1>2, OpeningEndsSaves DEF LoadFillsTab
<1> QED
  BY <1>1, <1>2

LEMMA LoadReplacesSaves ==
    ASSUME TabsInv, SavedInv, NEW t \in Tabs, LoadReplaces(t)
    PROVE  SavedInv'
<1>1. CASE work[t] = "idle"
  BY <1>1, AppliedSaves DEF LoadReplaces
<1>2. CASE work[t] # "idle"
  BY <1>2, OpeningEndsSaves DEF LoadReplaces
<1> QED
  BY <1>1, <1>2

-----------------------------------------------------------------------------
LEMMA CloseSaves ==
    ASSUME SessionAssumption, TabsInv, SavedInv, TabsInv', NEW k \in Closers, NEW t \in Tabs,
           Close(k, t)
    PROVE  SavedInv'
<1>1. /\ t \in open /\ t \in Live
      /\ UNCHANGED <<tabVars, stored, opening, owed, failed>>
  BY DEF Close, Live, ghosts
<1>2. \A u \in Live' : u \in Live /\ session'[u] = session[u] /\ history'[u] = history[u]
  BY <1>1 DEF tabVars, Live
<1>4. CASE work[t] = "streaming"
  BY <1>1, <1>2, <1>4, NothingSaved DEF Close, SavedInv, storeVars
<1>5. CASE work[t] # "streaming"
  BY <1>1, <1>2, <1>5, ShownSaved DEF Close, Ask, SavedInv
<1> QED
  BY <1>4, <1>5

LEMMA StopAndCloseSaves ==
    ASSUME SessionAssumption, TabsInv, SavedInv, TabsInv', AskedIsOpen, NEW k \in Closers, StopAndClose(k)
    PROVE  SavedInv'
<1>1. /\ closer[k].tab \in Live
      /\ UNCHANGED <<tabVars, stored, opening, owed, failed>>
  BY DEF StopAndClose, AskedIsOpen, TabsInv, TabsTypes, Live, ghosts
<1>2. \A u \in Live' : u \in Live /\ session'[u] = session[u] /\ history'[u] = history[u]
  BY <1>1 DEF tabVars, Live
<1>4. CASE closer' = [closer EXCEPT ![k].pc = "saving"] /\ Ask(Save(closer[k].tab, k))
  BY <1>1, <1>2, <1>4, ShownSaved DEF Ask, SavedInv
<1>5. CASE closer' = [closer EXCEPT ![k] = NotClosing] /\ UNCHANGED requests
  BY <1>1, <1>2, <1>5, NothingSaved DEF SavedInv, storeVars
<1> QED
  BY <1>4, <1>5 DEF StopAndClose

LEMMA CloseEndsSaves ==
    ASSUME SessionAssumption, TabsInv, SavedInv, TabsInv', NEW k \in Closers, CloseEnds(k)
    PROVE  SavedInv'
<1> DEFINE t == closer[k].tab
           again == \E j \in Closers \ {k} : closer[j].tab = t
           gone == work[t] # "compacting" /\ ~again
<1>1. /\ t \in Tabs
      /\ closer' = [closer EXCEPT ![k] = NotClosing]
      /\ UNCHANGED <<opening, storeVars, owed, failed>>
  BY DEF CloseEnds, TabsInv, TabsTypes, HasSession, Closings, ghosts
<1>3. \A u \in Live' : u \in Live /\ session'[u] = session[u] /\ history'[u] = history[u]
  <2>1. CASE t \in open /\ open # {t}
    <3>1. RemoveTab(t, again)
      BY <2>1 DEF CloseEnds
    <3> HIDE DEF t, again
    <3>2. /\ open' = open \ {t}
          /\ work' = [work EXCEPT ![t] = IF @ = "compacting" THEN @ ELSE "idle"]
          /\ Forgotten(t, gone)
      BY <3>1 DEF RemoveTab
    <3>3. gone => t \notin Live'
      BY <1>1, <3>2 DEF Live, TabsInv, TabsTypes
    <3>4. gone \in BOOLEAN
      OBVIOUS
    <3>5. \A u \in Live' : u \in Live /\ u \in Tabs /\ session'[u] # None
      BY <1>1, <2>1, <3>2 DEF Live, TabsInv, TabsTypes, HasSession
    <3> QED
      BY <1>1, <3>2, <3>3, <3>4, <3>5, TabForgotten
  <2>2. CASE ~(t \in open /\ open # {t})
    BY <2>2 DEF CloseEnds, tabVars, Live
  <2> QED
    BY <2>1, <2>2
<1> QED
  BY <1>1, <1>3, NothingSaved DEF SavedInv

LEMMA ServeSaveSaves ==
    ASSUME SessionAssumption, TabsInv, SavedInv, TabsInv', ServeSave
    PROVE  SavedInv'
<1> USE DEF TabsInv, SavedInv
<1>1. /\ requests \in Seq(Requests) /\ requests # <<>> /\ requests' = Tail(requests)
      /\ Head(requests).ask = "save"
      /\ UNCHANGED <<tabVars, opening, owed>>
  BY DEF ServeSave, TabsTypes
<1>2. /\ Len(requests) \in Nat /\ 1 \in 1..Len(requests)
      /\ Head(requests) = requests[1] /\ Head(requests) \in Requests
      /\ Len(requests') = Len(requests) - 1
      /\ \A n \in 1..Len(requests') : n \in Nat /\ n + 1 \in 1..Len(requests) /\ n + 1 # 1
      /\ \A n \in 1..Len(requests') : requests'[n] = requests[n + 1]
  BY <1>1, FirstServed
<1>3. PICK i \in Ids, d \in SUBSET TurnNumbers : i = Head(requests).id /\ d = Head(requests).data
  BY <1>2 DEF Requests
<1>4. d # None
  BY DEF SessionAssumption, TurnNumbers
<1>5. Stored(i) \subseteq d /\ Saves(1, i) /\ requests[1].data = d
  BY <1>1, <1>2, <1>3 DEF Growing, Saves
\* Written, or failed.
<1>6. /\ \A j \in Ids : j # i => Stored(j)' = Stored(j)
      /\ \/ Stored(i)' = d /\ failed' = failed
         \/ Stored(i)' = Stored(i) /\ failed' = failed \cup {i}
  <2>1. CASE stored' = [stored EXCEPT ![i] = d] /\ failed' = failed
    BY <1>4, <2>1 DEF Stored, TabsTypes
  <2>2. CASE stored' = stored /\ failed' = failed \cup {i}
    BY <2>2 DEF Stored
  <2> QED
    BY <1>3, <2>1, <2>2 DEF ServeSave, SavedAs
<1>7. \A j \in Ids : Stored(j) \subseteq Stored(j)'
  BY <1>5, <1>6
<1>8. \A h : \A j \in Ids : Above(j, h) => Above(j, h)'
  BY <1>1, <1>2, <1>5, <1>6 DEF Above, Saves
<1>9. (\A u \in Live' : u \in Live /\ session'[u] = session[u] /\ history'[u] = history[u])
  BY <1>1 DEF tabVars, Live
<1>10. Apart'
  BY <1>9 DEF Apart
<1>11. Growing'
  <2>1. \A u \in Live' : session[u] \in Ids
    BY <1>9 DEF HasSession, TabsTypes, Live
  <2>2. \A u \in Live' : Above(session[u], history[u])'
    <3>1. ASSUME NEW u \in Live'
          PROVE  Above(session[u], history[u])'
      <4>1. PICK j \in Ids, h \in SUBSET TurnNumbers : j = session[u] /\ h = history[u]
        BY <1>9, <2>1, <3>1 DEF TabsTypes, Live
      <4>2. Above(j, h)
        BY <1>9, <3>1, <4>1 DEF Growing
      <4>3. Above(j, h)'
        BY <1>8, <4>2
      <4> QED
        BY <1>9, <3>1, <4>1, <4>3 DEF Above, Stored, Saves
    <3> QED
      BY <3>1
  <2>3. ASSUME NEW n \in 1..Len(requests'), requests'[n].ask = "save"
        PROVE  /\ Stored(requests[n].id)' \subseteq requests'[n].data
               /\ \A m \in 1..(n - 1) :
                     Saves(m, requests[n].id)' => requests'[m].data \subseteq requests'[n].data
    <3>1. PICK j \in Ids : j = requests[n + 1].id
      BY <1>1, <1>2, RequestFields
    <3>2. requests'[n] = requests[n + 1] /\ requests[n + 1].ask = "save"
      BY <1>2, <2>3
    <3>3. \A m \in 1..(n - 1) : m \in 1..Len(requests') /\ m + 1 \in 1..((n + 1) - 1)
      BY <1>2
    <3>4. 1 \in 1..((n + 1) - 1)
      BY <1>2
    <3>5. \A m \in 1..(n - 1) :
            Saves(m, j)' => requests'[m].data \subseteq requests'[n].data
      <4>1. \A m \in 1..((n + 1) - 1) :
               Saves(m, j) => requests[m].data \subseteq requests[n + 1].data
        BY <1>2, <3>1, <3>2 DEF Growing
      <4>2. \A m \in 1..(n - 1) : requests'[m] = requests[m + 1] /\ (Saves(m, j)' => Saves(m + 1, j))
        BY <1>2, <3>3 DEF Saves
      <4> QED
        BY <3>2, <3>3, <4>1, <4>2
    <3>6. Stored(j)' \subseteq requests'[n].data
      BY <1>2, <1>5, <1>6, <3>1, <3>2, <3>4 DEF Growing, Saves
    <3> QED
      BY <3>1, <3>2, <3>5, <3>6 DEF Stored, Saves
  <2> QED
    BY <2>2, <2>3 DEF Growing
<1>12. OpenedAlone'
  <2> SUFFICES ASSUME opening.pc # "none"
               PROVE  OpenedAlone'
    BY <1>1 DEF OpenedAlone
  <2>1. opening.id \notin Shown'
    BY <1>9 DEF OpenedAlone, Shown
  <2>2. ASSUME opening.pc = "reading",
               NEW n \in 1..Len(requests'), requests'[n].ask = "read",
               NEW m \in (n + 1)..Len(requests')
        PROVE  ~Saves(m, opening.id)'
    <3>1. m \in 1..Len(requests') /\ m + 1 \in ((n + 1) + 1)..Len(requests)
      BY <1>2, <2>2
    <3> QED
      BY <1>1, <1>2, <2>2, <3>1 DEF OpenedAlone, Saves
  <2>3. ASSUME opening.pc # "reading"
        PROVE  /\ opening.data = Stored(opening.id)'
               /\ \A n \in 1..Len(requests') : ~Saves(n, opening.id)'
    <3>1. opening.id # i /\ opening.id \in Ids
      BY <1>2, <1>5, <2>3 DEF OpenedAlone, HasSession, TabsTypes, Loads
    <3>2. Stored(opening.id)' = Stored(opening.id)
      BY <1>1, <1>6, <3>1 DEF Stored
    <3> QED
      BY <1>1, <1>2, <2>3, <3>2 DEF OpenedAlone, Saves
  <2> QED
    BY <1>1, <2>1, <2>2, <2>3 DEF OpenedAlone, Saves, Stored
<1>13. EveryTurnIsSaved'
  <2>1. ASSUME NEW j \in Ids \ failed'
        PROVE  Saved(j) \subseteq Saved(j)'
    <3>1. \A x : x \in Saved(j) <=>
              \/ x \in Stored(j)
              \/ \E n \in 1..Len(requests) : Saves(n, j) /\ x \in requests[n].data
      BY SavedTurns
    <3>2. \A x : x \in Saved(j)' <=>
              \/ x \in Stored(j)'
              \/ \E n \in 1..Len(requests') : Saves(n, j)' /\ x \in requests'[n].data
      <4>1. DOMAIN requests' = 1..Len(requests')
        BY DEF TabsTypes
      <4> QED
        BY <4>1 DEF Saved, Stored, Saves
    <3>3. ASSUME NEW n \in 1..Len(requests), Saves(n, j)
          PROVE  \/ requests[n].data \subseteq Stored(j)'
                 \/ n - 1 \in 1..Len(requests') /\ requests'[n - 1] = requests[n]
      <4>1. CASE n = 1
        BY <1>2, <1>3, <1>5, <1>6, <2>1, <3>3, <4>1 DEF Saves
      <4>2. CASE n # 1
        <5>1. n - 1 \in 1..Len(requests') /\ (n - 1) + 1 = n
          BY <1>2, <4>2
        <5> QED
          BY <1>2, <5>1
      <4> QED
        BY <4>1, <4>2
    <3> QED
      BY <1>7, <3>1, <3>2, <3>3 DEF Saves
  <2>2. failed \subseteq failed'
    BY <1>6
  <2> QED
    BY <1>1, <2>1, <2>2 DEF EveryTurnIsSaved
<1> QED
  BY <1>10, <1>11, <1>12, <1>13

LEMMA ReloadSaves ==
    ASSUME SessionAssumption, TabsInv, SavedInv, TabsInv', Reload
    PROVE  SavedInv'
<1> USE DEF TabsInv, SavedInv
<1> DEFINE known == {t \in open : stored[session[t]] # None}
           blank == IF open \ known # {} /\ Unused # {}
                    THEN {CHOOSE t \in open \ known : TRUE} ELSE {}
<1>1. /\ blank \subseteq open \ known /\ (blank # {} => Unused # {})
      /\ \A t, u \in blank : t = u
  OBVIOUS
<1>2. /\ open' = known \cup blank
      /\ session' = [t \in Tabs |-> IF t \in known THEN session[t]
                                    ELSE IF t \in blank THEN Fresh ELSE None]
      /\ history' = [t \in Tabs |-> IF t \in known THEN stored[session[t]] ELSE {}]
      /\ requests' = IF blank = {} THEN <<>> ELSE <<SaveOf(Fresh, {}, None)>>
      /\ work' = [t \in Tabs |-> "idle"]
      /\ closer' = [k \in Closers |-> NotClosing]
      /\ opening' = NoLoad
      /\ owed' = [i \in Ids |-> IF stored[i] = None THEN {} ELSE stored[i]]
      /\ UNCHANGED stored
  BY DEF Reload
<1>3. known \subseteq Live /\ known \subseteq Tabs /\ blank \subseteq Tabs
      /\ \A t \in known : stored[session[t]] # None
  BY <1>1 DEF Live, TabsTypes
<1> HIDE DEF known, blank
<1>4. \A t \in Live' : t \in Tabs /\ (t \in known \/ t \in blank)
  BY <1>2, <1>3 DEF Live
<1>5. blank # {} => /\ \A u \in Live : session[u] # Fresh
                    /\ Fresh \in Ids /\ stored[Fresh] = None
  BY <1>1, FreshAbove, HeldNowhere
<1>6. \A n \in 1..Len(requests') :
         n = 1 /\ blank # {} /\ requests'[n].id = Fresh /\ requests'[n].data = {}
  <2>1. CASE blank = {}
    <3>1. requests' = <<>>
      BY <1>2, <2>1
    <3> QED
      BY <3>1
  <2>2. CASE blank # {}
    <3> DEFINE r == SaveOf(Fresh, {}, None)
    <3>1. r.id = Fresh /\ r.data = {}
      BY DEF SaveOf
    <3>2. requests' = <<r>>
      BY <1>2, <2>2
    <3> HIDE DEF r
    <3> QED
      BY <2>2, <3>1, <3>2
  <2> QED
    BY <2>1, <2>2
<1>8. \A t \in Live' :
         \/ t \in known /\ session'[t] = session[t] /\ history'[t] = stored[session[t]]
         \/ t \in blank /\ t \notin known /\ session'[t] = Fresh /\ history'[t] = {}
  BY <1>2, <1>4
<1>9. Apart'
  BY <1>1, <1>3, <1>5, <1>8 DEF Apart
<1>10. Growing'
  <2>1. \A t \in Live' : IF stored[session'[t]] = None THEN TRUE
                         ELSE stored[session'[t]] \subseteq history'[t]
    BY <1>5, <1>8
  <2>2. \A t \in Live' : Above(session[t], history[t])'
    BY <1>2, <1>6, <2>1 DEF Above, Stored, Saves
  <2>3. ASSUME NEW n \in 1..Len(requests'), requests'[n].ask = "save"
        PROVE  /\ Stored(requests[n].id)' \subseteq requests'[n].data
               /\ \A m \in 1..(n - 1) :
                     Saves(m, requests[n].id)' => requests'[m].data \subseteq requests'[n].data
    <3>1. n = 1 /\ stored'[requests'[n].id] = None
      BY <1>2, <1>5, <1>6, <2>3
    <3> QED
      BY <3>1 DEF Stored
  <2> QED
    BY <2>2, <2>3 DEF Growing
<1>11. OpenedAlone'
  BY <1>2 DEF OpenedAlone, NoLoad
<1>12. EveryTurnIsSaved'
  BY <1>2 DEF EveryTurnIsSaved, Saved
<1> QED
  BY <1>9, <1>10, <1>11, <1>12

LEMMA SavedInit ==
    ASSUME SessionAssumption, Init
    PROVE  SavedInv
<1>1. PICK t \in Tabs, i \in Ids \ Old :
         open = {t} /\ session = [u \in Tabs |-> IF u = t THEN i ELSE None]
  BY DEF Init
<1>2. Live = {t}
  BY <1>1 DEF Init, Live
<1>3. Stored(i) = {} /\ Len(requests) = 0 /\ session[t] = i
  BY <1>1 DEF Init, Stored
<1>4. OpenedAlone
  BY DEF Init, OpenedAlone, NoLoad
<1>5. Apart /\ Growing
  BY <1>2, <1>3 DEF Apart, Growing, Above
<1>6. EveryTurnIsSaved
  BY DEF Init, EveryTurnIsSaved, Saved, SessionAssumption
<1> QED
  BY <1>4, <1>5, <1>6 DEF SavedInv

LEMMA SavedStep ==
    ASSUME SessionAssumption, ~OpensTwice, AskedIsOpen, TabsInv, SavedInv, TabsInv', [Next]_vars
    PROVE  SavedInv'
<1>1. ASSUME NEW t \in Tabs, TabStep(t)
      PROVE  SavedInv'
  BY <1>1, NewTabSaves, DuplicateSaves, SendSaves, AnswerSaves, CompactEndsSaves,
     NewSessionSaves, RenameSaves, LoadMakesTabSaves, LoadReplacesSaves
  DEF TabStep
<1>2. ASSUME NEW k \in Closers, CloseStep(k)
      PROVE  SavedInv'
  BY <1>2, CloseSaves, StopAndCloseSaves, CloseEndsSaves DEF CloseStep
<1>3. ASSUME NEW i \in Ids, Resume(i)
      PROVE  SavedInv'
  BY <1>3, StartLoadSaves DEF Resume
<1>4. CASE Reopen
  <2>1. PICK n \in DOMAIN recent : StartLoad(recent[n], "reopen")
    BY <1>4 DEF Reopen
  <2>2. recent[n] \in Ids
    BY <2>1, RemoveAtType DEF TabsInv, TabsTypes
  <2> QED
    BY <2>1, <2>2, StartLoadSaves
<1>5. CASE UNCHANGED vars
  BY <1>5 DEF vars, tabVars, callVars, storeVars, ghosts, SavedInv, Apart, Growing,
     Above, Saves, Stored, OpenedAlone, EveryTurnIsSaved, Saved, Live, Shown
<1> QED
  BY <1>1, <1>2, <1>3, <1>4, <1>5, ServeReadSaves, LoadFillsTabSaves, ServeSaveSaves, ReloadSaves
  DEF Next

(***************************************************************************)
(* Where no session is opened that a tab can still save, and the tab that  *)
(* the user is asked about is not closed meanwhile, every turn that a tab  *)
(* completed is stored or being saved, and is not written over, whatever   *)
(* is opened, replaced, duplicated, compacted, closed or reloaded, unless  *)
(* a save of the session failed.                                           *)
(***************************************************************************)
THEOREM TurnsAreSaved ==
    ASSUME ~OpensTwice
    PROVE  Spec /\ []AskedIsOpen => []EveryTurnIsSaved
<1>1. Init => SavedInv
  BY SavedInit, SessionAssumption
<1>2. AskedIsOpen /\ TabsInv /\ TabsInv' /\ SavedInv /\ [Next]_vars => SavedInv'
  BY SavedStep, SessionAssumption
<1>3. SavedInv => EveryTurnIsSaved
  BY DEF SavedInv
<1> QED
  BY <1>1, <1>2, <1>3, TabsInvariant, PTL DEF Spec

-----------------------------------------------------------------------------
\* The one tab that is being closed stays open until its call is over.
LEMMA ClosedLastStep ==
    ASSUME OneCloser, TabsInv, ClosedLast, [Next]_vars
    PROVE  ClosedLast'
<1> USE DEF TabsInv
<1>1. ASSUME closer' = closer, open \subseteq open'
      PROVE  ClosedLast'
  BY <1>1 DEF ClosedLast
<1>2. CASE \E t \in Tabs : TabStep(t)
  BY <1>1, <1>2
  DEF TabStep, NewTab, Duplicate, Send, Answer, Compact, CompactEnds, NewSession, Rename,
      LoadMakesTab, LoadReplaces, Applied, AddTab, callVars, tabVars
<1>3. CASE (\E i \in Ids : Resume(i)) \/ Reopen \/ ServeRead \/ LoadFillsTab \/ UNCHANGED vars
  BY <1>1, <1>3
  DEF Resume, Reopen, StartLoad, ServeRead, LoadFillsTab, Applied, vars, callVars, tabVars
<1>4. ASSUME NEW k \in Closers, CloseStep(k)
      PROVE  ClosedLast'
  <2>1. ASSUME NEW t \in Tabs, Close(k, t)
        PROVE  ClosedLast'
    <3>1. t \in open /\ open' = open
      BY <2>1 DEF Close, tabVars
    <3>2. \A p \in {"asking", "saving"} :
             closer' = [closer EXCEPT ![k] = [pc |-> p, tab |-> t, id |-> None]] => ClosedLast'
      BY <3>1 DEF TabsTypes, ClosedLast
    <3> QED
      BY <2>1, <3>2 DEF Close
  <2>2. CASE StopAndClose(k)
    <3>1. closer[k] \in Closings /\ closer[k].pc = "asking" /\ closer[k].tab \in open /\ open' = open
      BY <2>2 DEF StopAndClose, TabsTypes, ClosedLast, tabVars
    <3>2. CASE closer' = [closer EXCEPT ![k].pc = "saving"]
      <4>1. closer'[k].tab = closer[k].tab
        BY <3>1, <3>2 DEF TabsTypes, Closings
      <4> QED
        BY <3>1, <4>1 DEF ClosedLast, OneCloser
    <3>3. CASE closer' = [closer EXCEPT ![k] = NotClosing]
      BY <3>1, <3>3 DEF TabsTypes, ClosedLast, OneCloser, NotClosing
    <3> QED
      BY <2>2, <3>2, <3>3 DEF StopAndClose
  <2>3. CASE CloseEnds(k)
    BY <2>3 DEF CloseEnds, TabsTypes, ClosedLast, OneCloser, NotClosing
  <2> QED
    BY <1>4, <2>1, <2>2, <2>3 DEF CloseStep
<1>5. CASE ServeSave
  <2>1. CASE Head(requests).closer = None
    BY <1>1, <1>5, <2>1 DEF ServeSave, tabVars
  <2>2. CASE Head(requests).closer # None
    <3>1. /\ requests \in Seq(Requests) /\ requests # <<>> /\ requests' = Tail(requests)
          /\ open' = open
      BY <1>5 DEF ServeSave, TabsTypes, tabVars
    <3>2. 1 \in 1..Len(requests) /\ Head(requests) = requests[1] /\ Head(requests) \in Requests
      BY <3>1, FirstServed
    <3>3. PICK c \in Closers : c = Head(requests).closer
      BY <2>2, <3>2 DEF Requests
    <3>4. closer[c].pc = "saving" /\ closer[c] \in Closings
      BY <2>2, <3>2, <3>3 DEF Awaited, TabsTypes
    <3>5. closer' = [closer EXCEPT ![c].pc = "saved", ![c].id = session[closer[c].tab]]
      BY <1>5, <2>2, <3>3 DEF ServeSave
    <3>6. closer'[c].tab = closer[c].tab
      BY <3>3, <3>4, <3>5 DEF TabsTypes, Closings
    <3> QED
      BY <3>1, <3>4, <3>6 DEF ClosedLast, OneCloser
  <2> QED
    BY <2>1, <2>2
<1>6. CASE Reload
  BY <1>6 DEF Reload, ClosedLast, NotClosing
<1> QED
  BY <1>2, <1>3, <1>4, <1>5, <1>6 DEF Next

(***************************************************************************)
(* So it is where one tab at a time is closed (closeOtherRuntimes closes   *)
(* them one after the other): no turn is lost.                             *)
(***************************************************************************)
THEOREM TurnsAreSavedClosingOne ==
    ASSUME ~OpensTwice, OneCloser
    PROVE  Spec => []EveryTurnIsSaved
<1>1. Init => ClosedLast
  BY DEF Init, ClosedLast, NotClosing
<1>2. TabsInv /\ ClosedLast /\ [Next]_vars => ClosedLast'
  BY ClosedLastStep
<1>3. ClosedLast => AskedIsOpen
  BY DEF ClosedLast, AskedIsOpen
<1>4. Spec /\ []AskedIsOpen => []EveryTurnIsSaved
  BY TurnsAreSaved
<1> QED
  BY <1>1, <1>2, <1>3, <1>4, TabsInvariant, PTL DEF Spec
===============================================================================
