------------------------ MODULE StructureContextProofs ------------------------
(***************************************************************************)
(* What holds of StructureContext for all sets of workbook keys, sessions  *)
(* and writes, and for all bounds: an overview that a session takes for    *)
(* current has every announced change, unless the announcement came while  *)
(* that overview was on its way (ContextSeesAnnounced).                    *)
(*                                                                         *)
(* The property speaks of what a session injected last; the invariant      *)
(* follows an overview from its reading on: the build that reads, the      *)
(* cache, the call that was handed it.  At each of these stages it shows   *)
(* what was announced for its workbook, unless an announcement came while  *)
(* it was on its way (racing).  Model calls have numbers of their own, so  *)
(* that a build is handed to no call of another workbook.                  *)
(***************************************************************************)
EXTENDS StructureContext, TLAPS

Phases == {"none", "identifying", "building", "got"}
Overview == [of : Nat, shows : Nat]

\* The types of the state.
Types ==
    /\ document \in Books
    /\ write \in [Writes -> [pc : {"idle", "begun", "committed", "told"},
                             book : Books \cup {None}]]
    /\ \A w \in Writes : write[w].pc # "idle" => write[w].book \in Books
    /\ structure \in Nat
    /\ cached \in [Books -> Overview \cup {None}]
    /\ rev \in [Books -> Nat]
    /\ builds \subseteq [id : Nat, book : Books, read : Nat]
    /\ ctx \in [Sessions -> [pc : Phases, book : Books \cup {None},
                             value : Overview \cup {None}, build : Nat]]
    /\ lastBook \in [Sessions -> Books \cup {None}]
    /\ lastRev \in [Sessions -> Nat]
    /\ kept \in [Sessions -> BOOLEAN]
    /\ count \in [{"contexts", "silent", "replaced", "renames"} -> Nat]
    /\ known \in [Sessions -> Overview \cup {None}]
    /\ announced \in [Books -> Nat]
    /\ racing \subseteq Nat

\* Nothing was announced that has not happened; the cache and the builds have
\* what was announced.
CacheFresh ==
    /\ \A b \in Books : announced[b] <= structure
    /\ \A b \in Books :
          cached[b] # None /\ cached[b].of \notin racing => cached[b].shows >= announced[b]
    /\ \A x \in builds :
          /\ x.read <= structure
          /\ x.id \notin racing => x.read >= announced[x.book]

\* A call that has its overview, or waits for it, has a workbook, and the
\* overview what was announced for it.
CallFresh ==
    \A s \in Sessions :
        /\ ctx[s].pc \in {"building", "got"} => ctx[s].book \in Books
        /\ ctx[s].pc = "got" =>
              /\ ctx[s].value \in Overview
              /\ ctx[s].value.of \notin racing
                    => ctx[s].value.shows >= announced[ctx[s].book]

\* The numbers of calls and builds.
Waiting(s) == ctx[s].pc \in {"identifying", "building"}
Numbered ==
    /\ \A x \in builds : x.id <= count["contexts"]
    /\ \A s \in Sessions : ctx[s].build <= count["contexts"]
    /\ \A s, t \in Sessions : Waiting(s) /\ Waiting(t) /\ s # t => ctx[s].build # ctx[t].build
    /\ \A s \in Sessions, x \in builds : x.id = ctx[s].build =>
          /\ ctx[s].pc # "identifying"
          /\ ctx[s].pc = "building" => x.book = ctx[s].book

\* What a session has noted of revisions.
Noted ==
    \A s \in Sessions :
        IF lastBook[s] = None THEN known[s] = None
        ELSE lastRev[s] <= rev[lastBook[s]]

StructureInv == Types /\ CacheFresh /\ CallFresh /\ Numbered /\ Noted /\ ContextSeesAnnounced

-----------------------------------------------------------------------------
\* The initial states satisfy the invariant.
LEMMA InitInv == Init => StructureInv
BY StructureAssumption, SMT
DEF Init, StructureInv, Types, CacheFresh, CallFresh, Waiting, Numbered, Noted,
    ContextSeesAnnounced, NoCall, Phases, Bound

\* The writes and the other changes of the document keep it.
LEMMA DocumentSteps ==
    StructureInv
    /\ (\/ \E w \in Writes : WriteBegins(w) \/ WriteCommits(w)
        \/ ChangesUntold \/ Rename)
    => StructureInv'
<1> SUFFICES ASSUME StructureInv,
                    \/ \E w \in Writes : WriteBegins(w) \/ WriteCommits(w)
                    \/ ChangesUntold \/ Rename
             PROVE  StructureInv'
    OBVIOUS
<1> USE StructureAssumption
<1>1. UNCHANGED <<cacheVars, contextVars, knowledge>> /\ structure' \in {structure, structure + 1}
    BY DEF StructureInv, Types, WriteBegins, WriteCommits, ChangesUntold, Rename, docVars
<1>2. Types'
  <2>1. CASE \E w \in Writes : WriteBegins(w)
      BY <2>1 DEF StructureInv, Types, WriteBegins, cacheVars, contextVars, knowledge
  <2>2. CASE \E w \in Writes : WriteCommits(w)
      BY <2>2 DEF StructureInv, Types, WriteCommits, cacheVars, contextVars, knowledge
  <2>3. CASE ChangesUntold
      BY <2>3 DEF StructureInv, Types, ChangesUntold, Once, cacheVars, contextVars, knowledge
  <2>4. CASE Rename
      BY <2>4 DEF StructureInv, Types, Rename, Once, cacheVars, contextVars, knowledge
  <2> QED BY <2>1, <2>2, <2>3, <2>4
<1>3. count'["contexts"] = count["contexts"]
    BY DEF StructureInv, Types, WriteBegins, WriteCommits, ChangesUntold, Rename, Once
<1>4. CacheFresh' /\ CallFresh'
    BY <1>1, SMT DEF StructureInv, Types, CacheFresh, CallFresh, cacheVars, contextVars, knowledge
<1>5. Numbered' /\ Noted' /\ ContextSeesAnnounced'
    BY <1>1, <1>3 DEF StructureInv, Types, Numbered, Waiting, Noted, ContextSeesAnnounced,
        cacheVars, contextVars, knowledge
<1> QED BY <1>2, <1>4, <1>5 DEF StructureInv

\* An announcement keeps it: no overview of the workbook stays cached, none on
\* its way counts, and no session has noted the new revision.
LEMMA Announcement ==
    ASSUME NEW w \in Writes, StructureInv, WriteTold(w)
    PROVE  StructureInv'
<1> USE StructureAssumption
<1> DEFINE b == write[w].book
<1>1. b \in Books
    BY DEF StructureInv, Types, WriteTold
<1>2. Types'
  <2>1. OnTheirWay(b) \subseteq Nat
      BY DEF StructureInv, Types, CallFresh, OnTheirWay, Overview
  <2> QED BY <1>1, <2>1 DEF StructureInv, Types, WriteTold, Invalidate, contextVars
<1>3. /\ UNCHANGED <<structure, builds, contextVars, count, known>>
      /\ cached' = [cached EXCEPT ![b] = None]
      /\ rev' = [rev EXCEPT ![b] = rev[b] + 1]
      /\ announced' = [announced EXCEPT ![b] = structure]
      /\ racing' = racing \cup OnTheirWay(b)
    BY DEF WriteTold, Invalidate
<1>4. CacheFresh'
    BY <1>1, <1>3, SMT DEF StructureInv, Types, CacheFresh, OnTheirWay
<1>5. CallFresh'
    BY <1>1, <1>3, SMT DEF StructureInv, Types, CallFresh, OnTheirWay, contextVars, Phases
<1>6. Numbered'
    BY <1>3 DEF StructureInv, Types, Numbered, Waiting, contextVars
<1>7. Noted' /\ ContextSeesAnnounced'
    BY <1>1, <1>3, SMT DEF StructureInv, Types, Noted, ContextSeesAnnounced, contextVars
<1> QED BY <1>2, <1>4, <1>5, <1>6, <1>7 DEF StructureInv

\* The end of a build keeps it.
LEMMA EndOfBuild ==
    ASSUME NEW x \in builds, StructureInv, BuildEnds(x)
    PROVE  StructureInv'
<1> USE StructureAssumption
<1>1. x.id \in Nat /\ x.book \in Books /\ x.read \in Nat
    BY DEF StructureInv, Types
<1>2. /\ builds' = builds \ {x}
      /\ UNCHANGED <<docVars, lastBook, lastRev, kept, count, knowledge>>
    BY DEF BuildEnds
<1>3. CASE \E v \in x.read .. structure :
             /\ cached' = [cached EXCEPT ![x.book] = [of |-> x.id, shows |-> v]]
             /\ rev' = [rev EXCEPT ![x.book] = @ + 1]
             /\ ctx' = [s \in Sessions |->
                           IF ctx[s].pc = "building" /\ ctx[s].build = x.id
                           THEN [ctx[s] EXCEPT !.pc = "got", !.value = cached'[x.book]]
                           ELSE ctx[s]]
  <2>1. PICK v \in x.read .. structure :
             /\ cached' = [cached EXCEPT ![x.book] = [of |-> x.id, shows |-> v]]
             /\ rev' = [rev EXCEPT ![x.book] = rev[x.book] + 1]
             /\ ctx' = [s \in Sessions |->
                           IF ctx[s].pc = "building" /\ ctx[s].build = x.id
                           THEN [ctx[s] EXCEPT !.pc = "got", !.value = [of |-> x.id, shows |-> v]]
                           ELSE ctx[s]]
    <3>1. PICK v \in x.read .. structure :
             /\ cached' = [cached EXCEPT ![x.book] = [of |-> x.id, shows |-> v]]
             /\ rev' = [rev EXCEPT ![x.book] = @ + 1]
             /\ ctx' = [s \in Sessions |->
                           IF ctx[s].pc = "building" /\ ctx[s].build = x.id
                           THEN [ctx[s] EXCEPT !.pc = "got", !.value = cached'[x.book]]
                           ELSE ctx[s]]
        BY <1>3
    <3>2. cached'[x.book] = [of |-> x.id, shows |-> v]
        BY <1>1, <3>1 DEF StructureInv, Types
    <3> QED BY <3>1, <3>2
  <2> DEFINE o == [of |-> x.id, shows |-> v]
             Got(s) == ctx[s].pc = "building" /\ ctx[s].build = x.id
  <2>2. v \in Nat /\ v >= x.read /\ v <= structure
    <3>1. structure \in Nat /\ x.read \in Nat
        BY <1>1 DEF StructureInv, Types
    <3>2. ASSUME NEW r \in Nat, NEW t \in Nat, NEW u \in r .. t
          PROVE  u \in Nat /\ u >= r /\ u <= t
        OBVIOUS
    <3> HIDE <1>3, <2>1
    <3> QED BY <3>1, <3>2
  <2>3. \A s \in Sessions :
           IF Got(s) THEN ctx'[s] = [pc |-> "got", book |-> x.book, value |-> o, build |-> x.id]
           ELSE ctx'[s] = ctx[s]
    <3> SUFFICES ASSUME NEW s \in Sessions
                 PROVE  IF Got(s)
                        THEN ctx'[s] = [pc |-> "got", book |-> x.book, value |-> o, build |-> x.id]
                        ELSE ctx'[s] = ctx[s]
        OBVIOUS
    <3>1. ctx'[s] = IF Got(s) THEN [ctx[s] EXCEPT !.pc = "got", !.value = o] ELSE ctx[s]
        BY <2>1
    <3>2. Got(s) => ctx[s].book = x.book
        BY DEF StructureInv, Numbered
    <3>3. ctx[s] \in [pc : Phases, book : Books \cup {None}, value : Overview \cup {None}, build : Nat]
        BY DEF StructureInv, Types
    <3> QED BY <3>1, <3>2, <3>3
  <2>4. Types'
    <3>1. ctx' \in [Sessions -> [pc : Phases, book : Books \cup {None},
                                 value : Overview \cup {None}, build : Nat]]
      <4>1. \A s \in Sessions : ctx'[s] \in [pc : Phases, book : Books \cup {None},
                                              value : Overview \cup {None}, build : Nat]
          BY <1>1, <2>2, <2>3 DEF StructureInv, Types, Phases, Overview
      <4> QED BY <2>1, <4>1
    <3>2. cached \in [Books -> Overview \cup {None}] /\ rev \in [Books -> Nat]
        BY DEF StructureInv, Types
    <3>3. cached' \in [Books -> Overview \cup {None}]
      <4>1. o \in Overview
          BY <1>1, <2>2 DEF Overview
      <4> HIDE DEF o
      <4>2. cached' = [cached EXCEPT ![x.book] = o]
          BY <2>1 DEF o
      <4> QED BY <1>1, <3>2, <4>1, <4>2
    <3>4. rev' \in [Books -> Nat]
      <4>1. rev[x.book] + 1 \in Nat
          BY <1>1, <3>2
      <4>2. rev' = [rev EXCEPT ![x.book] = rev[x.book] + 1]
          BY <2>1
      <4> QED BY <1>1, <3>2, <4>1, <4>2, Zenon
    <3> QED BY <1>2, <3>1, <3>3, <3>4 DEF StructureInv, Types, docVars, knowledge
  <2>5. \A b \in Books : /\ cached'[b] = IF b = x.book THEN o ELSE cached[b]
                         /\ rev'[b] = IF b = x.book THEN rev[b] + 1 ELSE rev[b]
      BY <2>1 DEF StructureInv, Types
  <2>6. x.id \notin racing => v >= announced[x.book]
    <3>1. announced[x.book] \in Nat
        BY <1>1 DEF StructureInv, Types
    <3>2. x.id \notin racing => x.read >= announced[x.book]
        BY DEF StructureInv, CacheFresh
    <3> QED BY <1>1, <2>2, <3>1, <3>2
  <2>7. CacheFresh'
    <3>1. \A b \in Books : cached'[b] # None /\ cached'[b].of \notin racing
                            => cached'[b].shows >= announced[b]
        BY <2>5, <2>6 DEF StructureInv, CacheFresh
    <3> QED BY <1>2, <3>1 DEF StructureInv, CacheFresh, docVars, knowledge
  <2>8. CallFresh'
      BY <1>1, <1>2, <2>2, <2>3, <2>6 DEF StructureInv, CallFresh, knowledge, Overview
  <2>9. Numbered'
    <3>1. \A s \in Sessions : /\ ctx'[s].build = ctx[s].build
                              /\ Waiting(s)' => Waiting(s) /\ ctx'[s] = ctx[s]
                              /\ ctx'[s].pc \in {"identifying", "building"} => ctx'[s] = ctx[s]
        BY <2>3 DEF Waiting
    <3> QED BY <1>2, <3>1 DEF StructureInv, Numbered
  <2>10. Noted' /\ ContextSeesAnnounced'
    <3>1. \A b \in Books : rev[b] \in Nat /\ rev'[b] \in Nat /\ rev[b] <= rev'[b]
                           /\ (b = x.book => rev'[b] > rev[b])
        BY <2>5 DEF StructureInv, Types
    <3>2. \A s \in Sessions : lastBook[s] \in Books \cup {None} /\ lastRev[s] \in Nat
        BY DEF StructureInv, Types
    <3>3. Noted'
        BY <1>2, <3>1, <3>2 DEF StructureInv, Noted, knowledge
    <3>4. ContextSeesAnnounced'
      <4> SUFFICES ASSUME NEW s \in Sessions, NEW b \in Books,
                          lastBook[s] = b, lastRev[s] = rev'[b], known[s] # None,
                          known[s].of \notin racing
                   PROVE  known[s].shows >= announced[b]
          BY <1>2 DEF ContextSeesAnnounced, knowledge
      <4>1. b # None
          BY DEF StructureInv, Types
      <4>2. lastRev[s] <= rev[b]
          BY <4>1 DEF StructureInv, Noted
      <4>3. lastRev[s] = rev[b]
          BY <3>1, <3>2, <4>2
      <4> QED BY <4>3 DEF StructureInv, ContextSeesAnnounced
    <3> QED BY <3>3, <3>4
  <2> QED BY <2>4, <2>7, <2>8, <2>9, <2>10 DEF StructureInv
<1>4. CASE /\ ctx' = [s \in Sessions |->
                        IF ctx[s].pc = "building" /\ ctx[s].build = x.id
                        THEN NoCall ELSE ctx[s]]
           /\ UNCHANGED <<cached, rev>>
  <2>1. Types'
      BY <1>2, <1>4 DEF StructureInv, Types, Phases, NoCall, docVars, knowledge
  <2>2. CacheFresh' /\ CallFresh'
      BY <1>2, <1>4, SMT
      DEF StructureInv, Types, CacheFresh, CallFresh, NoCall, docVars, knowledge
  <2>3. Numbered'
      BY <1>2, <1>4, SMT DEF StructureInv, Types, Numbered, Waiting, Phases, NoCall
  <2>4. Noted' /\ ContextSeesAnnounced'
      BY <1>2, <1>4 DEF StructureInv, Noted, ContextSeesAnnounced, knowledge
  <2> QED BY <2>1, <2>2, <2>3, <2>4 DEF StructureInv
<1> QED BY <1>3, <1>4 DEF BuildEnds

\* The steps of a session's injector that touch no cache keep it.
LEMMA CallSteps ==
    ASSUME NEW s \in Sessions, StructureInv,
           ReplaceSession(s) \/ ContextStarts(s) \/ ContextTimesOut(s) \/ ContextInjected(s)
    PROVE  StructureInv'
<1> USE StructureAssumption
<1>1. CASE ReplaceSession(s)
  <2>1. Types' /\ count'["contexts"] = count["contexts"]
      BY <1>1 DEF StructureInv, Types, ReplaceSession, Once, docVars, cacheVars
  <2>2. CacheFresh' /\ CallFresh'
      BY <1>1 DEF StructureInv, CacheFresh, CallFresh, ReplaceSession, docVars, cacheVars
  <2>3. Numbered'
      BY <1>1, <2>1 DEF StructureInv, Numbered, Waiting, ReplaceSession, cacheVars
  <2>4. Noted' /\ ContextSeesAnnounced'
      BY <1>1 DEF StructureInv, Types, Noted, ContextSeesAnnounced, ReplaceSession, cacheVars
  <2> QED BY <2>1, <2>2, <2>3, <2>4 DEF StructureInv
<1>2. CASE ContextStarts(s)
  <2>1. /\ count'["contexts"] = count["contexts"] + 1
        /\ ctx' = [ctx EXCEPT ![s] = [pc |-> "identifying", book |-> None, value |-> None,
                                      build |-> count["contexts"] + 1]]
        /\ UNCHANGED <<docVars, cacheVars, lastBook, lastRev, kept, knowledge>>
      BY <1>2 DEF StructureInv, Types, ContextStarts, Once, Call
  <2>2. Types'
      BY <1>2, <2>1 DEF StructureInv, Types, ContextStarts, Once, Phases, docVars, cacheVars, knowledge
  <2>3. CacheFresh' /\ CallFresh'
      BY <2>1, SMT DEF StructureInv, Types, CacheFresh, CallFresh, docVars, cacheVars, knowledge
  <2>4. Numbered'
      BY <2>1, SMT DEF StructureInv, Types, Numbered, Waiting, cacheVars
  <2>5. Noted' /\ ContextSeesAnnounced'
      BY <2>1 DEF StructureInv, Noted, ContextSeesAnnounced, cacheVars, knowledge
  <2> QED BY <2>2, <2>3, <2>4, <2>5 DEF StructureInv
<1>3. CASE ContextTimesOut(s)
  <2>1. /\ ctx' = [ctx EXCEPT ![s] = NoCall]
        /\ UNCHANGED <<docVars, cacheVars, lastBook, lastRev, kept, count, knowledge>>
      BY <1>3 DEF ContextTimesOut, CallOver
  <2>2. Types'
      BY <2>1 DEF StructureInv, Types, NoCall, Phases, docVars, cacheVars, knowledge
  <2>3. CacheFresh' /\ CallFresh'
      BY <2>1, SMT DEF StructureInv, Types, CacheFresh, CallFresh, NoCall, docVars, cacheVars, knowledge
  <2>4. Numbered'
      BY <2>1, SMT DEF StructureInv, Types, Numbered, Waiting, NoCall, cacheVars
  <2>5. Noted' /\ ContextSeesAnnounced'
      BY <2>1 DEF StructureInv, Noted, ContextSeesAnnounced, cacheVars, knowledge
  <2> QED BY <2>2, <2>3, <2>4, <2>5 DEF StructureInv
<1>4. CASE ContextInjected(s)
  <2> DEFINE b == ctx[s].book
  <2>1. /\ ctx[s].pc = "got"
        /\ ctx' = [ctx EXCEPT ![s] = NoCall]
        /\ lastBook' = [lastBook EXCEPT ![s] = b]
        /\ lastRev' = [lastRev EXCEPT ![s] = rev[b]]
        /\ kept' = [kept EXCEPT ![s] = TRUE]
        /\ known' = [known EXCEPT ![s] = ctx[s].value]
        /\ UNCHANGED <<docVars, cacheVars, count, announced, racing>>
      BY <1>4 DEF ContextInjected, CallOver
  <2>2. b \in Books /\ ctx[s].value \in Overview
        /\ (ctx[s].value.of \notin racing => ctx[s].value.shows >= announced[b])
      BY <2>1 DEF StructureInv, CallFresh
  <2>3. Types'
      BY <2>1, <2>2 DEF StructureInv, Types, NoCall, Phases, docVars, cacheVars
  <2>4. CacheFresh' /\ CallFresh'
      BY <2>1, SMT DEF StructureInv, Types, CacheFresh, CallFresh, NoCall, docVars, cacheVars
  <2>5. Numbered'
      BY <2>1, SMT DEF StructureInv, Types, Numbered, Waiting, NoCall, cacheVars
  <2>6. Noted' /\ ContextSeesAnnounced'
      BY <2>1, <2>2, SMT DEF StructureInv, Types, Noted, ContextSeesAnnounced, cacheVars
  <2> QED BY <2>3, <2>4, <2>5, <2>6 DEF StructureInv
<1> QED BY <1>1, <1>2, <1>3, <1>4

\* A session that finds nothing to refresh has noted the workbook's revision
\* before, or never injected an overview; one that does takes the cached
\* overview or has one built under its call's number.
LEMMA Identification ==
    ASSUME NEW s \in Sessions, StructureInv, ContextIdentified(s)
    PROVE  StructureInv'
<1> USE StructureAssumption
<1>1. PICK b \in {document, Unknown}, has \in BOOLEAN :
        IF NeedsRefresh(s, b, has)
        THEN GetBlueprint(s, b) /\ UNCHANGED <<lastBook, lastRev>>
        ELSE /\ CallOver(s)
             /\ lastBook' = [lastBook EXCEPT ![s] = b]
             /\ lastRev' = [lastRev EXCEPT ![s] = rev[b]]
             /\ UNCHANGED builds
    BY DEF ContextIdentified
<1>2. b \in Books
    BY DEF StructureInv, Types
<1>3. /\ ctx[s].pc = "identifying"
      /\ UNCHANGED <<docVars, cached, rev, kept, count, knowledge>>
    BY DEF ContextIdentified
<1>4. CASE ~NeedsRefresh(s, b, has)
  <2>1. /\ ctx' = [ctx EXCEPT ![s] = NoCall]
        /\ lastBook' = [lastBook EXCEPT ![s] = b]
        /\ lastRev' = [lastRev EXCEPT ![s] = rev[b]]
        /\ UNCHANGED builds
      BY <1>1, <1>4 DEF CallOver
  <2>2. lastBook[s] = None \/ (lastBook[s] = b /\ lastRev[s] = rev[b])
      BY <1>4 DEF NeedsRefresh
  <2>3. Types'
      BY <1>2, <1>3, <2>1 DEF StructureInv, Types, NoCall, Phases, docVars, knowledge
  <2>4. CacheFresh' /\ CallFresh'
      BY <1>3, <2>1, SMT DEF StructureInv, Types, CacheFresh, CallFresh, NoCall, docVars, knowledge
  <2>5. Numbered'
      BY <1>3, <2>1, SMT DEF StructureInv, Types, Numbered, Waiting, NoCall
  <2>6. Noted' /\ ContextSeesAnnounced'
      BY <1>2, <1>3, <2>1, <2>2, SMT
      DEF StructureInv, Types, Noted, ContextSeesAnnounced, knowledge
  <2> QED BY <2>3, <2>4, <2>5, <2>6 DEF StructureInv
<1>5. CASE NeedsRefresh(s, b, has) /\ cached[b] # None
  <2>1. /\ ctx' = [ctx EXCEPT ![s] = [pc |-> "got", book |-> b, value |-> cached[b], build |-> 0]]
        /\ UNCHANGED <<builds, lastBook, lastRev>>
      BY <1>1, <1>5 DEF GetBlueprint, Call
  <2>2. Types'
      BY <1>2, <1>3, <2>1 DEF StructureInv, Types, Phases, docVars, knowledge
  <2>3. CacheFresh' /\ CallFresh'
      BY <1>2, <1>3, <1>5, <2>1, SMT
      DEF StructureInv, Types, CacheFresh, CallFresh, docVars, knowledge
  <2>4. Numbered'
      BY <1>3, <2>1, SMT DEF StructureInv, Types, Numbered, Waiting
  <2>5. Noted' /\ ContextSeesAnnounced'
      BY <1>3, <2>1 DEF StructureInv, Noted, ContextSeesAnnounced, knowledge
  <2> QED BY <2>2, <2>3, <2>4, <2>5 DEF StructureInv
<1>6. CASE NeedsRefresh(s, b, has) /\ cached[b] = None
  <2> DEFINE x == [id |-> ctx[s].build, book |-> b, read |-> structure]
  <2>1. /\ ctx' = [ctx EXCEPT ![s] = [pc |-> "building", book |-> b, value |-> None,
                                      build |-> ctx[s].build]]
        /\ builds' = builds \cup {x}
        /\ UNCHANGED <<lastBook, lastRev>>
      BY <1>1, <1>6 DEF GetBlueprint, Call
  <2>2. Types'
      BY <1>2, <1>3, <2>1 DEF StructureInv, Types, Phases, docVars, knowledge
  <2>3. CacheFresh' /\ CallFresh'
      BY <1>2, <1>3, <2>1, SMT
      DEF StructureInv, Types, CacheFresh, CallFresh, docVars, knowledge
  <2>4. Numbered'
    <3>1. ctx[s].build <= count["contexts"] /\ ctx[s].build \in Nat
        BY DEF StructureInv, Types, Numbered
    <3>2. \A y \in builds' : y.id <= count'["contexts"]
        BY <1>3, <2>1, <3>1 DEF StructureInv, Numbered
    <3>3. /\ \A t \in Sessions : ctx'[t].build <= count'["contexts"]
          /\ \A t \in Sessions : Waiting(t)' => Waiting(t) /\ ctx'[t].build = ctx[t].build
        BY <1>3, <2>1, <3>1 DEF StructureInv, Types, Numbered, Waiting
    <3>4. \A t, u \in Sessions : Waiting(t)' /\ Waiting(u)' /\ t # u
                                 => ctx'[t].build # ctx'[u].build
        BY <3>3 DEF StructureInv, Numbered
    <3>5. ASSUME NEW t \in Sessions, NEW y \in builds', y.id = ctx'[t].build
          PROVE  /\ ctx'[t].pc # "identifying"
                 /\ ctx'[t].pc = "building" => y.book = ctx'[t].book
      <4>1. CASE t = s
          BY <1>3, <2>1, <3>5, <4>1 DEF StructureInv, Types, Numbered
      <4>2. CASE t # s /\ y \in builds
          BY <1>3, <2>1, <3>5, <4>2 DEF StructureInv, Types, Numbered
      <4>3. CASE t # s /\ y = x
          BY <1>3, <2>1, <3>5, <4>3 DEF StructureInv, Types, Numbered, Waiting
      <4> QED BY <2>1, <4>1, <4>2, <4>3
    <3> QED BY <3>2, <3>3, <3>4, <3>5 DEF Numbered
  <2>5. Noted' /\ ContextSeesAnnounced'
      BY <1>3, <2>1 DEF StructureInv, Noted, ContextSeesAnnounced, knowledge
  <2> QED BY <2>2, <2>3, <2>4, <2>5 DEF StructureInv
<1> QED BY <1>4, <1>5, <1>6

\* The invariant is inductive.
LEMMA NextInv == StructureInv /\ [Next]_vars => StructureInv'
<1> SUFFICES ASSUME StructureInv, [Next]_vars
             PROVE  StructureInv'
    OBVIOUS
<1>1. CASE \/ \E w \in Writes : WriteBegins(w) \/ WriteCommits(w)
           \/ ChangesUntold \/ Rename
    BY <1>1, DocumentSteps
<1>2. CASE \E w \in Writes : WriteTold(w)
    BY <1>2, Announcement
<1>3. CASE \E s \in Sessions : ReplaceSession(s) \/ ContextStarts(s)
                               \/ ContextTimesOut(s) \/ ContextInjected(s)
    BY <1>3, CallSteps
<1>4. CASE \E s \in Sessions : ContextIdentified(s)
    BY <1>4, Identification
<1>5. CASE \E x \in builds : BuildEnds(x)
    BY <1>5, EndOfBuild
<1>6. CASE UNCHANGED vars
    BY <1>6 DEF StructureInv, Types, CacheFresh, CallFresh, Waiting, Numbered, Noted,
        ContextSeesAnnounced, vars, docVars, cacheVars, contextVars, knowledge
<1> QED BY <1>1, <1>2, <1>3, <1>4, <1>5, <1>6 DEF Next, ContextStep

\* For every instance: an overview a session takes for current has every change
\* announced for its workbook, unless the announcement came while that overview
\* was being read or, handed to the model call, awaited its injection.  In those
\* two windows the code loses the announcement (context-injection.ts,
\* blueprint.ts).
THEOREM OverviewIsCurrent == Spec => []ContextSeesAnnounced
<1>1. StructureInv => ContextSeesAnnounced
    BY DEF StructureInv
<1> QED BY <1>1, InitInv, NextInv, PTL DEF Spec
=============================================================================
