-------------------------- MODULE StructureContext --------------------------
(***************************************************************************)
(* What the models are told of the workbook's structure: the overviews     *)
(* cached per workbook key (context/blueprint.ts), the injector of every   *)
(* agent that puts them before a model call                                *)
(* (taskpane/context-injection.ts, context-refresh-decision.ts), and the   *)
(* writes that make them stale (taskpane/init.ts: onWriteCommitted).       *)
(*                                                                         *)
(* Abstractions:                                                           *)
(*   - the structure of the open document is the number of changes made    *)
(*     to it; an overview is the number it shows, with the number of the   *)
(*     model call it was built for, and is never empty;                    *)
(*   - a write is a committed tool call with impact "structure", from any  *)
(*     tab; how it gets there is CoordinatedTools, whose theorem           *)
(*     ObserverIsTold says that onWriteCommitted hears of it;              *)
(*   - whether an agent's history still has an overview that was injected  *)
(*     is for the agent library and the compaction to say: it may be gone  *)
(*     at any call;                                                        *)
(*   - files, selection and the change tracker are left out.               *)
(***************************************************************************)
EXTENDS Naturals, FiniteSets

CONSTANTS
    Books,        \* workbook keys
    Unknown,      \* the key of a document without identity
    None,
    Sessions,     \* injectors, one per runtime
    Writes,       \* structural writes of tools
    MaxContexts,  \* bound: model calls
    MaxSilent,    \* bound: structural changes no tool write makes
    MaxReplaced,  \* bound: sessions replaced in a tab
    MaxRenames    \* bound: changes of the document's identity

ASSUME StructureAssumption ==
    /\ Unknown \in Books
    /\ None \notin Books \cup Nat
    /\ {MaxContexts, MaxSilent, MaxReplaced, MaxRenames} \subseteq Nat

VARIABLES
    document,   \* the key the open document has now
    write,      \* write[w]: where write w is, and the key in its context
    structure,  \* the structure of the open document
    cached,     \* blueprintCacheByWorkbook
    rev,        \* blueprintRevisionByWorkbook
    builds,     \* buildOverview calls in flight
    ctx,        \* ctx[s]: the injector call of s
    lastBook,   \* lastBook[s]: lastInjectedWorkbookId
    lastRev,    \* lastRev[s]: lastInjectedBlueprintRevision
    kept,       \* kept[s]: the history of s may have an injected overview
    count,      \* counts what the bounds are for
    known,      \* known[s]: the overview that s has injected last
    announced,  \* announced[b]: the structure at b's last invalidation
    racing      \* overviews that were on their way to a model call when a
                \* change was announced for their workbook

docVars == <<document, write, structure>>
cacheVars == <<cached, rev, builds>>
contextVars == <<ctx, lastBook, lastRev, kept>>
knowledge == <<known, announced, racing>>
vars == <<docVars, cacheVars, contextVars, count, knowledge>>

NoCall == [pc |-> "none", book |-> None, value |-> None, build |-> 0]

Bound == [contexts |-> MaxContexts, silent |-> MaxSilent,
          replaced |-> MaxReplaced, renames |-> MaxRenames]
Once(what) == count[what] < Bound[what] /\ count' = [count EXCEPT ![what] = @ + 1]

Init ==
    /\ document = Unknown
    /\ write = [w \in Writes |-> [pc |-> "idle", book |-> None]]
    /\ structure = 0
    /\ cached = [b \in Books |-> None]
    /\ rev = [b \in Books |-> 0]
    /\ builds = {}
    /\ ctx = [s \in Sessions |-> NoCall]
    /\ lastBook = [s \in Sessions |-> None]
    /\ lastRev = [s \in Sessions |-> 0]
    /\ kept \in [Sessions -> BOOLEAN]
    /\ count = [what \in DOMAIN Bound |-> 0]
    /\ known = [s \in Sessions |-> None]
    /\ announced = [b \in Books |-> 0]
    /\ racing = {}

-----------------------------------------------------------------------------
\* A write has asked for the identity of the document.
WriteBegins(w) ==
    /\ write[w].pc = "idle"
    /\ write' = [write EXCEPT ![w] = [pc |-> "begun", book |-> document]]
    /\ UNCHANGED <<document, structure, cacheVars, contextVars, count, knowledge>>

\* Its body changes the structure.
WriteCommits(w) ==
    /\ write[w].pc = "begun"
    /\ write' = [write EXCEPT ![w].pc = "committed"]
    /\ structure' = structure + 1
    /\ UNCHANGED <<document, cacheVars, contextVars, count, knowledge>>

\* Mutant of Invalidate: the revision is not bumped.
Invalidate_KeepsRevision(b) ==
    /\ cached' = [cached EXCEPT ![b] = None]
    /\ UNCHANGED rev

\* invalidateBlueprint
Invalidate(b) ==
    /\ cached' = [cached EXCEPT ![b] = None]
    /\ rev' = [rev EXCEPT ![b] = @ + 1]

\* The overviews of b being read, or handed to a call and not yet injected.
OnTheirWay(b) ==
    {x.id : x \in {y \in builds : y.book = b}} \cup
    {ctx[s].value.of : s \in {t \in Sessions : ctx[t].pc = "got" /\ ctx[t].book = b}}

\* onWriteCommitted, for the key the write had when it began.
WriteTold(w) ==
    LET b == write[w].book
    IN  /\ write[w].pc = "committed"
        /\ write' = [write EXCEPT ![w].pc = "told"]
        /\ Invalidate(b)
        /\ announced' = [announced EXCEPT ![b] = structure]
        /\ racing' = racing \cup OnTheirWay(b)
        /\ UNCHANGED <<document, structure, builds, contextVars, count, known>>

\* A restore, an operation of the bridge or the user changes the structure.
ChangesUntold ==
    /\ Once("silent")
    /\ structure' = structure + 1
    /\ UNCHANGED <<document, write, cacheVars, contextVars, knowledge>>

\* The document is saved under another name.
Rename ==
    /\ Once("renames")
    /\ \E b \in Books \ {document, Unknown} : document' = b
    /\ UNCHANGED <<write, structure, cacheVars, contextVars, knowledge>>

\* Another session in the tab has a history of its own; the injector stays.
ReplaceSession(s) ==
    /\ Once("replaced")
    /\ ctx[s] = NoCall
    /\ \E k \in BOOLEAN : kept' = [kept EXCEPT ![s] = k]
    /\ known' = [known EXCEPT ![s] = None]
    /\ UNCHANGED <<docVars, cacheVars, ctx, lastBook, lastRev, announced, racing>>

-----------------------------------------------------------------------------
Call(s, pc, b, v, n) ==
    ctx' = [ctx EXCEPT ![s] = [pc |-> pc, book |-> b, value |-> v, build |-> n]]
CallOver(s) == ctx' = [ctx EXCEPT ![s] = NoCall]

\* The injector is called for a model call of s.
ContextStarts(s) ==
    /\ Once("contexts")
    /\ ctx[s] = NoCall
    /\ Call(s, "identifying", None, None, count'["contexts"])
    /\ UNCHANGED <<docVars, cacheVars, lastBook, lastRev, kept, knowledge>>

\* decideWorkbookContextRefresh: whether an overview is to be injected.
NeedsRefresh(s, b, has) ==
    \/ lastBook[s] # None /\ (lastBook[s] # b \/ lastRev[s] # rev[b])
    \/ ~has

\* getBlueprint: the cached overview, or a new one is built.
GetBlueprint(s, b) ==
    IF cached[b] # None
    THEN Call(s, "got", b, cached[b], 0) /\ UNCHANGED builds
    ELSE /\ Call(s, "building", b, None, ctx[s].build)
         /\ builds' = builds \cup {[id |-> ctx[s].build, book |-> b, read |-> structure]}

\* The document's identity is known, or took too long: the unknown key.
ContextIdentified(s) ==
    /\ ctx[s].pc = "identifying"
    /\ \E b \in {document, Unknown}, has \in BOOLEAN :
          /\ has => kept[s]
          /\ IF NeedsRefresh(s, b, has)
             THEN GetBlueprint(s, b) /\ UNCHANGED <<lastBook, lastRev>>
             ELSE /\ CallOver(s)
                  /\ lastBook' = [lastBook EXCEPT ![s] = b]
                  /\ lastRev' = [lastRev EXCEPT ![s] = rev[b]]
                  /\ UNCHANGED builds
    /\ UNCHANGED <<docVars, cached, rev, kept, count, knowledge>>

\* An overview is built, of what the document was at some time since the call;
\* it is cached, also when its caller has given up.  Or it fails.
BuildEnds(x) ==
    /\ builds' = builds \ {x}
    /\ \/ \E v \in x.read .. structure :
             /\ cached' = [cached EXCEPT ![x.book] = [of |-> x.id, shows |-> v]]
             /\ rev' = [rev EXCEPT ![x.book] = @ + 1]
             /\ ctx' = [s \in Sessions |->
                           IF ctx[s].pc = "building" /\ ctx[s].build = x.id
                           THEN [ctx[s] EXCEPT !.pc = "got", !.value = cached'[x.book]]
                           ELSE ctx[s]]
       \/ /\ ctx' = [s \in Sessions |->
                        IF ctx[s].pc = "building" /\ ctx[s].build = x.id
                        THEN NoCall ELSE ctx[s]]
          /\ UNCHANGED <<cached, rev>>
    /\ UNCHANGED <<docVars, lastBook, lastRev, kept, count, knowledge>>

\* The model call goes out without an overview.
ContextTimesOut(s) ==
    /\ ctx[s].pc = "building"
    /\ CallOver(s)
    /\ UNCHANGED <<docVars, cacheVars, lastBook, lastRev, kept, count, knowledge>>

\* The overview is injected; the revision of this moment is noted.
ContextInjected(s) ==
    LET b == ctx[s].book
    IN  /\ ctx[s].pc = "got"
        /\ CallOver(s)
        /\ lastBook' = [lastBook EXCEPT ![s] = b]
        /\ lastRev' = [lastRev EXCEPT ![s] = rev[b]]
        /\ kept' = [kept EXCEPT ![s] = TRUE]
        /\ known' = [known EXCEPT ![s] = ctx[s].value]
        /\ UNCHANGED <<docVars, cacheVars, count, announced, racing>>

ContextStep(s) ==
    ContextStarts(s) \/ ContextIdentified(s) \/ ContextTimesOut(s) \/ ContextInjected(s)

Next ==
    \/ \E w \in Writes : WriteBegins(w) \/ WriteCommits(w) \/ WriteTold(w)
    \/ ChangesUntold
    \/ Rename
    \/ \E s \in Sessions : ReplaceSession(s) \/ ContextStep(s)
    \/ \E x \in builds : BuildEnds(x)

Spec == Init /\ [][Next]_vars

-----------------------------------------------------------------------------
(***************************************************************************)
(* A session that takes its overview for current, because the revision is  *)
(* the one it noted, was told of every structural change that a tool of    *)
(* any session announced for the workbook, whether the announcement came   *)
(* before that overview began to be read, while it was cached, or after it *)
(* was injected ("if this value changes for the active workbook, workbook  *)
(* structure context should be considered stale", blueprint.ts).  Two      *)
(* windows are left out, for there the code loses the announcement: while  *)
(* this overview was being read, and between its being handed to the call  *)
(* and its injection (racing; ContextSeesRacing).  A session that was      *)
(* handed none, its history having one of another session, is left out too.*)
(***************************************************************************)
ContextSeesAnnounced ==
    \A s \in Sessions : \A b \in Books :
        lastBook[s] = b /\ lastRev[s] = rev[b] /\ known[s] # None
            /\ known[s].of \notin racing
            => known[s].shows >= announced[b]

(***************************************************************************)
(* The same without the exemption.  The code does not keep this: an        *)
(* overview whose reading ends after the announcement is cached as if it   *)
(* were current (blueprint.ts: the build takes no note of the revision it  *)
(* began at), and the injector notes the revision at the injection and not *)
(* that of the overview (context-injection.ts).                            *)
(***************************************************************************)
ContextSeesRacing ==
    \A s \in Sessions : \A b \in Books :
        lastBook[s] = b /\ lastRev[s] = rev[b] /\ known[s] # None
            => known[s].shows >= announced[b]

(***************************************************************************)
(* The same of all changes to the structure.  The code does not keep this: *)
(* restores and operations of the bridge announce nothing, a write         *)
(* announces its change for the key the document had when the call began,  *)
(* and an overview that was being built is cached after its announcement.  *)
(***************************************************************************)
ContextSeesChanges ==
    \A s \in Sessions : \A b \in Books :
        lastBook[s] = b /\ b = document /\ lastRev[s] = rev[b] /\ known[s] # None
            => known[s].shows = structure
=============================================================================
