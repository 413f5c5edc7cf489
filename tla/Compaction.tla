----------------------------- MODULE Compaction -----------------------------
(***************************************************************************)
(* Compaction of a transcript: the planner (compaction/engine.ts), which   *)
(* chooses what stays verbatim, and runCompactCommand                      *)
(* (commands/builtins/export.ts), which summarizes and archives the rest   *)
(* and verifies that the new transcript fits the model's window.           *)
(*                                                                         *)
(* `input' is the part of the transcript behind the last summary.          *)
(*                                                                         *)
(* Abstractions:                                                           *)
(*   - a message is its role, the estimated size of its text (a tool       *)
(*     result's: of the result) and that of its tool calls' arguments and  *)
(*     its thinking; small numbers stand for tokens;                       *)
(*   - trims are their effect on these sizes: thinking blocks (level 3)    *)
(*     go with the arguments of tool calls (level 2), images with the      *)
(*     results they are part of (level 1);                                 *)
(*   - the other calls of the summarizer's retry policy, and a model or a  *)
(*     key that is missing, are part of its failure;                       *)
(*   - system prompt and tools are part of the window; archived messages   *)
(*     are not sent.                                                       *)
(***************************************************************************)
EXTENDS Naturals, Sequences, SequencesExt, FiniteSetsExt

CONSTANTS
    MaxLength,     \* bound: length of the input
    Sizes,         \* sizes of texts and results in the input
    CallSizes,     \* sizes of arguments and thinking of assistant messages
    Preview,       \* size of a previewed tool result or of truncated arguments
    TextMax,       \* USER_TEXT_MAX_CHARS
    VerbosePairs,  \* DEFAULT_KEEP_VERBOSE_PAIRS
    Budget,        \* keptBudgetTokens
    KeepRecent,    \* keepRecentTokens of the first plan
    Floor,         \* MIN_KEEP_RECENT_TOKENS
    Window,        \* contextWindow - reserveTokens
    SummarySizes   \* sizes a summary may have

ASSUME CompactionAssumption ==
    /\ {MaxLength, Preview, TextMax, VerbosePairs, Floor} \subseteq Nat \ {0}
    /\ {Budget, KeepRecent, Window} \subseteq Nat
    /\ Sizes \subseteq Nat \ {0} /\ CallSizes \cup SummarySizes \subseteq Nat
    /\ Floor <= KeepRecent

VARIABLES
    input,     \* the messages behind the last summary
    phase,     \* "planning", "planned", "summarizing", "verifying" or "done"
    keep,      \* keepRecent, in halves of a token: it is halved from plan to
               \* plan, rounding down but where the second plan starts
    cut,       \* cutIndex of the last plan
    kept,      \* the kept tail of the last plan
    escalated, \* the second plan, after a transcript that did not fit
    tries,     \* calls of the summarizer
    archived,  \* how many messages of the input were summarized and archived
    summary,   \* size of the transcript's summary; 0: none
    outcome    \* "none", "nothing-to-compact", "tail-trimmed", "summarized",
               \* "failed"

compactionVars == <<input, phase, keep, cut, kept, escalated, tries, archived, summary, outcome>>

Roles == {"user", "assistant", "toolResult"}
IsTurnStart(m) == m.role # "toolResult"
\* A transcript begins with a message of the user or, behind a summary, with
\* the first message of a kept tail; tool results follow their calls.
Inputs ==
    {s \in BoundedSeq([role : Roles, text : Sizes, calls : {0}]
                       \cup [role : {"assistant"}, text : Sizes, calls : CallSizes], MaxLength) :
        /\ s # <<>> /\ IsTurnStart(s[1])
        /\ \A i \in 2..Len(s) : s[i].role = "toolResult" => s[i-1].role # "user"}

Size(m) == m.text + m.calls
Total(s) ==
    LET sum[n \in 0..Len(s)] == IF n = 0 THEN 0 ELSE sum[n - 1] + Size(s[n])
    IN  sum[Len(s)]
From(s, i) == SubSeq(s, i, Len(s))
Smaller(n, limit) == IF n < limit THEN n ELSE limit
ShortText(m, limit) == [m EXCEPT !.text = Smaller(@, limit)]
ShortCalls(m, limit) == [m EXCEPT !.calls = Smaller(@, limit)]
\* m is n, trimmed in place.
TrimOf(m, n) == m.role = n.role /\ m.text <= n.text /\ m.calls <= n.calls

-----------------------------------------------------------------------------
\* Mutant of SelectCut: the cut is where the budget is reached.
SelectCut_Anywhere(s, recent) ==
    LET reached == {i \in DOMAIN s : 2 * Total(From(s, i)) >= recent}
    IN  IF reached = {} THEN 1 ELSE Max(reached)

\* selectCut: the turn start at or after the place where the recent budget is
\* reached, else the nearest one before it.
SelectCut(s, recent) ==
    LET reached == {i \in DOMAIN s : 2 * Total(From(s, i)) >= recent}
        starts == {i \in DOMAIN s : IsTurnStart(s[i])}
    IN  IF reached = {} THEN 1
        ELSE LET i == Max(reached)
             IN  IF \E j \in starts : j >= i
                 THEN Min({j \in starts : j >= i})
                 ELSE Max({j \in starts : j <= i} \cup {1})

\* shapeToolResultsForLlm: all but the last n tool results become previews.
Shaped(s, n) ==
    [i \in DOMAIN s |->
        IF s[i].role = "toolResult"
           /\ Cardinality({j \in DOMAIN s : j > i /\ s[j].role = "toolResult"}) >= n
        THEN ShortText(s[i], Preview) ELSE s[i]]

\* Level 1: as many verbatim results as fit, at least one.
PreviewResults(s) ==
    LET fitting == {n \in 1..VerbosePairs : Total(Shaped(s, n)) <= Budget}
    IN  Shaped(s, IF fitting = {} THEN 1 ELSE Max(fitting))

\* Levels 2 and 3: arguments of tool calls, thinking.
TruncateCalls(s) ==
    [i \in DOMAIN s |-> IF s[i].role = "assistant" THEN ShortCalls(s[i], Preview) ELSE s[i]]

\* Level 4, dropOldestTurnsToFit: turn after turn, but never the last one.
DropOldestTurns(s) ==
    LET starts == {1} \cup {i \in DOMAIN s : IsTurnStart(s[i])}
        enough == {i \in starts : Total(From(s, i)) <= Budget}
    IN  From(s, IF enough = {} THEN Max(starts) ELSE Min(enough))

\* Level 5
TruncateText(s) ==
    [i \in DOMAIN s |-> IF IsTurnStart(s[i]) THEN ShortText(s[i], TextMax) ELSE s[i]]

Fits(s) == Total(s) <= Budget

\* Mutant of PlanKeptTail: turns are dropped before calls are truncated.
PlanKeptTail_DropsFirst(s) ==
    LET s1 == PreviewResults(s)
        s2 == DropOldestTurns(s1)
        s3 == TruncateCalls(s2)
    IN  IF Fits(s) THEN s
        ELSE IF Fits(s1) THEN s1
        ELSE IF Fits(s2) THEN s2
        ELSE IF Fits(s3) THEN s3 ELSE TruncateText(s3)

\* planKeptTail: each level only if those before it did not do.
PlanKeptTail(s) ==
    LET s1 == PreviewResults(s)
        s2 == TruncateCalls(s1)
        s3 == DropOldestTurns(s2)
    IN  IF Fits(s) THEN s
        ELSE IF Fits(s1) THEN s1
        ELSE IF Fits(s2) THEN s2
        ELSE IF Fits(s3) THEN s3 ELSE TruncateText(s3)

-----------------------------------------------------------------------------
\* A transcript that runCompactCommand does not refuse for being too short.
CompactionInit ==
    /\ input \in Inputs
    /\ summary \in {0} \cup SummarySizes
    /\ Len(input) >= IF summary = 0 THEN 4 ELSE 3
    /\ phase = "planning" /\ keep = 2 * KeepRecent /\ escalated = FALSE
    /\ cut = 1 /\ kept = <<>> /\ tries = 0 /\ archived = 0
    /\ outcome = "none"

\* One round of planCompaction; another with half of `keep' if the tail does
\* not fit.
Plan ==
    /\ phase = "planning"
    /\ LET c == SelectCut(input, keep)
           tail == PlanKeptTail(From(input, c))
       IN  /\ cut' = c
           /\ kept' = tail
           /\ IF Fits(tail) \/ keep <= 2 * Floor
              THEN /\ phase' = IF escalated THEN "verifying" ELSE "planned"
                   /\ UNCHANGED keep
              ELSE /\ keep' = Max({2 * Floor, 2 * (keep \div 4)})
                   /\ UNCHANGED phase
    /\ UNCHANGED <<input, escalated, tries, archived, summary, outcome>>

Ends(o) == phase' = "done" /\ outcome' = o

\* No turn has been dropped and no result shortened; whether arguments of
\* calls, thinking or text have been is not asked.
Untrimmed ==
    /\ Len(kept) = Len(input)
    /\ \A i \in DOMAIN input : input[i].role = "toolResult" => kept[i] = input[i]

\* Nothing lies before the cut: there is nothing to do, or the trimmed tail is
\* committed, without the summary that was before it, or it does not fit.
NothingOlder ==
    /\ phase = "planned" /\ cut = 1
    /\ \/ /\ Total(kept) <= Window /\ Fits(kept) /\ Untrimmed
          /\ Ends("nothing-to-compact")
          /\ UNCHANGED summary
       \/ /\ Total(kept) <= Window /\ ~(Fits(kept) /\ Untrimmed)
          /\ Ends("tail-trimmed")
          /\ summary' = 0
       \/ /\ Total(kept) > Window
          /\ Ends("failed")
          /\ UNCHANGED summary
    /\ UNCHANGED <<input, keep, cut, kept, escalated, tries, archived>>

SummarizeOlder ==
    /\ phase = "planned" /\ cut > 1
    /\ phase' = "summarizing"
    /\ UNCHANGED <<input, keep, cut, kept, escalated, tries, archived, summary, outcome>>

\* The summarizer answers, or fails; when its request was too long it is asked
\* once more with less text.
Summarizer ==
    /\ phase = "summarizing"
    /\ tries' = tries + 1
    /\ \/ /\ \E n \in SummarySizes : summary' = n
          /\ archived' = cut - 1
          /\ phase' = "verifying"
          /\ UNCHANGED outcome
       \/ /\ Ends("failed")
          /\ UNCHANGED <<archived, summary>>
       \/ /\ tries = 0
          /\ UNCHANGED <<phase, archived, summary, outcome>>
    /\ UNCHANGED <<input, keep, cut, kept, escalated>>

\* The new transcript (archive, summary, kept tail) is committed if it fits.
\* If not, a second plan is made, for the same summary; then it fails.
Verify ==
    /\ phase = "verifying"
    /\ IF summary + Total(kept) <= Window
       THEN Ends("summarized") /\ UNCHANGED <<keep, escalated>>
       ELSE IF escalated
            THEN Ends("failed") /\ UNCHANGED <<keep, escalated>>
            ELSE /\ phase' = "planning"
                 /\ escalated' = TRUE
                 /\ keep' = Max({2 * Floor, KeepRecent})
                 /\ UNCHANGED outcome
    /\ UNCHANGED <<input, cut, kept, tries, archived, summary>>

CompactionNext == Plan \/ NothingOlder \/ SummarizeOlder \/ Summarizer \/ Verify

CompactionSpec == CompactionInit /\ [][CompactionNext]_compactionVars

-----------------------------------------------------------------------------
committed == outcome \in {"tail-trimmed", "summarized"}

(***************************************************************************)
(* A committed transcript goes on where the old one ended and never holds  *)
(* a tool result without its call: what is kept is the end of the input    *)
(* from some turn on, trimmed in place, and it fits the window             *)
(* (engine.ts:6, "the caller verifies the assembled transcript fits before *)
(* committing"; "Never a tool result"; "Preserves tool-call/result         *)
(* pairing").                                                              *)
(***************************************************************************)
CommittedIsTurnSuffix ==
    committed =>
        \E i \in DOMAIN input :
            /\ IsTurnStart(input[i])
            /\ Len(kept) = Len(input) - i + 1
            /\ \A j \in DOMAIN kept : TrimOf(kept[j], input[i + j - 1])
            /\ summary + Total(kept) <= Window

(***************************************************************************)
(* A turn is given up only as a last resort: whatever the halving of the   *)
(* recent budget, the cut and the levels of trimming have met, a turn      *)
(* behind the cut is missing from the plan only if what is left from it    *)
(* on would not fit the budget even with short arguments of calls and a    *)
(* single verbatim result.  This is what planKeptTail and                  *)
(* dropOldestTurnsToFit do.  It is less than their comments promise        *)
(* ("always keeps the latest user message and the latest                   *)
(* assistant+results cycle", engine.ts:217-219; also :268-271 and :329):   *)
(* the turn that is given up may be the user's latest, and only the very   *)
(* last turn is safe; see LatestUserKept.                                  *)
(***************************************************************************)
DropsOnlyToFit ==
    phase # "planning" =>
        \A k \in cut..Len(input) :
            IsTurnStart(input[k]) /\ Len(kept) < Len(input) - k + 1
                => ~Fits(TruncateCalls(Shaped(From(input, k), 1)))

(***************************************************************************)
(* "'Nothing to compact' cannot happen while over budget" (export.ts:556). *)
(* The code does not keep this: what was trimmed of the arguments of calls *)
(* or of thinking does not count as a change, and is not committed.        *)
(***************************************************************************)
NothingOnlyIfFits == outcome = "nothing-to-compact" => Fits(input)

(***************************************************************************)
(* A transcript that has a summary keeps one.  The code does not keep      *)
(* this: a tail that was only trimmed is committed without the summary in  *)
(* front of it.                                                            *)
(***************************************************************************)
SummaryStays == [][summary # 0 => summary' # 0]_compactionVars

(***************************************************************************)
(* What a summarizing compaction takes out of the transcript is archived.  *)
(* The code does not keep this: turns that the planner drops, and those    *)
(* between the first cut and that of the second plan, are not.             *)
(***************************************************************************)
NoTurnVanishes == outcome = "summarized" => archived + Len(kept) = Len(input)

(***************************************************************************)
(* "Always keeps the latest user message and the latest assistant+results  *)
(* cycle for the in-flight continuation" (engine.ts:217-219, the comment   *)
(* of dropOldestTurnsToFit).  The code does not keep this: the oldest kept *)
(* turn may be the latest one of the user.                                 *)
(***************************************************************************)
LatestUserKept ==
    committed /\ (\E i \in cut..Len(input) : input[i].role = "user")
        => \E j \in DOMAIN kept : kept[j].role = "user"
=============================================================================
