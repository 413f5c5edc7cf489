---------------------- MODULE QueueAndCompactionProofs ----------------------
(***************************************************************************)
(* What holds of a tab's queue (ActionQueue) and of a compaction, one of   *)
(* the commands it runs (Compaction).                                      *)
(*                                                                         *)
(* The queue, for all sets of prompts and commands and for every number of *)
(* retries.  That a prompt costs a bounded number of runs                  *)
(* (BoundedRecovery) and that its outcome stays in the transcript          *)
(* (OutcomeStaysVisible) rests on QueueInv, which follows a recovery       *)
(* through its awaits: each run after the first was paid for by a retry or *)
(* a compaction, and a failure that was dropped is held until the next run *)
(* begins.  That prompts are sent in the order of their submission         *)
(* (SentInTurn) rests on OrderInv, which knows that a prompt taken off the *)
(* queue was submitted before all that are still in it.                    *)
(*                                                                         *)
(* The compaction, for transcripts of every length and for all budgets: a  *)
(* tail that is planned is an end of the transcript from a turn on, each   *)
(* message trimmed in place, and no turn is missing from it that would     *)
(* have fitted (CompactionInv).  The cut and every level of trimming keep  *)
(* the first; the second holds as a plan that lacks a turn has been        *)
(* through the levels before, and as trimming commutes with taking an end  *)
(* (TrimmedEnds).                                                          *)
(***************************************************************************)
EXTENDS ActionQueue, Compaction, SequenceTheorems, FiniteSetTheorems, TLAPS

Recovering == step \in {"compacting", "backoff"}

\* The types of what the recovery uses.
RecoveryTypes ==
    /\ step \in {"idle", "waiting", "command", "guarding", "prompted",
                 "compacting", "backoff", "continued"}
    /\ tail \in {"request", "aborted"} \cup Failures \cup Answers
    /\ retries \in Nat /\ retries <= MaxRetries
    /\ compactions \in Nat /\ compactions <= 1
    /\ requests \in Nat

\* Runs are paid for.
Paid ==
    /\ step = "prompted" => requests = 1
    /\ Recovering => requests <= retries + compactions
    /\ step = "continued" => requests <= 1 + retries + compactions
    /\ requests <= 2 + MaxRetries

\* A failure is held exactly while it is out of the transcript and the next
\* run has not begun.
HeldBack ==
    /\ step = "compacting" => held \in Failures
    /\ ~Recovering => held = None

QueueInv == RecoveryTypes /\ Paid /\ HeldBack /\ OutcomeStaysVisible

-----------------------------------------------------------------------------
\* The loop goes on or ends.
LEMMA LoopOnType == ASSUME NEW q PROVE LoopOn(q) \in {"waiting", "idle"}
BY DEF LoopOn

\* What the recovery makes of a message keeps the invariant, if the budgets
\* and the runs so far do.
LEMMA RecoverInv ==
    ASSUME NEW m \in {"aborted"} \cup Failures \cup Answers,
           NEW r \in Nat, NEW c \in Nat, r <= MaxRetries, c <= 1,
           requests \in Nat, requests <= 1 + r + c,
           Recover(m, r, c), requests' = requests
    PROVE  QueueInv'
<1>1. MaxRetries \in Nat
    BY QueueAssumption
<1>2. CASE m \in Failures /\ ~Exhausted(m, r, c)
  <2>1. /\ tail' = "request" /\ held' = m
        /\ step' = IF m = "overflow" THEN "compacting" ELSE "backoff"
        /\ retries' = IF m = "transient" THEN r + 1 ELSE r
        /\ compactions' = IF m = "overflow" THEN c + 1 ELSE c
      BY <1>2 DEF Recover
  <2>2. (m = "overflow" /\ c = 0) \/ (m = "transient" /\ r < MaxRetries)
      BY <1>1, <1>2 DEF Exhausted, Failures
  <2>3. RecoveryTypes'
      BY <1>1, <2>1, <2>2 DEF RecoveryTypes
  <2>4. Paid'
      BY <1>1, <2>1, <2>2 DEF Paid, Recovering
  <2>5. HeldBack' /\ OutcomeStaysVisible'
      BY <1>2, <2>1 DEF HeldBack, Recovering, OutcomeStaysVisible
  <2> QED BY <2>3, <2>4, <2>5 DEF QueueInv
<1>3. CASE ~(m \in Failures /\ ~Exhausted(m, r, c))
  <2>1. /\ tail' = m /\ held' = None
        /\ step' \in {"waiting", "idle"}
        /\ retries' = r /\ compactions' = c
      BY <1>3, LoopOnType DEF Recover
  <2>2. m # "request"
      BY DEF Failures, Answers
  <2> QED BY <1>1, <2>1, <2>2
          DEF QueueInv, RecoveryTypes, Paid, Recovering, HeldBack, OutcomeStaysVisible
<1> QED BY <1>2, <1>3

\* The initial state satisfies the invariant.
LEMMA InitInv == Init => QueueInv
BY QueueAssumption
DEF Init, QueueInv, RecoveryTypes, Paid, Recovering, HeldBack, OutcomeStaysVisible,
    Failures, Answers

\* The end of a run keeps it.
LEMMA RunEndsInv == QueueInv /\ RunEnds => QueueInv'
<1> SUFFICES ASSUME QueueInv, RunEnds PROVE QueueInv'
    OBVIOUS
<1>1. PICK m \in IF aborting THEN {"aborted"} \cup Answers ELSE Failures \cup Answers :
         IF step = "continued" THEN Recover(m, retries, compactions)
         ELSE IF AutoCompact /\ ~closed THEN Recover(m, 0, 0)
         ELSE /\ tail' = m
              /\ step' = LoopOn(queue)
              /\ UNCHANGED <<held, retries, compactions, mustCompact>>
    BY DEF RunEnds
<1>2. m \in {"aborted"} \cup Failures \cup Answers
    OBVIOUS
<1>3. requests' = requests /\ step \in {"prompted", "continued"}
    BY DEF RunEnds, ghosts, Streaming
<1>4. CASE step = "continued"
  <2>1. /\ retries \in Nat /\ retries <= MaxRetries
        /\ compactions \in Nat /\ compactions <= 1
        /\ requests \in Nat /\ requests <= 1 + retries + compactions
      BY <1>4 DEF QueueInv, RecoveryTypes, Paid
  <2> QED BY <1>1, <1>2, <1>3, <1>4, <2>1, RecoverInv
<1>5. CASE step # "continued" /\ AutoCompact /\ ~closed
  <2>1. requests = 1
      BY <1>3, <1>5 DEF QueueInv, Paid
  <2>2. 0 <= MaxRetries
      BY QueueAssumption
  <2>3. Recover(m, 0, 0)
      BY <1>1, <1>5
  <2> QED BY <1>2, <1>3, <2>1, <2>2, <2>3, RecoverInv
<1>6. CASE step # "continued" /\ ~(AutoCompact /\ ~closed)
  <2>1. /\ tail' = m /\ step' \in {"waiting", "idle"}
        /\ UNCHANGED <<held, retries, compactions, requests>>
      BY <1>1, <1>3, <1>6, LoopOnType
  <2>2. m # "request"
      BY DEF Failures, Answers
  <2> QED BY <1>2, <1>3, <1>6, <2>1, <2>2
          DEF QueueInv, RecoveryTypes, Paid, Recovering, HeldBack, OutcomeStaysVisible
<1> QED BY <1>4, <1>5, <1>6

\* A prompt that is given to the agent, and a run that follows a recovery,
\* keep it.
LEMMA RunBegins == QueueInv /\ (GuardEnds \/ CompactionEnds \/ BackoffEnds) => QueueInv'
<1> SUFFICES ASSUME QueueInv, GuardEnds \/ CompactionEnds \/ BackoffEnds
             PROVE  QueueInv'
    OBVIOUS
<1>1. MaxRetries \in Nat
    BY QueueAssumption
<1> USE DEF QueueInv, RecoveryTypes, Paid, Recovering, HeldBack, OutcomeStaysVisible
<1>2. CASE GuardEnds
    BY <1>1, <1>2 DEF GuardEnds
<1>3. CASE CompactionEnds
  <2>1. /\ step = "compacting" /\ held \in Failures /\ held' = None
        /\ UNCHANGED <<retries, compactions>>
      BY <1>3 DEF CompactionEnds
  <2>2. CASE Continue /\ UNCHANGED tail
      BY <1>1, <2>1, <2>2 DEF Continue
  <2>3. CASE tail' = held /\ step' = LoopOn(queue) /\ UNCHANGED requests
    <3>1. step' \in {"waiting", "idle"}
        BY <2>3, LoopOnType
    <3>2. held # "request"
        BY <2>1 DEF Failures
    <3> QED BY <1>1, <2>1, <2>3, <3>1, <3>2
  <2> QED BY <1>3, <2>2, <2>3 DEF CompactionEnds
<1>4. CASE BackoffEnds
    BY <1>1, <1>4 DEF BackoffEnds, Continue
<1> QED BY <1>2, <1>3, <1>4

\* The steps around the runs keep it: what is submitted, taken back, taken up
\* and aborted, and the closing of the tab.
LEMMA QueueSteps ==
    QueueInv
    /\ (\/ \E a \in Actions : Enqueue(a)
        \/ TakeNext \/ CommandEnds \/ Escape \/ Stop \/ Restore \/ Shutdown)
    => QueueInv'
<1> SUFFICES ASSUME QueueInv,
                    \/ \E a \in Actions : Enqueue(a)
                    \/ TakeNext \/ CommandEnds \/ Escape \/ Stop \/ Restore \/ Shutdown
             PROVE  QueueInv'
    OBVIOUS
<1> USE DEF QueueInv, RecoveryTypes, Paid, Recovering, HeldBack, OutcomeStaysVisible
<1>1. CASE \E a \in Actions : Enqueue(a)
    BY <1>1 DEF Enqueue, runVars, ghosts
<1>2. CASE TakeNext
    BY <1>2 DEF TakeNext, runVars, ghosts
<1>3. CASE CommandEnds
    BY <1>3, LoopOnType DEF CommandEnds, runVars, ghosts
<1>4. CASE Escape \/ Stop \/ Shutdown
    BY <1>4 DEF Escape, Stop, Shutdown, queueVars, ghosts
<1>5. CASE Restore
    BY <1>5 DEF Restore, runVars
<1> QED BY <1>1, <1>2, <1>3, <1>4, <1>5

\* The invariant is inductive.
LEMMA NextInv == QueueInv /\ [Next]_vars => QueueInv'
<1>1. QueueInv /\ UNCHANGED vars => QueueInv'
    BY DEF QueueInv, RecoveryTypes, Paid, Recovering, HeldBack, OutcomeStaysVisible,
        vars, queueVars, runVars, ghosts
<1> QED BY <1>1, RunEndsInv, RunBegins, QueueSteps DEF Next, LoopStep

LEMMA QueueInvariant == Spec => []QueueInv
BY InitInv, NextInv, PTL DEF Spec

-----------------------------------------------------------------------------
\* However failures alternate, a prompt costs at most 2 + MaxRetries runs
\* (run-recovery.ts: "budgets are bounded"), for every retry policy.
THEOREM RecoveryIsBounded == Spec => []BoundedRecovery
<1>1. QueueInv => BoundedRecovery
    BY DEF QueueInv, Paid, BoundedRecovery
<1> QED BY <1>1, QueueInvariant, PTL

\* Whenever the loop works on no prompt, the transcript ends with an outcome,
\* also of a failure that a recovery had dropped (run-recovery.ts).
THEOREM OutcomesStay == Spec => []OutcomeStaysVisible
<1>1. QueueInv => OutcomeStaysVisible
    BY DEF QueueInv
<1> QED BY <1>1, QueueInvariant, PTL

-----------------------------------------------------------------------------
(***************************************************************************)
(* What CommandsOf returns, by induction over the length: the least number *)
(* for which it would not hold.                                            *)
(***************************************************************************)
LEMMA LeastExists ==
    ASSUME NEW N \in Nat, NEW S, S \subseteq 0..N, S # {}
    PROVE  \E x \in S : \A y \in S : x <= y
<1> DEFINE Bad == {T \in SUBSET S : T # {} /\ ~\E x \in T : \A y \in T : x <= y}
           R == StrictSubsetOrdering(S)
<1> SUFFICES ASSUME S \in Bad PROVE FALSE
  OBVIOUS
<1>0. IsFiniteSet(S)
  <2>1. 0 \in Int /\ N \in Int
    OBVIOUS
  <2>2. IsFiniteSet(0..N)
    BY <2>1, FS_Interval
  <2> QED
    BY <2>2, FS_Subset
<1>1. IsWellFoundedOn(R, SUBSET S)
  BY <1>0, FS_StrictSubsetOrderingWellFounded, FS_FiniteSubsetsOfFinite
<1>2. PICK T \in Bad : \A U \in Bad : <<U, T>> \notin R
  <2>1. Bad \subseteq SUBSET S /\ Bad # {}
    OBVIOUS
  <2> HIDE DEF Bad, R
  <2> QED
    BY <1>1, <2>1, WFMin
<1>3. PICK x \in T : x \in 0..N
  OBVIOUS
<1>4. T \ {x} \notin Bad
  <2>1. <<T \ {x}, T>> \in R
    BY <1>3 DEF StrictSubsetOrdering
  <2> HIDE DEF Bad, R
  <2> QED
    BY <1>2, <2>1
<1>5. CASE T \ {x} = {}
  BY <1>3, <1>5
<1>6. CASE T \ {x} # {}
  <2>1. PICK m \in T \ {x} : \A y \in T \ {x} : m <= y
    BY <1>4, <1>6
  <2>2. m \in 0..N /\ \A y \in T : y \in 0..N
    BY <2>1
  <2>3. CASE m <= x
    BY <2>1, <2>3
  <2>4. CASE ~(m <= x)
    <3>1. \A y \in T : x <= y
      BY <1>3, <2>1, <2>2, <2>4
    <3> QED
      BY <1>3, <3>1
  <2> QED
    BY <2>3, <2>4
<1> QED
  BY <1>5, <1>6

\* f is the commands among the first n members of s, in order.
Picked(f, s, n) ==
    Len(f) <= n /\ \E at \in [1..Len(f) -> 1..n] :
       /\ \A i, j \in 1..Len(f) : i < j => at[i] < at[j]
       /\ \A i \in 1..Len(f) : f[i] = s[at[i]] /\ s[at[i]] \in Commands
       /\ \A j \in 1..n : s[j] \in Commands => \E i \in 1..Len(f) : at[i] = j

LEMMA CommandsOfPicks ==
    ASSUME NEW s \in Seq(Actions)
    PROVE  CommandsOf(s) \in Seq(Actions) /\ Picked(CommandsOf(s), s, Len(s))
<1> DEFINE D(g, n) == IF n = 0 THEN <<>>
                      ELSE IF s[n] \in Commands THEN Append(g[n - 1], s[n]) ELSE g[n - 1]
           Picks(g, k) == g = [n \in 0..k |-> D(g, n)]
           picks == CHOOSE g : Picks(g, Len(s))
<1>1. Len(s) \in Nat /\ \A i \in 1..Len(s) : s[i] \in Actions
  OBVIOUS
<1>2. CommandsOf(s) = picks[Len(s)]
  BY DEF CommandsOf
<1>3. \E g : Picks(g, Len(s))
  <2> DEFINE Bad == {k \in 0..Len(s) : ~\E g : Picks(g, k)}
  <2> SUFFICES ASSUME Bad # {} PROVE FALSE
    <3>1. Len(s) \in 0..Len(s)
      BY <1>1
    <3> HIDE DEF Picks
    <3> QED
      BY <3>1
  <2>1. PICK k \in Bad : \A l \in Bad : k <= l
    <3>1. Bad \subseteq 0..Len(s)
      OBVIOUS
    <3> HIDE DEF Bad
    <3> QED
      BY <1>1, <3>1, LeastExists
  <2>2. CASE k = 0
    <3>1. Picks([n \in 0..0 |-> <<>>], 0)
      OBVIOUS
    <3> QED
      BY <2>1, <2>2, <3>1
  <2>3. CASE k # 0
    <3>1. k \in 1..Len(s) /\ k - 1 \in 0..Len(s)
      BY <1>1, <2>1, <2>3
    <3>2. k - 1 \notin Bad
      <4> HIDE DEF Bad
      <4> QED
        BY <1>1, <2>1, <3>1
    <3>3. PICK g : Picks(g, k - 1)
      BY <3>1, <3>2
    <3> DEFINE h == [n \in 0..k |-> D(g, n)]
    <3>4. \A n \in 0..(k - 1) : h[n] = g[n]
      <4> HIDE DEF D
      <4>1. \A n \in 0..(k - 1) : n \in 0..k
        BY <3>1
      <4> QED
        BY <3>3, <4>1
    <3>5. \A n \in 0..k : n = 0 \/ n - 1 \in 0..(k - 1)
      BY <3>1
    <3>6. \A n \in 0..k : D(g, n) = D(h, n)
      <4> HIDE DEF h
      <4> QED
        BY <3>4, <3>5
    <3>7. Picks(h, k)
      BY <3>6
    <3> QED
      BY <2>1, <3>7
  <2> QED
    BY <2>2, <2>3
<1>4. Picks(picks, Len(s))
  <2> HIDE DEF Picks
  <2> QED
    BY <1>3
<1> HIDE DEF picks
<1>5. /\ picks[0] = <<>>
      /\ \A n \in 1..Len(s) : picks[n] = IF s[n] \in Commands
                                        THEN Append(picks[n - 1], s[n]) ELSE picks[n - 1]
  <2>1. \A n \in 0..Len(s) : picks[n] = D(picks, n)
    <3> HIDE DEF D
    <3> QED
      BY <1>4
  <2> QED
    BY <1>1, <2>1
<1> HIDE DEF D, Picks
<1>6. ASSUME NEW n \in 1..Len(s), picks[n - 1] \in Seq(Actions), Picked(picks[n - 1], s, n - 1)
      PROVE  picks[n] \in Seq(Actions) /\ Picked(picks[n], s, n)
  <2> DEFINE f == picks[n - 1]
  <2>1. PICK at \in [1..Len(f) -> 1..(n - 1)] :
           /\ \A i, j \in 1..Len(f) : i < j => at[i] < at[j]
           /\ \A i \in 1..Len(f) : f[i] = s[at[i]] /\ s[at[i]] \in Commands
           /\ \A j \in 1..(n - 1) : s[j] \in Commands => \E i \in 1..Len(f) : at[i] = j
    BY <1>6 DEF Picked
  <2>2. Len(f) \in Nat /\ n \in Nat /\ n > 0 /\ s[n] \in Actions /\ Len(f) <= n - 1
        /\ \A j \in 1..n : j \in 1..(n - 1) \/ j = n
    BY <1>1, <1>6 DEF Picked
  <2>3. CASE s[n] \notin Commands
    <3>1. picks[n] = f
      BY <1>5, <2>3
    <3>2. at \in [1..Len(f) -> 1..n]
      BY <2>1, <2>2
    <3>3. \A j \in 1..n : s[j] \in Commands => \E i \in 1..Len(f) : at[i] = j
      BY <2>1, <2>2, <2>3
    <3> HIDE DEF f
    <3>4. Picked(f, s, n)
      BY <2>1, <2>2, <3>2, <3>3 DEF Picked
    <3> QED
      BY <1>6, <3>1, <3>4 DEF f
  <2>4. CASE s[n] \in Commands
    <3> DEFINE h == Append(f, s[n])
               to == [i \in 1..(Len(f) + 1) |-> IF i = Len(f) + 1 THEN n ELSE at[i]]
    <3>1. picks[n] = h
      BY <1>5, <2>4
    <3>2. f \in Seq(Actions)
      BY <1>6
    <3> HIDE DEF f
    <3>3. /\ h \in Seq(Actions) /\ Len(h) = Len(f) + 1 /\ h[Len(f) + 1] = s[n]
          /\ \A i \in 1..Len(f) : h[i] = f[i]
          /\ \A i \in 1..Len(h) : i \in 1..Len(f) \/ i = Len(f) + 1
      BY <2>2, <3>2
    <3> HIDE DEF h
    <3>4. \A i \in 1..Len(f) : to[i] = at[i] /\ at[i] \in 1..(n - 1)
      <4>1. \A i \in 1..Len(f) : i \in 1..(Len(f) + 1) /\ i # Len(f) + 1
        BY <2>2
      <4> QED
        BY <2>1, <4>1
    <3>5. to[Len(f) + 1] = n
      BY <2>2
    <3>6. to \in [1..Len(h) -> 1..n]
      BY <2>2, <3>3, <3>4
    <3> HIDE DEF to
    <3>7. \A i, j \in 1..Len(h) : i < j => to[i] < to[j]
      BY <2>1, <2>2, <3>3, <3>4, <3>5
    <3>8. \A i \in 1..Len(h) : h[i] = s[to[i]] /\ s[to[i]] \in Commands
      BY <2>1, <2>4, <3>3, <3>4, <3>5
    <3>9. \A j \in 1..n : s[j] \in Commands => \E i \in 1..Len(h) : to[i] = j
      <4>1. Len(f) + 1 \in 1..Len(h) /\ \A i \in 1..Len(f) : i \in 1..Len(h)
        BY <2>2, <3>3
      <4> QED
        BY <2>1, <2>2, <3>4, <3>5, <4>1
    <3>10. Len(h) <= n
      BY <2>2, <3>3
    <3>11. Picked(h, s, n)
      BY <3>6, <3>7, <3>8, <3>9, <3>10 DEF Picked
    <3> QED
      BY <3>1, <3>3, <3>11
  <2> QED
    BY <2>3, <2>4
<1>7. picks[0] \in Seq(Actions) /\ Picked(picks[0], s, 0)
  <2>1. picks[0] \in Seq(Actions) /\ Len(picks[0]) = 0
    BY <1>5
  <2>2. [i \in 1..Len(picks[0]) |-> i] \in [1..Len(picks[0]) -> 1..0]
    BY <2>1
  <2> QED
    BY <2>1, <2>2 DEF Picked
<1>8. \A n \in 0..Len(s) : picks[n] \in Seq(Actions) /\ Picked(picks[n], s, n)
  <2> DEFINE Bad == {n \in 0..Len(s) : ~(picks[n] \in Seq(Actions) /\ Picked(picks[n], s, n))}
  <2> SUFFICES ASSUME Bad # {} PROVE FALSE
    OBVIOUS
  <2>1. PICK n \in Bad : \A l \in Bad : n <= l
    BY <1>1, LeastExists
  <2>2. n # 0
    BY <1>7, <2>1
  <2>3. n \in 1..Len(s) /\ n - 1 \in 0..Len(s) /\ n - 1 \notin Bad
    BY <1>1, <2>1, <2>2
  <2> QED
    BY <1>6, <2>1, <2>3
<1> QED
  BY <1>1, <1>2, <1>8

-----------------------------------------------------------------------------
(***************************************************************************)
(* The order of the queue.  At(a, i): a was the i-th action accepted.      *)
(***************************************************************************)
At(a, i) == i \in 1..Len(accepted) /\ accepted[i] = a
Accepted(a) == \E i \in 1..Len(accepted) : At(a, i)
Before(a, b) == \E i, j \in 1..Len(accepted) : At(a, i) /\ At(b, j) /\ i < j

\* The types of the rest of the state.
QueueTypes ==
    /\ accepted \in Seq(Actions) /\ queue \in Seq(Actions)
    /\ closed \in BOOLEAN /\ mustCompact \in BOOLEAN /\ aborting \in BOOLEAN
    /\ current \in Actions \cup {None}
    /\ held \in Failures \cup {None}
    /\ sent \subseteq Prompts /\ returned \subseteq Prompts
    /\ step = "guarding" => current \in Prompts

\* No action is accepted twice, and the queue keeps the order in which its
\* actions were accepted.
InOrder ==
    /\ \A i, j \in 1..Len(accepted) : accepted[i] = accepted[j] => i = j
    /\ \A i \in 1..Len(queue) : Accepted(queue[i])
    /\ \A i, j \in 1..Len(queue) : i < j => Before(queue[i], queue[j])

\* What was taken up came before what is queued, and what was sent before
\* what was taken up last.
TakenInOrder ==
    /\ current # None =>
         /\ Accepted(current)
         /\ \A i \in 1..Len(queue) : Before(current, queue[i])
    /\ \A p \in sent : /\ current # None
                       /\ Before(p, current) \/ (p = current /\ step # "guarding")

\* What was taken back is neither queued nor taken up.
ReturnedIsOut ==
    \A p \in returned : /\ Accepted(p)
                        /\ p # current
                        /\ \A i \in 1..Len(queue) : queue[i] # p

OrderInv == QueueTypes /\ InOrder /\ TakenInOrder /\ ReturnedIsOut

\* Initially nothing was accepted.
LEMMA InitOrderInv == Init => OrderInv
<1> SUFFICES ASSUME Init PROVE OrderInv
  OBVIOUS
<1>1. /\ accepted = <<>> /\ queue = <<>> /\ Len(accepted) = 0 /\ Len(queue) = 0
      /\ accepted \in Seq(Actions) /\ queue \in Seq(Actions)
  BY DEF Init
<1>2. QueueTypes
  BY <1>1 DEF Init, QueueTypes
<1>3. InOrder /\ TakenInOrder /\ ReturnedIsOut
  BY <1>1 DEF Init, InOrder, TakenInOrder, ReturnedIsOut
<1> QED BY <1>2, <1>3 DEF OrderInv

\* The order is one.
LEMMA BeforeDiffers ==
    ASSUME QueueTypes, InOrder, NEW a, NEW b, Before(a, b)
    PROVE  a # b
<1>1. Len(accepted) \in Nat
  BY DEF QueueTypes
<1> QED BY <1>1 DEF Before, At, InOrder

LEMMA BeforeTransitive ==
    ASSUME QueueTypes, InOrder, NEW a, NEW b, NEW c, Before(a, b), Before(b, c)
    PROVE  Before(a, c)
<1>1. Len(accepted) \in Nat
  BY DEF QueueTypes
<1>2. PICK i, j \in 1..Len(accepted) : At(a, i) /\ At(b, j) /\ i < j
  BY DEF Before
<1>3. PICK k, l \in 1..Len(accepted) : At(b, k) /\ At(c, l) /\ k < l
  BY DEF Before
<1>4. j = k
  BY <1>2, <1>3 DEF At, InOrder
<1>5. i < l
  BY <1>1, <1>2, <1>3, <1>4
<1> QED BY <1>2, <1>3, <1>5 DEF Before

\* Positions are those of the order.
LEMMA BeforeIsPosition ==
    ASSUME QueueTypes, InOrder, NEW a, NEW b, Before(a, b)
    PROVE  Position(a) < Position(b)
<1>1. DOMAIN accepted = 1..Len(accepted)
  BY DEF QueueTypes
<1>2. PICK i, j \in 1..Len(accepted) : At(a, i) /\ At(b, j) /\ i < j
  BY DEF Before
<1>3. Position(a) = i
  BY <1>1, <1>2 DEF Position, At, InOrder
<1>4. Position(b) = j
  BY <1>1, <1>2 DEF Position, At, InOrder
<1> QED BY <1>2, <1>3, <1>4

\* The commands of a queue in order are in order.
LEMMA CommandsInOrder ==
    ASSUME QueueTypes, InOrder
    PROVE  /\ CommandsOf(queue) \in Seq(Actions)
           /\ \A i \in 1..Len(CommandsOf(queue)) :
                 /\ CommandsOf(queue)[i] \in Commands
                 /\ \E k \in 1..Len(queue) : CommandsOf(queue)[i] = queue[k]
           /\ \A i, j \in 1..Len(CommandsOf(queue)) :
                 i < j => Before(CommandsOf(queue)[i], CommandsOf(queue)[j])
<1>1. queue \in Seq(Actions)
  BY DEF QueueTypes
<1>2. CommandsOf(queue) \in Seq(Actions) /\ Picked(CommandsOf(queue), queue, Len(queue))
  BY <1>1, CommandsOfPicks
<1> DEFINE f == CommandsOf(queue)
<1> HIDE DEF f
<1>3. PICK at \in [1..Len(f) -> 1..Len(queue)] :
         /\ \A i, j \in 1..Len(f) : i < j => at[i] < at[j]
         /\ \A i \in 1..Len(f) : f[i] = queue[at[i]] /\ queue[at[i]] \in Commands
  BY <1>2 DEF Picked, f
<1>4. \A i \in 1..Len(f) : f[i] \in Commands /\ at[i] \in 1..Len(queue) /\ f[i] = queue[at[i]]
  BY <1>3
<1>5. \A i, j \in 1..Len(f) : i < j => Before(f[i], f[j])
  BY <1>3, <1>4 DEF InOrder
<1>6. \A i \in 1..Len(f) : f[i] \in Commands /\ \E k \in 1..Len(queue) : f[i] = queue[k]
  BY <1>4
<1> QED BY <1>2, <1>5, <1>6 DEF f

-----------------------------------------------------------------------------
\* A step that takes no action up and accepts none: the queue shrinks to
\* some of its members, in order, and prompts that leave it may be taken back.
LEMMA QueueShrinks ==
    ASSUME OrderInv, UNCHANGED <<accepted, current, sent>>, QueueTypes',
           step' = "guarding" => step = "guarding",
           \A i \in 1..Len(queue') : \E k \in 1..Len(queue) : queue'[i] = queue[k],
           \A i, j \in 1..Len(queue') : i < j => Before(queue'[i], queue'[j]),
           \A p \in returned' \ returned :
              /\ \E k \in 1..Len(queue) : queue[k] = p
              /\ \A i \in 1..Len(queue') : queue'[i] # p
    PROVE  OrderInv'
<1>1. /\ \A a : Accepted(a)' <=> Accepted(a)
      /\ \A a, b : Before(a, b)' <=> Before(a, b)
  BY DEF Accepted, Before, At
<1>2. InOrder'
  BY <1>1 DEF OrderInv, InOrder
<1>3. TakenInOrder'
  BY <1>1 DEF OrderInv, TakenInOrder
<1>4. ReturnedIsOut'
  <2> SUFFICES ASSUME NEW p \in returned'
               PROVE  /\ Accepted(p)
                      /\ p # current
                      /\ \A i \in 1..Len(queue') : queue'[i] # p
    BY <1>1 DEF ReturnedIsOut
  <2>1. CASE p \in returned
    BY <2>1 DEF OrderInv, ReturnedIsOut
  <2>2. CASE p \notin returned
    <3>1. PICK k \in 1..Len(queue) : queue[k] = p
      BY <2>2
    <3>2. Accepted(p)
      BY <3>1 DEF OrderInv, InOrder
    <3>3. p # current
      <4>1. p \in Prompts /\ None \notin Prompts
        BY QueueAssumption DEF QueueTypes
      <4>2. current # None => Before(current, p)
        BY <3>1 DEF OrderInv, TakenInOrder
      <4> QED BY <4>1, <4>2, BeforeDiffers DEF OrderInv
    <3> QED BY <2>2, <3>2, <3>3
  <2> QED BY <2>1, <2>2
<1> QED BY <1>2, <1>3, <1>4 DEF OrderInv

\* An action is accepted behind all others.
LEMMA EnqueueOrder ==
    ASSUME OrderInv, NEW a \in Actions, Enqueue(a)
    PROVE  OrderInv'
<1>1. /\ accepted \in Seq(Actions) /\ queue \in Seq(Actions)
      /\ accepted' = Append(accepted, a) /\ queue' = Append(queue, a)
      /\ UNCHANGED <<closed, current, mustCompact, held, aborting, sent, returned>>
      /\ step' = "guarding" => step = "guarding"
  BY DEF Enqueue, OrderInv, QueueTypes, runVars, ghosts
<1>2. /\ Len(accepted) \in Nat /\ Len(accepted') = Len(accepted) + 1
      /\ \A i \in 1..Len(accepted) : accepted'[i] = accepted[i]
      /\ accepted'[Len(accepted) + 1] = a
      /\ \A i \in 1..Len(accepted') : i \in 1..Len(accepted) \/ i = Len(accepted) + 1
      /\ \A i \in 1..Len(accepted) : i \in 1..Len(accepted')
      /\ Len(accepted) + 1 \in 1..Len(accepted')
  BY <1>1
<1>3. /\ Len(queue) \in Nat /\ Len(queue') = Len(queue) + 1
      /\ \A i \in 1..Len(queue) : queue'[i] = queue[i]
      /\ queue'[Len(queue) + 1] = a
      /\ \A i \in 1..Len(queue') : i \in 1..Len(queue) \/ i = Len(queue) + 1
  BY <1>1
<1>4. \A i \in 1..Len(accepted) : accepted[i] # a
  BY <1>1 DEF Enqueue, ToSet
<1>5. /\ \A x : Accepted(x) => Accepted(x)'
      /\ \A x, y : Before(x, y) => Before(x, y)'
  BY <1>2 DEF Accepted, Before, At
<1>6. \A x : Accepted(x) => x # a /\ Before(x, a)'
  BY <1>2, <1>4 DEF Accepted, Before, At
<1>7. Accepted(a)'
  BY <1>2 DEF Accepted, At
<1>8. QueueTypes'
  BY <1>1 DEF OrderInv, QueueTypes
<1>9. InOrder'
  <2>1. \A i, j \in 1..Len(accepted') : accepted'[i] = accepted'[j] => i = j
    BY <1>2, <1>4 DEF OrderInv, InOrder
  <2>2. \A i \in 1..Len(queue') : Accepted(queue[i])'
    BY <1>3, <1>5, <1>7 DEF OrderInv, InOrder
  <2>3. \A i, j \in 1..Len(queue') : i < j => Before(queue[i], queue[j])'
    <3> SUFFICES ASSUME NEW i \in 1..Len(queue'), NEW j \in 1..Len(queue'), i < j
                 PROVE  Before(queue[i], queue[j])'
      OBVIOUS
    <3>1. i \in 1..Len(queue) /\ Accepted(queue[i]) /\ queue'[i] = queue[i]
      BY <1>3 DEF OrderInv, InOrder
    <3>2. CASE j \in 1..Len(queue)
      <4>1. Before(queue[i], queue[j]) /\ queue'[j] = queue[j]
        BY <1>3, <3>1, <3>2 DEF OrderInv, InOrder
      <4> QED BY <1>5, <3>1, <4>1
    <3>3. CASE j = Len(queue) + 1
      BY <1>3, <1>6, <3>1, <3>3
    <3> QED BY <1>3, <3>2, <3>3
  <2> QED BY <2>1, <2>2, <2>3 DEF InOrder
<1>10. TakenInOrder'
  <2>1. current # None => \A i \in 1..Len(queue') : Before(current, queue[i])'
    <3> SUFFICES ASSUME current # None, NEW i \in 1..Len(queue')
                 PROVE  Before(current, queue[i])'
      OBVIOUS
    <3>1. PICK c : c = current
      OBVIOUS
    <3>2. PICK x : x = queue'[i]
      OBVIOUS
    <3>3. Accepted(c) /\ \A k \in 1..Len(queue) : Before(c, queue[k])
      BY <3>1 DEF OrderInv, TakenInOrder
    <3>4. Before(c, x)'
      <4>1. CASE i \in 1..Len(queue)
        <5>1. Before(c, x)
          BY <1>3, <3>2, <3>3, <4>1
        <5> QED BY <1>5, <5>1
      <4>2. CASE i = Len(queue) + 1
        <5>1. x = a
          BY <1>3, <3>2, <4>2
        <5> QED BY <1>6, <3>3, <5>1
      <4> QED BY <1>3, <4>1, <4>2
    <3> QED BY <1>1, <3>1, <3>2, <3>4
  <2> QED BY <1>1, <1>5, <2>1 DEF OrderInv, TakenInOrder
<1>11. ReturnedIsOut'
  BY <1>1, <1>3, <1>5, <1>6 DEF OrderInv, ReturnedIsOut
<1> QED BY <1>8, <1>9, <1>10, <1>11 DEF OrderInv

\* The head of the queue is taken up: it came behind what was taken up before
\* it, and before what stays queued.
LEMMA TakeNextOrder ==
    ASSUME OrderInv, TakeNext
    PROVE  OrderInv'
<1>1. /\ queue \in Seq(Actions) /\ step = "waiting"
      /\ UNCHANGED <<accepted, closed, mustCompact, held, aborting, sent, returned>>
  BY DEF TakeNext, OrderInv, QueueTypes, runVars, ghosts
<1>2. /\ \A a : Accepted(a)' <=> Accepted(a)
      /\ \A a, b : Before(a, b)' <=> Before(a, b)
  BY <1>1 DEF Accepted, Before, At
<1>3. CASE closed \/ queue = <<>>
  <2>1. UNCHANGED <<queue, current>> /\ step' = "idle"
    BY <1>3 DEF TakeNext
  <2>2. QueueTypes'
    BY <1>1, <2>1 DEF OrderInv, QueueTypes
  <2> QED BY <1>1, <1>2, <2>1, <2>2
          DEF OrderInv, InOrder, TakenInOrder, ReturnedIsOut
<1>4. CASE ~(closed \/ queue = <<>>)
  <2>1. /\ current' = Head(queue) /\ queue' = Tail(queue)
        /\ step' = IF Head(queue) \in Commands THEN "command" ELSE "guarding"
    BY <1>4 DEF TakeNext
  <2>2. /\ Len(queue) \in Nat \ {0} /\ current' = queue[1] /\ queue[1] \in Actions
        /\ queue' \in Seq(Actions) /\ Len(queue') = Len(queue) - 1
        /\ 1 \in 1..Len(queue)
        /\ \A i \in 1..Len(queue') : queue'[i] = queue[i + 1] /\ i + 1 \in 1..Len(queue)
    BY <1>1, <1>4, <2>1
  <2>3. QueueTypes'
    BY <1>1, <2>1, <2>2 DEF OrderInv, QueueTypes, Actions
  <2>4. \A i, j \in 1..Len(queue') : i < j => i + 1 < j + 1
    BY <2>2
  <2>5. InOrder'
    BY <1>1, <1>2, <2>2, <2>4 DEF OrderInv, InOrder
  <2>6. current' # None
    BY <2>2, QueueAssumption DEF Actions
  <2>7. Accepted(current') /\ \A i \in 1..Len(queue') : Before(current', queue'[i])
    BY <2>2 DEF OrderInv, InOrder
  <2>8. \A p \in sent : Before(p, current')
    <3> SUFFICES ASSUME NEW p \in sent PROVE Before(p, current')
      OBVIOUS
    <3>1. current # None /\ Before(current, current')
      BY <2>2 DEF OrderInv, TakenInOrder
    <3>2. CASE p = current
      BY <3>1, <3>2
    <3>3. CASE Before(p, current)
      BY <3>1, <3>3, BeforeTransitive DEF OrderInv
    <3> QED BY <3>2, <3>3 DEF OrderInv, TakenInOrder
  <2>9. TakenInOrder'
    BY <1>1, <1>2, <2>6, <2>7, <2>8 DEF TakenInOrder
  <2>10. ReturnedIsOut'
    BY <1>1, <1>2, <2>2 DEF OrderInv, ReturnedIsOut
  <2> QED BY <2>3, <2>5, <2>9, <2>10 DEF OrderInv
<1> QED BY <1>3, <1>4

\* The prompt that was taken up is sent.
LEMMA GuardEndsOrder ==
    ASSUME OrderInv, GuardEnds
    PROVE  OrderInv'
<1>1. /\ step = "guarding" /\ current \in Prompts
      /\ UNCHANGED <<accepted, queue, closed, current, held, returned>>
      /\ step' \in {"idle", "prompted"} /\ mustCompact' = FALSE
      /\ aborting' \in BOOLEAN
      /\ sent' = sent \/ sent' = sent \cup {current}
  BY DEF GuardEnds, OrderInv, QueueTypes
<1>2. /\ \A a : Accepted(a)' <=> Accepted(a)
      /\ \A a, b : Before(a, b)' <=> Before(a, b)
  BY <1>1 DEF Accepted, Before, At
<1>3. QueueTypes'
  BY <1>1 DEF OrderInv, QueueTypes
<1>4. current # None
  BY <1>1, QueueAssumption
<1>5. InOrder' /\ ReturnedIsOut'
  BY <1>1, <1>2 DEF OrderInv, InOrder, ReturnedIsOut
<1>6. TakenInOrder'
  BY <1>1, <1>2, <1>4 DEF OrderInv, TakenInOrder
<1> QED BY <1>3, <1>5, <1>6 DEF OrderInv

\* What the recovery makes of a message has the right types.
LEMMA RecoverTypes ==
    ASSUME OrderInv, NEW m, NEW r, NEW c, Recover(m, r, c)
    PROVE  held' \in Failures \cup {None} /\ mustCompact' \in BOOLEAN /\ step' # "guarding"
BY LoopOnType DEF Recover, OrderInv, QueueTypes

\* The other steps of the loop leave the queue alone.
LEMMA LoopOrder ==
    ASSUME OrderInv, CommandEnds \/ RunEnds \/ CompactionEnds \/ BackoffEnds
    PROVE  OrderInv'
<1>1. UNCHANGED <<accepted, queue, closed, current, sent, returned>>
  BY DEF CommandEnds, RunEnds, CompactionEnds, BackoffEnds, ghosts
<1>2. /\ step' # "guarding" /\ held' \in Failures \cup {None}
      /\ mustCompact' \in BOOLEAN /\ aborting' \in BOOLEAN
  <2>1. CASE CommandEnds
    BY <2>1, LoopOnType DEF CommandEnds, runVars, OrderInv, QueueTypes
  <2>2. CASE RunEnds
    <3>1. aborting' = aborting
      BY <2>2 DEF RunEnds
    <3>2. PICK m : \/ \E r, c : Recover(m, r, c)
                   \/ step' = LoopOn(queue) /\ UNCHANGED <<held, mustCompact>>
      BY <2>2 DEF RunEnds
    <3> QED BY <3>1, <3>2, RecoverTypes, LoopOnType DEF OrderInv, QueueTypes
  <2>3. CASE CompactionEnds \/ BackoffEnds
    BY <2>3, LoopOnType DEF CompactionEnds, BackoffEnds, Continue, OrderInv, QueueTypes
  <2> QED BY <2>1, <2>2, <2>3
<1>3. QueueTypes'
  BY <1>1, <1>2 DEF OrderInv, QueueTypes
<1>4. /\ \A a : Accepted(a)' <=> Accepted(a)
      /\ \A a, b : Before(a, b)' <=> Before(a, b)
  BY <1>1 DEF Accepted, Before, At
<1> QED BY <1>1, <1>2, <1>3, <1>4 DEF OrderInv, InOrder, TakenInOrder, ReturnedIsOut

\* The steps of the user shorten the queue, or leave it.
LEMMA UserOrder ==
    ASSUME OrderInv, Escape \/ Stop \/ Restore \/ Shutdown
    PROVE  OrderInv'
<1>0. queue \in Seq(Actions) /\ DOMAIN queue = 1..Len(queue)
  BY DEF OrderInv, QueueTypes
<1>1. CASE Escape \/ Shutdown
  <2>1. /\ queue' = <<>> /\ UNCHANGED <<accepted, step, current, mustCompact, held, sent>>
        /\ closed' \in BOOLEAN /\ aborting' \in BOOLEAN
        /\ \/ returned' = returned
           \/ returned' = returned \cup (ToSet(queue) \cap Prompts)
    BY <1>1 DEF Escape, Shutdown, ghosts, OrderInv, QueueTypes, Streaming
  <2>2. QueueTypes' /\ Len(queue') = 0
    BY <2>1 DEF OrderInv, QueueTypes
  <2>3. \A p \in returned' \ returned : \E k \in 1..Len(queue) : queue[k] = p
    BY <1>0, <2>1 DEF ToSet
  <2> QED BY <2>1, <2>2, <2>3, QueueShrinks
<1>2. CASE Restore
  <2>1. /\ queue' = CommandsOf(queue)
        /\ returned' = returned \cup (ToSet(queue) \cap Prompts)
        /\ UNCHANGED <<accepted, closed, current, mustCompact, held, aborting, sent>>
        /\ step' = "guarding" => step = "guarding"
    BY <1>2 DEF Restore, runVars
  <2>2. /\ queue' \in Seq(Actions)
        /\ \A i \in 1..Len(queue') : /\ queue'[i] \in Commands
                                     /\ \E k \in 1..Len(queue) : queue'[i] = queue[k]
        /\ \A i, j \in 1..Len(queue') : i < j => Before(queue'[i], queue'[j])
    BY <2>1, CommandsInOrder DEF OrderInv
  <2>3. QueueTypes'
    BY <2>1, <2>2 DEF OrderInv, QueueTypes
  <2>4. \A p \in returned' \ returned :
           p \in Prompts /\ \E k \in 1..Len(queue) : queue[k] = p
    BY <1>0, <2>1 DEF ToSet
  <2>5. \A p \in Prompts : p \notin Commands
    BY QueueAssumption
  <2> QED BY <2>1, <2>2, <2>3, <2>4, <2>5, QueueShrinks
<1>3. CASE Stop
  <2>1. /\ UNCHANGED <<accepted, queue, step, closed, current, mustCompact, held, sent, returned>>
        /\ aborting' \in BOOLEAN
    BY <1>3 DEF Stop, queueVars, ghosts
  <2>2. QueueTypes'
    BY <2>1 DEF OrderInv, QueueTypes
  <2> QED BY <2>1, <2>2, QueueShrinks DEF OrderInv, InOrder
<1> QED BY <1>1, <1>2, <1>3

\* Every step keeps the order.
LEMMA StepOrderInv == OrderInv /\ [Next]_vars => OrderInv'
<1> SUFFICES ASSUME OrderInv, [Next]_vars PROVE OrderInv'
  OBVIOUS
<1>1. CASE UNCHANGED vars
  <2>1. UNCHANGED <<accepted, queue, step, closed, current, mustCompact, held,
                    aborting, sent, returned>>
    BY <1>1 DEF vars, queueVars, runVars, ghosts
  <2>2. QueueTypes'
    BY <2>1 DEF OrderInv, QueueTypes
  <2> QED BY <2>1, <2>2, QueueShrinks DEF OrderInv, InOrder
<1> QED BY <1>1, EnqueueOrder, TakeNextOrder, GuardEndsOrder, LoopOrder, UserOrder
        DEF Next, LoopStep

LEMMA OrderInvariant == Spec => []OrderInv
BY InitOrderInv, StepOrderInv, PTL DEF Spec

\* The types of the whole state.
THEOREM QueueTypeCorrect == Spec => []QueueTypeOK
<1>1. QueueInv /\ OrderInv => QueueTypeOK
  <2> SUFFICES ASSUME QueueInv, OrderInv PROVE QueueTypeOK
    OBVIOUS
  <2>1. retries \in 0..MaxRetries /\ compactions \in 0..1
    BY QueueAssumption DEF QueueInv, RecoveryTypes
  <2> QED BY <2>1 DEF QueueInv, RecoveryTypes, OrderInv, QueueTypes, QueueTypeOK
<1> QED BY <1>1, QueueInvariant, OrderInvariant, PTL

\* Prompts are given to the agent one at a time, in the order they were
\* submitted, while it is idle and its tab open, and none that was taken back
\* (action-queue.ts: process), however submissions, failures and their
\* recovery, Esc, the restore shortcut and the closing of the tab interleave.
THEOREM PromptsAreSentInTurn == Spec => SentInTurn
<1> DEFINE InTurn == \A p \in sent' \ sent :
                       /\ ~closed /\ ~Streaming /\ held = None
                       /\ p \notin returned
                       /\ \A q \in sent : Position(q) < Position(p)
<1>1. QueueInv /\ OrderInv /\ [Next]_vars => InTurn
  <2> SUFFICES ASSUME QueueInv, OrderInv, [Next]_vars, NEW p \in sent' \ sent
               PROVE  /\ ~closed /\ ~Streaming /\ held = None
                      /\ p \notin returned
                      /\ \A q \in sent : Position(q) < Position(p)
    OBVIOUS
  <2>1. GuardEnds
    BY DEF Next, LoopStep, Enqueue, TakeNext, CommandEnds, RunEnds, CompactionEnds,
           BackoffEnds, Escape, Stop, Restore, Shutdown, vars, ghosts
  <2>2. step = "guarding" /\ ~closed /\ p = current
    BY <2>1 DEF GuardEnds
  <2>3. ~Streaming /\ held = None
    BY <2>2 DEF Streaming, QueueInv, HeldBack, Recovering
  <2>4. p \notin returned
    BY <2>2 DEF OrderInv, ReturnedIsOut
  <2>5. ASSUME NEW q \in sent PROVE Position(q) < Position(p)
    <3>1. Before(q, p)
      BY <2>2 DEF OrderInv, TakenInOrder
    <3> QED BY <3>1, BeforeIsPosition DEF OrderInv
  <2> QED BY <2>2, <2>3, <2>4, <2>5
<1> QED BY <1>1, QueueInvariant, OrderInvariant, PTL DEF Spec, SentInTurn

-----------------------------------------------------------------------------
(***************************************************************************)
(* Sequences of messages and what the levels of trimming make of them.     *)
(***************************************************************************)
Message == [role : Roles, text : Nat, calls : Nat]
Messages == Seq(Message)

\* t is s, each message trimmed in place.
Trims(t, s) ==
    /\ t \in Messages /\ Len(t) = Len(s)
    /\ \A j \in 1..Len(s) : TrimOf(t[j], s[j])

\* t is the end of s from the turn at i on, trimmed in place.
TrimsFrom(t, s, i) ==
    /\ i \in 1..Len(s) /\ IsTurnStart(s[i])
    /\ t \in Messages /\ Len(t) = Len(s) - i + 1
    /\ \A j \in 1..Len(t) : TrimOf(t[j], s[i + j - 1])

\* A transcript begins with a turn.
Transcript(s) == s \in Messages /\ s # <<>> /\ IsTurnStart(s[1])

LEMMA LenOf ==
    ASSUME NEW s \in Messages
    PROVE  /\ Len(s) \in Nat /\ DOMAIN s = 1..Len(s)
           /\ \A i \in 1..Len(s) : s[i] \in Message /\ s[i].role \in Roles /\ Size(s[i]) \in Nat
           /\ s # <<>> => Len(s) \in Nat \ {0}
<1>1. /\ Len(s) \in Nat /\ DOMAIN s = 1..Len(s)
      /\ \A i \in 1..Len(s) : s[i] \in Message
      /\ s # <<>> => Len(s) # 0
  BY DEF Messages
<1>2. \A m \in Message : m.role \in Roles /\ Size(m) \in Nat
  BY DEF Message, Size
<1> QED
  BY <1>1, <1>2

\* A function on 1..n is a sequence.
LEMMA IsMessages ==
    ASSUME NEW n \in Nat, NEW f \in [1..n -> Message]
    PROVE  f \in Messages /\ Len(f) = n
BY SeqDef DEF Messages

\* There is a largest member of a non-empty set of positions, and a smallest.
LEMMA MaxOf ==
    ASSUME NEW n \in Nat, NEW S, S \subseteq 1..n, S # {}
    PROVE  Max(S) \in S /\ \A y \in S : y <= Max(S)
<1> DEFINE T == {n - x : x \in S}
<1>1. T \subseteq 0..n /\ T # {}
  <2>1. \A x \in S : x \in 1..n /\ n - x \in 0..n
    OBVIOUS
  <2>2. PICK x \in S : TRUE
    OBVIOUS
  <2>3. n - x \in T
    OBVIOUS
  <2> QED
    BY <2>1, <2>3
<1>2. PICK z \in T : \A y \in T : z <= y
  <2> HIDE DEF T
  <2> QED
    BY <1>1, LeastExists
<1>3. PICK x \in S : z = n - x
  BY <1>2
<1>4. \A y \in S : x >= y
  <2> SUFFICES ASSUME NEW y \in S PROVE x >= y
    OBVIOUS
  <2>1. n - y \in T
    OBVIOUS
  <2>2. n - x <= n - y
    BY <1>2, <1>3, <2>1
  <2> QED
    BY <2>2
<1>5. Max(S) \in S /\ \A y \in S : Max(S) >= y
  BY <1>4 DEF Max
<1> QED
  BY <1>5

LEMMA MinOf ==
    ASSUME NEW n \in Nat, NEW S, S \subseteq 1..n, S # {}
    PROVE  Min(S) \in S /\ \A y \in S : Min(S) <= y
<1>1. S \subseteq 0..n
  OBVIOUS
<1>2. \E x \in S : \A y \in S : x <= y
  BY <1>1, LeastExists
<1> QED
  BY <1>2 DEF Min

\* The end of a sequence.
LEMMA FromOf ==
    ASSUME NEW s \in Messages, NEW i \in 1..Len(s)
    PROVE  /\ From(s, i) \in Messages /\ From(s, i) # <<>>
           /\ Len(From(s, i)) = Len(s) - i + 1
           /\ \A j \in 1..(Len(s) - i + 1) : From(s, i)[j] = s[i + j - 1]
<1>1. Len(s) \in Nat /\ \A j \in i..Len(s) : s[j] \in Message
  BY LenOf
<1>2. i \in Int /\ Len(s) \in Int /\ i <= Len(s)
  BY <1>1
<1>3. /\ From(s, i) \in Seq(Message)
      /\ Len(From(s, i)) = IF i <= Len(s) THEN Len(s) - i + 1 ELSE 0
      /\ \A j \in 1..(Len(s) - i + 1) : From(s, i)[j] = s[i + j - 1]
  BY <1>1, <1>2, SubSeqProperties DEF From
<1>4. From(s, i) # <<>>
  BY <1>2, <1>3
<1> QED
  BY <1>2, <1>3, <1>4 DEF Messages

LEMMA ShortOf ==
    ASSUME NEW m \in Message, NEW limit \in Nat
    PROVE  /\ ShortText(m, limit) \in Message /\ TrimOf(ShortText(m, limit), m)
           /\ ShortCalls(m, limit) \in Message /\ TrimOf(ShortCalls(m, limit), m)
           /\ TrimOf(m, m)
BY DEF ShortText, ShortCalls, TrimOf, Smaller, Message

LEMMA TrimOfTransitive ==
    ASSUME NEW m \in Message, NEW n \in Message, NEW o \in Message,
           TrimOf(n, m), TrimOf(o, n)
    PROVE  TrimOf(o, m)
BY DEF TrimOf, Message

LEMMA TrimOfRole ==
    ASSUME NEW m, NEW n, TrimOf(n, m)
    PROVE  n.role = m.role
BY DEF TrimOf

LEMMA TrimsTransitive ==
    ASSUME NEW s \in Messages, NEW t, NEW u, Trims(t, s), Trims(u, t)
    PROVE  Trims(u, s)
<1>1. Len(s) \in Nat /\ t \in Messages /\ u \in Messages /\ Len(t) = Len(s) /\ Len(u) = Len(t)
  BY LenOf DEF Trims
<1> SUFFICES ASSUME NEW j \in 1..Len(s)
             PROVE  TrimOf(u[j], s[j])
  BY <1>1 DEF Trims
<1>2. TrimOf(t[j], s[j]) /\ TrimOf(u[j], t[j])
  BY <1>1 DEF Trims
<1>3. u[j] \in Message /\ t[j] \in Message /\ s[j] \in Message
  BY <1>1, LenOf
<1> QED
  BY <1>2, <1>3, TrimOfTransitive

\* A trim of the end from a turn on, of what is itself such an end.
LEMMA TrimsFromTrims ==
    ASSUME NEW s \in Messages, NEW i, NEW t, NEW u, TrimsFrom(t, s, i), Trims(u, t)
    PROVE  TrimsFrom(u, s, i)
<1>1. Len(s) \in Nat /\ i \in 1..Len(s) /\ t \in Messages /\ u \in Messages
      /\ Len(t) = Len(s) - i + 1 /\ Len(u) = Len(t)
  BY LenOf DEF Trims, TrimsFrom
<1> SUFFICES ASSUME NEW j \in 1..Len(u)
             PROVE  TrimOf(u[j], s[i + j - 1])
  BY <1>1 DEF TrimsFrom
<1>2. TrimOf(t[j], s[i + j - 1]) /\ TrimOf(u[j], t[j])
  BY <1>1 DEF Trims, TrimsFrom
<1>3. i + j - 1 \in 1..Len(s) /\ j \in 1..Len(t)
  BY <1>1
<1>4. u[j] \in Message /\ t[j] \in Message /\ s[i + j - 1] \in Message
  BY <1>1, <1>3, LenOf
<1> QED
  BY <1>2, <1>4, TrimOfTransitive

\* Turns are dropped from the front of such an end.
LEMMA TrimsFromFrom ==
    ASSUME NEW s \in Messages, NEW i, NEW t, TrimsFrom(t, s, i),
           NEW k \in 1..Len(t), IsTurnStart(t[k])
    PROVE  TrimsFrom(From(t, k), s, i + k - 1)
<1>1. Len(s) \in Nat /\ i \in 1..Len(s) /\ t \in Messages /\ Len(t) = Len(s) - i + 1
  BY LenOf DEF TrimsFrom
<1>2. i + k - 1 \in 1..Len(s) /\ t[k].role = s[i + k - 1].role
  BY <1>1, TrimOfRole DEF TrimsFrom
<1>3. IsTurnStart(s[i + k - 1])
  BY <1>2 DEF IsTurnStart
<1>4. /\ From(t, k) \in Messages /\ Len(From(t, k)) = Len(t) - k + 1
      /\ \A j \in 1..(Len(t) - k + 1) : From(t, k)[j] = t[k + j - 1]
  BY <1>1, FromOf
<1>5. ASSUME NEW j \in 1..Len(From(t, k))
      PROVE  TrimOf(From(t, k)[j], s[(i + k - 1) + j - 1])
  <2>1. j \in 1..(Len(t) - k + 1) /\ k + j - 1 \in 1..Len(t)
    BY <1>1, <1>4
  <2>2. i + (k + j - 1) - 1 = (i + k - 1) + j - 1
    BY <1>1, <2>1
  <2>3. TrimOf(t[k + j - 1], s[i + (k + j - 1) - 1])
    BY <2>1 DEF TrimsFrom
  <2> QED
    BY <1>4, <2>1, <2>2, <2>3
<1>6. Len(From(t, k)) = Len(s) - (i + k - 1) + 1
  BY <1>1, <1>4
<1> QED
  BY <1>2, <1>3, <1>4, <1>5, <1>6 DEF TrimsFrom

-----------------------------------------------------------------------------
(***************************************************************************)
(* The levels of trimming, the cut and the planner.                        *)
(***************************************************************************)
LEMMA ShapedTrims ==
    ASSUME NEW s \in Messages, NEW n
    PROVE  Trims(Shaped(s, n), s)
<1> DEFINE C(i) == /\ s[i].role = "toolResult"
                   /\ Cardinality({j \in DOMAIN s : j > i /\ s[j].role = "toolResult"}) >= n
           t == [i \in 1..Len(s) |-> IF C(i) THEN ShortText(s[i], Preview) ELSE s[i]]
<1>1. Shaped(s, n) = t
  BY LenOf DEF Shaped
<1> HIDE DEF C
<1>2. Len(s) \in Nat /\ (\A i \in 1..Len(s) : s[i] \in Message) /\ Preview \in Nat
  BY LenOf, CompactionAssumption
<1>3. \A i \in 1..Len(s) :
         t[i] \in Message /\ TrimOf(t[i], s[i])
  <2> SUFFICES ASSUME NEW i \in 1..Len(s)
               PROVE  t[i] \in Message /\ TrimOf(t[i], s[i])
    OBVIOUS
  <2>1. s[i] \in Message /\ TrimOf(s[i], s[i])
    BY <1>2, ShortOf
  <2>2. t[i] \in {s[i], ShortText(s[i], Preview)}
    OBVIOUS
  <2>3. ShortText(s[i], Preview) \in Message /\ TrimOf(ShortText(s[i], Preview), s[i])
    BY <1>2, <2>1, ShortOf
  <2> HIDE DEF t
  <2> QED
    BY <2>1, <2>2, <2>3
<1>4. t \in [1..Len(s) -> Message]
  BY <1>3
<1> HIDE DEF t
<1> QED
  BY <1>1, <1>2, <1>3, <1>4, IsMessages DEF Trims

LEMMA TruncateCallsTrims ==
    ASSUME NEW s \in Messages
    PROVE  Trims(TruncateCalls(s), s)
<1> DEFINE t == [i \in 1..Len(s) |->
                    IF s[i].role = "assistant" THEN ShortCalls(s[i], Preview) ELSE s[i]]
<1>1. TruncateCalls(s) = t
  BY LenOf DEF TruncateCalls
<1>2. Len(s) \in Nat /\ (\A i \in 1..Len(s) : s[i] \in Message) /\ Preview \in Nat
  BY LenOf, CompactionAssumption
<1>3. \A i \in 1..Len(s) :
         t[i] \in Message /\ TrimOf(t[i], s[i])
  <2> SUFFICES ASSUME NEW i \in 1..Len(s)
               PROVE  t[i] \in Message /\ TrimOf(t[i], s[i])
    OBVIOUS
  <2>1. s[i] \in Message /\ TrimOf(s[i], s[i])
    BY <1>2, ShortOf
  <2>2. t[i] \in {s[i], ShortCalls(s[i], Preview)}
    OBVIOUS
  <2>3. ShortCalls(s[i], Preview) \in Message /\ TrimOf(ShortCalls(s[i], Preview), s[i])
    BY <1>2, <2>1, ShortOf
  <2> HIDE DEF t
  <2> QED
    BY <2>1, <2>2, <2>3
<1>4. t \in [1..Len(s) -> Message]
  BY <1>3
<1> HIDE DEF t
<1> QED
  BY <1>1, <1>2, <1>3, <1>4, IsMessages DEF Trims

LEMMA TruncateTextTrims ==
    ASSUME NEW s \in Messages
    PROVE  Trims(TruncateText(s), s)
<1> DEFINE t == [i \in 1..Len(s) |->
                    IF IsTurnStart(s[i]) THEN ShortText(s[i], TextMax) ELSE s[i]]
<1>1. TruncateText(s) = t
  BY LenOf DEF TruncateText
<1>2. Len(s) \in Nat /\ (\A i \in 1..Len(s) : s[i] \in Message) /\ TextMax \in Nat
  BY LenOf, CompactionAssumption
<1>3. \A i \in 1..Len(s) :
         t[i] \in Message /\ TrimOf(t[i], s[i])
  <2> SUFFICES ASSUME NEW i \in 1..Len(s)
               PROVE  t[i] \in Message /\ TrimOf(t[i], s[i])
    OBVIOUS
  <2>1. s[i] \in Message /\ TrimOf(s[i], s[i])
    BY <1>2, ShortOf
  <2>2. t[i] \in {s[i], ShortText(s[i], TextMax)}
    OBVIOUS
  <2>3. ShortText(s[i], TextMax) \in Message /\ TrimOf(ShortText(s[i], TextMax), s[i])
    BY <1>2, <2>1, ShortOf
  <2> HIDE DEF t
  <2> QED
    BY <2>1, <2>2, <2>3
<1>4. t \in [1..Len(s) -> Message]
  BY <1>3
<1> HIDE DEF t
<1> QED
  BY <1>1, <1>2, <1>3, <1>4, IsMessages DEF Trims

\* Turns at which DropOldestTurns may begin.
Turns(s) == {1} \cup {i \in DOMAIN s : IsTurnStart(s[i])}

LEMMA TurnsOf ==
    ASSUME NEW s, Transcript(s)
    PROVE  /\ Turns(s) # {} /\ Turns(s) \subseteq 1..Len(s)
           /\ \A i \in Turns(s) : IsTurnStart(s[i])
           /\ \A i \in 1..Len(s) : IsTurnStart(s[i]) => i \in Turns(s)
<1>1. Len(s) \in Nat \ {0} /\ DOMAIN s = 1..Len(s) /\ IsTurnStart(s[1])
  BY LenOf DEF Transcript
<1> QED
  BY <1>1 DEF Turns

\* What DropOldestTurns leaves: the turns from some turn on, where no earlier
\* one would have fitted.
LEMMA DropOldestTurnsOf ==
    ASSUME NEW s, Transcript(s)
    PROVE  \E k \in Turns(s) :
              /\ DropOldestTurns(s) = From(s, k)
              /\ \A i \in Turns(s) : i < k => ~Fits(From(s, i))
<1> DEFINE enough == {i \in Turns(s) : Total(From(s, i)) <= Budget}
<1>1. DropOldestTurns(s) = From(s, IF enough = {} THEN Max(Turns(s)) ELSE Min(enough))
  BY DEF DropOldestTurns, Turns
<1>2. /\ Turns(s) # {} /\ Turns(s) \subseteq 1..Len(s) /\ Len(s) \in Nat
      /\ enough \subseteq 1..Len(s)
  BY TurnsOf, LenOf DEF Transcript
<1>3. \A i \in Turns(s) : Fits(From(s, i)) => i \in enough
  BY DEF Fits
<1>4. CASE enough = {}
  <2>1. Max(Turns(s)) \in Turns(s)
    BY <1>2, MaxOf
  <2> QED
    BY <1>1, <1>3, <1>4, <2>1
<1>5. CASE enough # {}
  <2>1. Min(enough) \in enough /\ \A i \in enough : Min(enough) <= i
    <3> HIDE DEF enough
    <3> QED
      BY <1>2, <1>5, MinOf
  <2>2. Min(enough) \in Turns(s)
    BY <2>1
  <2>3. \A i \in Turns(s) : i < Min(enough) => ~Fits(From(s, i))
    <3> HIDE DEF enough
    <3> QED
      BY <1>2, <1>3, <2>1, <2>2
  <2> QED
    BY <1>1, <1>5, <2>2, <2>3
<1> QED
  BY <1>4, <1>5

\* An end of a transcript, trimmed, is one that begins with a turn.
LEMMA EndsAreTranscripts ==
    ASSUME NEW s \in Messages, NEW i, NEW t, TrimsFrom(t, s, i)
    PROVE  Transcript(t)
<1>1. Len(s) \in Nat /\ i \in 1..Len(s) /\ t \in Messages /\ Len(t) = Len(s) - i + 1
  BY LenOf DEF TrimsFrom
<1>2. 1 \in 1..Len(t) /\ t # <<>>
  BY <1>1
<1>3. t[1].role = s[i + 1 - 1].role /\ i + 1 - 1 = i
  BY <1>1, <1>2, TrimOfRole DEF TrimsFrom
<1> QED
  BY <1>1, <1>2, <1>3 DEF TrimsFrom, Transcript, IsTurnStart

LEMMA TrimsAreTranscripts ==
    ASSUME NEW s, NEW t, Transcript(s), Trims(t, s)
    PROVE  Transcript(t)
<1>1. s \in Messages /\ Len(s) \in Nat \ {0} /\ t \in Messages /\ Len(t) = Len(s)
  BY LenOf DEF Transcript, Trims
<1>2. 1 \in 1..Len(s) /\ t # <<>>
  BY <1>1
<1>3. t[1].role = s[1].role
  BY <1>2, TrimOfRole DEF Trims
<1> QED
  BY <1>1, <1>2, <1>3 DEF Transcript, IsTurnStart

\* The plan is such an end again.
LEMMA PlansAreEnds ==
    ASSUME NEW s \in Messages, NEW i, NEW t, TrimsFrom(t, s, i)
    PROVE  \E k : TrimsFrom(PlanKeptTail(t), s, k)
<1> DEFINE s1 == PreviewResults(t)
           s2 == TruncateCalls(s1)
           s3 == DropOldestTurns(s2)
<1>1. t \in Messages
  BY DEF TrimsFrom
<1>2. Trims(s1, t)
  BY <1>1, ShapedTrims DEF PreviewResults
<1>3. Trims(s2, s1)
  BY <1>2, TruncateCallsTrims DEF Trims
<1>4. TrimsFrom(s1, s, i)
  BY <1>2, TrimsFromTrims
<1>5. TrimsFrom(s2, s, i)
  BY <1>3, <1>4, TrimsFromTrims
<1>6. PICK k \in Turns(s2) : s3 = From(s2, k)
  BY <1>5, EndsAreTranscripts, DropOldestTurnsOf
<1>7. TrimsFrom(s3, s, i + k - 1)
  <2>1. k \in 1..Len(s2) /\ IsTurnStart(s2[k])
    BY <1>5, <1>6, EndsAreTranscripts, TurnsOf
  <2> QED
    BY <1>5, <1>6, <2>1, TrimsFromFrom
<1>8. TrimsFrom(TruncateText(s3), s, i + k - 1)
  <2>1. s3 \in Messages
    BY <1>7 DEF TrimsFrom
  <2> QED
    BY <1>7, <2>1, TruncateTextTrims, TrimsFromTrims
<1>9. PlanKeptTail(t) \in {t, s1, s2, s3, TruncateText(s3)}
  BY DEF PlanKeptTail
<1> QED
  BY <1>4, <1>5, <1>7, <1>8, <1>9

\* The cut is a turn.
LEMMA CutsAreTurns ==
    ASSUME NEW s, Transcript(s), NEW recent
    PROVE  SelectCut(s, recent) \in 1..Len(s) /\ IsTurnStart(s[SelectCut(s, recent)])
<1> DEFINE reached == {i \in DOMAIN s : 2 * Total(From(s, i)) >= recent}
           starts == {i \in DOMAIN s : IsTurnStart(s[i])}
           i == Max(reached)
           after == {j \in starts : j >= i}
           before == {j \in starts : j <= i} \cup {1}
<1>1. /\ Len(s) \in Nat \ {0} /\ DOMAIN s = 1..Len(s) /\ IsTurnStart(s[1])
      /\ 1 \in 1..Len(s)
  BY LenOf DEF Transcript
<1>2. SelectCut(s, recent) = IF reached = {} THEN 1
                             ELSE IF \E j \in starts : j >= i THEN Min(after) ELSE Max(before)
  BY DEF SelectCut
<1>3. after \subseteq 1..Len(s) /\ \A j \in after : IsTurnStart(s[j])
  BY <1>1
<1>4. before \subseteq 1..Len(s) /\ before # {} /\ \A j \in before : IsTurnStart(s[j])
  BY <1>1
<1>5. (\E j \in starts : j >= i) => after # {}
  OBVIOUS
<1>6. Max(before) \in before
  <2> HIDE DEF before
  <2> QED
    BY <1>1, <1>4, MaxOf
<1>7. after # {} => Min(after) \in after
  <2> HIDE DEF after
  <2> QED
    BY <1>1, <1>3, MinOf
<1> HIDE DEF reached, starts, i, after, before
<1> QED
  BY <1>1, <1>2, <1>3, <1>4, <1>5, <1>6, <1>7

\* With one verbatim result, a result before another one is a preview.
LEMMA ShapedToOne ==
    ASSUME NEW s \in Messages, NEW p \in 1..Len(s)
    PROVE  Shaped(s, 1)[p] =
              IF s[p].role = "toolResult"
                 /\ \E j \in 1..Len(s) : j > p /\ s[j].role = "toolResult"
              THEN ShortText(s[p], Preview) ELSE s[p]
<1> DEFINE Later == {j \in 1..Len(s) : j > p /\ s[j].role = "toolResult"}
<1>1. Len(s) \in Nat /\ DOMAIN s = 1..Len(s)
  BY LenOf
<1>2. IsFiniteSet(Later)
  <2>1. IsFiniteSet(1..Len(s))
    <3>1. 1 \in Int /\ Len(s) \in Int
      BY <1>1
    <3> QED
      BY <3>1, FS_Interval
  <2> QED
    BY <2>1, FS_Subset
<1>3. Cardinality(Later) >= 1 <=> Later # {}
  <2> HIDE DEF Later
  <2>1. Cardinality(Later) \in Nat /\ (Cardinality(Later) = 0 <=> Later = {})
    BY <1>2, FS_CardinalityType, FS_EmptySet
  <2> QED
    BY <2>1
<1>4. Shaped(s, 1)[p] = IF s[p].role = "toolResult" /\ Cardinality(Later) >= 1
                        THEN ShortText(s[p], Preview) ELSE s[p]
  BY <1>1 DEF Shaped
<1>5. Later # {} <=> \E j \in 1..Len(s) : j > p /\ s[j].role = "toolResult"
  OBVIOUS
<1> HIDE DEF Later
<1> QED
  BY <1>3, <1>4, <1>5

\* Trimming what is left from a turn on is what is left of the trimmed whole.
LEMMA TrimmedEnds ==
    ASSUME NEW s \in Messages, NEW k \in 1..Len(s)
    PROVE  From(TruncateCalls(Shaped(s, 1)), k) = TruncateCalls(Shaped(From(s, k), 1))
<1> DEFINE e == From(s, k)
           h1 == Shaped(s, 1)
           h2 == TruncateCalls(h1)
           e1 == Shaped(e, 1)
           e2 == TruncateCalls(e1)
<1>1. /\ Len(s) \in Nat /\ k \in Nat
      /\ e \in Messages /\ Len(e) = Len(s) - k + 1
      /\ \A j \in 1..Len(e) : e[j] = s[k + j - 1] /\ k + j - 1 \in 1..Len(s)
  BY LenOf, FromOf
<1>2. Trims(h1, s) /\ h1 \in Messages /\ Len(h1) = Len(s)
  BY ShapedTrims DEF Trims
<1>3. Trims(h2, h1) /\ h2 \in Messages /\ Len(h2) = Len(s)
  BY <1>2, TruncateCallsTrims DEF Trims
<1>4. Trims(e1, e) /\ e1 \in Messages /\ Len(e1) = Len(e)
  BY <1>1, ShapedTrims DEF Trims
<1>5. Trims(e2, e1) /\ e2 \in Messages /\ Len(e2) = Len(e)
  BY <1>4, TruncateCallsTrims DEF Trims
<1>6. /\ \A i \in 1..Len(s) : h2[i] = IF h1[i].role = "assistant"
                                      THEN ShortCalls(h1[i], Preview) ELSE h1[i]
      /\ \A i \in 1..Len(e) : e2[i] = IF e1[i].role = "assistant"
                                      THEN ShortCalls(e1[i], Preview) ELSE e1[i]
  <2>1. DOMAIN h1 = 1..Len(s) /\ DOMAIN e1 = 1..Len(e)
    BY <1>2, <1>4, LenOf
  <2> HIDE DEF h1, e1
  <2> QED
    BY <2>1 DEF TruncateCalls
<1>7. ASSUME NEW j \in 1..Len(e)
      PROVE  e1[j] = h1[k + j - 1]
  <2> DEFINE q == k + j - 1
  <2>1. q \in 1..Len(s) /\ e[j] = s[q]
    BY <1>1
  <2>2. (\E x \in 1..Len(e) : x > j /\ e[x].role = "toolResult")
        <=> (\E y \in 1..Len(s) : y > q /\ s[y].role = "toolResult")
    <3>1. ASSUME NEW x \in 1..Len(e), x > j, e[x].role = "toolResult"
          PROVE  \E y \in 1..Len(s) : y > q /\ s[y].role = "toolResult"
      <4>1. k + x - 1 \in 1..Len(s) /\ k + x - 1 > q /\ s[k + x - 1].role = "toolResult"
        BY <1>1, <3>1
      <4> QED
        BY <4>1
    <3>2. ASSUME NEW y \in 1..Len(s), y > q, s[y].role = "toolResult"
          PROVE  \E x \in 1..Len(e) : x > j /\ e[x].role = "toolResult"
      <4> DEFINE x == y - k + 1
      <4>1. x \in 1..Len(e) /\ x > j /\ k + x - 1 = y
        BY <1>1, <3>2
      <4>2. e[x] = s[y]
        BY <1>1, <4>1
      <4> QED
        BY <3>2, <4>1, <4>2
    <3> QED
      BY <3>1, <3>2
  <2>3. /\ e1[j] = IF e[j].role = "toolResult"
                      /\ \E x \in 1..Len(e) : x > j /\ e[x].role = "toolResult"
                   THEN ShortText(e[j], Preview) ELSE e[j]
        /\ h1[q] = IF s[q].role = "toolResult"
                      /\ \E y \in 1..Len(s) : y > q /\ s[y].role = "toolResult"
                   THEN ShortText(s[q], Preview) ELSE s[q]
    BY <1>1, <2>1, ShapedToOne
  <2> HIDE DEF e, e1, h1, q
  <2>4. e1[j] = h1[q]
    BY <2>1, <2>2, <2>3
  <2> QED
    BY <2>4 DEF q
<1> HIDE DEF e, h1, h2, e1, e2
<1>8. /\ From(h2, k) \in Messages /\ Len(From(h2, k)) = Len(e)
      /\ \A j \in 1..Len(e) : From(h2, k)[j] = h2[k + j - 1]
  <2>1. k \in 1..Len(h2)
    BY <1>3
  <2> QED
    BY <1>1, <1>3, <2>1, FromOf
<1>9. \A j \in 1..Len(e) : From(h2, k)[j] = e2[j]
  BY <1>1, <1>6, <1>7, <1>8
<1>10. From(h2, k) = e2
  BY <1>5, <1>8, <1>9, SeqEqual DEF Messages
<1> QED
  BY <1>10 DEF e, h1, h2, e1, e2

LEMMA FromFrom ==
    ASSUME NEW s \in Messages, NEW c \in 1..Len(s), NEW k \in c..Len(s)
    PROVE  /\ k - c + 1 \in 1..Len(From(s, c))
           /\ From(s, c)[k - c + 1] = s[k]
           /\ From(From(s, c), k - c + 1) = From(s, k)
<1>1. /\ Len(s) \in Nat /\ c \in Nat /\ k \in Nat /\ k \in 1..Len(s)
      /\ From(s, c) \in Messages /\ Len(From(s, c)) = Len(s) - c + 1
      /\ \A j \in 1..Len(From(s, c)) : From(s, c)[j] = s[c + j - 1]
  BY LenOf, FromOf
<1>2. k - c + 1 \in 1..Len(From(s, c)) /\ c + (k - c + 1) - 1 = k
  BY <1>1
<1>3. /\ From(From(s, c), k - c + 1) \in Messages
      /\ Len(From(From(s, c), k - c + 1)) = Len(s) - k + 1
      /\ \A j \in 1..(Len(s) - k + 1) :
            From(From(s, c), k - c + 1)[j] = From(s, c)[(k - c + 1) + j - 1]
  <2>1. Len(From(s, c)) - (k - c + 1) + 1 = Len(s) - k + 1
    BY <1>1
  <2> QED
    BY <1>1, <1>2, <2>1, FromOf
<1>4. /\ From(s, k) \in Messages /\ Len(From(s, k)) = Len(s) - k + 1
      /\ \A j \in 1..(Len(s) - k + 1) : From(s, k)[j] = s[k + j - 1]
  BY <1>1, FromOf
<1>5. ASSUME NEW j \in 1..(Len(s) - k + 1)
      PROVE  From(From(s, c), k - c + 1)[j] = From(s, k)[j]
  <2>1. /\ (k - c + 1) + j - 1 \in 1..Len(From(s, c))
        /\ c + ((k - c + 1) + j - 1) - 1 = k + j - 1
    BY <1>1
  <2>2. From(s, c)[(k - c + 1) + j - 1] = s[k + j - 1]
    BY <1>1, <2>1
  <2> QED
    BY <1>3, <1>4, <2>2
<1>6. From(From(s, c), k - c + 1) = From(s, k)
  BY <1>3, <1>4, <1>5, SeqEqual DEF Messages
<1>7. From(s, c)[k - c + 1] = s[k]
  BY <1>1, <1>2
<1> QED
  BY <1>2, <1>6, <1>7

\* Of t, which stands for s from c on, no turn is missing that fits.
NothingFitting(t, s, c) ==
    \A k \in c..Len(s) :
        IsTurnStart(s[k]) /\ Len(t) < Len(s) - k + 1
            => ~Fits(TruncateCalls(Shaped(From(s, k), 1)))

\* Turns are dropped only when all else has been tried.
LEMMA TurnsDropLate ==
    ASSUME NEW t, Transcript(t), NEW k \in 1..Len(t), IsTurnStart(t[k]),
           Len(PlanKeptTail(t)) < Len(t) - k + 1
    PROVE  ~Fits(TruncateCalls(Shaped(From(t, k), 1)))
<1> DEFINE s1 == PreviewResults(t)
           s2 == TruncateCalls(s1)
           s3 == DropOldestTurns(s2)
<1>1. t \in Messages /\ Len(t) \in Nat /\ k \in Nat /\ k >= 1
  BY LenOf DEF Transcript
<1>2. Trims(s1, t) /\ s1 \in Messages /\ Len(s1) = Len(t)
  BY <1>1, ShapedTrims DEF PreviewResults, Trims
<1>3. Trims(s2, s1) /\ Trims(s2, t) /\ s2 \in Messages /\ Len(s2) = Len(t)
  BY <1>1, <1>2, TruncateCallsTrims, TrimsTransitive DEF Trims
<1>4. PlanKeptTail(t) \in {s3, TruncateText(s3)} /\ ~Fits(s1)
  <2>1. Len(PlanKeptTail(t)) # Len(t)
    BY <1>1
  <2>2. PlanKeptTail(t) \notin {t, s1, s2}
    BY <1>2, <1>3, <2>1
  <2> QED
    BY <2>2 DEF PlanKeptTail
<1>5. s1 = Shaped(t, 1)
  <2> DEFINE fitting == {n \in 1..VerbosePairs : Total(Shaped(t, n)) <= Budget}
  <2>1. s1 = Shaped(t, IF fitting = {} THEN 1 ELSE Max(fitting))
    BY DEF PreviewResults
  <2>2. CASE fitting # {}
    <3>1. fitting \subseteq 1..VerbosePairs /\ VerbosePairs \in Nat
      BY CompactionAssumption
    <3> HIDE DEF fitting
    <3>2. Max(fitting) \in fitting
      BY <2>2, <3>1, MaxOf
    <3>3. Fits(Shaped(t, Max(fitting)))
      BY <3>2 DEF fitting, Fits
    <3> QED
      BY <1>4, <2>1, <2>2, <3>3
  <2> QED
    BY <2>1, <2>2
<1>6. Transcript(s2)
  BY <1>1, <1>3, TrimsAreTranscripts
<1>7. PICK m \in Turns(s2) : /\ s3 = From(s2, m)
                             /\ \A i \in Turns(s2) : i < m => ~Fits(From(s2, i))
  BY <1>6, DropOldestTurnsOf
<1>8. m \in 1..Len(t) /\ s3 \in Messages /\ Len(s3) = Len(t) - m + 1
  BY <1>3, <1>6, <1>7, TurnsOf, FromOf
<1>9. Len(PlanKeptTail(t)) = Len(t) - m + 1
  <2>1. Len(TruncateText(s3)) = Len(s3)
    BY <1>8, TruncateTextTrims DEF Trims
  <2> QED
    BY <1>4, <1>8, <2>1
<1>10. k < m
  BY <1>1, <1>8, <1>9
<1>11. k \in Turns(s2)
  <2>1. s2[k].role = t[k].role
    BY <1>3, TrimOfRole DEF Trims
  <2>2. IsTurnStart(s2[k])
    BY <2>1 DEF IsTurnStart
  <2> QED
    BY <1>3, <1>6, <2>2, TurnsOf
<1>12. ~Fits(From(s2, k))
  BY <1>7, <1>10, <1>11
<1>13. From(s2, k) = TruncateCalls(Shaped(From(t, k), 1))
  BY <1>1, <1>5, TrimmedEnds
<1> QED
  BY <1>12, <1>13

LEMMA PlansDropLate ==
    ASSUME NEW s \in Messages, NEW c \in 1..Len(s), Transcript(From(s, c))
    PROVE  NothingFitting(PlanKeptTail(From(s, c)), s, c)
<1> SUFFICES ASSUME NEW k \in c..Len(s), IsTurnStart(s[k]),
                    Len(PlanKeptTail(From(s, c))) < Len(s) - k + 1
             PROVE  ~Fits(TruncateCalls(Shaped(From(s, k), 1)))
  BY DEF NothingFitting
<1> DEFINE t == From(s, c)
           l == k - c + 1
<1>1. Len(s) \in Nat /\ c \in Nat /\ k \in Nat /\ Len(t) = Len(s) - c + 1
  BY LenOf, FromOf
<1>2. l \in 1..Len(t) /\ t[l] = s[k] /\ From(t, l) = From(s, k)
  BY FromFrom
<1>3. Len(t) - l + 1 = Len(s) - k + 1
  BY <1>1
<1>4. Transcript(t) /\ IsTurnStart(t[l]) /\ Len(PlanKeptTail(t)) < Len(t) - l + 1
  BY <1>2, <1>3
<1> HIDE DEF t, l
<1>5. ~Fits(TruncateCalls(Shaped(From(t, l), 1)))
  BY <1>2, <1>4, TurnsDropLate
<1> QED
  BY <1>2, <1>5

\* The sum of the sizes is a number, for a sequence of any length: else there
\* would be a least number of its messages with no sum.
LEMMA TotalIsNat ==
    ASSUME NEW s \in Messages
    PROVE  Total(s) \in Nat
<1> DEFINE D(g, n) == IF n = 0 THEN 0 ELSE g[n - 1] + Size(s[n])
           Sums(g, k) == g = [n \in 0..k |-> D(g, n)]
           sums == CHOOSE g : Sums(g, Len(s))
<1>1. Len(s) \in Nat /\ \A i \in 1..Len(s) : Size(s[i]) \in Nat
  BY LenOf
<1>2. Total(s) = sums[Len(s)]
  BY DEF Total
<1>3. \E g : Sums(g, Len(s))
  <2> DEFINE Bad == {k \in 0..Len(s) : ~\E g : Sums(g, k)}
  <2> SUFFICES ASSUME Bad # {} PROVE FALSE
    <3>1. Len(s) \in 0..Len(s)
      BY <1>1
    <3> HIDE DEF Sums
    <3> QED
      BY <3>1
  <2>1. PICK k \in Bad : \A l \in Bad : k <= l
    <3>1. Bad \subseteq 0..Len(s)
      OBVIOUS
    <3> HIDE DEF Bad
    <3> QED
      BY <1>1, <3>1, LeastExists
  <2>2. CASE k = 0
    <3>1. Sums([n \in 0..0 |-> 0], 0)
      OBVIOUS
    <3> QED
      BY <2>1, <2>2, <3>1
  <2>3. CASE k # 0
    <3>1. k \in 1..Len(s) /\ k - 1 \in 0..Len(s)
      BY <1>1, <2>1, <2>3
    <3>2. k - 1 \notin Bad
      <4> HIDE DEF Bad
      <4> QED
        BY <1>1, <2>1, <3>1
    <3>3. PICK g : Sums(g, k - 1)
      BY <3>1, <3>2
    <3> DEFINE h == [n \in 0..k |-> D(g, n)]
    <3>4. \A n \in 0..(k - 1) : h[n] = g[n]
      <4> HIDE DEF D
      <4>1. \A n \in 0..(k - 1) : n \in 0..k
        BY <3>1
      <4> QED
        BY <3>3, <4>1
    <3>5. \A n \in 0..k : n = 0 \/ n - 1 \in 0..(k - 1)
      BY <3>1
    <3>6. \A n \in 0..k : D(g, n) = D(h, n)
      <4> HIDE DEF h
      <4> QED
        BY <3>4, <3>5
    <3>7. Sums(h, k)
      BY <3>6
    <3> QED
      BY <2>1, <3>7
  <2> QED
    BY <2>2, <2>3
<1>4. Sums(sums, Len(s))
  <2> HIDE DEF Sums
  <2> QED
    BY <1>3
<1> HIDE DEF sums
<1>5. /\ sums[0] = 0
      /\ \A n \in 1..Len(s) : sums[n] = sums[n - 1] + Size(s[n])
  <2>1. \A n \in 0..Len(s) : sums[n] = D(sums, n)
    BY <1>4
  <2>2. 0 \in 0..Len(s) /\ \A n \in 1..Len(s) : n \in 0..Len(s) /\ n # 0
    BY <1>1
  <2> QED
    BY <2>1, <2>2
<1> DEFINE Unsummed == {n \in 0..Len(s) : sums[n] \notin Nat}
<1>6. Unsummed = {}
  <2> SUFFICES ASSUME Unsummed # {} PROVE FALSE
    OBVIOUS
  <2>1. PICK n \in Unsummed : \A l \in Unsummed : n <= l
    <3>1. Unsummed \subseteq 0..Len(s)
      OBVIOUS
    <3> HIDE DEF Unsummed
    <3> QED
      BY <1>1, <3>1, LeastExists
  <2>2. n \in 1..Len(s) /\ n - 1 \in 0..Len(s)
    BY <1>1, <1>5, <2>1
  <2>3. sums[n - 1] \in Nat
    BY <2>1, <2>2
  <2> QED
    BY <1>1, <1>5, <2>1, <2>2, <2>3
<1> QED
  BY <1>1, <1>2, <1>6

-----------------------------------------------------------------------------
(***************************************************************************)
(* The steps of a compaction.                                              *)
(***************************************************************************)

\* What is kept is an end of the input, and nothing was dropped that fits.
PlanIsEnd ==
    /\ Transcript(input) /\ summary \in Nat
    /\ phase # "planning" => \E i : TrimsFrom(kept, input, i)
    /\ phase # "planning" => NothingFitting(kept, input, cut)

\* Only what fits is committed, and then nothing follows.
CommittedFits == committed => phase = "done" /\ summary + Total(kept) <= Window

CompactionInv == PlanIsEnd /\ CommittedFits

LEMMA PlanStep ==
    ASSUME CompactionInv, Plan
    PROVE  CompactionInv'
<1>1. PICK c, t : /\ c = SelectCut(input, keep) /\ t = PlanKeptTail(From(input, c))
                  /\ kept' = t
  BY DEF Plan
<1>2. /\ phase = "planning" /\ UNCHANGED <<input, summary, outcome>>
  BY DEF Plan
<1>3. Transcript(input) /\ input \in Messages
  BY DEF CompactionInv, PlanIsEnd, Transcript
<1>4. c \in 1..Len(input) /\ IsTurnStart(input[c])
  BY <1>1, <1>3, CutsAreTurns
<1>5. TrimsFrom(From(input, c), input, c)
  <2>1. /\ From(input, c) \in Messages /\ Len(From(input, c)) = Len(input) - c + 1
        /\ \A j \in 1..(Len(input) - c + 1) : From(input, c)[j] = input[c + j - 1]
    BY <1>3, <1>4, FromOf
  <2>2. Len(input) \in Nat /\ \A i \in 1..Len(input) : TrimOf(input[i], input[i])
    BY <1>3, LenOf, ShortOf, CompactionAssumption
  <2>3. \A j \in 1..Len(From(input, c)) :
           /\ From(input, c)[j] = input[c + j - 1] /\ c + j - 1 \in 1..Len(input)
    BY <1>4, <2>1, <2>2
  <2> QED
    BY <1>4, <2>1, <2>2, <2>3 DEF TrimsFrom
<1>6. \E k : TrimsFrom(t, input, k)
  BY <1>1, <1>3, <1>5, PlansAreEnds
<1>7. NothingFitting(t, input, c)
  BY <1>1, <1>3, <1>4, <1>5, EndsAreTranscripts, PlansDropLate
<1>8. ~committed'
  BY <1>2 DEF CompactionInv, CommittedFits, committed
<1>9. PlanIsEnd'
  <2>1. cut' = c
    BY <1>1 DEF Plan
  <2>2. NothingFitting(kept, input, cut)'
    BY <1>1, <1>2, <1>7, <2>1 DEF NothingFitting, Fits
  <2>3. Transcript(input)' /\ summary' \in Nat
    BY <1>2 DEF CompactionInv, PlanIsEnd, Transcript
  <2>4. \E k : TrimsFrom(kept, input, k)'
    BY <1>1, <1>2, <1>6 DEF TrimsFrom
  <2> QED
    BY <2>2, <2>3, <2>4 DEF PlanIsEnd
<1> QED
  BY <1>8, <1>9 DEF CompactionInv, CommittedFits

\* The other steps leave the plan as it is.
LEMMA PlanStays ==
    ASSUME PlanIsEnd, UNCHANGED <<input, kept, cut>>, summary' \in Nat,
           phase' = "planning" \/ phase # "planning"
    PROVE  PlanIsEnd'
<1>1. phase' # "planning" => NothingFitting(kept, input, cut)'
  BY DEF PlanIsEnd, NothingFitting, Fits
<1>3. Transcript(input)'
  BY DEF PlanIsEnd, Transcript
<1>4. phase' # "planning" => \E i : TrimsFrom(kept, input, i)'
  BY DEF PlanIsEnd, TrimsFrom
<1> QED
  BY <1>1, <1>3, <1>4 DEF PlanIsEnd

LEMMA CompactionStep ==
    ASSUME CompactionInv, [CompactionNext]_compactionVars
    PROVE  CompactionInv'
<1>0. /\ PlanIsEnd /\ CommittedFits /\ summary \in Nat
      /\ SummarySizes \subseteq Nat /\ Window \in Nat
  BY CompactionAssumption DEF CompactionInv, PlanIsEnd
<1>1. CASE Plan
  BY <1>1, PlanStep
<1>2. CASE NothingOlder
  <2>1. phase = "planned" /\ UNCHANGED <<input, kept, cut>> /\ phase' = "done"
    BY <1>2 DEF NothingOlder, Ends
  <2>2. summary' \in Nat
    BY <1>0, <1>2 DEF NothingOlder
  <2>3. PlanIsEnd'
    BY <1>0, <2>1, <2>2, PlanStays
  <2>4. PICK i : TrimsFrom(kept, input, i)
    BY <1>0, <2>1 DEF PlanIsEnd
  <2>5. Total(kept) \in Nat
    BY <2>4, TotalIsNat DEF TrimsFrom
  <2>6. Total(kept)' = Total(kept)
    BY <2>1 DEF Total
  <2>7. committed' => summary' = 0 /\ Total(kept) <= Window
    BY <1>2 DEF NothingOlder, Ends, committed
  <2> QED
    BY <2>1, <2>3, <2>5, <2>6, <2>7 DEF CompactionInv, CommittedFits
<1>3. CASE SummarizeOlder
  <2>1. phase = "planned" /\ UNCHANGED <<input, kept, cut, summary, outcome>>
    BY <1>3 DEF SummarizeOlder
  <2>2. PlanIsEnd'
    BY <1>0, <2>1, PlanStays
  <2>3. ~committed'
    BY <1>0, <2>1 DEF CommittedFits, committed
  <2> QED
    BY <2>2, <2>3 DEF CompactionInv, CommittedFits
<1>4. CASE Summarizer
  <2>1. phase = "summarizing" /\ UNCHANGED <<input, kept, cut>>
    BY <1>4 DEF Summarizer
  <2>2. summary' \in Nat
    BY <1>0, <1>4 DEF Summarizer
  <2>3. PlanIsEnd'
    BY <1>0, <2>1, <2>2, PlanStays
  <2>4. ~committed
    BY <1>0, <2>1 DEF CommittedFits
  <2>5. outcome' = outcome \/ outcome' = "failed"
    BY <1>4 DEF Summarizer, Ends
  <2>6. ~committed'
    BY <2>4, <2>5 DEF committed
  <2> QED
    BY <2>3, <2>6 DEF CompactionInv, CommittedFits
<1>5. CASE Verify
  <2>1. phase = "verifying" /\ UNCHANGED <<input, kept, cut, summary>>
    BY <1>5 DEF Verify
  <2>2. PlanIsEnd'
    BY <1>0, <2>1, PlanStays
  <2>3. ~committed
    BY <1>0, <2>1 DEF CommittedFits
  <2>4. Total(kept)' = Total(kept)
    BY <2>1 DEF Total
  <2>5. committed' => phase' = "done" /\ summary + Total(kept) <= Window
    BY <1>5, <2>3 DEF Verify, Ends, committed
  <2> QED
    BY <2>1, <2>2, <2>4, <2>5 DEF CompactionInv, CommittedFits
<1>6. CASE UNCHANGED compactionVars
  <2>1. UNCHANGED <<input, kept, cut, summary, phase, outcome>>
    BY <1>6 DEF compactionVars
  <2>2. PlanIsEnd'
    <3>1. CASE phase = "planning"
      BY <1>0, <2>1, <3>1, PlanStays
    <3>2. CASE phase # "planning"
      BY <1>0, <2>1, <3>2, PlanStays
    <3> QED
      BY <3>1, <3>2
  <2>3. Total(kept)' = Total(kept)
    BY <2>1 DEF Total
  <2> QED
    BY <1>0, <2>1, <2>2, <2>3 DEF CompactionInv, CommittedFits, committed
<1> QED
  BY <1>1, <1>2, <1>3, <1>4, <1>5, <1>6 DEF CompactionNext

LEMMA CompactionStarts ==
    ASSUME CompactionInit
    PROVE  CompactionInv
<1>1. /\ input \in Inputs /\ summary \in {0} \cup SummarySizes
      /\ phase = "planning" /\ outcome = "none"
  BY DEF CompactionInit
<1>2. Transcript(input)
  <2> DEFINE M == [role : Roles, text : Sizes, calls : {0}]
                  \cup [role : {"assistant"}, text : Sizes, calls : CallSizes]
  <2>1. input # <<>> /\ IsTurnStart(input[1]) /\ input \in BoundedSeq(M, MaxLength)
    BY <1>1 DEF Inputs
  <2>2. PICK m \in 0..MaxLength : input \in [1..m -> M]
    BY <2>1 DEF BoundedSeq, SeqOf
  <2>3. m \in Nat /\ M \subseteq Message
    <3>1. Sizes \subseteq Nat /\ CallSizes \subseteq Nat /\ MaxLength \in Nat
      BY CompactionAssumption
    <3>2. ASSUME NEW x \in M PROVE x \in Message
      <4>1. CASE x \in [role : Roles, text : Sizes, calls : {0}]
        <5>1. x \in [role : Roles, text : Sizes, calls : Nat]
          <6>1. {0} \subseteq Nat
            OBVIOUS
          <6> HIDE DEF M
          <6> QED
            BY <4>1, <6>1
        <5> QED
          BY <3>1, <5>1 DEF Message
      <4>2. CASE x \in [role : {"assistant"}, text : Sizes, calls : CallSizes]
        BY <3>1, <4>2 DEF Message, Roles
      <4> QED
        BY <4>1, <4>2
    <3>3. m \in Nat
      BY <3>1
    <3> QED
      BY <3>2, <3>3
  <2>4. input \in [1..m -> Message]
    BY <2>2, <2>3
  <2> QED
    BY <2>1, <2>3, <2>4, IsMessages DEF Transcript
<1>3. summary \in Nat
  BY <1>1, CompactionAssumption
<1> QED
  BY <1>1, <1>2, <1>3 DEF CompactionInv, PlanIsEnd, CommittedFits, committed

\* What is kept is an end of the transcript from a turn on, and what is
\* committed fits.
THEOREM CompactionInvariant == CompactionSpec => []CompactionInv
<1>1. CompactionInit => CompactionInv
  BY CompactionStarts
<1>2. CompactionInv /\ [CompactionNext]_compactionVars => CompactionInv'
  BY CompactionStep
<1> QED
  BY <1>1, <1>2, PTL DEF CompactionSpec

\* Whatever the transcript, the budgets and the sizes of the summaries, a
\* transcript that runCompactCommand commits goes on at a turn of the old one,
\* message for message, and fits the window (export.ts, engine.ts:6).
THEOREM CommittedTranscriptsFit == CompactionSpec => []CommittedIsTurnSuffix
<1>1. CompactionInv => CommittedIsTurnSuffix
  <2> SUFFICES ASSUME CompactionInv, committed
               PROVE  \E i \in DOMAIN input :
                         /\ IsTurnStart(input[i])
                         /\ Len(kept) = Len(input) - i + 1
                         /\ \A j \in DOMAIN kept : TrimOf(kept[j], input[i + j - 1])
                         /\ summary + Total(kept) <= Window
    BY DEF CommittedIsTurnSuffix
  <2>1. phase = "done" /\ summary + Total(kept) <= Window
    BY DEF CompactionInv, CommittedFits
  <2>2. PICK i : TrimsFrom(kept, input, i)
    BY <2>1 DEF CompactionInv, PlanIsEnd
  <2>3. DOMAIN input = 1..Len(input) /\ DOMAIN kept = 1..Len(kept)
    BY <2>2, LenOf DEF CompactionInv, PlanIsEnd, Transcript, TrimsFrom
  <2> QED
    BY <2>1, <2>2, <2>3 DEF TrimsFrom
<1> QED
  BY <1>1, CompactionInvariant, PTL

\* Whatever the transcript and the budgets, a turn behind the cut is given up
\* only where what is left from it on does not fit the budget even when its
\* calls and all results but the last are trimmed (planKeptTail, engine.ts:329).
THEOREM TurnsAreDroppedLast == CompactionSpec => []DropsOnlyToFit
<1>1. CompactionInv => DropsOnlyToFit
  BY DEF CompactionInv, PlanIsEnd, DropsOnlyToFit, NothingFitting
<1> QED
  BY <1>1, CompactionInvariant, PTL
=============================================================================
