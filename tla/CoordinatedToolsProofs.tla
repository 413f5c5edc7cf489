------------------------ MODULE CoordinatedToolsProofs ------------------------
(***************************************************************************)
(* Proofs about WorkbookCoordinator and CoordinatedTools, for every set of *)
(* calls, workbooks and tabs.                                              *)
(*                                                                         *)
(* The queue.  A write executes only while it is its workbook's active     *)
(* write (ExecutingIsActive), and the queue holds exactly the waiting      *)
(* writes of its workbook, each once (QueueHoldsWaiting).  So starting the *)
(* head of a queue never starts a second write beside a running one.       *)
(*                                                                         *)
(* The tools.  The wrapper drives the queue only through its operations,   *)
(* so the theorems about the queue hold of the whole pane; a stopped call  *)
(* does not start; mutations of the document are serialized and allowed by *)
(* the mode, except under calls that a rename or a switch has overtaken;   *)
(* and a tab is free of dead locks if its session is replaced only when    *)
(* none of its restores is in flight (ReplacedWhenQuiet).                  *)
(***************************************************************************)
EXTENDS CoordinatedTools, FiniteSetTheorems, SequenceTheorems, TLAPS

\* A queue holds waiting writes of its own workbook, each once.
QueueHoldsWaiting ==
    \A b \in Books : \A i \in DOMAIN queue[b] :
        /\ status[queue[b][i]] = "waiting"
        /\ book[queue[b][i]] = b
        /\ \A j \in DOMAIN queue[b] : queue[b][i] = queue[b][j] => i = j

\* The active write of a workbook is one of its own, started.
ActiveIsStarted ==
    \A b \in Books : active[b] # None =>
        /\ book[active[b]] = b
        /\ status[active[b]] \in {"executing", "committed", "failed"}

\* A write executes only as its workbook's active write.
ExecutingIsActive ==
    \A o \in Ops : status[o] = "executing" =>
        book[o] \in Books /\ active[book[o]] = o

\* Every submitted write has a workbook; every waiting one is in its queue,
\* behind an active one.
SubmittedHasBook ==
    \A o \in Ops : status[o] # "new" => book[o] \in Books

\* The inductive invariant.
IInv ==
    /\ TypeOK
    /\ QueueHoldsWaiting
    /\ ActiveIsStarted
    /\ ExecutingIsActive
    /\ SubmittedHasBook
    /\ WaitingBehindActive

-----------------------------------------------------------------------------
\* What processQueue leaves in the state has the right types.
LEMMA ProcessQueueTypes ==
    ASSUME NEW b \in Books, NEW q \in Seq(Ops), NEW running \in BOOLEAN,
           NEW st \in [Ops -> Statuses], NEW throws \in BOOLEAN,
           TypeOK, ProcessQueue(b, q, running, st, throws)
    PROVE  /\ queue' \in [Books -> Seq(Ops)]
           /\ active' \in [Books -> Ops \cup {None}]
           /\ status' \in [Ops -> Statuses]
<1>1. CASE ~running /\ q # <<>>
  <2>1. Head(q) \in Ops /\ Tail(q) \in Seq(Ops)
    BY <1>1
  <2> QED BY <1>1, <2>1 DEF ProcessQueue, TypeOK, Statuses
<1>2. CASE ~(~running /\ q # <<>>)
  BY <1>2 DEF ProcessQueue, TypeOK
<1> QED BY <1>1, <1>2

\* The initial state satisfies the invariant.
LEMMA InitIInv == Init => IInv
BY NoneAssumption DEF Init, IInv, TypeOK, Statuses, QueueHoldsWaiting,
   ActiveIsStarted, ExecutingIsActive, SubmittedHasBook, WaitingBehindActive

\* Every step keeps the types.
LEMMA StepTypes == TypeOK /\ SubmittedHasBook /\ ActiveIsStarted /\ [Next]_vars => TypeOK'
<1> SUFFICES ASSUME TypeOK, SubmittedHasBook, ActiveIsStarted, [Next]_vars
             PROVE  TypeOK'
  OBVIOUS
<1>1. ASSUME NEW o \in Ops, NEW b \in Books, NEW throws \in BOOLEAN,
             RunWrite(o, b, throws)
      PROVE  TypeOK'
  <2>1. /\ Append(queue[b], o) \in Seq(Ops)
        /\ [status EXCEPT ![o] = "waiting"] \in [Ops -> Statuses]
        /\ (active[b] # None) \in BOOLEAN
    BY DEF TypeOK, Statuses
  <2>2. ProcessQueue(b, Append(queue[b], o), active[b] # None,
                     [status EXCEPT ![o] = "waiting"], throws)
    BY <1>1 DEF RunWrite
  <2>3. /\ queue' \in [Books -> Seq(Ops)]
        /\ active' \in [Books -> Ops \cup {None}]
        /\ status' \in [Ops -> Statuses]
    BY <2>1, <2>2, ProcessQueueTypes
  <2> QED BY <1>1, <2>3 DEF RunWrite, TypeOK
<1>2. ASSUME NEW b \in Books, NEW throws \in BOOLEAN, Release(b, throws)
      PROVE  TypeOK'
  <2>1. ProcessQueue(b, queue[b], FALSE, status, throws)
    BY <1>2 DEF Release
  <2>2. /\ queue' \in [Books -> Seq(Ops)]
        /\ active' \in [Books -> Ops \cup {None}]
        /\ status' \in [Ops -> Statuses]
    BY <2>1, ProcessQueueTypes DEF TypeOK
  <2> QED BY <1>2, <2>2 DEF Release, TypeOK
<1>3. ASSUME NEW o \in Ops, Commit(o)
      PROVE  TypeOK'
  <2>1. book[o] \in Books
    BY <1>3 DEF Commit, SubmittedHasBook
  <2> QED BY <1>3, <2>1 DEF Commit, TypeOK, Statuses
<1>4. ASSUME NEW o \in Ops, Fail(o)
      PROVE  TypeOK'
  BY <1>4 DEF Fail, TypeOK, Statuses
<1>5. CASE UNCHANGED vars
  BY <1>5 DEF vars, TypeOK
<1> QED BY <1>1, <1>2, <1>3, <1>4, <1>5 DEF Next, Settle

\* The hand-over, to the oldest waiting write or to nobody, keeps IInv.
LEMMA ReleaseKeeps ==
    ASSUME NEW b \in Books, NEW throws \in BOOLEAN,
           IInv, TypeOK',
           Release(b, throws)
    PROVE  IInv'
<1>0. /\ active[b] \in Ops /\ ~ status[active[b]] = "executing"
      /\ book' = book /\ revision' = revision /\ seen' = seen
      /\ queue[b] \in Seq(Ops)
  BY DEF Release, Settled, IInv, TypeOK
<1>1. CASE queue[b] # <<>>
  <2> DEFINE h == Head(queue[b])
  <2>1. /\ h \in Ops /\ h = queue[b][1] /\ 1 \in DOMAIN queue[b]
        /\ active' = [active EXCEPT ![b] = h]
        /\ queue' = [queue EXCEPT ![b] = Tail(queue[b])]
        /\ status' = [status EXCEPT ![h] = IF throws THEN "failed" ELSE "executing"]
    BY <1>0, <1>1 DEF Release, ProcessQueue
  <2>2. /\ status[h] = "waiting" /\ book[h] = b
    BY <2>1 DEF IInv, QueueHoldsWaiting
  <2>3. /\ DOMAIN Tail(queue[b]) = 1..(Len(queue[b]) - 1)
        /\ DOMAIN queue[b] = 1..Len(queue[b])
        /\ Len(queue[b]) \in Nat
        /\ \A i \in DOMAIN Tail(queue[b]) : Tail(queue[b])[i] = queue[b][i + 1]
    BY <1>0, <1>1
  <2>4. QueueHoldsWaiting'
    <3> SUFFICES ASSUME NEW c \in Books, NEW i \in DOMAIN queue'[c]
                 PROVE  /\ status'[queue'[c][i]] = "waiting"
                        /\ book'[queue'[c][i]] = c
                        /\ \A j \in DOMAIN queue'[c] :
                              queue'[c][i] = queue'[c][j] => i = j
      BY DEF QueueHoldsWaiting
    <3>1. CASE c = b
      <4>1. queue'[c] = Tail(queue[b])
        BY <2>1, <3>1 DEF IInv, TypeOK
      <4>2. i + 1 \in DOMAIN queue[b] /\ queue'[c][i] = queue[b][i + 1]
        BY <4>1, <2>3
      <4>3. queue[b][i + 1] # h
        BY <4>2, <2>1, <2>3, <4>1 DEF IInv, QueueHoldsWaiting
      <4>4. queue[b][i + 1] \in Ops /\ status[queue[b][i + 1]] = "waiting"
            /\ book[queue[b][i + 1]] = b
        BY <4>2, <1>0 DEF IInv, QueueHoldsWaiting
      <4>5. ASSUME NEW j \in DOMAIN queue'[c], queue'[c][i] = queue'[c][j]
            PROVE  i = j
        <5>1. j + 1 \in DOMAIN queue[b] /\ queue'[c][j] = queue[b][j + 1]
          BY <4>1, <2>3
        <5>2. i + 1 = j + 1
          BY <4>5, <5>1, <4>2 DEF IInv, QueueHoldsWaiting
        <5> QED BY <5>2, <4>1, <2>3
      <4> QED BY <4>2, <4>3, <4>4, <4>5, <3>1, <2>1, <1>0 DEF IInv, TypeOK
    <3>2. CASE c # b
      <4>1. queue'[c] = queue[c]
        BY <2>1, <3>2 DEF IInv, TypeOK
      <4>2. queue[c][i] \in Ops /\ book[queue[c][i]] = c
            /\ status[queue[c][i]] = "waiting"
        BY <4>1 DEF IInv, TypeOK, QueueHoldsWaiting
      <4>3. queue[c][i] # h
        BY <4>2, <2>2, <3>2
      <4> QED BY <4>1, <4>2, <4>3, <2>1, <1>0 DEF IInv, TypeOK, QueueHoldsWaiting
    <3> QED BY <3>1, <3>2
  <2>5. ActiveIsStarted'
    BY <2>1, <2>2, <1>0, NoneAssumption DEF IInv, TypeOK, ActiveIsStarted
  <2>6. ExecutingIsActive'
    BY <2>1, <2>2, <1>0 DEF IInv, TypeOK, ExecutingIsActive
  <2>7. SubmittedHasBook'
    BY <2>1, <2>2, <1>0 DEF IInv, TypeOK, SubmittedHasBook
  <2>8. WaitingBehindActive'
    <3> SUFFICES ASSUME NEW o \in Ops, status'[o] = "waiting"
                 PROVE  /\ active'[book'[o]] # None
                        /\ \E i \in DOMAIN queue'[book'[o]] : queue'[book'[o]][i] = o
      BY DEF WaitingBehindActive
    <3>1. status[o] = "waiting" /\ o # h
      BY <2>1 DEF IInv, TypeOK
    <3>2. book[o] \in Books
      BY <3>1 DEF IInv, SubmittedHasBook
    <3>3. PICK i \in DOMAIN queue[book[o]] : queue[book[o]][i] = o
      BY <3>1 DEF IInv, WaitingBehindActive
    <3>4. active'[book[o]] # None
      BY <2>1, <3>1, <3>2, NoneAssumption DEF IInv, TypeOK, WaitingBehindActive
    <3>5. CASE book[o] = b
      <4>1. i # 1 /\ i - 1 \in DOMAIN Tail(queue[b]) /\ Tail(queue[b])[i - 1] = o
        BY <3>3, <3>5, <3>1, <2>1, <2>3
      <4>2. queue'[book[o]] = Tail(queue[b])
        BY <2>1, <3>5 DEF IInv, TypeOK
      <4> QED BY <4>1, <4>2, <3>4, <1>0
    <3>6. CASE book[o] # b
      BY <3>6, <3>3, <3>4, <2>1, <1>0, <3>2 DEF IInv, TypeOK
    <3> QED BY <3>5, <3>6
  <2> QED BY <2>4, <2>5, <2>6, <2>7, <2>8 DEF IInv
<1>2. CASE queue[b] = <<>>
  <2>1. /\ active' = [active EXCEPT ![b] = None]
        /\ queue' = queue
        /\ status' = status
    BY <1>0, <1>2 DEF Release, ProcessQueue, IInv, TypeOK
  <2>2. \A o \in Ops : status[o] = "waiting" => book[o] # b
    BY <1>2 DEF IInv, WaitingBehindActive
  <2>3. QueueHoldsWaiting'
    BY <2>1, <1>0 DEF IInv, QueueHoldsWaiting
  <2>4. ActiveIsStarted'
    BY <2>1, <1>0 DEF IInv, TypeOK, ActiveIsStarted
  <2>5. ExecutingIsActive'
    BY <2>1, <1>0 DEF IInv, TypeOK, ExecutingIsActive
  <2>6. SubmittedHasBook'
    BY <2>1, <1>0 DEF IInv, SubmittedHasBook
  <2>7. WaitingBehindActive'
    BY <2>1, <2>2, <1>0 DEF IInv, TypeOK, WaitingBehindActive, SubmittedHasBook
  <2> QED BY <2>3, <2>4, <2>5, <2>6, <2>7 DEF IInv
<1> QED BY <1>1, <1>2

\* Submitting a write keeps IInv: it either starts on an idle workbook, whose
\* queue is empty, or waits at the end of a busy one's queue.
LEMMA RunWriteKeeps ==
    ASSUME NEW o \in Ops, NEW b \in Books, NEW throws \in BOOLEAN,
           IInv, TypeOK',
           RunWrite(o, b, throws)
    PROVE  IInv'
<1>0. /\ status[o] = "new"
      /\ book' = [book EXCEPT ![o] = b]
      /\ revision' = revision /\ seen' = seen
      /\ queue[b] \in Seq(Ops)
      /\ Len(queue[b]) \in Nat
  BY DEF RunWrite, IInv, TypeOK
<1>1. \A c \in Books : \A i \in DOMAIN queue[c] :
        queue[c][i] \in Ops /\ queue[c][i] # o
  BY <1>0 DEF IInv, TypeOK, QueueHoldsWaiting
<1>2. \A c \in Books : active[c] # o
  BY <1>0, NoneAssumption DEF IInv, ActiveIsStarted
<1>3. CASE active[b] # None
  <2>1. /\ active' = active
        /\ queue' = [queue EXCEPT ![b] = Append(queue[b], o)]
        /\ status' = [status EXCEPT ![o] = "waiting"]
    BY <1>3, <1>0 DEF RunWrite, ProcessQueue, IInv, TypeOK
  <2>2. /\ DOMAIN Append(queue[b], o) = 1..(Len(queue[b]) + 1)
        /\ DOMAIN queue[b] = 1..Len(queue[b])
        /\ Append(queue[b], o)[Len(queue[b]) + 1] = o
        /\ \A i \in DOMAIN queue[b] : Append(queue[b], o)[i] = queue[b][i]
    BY <1>0
  <2>3. QueueHoldsWaiting'
    <3> SUFFICES ASSUME NEW c \in Books, NEW i \in DOMAIN queue'[c]
                 PROVE  /\ status'[queue'[c][i]] = "waiting"
                        /\ book'[queue'[c][i]] = c
                        /\ \A j \in DOMAIN queue'[c] :
                              queue'[c][i] = queue'[c][j] => i = j
      BY DEF QueueHoldsWaiting
    <3>1. CASE c = b
      <4>1. queue'[c] = Append(queue[b], o)
        BY <2>1, <3>1 DEF IInv, TypeOK
      <4>2. CASE i = Len(queue[b]) + 1
        BY <4>1, <4>2, <2>1, <2>2, <1>0, <1>1, <3>1 DEF IInv, TypeOK
      <4>3. CASE i # Len(queue[b]) + 1
        <5>1. i \in DOMAIN queue[b] /\ queue'[c][i] = queue[b][i]
          BY <4>1, <4>3, <2>2
        <5>2. /\ status[queue[b][i]] = "waiting" /\ book[queue[b][i]] = b
              /\ queue[b][i] \in Ops /\ queue[b][i] # o
          BY <5>1, <1>1 DEF IInv, QueueHoldsWaiting
        <5>3. ASSUME NEW j \in DOMAIN queue'[c], queue'[c][i] = queue'[c][j]
              PROVE  i = j
          <6>1. j # Len(queue[b]) + 1
            BY <5>1, <5>2, <5>3, <4>1, <2>2
          <6>2. j \in DOMAIN queue[b] /\ queue[b][i] = queue[b][j]
            BY <6>1, <5>1, <5>3, <4>1, <2>2
          <6> QED BY <6>2, <5>1 DEF IInv, QueueHoldsWaiting
        <5> QED BY <5>1, <5>2, <5>3, <2>1, <1>0, <3>1 DEF IInv, TypeOK
      <4> QED BY <4>2, <4>3
    <3>2. CASE c # b
      <4>1. queue'[c] = queue[c]
        BY <2>1, <3>2 DEF IInv, TypeOK
      <4>2. /\ queue[c][i] \in Ops /\ queue[c][i] # o
            /\ book[queue[c][i]] = c /\ status[queue[c][i]] = "waiting"
        BY <4>1, <1>1 DEF IInv, QueueHoldsWaiting
      <4> QED BY <4>1, <4>2, <2>1, <1>0 DEF IInv, TypeOK, QueueHoldsWaiting
    <3> QED BY <3>1, <3>2
  <2>4. ActiveIsStarted'
    BY <2>1, <1>0, <1>2 DEF IInv, TypeOK, ActiveIsStarted
  <2>5. ExecutingIsActive'
    BY <2>1, <1>0 DEF IInv, TypeOK, ExecutingIsActive
  <2>6. SubmittedHasBook'
    BY <2>1, <1>0 DEF IInv, TypeOK, SubmittedHasBook
  <2>7. WaitingBehindActive'
    <3> SUFFICES ASSUME NEW p \in Ops, status'[p] = "waiting"
                 PROVE  /\ active'[book'[p]] # None
                        /\ \E i \in DOMAIN queue'[book'[p]] : queue'[book'[p]][i] = p
      BY DEF WaitingBehindActive
    <3>1. CASE p = o
      <4>1. book'[p] = b /\ queue'[b] = Append(queue[b], o)
        BY <3>1, <2>1, <1>0 DEF IInv, TypeOK
      <4>2. Len(queue[b]) + 1 \in DOMAIN Append(queue[b], o)
        BY <2>2, <1>0
      <4> QED BY <4>1, <4>2, <3>1, <2>1, <2>2, <1>3
    <3>2. CASE p # o
      <4>1. status[p] = "waiting" /\ book'[p] = book[p] /\ book[p] \in Books
        BY <3>2, <2>1, <1>0 DEF IInv, TypeOK, SubmittedHasBook
      <4>2. PICK i \in DOMAIN queue[book[p]] : queue[book[p]][i] = p
        BY <4>1 DEF IInv, WaitingBehindActive
      <4>3. i \in DOMAIN queue'[book[p]] /\ queue'[book[p]][i] = p
        BY <4>1, <4>2, <2>1, <2>2, <1>0 DEF IInv, TypeOK
      <4>4. active[book[p]] # None
        BY <4>1 DEF IInv, WaitingBehindActive
      <4> QED BY <4>1, <4>3, <4>4, <2>1
    <3> QED BY <3>1, <3>2
  <2> QED BY <2>3, <2>4, <2>5, <2>6, <2>7 DEF IInv
<1>4. CASE active[b] = None
  <2>1. queue[b] = <<>>
    <3>1. \A i \in DOMAIN queue[b] : FALSE
      BY <1>4, <1>1 DEF IInv, QueueHoldsWaiting, WaitingBehindActive
    <3>2. DOMAIN queue[b] = 1..Len(queue[b])
      BY <1>0
    <3>3. 1 \notin 1..Len(queue[b])
      BY <3>1, <3>2
    <3>4. Len(queue[b]) = 0
      BY <3>3, <1>0
    <3> QED BY <3>4, <1>0
  <2>2. Append(queue[b], o) = <<o>>
    BY <2>1
  <2>3. /\ active' = [active EXCEPT ![b] = o]
        /\ queue' = queue
        /\ status' = [status EXCEPT ![o] = IF throws THEN "failed" ELSE "executing"]
    <3>1. /\ Head(<<o>>) = o /\ Tail(<<o>>) = <<>> /\ <<o>> # <<>>
      OBVIOUS
    <3>2. /\ active' = [active EXCEPT ![b] = o]
          /\ queue' = [queue EXCEPT ![b] = <<>>]
          /\ status' = [[status EXCEPT ![o] = "waiting"] EXCEPT ![o] =
                          IF throws THEN "failed" ELSE "executing"]
      BY <2>2, <3>1, <1>4 DEF RunWrite, ProcessQueue
    <3> QED BY <3>2, <2>1, <1>0 DEF IInv, TypeOK
  <2>4. QueueHoldsWaiting'
    BY <2>3, <1>0, <1>1 DEF IInv, TypeOK, QueueHoldsWaiting
  <2>5. ActiveIsStarted'
    BY <2>3, <1>0, <1>2 DEF IInv, TypeOK, ActiveIsStarted
  <2>6. ExecutingIsActive'
    BY <2>3, <1>0, <1>4, NoneAssumption DEF IInv, TypeOK, ExecutingIsActive
  <2>7. SubmittedHasBook'
    BY <2>3, <1>0 DEF IInv, TypeOK, SubmittedHasBook
  <2>8. WaitingBehindActive'
    BY <2>3, <1>0, <1>4, NoneAssumption DEF IInv, TypeOK, SubmittedHasBook, WaitingBehindActive
  <2> QED BY <2>4, <2>5, <2>6, <2>7, <2>8 DEF IInv
<1> QED BY <1>3, <1>4

\* The end of a body, with success or not, keeps IInv.
LEMMA SettleKeeps ==
    ASSUME NEW o \in Ops, IInv, TypeOK', Settle(o)
    PROVE  IInv'
<1>1. PICK r \in {"committed", "failed"} : status' = [status EXCEPT ![o] = r]
  BY DEF Settle, Commit, Fail
<1>2. /\ status[o] = "executing"
      /\ queue' = queue /\ active' = active /\ book' = book
  BY DEF Settle, Commit, Fail
<1>3. QueueHoldsWaiting'
  BY <1>1, <1>2 DEF IInv, TypeOK, QueueHoldsWaiting
<1>4. ActiveIsStarted'
  BY <1>1, <1>2 DEF IInv, TypeOK, ActiveIsStarted
<1>5. ExecutingIsActive'
  BY <1>1, <1>2 DEF IInv, TypeOK, ExecutingIsActive
<1>6. SubmittedHasBook'
  BY <1>1, <1>2 DEF IInv, TypeOK, SubmittedHasBook
<1>7. WaitingBehindActive'
  BY <1>1, <1>2 DEF IInv, TypeOK, WaitingBehindActive
<1> QED BY <1>3, <1>4, <1>5, <1>6, <1>7 DEF IInv

\* IInv is inductive.
LEMMA StepIInv == IInv /\ [Next]_vars => IInv'
<1> SUFFICES ASSUME IInv, [Next]_vars PROVE IInv'
  OBVIOUS
<1>1. TypeOK'
  BY StepTypes DEF IInv
<1>2. CASE UNCHANGED vars
  BY <1>2 DEF vars, IInv, TypeOK, QueueHoldsWaiting, ActiveIsStarted,
     ExecutingIsActive, SubmittedHasBook, WaitingBehindActive
<1> QED BY <1>1, <1>2, RunWriteKeeps, ReleaseKeeps, SettleKeeps DEF Next

\* Every reachable state satisfies IInv.
LEMMA InductiveInvariant == Spec => []IInv
BY InitIInv, StepIInv, PTL DEF Spec

-----------------------------------------------------------------------------
\* The state of the coordinator always has its types, for any number of
\* writes and workbooks.
THEOREM TypeCorrect == Spec => []TypeOK
<1>1. IInv => TypeOK
  BY DEF IInv
<1> QED BY <1>1, InductiveInvariant, PTL

\* "Serialized workbook mutation": never two bodies on one workbook key.
THEOREM SerializedWrites == Spec => []OneWriteAtATime
<1>1. IInv => OneWriteAtATime
  BY DEF IInv, ExecutingIsActive, OneWriteAtATime
<1> QED BY <1>1, InductiveInvariant, PTL

\* A waiting write always has an active write before it, whose end starts
\* the next: the queue cannot be left standing.
THEOREM NoStalledQueue == Spec => []WaitingBehindActive
<1>1. IInv => WaitingBehindActive
  BY DEF IInv
<1> QED BY <1>1, InductiveInvariant, PTL

-----------------------------------------------------------------------------
\* Only a commit changes revisions, what callers are told, or which writes
\* are committed.
LEMMA OnlyCommitCounts ==
    ASSUME IInv, [Next]_vars, \A o \in Ops : ~ Commit(o)
    PROVE  /\ revision' = revision /\ seen' = seen
           /\ \A o \in Ops : status'[o] = "committed" <=> status[o] = "committed"
           /\ \A o \in Ops : status[o] = "committed" => book'[o] = book[o]
<1>1. ASSUME NEW o \in Ops, Fail(o)
      PROVE  /\ revision' = revision /\ seen' = seen /\ book' = book
             /\ \A p \in Ops : status'[p] = "committed" <=> status[p] = "committed"
  BY <1>1 DEF Fail, IInv, TypeOK
<1>2. ASSUME NEW b \in Books, NEW throws \in BOOLEAN, Release(b, throws)
      PROVE  /\ revision' = revision /\ seen' = seen /\ book' = book
             /\ \A p \in Ops : status'[p] = "committed" <=> status[p] = "committed"
  <2>1. CASE queue[b] = <<>>
    BY <1>2, <2>1 DEF Release, ProcessQueue
  <2>2. CASE queue[b] # <<>>
    <3>1. Head(queue[b]) \in Ops /\ Head(queue[b]) = queue[b][1] /\ 1 \in DOMAIN queue[b]
      BY <2>2 DEF IInv, TypeOK
    <3>2. status[Head(queue[b])] = "waiting"
      BY <3>1 DEF IInv, QueueHoldsWaiting
    <3> QED BY <1>2, <2>2, <3>1, <3>2 DEF Release, ProcessQueue, IInv, TypeOK
  <2> QED BY <2>1, <2>2
<1>3. ASSUME NEW o \in Ops, NEW b \in Books, NEW throws \in BOOLEAN,
             RunWrite(o, b, throws)
      PROVE  /\ revision' = revision /\ seen' = seen
             /\ \A p \in Ops : status'[p] = "committed" <=> status[p] = "committed"
             /\ \A p \in Ops : status[p] = "committed" => book'[p] = book[p]
  <2>1. queue[b] \in Seq(Ops)
    BY DEF IInv, TypeOK
  <2> DEFINE h == Head(Append(queue[b], o))
  <2>2. CASE queue[b] = <<>>
    <3>1. h = o
      BY <2>2
    <3> QED BY <1>3, <3>1 DEF RunWrite, ProcessQueue, IInv, TypeOK
  <2>3. CASE queue[b] # <<>>
    <3>1. active[b] # None
      <4>1. queue[b][1] \in Ops /\ 1 \in DOMAIN queue[b]
        BY <2>1, <2>3
      <4> QED BY <4>1 DEF IInv, QueueHoldsWaiting, WaitingBehindActive
    <3> QED BY <1>3, <3>1 DEF RunWrite, ProcessQueue, IInv, TypeOK
  <2> QED BY <2>2, <2>3
<1>4. CASE UNCHANGED vars
  BY <1>4 DEF vars
<1> QED BY <1>1, <1>2, <1>3, <1>4 DEF Next, Settle

\* Every step keeps the handed-out revisions different: a commit hands out
\* one above every revision handed out before it.
LEMMA StepRevisions ==
    IInv /\ IInv' /\ RevisionsIdentifyWrites /\ [Next]_vars => RevisionsIdentifyWrites'
<1> SUFFICES ASSUME IInv, IInv', RevisionsIdentifyWrites, [Next]_vars
             PROVE  RevisionsIdentifyWrites'
  OBVIOUS
<1>1. ASSUME NEW o \in Ops, Commit(o)
      PROVE  RevisionsIdentifyWrites'
  <2>1. /\ status[o] = "executing" /\ book[o] \in Books /\ book' = book
        /\ revision' = [revision EXCEPT ![book[o]] = revision[book[o]] + 1]
        /\ seen' = [seen EXCEPT ![o] = revision[book[o]] + 1]
        /\ status' = [status EXCEPT ![o] = "committed"]
    BY <1>1 DEF Commit, IInv, SubmittedHasBook
  <2>2. SUFFICES ASSUME NEW p \in Ops, status'[p] = "committed"
                 PROVE  /\ seen'[p] \in 1..revision'[book'[p]]
                        /\ \A r \in Committed(book[p])' \ {p} : seen'[r] # seen'[p]
    BY <2>1 DEF RevisionsIdentifyWrites, Committed
  <2>3. \A r \in Ops : status'[r] = "committed" =>
           r = o \/ (status[r] = "committed" /\ seen'[r] = seen[r])
    BY <2>1 DEF IInv, TypeOK
  <2>4. \A r \in Ops : status[r] = "committed" =>
           /\ book[r] \in Books /\ revision[book[r]] \in Nat
           /\ seen[r] \in 1..revision[book[r]]
    BY DEF IInv, TypeOK, SubmittedHasBook, RevisionsIdentifyWrites
  <2>5. /\ revision[book[o]] \in Nat
        /\ revision'[book[o]] = revision[book[o]] + 1
        /\ seen'[o] = revision[book[o]] + 1
        /\ \A c \in Books : revision[c] \in Nat /\ revision'[c] >= revision[c] /\ revision'[c] \in Nat
    BY <2>1 DEF IInv, TypeOK
  <2>6. seen'[p] \in 1..revision'[book'[p]]
    BY <2>1, <2>2, <2>3, <2>4, <2>5
  <2>7. ASSUME NEW r \in Ops, r # p, status'[r] = "committed", book[r] = book[p]
        PROVE  seen'[r] # seen'[p]
    <3>1. CASE r = o
      <4>1. status[p] = "committed" /\ seen'[p] = seen[p]
        BY <2>2, <2>3, <2>7, <3>1
      <4>2. seen[p] <= revision[book[o]] /\ seen[p] \in Nat
        BY <4>1, <2>4, <2>7, <3>1
      <4> QED BY <4>1, <4>2, <2>5, <3>1
    <3>2. CASE p = o
      <4>1. status[r] = "committed" /\ seen'[r] = seen[r]
        BY <2>3, <2>7, <3>2
      <4>2. seen[r] <= revision[book[o]] /\ seen[r] \in Nat
        BY <4>1, <2>4, <2>7, <3>2
      <4> QED BY <4>1, <4>2, <2>5, <3>2
    <3>3. CASE r # o /\ p # o
      BY <3>3, <2>2, <2>3, <2>7 DEF RevisionsIdentifyWrites, Committed
    <3> QED BY <3>1, <3>2, <3>3
  <2>8. \A r \in Committed(book[p])' \ {p} :
           r \in Ops /\ status'[r] = "committed" /\ (book[p])' = book'[r] /\ r # p
    BY DEF Committed
  <2> QED BY <2>6, <2>7, <2>8, <2>1
<1>2. CASE \A o \in Ops : ~ Commit(o)
  <2>1. /\ revision' = revision /\ seen' = seen
        /\ \A o \in Ops : status'[o] = "committed" <=> status[o] = "committed"
        /\ \A o \in Ops : status[o] = "committed" => book'[o] = book[o]
    BY <1>2, OnlyCommitCounts
  <2> QED BY <2>1 DEF RevisionsIdentifyWrites, Committed
<1> QED BY <1>1, <1>2

\* Every successful write of a workbook is told a revision of its own.
THEOREM DistinctRevisions == Spec => []RevisionsIdentifyWrites
<1>1. Init => RevisionsIdentifyWrites
  BY DEF Init, RevisionsIdentifyWrites, Committed
<1> QED BY <1>1, InductiveInvariant, StepRevisions, PTL DEF Spec

\* Every step keeps the revision equal to the number of successful writes.
LEMMA StepCounts ==
    IInv /\ IInv' /\ RevisionCountsCommits /\ [Next]_vars => RevisionCountsCommits'
<1> SUFFICES ASSUME IInv, IInv', RevisionCountsCommits, [Next]_vars,
                    NEW b \in Books
             PROVE  revision'[b] = Cardinality(Committed(b)')
  BY DEF RevisionCountsCommits
<1>1. IsFiniteSet(Committed(b))
  <2>1. Committed(b) \in SUBSET Ops
    BY DEF Committed
  <2> QED BY <2>1, OpsAssumption, FS_Subset
<1>2. ASSUME NEW o \in Ops, Commit(o)
      PROVE  revision'[b] = Cardinality(Committed(b)')
  <2>1. /\ status[o] = "executing" /\ book[o] \in Books /\ book' = book
        /\ revision' = [revision EXCEPT ![book[o]] = revision[book[o]] + 1]
        /\ status' = [status EXCEPT ![o] = "committed"]
    BY <1>2 DEF Commit, IInv, SubmittedHasBook
  <2>2. CASE book[o] = b
    <3>1. Committed(b)' = Committed(b) \cup {o} /\ o \notin Committed(b)
      BY <2>1, <2>2 DEF Committed, IInv, TypeOK
    <3>2. Cardinality(Committed(b) \cup {o}) = Cardinality(Committed(b)) + 1
      BY <1>1, <3>1, FS_AddElement
    <3>3. revision'[b] = revision[b] + 1 /\ revision[b] = Cardinality(Committed(b))
      BY <2>1, <2>2 DEF IInv, TypeOK, RevisionCountsCommits
    <3> QED BY <3>1, <3>2, <3>3
  <2>3. CASE book[o] # b
    <3>1. Committed(b)' = Committed(b)
      BY <2>1, <2>3 DEF Committed, IInv, TypeOK
    <3>2. revision'[b] = revision[b]
      BY <2>1, <2>3 DEF IInv, TypeOK
    <3> QED BY <3>1, <3>2 DEF RevisionCountsCommits
  <2> QED BY <2>2, <2>3
<1>3. CASE \A o \in Ops : ~ Commit(o)
  <2>1. /\ revision' = revision
        /\ \A o \in Ops : status'[o] = "committed" <=> status[o] = "committed"
        /\ \A o \in Ops : status[o] = "committed" => book'[o] = book[o]
    BY <1>3, OnlyCommitCounts
  <2>2. Committed(b)' = Committed(b)
    BY <2>1 DEF Committed
  <2> QED BY <2>1, <2>2 DEF RevisionCountsCommits
<1> QED BY <1>2, <1>3

\* A workbook's revision is the number of writes that succeeded on it.
THEOREM RevisionIsCommitCount == Spec => []RevisionCountsCommits
<1>1. Init => RevisionCountsCommits
  <2> SUFFICES ASSUME Init, NEW b \in Books
               PROVE  revision[b] = Cardinality(Committed(b))
    BY DEF RevisionCountsCommits
  <2>1. Committed(b) = {} /\ revision[b] = 0
    BY DEF Init, Committed
  <2> QED BY <2>1, FS_EmptySet
<1> QED BY <1>1, InductiveInvariant, StepCounts, PTL DEF Spec

-----------------------------------------------------------------------------
\* A sequence of writes with one put in front: its head, its tail and its
\* elements.
LEMMA Cons ==
    ASSUME NEW e \in Ops, NEW s \in Seq(Ops)
    PROVE  /\ <<e>> \o s \in Seq(Ops)
           /\ <<e>> \o s # <<>>
           /\ Head(<<e>> \o s) = e
           /\ Tail(<<e>> \o s) = s
           /\ \A i \in DOMAIN (<<e>> \o s) :
                 (<<e>> \o s)[i] = e \/ \E j \in DOMAIN s : (<<e>> \o s)[i] = s[j]
<1> DEFINE t == <<e>> \o s
<1>0. <<e>> \in Seq(Ops) /\ Len(<<e>>) = 1 /\ <<e>>[1] = e /\ Len(s) \in Nat
  OBVIOUS
<1>1. /\ t \in Seq(Ops) /\ Len(t) = Len(s) + 1
      /\ \A i \in 1..Len(t) : t[i] = IF i <= 1 THEN e ELSE s[i - 1]
  BY <1>0, ConcatProperties
<1> HIDE DEF t
<1>2. t # <<>> /\ t[1] = e
  BY <1>0, <1>1
<1>3. Tail(t) = s
  <2>1. /\ Tail(t) \in Seq(Ops) /\ Len(Tail(t)) = Len(t) - 1
        /\ \A i \in 1..Len(Tail(t)) : Tail(t)[i] = t[i + 1]
    BY <1>1, <1>2, HeadTailProperties
  <2>2. \A i \in 1..Len(s) : Tail(t)[i] = s[i]
    BY <2>1, <1>1, <1>0
  <2> QED BY <2>1, <2>2, <1>1, <1>0, SeqEqual
<1>5. Head(t) = e
  BY <1>1, <1>2
<1>6. \A i \in DOMAIN t : t[i] = e \/ \E j \in DOMAIN s : t[i] = s[j]
  <2>1. SUFFICES ASSUME NEW i \in 1..Len(t), i > 1
                 PROVE  \E j \in DOMAIN s : t[i] = s[j]
    BY <1>1, <1>0
  <2>2. i - 1 \in DOMAIN s /\ t[i] = s[i - 1]
    BY <2>1, <1>1, <1>0
  <2> QED BY <2>2
<1> QED BY <1>1, <1>2, <1>3, <1>5, <1>6 DEF t

\* Appending behind an element put in front.
LEMMA ConsAppend ==
    ASSUME NEW e \in Ops, NEW s \in Seq(Ops), NEW x \in Ops
    PROVE  Append(<<e>> \o s, x) = <<e>> \o Append(s, x)
<1>1. /\ <<e>> \in Seq(Ops) /\ <<x>> \in Seq(Ops)
      /\ <<e>> \o s \in Seq(Ops)
  BY Cons
<1>2. /\ Append(<<e>> \o s, x) = (<<e>> \o s) \o <<x>>
      /\ Append(s, x) = s \o <<x>>
  BY <1>1
<1> QED BY <1>1, <1>2, ConcatAssociative

\* The head of a sequence put back in front of its tail.
LEMMA HeadTail ==
    ASSUME NEW s \in Seq(Ops), s # <<>>
    PROVE  <<Head(s)>> \o Tail(s) = s
<1>1. Head(s) \in Ops /\ Tail(s) \in Seq(Ops) /\ Head(s) = s[1] /\ Len(s) \in Nat
  OBVIOUS
<1>2. /\ Len(Tail(s)) = Len(s) - 1
      /\ \A i \in 1..Len(Tail(s)) : Tail(s)[i] = s[i + 1]
  BY HeadTailProperties
<1> DEFINE t == <<Head(s)>> \o Tail(s)
<1>3. /\ <<Head(s)>> \in Seq(Ops) /\ Len(<<Head(s)>>) = 1 /\ <<Head(s)>>[1] = Head(s)
  BY <1>1
<1>4. /\ t \in Seq(Ops) /\ Len(t) = 1 + Len(Tail(s))
      /\ \A i \in 1..Len(t) : t[i] = IF i <= 1 THEN <<Head(s)>>[i] ELSE Tail(s)[i - 1]
  BY <1>1, <1>3, ConcatProperties
<1> HIDE DEF t
<1>5. Len(t) = Len(s)
  BY <1>1, <1>2, <1>4
<1>6. \A i \in 1..Len(s) : t[i] = s[i]
  BY <1>1, <1>2, <1>3, <1>4, <1>5
<1> QED BY <1>4, <1>5, <1>6, SeqEqual DEF t

\* The line that a workbook's queue and active write stand for, as SerialWrites
\* reads it.
AbsLine == [b \in Books |-> Line(b)]
AbsResult == [o \in Ops |-> Result(o)]

\* Lines are sequences of writes that have no result yet, none of them new.
LEMMA LineHoldsUnsettled ==
    ASSUME IInv, NEW b \in Books
    PROVE  /\ Line(b) \in Seq(Ops)
           /\ \A i \in DOMAIN Line(b) : status[Line(b)[i]] \in {"waiting", "executing"}
<1>1. /\ queue[b] \in Seq(Ops)
      /\ \A i \in DOMAIN queue[b] : status[queue[b][i]] = "waiting"
  BY DEF IInv, TypeOK, QueueHoldsWaiting
<1>2. CASE active[b] # None /\ status[active[b]] = "executing"
  <2>1. active[b] \in Ops /\ Line(b) = <<active[b]>> \o queue[b]
    BY <1>2 DEF Line, IInv, TypeOK
  <2>2. /\ Line(b) \in Seq(Ops)
        /\ \A i \in DOMAIN Line(b) :
              Line(b)[i] = active[b] \/ \E j \in DOMAIN queue[b] : Line(b)[i] = queue[b][j]
    BY <2>1, <1>1, Cons
  <2> QED BY <2>2, <1>1, <1>2
<1>3. CASE ~(active[b] # None /\ status[active[b]] = "executing")
  BY <1>1, <1>3 DEF Line
<1> QED BY <1>2, <1>3

\* Submitting a write is Join, or JoinAndFail when its body throws at once on
\* an idle workbook.
LEMMA RunWriteRefines ==
    ASSUME IInv, IInv', NEW o \in Ops, NEW b \in Books, NEW throws \in BOOLEAN,
           RunWrite(o, b, throws)
    PROVE  Serial!Join(o, b) \/ Serial!JoinAndFail(o, b)
<1>1. AbsResult[o] = "none"
  BY DEF RunWrite, AbsResult, Result, Settled
<1>2. \A d \in Books : \A i \in DOMAIN AbsLine[d] : AbsLine[d][i] # o
  BY LineHoldsUnsettled DEF RunWrite, AbsLine
<1>3. queue[b] \in Seq(Ops) /\ revision' = revision
  BY DEF RunWrite, IInv, TypeOK
<1>4. CASE active[b] # None
  <2>1. /\ active' = active
        /\ queue' = [queue EXCEPT ![b] = Append(queue[b], o)]
        /\ status' = [status EXCEPT ![o] = "waiting"]
    BY <1>4 DEF RunWrite, ProcessQueue, IInv, TypeOK
  <2>2. \A c \in Books : active[c] # o
    BY NoneAssumption DEF RunWrite, IInv, ActiveIsStarted
  <2>3. \A c \in Books : active[c] # None => status'[active[c]] = status[active[c]]
    BY <2>1, <2>2 DEF IInv, TypeOK
  <2>4. Line(b)' = Append(Line(b), o)
    <3>1. CASE status[active[b]] = "executing"
      <4>1. /\ Line(b) = <<active[b]>> \o queue[b]
            /\ Line(b)' = <<active[b]>> \o Append(queue[b], o)
        BY <3>1, <1>4, <2>1, <2>3 DEF Line, IInv, TypeOK
      <4>2. active[b] \in Ops
        BY <1>4 DEF IInv, TypeOK
      <4> QED BY <4>1, <4>2, <1>3, ConsAppend
    <3>2. CASE status[active[b]] # "executing"
      BY <3>2, <1>4, <2>1, <2>3 DEF Line, IInv, TypeOK
    <3> QED BY <3>1, <3>2
  <2>5. \A c \in Books \ {b} : Line(c)' = Line(c)
    BY <2>1, <2>3 DEF Line, IInv, TypeOK
  <2>6. AbsLine' = [AbsLine EXCEPT ![b] = Append(AbsLine[b], o)]
    BY <2>4, <2>5 DEF AbsLine
  <2>7. AbsResult' = AbsResult
    BY <2>1 DEF RunWrite, AbsResult, Result, Settled, IInv, TypeOK
  <2> QED BY <1>1, <1>2, <1>3, <2>6, <2>7 DEF Serial!Join, AbsLine, AbsResult
<1>5. CASE active[b] = None
  <2>1. queue[b] = <<>>
    <3>1. CASE queue[b] # <<>>
      <4>1. queue[b][1] \in Ops /\ 1 \in DOMAIN queue[b]
        BY <1>3, <3>1
      <4> QED BY <4>1, <1>5 DEF IInv, QueueHoldsWaiting, WaitingBehindActive
    <3> QED BY <3>1
  <2>2. /\ Append(queue[b], o) = <<o>> /\ Head(<<o>>) = o
        /\ Tail(<<o>>) = <<>> /\ <<o>> # <<>>
    BY <2>1
  <2>3. /\ active' = [active EXCEPT ![b] = o]
        /\ queue' = queue
        /\ status' = [status EXCEPT ![o] = IF throws THEN "failed" ELSE "executing"]
    <3>1. /\ active' = [active EXCEPT ![b] = o]
          /\ queue' = [queue EXCEPT ![b] = <<>>]
          /\ status' = [[status EXCEPT ![o] = "waiting"] EXCEPT ![o] =
                          IF throws THEN "failed" ELSE "executing"]
      BY <2>2, <1>5 DEF RunWrite, ProcessQueue
    <3> QED BY <3>1, <2>1 DEF IInv, TypeOK
  <2>4. Line(b) = <<>>
    BY <1>5, <2>1 DEF Line
  <2>5. \A c \in Books \ {b} : Line(c)' = Line(c)
    <3>1. \A c \in Books : active[c] # o
      BY NoneAssumption DEF RunWrite, IInv, ActiveIsStarted
    <3> QED BY <3>1, <2>3 DEF Line, IInv, TypeOK
  <2>6. CASE throws
    <3>1. Line(b)' = <<>>
      BY <2>6, <2>1, <2>3 DEF Line, IInv, TypeOK
    <3>2. AbsLine' = AbsLine
      BY <3>1, <2>4, <2>5 DEF AbsLine
    <3>3. AbsResult' = [AbsResult EXCEPT ![o] = "failed"]
      BY <2>6, <2>3 DEF AbsResult, Result, Settled, IInv, TypeOK
    <3>4. AbsLine[b] = <<>>
      BY <2>4 DEF AbsLine
    <3> QED BY <1>1, <1>2, <1>3, <3>2, <3>3, <3>4
        DEF Serial!JoinAndFail, AbsLine, AbsResult
  <2>7. CASE ~throws
    <3>1. Line(b)' = <<o>> \o <<>>
      BY <2>7, <2>1, <2>3, NoneAssumption DEF Line, IInv, TypeOK
    <3>2. <<o>> \o <<>> = Append(<<>>, o)
      <4>1. <<o>> \in Seq(Ops)
        OBVIOUS
      <4> QED BY <4>1, ConcatEmptySeq
    <3>3. AbsLine' = [AbsLine EXCEPT ![b] = Append(AbsLine[b], o)]
      BY <3>1, <3>2, <2>4, <2>5 DEF AbsLine
    <3>4. AbsResult' = AbsResult
      BY <2>7, <2>3 DEF RunWrite, AbsResult, Result, Settled, IInv, TypeOK
    <3> QED BY <1>1, <1>2, <1>3, <3>3, <3>4 DEF Serial!Join, AbsLine, AbsResult
  <2> QED BY <2>6, <2>7
<1> QED BY <1>4, <1>5

\* The end of a body is Finish: the write that ends is the head of its line.
LEMMA SettleRefines ==
    ASSUME IInv, IInv', NEW o \in Ops, Settle(o)
    PROVE  Serial!Finish(book[o])
<1>0. PICK b \in Books : book[o] = b
  BY DEF Settle, Commit, Fail, IInv, ExecutingIsActive
<1>1. /\ status[o] = "executing" /\ active[b] = o
      /\ queue' = queue /\ active' = active
      /\ queue[b] \in Seq(Ops)
  BY <1>0 DEF Settle, Commit, Fail, IInv, ExecutingIsActive, TypeOK
<1>2. PICK r \in {"committed", "failed"} :
        /\ status' = [status EXCEPT ![o] = r]
        /\ revision' = IF r = "committed"
                       THEN [revision EXCEPT ![b] = revision[b] + 1] ELSE revision
  BY <1>0 DEF Settle, Commit, Fail
<1>3. Line(b) = <<o>> \o queue[b]
  BY <1>1, NoneAssumption DEF Line
<1>4. Line(b) # <<>> /\ Head(Line(b)) = o /\ Tail(Line(b)) = queue[b]
  BY <1>1, <1>3, Cons
<1>5. Line(b)' = queue[b]
  BY <1>1, <1>2 DEF Line, IInv, TypeOK
<1>6. \A c \in Books \ {b} : Line(c)' = Line(c)
  <2>1. \A c \in Books \ {b} : active[c] # o
    BY <1>0, NoneAssumption DEF IInv, ActiveIsStarted
  <2> QED BY <2>1, <1>1, <1>2 DEF Line, IInv, TypeOK
<1>7. AbsLine' = [AbsLine EXCEPT ![b] = Tail(AbsLine[b])]
  BY <1>1, <1>4, <1>5, <1>6 DEF AbsLine
<1>8. AbsResult' = [AbsResult EXCEPT ![o] = r]
  BY <1>2 DEF AbsResult, Result, Settled, IInv, TypeOK
<1>9. AbsLine[b] # <<>> /\ Head(AbsLine[b]) = o
  BY <1>1, <1>4 DEF AbsLine
<1> QED BY <1>0, <1>1, <1>2, <1>7, <1>8, <1>9 DEF Serial!Finish, AbsLine, AbsResult

\* The hand-over is invisible, unless the started body throws at once: then
\* it finishes.
LEMMA ReleaseRefines ==
    ASSUME IInv, IInv', NEW b \in Books, NEW throws \in BOOLEAN,
           Release(b, throws)
    PROVE  Serial!Finish(b) \/ UNCHANGED Serial!vars
<1>1. /\ active[b] \in Ops /\ status[active[b]] # "executing"
      /\ revision' = revision
      /\ queue[b] \in Seq(Ops)
      /\ Line(b) = queue[b]
  BY DEF Release, Settled, Line, IInv, TypeOK
<1>2. CASE queue[b] = <<>>
  <2>1. /\ active' = [active EXCEPT ![b] = None]
        /\ queue' = queue
        /\ status' = status
    BY <1>1, <1>2 DEF Release, ProcessQueue, IInv, TypeOK
  <2>2. \A c \in Books : Line(c)' = Line(c)
    BY <2>1, <1>1 DEF Line, IInv, TypeOK
  <2>3. AbsLine' = AbsLine /\ AbsResult' = AbsResult
    BY <2>1, <2>2 DEF AbsLine, AbsResult, Result, Settled
  <2> QED BY <1>1, <2>3 DEF Serial!vars, AbsLine, AbsResult
<1>3. CASE queue[b] # <<>>
  <2> DEFINE h == Head(queue[b])
  <2>1. /\ h \in Ops /\ h = queue[b][1] /\ 1 \in DOMAIN queue[b]
        /\ Tail(queue[b]) \in Seq(Ops)
        /\ active' = [active EXCEPT ![b] = h]
        /\ queue' = [queue EXCEPT ![b] = Tail(queue[b])]
        /\ status' = [status EXCEPT ![h] = IF throws THEN "failed" ELSE "executing"]
    BY <1>1, <1>3 DEF Release, ProcessQueue
  <2>2. status[h] = "waiting" /\ book[h] = b
    BY <2>1 DEF IInv, QueueHoldsWaiting
  <2>3. \A c \in Books \ {b} : Line(c)' = Line(c)
    <3>1. \A c \in Books : active[c] # None => active[c] # h
      BY <2>2 DEF IInv, ActiveIsStarted
    <3> QED BY <3>1, <2>1 DEF Line, IInv, TypeOK
  <2>4. CASE ~throws
    <3>1. Line(b)' = <<h>> \o Tail(queue[b])
      BY <2>1, <2>4, NoneAssumption DEF Line, IInv, TypeOK
    <3>2. Line(b)' = Line(b)
      BY <3>1, <1>1, <1>3, HeadTail
    <3>3. AbsLine' = AbsLine
      BY <3>2, <2>3 DEF AbsLine
    <3>4. AbsResult' = AbsResult
      BY <2>1, <2>2, <2>4 DEF AbsResult, Result, Settled, IInv, TypeOK
    <3> QED BY <1>1, <3>3, <3>4 DEF Serial!vars, AbsLine, AbsResult
  <2>5. CASE throws
    <3>1. Line(b)' = Tail(queue[b])
      BY <2>1, <2>5 DEF Line, IInv, TypeOK
    <3>2. AbsLine' = [AbsLine EXCEPT ![b] = Tail(AbsLine[b])]
      BY <3>1, <1>1, <2>3 DEF AbsLine
    <3>3. AbsResult' = [AbsResult EXCEPT ![h] = "failed"]
      BY <2>1, <2>5 DEF AbsResult, Result, Settled, IInv, TypeOK
    <3>4. AbsLine[b] # <<>> /\ Head(AbsLine[b]) = h
      BY <1>1, <1>3 DEF AbsLine
    <3> QED BY <1>1, <3>2, <3>3, <3>4 DEF Serial!Finish, AbsLine, AbsResult
  <2> QED BY <2>4, <2>5
<1> QED BY <1>2, <1>3

\* The coordinator implements SerialWrites: writes of one workbook finish in
\* the order they were submitted, one at a time.
THEOREM CoordinatorImplementsSerialWrites == Spec => ImplementsSerialWrites
<1>1. Init => Serial!Init
  BY DEF Init, Serial!Init, Line, Result, Settled
<1>2. IInv /\ IInv' /\ [Next]_vars => [Serial!Next]_(Serial!vars)
  <2> SUFFICES ASSUME IInv, IInv', [Next]_vars
               PROVE  Serial!Next \/ UNCHANGED Serial!vars
    OBVIOUS
  <2>1. ASSUME NEW o \in Ops, NEW b \in Books, NEW throws \in BOOLEAN,
               RunWrite(o, b, throws)
        PROVE  Serial!Next
    BY <2>1, RunWriteRefines DEF Serial!Next
  <2>2. ASSUME NEW b \in Books, NEW throws \in BOOLEAN, Release(b, throws)
        PROVE  Serial!Next \/ UNCHANGED Serial!vars
    BY <2>2, ReleaseRefines DEF Serial!Next
  <2>3. ASSUME NEW o \in Ops, Settle(o)
        PROVE  Serial!Next
    <3>1. book[o] \in Books
      BY <2>3 DEF Settle, Commit, Fail, IInv, ExecutingIsActive
    <3> QED BY <2>3, <3>1, SettleRefines DEF Serial!Next
  <2>4. CASE UNCHANGED vars
    BY <2>4 DEF vars, Serial!vars, Line, Result, Settled
  <2> QED BY <2>1, <2>2, <2>3, <2>4 DEF Next
<1> QED BY <1>1, <1>2, InductiveInvariant, PTL
    DEF Spec, ImplementsSerialWrites, Serial!Spec

-----------------------------------------------------------------------------
\* The tool wrapper.

\* What the wrapper keeps so that it calls the coordinator as it must: abort
\* signals are flags, the document has a key, and a call that will be queued
\* has a workbook.
CallsWellFormed ==
    /\ aborted \in [Ops -> BOOLEAN]
    /\ phase \in [Ops -> Phases]
    /\ target \in [Ops -> Books \cup {None}]
    /\ document \in Books
    /\ \A o \in Ops : phase[o] \in {"deciding", "approving"} => target[o] \in Books

\* Initially so.
LEMMA InitCallsWellFormed == ToolsInit => CallsWellFormed
BY ToolsAssumption DEF ToolsInit, CallsWellFormed, Phases

\* The abort signals stay flags.
LEMMA AbortedByTypes ==
    ASSUME NEW s, CallsWellFormed
    PROVE  AbortedBy(s) \in [Ops -> BOOLEAN]
BY DEF AbortedBy, CallsWellFormed, IsTool, InFlight

-----------------------------------------------------------------------------
\* A call step, as the coordinator sees it, and what it leaves of the wrapper.
LEMMA CallStepKeeps ==
    ASSUME CallsWellFormed, NEW o \in Ops, CallStep(o)
    PROVE  CallsWellFormed'
<1>1. aborted' = aborted /\ document' = document
  BY DEF CallStep, Begin, IdentifiedRead, IdentifiedWrite, IdentifiedRestore,
         Decided, Approved, Denied, ReadEnds, WriteEnds, Resume, BridgeCall,
         BridgeCallEnds, paneVars, callVars
<1>2. \/ phase' = phase /\ target' = target
      \/ /\ \E p \in Phases \ {"deciding", "approving"} : phase' = [phase EXCEPT ![o] = p]
         /\ target' = target
      \/ /\ \E p \in Phases : phase' = [phase EXCEPT ![o] = p]
         /\ target' = [target EXCEPT ![o] = document]
  BY DEF CallStep, Begin, IdentifiedRead, IdentifiedWrite, IdentifiedRestore,
         Decided, Approved, Denied, ReadEnds, WriteEnds, Resume, BridgeCall,
         BridgeCallEnds, callVars, Submit, Reject, Phases
<1> QED BY <1>1, <1>2 DEF CallsWellFormed

\* Every step keeps the wrapper's invariant.
LEMMA StepCallsWellFormed == CallsWellFormed /\ [ToolsNext]_toolVars => CallsWellFormed'
<1> SUFFICES ASSUME CallsWellFormed, [ToolsNext]_toolVars
             PROVE  CallsWellFormed'
  OBVIOUS
<1>1. ASSUME NEW o \in Ops, CallStep(o) PROVE CallsWellFormed'
  BY <1>1, CallStepKeeps
<1>2. ASSUME NEW b \in Books, HandOver(b) PROVE CallsWellFormed'
  BY <1>2 DEF HandOver, CallsWellFormed, callVars, paneVars
<1>3. ASSUME NEW s \in Sessions, TabStep(s) PROVE CallsWellFormed'
  <2>1. /\ phase' = phase /\ target' = target /\ document' = document
        /\ aborted' = aborted \/ aborted' = AbortedBy(s)
    BY <1>3 DEF TabStep, Abort, CloseTab, StopAndClose, KeepOpen, CloseSaved,
                ReplaceSession, callVars, paneVars
  <2> QED BY <2>1, AbortedByTypes DEF CallsWellFormed
<1>4. CASE ToggleMode
  BY <1>4 DEF ToggleMode, CallsWellFormed, callVars
<1>5. CASE Rename
  BY <1>5 DEF Rename, CallsWellFormed, callVars
<1>6. CASE UNCHANGED toolVars
  BY <1>6 DEF toolVars, callVars, paneVars, CallsWellFormed
<1> QED BY <1>1, <1>2, <1>3, <1>4, <1>5, <1>6 DEF ToolsNext

\* The wrapper's invariant and the coordinator's hold together.
LEMMA ToolsInitIInv == ToolsInit => IInv
<1>1. ToolsInit => Init
  BY DEF ToolsInit
<1> QED BY <1>1, InitIInv

-----------------------------------------------------------------------------
\* Queueing a write is the coordinator's runWrite.
LEMMA SubmitIsRunWrite ==
    ASSUME CallsWellFormed, TypeOK, NEW o \in Ops, NEW b \in Books, Submit(o, b)
    PROVE  \E throws \in BOOLEAN : RunWrite(o, b, throws)
<1> DEFINE q == Append(queue[b], o)
<1>1. queue[b] \in Seq(Ops)
  BY DEF TypeOK
<1>2. Head(q) \in Ops
  <2>1. q \in Seq(Ops) /\ Len(q) = Len(queue[b]) + 1 /\ Len(queue[b]) \in Nat
    BY <1>1
  <2>2. q # <<>>
    BY <2>1
  <2> QED BY <2>1, <2>2
<1>3. Throws(Head(q)) \in BOOLEAN
  BY <1>2 DEF Throws, CallsWellFormed
<1>4. RunWrite(o, b, Throws(Head(q)))
  BY DEF Submit
<1> QED BY <1>3, <1>4

\* The hand-over is the coordinator's.
LEMMA HandOverIsRelease ==
    ASSUME CallsWellFormed, TypeOK, NEW b \in Books, HandOver(b)
    PROVE  \E throws \in BOOLEAN : Release(b, throws)
<1> DEFINE throws == queue[b] # <<>> /\ Throws(Head(queue[b]))
<1>1. queue[b] \in Seq(Ops)
  BY DEF TypeOK
<1>2. throws \in BOOLEAN
  <2>1. CASE queue[b] = <<>>
    BY <2>1
  <2>2. CASE queue[b] # <<>>
    <3>1. Head(queue[b]) \in Ops
      BY <1>1, <2>2
    <3> QED BY <3>1, <2>2 DEF Throws, CallsWellFormed
  <2> QED BY <2>1, <2>2
<1>3. Release(b, throws)
  BY DEF HandOver
<1> QED BY <1>2, <1>3

\* A call step is a step of the coordinator, or leaves it alone.
LEMMA CallStepRefines ==
    ASSUME CallsWellFormed, TypeOK, NEW o \in Ops, CallStep(o)
    PROVE  [Next]_vars
<1>1. CASE Begin(o) \/ IdentifiedRead(o) \/ IdentifiedWrite(o) \/ Denied(o)
           \/ ReadEnds(o) \/ Resume(o) \/ BridgeCall(o) \/ BridgeCallEnds(o)
  BY <1>1 DEF Begin, IdentifiedRead, IdentifiedWrite, Denied, ReadEnds, Resume,
              BridgeCall, BridgeCallEnds, Reject, coordVars, vars
<1>2. CASE IdentifiedRestore(o)
  <2>1. Submit(o, document) /\ document \in Books
    BY <1>2 DEF IdentifiedRestore, CallsWellFormed
  <2> QED BY <2>1, SubmitIsRunWrite DEF Next
<1>3. CASE Decided(o) \/ Approved(o)
  <2>1. CASE Reject(o)
    BY <2>1 DEF Reject, coordVars, vars
  <2>2. CASE Submit(o, target[o])
    <3>1. target[o] \in Books
      BY <1>3 DEF Decided, Approved, CallsWellFormed
    <3> QED BY <3>1, <2>2, SubmitIsRunWrite DEF Next
  <2> QED BY <1>3, <2>1, <2>2 DEF Decided, Approved
<1>4. CASE WriteEnds(o)
  BY <1>4 DEF WriteEnds, Next
<1> QED BY <1>1, <1>2, <1>3, <1>4 DEF CallStep

\* Every step of the pane is a step of the coordinator, or leaves it alone.
LEMMA StepRefines ==
    CallsWellFormed /\ TypeOK /\ [ToolsNext]_toolVars => [Next]_vars
<1> SUFFICES ASSUME CallsWellFormed, TypeOK, [ToolsNext]_toolVars
             PROVE  [Next]_vars
  OBVIOUS
<1>1. ASSUME NEW o \in Ops, CallStep(o) PROVE [Next]_vars
  BY <1>1, CallStepRefines
<1>2. ASSUME NEW b \in Books, HandOver(b) PROVE [Next]_vars
  BY <1>2, HandOverIsRelease DEF Next
<1>3. ASSUME NEW s \in Sessions, TabStep(s) PROVE UNCHANGED vars
  BY <1>3 DEF TabStep, Abort, CloseTab, StopAndClose, KeepOpen, CloseSaved,
              ReplaceSession, coordVars, vars
<1>4. CASE ToggleMode \/ Rename \/ UNCHANGED toolVars
  BY <1>4 DEF ToggleMode, Rename, toolVars, coordVars, vars
<1> QED BY <1>1, <1>2, <1>3, <1>4 DEF ToolsNext

\* The invariant of the whole pane.
PaneInv == CallsWellFormed /\ IInv

\* PaneInv is kept.
LEMMA StepPaneInv == PaneInv /\ [ToolsNext]_toolVars => PaneInv'
<1>1. IInv => TypeOK
  BY DEF IInv
<1> QED BY <1>1, StepCallsWellFormed, StepRefines, StepIInv DEF PaneInv

\* Every reachable state of the pane satisfies it.
LEMMA PaneInvariant == ToolsSpec => []PaneInv
<1>1. ToolsInit => PaneInv
  BY InitCallsWellFormed, ToolsInitIInv DEF PaneInv
<1> QED BY <1>1, StepPaneInv, PTL DEF ToolsSpec

\* Whatever agents, user, tabs and the bridge do, the coordinator sees only
\* runWrite, the ends of bodies and its own hand-over: a behaviour of the pane
\* is one of WorkbookCoordinator.
THEOREM PaneUsesCoordinator == ToolsSpec => UsesCoordinator
<1>1. ToolsInit => Init
  BY DEF ToolsInit
<1>2. PaneInv /\ [ToolsNext]_toolVars => [Next]_vars
  <2>1. PaneInv => CallsWellFormed /\ TypeOK
    BY DEF PaneInv, IInv
  <2> QED BY <2>1, StepRefines
<1> QED BY <1>1, <1>2, PaneInvariant, PTL DEF ToolsSpec, UsesCoordinator, Spec

\* So in the pane, too, two writes of one workbook key never execute at the
\* same time.
THEOREM PaneSerializedWrites == ToolsSpec => []OneWriteAtATime
BY PaneUsesCoordinator, SerializedWrites, PTL DEF UsesCoordinator

-----------------------------------------------------------------------------
\* processQueue starts at most the head of its queue, and not one that throws
\* at once.
LEMMA StartsOnlyHead ==
    ASSUME NEW b, NEW q, NEW running \in BOOLEAN, NEW throws \in BOOLEAN,
           NEW st \in [Ops -> Statuses], NEW o \in Ops,
           ProcessQueue(b, q, running, st, throws),
           st[o] # "executing", status'[o] = "executing"
    PROVE  o = Head(q) /\ ~throws
<1>1. CASE ~running /\ q # <<>>
  BY <1>1 DEF ProcessQueue
<1>2. CASE ~(~running /\ q # <<>>)
  BY <1>2 DEF ProcessQueue
<1> QED BY <1>1, <1>2

\* A call that Submit starts has not been aborted.
LEMMA SubmitStartsUnaborted ==
    ASSUME CallsWellFormed, TypeOK, NEW o \in Ops, NEW b \in Books, Submit(o, b),
           NEW p \in Ops, status[p] # "executing", status'[p] = "executing"
    PROVE  ~aborted[p]
<1> DEFINE q == Append(queue[b], o)
           st == [status EXCEPT ![o] = "waiting"]
<1>1. queue[b] \in Seq(Ops)
  BY DEF TypeOK
<1>2. Head(q) \in Ops
  <2>1. q \in Seq(Ops) /\ Len(q) = Len(queue[b]) + 1 /\ Len(queue[b]) \in Nat
    BY <1>1
  <2>2. q # <<>>
    BY <2>1
  <2> QED BY <2>1, <2>2
<1>3. Throws(Head(q)) \in BOOLEAN
  BY <1>2 DEF Throws, CallsWellFormed
<1>4. ProcessQueue(b, q, active[b] # None, st, Throws(Head(q)))
  BY DEF Submit, RunWrite
<1>5. st \in [Ops -> Statuses] /\ st[p] # "executing"
  BY DEF TypeOK, Statuses
<1>6. (active[b] # None) \in BOOLEAN
  OBVIOUS
<1> HIDE DEF q, st
<1>7. p = Head(q) /\ ~Throws(Head(q))
  BY <1>3, <1>4, <1>5, <1>6, StartsOnlyHead
<1> QED BY <1>7 DEF Throws

\* Nor has one that a hand-over starts.
LEMMA HandOverStartsUnaborted ==
    ASSUME CallsWellFormed, TypeOK, NEW b \in Books, HandOver(b),
           NEW p \in Ops, status[p] # "executing", status'[p] = "executing"
    PROVE  ~aborted[p]
<1> DEFINE throws == queue[b] # <<>> /\ Throws(Head(queue[b]))
<1>1. queue[b] \in Seq(Ops)
  BY DEF TypeOK
<1>2. ProcessQueue(b, queue[b], FALSE, status, throws)
  BY DEF HandOver, Release
<1>3. CASE queue[b] = <<>>
  BY <1>2, <1>3 DEF ProcessQueue
<1>4. CASE queue[b] # <<>>
  <2>1. Head(queue[b]) \in Ops
    BY <1>1, <1>4
  <2>2. throws \in BOOLEAN
    BY <2>1, <1>4 DEF Throws, CallsWellFormed
  <2>3. status \in [Ops -> Statuses]
    BY DEF TypeOK
  <2> HIDE DEF throws
  <2>4. p = Head(queue[b]) /\ ~throws
    BY <1>2, <2>2, <2>3, StartsOnlyHead
  <2> QED BY <2>4, <1>4 DEF throws, Throws
<1> QED BY <1>3, <1>4

\* A call step starts no aborted call.
LEMMA CallStepStartsUnaborted ==
    ASSUME CallsWellFormed, TypeOK, NEW o \in Ops, CallStep(o),
           NEW p \in Ops, status[p] # "executing", status'[p] = "executing"
    PROVE  ~aborted[p]
<1>1. CASE Begin(o) \/ IdentifiedRead(o) \/ IdentifiedWrite(o) \/ Denied(o)
           \/ ReadEnds(o) \/ Resume(o) \/ BridgeCall(o) \/ BridgeCallEnds(o)
  BY <1>1 DEF Begin, IdentifiedRead, IdentifiedWrite, Denied, ReadEnds, Resume,
              BridgeCall, BridgeCallEnds, Reject, coordVars
<1>2. CASE IdentifiedRestore(o)
  <2>1. Submit(o, document) /\ document \in Books
    BY <1>2 DEF IdentifiedRestore, CallsWellFormed
  <2> QED BY <2>1, SubmitStartsUnaborted
<1>3. CASE Decided(o) \/ Approved(o)
  <2>1. CASE Reject(o)
    BY <2>1 DEF Reject, coordVars
  <2>2. CASE Submit(o, target[o])
    <3>1. target[o] \in Books
      BY <1>3 DEF Decided, Approved, CallsWellFormed
    <3> QED BY <3>1, <2>2, SubmitStartsUnaborted
  <2> QED BY <1>3, <2>1, <2>2 DEF Decided, Approved
<1>4. CASE WriteEnds(o)
  BY <1>4 DEF WriteEnds, Settle, Commit, Fail, TypeOK
<1> QED BY <1>1, <1>2, <1>3, <1>4 DEF CallStep

\* A call whose abort signal has fired does not start, however long it has
\* waited for its identity, its approval or its turn.
THEOREM AbortedCallsDoNotStart == ToolsSpec => NoStartAfterAbort
<1> DEFINE NoStart == \A o \in Ops : aborted[o] /\ status[o] # "executing"
                                        => status'[o] # "executing"
<1>1. PaneInv /\ [ToolsNext]_toolVars => NoStart
  <2> SUFFICES ASSUME PaneInv, [ToolsNext]_toolVars, NEW p \in Ops,
                      aborted[p], status[p] # "executing", status'[p] = "executing"
               PROVE  FALSE
    OBVIOUS
  <2>1. CallsWellFormed /\ TypeOK
    BY DEF PaneInv, IInv
  <2>2. ASSUME NEW o \in Ops, CallStep(o) PROVE FALSE
    BY <2>1, <2>2, CallStepStartsUnaborted
  <2>3. ASSUME NEW b \in Books, HandOver(b) PROVE FALSE
    BY <2>1, <2>3, HandOverStartsUnaborted
  <2>4. ASSUME NEW s \in Sessions, TabStep(s) PROVE FALSE
    BY <2>4 DEF TabStep, Abort, CloseTab, StopAndClose, KeepOpen, CloseSaved,
                ReplaceSession, coordVars
  <2>5. CASE ToggleMode \/ Rename \/ UNCHANGED toolVars
    BY <2>5 DEF ToggleMode, Rename, toolVars, coordVars
  <2> QED BY <2>2, <2>3, <2>4, <2>5 DEF ToolsNext
<1> QED BY <1>1, PaneInvariant, PTL DEF ToolsSpec, NoStartAfterAbort

-----------------------------------------------------------------------------
\* A committed write stays committed.
LEMMA CommittedStays ==
    ASSUME IInv, [Next]_vars, NEW p \in Ops, status[p] = "committed"
    PROVE  status'[p] = "committed"
<1>1. ASSUME NEW o \in Ops, Commit(o) PROVE status'[p] = "committed"
  BY <1>1 DEF Commit, IInv, TypeOK
<1> QED BY <1>1, OnlyCommitCounts

\* Only a read is in its body, and only a bridge operation over the bridge:
\* the phases of a write lead to its end through the coordinator.  And what
\* the observer was told is remembered.
ObserverInv ==
    /\ observed \in [Ops -> BOOLEAN]
    /\ \A o \in Ops : phase[o] = "reading" => Kind[o] = "read"
    /\ \A o \in Ops : phase[o] = "bridge" => Kind[o] = "bridge"
    /\ ObserverHearsCommits

\* Initially nothing has been observed, and no call has returned.
LEMMA InitObserverInv == ToolsInit => ObserverInv
BY DEF ToolsInit, ObserverInv, ObserverHearsCommits

\* A step that changes no phase and no observation, and a step that moves one
\* call to a phase that is none of the three.
LEMMA ObserverFrame ==
    ASSUME PaneInv, ObserverInv, [Next]_vars, observed' = observed,
           \/ phase' = phase
           \/ \E o \in Ops, p \in Phases \ {"reading", "bridge", "done"} :
                 phase' = [phase EXCEPT ![o] = p]
    PROVE  ObserverInv'
<1>1. \A o \in Ops : status[o] = "committed" => status'[o] = "committed"
  BY CommittedStays DEF PaneInv
<1>2. \A o \in Ops : /\ phase'[o] = "reading" => phase[o] = "reading"
                     /\ phase'[o] = "bridge" => phase[o] = "bridge"
                     /\ phase'[o] = "done" => phase[o] = "done"
  BY DEF PaneInv, CallsWellFormed
<1> QED BY <1>1, <1>2 DEF ObserverInv, ObserverHearsCommits

\* Call steps keep what the observer is promised.
LEMMA CallStepObserver ==
    ASSUME PaneInv, ObserverInv, NEW o \in Ops, CallStep(o), [Next]_vars
    PROVE  ObserverInv'
<1>1. CASE Begin(o) \/ IdentifiedWrite(o) \/ IdentifiedRestore(o) \/ Decided(o)
           \/ Approved(o) \/ Denied(o) \/ WriteEnds(o)
  <2>1. observed' = observed
    BY <1>1 DEF Begin, IdentifiedWrite, IdentifiedRestore, Decided, Approved,
                Denied, WriteEnds, callVars
  <2>2. \/ phase' = phase
        \/ \E p \in Phases \ {"reading", "bridge", "done"} :
              phase' = [phase EXCEPT ![o] = p]
    BY <1>1 DEF Begin, IdentifiedWrite, IdentifiedRestore, Decided, Approved,
                Denied, WriteEnds, callVars, Submit, Reject, Phases
  <2> QED BY <2>1, <2>2, ObserverFrame
<1>2. ASSUME UNCHANGED status, observed' = observed,
             \/ /\ Kind[o] = "read"
                /\ \E p \in {"reading", "rejected"} : phase' = [phase EXCEPT ![o] = p]
             \/ /\ phase[o] \in {"reading", "bridge"}
                /\ \E p \in {"done", "rejected"} : phase' = [phase EXCEPT ![o] = p]
             \/ Kind[o] = "bridge" /\ phase' = [phase EXCEPT ![o] = "bridge"]
      PROVE  ObserverInv'
  BY <1>2 DEF ObserverInv, ObserverHearsCommits, PaneInv, CallsWellFormed
<1>3. CASE IdentifiedRead(o) \/ ReadEnds(o) \/ BridgeCall(o) \/ BridgeCallEnds(o)
  BY <1>3, <1>2 DEF IdentifiedRead, ReadEnds, BridgeCall, BridgeCallEnds, Reject,
                    coordVars
<1>4. CASE Resume(o)
  <2>1. UNCHANGED status /\ Settled(o)
    BY <1>4 DEF Resume, coordVars
  <2>2. /\ observed' = [observed EXCEPT ![o] =
                           status[o] = "committed" /\ Kind[o] = "write"]
        /\ phase' = [phase EXCEPT ![o] =
                        IF status[o] = "committed" THEN "done" ELSE "rejected"]
    BY <1>4 DEF Resume
  <2>3. observed' \in [Ops -> BOOLEAN]
    BY <2>2 DEF ObserverInv
  <2>4. \A p \in Ops \ {o} : observed'[p] = observed[p] /\ phase'[p] = phase[p]
    BY <2>2 DEF ObserverInv, PaneInv, CallsWellFormed
  <2>5. /\ observed'[o] <=> status[o] = "committed" /\ Kind[o] = "write"
        /\ phase'[o] = IF status[o] = "committed" THEN "done" ELSE "rejected"
    BY <2>2 DEF ObserverInv, PaneInv, CallsWellFormed
  <2> QED BY <2>1, <2>3, <2>4, <2>5 DEF ObserverInv, ObserverHearsCommits
<1> QED BY <1>1, <1>3, <1>4 DEF CallStep

\* Every step keeps it.
LEMMA StepObserverInv == PaneInv /\ ObserverInv /\ [ToolsNext]_toolVars => ObserverInv'
<1> SUFFICES ASSUME PaneInv, ObserverInv, [ToolsNext]_toolVars
             PROVE  ObserverInv'
  OBVIOUS
<1>1. [Next]_vars
  BY StepRefines DEF PaneInv, IInv
<1>2. ASSUME NEW o \in Ops, CallStep(o) PROVE ObserverInv'
  BY <1>1, <1>2, CallStepObserver
<1>3. ASSUME NEW b \in Books, HandOver(b) PROVE ObserverInv'
  BY <1>1, <1>3, ObserverFrame DEF HandOver, callVars
<1>4. ASSUME NEW s \in Sessions, TabStep(s) PROVE ObserverInv'
  <2>1. phase' = phase /\ observed' = observed
    BY <1>4 DEF TabStep, Abort, CloseTab, StopAndClose, KeepOpen, CloseSaved,
                ReplaceSession, callVars
  <2> QED BY <1>1, <2>1, ObserverFrame
<1>5. CASE ToggleMode \/ Rename \/ UNCHANGED toolVars
  <2>1. phase' = phase /\ observed' = observed
    BY <1>5 DEF ToggleMode, Rename, toolVars, callVars
  <2> QED BY <1>1, <2>1, ObserverFrame
<1> QED BY <1>2, <1>3, <1>4, <1>5 DEF ToolsNext

\* The mutation observer hears of every committed tool write by the time its
\* call returns, and of nothing that did not commit.
THEOREM ObserverIsTold == ToolsSpec => []ObserverHearsCommits
<1>1. ObserverInv => ObserverHearsCommits
  BY DEF ObserverInv
<1> QED BY <1>1, StepObserverInv, InitObserverInv, PaneInvariant, PTL DEF ToolsSpec

-----------------------------------------------------------------------------
(***************************************************************************)
(* What the pane promises under conditions on its environment: that the    *)
(* document is not renamed, or the mode not switched, under a write that   *)
(* is already on its way; that no tab's session is replaced under a        *)
(* restore; and that nothing comes over the bridge.                        *)
(***************************************************************************)

\* runWrite makes one new write a submitted one, and touches no other write
\* but those that wait.
LEMMA SubmitStatus ==
    ASSUME CallsWellFormed, IInv, NEW o \in Ops, NEW b \in Books, Submit(o, b)
    PROVE  /\ status[o] = "new" /\ status'[o] # "new"
           /\ \A p \in Ops \ {o} : status[p] # "waiting" => status'[p] = status[p]
           /\ \A p \in Ops \ {o} : status[p] = "waiting" => status'[p] # "new"
           /\ book' = [book EXCEPT ![o] = b]
           /\ phase' = [phase EXCEPT ![o] = "coordinated"]
<1> DEFINE q == Append(queue[b], o)
           st == [status EXCEPT ![o] = "waiting"]
           throws == Throws(Head(q))
<1>1. /\ status[o] = "new"
      /\ book' = [book EXCEPT ![o] = b]
      /\ phase' = [phase EXCEPT ![o] = "coordinated"]
      /\ ProcessQueue(b, q, active[b] # None, st, throws)
  BY DEF Submit, RunWrite
<1>2. queue[b] \in Seq(Ops) /\ status \in [Ops -> Statuses]
  BY DEF IInv, TypeOK
<1>3. Head(q) = o \/ (Head(q) \in Ops /\ status[Head(q)] = "waiting")
  <2>1. CASE queue[b] = <<>>
    BY <2>1
  <2>2. CASE queue[b] # <<>>
    <3>1. Len(queue[b]) \in Nat \ {0} /\ DOMAIN queue[b] = 1..Len(queue[b])
      BY <1>2, <2>2
    <3>2. 1 \in DOMAIN queue[b] /\ Head(q) = queue[b][1] /\ queue[b][1] \in Ops
      BY <1>2, <3>1
    <3> QED BY <3>2 DEF IInv, QueueHoldsWaiting
  <2> QED BY <2>1, <2>2
<1>4. \/ status' = st
      \/ \E r \in {"failed", "executing"} : status' = [st EXCEPT ![Head(q)] = r]
  BY <1>1 DEF ProcessQueue
<1> HIDE DEF q, throws
<1> QED BY <1>1, <1>2, <1>3, <1>4

\* A hand-over touches no write but one that waits.
LEMMA HandOverStatus ==
    ASSUME IInv, NEW b \in Books, HandOver(b)
    PROVE  /\ \A p \in Ops : status[p] # "waiting" => status'[p] = status[p]
           /\ \A p \in Ops : status[p] = "waiting" => status'[p] # "new"
           /\ book' = book
<1>1. /\ book' = book
      /\ \E throws : ProcessQueue(b, queue[b], FALSE, status, throws)
  BY DEF HandOver, Release
<1>2. queue[b] \in Seq(Ops) /\ status \in [Ops -> Statuses]
  BY DEF IInv, TypeOK
<1>3. CASE queue[b] = <<>>
  BY <1>1, <1>3 DEF ProcessQueue
<1>4. CASE queue[b] # <<>>
  <2>1. Len(queue[b]) \in Nat \ {0} /\ DOMAIN queue[b] = 1..Len(queue[b])
    BY <1>2, <1>4
  <2>2. 1 \in DOMAIN queue[b] /\ Head(queue[b]) = queue[b][1] /\ queue[b][1] \in Ops
    BY <1>2, <2>1
  <2>3. Head(queue[b]) \in Ops /\ status[Head(queue[b])] = "waiting"
    BY <2>2 DEF IInv, QueueHoldsWaiting
  <2>4. \E r \in {"failed", "executing"} :
           status' = [status EXCEPT ![Head(queue[b])] = r]
    BY <1>1, <1>4 DEF ProcessQueue
  <2> QED BY <1>1, <1>2, <2>3, <2>4
<1> QED BY <1>3, <1>4

\* The end of a write's body settles this write and no other.
LEMMA SettleStatus ==
    ASSUME IInv, NEW o \in Ops, Settle(o)
    PROVE  /\ status[o] = "executing" /\ status'[o] \in {"committed", "failed"}
           /\ \A p \in Ops \ {o} : status'[p] = status[p]
           /\ book' = book
BY DEF Settle, Commit, Fail, IInv, TypeOK

-----------------------------------------------------------------------------
\* Every write on its way is for the document's present key, unless the
\* document was renamed under it.
Placed ==
    \A o \in Ops \ renamed :
        /\ phase[o] \in {"deciding", "approving"} => target[o] = document
        /\ status[o] \in {"waiting", "executing"} => book[o] = document

\* A call step keeps writes placed.
LEMMA CallStepPlaced ==
    ASSUME PaneInv, Placed, NEW o \in Ops, CallStep(o)
    PROVE  Placed'
<1>0. CallsWellFormed /\ IInv /\ TypeOK
  BY DEF PaneInv, IInv
<1>1. CASE Begin(o) \/ IdentifiedRead(o) \/ Denied(o) \/ ReadEnds(o) \/ Resume(o)
           \/ BridgeCall(o) \/ BridgeCallEnds(o)
  <2>1. /\ status' = status /\ book' = book /\ target' = target
        /\ document' = document /\ renamed' = renamed
    BY <1>1 DEF Begin, IdentifiedRead, Denied, ReadEnds, Resume, BridgeCall,
                BridgeCallEnds, Reject, coordVars, paneVars
  <2>2. \E p \in Phases \ {"deciding", "approving"} : phase' = [phase EXCEPT ![o] = p]
    BY <1>1 DEF Begin, IdentifiedRead, Denied, ReadEnds, Resume, BridgeCall,
                BridgeCallEnds, Reject, Phases
  <2> QED BY <2>1, <2>2, <1>0 DEF Placed, CallsWellFormed
<1>2. CASE IdentifiedWrite(o)
  <2>1. /\ status' = status /\ book' = book
        /\ document' = document /\ renamed' = renamed
        /\ target' = [target EXCEPT ![o] = document]
        /\ \E p \in Phases : phase' = [phase EXCEPT ![o] = p]
    BY <1>2 DEF IdentifiedWrite, coordVars, paneVars, Phases
  <2> QED BY <2>1, <1>0 DEF Placed, CallsWellFormed
<1>3. ASSUME NEW b \in Books, b = document, Submit(o, b), document' = document,
             renamed' = renamed, target' = target
      PROVE  Placed'
  BY <1>0, <1>3, SubmitStatus DEF Placed, CallsWellFormed, TypeOK, Statuses
<1>4. CASE IdentifiedRestore(o)
  BY <1>0, <1>3, <1>4 DEF IdentifiedRestore, CallsWellFormed, paneVars
<1>5. CASE Decided(o) \/ Approved(o)
  <2>1. document' = document /\ renamed' = renamed /\ target' = target
    BY <1>5 DEF Decided, Approved, paneVars
  <2>2. CASE Reject(o)
    <3>1. status' = status /\ book' = book /\ phase' = [phase EXCEPT ![o] = "rejected"]
      BY <2>2 DEF Reject, coordVars
    <3> QED BY <2>1, <3>1, <1>0 DEF Placed, CallsWellFormed
  <2>3. CASE Submit(o, target[o])
    <3>1. CASE o \in renamed
      <4>1. target[o] \in Books
        BY <1>5, <1>0 DEF Decided, Approved, CallsWellFormed
      <4> QED BY <2>1, <2>3, <3>1, <4>1, <1>0, SubmitStatus
              DEF Placed, CallsWellFormed, TypeOK, Statuses
    <3>2. CASE o \notin renamed
      <4>1. target[o] = document /\ document \in Books
        BY <1>5, <1>0, <3>2 DEF Decided, Approved, Placed, CallsWellFormed
      <4> QED BY <1>3, <2>1, <2>3, <4>1
    <3> QED BY <3>1, <3>2
  <2> QED BY <1>5, <2>2, <2>3 DEF Decided, Approved
<1>6. CASE WriteEnds(o)
  <2>1. /\ Settle(o) /\ phase' = phase /\ target' = target
        /\ document' = document /\ renamed' = renamed
    BY <1>6 DEF WriteEnds, callVars, paneVars
  <2> QED BY <2>1, <1>0, SettleStatus DEF Placed
<1> QED BY <1>1, <1>2, <1>4, <1>5, <1>6 DEF CallStep

\* So does every step.
LEMMA StepPlaced ==
    ASSUME PaneInv, Placed, [ToolsNext]_toolVars
    PROVE  Placed'
<1>1. ASSUME NEW o \in Ops, CallStep(o) PROVE Placed'
  BY <1>1, CallStepPlaced
<1>2. ASSUME NEW b \in Books, HandOver(b) PROVE Placed'
  <2>1. /\ phase' = phase /\ target' = target
        /\ document' = document /\ renamed' = renamed
    BY <1>2 DEF HandOver, callVars, paneVars
  <2>2. status \in [Ops -> Statuses]
    BY DEF PaneInv, IInv, TypeOK
  <2> QED BY <1>2, <2>1, <2>2, HandOverStatus DEF Placed, PaneInv, Statuses
<1>3. ASSUME NEW s \in Sessions, TabStep(s) PROVE Placed'
  BY <1>3 DEF TabStep, Abort, CloseTab, StopAndClose, KeepOpen, CloseSaved,
              ReplaceSession, callVars, coordVars, paneVars, Placed
<1>4. CASE ToggleMode \/ UNCHANGED toolVars
  BY <1>4 DEF ToggleMode, toolVars, callVars, coordVars, paneVars, Placed
<1>5. CASE Rename
  BY <1>5 DEF Rename, callVars, coordVars, Placed, OnItsWay
<1> QED BY <1>1, <1>2, <1>3, <1>4, <1>5 DEF ToolsNext

\* "Serialized workbook mutation", for the document and not only for each of
\* its keys, with renames, stops, closed tabs and the bridge at any moment: two
\* bodies never change it at once, except those of calls over the bridge and
\* of calls that were on their way when it got another key.
THEOREM MutationsAreSerialized == ToolsSpec => []SerializedMutation
<1>1. ToolsInit => Placed
  BY DEF ToolsInit, Init, Placed
<1>2. PaneInv /\ Placed /\ [ToolsNext]_toolVars => Placed'
  BY StepPlaced
<1>3. PaneInv /\ ObserverInv /\ [ToolsNext]_toolVars => ObserverInv'
  BY StepObserverInv
<1>4. Placed /\ ObserverInv /\ OneWriteAtATime => SerializedMutation
  BY DEF Placed, ObserverInv, OneWriteAtATime, SerializedMutation, Mutating
<1> QED BY <1>1, <1>2, <1>3, <1>4, InitObserverInv, PaneInvariant,
           PaneSerializedWrites, PTL DEF ToolsSpec

-----------------------------------------------------------------------------
\* In Confirm mode no tool's write has passed the question by, and every one
\* that waits for its turn was allowed, unless the mode was switched under it.
AllowedWrites ==
    mode = "safe" =>
        \A o \in Ops \ switched : Kind[o] = "write" =>
            /\ phase[o] # "deciding"
            /\ status[o] = "waiting" => consent[o] = "user"

\* The writes that start in Confirm mode were allowed.
StartsAllowed ==
    \A p \in Ops \ switched :
        Kind[p] = "write" /\ mode = "safe"
        /\ status[p] # "executing" /\ status'[p] = "executing"
        => consent'[p] = "user"

\* The types this argument needs.
ModeTypes ==
    /\ mode \in {"yolo", "safe"}
    /\ consent \in [Ops -> {"none", "auto", "user"}]

\* Initially so.
LEMMA InitModeTypes == ToolsInit => ModeTypes /\ AllowedWrites
BY DEF ToolsInit, Init, ModeTypes, AllowedWrites

\* What a step does to consent: only queueing a tool's write, or a restore,
\* sets it, and only for this call.
LEMMA StepConsent ==
    ASSUME PaneInv, ModeTypes, [ToolsNext]_toolVars
    PROVE  /\ ModeTypes'
           /\ \A p \in Ops : status[p] # "new" => consent'[p] = consent[p]
<1>0. CallsWellFormed /\ IInv
  BY DEF PaneInv
<1>1. ASSUME NEW o \in Ops, CallStep(o)
      PROVE  /\ mode' = mode
             /\ \/ consent' = consent
                \/ /\ status[o] = "new"
                   /\ \E c \in {"auto", "user"} : consent' = [consent EXCEPT ![o] = c]
  BY <1>1 DEF CallStep, Begin, IdentifiedRead, IdentifiedWrite,
     IdentifiedRestore, Decided, Approved, Denied, ReadEnds, WriteEnds, Resume,
     BridgeCall, BridgeCallEnds, paneVars, callVars, Reject, Submit, RunWrite
<1>2. ASSUME NEW o \in Ops, CallStep(o)
      PROVE  /\ ModeTypes'
             /\ \A p \in Ops : status[p] # "new" => consent'[p] = consent[p]
  BY <1>1, <1>2 DEF ModeTypes
<1>3. ASSUME NEW b \in Books, HandOver(b) PROVE UNCHANGED <<mode, consent>>
  BY <1>3 DEF HandOver, paneVars, callVars
<1>4. ASSUME NEW s \in Sessions, TabStep(s) PROVE UNCHANGED <<mode, consent>>
  BY <1>4 DEF TabStep, Abort, CloseTab, StopAndClose, KeepOpen, CloseSaved,
              ReplaceSession, paneVars, callVars
<1>5. CASE ToggleMode
  BY <1>5 DEF ToggleMode, callVars, ModeTypes
<1>6. CASE Rename \/ UNCHANGED toolVars
  BY <1>6 DEF Rename, toolVars, paneVars, callVars, ModeTypes
<1> QED BY <1>2, <1>3, <1>4, <1>5, <1>6 DEF ToolsNext, ModeTypes

\* The call o is queued: if it is a tool's write, and the mode is Confirm,
\* then the user has allowed it.
LEMMA SubmitAllowed ==
    ASSUME PaneInv, ModeTypes, AllowedWrites, NEW o \in Ops, NEW b \in Books,
           Submit(o, b), mode' = mode, switched' = switched,
           \E c \in {"auto", "user"} : consent' = [consent EXCEPT ![o] = c],
           o \notin switched /\ mode = "safe" /\ Kind[o] = "write" => consent'[o] = "user"
    PROVE  AllowedWrites' /\ StartsAllowed
<1>0. CallsWellFormed /\ IInv /\ status \in [Ops -> Statuses]
  BY DEF PaneInv, IInv, TypeOK
<1>1. /\ status[o] = "new"
      /\ \A p \in Ops \ {o} : status[p] # "waiting" => status'[p] = status[p]
      /\ phase' = [phase EXCEPT ![o] = "coordinated"]
  BY <1>0, SubmitStatus
<1>2. \A p \in Ops \ {o} : consent'[p] = consent[p] /\ phase'[p] = phase[p]
  BY <1>0, <1>1 DEF ModeTypes, CallsWellFormed
<1>3. phase'[o] = "coordinated"
  BY <1>0, <1>1 DEF CallsWellFormed
<1> QED BY <1>1, <1>2, <1>3 DEF AllowedWrites, StartsAllowed

\* A step that starts no write, and changes neither mode nor consent.
LEMMA NothingStarts ==
    ASSUME PaneInv, AllowedWrites, mode' = mode, consent' = consent,
           switched' = switched,
           \A p \in Ops : status'[p] = "executing" => status[p] = "executing",
           \A p \in Ops : status'[p] = "waiting" => status[p] = "waiting",
           \A p \in Ops : mode = "safe" /\ Kind[p] = "write" /\ phase'[p] = "deciding"
                          => phase[p] = "deciding"
    PROVE  AllowedWrites' /\ StartsAllowed
BY DEF AllowedWrites, StartsAllowed

\* A call step keeps to it, and starts only what was allowed.
LEMMA CallStepAllowed ==
    ASSUME PaneInv, ModeTypes, AllowedWrites, NEW o \in Ops, CallStep(o)
    PROVE  AllowedWrites' /\ StartsAllowed
<1>0. CallsWellFormed /\ IInv /\ status \in [Ops -> Statuses]
  BY DEF PaneInv, IInv, TypeOK
<1>1. CASE Begin(o) \/ IdentifiedRead(o) \/ IdentifiedWrite(o) \/ Denied(o)
           \/ ReadEnds(o) \/ Resume(o) \/ BridgeCall(o) \/ BridgeCallEnds(o)
  <2>1. status' = status /\ mode' = mode /\ consent' = consent /\ switched' = switched
    BY <1>1 DEF Begin, IdentifiedRead, IdentifiedWrite, Denied, ReadEnds, Resume,
                BridgeCall, BridgeCallEnds, Reject, coordVars, paneVars
  <2>2. \E x \in Phases : /\ phase' = [phase EXCEPT ![o] = x]
                          /\ mode = "safe" => x # "deciding"
    BY <1>1 DEF Begin, IdentifiedRead, IdentifiedWrite, Denied, ReadEnds, Resume,
                BridgeCall, BridgeCallEnds, Reject, Phases
  <2>3. \A p \in Ops : mode = "safe" /\ Kind[p] = "write" /\ phase'[p] = "deciding"
                       => phase[p] = "deciding"
    BY <2>2, <1>0 DEF CallsWellFormed
  <2> QED BY <2>1, <2>3, NothingStarts
<1>2. CASE IdentifiedRestore(o)
  <2>1. /\ Submit(o, document) /\ mode' = mode /\ switched' = switched /\ document \in Books
        /\ consent' = [consent EXCEPT ![o] = "user"]
        /\ Kind[o] = "restore"
    BY <1>2, <1>0 DEF IdentifiedRestore, paneVars, CallsWellFormed
  <2> QED BY <2>1, SubmitAllowed
<1>3. CASE Decided(o) \/ Approved(o)
  <2>1. mode' = mode /\ switched' = switched
    BY <1>3 DEF Decided, Approved, paneVars
  <2>2. CASE Reject(o)
    <3>1. status' = status /\ consent' = consent
          /\ phase' = [phase EXCEPT ![o] = "rejected"]
      BY <2>2 DEF Reject, coordVars
    <3>2. \A p \in Ops : phase'[p] = "deciding" => phase[p] = "deciding"
      BY <3>1, <1>0 DEF CallsWellFormed
    <3> QED BY <2>1, <3>1, <3>2, NothingStarts
  <2>3. CASE Submit(o, target[o])
    <3>1. target[o] \in Books
      BY <1>3, <1>0 DEF Decided, Approved, CallsWellFormed
    <3>2. \/ phase[o] = "deciding" /\ consent' = [consent EXCEPT ![o] = "auto"]
          \/ phase[o] = "approving" /\ consent' = [consent EXCEPT ![o] = "user"]
      <4>1. phase'[o] = "coordinated"
        BY <1>0, <2>3, <3>1, SubmitStatus DEF CallsWellFormed
      <4> QED BY <1>3, <4>1, <1>0 DEF Decided, Approved, Reject, CallsWellFormed
    <3>3. o \notin switched /\ mode = "safe" /\ Kind[o] = "write" => consent'[o] = "user"
      BY <3>2 DEF AllowedWrites, ModeTypes
    <3> QED BY <2>1, <2>3, <3>1, <3>2, <3>3, SubmitAllowed
  <2> QED BY <1>3, <2>2, <2>3 DEF Decided, Approved
<1>4. CASE WriteEnds(o)
  <2>1. /\ Settle(o) /\ phase' = phase /\ mode' = mode
        /\ consent' = consent /\ switched' = switched
    BY <1>4 DEF WriteEnds, callVars, paneVars
  <2>2. /\ \A p \in Ops : status'[p] = "executing" => status[p] = "executing"
        /\ \A p \in Ops : status'[p] = "waiting" => status[p] = "waiting"
    BY <1>0, <2>1, SettleStatus
  <2> QED BY <2>1, <2>2, NothingStarts
<1> QED BY <1>1, <1>2, <1>3, <1>4 DEF CallStep

\* So does every step.
LEMMA StepAllowed ==
    ASSUME PaneInv, ModeTypes, AllowedWrites, [ToolsNext]_toolVars
    PROVE  AllowedWrites' /\ StartsAllowed
<1>1. ASSUME NEW o \in Ops, CallStep(o)
      PROVE  AllowedWrites' /\ StartsAllowed
  BY <1>1, CallStepAllowed
<1>2. ASSUME NEW b \in Books, HandOver(b)
      PROVE  AllowedWrites' /\ StartsAllowed
  <2>1. mode' = mode /\ phase' = phase /\ consent' = consent /\ switched' = switched
    BY <1>2 DEF HandOver, paneVars, callVars
  <2>2. \A p \in Ops : status[p] # "waiting" => status'[p] = status[p]
    BY <1>2, HandOverStatus DEF PaneInv
  <2> QED BY <2>1, <2>2 DEF AllowedWrites, StartsAllowed
<1>3. ASSUME NEW s \in Sessions, TabStep(s)
      PROVE  UNCHANGED <<mode, switched, phase, status, consent>>
  BY <1>3 DEF TabStep, Abort, CloseTab, StopAndClose, KeepOpen, CloseSaved,
              ReplaceSession, paneVars, coordVars, callVars
<1>4. CASE ToggleMode
  BY <1>4 DEF ToggleMode, coordVars, callVars, AllowedWrites, StartsAllowed, ModeTypes
<1>5. CASE Rename \/ UNCHANGED toolVars
  BY <1>5 DEF Rename, toolVars, coordVars, callVars, paneVars, AllowedWrites, StartsAllowed
<1> QED BY <1>1, <1>2, <1>3, <1>4, <1>5 DEF ToolsNext, AllowedWrites, StartsAllowed

\* In Confirm mode no tool's write starts that the user has not allowed,
\* however the mode is switched; only the writes that were between the look at
\* the mode (with-workbook-coordinator.ts) and their start when it was, may
\* start unasked.
THEOREM WritesAreAllowed == ToolsSpec => AskedInConfirmMode
<1>1. PaneInv /\ ModeTypes /\ AllowedWrites /\ [ToolsNext]_toolVars
      => ModeTypes' /\ AllowedWrites' /\ StartsAllowed
  BY StepConsent, StepAllowed
<1>2. StartsAllowed =>
        \A o \in Ops \ switched :
           Kind[o] = "write" /\ mode = "safe"
           /\ status[o] # "executing" /\ status'[o] = "executing"
           => consent'[o] = "user"
  BY DEF StartsAllowed
<1> QED BY <1>1, <1>2, InitModeTypes, PaneInvariant, PTL
        DEF ToolsSpec, AskedInConfirmMode

-----------------------------------------------------------------------------
\* The head of a queue is a waiting write.
LEMMA QueueHeadWaits ==
    ASSUME IInv, NEW b \in Books, queue[b] # <<>>
    PROVE  Head(queue[b]) \in Ops /\ status[Head(queue[b])] = "waiting"
<1>1. queue[b] \in Seq(Ops)
  BY DEF IInv, TypeOK
<1>2. Len(queue[b]) \in Nat \ {0} /\ DOMAIN queue[b] = 1..Len(queue[b])
  BY <1>1
<1>3. 1 \in DOMAIN queue[b] /\ Head(queue[b]) = queue[b][1] /\ queue[b][1] \in Ops
  BY <1>1, <1>2
<1> QED BY <1>3 DEF IInv, QueueHoldsWaiting

\* Also when a write is appended.
LEMMA HeadWaits ==
    ASSUME IInv, NEW b \in Books, NEW o \in Ops, queue[b] # <<>>
    PROVE  /\ Head(Append(queue[b], o)) \in Ops
           /\ status[Head(Append(queue[b], o))] = "waiting"
<1>1. queue[b] \in Seq(Ops)
  BY DEF IInv, TypeOK
<1>2. Len(queue[b]) \in Nat \ {0} /\ DOMAIN queue[b] = 1..Len(queue[b])
  BY <1>1
<1>3. Head(Append(queue[b], o)) = Head(queue[b])
  BY <1>1, <1>2
<1> HIDE DEF IInv
<1> QED BY <1>3, QueueHeadWaits

-----------------------------------------------------------------------------
\* No tab is given another session while a restore of it is in flight (the
\* code itself sees to it that no tool call is).
ReplacedWhenQuiet ==
    [][\A s \in Sessions : sessionNo'[s] # sessionNo[s] =>
          ~ \E o \in Ops : SessionOf[o] = s /\ Kind[o] = "restore" /\ InFlight(o)]_toolVars

LockStates == {"idle", "waiting_for_lock", "holding_lock"}

\* The types of what the tabs show.
LockTypes ==
    /\ lock \in [Sessions -> LockStates]
    /\ sessionNo \in [Sessions -> Nat]
    /\ tab \in [Sessions -> {"open", "confirming", "saving", "closed"}]
    /\ asker \in [Ops -> Nat]

\* A queued write's call is waiting for the coordinator, and nothing that came
\* over the bridge gets there.
QueuedInPhase ==
    \A o \in Ops :
        /\ status[o] \in {"waiting", "executing"} => phase[o] = "coordinated"
        /\ phase[o] \in {"identifying", "deciding", "approving", "coordinated"}
           => Kind[o] # "bridge"

\* The tab of a call in flight still shows the session that made it, so the
\* coordinator's events about the call reach the tab.
AskersCurrent ==
    \A o \in Ops :
        phase[o] \in {"identifying", "deciding", "approving", "coordinated"}
        => asker[o] = sessionNo[SessionOf[o]]

LockInv == LockTypes /\ QueuedInPhase /\ AskersCurrent /\ LockNeverStuck

\* Initially so.
LEMMA InitLockInv == ToolsInit => LockInv
BY DEF ToolsInit, Init, LockInv, LockTypes, LockStates, QueuedInPhase,
       AskersCurrent, LockNeverStuck

\* An event about a call whose session is still shown sets its tab's lock
\* state, and no other's.
LEMMA SetLockSets ==
    ASSUME NEW l \in [Sessions -> LockStates], NEW o \in Ops, NEW state \in LockStates,
           asker[o] = sessionNo[SessionOf[o]]
    PROVE  /\ SetLock(l, o, state) \in [Sessions -> LockStates]
           /\ \A s \in Sessions : s # SessionOf[o] => SetLock(l, o, state)[s] = l[s]
           /\ HasRuntime(SessionOf[o]) => SetLock(l, o, state)[SessionOf[o]] = state
BY ToolsAssumption DEF SetLock

\* After a hand-over a tab shows that it holds the lock only if it did, or if
\* the write that starts, and does not throw, is its own.
LEMMA LockAfterStartHolds ==
    ASSUME NEW l \in [Sessions -> LockStates], NEW b, NEW q \in Seq(Ops),
           NEW running \in BOOLEAN, NEW throws \in BOOLEAN,
           q # <<>> => asker[Head(q)] = sessionNo[SessionOf[Head(q)]]
    PROVE  /\ LockAfterStart(l, b, q, running, throws) \in [Sessions -> LockStates]
           /\ \A s \in Sessions :
                HasRuntime(s) /\ LockAfterStart(l, b, q, running, throws)[s] = "holding_lock"
                => \/ l[s] = "holding_lock"
                   \/ ~running /\ q # <<>> /\ ~throws /\ s = SessionOf[Head(q)]
<1>1. CASE ~running /\ q # <<>>
  <2>1. Head(q) \in Ops
    BY <1>1
  <2> DEFINE h == Head(q)
             x == IF throws THEN "idle" ELSE "holding_lock"
  <2>2. x \in LockStates /\ (throws => x = "idle") /\ h \in Ops
    BY <2>1 DEF LockStates
  <2>3. LockAfterStart(l, b, q, running, throws) = SetLock(l, h, x)
    BY <1>1 DEF LockAfterStart
  <2>4. asker[h] = sessionNo[SessionOf[h]]
    BY <1>1
  <2> HIDE DEF x
  <2>5. /\ SetLock(l, h, x) \in [Sessions -> LockStates]
        /\ \A s \in Sessions : s # SessionOf[h] => SetLock(l, h, x)[s] = l[s]
        /\ HasRuntime(SessionOf[h]) => SetLock(l, h, x)[SessionOf[h]] = x
    BY <2>2, <2>4, SetLockSets
  <2> QED BY <1>1, <2>2, <2>3, <2>5
<1>2. CASE ~(~running /\ q # <<>>)
  BY <1>2 DEF LockAfterStart
<1> QED BY <1>1, <1>2

\* The wrapper's part of a call step.
LEMMA CallStepPhases ==
    ASSUME PaneInv, LockInv, NEW o \in Ops, CallStep(o)
    PROVE  LockTypes' /\ QueuedInPhase' /\ AskersCurrent'
<1>0. CallsWellFormed /\ IInv /\ status \in [Ops -> Statuses]
  BY DEF PaneInv, IInv, TypeOK
<1>1. CASE Begin(o)
  BY <1>1, <1>0, ToolsAssumption
     DEF Begin, coordVars, tabVars, LockInv, LockTypes, QueuedInPhase,
         AskersCurrent, CallsWellFormed
<1>2. CASE IdentifiedRead(o) \/ IdentifiedWrite(o) \/ Denied(o) \/ ReadEnds(o)
           \/ Resume(o) \/ BridgeCall(o) \/ BridgeCallEnds(o)
  <2>1. UNCHANGED <<status, lock, sessionNo, tab, asker>>
    BY <1>2 DEF IdentifiedRead, IdentifiedWrite, Denied, ReadEnds, Resume,
                BridgeCall, BridgeCallEnds, Reject, coordVars, tabVars
  <2>2. /\ phase[o] # "coordinated" \/ Settled(o)
        /\ \E x \in Phases \ {"coordinated", "identifying"} :
              /\ phase' = [phase EXCEPT ![o] = x]
              /\ x \in {"deciding", "approving"} => phase[o] = "identifying"
    BY <1>2 DEF IdentifiedRead, IdentifiedWrite, Denied, ReadEnds, Resume,
                BridgeCall, BridgeCallEnds, Reject, Phases
  <2> QED BY <2>1, <2>2, <1>0
          DEF LockInv, LockTypes, QueuedInPhase, AskersCurrent, CallsWellFormed, Settled
<1>3. ASSUME NEW b \in Books, Submit(o, b), UNCHANGED <<sessionNo, tab, asker>>,
             phase[o] \in {"identifying", "deciding", "approving"}
      PROVE  LockTypes' /\ QueuedInPhase' /\ AskersCurrent'
  <2> DEFINE q == Append(queue[b], o)
             running == active[b] # None
             throws == Throws(Head(q))
             waits == IF running \/ queue[b] # <<>>
                      THEN SetLock(lock, o, "waiting_for_lock") ELSE lock
  <2>1. lock' = LockAfterStart(waits, b, q, running, throws)
    BY <1>3 DEF Submit
  <2>2. q \in Seq(Ops) /\ running \in BOOLEAN
    BY <1>0 DEF IInv, TypeOK
  <2>3. waits \in [Sessions -> LockStates]
    BY <1>3, SetLockSets DEF LockInv, LockTypes, AskersCurrent, LockStates
  <2>4. Head(q) \in Ops /\ asker[Head(q)] = sessionNo[SessionOf[Head(q)]]
    <3>1. CASE queue[b] = <<>>
      <4>1. Head(q) = o
        BY <3>1
      <4> HIDE DEF q
      <4> QED BY <4>1, <1>3 DEF LockInv, AskersCurrent
    <3>2. CASE queue[b] # <<>>
      <4>1. Head(q) \in Ops /\ status[Head(q)] = "waiting"
        BY <1>0, <3>2, HeadWaits
      <4> HIDE DEF q
      <4> QED BY <4>1 DEF LockInv, AskersCurrent, QueuedInPhase
    <3> QED BY <3>1, <3>2
  <2>5. throws \in BOOLEAN
    BY <1>0, <2>4 DEF Throws, CallsWellFormed
  <2> HIDE DEF q, running, throws, waits
  <2>6. lock' \in [Sessions -> LockStates]
    BY <2>1, <2>2, <2>3, <2>4, <2>5, LockAfterStartHolds
  <2>7. /\ \A p \in Ops \ {o} : status[p] # "waiting" => status'[p] = status[p]
        /\ phase' = [phase EXCEPT ![o] = "coordinated"]
    BY <1>0, <1>3, SubmitStatus
  <2> QED BY <2>6, <2>7, <1>0, <1>3
          DEF LockInv, LockTypes, QueuedInPhase, AskersCurrent, CallsWellFormed
<1>4. CASE IdentifiedRestore(o)
  BY <1>0, <1>3, <1>4 DEF IdentifiedRestore, CallsWellFormed
<1>5. CASE Decided(o) \/ Approved(o)
  <2>1. /\ UNCHANGED <<sessionNo, tab, asker>>
        /\ phase[o] \in {"deciding", "approving"} /\ target[o] \in Books
    BY <1>5, <1>0 DEF Decided, Approved, CallsWellFormed
  <2>2. CASE Reject(o)
    BY <2>1, <2>2, <1>0
       DEF Reject, coordVars, LockInv, LockTypes, QueuedInPhase, AskersCurrent,
           CallsWellFormed
  <2> QED BY <1>5, <2>1, <2>2, <1>3 DEF Decided, Approved
<1>6. CASE WriteEnds(o)
  <2>1. Settle(o) /\ UNCHANGED <<phase, asker, sessionNo, tab>>
        /\ lock' = SetLock(lock, o, "idle")
    BY <1>6 DEF WriteEnds, callVars
  <2>2. /\ status[o] = "executing" /\ status'[o] \in {"committed", "failed"}
        /\ \A p \in Ops \ {o} : status'[p] = status[p]
    BY <1>0, <2>1, SettleStatus
  <2>3. asker[o] = sessionNo[SessionOf[o]]
    BY <2>2 DEF LockInv, QueuedInPhase, AskersCurrent
  <2>4. lock' \in [Sessions -> LockStates]
    BY <2>1, <2>3, SetLockSets DEF LockInv, LockTypes, LockStates
  <2> QED BY <2>1, <2>2, <2>4 DEF LockInv, LockTypes, QueuedInPhase, AskersCurrent
<1> QED BY <1>1, <1>2, <1>4, <1>5, <1>6 DEF CallStep

\* A step that starts or ends no write, shows no lock, and opens no tab.
LEMMA LockFrame ==
    ASSUME LockNeverStuck, UNCHANGED <<lock, status>>,
           \A s \in Sessions : HasRuntime(s)' => HasRuntime(s)
    PROVE  LockNeverStuck'
BY DEF LockNeverStuck

\* When a write is queued, or its turn handed over: a tab that shows the lock
\* after it showed it before, and its write still executes, or it is the tab
\* of the write that starts.
LEMMA StartKeepsLock ==
    ASSUME PaneInv, LockInv, NEW b \in Books, NEW l \in [Sessions -> LockStates],
           NEW q \in Seq(Ops), NEW running \in BOOLEAN, NEW throws \in BOOLEAN,
           NEW st \in [Ops -> Statuses],
           q # <<>> => asker[Head(q)] = sessionNo[SessionOf[Head(q)]],
           ProcessQueue(b, q, running, st, throws),
           lock' = LockAfterStart(l, b, q, running, throws),
           tab' = tab,
           \A s \in Sessions : HasRuntime(s) /\ l[s] = "holding_lock"
                               => lock[s] = "holding_lock",
           \A p \in Ops : status[p] = "executing" => status'[p] = "executing"
    PROVE  LockNeverStuck'
<1> SUFFICES ASSUME NEW s \in Sessions, HasRuntime(s)', lock'[s] = "holding_lock"
             PROVE  \E p \in Ops : SessionOf[p] = s /\ status'[p] = "executing"
  BY DEF LockNeverStuck
<1>1. HasRuntime(s)
  BY DEF HasRuntime
<1>2. \/ l[s] = "holding_lock"
      \/ ~running /\ q # <<>> /\ ~throws /\ s = SessionOf[Head(q)]
  <2> DEFINE after == LockAfterStart(l, b, q, running, throws)
  <2>1. \A t \in Sessions :
           HasRuntime(t) /\ after[t] = "holding_lock"
           => \/ l[t] = "holding_lock"
              \/ ~running /\ q # <<>> /\ ~throws /\ t = SessionOf[Head(q)]
    BY LockAfterStartHolds, Z3
  <2>2. after[s] = "holding_lock"
    OBVIOUS
  <2> HIDE DEF after
  <2> QED BY <1>1, <2>1, <2>2
<1>3. CASE l[s] = "holding_lock"
  <2>1. lock[s] = "holding_lock"
    BY <1>1, <1>3
  <2>2. PICK p \in Ops : SessionOf[p] = s /\ status[p] = "executing"
    BY <1>1, <2>1 DEF LockInv, LockNeverStuck
  <2> QED BY <2>2
<1>4. CASE ~running /\ q # <<>> /\ ~throws /\ s = SessionOf[Head(q)]
  <2>1. Head(q) \in Ops
    BY <1>4
  <2>2. status' = [st EXCEPT ![Head(q)] = "executing"]
    BY <1>4 DEF ProcessQueue
  <2> QED BY <1>4, <2>1, <2>2
<1> QED BY <1>2, <1>3, <1>4

\* Queueing a write keeps the tabs' lock states.
LEMMA SubmitKeepsLock ==
    ASSUME PaneInv, LockInv, NEW o \in Ops, NEW b \in Books, Submit(o, b), tab' = tab,
           phase[o] \in {"identifying", "deciding", "approving"}
    PROVE  LockNeverStuck'
<1>0. CallsWellFormed /\ IInv /\ status \in [Ops -> Statuses]
  BY DEF PaneInv, IInv, TypeOK
<1> DEFINE q == Append(queue[b], o)
           running == active[b] # None
           throws == Throws(Head(q))
           st == [status EXCEPT ![o] = "waiting"]
           waits == IF running \/ queue[b] # <<>>
                    THEN SetLock(lock, o, "waiting_for_lock") ELSE lock
<1>1. /\ lock' = LockAfterStart(waits, b, q, running, throws)
      /\ ProcessQueue(b, q, running, st, throws)
  BY DEF Submit, RunWrite
<1>2. q \in Seq(Ops) /\ running \in BOOLEAN /\ st \in [Ops -> Statuses]
  BY <1>0 DEF IInv, TypeOK, Statuses
<1>3. asker[o] = sessionNo[SessionOf[o]] /\ lock \in [Sessions -> LockStates]
  BY DEF LockInv, LockTypes, AskersCurrent
<1>4. /\ waits \in [Sessions -> LockStates]
      /\ \A s \in Sessions : HasRuntime(s) /\ waits[s] = "holding_lock"
                             => lock[s] = "holding_lock"
  <2> DEFINE x == "waiting_for_lock"
             w == SetLock(lock, o, x)
  <2>1. x \in LockStates /\ x # "holding_lock"
    BY DEF LockStates
  <2>2. waits = w \/ waits = lock
    OBVIOUS
  <2> HIDE DEF x
  <2>3. /\ w \in [Sessions -> LockStates]
        /\ \A s \in Sessions : s # SessionOf[o] => w[s] = lock[s]
        /\ HasRuntime(SessionOf[o]) => w[SessionOf[o]] = x
    BY <2>1, <1>3, SetLockSets
  <2> HIDE DEF w, waits
  <2> QED BY <2>1, <2>2, <2>3, <1>3
<1>5. Head(q) \in Ops /\ asker[Head(q)] = sessionNo[SessionOf[Head(q)]]
  <2>1. CASE queue[b] = <<>>
    <3>1. Head(q) = o
      BY <2>1
    <3> HIDE DEF q
    <3> QED BY <3>1, <1>3
  <2>2. CASE queue[b] # <<>>
    <3>1. Head(q) \in Ops /\ status[Head(q)] = "waiting"
      BY <1>0, <2>2, HeadWaits
    <3> HIDE DEF q
    <3> QED BY <3>1 DEF LockInv, AskersCurrent, QueuedInPhase
  <2> QED BY <2>1, <2>2
<1>6. throws \in BOOLEAN
  BY <1>0, <1>5 DEF Throws, CallsWellFormed
<1>7. \A p \in Ops : status[p] = "executing" => status'[p] = "executing"
  BY <1>0, SubmitStatus
<1> HIDE DEF q, running, throws, st, waits
<1> QED BY <1>1, <1>2, <1>4, <1>5, <1>6, <1>7, StartKeepsLock

\* So does a hand-over.
LEMMA HandOverKeepsLock ==
    ASSUME PaneInv, LockInv, NEW b \in Books, HandOver(b)
    PROVE  LockInv'
<1>0. CallsWellFormed /\ IInv /\ status \in [Ops -> Statuses] /\ queue[b] \in Seq(Ops)
  BY DEF PaneInv, IInv, TypeOK
<1> DEFINE q == queue[b]
           throws == q # <<>> /\ Throws(Head(q))
<1>1. /\ lock' = LockAfterStart(lock, b, q, FALSE, throws)
      /\ ProcessQueue(b, q, FALSE, status, throws)
      /\ UNCHANGED <<phase, asker, sessionNo, tab>>
  BY DEF HandOver, Release, callVars
<1>2. q # <<>> => /\ Head(q) \in Ops /\ status[Head(q)] = "waiting"
                  /\ asker[Head(q)] = sessionNo[SessionOf[Head(q)]]
  <2>1. q # <<>> => Head(q) \in Ops /\ status[Head(q)] = "waiting"
    BY <1>0, QueueHeadWaits
  <2> HIDE DEF q
  <2> QED BY <2>1 DEF LockInv, AskersCurrent, QueuedInPhase
<1>3. throws \in BOOLEAN
  BY <1>0, <1>2 DEF Throws, CallsWellFormed
<1>4. \A p \in Ops : status[p] # "waiting" => status'[p] = status[p]
  BY <1>0, HandOverStatus
<1>5. lock \in [Sessions -> LockStates]
  BY DEF LockInv, LockTypes
<1>6. q \in Seq(Ops) /\ FALSE \in BOOLEAN
  BY <1>0
<1> HIDE DEF q, throws
<1>7. LockNeverStuck'
  BY <1>0, <1>1, <1>2, <1>3, <1>4, <1>5, <1>6, StartKeepsLock
<1>8. lock' \in [Sessions -> LockStates]
  BY <1>1, <1>2, <1>3, <1>5, <1>6, LockAfterStartHolds
<1>9. status' \in [Ops -> Statuses]
  BY <1>0, <1>6, <1>1, <1>3, ProcessQueueTypes DEF IInv
<1> QED BY <1>0, <1>1, <1>4, <1>7, <1>8, <1>9
        DEF LockInv, LockTypes, QueuedInPhase, AskersCurrent, Statuses

\* And a call step.
LEMMA CallStepLock ==
    ASSUME PaneInv, LockInv, NEW o \in Ops, CallStep(o)
    PROVE  LockInv'
<1>0. CallsWellFormed /\ IInv
  BY DEF PaneInv
<1>1. LockTypes' /\ QueuedInPhase' /\ AskersCurrent'
  BY CallStepPhases
<1>2. CASE Begin(o) \/ IdentifiedRead(o) \/ IdentifiedWrite(o) \/ Denied(o)
           \/ ReadEnds(o) \/ Resume(o) \/ BridgeCall(o) \/ BridgeCallEnds(o)
  <2>1. UNCHANGED <<lock, status, tab>>
    BY <1>2 DEF Begin, IdentifiedRead, IdentifiedWrite, Denied, ReadEnds, Resume,
                BridgeCall, BridgeCallEnds, Reject, coordVars, tabVars
  <2> QED BY <1>1, <2>1, LockFrame DEF LockInv, HasRuntime
<1>3. CASE IdentifiedRestore(o)
  BY <1>0, <1>1, <1>3, SubmitKeepsLock DEF IdentifiedRestore, CallsWellFormed, LockInv
<1>4. CASE Decided(o) \/ Approved(o)
  <2>1. phase[o] \in {"deciding", "approving"} /\ target[o] \in Books /\ tab' = tab
    BY <1>4, <1>0 DEF Decided, Approved, CallsWellFormed
  <2>2. CASE Reject(o)
    BY <1>1, <2>1, <2>2, LockFrame DEF Reject, coordVars, LockInv, HasRuntime
  <2>3. CASE Submit(o, target[o])
    BY <1>1, <2>1, <2>3, SubmitKeepsLock DEF LockInv
  <2> QED BY <1>4, <2>2, <2>3 DEF Decided, Approved
<1>5. CASE WriteEnds(o)
  <2>1. Settle(o) /\ tab' = tab /\ lock' = SetLock(lock, o, "idle")
    BY <1>5 DEF WriteEnds
  <2>2. /\ status[o] = "executing"
        /\ \A p \in Ops \ {o} : status'[p] = status[p]
    BY <1>0, <2>1, SettleStatus
  <2>3. asker[o] = sessionNo[SessionOf[o]] /\ lock \in [Sessions -> LockStates]
    BY <2>2 DEF LockInv, LockTypes, QueuedInPhase, AskersCurrent
  <2> DEFINE x == "idle"
  <2>4. x \in LockStates /\ x # "holding_lock" /\ lock' = SetLock(lock, o, x)
    BY <2>1 DEF LockStates
  <2> HIDE DEF x
  <2>5. /\ \A s \in Sessions : s # SessionOf[o] => lock'[s] = lock[s]
        /\ HasRuntime(SessionOf[o]) => lock'[SessionOf[o]] = x
    BY <2>3, <2>4, SetLockSets
  <2>6. \A s \in Sessions : HasRuntime(s)' => HasRuntime(s)
    BY <2>1 DEF HasRuntime
  <2>7. LockNeverStuck'
    BY <2>2, <2>4, <2>5, <2>6 DEF LockInv, LockNeverStuck
  <2> QED BY <1>1, <2>7 DEF LockInv
<1> QED BY <1>2, <1>3, <1>4, <1>5 DEF CallStep

\* A tab is given another session only while no tool call of it is in flight.
LEMMA TabStepLock ==
    ASSUME PaneInv, LockInv, NEW s \in Sessions, TabStep(s),
           \A t \in Sessions : sessionNo'[t] # sessionNo[t] =>
               ~ \E o \in Ops : SessionOf[o] = t /\ Kind[o] = "restore" /\ InFlight(o)
    PROVE  LockInv'
<1>1. UNCHANGED <<lock, status, phase, asker>>
  BY DEF TabStep, Abort, CloseTab, StopAndClose, KeepOpen, CloseSaved,
         ReplaceSession, coordVars, callVars, tabVars
<1>2. LockTypes' /\ \A t \in Sessions : HasRuntime(t)' => HasRuntime(t)
  <2>1. \/ tab' = tab
        \/ /\ tab[s] # "closed"
           /\ \E x \in {"open", "confirming", "saving", "closed"} :
                 tab' = [tab EXCEPT ![s] = x]
    BY DEF TabStep, Abort, CloseTab, StopAndClose, KeepOpen, CloseSaved,
           ReplaceSession, tabVars
  <2>2. sessionNo' = sessionNo \/ sessionNo' = [sessionNo EXCEPT ![s] = @ + 1]
    BY DEF TabStep, Abort, CloseTab, StopAndClose, KeepOpen, CloseSaved,
           ReplaceSession, tabVars
  <2> QED BY <1>1, <2>1, <2>2 DEF LockInv, LockTypes, HasRuntime
<1>3. AskersCurrent'
  <2>1. CASE ReplaceSession(s)
    <3>1. ~Busy(s) /\ sessionNo' = [sessionNo EXCEPT ![s] = @ + 1]
      BY <2>1 DEF ReplaceSession
    <3>2. sessionNo'[s] # sessionNo[s]
      BY <3>1 DEF LockInv, LockTypes
    <3>3. \A o \in Ops : SessionOf[o] = s => Kind[o] = "bridge" \/ ~InFlight(o)
      BY <3>1, <3>2, ToolsAssumption DEF Busy, IsTool
    <3>4. \A o \in Ops : phase[o] \in {"identifying", "deciding", "approving", "coordinated"}
                         => SessionOf[o] # s
      BY <3>3 DEF InFlight, LockInv, QueuedInPhase
    <3> QED BY <1>1, <3>1, <3>4, ToolsAssumption DEF LockInv, LockTypes, AskersCurrent
  <2>2. CASE ~ReplaceSession(s)
    <3>1. sessionNo' = sessionNo
      BY <2>2 DEF TabStep, Abort, CloseTab, StopAndClose, KeepOpen, CloseSaved, tabVars
    <3> QED BY <1>1, <3>1 DEF LockInv, AskersCurrent
  <2> QED BY <2>1, <2>2
<1>4. QueuedInPhase'
  BY <1>1 DEF LockInv, QueuedInPhase
<1> QED BY <1>1, <1>2, <1>3, <1>4, LockFrame DEF LockInv

\* Every step keeps it, if sessions are replaced only beside finished restores.
LEMMA StepLockInv ==
    ASSUME PaneInv, LockInv, [ToolsNext]_toolVars,
           \A t \in Sessions : sessionNo'[t] # sessionNo[t] =>
               ~ \E o \in Ops : SessionOf[o] = t /\ Kind[o] = "restore" /\ InFlight(o)
    PROVE  LockInv'
<1>1. ASSUME NEW o \in Ops, CallStep(o) PROVE LockInv'
  BY <1>1, CallStepLock
<1>2. ASSUME NEW b \in Books, HandOver(b) PROVE LockInv'
  BY <1>2, HandOverKeepsLock
<1>3. ASSUME NEW s \in Sessions, TabStep(s) PROVE LockInv'
  BY <1>3, TabStepLock
<1>4. CASE ToggleMode \/ Rename \/ UNCHANGED toolVars
  BY <1>4 DEF ToggleMode, Rename, toolVars, coordVars, callVars, tabVars,
     LockInv, LockTypes, QueuedInPhase, AskersCurrent, LockNeverStuck, HasRuntime
<1> QED BY <1>1, <1>2, <1>3, <1>4 DEF ToolsNext

\* A tab that shows "holding lock" has a write executing, so its close button
\* is not disabled for ever, if no tab is given another session while a
\* restore of it is in flight.  (When one is, the events of the restore find
\* no tab, and the last lock state stays.)
THEOREM LocksAreReleased == ToolsSpec /\ ReplacedWhenQuiet => []LockNeverStuck
<1> DEFINE Quiet == \A s \in Sessions : sessionNo'[s] # sessionNo[s] =>
                      ~ \E o \in Ops : SessionOf[o] = s /\ Kind[o] = "restore" /\ InFlight(o)
<1>1. [Quiet]_toolVars => Quiet
  BY DEF toolVars, tabVars
<1>2. PaneInv /\ LockInv /\ [ToolsNext]_toolVars /\ [Quiet]_toolVars => LockInv'
  BY <1>1, StepLockInv
<1>3. LockInv => LockNeverStuck
  BY DEF LockInv
<1> QED BY <1>2, <1>3, InitLockInv, PaneInvariant, PTL
        DEF ToolsSpec, ReplacedWhenQuiet

\* In particular when the user restores nothing, or never opens another
\* session in a tab.
THEOREM LocksAreReleasedWithoutRestores ==
    ASSUME MaxReplaced = 0 \/ \A o \in Ops : Kind[o] # "restore"
    PROVE  ToolsSpec => []LockNeverStuck
<1> DEFINE Quiet == \A s \in Sessions : sessionNo'[s] # sessionNo[s] =>
                      ~ \E o \in Ops : SessionOf[o] = s /\ Kind[o] = "restore" /\ InFlight(o)
           Counted == sessionNo \in [Sessions -> Nat]
<1>1. ToolsInit => Counted
  BY DEF ToolsInit
<1>2. Counted /\ [ToolsNext]_toolVars => Counted' /\ [Quiet]_toolVars
  <2> SUFFICES ASSUME Counted, [ToolsNext]_toolVars
               PROVE  Counted' /\ Quiet
    OBVIOUS
  <2>1. ASSUME NEW o \in Ops, CallStep(o) PROVE sessionNo' = sessionNo
    BY <2>1 DEF CallStep, Begin, IdentifiedRead, IdentifiedWrite,
       IdentifiedRestore, Decided, Approved, Denied, ReadEnds, WriteEnds,
       Resume, BridgeCall, BridgeCallEnds, tabVars
  <2>2. ASSUME NEW b \in Books, HandOver(b) PROVE sessionNo' = sessionNo
    BY <2>2 DEF HandOver
  <2>3. ASSUME NEW s \in Sessions, TabStep(s) PROVE Counted' /\ Quiet
    <3>1. CASE sessionNo' = sessionNo
      BY <3>1
    <3>2. CASE /\ sessionNo[s] < MaxReplaced
               /\ sessionNo' = [sessionNo EXCEPT ![s] = @ + 1]
      <4>1. sessionNo[s] \in Nat
        OBVIOUS
      <4>2. \A o \in Ops : Kind[o] # "restore"
        BY <3>2, <4>1
      <4> QED BY <3>2, <4>2
    <3> QED BY <2>3, <3>1, <3>2 DEF TabStep, Abort, CloseTab, StopAndClose,
               KeepOpen, CloseSaved, ReplaceSession, tabVars
  <2>4. CASE ToggleMode \/ Rename \/ UNCHANGED toolVars
    BY <2>4 DEF ToggleMode, Rename, toolVars, tabVars
  <2> QED BY <2>1, <2>2, <2>3, <2>4 DEF ToolsNext
<1>3. ToolsSpec => ReplacedWhenQuiet
  BY <1>1, <1>2, PTL DEF ToolsSpec, ReplacedWhenQuiet
<1> QED BY <1>3, LocksAreReleased, PTL
===============================================================================
