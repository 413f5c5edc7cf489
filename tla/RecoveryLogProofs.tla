-------------------------- MODULE RecoveryLogProofs --------------------------
(***************************************************************************)
(* What holds of the recovery log for all sets of operations and of old    *)
(* snapshots, every limit, any number of panes, and calls that come before *)
(* the log has been read.                                                  *)
(*                                                                         *)
(* The first part: no list grows beyond the limit or has a snapshot twice. *)
(* It needs that a snapshot is nowhere before its operation puts it into a *)
(* list, and operations at most one request each.                          *)
(*                                                                         *)
(* The second part: what was removed stays away, what was returned is kept.*)
(* What an operation removed is in no later write of its pane, and what it *)
(* put in is in every later one.  A read cannot bring anything back, since *)
(* what calls have put in or taken out while it is under way was not       *)
(* stored when it was asked for.                                           *)
(*                                                                         *)
(* The third part is about the poll that clears the backups of a saved     *)
(* workbook: it calls the log as others do, and clears no backup of a      *)
(* change that was unsaved when it looked.                                 *)
(***************************************************************************)
EXTENDS SaveBoundary, FiniteSetTheorems, TLAPS

Requests == [ask : {"read", "write"}, op : Ops, payload : Seq(Snapshots)]
Stages == {"idle", "loading", "loaded", "found", "changed", "writing", "done", "dead"}

\* The operation may have put its snapshot into a list.
Put(o) == pc[o] \in {"changed", "writing", "done", "dead"}

\* The values the variables take.
LogTypes ==
    /\ loaded \in [Panes -> BOOLEAN]
    /\ list \in [Panes -> Seq(Snapshots)]
    /\ disk \in Seq(Snapshots)
    /\ requests \in Seq(Requests)
    /\ pc \in [Ops -> Stages]
    /\ restarts \in 0..MaxRestarts
    /\ made \in SUBSET Snapshots
    /\ cut \in [Ops -> SUBSET Snapshots]
    /\ erased \in SUBSET Snapshots
    /\ revived \in SUBSET Snapshots
    /\ lost \in SUBSET Snapshots

\* A list of at most MaxEntries snapshots, each once.
Proper(s) == Len(s) <= MaxEntries /\ \A i, j \in 1..Len(s) : s[i] = s[j] => i = j
Holds(s, x) == x \in ToSet(s)

Lists ==
    /\ Proper(disk)
    /\ \A p \in Panes : Proper(list[p])
    /\ \A n \in 1..Len(requests) : Proper(requests[n].payload)

\* A snapshot is nowhere before its operation puts it into a list.
Unknown ==
    \A o \in Ops : ~Put(o) =>
        /\ o \notin made \cup erased \cup lost /\ cut[o] = {}
        /\ \A u \in Ops : o \notin cut[u]
        /\ ~Holds(disk, o) /\ \A p \in Panes : ~Holds(list[p], o)
        /\ \A n \in 1..Len(requests) : ~Holds(requests[n].payload, o)

\* An operation waits for one request at most; the write of one that died with
\* its pane may still be served.
Waiting ==
    /\ \A n \in 1..Len(requests) :
          IF requests[n].ask = "read" THEN pc[requests[n].op] = "loading"
          ELSE pc[requests[n].op] \in {"writing", "dead"}
    /\ \A m, n \in 1..Len(requests) : requests[m].op = requests[n].op => m = n

\* A call that only lists changes nothing.
OnlyLists == \A o \in Ops : KindOf[o] = "list" => pc[o] \in {"idle", "loading", "loaded"}

LogInv == LogTypes /\ Lists /\ Unknown /\ Waiting /\ OnlyLists

-----------------------------------------------------------------------------
(***************************************************************************)
(* What Without returns, by induction over the length: the least number    *)
(* for which it would not hold.                                            *)
(***************************************************************************)
LEMMA LeastExists ==
    ASSUME NEW N \in Nat, NEW S, S \subseteq 0..N, S # {}
    PROVE  \E x \in S : \A y \in S : x <= y
<1> DEFINE Bad == {T \in SUBSET S : T # {} /\ ~\E x \in T : \A y \in T : x <= y}
           R == StrictSubsetOrdering(S)
<1> SUFFICES ASSUME S \in Bad PROVE FALSE
  OBVIOUS
<1>0. IsFiniteSet(S)
  <2>1. 0 \in Int /\ N \in Int
    OBVIOUS
  <2>2. IsFiniteSet(0..N)
    BY <2>1, FS_Interval
  <2> QED
    BY <2>2, FS_Subset
<1>1. IsWellFoundedOn(R, SUBSET S)
  BY <1>0, FS_StrictSubsetOrderingWellFounded, FS_FiniteSubsetsOfFinite
<1>2. PICK T \in Bad : \A U \in Bad : <<U, T>> \notin R
  <2>1. Bad \subseteq SUBSET S /\ Bad # {}
    OBVIOUS
  <2> HIDE DEF Bad, R
  <2> QED
    BY <1>1, <2>1, WFMin
<1>3. PICK x \in T : x \in 0..N
  OBVIOUS
<1>4. T \ {x} \notin Bad
  <2>1. <<T \ {x}, T>> \in R
    BY <1>3 DEF StrictSubsetOrdering
  <2> HIDE DEF Bad, R
  <2> QED
    BY <1>2, <2>1
<1>5. CASE T \ {x} = {}
  BY <1>3, <1>5
<1>6. CASE T \ {x} # {}
  <2>1. PICK m \in T \ {x} : \A y \in T \ {x} : m <= y
    BY <1>4, <1>6
  <2>2. m \in 0..N /\ \A y \in T : y \in 0..N
    BY <2>1
  <2>3. CASE m <= x
    BY <2>1, <2>3
  <2>4. CASE ~(m <= x)
    <3>1. \A y \in T : x <= y
      BY <1>3, <2>1, <2>2, <2>4
    <3> QED
      BY <1>3, <3>1
  <2> QED
    BY <2>3, <2>4
<1> QED
  BY <1>5, <1>6

\* f is the first n members of s without those in T.
Sifted(f, s, n, T) ==
    Len(f) <= n /\ \E at \in [1..Len(f) -> 1..n] :
       /\ \A i, j \in 1..Len(f) : i < j => at[i] < at[j]
       /\ \A i \in 1..Len(f) : f[i] = s[at[i]] /\ s[at[i]] \notin T
       /\ \A j \in 1..n : s[j] \notin T => \E i \in 1..Len(f) : at[i] = j

LEMMA WithoutSifts ==
    ASSUME NEW X, NEW s \in Seq(X), NEW T
    PROVE  Without(s, T) \in Seq(X) /\ Sifted(Without(s, T), s, Len(s), T)
<1> DEFINE D(g, n) == IF n = 0 THEN <<>>
                      ELSE IF s[n] \in T THEN g[n - 1] ELSE Append(g[n - 1], s[n])
           Rest(g, k) == g = [n \in 0..k |-> D(g, n)]
           rest == CHOOSE g : Rest(g, Len(s))
<1>1. Len(s) \in Nat /\ \A i \in 1..Len(s) : s[i] \in X
  OBVIOUS
<1>2. Without(s, T) = rest[Len(s)]
  BY DEF Without
<1>3. \E g : Rest(g, Len(s))
  <2> DEFINE Bad == {k \in 0..Len(s) : ~\E g : Rest(g, k)}
  <2> SUFFICES ASSUME Bad # {} PROVE FALSE
    <3>1. Len(s) \in 0..Len(s)
      BY <1>1
    <3> HIDE DEF Rest
    <3> QED
      BY <3>1
  <2>1. PICK k \in Bad : \A l \in Bad : k <= l
    <3>1. Bad \subseteq 0..Len(s)
      OBVIOUS
    <3> HIDE DEF Bad
    <3> QED
      BY <1>1, <3>1, LeastExists
  <2>2. CASE k = 0
    <3>1. Rest([n \in 0..0 |-> <<>>], 0)
      OBVIOUS
    <3> QED
      BY <2>1, <2>2, <3>1
  <2>3. CASE k # 0
    <3>1. k \in 1..Len(s) /\ k - 1 \in 0..Len(s)
      BY <1>1, <2>1, <2>3
    <3>2. k - 1 \notin Bad
      <4> HIDE DEF Bad
      <4> QED
        BY <1>1, <2>1, <3>1
    <3>3. PICK g : Rest(g, k - 1)
      BY <3>1, <3>2
    <3> DEFINE h == [n \in 0..k |-> D(g, n)]
    <3>4. \A n \in 0..(k - 1) : h[n] = g[n]
      <4> HIDE DEF D
      <4>1. \A n \in 0..(k - 1) : n \in 0..k
        BY <3>1
      <4> QED
        BY <3>3, <4>1
    <3>5. \A n \in 0..k : n = 0 \/ n - 1 \in 0..(k - 1)
      BY <3>1
    <3>6. \A n \in 0..k : D(g, n) = D(h, n)
      <4> HIDE DEF h
      <4> QED
        BY <3>4, <3>5
    <3>7. Rest(h, k)
      BY <3>6
    <3> QED
      BY <2>1, <3>7
  <2> QED
    BY <2>2, <2>3
<1>4. Rest(rest, Len(s))
  <2> HIDE DEF Rest
  <2> QED
    BY <1>3
<1> HIDE DEF rest
<1>5. /\ rest[0] = <<>>
      /\ \A n \in 1..Len(s) : rest[n] = IF s[n] \in T THEN rest[n - 1]
                                        ELSE Append(rest[n - 1], s[n])
  <2>1. \A n \in 0..Len(s) : rest[n] = D(rest, n)
    <3> HIDE DEF D
    <3> QED
      BY <1>4
  <2> QED
    BY <1>1, <2>1
<1> HIDE DEF D, Rest
<1>6. ASSUME NEW n \in 1..Len(s), rest[n - 1] \in Seq(X), Sifted(rest[n - 1], s, n - 1, T)
      PROVE  rest[n] \in Seq(X) /\ Sifted(rest[n], s, n, T)
  <2> DEFINE f == rest[n - 1]
  <2>1. PICK at \in [1..Len(f) -> 1..(n - 1)] :
           /\ \A i, j \in 1..Len(f) : i < j => at[i] < at[j]
           /\ \A i \in 1..Len(f) : f[i] = s[at[i]] /\ s[at[i]] \notin T
           /\ \A j \in 1..(n - 1) : s[j] \notin T => \E i \in 1..Len(f) : at[i] = j
    BY <1>6 DEF Sifted
  <2>2. Len(f) \in Nat /\ n \in Nat /\ n > 0 /\ s[n] \in X /\ Len(f) <= n - 1
        /\ \A j \in 1..n : j \in 1..(n - 1) \/ j = n
    BY <1>1, <1>6 DEF Sifted
  <2>3. CASE s[n] \in T
    <3>1. rest[n] = f
      BY <1>5, <2>3
    <3>2. at \in [1..Len(f) -> 1..n]
      BY <2>1, <2>2
    <3>3. \A j \in 1..n : s[j] \notin T => \E i \in 1..Len(f) : at[i] = j
      BY <2>1, <2>2, <2>3
    <3> HIDE DEF f
    <3>4. Sifted(f, s, n, T)
      BY <2>1, <2>2, <3>2, <3>3 DEF Sifted
    <3> QED
      BY <1>6, <3>1, <3>4 DEF f
  <2>4. CASE s[n] \notin T
    <3> DEFINE h == Append(f, s[n])
               to == [i \in 1..(Len(f) + 1) |-> IF i = Len(f) + 1 THEN n ELSE at[i]]
    <3>1. rest[n] = h
      BY <1>5, <2>4
    <3>2. f \in Seq(X)
      BY <1>6
    <3> HIDE DEF f
    <3>3. /\ h \in Seq(X) /\ Len(h) = Len(f) + 1 /\ h[Len(f) + 1] = s[n]
          /\ \A i \in 1..Len(f) : h[i] = f[i]
          /\ \A i \in 1..Len(h) : i \in 1..Len(f) \/ i = Len(f) + 1
      BY <2>2, <3>2
    <3> HIDE DEF h
    <3>4. \A i \in 1..Len(f) : to[i] = at[i] /\ at[i] \in 1..(n - 1)
      <4>1. \A i \in 1..Len(f) : i \in 1..(Len(f) + 1) /\ i # Len(f) + 1
        BY <2>2
      <4> QED
        BY <2>1, <4>1
    <3>5. to[Len(f) + 1] = n
      BY <2>2
    <3>6. to \in [1..Len(h) -> 1..n]
      BY <2>2, <3>3, <3>4
    <3> HIDE DEF to
    <3>7. \A i, j \in 1..Len(h) : i < j => to[i] < to[j]
      BY <2>1, <2>2, <3>3, <3>4, <3>5
    <3>8. \A i \in 1..Len(h) : h[i] = s[to[i]] /\ s[to[i]] \notin T
      BY <2>1, <2>4, <3>3, <3>4, <3>5
    <3>9. \A j \in 1..n : s[j] \notin T => \E i \in 1..Len(h) : to[i] = j
      <4>1. Len(f) + 1 \in 1..Len(h) /\ \A i \in 1..Len(f) : i \in 1..Len(h)
        BY <2>2, <3>3
      <4> QED
        BY <2>1, <2>2, <3>4, <3>5, <4>1
    <3>10. Sifted(h, s, n, T)
      BY <2>2, <3>3, <3>6, <3>7, <3>8, <3>9 DEF Sifted
    <3> QED
      BY <3>1, <3>3, <3>10
  <2> QED
    BY <2>3, <2>4
<1>7. rest[0] \in Seq(X) /\ Sifted(rest[0], s, 0, T)
  <2>1. rest[0] \in Seq(X) /\ Len(rest[0]) = 0
    BY <1>5
  <2>2. [i \in 1..Len(rest[0]) |-> i] \in [1..Len(rest[0]) -> 1..0]
    BY <2>1
  <2> QED
    BY <2>1, <2>2 DEF Sifted
<1>8. \A n \in 0..Len(s) : rest[n] \in Seq(X) /\ Sifted(rest[n], s, n, T)
  <2> DEFINE Bad == {n \in 0..Len(s) : ~(rest[n] \in Seq(X) /\ Sifted(rest[n], s, n, T))}
  <2> SUFFICES ASSUME Bad # {} PROVE FALSE
    OBVIOUS
  <2>1. PICK n \in Bad : \A l \in Bad : n <= l
    BY <1>1, LeastExists
  <2>2. n # 0
    BY <1>7, <2>1
  <2>3. n \in 1..Len(s) /\ n - 1 \in 0..Len(s) /\ n - 1 \notin Bad
    BY <1>1, <2>1, <2>2
  <2> QED
    BY <1>6, <2>1, <2>3
<1> QED
  BY <1>1, <1>2, <1>8

-----------------------------------------------------------------------------
LEMMA HoldsAt ==
    ASSUME NEW X, NEW s \in Seq(X), NEW x
    PROVE  Holds(s, x) <=> \E i \in 1..Len(s) : s[i] = x
<1>1. DOMAIN s = 1..Len(s)
  OBVIOUS
<1> QED
  BY <1>1 DEF Holds, ToSet

LEMMA WithoutHolds ==
    ASSUME NEW s \in Seq(Snapshots), Proper(s), NEW T, RecoveryAssumption
    PROVE  /\ Without(s, T) \in Seq(Snapshots)
           /\ Proper(Without(s, T))
           /\ \A x : Holds(Without(s, T), x) <=> Holds(s, x) /\ x \notin T
<1> DEFINE f == Without(s, T)
<1>1. f \in Seq(Snapshots) /\ Sifted(f, s, Len(s), T)
  BY WithoutSifts
<1> HIDE DEF f
<1>2. PICK at \in [1..Len(f) -> 1..Len(s)] :
         /\ \A i, j \in 1..Len(f) : i < j => at[i] < at[j]
         /\ \A i \in 1..Len(f) : f[i] = s[at[i]] /\ s[at[i]] \notin T
         /\ \A j \in 1..Len(s) : s[j] \notin T => \E i \in 1..Len(f) : at[i] = j
  BY <1>1 DEF Sifted
<1>3. Len(f) \in Nat /\ Len(s) \in Nat /\ Len(f) <= Len(s)
  BY <1>1 DEF Sifted
<1>4. ASSUME NEW x
      PROVE  Holds(f, x) <=> Holds(s, x) /\ x \notin T
  <2>1. Holds(f, x) <=> \E i \in 1..Len(f) : f[i] = x
    BY <1>1, HoldsAt
  <2>2. Holds(s, x) <=> \E i \in 1..Len(s) : s[i] = x
    BY HoldsAt
  <2>3. Holds(f, x) => Holds(s, x) /\ x \notin T
    BY <1>2, <2>1, <2>2
  <2>4. ASSUME Holds(s, x), x \notin T
        PROVE  Holds(f, x)
    <3>1. PICK j \in 1..Len(s) : s[j] = x
      BY <2>2, <2>4
    <3>2. PICK i \in 1..Len(f) : at[i] = j
      BY <1>2, <2>4, <3>1
    <3>3. f[i] = x
      BY <1>2, <3>1, <3>2
    <3> QED
      BY <2>1, <3>3
  <2> QED
    BY <2>3, <2>4
<1>5. ASSUME NEW i \in 1..Len(f), NEW j \in 1..Len(f), f[i] = f[j]
      PROVE  i = j
  <2>1. at[i] = at[j]
    BY <1>2, <1>5 DEF Proper
  <2>2. ~(i < j) /\ ~(j < i)
    BY <1>2, <1>3, <2>1
  <2> QED
    BY <1>3, <2>2
<1>6. Proper(f)
  BY <1>3, <1>5 DEF Proper, RecoveryAssumption
<1> QED
  BY <1>1, <1>4, <1>6 DEF f

LEMMA LimitedHolds ==
    ASSUME NEW s \in Seq(Snapshots), Proper(s), NEW o \in Ops, ~Holds(s, o), RecoveryAssumption
    PROVE  LET f == Limited(<<o>> \o s)
           IN  /\ f \in Seq(Snapshots) /\ Proper(f) /\ Holds(f, o)
               /\ \A x : Holds(f, x) => x = o \/ Holds(s, x)
<1> DEFINE all == <<o>> \o s
           n == IF Len(all) < MaxEntries THEN Len(all) ELSE MaxEntries
           f == SubSeq(all, 1, n)
<1>1. /\ all \in Seq(Snapshots) /\ Len(all) = Len(s) + 1 /\ Len(s) \in Nat
      /\ all[1] = o /\ \A i \in 1..Len(s) : all[i + 1] = s[i]
  BY DEF Snapshots
<1>2. n \in 1..Len(all) /\ n <= MaxEntries
  BY <1>1 DEF RecoveryAssumption
<1> HIDE DEF n
<1>3. \A i \in 1..Len(all) : i = 1 \/ (i - 1 \in 1..Len(s) /\ all[i] = s[i - 1])
  <2>1. \A i \in 1..Len(all) : i = 1 \/ (i - 1 \in 1..Len(s) /\ (i - 1) + 1 = i)
    BY <1>1
  <2> QED
    BY <1>1, <2>1
<1>4. \A i, j \in 1..Len(all) : all[i] = all[j] => i = j
  <2>1. \A i \in 1..Len(s) : s[i] # o
    BY HoldsAt
  <2> HIDE DEF all
  <2>2. SUFFICES ASSUME NEW i \in 1..Len(all), NEW j \in 1..Len(all), all[i] = all[j]
                 PROVE  i = j
    OBVIOUS
  <2>3. i \in Int /\ j \in Int
    BY <1>1
  <2>4. CASE i = 1 \/ j = 1
    BY <1>1, <1>3, <2>1, <2>2, <2>4
  <2>5. CASE i # 1 /\ j # 1
    <3>1. i - 1 \in 1..Len(s) /\ j - 1 \in 1..Len(s) /\ s[i - 1] = s[j - 1]
      BY <1>3, <2>2, <2>5
    <3>2. i - 1 = j - 1
      BY <3>1 DEF Proper
    <3> QED
      BY <2>3, <3>2
  <2> QED
    BY <2>4, <2>5
<1>5. \A i \in 1..n : i \in 1..Len(all)
  BY <1>1, <1>2
<1> HIDE DEF all
<1>6. f \in Seq(Snapshots) /\ Len(f) = n /\ \A i \in 1..n : f[i] = all[i]
  BY <1>1, <1>2, <1>5
<1> HIDE DEF f
<1>7. Proper(f)
  BY <1>2, <1>4, <1>5, <1>6 DEF Proper
<1>8. Holds(f, o)
  BY <1>1, <1>2, <1>6, HoldsAt
<1>9. ASSUME NEW x, Holds(f, x)
      PROVE  x = o \/ Holds(s, x)
  <2>1. PICK i \in 1..n : all[i] = x
    BY <1>6, <1>9, HoldsAt
  <2> QED
    BY <1>1, <1>3, <1>5, <2>1, HoldsAt
<1> QED
  BY <1>6, <1>7, <1>8, <1>9 DEF Limited, all, n, f

LEMMA EmptyHoldsNothing ==
    <<>> \in Seq(Snapshots) /\ Len(<<>>) = 0 /\ \A x : ~Holds(<<>>, x)
<1>1. <<>> \in Seq(Snapshots) /\ Len(<<>>) = 0
  OBVIOUS
<1>2. SUFFICES ASSUME NEW x
               PROVE  ~Holds(<<>>, x)
  BY <1>1
<1>3. DOMAIN <<>> = {}
  OBVIOUS
<1> QED
  BY <1>3 DEF Holds, ToSet

LEMMA EmptyIsProper ==
    ASSUME RecoveryAssumption
    PROVE  Proper(<<>>)
BY DEF Proper, RecoveryAssumption

\* The requests as a queue.
LEMMA AtTheEnd ==
    ASSUME LogTypes, NEW r \in Requests, requests' = Append(requests, r)
    PROVE  /\ requests' \in Seq(Requests)
           /\ Len(requests') = Len(requests) + 1 /\ Len(requests) \in Nat
           /\ requests'[Len(requests) + 1] = r
           /\ \A n \in 1..Len(requests) : requests'[n] = requests[n] /\ n \in 1..Len(requests')
           /\ \A n \in 1..Len(requests') : n \in 1..Len(requests) \/ n = Len(requests) + 1
<1>1. requests \in Seq(Requests)
  BY DEF LogTypes
<1> QED
  BY <1>1

LEMMA FirstServed ==
    ASSUME LogTypes, requests # <<>>, requests' = Tail(requests)
    PROVE  /\ requests' \in Seq(Requests)
           /\ Len(requests) \in Nat /\ 1 \in 1..Len(requests)
           /\ Head(requests) = requests[1] /\ Head(requests) \in Requests
           /\ Len(requests') = Len(requests) - 1
           /\ \A n \in 1..Len(requests') : n \in Nat /\ n + 1 \in 1..Len(requests) /\ n + 1 # 1
           /\ \A n \in 1..Len(requests') : requests'[n] = requests[n + 1]
<1>1. requests \in Seq(Requests)
  BY DEF LogTypes
<1> QED
  BY <1>1

\* Some requests are gone; the others keep their order.
LEMMA SomeGone ==
    ASSUME LogTypes, NEW T, requests' = Without(requests, T)
    PROVE  /\ requests' \in Seq(Requests)
           /\ \E at \in [1..Len(requests') -> 1..Len(requests)] :
                /\ \A i, j \in 1..Len(requests') : i < j => at[i] < at[j]
                /\ \A i \in 1..Len(requests') :
                      requests'[i] = requests[at[i]] /\ requests[at[i]] \notin T
                /\ \A j \in 1..Len(requests) : requests[j] \notin T =>
                      \E i \in 1..Len(requests') : at[i] = j
<1>1. requests \in Seq(Requests)
  BY DEF LogTypes
<1>2. requests' \in Seq(Requests) /\ Sifted(requests', requests, Len(requests), T)
  BY <1>1, WithoutSifts
<1> QED
  BY <1>2 DEF Sifted

LEMMA RequestFields ==
    ASSUME LogTypes, NEW n \in 1..Len(requests)
    PROVE  /\ requests[n] \in Requests
           /\ requests[n].ask \in {"read", "write"} /\ requests[n].op \in Ops
           /\ requests[n].payload \in Seq(Snapshots)
<1>1. requests[n] \in Requests
  BY DEF LogTypes
<1> QED
  BY <1>1 DEF Requests

LEMMA OldStored ==
    ASSUME RecoveryAssumption, Init
    PROVE  disk \in Seq(Snapshots) /\ Proper(disk) /\ \A x : Holds(disk, x) <=> x \in Old
<1> DEFINE n == Cardinality(Old)
<1>1. n \in Nat /\ n <= MaxEntries /\ IsFiniteSet(1..n) /\ Cardinality(1..n) = n
  <2>1. n \in Nat /\ n <= MaxEntries
    BY FS_CardinalityType DEF RecoveryAssumption
  <2>2. 1 \in Int /\ n \in Int /\ n - 1 + 1 = n /\ (1 > n => n = 0)
    BY <2>1
  <2> HIDE DEF n
  <2> QED
    BY <2>1, <2>2, FS_Interval
<1>2. PICK f \in [1..n -> Old] : IsInjective(f)
  <2>1. ExistsBijection(1..n, Old)
    BY FS_CardinalityType DEF RecoveryAssumption
  <2> HIDE DEF n
  <2> QED
    BY <2>1 DEF ExistsBijection, Bijection, Injection
<1>3. disk \in [1..n -> Old] /\ IsInjective(disk)
  BY <1>2 DEF Init, SetToSeq
<1>4. disk \in Surjection(1..n, Old)
  <2>1. disk \in Injection(1..n, Old) /\ IsFiniteSet(Old) /\ Cardinality(Old) = n
    BY <1>3 DEF Injection, RecoveryAssumption
  <2> HIDE DEF n
  <2> QED
    BY <1>1, <2>1, FS_Injection
<1> HIDE DEF n
<1>5. disk \in Seq(Snapshots) /\ Len(disk) = n
  BY <1>1, <1>3 DEF Snapshots
<1>6. \A i, j \in 1..Len(disk) : disk[i] = disk[j] => i = j
  BY <1>3, <1>5 DEF IsInjective
<1>7. \A x : Holds(disk, x) <=> x \in Old
  BY <1>3, <1>4, <1>5, HoldsAt DEF Surjection
<1> QED
  BY <1>1, <1>5, <1>6, <1>7 DEF Proper

LEMMA LogInit ==
    ASSUME RecoveryAssumption, Init
    PROVE  LogInv
<1>1. disk \in Seq(Snapshots) /\ Proper(disk) /\ \A x : Holds(disk, x) => x \in Old
  BY OldStored
<1>2. requests \in Seq(Requests) /\ Len(requests) = 0
  BY DEF Init
<1>3. LogTypes
  BY <1>1, <1>2, EmptyHoldsNothing DEF LogTypes, Init, RecoveryAssumption, Stages, Snapshots
<1>4. Lists
  BY <1>1, <1>2, EmptyIsProper DEF Lists, Init
<1>5. Unknown
  BY <1>1, <1>2, EmptyHoldsNothing DEF Unknown, Init, RecoveryAssumption
<1>6. Waiting
  BY <1>2 DEF Waiting
<1>7. OnlyLists
  BY DEF OnlyLists, Init
<1> QED
  BY <1>3, <1>4, <1>5, <1>6, <1>7 DEF LogInv

\* An operation that has not changed the list, and waits for no request, goes
\* on without any change.
LEMMA Moves ==
    ASSUME RecoveryAssumption, LogInv, NEW o \in Ops, NEW x \in {"idle", "loaded", "found", "done"},
           pc[o] \in {"idle", "loaded", "found"}, KindOf[o] = "list" => x \in {"idle", "loaded"},
           pc' = [pc EXCEPT ![o] = x],
           UNCHANGED <<logVars, disk, requests, restarts, ghosts>>
    PROVE  LogInv'
<1> USE DEF LogInv, logVars, ghosts
<1>1. pc' \in [Ops -> Stages] /\ pc'[o] = x /\ \A u \in Ops \ {o} : pc'[u] = pc[u]
  BY DEF LogTypes, Stages
<1>2. LogTypes'
  BY <1>1 DEF LogTypes
<1>3. Lists'
  BY DEF Lists
<1>4. Unknown'
  <2>1. \A u \in Ops : ~Put(u)' => ~Put(u)
    BY <1>1 DEF Put
  <2> QED
    BY <2>1 DEF Unknown
<1>5. Waiting'
  <2>1. \A n \in 1..Len(requests) : requests[n].op \in Ops \ {o}
    BY RequestFields DEF Waiting
  <2> QED
    BY <1>1, <2>1 DEF Waiting
<1>6. OnlyLists'
  BY <1>1 DEF OnlyLists
<1> QED
  BY <1>2, <1>3, <1>4, <1>5, <1>6

\* An operation asks the store.
LEMMA Asks ==
    ASSUME RecoveryAssumption, LogInv, NEW o \in Ops, NEW r \in Requests, NEW x,
           \/ pc[o] = "idle" /\ r.ask = "read" /\ x = "loading"
           \/ pc[o] = "changed" /\ r.ask = "write" /\ x = "writing",
           r.op = o, Proper(r.payload),
           \A y : Holds(r.payload, y) => Holds(list[PaneOf[o]], y),
           requests' = Append(requests, r),
           pc' = [pc EXCEPT ![o] = x],
           loaded' \in [Panes -> BOOLEAN],
           UNCHANGED <<list, disk, restarts, made, cut, erased, revived>>,
           lost' \subseteq lost \cup made
    PROVE  LogInv'
<1> USE DEF LogInv
<1>1. pc' \in [Ops -> Stages] /\ pc'[o] = x /\ \A u \in Ops \ {o} : pc'[u] = pc[u]
  BY DEF LogTypes, Stages
<1>2. /\ requests' \in Seq(Requests)
      /\ Len(requests') = Len(requests) + 1 /\ Len(requests) \in Nat
      /\ requests'[Len(requests) + 1] = r
      /\ \A n \in 1..Len(requests) : requests'[n] = requests[n] /\ n \in 1..Len(requests')
      /\ \A n \in 1..Len(requests') : n \in 1..Len(requests) \/ n = Len(requests) + 1
  BY AtTheEnd
<1>3. LogTypes'
  BY <1>1, <1>2 DEF LogTypes
<1>4. Lists'
  BY <1>2 DEF Lists
<1>5. Unknown'
  <2>1. \A u \in Ops : ~Put(u)' => ~Put(u)
    BY <1>1 DEF Put
  <2>2. PaneOf[o] \in Panes
    BY DEF RecoveryAssumption, Snapshots
  <2>3. ASSUME NEW u \in Ops, ~Put(u), NEW n \in 1..Len(requests')
        PROVE  ~Holds(requests'[n].payload, u)
    BY <1>2, <2>2, <2>3 DEF Unknown
  <2>4. \A u \in Ops : ~Put(u) => u \notin lost'
    BY DEF Unknown
  <2> QED
    BY <2>1, <2>3, <2>4 DEF Unknown
<1>6. Waiting'
  <2>1. \A n \in 1..Len(requests) : requests[n].op \in Ops \ {o}
    BY RequestFields DEF Waiting
  <2>2. \A n \in 1..Len(requests') :
           IF requests'[n].ask = "read" THEN pc'[requests'[n].op] = "loading"
           ELSE pc'[requests'[n].op] \in {"writing", "dead"}
    BY <1>1, <1>2, <2>1 DEF Waiting
  <2>3. \A m, n \in 1..Len(requests') : requests'[m].op = requests'[n].op => m = n
    BY <1>2, <2>1 DEF Waiting
  <2> QED
    BY <2>2, <2>3 DEF Waiting
<1>7. OnlyLists'
  BY <1>1 DEF OnlyLists
<1> QED
  BY <1>3, <1>4, <1>5, <1>6, <1>7

\* An operation changes the list of its pane.
LEMMA ListChanges ==
    ASSUME RecoveryAssumption, LogInv, NEW o \in Ops, NEW s \in Seq(Snapshots), Proper(s),
           \A y : Holds(s, y) => y = o \/ Holds(list[PaneOf[o]], y),
           pc[o] \in {"loaded", "found"}, KindOf[o] # "list", ListBecomes(o, s)
    PROVE  LogInv'
<1> DEFINE p == PaneOf[o]
<1> USE DEF LogInv, ListBecomes
<1>1. pc' \in [Ops -> Stages] /\ pc'[o] = "changed" /\ \A u \in Ops \ {o} : pc'[u] = pc[u]
  BY DEF LogTypes, Stages
<1>2. p \in Panes
  BY DEF RecoveryAssumption, Snapshots
<1>3. list' \in [Panes -> Seq(Snapshots)] /\ list'[p] = s /\ \A q \in Panes \ {p} : list'[q] = list[q]
  BY <1>2 DEF LogTypes
<1>4. /\ cut' \in [Ops -> SUBSET Snapshots] /\ \A u \in Ops \ {o} : cut'[u] = cut[u]
      /\ \A y \in cut'[o] : Holds(list[p], y)
  <2>1. list[p] \in Seq(Snapshots)
    BY <1>2 DEF LogTypes
  <2>2. \A y : Holds(list[p], y) => y \in Snapshots
    BY <2>1, HoldsAt
  <2>3. ToSet(list[p]) \ ToSet(s) \in SUBSET Snapshots
    BY <2>2 DEF Holds
  <2> QED
    BY <2>3 DEF LogTypes, Holds
<1>5. LogTypes'
  BY <1>1, <1>3, <1>4 DEF LogTypes
<1>6. Lists'
  BY <1>3 DEF Lists
<1>7. Unknown'
  <2>1. ASSUME NEW u \in Ops, ~Put(u)'
        PROVE  u # o /\ ~Put(u)
    BY <1>1, <2>1 DEF Put
  <2>2. ASSUME NEW u \in Ops, ~Put(u)', NEW q \in Panes
        PROVE  ~Holds(list'[q], u)
    BY <1>2, <1>3, <2>1, <2>2 DEF Unknown
  <2>3. ASSUME NEW u \in Ops, ~Put(u)', NEW v \in Ops
        PROVE  u \notin cut'[v]
    BY <1>2, <1>4, <2>1, <2>3 DEF Unknown
  <2>4. ASSUME NEW u \in Ops, ~Put(u)'
        PROVE  cut'[u] = {}
    BY <1>4, <2>1, <2>4 DEF Unknown
  <2> QED
    BY <2>1, <2>2, <2>3, <2>4 DEF Unknown
<1>8. Waiting'
  <2>1. \A n \in 1..Len(requests) : requests[n].op \in Ops \ {o}
    BY RequestFields DEF Waiting
  <2> QED
    BY <1>1, <2>1 DEF Waiting
<1>9. OnlyLists'
  BY <1>1 DEF OnlyLists
<1> QED
  BY <1>5, <1>6, <1>7, <1>8, <1>9

LEMMA Serves ==
    ASSUME RecoveryAssumption, LogInv, ServeRead \/ ServeWrite
    PROVE  LogInv'
<1> DEFINE r == Head(requests)
           o == r.op
<1> USE DEF LogInv
<1>1. /\ requests # <<>> /\ requests' = Tail(requests) /\ UNCHANGED <<loaded, restarts, cut>>
  BY DEF ServeRead, ServeWrite, logVars
<1>2. /\ requests' \in Seq(Requests)
      /\ Len(requests) \in Nat /\ 1 \in 1..Len(requests)
      /\ r = requests[1] /\ r \in Requests
      /\ Len(requests') = Len(requests) - 1
      /\ \A n \in 1..Len(requests') : n \in Nat /\ n + 1 \in 1..Len(requests) /\ n + 1 # 1
      /\ \A n \in 1..Len(requests') : requests'[n] = requests[n + 1]
  BY <1>1, FirstServed
<1>3. o \in Ops /\ r.payload \in Seq(Snapshots) /\ Proper(r.payload) /\ PaneOf[o] \in Panes
  BY <1>2 DEF Requests, Lists, RecoveryAssumption, Snapshots
<1>4. pc[o] = IF r.ask = "read" THEN "loading" ELSE IF pc[o] = "dead" THEN "dead" ELSE "writing"
  BY <1>2 DEF Waiting
<1>5. \A n \in 1..Len(requests') : requests'[n].op \in Ops \ {o}
  BY <1>2, <1>3, RequestFields DEF Waiting
<1>6. /\ pc' \in [Ops -> Stages] /\ \A u \in Ops \ {o} : pc'[u] = pc[u]
      /\ r.ask = "read" => pc'[o] = "loaded"
      /\ r.ask = "write" => pc[o] \in {"writing", "dead"} /\ pc'[o] \in {"done", "dead"}
  BY <1>3, <1>4 DEF ServeRead, ServeWrite, Returns, LogTypes, Stages
<1>7. /\ list' \in [Panes -> Seq(Snapshots)]
      /\ \A q \in Panes : list'[q] = list[q] \/ list'[q] = disk \/ list'[q] = <<>>
  <2>1. list \in [Panes -> Seq(Snapshots)] /\ disk \in Seq(Snapshots)
    BY DEF LogTypes
  <2>2. CASE list' = [list EXCEPT ![PaneOf[o]] = disk]
    BY <2>1, <2>2
  <2>3. CASE list' = [list EXCEPT ![PaneOf[o]] = <<>>]
    BY <2>1, <2>3, EmptyHoldsNothing
  <2>4. CASE list' = list
    BY <2>1, <2>4
  <2>5. \/ list' = [list EXCEPT ![PaneOf[o]] = disk]
        \/ list' = [list EXCEPT ![PaneOf[o]] = <<>>]
        \/ list' = list
    BY DEF ServeRead, ServeWrite, logVars
  <2> QED
    BY <2>2, <2>3, <2>4, <2>5
<1>8. disk' = disk \/ disk' = r.payload
  BY DEF ServeRead, ServeWrite, Stored, NotStored
<1>9. /\ made' \subseteq made \cup {o} /\ (made' # made => r.ask = "write")
      /\ \A y \in erased' : y \in erased \/ y \in cut[o]
      /\ \A y \in revived' : y \in revived \/ y \in erased
      /\ \A y \in lost' : \/ y \in lost \/ Holds(disk, y) \/ Holds(r.payload, y)
                          \/ Holds(list[PaneOf[o]], y)
  <2>1. CASE ServeRead
    BY <2>1 DEF ServeRead, Holds
  <2>2. CASE ServeWrite
    BY <2>2 DEF ServeWrite, Returns, Stored, NotStored, Holds
  <2> QED
    BY <2>1, <2>2
<1> HIDE DEF r
<1>10. LogTypes'
  <2>1. \A y : Holds(disk, y) \/ Holds(r.payload, y) \/ Holds(list[PaneOf[o]], y) => y \in Snapshots
    <3>1. disk \in Seq(Snapshots) /\ list[PaneOf[o]] \in Seq(Snapshots)
      BY <1>3 DEF LogTypes
    <3>2. \A y : Holds(disk, y) => y \in Snapshots
      BY <3>1, HoldsAt
    <3>3. \A y : Holds(r.payload, y) => y \in Snapshots
      BY <1>3, HoldsAt
    <3>4. \A y : Holds(list[PaneOf[o]], y) => y \in Snapshots
      BY <3>1, HoldsAt
    <3> QED
      BY <3>2, <3>3, <3>4
  <2>2. disk' \in Seq(Snapshots)
    BY <1>3, <1>8 DEF LogTypes
  <2>3. /\ made' \in SUBSET Snapshots /\ erased' \in SUBSET Snapshots
        /\ revived' \in SUBSET Snapshots /\ lost' \in SUBSET Snapshots
    BY <1>3, <1>9, <2>1 DEF LogTypes, Snapshots
  <2> QED
    BY <1>1, <1>2, <1>6, <1>7, <2>2, <2>3 DEF LogTypes
<1>11. Lists'
  BY <1>2, <1>3, <1>7, <1>8, EmptyIsProper DEF Lists
<1>12. Unknown'
  <2>1. ASSUME NEW u \in Ops, ~Put(u)'
        PROVE  ~Put(u) /\ (u = o => r.ask = "read")
    <3>1. r.ask \in {"read", "write"}
      BY <1>2 DEF Requests
    <3>2. CASE u = o
      BY <1>4, <1>6, <2>1, <3>1, <3>2 DEF Put
    <3>3. CASE u # o
      BY <1>6, <2>1, <3>3 DEF Put
    <3> QED
      BY <3>2, <3>3
  <2>2. ASSUME NEW u \in Ops, ~Put(u)'
        PROVE  u \notin made' \cup erased' \cup lost' /\ ~Holds(disk', u)
    BY <1>2, <1>3, <1>8, <1>9, <2>1, <2>2 DEF Unknown
  <2>3. ASSUME NEW u \in Ops, ~Put(u)', NEW q \in Panes
        PROVE  ~Holds(list'[q], u)
    BY <1>7, <2>1, <2>3, EmptyHoldsNothing DEF Unknown
  <2>4. ASSUME NEW u \in Ops, ~Put(u)', NEW n \in 1..Len(requests')
        PROVE  ~Holds(requests'[n].payload, u)
    BY <1>2, <2>1, <2>4 DEF Unknown
  <2> QED
    BY <1>1, <2>1, <2>2, <2>3, <2>4 DEF Unknown
<1>13. Waiting'
  <2>1. \A n \in 1..Len(requests') :
           IF requests'[n].ask = "read" THEN pc'[requests'[n].op] = "loading"
           ELSE pc'[requests'[n].op] \in {"writing", "dead"}
    BY <1>2, <1>5, <1>6 DEF Waiting
  <2>2. \A m, n \in 1..Len(requests') : requests'[m].op = requests'[n].op => m = n
    <3>1. \A m, n \in 1..Len(requests') : requests'[m].op = requests'[n].op => m + 1 = n + 1
      BY <1>2 DEF Waiting
    <3> QED
      BY <1>2, <3>1
  <2> QED
    BY <2>1, <2>2 DEF Waiting
<1>14. OnlyLists'
  BY <1>3, <1>4, <1>6 DEF OnlyLists, Requests
<1> QED
  BY <1>10, <1>11, <1>12, <1>13, <1>14

LEMMA Restarts ==
    ASSUME RecoveryAssumption, LogInv, NEW p \in Panes, Restart(p)
    PROVE  LogInv'
<1> USE DEF LogInv, ghosts
<1>1. PICK gone \in {{"read"}, {"read", "write"}} :
         requests' = Without(requests, {r \in ToSet(requests) : PaneOf[r.op] = p /\ r.ask \in gone})
  BY DEF Restart
<1> DEFINE T == {r \in ToSet(requests) : PaneOf[r.op] = p /\ r.ask \in gone}
<1>2. requests' \in Seq(Requests)
  BY <1>1, SomeGone
<1>3. PICK at \in [1..Len(requests') -> 1..Len(requests)] :
         /\ \A i, j \in 1..Len(requests') : i < j => at[i] < at[j]
         /\ \A i \in 1..Len(requests') : requests'[i] = requests[at[i]] /\ requests[at[i]] \notin T
  BY <1>1, SomeGone
<1>4. ASSUME NEW i \in 1..Len(requests')
      PROVE  /\ at[i] \in 1..Len(requests) /\ requests'[i] = requests[at[i]]
             /\ requests'[i].op \in Ops /\ requests'[i].ask \in {"read", "write"}
             /\ requests'[i].ask = "read" => PaneOf[requests'[i].op] # p
  <2>1. at[i] \in 1..Len(requests) /\ requests'[i] = requests[at[i]]
    BY <1>3
  <2>2. requests'[i].op \in Ops /\ requests'[i].ask \in {"read", "write"}
    BY <2>1, RequestFields
  <2>3. requests[at[i]] \in ToSet(requests)
    <3>1. requests \in Seq(Requests)
      BY DEF LogTypes
    <3> QED
      BY <2>1, <3>1, HoldsAt DEF Holds
  <2>4. requests'[i].ask = "read" => PaneOf[requests'[i].op] # p
    BY <1>3, <2>1, <2>3
  <2> QED
    BY <2>1, <2>2, <2>4
<1> HIDE DEF T
<1>5. /\ pc' \in [Ops -> Stages]
      /\ \A u \in Ops : \/ pc'[u] = pc[u] /\ (PaneOf[u] # p \/ pc[u] \in {"idle", "done"})
                        \/ KindOf[u] = "list" /\ pc'[u] = "idle" /\ PaneOf[u] = p
                        \/ pc'[u] = "dead" /\ KindOf[u] # "list" /\ pc[u] # "idle" /\ PaneOf[u] = p
  BY DEF Restart, LogTypes, Stages
<1>6. /\ list' \in [Panes -> Seq(Snapshots)]
      /\ \A q \in Panes : list'[q] = list[q] \/ list'[q] = <<>>
  BY EmptyHoldsNothing DEF Restart, LogTypes
<1>7. LogTypes'
  BY <1>2, <1>5, <1>6 DEF LogTypes, Restart, RecoveryAssumption
<1>8. Lists'
  <2>1. \A n \in 1..Len(requests') : Proper(requests'[n].payload)
    BY <1>4 DEF Lists
  <2> QED
    BY <1>6, <2>1, EmptyIsProper DEF Lists, Restart
<1>9. Unknown'
  <2>1. ASSUME NEW u \in Ops, ~Put(u)'
        PROVE  ~Put(u)
    BY <1>5, <2>1 DEF Put, OnlyLists
  <2>2. ASSUME NEW u \in Ops, ~Put(u)', NEW q \in Panes
        PROVE  ~Holds(list'[q], u)
    BY <1>6, <2>1, <2>2, EmptyHoldsNothing DEF Unknown
  <2>3. ASSUME NEW u \in Ops, ~Put(u)', NEW n \in 1..Len(requests')
        PROVE  ~Holds(requests'[n].payload, u)
    BY <1>4, <2>1, <2>3 DEF Unknown
  <2> QED
    BY <2>1, <2>2, <2>3 DEF Unknown, Restart
<1>10. Waiting'
  <2>1. ASSUME NEW n \in 1..Len(requests')
        PROVE  IF requests'[n].ask = "read" THEN pc'[requests'[n].op] = "loading"
               ELSE pc'[requests'[n].op] \in {"writing", "dead"}
    <3>1. IF requests'[n].ask = "read" THEN pc[requests'[n].op] = "loading"
          ELSE pc[requests'[n].op] \in {"writing", "dead"}
      BY <1>4 DEF Waiting
    <3>2. requests'[n].op \in Ops /\ (requests'[n].ask = "read" => PaneOf[requests'[n].op] # p)
      BY <1>4
    <3> QED
      BY <1>5, <3>1, <3>2 DEF OnlyLists
  <2>2. ASSUME NEW m \in 1..Len(requests'), NEW n \in 1..Len(requests'),
               requests'[m].op = requests'[n].op
        PROVE  m = n
    <3>1. /\ at[m] \in 1..Len(requests) /\ at[n] \in 1..Len(requests)
          /\ requests[at[m]].op = requests[at[n]].op
      BY <1>4, <2>2
    <3>3. at[m] = at[n]
      BY <3>1 DEF Waiting
    <3>2. m \in Int /\ n \in Int /\ at[m] \in Int
      BY <1>2, <1>4
    <3> QED
      BY <1>3, <3>2, <3>3
  <2> QED
    BY <2>1, <2>2 DEF Waiting
<1>11. OnlyLists'
  BY <1>5 DEF OnlyLists
<1> QED
  BY <1>7, <1>8, <1>9, <1>10, <1>11

LEMMA LogStutters ==
    ASSUME LogInv, UNCHANGED vars
    PROVE  LogInv'
BY DEF LogInv, LogTypes, Lists, Unknown, Waiting, OnlyLists, Put, vars, logVars, ghosts

\* What a call does to the list of its pane, or that it ends.
LEMMA OpStepsKeepLogInv ==
    ASSUME RecoveryAssumption, LogInv, NEW o \in Ops, Begin(o) \/ OpStep(o)
    PROVE  LogInv'
<1> DEFINE p == PaneOf[o]
<1>1. p \in Panes /\ list[p] \in Seq(Snapshots) /\ Proper(list[p])
  BY DEF LogInv, LogTypes, Lists, RecoveryAssumption, Snapshots
<1> HIDE DEF p
<1>2. ASSUME pc[o] \in {"loaded", "found"}, Ends(o)
      PROVE  LogInv'
  <2> DEFINE x == IF KindOf[o] = "list" THEN "idle" ELSE "done"
  <2>1. x \in {"idle", "loaded", "found", "done"} /\ (KindOf[o] = "list" => x \in {"idle", "loaded"})
    OBVIOUS
  <2>2. pc' = [pc EXCEPT ![o] = x] /\ UNCHANGED <<logVars, disk, requests, restarts, ghosts>>
    BY <1>2 DEF Ends
  <2> HIDE DEF x
  <2> QED
    BY <1>2, <2>1, <2>2, Moves
<1>3. ASSUME pc[o] \in {"loaded", "found"}, KindOf[o] # "list", AppendSnapshot(o)
      PROVE  LogInv'
  <2>1. ~Holds(list[p], o)
    BY <1>1, <1>3 DEF LogInv, Unknown, Put
  <2> DEFINE s == Limited(<<o>> \o list[p])
  <2>2. s \in Seq(Snapshots) /\ Proper(s) /\ \A y : Holds(s, y) => y = o \/ Holds(list[p], y)
    BY <1>1, <2>1, LimitedHolds
  <2>3. ListBecomes(o, s)
    BY <1>3 DEF AppendSnapshot, p
  <2> HIDE DEF s
  <2> QED
    BY <1>3, <2>2, <2>3, ListChanges DEF p
<1>4. ASSUME NEW T, pc[o] = "loaded", KindOf[o] # "list", ListBecomes(o, Without(list[p], T))
      PROVE  LogInv'
  <2> DEFINE s == Without(list[p], T)
  <2>1. s \in Seq(Snapshots) /\ Proper(s) /\ \A y : Holds(s, y) => Holds(list[p], y)
    BY <1>1, WithoutHolds
  <2>2. ListBecomes(o, s)
    BY <1>4
  <2> HIDE DEF s
  <2> QED
    BY <1>4, <2>1, <2>2, ListChanges DEF p
<1>5. CASE Begin(o)
  <2>1. CASE loaded[p]
    <3> DEFINE x == "loaded"
    <3>1. pc' = [pc EXCEPT ![o] = x] /\ UNCHANGED <<logVars, disk, requests, restarts, ghosts>>
      BY <1>5, <2>1 DEF Begin, p, logVars
    <3>2. pc[o] = "idle" /\ x \in {"idle", "loaded", "found", "done"} /\ x \in {"idle", "loaded"}
      BY <1>5 DEF Begin
    <3> HIDE DEF x
    <3> QED
      BY <3>1, <3>2, Moves
  <2>2. CASE ~loaded[p]
    <3> DEFINE r == Read(o)
               x == "loading"
    <3>1. /\ requests' = Append(requests, r) /\ pc' = [pc EXCEPT ![o] = x] /\ x = "loading"
          /\ loaded' = [loaded EXCEPT ![p] = TRUE] /\ pc[o] = "idle"
          /\ UNCHANGED <<list, disk, restarts, made, cut, erased, revived>>
          /\ lost' \subseteq lost \cup made
      BY <1>5, <2>2 DEF Begin, p, ghosts
    <3>2. r \in Requests /\ r.op = o /\ r.ask = "read" /\ r.payload = <<>>
      BY DEF Requests, Read
    <3>3. loaded' \in [Panes -> BOOLEAN]
      BY <3>1 DEF LogInv, LogTypes
    <3>4. Proper(r.payload) /\ \A y : Holds(r.payload, y) => Holds(list[PaneOf[o]], y)
      BY <3>2, EmptyIsProper, EmptyHoldsNothing
    <3> HIDE DEF r, x
    <3> QED
      BY <3>1, <3>2, <3>3, <3>4, Asks
  <2> QED
    BY <2>1, <2>2
<1>6. CASE AppendOp(o)
  BY <1>2, <1>3, <1>6 DEF AppendOp
<1>7. CASE Delete(o)
  BY <1>2, <1>4, <1>7 DEF Delete, p
<1>8. CASE Clear(o)
  BY <1>2, <1>4, <1>8 DEF Clear, p
<1>9. CASE RestoreFinds(o)
  <2>1. CASE Ends(o)
    BY <1>2, <1>9, <2>1 DEF RestoreFinds
  <2>2. CASE ~Ends(o)
    BY <1>9, <2>2, Moves DEF RestoreFinds
  <2> QED
    BY <2>1, <2>2
<1>10. CASE RestoreApplies(o)
  <2>1. KindOf[o] # "list" /\ pc[o] = "found"
    BY <1>10 DEF RestoreApplies, LogInv, OnlyLists
  <2> QED
    BY <1>2, <1>3, <1>10, <2>1 DEF RestoreApplies
<1>11. CASE ListOp(o)
  BY <1>2, <1>11 DEF ListOp
<1>12. CASE Persist(o)
  <2>1. /\ requests' = Append(requests, Write(o, list[p])) /\ pc' = [pc EXCEPT ![o] = "writing"]
        /\ pc[o] = "changed" /\ lost' \subseteq lost \cup made
        /\ UNCHANGED <<list, disk, restarts, made, cut, erased, revived, loaded>>
    BY <1>12 DEF Persist, p, logVars
  <2>2. /\ Write(o, list[p]) \in Requests /\ Write(o, list[p]).op = o
        /\ Write(o, list[p]).ask = "write" /\ Write(o, list[p]).payload = list[p]
    BY <1>1 DEF Requests, Write
  <2>3. loaded' \in [Panes -> BOOLEAN]
    BY <2>1 DEF LogInv, LogTypes
  <2> DEFINE r == Write(o, list[p])
  <2>4. \A y : Holds(r.payload, y) => Holds(list[PaneOf[o]], y)
    BY <2>2 DEF p
  <2> HIDE DEF r
  <2> QED
    BY <1>1, <2>1, <2>2, <2>3, <2>4, Asks DEF r
<1> QED
  BY <1>5, <1>6, <1>7, <1>8, <1>9, <1>10, <1>11, <1>12 DEF OpStep

\* LogInv, for any number of panes.
THEOREM LogInvariant == Spec => []LogInv
<1>1. Init => LogInv
  BY LogInit, RecoveryAssumption
<1>2. LogInv /\ [Next]_vars => LogInv'
  <2> SUFFICES ASSUME LogInv, [Next]_vars
               PROVE  LogInv'
    OBVIOUS
  <2>1. ASSUME NEW o \in Ops, Begin(o) \/ OpStep(o)
        PROVE  LogInv'
    BY <2>1, RecoveryAssumption, OpStepsKeepLogInv
  <2>2. CASE ServeRead \/ ServeWrite
    BY <2>2, RecoveryAssumption, Serves
  <2>3. ASSUME NEW p \in Panes, Restart(p)
        PROVE  LogInv'
    BY <2>3, RecoveryAssumption, Restarts
  <2>4. CASE UNCHANGED vars
    BY <2>4, LogStutters
  <2> QED
    BY <2>1, <2>2, <2>3, <2>4 DEF Next
<1> QED
  BY <1>1, <1>2, PTL DEF Spec

\* The log's variables keep their types: whatever is called in whatever order
\* in however many panes, no list, in memory, stored or on its way to the store,
\* has more than MaxEntries snapshots or one of them twice.
THEOREM ListsAreLimited == Spec => []RecoveryTypeOK
<1>1. LogInv => RecoveryTypeOK
  <2> SUFFICES ASSUME LogInv
               PROVE  RecoveryTypeOK
    OBVIOUS
  <2>1. ASSUME NEW s \in Seq(Snapshots), Proper(s)
        PROVE  Len(s) <= MaxEntries /\ IsInjective(s)
    <3>1. DOMAIN s = 1..Len(s)
      OBVIOUS
    <3> QED
      BY <2>1, <3>1 DEF Proper, IsInjective
  <2>2. DOMAIN requests = 1..Len(requests)
    BY DEF LogInv, LogTypes
  <2>3. \A s \in {disk} \cup {list[p] : p \in Panes}
                        \cup {requests[i].payload : i \in DOMAIN requests} :
           s \in Seq(Snapshots) /\ Proper(s)
    BY <2>2, RequestFields DEF LogInv, LogTypes, Lists
  <2> QED
    BY <2>1, <2>3 DEF RecoveryTypeOK, LogInv, LogTypes, Stages
<1> QED
  BY <1>1, LogInvariant, PTL

-----------------------------------------------------------------------------
(***************************************************************************)
(* What is kept and what stays away.                                       *)
(***************************************************************************)
Reads(n) == requests[n].ask = "read"
Writes(n) == requests[n].ask = "write"
At(n) == PaneOf[requests[n].op]
Live(o) == pc[o] \in {"loading", "loaded", "found", "changed", "writing"}

\* What o removed of the snapshots of its own pane.
Own(o) == cut[o] \cap Of(PaneOf[o])

\* A pane has no list before it begins to read it, and reads once; only live
\* operations of the pane ask for something after that.
Loading ==
    /\ \A p \in Panes : ~loaded[p] => list[p] = <<>>
    /\ \A o \in Ops : Live(o) => loaded[PaneOf[o]]
    /\ \A n \in 1..Len(requests) : Reads(n) =>
          /\ loaded[At(n)]
          /\ \A m \in 1..Len(requests) : At(m) = At(n) /\ m # n =>
                Writes(m) /\ (m > n => pc[requests[m].op] = "writing")

\* What calls put into the list of a pane, or took from it, while the list is
\* being read is not stored, nor will it be before the read is served.
Hurried(p, x) ==
    \/ Holds(list[p], x)
    \/ \E u \in Ops : PaneOf[u] = p /\ pc[u] \in {"changed", "writing"} /\ x \in cut[u]
Fresh ==
    \A n \in 1..Len(requests) : Reads(n) => \A x \in Snapshots : Hurried(At(n), x) =>
        /\ ~Holds(disk, x)
        /\ \A m \in 1..Len(requests) : m <= n => ~Holds(requests[m].payload, x)

\* What was removed in its own pane, and not written by another since, is in no
\* list that this pane can still write, and not in the store.
ErasedGone ==
    \A x \in erased \ revived :
        /\ ~Holds(disk, x) /\ ~Holds(list[PaneOf[x]], x)
        /\ \A n \in 1..Len(requests) : At(n) = PaneOf[x] => ~Holds(requests[n].payload, x)
CutGone ==
    \A o \in Ops : pc[o] = "changed" => \A x \in Own(o) : ~Holds(list[PaneOf[o]], x)
WrittenGone ==
    \A n \in 1..Len(requests) : Writes(n) => \A x \in Own(requests[n].op) :
        /\ ~Holds(list[At(n)], x)
        /\ \A m \in 1..Len(requests) : m >= n /\ At(m) = At(n) => ~Holds(requests[m].payload, x)

\* What was returned is stored, and in every list that its pane will write.
ReturnedStays ==
    \A x \in made \ (removed \cup lost) :
        /\ Holds(disk, x)
        /\ Ready(PaneOf[x]) => Holds(list[PaneOf[x]], x)
        /\ \A n \in 1..Len(requests) : Writes(n) /\ At(n) = PaneOf[x] => Holds(requests[n].payload, x)
PutStays ==
    \A o \in Ops \ (removed \cup lost) : KindOf[o] \in {"append", "restore"} =>
        /\ pc[o] \in {"changed", "writing"} => Holds(list[PaneOf[o]], o)
        /\ \A n \in 1..Len(requests) :
              Writes(n) /\ requests[n].op = o /\ pc[o] = "writing" =>
                 \A m \in 1..Len(requests) : m >= n /\ Writes(m) /\ At(m) = At(n) =>
                    Holds(requests[m].payload, o)

KeptInv ==
    Loading /\ Fresh /\ ErasedGone /\ CutGone /\ WrittenGone /\ ReturnedStays /\ PutStays

\* No request is new: requests'[i] was requests[at[i]].
Remain(at) ==
    /\ at \in [1..Len(requests') -> 1..Len(requests)]
    /\ \A i, j \in 1..Len(requests') : i < j => at[i] < at[j]
    /\ \A i \in 1..Len(requests') : requests'[i] = requests[at[i]]

LEMMA Remaining ==
    ASSUME LogTypes, LogTypes', NEW at, Remain(at)
    PROVE  /\ \A n \in 1..Len(requests') :
                 /\ at[n] \in 1..Len(requests)
                 /\ requests'[n] = requests[at[n]]
                 /\ Reads(n)' <=> Reads(at[n])
                 /\ Writes(n)' <=> Writes(at[n])
                 /\ At(n)' = At(at[n])
           /\ \A m, n \in 1..Len(requests') :
                 /\ m # n => at[m] # at[n]
                 /\ m > n => at[m] > at[n]
                 /\ m >= n => at[m] >= at[n]
<1>1. /\ at \in [1..Len(requests') -> 1..Len(requests)]
      /\ \A i, j \in 1..Len(requests') : i < j => at[i] < at[j]
      /\ \A i \in 1..Len(requests') : requests'[i] = requests[at[i]]
  BY DEF Remain
<1>2. Len(requests) \in Nat /\ Len(requests') \in Nat
  BY DEF LogTypes
<1>3. \A m, n \in 1..Len(requests') :
         /\ m # n => at[m] # at[n]
         /\ m > n => at[m] > at[n]
         /\ m >= n => at[m] >= at[n]
  <2>1. SUFFICES ASSUME NEW m \in 1..Len(requests'), NEW n \in 1..Len(requests')
                 PROVE  /\ m # n => at[m] # at[n]
                        /\ m > n => at[m] > at[n]
                        /\ m >= n => at[m] >= at[n]
    OBVIOUS
  <2>2. at[m] \in Int /\ at[n] \in Int /\ m \in Int /\ n \in Int
    BY <1>1, <1>2
  <2>3. (m < n => at[m] < at[n]) /\ (n < m => at[n] < at[m])
    BY <1>1
  <2> QED
    BY <2>2, <2>3
<1> QED
  BY <1>1, <1>3 DEF Reads, Writes, At

\* One request is added at the end.
LEMMA Added ==
    ASSUME LogTypes, NEW r \in Requests, requests' = Append(requests, r)
    PROVE  /\ Len(requests) \in Nat /\ Len(requests') = Len(requests) + 1
           /\ requests'[Len(requests')] = r /\ Len(requests') \in 1..Len(requests')
           /\ \A n \in 1..Len(requests) :
                 /\ n \in 1..Len(requests') /\ requests'[n] = requests[n]
                 /\ Reads(n)' <=> Reads(n)
                 /\ Writes(n)' <=> Writes(n)
                 /\ At(n)' = At(n)
                 /\ n < Len(requests')
           /\ \A n \in 1..Len(requests') : n \in Nat /\ (n \in 1..Len(requests) \/ n = Len(requests'))
<1>1. /\ Len(requests') = Len(requests) + 1 /\ Len(requests) \in Nat
      /\ requests'[Len(requests) + 1] = r
      /\ \A n \in 1..Len(requests) : requests'[n] = requests[n] /\ n \in 1..Len(requests')
      /\ \A n \in 1..Len(requests') : n \in 1..Len(requests) \/ n = Len(requests) + 1
  BY AtTheEnd
<1>2. /\ Len(requests') \in 1..Len(requests')
      /\ \A n \in 1..Len(requests) : n < Len(requests')
      /\ \A n \in 1..Len(requests') : n \in Nat
  BY <1>1
<1>3. requests'[Len(requests')] = r
  BY <1>1
<1>4. \A n \in 1..Len(requests) :
         /\ Reads(n)' <=> Reads(n)
         /\ Writes(n)' <=> Writes(n)
         /\ At(n)' = At(n)
  BY <1>1 DEF Reads, Writes, At
<1> QED
  BY <1>1, <1>2, <1>3, <1>4

LEMMA AskIs ==
    ASSUME LogTypes, NEW n \in 1..Len(requests)
    PROVE  /\ requests[n].op \in Ops /\ At(n) \in Panes
           /\ Writes(n) <=> ~Reads(n)
           /\ requests[n].op \in Snapshots
<1>1. requests[n].op \in Ops /\ requests[n].ask \in {"read", "write"}
  BY RequestFields
<1> QED
  BY <1>1, RecoveryAssumption DEF Reads, Writes, At, RecoveryAssumption, Snapshots

LEMMA ReadyMeans ==
    ASSUME LogTypes, NEW p
    PROVE  Ready(p) <=> loaded[p] /\ \A n \in 1..Len(requests) : Reads(n) => At(n) # p
<1>1. DOMAIN requests = 1..Len(requests)
  BY DEF LogTypes
<1> QED
  BY <1>1 DEF Ready, Reads, At

\* The same of the state after a step.
LEMMA ReadyThenMeans ==
    ASSUME LogTypes', NEW p
    PROVE  Ready(p)' <=> loaded'[p] /\ \A n \in 1..Len(requests') : Reads(n)' => At(n)' # p
<1>1. DOMAIN requests' = 1..Len(requests')
  BY DEF LogTypes
<1> QED
  BY <1>1 DEF Ready, Reads, At

LEMMA KeptInit ==
    ASSUME RecoveryAssumption, Init
    PROVE  KeptInv
<1>1. LogInv
  BY LogInit
<1>2. Len(requests) = 0 /\ \A o \in Ops : pc[o] = "idle"
  BY DEF Init
<1>3. Loading
  BY <1>2 DEF Loading, Live, Init
<1>4. Fresh /\ WrittenGone
  BY <1>2 DEF Fresh, WrittenGone
<1>5. ErasedGone
  BY DEF ErasedGone, Init
<1>6. CutGone
  BY <1>2 DEF CutGone
<1>7. ReturnedStays
  <2>1. made = Old /\ \A x \in Old : PaneOf[x] \in Panes /\ ~Ready(PaneOf[x])
    BY DEF Init, Ready, RecoveryAssumption, Snapshots
  <2>2. \A x \in Old : Holds(disk, x)
    BY OldStored
  <2> QED
    BY <1>2, <2>1, <2>2 DEF ReturnedStays
<1>8. PutStays
  BY <1>2 DEF PutStays
<1> QED
  BY <1>3, <1>4, <1>5, <1>6, <1>7, <1>8 DEF KeptInv

\* An operation goes on without any change.
LEMMA MovesKeep ==
    ASSUME RecoveryAssumption, LogInv, KeptInv, NEW o \in Ops, NEW x \in {"idle", "loaded", "found", "done"},
           pc[o] \in {"idle", "loaded", "found"},
           x \in {"loaded", "found"} => loaded[PaneOf[o]],
           pc' = [pc EXCEPT ![o] = x],
           UNCHANGED <<logVars, disk, requests, restarts, ghosts>>
    PROVE  KeptInv'
<1> USE DEF logVars, ghosts, KeptInv
<1>1. pc'[o] = x /\ \A u \in Ops \ {o} : pc'[u] = pc[u]
  BY DEF LogInv, LogTypes
<1>2. \A n : (Reads(n)' <=> Reads(n)) /\ (Writes(n)' <=> Writes(n)) /\ At(n)' = At(n)
  BY DEF Reads, Writes, At
<1>3. \A u \in Ops : pc'[u] \in {"changed", "writing"} <=> pc[u] \in {"changed", "writing"}
  BY <1>1
<1>4. \A u \in Ops : pc'[u] \in {"changed", "writing"} => pc[u] = pc'[u]
  BY <1>1
<1>5. Loading'
  <2>1. \A u \in Ops : Live(u)' => loaded[PaneOf[u]]
    BY <1>1 DEF Loading, Live
  <2>2. \A n \in 1..Len(requests) : pc[requests[n].op] = "writing" => pc'[requests[n].op] = "writing"
    BY <1>1, RequestFields DEF LogInv
  <2> QED
    BY <1>2, <2>1, <2>2 DEF Loading
<1>6. Fresh'
  <2>1. \A q, y : Hurried(q, y)' <=> Hurried(q, y)
    BY <1>3 DEF Hurried
  <2> QED
    BY <1>2, <2>1 DEF Fresh
<1>7. ErasedGone'
  BY <1>2 DEF ErasedGone
<1>8. CutGone'
  BY <1>4 DEF CutGone, Own
<1>9. WrittenGone'
  BY <1>2 DEF WrittenGone, Own
<1>10. removed' = removed /\ \A q : Ready(q)' <=> Ready(q)
  BY DEF removed, Ready
<1>11. ReturnedStays'
  BY <1>2, <1>10 DEF ReturnedStays
<1>12. PutStays'
  BY <1>2, <1>4, <1>10 DEF PutStays
<1> QED
  BY <1>5, <1>6, <1>7, <1>8, <1>9, <1>11, <1>12

\* The first call of a pane reads.
LEMMA ReadKeeps ==
    ASSUME RecoveryAssumption, LogInv, LogInv', KeptInv,
           NEW o \in Ops, ~loaded[PaneOf[o]], pc[o] = "idle",
           loaded' = [loaded EXCEPT ![PaneOf[o]] = TRUE],
           requests' = Append(requests, Read(o)),
           pc' = [pc EXCEPT ![o] = "loading"],
           UNCHANGED <<list, disk, restarts, ghosts>>
    PROVE  KeptInv'
<1> DEFINE r == Read(o)
<1>1. r \in Requests /\ r.op = o /\ r.ask = "read" /\ r.payload = <<>>
  BY DEF Requests, Read
<1>0. requests' = Append(requests, r)
  OBVIOUS
<1> HIDE DEF r
<1> USE DEF ghosts, KeptInv
<1>2. PICK p \in Panes, e \in Nat : p = PaneOf[o] /\ e = Len(requests')
  BY DEF RecoveryAssumption, Snapshots, LogInv, LogTypes
<1>3. /\ e \in 1..e /\ requests'[e].op = o /\ requests'[e].payload = <<>>
      /\ Reads(e)' /\ ~Writes(e)' /\ At(e)' = p
      /\ \A n \in 1..Len(requests) :
            /\ n \in 1..e /\ requests'[n] = requests[n]
            /\ Reads(n)' <=> Reads(n)
            /\ Writes(n)' <=> Writes(n)
            /\ At(n)' = At(n)
            /\ n < e
      /\ \A n \in 1..e : n \in Nat /\ (n \in 1..Len(requests) \/ n = e)
  <2>1. requests'[e] = r /\ e \in 1..e
    BY <1>0, <1>1, <1>2, Added DEF LogInv
  <2>2. Reads(e)' <=> r.ask = "read"
    BY <2>1 DEF Reads
  <2>3. Writes(e)' <=> r.ask = "write"
    BY <2>1 DEF Writes
  <2>4. At(e)' = p
    BY <1>1, <1>2, <2>1 DEF At
  <2> QED
    BY <1>0, <1>1, <1>2, <2>1, <2>2, <2>3, <2>4, Added DEF LogInv
<1>4. /\ pc'[o] = "loading" /\ \A u \in Ops \ {o} : pc'[u] = pc[u]
      /\ loaded'[p] /\ ~loaded[p] /\ \A q \in Panes \ {p} : loaded'[q] = loaded[q]
  BY <1>2 DEF LogInv, LogTypes
<1>5. \A n \in 1..Len(requests) : /\ requests[n].op \in Ops \ {o} /\ At(n) \in Panes
                                  /\ Reads(n) => At(n) # p
  BY <1>4, AskIs DEF LogInv, Waiting, Loading
<1>6. \A u \in Ops : pc'[u] \in {"changed", "writing"} <=> pc[u] \in {"changed", "writing"}
  BY <1>4
<1>7. \A x : ~Holds(<<>>, x)
  BY EmptyHoldsNothing
<1>8. list[p] = <<>> /\ \A u \in Ops : PaneOf[u] = p => pc[u] \notin {"changed", "writing"}
  BY <1>4 DEF Loading, Live
<1>9. Loading'
  <2>1. \A u \in Ops : Live(u)' => loaded'[PaneOf[u]]
    <3>1. SUFFICES ASSUME NEW u \in Ops, Live(u)' PROVE loaded'[PaneOf[u]]
      OBVIOUS
    <3>2. PaneOf[u] \in Panes
      BY DEF RecoveryAssumption, Snapshots
    <3>3. u = o \/ loaded[PaneOf[u]]
      BY <1>4, <3>1 DEF Loading, Live
    <3> QED
      BY <1>2, <1>4, <3>2, <3>3
  <2>2. \A q \in Panes : ~loaded'[q] => list[q] = <<>>
    BY <1>4 DEF Loading
  <2>3. ASSUME NEW n \in 1..e, Reads(n)'
        PROVE  /\ loaded'[At(n)']
               /\ \A m \in 1..e : At(m)' = At(n)' /\ m # n =>
                     Writes(m)' /\ (m > n => pc'[requests'[m].op] = "writing")
    <3>1. CASE n = e
      <4>1. ASSUME NEW m \in 1..e, At(m)' = At(n)', m # n
            PROVE  Writes(m)' /\ (m > n => pc'[requests'[m].op] = "writing")
        <5>1. m \in 1..Len(requests) /\ At(m) = p /\ m < e
          BY <1>3, <3>1, <4>1
        <5>2. Writes(m)
          BY <1>5, <5>1, AskIs DEF LogInv
        <5> QED
          BY <1>2, <1>3, <3>1, <5>1, <5>2
      <4> QED
        BY <1>3, <1>4, <3>1, <4>1
    <3>2. CASE n \in 1..Len(requests)
      <4>1. Reads(n) /\ At(n)' = At(n) /\ At(n) # p /\ At(n) \in Panes
        BY <1>3, <1>5, <2>3, <3>2
      <4>2. loaded[At(n)] /\ loaded'[At(n)]
        BY <1>4, <3>2, <4>1 DEF Loading
      <4>3. ASSUME NEW m \in 1..e, At(m)' = At(n), m # n
            PROVE  Writes(m)' /\ (m > n => pc'[requests'[m].op] = "writing")
        <5>1. m \in 1..Len(requests) /\ At(m) = At(n)
          BY <1>3, <4>1, <4>3
        <5>2. Writes(m) /\ (m > n => pc[requests[m].op] = "writing")
          BY <3>2, <4>1, <4>3, <5>1 DEF Loading
        <5> QED
          BY <1>3, <1>4, <1>5, <5>1, <5>2
      <4> QED
        BY <4>1, <4>2, <4>3
    <3> QED
      BY <1>3, <3>1, <3>2
  <2> QED
    BY <1>2, <2>1, <2>2, <2>3 DEF Loading
<1>10. Fresh'
  <2>1. \A q, x : Hurried(q, x)' <=> Hurried(q, x)
    BY <1>6 DEF Hurried
  <2>2. \A x : ~Hurried(p, x)
    BY <1>7, <1>8 DEF Hurried
  <2>3. ASSUME NEW n \in 1..e, Reads(n)', NEW x \in Snapshots, Hurried(At(n)', x)
        PROVE  ~Holds(disk, x) /\ \A m \in 1..e : m <= n => ~Holds(requests'[m].payload, x)
    <3>1. n \in 1..Len(requests) /\ Reads(n) /\ Hurried(At(n), x)
      BY <1>3, <2>2, <2>3
    <3>2. ~Holds(disk, x) /\ \A m \in 1..Len(requests) : m <= n => ~Holds(requests[m].payload, x)
      BY <3>1 DEF Fresh
    <3> QED
      BY <1>1, <1>3, <1>7, <3>2
  <2> QED
    BY <1>2, <2>1, <2>3 DEF Fresh
<1>11. ErasedGone'
  BY <1>2, <1>3, <1>7 DEF ErasedGone
<1>12. CutGone'
  <2>1. \A u \in Ops : pc'[u] = "changed" => pc[u] = "changed"
    BY <1>4
  <2> QED
    BY <2>1 DEF CutGone, Own
<1>13. WrittenGone'
  <2>1. ASSUME NEW n \in 1..e, Writes(n)', NEW x \in Own(requests'[n].op)
        PROVE  /\ ~Holds(list[At(n)'], x)
               /\ \A m \in 1..e : m >= n /\ At(m)' = At(n)' => ~Holds(requests'[m].payload, x)
    <3>1. n \in 1..Len(requests) /\ Writes(n) /\ x \in Own(requests[n].op) /\ At(n)' = At(n)
      BY <1>3, <2>1
    <3>2. /\ ~Holds(list[At(n)], x)
          /\ \A m \in 1..Len(requests) : m >= n /\ At(m) = At(n) => ~Holds(requests[m].payload, x)
      BY <3>1 DEF WrittenGone
    <3> QED
      BY <1>3, <1>7, <3>1, <3>2
  <2> QED
    BY <1>2, <2>1 DEF WrittenGone, Own
<1>14. removed' = removed /\ \A q \in Panes : Ready(q)' => Ready(q)
  <2>1. removed' = removed
    BY DEF removed
  <2>2. ASSUME NEW q \in Panes, Ready(q)'
        PROVE  Ready(q)
    <3>1. loaded'[q] /\ \A n \in 1..e : Reads(n)' => At(n)' # q
      BY <1>2, <2>2, ReadyThenMeans DEF LogInv
    <3>2. q # p
      BY <1>3, <3>1
    <3>3. loaded[q] /\ \A n \in 1..Len(requests) : Reads(n) => At(n) # q
      BY <1>3, <1>4, <3>1, <3>2
    <3> QED
      BY <3>3, ReadyMeans DEF LogInv
  <2> QED
    BY <2>1, <2>2
<1>15. ReturnedStays'
  <2>1. \A x \in made : PaneOf[x] \in Panes
    BY DEF LogInv, LogTypes, RecoveryAssumption
  <2> QED
    BY <1>2, <1>3, <1>14, <2>1 DEF ReturnedStays
<1>16. PutStays'
  <2>1. ASSUME NEW u \in Ops \ (removed \cup lost), KindOf[u] \in {"append", "restore"},
               NEW n \in 1..e, Writes(n)', requests'[n].op = u, pc'[u] = "writing",
               NEW m \in 1..e, m >= n, Writes(m)', At(m)' = At(n)'
        PROVE  Holds(requests'[m].payload, u)
    <3>1. /\ n \in 1..Len(requests) /\ Writes(n) /\ requests[n].op = u /\ pc[u] = "writing"
          /\ m \in 1..Len(requests) /\ Writes(m) /\ At(m) = At(n)
      BY <1>3, <1>4, <2>1
    <3>2. Holds(requests[m].payload, u)
      BY <2>1, <3>1 DEF PutStays
    <3> QED
      BY <1>3, <3>1, <3>2
  <2>2. \A u \in Ops \ (removed \cup lost) : KindOf[u] \in {"append", "restore"} =>
           (pc'[u] \in {"changed", "writing"} => Holds(list[PaneOf[u]], u))
    BY <1>6 DEF PutStays
  <2> QED
    BY <1>2, <1>14, <2>1, <2>2 DEF PutStays
<1> QED
  BY <1>9, <1>10, <1>11, <1>12, <1>13, <1>15, <1>16

\* An operation stores the list, whether it has been read or not.
LEMMA PersistKeeps ==
    ASSUME RecoveryAssumption, LogInv, LogInv', KeptInv, NEW o \in Ops, Persist(o)
    PROVE  KeptInv'
<1> DEFINE r == Write(o, list[PaneOf[o]])
<1>1. r \in Requests /\ r.op = o /\ r.ask = "write" /\ r.payload = list[PaneOf[o]]
  BY DEF Requests, Write, RecoveryAssumption, Snapshots, LogInv, LogTypes
<1>0. /\ requests' = Append(requests, r) /\ pc[o] = "changed"
      /\ pc' = [pc EXCEPT ![o] = "writing"]
      /\ UNCHANGED <<loaded, list, disk, made, cut, erased, revived>>
      /\ lost' = IF Ready(PaneOf[o]) THEN lost
                 ELSE lost \cup ((made \cap Of(PaneOf[o])) \ ToSet(list[PaneOf[o]]))
  BY DEF Persist, logVars
<1> HIDE DEF r
<1> USE DEF KeptInv
<1>2. PICK p \in Panes, e \in Nat : p = PaneOf[o] /\ e = Len(requests')
  BY DEF RecoveryAssumption, Snapshots, LogInv, LogTypes
<1>3. /\ e \in 1..e /\ requests'[e].op = o /\ requests'[e].payload = list[p]
      /\ ~Reads(e)' /\ Writes(e)' /\ At(e)' = p
      /\ \A n \in 1..Len(requests) :
            /\ n \in 1..e /\ requests'[n] = requests[n]
            /\ Reads(n)' <=> Reads(n)
            /\ Writes(n)' <=> Writes(n)
            /\ At(n)' = At(n)
            /\ n < e
      /\ \A n \in 1..e : n \in Nat /\ (n \in 1..Len(requests) \/ n = e)
  <2>1. requests'[e] = r /\ e \in 1..e
    BY <1>0, <1>1, <1>2, Added DEF LogInv
  <2>2. Reads(e)' <=> r.ask = "read"
    BY <2>1 DEF Reads
  <2>3. Writes(e)' <=> r.ask = "write"
    BY <2>1 DEF Writes
  <2>4. At(e)' = p
    BY <1>1, <1>2, <2>1 DEF At
  <2> QED
    BY <1>0, <1>1, <1>2, <2>1, <2>2, <2>3, <2>4, Added DEF LogInv
<1>4. pc'[o] = "writing" /\ \A u \in Ops \ {o} : pc'[u] = pc[u]
  BY <1>0 DEF LogInv, LogTypes
<1>5. \A n \in 1..Len(requests) : requests[n].op \in Ops \ {o} /\ At(n) \in Panes
  BY <1>0, AskIs DEF LogInv, Waiting
<1>6. \A u \in Ops : pc'[u] \in {"changed", "writing"} <=> pc[u] \in {"changed", "writing"}
  BY <1>0, <1>4
<1>7. Loading'
  <2>1. \A u \in Ops : Live(u)' => loaded[PaneOf[u]]
    BY <1>0, <1>4 DEF Loading, Live
  <2>2. ASSUME NEW n \in 1..e, Reads(n)'
        PROVE  /\ loaded[At(n)']
               /\ \A m \in 1..e : At(m)' = At(n)' /\ m # n =>
                     Writes(m)' /\ (m > n => pc'[requests'[m].op] = "writing")
    <3>1. n \in 1..Len(requests) /\ Reads(n) /\ At(n)' = At(n)
      BY <1>3, <2>2
    <3>2. loaded[At(n)]
      BY <3>1 DEF Loading
    <3>3. ASSUME NEW m \in 1..Len(requests), At(m) = At(n), m # n
          PROVE  Writes(m)' /\ (m > n => pc'[requests'[m].op] = "writing")
      <4>1. Writes(m) /\ (m > n => pc[requests[m].op] = "writing")
        BY <3>1, <3>3 DEF Loading
      <4> QED
        BY <1>3, <1>4, <1>5, <3>3, <4>1
    <3> QED
      BY <1>3, <1>4, <3>1, <3>2, <3>3
  <2> QED
    BY <1>0, <1>2, <2>1, <2>2 DEF Loading
<1>8. Fresh'
  <2>1. \A q, x : Hurried(q, x)' <=> Hurried(q, x)
    BY <1>0, <1>6 DEF Hurried
  <2>2. ASSUME NEW n \in 1..e, Reads(n)', NEW x \in Snapshots, Hurried(At(n)', x)
        PROVE  ~Holds(disk, x) /\ \A m \in 1..e : m <= n => ~Holds(requests'[m].payload, x)
    <3>1. n \in 1..Len(requests) /\ Reads(n) /\ Hurried(At(n), x)
      BY <1>3, <2>2
    <3>2. ~Holds(disk, x) /\ \A m \in 1..Len(requests) : m <= n => ~Holds(requests[m].payload, x)
      BY <3>1 DEF Fresh
    <3>3. \A m \in 1..e : m <= n => m \in 1..Len(requests)
      BY <1>3, <3>1
    <3> QED
      BY <1>3, <3>2, <3>3
  <2> QED
    BY <1>0, <1>2, <2>1, <2>2 DEF Fresh
<1>9. ErasedGone'
  <2>1. \A x \in erased \ revived : \A n \in 1..e : At(n)' = PaneOf[x] => ~Holds(requests'[n].payload, x)
    BY <1>3 DEF ErasedGone
  <2> QED
    BY <1>0, <1>2, <2>1 DEF ErasedGone
<1>10. CutGone'
  <2>1. \A u \in Ops : pc'[u] = "changed" => pc[u] = "changed"
    BY <1>4
  <2> QED
    BY <1>0, <2>1 DEF CutGone, Own
<1>11. WrittenGone'
  <2>1. ASSUME NEW n \in 1..e, Writes(n)', NEW x \in Own(requests'[n].op)
        PROVE  /\ ~Holds(list[At(n)'], x)
               /\ \A m \in 1..e : m >= n /\ At(m)' = At(n)' => ~Holds(requests'[m].payload, x)
    <3>1. CASE n = e
      <4>1. ~Holds(list[p], x)
        BY <1>0, <1>2, <1>3, <2>1, <3>1 DEF CutGone
      <4>2. \A m \in 1..e : m >= n => m = n
        BY <1>3, <3>1
      <4> QED
        BY <1>3, <3>1, <4>1, <4>2
    <3>2. CASE n \in 1..Len(requests)
      <4>1. Writes(n) /\ x \in Own(requests[n].op) /\ At(n)' = At(n)
        BY <1>3, <2>1, <3>2
      <4>2. /\ ~Holds(list[At(n)], x)
            /\ \A m \in 1..Len(requests) : m >= n /\ At(m) = At(n) => ~Holds(requests[m].payload, x)
        BY <3>2, <4>1 DEF WrittenGone
      <4> QED
        BY <1>3, <4>1, <4>2
    <3> QED
      BY <1>3, <3>1, <3>2
  <2> QED
    BY <1>0, <1>2, <2>1 DEF WrittenGone, Own
<1>12. /\ removed' = removed /\ lost \subseteq lost'
       /\ \A q \in Panes : Ready(q)' <=> Ready(q)
  <2>1. removed' = removed /\ lost \subseteq lost'
    BY <1>0 DEF removed
  <2>2. ASSUME NEW q \in Panes
        PROVE  Ready(q)' <=> Ready(q)
    <3>1. Ready(q)' <=> loaded[q] /\ \A n \in 1..e : Reads(n)' => At(n)' # q
      BY <1>0, <1>2, ReadyThenMeans DEF LogInv
    <3>2. Ready(q) <=> loaded[q] /\ \A n \in 1..Len(requests) : Reads(n) => At(n) # q
      BY ReadyMeans DEF LogInv
    <3> QED
      BY <1>3, <3>1, <3>2
  <2> QED
    BY <2>1, <2>2
<1>13. ReturnedStays'
  <2>1. ASSUME NEW x \in made \ (removed \cup lost')
        PROVE  /\ Holds(disk, x)
               /\ Ready(PaneOf[x])' => Holds(list[PaneOf[x]], x)
               /\ \A n \in 1..e : Writes(n)' /\ At(n)' = PaneOf[x] => Holds(requests'[n].payload, x)
    <3>1. x \in Snapshots /\ PaneOf[x] \in Panes /\ x \in made \ (removed \cup lost)
      BY <1>12 DEF LogInv, LogTypes, RecoveryAssumption
    <3>2. /\ Holds(disk, x)
          /\ Ready(PaneOf[x]) => Holds(list[PaneOf[x]], x)
          /\ \A n \in 1..Len(requests) : Writes(n) /\ At(n) = PaneOf[x] => Holds(requests[n].payload, x)
      BY <3>1 DEF ReturnedStays
    <3>3. PaneOf[x] = p => Holds(list[p], x)
      BY <1>0, <1>2, <2>1, <3>1, <3>2 DEF Of, Holds
    <3> QED
      BY <1>3, <1>12, <3>1, <3>2, <3>3
  <2> QED
    BY <1>0, <1>2, <1>12, <2>1 DEF ReturnedStays
<1>14. PutStays'
  <2>1. ASSUME NEW u \in Ops \ (removed \cup lost'), KindOf[u] \in {"append", "restore"}
        PROVE  /\ pc'[u] \in {"changed", "writing"} => Holds(list[PaneOf[u]], u)
               /\ \A n \in 1..e :
                     Writes(n)' /\ requests'[n].op = u /\ pc'[u] = "writing" =>
                        \A m \in 1..e : m >= n /\ Writes(m)' /\ At(m)' = At(n)' =>
                           Holds(requests'[m].payload, u)
    <3>1. u \in Ops \ (removed \cup lost)
      BY <1>12, <2>1
    <3>2. pc'[u] \in {"changed", "writing"} => Holds(list[PaneOf[u]], u)
      BY <1>6, <2>1, <3>1 DEF PutStays
    <3>3. ASSUME NEW n \in 1..e, Writes(n)', requests'[n].op = u, pc'[u] = "writing",
                 NEW m \in 1..e, m >= n, Writes(m)', At(m)' = At(n)'
          PROVE  Holds(requests'[m].payload, u)
      <4>1. CASE m = e
        <5>1. At(n)' = PaneOf[u]
          BY <3>3 DEF At
        <5> QED
          BY <1>3, <3>2, <3>3, <4>1, <5>1
      <4>2. CASE m \in 1..Len(requests)
        <5>1. n \in 1..Len(requests)
          BY <1>3, <3>3, <4>2
        <5>2. /\ Writes(n) /\ requests[n].op = u /\ u # o /\ pc[u] = "writing"
              /\ Writes(m) /\ At(m) = At(n)
          BY <1>3, <1>4, <1>5, <3>3, <4>2, <5>1
        <5>3. Holds(requests[m].payload, u)
          BY <2>1, <3>1, <3>3, <4>2, <5>1, <5>2 DEF PutStays
        <5> QED
          BY <1>3, <4>2, <5>3
      <4> QED
        BY <1>3, <4>1, <4>2
    <3> QED
      BY <3>2, <3>3
  <2> QED
    BY <1>0, <1>2, <1>12, <2>1 DEF PutStays
<1> QED
  BY <1>7, <1>8, <1>9, <1>10, <1>11, <1>13, <1>14

\* A list loses what the operation cuts from it and gains at most what an
\* append or a restore puts in.
LEMMA ChangesKeep ==
    ASSUME RecoveryAssumption, LogInv, KeptInv, NEW o \in Ops, NEW s \in Seq(Snapshots),
           \A y : Holds(s, y) => y = o \/ Holds(list[PaneOf[o]], y),
           KindOf[o] \in {"append", "restore"} => Holds(s, o),
           pc[o] \in {"loaded", "found"}, KindOf[o] # "list", ListBecomes(o, s)
    PROVE  KeptInv'
<1> DEFINE p == PaneOf[o]
<1> USE DEF KeptInv
<1>1. /\ loaded' = loaded /\ disk' = disk /\ requests' = requests /\ made' = made
      /\ erased' = erased /\ revived' = revived /\ lost' = lost
  BY DEF ListBecomes
<1>2. /\ p \in Panes /\ o \in Snapshots
      /\ pc'[o] = "changed" /\ \A u \in Ops \ {o} : pc'[u] = pc[u]
      /\ list'[p] = s /\ \A q \in Panes \ {p} : list'[q] = list[q]
      /\ \A u \in Ops \ {o} : cut'[u] = cut[u]
      /\ \A y : y \in cut'[o] <=> Holds(list[p], y) /\ ~Holds(s, y)
  <2>1. /\ pc' = [pc EXCEPT ![o] = "changed"] /\ pc \in [Ops -> Stages]
        /\ list' = [list EXCEPT ![p] = s] /\ list \in [Panes -> Seq(Snapshots)]
        /\ cut' = [cut EXCEPT ![o] = ToSet(list[p]) \ ToSet(s)]
        /\ cut \in [Ops -> SUBSET Snapshots]
    BY DEF ListBecomes, LogInv, LogTypes
  <2>2. \A y : y \in cut'[o] <=> Holds(list[p], y) /\ ~Holds(s, y)
    BY <2>1 DEF Holds
  <2>3. p \in Panes /\ o \in Snapshots
    BY DEF RecoveryAssumption, Snapshots
  <2> QED
    BY <2>1, <2>2, <2>3
<1>3. /\ o \notin erased /\ o \notin made /\ cut[o] = {} /\ ~Holds(disk, o)
      /\ \A u \in Ops : o \notin cut[u]
      /\ \A n \in 1..Len(requests) : ~Holds(requests[n].payload, o)
  BY DEF LogInv, Unknown, Put
<1>4. \A y : Holds(s, y) => y = o \/ Holds(list[p], y)
  OBVIOUS
<1>5. p = PaneOf[o] /\ (KindOf[o] \in {"append", "restore"} => Holds(s, o))
  OBVIOUS
<1> HIDE DEF p
<1>6. \A n : (Reads(n)' <=> Reads(n)) /\ (Writes(n)' <=> Writes(n)) /\ At(n)' = At(n)
  BY <1>1 DEF Reads, Writes, At
<1>7. \A n \in 1..Len(requests) : requests[n].op \in Ops \ {o} /\ At(n) \in Panes
  BY AskIs DEF LogInv, Waiting
<1>8. ASSUME NEW q \in Panes, NEW y, Holds(list'[q], y)
      PROVE  Holds(list[q], y) \/ (y = o /\ q = p)
  BY <1>2, <1>4, <1>8
<1>9. Loading'
  <2>1. \A u \in Ops : Live(u)' => loaded[PaneOf[u]]
    <3>1. \A u \in Ops : Live(u)' => Live(u)
      BY <1>2 DEF Live
    <3> QED
      BY <3>1 DEF Loading
  <2>2. \A q \in Panes : ~loaded[q] => list'[q] = <<>>
    <3>1. loaded[p]
      BY <1>5 DEF Loading, Live
    <3> QED
      BY <1>2, <3>1 DEF Loading
  <2>3. \A n \in 1..Len(requests) : pc'[requests[n].op] = pc[requests[n].op]
    BY <1>2, <1>7
  <2> QED
    BY <1>1, <1>6, <2>1, <2>2, <2>3 DEF Loading
<1>10. Fresh'
  <2>1. ASSUME NEW q \in Panes, NEW y, Hurried(q, y)'
        PROVE  Hurried(q, y) \/ y = o
    <3>1. CASE Holds(list'[q], y)
      BY <1>8, <3>1 DEF Hurried
    <3>2. ASSUME NEW u \in Ops, PaneOf[u] = q, pc'[u] \in {"changed", "writing"}, y \in cut'[u]
          PROVE  Hurried(q, y)
      <4>1. CASE u = o
        BY <1>2, <1>5, <3>2, <4>1 DEF Hurried
      <4>2. CASE u # o
        BY <1>2, <3>2, <4>2 DEF Hurried
      <4> QED
        BY <4>1, <4>2
    <3> QED
      BY <2>1, <3>1, <3>2 DEF Hurried
  <2>2. ASSUME NEW n \in 1..Len(requests), Reads(n), NEW x \in Snapshots, Hurried(At(n), x)'
        PROVE  ~Holds(disk, x) /\ \A m \in 1..Len(requests) : m <= n => ~Holds(requests[m].payload, x)
    <3>1. At(n) \in Panes /\ At(n)' = At(n)
      BY <1>6, <1>7
    <3>2. PICK q \in Panes : q = At(n)
      BY <3>1
    <3>3. Hurried(q, x)'
      BY <2>2, <3>2, <3>1 DEF Hurried
    <3>4. Hurried(q, x) \/ x = o
      BY <2>1, <3>3
    <3> QED
      BY <1>3, <2>2, <3>2, <3>4 DEF Fresh
  <2> QED
    BY <1>1, <1>6, <2>2 DEF Fresh
<1>11. ErasedGone'
  <2>1. ASSUME NEW x \in erased \ revived
        PROVE  ~Holds(list'[PaneOf[x]], x)
    <3>1. PaneOf[x] \in Panes /\ x # o
      BY <1>3 DEF LogInv, LogTypes, RecoveryAssumption
    <3> QED
      BY <1>8, <3>1 DEF ErasedGone
  <2> QED
    BY <1>1, <1>6, <2>1 DEF ErasedGone
<1>12. CutGone'
  <2>1. ASSUME NEW u \in Ops, pc'[u] = "changed", NEW x \in Own(u)'
        PROVE  ~Holds(list'[PaneOf[u]], x)
    <3>1. PaneOf[u] \in Panes
      BY DEF RecoveryAssumption, Snapshots
    <3>2. CASE u = o
      BY <1>2, <1>5, <2>1, <3>2 DEF Own
    <3>3. CASE u # o
      <4>1. pc[u] = "changed" /\ x \in Own(u) /\ x # o
        BY <1>2, <1>3, <2>1, <3>3 DEF Own
      <4> QED
        BY <1>8, <3>1, <4>1 DEF CutGone
    <3> QED
      BY <3>2, <3>3
  <2> QED
    BY <2>1 DEF CutGone
<1>13. WrittenGone'
  <2>1. ASSUME NEW n \in 1..Len(requests), Writes(n), NEW x \in Own(requests[n].op)'
        PROVE  /\ ~Holds(list'[At(n)], x)
               /\ \A m \in 1..Len(requests) : m >= n /\ At(m) = At(n) => ~Holds(requests[m].payload, x)
    <3>1. x \in Own(requests[n].op) /\ x # o /\ At(n) \in Panes
      BY <1>1, <1>2, <1>3, <1>7 DEF Own
    <3> QED
      BY <1>8, <2>1, <3>1 DEF WrittenGone
  <2> QED
    BY <1>1, <1>6, <2>1 DEF WrittenGone
<1>14. /\ \A q : Ready(q)' <=> Ready(q)
       /\ \A x : x \in removed' <=> x \in removed \/ x \in cut'[o]
  <2>1. \A q : Ready(q)' <=> Ready(q)
    BY <1>1 DEF Ready
  <2>2. \A x : x \in removed <=> \E u \in Ops \ {o} : x \in cut[u]
    BY <1>3 DEF removed
  <2>3. \A x : x \in removed' <=> \E u \in Ops : x \in cut'[u]
    BY DEF removed
  <2> QED
    BY <1>2, <2>1, <2>2, <2>3
<1>15. ASSUME NEW q \in Panes, NEW x, Holds(list[q], x), x \notin removed'
       PROVE  Holds(list'[q], x)
  BY <1>2, <1>14, <1>15
<1>16. ReturnedStays'
  <2>1. ASSUME NEW x \in made \ (removed' \cup lost), Ready(PaneOf[x])
        PROVE  Holds(list'[PaneOf[x]], x)
    <3>1. PaneOf[x] \in Panes /\ x \notin removed
      BY <1>14 DEF LogInv, LogTypes, RecoveryAssumption
    <3> QED
      BY <1>15, <2>1, <3>1 DEF ReturnedStays
  <2> QED
    BY <1>1, <1>6, <1>14, <2>1 DEF ReturnedStays
<1>17. PutStays'
  <2>1. ASSUME NEW u \in Ops \ (removed' \cup lost), KindOf[u] \in {"append", "restore"}
        PROVE  /\ pc'[u] \in {"changed", "writing"} => Holds(list'[PaneOf[u]], u)
               /\ \A n \in 1..Len(requests) :
                     Writes(n) /\ requests[n].op = u /\ pc'[u] = "writing" =>
                        \A m \in 1..Len(requests) : m >= n /\ Writes(m) /\ At(m) = At(n) =>
                           Holds(requests[m].payload, u)
    <3>1. u \in Ops \ (removed \cup lost) /\ PaneOf[u] \in Panes
      BY <1>14 DEF RecoveryAssumption, Snapshots
    <3>2. CASE u = o
      BY <1>2, <1>5, <1>7, <2>1, <3>2
    <3>3. CASE u # o
      <4>1. pc'[u] = pc[u]
        BY <1>2, <3>3
      <4> QED
        BY <1>15, <2>1, <3>1, <4>1 DEF PutStays
    <3> QED
      BY <3>2, <3>3
  <2> QED
    BY <1>1, <1>6, <2>1 DEF PutStays
<1> QED
  BY <1>9, <1>10, <1>11, <1>12, <1>13, <1>16, <1>17

\* The first request leaves the queue.
LEMMA FirstLeaves ==
    ASSUME LogTypes, requests # <<>>, requests' = Tail(requests)
    PROVE  /\ 1 \in 1..Len(requests) /\ Head(requests) = requests[1]
           /\ \E at : /\ Remain(at)
                      /\ \A n \in 1..Len(requests') : at[n] # 1
                      /\ \A j \in 1..Len(requests) : j = 1 \/ \E n \in 1..Len(requests') : at[n] = j
<1>1. /\ Len(requests) \in Nat /\ 1 \in 1..Len(requests)
      /\ requests' \in Seq(Requests)
      /\ Head(requests) = requests[1]
      /\ Len(requests') = Len(requests) - 1
      /\ \A n \in 1..Len(requests') : n \in Nat /\ n + 1 \in 1..Len(requests) /\ n + 1 # 1
      /\ \A n \in 1..Len(requests') : requests'[n] = requests[n + 1]
  BY FirstServed
<1>2. PICK k \in Nat : k = Len(requests')
  <2>1. Len(requests') \in Nat
    BY <1>1
  <2> QED
    BY <2>1
<1> DEFINE at == [n \in 1..k |-> n + 1]
<1>3. at \in [1..k -> 1..Len(requests)] /\ \A n \in 1..k : at[n] = n + 1
  BY <1>1, <1>2
<1>4. \A j \in 1..Len(requests) : j = 1 \/ (j - 1 \in 1..k /\ (j - 1) + 1 = j)
  BY <1>1, <1>2
<1>5. \A i, j \in 1..k : i < j => i + 1 < j + 1
  OBVIOUS
<1> HIDE DEF at
<1>6. Remain(at)
  BY <1>1, <1>2, <1>3, <1>5 DEF Remain
<1>7. \A n \in 1..Len(requests') : at[n] # 1
  BY <1>1, <1>2, <1>3
<1>8. \A j \in 1..Len(requests) : j = 1 \/ \E n \in 1..Len(requests') : at[n] = j
  BY <1>2, <1>3, <1>4
<1> QED
  BY <1>1, <1>6, <1>7, <1>8

\* A read replaces what calls have put into the list.
LEMMA ReadServedKeeps ==
    ASSUME RecoveryAssumption, LogInv, LogInv', KeptInv, ServeRead
    PROVE  KeptInv'
<1> USE DEF KeptInv
<1>0. requests # <<>> /\ requests' = Tail(requests) /\ Head(requests).ask = "read"
  BY DEF ServeRead
<1>1. /\ 1 \in 1..Len(requests) /\ Head(requests) = requests[1]
      /\ \E at : /\ Remain(at)
                 /\ \A n \in 1..Len(requests') : at[n] # 1
                 /\ \A j \in 1..Len(requests) : j = 1 \/ \E n \in 1..Len(requests') : at[n] = j
  BY <1>0, FirstLeaves DEF LogInv
<1>2. PICK at : /\ Remain(at)
                /\ \A n \in 1..Len(requests') : at[n] # 1
                /\ \A j \in 1..Len(requests) : j = 1 \/ \E n \in 1..Len(requests') : at[n] = j
  BY <1>1
<1>3. /\ \A n \in 1..Len(requests') :
            /\ at[n] \in 1..Len(requests) /\ at[n] > 1
            /\ requests'[n] = requests[at[n]]
            /\ Reads(n)' <=> Reads(at[n])
            /\ Writes(n)' <=> Writes(at[n])
            /\ At(n)' = At(at[n])
      /\ \A m, n \in 1..Len(requests') :
            /\ m # n => at[m] # at[n]
            /\ m > n => at[m] > at[n]
            /\ m >= n => at[m] >= at[n]
  <2>1. \A n \in 1..Len(requests') : at[n] \in 1..Len(requests) /\ at[n] # 1
    BY <1>2, Remaining DEF LogInv
  <2>2. \A n \in 1..Len(requests') : at[n] > 1
    BY <2>1
  <2> QED
    BY <1>2, <2>1, <2>2, Remaining DEF LogInv
<1>4. PICK o \in Ops, p \in Panes : o = requests[1].op /\ p = PaneOf[o] /\ p = At(1)
  BY <1>1, AskIs DEF LogInv, At
<1>5. Reads(1) /\ pc[o] = "loading"
  BY <1>0, <1>1, <1>4 DEF Reads, LogInv, Waiting
<1>6. /\ loaded' = loaded /\ disk' = disk /\ made' = made /\ cut' = cut
      /\ erased' = erased /\ revived' = revived
      /\ pc'[o] = "loaded" /\ \A u \in Ops \ {o} : pc'[u] = pc[u]
      /\ \A q \in Panes \ {p} : list'[q] = list[q]
      /\ list'[p] = disk \/ list'[p] = <<>>
      /\ \A x : Holds(list[p], x) \/ Holds(disk, x) => Holds(list'[p], x) \/ x \in lost'
      /\ lost \subseteq lost'
  <2>1. /\ \/ /\ list' = [list EXCEPT ![p] = disk]
              /\ lost' = lost \cup (ToSet(list[p]) \ ToSet(disk))
           \/ /\ list' = [list EXCEPT ![p] = <<>>]
              /\ lost' = lost \cup ToSet(disk) \cup ToSet(list[p])
        /\ pc' = [pc EXCEPT ![o] = "loaded"]
        /\ loaded' = loaded /\ disk' = disk /\ made' = made /\ cut' = cut
        /\ erased' = erased /\ revived' = revived
    BY <1>1, <1>4 DEF ServeRead
  <2>2. list \in [Panes -> Seq(Snapshots)] /\ pc \in [Ops -> Stages]
    BY DEF LogInv, LogTypes
  <2> QED
    BY <2>1, <2>2 DEF Holds
<1>7. \A n \in 1..Len(requests') : requests[at[n]].op \in Ops \ {o} /\ At(at[n]) \in Panes
  <2>1. \A n \in 1..Len(requests) : n # 1 => requests[n].op \in Ops \ {o}
    BY <1>1, <1>4, AskIs DEF LogInv, Waiting
  <2> QED
    BY <1>2, <1>3, <2>1, AskIs DEF LogInv
<1>8. \A x : ~Holds(<<>>, x)
  BY EmptyHoldsNothing
<1>9. \A n \in 1..Len(requests) : n # 1 /\ At(n) = p => Writes(n) /\ (n > 1 => pc[requests[n].op] = "writing")
  BY <1>1, <1>4, <1>5 DEF Loading
<1>10. \A u \in Ops : /\ pc'[u] \in {"changed", "writing"} <=> pc[u] \in {"changed", "writing"}
                      /\ pc'[u] \in {"changed", "writing"} => pc'[u] = pc[u]
  BY <1>5, <1>6
<1>11. Loading'
  <2>1. loaded[p]
    BY <1>1, <1>4, <1>5 DEF Loading
  <2>2. \A q \in Panes : ~loaded[q] => list'[q] = <<>>
    BY <1>6, <2>1 DEF Loading
  <2>3. \A u \in Ops : Live(u)' => loaded[PaneOf[u]]
    BY <1>5, <1>6 DEF Loading, Live
  <2>4. ASSUME NEW n \in 1..Len(requests'), Reads(n)'
        PROVE  /\ loaded[At(n)']
               /\ \A m \in 1..Len(requests') : At(m)' = At(n)' /\ m # n =>
                     Writes(m)' /\ (m > n => pc'[requests'[m].op] = "writing")
    <3>1. Reads(at[n]) /\ loaded[At(at[n])]
      BY <1>3, <2>4 DEF Loading
    <3>2. ASSUME NEW m \in 1..Len(requests'), At(m)' = At(n)', m # n
          PROVE  Writes(m)' /\ (m > n => pc'[requests'[m].op] = "writing")
      <4>1. Writes(at[m]) /\ (at[m] > at[n] => pc[requests[at[m]].op] = "writing")
        BY <1>3, <3>1, <3>2 DEF Loading
      <4> QED
        BY <1>3, <1>6, <1>7, <4>1
    <3> QED
      BY <1>3, <2>4, <3>1, <3>2
  <2> QED
    BY <1>6, <2>2, <2>3, <2>4 DEF Loading
<1>12. Fresh'
  <2>1. ASSUME NEW q \in Panes, q # p, NEW x
        PROVE  Hurried(q, x)' <=> Hurried(q, x)
    BY <1>6, <1>10, <2>1 DEF Hurried
  <2>2. ASSUME NEW n \in 1..Len(requests'), Reads(n)', NEW x \in Snapshots, Hurried(At(n), x)'
        PROVE  ~Holds(disk, x) /\ \A m \in 1..Len(requests') : m <= n => ~Holds(requests'[m].payload, x)
    <3>1. PICK q \in Panes : q = At(at[n])
      BY <1>7
    <3>2. q # p
      BY <1>3, <1>5, <1>9, <2>2, <3>1, AskIs DEF LogInv
    <3>3. At(n)' = q
      BY <1>3, <3>1
    <3>4. Hurried(q, x)'
      BY <2>2, <3>3 DEF Hurried
    <3>5. ~Holds(disk, x) /\ \A m \in 1..Len(requests) : m <= at[n] => ~Holds(requests[m].payload, x)
      BY <1>3, <2>1, <2>2, <3>1, <3>2, <3>4 DEF Fresh
    <3> QED
      BY <1>3, <3>5
  <2> QED
    BY <1>6, <2>2 DEF Fresh
<1>13. ErasedGone'
  <2>1. ASSUME NEW x \in erased \ revived
        PROVE  ~Holds(list'[PaneOf[x]], x)
    <3>1. PaneOf[x] \in Panes
      BY DEF LogInv, LogTypes, RecoveryAssumption
    <3> QED
      BY <1>6, <1>8, <3>1 DEF ErasedGone
  <2> QED
    BY <1>3, <1>6, <2>1 DEF ErasedGone
<1>14. ASSUME NEW u \in Ops, NEW x \in Own(u), pc[u] \in {"changed", "writing"}, PaneOf[u] = p
       PROVE  ~Holds(list'[p], x)
  <2>1. Hurried(p, x) /\ x \in Snapshots
    BY <1>14 DEF Hurried, Own, LogInv, LogTypes, Of
  <2>2. ~Holds(disk, x)
    BY <1>1, <1>4, <1>5, <2>1 DEF Fresh
  <2> QED
    BY <1>6, <1>8, <2>2
<1>15. CutGone'
  <2>1. ASSUME NEW u \in Ops, pc'[u] = "changed", NEW x \in Own(u)
        PROVE  ~Holds(list'[PaneOf[u]], x)
    <3>1. pc[u] = "changed" /\ PaneOf[u] \in Panes
      BY <1>6, <2>1 DEF RecoveryAssumption, Snapshots
    <3> QED
      BY <1>6, <1>14, <3>1 DEF CutGone
  <2> QED
    BY <1>6, <2>1 DEF CutGone, Own
<1>16. WrittenGone'
  <2>1. ASSUME NEW n \in 1..Len(requests'), Writes(n)', NEW x \in Own(requests'[n].op)
        PROVE  /\ ~Holds(list'[At(n)'], x)
               /\ \A m \in 1..Len(requests') : m >= n /\ At(m)' = At(n)' => ~Holds(requests'[m].payload, x)
    <3>1. Writes(at[n]) /\ x \in Own(requests[at[n]].op) /\ At(n)' = At(at[n])
      BY <1>3, <2>1
    <3>2. /\ ~Holds(list[At(at[n])], x)
          /\ \A m \in 1..Len(requests) : m >= at[n] /\ At(m) = At(at[n]) => ~Holds(requests[m].payload, x)
      BY <1>3, <3>1 DEF WrittenGone
    <3>3. ~Holds(list'[At(at[n])], x)
      <4>1. CASE At(at[n]) = p
        <5>1. pc[requests[at[n]].op] = "writing" /\ requests[at[n]].op \in Ops /\ PaneOf[requests[at[n]].op] = p
          BY <1>3, <1>7, <1>9, <4>1 DEF At
        <5> QED
          BY <1>14, <3>1, <4>1, <5>1
      <4>2. CASE At(at[n]) # p
        BY <1>6, <1>7, <3>2, <4>2
      <4> QED
        BY <4>1, <4>2
    <3> QED
      BY <1>3, <3>1, <3>2, <3>3
  <2> QED
    BY <1>6, <2>1 DEF WrittenGone, Own
<1>17. /\ removed' = removed
       /\ \A q \in Panes : q # p => (Ready(q)' <=> Ready(q))
  <2>1. removed' = removed
    BY <1>6 DEF removed
  <2>2. ASSUME NEW q \in Panes, q # p
        PROVE  Ready(q)' <=> Ready(q)
    <3>1. Ready(q)' <=> loaded'[q] /\ \A n \in 1..Len(requests') : Reads(n)' => At(n)' # q
      BY ReadyThenMeans DEF LogInv
    <3>2. Ready(q) <=> loaded[q] /\ \A n \in 1..Len(requests) : Reads(n) => At(n) # q
      BY ReadyMeans DEF LogInv
    <3>3. (\A n \in 1..Len(requests') : Reads(n)' => At(n)' # q)
          <=> \A n \in 1..Len(requests) : Reads(n) => At(n) # q
      <4>1. ASSUME NEW j \in 1..Len(requests), Reads(j), At(j) = q
            PROVE  \E n \in 1..Len(requests') : Reads(n)' /\ At(n)' = q
        <5>1. j # 1
          BY <1>4, <2>2, <4>1
        <5>2. PICK n \in 1..Len(requests') : at[n] = j
          BY <1>2, <5>1
        <5> QED
          BY <1>3, <4>1, <5>2
      <4> QED
        BY <1>3, <4>1
    <3> QED
      BY <1>6, <3>1, <3>2, <3>3
  <2> QED
    BY <2>1, <2>2
<1>18. ReturnedStays'
  <2>1. ASSUME NEW x \in made \ (removed \cup lost')
        PROVE  /\ Holds(disk, x)
               /\ Ready(PaneOf[x])' => Holds(list'[PaneOf[x]], x)
               /\ \A n \in 1..Len(requests') : Writes(n)' /\ At(n)' = PaneOf[x] => Holds(requests'[n].payload, x)
    <3>1. PaneOf[x] \in Panes /\ x \in made \ (removed \cup lost)
      BY <1>6 DEF LogInv, LogTypes, RecoveryAssumption
    <3>2. /\ Holds(disk, x)
          /\ Ready(PaneOf[x]) => Holds(list[PaneOf[x]], x)
          /\ \A n \in 1..Len(requests) : Writes(n) /\ At(n) = PaneOf[x] => Holds(requests[n].payload, x)
      BY <3>1 DEF ReturnedStays
    <3>3. PaneOf[x] = p => Holds(list'[p], x)
      BY <1>6, <2>1, <3>2
    <3>4. ASSUME PaneOf[x] # p, Ready(PaneOf[x])'
          PROVE  Holds(list'[PaneOf[x]], x)
      <4>1. PICK q \in Panes : q = PaneOf[x]
        BY <3>1
      <4>2. Ready(q)
        BY <1>17, <3>4, <4>1
      <4> QED
        BY <1>6, <3>2, <3>4, <4>1, <4>2
    <3>5. \A n \in 1..Len(requests') : Writes(n)' /\ At(n)' = PaneOf[x] => Holds(requests'[n].payload, x)
      BY <1>3, <3>2
    <3> QED
      BY <3>2, <3>3, <3>4, <3>5
  <2> QED
    BY <1>6, <1>17, <2>1 DEF ReturnedStays
<1>19. PutStays'
  <2>1. ASSUME NEW u \in Ops \ (removed \cup lost'), KindOf[u] \in {"append", "restore"}
        PROVE  /\ pc'[u] \in {"changed", "writing"} => Holds(list'[PaneOf[u]], u)
               /\ \A n \in 1..Len(requests') :
                     Writes(n)' /\ requests'[n].op = u /\ pc'[u] = "writing" =>
                        \A m \in 1..Len(requests') : m >= n /\ Writes(m)' /\ At(m)' = At(n)' =>
                           Holds(requests'[m].payload, u)
    <3>1. u \in Ops \ (removed \cup lost) /\ PaneOf[u] \in Panes
      BY <1>6, <2>1 DEF RecoveryAssumption, Snapshots
    <3>2. ASSUME pc'[u] \in {"changed", "writing"}
          PROVE  Holds(list'[PaneOf[u]], u)
      <4>1. Holds(list[PaneOf[u]], u)
        BY <1>10, <2>1, <3>1, <3>2 DEF PutStays
      <4> QED
        BY <1>6, <2>1, <3>1, <4>1
    <3>3. ASSUME NEW n \in 1..Len(requests'), Writes(n)', requests'[n].op = u, pc'[u] = "writing",
                 NEW m \in 1..Len(requests'), m >= n, Writes(m)', At(m)' = At(n)'
          PROVE  Holds(requests'[m].payload, u)
      <4>1. /\ Writes(at[n]) /\ requests[at[n]].op = u /\ pc[u] = "writing"
            /\ Writes(at[m]) /\ At(at[m]) = At(at[n]) /\ at[m] >= at[n]
        BY <1>3, <1>10, <3>1, <3>3
      <4>2. Holds(requests[at[m]].payload, u)
        BY <1>3, <2>1, <3>1, <4>1 DEF PutStays
      <4> QED
        BY <1>3, <4>2
    <3> QED
      BY <3>2, <3>3
  <2> QED
    BY <1>17, <2>1 DEF PutStays
<1> QED
  BY <1>11, <1>12, <1>13, <1>15, <1>16, <1>18, <1>19

\* A write, of any pane, is served.
LEMMA WriteServedKeeps ==
    ASSUME RecoveryAssumption, LogInv, LogInv', KeptInv, ServeWrite
    PROVE  KeptInv'
<1> USE DEF KeptInv
<1>0. /\ requests # <<>> /\ requests' = Tail(requests) /\ Head(requests).ask = "write"
      /\ loaded' = loaded /\ list' = list /\ cut' = cut
  BY DEF ServeWrite, logVars
<1>1. /\ 1 \in 1..Len(requests) /\ Head(requests) = requests[1]
      /\ \E at : /\ Remain(at)
                 /\ \A n \in 1..Len(requests') : at[n] # 1
                 /\ \A j \in 1..Len(requests) : j = 1 \/ \E n \in 1..Len(requests') : at[n] = j
  BY <1>0, FirstLeaves DEF LogInv
<1>2. PICK at : /\ Remain(at)
                /\ \A n \in 1..Len(requests') : at[n] # 1
                /\ \A j \in 1..Len(requests) : j = 1 \/ \E n \in 1..Len(requests') : at[n] = j
  BY <1>1
<1>3. /\ \A n \in 1..Len(requests') :
            /\ at[n] \in 1..Len(requests) /\ at[n] >= 1 /\ at[n] # 1
            /\ requests'[n] = requests[at[n]]
            /\ Reads(n)' <=> Reads(at[n])
            /\ Writes(n)' <=> Writes(at[n])
            /\ At(n)' = At(at[n])
      /\ \A m, n \in 1..Len(requests') :
            /\ m # n => at[m] # at[n]
            /\ m > n => at[m] > at[n]
            /\ m >= n => at[m] >= at[n]
  <2>1. \A n \in 1..Len(requests') : at[n] \in 1..Len(requests) /\ at[n] # 1
    BY <1>2, Remaining DEF LogInv
  <2>2. \A n \in 1..Len(requests') : at[n] >= 1
    BY <2>1
  <2> QED
    BY <1>2, <2>1, <2>2, Remaining DEF LogInv
<1>4. PICK o \in Ops, p \in Panes : o = requests[1].op /\ p = PaneOf[o] /\ p = At(1)
  BY <1>1, AskIs DEF LogInv, At
<1>5. PICK s : s = requests[1].payload
  OBVIOUS
<1>6. Writes(1) /\ ~Reads(1) /\ pc[o] \in {"writing", "dead"}
  BY <1>0, <1>1, <1>4 DEF Reads, Writes, LogInv, Waiting
<1>7. \/ /\ disk' = s
         /\ \A x \in Snapshots :
               /\ x \in erased' <=> x \in erased \/ (x \in cut[o] /\ PaneOf[x] = p)
               /\ x \in revived' <=> x \in revived \/ (Holds(s, x) /\ x \in erased /\ PaneOf[x] # p)
               /\ x \in lost' <=> x \in lost \/ (Holds(disk, x) /\ ~Holds(s, x) /\ PaneOf[x] # p)
      \/ /\ disk' = disk /\ erased' = erased /\ revived' = revived
         /\ \A x \in Snapshots : x \in lost' <=> x \in lost \/ (Holds(s, x) /\ ~Holds(disk, x))
  <2>1. Stored(o, s) \/ NotStored(s)
    BY <1>1, <1>4, <1>5 DEF ServeWrite
  <2> QED
    BY <1>4, <2>1 DEF Stored, NotStored, Holds
<1>8. /\ \A u \in Ops \ {o} : pc'[u] = pc[u]
      /\ pc'[o] \in {"done", "dead"}
      /\ \A x \in made' : x \in made \/ (x = o /\ pc[o] = "writing" /\ KindOf[o] \in {"append", "restore"})
  <2>1. Returns(o) /\ pc \in [Ops -> Stages]
    BY <1>1, <1>4 DEF ServeWrite, LogInv, LogTypes
  <2> QED
    BY <1>4, <1>6, <2>1 DEF Returns
<1>9. \A n \in 1..Len(requests') : requests[at[n]].op \in Ops \ {o} /\ At(at[n]) \in Panes
  <2>1. \A n \in 1..Len(requests) : n # 1 => requests[n].op \in Ops \ {o}
    BY <1>1, <1>4, AskIs DEF LogInv, Waiting
  <2> QED
    BY <1>3, <2>1, AskIs DEF LogInv
<1>10. \A u \in Ops : /\ pc'[u] \in {"changed", "writing"} => pc'[u] = pc[u]
                      /\ Live(u)' => Live(u)
  BY <1>8 DEF Live
<1>11. made' \subseteq Snapshots /\ erased' \subseteq Snapshots /\ erased \subseteq Snapshots
       /\ \A x \in Snapshots : PaneOf[x] \in Panes
  BY DEF LogInv, LogTypes, RecoveryAssumption
<1>12. Loading'
  <2>1. ASSUME NEW n \in 1..Len(requests'), Reads(n)'
        PROVE  /\ loaded[At(n)']
               /\ \A m \in 1..Len(requests') : At(m)' = At(n)' /\ m # n =>
                     Writes(m)' /\ (m > n => pc'[requests'[m].op] = "writing")
    <3>1. Reads(at[n]) /\ loaded[At(at[n])]
      BY <1>3, <2>1 DEF Loading
    <3>2. ASSUME NEW m \in 1..Len(requests'), At(m)' = At(n)', m # n
          PROVE  Writes(m)' /\ (m > n => pc'[requests'[m].op] = "writing")
      <4>1. Writes(at[m]) /\ (at[m] > at[n] => pc[requests[at[m]].op] = "writing")
        BY <1>3, <3>1, <3>2 DEF Loading
      <4> QED
        BY <1>3, <1>8, <1>9, <4>1
    <3> QED
      BY <1>3, <2>1, <3>1, <3>2
  <2> QED
    BY <1>0, <1>10, <2>1 DEF Loading
<1>13. Fresh'
  <2>1. \A q, x : Hurried(q, x)' => Hurried(q, x)
    BY <1>0, <1>10 DEF Hurried
  <2>2. ASSUME NEW n \in 1..Len(requests'), Reads(n)', NEW x \in Snapshots, Hurried(At(n), x)'
        PROVE  ~Holds(disk', x) /\ \A m \in 1..Len(requests') : m <= n => ~Holds(requests'[m].payload, x)
    <3>1. PICK q \in Panes : q = At(at[n])
      BY <1>9
    <3>2. At(n)' = q
      BY <1>3, <3>1
    <3>3. Hurried(q, x)'
      BY <2>2, <3>2 DEF Hurried
    <3>4. ~Holds(disk, x) /\ \A m \in 1..Len(requests) : m <= at[n] => ~Holds(requests[m].payload, x)
      BY <1>3, <2>1, <2>2, <3>1, <3>3 DEF Fresh
    <3>5. ~Holds(s, x)
      <4>1. 1 <= at[n]
        BY <1>3
      <4> QED
        BY <1>1, <1>5, <3>4, <4>1
    <3>6. ASSUME NEW m \in 1..Len(requests'), m <= n
          PROVE  ~Holds(requests'[m].payload, x)
      <4>1. at[m] <= at[n]
        <5>1. n >= m
          BY <3>6 DEF LogInv, LogTypes
        <5>2. at[n] >= at[m] /\ at[n] \in Int /\ at[m] \in Int
          BY <1>3, <5>1
        <5> QED
          BY <5>2
      <4> QED
        BY <1>3, <3>4, <4>1
    <3> QED
      BY <1>7, <3>4, <3>5, <3>6
  <2> QED
    BY <2>2 DEF Fresh
<1>14. ErasedGone'
  <2>1. ASSUME NEW x \in erased' \ revived'
        PROVE  /\ ~Holds(disk', x) /\ ~Holds(list[PaneOf[x]], x)
               /\ \A n \in 1..Len(requests) : At(n) = PaneOf[x] => ~Holds(requests[n].payload, x)
    <3>1. x \in Snapshots
      BY <1>11
    <3>2. CASE x \in erased
      <4>1. x \in erased \ revived
        BY <1>7, <2>1, <3>1, <3>2
      <4>2. /\ ~Holds(disk, x) /\ ~Holds(list[PaneOf[x]], x)
            /\ \A n \in 1..Len(requests) : At(n) = PaneOf[x] => ~Holds(requests[n].payload, x)
        BY <4>1 DEF ErasedGone
      <4>3. disk' = s => ~Holds(s, x)
        BY <1>1, <1>4, <1>5, <1>7, <2>1, <3>1, <3>2, <4>2
      <4> QED
        BY <1>7, <4>2, <4>3
    <3>3. CASE x \notin erased
      <4>1. x \in Own(o) /\ PaneOf[x] = p /\ disk' = s
        BY <1>4, <1>7, <2>1, <3>1, <3>3 DEF Own, Of
      <4>2. /\ ~Holds(list[p], x)
            /\ \A m \in 1..Len(requests) : m >= 1 /\ At(m) = p => ~Holds(requests[m].payload, x)
        BY <1>1, <1>4, <1>6, <4>1 DEF WrittenGone
      <4>3. \A m \in 1..Len(requests) : m >= 1
        OBVIOUS
      <4> QED
        BY <1>1, <1>4, <1>5, <4>1, <4>2, <4>3
    <3> QED
      BY <3>2, <3>3
  <2>2. \A x \in erased' \ revived' : \A n \in 1..Len(requests') :
           At(n)' = PaneOf[x] => ~Holds(requests'[n].payload, x)
    BY <1>3, <2>1
  <2>3. \A x \in erased' \ revived' : ~Holds(disk', x) /\ ~Holds(list'[PaneOf[x]], x)
    BY <1>0, <2>1
  <2> QED
    BY <2>2, <2>3 DEF ErasedGone
<1>15. CutGone'
  <2>1. \A u \in Ops : pc'[u] = "changed" => pc[u] = "changed"
    BY <1>10
  <2> QED
    BY <1>0, <2>1 DEF CutGone, Own
<1>16. WrittenGone'
  <2>1. ASSUME NEW n \in 1..Len(requests'), Writes(n)', NEW x \in Own(requests'[n].op)
        PROVE  /\ ~Holds(list[At(n)'], x)
               /\ \A m \in 1..Len(requests') : m >= n /\ At(m)' = At(n)' => ~Holds(requests'[m].payload, x)
    <3>1. Writes(at[n]) /\ x \in Own(requests[at[n]].op) /\ At(n)' = At(at[n])
      BY <1>3, <2>1
    <3>2. /\ ~Holds(list[At(at[n])], x)
          /\ \A m \in 1..Len(requests) : m >= at[n] /\ At(m) = At(at[n]) => ~Holds(requests[m].payload, x)
      BY <1>3, <3>1 DEF WrittenGone
    <3> QED
      BY <1>3, <3>1, <3>2
  <2> QED
    BY <1>0, <2>1 DEF WrittenGone, Own
<1>17. /\ removed' = removed
       /\ \A x \in Snapshots : x \notin lost' => x \notin lost /\ (Holds(s, x) => Holds(disk', x))
                                                 /\ (Holds(disk, x) /\ PaneOf[x] # p => Holds(disk', x))
       /\ \A q \in Panes : Ready(q)' <=> Ready(q)
  <2>1. removed' = removed
    BY <1>0 DEF removed
  <2>2. ASSUME NEW q \in Panes
        PROVE  Ready(q)' <=> Ready(q)
    <3>1. Ready(q)' <=> loaded'[q] /\ \A n \in 1..Len(requests') : Reads(n)' => At(n)' # q
      BY ReadyThenMeans DEF LogInv
    <3>2. Ready(q) <=> loaded[q] /\ \A n \in 1..Len(requests) : Reads(n) => At(n) # q
      BY ReadyMeans DEF LogInv
    <3>3. (\A n \in 1..Len(requests') : Reads(n)' => At(n)' # q)
          <=> \A n \in 1..Len(requests) : Reads(n) => At(n) # q
      <4>1. ASSUME NEW j \in 1..Len(requests), Reads(j), At(j) = q
            PROVE  \E n \in 1..Len(requests') : Reads(n)' /\ At(n)' = q
        <5>1. j # 1
          BY <1>6, <4>1
        <5>2. PICK n \in 1..Len(requests') : at[n] = j
          BY <1>2, <5>1
        <5> QED
          BY <1>3, <4>1, <5>2
      <4> QED
        BY <1>3, <4>1
    <3> QED
      BY <1>0, <3>1, <3>2, <3>3
  <2>3. \A x \in Snapshots : x \notin lost' => x \notin lost /\ (Holds(s, x) => Holds(disk', x))
                                               /\ (Holds(disk, x) /\ PaneOf[x] # p => Holds(disk', x))
    BY <1>7
  <2> QED
    BY <2>1, <2>2, <2>3
<1>18. ReturnedStays'
  <2>1. ASSUME NEW x \in made' \ (removed \cup lost')
        PROVE  /\ Holds(disk', x)
               /\ Ready(PaneOf[x]) => Holds(list[PaneOf[x]], x)
               /\ \A n \in 1..Len(requests) : Writes(n) /\ At(n) = PaneOf[x] => Holds(requests[n].payload, x)
    <3>1. x \in Snapshots /\ x \notin removed \cup lost
      BY <1>11, <1>17, <2>1
    <3>2. CASE x \in made
      <4>1. /\ Holds(disk, x)
            /\ Ready(PaneOf[x]) => Holds(list[PaneOf[x]], x)
            /\ \A n \in 1..Len(requests) : Writes(n) /\ At(n) = PaneOf[x] => Holds(requests[n].payload, x)
        BY <3>1, <3>2 DEF ReturnedStays
      <4>2. PaneOf[x] = p => Holds(s, x)
        BY <1>1, <1>4, <1>5, <1>6, <4>1
      <4> QED
        BY <1>17, <2>1, <3>1, <4>1, <4>2
    <3>3. CASE x \notin made
      <4>1. x = o /\ pc[o] = "writing" /\ KindOf[o] \in {"append", "restore"}
        BY <1>8, <2>1, <3>3
      <4>2. /\ Holds(list[p], o)
            /\ \A m \in 1..Len(requests) : m >= 1 /\ Writes(m) /\ At(m) = p => Holds(requests[m].payload, o)
        BY <1>1, <1>4, <1>6, <3>1, <4>1 DEF PutStays
      <4>3. \A m \in 1..Len(requests) : m >= 1
        OBVIOUS
      <4>4. Holds(s, o)
        BY <1>1, <1>4, <1>5, <1>6, <4>2, <4>3
      <4> QED
        BY <1>4, <1>17, <2>1, <3>1, <4>1, <4>2, <4>3, <4>4
    <3> QED
      BY <3>2, <3>3
  <2>2. \A x \in made' : PaneOf[x] \in Panes
    BY <1>11
  <2> QED
    BY <1>0, <1>3, <1>17, <2>1, <2>2 DEF ReturnedStays
<1>19. PutStays'
  <2>1. ASSUME NEW u \in Ops \ (removed \cup lost'), KindOf[u] \in {"append", "restore"}
        PROVE  /\ pc'[u] \in {"changed", "writing"} => Holds(list[PaneOf[u]], u)
               /\ \A n \in 1..Len(requests') :
                     Writes(n)' /\ requests'[n].op = u /\ pc'[u] = "writing" =>
                        \A m \in 1..Len(requests') : m >= n /\ Writes(m)' /\ At(m)' = At(n)' =>
                           Holds(requests'[m].payload, u)
    <3>1. u \in Ops \ (removed \cup lost)
      BY <1>17, <2>1 DEF Snapshots
    <3>2. pc'[u] \in {"changed", "writing"} => Holds(list[PaneOf[u]], u)
      BY <1>10, <2>1, <3>1 DEF PutStays
    <3>3. ASSUME NEW n \in 1..Len(requests'), Writes(n)', requests'[n].op = u, pc'[u] = "writing",
                 NEW m \in 1..Len(requests'), m >= n, Writes(m)', At(m)' = At(n)'
          PROVE  Holds(requests'[m].payload, u)
      <4>1. /\ Writes(at[n]) /\ requests[at[n]].op = u /\ pc[u] = "writing"
            /\ Writes(at[m]) /\ At(at[m]) = At(at[n]) /\ at[m] >= at[n]
        BY <1>3, <1>10, <3>1, <3>3
      <4>2. Holds(requests[at[m]].payload, u)
        BY <1>3, <2>1, <3>1, <4>1 DEF PutStays
      <4> QED
        BY <1>3, <4>2
    <3> QED
      BY <3>2, <3>3
  <2> QED
    BY <1>0, <1>17, <2>1 DEF PutStays
<1> QED
  BY <1>12, <1>13, <1>14, <1>15, <1>16, <1>18, <1>19

\* A pane is reloaded; the others go on.
LEMMA RestartKeeps ==
    ASSUME RecoveryAssumption, LogInv, LogInv', KeptInv, NEW p \in Panes, Restart(p)
    PROVE  KeptInv'
<1> USE DEF KeptInv
<1>1. PICK gone \in {{"read"}, {"read", "write"}} :
         requests' = Without(requests, {r \in ToSet(requests) : PaneOf[r.op] = p /\ r.ask \in gone})
  BY DEF Restart
<1> DEFINE T == {r \in ToSet(requests) : PaneOf[r.op] = p /\ r.ask \in gone}
<1>2. \A j \in 1..Len(requests) :
         /\ requests[j] \in T => At(j) = p
         /\ At(j) = p /\ Reads(j) => requests[j] \in T
  <2>1. requests \in Seq(Requests)
    BY DEF LogInv, LogTypes
  <2>2. \A j \in 1..Len(requests) : requests[j] \in ToSet(requests)
    BY <2>1, HoldsAt DEF Holds
  <2> QED
    BY <2>2 DEF At, Reads
<1>3. requests' = Without(requests, T)
  BY <1>1
<1> HIDE DEF T
<1>4. PICK at \in [1..Len(requests') -> 1..Len(requests)] :
         /\ \A i, j \in 1..Len(requests') : i < j => at[i] < at[j]
         /\ \A i \in 1..Len(requests') : requests'[i] = requests[at[i]] /\ requests[at[i]] \notin T
         /\ \A j \in 1..Len(requests) : requests[j] \notin T => \E i \in 1..Len(requests') : at[i] = j
  BY <1>3, SomeGone DEF LogInv
<1>5. Remain(at)
  BY <1>4 DEF Remain
<1>6. /\ \A n \in 1..Len(requests') :
            /\ at[n] \in 1..Len(requests)
            /\ requests'[n] = requests[at[n]]
            /\ Reads(n)' <=> Reads(at[n])
            /\ Writes(n)' <=> Writes(at[n])
            /\ At(n)' = At(at[n])
            /\ requests[at[n]].op \in Ops /\ At(at[n]) \in Panes
      /\ \A m, n \in 1..Len(requests') :
            /\ m # n => at[m] # at[n]
            /\ m > n => at[m] > at[n]
            /\ m >= n => at[m] >= at[n]
  BY <1>5, Remaining, AskIs DEF LogInv
<1>7. /\ disk' = disk /\ made' = made /\ cut' = cut /\ erased' = erased /\ revived' = revived /\ lost' = lost
      /\ list'[p] = <<>> /\ ~loaded'[p]
      /\ \A q \in Panes \ {p} : list'[q] = list[q] /\ loaded'[q] = loaded[q]
      /\ \A u \in Ops : PaneOf[u] = p => pc'[u] \in {"idle", "done", "dead"}
      /\ \A u \in Ops : PaneOf[u] # p => pc'[u] = pc[u]
  BY DEF Restart, LogInv, LogTypes, ghosts
<1>8. \A x : ~Holds(<<>>, x)
  BY EmptyHoldsNothing
<1>9. \A n \in 1..Len(requests') : Reads(n)' => At(at[n]) # p
  BY <1>2, <1>4, <1>6
<1>10. /\ \A x \in Snapshots : PaneOf[x] \in Panes
       /\ \A u \in Ops : PaneOf[u] \in Panes /\ (pc'[u] \in {"changed", "writing"} => PaneOf[u] # p /\ pc'[u] = pc[u])
  BY <1>7 DEF RecoveryAssumption, Snapshots
<1>11. Loading'
  <2>1. \A q \in Panes : ~loaded'[q] => list'[q] = <<>>
    BY <1>7 DEF Loading
  <2>2. ASSUME NEW u \in Ops, Live(u)'
        PROVE  loaded'[PaneOf[u]]
    <3>1. PaneOf[u] # p
      BY <1>7, <2>2 DEF Live
    <3>2. Live(u)
      BY <1>7, <2>2, <3>1 DEF Live
    <3> QED
      BY <1>7, <1>10, <3>1, <3>2 DEF Loading
  <2>3. ASSUME NEW n \in 1..Len(requests'), Reads(n)'
        PROVE  /\ loaded'[At(n)']
               /\ \A m \in 1..Len(requests') : At(m)' = At(n)' /\ m # n =>
                     Writes(m)' /\ (m > n => pc'[requests'[m].op] = "writing")
    <3>1. Reads(at[n]) /\ loaded[At(at[n])] /\ At(at[n]) # p
      BY <1>6, <1>9, <2>3 DEF Loading
    <3>2. ASSUME NEW m \in 1..Len(requests'), At(m)' = At(n)', m # n
          PROVE  Writes(m)' /\ (m > n => pc'[requests'[m].op] = "writing")
      <4>1. Writes(at[m]) /\ (at[m] > at[n] => pc[requests[at[m]].op] = "writing")
        BY <1>6, <3>1, <3>2 DEF Loading
      <4>2. PaneOf[requests[at[m]].op] # p
        BY <1>6, <3>1, <3>2 DEF At
      <4> QED
        BY <1>6, <1>7, <4>1, <4>2
    <3> QED
      BY <1>6, <1>7, <2>3, <3>1, <3>2
  <2> QED
    BY <2>1, <2>2, <2>3 DEF Loading
<1>12. Fresh'
  <2>1. ASSUME NEW q \in Panes, q # p, NEW x, Hurried(q, x)'
        PROVE  Hurried(q, x)
    BY <1>7, <2>1 DEF Hurried
  <2>2. ASSUME NEW n \in 1..Len(requests'), Reads(n)', NEW x \in Snapshots, Hurried(At(n), x)'
        PROVE  ~Holds(disk, x) /\ \A m \in 1..Len(requests') : m <= n => ~Holds(requests'[m].payload, x)
    <3>1. PICK q \in Panes : q = At(at[n])
      BY <1>6
    <3>2. At(n)' = q /\ q # p
      BY <1>6, <1>9, <2>2, <3>1
    <3>3. Hurried(q, x)'
      BY <2>2, <3>2 DEF Hurried
    <3>4. ~Holds(disk, x) /\ \A m \in 1..Len(requests) : m <= at[n] => ~Holds(requests[m].payload, x)
      BY <1>6, <2>1, <2>2, <3>1, <3>2, <3>3 DEF Fresh
    <3>5. ASSUME NEW m \in 1..Len(requests'), m <= n
          PROVE  ~Holds(requests'[m].payload, x)
      <4>1. n >= m
        BY <3>5 DEF LogInv, LogTypes
      <4>2. at[n] >= at[m] /\ at[n] \in Int /\ at[m] \in Int
        BY <1>6, <4>1
      <4>3. at[m] <= at[n]
        BY <4>2
      <4> QED
        BY <1>6, <3>4, <4>3
    <3> QED
      BY <3>4, <3>5
  <2> QED
    BY <1>7, <2>2 DEF Fresh
<1>13. ErasedGone'
  <2>1. ASSUME NEW x \in erased \ revived
        PROVE  /\ ~Holds(disk, x) /\ ~Holds(list'[PaneOf[x]], x)
               /\ \A n \in 1..Len(requests') : At(n)' = PaneOf[x] => ~Holds(requests'[n].payload, x)
    <3>1. PaneOf[x] \in Panes
      BY <1>10 DEF LogInv, LogTypes
    <3> QED
      BY <1>6, <1>7, <1>8, <3>1 DEF ErasedGone
  <2> QED
    BY <1>7, <2>1 DEF ErasedGone
<1>14. CutGone'
  <2>1. ASSUME NEW u \in Ops, pc'[u] = "changed", NEW x \in Own(u)
        PROVE  ~Holds(list'[PaneOf[u]], x)
    BY <1>7, <1>10, <2>1 DEF CutGone
  <2> QED
    BY <1>7, <2>1 DEF CutGone, Own
<1>15. WrittenGone'
  <2>1. ASSUME NEW n \in 1..Len(requests'), Writes(n)', NEW x \in Own(requests'[n].op)
        PROVE  /\ ~Holds(list'[At(n)'], x)
               /\ \A m \in 1..Len(requests') : m >= n /\ At(m)' = At(n)' => ~Holds(requests'[m].payload, x)
    <3>1. Writes(at[n]) /\ x \in Own(requests[at[n]].op) /\ At(n)' = At(at[n]) /\ At(at[n]) \in Panes
      BY <1>6, <2>1
    <3>2. /\ ~Holds(list[At(at[n])], x)
          /\ \A m \in 1..Len(requests) : m >= at[n] /\ At(m) = At(at[n]) => ~Holds(requests[m].payload, x)
      BY <1>6, <3>1 DEF WrittenGone
    <3>3. ~Holds(list'[At(at[n])], x)
      BY <1>7, <1>8, <3>1, <3>2
    <3> QED
      BY <1>6, <3>1, <3>2, <3>3
  <2> QED
    BY <1>7, <2>1 DEF WrittenGone, Own
<1>16. removed' = removed /\ \A q \in Panes : Ready(q)' => q # p /\ Ready(q)
  <2>1. removed' = removed
    BY <1>7 DEF removed
  <2>2. ASSUME NEW q \in Panes, Ready(q)'
        PROVE  q # p /\ Ready(q)
    <3>1. loaded'[q] /\ \A n \in 1..Len(requests') : Reads(n)' => At(n)' # q
      BY <2>2, ReadyThenMeans DEF LogInv
    <3>2. q # p /\ loaded[q]
      BY <1>7, <3>1
    <3>3. ASSUME NEW j \in 1..Len(requests), Reads(j), At(j) = q
          PROVE  FALSE
      <4>1. PICK n \in 1..Len(requests') : at[n] = j
        BY <1>2, <1>4, <3>2, <3>3
      <4> QED
        BY <1>6, <3>1, <3>3, <4>1
    <3> QED
      BY <3>2, <3>3, ReadyMeans DEF LogInv
  <2> QED
    BY <2>1, <2>2
<1>17. ReturnedStays'
  <2>1. ASSUME NEW x \in made \ (removed \cup lost)
        PROVE  /\ Holds(disk, x)
               /\ Ready(PaneOf[x])' => Holds(list'[PaneOf[x]], x)
               /\ \A n \in 1..Len(requests') : Writes(n)' /\ At(n)' = PaneOf[x] => Holds(requests'[n].payload, x)
    <3>1. PICK q \in Panes : q = PaneOf[x]
      BY <1>10 DEF LogInv, LogTypes
    <3>2. Ready(q)' => Holds(list'[q], x)
      BY <1>7, <1>16, <2>1, <3>1 DEF ReturnedStays
    <3> QED
      BY <1>6, <2>1, <3>1, <3>2 DEF ReturnedStays
  <2> QED
    BY <1>7, <1>16, <2>1 DEF ReturnedStays
<1>18. PutStays'
  <2>1. ASSUME NEW u \in Ops \ (removed \cup lost), KindOf[u] \in {"append", "restore"}
        PROVE  /\ pc'[u] \in {"changed", "writing"} => Holds(list'[PaneOf[u]], u)
               /\ \A n \in 1..Len(requests') :
                     Writes(n)' /\ requests'[n].op = u /\ pc'[u] = "writing" =>
                        \A m \in 1..Len(requests') : m >= n /\ Writes(m)' /\ At(m)' = At(n)' =>
                           Holds(requests'[m].payload, u)
    <3>1. pc'[u] \in {"changed", "writing"} => Holds(list'[PaneOf[u]], u)
      BY <1>7, <1>10, <2>1 DEF PutStays
    <3>2. ASSUME NEW n \in 1..Len(requests'), Writes(n)', requests'[n].op = u, pc'[u] = "writing",
                 NEW m \in 1..Len(requests'), m >= n, Writes(m)', At(m)' = At(n)'
          PROVE  Holds(requests'[m].payload, u)
      <4>1. /\ Writes(at[n]) /\ requests[at[n]].op = u /\ pc[u] = "writing"
            /\ Writes(at[m]) /\ At(at[m]) = At(at[n]) /\ at[m] >= at[n]
        BY <1>6, <1>10, <3>2
      <4>2. Holds(requests[at[m]].payload, u)
        BY <1>6, <2>1, <4>1 DEF PutStays
      <4> QED
        BY <1>6, <4>2
    <3> QED
      BY <3>1, <3>2
  <2> QED
    BY <1>7, <1>16, <2>1 DEF PutStays
<1> QED
  BY <1>11, <1>12, <1>13, <1>14, <1>15, <1>17, <1>18

\* What a call does keeps KeptInv.
LEMMA OpStepsKeepKept ==
    ASSUME RecoveryAssumption, LogInv, LogInv', KeptInv,
           NEW o \in Ops, Begin(o) \/ OpStep(o)
    PROVE  KeptInv'
<1> DEFINE p == PaneOf[o]
<1>1. p \in Panes /\ list[p] \in Seq(Snapshots) /\ Proper(list[p])
  BY DEF LogInv, LogTypes, Lists, RecoveryAssumption, Snapshots
<1> HIDE DEF p
<1>2. ASSUME pc[o] \in {"loaded", "found"}, Ends(o)
      PROVE  KeptInv'
  <2> DEFINE x == IF KindOf[o] = "list" THEN "idle" ELSE "done"
  <2>1. x \in {"idle", "loaded", "found", "done"} /\ x \notin {"loaded", "found"}
    OBVIOUS
  <2>2. pc' = [pc EXCEPT ![o] = x] /\ UNCHANGED <<logVars, disk, requests, restarts, ghosts>>
    BY <1>2 DEF Ends
  <2> HIDE DEF x
  <2> QED
    BY <1>2, <2>1, <2>2, MovesKeep
<1>3. ASSUME pc[o] \in {"loaded", "found"}, KindOf[o] # "list", AppendSnapshot(o)
      PROVE  KeptInv'
  <2>1. ~Holds(list[p], o)
    BY <1>1, <1>3 DEF LogInv, Unknown, Put
  <2> DEFINE s == Limited(<<o>> \o list[p])
  <2>2. s \in Seq(Snapshots) /\ Holds(s, o) /\ \A y : Holds(s, y) => y = o \/ Holds(list[p], y)
    BY <1>1, <2>1, LimitedHolds
  <2>3. ListBecomes(o, s)
    BY <1>3 DEF AppendSnapshot, p
  <2> HIDE DEF s
  <2> QED
    BY <1>3, <2>2, <2>3, ChangesKeep DEF p
<1>4. ASSUME NEW T, pc[o] = "loaded", KindOf[o] \in {"delete", "clear"},
             ListBecomes(o, Without(list[p], T))
      PROVE  KeptInv'
  <2> DEFINE s == Without(list[p], T)
  <2>1. s \in Seq(Snapshots) /\ \A y : Holds(s, y) => Holds(list[p], y)
    BY <1>1, WithoutHolds
  <2>2. ListBecomes(o, s)
    BY <1>4
  <2> HIDE DEF s
  <2> QED
    BY <1>4, <2>1, <2>2, ChangesKeep DEF p
<1>5. CASE Begin(o)
  <2>0. pc[o] = "idle"
    BY <1>5 DEF Begin
  <2>1. CASE loaded[p]
    <3> DEFINE x == "loaded"
    <3>1. pc' = [pc EXCEPT ![o] = x] /\ UNCHANGED <<logVars, disk, requests, restarts, ghosts>>
      BY <1>5, <2>1 DEF Begin, p, logVars
    <3>2. x \in {"idle", "loaded", "found", "done"} /\ loaded[PaneOf[o]]
      BY <2>1 DEF p
    <3> HIDE DEF x
    <3> QED
      BY <2>0, <3>1, <3>2, MovesKeep
  <2>2. CASE ~loaded[p]
    <3>1. /\ requests' = Append(requests, Read(o)) /\ pc' = [pc EXCEPT ![o] = "loading"]
          /\ loaded' = [loaded EXCEPT ![p] = TRUE]
          /\ UNCHANGED <<list, disk, restarts, ghosts>>
      BY <1>5, <2>2 DEF Begin, p
    <3> QED
      BY <2>0, <2>2, <3>1, ReadKeeps DEF p
  <2> QED
    BY <2>1, <2>2
<1>6. CASE AppendOp(o)
  BY <1>2, <1>3, <1>6 DEF AppendOp
<1>7. CASE Delete(o)
  BY <1>2, <1>4, <1>7 DEF Delete, p
<1>8. CASE Clear(o)
  BY <1>2, <1>4, <1>8 DEF Clear, p
<1>9. CASE RestoreFinds(o)
  <2>1. CASE Ends(o)
    BY <1>2, <1>9, <2>1 DEF RestoreFinds
  <2>2. CASE ~Ends(o)
    <3> DEFINE x == "found"
    <3>1. pc' = [pc EXCEPT ![o] = x] /\ UNCHANGED <<logVars, disk, requests, restarts, ghosts>>
      BY <1>9, <2>2 DEF RestoreFinds
    <3>2. pc[o] = "loaded" /\ loaded[PaneOf[o]]
      BY <1>9 DEF RestoreFinds, KeptInv, Loading, Live
    <3>3. x \in {"idle", "loaded", "found", "done"}
      OBVIOUS
    <3> HIDE DEF x
    <3> QED
      BY <3>1, <3>2, <3>3, MovesKeep
  <2> QED
    BY <2>1, <2>2
<1>10. CASE RestoreApplies(o)
  <2>1. KindOf[o] # "list" /\ pc[o] = "found"
    BY <1>10 DEF RestoreApplies, LogInv, OnlyLists
  <2> QED
    BY <1>2, <1>3, <1>10, <2>1 DEF RestoreApplies
<1>11. CASE ListOp(o)
  BY <1>2, <1>11 DEF ListOp
<1>12. CASE Persist(o)
  BY <1>12, PersistKeeps
<1> QED
  BY <1>5, <1>6, <1>7, <1>8, <1>9, <1>10, <1>11, <1>12 DEF OpStep

LEMMA KeptStutters ==
    ASSUME KeptInv, UNCHANGED vars
    PROVE  KeptInv'
<1> USE DEF vars, logVars, ghosts
<1>1. \A n : (Reads(n)' <=> Reads(n)) /\ (Writes(n)' <=> Writes(n)) /\ At(n)' = At(n)
  BY DEF Reads, Writes, At
<1>2. removed' = removed /\ \A q : Ready(q)' <=> Ready(q)
  BY DEF removed, Ready
<1>3. Loading'
  BY <1>1 DEF KeptInv, Loading, Live
<1>4. Fresh'
  <2>1. \A q, y : Hurried(q, y)' <=> Hurried(q, y)
    BY DEF Hurried
  <2> QED
    BY <1>1, <2>1 DEF KeptInv, Fresh
<1>5. ErasedGone' /\ CutGone' /\ WrittenGone'
  BY <1>1 DEF KeptInv, ErasedGone, CutGone, WrittenGone, Own
<1>6. ReturnedStays' /\ PutStays'
  BY <1>1, <1>2 DEF KeptInv, ReturnedStays, PutStays
<1> QED
  BY <1>3, <1>4, <1>5, <1>6 DEF KeptInv

\* KeptInv, however many panes call the log, before or after they have read it.
THEOREM KeptInvariant == Spec => []KeptInv
<1>1. Init => KeptInv
  BY KeptInit, RecoveryAssumption
<1>2. LogInv /\ LogInv' /\ KeptInv /\ [Next]_vars => KeptInv'
  <2> SUFFICES ASSUME LogInv, LogInv', KeptInv, [Next]_vars
               PROVE  KeptInv'
    OBVIOUS
  <2>1. ASSUME NEW o \in Ops, Begin(o) \/ OpStep(o)
        PROVE  KeptInv'
    BY <2>1, RecoveryAssumption, OpStepsKeepKept
  <2>2. CASE ServeRead
    BY <2>2, RecoveryAssumption, ReadServedKeeps
  <2>3. CASE ServeWrite
    BY <2>3, RecoveryAssumption, WriteServedKeeps
  <2>4. ASSUME NEW p \in Panes, Restart(p)
        PROVE  KeptInv'
    BY <2>4, RecoveryAssumption, RestartKeeps
  <2>5. CASE UNCHANGED vars
    BY <2>5, KeptStutters
  <2> QED
    BY <2>1, <2>2, <2>3, <2>4, <2>5 DEF Next
<1> QED
  BY <1>1, <1>2, LogInvariant, PTL DEF Spec

\* A snapshot that was deleted, cleared or dropped at the limit in its own pane,
\* and has left the store, does not come back, whatever fails, whichever pane is
\* reloaded and whether the list had been read, unless another pane, which had
\* read it, stores its own list (delete, clearForCurrentWorkbook,
\* appendSnapshot, persist).
THEOREM RemovedStaysRemoved == Spec => []NoResurrection
<1>1. KeptInv => NoResurrection
  BY DEF KeptInv, ErasedGone, Holds, NoResurrection
<1> QED
  BY <1>1, KeptInvariant, PTL

\* A snapshot that an operation has returned is in the store from then on,
\* until it is removed: reloading the pane at any moment finds it.  It is lost
\* only to a read or write that fails, to another pane's list, or to a call made
\* while its pane was still reading (appendSnapshot awaits persist).
THEOREM ReturnedIsStored == Spec => []Acknowledged
<1>1. KeptInv => Acknowledged
  BY DEF KeptInv, ReturnedStays, Holds, Acknowledged
<1> QED
  BY <1>1, KeptInvariant, PTL

\* Such a snapshot is also listed, whenever the pane has read its log, and so
\* can be restored (ensureLoaded, appendSnapshot, restore).
THEOREM ReturnedIsListed == Spec => []Kept
<1>1. KeptInv => Kept
  BY DEF KeptInv, ReturnedStays, Holds, Kept
<1> QED
  BY <1>1, KeptInvariant, PTL

-----------------------------------------------------------------------------
(***************************************************************************)
(* The log under the poll that clears the backups of a saved workbook.     *)
(***************************************************************************)

\* A poll has read the flag and has not cleared yet.
Decides(x) == pc[x] \in {"idle", "loading", "loaded"}

\* A change that is not saved makes its workbook dirty; one that a poll, having
\* read "clean", would clear the backup of came after the poll had read.
PollInv ==
    /\ \A p \in Panes : unsaved \cap Of(p) # {} => dirty[p]
    /\ \A x \in Polls :
          /\ Decides(x) /\ flag[x] = "clean" => unsaved \cap Of(PaneOf[x]) \subseteq late[x]
          /\ pc[x] \in {"loading", "loaded"} => flag[x] = "clean"
          /\ pc[x] # "found"

LEMMA BoundaryStepIsLogs ==
    ASSUME BoundaryAssumption, [BoundaryNext]_allVars
    PROVE  [Next]_vars
<1> USE DEF Next, OpStep
<1>1. ASSUME NEW o \in Ops, Calls(o) \/ Applies(o) \/ Goes(o)
      PROVE  Next
  BY <1>1 DEF Calls, Applies, Goes
<1>2. CASE Served
  BY <1>2 DEF Served
<1>3. ASSUME NEW p, Edit(p) \/ SaveWorkbook(p)
      PROVE  UNCHANGED vars
  BY <1>3 DEF Edit, SaveWorkbook
<1>4. ASSUME NEW x \in Polls, PollReads(x) \/ PollDecides(x)
      PROVE  Next \/ UNCHANGED vars
  <2>1. x \in Ops
    BY DEF BoundaryAssumption
  <2> QED
    BY <1>4, <2>1 DEF PollReads, PollDecides
<1>5. ASSUME NEW p \in Panes, Reload(p)
      PROVE  Next
  BY <1>5 DEF Reload
<1>6. CASE UNCHANGED allVars
  BY <1>6 DEF allVars
<1> QED
  BY <1>1, <1>2, <1>3, <1>4, <1>5, <1>6 DEF BoundaryNext

\* The monitor uses the log as any other caller does: what holds of the log
\* holds of it under the monitor (save-boundary-monitor.ts calls
\* clearForCurrentWorkbook and nothing else).
THEOREM MonitorUsesLog == BoundarySpec => Spec
<1>1. BoundaryInit => Init
  BY DEF BoundaryInit
<1>2. [BoundaryNext]_allVars => [Next]_vars
  BY BoundaryStepIsLogs, BoundaryAssumption
<1> QED
  BY <1>1, <1>2, PTL DEF BoundarySpec, Spec

PollTypes ==
    /\ flag \in [Polls -> {"none", "clean", "dirty"}]
    /\ late \in [Polls -> SUBSET Ops]
    /\ dirty \in [Panes -> BOOLEAN]

LEMMA PollsClear ==
    ASSUME BoundaryAssumption, RecoveryAssumption, NEW x \in Polls
    PROVE  x \in Ops /\ KindOf[x] = "clear" /\ PaneOf[x] \in Panes
BY DEF BoundaryAssumption, RecoveryAssumption, Snapshots

LEMMA PollInit ==
    ASSUME BoundaryAssumption, BoundaryInit
    PROVE  PollTypes /\ PollInv
<1>1. \A x \in Polls : pc[x] = "idle" /\ flag[x] = "none"
  BY DEF BoundaryInit, Init, BoundaryAssumption
<1>2. unsaved = {} /\ PollTypes
  BY DEF BoundaryInit, PollTypes
<1> QED
  BY <1>1, <1>2 DEF PollInv

LEMMA StepPollTypes ==
    ASSUME RecoveryAssumption, BoundaryAssumption, PollTypes, [BoundaryNext]_allVars
    PROVE  PollTypes'
<1> USE DEF PollTypes
<1>1. ASSUME NEW o \in Ops, Changes(o)
      PROVE  PollTypes'
  <2>1. flag' = flag /\ dirty' = [dirty EXCEPT ![PaneOf[o]] = TRUE]
    BY <1>1 DEF Changes
  <2>2. late' \in [Polls -> SUBSET Ops]
    BY <1>1 DEF Changes
  <2> QED
    BY <2>1, <2>2
<1>2. CASE UNCHANGED boundaryVars
  BY <1>2 DEF boundaryVars
<1>3. ASSUME NEW o \in Ops, Calls(o) \/ Applies(o) \/ Goes(o)
      PROVE  PollTypes'
  <2>1. Changes(o) \/ UNCHANGED boundaryVars
    BY <1>3 DEF Calls, Applies, Goes
  <2> QED
    BY <1>1, <1>2, <2>1
<1>4. CASE Served \/ UNCHANGED allVars
  BY <1>4 DEF Served, allVars, boundaryVars
<1>7. ASSUME NEW p, Edit(p) \/ SaveWorkbook(p)
      PROVE  PollTypes'
  <2>1. /\ flag' = flag
        /\ dirty' = [dirty EXCEPT ![p] = TRUE] \/ dirty' = [dirty EXCEPT ![p] = FALSE]
    BY <1>7 DEF Edit, SaveWorkbook
  <2>2. late' = late \/ late' = [x \in Polls |-> late[x] \ Of(p)]
    BY <1>7 DEF Edit, SaveWorkbook
  <2>3. late' \in [Polls -> SUBSET Ops]
    BY <2>2
  <2> QED
    BY <2>1, <2>3
<1>5. ASSUME NEW x \in Polls, PollReads(x) \/ PollDecides(x)
      PROVE  PollTypes'
  <2>1. CASE PollReads(x)
    BY <2>1 DEF PollReads
  <2>2. CASE PollDecides(x)
    BY <2>2 DEF PollDecides
  <2> QED
    BY <1>5, <2>1, <2>2
<1>6. ASSUME NEW p \in Panes, Reload(p)
      PROVE  PollTypes'
  BY <1>6 DEF Reload
<1> QED
  BY <1>3, <1>4, <1>5, <1>6, <1>7 DEF BoundaryNext

\* In the steps of the log in which no poll begins, a poll that has not cleared
\* yet is where it was, or has its list now.
After(x) == pc'[x] \in {"idle", "loading", "loaded", "found"} =>
               pc'[x] = pc[x] \/ (pc[x] = "loading" /\ pc'[x] = "loaded")

LEMMA PollsAfter ==
    ASSUME RecoveryAssumption, BoundaryAssumption, LogInv, NEW x \in Polls,
           \/ \E o \in Ops \ {x} : Begin(o)
           \/ \E o \in Ops : OpStep(o)
           \/ ServeRead \/ ServeWrite
           \/ \E p \in Panes : Restart(p)
    PROVE  After(x)
<1> USE DEF After
<1>1. x \in Ops /\ KindOf[x] = "clear" /\ pc \in [Ops -> Stages]
  BY PollsClear DEF LogInv, LogTypes
<1>2. CASE \E o \in Ops \ {x} : Begin(o)
  BY <1>1, <1>2 DEF Begin
<1>3. ASSUME NEW o \in Ops, OpStep(o)
      PROVE  After(x)
  <2>1. o = x \/ pc'[x] = pc[x]
    BY <1>1, <1>3 DEF OpStep, AppendOp, Delete, Clear, RestoreFinds, RestoreApplies, ListOp,
                      Persist, AppendSnapshot, ListBecomes, Ends
  <2>2. CASE o = x
    <3>1. pc'[x] \notin {"idle", "loading", "loaded", "found"}
      BY <1>1, <1>3, <2>2 DEF OpStep, AppendOp, Delete, Clear, RestoreFinds, RestoreApplies, ListOp,
                              Persist, AppendSnapshot, ListBecomes, Ends
    <3> QED
      BY <3>1
  <2> QED
    BY <2>1, <2>2
<1>4. CASE ServeRead \/ ServeWrite
  <2> DEFINE o == Head(requests).op
  <2>1. requests # <<>> /\ requests' = Tail(requests)
    BY <1>4 DEF ServeRead, ServeWrite
  <2>2. Head(requests) = requests[1] /\ 1 \in 1..Len(requests) /\ o \in Ops
    BY <2>1, FirstServed DEF LogInv, Requests
  <2>3. CASE ServeRead
    <3>1. pc[o] = "loading" /\ pc' = [pc EXCEPT ![o] = "loaded"]
      BY <2>2, <2>3 DEF ServeRead, LogInv, Waiting
    <3> HIDE DEF o
    <3> QED
      BY <1>1, <2>2, <3>1
  <2>4. CASE ServeWrite
    <3>1. pc' = [pc EXCEPT ![o] = "done"] \/ pc' = pc
      BY <2>4 DEF ServeWrite, Returns
    <3> HIDE DEF o
    <3> QED
      BY <1>1, <2>2, <3>1
  <2> QED
    BY <1>4, <2>3, <2>4
<1>5. ASSUME NEW p \in Panes, Restart(p)
      PROVE  After(x)
  BY <1>1, <1>5 DEF Restart
<1> QED
  BY <1>2, <1>3, <1>4, <1>5

LEMMA StepPoll ==
    ASSUME RecoveryAssumption, BoundaryAssumption, LogInv, PollTypes, PollInv, [BoundaryNext]_allVars
    PROVE  PollInv'
<1> USE DEF PollTypes, PollInv
<1>0. \A x \in Polls : x \in Ops /\ KindOf[x] = "clear" /\ PaneOf[x] \in Panes
  BY PollsClear
<1>1. ASSUME UNCHANGED boundaryVars, \A x \in Polls : After(x)
      PROVE  PollInv'
  BY <1>1 DEF boundaryVars, After, Decides
<1>2. ASSUME NEW o \in Ops, Changes(o), \A x \in Polls : After(x)
      PROVE  PollInv'
  <2>1. /\ dirty' = [dirty EXCEPT ![PaneOf[o]] = TRUE] /\ flag' = flag /\ unsaved' = unsaved \cup {o}
        /\ \A x \in Polls : UnderWay(x) => late'[x] = late[x] \cup ({o} \cap Of(PaneOf[x]))
    BY <1>2 DEF Changes
  <2>2. ASSUME NEW p \in Panes, unsaved' \cap Of(p) # {}
        PROVE  dirty'[p]
    <3>1. CASE PaneOf[o] = p
      BY <2>1, <3>1
    <3>2. CASE PaneOf[o] # p
      <4>1. unsaved \cap Of(p) # {}
        BY <2>1, <2>2, <3>2 DEF Of
      <4> QED
        BY <2>1, <3>2, <4>1
    <3> QED
      BY <3>1, <3>2
  <2>3. ASSUME NEW x \in Polls, Decides(x)', flag[x] = "clean"
        PROVE  unsaved' \cap Of(PaneOf[x]) \subseteq late'[x]
    <3>1. Decides(x)
      BY <1>2, <2>3 DEF After, Decides
    <3>2. UnderWay(x)
      BY <2>3, <3>1 DEF UnderWay, Decides
    <3>3. unsaved \cap Of(PaneOf[x]) \subseteq late[x]
      BY <2>3, <3>1
    <3> QED
      BY <2>1, <3>2, <3>3
  <2>4. \A x \in Polls : /\ pc'[x] \in {"loading", "loaded"} => flag'[x] = "clean"
                         /\ pc'[x] # "found"
    BY <1>2, <2>1 DEF After
  <2> QED
    BY <2>1, <2>2, <2>3, <2>4
<1>3. ASSUME NEW o \in Ops, Calls(o)
      PROVE  PollInv'
  <2>1. \A x \in Polls : After(x)
    BY <1>3, PollsAfter DEF Calls
  <2> QED
    BY <1>1, <1>2, <1>3, <2>1 DEF Calls
<1>4. ASSUME NEW o \in Ops, Applies(o)
      PROVE  PollInv'
  <2>1. \A x \in Polls : After(x)
    BY <1>4, PollsAfter DEF Applies, OpStep
  <2> QED
    BY <1>1, <1>2, <1>4, <2>1 DEF Applies
<1>5. ASSUME NEW o \in Ops, Goes(o)
      PROVE  PollInv'
  <2>1. \A x \in Polls : After(x)
    BY <1>5, PollsAfter DEF Goes, OpStep
  <2> QED
    BY <1>1, <1>5, <2>1 DEF Goes
<1>6. CASE Served
  <2>1. \A x \in Polls : After(x)
    BY <1>6, PollsAfter DEF Served
  <2> QED
    BY <1>1, <1>6, <2>1 DEF Served
<1>7. ASSUME NEW p \in Panes, Edit(p)
      PROVE  PollInv'
  BY <1>7 DEF Edit, vars, Decides
<1>8. ASSUME NEW p \in Panes, SaveWorkbook(p)
      PROVE  PollInv'
  <2>1. /\ unsaved' = unsaved \ Of(p) /\ dirty' = [dirty EXCEPT ![p] = FALSE]
        /\ \A x \in Polls : late'[x] = late[x] \ Of(p)
        /\ pc' = pc /\ flag' = flag
    BY <1>8 DEF SaveWorkbook, vars
  <2>2. \A q \in Panes : unsaved' \cap Of(q) # {} => dirty'[q]
    BY <2>1
  <2>3. ASSUME NEW x \in Polls, Decides(x), flag[x] = "clean"
        PROVE  unsaved' \cap Of(PaneOf[x]) \subseteq late'[x]
    BY <2>1, <2>3
  <2> QED
    BY <2>1, <2>2, <2>3 DEF Decides
<1>9. ASSUME NEW y \in Polls, PollReads(y)
      PROVE  PollInv'
  <2>1. /\ pc' = pc /\ unsaved' = unsaved /\ dirty' = dirty /\ late' = late
        /\ pc[y] = "idle"
        /\ flag'[y] = IF dirty[PaneOf[y]] THEN "dirty" ELSE "clean"
        /\ \A x \in Polls \ {y} : flag'[x] = flag[x]
    BY <1>9 DEF PollReads, vars
  <2>2. flag'[y] = "clean" => unsaved \cap Of(PaneOf[y]) = {}
    BY <1>0, <2>1
  <2>3. \A x \in Polls : /\ Decides(x) /\ flag'[x] = "clean" => unsaved \cap Of(PaneOf[x]) \subseteq late[x]
                         /\ pc[x] \in {"loading", "loaded"} => flag'[x] = "clean"
                         /\ pc[x] # "found"
    BY <2>1, <2>2
  <2> QED
    BY <2>1, <2>3 DEF Decides
<1>10. ASSUME NEW y \in Polls, PollDecides(y)
       PROVE  PollInv'
  <2>1. unsaved' = unsaved /\ dirty' = dirty /\ pc[y] = "idle"
    BY <1>10 DEF PollDecides
  <2>2. CASE Saved(y)
    <3>1. Begin(y) /\ flag' = flag /\ late' = late /\ flag[y] = "clean"
      BY <1>10, <2>2 DEF PollDecides, Saved
    <3>2. \A x \in Polls \ {y} : pc'[x] = pc[x]
      BY <1>0, <3>1 DEF Begin, LogInv, LogTypes
    <3>3. pc'[y] \in {"loading", "loaded"}
      BY <1>0, <3>1 DEF Begin, LogInv, LogTypes
    <3>4. Decides(y) /\ \A x \in Polls : Decides(x)' => Decides(x)
      BY <2>1, <3>2, <3>3 DEF Decides
    <3>5. \A x \in Polls : /\ Decides(x)' /\ flag[x] = "clean" => unsaved \cap Of(PaneOf[x]) \subseteq late[x]
                           /\ pc'[x] \in {"loading", "loaded"} => flag[x] = "clean"
                           /\ pc'[x] # "found"
      BY <3>1, <3>2, <3>3, <3>4
    <3> QED
      BY <2>1, <3>1, <3>5
  <2>3. CASE ~Saved(y)
    <3>1. /\ pc' = pc /\ flag'[y] = "none"
          /\ \A x \in Polls \ {y} : flag'[x] = flag[x] /\ late'[x] = late[x]
      BY <1>10, <2>3 DEF PollDecides, vars
    <3>2. \A x \in Polls : /\ Decides(x) /\ flag'[x] = "clean" => unsaved \cap Of(PaneOf[x]) \subseteq late'[x]
                           /\ pc[x] \in {"loading", "loaded"} => flag'[x] = "clean"
                           /\ pc[x] # "found"
      BY <2>1, <3>1
    <3> QED
      BY <2>1, <3>1, <3>2 DEF Decides
  <2> QED
    BY <2>2, <2>3
<1>11. ASSUME NEW p \in Panes, Reload(p)
       PROVE  PollInv'
  <2>1. unsaved' = unsaved /\ dirty' = dirty
        /\ \A x \in Polls : /\ flag'[x] = IF pc[x] = "idle" /\ PaneOf[x] = p THEN "none" ELSE flag[x]
                            /\ late'[x] = IF pc[x] = "idle" /\ PaneOf[x] = p THEN {} ELSE late[x]
    BY <1>11 DEF Reload
  <2>2. \A x \in Polls : \/ pc'[x] = pc[x] /\ (PaneOf[x] # p \/ pc[x] \in {"idle", "done"})
                         \/ pc'[x] = "dead"
    BY <1>0, <1>11 DEF Reload, Restart
  <2>3. \A x \in Polls : /\ Decides(x)' /\ flag'[x] = "clean" => unsaved \cap Of(PaneOf[x]) \subseteq late'[x]
                         /\ pc'[x] \in {"loading", "loaded"} => flag'[x] = "clean"
                         /\ pc'[x] # "found"
    BY <2>1, <2>2 DEF Decides
  <2> QED
    BY <2>1, <2>3
<1>12. CASE UNCHANGED allVars
  BY <1>12 DEF allVars, vars, boundaryVars, Decides
<1> QED
  BY <1>0, <1>3, <1>4, <1>5, <1>6, <1>7, <1>8, <1>9, <1>10, <1>11, <1>12 DEF BoundaryNext

\* A poll that has read the flag knows what was unsaved then (checkOnce).
THEOREM PollInvariant == BoundarySpec => [](PollTypes /\ PollInv)
<1>1. BoundaryInit => PollTypes /\ PollInv
  BY PollInit, BoundaryAssumption
<1>2. LogInv /\ PollTypes /\ PollInv /\ [BoundaryNext]_allVars => PollTypes' /\ PollInv'
  BY StepPollTypes, StepPoll, BoundaryAssumption, RecoveryAssumption
<1>3. BoundarySpec => []LogInv
  BY LogInvariant, MonitorUsesLog, PTL
<1> QED
  BY <1>1, <1>2, <1>3, PTL DEF BoundarySpec

\* A poll that clears takes no backup of a change that was waiting to be saved
\* when it read the flag, whatever is called, saved or edited while it is under
\* way, in whichever pane, and whether its log has been read before or the poll
\* is the first to do so (checkOnce, clearForCurrentWorkbook).
THEOREM PollsClearOnlySaved == BoundarySpec => ClearsOnlySaved
<1> DEFINE OnlyLate == \A x \in Polls : (cut'[x] \ cut[x]) \cap unsaved \subseteq late[x]
<1>1. LogInv /\ PollInv /\ [BoundaryNext]_allVars => [OnlyLate]_allVars
  <2> SUFFICES ASSUME LogInv, PollInv, [BoundaryNext]_allVars, NEW x \in Polls
               PROVE  (cut'[x] \ cut[x]) \cap unsaved \subseteq late[x]
    OBVIOUS
  <2>0. /\ x \in Ops /\ KindOf[x] = "clear" /\ PaneOf[x] \in Panes
        /\ cut \in [Ops -> SUBSET Snapshots]
    BY PollsClear, BoundaryAssumption, RecoveryAssumption DEF LogInv, LogTypes
  <2>1. CASE Clear(x)
    <3> DEFINE p == PaneOf[x]
               s == Without(list[p], Of(p))
    <3>1. pc[x] = "loaded" /\ (ListBecomes(x, s) \/ Ends(x))
      BY <2>1 DEF Clear
    <3>2. unsaved \cap Of(p) \subseteq late[x]
      BY <3>1 DEF PollInv, Decides
    <3>3. \A y : Holds(s, y) <=> Holds(list[p], y) /\ y \notin Of(p)
      <4>1. list[p] \in Seq(Snapshots) /\ Proper(list[p])
        BY <2>0 DEF LogInv, LogTypes, Lists
      <4> QED
        BY <4>1, RecoveryAssumption, WithoutHolds
    <3> HIDE DEF s
    <3>4. CASE ListBecomes(x, s)
      <4>1. cut'[x] = ToSet(list[p]) \ ToSet(s)
        BY <2>0, <3>4 DEF ListBecomes
      <4>2. cut'[x] \subseteq Of(p)
        BY <3>3, <4>1 DEF Holds
      <4> QED
        BY <3>2, <4>2
    <3>5. CASE Ends(x)
      BY <3>5 DEF Ends, ghosts
    <3> QED
      BY <3>1, <3>4, <3>5
  <2>2. CASE cut'[x] = cut[x]
    BY <2>2
  <2>3. [Next]_vars
    BY BoundaryStepIsLogs, BoundaryAssumption
  <2>4. ASSUME NEW o \in Ops, Begin(o) \/ OpStep(o)
        PROVE  cut'[x] = cut[x] \/ (o = x /\ Clear(x))
    <3>1. CASE o # x
      BY <2>0, <2>4, <3>1 DEF Begin, OpStep, AppendOp, Delete, Clear, RestoreFinds, RestoreApplies,
         ListOp, Persist, AppendSnapshot, ListBecomes, Ends, ghosts
    <3>2. CASE o = x
      <4>1. pc[x] # "found"
        BY DEF PollInv
      <4> QED
        BY <2>0, <2>4, <3>2, <4>1 DEF Begin, OpStep, AppendOp, Delete, Clear, RestoreFinds,
           RestoreApplies, ListOp, Persist, Ends, ghosts
    <3> QED
      BY <3>1, <3>2
  <2> QED
    <3>1. CASE ServeRead \/ ServeWrite \/ UNCHANGED vars \/ \E p \in Panes : Restart(p)
      BY <2>2, <3>1 DEF ServeRead, ServeWrite, Restart, vars, ghosts
    <3> QED
      BY <2>1, <2>2, <2>3, <2>4, <3>1 DEF Next
<1> QED
  BY <1>1, PollInvariant, LogInvariant, MonitorUsesLog, PTL DEF BoundarySpec, ClearsOnlySaved

===============================================================================
