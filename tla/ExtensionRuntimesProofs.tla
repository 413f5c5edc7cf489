----------------------- MODULE ExtensionRuntimesProofs -----------------------
(***************************************************************************)
(* What holds of ExtensionRuntimes for all sets of extensions, tools and   *)
(* calls of the manager.                                                   *)
(*                                                                         *)
(* The refresh (AgentsRunCurrentTools): a tool that differs from what the  *)
(* agents have, or will have when the present pass ends, is one for which  *)
(* another pass was asked, or of a load that will still ask for one        *)
(* (RefreshInv).  This needs nothing of the calls but that a load tears    *)
(* down tools of its own extension.                                        *)
(*                                                                         *)
(* The manager (SettledAsListed): while the calls on an extension have     *)
(* come one after the other, and none was left half done, each place of a  *)
(* call says all of the extension's state (Stage), and between two calls   *)
(* the extension is as its entry says (Rest).  An uninstall that waits     *)
(* needs in addition that its index is still that of its entry (ListInv).  *)
(***************************************************************************)
EXTENDS ExtensionRuntimes, SequenceTheorems, TLAPS

Places == {"idle", "saving", "clearing", "refreshing down", "torn", "erasing",
           "loading", "registered", "failing", "refreshing failed", "failed",
           "refreshing up", "up", "done"}
Loads == Calls \cup {None}

\* The types of the state.
Types ==
    /\ list \in Seq(Exts)
    /\ enabled \in [Exts -> BOOLEAN] /\ failed \in [Exts -> BOOLEAN]
    /\ active \in [Exts -> Loads]
    /\ owner \in [Tools -> Exts \cup {None}] /\ tool \in [Tools -> Loads]
    /\ command \in [Exts -> BOOLEAN]
    /\ names \in [Calls -> SUBSET Tools] /\ commands \subseteq Calls
    /\ pc \in [Calls -> Places]
    /\ victim \in [Calls -> Loads] /\ index \in [Calls -> Nat]
    /\ broke \in [Calls -> BOOLEAN] /\ second \in [Calls -> BOOLEAN]
    /\ refresh \in {"no", "reading", "applying", "over"}
    /\ rerun \in BOOLEAN /\ missed \in BOOLEAN
    /\ snapshot \in [Tools -> Loads] /\ offered \in [Tools -> Loads]
    /\ mixed \subseteq Exts /\ shaken \subseteq Exts

\* The places of a call before its activator runs.
Early == {"idle", "saving", "clearing", "refreshing down", "torn", "erasing", "loading"}

\* A load is held by its own extension and torn down by a call on it; it has
\* registered nothing before its activator ran.
OwnLoads ==
    /\ \A e \in Exts : active[e] # None => ExtOf[active[e]] = e
    /\ \A c \in Calls :
          /\ victim[c] # None => ExtOf[victim[c]] = ExtOf[c]
          /\ pc[c] = "clearing" => victim[c] # None
          /\ pc[c] \in Early => names[c] = {} /\ c \notin commands
          /\ pc[c] = "erasing" => KindOf[c] = "uninstall"
          /\ pc[c] \in {"idle", "saving"} => ~second[c]
          /\ second[c] => KindOf[c] \in {"reload", "permit"}

LoadInv == Types /\ OwnLoads

-----------------------------------------------------------------------------
\* Taking an entry out of a list.
LEMMA RemoveAtDrops ==
    ASSUME NEW S, NEW s \in Seq(S), NEW i \in 1..Len(s)
    PROVE  /\ RemoveAt(s, i) \in Seq(S)
           /\ Len(RemoveAt(s, i)) = Len(s) - 1
           /\ \A j \in 1..(Len(s) - 1) :
                 RemoveAt(s, i)[j] = IF j < i THEN s[j] ELSE s[j + 1]
<1> DEFINE a == SubSeq(s, 1, i - 1)
           b == SubSeq(s, i + 1, Len(s))
<1>1. /\ a \in Seq(S) /\ Len(a) = i - 1
      /\ \A j \in 1..(i - 1) : a[j] = s[j]
  BY SubSeqProperties
<1>2. /\ b \in Seq(S) /\ Len(b) = Len(s) - i
      /\ \A j \in 1..(Len(s) - i) : b[j] = s[i + j]
  BY SubSeqProperties
<1>3. RemoveAt(s, i) = a \o b
  BY DEF RemoveAt
<1> HIDE DEF a, b
<1>4. /\ a \o b \in Seq(S) /\ Len(a \o b) = Len(a) + Len(b)
      /\ \A j \in 1..(Len(a) + Len(b)) :
            (a \o b)[j] = IF j <= Len(a) THEN a[j] ELSE b[j - Len(a)]
  BY <1>1, <1>2, ConcatProperties
<1>5. Len(s) \in Nat /\ i \in Nat
  OBVIOUS
<1>6. Len(a \o b) = Len(s) - 1
  BY <1>1, <1>2, <1>4, <1>5
<1>7. \A j \in 1..(Len(s) - 1) : (a \o b)[j] = IF j < i THEN s[j] ELSE s[j + 1]
  <2> SUFFICES ASSUME NEW j \in 1..(Len(s) - 1)
               PROVE  (a \o b)[j] = IF j < i THEN s[j] ELSE s[j + 1]
    OBVIOUS
  <2>1. CASE j < i
    BY <1>1, <1>2, <1>4, <1>5, <2>1
  <2>2. CASE ~(j < i)
    <3>1. j - (i - 1) \in 1..(Len(s) - i) /\ i + (j - (i - 1)) = j + 1
      BY <1>5, <2>2
    <3>2. (a \o b)[j] = b[j - (i - 1)]
      BY <1>1, <1>2, <1>4, <1>5, <2>2
    <3> QED BY <3>1, <3>2, <1>2, <2>2
  <2> QED BY <2>1, <2>2
<1> QED BY <1>3, <1>4, <1>6, <1>7

\* The list after a splice.
Spliced(s, i) == IF i \in DOMAIN s THEN RemoveAt(s, i) ELSE s

LEMMA SplicedEntries ==
    ASSUME NEW S, NEW s \in Seq(S), NEW i, 
           \A j, k \in 1..Len(s) : s[j] = s[k] => j = k
    PROVE  /\ Spliced(s, i) \in Seq(S)
           /\ ToSet(Spliced(s, i)) \subseteq ToSet(s)
           /\ i \in DOMAIN s => ToSet(Spliced(s, i)) = ToSet(s) \ {s[i]}
           /\ \A j, k \in 1..Len(Spliced(s, i)) :
                 Spliced(s, i)[j] = Spliced(s, i)[k] => j = k
<1>1. CASE i \notin DOMAIN s
  BY <1>1 DEF Spliced
<1>2. CASE i \in DOMAIN s
  <2> DEFINE t == RemoveAt(s, i)
  <2>1. i \in 1..Len(s) /\ DOMAIN s = 1..Len(s) /\ Len(s) \in Nat
    BY <1>2
  <2>2. /\ t \in Seq(S) /\ Len(t) = Len(s) - 1
        /\ \A j \in 1..(Len(s) - 1) : t[j] = IF j < i THEN s[j] ELSE s[j + 1]
    BY <2>1, RemoveAtDrops
  <2>3. Spliced(s, i) = t
    BY <1>2 DEF Spliced
  <2> HIDE DEF t
  <2>4. \A j, k \in 1..Len(t) : t[j] = t[k] => j = k
    BY <2>1, <2>2
  <2>5. DOMAIN t = 1..Len(t)
    BY <2>2
  <2>6. ASSUME NEW x \in ToSet(t) PROVE x \in ToSet(s) \ {s[i]}
    <3>1. PICK j \in 1..Len(t) : x = t[j]
      BY <2>5 DEF ToSet
    <3>2. \E k \in 1..Len(s) : k # i /\ x = s[k]
      BY <2>1, <2>2, <3>1
    <3> QED BY <3>2, <2>1 DEF ToSet
  <2>7. ASSUME NEW x \in ToSet(s) \ {s[i]} PROVE x \in ToSet(t)
    <3>1. PICK k \in 1..Len(s) : x = s[k]
      BY <2>1 DEF ToSet
    <3>2. k # i
      BY <3>1
    <3>3. \E j \in 1..Len(t) : t[j] = x
      <4>1. CASE k < i
        <5>1. k \in 1..Len(t) /\ t[k] = s[k]
          BY <4>1, <2>1, <2>2
        <5> QED BY <5>1, <3>1
      <4>2. CASE k > i
        <5>1. k - 1 \in 1..Len(t) /\ t[k - 1] = s[k]
          BY <4>2, <2>1, <2>2
        <5> QED BY <5>1, <3>1
      <4> QED BY <4>1, <4>2, <3>2, <2>1
    <3> QED BY <3>3, <2>5 DEF ToSet
  <2> QED BY <2>2, <2>3, <2>4, <2>6, <2>7
<1> QED BY <1>1, <1>2

-----------------------------------------------------------------------------
\* LoadInv.

\* Calls are not None.
LEMMA NoneIsNoCall == None \notin Calls /\ None \notin Exts
BY ExtensionAssumption

LEMMA InitLoadInv == Init => LoadInv
<1> SUFFICES ASSUME Init PROVE LoadInv
  OBVIOUS
<1>1. Types
  <2>1. list \in Seq(Exts) /\ refresh = "no" /\ rerun = FALSE /\ missed = FALSE
        /\ mixed = {} /\ shaken = {} /\ commands = {}
    BY ExtensionAssumption DEF Init
  <2>2. /\ enabled \in [Exts -> BOOLEAN] /\ failed \in [Exts -> BOOLEAN]
        /\ active \in [Exts -> Loads] /\ command \in [Exts -> BOOLEAN]
    BY DEF Init, Loads
  <2>3. /\ owner \in [Tools -> Exts \cup {None}] /\ tool \in [Tools -> Loads]
        /\ snapshot \in [Tools -> Loads] /\ offered \in [Tools -> Loads]
    BY DEF Init, Loads
  <2>4. /\ names \in [Calls -> SUBSET Tools] /\ pc \in [Calls -> Places]
        /\ victim \in [Calls -> Loads] /\ index \in [Calls -> Nat]
        /\ broke \in [Calls -> BOOLEAN] /\ second \in [Calls -> BOOLEAN]
    BY DEF Init, Loads, Places
  <2> QED BY <2>1, <2>2, <2>3, <2>4 DEF Types
<1>2. OwnLoads
  BY NoneIsNoCall DEF Init, OwnLoads, Early
<1> QED BY <1>1, <1>2 DEF LoadInv

\* A call of the refresh keeps its types.
LEMMA AskTypes ==
    ASSUME Types, AskRefresh
    PROVE  /\ refresh' \in {"no", "reading", "applying", "over"}
           /\ rerun' \in BOOLEAN /\ missed' \in BOOLEAN
           /\ snapshot' = snapshot /\ offered' = offered
BY DEF Types, AskRefresh

\* A teardown or a failed load: what it does, for a load of the extension.
LEMMA CleanUpDoes ==
    ASSUME Types, NEW c \in Calls, NEW l \in Calls,
           NEW r \in Places, NEW over \in Places, CleanUp(c, l, r, over)
    PROVE  /\ command' \in [Exts -> BOOLEAN] /\ commands' = commands \ {l}
           /\ owner' \in [Tools -> Exts \cup {None}] /\ tool' \in [Tools -> Loads]
           /\ names' \in [Calls -> SUBSET Tools] /\ pc' \in [Calls -> Places]
           /\ refresh' \in {"no", "reading", "applying", "over"}
           /\ rerun' \in BOOLEAN /\ missed' \in BOOLEAN
           /\ snapshot' = snapshot /\ offered' = offered
           /\ pc' = [pc EXCEPT ![c] = r] \/ pc' = [pc EXCEPT ![c] = over]
           /\ names' = [names EXCEPT ![l] = {}]
           /\ \A e \in Exts : command'[e] = IF e = ExtOf[c]
                                           THEN command[e] /\ l \notin commands
                                           ELSE command[e]
           /\ \A n \in Tools :
                 IF n \in names[l] /\ owner[n] = ExtOf[c]
                 THEN owner'[n] = None /\ tool'[n] = None
                 ELSE owner'[n] = owner[n] /\ tool'[n] = tool[n]
           /\ \/ AskRefresh /\ pc' = [pc EXCEPT ![c] = r]
              \/ /\ UNCHANGED refreshing
                 /\ \A n \in Tools : ~(n \in names[l] /\ owner[n] = ExtOf[c])
<1>1. ExtOf[c] \in Exts /\ None \in Loads
  BY ExtensionAssumption DEF Loads
<1> DEFINE removed == {n \in names[l] : owner[n] = ExtOf[c]}
<1>2. /\ command' = [command EXCEPT ![ExtOf[c]] = command[ExtOf[c]] /\ l \notin commands]
      /\ commands' = commands \ {l}
      /\ owner' = [n \in Tools |-> IF n \in removed THEN None ELSE owner[n]]
      /\ tool' = [n \in Tools |-> IF n \in removed THEN None ELSE tool[n]]
      /\ names' = [names EXCEPT ![l] = {}]
      /\ IF removed = {}
         THEN pc' = [pc EXCEPT ![c] = over] /\ UNCHANGED refreshing
         ELSE pc' = [pc EXCEPT ![c] = r] /\ AskRefresh
  BY DEF CleanUp
<1>3. \A n \in Tools : n \in removed <=> n \in names[l] /\ owner[n] = ExtOf[c]
  OBVIOUS
<1>4. removed = {} => \A n \in Tools : ~(n \in names[l] /\ owner[n] = ExtOf[c])
  OBVIOUS
<1> HIDE DEF removed
<1>5. /\ command' \in [Exts -> BOOLEAN]
      /\ \A e \in Exts : command'[e] = IF e = ExtOf[c]
                                      THEN command[e] /\ l \notin commands
                                      ELSE command[e]
  BY <1>1, <1>2 DEF Types
<1>6. /\ owner' \in [Tools -> Exts \cup {None}] /\ tool' \in [Tools -> Loads]
      /\ \A n \in Tools :
            IF n \in names[l] /\ owner[n] = ExtOf[c]
            THEN owner'[n] = None /\ tool'[n] = None
            ELSE owner'[n] = owner[n] /\ tool'[n] = tool[n]
  BY <1>1, <1>2, <1>3 DEF Types
<1>7. names' \in [Calls -> SUBSET Tools] /\ pc' \in [Calls -> Places]
  BY <1>2 DEF Types
<1>8. /\ refresh' \in {"no", "reading", "applying", "over"}
      /\ rerun' \in BOOLEAN /\ missed' \in BOOLEAN
      /\ snapshot' = snapshot /\ offered' = offered
  BY <1>2, AskTypes DEF Types, refreshing
<1> QED BY <1>2, <1>4, <1>5, <1>6, <1>7, <1>8

\* The beginning of a call keeps the types.
LEMMA BeginTypes ==
    ASSUME Types, NEW c \in Calls, Begin(c)
    PROVE  Types'
<1>1. ExtOf[c] \in Exts /\ active[ExtOf[c]] \in Loads
  BY ExtensionAssumption DEF Types
<1>2. list' \in Seq(Exts) /\ enabled' \in [Exts -> BOOLEAN]
  <2>1. list' = list \/ list' = Append(list, ExtOf[c])
    BY DEF Begin, Install, SetEnabled, Permit, Reload, Uninstall
  <2>2. enabled' = enabled \/ \E b \in BOOLEAN : enabled' = [enabled EXCEPT ![ExtOf[c]] = b]
    BY DEF Begin, Install, SetEnabled, Permit, Reload, Uninstall
  <2>3. Append(list, ExtOf[c]) \in Seq(Exts) /\ list \in Seq(Exts)
    BY <1>1 DEF Types
  <2>4. list' \in Seq(Exts)
    BY <2>1, <2>3
  <2>5. enabled' \in [Exts -> BOOLEAN]
    BY <2>2 DEF Types
  <2> QED BY <2>4, <2>5
<1>3. /\ active' \in [Exts -> Loads] /\ victim' \in [Calls -> Loads]
      /\ pc' \in [Calls -> Places]
  <2>1. GoDown(c) \/ \E p \in {"saving", "done"} : Goto(c, p)
    BY DEF Begin, Install, SetEnabled, Permit, Reload, Uninstall
  <2> QED BY <1>1, <2>1 DEF Types, GoDown, Goto, Loads, Places
<1>4. mixed' \subseteq Exts
  BY <1>1 DEF Types, Begin, Overlaps
<1>5. index' \in [Calls -> Nat]
  <2>1. CASE Uninstall(c) /\ Listed(ExtOf[c])
    <3> DEFINE i == CHOOSE i \in DOMAIN list : list[i] = ExtOf[c]
    <3>1. index' = [index EXCEPT ![c] = i]
      BY <2>1 DEF Uninstall
    <3>2. i \in DOMAIN list
      BY <2>1 DEF Listed, ToSet
    <3>3. i \in Nat
      BY <3>2 DEF Types
    <3> HIDE DEF i
    <3> QED BY <3>1, <3>3 DEF Types
  <2>2. CASE ~(Uninstall(c) /\ Listed(ExtOf[c]))
    <3>1. index' = index
      BY <2>2 DEF Begin, Install, SetEnabled, Permit, Reload, Uninstall
    <3> QED BY <3>1 DEF Types
  <2> QED BY <2>1, <2>2
<1> QED BY <1>2, <1>3, <1>4, <1>5 DEF Types, Begin, tools, refreshing

\* The other steps of a call do.
LEMMA CallTypes ==
    ASSUME LoadInv, NEW c \in Calls, CallStep(c)
    PROVE  Types'
<1> USE DEF LoadInv
<1>1. /\ ExtOf[c] \in Exts /\ ToolOf[ExtOf[c]] \in Tools
      /\ active[ExtOf[c]] \in Loads /\ None \in Loads /\ c \in Loads
  BY ExtensionAssumption DEF Types, Loads
<1>2. CASE Begin(c)
  BY <1>2, BeginTypes
<1>3. CASE Saved(c) \/ SaveFails(c) \/ Torn(c) \/ TeardownThrew(c)
  <2>1. GoDown(c) \/ \E p \in {"done", "erasing", "loading"} : Goto(c, p)
    BY <1>3 DEF Saved, SaveFails, Torn, TeardownThrew
  <2>2. /\ active' \in [Exts -> Loads] /\ victim' \in [Calls -> Loads]
        /\ pc' \in [Calls -> Places]
    BY <1>1, <2>1 DEF Types, GoDown, Goto, Places, Loads
  <2>3. /\ failed' \in [Exts -> BOOLEAN] /\ second' \in [Calls -> BOOLEAN]
        /\ broke' \in [Calls -> BOOLEAN] /\ shaken' \subseteq Exts
        /\ mixed' \subseteq Exts /\ UNCHANGED <<list, enabled, tools, index, refreshing>>
    <3>1. CASE Saved(c)
      BY <1>1, <3>1 DEF Types, Saved, ghosts, registry
    <3>2. CASE SaveFails(c)
      BY <1>1, <3>2 DEF Types, SaveFails, registry
    <3>3. CASE Torn(c)
      BY <1>1, <3>3 DEF Types, Torn, ghosts, registry
    <3>4. CASE TeardownThrew(c)
      BY <1>1, <3>4 DEF Types, TeardownThrew
    <3> QED BY <1>3, <3>1, <3>2, <3>3, <3>4
  <2> QED BY <2>2, <2>3 DEF Types, tools, refreshing
<1>4. CASE Cleared(c) \/ CleanFailure(c)
  <2>1. PICK l \in Calls, r \in Places, over \in Places : CleanUp(c, l, r, over)
    BY <1>4, NoneIsNoCall DEF Cleared, CleanFailure, OwnLoads, Types, Places, Loads
  <2>2. /\ UNCHANGED <<registry, active, second, index, ghosts>>
        /\ broke' \in [Calls -> BOOLEAN]
        /\ victim' \in [Calls -> Loads]
    BY <1>1, <1>4 DEF Types, Cleared, CleanFailure, steps
  <2> QED BY <2>1, <2>2, CleanUpDoes DEF Types, registry, ghosts
<1>5. CASE Register(c)
  <2>1. /\ UNCHANGED <<registry, active, steps, refreshing, ghosts>>
        /\ commands' \subseteq Calls
        /\ command' \in [Exts -> BOOLEAN]
        /\ pc' \in [Calls -> Places]
    BY <1>1, <1>5 DEF Types, Register, Places
  <2>2. /\ owner' \in [Tools -> Exts \cup {None}]
        /\ tool' \in [Tools -> Loads]
        /\ names' \in [Calls -> SUBSET Tools]
    <3>1. \/ UNCHANGED <<owner, tool, names>>
          \/ \E n \in Tools : /\ owner' = [owner EXCEPT ![n] = ExtOf[c]]
                              /\ tool' = [tool EXCEPT ![n] = c]
                              /\ names' = [names EXCEPT ![c] = {n}]
      BY <1>1, <1>5 DEF Register
    <3>2. CASE UNCHANGED <<owner, tool, names>>
      BY <3>2 DEF Types
    <3>3. ASSUME NEW n \in Tools,
                 owner' = [owner EXCEPT ![n] = ExtOf[c]],
                 tool' = [tool EXCEPT ![n] = c],
                 names' = [names EXCEPT ![c] = {n}]
          PROVE  /\ owner' \in [Tools -> Exts \cup {None}]
                 /\ tool' \in [Tools -> Loads]
                 /\ names' \in [Calls -> SUBSET Tools]
      <4>1. {n} \in SUBSET Tools
        OBVIOUS
      <4> HIDE DEF Loads
      <4> QED BY <1>1, <3>3, <4>1 DEF Types
    <3> QED BY <3>1, <3>2, <3>3
  <2> QED BY <2>1, <2>2 DEF Types, registry, steps, refreshing, ghosts
<1>6. CASE LoadFails(c) \/ Tried(c) \/ EraseFails(c)
  BY <1>1, <1>6 DEF Types, LoadFails, Tried, EraseFails,
     registry, tools, steps, refreshing, ghosts, Places
<1>7. CASE Activate(c)
  BY <1>1, <1>7, AskTypes DEF Types, Activate, registry, tools, steps, ghosts, Places
<1>8. CASE Erased(c)
  <2>1. list' \in Seq(Exts)
    <3>1. index[c] \in DOMAIN list => index[c] \in 1..Len(list)
      BY DEF Types
    <3> QED BY <1>8, <3>1, RemoveAtDrops DEF Erased, Types
  <2> QED BY <1>1, <1>8, <2>1 DEF Types, Erased, tools, steps, refreshing, ghosts, Places
<1> QED BY <1>2, <1>3, <1>4, <1>5, <1>6, <1>7, <1>8 DEF CallStep

\* A step of the refresh keeps LoadInv.
LEMMA PassLoadInv ==
    ASSUME LoadInv, PassReads \/ PassApplies \/ RefreshEnds \/ UNCHANGED vars
    PROVE  LoadInv'
<1> USE DEF LoadInv
<1>1. CASE PassReads \/ PassApplies \/ UNCHANGED vars
  <2>1. /\ UNCHANGED <<registry, active, tools, pc, steps, ghosts>>
        /\ refresh' \in {"no", "reading", "applying", "over"}
        /\ rerun' \in BOOLEAN /\ missed' \in BOOLEAN
        /\ snapshot' \in [Tools -> Loads] /\ offered' \in [Tools -> Loads]
    BY <1>1 DEF PassReads, PassApplies, vars, refreshing, Types
  <2>2. Types'
    BY <2>1 DEF Types, registry, tools, steps, ghosts
  <2>3. OwnLoads'
    BY <2>1 DEF OwnLoads, registry, tools, steps, ghosts
  <2> QED BY <2>2, <2>3
<1>2. CASE RefreshEnds
  <2>1. UNCHANGED <<registry, active, tools, steps, rerun, snapshot, offered, missed, ghosts>>
    BY <1>2 DEF RefreshEnds
  <2>2. \A c \in Calls : /\ pc'[c] \in Places
                         /\ pc'[c] = pc[c] \/ <<pc[c], pc'[c]>> \in
                              {<<"refreshing down", "torn">>, <<"refreshing up", "up">>,
                               <<"refreshing failed", "failed">>}
    BY <1>2 DEF RefreshEnds, Types, Places
  <2>3. Types'
    <3>1. pc' \in [Calls -> Places]
      BY <1>2, <2>2 DEF RefreshEnds
    <3> QED BY <1>2, <2>1, <3>1 DEF Types, RefreshEnds, registry, tools, steps, ghosts
  <2>4. OwnLoads'
    BY <2>1, <2>2 DEF OwnLoads, Early, registry, tools, steps, ghosts
  <2> QED BY <2>3, <2>4
<1> QED BY <1>1, <1>2

\* A call step moves the call to a place of its own.
LEMMA OwnPlace ==
    ASSUME Types, NEW c \in Calls, CallStep(c)
    PROVE  \E p \in Places : pc' = [pc EXCEPT ![c] = p]
<1>1. CASE Begin(c)
  <2>1. GoDown(c) \/ \E p \in {"saving", "done"} : Goto(c, p)
    BY <1>1 DEF Begin, Install, SetEnabled, Permit, Reload, Uninstall
  <2> QED BY <2>1 DEF GoDown, Goto, Places
<1>2. CASE Saved(c) \/ SaveFails(c) \/ Torn(c) \/ TeardownThrew(c)
  <2>1. GoDown(c) \/ \E p \in {"done", "erasing", "loading"} : Goto(c, p)
    BY <1>2 DEF Saved, SaveFails, Torn, TeardownThrew
  <2> QED BY <2>1 DEF GoDown, Goto, Places
<1>3. CASE Cleared(c)
  BY <1>3 DEF Cleared, CleanUp, Places
<1>4. CASE CleanFailure(c)
  BY <1>4 DEF CleanFailure, CleanUp, Places
<1>5. CASE Register(c) \/ LoadFails(c) \/ Tried(c) \/ EraseFails(c)
           \/ Activate(c) \/ Erased(c)
  BY <1>5 DEF Register, LoadFails, Tried, EraseFails, Activate, Erased, Places
<1> QED BY <1>1, <1>2, <1>3, <1>4, <1>5 DEF CallStep

\* What a teardown's first part leaves.
LEMMA GoDownDoes ==
    ASSUME Types, NEW c \in Calls, GoDown(c)
    PROVE  /\ active' = [active EXCEPT ![ExtOf[c]] = None]
           /\ \A d \in Calls : victim'[d] = IF d = c THEN active[ExtOf[c]] ELSE victim[d]
           /\ \A d \in Calls \ {c} : pc'[d] = pc[d]
           /\ active[ExtOf[c]] = None => pc'[c] = "torn"
           /\ active[ExtOf[c]] # None => pc'[c] = "clearing"
BY DEF GoDown, Types

\* The steps that only move a call, or begin a teardown.
LEMMA MovesOwnLoads ==
    ASSUME LoadInv, NEW c \in Calls,
           \/ GoDown(c)
           \/ \E p \in {"saving", "done", "erasing", "loading"} :
                 /\ Goto(c, p)
                 /\ p = "saving" => pc[c] = "idle"
                 /\ p = "erasing" => KindOf[c] = "uninstall",
           pc[c] \in Early,
           UNCHANGED tools,
           \/ second' = second
           \/ /\ second' = [second EXCEPT ![c] = TRUE]
              /\ KindOf[c] \in {"reload", "permit"} /\ GoDown(c)
    PROVE  OwnLoads'
<1> USE DEF LoadInv
<1>1. /\ \A e \in Exts : active'[e] # None => active'[e] = active[e]
      /\ \A d \in Calls \ {c} : victim'[d] = victim[d] /\ pc'[d] = pc[d]
      /\ victim'[c] = victim[c] \/ victim'[c] = active[ExtOf[c]]
      /\ pc'[c] \in {"torn", "clearing", "saving", "done", "erasing", "loading"}
      /\ pc'[c] = "clearing" => victim'[c] # None
      /\ pc'[c] = "saving" => pc[c] = "idle" /\ second' = second
      /\ pc'[c] = "erasing" => KindOf[c] = "uninstall"
  <2>1. CASE GoDown(c)
    BY <2>1, GoDownDoes DEF Types
  <2>2. CASE ~GoDown(c)
    <3>1. PICK p \in {"saving", "done", "erasing", "loading"} :
             /\ Goto(c, p)
             /\ p = "saving" => pc[c] = "idle"
             /\ p = "erasing" => KindOf[c] = "uninstall"
      BY <2>2
    <3> QED BY <2>2, <3>1 DEF Goto, Types
  <2> QED BY <2>1, <2>2
<1>2. /\ \A d \in Calls \ {c} : second'[d] = second[d]
      /\ second'[c] = second[c] \/ KindOf[c] \in {"reload", "permit"}
      /\ second' = second \/ pc'[c] \in {"torn", "clearing"}
  BY GoDownDoes DEF Types
<1>3. ExtOf[c] \in Exts /\ names' = names /\ commands' = commands
  BY ExtensionAssumption DEF tools
<1>4. \A e \in Exts : active'[e] # None => ExtOf[active'[e]] = e
  BY <1>1 DEF OwnLoads
<1>5. ASSUME NEW d \in Calls
      PROVE  /\ victim'[d] # None => ExtOf[victim'[d]] = ExtOf[d]
             /\ pc'[d] = "clearing" => victim'[d] # None
             /\ pc'[d] \in Early => names'[d] = {} /\ d \notin commands'
             /\ pc'[d] = "erasing" => KindOf[d] = "uninstall"
             /\ pc'[d] \in {"idle", "saving"} => ~second'[d]
             /\ second'[d] => KindOf[d] \in {"reload", "permit"}
  <2>1. CASE d # c
    BY <1>1, <1>2, <1>3, <2>1 DEF OwnLoads
  <2>2. CASE d = c
    <3>1. victim'[c] # None => ExtOf[victim'[c]] = ExtOf[c]
      BY <1>1, <1>3 DEF OwnLoads
    <3>2. names'[c] = {} /\ c \notin commands'
      BY <1>3 DEF OwnLoads
    <3>3. pc'[c] \in {"idle", "saving"} => ~second'[c]
      BY <1>1 DEF OwnLoads
    <3>4. second'[c] => KindOf[c] \in {"reload", "permit"}
      BY <1>2 DEF OwnLoads
    <3> QED BY <1>1, <2>2, <3>1, <3>2, <3>3, <3>4
  <2> QED BY <2>1, <2>2
<1> QED BY <1>4, <1>5 DEF OwnLoads

\* A call step keeps a call's loads its own.
LEMMA CallOwnLoads ==
    ASSUME LoadInv, NEW c \in Calls, CallStep(c)
    PROVE  OwnLoads'
<1> USE DEF LoadInv
<1>1. CASE Begin(c)
  <2>1. pc[c] \in Early /\ pc[c] = "idle" /\ UNCHANGED tools /\ second' = second
    BY <1>1 DEF Begin, Early
  <2>2. GoDown(c) \/ \E p \in {"saving", "done"} : Goto(c, p)
    BY <1>1 DEF Begin, Install, SetEnabled, Permit, Reload, Uninstall
  <2> QED BY <2>1, <2>2, MovesOwnLoads
<1>2. CASE Saved(c) \/ SaveFails(c)
  <2>1. pc[c] \in Early /\ UNCHANGED tools /\ second' = second
    BY <1>2 DEF Saved, SaveFails, Early
  <2>2. GoDown(c) \/ Goto(c, "done")
    BY <1>2 DEF Saved, SaveFails
  <2> QED BY <2>1, <2>2, MovesOwnLoads
<1>3. CASE TeardownThrew(c)
  <2>1. pc[c] \in Early /\ UNCHANGED tools /\ second' = second /\ Goto(c, "done")
    BY <1>3 DEF TeardownThrew, Early
  <2> QED BY <2>1, MovesOwnLoads
<1>4. CASE Torn(c)
  <2>1. pc[c] \in Early /\ UNCHANGED tools
    BY <1>4 DEF Torn, Early
  <2>2. \/ second' = second /\ Goto(c, "done")
        \/ second' = second /\ Goto(c, "loading")
        \/ second' = second /\ Goto(c, "erasing") /\ KindOf[c] = "uninstall"
        \/ /\ second' = [second EXCEPT ![c] = TRUE] /\ GoDown(c)
           /\ KindOf[c] \in {"reload", "permit"} /\ ~second[c]
    BY <1>4 DEF Torn
  <2>3. CASE second' = second
    <3>1. \/ Goto(c, "done") \/ Goto(c, "loading")
          \/ Goto(c, "erasing") /\ KindOf[c] = "uninstall"
      BY <2>2, <2>3 DEF Types
    <3>2. CASE Goto(c, "done")
      BY <2>1, <2>3, <3>2, MovesOwnLoads
    <3>3. CASE Goto(c, "loading")
      BY <2>1, <2>3, <3>3, MovesOwnLoads
    <3>4. CASE Goto(c, "erasing") /\ KindOf[c] = "uninstall"
      BY <2>1, <2>3, <3>4, MovesOwnLoads
    <3> QED BY <3>1, <3>2, <3>3, <3>4
  <2>4. CASE second' # second
    BY <2>1, <2>2, <2>4, MovesOwnLoads
  <2> QED BY <2>3, <2>4
<1>5. CASE Cleared(c) \/ CleanFailure(c)
  <2>1. /\ UNCHANGED <<active, second>>
        /\ \A d \in Calls : victim'[d] = victim[d] \/ victim'[d] = None
        /\ \A d \in Calls \ {c} : victim'[d] = victim[d]
    BY <1>5 DEF Cleared, CleanFailure, steps, Types
  <2>2. PICK l \in Calls, r \in Places, over \in Places :
            /\ CleanUp(c, l, r, over)
            /\ <<pc[c], r, over>> \in
                  {<<"clearing", "refreshing down", "torn">>,
                   <<"failing", "refreshing failed", "failed">>}
    BY <1>5, NoneIsNoCall DEF Cleared, CleanFailure, OwnLoads, Types, Places, Loads
  <2>3. /\ \A d \in Calls : names'[d] = names[d] \/ names'[d] = {}
        /\ commands' \subseteq commands
        /\ \A d \in Calls \ {c} : pc'[d] = pc[d]
        /\ pc'[c] = r \/ pc'[c] = over
    <3>1. /\ names' = [names EXCEPT ![l] = {}] /\ commands' = commands \ {l}
          /\ pc' = [pc EXCEPT ![c] = r] \/ pc' = [pc EXCEPT ![c] = over]
      BY <2>2 DEF CleanUp
    <3> QED BY <3>1 DEF Types
  <2>4. pc'[c] \in Early => pc[c] \in Early
    BY <2>2, <2>3 DEF Early
  <2>5. pc'[c] \notin {"clearing", "erasing", "idle", "saving"}
    BY <2>2, <2>3
  <2> QED BY <2>1, <2>3, <2>4, <2>5 DEF OwnLoads
<1>6. CASE Register(c)
  <2>1. /\ UNCHANGED <<active, victim, second>>
        /\ \A d \in Calls \ {c} : /\ pc'[d] = pc[d] /\ names'[d] = names[d]
                                  /\ d \in commands' <=> d \in commands
        /\ pc'[c] \in {"failing", "registered"}
    BY <1>6 DEF Register, steps, Types
  <2> QED BY <2>1 DEF OwnLoads, Early
<1>7. CASE LoadFails(c) \/ Tried(c) \/ EraseFails(c)
  <2>1. /\ UNCHANGED <<active, tools, steps>>
        /\ \A d \in Calls \ {c} : pc'[d] = pc[d]
        /\ pc'[c] \in {"failing", "done"}
    BY <1>7 DEF LoadFails, Tried, EraseFails, registry, Types
  <2> QED BY <2>1 DEF OwnLoads, Early, tools, steps
<1>8. CASE Erased(c)
  <2>1. /\ UNCHANGED <<active, tools, steps>>
        /\ \A d \in Calls \ {c} : pc'[d] = pc[d]
        /\ pc'[c] = "saving" /\ pc[c] = "erasing"
    BY <1>8 DEF Erased, Types
  <2>2. ~second[c]
    BY <2>1 DEF OwnLoads
  <2> QED BY <2>1, <2>2 DEF OwnLoads, Early, tools, steps
<1>9. CASE Activate(c)
  <2>1. /\ UNCHANGED <<tools, steps>>
        /\ \A d \in Calls \ {c} : pc'[d] = pc[d]
        /\ pc'[c] = "refreshing up"
        /\ \A e \in Exts : active'[e] = IF e = ExtOf[c] THEN c ELSE active[e]
    BY <1>9 DEF Activate, Types
  <2> QED BY <2>1 DEF OwnLoads, Early, tools, steps
<1> QED BY <1>1, <1>2, <1>3, <1>4, <1>5, <1>6, <1>7, <1>8, <1>9 DEF CallStep

LEMMA StepLoadInv == LoadInv /\ [Next]_vars => LoadInv'
<1> SUFFICES ASSUME LoadInv, [Next]_vars PROVE LoadInv'
  OBVIOUS
<1>1. CASE \E c \in Calls : CallStep(c)
  BY <1>1, CallTypes, CallOwnLoads DEF LoadInv
<1>2. CASE PassReads \/ PassApplies \/ RefreshEnds \/ UNCHANGED vars
  BY <1>2, PassLoadInv
<1> QED BY <1>1, <1>2 DEF Next

\* The state of the manager and of the refresh always has its types, and no
\* call tears down or activates a load of another extension, however calls
\* have overlapped.
THEOREM LoadsAreOwn == Spec => []LoadInv
BY InitLoadInv, StepLoadInv, PTL DEF Spec

-----------------------------------------------------------------------------
\* The refresh.

\* For the tool that is registered as n a refresh will still be asked.
Announced(n) ==
    \E c \in Calls : /\ pc[c] \in {"registered", "failing"}
                     /\ n \in names[c] /\ owner[n] = ExtOf[c]

\* What differs from what the agents have, or will have when the present pass
\* ends, is to be refreshed: by another pass, or because it will be asked for.
RefreshInv ==
    /\ refresh \in {"no", "over"} =>
          \A n \in Tools : offered[n] = tool[n] \/ missed \/ Announced(n)
    /\ refresh = "applying" =>
          \A n \in Tools : snapshot[n] = tool[n] \/ rerun \/ Announced(n)

\* Who asks is answered.
LEMMA AskCovers == AskRefresh /\ Types => RefreshInv'
<1> SUFFICES ASSUME AskRefresh, Types PROVE RefreshInv'
  OBVIOUS
<1>1. CASE refresh = "no"
  BY <1>1 DEF AskRefresh, RefreshInv
<1>2. CASE refresh # "no"
  <2>1. refresh' = refresh /\ rerun' = TRUE /\ missed' = (refresh = "over")
    BY <1>2 DEF AskRefresh
  <2>2. refresh' \in {"no", "over"} => missed'
    BY <2>1, <1>2
  <2>3. rerun'
    BY <2>1
  <2> QED BY <2>2, <2>3 DEF RefreshInv
<1> QED BY <1>1, <1>2

\* A step that leaves the refresh alone, and keeps what is announced.
LEMMA QuietCovers ==
    ASSUME RefreshInv, UNCHANGED <<offered, snapshot, refresh, rerun, missed>>,
           \A n \in Tools : tool'[n] = tool[n] \/ Announced(n)',
           \A n \in Tools : Announced(n) => Announced(n)'
    PROVE  RefreshInv'
<1>1. ASSUME refresh' \in {"no", "over"}, NEW n \in Tools
      PROVE  offered'[n] = tool'[n] \/ missed' \/ Announced(n)'
  <2>1. offered[n] = tool[n] \/ missed \/ Announced(n)
    BY <1>1 DEF RefreshInv
  <2> QED BY <2>1
<1>2. ASSUME refresh' = "applying", NEW n \in Tools
      PROVE  snapshot'[n] = tool'[n] \/ rerun' \/ Announced(n)'
  <2>1. snapshot[n] = tool[n] \/ rerun \/ Announced(n)
    BY <1>2 DEF RefreshInv
  <2> QED BY <2>1
<1> QED BY <1>1, <1>2 DEF RefreshInv

\* A step that changes no tool: what is announced stays so, when the call that
\* moves has announced nothing or goes on.
LEMMA AnnouncedStays ==
    ASSUME UNCHANGED <<names, owner>>,
           \A d \in Calls : pc[d] \in {"registered", "failing"}
                              => pc'[d] \in {"registered", "failing"}
    PROVE  \A n \in Tools : Announced(n) => Announced(n)'
BY DEF Announced

LEMMA CleanUpCovers ==
    ASSUME LoadInv, RefreshInv, NEW c \in Calls, NEW l \in Calls,
           NEW r \in Places, NEW over \in Places, CleanUp(c, l, r, over),
           ExtOf[l] = ExtOf[c], l = c \/ pc[c] \notin {"registered", "failing"}
    PROVE  RefreshInv'
<1>1. Types
  BY DEF LoadInv
<1> DEFINE Gone(n) == n \in names[l] /\ owner[n] = ExtOf[c]
<1>2. AskRefresh \/ (UNCHANGED refreshing /\ \A n \in Tools : ~Gone(n))
  BY <1>1, CleanUpDoes
<1>3. CASE AskRefresh
  BY <1>1, <1>3, AskCovers
<1>4. CASE UNCHANGED refreshing /\ \A n \in Tools : ~Gone(n)
  <2>1. \A n \in Tools : owner'[n] = owner[n] /\ tool'[n] = tool[n]
    BY <1>4, <1>1, CleanUpDoes
  <2>2. names' = [names EXCEPT ![l] = {}]
    BY DEF CleanUp
  <2>3. \A d \in Calls \ {c} : pc'[d] = pc[d]
    BY <1>1 DEF CleanUp, Types
  <2>4. ASSUME NEW n \in Tools, Announced(n) PROVE Announced(n)'
    <3>1. PICK d \in Calls : /\ pc[d] \in {"registered", "failing"}
                             /\ n \in names[d] /\ owner[n] = ExtOf[d]
      BY <2>4 DEF Announced
    <3>2. d # l
      BY <3>1, <1>4
    <3>3. d # c
      BY <3>1, <3>2
    <3>4. names'[d] = names[d]
      BY <2>2, <3>2, <1>1 DEF Types
    <3> QED BY <3>1, <3>3, <3>4, <2>1, <2>3 DEF Announced
  <2>5. UNCHANGED <<offered, snapshot, refresh, rerun, missed>>
    BY <1>4 DEF refreshing
  <2> QED BY <2>1, <2>4, <2>5, QuietCovers
<1> QED BY <1>2, <1>3, <1>4

\* What the registration of a tool does to the tools.
LEMMA RegisterDoes ==
    ASSUME NEW c \in Calls, Register(c)
    PROVE  LET n == ToolOf[ExtOf[c]]
           IN  /\ n \in Tools /\ pc[c] = "loading"
               /\ UNCHANGED <<registry, active, steps, refreshing, ghosts>>
               /\ \/ /\ pc' = [pc EXCEPT ![c] = "failing"]
                     /\ UNCHANGED <<owner, tool, names>>
                  \/ /\ pc' = [pc EXCEPT ![c] = "registered"]
                     /\ owner' = [owner EXCEPT ![n] = ExtOf[c]]
                     /\ tool' = [tool EXCEPT ![n] = c]
                     /\ names' = [names EXCEPT ![c] = {n}]
                     /\ owner[n] \in {None, ExtOf[c]}
BY ExtensionAssumption DEF Register

LEMMA RegisterCovers ==
    ASSUME LoadInv, RefreshInv, NEW c \in Calls, Register(c)
    PROVE  RefreshInv'
<1> DEFINE m == ToolOf[ExtOf[c]]
<1>1. /\ m \in Tools /\ pc[c] = "loading"
      /\ UNCHANGED <<offered, snapshot, refresh, rerun, missed>>
      /\ \A d \in Calls \ {c} : pc'[d] = pc[d] /\ names'[d] = names[d]
      /\ \A n \in Tools \ {m} : tool'[n] = tool[n] /\ owner'[n] = owner[n]
      /\ \/ UNCHANGED <<owner, tool, names>>
         \/ pc'[c] = "registered" /\ names'[c] = {m} /\ owner'[m] = ExtOf[c]
  <2>1. /\ m \in Tools /\ pc[c] = "loading" /\ UNCHANGED refreshing
        /\ \/ /\ pc' = [pc EXCEPT ![c] = "failing"]
              /\ UNCHANGED <<owner, tool, names>>
           \/ /\ pc' = [pc EXCEPT ![c] = "registered"]
              /\ owner' = [owner EXCEPT ![m] = ExtOf[c]]
              /\ tool' = [tool EXCEPT ![m] = c]
              /\ names' = [names EXCEPT ![c] = {m}]
    BY RegisterDoes
  <2> HIDE DEF m
  <2> QED BY <2>1 DEF refreshing, LoadInv, Types
<1> HIDE DEF m
<1>2. \A n \in Tools : tool'[n] = tool[n] \/ Announced(n)'
  BY <1>1 DEF Announced
<1>3. ASSUME NEW n \in Tools, Announced(n) PROVE Announced(n)'
  <2>1. PICK d \in Calls : /\ pc[d] \in {"registered", "failing"}
                           /\ n \in names[d] /\ owner[n] = ExtOf[d]
    BY <1>3 DEF Announced
  <2>2. d # c
    BY <1>1, <2>1
  <2>3. CASE n # m \/ UNCHANGED <<owner, tool, names>>
    BY <1>1, <2>1, <2>2, <2>3 DEF Announced
  <2>4. CASE n = m /\ ~UNCHANGED <<owner, tool, names>>
    BY <1>1, <2>4 DEF Announced
  <2> QED BY <2>3, <2>4
<1> QED BY <1>1, <1>2, <1>3, QuietCovers

LEMMA CallCovers ==
    ASSUME LoadInv, RefreshInv, NEW c \in Calls, CallStep(c)
    PROVE  RefreshInv'
<1>1. Types
  BY DEF LoadInv
<1>2. \A d \in Calls \ {c} : pc'[d] = pc[d]
  BY <1>1, OwnPlace DEF Types
<1>3. CASE \/ Begin(c) \/ Saved(c) \/ SaveFails(c) \/ TeardownThrew(c) \/ Torn(c)
           \/ LoadFails(c) \/ Tried(c) \/ Erased(c) \/ EraseFails(c)
  <2>1. /\ UNCHANGED <<tools, refreshing>>
        /\ pc[c] \in {"registered", "failing"} => LoadFails(c)
    BY <1>3 DEF Begin, Saved, SaveFails, TeardownThrew, Torn, LoadFails, Tried,
       Erased, EraseFails
  <2>2. pc[c] \in {"registered", "failing"} => pc'[c] \in {"registered", "failing"}
    BY <2>1, <1>1 DEF LoadFails, Types
  <2>3. \A n \in Tools : Announced(n) => Announced(n)'
    BY <2>1, <2>2, <1>2, AnnouncedStays DEF tools
  <2> QED BY <2>1, <2>3, QuietCovers DEF tools, refreshing
<1>4. CASE Cleared(c)
  <2>1. /\ victim[c] \in Calls /\ ExtOf[victim[c]] = ExtOf[c] /\ pc[c] = "clearing"
    BY <1>4 DEF Cleared, LoadInv, OwnLoads, Types, Loads
  <2>2. /\ CleanUp(c, victim[c], "refreshing down", "torn")
        /\ "refreshing down" \in Places /\ "torn" \in Places
    BY <1>4 DEF Cleared, Places
  <2> QED BY <2>1, <2>2, CleanUpCovers
<1>5. CASE CleanFailure(c)
  <2>1. /\ CleanUp(c, c, "refreshing failed", "failed")
        /\ "refreshing failed" \in Places /\ "failed" \in Places
    BY <1>5 DEF CleanFailure, Places
  <2> QED BY <2>1, CleanUpCovers
<1>6. CASE Register(c)
  BY <1>6, RegisterCovers
<1>7. CASE Activate(c)
  BY <1>1, <1>7, AskCovers DEF Activate
<1> QED BY <1>3, <1>4, <1>5, <1>6, <1>7 DEF CallStep

LEMMA PassCovers ==
    ASSUME LoadInv, RefreshInv, PassReads \/ PassApplies \/ RefreshEnds \/ UNCHANGED vars
    PROVE  RefreshInv'
<1>1. CASE PassReads
  BY <1>1 DEF PassReads, tools, RefreshInv
<1>2. CASE PassApplies
  <2>1. offered' = snapshot /\ UNCHANGED <<names, owner, tool, pc>>
    BY <1>2 DEF PassApplies, Differs, tools
  <2>2. \A n \in Tools : Announced(n) => Announced(n)'
    BY <2>1 DEF Announced
  <2>3. CASE rerun
    BY <1>2, <2>3 DEF PassApplies, RefreshInv
  <2>4. CASE ~rerun
    <3>1. \A n \in Tools : snapshot[n] = tool[n] \/ Announced(n)
      BY <1>2, <2>4 DEF PassApplies, RefreshInv
    <3>2. \A n \in Tools : offered'[n] = tool'[n] \/ Announced(n)'
      BY <3>1, <2>1, <2>2
    <3>3. refresh' = "over"
      BY <1>2, <2>4 DEF PassApplies
    <3> QED BY <3>2, <3>3 DEF RefreshInv
  <2> QED BY <2>3, <2>4
<1>3. CASE RefreshEnds
  <2>1. /\ refresh = "over" /\ refresh' = "no"
        /\ UNCHANGED <<names, owner, tool, offered, missed>>
        /\ \A d \in Calls : pc[d] \in {"registered", "failing"} => pc'[d] = pc[d]
    BY <1>3 DEF RefreshEnds, tools
  <2>2. \A n \in Tools : Announced(n) => Announced(n)'
    BY <2>1, AnnouncedStays
  <2>3. \A n \in Tools : offered[n] = tool[n] \/ missed \/ Announced(n)
    BY <2>1 DEF RefreshInv
  <2>4. \A n \in Tools : offered'[n] = tool'[n] \/ missed' \/ Announced(n)'
    BY <2>1, <2>2, <2>3
  <2> QED BY <2>1, <2>4 DEF RefreshInv
<1>4. CASE UNCHANGED vars
  <2>1. \A n \in Tools : Announced(n) => Announced(n)'
    BY <1>4, AnnouncedStays DEF vars, tools
  <2> QED BY <1>4, <2>1, QuietCovers DEF vars, tools, refreshing
<1> QED BY <1>1, <1>2, <1>3, <1>4

LEMMA StepRefreshInv == LoadInv /\ RefreshInv /\ [Next]_vars => RefreshInv'
BY CallCovers, PassCovers DEF Next

LEMMA InitRefreshInv == Init => RefreshInv
BY DEF Init, RefreshInv

\* When no call and no refresh is under way, the agents have the tools that
\* are registered, however calls and passes have overlapped, unless a request
\* came just as the last pass was over (createAsyncCoalescer).
THEOREM AgentsAreUpToDate == Spec => []AgentsRunCurrentTools
<1>1. LoadInv /\ RefreshInv => AgentsRunCurrentTools
  <2> SUFFICES ASSUME LoadInv, RefreshInv, \A c \in Calls : ~UnderWay(c),
                      refresh = "no", ~missed
               PROVE  offered = tool
    BY DEF AgentsRunCurrentTools
  <2>1. \A n \in Tools : ~Announced(n)
    BY DEF Announced, UnderWay
  <2>2. \A n \in Tools : offered[n] = tool[n]
    BY <2>1 DEF RefreshInv
  <2>3. offered \in [Tools -> Loads] /\ tool \in [Tools -> Loads]
    BY DEF LoadInv, Types
  <2> QED BY <2>2, <2>3
<1>2. Spec => []RefreshInv
  BY InitLoadInv, StepLoadInv, InitRefreshInv, StepRefreshInv, PTL DEF Spec
<1> QED BY <1>1, <1>2, LoadsAreOwn, PTL

-----------------------------------------------------------------------------
\* The list.

Waiting(c) == pc[c] \in {"clearing", "refreshing down", "torn", "erasing"}
Removing(c) == KindOf[c] = "uninstall" /\ UnderWay(c)

\* Every extension is listed once; one to be installed is not yet listed; and
\* while uninstalls have not met, there is one, and its entry is at its index.
ListedOnce == \A i, j \in 1..Len(list) : list[i] = list[j] => i = j
FreshInstalls == \A c \in Calls :
    KindOf[c] = "install" /\ pc[c] = "idle" => ~Listed(ExtOf[c])
OneRemoves == mixed # Exts =>
    \A c, d \in Calls : Removing(c) /\ Removing(d) => c = d
IndexIsRight == mixed # Exts =>
    \A c \in Calls : KindOf[c] = "uninstall" /\ Waiting(c) =>
        index[c] \in 1..Len(list) /\ list[index[c]] = ExtOf[c]
ListInv == ListedOnce /\ FreshInstalls /\ OneRemoves /\ IndexIsRight

\* What has met stays so.
LEMMA GhostsGrow ==
    ASSUME LoadInv, [Next]_vars
    PROVE  mixed \subseteq mixed' /\ shaken \subseteq shaken'
<1>0. mixed \subseteq Exts
  BY DEF LoadInv, Types
<1>1. ASSUME NEW c \in Calls, CallStep(c)
      PROVE  mixed \subseteq mixed' /\ shaken \subseteq shaken'
  <2>1. CASE Begin(c)
    BY <2>1, <1>0 DEF Begin, Overlaps
  <2>2. CASE Saved(c) \/ SaveFails(c) \/ Torn(c) \/ TeardownThrew(c) \/ Cleared(c)
    BY <2>2 DEF Saved, SaveFails, Torn, TeardownThrew, Cleared, ghosts
  <2>3. CASE \/ CleanFailure(c) \/ Register(c) \/ LoadFails(c) \/ Tried(c)
             \/ EraseFails(c) \/ Activate(c) \/ Erased(c)
    BY <2>3 DEF CleanFailure, Register, LoadFails, Tried, EraseFails,
       Activate, Erased, ghosts
  <2> QED BY <1>1, <2>1, <2>2, <2>3 DEF CallStep
<1>2. CASE PassReads \/ PassApplies \/ RefreshEnds \/ UNCHANGED vars
  BY <1>2 DEF PassReads, PassApplies, RefreshEnds, vars, ghosts
<1> QED BY <1>1, <1>2 DEF Next

LEMMA InitListInv == Init => ListInv
<1> SUFFICES ASSUME Init PROVE ListInv
  OBVIOUS
<1>1. list = Stored /\ \A c \in Calls : pc[c] = "idle"
  BY DEF Init
<1>2. ListedOnce
  BY <1>1, ExtensionAssumption DEF ListedOnce, IsInjective
<1>3. FreshInstalls
  BY <1>1, ExtensionAssumption DEF FreshInstalls, Listed
<1>4. OneRemoves /\ IndexIsRight
  BY <1>1 DEF OneRemoves, IndexIsRight, Removing, Waiting, UnderWay
<1> QED BY <1>2, <1>3, <1>4 DEF ListInv

\* A step that neither begins a call nor splices the list.
NoSplice ==
    /\ UNCHANGED <<list, index>>
    /\ \A d \in Calls : /\ KindOf[d] = "uninstall" /\ Waiting(d)' => Waiting(d)
                        /\ UnderWay(d)' => UnderWay(d)
                        /\ pc'[d] = "idle" => pc[d] = "idle"

LEMMA OthersDoNotSplice ==
    ASSUME LoadInv, [Next]_vars, ~\E c \in Calls : Begin(c) \/ Erased(c)
    PROVE  NoSplice
<1>0. Types
  BY DEF LoadInv
<1>1. ASSUME NEW c \in Calls, CallStep(c) PROVE NoSplice
  <2>1. \A d \in Calls \ {c} : pc'[d] = pc[d]
    BY <1>0, <1>1, OwnPlace DEF Types
  <2>2. /\ UNCHANGED <<list, index>> /\ pc'[c] # "idle" /\ pc[c] # "idle"
        /\ pc[c] # "done"
    <3>1. CASE Saved(c) \/ SaveFails(c) \/ Torn(c) \/ TeardownThrew(c)
      <4>1. /\ UNCHANGED <<list, index>> /\ pc[c] \in {"saving", "torn"}
            /\ GoDown(c) \/ \E p \in {"done", "erasing", "loading"} : Goto(c, p)
        BY <3>1 DEF Saved, SaveFails, Torn, TeardownThrew, registry
      <4> QED BY <4>1, <1>0 DEF GoDown, Goto, Types
    <3>2. CASE Cleared(c)
      BY <3>2, <1>0 DEF Cleared, CleanUp, registry, Types
    <3>3. CASE CleanFailure(c)
      BY <3>3, <1>0 DEF CleanFailure, CleanUp, registry, steps, Types
    <3>4. CASE \/ Register(c) \/ LoadFails(c) \/ Tried(c) \/ EraseFails(c) \/ Activate(c)
      BY <3>4, <1>0 DEF Register, LoadFails, Tried, EraseFails, Activate,
         registry, steps, Types
    <3> QED BY <1>1, <3>1, <3>2, <3>3, <3>4 DEF CallStep
  <2>3. KindOf[c] = "uninstall" /\ Waiting(c)' => Waiting(c)
    <3>1. CASE pc[c] = "saving" /\ KindOf[c] = "uninstall"
      <4>1. Saved(c) \/ SaveFails(c)
        BY <1>1, <3>1 DEF CallStep, Torn, TeardownThrew, Cleared, EraseFails,
           Register, LoadFails, Tried, Activate, CleanFailure
      <4>2. Goto(c, "done")
        BY <3>1, <4>1 DEF Saved, SaveFails
      <4> QED BY <4>2, <1>0 DEF Goto, Types, Waiting
    <3>2. CASE ~Waiting(c) /\ pc[c] # "saving"
      <4>1. \/ Register(c) \/ LoadFails(c) \/ Tried(c) \/ Activate(c) \/ CleanFailure(c)
        BY <1>1, <3>2 DEF CallStep, Waiting, Saved, SaveFails, Torn, TeardownThrew,
           Cleared, EraseFails
      <4>2. pc'[c] \in {"failing", "registered", "done", "refreshing up",
                        "refreshing failed", "failed"}
        BY <4>1, <1>0 DEF Register, LoadFails, Tried, Activate, CleanFailure,
           CleanUp, Types
      <4> QED BY <4>2 DEF Waiting
    <3> QED BY <3>1, <3>2
  <2> QED BY <2>1, <2>2, <2>3 DEF Waiting, UnderWay, NoSplice
<1>2. CASE PassReads \/ PassApplies \/ RefreshEnds \/ UNCHANGED vars
  <2>1. UNCHANGED <<list, index>>
    BY <1>2 DEF PassReads, PassApplies, RefreshEnds, vars, registry, steps
  <2>2. \A d \in Calls : pc'[d] = pc[d] \/ (pc[d] = "refreshing down" /\ pc'[d] = "torn")
            \/ (UnderWay(d) /\ pc'[d] \in {"up", "failed"})
    BY <1>2 DEF PassReads, PassApplies, RefreshEnds, vars, UnderWay
  <2> QED BY <2>1, <2>2 DEF Waiting, UnderWay, NoSplice
<1> QED BY <1>1, <1>2 DEF Next

\* Such a step keeps ListInv.
LEMMA NoSpliceKeeps ==
    ASSUME LoadInv, ListInv, [Next]_vars, NoSplice
    PROVE  ListInv'
<1>1. mixed' # Exts => mixed # Exts
  BY GhostsGrow, StepLoadInv DEF LoadInv, Types
<1>2. ListedOnce' /\ FreshInstalls'
  BY DEF ListInv, ListedOnce, FreshInstalls, Listed, NoSplice
<1>3. OneRemoves'
  BY <1>1 DEF ListInv, OneRemoves, Removing, NoSplice
<1>4. IndexIsRight'
  BY <1>1 DEF ListInv, IndexIsRight, NoSplice
<1> QED BY <1>2, <1>3, <1>4 DEF ListInv

\* The beginning of a call puts at most a fresh entry into the list, and takes
\* the index of the entry that is to go.
LEMMA BeginKeepsList ==
    ASSUME LoadInv, ListInv, NEW c \in Calls, Begin(c)
    PROVE  ListInv'
<1>0. Types /\ ExtOf[c] \in Exts
  BY ExtensionAssumption DEF LoadInv
<1>1. /\ pc[c] = "idle" /\ \A d \in Calls \ {c} : pc'[d] = pc[d]
      /\ pc'[c] # "idle"
  <2>1. GoDown(c) \/ \E p \in {"saving", "done"} : Goto(c, p)
    BY DEF Begin, Install, SetEnabled, Permit, Reload, Uninstall
  <2> QED BY <2>1, <1>0 DEF GoDown, Goto, Types, Begin
<1>2. Len(list) \in Nat /\ DOMAIN list = 1..Len(list)
  BY <1>0 DEF Types
<1>3. \/ list' = list
      \/ list' = Append(list, ExtOf[c]) /\ KindOf[c] = "install" /\ index' = index
  BY DEF Begin, Install, SetEnabled, Permit, Reload, Uninstall
<1>4. list' = Append(list, ExtOf[c]) =>
        /\ Len(list') = Len(list) + 1 /\ list'[Len(list) + 1] = ExtOf[c]
        /\ \A i \in 1..Len(list) : list'[i] = list[i]
        /\ DOMAIN list' = 1..(Len(list) + 1)
  BY <1>0 DEF Types
<1>5. KindOf[c] = "install" => \A i \in 1..Len(list) : list[i] # ExtOf[c]
  BY <1>1, <1>2 DEF ListInv, FreshInstalls, Listed, ToSet
<1>6. ListedOnce'
  BY <1>2, <1>3, <1>4, <1>5 DEF ListInv, ListedOnce
<1>7. FreshInstalls'
  <2> SUFFICES ASSUME NEW d \in Calls, KindOf[d] = "install", pc'[d] = "idle"
               PROVE  \A i \in DOMAIN list' : list'[i] # ExtOf[d]
    BY DEF FreshInstalls, Listed, ToSet
  <2>1. d # c /\ pc[d] = "idle"
    BY <1>1
  <2>2. \A i \in 1..Len(list) : list[i] # ExtOf[d]
    BY <2>1, <1>2 DEF ListInv, FreshInstalls, Listed, ToSet
  <2>3. KindOf[c] = "install" => ExtOf[d] # ExtOf[c]
    BY <2>1, ExtensionAssumption
  <2> QED BY <2>2, <2>3, <1>2, <1>3, <1>4
<1>8. mixed' # Exts => mixed # Exts /\ ~(KindOf[c] = "uninstall" /\ \E d \in Calls : Removing(d))
  BY <1>0 DEF Begin, Overlaps, Removing, Types
<1>9. OneRemoves'
  BY <1>1, <1>8 DEF ListInv, OneRemoves, Removing, UnderWay
<1>10. IndexIsRight'
  <2> SUFFICES ASSUME mixed' # Exts, NEW d \in Calls, KindOf[d] = "uninstall", Waiting(d)'
               PROVE  index'[d] \in 1..Len(list') /\ list'[index'[d]] = ExtOf[d]
    BY DEF IndexIsRight
  <2>1. CASE d = c
    <3>1. Uninstall(c) /\ Listed(ExtOf[c])
      BY <1>0, <2>1 DEF Begin, Install, SetEnabled, Permit, Reload, Uninstall,
         Goto, Waiting, Types
    <3>2. \E i \in DOMAIN list : list[i] = ExtOf[c]
      BY <3>1 DEF Listed, ToSet
    <3> DEFINE i == CHOOSE i \in DOMAIN list : list[i] = ExtOf[c]
    <3>3. index' = [index EXCEPT ![c] = i]
      BY <3>1 DEF Uninstall
    <3>6. i \in DOMAIN list /\ list[i] = ExtOf[c]
      BY <3>2
    <3> HIDE DEF i
    <3>4. index'[c] \in DOMAIN list /\ list[index'[c]] = ExtOf[c]
      BY <3>3, <3>6, <1>0 DEF Types
    <3>5. list' = list
      BY <3>1 DEF Uninstall
    <3> QED BY <2>1, <3>4, <3>5, <1>2
  <2>2. CASE d # c
    <3>1. Waiting(d)
      BY <2>2, <1>1 DEF Waiting
    <3>2. index[d] \in 1..Len(list) /\ list[index[d]] = ExtOf[d]
      BY <3>1, <1>8 DEF ListInv, IndexIsRight
    <3>3. KindOf[c] # "uninstall"
      BY <3>1, <1>8 DEF Removing, Waiting, UnderWay
    <3>4. index' = index
      BY <3>3 DEF Begin, Install, SetEnabled, Permit, Reload, Uninstall
    <3> QED BY <3>2, <3>4, <1>2, <1>3, <1>4
  <2> QED BY <2>1, <2>2
<1> QED BY <1>6, <1>7, <1>9, <1>10 DEF ListInv

\* A splice takes an entry out; with the index that was found, its own.
LEMMA SpliceKeepsList ==
    ASSUME LoadInv, ListInv, NEW c \in Calls, Erased(c)
    PROVE  /\ ListInv'
           /\ \A e \in Exts : mixed # Exts => (Listed(e)' <=> Listed(e) /\ e # ExtOf[c])
<1>0. Types
  BY DEF LoadInv
<1>1. /\ pc[c] = "erasing" /\ pc'[c] = "saving" /\ KindOf[c] = "uninstall"
      /\ \A d \in Calls \ {c} : pc'[d] = pc[d]
      /\ index' = index /\ mixed' = mixed
      /\ list' = Spliced(list, index[c])
  BY <1>0 DEF Erased, Spliced, Types, steps, ghosts, LoadInv, OwnLoads
<1>2. /\ list' \in Seq(Exts)
      /\ ToSet(list') \subseteq ToSet(list)
      /\ index[c] \in DOMAIN list => ToSet(list') = ToSet(list) \ {list[index[c]]}
      /\ \A j, k \in 1..Len(list') : list'[j] = list'[k] => j = k
  <2>1. list \in Seq(Exts) /\ \A j, k \in 1..Len(list) : list[j] = list[k] => j = k
    BY <1>0 DEF Types, ListInv, ListedOnce
  <2> DEFINE i == index[c]
  <2>2. list' = Spliced(list, i)
    BY <1>1
  <2> HIDE DEF i
  <2>3. /\ Spliced(list, i) \in Seq(Exts)
        /\ ToSet(Spliced(list, i)) \subseteq ToSet(list)
        /\ i \in DOMAIN list => ToSet(Spliced(list, i)) = ToSet(list) \ {list[i]}
        /\ \A j, k \in 1..Len(Spliced(list, i)) :
              Spliced(list, i)[j] = Spliced(list, i)[k] => j = k
    BY <2>1, SplicedEntries
  <2> QED BY <2>2, <2>3 DEF i
<1>3. ListedOnce'
  BY <1>2 DEF ListedOnce
<1>4. FreshInstalls'
  BY <1>1, <1>2 DEF ListInv, FreshInstalls, Listed
<1>5. OneRemoves'
  BY <1>1 DEF ListInv, OneRemoves, Removing, UnderWay
<1>6. IndexIsRight'
  <2> SUFFICES ASSUME mixed # Exts, NEW d \in Calls, KindOf[d] = "uninstall", Waiting(d)'
               PROVE  FALSE
    BY <1>1 DEF IndexIsRight
  <2>1. d # c /\ Waiting(d)
    BY <1>1 DEF Waiting
  <2>2. Removing(d) /\ Removing(c)
    BY <1>1, <2>1 DEF Removing, UnderWay, Waiting
  <2> QED BY <2>1, <2>2 DEF ListInv, OneRemoves
<1>7. ASSUME NEW e \in Exts, mixed # Exts PROVE Listed(e)' <=> Listed(e) /\ e # ExtOf[c]
  <2>1. index[c] \in 1..Len(list) /\ list[index[c]] = ExtOf[c]
    BY <1>1, <1>7 DEF ListInv, IndexIsRight, Waiting
  <2>2. index[c] \in DOMAIN list
    BY <2>1, <1>0 DEF Types
  <2> QED BY <2>1, <2>2, <1>2 DEF Listed
<1> QED BY <1>3, <1>4, <1>5, <1>6, <1>7 DEF ListInv

LEMMA StepListInv == LoadInv /\ ListInv /\ [Next]_vars => ListInv'
BY OthersDoNotSplice, NoSpliceKeeps, BeginKeepsList, SpliceKeepsList

-----------------------------------------------------------------------------
\* One extension.

Owned(e) == {n \in Tools : owner[n] = e}

\* Nothing of e is there.
Down(e) == active[e] = None /\ Owned(e) = {} /\ ~command[e]

\* What is registered for e is all of its load l, and nothing else.
Holds(e, l) ==
    /\ Owned(e) = {ToolOf[e]} /\ tool[ToolOf[e]] = l /\ names[l] = {ToolOf[e]}
    /\ command[e] <=> e \in Commanders
    /\ l \in commands <=> e \in Commanders

Loaded(e) == \E l \in Calls : active[e] = l /\ Holds(e, l)
Shape(e) == Down(e) \/ Loaded(e)

\* initialize has come past e.
BootPast(e) == \A c \in Calls : ExtOf[c] = e /\ KindOf[c] = "boot" => pc[c] # "idle"

\* e between its calls.
Rest(e) ==
    /\ Shape(e)
    /\ active[e] # None => Listed(e) /\ enabled[e] /\ ~failed[e]
    /\ Listed(e) /\ enabled[e] /\ ~failed[e] /\ BootPast(e) => active[e] # None

\* What the call c has found or set in the list.
Aim(c) ==
    /\ KindOf[c] # "uninstall" => Listed(ExtOf[c])
    /\ KindOf[c] \in {"boot", "install", "enable"} \/ second[c] => enabled[ExtOf[c]]
    /\ KindOf[c] = "disable" => ~enabled[ExtOf[c]]

WillLoad(c) == Listed(ExtOf[c]) /\ enabled[ExtOf[c]]

\* What holds of the extension of c while c is under way and no other call on
\* it is: one conjunct for each place of c.
Stage(c) ==
    LET e == ExtOf[c]
    IN  /\ pc[c] = "saving" =>
              IF KindOf[c] = "uninstall" THEN Down(e) /\ ~Listed(e)
              ELSE Shape(e) /\ Aim(c) /\ (KindOf[c] = "permit" => Rest(e))
        /\ pc[c] = "clearing" =>
              /\ active[e] = None /\ Aim(c)
              /\ \E l \in Calls : victim[c] = l /\ Holds(e, l)
        /\ pc[c] \in {"refreshing down", "torn"} => Down(e) /\ Aim(c)
        /\ pc[c] = "erasing" => Down(e)
        /\ pc[c] \in {"loading", "refreshing failed", "failed"} => Down(e) /\ WillLoad(c)
        /\ pc[c] = "registered" => active[e] = None /\ Holds(e, c) /\ WillLoad(c)
        /\ pc[c] = "failing" =>
              /\ active[e] = None /\ WillLoad(c)
              /\ Owned(e) = names[c]
              /\ command[e] <=> c \in commands
        /\ pc[c] \in {"refreshing up", "up"} => Loaded(e) /\ WillLoad(c)

\* The calls on e have not met, and nothing was left half done.
Sole(e) == e \notin mixed /\ e \notin shaken

Busy(e) == {c \in Calls : ExtOf[c] = e /\ UnderWay(c)}
Story(e) ==
    /\ \A c, d \in Busy(e) : c = d
    /\ \A c \in Busy(e) : Stage(c)
    /\ Busy(e) = {} => Rest(e)

StoryInv == \A e \in Exts : Sole(e) => Story(e)

-----------------------------------------------------------------------------
\* A step that is not about e.  (A refresh that ends moves calls of e.)
Resumed == {<<"refreshing down", "torn">>, <<"refreshing up", "up">>,
            <<"refreshing failed", "failed">>}

Untouched(e) ==
    /\ active'[e] = active[e] /\ command'[e] = command[e]
    /\ enabled'[e] = enabled[e] /\ failed'[e] = failed[e]
    /\ Listed(e)' <=> Listed(e)
    /\ \A n \in Tools : /\ (owner'[n] = e) <=> (owner[n] = e)
                        /\ owner[n] = e => tool'[n] = tool[n]
    /\ \A c \in Calls : ExtOf[c] = e =>
          /\ names'[c] = names[c] /\ (c \in commands' <=> c \in commands)
          /\ victim'[c] = victim[c] /\ second'[c] = second[c]
          /\ pc'[c] = pc[c] \/ <<pc[c], pc'[c]>> \in Resumed

LEMMA UntouchedStory ==
    ASSUME LoadInv, NEW e \in Exts, Untouched(e), Story(e)
    PROVE  Story(e)'
<1>1. Owned(e)' = Owned(e)
  BY DEF Owned, Untouched
<1>2. Down(e) => Down(e)'
  BY <1>1 DEF Down, Untouched
<1>3. ASSUME NEW l \in Calls, ExtOf[l] = e, Holds(e, l) PROVE Holds(e, l)'
  <2>1. ToolOf[e] \in Tools /\ owner[ToolOf[e]] = e
    BY <1>3, ExtensionAssumption DEF Holds, Owned
  <2> QED BY <1>1, <1>3, <2>1 DEF Holds, Untouched
<1>4. Loaded(e) => Loaded(e)'
  <2> SUFFICES ASSUME NEW l \in Calls, active[e] = l, Holds(e, l)
               PROVE  Loaded(e)'
    BY DEF Loaded
  <2>1. ExtOf[l] = e
    BY NoneIsNoCall DEF LoadInv, OwnLoads
  <2>2. active'[e] = l
    BY DEF Untouched
  <2> QED BY <1>3, <2>1, <2>2 DEF Loaded
<1>5. Shape(e) => Shape(e)'
  BY <1>2, <1>4 DEF Shape
<1>6. Rest(e) => Rest(e)'
  <2>1. BootPast(e)' => BootPast(e)
    BY DEF BootPast, Untouched, Resumed
  <2> QED BY <1>5, <2>1 DEF Rest, Untouched
<1>7. ASSUME NEW c \in Calls, ExtOf[c] = e, Stage(c) PROVE Stage(c)'
  <2>1. Aim(c) => Aim(c)'
    BY <1>7 DEF Aim, Untouched
  <2>2. WillLoad(c) => WillLoad(c)'
    BY <1>7 DEF WillLoad, Untouched
  <2>3. ASSUME NEW l \in Calls, victim[c] = l, Holds(e, l)
        PROVE  victim'[c] = l /\ Holds(e, l)'
    <3>1. ExtOf[l] = e
      BY <1>7, <2>3, NoneIsNoCall DEF LoadInv, OwnLoads
    <3> QED BY <1>3, <1>7, <2>3, <3>1 DEF Untouched
  <2>4. pc'[c] = pc[c] \/ <<pc[c], pc'[c]>> \in Resumed
    BY <1>7 DEF Untouched
  <2>5. active'[e] = active[e] /\ names'[c] = names[c]
        /\ command'[e] = command[e] /\ (c \in commands' <=> c \in commands)
        /\ (Listed(e)' <=> Listed(e))
    BY <1>7 DEF Untouched
  <2>6. Holds(e, c) => Holds(e, c)'
    BY <1>3, <1>7
  <2>7. CASE pc'[c] = pc[c]
    BY <1>1, <1>2, <1>4, <1>5, <1>6, <1>7, <2>1, <2>2, <2>3, <2>5, <2>6, <2>7 DEF Stage
  <2>8. CASE <<pc[c], pc'[c]>> \in Resumed
    BY <1>2, <1>4, <1>7, <2>1, <2>2, <2>8 DEF Stage, Resumed
  <2> QED BY <2>4, <2>7, <2>8
<1>8. Busy(e)' = Busy(e)
  BY DEF Busy, UnderWay, Untouched, Resumed
<1>9. \A c \in Busy(e) : ExtOf[c] = e /\ c \in Calls
  BY DEF Busy
<1>10. \A c, d \in Busy(e) : c = d
  BY DEF Story
<1>11. \A c \in Busy(e) : Stage(c)'
  BY <1>7, <1>9 DEF Story
<1>12. Busy(e) = {} => Rest(e)'
  BY <1>6 DEF Story
<1> QED BY <1>8, <1>10, <1>11, <1>12 DEF Story

\* A call step leaves other extensions alone, unless uninstalls have met.
LEMMA CallUntouched ==
    ASSUME LoadInv, ListInv, NEW c \in Calls, CallStep(c),
           NEW e \in Exts, e # ExtOf[c], mixed # Exts
    PROVE  Untouched(e)
<1>0. Types /\ ExtOf[c] \in Exts /\ None \notin Exts
  BY ExtensionAssumption DEF LoadInv
<1>1. \A d \in Calls : ExtOf[d] = e => d # c /\ pc'[d] = pc[d]
  BY <1>0, OwnPlace DEF Types
<1> DEFINE Entry == /\ enabled'[e] = enabled[e] /\ failed'[e] = failed[e]
                    /\ Listed(e)' <=> Listed(e)
           Activity == /\ active'[e] = active[e]
                       /\ \A d \in Calls : ExtOf[d] = e =>
                             victim'[d] = victim[d] /\ second'[d] = second[d]
           Given == /\ command'[e] = command[e]
                    /\ \A n \in Tools : /\ (owner'[n] = e) <=> (owner[n] = e)
                                        /\ owner[n] = e => tool'[n] = tool[n]
                    /\ \A d \in Calls : ExtOf[d] = e =>
                          names'[d] = names[d] /\ (d \in commands' <=> d \in commands)
<1>2. Entry
  <2>1. CASE Begin(c)
    <3>1. list' = list \/ list' = Append(list, ExtOf[c])
      BY <2>1 DEF Begin, Install, SetEnabled, Permit, Reload, Uninstall
    <3>2. Listed(e)' <=> Listed(e)
      <4>1. CASE list' = list
        BY <4>1 DEF Listed
      <4>2. CASE list' = Append(list, ExtOf[c])
        <5>1. /\ DOMAIN list = 1..Len(list) /\ Len(list) \in Nat
              /\ DOMAIN list' = 1..(Len(list) + 1)
              /\ list'[Len(list) + 1] = ExtOf[c]
              /\ \A i \in 1..Len(list) : list'[i] = list[i]
          BY <4>2, <1>0 DEF Types
        <5> QED BY <5>1 DEF Listed, ToSet
      <4> QED BY <3>1, <4>1, <4>2
    <3>3. enabled' = enabled \/ \E b \in BOOLEAN : enabled' = [enabled EXCEPT ![ExtOf[c]] = b]
      BY <2>1 DEF Begin, Install, SetEnabled, Permit, Reload, Uninstall
    <3> QED BY <2>1, <3>2, <3>3, <1>0 DEF Begin, Types
  <2>2. CASE \/ Saved(c) \/ SaveFails(c) \/ Torn(c) \/ Cleared(c) \/ Register(c)
             \/ LoadFails(c) \/ CleanFailure(c) \/ Activate(c) \/ EraseFails(c)
    <3>1. UNCHANGED registry
      BY <2>2 DEF Saved, SaveFails, Torn, Cleared, Register, LoadFails,
         CleanFailure, Activate, EraseFails
    <3> QED BY <3>1 DEF registry, Listed
  <2>3. CASE TeardownThrew(c) \/ Tried(c)
    BY <2>3, <1>0 DEF TeardownThrew, Tried, Listed, Types
  <2>4. CASE Erased(c)
    <3>1. Listed(e)' <=> Listed(e)
      BY <2>4, SpliceKeepsList
    <3> QED BY <2>4, <3>1, <1>0 DEF Erased, Types
  <2> QED BY <2>1, <2>2, <2>3, <2>4 DEF CallStep
<1>3. Activity
  <2>1. CASE Begin(c) \/ Saved(c) \/ SaveFails(c) \/ Torn(c) \/ TeardownThrew(c)
    <3>1. GoDown(c) \/ \E p \in {"saving", "done", "erasing", "loading"} : Goto(c, p)
      BY <2>1 DEF Begin, Install, SetEnabled, Permit, Reload, Uninstall,
         Saved, SaveFails, Torn, TeardownThrew
    <3>2. active'[e] = active[e] /\ \A d \in Calls : d # c => victim'[d] = victim[d]
      BY <3>1, <1>0 DEF GoDown, Goto, Types
    <3>3. second' = second \/ second' = [second EXCEPT ![c] = TRUE]
      BY <2>1 DEF Begin, Saved, SaveFails, Torn, TeardownThrew
    <3> QED BY <3>2, <3>3, <1>0 DEF Types
  <2>2. CASE Cleared(c)
    BY <2>2, <1>0 DEF Cleared, Types
  <2>3. CASE \/ Register(c) \/ LoadFails(c) \/ CleanFailure(c) \/ Tried(c)
             \/ Erased(c) \/ EraseFails(c)
    BY <2>3 DEF Register, LoadFails, CleanFailure, Tried, Erased, EraseFails, steps
  <2>4. CASE Activate(c)
    BY <2>4, <1>0 DEF Activate, Types, steps
  <2> QED BY <2>1, <2>2, <2>3, <2>4 DEF CallStep
<1>4. Given
  <2>1. CASE \/ Begin(c) \/ Saved(c) \/ SaveFails(c) \/ Torn(c) \/ TeardownThrew(c)
             \/ LoadFails(c) \/ Activate(c) \/ Tried(c) \/ Erased(c) \/ EraseFails(c)
    <3>1. UNCHANGED tools
      BY <2>1 DEF Begin, Saved, SaveFails, Torn, TeardownThrew, LoadFails,
         Activate, Tried, Erased, EraseFails
    <3> QED BY <3>1 DEF tools
  <2>2. CASE Cleared(c) \/ CleanFailure(c)
    <3>1. PICK l \in Calls, r \in Places, over \in Places :
             CleanUp(c, l, r, over) /\ ExtOf[l] = ExtOf[c]
      BY <2>2, NoneIsNoCall DEF Cleared, CleanFailure, LoadInv, OwnLoads, Types, Places, Loads
    <3>2. /\ command'[e] = command[e]
          /\ commands' = commands \ {l} /\ names' = [names EXCEPT ![l] = {}]
          /\ \A n \in Tools :
                IF n \in names[l] /\ owner[n] = ExtOf[c]
                THEN owner'[n] = None /\ tool'[n] = None
                ELSE owner'[n] = owner[n] /\ tool'[n] = tool[n]
      BY <3>1, <1>0, CleanUpDoes
    <3>3. \A d \in Calls : ExtOf[d] = e => d # l
      BY <3>1
    <3>4. \A n \in Tools : /\ (owner'[n] = e) <=> (owner[n] = e)
                           /\ owner[n] = e => tool'[n] = tool[n]
      BY <3>2, <1>0
    <3> QED BY <3>2, <3>3, <3>4, <1>0 DEF Types
  <2>3. CASE Register(c)
    <3>1. /\ command'[e] = command[e]
          /\ \A d \in Calls : d # c => (d \in commands' <=> d \in commands)
      BY <2>3, <1>0 DEF Register, Types
    <3> DEFINE m == ToolOf[ExtOf[c]]
    <3>2. /\ m \in Tools
          /\ \/ UNCHANGED <<owner, tool, names>>
             \/ /\ owner' = [owner EXCEPT ![m] = ExtOf[c]]
                /\ tool' = [tool EXCEPT ![m] = c]
                /\ names' = [names EXCEPT ![c] = {m}]
                /\ owner[m] \in {None, ExtOf[c]}
      BY <2>3, RegisterDoes
    <3> HIDE DEF m
    <3>3. /\ \A n \in Tools : /\ (owner'[n] = e) <=> (owner[n] = e)
                              /\ owner[n] = e => tool'[n] = tool[n]
          /\ \A d \in Calls : d # c => names'[d] = names[d]
      BY <3>2, <1>0 DEF Types
    <3> QED BY <3>1, <3>3, <1>1
  <2> QED BY <2>1, <2>2, <2>3 DEF CallStep
<1> QED BY <1>1, <1>2, <1>3, <1>4 DEF Untouched

\* A step of the refresh is about no extension.
LEMMA PassUntouched ==
    ASSUME NEW e \in Exts, PassReads \/ PassApplies \/ RefreshEnds \/ UNCHANGED vars
    PROVE  Untouched(e)
<1>1. UNCHANGED <<registry, active, tools, steps>>
  BY DEF PassReads, PassApplies, RefreshEnds, vars
<1>2. \A c \in Calls : pc'[c] = pc[c] \/ <<pc[c], pc'[c]>> \in Resumed
  BY DEF PassReads, PassApplies, RefreshEnds, vars, Resumed
<1> QED BY <1>1, <1>2 DEF Untouched, registry, tools, steps, Listed

-----------------------------------------------------------------------------
\* The steps of the one call on e that is under way.

\* What is to hold of e after a step of c.
Fine(c) == IF UnderWay(c) THEN Stage(c) ELSE Rest(ExtOf[c])

\* Without a change of the tools and the loads.
LEMMA SameLoad ==
    ASSUME NEW e \in Exts, UNCHANGED <<active, tools>>
    PROVE  /\ Down(e)' <=> Down(e)
           /\ Loaded(e)' <=> Loaded(e)
           /\ Shape(e)' <=> Shape(e)
           /\ \A l \in Calls : Holds(e, l)' <=> Holds(e, l)
<1>1. Owned(e)' = Owned(e)
  BY DEF Owned, tools
<1>2. Down(e)' <=> Down(e)
  BY <1>1 DEF Down, tools
<1>3. \A l \in Calls : Holds(e, l)' <=> Holds(e, l)
  BY <1>1 DEF Holds, tools
<1>4. Loaded(e)' <=> Loaded(e)
  BY <1>3 DEF Loaded
<1> QED BY <1>2, <1>3, <1>4 DEF Shape

\* deactivateEntry takes the load away, or finds none.
LEMMA GoDownFine ==
    ASSUME LoadInv, NEW c \in Calls, GoDown(c), UNCHANGED tools,
           Shape(ExtOf[c]), Aim(c)'
    PROVE  Fine(c)'
<1> DEFINE e == ExtOf[c]
<1>0. Types /\ e \in Exts /\ ExtOf[c] = e
  BY ExtensionAssumption DEF LoadInv
<1> HIDE DEF e
<1>1. active'[e] = None
  BY <1>0 DEF GoDown, Types
<1>2. Owned(e)' = Owned(e)
  BY DEF Owned, tools
<1>3. CASE Down(e)
  <2>1. pc'[c] = "torn"
    BY <1>0, <1>3, GoDownDoes DEF Down
  <2>2. Down(e)'
    BY <1>1, <1>2, <1>3 DEF Down, tools
  <2> QED BY <1>0, <2>1, <2>2 DEF Fine, Stage, UnderWay
<1>4. CASE Loaded(e)
  <2>1. PICK l \in Calls : active[e] = l /\ Holds(e, l)
    BY <1>4 DEF Loaded
  <2>2. pc'[c] = "clearing" /\ victim'[c] = l
    BY <1>0, <2>1, NoneIsNoCall, GoDownDoes
  <2>3. Holds(e, l)'
    BY <1>2, <2>1 DEF Holds, tools
  <2> QED BY <1>0, <1>1, <2>2, <2>3 DEF Fine, Stage, UnderWay
<1> QED BY <1>0, <1>3, <1>4 DEF Shape

LEMMA BeginFine ==
    ASSUME LoadInv, ListInv, NEW c \in Calls, Begin(c), Rest(ExtOf[c])
    PROVE  Fine(c)'
<1> DEFINE e == ExtOf[c]
<1>0. Types /\ e \in Exts /\ ExtOf[c] = e
  BY ExtensionAssumption DEF LoadInv
<1> HIDE DEF e
<1>1. /\ pc[c] = "idle" /\ ~second[c] /\ second' = second
      /\ UNCHANGED tools /\ failed' = failed
  BY DEF Begin, LoadInv, OwnLoads
<1>2. Rest(e) /\ Shape(e)
  BY <1>0 DEF Rest
<1>3. ASSUME Goto(c, "done"), UNCHANGED <<list, enabled>>,
             KindOf[c] = "boot" => ~(Listed(e) /\ enabled[e])
      PROVE  Fine(c)'
  <2>1. pc'[c] = "done" /\ \A d \in Calls \ {c} : pc'[d] = pc[d]
    BY <1>0, <1>3 DEF Goto, Types
  <2>2. Shape(e)' /\ active' = active
    BY <1>0, <1>1, <1>2, <1>3, SameLoad DEF Goto
  <2>3. Listed(e)' <=> Listed(e)
    BY <1>3 DEF Listed
  <2>4. Listed(e) /\ enabled[e] /\ BootPast(e)' => BootPast(e)
    BY <1>3, <2>1 DEF BootPast
  <2>5. Rest(e)'
    BY <1>1, <1>2, <1>3, <2>2, <2>3, <2>4 DEF Rest
  <2> QED BY <1>0, <2>1, <2>5 DEF Fine, UnderWay
<1>4. CASE Install(c)
  <2>1. Goto(c, "saving") /\ KindOf[c] = "install" /\ enabled'[e] = TRUE
        /\ list' = Append(list, e)
    BY <1>0, <1>4 DEF Install, Types
  <2>2. ~Listed(e)
    BY <1>0, <1>1, <2>1 DEF ListInv, FreshInstalls
  <2>3. Shape(e)'
    BY <1>0, <1>1, <1>2, <2>1, SameLoad DEF Goto
  <2>4. Listed(e)'
    <3>1. Len(list) + 1 \in DOMAIN list' /\ list'[Len(list) + 1] = e
      BY <1>0, <2>1 DEF Types
    <3> QED BY <3>1 DEF Listed, ToSet
  <2>5. Aim(c)'
    BY <1>0, <1>1, <2>1, <2>4 DEF Aim
  <2>6. pc'[c] = "saving"
    BY <1>0, <2>1 DEF Goto, Types
  <2> QED BY <1>0, <2>1, <2>3, <2>5, <2>6 DEF Fine, Stage, UnderWay
<1>5. CASE SetEnabled(c)
  <2>1. CASE Goto(c, "done") /\ UNCHANGED enabled
    BY <1>3, <1>5, <2>1 DEF SetEnabled
  <2>2. CASE ~(Goto(c, "done") /\ UNCHANGED enabled)
    <3>1. /\ Listed(e) /\ Goto(c, "saving") /\ list' = list
          /\ enabled' = [enabled EXCEPT ![e] = (KindOf[c] = "enable")]
          /\ KindOf[c] \in {"enable", "disable"}
      BY <1>0, <1>5, <2>2 DEF SetEnabled
    <3>2. enabled'[e] <=> KindOf[c] = "enable"
      BY <1>0, <3>1 DEF Types
    <3>3. Shape(e)' /\ Listed(e)'
      BY <1>0, <1>1, <1>2, <3>1, SameLoad DEF Goto, Listed
    <3>4. Aim(c)'
      BY <1>0, <1>1, <3>1, <3>2, <3>3 DEF Aim
    <3>5. pc'[c] = "saving"
      BY <1>0, <3>1 DEF Goto, Types
    <3> QED BY <1>0, <3>1, <3>3, <3>4, <3>5 DEF Fine, Stage, UnderWay
  <2> QED BY <2>1, <2>2
<1>6. CASE Permit(c)
  <2>1. CASE ~Listed(e)
    BY <1>0, <1>3, <1>6, <2>1 DEF Permit
  <2>2. CASE Listed(e)
    <3>1. Goto(c, "saving") /\ UNCHANGED <<list, enabled>> /\ KindOf[c] = "permit"
      BY <1>0, <1>6, <2>2 DEF Permit
    <3>2. Shape(e)' /\ Listed(e)' /\ active' = active
      BY <1>0, <1>1, <1>2, <2>2, <3>1, SameLoad DEF Goto, Listed
    <3>3. Aim(c)'
      BY <1>0, <1>1, <3>1, <3>2 DEF Aim
    <3>4. pc'[c] = "saving" /\ \A d \in Calls \ {c} : pc'[d] = pc[d]
      BY <1>0, <3>1 DEF Goto, Types
    <3>5. BootPast(e)' => BootPast(e)
      BY <3>1, <3>4 DEF BootPast
    <3>6. Rest(e)'
      BY <1>1, <1>2, <2>2, <3>1, <3>2, <3>5 DEF Rest
    <3> QED BY <1>0, <3>1, <3>2, <3>3, <3>4, <3>6 DEF Fine, Stage, UnderWay
  <2> QED BY <2>1, <2>2
<1>7. CASE Reload(c)
  <2>1. CASE Listed(e) /\ (KindOf[c] = "boot" => enabled[e])
    <3>1. GoDown(c) /\ UNCHANGED <<list, enabled>> /\ KindOf[c] \in {"reload", "boot"}
      BY <1>0, <1>7, <2>1 DEF Reload
    <3>2. Aim(c)'
      BY <1>0, <1>1, <2>1, <3>1 DEF Aim, Listed
    <3> QED BY <1>0, <1>1, <1>2, <3>1, <3>2, GoDownFine
  <2>2. CASE ~(Listed(e) /\ (KindOf[c] = "boot" => enabled[e]))
    BY <1>0, <1>3, <1>7, <2>2 DEF Reload
  <2> QED BY <2>1, <2>2
<1>8. CASE Uninstall(c)
  <2>1. CASE Listed(e)
    <3>1. GoDown(c) /\ KindOf[c] = "uninstall"
      BY <1>0, <1>8, <2>1 DEF Uninstall
    <3>2. Aim(c)'
      BY <1>1, <3>1 DEF Aim
    <3> QED BY <1>0, <1>1, <1>2, <3>1, <3>2, GoDownFine
  <2>2. CASE ~Listed(e)
    BY <1>0, <1>3, <1>8, <2>2 DEF Uninstall
  <2> QED BY <2>1, <2>2
<1> QED BY <1>4, <1>5, <1>6, <1>7, <1>8 DEF Begin

\* A call that ends with nothing left of its extension, and rightly so.
LEMMA EndsDown ==
    ASSUME NEW c \in Calls, pc'[c] = "done", Down(ExtOf[c])',
           (~(Listed(ExtOf[c]) /\ enabled[ExtOf[c]] /\ ~failed[ExtOf[c]]))'
    PROVE  Fine(c)'
BY DEF Fine, UnderWay, Rest, Shape, Down

\* The list is saved.
LEMMA SavedFine ==
    ASSUME LoadInv, NEW c \in Calls, Saved(c), Stage(c)
    PROVE  Fine(c)'
<1> DEFINE e == ExtOf[c]
<1>0. Types /\ e \in Exts /\ ExtOf[c] = e
  BY ExtensionAssumption DEF LoadInv
<1> HIDE DEF e
<1>1. /\ pc[c] = "saving" /\ UNCHANGED <<registry, tools>> /\ second' = second
  BY DEF Saved
<1>2. CASE KindOf[c] = "uninstall"
  <2>1. Goto(c, "done") /\ Down(e) /\ ~Listed(e)
    BY <1>0, <1>1, <1>2 DEF Saved, Stage
  <2>2. Down(e)' /\ pc'[c] = "done" /\ ~Listed(e)'
    BY <1>0, <1>1, <2>1, SameLoad DEF Goto, Types, Listed, registry
  <2> QED BY <1>0, <2>2, EndsDown
<1>3. CASE KindOf[c] = "permit" /\ ~(enabled[e] /\ Listed(e))
  <2>1. Goto(c, "done") /\ Rest(e)
    BY <1>0, <1>1, <1>3 DEF Saved, Stage
  <2>2. pc'[c] = "done" /\ active' = active
    BY <1>0, <2>1 DEF Goto, Types
  <2>3. Shape(e)' /\ (Listed(e)' <=> Listed(e)) /\ enabled' = enabled /\ failed' = failed
    BY <1>0, <1>1, <2>1, <2>2, SameLoad DEF registry, Listed, Rest
  <2>4. Rest(e)'
    BY <1>3, <2>1, <2>2, <2>3 DEF Rest
  <2> QED BY <1>0, <2>2, <2>4 DEF Fine, UnderWay
<1>4. CASE KindOf[c] # "uninstall" /\ ~(KindOf[c] = "permit" /\ ~(enabled[e] /\ Listed(e)))
  <2>1. GoDown(c) /\ Shape(e) /\ Aim(c)
    BY <1>0, <1>1, <1>4 DEF Saved, Stage
  <2>2. Aim(c)'
    BY <1>1, <2>1 DEF Aim, registry, Listed
  <2> QED BY <1>0, <1>1, <2>1, <2>2, GoDownFine
<1> QED BY <1>2, <1>3, <1>4

\* The extension has deactivated; the rest is removed.
LEMMA ClearedFine ==
    ASSUME LoadInv, NEW c \in Calls, Cleared(c), Stage(c)
    PROVE  Fine(c)'
<1> DEFINE e == ExtOf[c]
<1>0. Types /\ e \in Exts /\ ExtOf[c] = e /\ None \notin Exts
  BY ExtensionAssumption DEF LoadInv
<1> HIDE DEF e
<1>1. /\ pc[c] = "clearing" /\ UNCHANGED <<registry, active, second>>
      /\ active[e] = None /\ Aim(c)
  BY <1>0 DEF Cleared, Stage
<1>2. PICK l \in Calls : victim[c] = l /\ Holds(e, l)
  BY <1>0, <1>1 DEF Stage
<1>3. PICK r \in Places, over \in Places :
         CleanUp(c, l, r, over) /\ r = "refreshing down" /\ over = "torn"
  BY <1>2 DEF Cleared, Places
<1>4. /\ ~command'[e]
      /\ \A n \in Tools :
            IF n \in names[l] /\ owner[n] = e
            THEN owner'[n] = None /\ tool'[n] = None
            ELSE owner'[n] = owner[n] /\ tool'[n] = tool[n]
      /\ pc'[c] \in {"refreshing down", "torn"}
  <2>1. command' = [command EXCEPT ![e] = command[e] /\ l \notin commands]
    BY <1>0, <1>3 DEF CleanUp
  <2>2. \A n \in Tools :
           IF n \in names[l] /\ owner[n] = e
           THEN owner'[n] = None /\ tool'[n] = None
           ELSE owner'[n] = owner[n] /\ tool'[n] = tool[n]
    <3>1. \A n \in Tools :
             IF n \in names[l] /\ owner[n] = ExtOf[c]
             THEN owner'[n] = None /\ tool'[n] = None
             ELSE owner'[n] = owner[n] /\ tool'[n] = tool[n]
      BY <1>0, <1>3, CleanUpDoes, Zenon
    <3> QED BY <1>0, <3>1
  <2>4. ~command'[e]
    BY <1>0, <1>2, <2>1 DEF Types, Holds
  <2>3. pc'[c] \in {"refreshing down", "torn"}
    BY <1>0, <1>3 DEF CleanUp, Types
  <2> QED BY <2>2, <2>3, <2>4
<1>5. Owned(e)' = {}
  <2>1. \A n \in Tools : owner[n] = e => n \in names[l]
    BY <1>2 DEF Holds, Owned
  <2> QED BY <1>0, <1>4, <2>1 DEF Owned
<1>6. Down(e)'
  BY <1>1, <1>4, <1>5 DEF Down
<1>7. Aim(c)'
  BY <1>1 DEF Aim, registry, Listed
<1> QED BY <1>0, <1>4, <1>6, <1>7 DEF Fine, Stage, UnderWay

\* The teardown has thrown.
LEMMA TeardownThrewFine ==
    ASSUME LoadInv, NEW c \in Calls, TeardownThrew(c), Stage(c), ExtOf[c] \notin shaken'
    PROVE  Fine(c)'
<1> DEFINE e == ExtOf[c]
<1>0. Types /\ e \in Exts /\ ExtOf[c] = e
  BY ExtensionAssumption DEF LoadInv
<1> HIDE DEF e
<1>1. pc[c] = "torn" /\ Down(e) /\ UNCHANGED tools /\ Goto(c, "done")
  BY <1>0 DEF TeardownThrew, Stage
<1>2. failed'[e]
  BY <1>0 DEF TeardownThrew, Types
<1>3. Down(e)' /\ pc'[c] = "done"
  BY <1>0, <1>1, SameLoad DEF Goto, Types
<1> QED BY <1>0, <1>2, <1>3, EndsDown

\* The teardown is over.
LEMMA TornFine ==
    ASSUME LoadInv, NEW c \in Calls, Torn(c), Stage(c)
    PROVE  Fine(c)'
<1> DEFINE e == ExtOf[c]
<1>0. Types /\ e \in Exts /\ ExtOf[c] = e /\ KindOf[c] \in Kinds
  BY ExtensionAssumption DEF LoadInv
<1> HIDE DEF e
<1>1. pc[c] = "torn" /\ Down(e) /\ Aim(c) /\ UNCHANGED <<registry, tools>>
  BY <1>0 DEF Torn, Stage
<1>2. (Listed(e)' <=> Listed(e)) /\ enabled' = enabled /\ failed' = failed
  BY <1>1 DEF registry, Listed
<1>3. CASE KindOf[c] = "disable" \/ (KindOf[c] \in {"reload", "permit"} /\ ~enabled[e])
  <2>1. Goto(c, "done")
    BY <1>0, <1>1, <1>3 DEF Torn, Aim
  <2>2. Down(e)' /\ pc'[c] = "done"
    BY <1>0, <1>1, <2>1, SameLoad DEF Goto, Types
  <2>3. ~enabled'[e]
    BY <1>0, <1>1, <1>2, <1>3 DEF Aim
  <2> QED BY <1>0, <2>2, <2>3, EndsDown
<1>4. CASE KindOf[c] = "uninstall"
  <2>1. Goto(c, "erasing")
    BY <1>4 DEF Torn
  <2>2. Down(e)' /\ pc'[c] = "erasing"
    BY <1>0, <1>1, <2>1, SameLoad DEF Goto, Types
  <2> QED BY <1>0, <2>2 DEF Fine, Stage, UnderWay
<1>5. CASE KindOf[c] \in {"reload", "permit"} /\ ~second[c] /\ enabled[e]
  <2>1. GoDown(c) /\ second' = [second EXCEPT ![c] = TRUE]
    BY <1>0, <1>5 DEF Torn
  <2>2. Aim(c)'
    BY <1>0, <1>1, <1>2, <1>5 DEF Aim
  <2> QED BY <1>0, <1>1, <2>1, <2>2, GoDownFine DEF Shape
<1>6. CASE \/ KindOf[c] \in {"boot", "install", "enable"}
           \/ KindOf[c] \in {"reload", "permit"} /\ second[c]
  <2>1. Goto(c, "loading")
    BY <1>0, <1>6 DEF Torn
  <2>2. Down(e)' /\ pc'[c] = "loading"
    BY <1>0, <1>1, <2>1, SameLoad DEF Goto, Types
  <2>3. WillLoad(c)'
    BY <1>0, <1>1, <1>2, <1>6 DEF Aim, WillLoad
  <2> QED BY <1>0, <2>2, <2>3 DEF Fine, Stage, UnderWay
<1> QED BY <1>0, <1>3, <1>4, <1>5, <1>6 DEF Kinds

\* The activator registers what the extension has.
LEMMA RegisterFine ==
    ASSUME LoadInv, NEW c \in Calls, Register(c), Stage(c)
    PROVE  Fine(c)'
<1> DEFINE e == ExtOf[c]
           m == ToolOf[e]
<1>0. Types /\ e \in Exts /\ ExtOf[c] = e /\ None \notin Exts /\ ToolOf[e] = m
  BY ExtensionAssumption DEF LoadInv
<1>1. /\ m \in Tools /\ pc[c] = "loading" /\ UNCHANGED <<registry, active>>
      /\ \/ /\ pc' = [pc EXCEPT ![c] = "failing"]
            /\ UNCHANGED <<owner, tool, names>>
         \/ /\ pc' = [pc EXCEPT ![c] = "registered"]
            /\ owner' = [owner EXCEPT ![m] = e]
            /\ tool' = [tool EXCEPT ![m] = c]
            /\ names' = [names EXCEPT ![c] = {m}]
  BY RegisterDoes
<1>2. /\ command' = [command EXCEPT ![e] = command[e] \/ e \in Commanders]
      /\ commands' = IF e \in Commanders /\ ~(e \in Commanders /\ command[e])
                     THEN commands \cup {c} ELSE commands
  BY DEF Register
<1> HIDE DEF e, m
<1>3. Down(e) /\ WillLoad(c) /\ names[c] = {} /\ c \notin commands
  BY <1>0, <1>1 DEF Stage, LoadInv, OwnLoads, Early
<1>4. /\ command'[e] <=> e \in Commanders
      /\ c \in commands' <=> e \in Commanders
      /\ active'[e] = None
  BY <1>0, <1>1, <1>2, <1>3 DEF Types, Down
<1>5. WillLoad(c)'
  BY <1>0, <1>1, <1>3 DEF WillLoad, registry, Listed
<1>6. CASE pc' = [pc EXCEPT ![c] = "failing"] /\ UNCHANGED <<owner, tool, names>>
  <2>1. Owned(e)' = names'[c]
    BY <1>3, <1>6 DEF Down, Owned
  <2>2. pc'[c] = "failing"
    BY <1>0, <1>6 DEF Types
  <2> QED BY <1>0, <1>4, <1>5, <2>1, <2>2 DEF Fine, Stage, UnderWay
<1>7. CASE /\ pc' = [pc EXCEPT ![c] = "registered"]
           /\ owner' = [owner EXCEPT ![m] = e]
           /\ tool' = [tool EXCEPT ![m] = c]
           /\ names' = [names EXCEPT ![c] = {m}]
  <2>1. pc'[c] = "registered" /\ tool'[m] = c /\ names'[c] = {m}
    BY <1>0, <1>1, <1>7 DEF Types
  <2>2. \A n \in Tools : owner'[n] = e <=> n = m
    BY <1>0, <1>1, <1>3, <1>7 DEF Types, Down, Owned
  <2>3. Owned(e)' = {m}
    BY <1>1, <2>2 DEF Owned
  <2>4. Holds(e, c)'
    BY <1>0, <1>4, <2>1, <2>3 DEF Holds
  <2> QED BY <1>0, <1>4, <1>5, <2>1, <2>4 DEF Fine, Stage, UnderWay
<1> QED BY <1>1, <1>6, <1>7

\* The load fails.
LEMMA LoadFailsFine ==
    ASSUME LoadInv, NEW c \in Calls, LoadFails(c), Stage(c)
    PROVE  Fine(c)'
<1> DEFINE e == ExtOf[c]
<1>0. Types /\ e \in Exts /\ ExtOf[c] = e
  BY ExtensionAssumption DEF LoadInv
<1> HIDE DEF e
<1>1. /\ pc'[c] = "failing" /\ UNCHANGED <<registry, active, tools>>
      /\ pc[c] \in {"loading", "registered"}
  BY <1>0 DEF LoadFails, Types
<1>2. /\ active[e] = None /\ WillLoad(c) /\ Owned(e) = names[c]
      /\ command[e] <=> c \in commands
  <2>1. CASE pc[c] = "loading"
    BY <1>0, <2>1 DEF Stage, Down, LoadInv, OwnLoads, Early
  <2>2. CASE pc[c] = "registered"
    BY <1>0, <2>2 DEF Stage, Holds
  <2> QED BY <1>1, <2>1, <2>2
<1>3. Owned(e)' = Owned(e) /\ WillLoad(c)'
  BY <1>1, <1>2 DEF Owned, WillLoad, tools, registry, Listed
<1> QED BY <1>0, <1>1, <1>2, <1>3 DEF Fine, Stage, UnderWay, tools

\* What the failed load has registered is removed.
LEMMA CleanFailureFine ==
    ASSUME LoadInv, NEW c \in Calls, CleanFailure(c), Stage(c)
    PROVE  Fine(c)'
<1> DEFINE e == ExtOf[c]
<1>0. Types /\ e \in Exts /\ ExtOf[c] = e /\ None \notin Exts
  BY ExtensionAssumption DEF LoadInv
<1> HIDE DEF e
<1>1. /\ pc[c] = "failing" /\ UNCHANGED <<registry, active>>
      /\ active[e] = None /\ WillLoad(c) /\ Owned(e) = names[c]
      /\ command[e] <=> c \in commands
  BY <1>0 DEF CleanFailure, Stage
<1>3. PICK r \in Places, over \in Places :
         CleanUp(c, c, r, over) /\ r = "refreshing failed" /\ over = "failed"
  BY DEF CleanFailure, Places
<1>2. command' = [command EXCEPT ![e] = command[e] /\ c \notin commands]
  BY <1>0, <1>3 DEF CleanUp
<1>4. \A n \in Tools :
         IF n \in names[c] /\ owner[n] = e
         THEN owner'[n] = None /\ tool'[n] = None
         ELSE owner'[n] = owner[n] /\ tool'[n] = tool[n]
  <2>1. \A n \in Tools :
           IF n \in names[c] /\ owner[n] = ExtOf[c]
           THEN owner'[n] = None /\ tool'[n] = None
           ELSE owner'[n] = owner[n] /\ tool'[n] = tool[n]
    BY <1>0, <1>3, CleanUpDoes, Zenon
  <2> QED BY <1>0, <2>1
<1>5. pc'[c] \in {"refreshing failed", "failed"}
  BY <1>0, <1>3 DEF CleanUp, Types
<1>6. Owned(e)' = {}
  <2>1. \A n \in Tools : owner[n] = e => n \in names[c]
    BY <1>1 DEF Owned
  <2> QED BY <1>0, <1>4, <2>1 DEF Owned
<1>7. Down(e)'
  <2>1. ~command'[e]
    BY <1>0, <1>1, <1>2 DEF Types
  <2> QED BY <1>1, <1>6, <2>1 DEF Down
<1>8. WillLoad(c)'
  BY <1>1 DEF WillLoad, registry, Listed
<1> QED BY <1>0, <1>5, <1>7, <1>8 DEF Fine, Stage, UnderWay

\* The load becomes the active one.
LEMMA ActivateFine ==
    ASSUME LoadInv, NEW c \in Calls, Activate(c), Stage(c)
    PROVE  Fine(c)'
<1> DEFINE e == ExtOf[c]
<1>0. Types /\ e \in Exts /\ ExtOf[c] = e
  BY ExtensionAssumption DEF LoadInv
<1> HIDE DEF e
<1>1. /\ pc'[c] = "refreshing up" /\ UNCHANGED <<registry, tools>>
      /\ Holds(e, c) /\ WillLoad(c) /\ active'[e] = c
  BY <1>0 DEF Activate, Stage, Types
<1>2. Holds(e, c)'
  BY <1>1 DEF Holds, Owned, tools
<1>3. WillLoad(c)'
  BY <1>1 DEF WillLoad, registry, Listed
<1> QED BY <1>0, <1>1, <1>2, <1>3 DEF Fine, Stage, UnderWay, Loaded

\* The end of an activation.
LEMMA TriedFine ==
    ASSUME LoadInv, NEW c \in Calls, Tried(c), Stage(c)
    PROVE  Fine(c)'
<1> DEFINE e == ExtOf[c]
<1>0. Types /\ e \in Exts /\ ExtOf[c] = e
  BY ExtensionAssumption DEF LoadInv
<1> HIDE DEF e
<1>1. /\ pc'[c] = "done" /\ UNCHANGED <<list, enabled, active, tools>>
      /\ pc[c] \in {"up", "failed"} /\ failed'[e] = (pc[c] = "failed")
  BY <1>0 DEF Tried, Types
<1>2. CASE pc[c] = "failed"
  <2>1. Down(e)'
    BY <1>0, <1>1, <1>2, SameLoad DEF Stage
  <2>2. failed'[e]
    BY <1>1, <1>2
  <2> QED BY <1>0, <1>1, <2>1, <2>2, EndsDown
<1>3. CASE pc[c] = "up"
  <2>1. Loaded(e) /\ Listed(e) /\ enabled[e]
    BY <1>0, <1>3 DEF Stage, WillLoad
  <2>2. Loaded(e)' /\ Listed(e)' /\ enabled'[e] /\ ~failed'[e]
    BY <1>0, <1>1, <1>3, <2>1, SameLoad DEF Listed
  <2>3. active'[e] # None
    BY <2>2, NoneIsNoCall DEF Loaded
  <2> QED BY <1>0, <1>1, <2>2, <2>3 DEF Fine, UnderWay, Rest, Shape
<1> QED BY <1>1, <1>2, <1>3

\* The entry is spliced out.
LEMMA ErasedFine ==
    ASSUME LoadInv, ListInv, NEW c \in Calls, Erased(c), Stage(c), mixed # Exts
    PROVE  Fine(c)'
<1> DEFINE e == ExtOf[c]
<1>0. Types /\ e \in Exts /\ ExtOf[c] = e
  BY ExtensionAssumption DEF LoadInv
<1> HIDE DEF e
<1>1. /\ pc[c] = "erasing" /\ pc'[c] = "saving" /\ KindOf[c] = "uninstall"
      /\ Down(e) /\ UNCHANGED <<active, tools>>
  BY <1>0 DEF Erased, Stage, Types, LoadInv, OwnLoads
<1>2. ~Listed(e)'
  BY <1>0, SpliceKeepsList
<1>3. Down(e)'
  BY <1>0, <1>1, SameLoad
<1> QED BY <1>0, <1>1, <1>2, <1>3 DEF Fine, Stage, UnderWay

\* Whatever the call under way does next, unless it leaves things half done.
LEMMA CallFine ==
    ASSUME LoadInv, ListInv, NEW c \in Calls, CallStep(c), ~Begin(c), Stage(c),
           mixed # Exts, ExtOf[c] \notin shaken'
    PROVE  Fine(c)'
<1>1. ~SaveFails(c) /\ ~EraseFails(c)
  BY DEF SaveFails, EraseFails
<1> QED BY <1>1, SavedFine, ClearedFine, TeardownThrewFine, TornFine, RegisterFine,
   LoadFailsFine, CleanFailureFine, ActivateFine, TriedFine, ErasedFine DEF CallStep

-----------------------------------------------------------------------------
\* The story of an extension goes on.
LEMMA OwnStory ==
    ASSUME LoadInv, ListInv, NEW c \in Calls, CallStep(c),
           Story(ExtOf[c]), Sole(ExtOf[c])'
    PROVE  Story(ExtOf[c])'
<1> DEFINE e == ExtOf[c]
<1>0. Types /\ e \in Exts /\ ExtOf[c] = e
  BY ExtensionAssumption DEF LoadInv
<1>1. mixed \subseteq mixed' /\ mixed' # Exts
  <2>1. [Next]_vars
    BY DEF Next
  <2> QED BY <1>0, <2>1, GhostsGrow DEF Sole
<1>2. mixed # Exts /\ e \notin shaken'
  <2>1. mixed' \subseteq Exts
    BY CallTypes DEF Types
  <2> QED BY <1>1, <2>1 DEF Sole
<1> HIDE DEF e
<1>3. \A d \in Calls \ {c} : pc'[d] = pc[d]
  BY <1>0, OwnPlace DEF Types
<1>4. /\ Busy(e) \subseteq {c}
      /\ Fine(c)'
  <2>1. CASE Begin(c)
    <3>1. Busy(e) = {}
      <4>1. e \notin mixed'
        BY <1>0 DEF Sole
      <4> QED BY <1>0, <2>1, <4>1 DEF Begin, Overlaps, Busy
    <3>2. Rest(e)
      BY <1>0, <3>1 DEF Story
    <3> QED BY <1>0, <2>1, <3>1, <3>2, BeginFine
  <2>2. CASE ~Begin(c)
    <3>1. UnderWay(c)
      BY <2>2 DEF CallStep, Saved, SaveFails, Cleared, TeardownThrew, Torn, Register,
         LoadFails, CleanFailure, Activate, Tried, Erased, EraseFails, UnderWay
    <3>2. c \in Busy(e)
      BY <1>0, <3>1 DEF Busy
    <3>3. Busy(e) \subseteq {c} /\ Stage(c)
      BY <1>0, <3>2 DEF Story
    <3> QED BY <1>0, <1>2, <2>2, <3>3, CallFine
  <2> QED BY <2>1, <2>2
<1>5. Busy(e)' \subseteq {c}
  <2> SUFFICES ASSUME NEW d \in Busy(e)', d # c PROVE FALSE
    OBVIOUS
  <2>1. d \in Busy(e)
    BY <1>3 DEF Busy, UnderWay
  <2> QED BY <1>4, <2>1
<1>6. c \in Busy(e)' <=> UnderWay(c)'
  BY <1>0 DEF Busy
<1>7. CASE UnderWay(c)'
  <2>1. Stage(c)'
    BY <1>4, <1>7 DEF Fine
  <2>2. Busy(e)' = {c}
    BY <1>5, <1>6, <1>7
  <2> QED BY <1>0, <2>1, <2>2 DEF Story
<1>8. CASE ~UnderWay(c)'
  <2>1. Rest(e)'
    BY <1>0, <1>4, <1>8 DEF Fine
  <2>2. Busy(e)' = {}
    BY <1>5, <1>6, <1>8
  <2> QED BY <1>0, <2>1, <2>2 DEF Story
<1> QED BY <1>7, <1>8

LEMMA StepStoryInv == LoadInv /\ ListInv /\ StoryInv /\ [Next]_vars => StoryInv'
<1> SUFFICES ASSUME LoadInv, ListInv, StoryInv, [Next]_vars, NEW e \in Exts, Sole(e)'
             PROVE  Story(e)'
  BY DEF StoryInv
<1>1. Sole(e) /\ mixed # Exts
  <2>1. mixed' \subseteq Exts
    BY StepLoadInv DEF LoadInv, Types
  <2> QED BY <2>1, GhostsGrow DEF Sole
<1>2. Story(e)
  BY <1>1 DEF StoryInv
<1>3. ASSUME NEW c \in Calls, CallStep(c) PROVE Story(e)'
  <2>1. CASE ExtOf[c] = e
    BY <1>2, <1>3, <2>1, OwnStory
  <2>2. CASE ExtOf[c] # e
    BY <1>1, <1>2, <1>3, <2>2, CallUntouched, UntouchedStory
  <2> QED BY <2>1, <2>2
<1>4. CASE PassReads \/ PassApplies \/ RefreshEnds \/ UNCHANGED vars
  BY <1>2, <1>4, PassUntouched, UntouchedStory
<1> QED BY <1>3, <1>4 DEF Next

LEMMA InitStoryInv == Init => StoryInv
<1> SUFFICES ASSUME Init, NEW e \in Exts PROVE Story(e)
  BY DEF StoryInv
<1>1. Busy(e) = {}
  BY DEF Init, Busy, UnderWay
<1>2. Down(e)
  BY NoneIsNoCall DEF Init, Down, Owned
<1>3. ~(enabled[e] /\ BootPast(e))
  BY ExtensionAssumption DEF Init, BootPast
<1>4. Rest(e)
  BY <1>2, <1>3 DEF Rest, Shape, Down
<1> QED BY <1>1, <1>4 DEF Story

\* An extension whose own calls came one after the other, none of them left
\* half done, ends loaded, with its tool and its command, just when its entry
\* is enabled and shows no error, whatever the calls on other extensions do.
THEOREM ExtensionsSettle == Spec => []SettledAsListed
<1>1. LoadInv /\ StoryInv => SettledAsListed
  <2> SUFFICES ASSUME LoadInv, StoryInv, NEW e \in Exts, Sole(e), AtRest(e)
               PROVE  LET loaded == active[e] # None
                      IN  /\ loaded <=> Listed(e) /\ enabled[e] /\ ~failed[e]
                          /\ {n \in Tools : owner[n] = e} = IF loaded THEN {ToolOf[e]} ELSE {}
                          /\ \A n \in Tools : owner[n] = e => tool[n] = active[e]
                          /\ command[e] <=> loaded /\ e \in Commanders
    BY DEF SettledAsListed, Sole
  <2>1. Busy(e) = {} /\ BootPast(e)
    BY DEF AtRest, Busy, UnderWay, BootPast
  <2>2. Rest(e)
    BY <2>1 DEF StoryInv, Story
  <2>3. active[e] # None <=> Listed(e) /\ enabled[e] /\ ~failed[e]
    BY <2>1, <2>2 DEF Rest
  <2>4. CASE Down(e)
    BY <2>3, <2>4 DEF Down, Owned
  <2>5. CASE Loaded(e)
    <3>1. PICK l \in Calls : active[e] = l /\ Holds(e, l)
      BY <2>5 DEF Loaded
    <3>2. active[e] # None
      BY <3>1, NoneIsNoCall
    <3> QED BY <2>3, <3>1, <3>2 DEF Holds, Owned
  <2> QED BY <2>2, <2>4, <2>5 DEF Rest, Shape
<1>2. Spec => [](LoadInv /\ ListInv /\ StoryInv)
  BY InitLoadInv, StepLoadInv, InitListInv, StepListInv, InitStoryInv, StepStoryInv, PTL
     DEF Spec
<1> QED BY <1>1, <1>2, PTL
===============================================================================
