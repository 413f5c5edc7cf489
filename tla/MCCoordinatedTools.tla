-------------------------- MODULE MCCoordinatedTools --------------------------
(* Instances of CoordinatedTools for TLC: who makes which call. *)
EXTENDS CoordinatedTools

CONSTANTS o1, o2, o3, o4, s1, s2

\* The agent and the user of tab s1 make o1 and o3, those of s2 o2 and o4.
TwoTabs == [o \in Ops |-> IF o \in {o1, o3} THEN s1 ELSE s2]
OneTab == [o \in Ops |-> s1]

\* Two agents' writes, and a restore the user asks for.
WritesAndRestore == [o \in Ops |-> IF o = o3 THEN "restore" ELSE "write"]

\* An agent's write, and a write Pi sends over the bridge.
WriteAndBridge == [o \in Ops |-> IF o = o1 THEN "write" ELSE "bridge"]

\* A call of each kind.
EveryKind ==
    [o \in Ops |-> CASE o = o1 -> "write" [] o = o2 -> "bridge"
                     [] o = o3 -> "restore" [] o = o4 -> "read"]
=============================================================================
