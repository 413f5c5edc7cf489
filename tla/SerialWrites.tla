---------------------------- MODULE SerialWrites ----------------------------
(***************************************************************************)
(* What the workbook coordinator promises (workbook/coordinator.ts, the    *)
(* header: "parallel reasoning, serialized workbook mutation").            *)
(*                                                                         *)
(* Every workbook has one line of writes.  A write joins the end of its    *)
(* workbook's line, only the write at the head of a line can finish, and a *)
(* workbook's revision grows by one exactly when a write finishes with     *)
(* success.  Nothing is said of how the line is kept: the coordinator's    *)
(* queue, its active write and its hand-over are refinements.              *)
(***************************************************************************)
EXTENDS Naturals, Sequences

CONSTANTS Ops, Books

VARIABLES
    line,       \* line[b]: the writes of b not yet finished, oldest first
    revision,   \* revision[b]: successful writes of b so far
    result      \* result[o]: "none", "committed" or "failed"

vars == <<line, revision, result>>

Init ==
    /\ line = [b \in Books |-> <<>>]
    /\ revision = [b \in Books |-> 0]
    /\ result = [o \in Ops |-> "none"]

\* A write that is in no line and has no result joins the line of b.
Join(o, b) ==
    /\ result[o] = "none"
    /\ \A d \in Books : \A i \in DOMAIN line[d] : line[d][i] # o
    /\ line' = [line EXCEPT ![b] = Append(@, o)]
    /\ UNCHANGED <<revision, result>>

\* The head of b's line finishes, with success or not.
Finish(b) ==
    /\ line[b] # <<>>
    /\ line' = [line EXCEPT ![b] = Tail(@)]
    /\ \/ /\ result' = [result EXCEPT ![Head(line[b])] = "committed"]
          /\ revision' = [revision EXCEPT ![b] = @ + 1]
       \/ /\ result' = [result EXCEPT ![Head(line[b])] = "failed"]
          /\ UNCHANGED revision

\* A write whose body throws before its first await joins an empty line and
\* fails in the same step: nobody could have seen it in line.
JoinAndFail(o, b) ==
    /\ result[o] = "none"
    /\ \A d \in Books : \A i \in DOMAIN line[d] : line[d][i] # o
    /\ line[b] = <<>>
    /\ result' = [result EXCEPT ![o] = "failed"]
    /\ UNCHANGED <<line, revision>>

Next == \E b \in Books :
    \/ Finish(b)
    \/ \E o \in Ops : Join(o, b) \/ JoinAndFail(o, b)

Spec == Init /\ [][Next]_vars
=============================================================================
