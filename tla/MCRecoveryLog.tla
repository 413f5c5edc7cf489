---------------------------- MODULE MCRecoveryLog ----------------------------
(* Instances of RecoveryLog for TLC. *)
EXTENDS RecoveryLog

CONSTANTS p1, p2, s1, a1, a2, a3, b1, r1, d1, c1, l1, l2

KindByName == [o \in Ops |->
    IF o \in {a1, a2, a3, b1} THEN "append"
    ELSE IF o = r1 THEN "restore"
    ELSE IF o = d1 THEN "delete"
    ELSE IF o = c1 THEN "clear"
    ELSE "list"]

PaneByName == [s \in Snapshots |-> IF s \in {b1, l2} THEN p2 ELSE p1]
=============================================================================
