---------------------------- MODULE MCActionQueue ----------------------------
(* Instances of ActionQueue for TLC. *)
EXTENDS ActionQueue

CONSTANTS p1, p2, p3, c1
=============================================================================
