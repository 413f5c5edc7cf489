---------------------------- MODULE MCSaveBoundary ----------------------------
(* Instances of SaveBoundary and, below it, of RecoveryLog for TLC. *)
EXTENDS MCRecoveryLog, SaveBoundary
=============================================================================
