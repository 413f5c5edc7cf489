--------------------------- MODULE MCBridgeManager ---------------------------
(* Instances of BridgeManager for TLC.                                     *)
EXTENDS BridgeManager

CONSTANTS m1, m2, m3, m4, m5
=============================================================================
