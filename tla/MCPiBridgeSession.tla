-------------------------- MODULE MCPiBridgeSession --------------------------
(* Instances of PiBridgeSession for TLC. *)
EXTENDS MCBridgeServer, PiBridgeSession
=============================================================================
