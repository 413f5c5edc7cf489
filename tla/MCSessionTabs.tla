---------------------------- MODULE MCSessionTabs ----------------------------
(* Instances of SessionTabs for TLC.  Tabs are interchangeable: the one that  *)
(* Reload picks is any of those that lose their session, and starts anew.     *)
EXTENDS SessionTabs, TLC

TabSymmetry == Permutations(Tabs)
=============================================================================
