------------------------- MODULE MCExtensionRuntimes -------------------------
(* Instances of ExtensionRuntimes for TLC. *)
EXTENDS ExtensionRuntimes

CONSTANTS e1, e2, t1, boot, off, on, again, permit, gone, gone2, install

OneName == [e \in Exts |-> t1]
OneStored == <<e1>>

\* The stored extension e1 is started, switched, reloaded and uninstalled; e2
\* is installed beside it, and both want the same tool name.
KindByName == [c \in Calls |->
    CASE c = boot -> "boot" [] c = off -> "disable" [] c = on -> "enable"
      [] c = again -> "reload" [] c = permit -> "permit"
      [] c \in {gone, gone2} -> "uninstall" [] c = install -> "install"]
ExtByName == [c \in Calls |-> IF c \in {install, gone2} THEN e2 ELSE e1]
=============================================================================
