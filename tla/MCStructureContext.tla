------------------------- MODULE MCStructureContext -------------------------
(* Instances of StructureContext for TLC. *)
EXTENDS StructureContext, TLC

StructureSymmetry == Permutations(Sessions) \cup Permutations(Writes)
=============================================================================
