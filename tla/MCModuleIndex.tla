--------------------------- MODULE MCModuleIndex ---------------------------
(* Instances of ModuleIndex for TLC. *)
EXTENDS ModuleIndex, TLC

Interchangeable == Permutations(Workers) \cup Permutations(Modules)
=============================================================================
