---------------------------- MODULE MCScanEngine ----------------------------
(* Instances of ScanEngine for model checking.                             *)
EXTENDS ScanEngineRefinement, TLC

Symmetry == Permutations(Workers) \cup Permutations(Connectors)

=============================================================================
