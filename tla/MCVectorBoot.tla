---------------------------- MODULE MCVectorBoot ----------------------------
(* The vector boot for TLC: nodes, texts and onStoreChanged runs are alike.  *)
EXTENDS VectorBoot, TLC

Symmetry == Permutations(Nodes) \cup Permutations(Texts) \cup Permutations(Hooks)

=============================================================================
