----------------------------- MODULE MCRagStore -----------------------------
(* RagStoreHistory with the small sets of its configurations. *)
EXTENDS RagStoreHistory, TLC

CONSTANTS n1, n2, e1, e2

Symmetry == Permutations(NodeIds) \cup Permutations(EdgeIds)
=============================================================================
