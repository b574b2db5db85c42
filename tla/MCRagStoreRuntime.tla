-------------------------- MODULE MCRagStoreRuntime --------------------------
(* RagStoreRuntime with the symmetry of its configurations. *)
EXTENDS RagStoreRuntime, TLC

Symmetry == Permutations(Names)
=============================================================================
