------------------------------ MODULE MCStage ------------------------------
(* Two documents for TLC: the root of the second is a section of the first.  *)
EXTENDS Stage

CONSTANTS d1, d2, s1, s2

ShownNodes == [d \in {d1, d2} |-> IF d = d1 THEN {s1, d2} ELSE {s2}]

=============================================================================
