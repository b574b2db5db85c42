----------------------------- MODULE Filtering ------------------------------
(***************************************************************************)
(* What Array.prototype.filter keeps of a list: the elements that are in a *)
(* set, in their order.                                                    *)
(***************************************************************************)
EXTENDS Naturals, Sequences

Filtered(s, S) ==
  LET kept[k \in 0..Len(s)] ==
        IF k = 0 THEN <<>> ELSE IF s[k] \in S THEN Append(kept[k - 1], s[k]) ELSE kept[k - 1]
  IN kept[Len(s)]
=============================================================================
