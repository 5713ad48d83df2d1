---------------------------- MODULE MCPriorityHeap ----------------------------
(* Six values are the fewest for which the last entry of the array and another
   leaf have different parents below the root. *)
EXTENDS PriorityHeap, TLC

Symmetry == Permutations(Value)
=============================================================================
