--------------------------- MODULE MCRebalanceTick ---------------------------
(* Instances of RebalanceTick for TLC. *)
EXTENDS RebalanceTick, TLC

\* Sound for safety: calls and instances are interchangeable.
Symmetry == Permutations(Calls) \cup Permutations(Instances)
=============================================================================
