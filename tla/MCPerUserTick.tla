---------------------------- MODULE MCPerUserTick ----------------------------
(* Instances of PerUserTick for TLC. *)
EXTENDS PerUserTick, TLC

\* Sound for safety: no identity of a call, instance, hash, wallet, owner or
\* request is named by the specification or by its properties.
Symmetry == Permutations(Calls) \cup Permutations(Instances)
            \cup Permutations(Hashes) \cup Permutations(Wallets)
            \cup Permutations(Owners) \cup Permutations(Requests)
=============================================================================
