----------------------------- MODULE MCAuthorize -----------------------------
(* Instances of Authorize for TLC. *)
EXTENDS Authorize, TLC

\* Sound: no identity is named by the specification or by its properties.
Symmetry == Permutations(Owners) \cup Permutations(Wallets) \cup Permutations(Requests)
=============================================================================
