---------------------------- MODULE MCDashboard ----------------------------
\* Two owners on one page; owners are alike, and so are the slots of start.
EXTENDS Dashboard, TLC

Symmetry == Permutations(Owners) \cup Permutations(Runs)
=============================================================================
