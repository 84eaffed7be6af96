-------------------------- MODULE MCRefreshRotation --------------------------
EXTENDS RefreshRotation, TLC

Symmetry == Permutations(Reqs)
=============================================================================
