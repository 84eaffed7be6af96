------------------------------ MODULE MCCiba -------------------------------
\* Ciba for TLC.
EXTENDS Ciba, TLC

Symmetry == Permutations(Polls) \cup Permutations(Resolvers)
=============================================================================
