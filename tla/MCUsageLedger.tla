--------------------------- MODULE MCUsageLedger ---------------------------
\* UsageLedger for TLC.
EXTENDS UsageLedger, TLC

Symmetry == Permutations(Calls) \cup Permutations(Keys) \cup Permutations(Reservations)
=============================================================================
