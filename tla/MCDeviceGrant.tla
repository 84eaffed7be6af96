--------------------------- MODULE MCDeviceGrant ---------------------------
\* DeviceGrant for TLC: polls are interchangeable, and so are decisions
\* and users.
EXTENDS DeviceGrant, TLC

Symmetry == Permutations(Polls) \cup Permutations(Deciders) \cup Permutations(Users)
=============================================================================
