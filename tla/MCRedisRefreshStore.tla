------------------------ MODULE MCRedisRefreshStore ------------------------
EXTENDS RedisRefreshStore, TLC

Symmetry == Permutations(Workers)
=============================================================================
