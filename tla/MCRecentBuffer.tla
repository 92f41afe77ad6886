--------------------------- MODULE MCRecentBuffer ---------------------------
\* Small instances of RecentBuffer for TLC.
EXTENDS RecentBuffer, TLC

CONSTANTS z, a, b, c, d, e

MCNonces == {z, a, b, c, d, e}
\* No two nonces collide; the nonce z has the hash 0.
InjectiveCrc == [n \in MCNonces |-> n]
\* d and e collide.
CollidingCrc == [n \in MCNonces |-> IF n = e THEN d ELSE n]
Symmetry == Permutations({a, b, c, d, e})
=============================================================================
