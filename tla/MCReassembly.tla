---------------------------- MODULE MCReassembly ----------------------------
\* Small instances of Reassembly for TLC.
EXTENDS Reassembly, TLC

CONSTANTS m1, m2

\* With a byte limit of 6 there are three bytes to a chunk, with 5 there are two.
MCSize   == (m1 :> 6) @@ (m2 :> 5)
LongSize  == (m1 :> 7) @@ (m2 :> 5)
TwoChunks == (m1 :> 6) @@ (m2 :> 6)
Distinct  == (m1 :> 1) @@ (m2 :> 2)
Colliding == (m1 :> 1) @@ (m2 :> 1)
=============================================================================
