---------------------------- MODULE MCRamOutbox ----------------------------
\* Small instances of RamOutbox for TLC.
EXTENDS RamOutbox, TLC

CONSTANTS r1, r2, ch1, ch2

\* r1 polls without channel names, r2 asks for ch1 only.
MCSubscribed == (r1 :> {}) @@ (r2 :> {ch1})
=============================================================================
