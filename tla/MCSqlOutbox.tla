---------------------------- MODULE MCSqlOutbox ----------------------------
\* Small instances of SqlOutbox for TLC.
EXTENDS SqlOutbox, TLC

CONSTANTS r1, r2, ch1, ch2

\* r1 polls without channel names, r2 asks for ch2 only.
MCSubscribed == (r1 :> {}) @@ (r2 :> {ch2})
=============================================================================
