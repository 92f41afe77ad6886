---------------------------- MODULE MCPollPolicy ----------------------------
\* Two peers in two groups, for TLC.
EXTENDS PollPolicy

CONSTANTS p, q

\* p is in the first group only, q in both.
TwoGroups == <<{p, q}, {q}>>
=============================================================================
