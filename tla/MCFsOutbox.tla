----------------------------- MODULE MCFsOutbox -----------------------------
\* Small instances of FsOutbox for TLC.
EXTENDS FsOutbox, TLC

CONSTANTS root, front, back

\* A channel whose name sorts before the names of message files (which begin
\* with a digit), and one whose name sorts after them.
MCRank == (front :> -1) @@ (root :> 0) @@ (back :> 1)
MCRankBack == (root :> 0) @@ (back :> 1)
=============================================================================
