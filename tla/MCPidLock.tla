----------------------------- MODULE MCPidLock -----------------------------
(* Small instances of PidLock for TLC. *)
EXTENDS PidLock, TLC

CONSTANTS p1, p2, i1, i2, i3

MCTwoPids == {p1, p2}
\* One inode per process and one more that only the path names.
MCThreeInodes == {i1, i2, i3}
MCSymmetryTwo == Permutations(MCTwoPids) \cup Permutations(MCThreeInodes)
=============================================================================
