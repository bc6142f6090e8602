---------------------------- MODULE MCSpecWriter ----------------------------
(* Small instances of SpecWriter for TLC. *)
EXTENDS SpecWriter, TLC

CONSTANTS old, upgraded, daemon, cli, runtime, i1, i2, i3

MCValue == {old, upgraded}
MCWriter == {daemon, cli}
MCReader == {runtime}
\* The file and two more: temporary files, or one a reader still has open.
MCInode == {i1, i2, i3}
MCSymmetry ==
    Permutations(MCInode) \cup Permutations(MCWriter) \cup Permutations(MCValue)
=============================================================================
