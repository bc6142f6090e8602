------------------------------ MODULE MCDaemon ------------------------------
(* Small instances of Daemon for TLC. *)
EXTENDS Daemon

CONSTANTS ccl, thunk, daemon

MCTwoLibs == {ccl, thunk}
MCOneLib == {ccl}
MCGenerator == {daemon}
MCBothModes == BOOLEAN
MCCleanup == {TRUE}
MCSetupFaults == {"npu", "rds", "configure"}
MCFileFaults == {"probe", "npu", "rds", "prune", "configure"}
MCAllFaults == {"probe", "discover", "npu", "rds", "prune", "configure", "remove"}
MCSlowProbe == {"probe"}
MCSlowAll == {"probe", "regen", "cleanup"}
=============================================================================
