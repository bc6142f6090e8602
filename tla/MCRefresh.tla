----------------------------- MODULE MCRefresh -----------------------------
(* Small instances of RefreshSystem for TLC. *)
EXTENDS RefreshSystem

CONSTANTS ccl, thunk, watcher, cli

MCTwoLibs == {ccl, thunk}
MCOneLib == {ccl}
MCWatcherOnly == {watcher}
MCWatcherAndCli == {watcher, cli}
MCRegenFaults == {"npu", "rds", "prune"}
MCAllFaults == {"probe", "discover", "npu", "rds", "prune"}
=============================================================================
