----------------------------- MODULE MCRuntime -----------------------------
(* Small instances of RuntimeSetup for TLC. *)
EXTENDS RuntimeSetup

CONSTANTS toolkit, operator

MCOneActor == {toolkit}
MCTwoActors == {toolkit, operator}

MCNode(runtime, default, mounted) ==
    [runtime |-> runtime, default |-> default, below |-> "unset", above |-> "unset",
     mounted |-> mounted]

MCStart(nodes, confs, backups) ==
    {[node |-> n, conf |-> c, backup |-> b] : n \in nodes, c \in confs, b \in backups}

\* An operator's file, with the list of dirs on one line or on several.
MCTexts(dirs, layouts) ==
    {[cdi |-> s, dirs |-> d, many |-> m, own |-> TRUE] :
        s \in Setting, d \in dirs, m \in layouts}

MCContainerd(layouts, mounted) ==
    MCStart({MCNode("containerd", default, mounted) : default \in BOOLEAN},
            {NoFile, Broken} \cup MCTexts(Dirs, layouts), {NoFile})

MCDocker ==
    MCStart({MCNode("docker", default, FALSE) : default \in BOOLEAN},
            {NoFile, Broken} \cup MCTexts({"unset"}, {FALSE}), {NoFile})

\* Other files of a CRI-O node; an older toolkit may have left a backup.
MCCrio(aboves) ==
    MCStart({[MCNode("crio", TRUE, FALSE) EXCEPT !.below = below, !.above = above] :
                below \in Dirs, above \in aboves},
            {NoFile, DropIn, [DropIn EXCEPT !.dirs = "misses"]}, {NoFile, DropIn})

\* No file that is read after the toolkit's drop-in takes its setting back.
MCAll == MCContainerd({FALSE}, FALSE) \cup MCDocker \cup MCCrio({"unset", "covers"})
MCOverridden == MCCrio({"misses"})
MCMultiLine == MCContainerd({TRUE}, FALSE)
MCMounted == MCContainerd({FALSE}, TRUE)
MCOneOfEach ==
    MCStart({MCNode("containerd", FALSE, m) : m \in BOOLEAN} \cup {MCNode("docker", FALSE, FALSE)},
            MCTexts({"unset"}, {FALSE}), {NoFile})
    \cup MCStart({MCNode("crio", TRUE, FALSE)}, {DropIn}, {NoFile})

MCDaemon == {"daemon"}
MCInstaller == {"setup", "cleanup"}
MCLocked == {"daemon", "setup", "cleanup"}
MCDaemonCli == {"daemon", "cli"}
MCDaemonCleanup == {"daemon", "cleanup"}
MCAllPrograms == {"daemon", "setup", "cleanup", "cli"}
MCRestarting == {"signal", "systemd"}
MCAllModes == {"signal", "systemd", "none"}
MCDaemonFaults == {"version", "write", "restart", "kill"}
\* All but an error of CDIReady, which makes every daemon configure again.
MCMostFaults == {"version", "write", "restart", "kill", "remove", "generate"}
MCAllFaults == {"version", "check", "write", "restart", "kill", "remove", "generate"}
=============================================================================
