---------------------------- MODULE RuntimeSetup ----------------------------
(***************************************************************************)
(* Who changes the container runtime's configuration on a node, and when   *)
(* the runtime is restarted to load it:                                    *)
(*   daemon   setup of rbln-ctk-daemon (cmd/rbln-ctk-daemon/root.go)       *)
(*   setup    `rbln-ctk-daemon runtime X setup`   (internal/installer)     *)
(*   cleanup  `rbln-ctk-daemon runtime X cleanup` (internal/installer)     *)
(*   cli      `rbln-ctk runtime configure`        (cmd/rbln-ctk)           *)
(* The first three hold the PID lock, the last takes none.  Files are      *)
(* written by os.WriteFile, which truncates first; a program may be killed *)
(* at any step; restarting is asynchronous and may fail.                   *)
(***************************************************************************)
EXTENDS RuntimeConfig, Integers

CONSTANTS
    Actor,       \* processes
    Programs,    \* which programs they run
    Nodes,       \* what the node may be, and what its files may be at first
    Modes,       \* restart modes an operator asks setup and cleanup for
    MaxRetries,  \* attempts of the signal restarter
    FaultyOps,   \* which operations may fail
    MaxFaults    \* bound: how many of them do

ASSUME RuntimeSetupAssumption ==
    /\ Programs \subseteq {"daemon", "setup", "cleanup", "cli"}
    /\ Nodes \subseteq [node : NodeType, conf : File, backup : File]
    /\ Modes \subseteq {"signal", "systemd", "none"}
    /\ MaxRetries \in Nat \ {0}
    /\ MaxFaults \in Nat

VARIABLES
    node,      \* the node; never changes
    conf,      \* the runtime's configuration file, or the drop-in for CRI-O
    backup,    \* the same path with .backup
    spec,      \* rbln.yaml is there
    loaded,    \* what the running runtime has loaded: "cdi", "noCdi", "down"
    reload,    \* it has been told to restart and has not yet
    prog,      \* the program a process runs, or "none"
    pc,        \* where it is
    buf,       \* the content it has in memory
    mode,      \* its restart mode
    tries,     \* attempts of its restarter that failed
    done,      \* how the last installer run ended
    touched,   \* history: Configures that wrote since the last revert, at most two
    orig,      \* history: the configuration file before the first of those writes
    restarts,  \* history: restarts by daemons since another program began, at most two
    faults     \* faults so far

fileVars == <<conf, backup, spec>>
runtimeVars == <<loaded, reload, restarts>>
procVars == <<prog, mode, tries>>
histVars == <<touched, orig>>
vars == <<node, fileVars, runtimeVars, procVars, pc, buf, done, histVars, faults>>

PC == {"idle", "check", "backup", "saveTruncate", "save", "read", "dropIn", "truncate",
       "write", "generate", "removeSpec", "revert", "restoreTruncate", "restore",
       "dropBackup", "removeDropIn", "removeBackup", "restart", "running"}

TypeOK ==
    /\ node \in NodeType
    /\ conf \in File /\ backup \in File /\ orig \in File
    /\ spec \in BOOLEAN
    /\ loaded \in {"cdi", "noCdi", "down"} /\ reload \in BOOLEAN
    /\ prog \in [Actor -> {"none", "daemon", "setup", "cleanup", "cli"}]
    /\ pc \in [Actor -> PC]
    /\ buf \in [Actor -> File]
    /\ mode \in [Actor -> {"signal", "systemd", "none"}]
    /\ tries \in [Actor -> 0..(MaxRetries - 1)]
    /\ done \in {"none", "setup", "cleanup", "unrestarted", "failed"}
    /\ touched \in 0..2
    /\ restarts \in 0..2
    /\ faults \in 0..MaxFaults

Fault(op) ==
    /\ op \in FaultyOps
    /\ faults < MaxFaults
    /\ faults' = faults + 1

GoTo(a, label) == pc' = [pc EXCEPT ![a] = label]
Step(a, from, to) == pc[a] = from /\ GoTo(a, to)
Hold(a, content) == buf' = [buf EXCEPT ![a] = content]

-----------------------------------------------------------------------------
(* Start and end of a program.                                              *)

ConfigureStart == IF node.runtime = "crio" THEN "dropIn" ELSE "backup"

FirstStep == [daemon |-> "check", setup |-> ConfigureStart, cleanup |-> "removeSpec",
              cli |-> ConfigureStart]

\* GetRuntimeDefaults: CRI-O is restarted by systemd, the others by SIGHUP.
\* setup and cleanup refuse the signal mode for CRI-O.
ModesFor(program) ==
    IF program \in {"daemon", "cli"}
    THEN {IF node.runtime = "crio" THEN "systemd" ELSE "signal"}
    ELSE IF node.runtime = "crio" THEN Modes \ {"signal"} ELSE Modes

\* Mutant: nobody takes the lock.
Begin_Unlocked(a, program) ==
    /\ pc[a] = "idle"
    /\ prog' = [prog EXCEPT ![a] = program]
    /\ \E m \in ModesFor(program) : mode' = [mode EXCEPT ![a] = m]
    /\ tries' = [tries EXCEPT ![a] = 0]
    /\ GoTo(a, FirstStep[program])
    /\ Hold(a, Blank)
    /\ spec' = (spec \/ program = "daemon")
    /\ done' = "none"
    /\ restarts' = IF program = "daemon" THEN restarts ELSE 0
    /\ UNCHANGED <<node, conf, backup, loaded, reload, histVars, faults>>

\* The PID lock admits one of daemon, setup and cleanup.  A daemon has
\* regenerated the spec files before it looks at the runtime.
Begin(a, program) ==
    /\ pc[a] = "idle"
    /\ program = "cli" \/ \A b \in Actor : prog[b] \in {"none", "cli"}
    /\ prog' = [prog EXCEPT ![a] = program]
    /\ \E m \in ModesFor(program) : mode' = [mode EXCEPT ![a] = m]
    /\ tries' = [tries EXCEPT ![a] = 0]
    /\ GoTo(a, FirstStep[program])
    /\ Hold(a, Blank)
    /\ spec' = (spec \/ program = "daemon")
    /\ done' = "none"
    /\ restarts' = IF program = "daemon" THEN restarts ELSE 0
    /\ UNCHANGED <<node, conf, backup, loaded, reload, histVars, faults>>

End(a, result) ==
    /\ prog' = [prog EXCEPT ![a] = "none"]
    /\ GoTo(a, "idle")
    /\ Hold(a, Blank)
    /\ done' = IF prog[a] \in {"setup", "cleanup"} THEN result ELSE done
    /\ UNCHANGED <<mode, tries>>

\* A program returns an error.  The daemon process ends with it.
Fails(a) == End(a, "failed")

\* SIGTERM: doCleanup removes the spec files and leaves the runtime alone.
DaemonStops(a) ==
    /\ pc[a] = "running"
    /\ End(a, "failed")
    /\ spec' = FALSE
    /\ UNCHANGED <<node, conf, backup, runtimeVars, histVars, faults>>

Killed(a) ==
    /\ pc[a] # "idle"
    /\ Fault("kill")
    /\ End(a, "failed")
    /\ UNCHANGED <<node, fileVars, runtimeVars, histVars>>

-----------------------------------------------------------------------------
(* The daemon asks CDIReady.                                                *)

\* DetectVersion fails when the binary cannot be run in time.
CheckReady(a) ==
    /\ pc[a] = "check"
    /\ ~Unparsable(node, conf)
    /\ \/ /\ GoTo(a, IF Ready(node, conf, backup, node.default) THEN "running" ELSE ConfigureStart)
          /\ UNCHANGED faults
       \/ /\ Fault("version")
          /\ GoTo(a, IF Ready(node, conf, backup, FALSE) THEN "running" ELSE ConfigureStart)
    /\ UNCHANGED <<node, fileVars, runtimeVars, procVars, buf, done, histVars>>

\* An error is only logged: the daemon goes on to Configure.
CheckFails(a) ==
    /\ Step(a, "check", ConfigureStart)
    /\ \/ Unparsable(node, conf) /\ UNCHANGED faults
       \/ Fault("check")
    /\ UNCHANGED <<node, fileVars, runtimeVars, procVars, buf, done, histVars>>

-----------------------------------------------------------------------------
(* Configure: containerd and Docker make a backup and edit the file, CRI-O  *)
(* gets its drop-in.                                                        *)

\* backupFile: nothing to do without a file.
Backup(a) ==
    /\ pc[a] = "backup"
    /\ Hold(a, conf)
    /\ GoTo(a, IF conf = NoFile THEN "read" ELSE "saveTruncate")
    /\ UNCHANGED <<node, fileVars, runtimeVars, procVars, done, histVars, faults>>

SaveTruncate(a) ==
    /\ Step(a, "saveTruncate", "save")
    /\ backup' = Blank
    /\ UNCHANGED <<node, conf, spec, runtimeVars, procVars, buf, done, histVars, faults>>

Save(a) ==
    /\ Step(a, "save", "read")
    /\ backup' = buf[a]
    /\ UNCHANGED <<node, conf, spec, runtimeVars, procVars, buf, done, histVars, faults>>

ReadAndEnable(a) ==
    /\ Step(a, "read", "truncate")
    /\ conf # Broken
    /\ Hold(a, Enable(node, Read(conf)))
    /\ orig' = IF touched > 0 THEN orig ELSE conf
    /\ UNCHANGED <<node, fileVars, runtimeVars, procVars, done, touched, faults>>

ReadRefuses(a) ==
    /\ pc[a] = "read"
    /\ conf = Broken
    /\ Fails(a)
    /\ UNCHANGED <<node, fileVars, runtimeVars, histVars, faults>>

PrepareDropIn(a) ==
    /\ Step(a, "dropIn", "truncate")
    /\ Hold(a, DropIn)
    /\ orig' = IF touched > 0 THEN orig ELSE conf
    /\ UNCHANGED <<node, fileVars, runtimeVars, procVars, done, touched, faults>>

\* os.WriteFile opens with O_TRUNC ...
Truncate(a) ==
    /\ Step(a, "truncate", "write")
    /\ conf' = Blank
    /\ UNCHANGED <<node, backup, spec, runtimeVars, procVars, buf, done, histVars, faults>>

\* ... and then writes.
Write(a) ==
    /\ pc[a] = "write"
    /\ conf' = buf[a]
    /\ touched' = IF prog[a] = "cleanup" THEN 0 ELSE IF touched < 2 THEN touched + 1 ELSE 2
    /\ \/ /\ prog[a] \in {"daemon", "cleanup"}
          /\ GoTo(a, "restart")
          /\ UNCHANGED <<procVars, buf, done>>
       \/ /\ prog[a] = "setup"
          /\ GoTo(a, "generate")
          /\ UNCHANGED <<procVars, buf, done>>
       \/ /\ prog[a] = "cli"
          /\ End(a, "none")
    /\ UNCHANGED <<node, backup, spec, runtimeVars, orig, faults>>

\* The disk is full.  cleanup only logs the error and restarts the runtime.
WriteFails(a) ==
    /\ pc[a] = "write"
    /\ Fault("write")
    /\ \/ /\ prog[a] = "cleanup"
          /\ GoTo(a, "restart")
          /\ UNCHANGED <<procVars, buf, done>>
       \/ /\ prog[a] # "cleanup"
          /\ Fails(a)
    /\ UNCHANGED <<node, fileVars, runtimeVars, histVars>>

ConfigureStep(a) ==
    \/ Backup(a) \/ SaveTruncate(a) \/ Save(a)
    \/ ReadAndEnable(a) \/ ReadRefuses(a) \/ PrepareDropIn(a)
    \/ Truncate(a) \/ Write(a) \/ WriteFails(a)

-----------------------------------------------------------------------------
(* setup generates the spec files after the configuration.                  *)

Generate(a) ==
    /\ Step(a, "generate", "restart")
    /\ spec' = TRUE
    /\ UNCHANGED <<node, conf, backup, runtimeVars, procVars, buf, done, histVars, faults>>

\* Setup returns: configured, not restarted.
GenerateFails(a) ==
    /\ pc[a] = "generate"
    /\ Fault("generate")
    /\ Fails(a)
    /\ UNCHANGED <<node, fileVars, runtimeVars, histVars>>

-----------------------------------------------------------------------------
(* cleanup.  Whatever fails up to the restart is only logged.               *)

RevertStart == IF node.runtime = "crio" THEN "removeDropIn" ELSE "revert"

RemoveSpec(a) ==
    /\ Step(a, "removeSpec", RevertStart)
    /\ \/ spec' = FALSE /\ UNCHANGED faults
       \/ Fault("remove") /\ UNCHANGED spec
    /\ UNCHANGED <<node, conf, backup, runtimeVars, procVars, buf, done, histVars>>

\* Mutant: the backup is not looked at.
Revert_StripOnly(a) ==
    /\ pc[a] = "revert"
    /\ Hold(a, Disable(node, conf))
    /\ GoTo(a, IF RevertWrites(node, conf) THEN "truncate" ELSE "restart")
    /\ UNCHANGED <<node, fileVars, runtimeVars, procVars, done, histVars, faults>>

Revert(a) ==
    /\ pc[a] = "revert"
    /\ \/ /\ backup # NoFile
          /\ Hold(a, backup)
          /\ GoTo(a, "restoreTruncate")
       \/ /\ backup = NoFile
          /\ Hold(a, Disable(node, conf))
          /\ GoTo(a, IF RevertWrites(node, conf) THEN "truncate" ELSE "restart")
    /\ UNCHANGED <<node, fileVars, runtimeVars, procVars, done, histVars, faults>>

RestoreTruncate(a) ==
    /\ Step(a, "restoreTruncate", "restore")
    /\ conf' = Blank
    /\ UNCHANGED <<node, backup, spec, runtimeVars, procVars, buf, done, histVars, faults>>

Restore(a) ==
    /\ Step(a, "restore", "dropBackup")
    /\ conf' = buf[a]
    /\ touched' = 0
    /\ UNCHANGED <<node, backup, spec, runtimeVars, procVars, buf, done, orig, faults>>

RestoreFails(a) ==
    /\ Step(a, "restore", "restart")
    /\ Fault("write")
    /\ UNCHANGED <<node, fileVars, runtimeVars, procVars, buf, done, histVars>>

\* The result of this removal is ignored.
DropBackup(a) ==
    /\ Step(a, "dropBackup", "restart")
    /\ \/ backup' = NoFile /\ UNCHANGED faults
       \/ Fault("remove") /\ UNCHANGED backup
    /\ UNCHANGED <<node, conf, spec, runtimeVars, procVars, buf, done, histVars>>

RemoveDropIn(a) ==
    /\ Step(a, "removeDropIn", "removeBackup")
    /\ conf' = NoFile
    /\ touched' = 0
    /\ UNCHANGED <<node, backup, spec, runtimeVars, procVars, buf, done, orig, faults>>

RemoveBackup(a) ==
    /\ Step(a, "removeBackup", "restart")
    /\ backup' = NoFile
    /\ UNCHANGED <<node, conf, spec, runtimeVars, procVars, buf, done, histVars, faults>>

RemoveFails(a) ==
    /\ pc[a] \in {"removeDropIn", "removeBackup"}
    /\ GoTo(a, "restart")
    /\ Fault("remove")
    /\ UNCHANGED <<node, fileVars, runtimeVars, procVars, buf, done, histVars>>

CleanupStep(a) ==
    \/ RemoveSpec(a) \/ Revert(a)
    \/ RestoreTruncate(a) \/ Restore(a) \/ RestoreFails(a) \/ DropBackup(a)
    \/ RemoveDropIn(a) \/ RemoveBackup(a) \/ RemoveFails(a)

-----------------------------------------------------------------------------
(* Restarting the runtime.                                                  *)

CountRestart(a) ==
    restarts' = IF prog[a] = "daemon" /\ restarts < 2 THEN restarts + 1 ELSE restarts

\* A daemon keeps running whether or not the restart worked.
Restarted(a, result) ==
    \/ /\ prog[a] = "daemon"
       /\ GoTo(a, "running")
       /\ UNCHANGED <<procVars, buf, done>>
    \/ /\ prog[a] # "daemon"
       /\ End(a, result)

RestartSkipped(a) ==
    /\ pc[a] = "restart"
    /\ mode[a] = "none"
    /\ Restarted(a, "unrestarted")
    /\ UNCHANGED <<node, fileVars, runtimeVars, histVars, faults>>

\* setup() of the daemon puts the host root before a default socket path.  In
\* Setup and Cleanup socketUserProvided is computed after the default has been
\* filled in, so they use the path of their own container.
SocketReachable(a) ==
    /\ loaded # "down"
    /\ node.mounted => prog[a] = "daemon"

\* SIGHUP was delivered; the runtime restarts in its own time.
SignalRestart(a) ==
    /\ pc[a] = "restart"
    /\ mode[a] = "signal"
    /\ SocketReachable(a)
    /\ reload' = TRUE
    /\ CountRestart(a)
    /\ Restarted(a, prog[a])
    /\ UNCHANGED <<node, fileVars, loaded, histVars, faults>>

\* Mutant: the loop has no limit.
SignalFails_Unlimited(a) ==
    /\ pc[a] = "restart"
    /\ mode[a] = "signal"
    /\ \/ ~SocketReachable(a) /\ UNCHANGED faults
       \/ SocketReachable(a) /\ Fault("restart")
    /\ UNCHANGED <<node, fileVars, runtimeVars, procVars, pc, buf, done, histVars>>

\* Mutant: one attempt too many.
SignalFails_OneMore(a) ==
    /\ pc[a] = "restart"
    /\ mode[a] = "signal"
    /\ \/ ~SocketReachable(a) /\ UNCHANGED faults
       \/ SocketReachable(a) /\ Fault("restart")
    /\ \/ /\ tries[a] < MaxRetries
          /\ tries' = [tries EXCEPT ![a] = @ + 1]
          /\ UNCHANGED <<prog, mode, pc, buf, done>>
       \/ /\ tries[a] = MaxRetries
          /\ Restarted(a, "failed")
    /\ UNCHANGED <<node, fileVars, runtimeVars, histVars>>

\* Mutant: after the last attempt nothing tells that none succeeded.
SignalFails_AsDone(a) ==
    /\ pc[a] = "restart"
    /\ mode[a] = "signal"
    /\ \/ ~SocketReachable(a) /\ UNCHANGED faults
       \/ SocketReachable(a) /\ Fault("restart")
    /\ \/ /\ tries[a] + 1 < MaxRetries
          /\ tries' = [tries EXCEPT ![a] = @ + 1]
          /\ UNCHANGED <<prog, mode, pc, buf, done>>
       \/ /\ tries[a] + 1 = MaxRetries
          /\ Restarted(a, prog[a])
    /\ UNCHANGED <<node, fileVars, runtimeVars, histVars>>

\* getPID or kill fails: sleep and try again, up to MaxRetries attempts.
SignalFails(a) ==
    /\ pc[a] = "restart"
    /\ mode[a] = "signal"
    /\ \/ ~SocketReachable(a) /\ UNCHANGED faults
       \/ SocketReachable(a) /\ Fault("restart")
    /\ \/ /\ tries[a] + 1 < MaxRetries
          /\ tries' = [tries EXCEPT ![a] = @ + 1]
          /\ UNCHANGED <<prog, mode, pc, buf, done>>
       \/ /\ tries[a] + 1 = MaxRetries
          /\ Restarted(a, "failed")
    /\ UNCHANGED <<node, fileVars, runtimeVars, histVars>>

\* systemctl restart returns when the unit is up, with an error if it is not.
SystemdRestart(a) ==
    /\ pc[a] = "restart"
    /\ mode[a] = "systemd"
    /\ loaded' = Loads(node, conf, backup)
    /\ reload' = FALSE
    /\ CountRestart(a)
    /\ Restarted(a, IF loaded' = "down" THEN "failed" ELSE prog[a])
    /\ UNCHANGED <<node, fileVars, histVars, faults>>

\* It fails, or it times out and the job it has started goes on without it.
SystemdFails(a) ==
    /\ pc[a] = "restart"
    /\ mode[a] = "systemd"
    /\ Fault("restart")
    /\ \/ UNCHANGED <<reload, restarts>>
       \/ reload' = TRUE /\ CountRestart(a)
    /\ Restarted(a, "failed")
    /\ UNCHANGED <<node, fileVars, loaded, histVars>>

RestartStep(a) ==
    \/ RestartSkipped(a) \/ SignalRestart(a) \/ SignalFails(a)
    \/ SystemdRestart(a) \/ SystemdFails(a)

\* The runtime restarts, on request or for a reason of its own.
RuntimeRestarts ==
    /\ loaded' = Loads(node, conf, backup)
    /\ reload' = FALSE
    /\ UNCHANGED <<node, fileVars, restarts, procVars, pc, buf, done, histVars, faults>>

-----------------------------------------------------------------------------
ActorStep(a) ==
    \/ CheckReady(a) \/ CheckFails(a)
    \/ ConfigureStep(a)
    \/ Generate(a) \/ GenerateFails(a)
    \/ CleanupStep(a)
    \/ RestartStep(a)

Init ==
    /\ \E n \in Nodes : node = n.node /\ conf = n.conf /\ backup = n.backup
    /\ orig = conf
    /\ spec = FALSE
    /\ loaded = Loads(node, conf, backup)
    /\ reload = FALSE
    /\ prog = [a \in Actor |-> "none"]
    /\ pc = [a \in Actor |-> "idle"]
    /\ buf = [a \in Actor |-> Blank]
    /\ mode = [a \in Actor |-> "none"]
    /\ tries = [a \in Actor |-> 0]
    /\ done = "none"
    /\ touched = 0
    /\ restarts = 0
    /\ faults = 0

Next ==
    \/ \E a \in Actor :
          \/ \E program \in Programs : Begin(a, program)
          \/ ActorStep(a)
          \/ DaemonStops(a)
          \/ Killed(a)
    \/ RuntimeRestarts

Spec == Init /\ [][Next]_vars

\* Programs run; a runtime that was told to restart does.
FairSpec ==
    /\ Spec
    /\ \A a \in Actor : WF_vars(ActorStep(a))
    /\ WF_vars(RuntimeRestarts /\ reload)

-----------------------------------------------------------------------------
(* Properties.                                                              *)

Quiet == \A a \in Actor : pc[a] \in {"idle", "running"}

\* README, "A node with CDI initially disabled is restarted once, on the
\* first deploy": however often the daemon is redeployed, killed in the middle
\* of its setup or hit by a failing write or restart, daemons restart the
\* runtime at most once, unless another program has touched the node since.
RestartOnce == restarts <= 1

\* The other half of that sentence: once a daemon's setup is over, the runtime
\* serves CDI, or is about to restart into doing so.
DaemonServes ==
    (\E a \in Actor : pc[a] = "running") => loaded = "cdi" \/ reload

\* A setup that reports success has left the spec file, a configuration that
\* exposes it, and a runtime that has loaded that configuration or is about to.
SetupServes ==
    done = "setup" /\ Quiet =>
        /\ spec
        /\ Loads(node, conf, backup) = "cdi"
        /\ loaded = "cdi" \/ reload

\* containerd_config.go: the edit "preserves every unrelated setting by value".
\* No sequence of setups, cleanups and deployments loses the operator's own
\* settings, from the file or from the backup it is restored from.
SettingsKept ==
    Quiet /\ orig \in Text /\ orig.own =>
        /\ conf \in Text => conf.own
        /\ backup \in Text => backup.own

Reverted == conf = orig \/ orig = NoFile \/ node.runtime = "crio"

\* README: cleanup will "restore the backed-up config", which returns it "to
\* its pre-CTK state".  The step by which it finishes its edit of a file that
\* one Configure had changed leaves the file as it was before; CRI-O's drop-in
\* is the toolkit's own.
CleanupReverts == [][touched = 1 /\ touched' = 0 => Reverted']_vars

\* The same, however many Configures there were.
CleanupAlwaysReverts == [][touched > 0 /\ touched' = 0 => Reverted']_vars

\* disableCDIInContainerdConfig "removes CDI settings from containerd config":
\* no step turns a configuration file that parses into one that does not.
StaysValid == [][conf # Broken => conf' # Broken]_vars

\* `runtime X setup --host-root-mount=/host` is documented for a DaemonSet.
\* While nothing fails, setup of a valid configuration does not fail either.
SetupSucceeds == done = "failed" /\ orig # Broken => faults > 0

\* Every program gets past its steps, retries included: it ends, or runs as a
\* daemon.
ProgramsEnd == \A a \in Actor : pc[a] = "restart" ~> pc[a] \in {"idle", "running"}
=============================================================================
