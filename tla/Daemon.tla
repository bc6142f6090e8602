------------------------------- MODULE Daemon -------------------------------
(***************************************************************************)
(* The life of one rbln-ctk-daemon process after another on a node:        *)
(* runDaemon (cmd/rbln-ctk-daemon/root.go) and Daemon.Run                  *)
(* (internal/daemon/daemon.go).  Four goroutines share the process: main,  *)
(* the signal handler, the refresh watcher, and the one that runs the      *)
(* cleanup function under a timeout.  A process may be killed at any step; *)
(* the files it wrote and the PID file then stay for the next one.         *)
(*                                                                         *)
(* The mutual exclusion of two daemons is the subject of PidLock; here one *)
(* process runs at a time and holds the lock from its first step.          *)
(***************************************************************************)
EXTENDS Watcher

CONSTANTS
    RefreshEnabled,  \* --refresh-interval > 0
    CleanupModes,    \* the values --no-cleanup-on-exit gives to cleanupOnExit
    SlowIO,          \* which I/O may outlast ShutdownTimeout, a subset of
                     \* {"probe", "regen", "cleanup"}
    MaxBoots         \* bound: how many processes are started

ASSUME DaemonAssumption ==
    /\ RefreshEnabled \in BOOLEAN
    /\ CleanupModes \subseteq BOOLEAN
    /\ CleanupModes # {}
    /\ MaxBoots \in Nat

VARIABLES
    mpc,       \* where main is, "down" when there is no process
    spc,       \* where the signal goroutine is, "off" before signal.Notify
    cpc,       \* where the cleanup goroutine is
    state,     \* StateMachine.current
    started,   \* /startup answers 200
    ready,     \* /ready answers 200
    sig,       \* a signal is in sigCh
    waiting,   \* waitingForSignal is closed
    received,  \* signalReceived is closed
    lock,      \* the process holds the PID file's lock
    pidFile,   \* the PID file exists
    how,       \* how the last process ended
    cleanupOnExit,  \* this process was started without --no-cleanup-on-exit
    boots,     \* processes started so far
    bootHost   \* history: the host's libraries when this process started

procVars == <<mpc, spc, cpc>>
runVars == <<state, started, ready, sig, waiting, received>>
lockVars == <<lock, pidFile>>
histVars == <<how, cleanupOnExit, boots, bootHost>>
daemonVars == <<procVars, runVars, lockVars, histVars>>
vars == <<cdiVars, watchVars, daemonVars>>

States == {"starting", "running", "shutting_down", "stopped", "failed"}

MPc == {"down", "setup", "configure", "run", "announce", "ready", "launch", "arm",
        "await", "stopping", "cancel", "join", "cleanup", "cleaning", "stop",
        "release", "exit"}

\* The signal goroutine has decided to end the process by itself.
EarlySPc == {"early", "earlyState", "earlyClean", "earlyWait", "earlyStop"}
SPc == {"off", "listen", "handed"} \cup EarlySPc

CPc == {"off", "npu", "rds", "done"}

How == {"none", "graceful", "early", "terminated", "killed", "setupFailed"}

ProcessTypeOK ==
    /\ mpc \in MPc /\ spc \in SPc /\ cpc \in CPc
    /\ state \in States
    /\ started \in BOOLEAN /\ ready \in BOOLEAN
    /\ sig \in BOOLEAN /\ waiting \in BOOLEAN /\ received \in BOOLEAN
    /\ lock \in BOOLEAN /\ pidFile \in BOOLEAN
    /\ how \in How
    /\ cleanupOnExit \in BOOLEAN
    /\ boots \in 0..MaxBoots
    /\ bootHost \in LibMap

TypeOK == CdiTypeOK /\ WatcherTypeOK /\ ProcessTypeOK

Up == mpc # "down"
EarlyExit == spc \in EarlySPc
CleanupRunning == cpc \in {"npu", "rds"}

\* TransitionTo: an invalid transition is refused, which setState only logs.
validTransitions ==
    [starting      |-> {"running", "failed"},
     running       |-> {"shutting_down"},
     shutting_down |-> {"stopped"},
     failed        |-> {"stopped"},
     stopped       |-> {}]

setState(to) == state' = IF to \in validTransitions[state] THEN to ELSE state

-----------------------------------------------------------------------------
(* Start of a process: lock, setup, Run up to the wait for a signal.        *)

\* Everything in memory starts from zero; the files are as they were left.
FreshMemory ==
    /\ spc' = "off" /\ cpc' = "off" /\ wpc' = "off"
    /\ state' = "starting"
    /\ started' = FALSE /\ ready' = FALSE
    /\ sig' = FALSE /\ waiting' = FALSE /\ received' = FALSE
    /\ ctxDone' = FALSE /\ lastErr' = FALSE /\ check' = "none"
    /\ last' = EmptyMap /\ prev' = EmptyMap

\* Mutant: setup keeps a file that is already there.
Boot_KeepExisting ==
    /\ mpc = "down"
    /\ boots < MaxBoots
    /\ mpc' = IF npu = NoSpec THEN "setup" ELSE "configure"
    /\ FreshMemory
    /\ lock' = TRUE /\ pidFile' = TRUE
    /\ how' = "none"
    /\ cleanupOnExit' \in CleanupModes
    /\ boots' = boots + 1
    /\ bootHost' = host
    /\ IF npu = NoSpec THEN BeginGenerate(Self) ELSE UNCHANGED <<gstage, scanVars>>
    /\ UNCHANGED <<hostVars, fileVars, faults>>

\* runDaemon: AcquirePIDLock, then setup enters regenerateCDISpec, which the
\* watcher's callback shares (generator Self; the watcher does not run yet).
Boot ==
    /\ mpc = "down"
    /\ boots < MaxBoots
    /\ mpc' = "setup"
    /\ FreshMemory
    /\ lock' = TRUE /\ pidFile' = TRUE
    /\ how' = "none"
    /\ cleanupOnExit' \in CleanupModes
    /\ boots' = boots + 1
    /\ bootHost' = host
    /\ BeginGenerate(Self)
    /\ UNCHANGED <<hostVars, fileVars, faults>>

SetupGenerate ==
    /\ mpc = "setup"
    /\ GenerateStep(Self)
    /\ UNCHANGED <<watchVars, daemonVars>>

SetupGenerated ==
    /\ mpc = "setup"
    /\ gstage[Self] = "ok"
    /\ SetStage(Self, "idle")
    /\ mpc' = "configure"
    /\ UNCHANGED <<hostVars, fileVars, scanVars, faults, watchVars, spc, cpc, runVars, lockVars, histVars>>

\* The process is gone: its goroutines stop where they are, and the kernel
\* drops its lock.
Vanish(reason) ==
    /\ mpc' = "down"
    /\ FreshMemory
    /\ gstage' = [gstage EXCEPT ![Self] = "idle"]
    /\ found' = [found EXCEPT ![Self] = EmptyMap]
    /\ todo' = [todo EXCEPT ![Self] = {}]
    /\ lock' = FALSE
    /\ how' = reason
    /\ UNCHANGED <<hostVars, fileVars, faults, cleanupOnExit, boots, bootHost>>

\* setup returns an error: the deferred ReleasePIDLock, no cleanup.
SetupFails ==
    /\ mpc = "setup"
    /\ gstage[Self] = "failed"
    /\ Vanish("setupFailed")
    /\ pidFile' = FALSE

\* Configuring (and perhaps restarting) the container runtime: RuntimeSetup.
ConfigureRuntime ==
    /\ mpc = "configure"
    /\ mpc' = "run"
    /\ UNCHANGED <<cdiVars, watchVars, spc, cpc, runVars, lockVars, histVars>>

ConfigureFails ==
    /\ mpc = "configure"
    /\ "configure" \in FaultyOps
    /\ Vanish("setupFailed")
    /\ pidFile' = FALSE

\* SetStarted, signal.Notify, go signal handler.
RunStart ==
    /\ mpc = "run"
    /\ started' = TRUE
    /\ spc' = "listen"
    /\ mpc' = "announce"
    /\ UNCHANGED <<cdiVars, watchVars, cpc, state, ready, sig, waiting, received, lockVars, histVars>>

AnnounceRunning ==
    /\ mpc = "announce"
    /\ setState("running")
    /\ mpc' = "ready"
    /\ UNCHANGED <<cdiVars, watchVars, spc, cpc, started, ready, sig, waiting, received, lockVars, histVars>>

AnnounceReady ==
    /\ mpc = "ready"
    /\ ready' = TRUE
    /\ mpc' = "launch"
    /\ UNCHANGED <<cdiVars, watchVars, spc, cpc, state, started, sig, waiting, received, lockVars, histVars>>

\* go watcher.Run, or close(watcherDone) when there is no watcher.
LaunchWatcher ==
    /\ mpc = "launch"
    /\ wpc' = IF RefreshEnabled THEN "start" ELSE "done"
    /\ mpc' = "arm"
    /\ UNCHANGED <<cdiVars, ctxDone, last, prev, lastErr, check, spc, cpc, runVars, lockVars, histVars>>

Arm ==
    /\ mpc = "arm"
    /\ waiting' = TRUE
    /\ mpc' = "await"
    /\ UNCHANGED <<cdiVars, watchVars, spc, cpc, state, started, ready, sig, received, lockVars, histVars>>

-----------------------------------------------------------------------------
(* Graceful shutdown, in the order of Daemon.Run.                           *)

\* Mutant: shutdown forgets to withdraw readiness.
BeginShutdown_StillReady ==
    /\ mpc = "await"
    /\ received
    /\ mpc' = "stopping"
    /\ UNCHANGED <<cdiVars, watchVars, spc, cpc, runVars, lockVars, histVars>>

BeginShutdown ==
    /\ mpc = "await"
    /\ received
    /\ ready' = FALSE
    /\ mpc' = "stopping"
    /\ UNCHANGED <<cdiVars, watchVars, spc, cpc, state, started, sig, waiting, received, lockVars, histVars>>

AnnounceShutdown ==
    /\ mpc = "stopping"
    /\ setState("shutting_down")
    /\ mpc' = "cancel"
    /\ UNCHANGED <<cdiVars, watchVars, spc, cpc, started, ready, sig, waiting, received, lockVars, histVars>>

CancelWatcher ==
    /\ mpc = "cancel"
    /\ ctxDone' = TRUE
    /\ mpc' = "join"
    /\ UNCHANGED <<cdiVars, wpc, last, prev, lastErr, check, spc, cpc, runVars, lockVars, histVars>>

\* The watcher sits in an I/O operation that may outlast ShutdownTimeout.
WatcherOverdue ==
    \/ wpc \in {"baseline", "probe"} /\ "probe" \in SlowIO
    \/ wpc = "generate" /\ "regen" \in SlowIO

\* Mutant: shutdown does not wait for the watcher.
JoinWatcher_NoWait ==
    /\ mpc = "join"
    /\ mpc' = "cleanup"
    /\ UNCHANGED <<cdiVars, watchVars, spc, cpc, runVars, lockVars, histVars>>

\* Mutant: the wait for the watcher has no timeout.
JoinWatcher_NoTimeout ==
    /\ mpc = "join"
    /\ wpc = "done"
    /\ mpc' = "cleanup"
    /\ UNCHANGED <<cdiVars, watchVars, spc, cpc, runVars, lockVars, histVars>>

\* watcherDone is closed, or ShutdownTimeout passes and the goroutine leaks.
JoinWatcher ==
    /\ mpc = "join"
    /\ wpc = "done" \/ WatcherOverdue
    /\ mpc' = "cleanup"
    /\ UNCHANGED <<cdiVars, watchVars, spc, cpc, runVars, lockVars, histVars>>

\* Mutant: --no-cleanup-on-exit is ignored.
BeginCleanup_Always ==
    /\ mpc = "cleanup"
    /\ cpc' = "npu"
    /\ mpc' = "cleaning"
    /\ UNCHANGED <<cdiVars, watchVars, spc, runVars, lockVars, histVars>>

BeginCleanup ==
    /\ mpc = "cleanup"
    /\ \/ /\ cleanupOnExit
          /\ cpc' = "npu"
          /\ mpc' = "cleaning"
       \/ /\ ~cleanupOnExit
          /\ mpc' = "stop"
          /\ UNCHANGED cpc
    /\ UNCHANGED <<cdiVars, watchVars, spc, runVars, lockVars, histVars>>

\* The wait in doCleanup ends: cleanup is done or the timeout has passed.
CleanupOver == cpc = "done" \/ "cleanup" \in SlowIO

\* Mutant: doCleanup starts the goroutine and returns.
EndCleanup_NoWait ==
    /\ mpc = "cleaning"
    /\ mpc' = "stop"
    /\ UNCHANGED <<cdiVars, watchVars, spc, cpc, runVars, lockVars, histVars>>

EndCleanup ==
    /\ mpc = "cleaning"
    /\ CleanupOver
    /\ mpc' = "stop"
    /\ UNCHANGED <<cdiVars, watchVars, spc, cpc, runVars, lockVars, histVars>>

AnnounceStopped ==
    /\ mpc = "stop"
    /\ setState("stopped")
    /\ mpc' = "release"
    /\ UNCHANGED <<cdiVars, watchVars, spc, cpc, started, ready, sig, waiting, received, lockVars, histVars>>

\* The deferred releasePIDLock; leaked goroutines live on until the exit.
ReleasePID ==
    /\ mpc = "release"
    /\ lock' = FALSE
    /\ pidFile' = FALSE
    /\ mpc' = "exit"
    /\ UNCHANGED <<cdiVars, watchVars, spc, cpc, runVars, histVars>>

Exit ==
    /\ mpc = "exit"
    /\ Vanish("graceful")
    /\ UNCHANGED pidFile

MainStep ==
    \/ SetupGenerate \/ SetupGenerated \/ SetupFails
    \/ ConfigureRuntime \/ ConfigureFails
    \/ RunStart \/ AnnounceRunning \/ AnnounceReady \/ LaunchWatcher \/ Arm
    \/ BeginShutdown \/ AnnounceShutdown \/ CancelWatcher \/ JoinWatcher
    \/ BeginCleanup \/ EndCleanup \/ AnnounceStopped \/ ReleasePID \/ Exit

-----------------------------------------------------------------------------
(* The signal goroutine.  It handles one signal; when main does not wait    *)
(* for it yet, it shuts down by itself while main keeps going.              *)

HandOver ==
    /\ spc = "listen"
    /\ sig
    /\ waiting
    /\ received' = TRUE
    /\ spc' = "handed"
    /\ UNCHANGED <<cdiVars, watchVars, mpc, cpc, state, started, ready, sig, waiting, lockVars, histVars>>

EarlySignal ==
    /\ spc = "listen"
    /\ sig
    /\ ~waiting
    /\ spc' = "early"
    /\ UNCHANGED <<cdiVars, watchVars, mpc, cpc, runVars, lockVars, histVars>>

EarlyNotReady ==
    /\ spc = "early"
    /\ ready' = FALSE
    /\ spc' = "earlyState"
    /\ UNCHANGED <<cdiVars, watchVars, mpc, cpc, state, started, sig, waiting, received, lockVars, histVars>>

EarlyShutdown ==
    /\ spc = "earlyState"
    /\ setState("shutting_down")
    /\ spc' = "earlyClean"
    /\ UNCHANGED <<cdiVars, watchVars, mpc, cpc, started, ready, sig, waiting, received, lockVars, histVars>>

EarlyCleanup ==
    /\ spc = "earlyClean"
    /\ \/ /\ cleanupOnExit
          /\ cpc' = "npu"
          /\ spc' = "earlyWait"
       \/ /\ ~cleanupOnExit
          /\ spc' = "earlyStop"
          /\ UNCHANGED cpc
    /\ UNCHANGED <<cdiVars, watchVars, mpc, runVars, lockVars, histVars>>

EarlyCleaned ==
    /\ spc = "earlyWait"
    /\ CleanupOver
    /\ spc' = "earlyStop"
    /\ UNCHANGED <<cdiVars, watchVars, mpc, cpc, runVars, lockVars, histVars>>

\* setState(StateStopped) and os.Exit(0): no deferred call runs, so the PID
\* file stays.
EarlyEnd ==
    /\ spc = "earlyStop"
    /\ Vanish("early")
    /\ UNCHANGED pidFile

SignalStep ==
    \/ HandOver \/ EarlySignal \/ EarlyNotReady \/ EarlyShutdown
    \/ EarlyCleanup \/ EarlyCleaned \/ EarlyEnd

-----------------------------------------------------------------------------
(* The goroutine that runs doCleanup of root.go: two removals, whose        *)
(* failures are only logged.                                                *)

\* Mutant: the RDS file is forgotten.
RemoveNpu_Only ==
    /\ cpc = "npu"
    /\ npu' = NoSpec
    /\ cpc' = "done"
    /\ UNCHANGED <<hostVars, rds, gstage, scanVars, faults, watchVars, mpc, spc, runVars, lockVars, histVars>>

RemoveNpu ==
    /\ cpc = "npu"
    /\ npu' = NoSpec
    /\ cpc' = "rds"
    /\ UNCHANGED <<hostVars, rds, gstage, scanVars, faults, watchVars, mpc, spc, runVars, lockVars, histVars>>

RemoveRds ==
    /\ cpc = "rds"
    /\ rds' = FALSE
    /\ cpc' = "done"
    /\ UNCHANGED <<hostVars, npu, gstage, scanVars, faults, watchVars, mpc, spc, runVars, lockVars, histVars>>

RemoveFails ==
    /\ CleanupRunning
    /\ Fault("remove")
    /\ cpc' = IF cpc = "npu" THEN "rds" ELSE "done"
    /\ UNCHANGED <<hostVars, fileVars, gstage, scanVars, watchVars, mpc, spc, runVars, lockVars, histVars>>

CleanupStep == RemoveNpu \/ RemoveRds \/ RemoveFails

-----------------------------------------------------------------------------
(* The environment.                                                         *)

\* SIGTERM, SIGINT, SIGHUP or SIGQUIT.  Before signal.Notify the default
\* action ends the process.  A second signal stays in sigCh unread.
Signal ==
    \/ /\ spc = "listen"
       /\ ~sig
       /\ sig' = TRUE
       /\ UNCHANGED <<cdiVars, watchVars, procVars, state, started, ready, waiting, received, lockVars, histVars>>
    \/ /\ Up
       /\ spc = "off"
       /\ Vanish("terminated")
       /\ UNCHANGED pidFile

\* SIGKILL, a crash, or the node going down.
Kill ==
    /\ Up
    /\ Vanish("killed")
    /\ UNCHANGED pidFile

\* A driver upgrade replaces one library.
Upgrade(l) ==
    /\ host[l] < MaxVersion
    /\ host' = [host EXCEPT ![l] = @ + 1]
    /\ UNCHANGED <<rdsDev, fileVars, gstage, scanVars, faults, watchVars, daemonVars>>

Watch == WatcherStep /\ UNCHANGED daemonVars

Init ==
    /\ host = [l \in Lib |-> 1]
    /\ rdsDev \in BOOLEAN
    /\ npu = NoSpec
    /\ rds \in BOOLEAN
    /\ gstage = [g \in Generator |-> "idle"]
    /\ found = [g \in Generator |-> EmptyMap]
    /\ todo = [g \in Generator |-> {}]
    /\ faults = 0
    /\ wpc = "off" /\ ctxDone = FALSE /\ last = EmptyMap /\ prev = EmptyMap
    /\ lastErr = FALSE /\ check = "none"
    /\ mpc = "down" /\ spc = "off" /\ cpc = "off"
    /\ state = "starting" /\ started = FALSE /\ ready = FALSE
    /\ sig = FALSE /\ waiting = FALSE /\ received = FALSE
    /\ lock = FALSE /\ pidFile = FALSE
    /\ how = "none" /\ cleanupOnExit \in CleanupModes /\ boots = 0 /\ bootHost = host

\* The last process has ended.
Finished ==
    /\ ~Up
    /\ boots = MaxBoots
    /\ UNCHANGED vars

Next ==
    \/ Boot
    \/ MainStep
    \/ SignalStep
    \/ CleanupStep
    \/ Watch
    \/ Signal
    \/ Kill
    \/ \E l \in Lib : Upgrade(l)
    \/ Finished

Spec == Init /\ [][Next]_vars

\* Goroutines that are not in an I/O operation are scheduled, and timers
\* fire.  Nothing is assumed of a probe, a regeneration or a removal: a step
\* on slow storage may never return.
WatcherInIO == wpc \in {"baseline", "probe", "generate"}

FairSpec ==
    /\ Spec
    /\ WF_vars(MainStep)
    /\ WF_vars(SignalStep)
    /\ WF_vars(Watch /\ ~WatcherInIO)

-----------------------------------------------------------------------------
(* Properties.                                                              *)

\* daemon.go: the watcher is stopped first "so cleanup runs without a
\* concurrent CDI regeneration in flight".  On the graceful path no
\* regeneration overlaps the removal of the files, even when the wait for a
\* stuck probe timed out and the goroutine leaked.
CleanupExclusive == CleanupRunning /\ ~EarlyExit => ~Generating(Self)

\* README: the daemon "removes the CDI spec files on SIGTERM".  After a
\* graceful exit neither file is left, whatever the watcher was doing when
\* the signal came.
GracefulExitRemovesSpecs ==
    how = "graceful" /\ cleanupOnExit => npu = NoSpec /\ ~rds

\* Every change of the spec files happens under the PID file's lock, so a
\* process that has just acquired it never sees its files changed or removed
\* by a leaked goroutine of the one before.
LockCoversFileAccess == Generating(Self) \/ CleanupRunning => lock

\* /ready answers 200 when "Setup is complete": the daemon is running, the
\* NPU file is there, and so is the RDS file on a host with RDS devices.
ReadyMeansServing ==
    ready /\ ~EarlyExit => state = "running" /\ npu # NoSpec /\ (rdsDev => rds)

\* doCleanup (root.go): a SIGKILL that leaves the files behind "is safe - the
\* next setup() unconditionally regenerates them".  A daemon that reports
\* ready never serves a file older than the driver it was started on.
ReadySpecIsFresh ==
    ready /\ ~EarlyExit => \A l \in Lib : npu[l] >= bootHost[l]

\* Daemon.Run bounds every wait of the shutdown by ShutdownTimeout: once a
\* signal is in the channel the process ends, even if a probe, a
\* regeneration or the cleanup itself never returns.
SignalStops == sig ~> ~Up

\* README, "Removes the CDI spec files on SIGTERM (pod termination)": no
\* process that ended because of such a signal leaves an NPU file behind.
SigtermRemovesSpecs ==
    how \in {"graceful", "early", "terminated"} /\ cleanupOnExit => npu = NoSpec

\* --no-cleanup-on-exit: no way of ending such a process removes rbln.yaml,
\* so a daemon upgrade leaves no gap for new containers.
NoCleanupKeepsSpec == [][~cleanupOnExit /\ npu # NoSpec => npu' # NoSpec]_vars

\* tick (watcher.go) bails out "so CDI regeneration does not race with the
\* daemon's cleanup goroutine", with no exception for an early signal.
CleanupNeverRaces == CleanupRunning => ~Generating(Self)
=============================================================================
