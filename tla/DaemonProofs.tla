---------------------------- MODULE DaemonProofs ----------------------------
(***************************************************************************)
(* Proofs about Daemon, for any set of libraries, any number of processes, *)
(* upgrades and faults, and with or without a watcher and a cleanup.       *)
(***************************************************************************)
EXTENDS Daemon, WatcherProofs

LEMMA EmptyMapType == EmptyMap \in LibMap
BY CdiSpecAssumption DEF EmptyMap, LibMap

\* Everything in memory starts from zero, whoever is gone.
LEMMA FreshTypes ==
    ASSUME FreshMemory
    PROVE  /\ WatcherTypeOK'
           /\ spc' \in SPc /\ cpc' \in CPc /\ state' \in States
           /\ started' \in BOOLEAN /\ ready' \in BOOLEAN
           /\ sig' \in BOOLEAN /\ waiting' \in BOOLEAN /\ received' \in BOOLEAN
<1>1. WatcherTypeOK'
  <2>1. ctxDone' \in BOOLEAN /\ lastErr' \in BOOLEAN
    BY DEF FreshMemory
  <2>2. wpc' \in WPc /\ last' \in LibMap /\ prev' \in LibMap /\ check' \in {"none", "ok", "error"}
    BY EmptyMapType DEF FreshMemory, WPc
  <2> QED BY <2>1, <2>2 DEF WatcherTypeOK
<1>2. spc' \in SPc /\ cpc' \in CPc /\ state' \in States
  BY DEF FreshMemory, SPc, CPc, States
<1>3. /\ started' \in BOOLEAN /\ ready' \in BOOLEAN
      /\ sig' \in BOOLEAN /\ waiting' \in BOOLEAN /\ received' \in BOOLEAN
  BY DEF FreshMemory
<1> QED BY <1>1, <1>2, <1>3

LEMMA VanishTypes ==
    ASSUME TypeOK, NEW reason \in How, Vanish(reason), pidFile' \in BOOLEAN
    PROVE  TypeOK'
<1>1. CdiTypeOK'
  BY EmptyMapType DEF TypeOK, Vanish, CdiTypeOK, GStage, hostVars, fileVars
<1>2. /\ mpc' \in MPc /\ how' \in How /\ cleanupOnExit' \in BOOLEAN
      /\ boots' \in 0..MaxBoots /\ bootHost' \in LibMap
  BY DEF TypeOK, ProcessTypeOK, Vanish, MPc
<1>3. lock' \in BOOLEAN
  BY DEF Vanish
<1>4. FreshMemory
  BY DEF Vanish
<1>5. ProcessTypeOK'
  BY <1>2, <1>3, <1>4, FreshTypes DEF ProcessTypeOK
<1> QED BY <1>1, <1>4, <1>5, FreshTypes DEF TypeOK

LEMMA SetStateTypes ==
    ASSUME ProcessTypeOK, NEW to \in States, setState(to)
    PROVE  state' \in States
BY DEF ProcessTypeOK, setState

\* The steps of main that only move it on.
LEMMA MainProcessTypes ==
    ASSUME ProcessTypeOK,
           \/ ConfigureRuntime \/ RunStart \/ AnnounceRunning \/ AnnounceReady
           \/ LaunchWatcher \/ Arm \/ BeginShutdown \/ AnnounceShutdown \/ CancelWatcher
           \/ JoinWatcher \/ BeginCleanup \/ EndCleanup \/ AnnounceStopped \/ ReleasePID
    PROVE  ProcessTypeOK'
<1> USE DEF ProcessTypeOK, MPc, runVars, lockVars, histVars
<1>1. CASE ConfigureRuntime
  BY <1>1 DEF ConfigureRuntime
<1>2. CASE RunStart
  BY <1>2 DEF RunStart, SPc
<1>3. CASE AnnounceRunning \/ AnnounceShutdown \/ AnnounceStopped
  <2>1. state' \in States
    BY <1>3, SetStateTypes DEF AnnounceRunning, AnnounceShutdown, AnnounceStopped, States
  <2> QED BY <1>3, <2>1 DEF AnnounceRunning, AnnounceShutdown, AnnounceStopped
<1>4. CASE AnnounceReady
  BY <1>4 DEF AnnounceReady
<1>5. CASE LaunchWatcher
  BY <1>5 DEF LaunchWatcher
<1>6. CASE Arm
  BY <1>6 DEF Arm
<1>7. CASE BeginShutdown
  BY <1>7 DEF BeginShutdown
<1>8. CASE CancelWatcher \/ JoinWatcher \/ EndCleanup
  BY <1>8 DEF CancelWatcher, JoinWatcher, EndCleanup
<1>9. CASE BeginCleanup
  BY <1>9 DEF BeginCleanup, CPc
<1>10. CASE ReleasePID
  BY <1>10 DEF ReleasePID
<1> QED BY <1>1, <1>2, <1>3, <1>4, <1>5, <1>6, <1>7, <1>8, <1>9, <1>10

LEMMA MainTypes == TypeOK /\ MainStep => TypeOK'
<1> SUFFICES ASSUME TypeOK, MainStep PROVE TypeOK'
  OBVIOUS
<1> USE WatcherAssumption
<1>1. CASE SetupGenerate
  <2>1. ProcessTypeOK'
    BY <1>1 DEF SetupGenerate, TypeOK, ProcessTypeOK, daemonVars, procVars, runVars, lockVars, histVars
  <2> QED BY <1>1, <2>1, GenerateTypes, WatcherUnchanged DEF SetupGenerate, TypeOK
<1>2. CASE SetupGenerated
  <2>1. CdiTypeOK'
    BY <1>2 DEF SetupGenerated, SetStage, GStage, TypeOK, CdiTypeOK, hostVars, fileVars, scanVars
  <2>2. ProcessTypeOK'
    BY <1>2 DEF SetupGenerated, TypeOK, ProcessTypeOK, MPc, runVars, lockVars, histVars
  <2> QED BY <1>2, <2>1, <2>2, WatcherUnchanged DEF SetupGenerated, TypeOK
<1>3. CASE SetupFails \/ ConfigureFails \/ Exit
  <2>1. pidFile' \in BOOLEAN
    BY <1>3 DEF SetupFails, ConfigureFails, Exit, TypeOK, ProcessTypeOK
  <2> QED BY <1>3, <2>1, VanishTypes DEF SetupFails, ConfigureFails, Exit, How
<1>4. CASE LaunchWatcher
  <2>1. WatcherTypeOK'
    BY <1>4 DEF LaunchWatcher, TypeOK, WatcherTypeOK, WPc
  <2> QED BY <1>4, <2>1, MainProcessTypes, CdiUnchanged DEF LaunchWatcher, TypeOK
<1>5. CASE CancelWatcher
  <2>1. WatcherTypeOK'
    BY <1>5 DEF CancelWatcher, TypeOK, WatcherTypeOK, WPc
  <2> QED BY <1>5, <2>1, MainProcessTypes, CdiUnchanged DEF CancelWatcher, TypeOK
<1>6. CASE \/ ConfigureRuntime \/ RunStart \/ AnnounceRunning \/ AnnounceReady
           \/ Arm \/ BeginShutdown \/ AnnounceShutdown
           \/ JoinWatcher \/ BeginCleanup \/ EndCleanup \/ AnnounceStopped \/ ReleasePID
  <2>1. UNCHANGED cdiVars /\ UNCHANGED watchVars
    BY <1>6 DEF ConfigureRuntime, RunStart, AnnounceRunning, AnnounceReady, Arm, BeginShutdown,
                AnnounceShutdown, JoinWatcher, BeginCleanup, EndCleanup, AnnounceStopped, ReleasePID
  <2> QED BY <1>6, <2>1, MainProcessTypes, CdiUnchanged, WatcherUnchanged DEF TypeOK
<1> QED BY <1>1, <1>2, <1>3, <1>4, <1>5, <1>6 DEF MainStep

LEMMA SignalTypes == TypeOK /\ SignalStep => TypeOK'
<1> SUFFICES ASSUME TypeOK, SignalStep PROVE TypeOK'
  OBVIOUS
<1>1. CASE EarlyEnd
  BY <1>1, VanishTypes DEF EarlyEnd, How, TypeOK, ProcessTypeOK
<1>2. CASE HandOver \/ EarlySignal \/ EarlyNotReady \/ EarlyShutdown \/ EarlyCleanup \/ EarlyCleaned
  <2>1. CdiTypeOK' /\ WatcherTypeOK'
    BY <1>2, CdiUnchanged, WatcherUnchanged
       DEF HandOver, EarlySignal, EarlyNotReady, EarlyShutdown, EarlyCleanup, EarlyCleaned, TypeOK
  <2>2. ProcessTypeOK'
    <3> USE DEF TypeOK, ProcessTypeOK, SPc, EarlySPc, runVars, lockVars, histVars
    <3>1. CASE HandOver
      BY <3>1 DEF HandOver
    <3>2. CASE EarlySignal \/ EarlyCleaned
      BY <3>2 DEF EarlySignal, EarlyCleaned
    <3>3. CASE EarlyNotReady
      BY <3>3 DEF EarlyNotReady
    <3>4. CASE EarlyShutdown
      <4>1. state' \in States
        BY <3>4, SetStateTypes DEF EarlyShutdown, States
      <4> QED BY <3>4, <4>1 DEF EarlyShutdown
    <3>5. CASE EarlyCleanup
      BY <3>5 DEF EarlyCleanup, CPc
    <3> QED BY <1>2, <3>1, <3>2, <3>3, <3>4, <3>5
  <2> QED BY <2>1, <2>2 DEF TypeOK
<1> QED BY <1>1, <1>2 DEF SignalStep

\* Boot, the cleanup goroutine, the watcher, signals, kills and upgrades.
LEMMA OtherTypes ==
    ASSUME TypeOK,
           \/ Boot \/ CleanupStep \/ Watch \/ Signal \/ Kill \/ UNCHANGED vars
           \/ \E l \in Lib : Upgrade(l)
    PROVE  TypeOK'
<1> USE CdiSpecAssumption, WatcherAssumption, DaemonAssumption
<1>1. CASE Boot
  <2>1. CdiTypeOK'
    BY <1>1, BeginGenerateTypes DEF Boot, TypeOK
  <2>2. /\ mpc' \in MPc /\ how' \in How /\ cleanupOnExit' \in BOOLEAN
        /\ boots' \in 0..MaxBoots /\ bootHost' \in LibMap
    BY <1>1 DEF Boot, TypeOK, CdiTypeOK, ProcessTypeOK, MPc, How
  <2>3. lock' \in BOOLEAN /\ pidFile' \in BOOLEAN /\ FreshMemory
    BY <1>1 DEF Boot
  <2>4. ProcessTypeOK'
    BY <2>2, <2>3, FreshTypes DEF ProcessTypeOK
  <2> QED BY <2>1, <2>3, <2>4, FreshTypes DEF TypeOK
<1>2. CASE CleanupStep
  <2>1. UNCHANGED watchVars
    BY <1>2 DEF CleanupStep, RemoveNpu, RemoveRds, RemoveFails
  <2>2. CdiTypeOK'
    <3> USE DEF TypeOK, CdiTypeOK, hostVars, fileVars, scanVars
    <3>1. CASE RemoveNpu
      BY <3>1 DEF RemoveNpu
    <3>2. CASE RemoveRds
      BY <3>2 DEF RemoveRds
    <3>3. CASE RemoveFails
      BY <3>3 DEF RemoveFails, Fault
    <3> QED BY <1>2, <3>1, <3>2, <3>3 DEF CleanupStep
  <2>3. ProcessTypeOK'
    BY <1>2 DEF CleanupStep, RemoveNpu, RemoveRds, RemoveFails, TypeOK, ProcessTypeOK, CPc, runVars,
                lockVars, histVars
  <2> QED BY <2>1, <2>2, <2>3, WatcherUnchanged DEF TypeOK
<1>3. CASE Watch
  <2>1. ProcessTypeOK'
    BY <1>3 DEF Watch, TypeOK, ProcessTypeOK, daemonVars, procVars, runVars, lockVars, histVars
  <2> QED BY <1>3, <2>1, WatcherTypes DEF Watch, TypeOK
<1>4. CASE Signal \/ Kill
  <2>1. ASSUME NEW reason \in How, Vanish(reason), UNCHANGED pidFile PROVE TypeOK'
    BY <2>1, VanishTypes DEF TypeOK, ProcessTypeOK
  <2>2. ASSUME sig' = TRUE,
               UNCHANGED <<cdiVars, watchVars, procVars, state, started, ready, waiting, received,
                           lockVars, histVars>>
        PROVE  TypeOK'
    <3>1. ProcessTypeOK'
      BY <2>2 DEF TypeOK, ProcessTypeOK, procVars, lockVars, histVars
    <3> QED BY <2>2, <3>1, CdiUnchanged, WatcherUnchanged DEF TypeOK
  <2> QED BY <1>4, <2>1, <2>2 DEF Signal, Kill, How
<1>5. ASSUME NEW l \in Lib, Upgrade(l) PROVE TypeOK'
  <2>1. CdiTypeOK'
    BY <1>5 DEF Upgrade, TypeOK, CdiTypeOK, LibMap, fileVars, scanVars
  <2>2. ProcessTypeOK'
    BY <1>5 DEF Upgrade, TypeOK, ProcessTypeOK, daemonVars, procVars, runVars, lockVars, histVars
  <2> QED BY <1>5, <2>1, <2>2, WatcherUnchanged DEF Upgrade, TypeOK
<1>6. CASE UNCHANGED vars
  <2>1. ProcessTypeOK'
    BY <1>6 DEF vars, TypeOK, ProcessTypeOK, daemonVars, procVars, runVars, lockVars, histVars
  <2> QED BY <1>6, <2>1, CdiUnchanged, WatcherUnchanged DEF vars, TypeOK
<1> QED BY <1>1, <1>2, <1>3, <1>4, <1>5, <1>6

LEMMA NextTypes == TypeOK /\ [Next]_vars => TypeOK'
BY MainTypes, SignalTypes, OtherTypes DEF Next, Finished

LEMMA InitTypes == Init => TypeOK
<1> SUFFICES ASSUME Init PROVE TypeOK
  OBVIOUS
<1> USE CdiSpecAssumption, WatcherAssumption, DaemonAssumption
<1>1. CdiTypeOK
  BY DEF Init, CdiTypeOK, LibMap, EmptyMap, GStage
<1>2. WatcherTypeOK /\ bootHost \in LibMap
  <2>1. bootHost \in LibMap
    BY DEF Init, LibMap
  <2>2. wpc \in WPc /\ last \in LibMap /\ prev \in LibMap /\ check \in {"none", "ok", "error"}
    BY EmptyMapType DEF Init, WPc
  <2>3. ctxDone \in BOOLEAN /\ lastErr \in BOOLEAN
    BY DEF Init
  <2> QED BY <2>1, <2>2, <2>3 DEF WatcherTypeOK
<1>3. ProcessTypeOK
  <2>1. mpc \in MPc /\ spc \in SPc /\ cpc \in CPc /\ state \in States /\ how \in How
    BY DEF Init, MPc, SPc, CPc, States, How
  <2>2. /\ started \in BOOLEAN /\ ready \in BOOLEAN /\ sig \in BOOLEAN /\ waiting \in BOOLEAN
        /\ received \in BOOLEAN /\ lock \in BOOLEAN /\ pidFile \in BOOLEAN
        /\ cleanupOnExit \in BOOLEAN
    BY DEF Init
  <2>3. boots \in 0..MaxBoots
    BY DEF Init
  <2> QED BY <1>2, <2>1, <2>2, <2>3 DEF ProcessTypeOK
<1> QED BY <1>1, <1>2, <1>3 DEF TypeOK

\* Type correctness of the daemon.
THEOREM TypeCorrect == Spec => []TypeOK
BY InitTypes, NextTypes, PTL DEF Spec

-----------------------------------------------------------------------------
(* Shutdown.  The wait for the watcher is bounded, so it may end with the   *)
(* goroutine still there.  What makes the cleanup safe is that a goroutine  *)
(* stuck in a probe finds the context cancelled when the probe returns,     *)
(* before it may regenerate anything.                                       *)

\* What the timeouts cut off never includes a regeneration or a removal.
RegenBounded == "regen" \notin SlowIO
CleanupBounded == "cleanup" \notin SlowIO

\* The removals succeed.
RemovalWorks == "remove" \notin FaultyOps

BeforeWatch == {"down", "setup", "configure", "run", "announce", "ready", "launch"}
AfterJoin == {"cleanup", "cleaning", "stop", "release", "exit"}
Stopping == {"stopping", "cancel", "join"} \cup AfterJoin

\* Where the goroutines may be, depending on where main is.
PhaseInv ==
    /\ gstage[Self] # "idle" => mpc = "setup" \/ wpc = "generate"
    /\ mpc \in BeforeWatch => wpc = "off"
    /\ mpc \in {"down", "setup", "configure", "run"} => spc = "off" /\ cpc = "off"
    /\ mpc \in Stopping => received
    /\ received => spc = "handed"
    /\ mpc \in AfterJoin \cup {"join"} => ctxDone
    /\ mpc \in AfterJoin => wpc \in {"baseline", "probe", "wait", "done"}
    /\ cpc # "off" => EarlyExit \/ mpc \in AfterJoin \ {"cleanup"}

\* The lock outlives the cleanup.
LockInv ==
    /\ mpc \notin {"down", "exit"} => lock
    /\ CleanupBounded /\ mpc \in {"stop", "release", "exit"} => cpc \in {"off", "done"}

\* The cleanup has removed what it is past.
RemovedInv ==
    CleanupBounded /\ RemovalWorks =>
        /\ cleanupOnExit /\ mpc \in {"stop", "release", "exit"} => cpc = "done"
        /\ ~EarlyExit /\ cpc \in {"rds", "done"} => npu = NoSpec
        /\ ~EarlyExit /\ cpc = "done" => ~rds
        /\ how # "none" => mpc = "down"
        /\ how = "graceful" /\ cleanupOnExit => npu = NoSpec /\ ~rds

IInv == TypeOK /\ PhaseInv /\ LockInv /\ RemovedInv

LEMMA InitIInv == Init => IInv
<1> SUFFICES ASSUME Init PROVE IInv
  OBVIOUS
<1>1. PhaseInv
  BY WatcherAssumption DEF Init, PhaseInv, Stopping, AfterJoin
<1>2. LockInv /\ RemovedInv
  BY DEF Init, LockInv, RemovedInv
<1> QED BY <1>1, <1>2, InitTypes DEF IInv

\* A step of GenerateCDISpec is one of a generator that is not idle, and it
\* is not idle afterwards.
LEMMA GenerateStage ==
    ASSUME TypeOK, GenerateStep(Self)
    PROVE  gstage[Self] # "idle" /\ gstage'[Self] # "idle"
BY WatcherAssumption
   DEF TypeOK, CdiTypeOK, GenerateStep, Discover, DiscoverSkips, WriteNpu, WriteNpuFails, EmitRds,
       EmitRdsPruneFails, EmitRdsWriteFails, SetStage

LEMMA VanishIInv ==
    ASSUME IInv, TypeOK', NEW reason \in How \ {"none"}, Vanish(reason),
           reason = "graceful" => mpc = "exit"
    PROVE  IInv'
<1> USE DEF Vanish, FreshMemory
<1>1. PhaseInv'
  BY WatcherAssumption
     DEF IInv, TypeOK, CdiTypeOK, PhaseInv, BeforeWatch, Stopping, AfterJoin
<1>2. LockInv'
  BY DEF LockInv
<1>3. RemovedInv'
  <2>1. mpc = "exit" => ~EarlyExit
    BY DEF IInv, PhaseInv, Stopping, AfterJoin, EarlyExit, EarlySPc
  <2> QED
    BY <2>1 DEF IInv, RemovedInv, EarlyExit, EarlySPc, fileVars
<1> QED BY <1>1, <1>2, <1>3 DEF IInv

LEMMA BootIInv ==
    ASSUME IInv, TypeOK', Boot
    PROVE  IInv'
BY DEF Boot, FreshMemory, IInv, PhaseInv, BeforeWatch, Stopping, AfterJoin, LockInv, RemovedInv,
       EarlyExit, EarlySPc, fileVars

\* Main's own steps that touch neither files nor a generator.
LEMMA MainIInv ==
    ASSUME RegenBounded, IInv, TypeOK', MainStep
    PROVE  IInv'
<1> USE WatcherAssumption
        DEF IInv, PhaseInv, LockInv, RemovedInv, BeforeWatch, Stopping, AfterJoin, EarlyExit, EarlySPc,
            runVars, lockVars, histVars, fileVars
<1>1. CASE SetupGenerate
  BY <1>1, GenerateStage DEF SetupGenerate, watchVars, daemonVars, procVars
<1>2. CASE SetupGenerated
  BY <1>2 DEF SetupGenerated, SetStage, TypeOK, CdiTypeOK, watchVars
<1>3. CASE SetupFails \/ ConfigureFails \/ Exit
  BY <1>3, VanishIInv DEF SetupFails, ConfigureFails, Exit, How
<1>4. CASE ConfigureRuntime \/ AnnounceRunning \/ AnnounceReady \/ Arm
  BY <1>4 DEF ConfigureRuntime, AnnounceRunning, AnnounceReady, Arm, cdiVars, watchVars
<1>5. CASE RunStart
  BY <1>5 DEF RunStart, cdiVars, watchVars
<1>6. CASE LaunchWatcher
  BY <1>6 DEF LaunchWatcher, cdiVars
<1>7. CASE BeginShutdown \/ AnnounceShutdown
  BY <1>7 DEF BeginShutdown, AnnounceShutdown, cdiVars, watchVars
<1>8. CASE CancelWatcher
  BY <1>8 DEF CancelWatcher, cdiVars
<1>9. CASE JoinWatcher
  BY <1>9 DEF JoinWatcher, WatcherOverdue, RegenBounded, cdiVars, watchVars
<1>10. CASE BeginCleanup
  BY <1>10 DEF BeginCleanup, RemovalWorks, cdiVars, watchVars
<1>11. CASE EndCleanup
  BY <1>11 DEF EndCleanup, CleanupOver, CleanupBounded, cdiVars, watchVars
<1>12. CASE AnnounceStopped
  BY <1>12 DEF AnnounceStopped, cdiVars, watchVars
<1>13. CASE ReleasePID
  BY <1>13 DEF ReleasePID, cdiVars, watchVars
<1> QED
  BY <1>1, <1>2, <1>3, <1>4, <1>5, <1>6, <1>7, <1>8, <1>9, <1>10, <1>11, <1>12, <1>13 DEF MainStep

LEMMA SignalIInv ==
    ASSUME IInv, TypeOK', SignalStep
    PROVE  IInv'
<1> USE DEF IInv, PhaseInv, LockInv, RemovedInv, BeforeWatch, Stopping, AfterJoin, EarlyExit, EarlySPc,
            runVars, lockVars, histVars, fileVars, cdiVars, watchVars
<1>1. CASE HandOver
  BY <1>1 DEF HandOver
<1>2. CASE EarlySignal
  BY <1>2 DEF EarlySignal
<1>3. CASE EarlyNotReady \/ EarlyShutdown \/ EarlyCleaned
  BY <1>3 DEF EarlyNotReady, EarlyShutdown, EarlyCleaned
<1>4. CASE EarlyCleanup
  BY <1>4 DEF EarlyCleanup
<1>5. CASE EarlyEnd
  BY <1>5, VanishIInv DEF EarlyEnd, How
<1> QED BY <1>1, <1>2, <1>3, <1>4, <1>5 DEF SignalStep

LEMMA CleanupIInv ==
    ASSUME IInv, TypeOK', CleanupStep
    PROVE  IInv'
<1> USE DEF IInv, PhaseInv, LockInv, RemovedInv, BeforeWatch, Stopping, AfterJoin, EarlyExit, EarlySPc,
            runVars, lockVars, histVars, watchVars
<1>1. CASE RemoveNpu
  BY <1>1 DEF RemoveNpu
<1>2. CASE RemoveRds
  BY <1>2 DEF RemoveRds
<1>3. CASE RemoveFails
  BY <1>3 DEF RemoveFails, Fault, RemovalWorks, CleanupRunning, fileVars
<1> QED BY <1>1, <1>2, <1>3 DEF CleanupStep

\* A cancelled watcher never regenerates again, and it changes the files
\* only when it does.
LEMMA WatchIInv ==
    ASSUME IInv, TypeOK', Watch
    PROVE  IInv'
<1> USE WatcherAssumption
<1>1. UNCHANGED daemonVars /\ WatcherStep
  BY DEF Watch
<1>2. CASE Regenerate
  <2>1. wpc = "generate" /\ UNCHANGED watchVars /\ gstage'[Self] # "idle"
    BY <1>2, GenerateStage DEF Regenerate, IInv
  <2> QED
    BY <1>1, <2>1 DEF IInv, PhaseInv, LockInv, RemovedInv, BeforeWatch, Stopping, AfterJoin, EarlyExit,
            EarlySPc, daemonVars, procVars, runVars, lockVars, histVars, watchVars
<1>3. CASE ~Regenerate
  <2>1. UNCHANGED <<npu, rds, ctxDone>>
    BY <1>1, <1>3 DEF WatcherStep, RunCancelled, StartBaseline, Probe, ProbeFails, Baseline, Tick, LoopExit,
            TickCancelled, TickUnchanged, TickChanged, CallbackCancelled, CallbackBegin,
            CallbackReturn, FinishTick, cdiVars, fileVars, watchVars
  <2>2. wpc # "off" /\ (ctxDone /\ wpc \in {"baseline", "probe", "wait", "done"} =>
                              wpc' \in {"baseline", "probe", "wait", "done"})
    BY <1>1, <1>3 DEF WatcherStep, RunCancelled, StartBaseline, Probe, ProbeFails, Baseline, Tick, LoopExit,
            TickCancelled, TickUnchanged, TickChanged, TakeSnapshot, CallbackCancelled, CallbackBegin,
            CallbackReturn, FinishTick, watchVars
  <2>3. gstage'[Self] # "idle" => wpc' = "generate" \/ (gstage[Self] # "idle" /\ wpc # "generate")
    BY <1>1, <1>3 DEF WatcherStep, RunCancelled, StartBaseline, Probe, ProbeFails, Baseline, Tick, LoopExit,
            TickCancelled, TickUnchanged, TickChanged, TakeSnapshot, CallbackCancelled, CallbackBegin,
            CallbackReturn, SetStage, cdiVars, IInv, TypeOK, CdiTypeOK
  <2> QED
    BY <1>1, <2>1, <2>2, <2>3 DEF IInv, PhaseInv, LockInv, RemovedInv, BeforeWatch, Stopping, AfterJoin,
            EarlyExit, EarlySPc, daemonVars, procVars, runVars, lockVars, histVars
<1> QED BY <1>2, <1>3

LEMMA NextIInv ==
    ASSUME RegenBounded
    PROVE  IInv /\ [Next]_vars => IInv'
<1> SUFFICES ASSUME IInv, [Next]_vars PROVE IInv'
  OBVIOUS
<1>0. TypeOK'
  BY NextTypes DEF IInv
<1>1. CASE Boot
  BY <1>0, <1>1, BootIInv
<1>2. CASE MainStep
  BY <1>0, <1>2, MainIInv
<1>3. CASE SignalStep
  BY <1>0, <1>3, SignalIInv
<1>4. CASE CleanupStep
  BY <1>0, <1>4, CleanupIInv
<1>5. CASE Watch
  BY <1>0, <1>5, WatchIInv
<1>6. CASE Signal \/ Kill
  <2>1. ASSUME NEW reason \in {"terminated", "killed"}, Vanish(reason) PROVE IInv'
    BY <1>0, <2>1, VanishIInv DEF How
  <2>2. ASSUME UNCHANGED <<cdiVars, watchVars, procVars, state, started, ready, waiting, received,
                           lockVars, histVars>>
        PROVE  IInv'
    BY <1>0, <2>2 DEF IInv, PhaseInv, LockInv, RemovedInv, EarlyExit, procVars, lockVars, histVars,
                      cdiVars, fileVars, watchVars
  <2> QED BY <1>6, <2>1, <2>2 DEF Signal, Kill
<1>7. ASSUME NEW l \in Lib, Upgrade(l) PROVE IInv'
  BY <1>0, <1>7 DEF Upgrade, IInv, PhaseInv, LockInv, RemovedInv, EarlyExit, daemonVars, procVars, runVars,
                    lockVars, histVars, fileVars, watchVars
<1>8. CASE UNCHANGED vars
  BY <1>0, <1>8 DEF vars, IInv, PhaseInv, LockInv, RemovedInv, EarlyExit, daemonVars, procVars, runVars,
                    lockVars, histVars, cdiVars, fileVars, watchVars
<1> QED BY <1>1, <1>2, <1>3, <1>4, <1>5, <1>6, <1>7, <1>8 DEF Next, Finished

\* The invariant holds of every behaviour, whatever a probe or the removal
\* of a file takes.
THEOREM Inductive ==
    ASSUME RegenBounded
    PROVE  Spec => []IInv
BY InitIInv, NextIInv, PTL DEF Spec

\* On the graceful path no regeneration of the CDI spec is in flight while
\* the files are removed, even if the watcher's goroutine outlived the wait
\* for it (Run, daemon.go:221-243).
THEOREM CleanupIsExclusive ==
    ASSUME RegenBounded
    PROVE  Spec => []CleanupExclusive
<1>1. IInv => CleanupExclusive
  BY DEF IInv, PhaseInv, AfterJoin, CleanupExclusive, CleanupRunning, Generating
<1> QED BY <1>1, Inductive, PTL

\* No goroutine of a daemon touches the spec files after the PID lock is
\* released.
THEOREM LockCovers ==
    ASSUME RegenBounded, CleanupBounded
    PROVE  Spec => []LockCoversFileAccess
<1>1. IInv => LockCoversFileAccess
  BY DEF IInv, PhaseInv, LockInv, BeforeWatch, AfterJoin, Stopping, EarlyExit, EarlySPc,
         LockCoversFileAccess, CleanupRunning, Generating
<1> QED BY <1>1, Inductive, PTL

\* A graceful exit leaves neither spec file, whatever the watcher was doing
\* when the signal came.
THEOREM GracefulRemoves ==
    ASSUME RegenBounded, CleanupBounded, RemovalWorks
    PROVE  Spec => []GracefulExitRemovesSpecs
<1>1. IInv => GracefulExitRemovesSpecs
  BY DEF IInv, RemovedInv, GracefulExitRemovesSpecs
<1> QED BY <1>1, Inductive, PTL

-----------------------------------------------------------------------------
(* --no-cleanup-on-exit.                                                    *)

\* Only a process that may clean up ever has a cleanup goroutine.
KeepInv == TypeOK /\ (cpc # "off" => cleanupOnExit)

\* A regeneration only ever replaces the NPU file.
LEMMA GenerateKeepsNpu ==
    ASSUME TypeOK, GenerateStep(Self), npu # NoSpec
    PROVE  npu' # NoSpec
BY CdiSpecAssumption, WatcherAssumption
   DEF TypeOK, CdiTypeOK, GenerateStep, Discover, DiscoverSkips, ScanLibrary, ScanLibraryFails,
       WriteNpu, WriteNpuFails, EmitRds, EmitRdsPruneFails, EmitRdsWriteFails, fileVars

\* Every step keeps the invariant, and no step of a process without cleanup
\* takes the NPU file away.
LEMMA NextKeep ==
    ASSUME KeepInv, [Next]_vars
    PROVE  /\ KeepInv'
           /\ ~cleanupOnExit /\ npu # NoSpec => npu' # NoSpec
<1> USE DEF KeepInv, fileVars, histVars, cdiVars, watchVars, procVars, daemonVars
<1>0. TypeOK'
  BY NextTypes
<1>1. CASE Boot
  BY <1>0, <1>1 DEF Boot, FreshMemory
<1>2. ASSUME NEW reason \in How, Vanish(reason)
      PROVE  cpc' = "off" /\ npu' = npu
  BY <1>2 DEF Vanish, FreshMemory
<1>3. CASE MainStep
  <2>1. CASE SetupGenerate
    BY <1>0, <2>1, GenerateKeepsNpu DEF SetupGenerate
  <2>2. CASE SetupFails \/ ConfigureFails \/ Exit
    BY <1>0, <1>2, <2>2 DEF SetupFails, ConfigureFails, Exit, How
  <2>3. CASE BeginCleanup
    BY <1>0, <2>3 DEF BeginCleanup
  <2>4. CASE \/ SetupGenerated \/ ConfigureRuntime \/ RunStart \/ AnnounceRunning
             \/ AnnounceReady \/ LaunchWatcher \/ Arm
    BY <1>0, <2>4 DEF SetupGenerated, ConfigureRuntime, RunStart, AnnounceRunning,
                      AnnounceReady, LaunchWatcher, Arm
  <2>5. CASE \/ BeginShutdown \/ AnnounceShutdown \/ CancelWatcher \/ JoinWatcher
             \/ EndCleanup \/ AnnounceStopped \/ ReleasePID
    BY <1>0, <2>5 DEF BeginShutdown, AnnounceShutdown, CancelWatcher, JoinWatcher,
                      EndCleanup, AnnounceStopped, ReleasePID
  <2> QED BY <1>3, <2>1, <2>2, <2>3, <2>4, <2>5 DEF MainStep
<1>4. CASE SignalStep
  <2>1. CASE EarlyEnd
    BY <1>0, <1>2, <2>1 DEF EarlyEnd, How
  <2>2. CASE ~EarlyEnd
    BY <1>0, <1>4, <2>2 DEF SignalStep, HandOver, EarlySignal, EarlyNotReady, EarlyShutdown,
                            EarlyCleanup, EarlyCleaned
  <2> QED BY <2>1, <2>2
<1>5. CASE CleanupStep
  BY <1>0, <1>5 DEF CleanupStep, RemoveNpu, RemoveRds, RemoveFails, CleanupRunning
<1>6. CASE Watch
  <2>1. CASE Regenerate
    BY <1>0, <1>6, <2>1, GenerateKeepsNpu DEF Watch, Regenerate
  <2>2. CASE ~Regenerate
    <3>1. npu' = npu
      BY <1>6, <2>2 DEF Watch, WatcherStep, RunCancelled, StartBaseline, Probe, ProbeFails,
              Baseline, Tick, LoopExit, TickCancelled, TickUnchanged, TickChanged,
              CallbackCancelled, CallbackBegin, CallbackReturn, FinishTick
    <3> QED BY <1>0, <1>6, <3>1 DEF Watch
  <2> QED BY <2>1, <2>2
<1>7. CASE Signal \/ Kill
  BY <1>0, <1>2, <1>7 DEF Signal, Kill, How
<1>8. CASE (\E l \in Lib : Upgrade(l)) \/ UNCHANGED vars
  BY <1>0, <1>8 DEF Upgrade, vars
<1> QED BY <1>1, <1>3, <1>4, <1>5, <1>6, <1>7, <1>8 DEF Next, Finished

\* A process started with --no-cleanup-on-exit (root.go) never takes the NPU
\* file away, however it ends and whatever fails.
THEOREM FileIsKept == Spec => NoCleanupKeepsSpec
<1>1. Init => KeepInv
  BY InitTypes DEF Init, KeepInv
<1>2. KeepInv /\ [Next]_vars => KeepInv' /\ [~cleanupOnExit /\ npu # NoSpec => npu' # NoSpec]_vars
  BY NextKeep
<1> QED BY <1>1, <1>2, PTL DEF Spec, NoCleanupKeepsSpec

-----------------------------------------------------------------------------
(* Readiness.  Main reports ready after setup has generated both files, and *)
(* from then on until it withdraws the report only the watcher changes      *)
(* them, by replacing what is there.  This needs no bound on any I/O.       *)

\* Every scan sees the libraries that are there.
ScanReliable == "discover" \notin FaultyOps

SetUp == {"configure", "run", "announce", "ready", "launch", "arm", "await"}
Reporting == {"launch", "arm", "await"}

\* A map of the libraries no older than the driver the process was started on.
SinceBoot(m) == \A l \in Lib : m[l] >= bootHost[l]
Renewed == npu # NoSpec /\ (ScanReliable => SinceBoot(npu))
RdsThere == rdsDev => rds
Scanned ==
    ScanReliable /\ gstage[Self] = "discover" =>
        \A l \in Lib \ todo[Self] : found[Self][l] >= bootHost[l]

\* What main has announced, and who may be at work, where main is.
ReadyPhase ==
    /\ gstage[Self] # "idle" => mpc = "setup" \/ wpc = "generate"
    /\ mpc \in BeforeWatch => wpc = "off"
    /\ mpc \in {"down", "setup", "configure", "run"} => spc = "off" /\ cpc = "off"
    /\ cpc # "off" => EarlyExit \/ mpc \in AfterJoin \ {"cleanup"}
    /\ ready /\ ~EarlyExit => mpc \in Reporting
    /\ mpc \in {"setup", "configure", "run", "announce"} /\ ~EarlyExit => state = "starting"
    /\ mpc \in Reporting \cup {"ready"} /\ ~EarlyExit => state = "running"

\* How far a generation has come, and what the files are afterwards.
ReadyFiles ==
    /\ SinceBoot(host)
    /\ Scanned
    /\ mpc = "setup" /\ gstage[Self] \in {"emitRds", "ok"} => Renewed
    /\ mpc = "setup" /\ gstage[Self] = "ok" => RdsThere
    /\ mpc \in SetUp /\ ~EarlyExit => Renewed /\ RdsThere

ReadyInv == TypeOK /\ ReadyPhase /\ ReadyFiles

\* Steps that leave the scan alone, and those that leave the files alone too.
LEMMA ScanStays ==
    ASSUME UNCHANGED <<host, gstage, scanVars, bootHost>>
    PROVE  (SinceBoot(host) => SinceBoot(host)') /\ (Scanned => Scanned')
BY DEF SinceBoot, Scanned, ScanReliable, scanVars

LEMMA FilesStay ==
    ASSUME UNCHANGED <<rdsDev, npu, rds, bootHost>>
    PROVE  (Renewed => Renewed') /\ (RdsThere => RdsThere')
BY DEF SinceBoot, Renewed, RdsThere, ScanReliable

\* A step of GenerateCDISpec, in setup or in the watcher's callback.
LEMMA GenerateReady ==
    ASSUME ReadyInv, TypeOK', GenerateStep(Self), mpc = "setup" \/ wpc = "generate",
           UNCHANGED <<watchVars, daemonVars>>
    PROVE  ReadyInv'
<1> USE CdiSpecAssumption, WatcherAssumption
<1>0. UNCHANGED <<wpc, mpc, spc, cpc, state, ready, bootHost>>
  BY DEF watchVars, daemonVars, procVars, runVars, histVars
<1>1. ReadyPhase'
  BY <1>0, GenerateStage DEF ReadyInv, ReadyPhase, EarlyExit
<1>2. UNCHANGED <<host, rdsDev>>
  BY DEF GenerateStep, Discover, DiscoverSkips, WriteNpu, WriteNpuFails, EmitRds, EmitRdsPruneFails,
         EmitRdsWriteFails, hostVars
<1>3. SinceBoot(host)'
  BY <1>0, <1>2 DEF ReadyInv, ReadyFiles, SinceBoot
<1>4. ASSUME NEW l \in Lib, Discover(Self, l) \/ DiscoverSkips(Self, l) PROVE ReadyFiles'
  <2>1. UNCHANGED <<npu, rds, gstage>> /\ gstage[Self] = "discover"
    BY <1>4 DEF Discover, DiscoverSkips, fileVars
  <2>2. Scanned'
    <3> SUFFICES ASSUME ScanReliable, NEW k \in Lib \ todo'[Self]
                 PROVE  found'[Self][k] >= bootHost'[k]
      BY DEF Scanned, ScanReliable
    <3>1. Discover(Self, l)
      BY <1>4 DEF DiscoverSkips, ScanLibraryFails, Fault, ScanReliable
    <3>2. found \in [Generator -> LibMap] /\ todo \in [Generator -> SUBSET Lib]
      BY DEF ReadyInv, TypeOK, CdiTypeOK
    <3>3. k = l \/ k \notin todo[Self]
      BY <3>1, <3>2 DEF Discover, ScanLibrary
    <3>4. CASE k = l
      <4>1. found'[Self][k] = host[k]
        BY <3>1, <3>2, <3>4 DEF Discover, ScanLibrary, LibMap
      <4> QED BY <4>1, <1>0 DEF ReadyInv, ReadyFiles, SinceBoot
    <3>5. CASE k # l
      <4>1. found'[Self][k] = found[Self][k]
        BY <3>1, <3>2, <3>5 DEF Discover, ScanLibrary, LibMap
      <4> QED BY <4>1, <3>3, <3>5, <2>1, <1>0 DEF ReadyInv, ReadyFiles, Scanned
    <3> QED BY <3>4, <3>5
  <2> QED BY <1>0, <1>2, <1>3, <2>1, <2>2, FilesStay DEF ReadyInv, ReadyFiles, EarlyExit
<1>5. CASE WriteNpu(Self)
  <2>1. npu' = found[Self] /\ rds' = rds /\ gstage[Self] = "discover" /\ gstage'[Self] = "emitRds"
    BY <1>5 DEF WriteNpu, SetStage, ReadyInv, TypeOK, CdiTypeOK
  <2>2. Renewed'
    <3>1. npu' # NoSpec
      BY <2>1 DEF ReadyInv, TypeOK, CdiTypeOK
    <3>2. ASSUME ScanReliable PROVE SinceBoot(npu)'
      BY <1>0, <1>5, <2>1, <3>2 DEF WriteNpu, ReadyInv, ReadyFiles, Scanned, SinceBoot
    <3> QED BY <3>1, <3>2 DEF Renewed, ScanReliable
  <2>3. RdsThere => RdsThere'
    BY <1>2, <2>1 DEF RdsThere
  <2>4. Scanned'
    BY <2>1 DEF Scanned
  <2> QED BY <1>0, <1>1, <1>3, <2>1, <2>2, <2>3, <2>4 DEF ReadyInv, ReadyFiles, EarlyExit
<1>6. CASE WriteNpuFails(Self) \/ EmitRdsWriteFails(Self)
  <2>1. gstage'[Self] = "failed" /\ UNCHANGED <<npu, rds>>
    BY <1>6 DEF WriteNpuFails, EmitRdsWriteFails, SetStage, ReadyInv, TypeOK, CdiTypeOK, fileVars
  <2>2. Scanned'
    BY <2>1 DEF Scanned
  <2> QED BY <1>0, <1>2, <1>1, <1>3, <2>1, <2>2, FilesStay DEF ReadyInv, ReadyFiles, EarlyExit
<1>7. CASE EmitRds(Self) \/ EmitRdsPruneFails(Self)
  <2>1. gstage[Self] = "emitRds" /\ gstage'[Self] = "ok" /\ npu' = npu
    BY <1>7 DEF EmitRds, EmitRdsPruneFails, SetStage, ReadyInv, TypeOK, CdiTypeOK, fileVars
  <2>2. RdsThere'
    BY <1>2, <1>7, Zenon DEF EmitRds, EmitRdsPruneFails, RdsThere
  <2>3. Renewed => Renewed'
    BY <1>0, <2>1 DEF Renewed, SinceBoot, ScanReliable
  <2>4. Scanned'
    BY <2>1 DEF Scanned
  <2> QED BY <1>0, <1>1, <1>3, <2>1, <2>2, <2>3, <2>4 DEF ReadyInv, ReadyFiles, EarlyExit
<1> QED BY <1>1, <1>4, <1>5, <1>6, <1>7 DEF GenerateStep, ReadyInv

LEMMA VanishReady ==
    ASSUME ReadyInv, TypeOK', NEW reason \in How, Vanish(reason)
    PROVE  ReadyInv'
<1>1. gstage'[Self] = "idle" /\ mpc' = "down" /\ ~ready' /\ spc' = "off" /\ cpc' = "off" /\ wpc' = "off"
  BY WatcherAssumption DEF ReadyInv, TypeOK, CdiTypeOK, Vanish, FreshMemory
<1>2. SinceBoot(host)' /\ Scanned'
  BY <1>1 DEF ReadyInv, ReadyFiles, SinceBoot, Scanned, Vanish, hostVars
<1> QED
  BY <1>1, <1>2 DEF ReadyInv, ReadyPhase, ReadyFiles, SetUp, Reporting, BeforeWatch

LEMMA BootReady ==
    ASSUME ReadyInv, TypeOK', Boot
    PROVE  ReadyInv'
<1>1. gstage'[Self] = "discover" /\ todo'[Self] = Lib /\ mpc' = "setup" /\ ~ready'
      /\ spc' = "off" /\ cpc' = "off" /\ wpc' = "off" /\ state' = "starting"
  BY WatcherAssumption DEF ReadyInv, TypeOK, CdiTypeOK, Boot, BeginGenerate, StartScan, SetStage, FreshMemory
<1>2. SinceBoot(host)'
  <2>1. bootHost' = host' /\ host' \in LibMap
    BY DEF Boot, hostVars, TypeOK, CdiTypeOK
  <2> QED BY <2>1, CdiSpecAssumption DEF SinceBoot, LibMap
<1>3. Scanned'
  BY <1>1 DEF Scanned
<1> QED
  BY <1>1, <1>2, <1>3 DEF ReadyInv, ReadyPhase, ReadyFiles, SetUp, Reporting, BeforeWatch

\* Main's other steps, each with the files and the scan as they are.
LEMMA MainReady ==
    ASSUME ReadyInv, TypeOK', MainStep
    PROVE  ReadyInv'
<1> USE DEF ReadyInv, ReadyPhase, ReadyFiles, SetUp, Reporting, BeforeWatch, AfterJoin, EarlyExit, EarlySPc,
            runVars
<1>1. CASE SetupGenerate
  BY <1>1, GenerateReady DEF SetupGenerate
<1>2. CASE SetupFails \/ ConfigureFails \/ Exit
  BY <1>2, VanishReady DEF SetupFails, ConfigureFails, Exit, How
<1>3. CASE SetupGenerated
  <2>1. gstage'[Self] = "idle" /\ UNCHANGED <<host, rdsDev, npu, rds, wpc, bootHost>>
    BY <1>3, WatcherAssumption DEF SetupGenerated, SetStage, TypeOK, CdiTypeOK, hostVars, fileVars, watchVars, histVars
  <2>2. SinceBoot(host)' /\ Scanned'
    BY <2>1 DEF SinceBoot, Scanned
  <2> QED BY <1>3, <2>1, <2>2, FilesStay DEF SetupGenerated
<1>4. ASSUME UNCHANGED cdiVars, UNCHANGED bootHost
      PROVE  /\ SinceBoot(host)' /\ Scanned' /\ gstage' = gstage
             /\ (Renewed => Renewed') /\ (RdsThere => RdsThere')
  BY <1>4, ScanStays, FilesStay DEF cdiVars, hostVars, fileVars
<1>5. CASE ConfigureRuntime \/ RunStart \/ Arm
  BY <1>4, <1>5 DEF ConfigureRuntime, RunStart, Arm, histVars, watchVars
<1>6. CASE AnnounceRunning
  BY <1>4, <1>6 DEF AnnounceRunning, setState, validTransitions, histVars, watchVars
<1>7. CASE AnnounceReady \/ BeginShutdown
  BY <1>4, <1>7 DEF AnnounceReady, BeginShutdown, histVars, watchVars
<1>8. CASE LaunchWatcher
  BY <1>4, <1>8 DEF LaunchWatcher, histVars
<1>9. CASE AnnounceShutdown \/ AnnounceStopped
  BY <1>4, <1>9 DEF AnnounceShutdown, AnnounceStopped, histVars, watchVars
<1>10. CASE CancelWatcher
  BY <1>4, <1>10 DEF CancelWatcher, histVars
<1>11. CASE JoinWatcher \/ BeginCleanup \/ EndCleanup \/ ReleasePID
  BY <1>4, <1>11 DEF JoinWatcher, BeginCleanup, EndCleanup, ReleasePID, histVars, watchVars
<1> QED
  BY <1>1, <1>2, <1>3, <1>5, <1>6, <1>7, <1>8, <1>9, <1>10, <1>11 DEF MainStep

\* Signals and the cleanup: what removes a file runs after readiness has been
\* withdrawn, or beside main on the early path.
LEMMA OtherReady ==
    ASSUME ReadyInv, TypeOK', SignalStep \/ CleanupStep \/ Signal \/ Kill
    PROVE  ReadyInv'
<1> USE DEF ReadyInv, ReadyPhase, ReadyFiles, SetUp, Reporting, BeforeWatch, AfterJoin, EarlyExit, EarlySPc,
            runVars
<1>1. ASSUME UNCHANGED cdiVars, UNCHANGED bootHost
      PROVE  /\ SinceBoot(host)' /\ Scanned' /\ gstage' = gstage
             /\ (Renewed => Renewed') /\ (RdsThere => RdsThere')
  BY <1>1, ScanStays, FilesStay DEF cdiVars, hostVars, fileVars
<1>2. CASE HandOver \/ EarlySignal
  BY <1>1, <1>2 DEF HandOver, EarlySignal, histVars, watchVars
<1>3. CASE EarlyNotReady \/ EarlyShutdown \/ EarlyCleanup \/ EarlyCleaned
  BY <1>1, <1>3 DEF EarlyNotReady, EarlyShutdown, EarlyCleanup, EarlyCleaned, histVars, watchVars
<1>4. CASE EarlyEnd \/ Kill
  BY <1>4, VanishReady DEF EarlyEnd, Kill, How
<1>5. CASE CleanupStep
  <2>1. UNCHANGED <<host, gstage, scanVars, bootHost, mpc, spc, wpc, state, ready>> /\ cpc # "off"
    BY <1>5 DEF CleanupStep, RemoveNpu, RemoveRds, RemoveFails, CleanupRunning, hostVars, watchVars, histVars
  <2>2. SinceBoot(host)' /\ Scanned'
    BY <2>1, ScanStays
  <2> QED BY <2>1, <2>2
<1>6. CASE Signal
  <2>1. CASE Vanish("terminated")
    BY <2>1, VanishReady DEF How
  <2>2. CASE ~Vanish("terminated")
    BY <1>1, <1>6, <2>2 DEF Signal, procVars, histVars, watchVars
  <2> QED BY <2>1, <2>2
<1> QED BY <1>2, <1>3, <1>4, <1>5, <1>6 DEF SignalStep

\* The watcher replaces the files, and only while it regenerates.
LEMMA WatchReady ==
    ASSUME ReadyInv, TypeOK', Watch
    PROVE  ReadyInv'
<1>1. UNCHANGED <<daemonVars, mpc, spc, cpc, state, ready, bootHost>> /\ WatcherStep
  BY DEF Watch, daemonVars, procVars, runVars, histVars
<1>2. CASE Regenerate
  BY <1>1, <1>2, GenerateReady DEF Regenerate
<1>3. CASE ~Regenerate
  <2>1. UNCHANGED <<host, rdsDev, npu, rds>> /\ wpc # "off" /\ wpc' # "off"
    BY <1>1, <1>3 DEF WatcherStep, RunCancelled, StartBaseline, Probe, ProbeFails, Baseline, Tick, LoopExit,
            TickCancelled, TickUnchanged, TickChanged, TakeSnapshot, CallbackCancelled, CallbackBegin,
            CallbackReturn, FinishTick, cdiVars, hostVars, fileVars, watchVars
  <2>2. mpc # "setup"
    BY <2>1 DEF ReadyInv, ReadyPhase, BeforeWatch
  <2>3. SinceBoot(host)'
    BY <1>1, <2>1 DEF ReadyInv, ReadyFiles, SinceBoot
  <2>4. Scanned' /\ (gstage'[Self] # "idle" => wpc' = "generate")
    <3>1. CASE CallbackBegin
      BY <3>1, WatcherAssumption
         DEF CallbackBegin, BeginGenerate, StartScan, SetStage, ReadyInv, TypeOK, CdiTypeOK, Scanned
    <3>2. CASE CallbackReturn
      BY <3>2, WatcherAssumption DEF CallbackReturn, SetStage, ReadyInv, TypeOK, CdiTypeOK, Scanned
    <3>3. CASE ~CallbackBegin /\ ~CallbackReturn
      <4>1. wpc # "generate" /\ gstage' = gstage
        BY <1>1, <1>3, <3>3 DEF WatcherStep, RunCancelled, StartBaseline, Probe, ProbeFails, Baseline, Tick,
                LoopExit, TickCancelled, TickUnchanged, TickChanged, TakeSnapshot, CallbackCancelled, cdiVars
      <4>2. gstage'[Self] = "idle"
        BY <2>2, <4>1 DEF ReadyInv, ReadyPhase
      <4> QED BY <4>2 DEF Scanned
    <3> QED BY <3>1, <3>2, <3>3
  <2>5. ReadyPhase'
    BY <1>1, <2>1, <2>4 DEF ReadyInv, ReadyPhase, BeforeWatch, EarlyExit
  <2>6. ReadyFiles'
    BY <1>1, <2>1, <2>2, <2>3, <2>4, FilesStay DEF ReadyInv, ReadyFiles, EarlyExit
  <2> QED BY <2>5, <2>6 DEF ReadyInv
<1> QED BY <1>2, <1>3

LEMMA NextReady == ReadyInv /\ [Next]_vars => ReadyInv'
<1> SUFFICES ASSUME ReadyInv, [Next]_vars PROVE ReadyInv'
  OBVIOUS
<1>0. TypeOK'
  BY NextTypes DEF ReadyInv
<1>1. CASE Boot
  BY <1>0, <1>1, BootReady
<1>2. CASE MainStep
  BY <1>0, <1>2, MainReady
<1>3. CASE SignalStep \/ CleanupStep \/ Signal \/ Kill
  BY <1>0, <1>3, OtherReady
<1>4. CASE Watch
  BY <1>0, <1>4, WatchReady
<1>5. CASE (\E l \in Lib : Upgrade(l)) \/ UNCHANGED vars
  <2>1. UNCHANGED <<rdsDev, npu, rds, gstage, scanVars, wpc, mpc, spc, cpc, state, ready, bootHost>>
    BY <1>5 DEF Upgrade, vars, cdiVars, hostVars, fileVars, watchVars, daemonVars, procVars, runVars, histVars
  <2>2. SinceBoot(host)'
    <3> SUFFICES ASSUME NEW k \in Lib PROVE host'[k] >= bootHost'[k]
      BY DEF SinceBoot
    <3>1. host'[k] >= host[k] /\ host[k] \in Nat /\ host'[k] \in Nat /\ bootHost[k] \in Nat
      BY <1>0, <1>5, CdiSpecAssumption
         DEF Upgrade, vars, cdiVars, hostVars, ReadyInv, TypeOK, CdiTypeOK, ProcessTypeOK, LibMap
    <3>2. host[k] >= bootHost[k]
      BY DEF ReadyInv, ReadyFiles, SinceBoot
    <3> QED BY <2>1, <3>1, <3>2
  <2>3. Scanned'
    BY <2>1 DEF ReadyInv, ReadyFiles, Scanned, scanVars
  <2>4. ReadyPhase'
    BY <2>1 DEF ReadyInv, ReadyPhase, EarlyExit
  <2> QED BY <1>0, <2>1, <2>2, <2>3, <2>4, FilesStay DEF ReadyInv, ReadyFiles, EarlyExit
<1> QED BY <1>1, <1>2, <1>3, <1>4, <1>5 DEF Next, Finished

THEOREM ReadyInductive == Spec => []ReadyInv
<1>1. Init => ReadyInv
  <2> SUFFICES ASSUME Init PROVE ReadyInv
    OBVIOUS
  <2>1. SinceBoot(host)
    BY InitTypes, CdiSpecAssumption DEF Init, SinceBoot, LibMap
  <2> QED
    BY <2>1, InitTypes, WatcherAssumption
       DEF Init, ReadyInv, ReadyPhase, ReadyFiles, Scanned, SetUp, Reporting, BeforeWatch, AfterJoin
<1> QED BY <1>1, NextReady, PTL DEF Spec

\* /ready answers 200 only while the state is Running and every file the node
\* needs is there (Run, daemon.go:196-219), whatever I/O fails or hangs.
THEOREM ReadyServes == Spec => []ReadyMeansServing
<1>1. ReadyInv => ReadyMeansServing
  BY DEF ReadyInv, ReadyPhase, ReadyFiles, Renewed, RdsThere, Reporting, SetUp, ReadyMeansServing
<1> QED BY <1>1, ReadyInductive, PTL

\* What a ready daemon serves was never read before it was started: the files
\* a killed process left are gone by then (setup, root.go:403-412).
THEOREM ReadyIsFresh ==
    ASSUME ScanReliable
    PROVE  Spec => []ReadySpecIsFresh
<1>1. ReadyInv => ReadySpecIsFresh
  BY DEF ReadyInv, ReadyPhase, ReadyFiles, Renewed, SinceBoot, Reporting, SetUp, ReadySpecIsFresh
<1> QED BY <1>1, ReadyInductive, PTL
=============================================================================
