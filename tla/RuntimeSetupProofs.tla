------------------------- MODULE RuntimeSetupProofs -------------------------
(***************************************************************************)
(* Proofs about RuntimeSetup, for any set of processes and of nodes.       *)
(*                                                                         *)
(* A daemon restarts the runtime only after it has configured it, and a    *)
(* configured runtime is one a later daemon finds ready, whatever version  *)
(* it detects.  That fails if another file takes the setting back, if      *)
(* CDIReady may report an error, or if a program that takes no lock edits  *)
(* the file at the same time; the conditions of the theorem exclude those. *)
(*                                                                         *)
(* What the programs leave behind: a setup that reports success has made   *)
(* the runtime serve CDI, whatever failed or was killed before, and the    *)
(* operator's own settings survive any sequence of deployments, setups and *)
(* cleanups while writes succeed.                                          *)
(***************************************************************************)
EXTENDS RuntimeSetup, TLAPS

\* The operators of RuntimeConfig keep to the files they are given.
LEMMA FileTypes ==
    ASSUME node \in NodeType, NEW f \in File
    PROVE  /\ Blank \in File /\ DropIn \in File
           /\ f # Broken => Enable(node, Read(f)) \in File
           /\ Enable(node, Blank) \in File
           /\ Disable(node, f) \in File
BY RuntimeConfigAssumption
   DEF NodeType, File, Text, Setting, Dirs, Blank, DropIn, Enable, Read, Disable

\* A runtime that loads its files is in one of its three conditions.
LEMMA LoadsType ==
    ASSUME NEW n, NEW c, NEW b
    PROVE  Loads(n, c, b) \in {"cdi", "noCdi", "down"}
BY DEF Loads

\* The initial state has the right types.
LEMMA InitTypes == Init => TypeOK
<1> SUFFICES ASSUME Init PROVE TypeOK
  OBVIOUS
<1>1. PICK n \in Nodes : node = n.node /\ conf = n.conf /\ backup = n.backup
  BY DEF Init
<1>2. node \in NodeType /\ conf \in File /\ backup \in File
  BY <1>1, RuntimeSetupAssumption
<1>3. Blank \in File
  BY <1>2, FileTypes
<1>4. loaded \in {"cdi", "noCdi", "down"}
  BY LoadsType DEF Init
<1>5. orig \in File /\ spec \in BOOLEAN /\ reload \in BOOLEAN
  BY <1>2 DEF Init
<1>6. /\ prog \in [Actor -> {"none", "daemon", "setup", "cleanup", "cli"}]
      /\ pc \in [Actor -> PC]
      /\ mode \in [Actor -> {"signal", "systemd", "none"}]
  BY DEF Init, PC
<1>7. buf \in [Actor -> File] /\ tries \in [Actor -> 0..(MaxRetries - 1)]
  <2>1. 0 \in 0..(MaxRetries - 1)
    BY RuntimeSetupAssumption
  <2> QED
    BY <1>3, <2>1 DEF Init
<1>8. /\ done \in {"none", "setup", "cleanup", "unrestarted", "failed"}
      /\ touched \in 0..2 /\ restarts \in 0..2 /\ faults \in 0..MaxFaults
  BY RuntimeSetupAssumption DEF Init
<1> QED
  BY <1>2, <1>4, <1>5, <1>6, <1>7, <1>8 DEF TypeOK

-----------------------------------------------------------------------------
\* The type invariant in two parts: the processes, and what they share.
ProcTypes ==
    /\ prog \in [Actor -> {"none", "daemon", "setup", "cleanup", "cli"}]
    /\ pc \in [Actor -> PC]
    /\ buf \in [Actor -> File]
    /\ mode \in [Actor -> {"signal", "systemd", "none"}]
    /\ tries \in [Actor -> 0..(MaxRetries - 1)]
    /\ done \in {"none", "setup", "cleanup", "unrestarted", "failed"}

SharedTypes ==
    /\ node \in NodeType
    /\ conf \in File /\ backup \in File /\ orig \in File
    /\ spec \in BOOLEAN
    /\ loaded \in {"cdi", "noCdi", "down"} /\ reload \in BOOLEAN
    /\ touched \in 0..2
    /\ restarts \in 0..2
    /\ faults \in 0..MaxFaults

LEMMA Parts == TypeOK <=> ProcTypes /\ SharedTypes
BY DEF TypeOK, ProcTypes, SharedTypes

\* A fault stays within its bound.
LEMMA FaultTypes ==
    ASSUME SharedTypes, NEW op, Fault(op)
    PROVE  faults' \in 0..MaxFaults
BY RuntimeSetupAssumption DEF SharedTypes, Fault

\* The end of a program (End) and of a restart (Restarted).
LEMMA EndTypes ==
    ASSUME TypeOK, NEW a \in Actor, NEW result,
           result \in {prog[a], "none", "unrestarted", "failed"},
           End(a, result)
    PROVE  ProcTypes'
BY FileTypes, Parts DEF End, GoTo, Hold, ProcTypes, SharedTypes, PC

LEMMA RestartedTypes ==
    ASSUME TypeOK, NEW a \in Actor, NEW result,
           result \in {prog[a], "none", "unrestarted", "failed"},
           Restarted(a, result)
    PROVE  ProcTypes'
BY EndTypes, Parts DEF Restarted, GoTo, procVars, ProcTypes, PC

\* A step from one place in a program to another, with a new buffer or none.
LEMMA MoveTypes ==
    ASSUME TypeOK, NEW a \in Actor, NEW label \in PC, GoTo(a, label), UNCHANGED procVars,
           UNCHANGED done, UNCHANGED buf \/ \E f \in File : Hold(a, f)
    PROVE  ProcTypes'
BY Parts DEF GoTo, Hold, procVars, ProcTypes

\* The programs' steps on the configuration: CDIReady and Configure.
LEMMA ConfigureTypes ==
    ASSUME TypeOK, NEW a \in Actor, CheckReady(a) \/ CheckFails(a) \/ ConfigureStep(a)
    PROVE  ProcTypes' /\ SharedTypes'
<1> USE RuntimeSetupAssumption, Parts DEF fileVars, runtimeVars, histVars
<1>0. ConfigureStart \in PC
  BY DEF ConfigureStart, PC
<1>1. CASE CheckReady(a)
  BY <1>0, <1>1, MoveTypes, FaultTypes DEF CheckReady, SharedTypes, PC
<1>2. CASE CheckFails(a)
  BY <1>0, <1>2, MoveTypes, FaultTypes DEF CheckFails, Step, SharedTypes, PC
<1>3. CASE Backup(a)
  BY <1>3, MoveTypes DEF Backup, SharedTypes, PC
<1>4. CASE SaveTruncate(a)
  BY <1>4, MoveTypes, FileTypes DEF SaveTruncate, Step, SharedTypes, PC
<1>5. CASE Save(a)
  BY <1>5, MoveTypes DEF Save, Step, SharedTypes, ProcTypes, PC
<1>6. CASE ReadAndEnable(a)
  BY <1>6, MoveTypes, FileTypes DEF ReadAndEnable, Step, SharedTypes, PC
<1>7. CASE ReadRefuses(a)
  BY <1>7, EndTypes DEF ReadRefuses, Fails, SharedTypes
<1>8. CASE PrepareDropIn(a)
  BY <1>8, MoveTypes, FileTypes DEF PrepareDropIn, Step, SharedTypes, PC
<1>9. CASE Truncate(a)
  BY <1>9, MoveTypes, FileTypes DEF Truncate, Step, SharedTypes, PC
<1>10. CASE Write(a)
  <2>1. ProcTypes'
    BY <1>10, MoveTypes, EndTypes DEF Write, PC
  <2>2. touched' \in 0..2 /\ conf' \in File
    BY <1>10 DEF Write, SharedTypes, ProcTypes
  <2> QED
    BY <1>10, <2>1, <2>2 DEF Write, SharedTypes
<1>11. CASE WriteFails(a)
  BY <1>11, MoveTypes, EndTypes, FaultTypes DEF WriteFails, Fails, SharedTypes, PC
<1> QED
  BY <1>1, <1>2, <1>3, <1>4, <1>5, <1>6, <1>7, <1>8, <1>9, <1>10, <1>11 DEF ConfigureStep

\* generateCDISpec and Cleanup.
LEMMA CleanupTypes ==
    ASSUME TypeOK, NEW a \in Actor, Generate(a) \/ GenerateFails(a) \/ CleanupStep(a)
    PROVE  ProcTypes' /\ SharedTypes'
<1> USE RuntimeSetupAssumption, Parts DEF fileVars, runtimeVars, histVars
<1>0. RevertStart \in PC
  BY DEF RevertStart, PC
<1>1. CASE Generate(a)
  BY <1>1, MoveTypes DEF Generate, Step, SharedTypes, PC
<1>2. CASE GenerateFails(a)
  BY <1>2, EndTypes, FaultTypes DEF GenerateFails, Fails, SharedTypes
<1>3. CASE RemoveSpec(a)
  BY <1>0, <1>3, MoveTypes, FaultTypes DEF RemoveSpec, Step, SharedTypes
<1>4. CASE Revert(a)
  BY <1>4, MoveTypes, FileTypes DEF Revert, SharedTypes, PC
<1>5. CASE RestoreTruncate(a)
  BY <1>5, MoveTypes, FileTypes DEF RestoreTruncate, Step, SharedTypes, PC
<1>6. CASE Restore(a)
  <2>1. ProcTypes'
    BY <1>6, MoveTypes DEF Restore, Step, PC
  <2>2. conf' \in File
    BY <1>6 DEF Restore, ProcTypes
  <2> QED
    BY <1>6, <2>1, <2>2 DEF Restore, SharedTypes
<1>7. CASE RestoreFails(a)
  BY <1>7, MoveTypes, FaultTypes DEF RestoreFails, Step, SharedTypes, PC
<1>8. CASE DropBackup(a)
  BY <1>8, MoveTypes, FaultTypes DEF DropBackup, Step, SharedTypes, File, PC
<1>9. CASE RemoveDropIn(a)
  BY <1>9, MoveTypes DEF RemoveDropIn, Step, SharedTypes, File, PC
<1>10. CASE RemoveBackup(a)
  BY <1>10, MoveTypes DEF RemoveBackup, Step, SharedTypes, File, PC
<1>11. CASE RemoveFails(a)
  BY <1>11, MoveTypes, FaultTypes DEF RemoveFails, SharedTypes, PC
<1> QED
  BY <1>1, <1>2, <1>3, <1>4, <1>5, <1>6, <1>7, <1>8, <1>9, <1>10, <1>11 DEF CleanupStep

\* The restarters.
LEMMA RestartTypes ==
    ASSUME TypeOK, NEW a \in Actor, RestartStep(a)
    PROVE  ProcTypes' /\ SharedTypes'
<1> USE RuntimeSetupAssumption, Parts DEF fileVars, runtimeVars, histVars
<1>1. CASE RestartSkipped(a)
  BY <1>1, RestartedTypes DEF RestartSkipped, SharedTypes
<1>2. CASE SignalRestart(a)
  BY <1>2, RestartedTypes DEF SignalRestart, CountRestart, SharedTypes
<1>3. CASE SignalFails(a)
  BY <1>3, RestartedTypes, FaultTypes DEF SignalFails, SharedTypes, ProcTypes, procVars
<1>4. CASE SystemdRestart(a)
  <2>1. ProcTypes'
    BY <1>4, RestartedTypes DEF SystemdRestart
  <2>2. loaded' \in {"cdi", "noCdi", "down"}
    BY <1>4, LoadsType DEF SystemdRestart
  <2>3. restarts' \in 0..2
    BY <1>4 DEF SystemdRestart, CountRestart, SharedTypes
  <2> QED
    BY <1>4, <2>1, <2>2, <2>3 DEF SystemdRestart, SharedTypes
<1>5. CASE SystemdFails(a)
  <2>1. ProcTypes'
    BY <1>5, RestartedTypes DEF SystemdFails
  <2>2. faults' \in 0..MaxFaults
    BY <1>5, FaultTypes DEF SystemdFails
  <2>3. restarts' \in 0..2
    <3>1. CASE UNCHANGED <<reload, restarts>>
      BY <3>1 DEF SharedTypes
    <3>2. CASE CountRestart(a)
      BY <3>2 DEF CountRestart, SharedTypes
    <3> QED
      BY <1>5, <3>1, <3>2 DEF SystemdFails
  <2>4. reload' \in BOOLEAN
    BY <1>5 DEF SystemdFails, SharedTypes
  <2> QED
    BY <1>5, <2>1, <2>2, <2>3, <2>4 DEF SystemdFails, SharedTypes
<1> QED
  BY <1>1, <1>2, <1>3, <1>4, <1>5 DEF RestartStep

\* Programs start, end and are killed.
LEMMA BeginTypes ==
    ASSUME TypeOK, NEW a \in Actor, NEW program \in Programs, Begin(a, program)
    PROVE  ProcTypes' /\ SharedTypes'
<1> USE RuntimeSetupAssumption, Parts
<1>1. prog' \in [Actor -> {"none", "daemon", "setup", "cleanup", "cli"}]
  BY DEF Begin, ProcTypes
<1>2. FirstStep[program] \in PC
  BY DEF FirstStep, ConfigureStart, PC
<1>3. pc' \in [Actor -> PC] /\ buf' \in [Actor -> File]
  BY <1>2, FileTypes DEF Begin, GoTo, Hold, ProcTypes, SharedTypes
<1>4. mode' \in [Actor -> {"signal", "systemd", "none"}]
  BY DEF Begin, ModesFor, ProcTypes
<1>5. tries' \in [Actor -> 0..(MaxRetries - 1)]
  BY DEF Begin, ProcTypes
<1>6. spec' \in BOOLEAN /\ restarts' \in 0..2 /\ done' = "none"
  BY DEF Begin, SharedTypes
<1> QED
  BY <1>1, <1>3, <1>4, <1>5, <1>6 DEF Begin, ProcTypes, SharedTypes, histVars

\* Every step preserves the types.
LEMMA NextTypes == TypeOK /\ [Next]_vars => TypeOK'
<1> SUFFICES ASSUME TypeOK, [Next]_vars PROVE ProcTypes' /\ SharedTypes'
  BY DEF TypeOK, ProcTypes, SharedTypes
<1> USE Parts
<1>1. ASSUME NEW a \in Actor, ActorStep(a) PROVE ProcTypes' /\ SharedTypes'
  BY <1>1, ConfigureTypes, CleanupTypes, RestartTypes DEF ActorStep
<1>2. ASSUME NEW a \in Actor, DaemonStops(a) PROVE ProcTypes' /\ SharedTypes'
  BY <1>2, EndTypes DEF DaemonStops, SharedTypes, runtimeVars, histVars
<1>3. ASSUME NEW a \in Actor, Killed(a) PROVE ProcTypes' /\ SharedTypes'
  BY <1>3, EndTypes, FaultTypes DEF Killed, SharedTypes, fileVars, runtimeVars, histVars
<1>4. CASE RuntimeRestarts
  BY <1>4, LoadsType DEF RuntimeRestarts, ProcTypes, SharedTypes, procVars, fileVars, histVars
<1>5. CASE UNCHANGED vars
  BY <1>5 DEF vars, ProcTypes, SharedTypes, fileVars, runtimeVars, procVars, histVars
<1> QED
  BY <1>1, <1>2, <1>3, <1>4, <1>5, BeginTypes DEF Next

\* The type invariant: the files, what the runtime has loaded, and the
\* programs that setup.go, cleanup.go and root.go run keep their types.
THEOREM TypeCorrect == Spec => []TypeOK
BY InitTypes, NextTypes, PTL DEF Spec

-----------------------------------------------------------------------------
\* No program edits the files without the lock, and on CRI-O no file that is
\* read after the drop-in takes its setting back.
Unshared ==
    /\ "cli" \notin Programs \/ \A a, b \in Actor : a = b
    /\ \A n \in Nodes : n.node.runtime = "crio" =>
            n.node.above # "misses" /\ DirsOf(n.backup) # "misses"

Cleaning == {"removeSpec", "revert", "restoreTruncate", "restore", "dropBackup",
             "removeDropIn", "removeBackup"}
EditsFile == {"backup", "saveTruncate", "save", "read", "revert", "restoreTruncate",
              "restore", "dropBackup"}
EditsDropIn == {"dropIn", "removeDropIn", "removeBackup"}

\* The lock admits one program at a time.
OneProgram ==
    /\ \A a, b \in Actor : prog[a] # "none" /\ prog[b] # "none" => a = b
    /\ "cli" \in Programs \/ \A a \in Actor : prog[a] # "cli"

\* Which program, on which runtime, can be where.
Places ==
    \A a \in Actor :
        /\ pc[a] = "idle" <=> prog[a] = "none"
        /\ pc[a] \in {"check", "running"} => prog[a] = "daemon"
        /\ pc[a] = "generate" => prog[a] = "setup"
        /\ pc[a] \in Cleaning => prog[a] = "cleanup"
        /\ pc[a] \in EditsFile => node.runtime # "crio"
        /\ pc[a] \in EditsDropIn => node.runtime = "crio"

CrioInv == node.runtime = "crio" => node.above # "misses" /\ DirsOf(backup) # "misses"

Base == OneProgram /\ Places /\ CrioInv

\* A program that ends.
LEMMA EndBase ==
    ASSUME TypeOK, Base, NEW a \in Actor, NEW result, End(a, result), pc[a] # "idle",
           UNCHANGED node, CrioInv'
    PROVE  Base'
<1> USE DEF Base, TypeOK, End, GoTo
<1>1. OneProgram'
  BY DEF OneProgram
<1>2. Places'
  BY DEF Places, Cleaning, EditsFile, EditsDropIn
<1> QED
  BY <1>1, <1>2

\* A program that goes where it may be.
LEMMA MoveBase ==
    ASSUME TypeOK, Base, NEW a \in Actor, NEW label, GoTo(a, label),
           UNCHANGED <<node, prog>>, CrioInv',
           pc[a] # "idle", label # "idle",
           label \in {"check", "running"} => prog[a] = "daemon",
           label = "generate" => prog[a] = "setup",
           label \in Cleaning => prog[a] = "cleanup",
           label \in EditsFile => node.runtime # "crio",
           label \in EditsDropIn => node.runtime = "crio"
    PROVE  Base'
BY DEF Base, TypeOK, GoTo, OneProgram, Places

LEMMA BeginBase ==
    ASSUME TypeOK, Base, Unshared, NEW a \in Actor, NEW program \in Programs, Begin(a, program)
    PROVE  Base'
<1> USE RuntimeSetupAssumption DEF Base, TypeOK, Begin, GoTo
<1>1. OneProgram'
  BY DEF OneProgram, Unshared, Places
<1>2. Places'
  BY DEF Places, Cleaning, EditsFile, EditsDropIn, FirstStep, ConfigureStart
<1>3. CrioInv'
  BY DEF CrioInv
<1> QED
  BY <1>1, <1>2, <1>3

\* CDIReady and Configure.
LEMMA ConfigureBase ==
    ASSUME TypeOK, Base, NEW a \in Actor, CheckReady(a) \/ CheckFails(a) \/ ConfigureStep(a)
    PROVE  Base'
<1> USE DEF fileVars, runtimeVars, histVars, procVars, Step, CrioInv, ConfigureStart,
           Cleaning, EditsFile, EditsDropIn
<1>0. /\ node \in NodeType /\ prog[a] \in {"none", "daemon", "setup", "cleanup", "cli"}
      /\ pc[a] \in {"check", "running"} => prog[a] = "daemon"
      /\ pc[a] \in EditsFile => node.runtime # "crio"
      /\ CrioInv
  BY DEF Base, TypeOK, Places
<1>1. CASE CheckReady(a) \/ CheckFails(a)
  BY <1>0, <1>1, MoveBase DEF CheckReady, CheckFails
<1>2. CASE Backup(a) \/ SaveTruncate(a) \/ Save(a) \/ ReadAndEnable(a)
  BY <1>0, <1>2, MoveBase DEF Backup, SaveTruncate, Save, ReadAndEnable
<1>3. CASE ReadRefuses(a)
  BY <1>0, <1>3, EndBase DEF ReadRefuses, Fails
<1>4. CASE PrepareDropIn(a) \/ Truncate(a)
  BY <1>0, <1>4, MoveBase DEF PrepareDropIn, Truncate
<1>5. CASE Write(a) \/ WriteFails(a)
  BY <1>0, <1>5, MoveBase, EndBase DEF Write, WriteFails, Fails
<1> QED
  BY <1>1, <1>2, <1>3, <1>4, <1>5 DEF ConfigureStep

\* generateCDISpec, Cleanup and the restarters.
LEMMA InstallerBase ==
    ASSUME TypeOK, Base, NEW a \in Actor,
           Generate(a) \/ GenerateFails(a) \/ CleanupStep(a) \/ RestartStep(a)
    PROVE  Base'
<1> USE DEF fileVars, runtimeVars, histVars, procVars, Step, CrioInv, DirsOf,
           Cleaning, EditsFile, EditsDropIn
<1>0. /\ pc[a] = "generate" => prog[a] = "setup"
      /\ pc[a] \in Cleaning => prog[a] = "cleanup"
      /\ pc[a] \in EditsFile => node.runtime # "crio"
      /\ pc[a] \in EditsDropIn => node.runtime = "crio"
      /\ CrioInv
  BY DEF Base, Places
<1>1. CASE Generate(a)
  BY <1>0, <1>1, MoveBase DEF Generate
<1>2. CASE GenerateFails(a)
  BY <1>0, <1>2, EndBase DEF GenerateFails, Fails
<1>3. CASE RemoveSpec(a) \/ Revert(a)
  BY <1>0, <1>3, MoveBase DEF RemoveSpec, RevertStart, Revert
<1>4. CASE RestoreTruncate(a) \/ Restore(a) \/ RestoreFails(a) \/ DropBackup(a)
  BY <1>0, <1>4, MoveBase DEF RestoreTruncate, Restore, RestoreFails, DropBackup
<1>5. CASE RemoveDropIn(a) \/ RemoveBackup(a) \/ RemoveFails(a)
  BY <1>0, <1>5, MoveBase DEF RemoveDropIn, RemoveBackup, RemoveFails
<1>6. ASSUME NEW result, Restarted(a, result), UNCHANGED <<node, backup>>, pc[a] = "restart" PROVE Base'
  BY <1>0, <1>6, MoveBase, EndBase DEF Restarted
<1>7. CASE RestartSkipped(a) \/ SignalRestart(a) \/ SystemdRestart(a) \/ SystemdFails(a)
  BY <1>6, <1>7 DEF RestartSkipped, SignalRestart, SystemdRestart, SystemdFails
<1>8. CASE SignalFails(a)
  <2>1. CASE UNCHANGED <<node, backup, prog, pc>>
    BY <2>1 DEF Base, OneProgram, Places
  <2> QED
    BY <1>6, <1>8, <2>1 DEF SignalFails
<1> QED
  BY <1>1, <1>2, <1>3, <1>4, <1>5, <1>7, <1>8 DEF CleanupStep, RestartStep

LEMMA NextBase == Unshared /\ TypeOK /\ Base /\ [Next]_vars => Base'
<1> SUFFICES ASSUME Unshared, TypeOK, Base, [Next]_vars PROVE Base'
  OBVIOUS
<1> USE DEF fileVars, runtimeVars, histVars, procVars
<1>1. ASSUME NEW a \in Actor, ActorStep(a) PROVE Base'
  BY <1>1, ConfigureBase, InstallerBase DEF ActorStep
<1>2. ASSUME NEW a \in Actor, DaemonStops(a) \/ Killed(a) PROVE Base'
  BY <1>2, EndBase DEF DaemonStops, Killed, Base, CrioInv
<1>3. CASE UNCHANGED <<node, prog, pc, backup>>
  BY <1>3 DEF Base, OneProgram, Places, CrioInv
<1> QED
  BY <1>1, <1>2, <1>3, BeginBase DEF Next, RuntimeRestarts, vars

LEMMA InitBase == Unshared /\ Init => Base
<1> SUFFICES ASSUME Unshared, Init PROVE Base
  OBVIOUS
<1>1. OneProgram /\ Places
  BY DEF Init, OneProgram, Places, Cleaning, EditsFile, EditsDropIn
<1>2. CrioInv
  BY DEF Init, Unshared, CrioInv
<1> QED
  BY <1>1, <1>2 DEF Base

-----------------------------------------------------------------------------
\* For the restarts also: CDIReady reports no error on a file that parses.
Undisturbed == Unshared /\ "check" \notin FaultyOps

\* What Configure leaves behind.
Good(f) ==
    \/ node.runtime = "crio" /\ f = DropIn
    \/ /\ node.runtime # "crio" /\ f \in Text /\ f.cdi = "on"
       /\ node.runtime = "containerd" => f.dirs = "covers"

\* A daemon that changes the configuration has not restarted the runtime yet;
\* when it comes to the restart, the configuration is good.
DaemonInv ==
    \A a \in Actor : prog[a] = "daemon" =>
        /\ pc[a] \in {"truncate", "write"} => Good(buf[a])
        /\ pc[a] = "restart" => Good(conf)
        /\ pc[a] \notin {"check", "running"} => restarts = 0

\* After a restart the configuration stays good while only daemons run.
RestartInv ==
    restarts # 0 =>
        /\ restarts = 1
        /\ Good(conf)
        /\ \A a \in Actor : prog[a] \in {"none", "daemon"}

Inv == DaemonInv /\ RestartInv
IInv == TypeOK /\ Base /\ Inv

\* Configure writes a good configuration.
LEMMA EnableIsGood ==
    ASSUME node \in NodeType, NEW f \in File, f # Broken, node.runtime # "crio"
    PROVE  Good(Enable(node, Read(f)))
BY RuntimeConfigAssumption
   DEF NodeType, File, Text, Setting, Dirs, Blank, Enable, Read, Good

\* CDIReady finds a good configuration ready, whatever the version.
LEMMA GoodIsReady ==
    ASSUME node \in NodeType, NEW version \in BOOLEAN, CrioInv, Good(conf)
    PROVE  ~Unparsable(node, conf) /\ Ready(node, conf, backup, version)
<1>1. CASE node.runtime = "crio"
  <2>1. DropIn \in Text /\ DropIn.dirs = "covers"
    BY DEF DropIn, Text, Setting, Dirs
  <2>2. conf = DropIn
    BY <1>1 DEF Good
  <2>3. DirsOf(conf) = "covers"
    BY <2>1, <2>2, RuntimeConfigAssumption DEF DirsOf
  <2> QED
    BY <1>1, <2>3 DEF CrioInv, Unparsable, Ready, crioEffectiveSpecDirs, Overlay
<1>2. CASE node.runtime # "crio"
  BY <1>2, RuntimeConfigAssumption DEF Good, Unparsable, Ready, Read
<1> QED
  BY <1>1, <1>2

\* The initial state.
LEMMA InitIInv == Undisturbed /\ Init => IInv
BY InitTypes, InitBase DEF IInv, Inv, Undisturbed, Init, DaemonInv, RestartInv

\* A program that ends leaves the others and the files to themselves.
LEMMA EndInv ==
    ASSUME IInv, NEW a \in Actor, NEW result, End(a, result), pc[a] # "idle",
           UNCHANGED <<node, restarts>>, restarts # 0 => conf' = conf
    PROVE  Inv'
<1> USE DEF IInv, Base, Inv, TypeOK, End, GoTo, Hold
<1>1. DaemonInv'
  BY DEF DaemonInv, OneProgram, Places
<1>2. RestartInv'
  BY DEF RestartInv, Good
<1> QED
  BY <1>1, <1>2

\* A program that begins is alone, and a daemon begins with CDIReady.
LEMMA BeginInv ==
    ASSUME IInv, Undisturbed, NEW a \in Actor, NEW program \in Programs, Begin(a, program)
    PROVE  Inv'
<1> USE RuntimeSetupAssumption DEF IInv, Base, Inv, TypeOK, Begin, GoTo, Hold
<1>1. DaemonInv'
  BY DEF DaemonInv, OneProgram, Places, Undisturbed, Unshared, FirstStep, Good
<1>2. RestartInv'
  BY DEF RestartInv, Good
<1> QED
  BY <1>1, <1>2

\* A step of a program from one place to another, without a restart, if what
\* it leaves there is what that place demands of a daemon.
LEMMA MoveInv ==
    ASSUME IInv, NEW a \in Actor, NEW label, GoTo(a, label), pc[a] # "idle",
           UNCHANGED <<node, prog, restarts>>,
           prog[a] = "daemon" =>
               /\ label \in {"truncate", "write"} => Good(buf'[a])
               /\ label = "restart" => Good(conf')
               /\ label \notin {"check", "running"} => restarts = 0,
           restarts # 0 => conf' = conf,
           \A b \in Actor : b # a => buf'[b] = buf[b]
    PROVE  Inv'
<1> USE DEF IInv, Base, Inv, TypeOK, GoTo
<1>1. DaemonInv'
  <2> SUFFICES ASSUME NEW b \in Actor, prog[b] = "daemon"
               PROVE  /\ pc'[b] \in {"truncate", "write"} => Good(buf[b])'
                      /\ pc'[b] = "restart" => Good(conf)'
                      /\ pc'[b] \notin {"check", "running"} => restarts' = 0
    BY DEF DaemonInv
  <2>1. b = a
    BY DEF OneProgram, Places
  <2> QED
    BY <2>1 DEF Good
<1>2. RestartInv'
  BY DEF RestartInv, Good
<1> QED
  BY <1>1, <1>2

\* Whoever is in the middle of something runs when no restart is counted.
LEMMA NoRestartYet ==
    ASSUME IInv, NEW a \in Actor, pc[a] \notin {"idle", "check", "running"}
    PROVE  restarts = 0
BY DEF IInv, Base, Inv, Places, DaemonInv, RestartInv, TypeOK

\* CDIReady and Configure.
LEMMA ConfigureInv ==
    ASSUME IInv, Undisturbed, NEW a \in Actor,
           CheckReady(a) \/ CheckFails(a) \/ ConfigureStep(a)
    PROVE  Inv'
<1> USE DEF fileVars, runtimeVars, histVars, procVars
<1>0. /\ node \in NodeType /\ conf \in File /\ pc[a] \in PC /\ restarts \in 0..2
      /\ prog[a] \in {"none", "daemon", "setup", "cleanup", "cli"}
      /\ buf \in [Actor -> File]
      /\ pc[a] \in {"check", "running"} => prog[a] = "daemon"
      /\ pc[a] \in EditsFile => node.runtime # "crio"
      /\ pc[a] = "dropIn" => node.runtime = "crio"
      /\ CrioInv
      /\ prog[a] = "daemon" /\ pc[a] \in {"truncate", "write"} => Good(buf[a])
      /\ restarts # 0 => Good(conf)
  BY DEF IInv, Base, Inv, TypeOK, Places, EditsDropIn, DaemonInv, RestartInv
<1>1. CASE CheckReady(a)
  <2>1. restarts # 0 => GoTo(a, "running")
    BY <1>0, <1>1, GoodIsReady DEF CheckReady, NodeType
  <2>2. GoTo(a, "running") \/ GoTo(a, ConfigureStart)
    BY <1>1 DEF CheckReady
  <2>3. CASE GoTo(a, "running")
    BY <1>0, <1>1, <2>3, MoveInv DEF CheckReady
  <2>4. CASE GoTo(a, ConfigureStart) /\ restarts = 0
    BY <1>0, <1>1, <2>4, MoveInv DEF CheckReady, ConfigureStart
  <2> QED
    BY <2>1, <2>2, <2>3, <2>4
<1>2. CASE CheckFails(a)
  <2>1. restarts = 0
    BY <1>0, <1>2, GoodIsReady DEF CheckFails, Fault, Undisturbed
  <2> QED
    BY <1>0, <1>2, <2>1, MoveInv DEF CheckFails, Step, ConfigureStart
<1>3. CASE Backup(a)
  BY <1>0, <1>3, MoveInv, NoRestartYet DEF Backup, Hold
<1>4. CASE SaveTruncate(a)
  BY <1>0, <1>4, MoveInv, NoRestartYet DEF SaveTruncate, Step
<1>5. CASE Save(a)
  BY <1>0, <1>5, MoveInv, NoRestartYet DEF Save, Step
<1>6. CASE ReadAndEnable(a)
  <2>1. Good(buf'[a])
    BY <1>0, <1>6, EnableIsGood DEF ReadAndEnable, Step, Hold, EditsFile
  <2> QED
    BY <1>0, <1>6, <2>1, MoveInv, NoRestartYet DEF ReadAndEnable, Step, Hold
<1>7. CASE ReadRefuses(a)
  BY <1>7, EndInv DEF ReadRefuses, Fails
<1>8. CASE PrepareDropIn(a)
  <2>1. Good(buf'[a])
    BY <1>0, <1>8 DEF PrepareDropIn, Step, Hold, Good
  <2> QED
    BY <1>0, <1>8, <2>1, MoveInv, NoRestartYet DEF PrepareDropIn, Step, Hold
<1>9. CASE Truncate(a)
  BY <1>0, <1>9, MoveInv, NoRestartYet DEF Truncate, Step
<1>10. CASE WriteFails(a)
  <2>1. CASE prog[a] = "cleanup"
    BY <1>0, <1>10, <2>1, MoveInv, NoRestartYet DEF WriteFails
  <2>2. CASE prog[a] # "cleanup"
    BY <1>10, <2>2, EndInv DEF WriteFails, Fails
  <2> QED
    BY <2>1, <2>2
<1>11. CASE Write(a)
  <2>1. conf' = buf[a] /\ restarts = 0
    BY <1>11, NoRestartYet DEF Write
  <2>2. CASE prog[a] \in {"daemon", "cleanup"}
    BY <1>0, <1>11, <2>1, <2>2, MoveInv DEF Write
  <2>3. CASE prog[a] = "setup"
    BY <1>0, <1>11, <2>1, <2>3, MoveInv DEF Write
  <2>4. CASE End(a, "none")
    BY <1>11, <2>1, <2>4, EndInv DEF Write
  <2> QED
    BY <1>11, <2>2, <2>3, <2>4 DEF Write
<1> QED
  BY <1>1, <1>2, <1>3, <1>4, <1>5, <1>6, <1>7, <1>8, <1>9, <1>10, <1>11 DEF ConfigureStep

\* generateCDISpec and Cleanup: no daemon is in these places.
LEMMA CleanupInv ==
    ASSUME IInv, NEW a \in Actor, Generate(a) \/ GenerateFails(a) \/ CleanupStep(a)
    PROVE  Inv'
<1> USE DEF fileVars, runtimeVars, histVars, procVars, Step
<1>0. pc[a] \in Cleaning \cup {"generate"} => prog[a] # "daemon" /\ restarts = 0
  BY NoRestartYet DEF IInv, Base, Places, Cleaning
<1>1. CASE Generate(a)
  BY <1>0, <1>1, MoveInv DEF Generate, Cleaning
<1>2. CASE GenerateFails(a)
  BY <1>2, EndInv DEF GenerateFails, Fails
<1>3. CASE RemoveSpec(a)
  BY <1>0, <1>3, MoveInv DEF RemoveSpec, Cleaning
<1>4. CASE Revert(a)
  <2>1. \A b \in Actor : b # a => buf'[b] = buf[b]
    BY <1>4 DEF Revert, Hold, IInv, TypeOK
  <2> QED
    BY <1>0, <1>4, <2>1, MoveInv DEF Revert, Cleaning
<1>5. CASE RestoreTruncate(a) \/ Restore(a) \/ RestoreFails(a) \/ DropBackup(a)
  BY <1>0, <1>5, MoveInv DEF RestoreTruncate, Restore, RestoreFails, DropBackup, Cleaning
<1>6. CASE RemoveDropIn(a) \/ RemoveBackup(a) \/ RemoveFails(a)
  BY <1>0, <1>6, MoveInv DEF RemoveDropIn, RemoveBackup, RemoveFails, Cleaning
<1> QED
  BY <1>1, <1>2, <1>3, <1>4, <1>5, <1>6 DEF CleanupStep

\* What happens at the restart, counted or not: a daemon goes on, another
\* program ends.
LEMMA RestartedInv ==
    ASSUME IInv, NEW a \in Actor, NEW result, Restarted(a, result), pc[a] = "restart",
           UNCHANGED <<node, conf>>, UNCHANGED restarts \/ CountRestart(a)
    PROVE  Inv'
<1> USE DEF procVars
<1>0. restarts = 0 /\ (prog[a] = "daemon" => Good(conf))
  BY NoRestartYet DEF IInv, Inv, DaemonInv
<1>1. CASE UNCHANGED restarts /\ prog[a] # "daemon"
  BY <1>0, <1>1, EndInv DEF Restarted
<1>2. CASE UNCHANGED restarts /\ prog[a] = "daemon"
  BY <1>0, <1>2, MoveInv DEF Restarted
<1>3. CASE CountRestart(a) /\ prog[a] = "daemon"
  <2> USE <1>0, <1>3 DEF IInv, Base, Inv, TypeOK, Restarted, GoTo, CountRestart
  <2>1. DaemonInv'
    BY DEF DaemonInv, OneProgram, Places
  <2>2. RestartInv'
    BY DEF RestartInv, OneProgram, Good
  <2> QED
    BY <2>1, <2>2
<1> QED
  BY <1>1, <1>2, <1>3 DEF CountRestart

LEMMA RestartStepInv ==
    ASSUME IInv, NEW a \in Actor, RestartStep(a)
    PROVE  Inv'
<1> USE DEF fileVars, runtimeVars, histVars, procVars
<1>1. CASE RestartSkipped(a)
  BY <1>1, RestartedInv DEF RestartSkipped
<1>2. CASE SignalRestart(a)
  BY <1>2, RestartedInv DEF SignalRestart
<1>3. CASE SignalFails(a)
  <2>1. CASE Restarted(a, "failed")
    BY <1>3, <2>1, RestartedInv DEF SignalFails
  <2>2. CASE UNCHANGED <<node, prog, pc, buf, conf, restarts>>
    BY <2>2 DEF IInv, Inv, DaemonInv, RestartInv, Good
  <2> QED
    BY <1>3, <2>1, <2>2 DEF SignalFails
<1>4. CASE SystemdRestart(a)
  BY <1>4, RestartedInv DEF SystemdRestart
<1>5. CASE SystemdFails(a)
  BY <1>5, RestartedInv DEF SystemdFails
<1> QED
  BY <1>1, <1>2, <1>3, <1>4, <1>5 DEF RestartStep

\* Every step preserves the invariant.
LEMMA NextIInv == Undisturbed /\ IInv /\ [Next]_vars => IInv'
<1> SUFFICES ASSUME Undisturbed, IInv, [Next]_vars PROVE Inv'
  BY NextTypes, NextBase DEF IInv, Undisturbed
<1> USE DEF fileVars, runtimeVars, histVars, procVars
<1>1. ASSUME NEW a \in Actor, ActorStep(a) PROVE Inv'
  BY <1>1, ConfigureInv, CleanupInv, RestartStepInv DEF ActorStep
<1>2. ASSUME NEW a \in Actor, DaemonStops(a) PROVE Inv'
  BY <1>2, EndInv DEF DaemonStops
<1>3. ASSUME NEW a \in Actor, Killed(a) PROVE Inv'
  BY <1>3, EndInv DEF Killed
<1>4. CASE UNCHANGED <<node, prog, pc, buf, conf, restarts>>
  BY <1>4 DEF IInv, Inv, DaemonInv, RestartInv, Good
<1> QED
  BY <1>1, <1>2, <1>3, <1>4, BeginInv DEF Next, RuntimeRestarts, vars

\* README, "restarted once, on the first deploy": in any sequence of deploys,
\* setups, cleanups, kills, failing writes and restarts, on any node that meets
\* the conditions, daemons restart the runtime at most once after another
\* program has begun.
THEOREM RestartedOnce ==
    ASSUME Undisturbed
    PROVE  Spec => []RestartOnce
<1>1. Init => IInv
  BY InitIInv
<1>2. IInv /\ [Next]_vars => IInv'
  BY NextIInv
<1>3. IInv => RestartOnce
  BY DEF IInv, Inv, RestartInv, RestartOnce, TypeOK
<1> QED
  BY <1>1, <1>2, <1>3, PTL DEF Spec

-----------------------------------------------------------------------------
(* What a setup, a deployment and a cleanup leave behind.                   *)

\* Enable leaves Docker's directories alone, so no file may set them away.
DockerKeeps ==
    \A n \in Nodes : n.node.runtime = "docker" =>
        DirsOf(n.conf) # "misses" /\ DirsOf(n.backup) # "misses"

DockerInv ==
    node.runtime = "docker" =>
        /\ DirsOf(conf) # "misses" /\ DirsOf(backup) # "misses"
        /\ \A a \in Actor : DirsOf(buf[a]) # "misses"

\* A setup that is past its edit has left a good configuration, and one that
\* is past the generation the spec file; a setup that is over was the last
\* program to run.
SetupInv ==
    /\ \A a \in Actor : prog[a] = "setup" =>
        /\ pc[a] \in {"truncate", "write"} => Good(buf[a])
        /\ pc[a] \in {"generate", "restart"} => Good(conf)
        /\ pc[a] = "restart" => spec
    /\ done = "setup" =>
        /\ \A a \in Actor : prog[a] = "none"
        /\ spec /\ Good(conf)
        /\ loaded = "cdi" \/ reload

ServeInv == TypeOK /\ Base /\ DockerInv /\ SetupInv

\* The operators of RuntimeConfig leave the directories of Docker's file.
LEMMA DirsStay ==
    ASSUME NEW f \in File, DirsOf(f) # "misses", node.runtime = "docker"
    PROVE  /\ DirsOf(Blank) # "misses"
           /\ f # Broken => DirsOf(Enable(node, Read(f))) # "misses"
           /\ DirsOf(Disable(node, f)) # "misses"
BY RuntimeConfigAssumption DEF File, Text, Dirs, DirsOf, Blank, Enable, Read, Disable

\* A runtime that restarts on a good configuration serves CDI.
LEMMA GoodLoads ==
    ASSUME TypeOK, Base, DockerInv, Good(conf)
    PROVE  Loads(node, conf, backup) = "cdi"
<1>1. conf # Broken
  <2>1. DropIn \in Text
    BY DEF DropIn, Text, Setting, Dirs
  <2> QED
    BY <2>1, RuntimeConfigAssumption DEF Good
<1>2. CASE node.runtime = "crio"
  BY <1>1, <1>2, GoodIsReady DEF TypeOK, Base, NodeType, Ready, Loads
<1>3. CASE node.runtime # "crio"
  <2>1. conf \notin {NoFile, Broken} /\ conf.cdi = "on"
    BY <1>3, RuntimeConfigAssumption DEF Good
  <2>2. conf.dirs # "misses"
    BY <1>3, <2>1 DEF TypeOK, NodeType, DockerInv, Good, DirsOf
  <2> QED
    BY <1>3, <2>1, <2>2 DEF Read, Loads
<1> QED
  BY <1>2, <1>3

\* A program that ends: only a setup whose restart was asked for reports it.
LEMMA EndServe ==
    ASSUME ServeInv, NEW a \in Actor, NEW result, End(a, result), pc[a] # "idle", UNCHANGED node,
           prog[a] = "setup" /\ result = "setup" =>
               spec' /\ Good(conf') /\ (loaded' = "cdi" \/ reload'),
           result \in {prog[a], "none", "unrestarted", "failed"}
    PROVE  SetupInv'
<1> USE DEF ServeInv, Base, TypeOK, End, GoTo
<1>1. \A b \in Actor : prog'[b] = "none"
  BY DEF OneProgram, Places
<1>2. done # "setup"
  BY DEF SetupInv, Places
<1> QED
  BY <1>1, <1>2 DEF SetupInv, Good

\* A program that moves on, with what setup needs at the place it comes to.
LEMMA MoveServe ==
    ASSUME ServeInv, NEW a \in Actor, NEW label, GoTo(a, label), pc[a] # "idle",
           UNCHANGED <<node, prog, done>>,
           \A b \in Actor : b # a => buf'[b] = buf[b],
           prog[a] = "setup" =>
               /\ label \in {"truncate", "write"} => Good(buf'[a])
               /\ label \in {"generate", "restart"} => Good(conf')
               /\ label = "restart" => spec'
    PROVE  SetupInv'
<1> USE DEF ServeInv, Base, TypeOK, GoTo
<1>1. done # "setup"
  BY DEF SetupInv, Places
<1>2. \A b \in Actor : prog[b] = "setup" => b = a
  BY DEF OneProgram, Places
<1> QED
  BY <1>1, <1>2 DEF SetupInv, Good

\* Configure and what comes before it.
LEMMA ConfigureServe ==
    ASSUME ServeInv, NEW a \in Actor, CheckReady(a) \/ CheckFails(a) \/ ConfigureStep(a)
    PROVE  SetupInv'
<1> USE DEF fileVars, runtimeVars, histVars, procVars, Step, Hold
<1>0. /\ node \in NodeType /\ conf \in File /\ buf \in [Actor -> File]
      /\ pc[a] \in {"check", "running"} => prog[a] = "daemon"
      /\ pc[a] \in EditsFile => node.runtime # "crio"
      /\ pc[a] = "dropIn" => node.runtime = "crio"
      /\ prog[a] = "setup" /\ pc[a] \in {"truncate", "write"} => Good(buf[a])
  BY DEF ServeInv, Base, TypeOK, Places, EditsDropIn, SetupInv
<1>1. CASE CheckReady(a) \/ CheckFails(a)
  BY <1>0, <1>1, MoveServe DEF CheckReady, CheckFails
<1>2. CASE Backup(a) \/ SaveTruncate(a) \/ Save(a)
  BY <1>0, <1>2, MoveServe DEF Backup, SaveTruncate, Save
<1>3. CASE ReadAndEnable(a)
  <2>1. Good(buf'[a])
    BY <1>0, <1>3, EnableIsGood DEF ReadAndEnable, EditsFile
  <2> QED
    BY <1>0, <1>3, <2>1, MoveServe DEF ReadAndEnable
<1>4. CASE ReadRefuses(a)
  BY <1>4, EndServe DEF ReadRefuses, Fails
<1>5. CASE PrepareDropIn(a)
  <2>1. Good(buf'[a])
    BY <1>0, <1>5 DEF PrepareDropIn, Good
  <2> QED
    BY <1>0, <1>5, <2>1, MoveServe DEF PrepareDropIn
<1>6. CASE Truncate(a)
  BY <1>0, <1>6, MoveServe DEF Truncate
<1>7. CASE Write(a)
  <2>1. CASE End(a, "none")
    BY <1>7, <2>1, EndServe DEF Write
  <2>2. CASE prog[a] \in {"daemon", "cleanup"} /\ GoTo(a, "restart")
    BY <1>7, <2>2, MoveServe DEF Write
  <2>3. CASE prog[a] = "setup" /\ GoTo(a, "generate")
    BY <1>0, <1>7, <2>3, MoveServe DEF Write
  <2> QED
    BY <1>7, <2>1, <2>2, <2>3 DEF Write
<1>8. CASE WriteFails(a)
  BY <1>8, MoveServe, EndServe DEF WriteFails, Fails
<1> QED
  BY <1>1, <1>2, <1>3, <1>4, <1>5, <1>6, <1>7, <1>8 DEF ConfigureStep

\* Generation and Cleanup.
LEMMA InstallerServe ==
    ASSUME ServeInv, NEW a \in Actor, Generate(a) \/ GenerateFails(a) \/ CleanupStep(a)
    PROVE  SetupInv'
<1> USE DEF fileVars, runtimeVars, histVars, procVars, Step, Hold, Cleaning
<1>0. /\ buf \in [Actor -> File]
      /\ pc[a] \in Cleaning => prog[a] # "setup"
      /\ prog[a] = "setup" /\ pc[a] = "generate" => Good(conf)
  BY DEF ServeInv, Base, TypeOK, Places, SetupInv
<1>1. CASE Generate(a)
  BY <1>0, <1>1, MoveServe DEF Generate, Good
<1>2. CASE GenerateFails(a)
  BY <1>2, EndServe DEF GenerateFails, Fails
<1>3. CASE RemoveSpec(a) \/ Revert(a)
  BY <1>0, <1>3, MoveServe DEF RemoveSpec, Revert
<1>4. CASE RestoreTruncate(a) \/ Restore(a) \/ RestoreFails(a) \/ DropBackup(a)
  BY <1>0, <1>4, MoveServe DEF RestoreTruncate, Restore, RestoreFails, DropBackup
<1>5. CASE RemoveDropIn(a) \/ RemoveBackup(a) \/ RemoveFails(a)
  BY <1>0, <1>5, MoveServe DEF RemoveDropIn, RemoveBackup, RemoveFails
<1> QED
  BY <1>1, <1>2, <1>3, <1>4, <1>5 DEF CleanupStep

\* The restart: what is asked for or done loads the good configuration.
LEMMA RestartServe ==
    ASSUME ServeInv, NEW a \in Actor, RestartStep(a)
    PROVE  SetupInv'
<1> USE DEF fileVars, runtimeVars, histVars, procVars
<1>0. /\ pc[a] = "restart" /\ buf \in [Actor -> File]
      /\ UNCHANGED <<node, conf, spec>>
      /\ prog[a] = "setup" => Good(conf) /\ spec
  BY DEF RestartStep, RestartSkipped, SignalRestart, SignalFails, SystemdRestart, SystemdFails,
         ServeInv, TypeOK, SetupInv
<1>1. ASSUME NEW result \in {prog[a], "none", "unrestarted", "failed"}, Restarted(a, result),
             prog[a] = "setup" /\ result = "setup" => loaded' = "cdi" \/ reload'
      PROVE  SetupInv'
  <2>1. CASE prog[a] = "daemon" /\ GoTo(a, "running") /\ UNCHANGED <<procVars, buf, done>>
    BY <1>0, <2>1, MoveServe
  <2>2. CASE End(a, result)
    BY <1>0, <1>1, <2>2, EndServe DEF Good
  <2> QED
    BY <1>1, <2>1, <2>2 DEF Restarted
<1>2. CASE RestartSkipped(a) \/ SystemdFails(a)
  BY <1>1, <1>2 DEF RestartSkipped, SystemdFails
<1>3. CASE SignalRestart(a)
  BY <1>1, <1>3 DEF SignalRestart
<1>4. CASE SignalFails(a)
  <2>1. CASE Restarted(a, "failed")
    BY <1>1, <2>1
  <2>2. CASE UNCHANGED <<prog, pc, buf, done>>
    <3>1. done # "setup"
      BY <1>0 DEF ServeInv, Base, SetupInv, Places
    <3> QED
      BY <1>0, <2>2, <3>1 DEF ServeInv, SetupInv, Good
  <2> QED
    BY <1>4, <2>1, <2>2 DEF SignalFails
<1>5. CASE SystemdRestart(a)
  <2>1. prog[a] = "setup" => loaded' = "cdi"
    BY <1>0, <1>5, GoodLoads DEF SystemdRestart, ServeInv
  <2> QED
    BY <1>1, <1>5, <2>1 DEF SystemdRestart
<1> QED
  BY <1>2, <1>3, <1>4, <1>5 DEF RestartStep

\* The contents a program may come to hold.
Holdable(a) ==
    {buf[a], Blank, conf, backup, Disable(node, conf)}
    \cup {Enable(node, Read(f)) : f \in {conf} \ {Broken}}
    \cup {f \in {DropIn} : node.runtime = "crio"}

\* What a step does to the contents that are about: it copies, empties,
\* enables or disables one of them; a restart loads the files.
LEMMA Contents ==
    ASSUME TypeOK, Base, NEW a \in Actor, ActorStep(a)
    PROVE  /\ node' = node
           /\ conf' \in {conf, Blank, NoFile, buf[a]}
           /\ backup' \in {backup, Blank, NoFile, buf[a]}
           /\ loaded' \in {loaded, Loads(node, conf, backup)}
           /\ \E f \in Holdable(a) : buf' = [buf EXCEPT ![a] = f]
<1> USE DEF fileVars, runtimeVars, histVars, procVars, Step, End, Fails
<1> DEFINE Held == \E f \in Holdable(a) : Hold(a, f)
<1>0. buf \in [Actor -> File] /\ (pc[a] = "dropIn" => node.runtime = "crio")
  BY DEF TypeOK, Base, Places, EditsDropIn
<1>1. UNCHANGED buf => Held
  BY <1>0 DEF Holdable, Hold
<1>2. Hold(a, Blank) \/ Hold(a, conf) \/ Hold(a, backup) \/ Hold(a, Disable(node, conf)) => Held
  BY DEF Holdable
<1>3. Hold(a, Enable(node, Read(conf))) /\ conf # Broken => Held
  BY DEF Holdable
<1>10. Hold(a, DropIn) /\ node.runtime = "crio" => Held
  BY DEF Holdable
<1> SUFFICES /\ node' = node /\ Held
             /\ conf' \in {conf, Blank, NoFile, buf[a]}
             /\ backup' \in {backup, Blank, NoFile, buf[a]}
             /\ loaded' \in {loaded, Loads(node, conf, backup)}
  BY DEF Hold
<1> HIDE DEF Held
<1>4. CASE CheckReady(a) \/ CheckFails(a)
  BY <1>1, <1>4 DEF CheckReady, CheckFails
<1>5. CASE ConfigureStep(a)
  BY <1>0, <1>1, <1>2, <1>3, <1>5, <1>10
     DEF ConfigureStep, Backup, SaveTruncate, Save, ReadAndEnable, ReadRefuses, PrepareDropIn, Truncate,
         Write, WriteFails
<1>6. CASE Generate(a) \/ GenerateFails(a)
  BY <1>1, <1>2, <1>6 DEF Generate, GenerateFails
<1>7. CASE CleanupStep(a)
  BY <1>1, <1>2, <1>7
     DEF CleanupStep, RemoveSpec, Revert, RestoreTruncate, Restore, RestoreFails, DropBackup, RemoveDropIn,
         RemoveBackup, RemoveFails
<1>8. CASE RestartStep(a)
  BY <1>1, <1>2, <1>8
     DEF RestartStep, RestartSkipped, SignalRestart, SignalFails, SystemdRestart, SystemdFails, Restarted
<1> QED
  BY <1>4, <1>5, <1>6, <1>7, <1>8 DEF ActorStep

LEMMA NodeStays == [Next]_vars => node' = node
<1>1. ASSUME NEW a \in Actor, CheckReady(a) \/ CheckFails(a) \/ ConfigureStep(a) PROVE node' = node
  BY <1>1 DEF CheckReady, CheckFails, ConfigureStep, Backup, SaveTruncate, Save, ReadAndEnable, ReadRefuses,
              PrepareDropIn, Truncate, Write, WriteFails
<1>2. ASSUME NEW a \in Actor, Generate(a) \/ GenerateFails(a) \/ CleanupStep(a) PROVE node' = node
  BY <1>2 DEF Generate, GenerateFails, CleanupStep, RemoveSpec, Revert, RestoreTruncate, Restore, RestoreFails,
              DropBackup, RemoveDropIn, RemoveBackup, RemoveFails
<1>3. ASSUME NEW a \in Actor, RestartStep(a) PROVE node' = node
  BY <1>3 DEF RestartStep, RestartSkipped, SignalRestart, SignalFails, SystemdRestart, SystemdFails
<1> QED
  BY <1>1, <1>2, <1>3 DEF Next, ActorStep, Begin, DaemonStops, Killed, RuntimeRestarts, vars

LEMMA NextDocker == TypeOK /\ Base /\ DockerInv /\ [Next]_vars => DockerInv'
<1> SUFFICES ASSUME TypeOK, Base, DockerInv, [Next]_vars, node.runtime = "docker", node' = node PROVE DockerInv'
  BY NodeStays DEF DockerInv
<1> USE DEF DockerInv
<1>0. /\ conf \in File /\ backup \in File /\ buf \in [Actor -> File]
      /\ DirsOf(Blank) # "misses" /\ DirsOf(NoFile) # "misses"
  BY DirsStay, FileTypes DEF TypeOK, DirsOf
<1>1. ASSUME NEW a \in Actor, ActorStep(a) PROVE DockerInv'
  <2>1. \A f \in Holdable(a) : DirsOf(f) # "misses"
    BY <1>0, DirsStay DEF Holdable
  <2>2. PICK f \in Holdable(a) : buf' = [buf EXCEPT ![a] = f]
    BY <1>1, Contents
  <2>3. DirsOf(conf') # "misses" /\ DirsOf(backup') # "misses"
    BY <1>0, <1>1, Contents
  <2> QED
    BY <1>0, <2>1, <2>2, <2>3
<1>2. ASSUME NEW a \in Actor, Hold(a, Blank), UNCHANGED <<conf, backup>> PROVE DockerInv'
  BY <1>0, <1>2 DEF Hold
<1>3. CASE UNCHANGED <<conf, backup, buf>>
  BY <1>3
<1> QED
  BY <1>1, <1>2, <1>3
     DEF Next, Begin, DaemonStops, Killed, End, RuntimeRestarts, vars, fileVars

LEMMA BeginServe ==
    ASSUME ServeInv, NEW a \in Actor, NEW program \in Programs, Begin(a, program), Base'
    PROVE  SetupInv'
<1> USE RuntimeSetupAssumption DEF ServeInv, Base, TypeOK, Begin, GoTo
<1>1. done' # "setup"
  OBVIOUS
<1>2. \A b \in Actor : prog'[b] = "setup" => b = a
  BY DEF OneProgram
<1>3. pc'[a] \notin {"truncate", "write", "generate", "restart"}
  BY DEF FirstStep, ConfigureStart
<1> QED
  BY <1>1, <1>2, <1>3 DEF SetupInv

LEMMA NextServe == Unshared /\ ServeInv /\ [Next]_vars => ServeInv'
<1> SUFFICES ASSUME Unshared, ServeInv, [Next]_vars PROVE SetupInv'
  BY NextTypes, NextBase, NextDocker DEF ServeInv
<1> USE DEF fileVars, runtimeVars, histVars, procVars
<1>1. ASSUME NEW a \in Actor, ActorStep(a) PROVE SetupInv'
  BY <1>1, ConfigureServe, InstallerServe, RestartServe DEF ActorStep
<1>2. ASSUME NEW a \in Actor, DaemonStops(a) \/ Killed(a) PROVE SetupInv'
  BY <1>2, EndServe DEF DaemonStops, Killed
<1>3. ASSUME NEW a \in Actor, NEW program \in Programs, Begin(a, program) PROVE SetupInv'
  BY <1>3, BeginServe, NextBase DEF ServeInv
<1>4. CASE RuntimeRestarts
  <2>1. Good(conf) => loaded' = "cdi"
    BY <1>4, GoodLoads DEF RuntimeRestarts, ServeInv
  <2> QED
    BY <1>4, <2>1 DEF RuntimeRestarts, ServeInv, SetupInv, Good
<1>5. CASE UNCHANGED vars
  BY <1>5 DEF vars, ServeInv, SetupInv, Good
<1> QED
  BY <1>1, <1>2, <1>3, <1>4, <1>5 DEF Next

\* A setup that reports success has left the spec file, a configuration that
\* exposes it and a runtime that has loaded it or is about to (Setup,
\* setup.go), whatever write, removal, generation or restart fails and
\* whatever program is killed before it.
THEOREM SuccessServes ==
    ASSUME Unshared, DockerKeeps
    PROVE  Spec => []SetupServes
<1>1. Init => ServeInv
  <2> SUFFICES ASSUME Init PROVE DockerInv /\ SetupInv
    BY InitTypes, InitBase DEF ServeInv
  <2>1. DockerInv
    <3>1. PICK n \in Nodes : node = n.node /\ conf = n.conf /\ backup = n.backup
      BY DEF Init
    <3>2. \A a \in Actor : buf[a] = Blank
      BY DEF Init
    <3>3. DirsOf(Blank) # "misses"
      BY DEF DirsOf, Blank
    <3> QED
      BY <3>1, <3>2, <3>3 DEF DockerKeeps, DockerInv
  <2> QED
    BY <2>1 DEF Init, SetupInv
<1>2. ServeInv /\ [Next]_vars => ServeInv'
  BY NextServe
<1>3. ServeInv => SetupServes
  BY GoodLoads DEF ServeInv, SetupInv, SetupServes
<1> QED
  BY <1>1, <1>2, <1>3, PTL DEF Spec

-----------------------------------------------------------------------------
(* The operator's settings.                                                 *)

\* Nothing comes between a truncation and its write.
Uninterrupted == "write" \notin FaultyOps /\ "kill" \notin FaultyOps

\* A backup that is there from before has the operator's settings too, and
\* CRI-O's drop-in has none.
Careful ==
    /\ Uninterrupted
    /\ \A n \in Nodes :
          IF n.node.runtime = "crio"
          THEN n.conf \in Text => ~n.conf.own
          ELSE n.conf \in Text /\ n.conf.own /\ n.backup \in Text => n.backup.own

\* Nothing of the operator's is missing from f.
Whole(f) == f = Broken \/ (f \in Text /\ f.own)

\* The file had settings of the operator's before the toolkit edited it.
Owned == orig \in Text /\ orig.own

\* CRI-O: the toolkit never has anything of the operator's in its hands.
DropInInv ==
    /\ ~Owned
    /\ conf \in Text => ~conf.own
    /\ \A a \in Actor : buf[a] \in Text => ~buf[a].own

\* The others: what is about to be written is whole, and so are the file and
\* the backup, except between a truncation and its write.
EditInv ==
    /\ \A a \in Actor :
          /\ pc[a] \in {"saveTruncate", "save"} => conf # NoFile /\ buf[a] = conf
          /\ pc[a] = "read" => conf = NoFile \/ backup = conf
          /\ Owned /\ pc[a] \in {"truncate", "write", "restoreTruncate", "restore"} => Whole(buf[a])
    /\ Owned /\ (\A a \in Actor : pc[a] \notin {"write", "restore"}) => Whole(conf)
    /\ Owned /\ (\A a \in Actor : pc[a] # "save") => backup = NoFile \/ Whole(backup)

SettingsInv == IF node.runtime = "crio" THEN DropInInv ELSE EditInv

KeepInv == TypeOK /\ Base /\ SettingsInv

\* Enable and Disable leave the operator's settings alone.
LEMMA WholeStays ==
    ASSUME NEW f \in File, Whole(f), node.runtime # "crio"
    PROVE  /\ Whole(Disable(node, f))
           /\ f # Broken => Whole(Enable(node, Read(f)))
<1> USE RuntimeConfigAssumption
<1>1. CASE f = Broken
  BY <1>1 DEF Whole, Disable
<1>2. CASE f \in Text /\ f.own
  BY <1>2 DEF Whole, Disable, Enable, Read, Text, Setting, Dirs
<1> QED
  BY <1>1, <1>2 DEF Whole

\* CRI-O: only the drop-in is ever written.
LEMMA DropInStays ==
    ASSUME KeepInv, node.runtime = "crio", NEW a \in Actor, ActorStep(a)
    PROVE  DropInInv'
<1> USE DEF fileVars, runtimeVars, histVars, procVars, Step, End, Fails, Hold
<1>0. /\ DropInInv /\ pc[a] \notin EditsFile /\ buf \in [Actor -> File]
      /\ ~Blank.own /\ ~DropIn.own /\ NoFile \notin Text
  BY RuntimeConfigAssumption DEF KeepInv, SettingsInv, TypeOK, Base, Places, Blank, DropIn
<1>1. CASE CheckReady(a) \/ CheckFails(a)
  BY <1>0, <1>1 DEF CheckReady, CheckFails, DropInInv, Owned
<1>2. CASE ConfigureStep(a)
  BY <1>0, <1>2
     DEF ConfigureStep, Backup, SaveTruncate, Save, ReadAndEnable, ReadRefuses, PrepareDropIn, Truncate,
         Write, WriteFails, EditsFile, DropInInv, Owned
<1>3. CASE Generate(a) \/ GenerateFails(a)
  BY <1>0, <1>3 DEF Generate, GenerateFails, DropInInv, Owned
<1>4. CASE CleanupStep(a)
  BY <1>0, <1>4
     DEF CleanupStep, RemoveSpec, Revert, RestoreTruncate, Restore, RestoreFails, DropBackup, RemoveDropIn,
         RemoveBackup, RemoveFails, EditsFile, DropInInv, Owned
<1>5. CASE RestartStep(a)
  BY <1>0, <1>5
     DEF RestartStep, RestartSkipped, SignalRestart, SignalFails, SystemdRestart, SystemdFails, Restarted,
         DropInInv, Owned
<1> QED
  BY <1>1, <1>2, <1>3, <1>4, <1>5 DEF ActorStep

\* A program that ends between its edits.
LEMMA EndKeeps ==
    ASSUME KeepInv, node.runtime # "crio", NEW a \in Actor, NEW result, End(a, result),
           pc[a] \notin {"idle", "save", "write", "restore"}, UNCHANGED <<conf, backup, orig>>
    PROVE  EditInv'
<1> USE DEF KeepInv, Base, TypeOK, SettingsInv, End, GoTo, Hold
<1>1. \A b \in Actor : pc'[b] = "idle"
  BY DEF OneProgram, Places
<1>2. \A b \in Actor : pc[b] \notin {"save", "write", "restore"}
  BY DEF OneProgram, Places
<1> QED
  BY <1>1, <1>2 DEF EditInv, Owned

\* A program that moves on, with the file, the backup and its buffer as the
\* place it comes to needs them.
LEMMA MoveKeeps ==
    ASSUME KeepInv, NEW a \in Actor, NEW label, GoTo(a, label), pc[a] # "idle",
           label \in {"saveTruncate", "save"} => conf' # NoFile /\ buf'[a] = conf',
           label = "read" => conf' = NoFile \/ backup' = conf',
           Owned' => /\ label \in {"truncate", "write", "restoreTruncate", "restore"} => Whole(buf'[a])
                     /\ label \notin {"write", "restore"} => Whole(conf')
                     /\ label # "save" => backup' = NoFile \/ Whole(backup')
    PROVE  EditInv'
<1> USE DEF KeepInv, Base, TypeOK, GoTo
<1>1. pc'[a] = label /\ \A b \in Actor : b # a => pc'[b] = "idle"
  BY DEF OneProgram, Places
<1> QED
  BY <1>1, Zenon DEF EditInv, Whole, Owned

\* What EditInv says of the one program that is at work.
LEMMA AtWork ==
    ASSUME KeepInv, node.runtime # "crio", NEW a \in Actor, pc[a] # "idle"
    PROVE  /\ pc[a] \in {"saveTruncate", "save"} => conf # NoFile /\ buf[a] = conf
           /\ pc[a] = "read" => conf = NoFile \/ backup = conf
           /\ Owned =>
                /\ pc[a] \in {"truncate", "write", "restoreTruncate", "restore"} => Whole(buf[a])
                /\ pc[a] \notin {"write", "restore"} => Whole(conf)
                /\ pc[a] # "save" => backup = NoFile \/ Whole(backup)
<1>1. \A b \in Actor : b # a => pc[b] = "idle"
  BY DEF KeepInv, Base, TypeOK, OneProgram, Places
<1> QED
  BY <1>1 DEF KeepInv, SettingsInv, EditInv

\* Configure.  The backup is made before the file is read, so what is read is
\* whole in both when it becomes the file's original content.
LEMMA ConfigureKeeps ==
    ASSUME Careful, KeepInv, node.runtime # "crio", NEW a \in Actor,
           CheckReady(a) \/ CheckFails(a) \/ ConfigureStep(a)
    PROVE  EditInv'
<1> USE DEF fileVars, runtimeVars, histVars, procVars, Step, Hold
<1>0. conf \in File /\ buf \in [Actor -> File] /\ pc[a] # "dropIn"
  BY DEF KeepInv, TypeOK, Base, Places, EditsDropIn
<1>9. NoFile # Blank
  <2>1. Blank \in Text
    BY DEF Blank, Text, Setting, Dirs
  <2> QED
    BY <2>1, RuntimeConfigAssumption
<1>1. CASE CheckReady(a) \/ CheckFails(a)
  BY <1>0, <1>1, AtWork, MoveKeeps DEF CheckReady, CheckFails, ConfigureStart, Owned
<1>2. CASE Backup(a) \/ SaveTruncate(a) \/ Save(a)
  BY <1>0, <1>2, AtWork, MoveKeeps DEF Backup, SaveTruncate, Save, Owned
<1>3. CASE ReadAndEnable(a)
  <2>1. Owned' => Whole(conf) /\ (backup = NoFile \/ Whole(backup))
    BY <1>3, AtWork, RuntimeConfigAssumption DEF ReadAndEnable, Owned, Whole
  <2>2. Owned' => Whole(buf'[a])
    BY <1>0, <1>3, <2>1, WholeStays DEF ReadAndEnable
  <2> QED
    BY <1>0, <1>3, <2>1, <2>2, MoveKeeps DEF ReadAndEnable
<1>4. CASE ReadRefuses(a)
  BY <1>4, EndKeeps DEF ReadRefuses, Fails
<1>5. CASE Truncate(a)
  BY <1>0, <1>5, <1>9, AtWork, MoveKeeps DEF Truncate, Owned
<1>6. CASE Write(a)
  <2>1. pc[a] = "write" /\ conf' = buf[a] /\ UNCHANGED <<node, backup, orig>>
    BY <1>6 DEF Write
  <2>2. CASE GoTo(a, "restart") \/ GoTo(a, "generate")
    BY <2>1, <2>2, AtWork, MoveKeeps DEF Owned
  <2>3. CASE End(a, "none")
    BY <2>1, <2>3, AtWork, MoveKeeps DEF End, Owned
  <2> QED
    BY <1>6, <2>2, <2>3 DEF Write
<1> QED
  BY <1>0, <1>1, <1>2, <1>3, <1>4, <1>5, <1>6
     DEF ConfigureStep, PrepareDropIn, WriteFails, Fault, Careful, Uninterrupted

\* Generation, Cleanup and the restart.
LEMMA InstallerKeeps ==
    ASSUME Careful, KeepInv, node.runtime # "crio", NEW a \in Actor,
           Generate(a) \/ GenerateFails(a) \/ CleanupStep(a) \/ RestartStep(a)
    PROVE  EditInv'
<1> USE DEF fileVars, runtimeVars, histVars, procVars, Step, Hold
<1>0. conf \in File /\ buf \in [Actor -> File]
  BY DEF KeepInv, TypeOK
<1>1. CASE Generate(a)
  BY <1>1, AtWork, MoveKeeps DEF Generate, Owned
<1>2. CASE GenerateFails(a)
  BY <1>2, EndKeeps DEF GenerateFails, Fails
<1>3. CASE RemoveSpec(a)
  BY <1>3, AtWork, MoveKeeps DEF RemoveSpec, RevertStart, Owned
<1>4. CASE Revert(a)
  <2>1. Owned => Whole(conf) /\ (backup = NoFile \/ Whole(backup)) /\ Whole(Disable(node, conf))
    BY <1>0, <1>4, AtWork, WholeStays DEF Revert
  <2> QED
    BY <1>0, <1>4, <2>1, MoveKeeps DEF Revert, Owned
<1>5. CASE RestoreTruncate(a) \/ Restore(a)
  BY <1>5, AtWork, MoveKeeps DEF RestoreTruncate, Restore, Owned
<1>6. CASE DropBackup(a) \/ RemoveBackup(a)
  BY <1>6, AtWork, MoveKeeps DEF DropBackup, RemoveBackup, Owned
<1>7. CASE RemoveDropIn(a) \/ RemoveFails(a)
  BY <1>7 DEF RemoveDropIn, RemoveFails, KeepInv, Base, Places, EditsDropIn
<1>8. ASSUME NEW result, Restarted(a, result), pc[a] = "restart", UNCHANGED <<conf, backup, orig>>
      PROVE  EditInv'
  BY <1>8, AtWork, MoveKeeps, EndKeeps DEF Restarted, Owned
<1>9. CASE RestartSkipped(a) \/ SignalRestart(a) \/ SystemdRestart(a) \/ SystemdFails(a)
  BY <1>8, <1>9 DEF RestartSkipped, SignalRestart, SystemdRestart, SystemdFails
<1>10. CASE SignalFails(a)
  <2>1. CASE UNCHANGED <<prog, pc, buf, conf, backup, orig>>
    BY <2>1 DEF KeepInv, SettingsInv, EditInv, Owned, Whole
  <2> QED
    BY <1>8, <1>10, <2>1 DEF SignalFails
<1> QED
  BY <1>1, <1>2, <1>3, <1>4, <1>5, <1>6, <1>7, <1>9, <1>10
     DEF CleanupStep, RestartStep, RestoreFails, Fault, Careful, Uninterrupted

LEMMA NextKeep == Unshared /\ Careful /\ KeepInv /\ [Next]_vars => KeepInv'
<1> SUFFICES ASSUME Unshared, Careful, KeepInv, [Next]_vars PROVE SettingsInv'
  BY NextTypes, NextBase DEF KeepInv
<1> USE DEF fileVars, runtimeVars, histVars, procVars
<1>0. node' = node /\ Base'
  BY NodeStays, NextBase DEF KeepInv
<1>1. ASSUME NEW a \in Actor, ActorStep(a) PROVE SettingsInv'
  BY <1>0, <1>1, ConfigureKeeps, InstallerKeeps, DropInStays DEF ActorStep, SettingsInv
<1>2. ASSUME NEW a \in Actor, Hold(a, Blank), UNCHANGED <<conf, orig>>, node.runtime = "crio"
      PROVE  SettingsInv'
  <2>1. ~Blank.own /\ DropInInv /\ buf \in [Actor -> File]
    BY <1>2 DEF Blank, KeepInv, SettingsInv, TypeOK
  <2> QED
    BY <1>0, <1>2, <2>1 DEF Hold, SettingsInv, DropInInv, Owned
<1>3. ASSUME NEW a \in Actor, DaemonStops(a) PROVE SettingsInv'
  <2>1. node.runtime # "crio" => EditInv'
    BY <1>3, EndKeeps DEF DaemonStops
  <2> QED
    BY <1>0, <1>2, <1>3, <2>1 DEF DaemonStops, End, SettingsInv
<1>4. ASSUME NEW a \in Actor, NEW program \in Programs, Begin(a, program) PROVE SettingsInv'
  <2>1. node.runtime # "crio" => EditInv'
    <3> SUFFICES ASSUME node.runtime # "crio" PROVE EditInv'
      OBVIOUS
    <3>1. \A b \in Actor : pc[b] = "idle"
      BY <1>4 DEF Begin, KeepInv, Base, TypeOK, OneProgram, Places, Unshared
    <3>2. pc'[a] \in {"check", "backup", "removeSpec"} /\ \A b \in Actor : b # a => pc'[b] = "idle"
      BY <1>4, <3>1, RuntimeSetupAssumption DEF Begin, GoTo, KeepInv, TypeOK, FirstStep, ConfigureStart
    <3>3. \A b \in Actor : pc'[b] \in {"idle", "check", "backup", "removeSpec"}
      BY <3>2
    <3> QED
      BY <1>4, <3>1, <3>3 DEF Begin, KeepInv, SettingsInv, EditInv, Owned
  <2> QED
    BY <1>0, <1>2, <1>4, <2>1 DEF Begin, SettingsInv
<1>5. CASE UNCHANGED <<pc, buf, conf, backup, orig>>
  BY <1>0, <1>5 DEF KeepInv, SettingsInv, DropInInv, EditInv, Owned, Whole
<1> QED
  BY <1>1, <1>3, <1>4, <1>5 DEF Next, RuntimeRestarts, vars, Killed, Fault, Careful, Uninterrupted

\* enableCDIInContainerdConfig "preserves every unrelated setting by value":
\* no sequence of deployments, setups and cleanups, failing restarts and
\* removals included, loses the operator's settings from the file or from the
\* backup it is restored from.
THEOREM OwnSettingsKept ==
    ASSUME Unshared, Careful
    PROVE  Spec => []SettingsKept
<1>1. Init => KeepInv
  <2> SUFFICES ASSUME Init PROVE SettingsInv
    BY InitTypes, InitBase DEF KeepInv
  <2>1. PICK n \in Nodes : node = n.node /\ conf = n.conf /\ backup = n.backup
    BY DEF Init
  <2>2. \A a \in Actor : pc[a] = "idle" /\ ~buf[a].own
    BY DEF Init, Blank
  <2>3. conf = orig /\ backup \in File
    BY InitTypes DEF Init, TypeOK
  <2> QED
    BY <2>1, <2>2, <2>3 DEF Careful, File, SettingsInv, DropInInv, EditInv, Owned, Whole
<1>2. KeepInv /\ [Next]_vars => KeepInv'
  BY NextKeep
<1>3. KeepInv => SettingsKept
  BY RuntimeConfigAssumption
     DEF KeepInv, SettingsInv, DropInInv, EditInv, Owned, Whole, SettingsKept, Quiet
<1> QED
  BY <1>1, <1>2, <1>3, PTL DEF Spec

-----------------------------------------------------------------------------
(* The backup, for the runtimes that have one.                              *)

\* f is the file as it was before the toolkit's edits, if it was there.
Saved(f) == orig = NoFile \/ f = orig

\* A Configure that has begun to replace the backup.
Rewrites(a) == prog[a] # "cleanup" /\ pc[a] \in {"save", "read", "truncate", "write"}

\* Where a program is, what it holds and what the backup is.  A cleanup that
\* edits the file itself has found no backup.
RevertAt(a) ==
    /\ pc[a] \in {"backup", "saveTruncate", "save", "read"} => prog[a] # "cleanup"
    /\ pc[a] \in {"saveTruncate", "save"} => conf # NoFile /\ buf[a] = conf
    /\ pc[a] = "read" => conf = NoFile \/ backup = conf
    /\ pc[a] \in {"truncate", "write"} /\ prog[a] # "cleanup" =>
          buf[a] # Broken /\ (touched = 0 => Saved(backup))
    /\ pc[a] = "dropBackup" => touched = 0
    /\ touched = 1 =>
          /\ pc[a] \in {"truncate", "write"} /\ prog[a] = "cleanup" => orig = NoFile
          /\ pc[a] \in {"restoreTruncate", "restore"} => Saved(buf[a])

RevertInv ==
    node.runtime # "crio" =>
        /\ \A a \in Actor : RevertAt(a)
        /\ touched = 1 => conf # Broken /\ ((\A a \in Actor : ~Rewrites(a)) => Saved(backup))

UndoInv == TypeOK /\ Base /\ RevertInv

LEMMA AtUndo ==
    ASSUME UndoInv, node.runtime # "crio", NEW a \in Actor, pc[a] # "idle"
    PROVE  RevertAt(a) /\ (touched = 1 => conf # Broken /\ (~Rewrites(a) => Saved(backup)))
<1>1. \A b \in Actor : b # a => ~Rewrites(b)
  BY DEF UndoInv, Base, TypeOK, OneProgram, Places, Rewrites
<1> QED
  BY <1>1 DEF UndoInv, RevertInv

\* A program that moves on, and one that ends.
LEMMA MoveUndo ==
    ASSUME UndoInv, NEW a \in Actor, NEW label, GoTo(a, label), pc[a] # "idle",
           RevertAt(a)', touched' = 1 => conf' # Broken /\ (~Rewrites(a)' => Saved(backup)')
    PROVE  RevertInv'
<1>1. \A b \in Actor : b # a => pc'[b] = "idle"
  BY DEF UndoInv, Base, TypeOK, GoTo, OneProgram, Places
<1>2. \A b \in Actor : b # a => RevertAt(b)'
  BY <1>1 DEF RevertAt
<1> QED
  BY <1>2 DEF RevertInv

LEMMA EndUndo ==
    ASSUME UndoInv, NEW a \in Actor, NEW result, End(a, result), pc[a] # "idle",
           touched' = 1 => conf' # Broken /\ Saved(backup)'
    PROVE  RevertInv'
<1>1. GoTo(a, "idle") /\ pc'[a] = "idle"
  BY DEF UndoInv, TypeOK, End, GoTo
<1>2. RevertAt(a)'
  BY <1>1 DEF RevertAt
<1> QED
  BY <1>1, <1>2, MoveUndo

\* Configure makes a backup of what it is about to change.
LEMMA ConfigureUndo ==
    ASSUME Uninterrupted, UndoInv, node.runtime # "crio", NEW a \in Actor,
           CheckReady(a) \/ CheckFails(a) \/ ConfigureStep(a)
    PROVE  RevertInv'
<1> USE AtUndo, MoveUndo DEF fileVars, runtimeVars, histVars, procVars, Step, Hold
<1>0. /\ conf \in File /\ buf \in [Actor -> File] /\ pc \in [Actor -> PC] /\ touched \in 0..2
      /\ pc[a] # "dropIn" /\ (pc[a] \in {"check", "running"} => prog[a] = "daemon")
      /\ NoFile # Blank /\ Broken # Blank
  <2>1. Blank \in Text
    BY DEF Blank, Text, Setting, Dirs
  <2> QED
    BY <2>1, RuntimeConfigAssumption DEF UndoInv, TypeOK, Base, Places, EditsDropIn
<1>1. CASE CheckReady(a) \/ CheckFails(a)
  BY <1>0, <1>1 DEF CheckReady, CheckFails, ConfigureStart, GoTo, RevertAt, Rewrites, Saved
<1>2. CASE Backup(a)
  BY <1>0, <1>2 DEF Backup, GoTo, RevertAt, Rewrites, Saved
<1>3. CASE SaveTruncate(a)
  BY <1>0, <1>3 DEF SaveTruncate, GoTo, RevertAt, Rewrites, Saved
<1>4. CASE Save(a)
  BY <1>0, <1>4 DEF Save, GoTo, RevertAt, Rewrites, Saved
<1>5. CASE ReadAndEnable(a)
  <2>1. buf'[a] # Broken
    <3>1. Enable(node, Read(conf)) \in Text
      BY <1>0, <1>5, RuntimeConfigAssumption
         DEF ReadAndEnable, File, Text, Setting, Dirs, Read, Enable, Blank
    <3> QED
      BY <1>0, <1>5, <3>1, RuntimeConfigAssumption DEF ReadAndEnable
  <2>2. touched = 0 => orig' = NoFile \/ backup = orig'
    BY <1>0, <1>5 DEF ReadAndEnable, RevertAt
  <2> QED
    BY <1>0, <1>5, <2>1, <2>2 DEF ReadAndEnable, GoTo, RevertAt, Rewrites, Saved
<1>6. CASE ReadRefuses(a)
  BY <1>6, EndUndo DEF ReadRefuses, Fails
<1>7. CASE Truncate(a)
  BY <1>0, <1>7 DEF Truncate, GoTo, RevertAt, Rewrites, Saved
<1>8. CASE Write(a)
  <2>1. /\ pc[a] = "write" /\ conf' = buf[a] /\ UNCHANGED <<node, backup, orig>>
        /\ touched' = IF prog[a] = "cleanup" THEN 0 ELSE IF touched < 2 THEN touched + 1 ELSE 2
    BY <1>8 DEF Write
  <2>2. touched' = 1 => conf' # Broken /\ Saved(backup)'
    BY <1>0, <2>1 DEF RevertAt, Saved
  <2>3. CASE (GoTo(a, "restart") \/ GoTo(a, "generate"))
    BY <1>0, <2>1, <2>2, <2>3 DEF GoTo, RevertAt
  <2>4. CASE End(a, "none")
    BY <2>1, <2>2, <2>4, EndUndo
  <2> QED
    BY <1>8, <2>3, <2>4 DEF Write
<1> QED
  BY <1>0, <1>1, <1>2, <1>3, <1>4, <1>5, <1>6, <1>7, <1>8
     DEF ConfigureStep, PrepareDropIn, WriteFails, Fault, Uninterrupted

\* Cleanup restores the backup, or edits the file if there is none.
LEMMA InstallerUndo ==
    ASSUME Uninterrupted, UndoInv, node.runtime # "crio", NEW a \in Actor,
           Generate(a) \/ GenerateFails(a) \/ CleanupStep(a) \/ RestartStep(a)
    PROVE  RevertInv'
<1> USE AtUndo, MoveUndo DEF fileVars, runtimeVars, histVars, procVars, Step, Hold
<1>0. /\ buf \in [Actor -> File] /\ pc \in [Actor -> PC] /\ touched \in 0..2
      /\ pc[a] \notin EditsDropIn /\ (pc[a] \in Cleaning => prog[a] = "cleanup")
      /\ Broken # Blank
  <2>1. Blank \in Text
    BY DEF Blank, Text, Setting, Dirs
  <2> QED
    BY <2>1, RuntimeConfigAssumption DEF UndoInv, TypeOK, Base, Places
<1>1. CASE Generate(a)
  BY <1>0, <1>1 DEF Generate, GoTo, RevertAt, Rewrites, Saved
<1>2. CASE GenerateFails(a)
  BY <1>2, EndUndo DEF GenerateFails, Fails, Rewrites, Saved
<1>3. CASE RemoveSpec(a)
  BY <1>0, <1>3 DEF RemoveSpec, RevertStart, GoTo, RevertAt, Rewrites, Saved
<1>4. CASE Revert(a)
  <2>1. pc[a] = "revert" /\ prog[a] = "cleanup" /\ UNCHANGED <<node, prog, conf, backup, orig, touched>>
    BY <1>0, <1>4 DEF Revert, Cleaning
  <2>2. CASE Hold(a, backup) /\ GoTo(a, "restoreTruncate")
    BY <1>0, <2>1, <2>2 DEF GoTo, RevertAt, Rewrites, Saved
  <2>3. CASE backup = NoFile /\ \E label \in {"truncate", "restart"} : GoTo(a, label)
    BY <1>0, <2>1, <2>3 DEF GoTo, RevertAt, Rewrites, Saved
  <2> QED
    BY <1>4, <2>2, <2>3 DEF Revert
<1>5. CASE RestoreTruncate(a)
  BY <1>0, <1>5 DEF RestoreTruncate, GoTo, RevertAt, Rewrites, Saved, Cleaning
<1>6. CASE Restore(a)
  <2>1. GoTo(a, "dropBackup") /\ pc'[a] = "dropBackup" /\ pc[a] = "restore" /\ touched' = 0
    BY <1>0, <1>6 DEF Restore, GoTo
  <2>2. RevertAt(a)'
    BY <2>1 DEF RevertAt
  <2> QED
    BY <2>1, <2>2
<1>7. CASE DropBackup(a)
  <2>1. pc'[a] = "restart" /\ touched' = 0
    BY <1>0, <1>7 DEF DropBackup, GoTo, RevertAt
  <2>2. RevertAt(a)'
    BY <2>1 DEF RevertAt
  <2> QED
    BY <1>7, <2>1, <2>2 DEF DropBackup
<1>8. CASE RemoveDropIn(a) \/ RemoveBackup(a) \/ RemoveFails(a) \/ RestoreFails(a)
  BY <1>0, <1>8
     DEF RemoveDropIn, RemoveBackup, RemoveFails, RestoreFails, EditsDropIn, Fault, Uninterrupted
<1>9. ASSUME NEW result, Restarted(a, result), pc[a] = "restart",
             UNCHANGED <<node, conf, backup, orig, touched>>
      PROVE  RevertInv'
  <2>1. touched = 1 => conf # Broken /\ Saved(backup)
    BY <1>9 DEF Rewrites
  <2>2. CASE GoTo(a, "running")
    BY <1>0, <1>9, <2>1, <2>2 DEF GoTo, RevertAt, Saved
  <2>3. CASE End(a, result)
    BY <1>9, <2>1, <2>3, EndUndo DEF Saved
  <2> QED
    BY <1>9, <2>2, <2>3 DEF Restarted
<1>10. CASE RestartSkipped(a) \/ SignalRestart(a) \/ SystemdRestart(a) \/ SystemdFails(a)
  BY <1>9, <1>10 DEF RestartSkipped, SignalRestart, SystemdRestart, SystemdFails
<1>11. CASE SignalFails(a)
  <2>1. CASE UNCHANGED <<node, prog, pc, buf, conf, backup, orig, touched>>
    BY <2>1 DEF UndoInv, RevertInv, RevertAt, Rewrites, Saved
  <2> QED
    BY <1>9, <1>11, <2>1 DEF SignalFails
<1> QED
  BY <1>1, <1>2, <1>3, <1>4, <1>5, <1>6, <1>7, <1>8, <1>10, <1>11 DEF CleanupStep, RestartStep

LEMMA NextUndo == Unshared /\ Uninterrupted /\ UndoInv /\ [Next]_vars => UndoInv'
<1> SUFFICES ASSUME Unshared, Uninterrupted, UndoInv, [Next]_vars, node' = node, node.runtime # "crio"
             PROVE  RevertInv'
  BY NextTypes, NextBase, NodeStays DEF UndoInv, RevertInv
<1> USE DEF fileVars, runtimeVars, histVars, procVars
<1>1. ASSUME NEW a \in Actor, ActorStep(a) PROVE RevertInv'
  BY <1>1, ConfigureUndo, InstallerUndo DEF ActorStep
<1>2. ASSUME NEW a \in Actor, DaemonStops(a) PROVE RevertInv'
  BY <1>2, AtUndo, EndUndo DEF DaemonStops, Rewrites, Saved
<1>3. ASSUME NEW a \in Actor, NEW program \in Programs, Begin(a, program) PROVE RevertInv'
  <2>1. \A b \in Actor : pc[b] = "idle" /\ ~Rewrites(b)
    BY <1>3 DEF Begin, UndoInv, Base, TypeOK, OneProgram, Places, Unshared, Rewrites
  <2>2. \A b \in Actor : pc'[b] \in {"idle", "check", "backup", "removeSpec"}
    BY <1>3, <2>1, RuntimeSetupAssumption DEF Begin, GoTo, UndoInv, TypeOK, FirstStep, ConfigureStart
  <2>3. \A b \in Actor : pc'[b] = "backup" => prog'[b] # "cleanup"
    BY <1>3, <2>1, RuntimeSetupAssumption DEF Begin, GoTo, UndoInv, TypeOK, FirstStep, ConfigureStart
  <2>4. \A b \in Actor : RevertAt(b)'
    BY <2>2, <2>3 DEF RevertAt
  <2> QED
    BY <1>3, <2>1, <2>4 DEF Begin, UndoInv, RevertInv, Saved
<1>4. CASE UNCHANGED <<node, prog, pc, buf, conf, backup, orig, touched>>
  BY <1>4 DEF UndoInv, RevertInv, RevertAt, Rewrites, Saved
<1> QED
  BY <1>1, <1>2, <1>3, <1>4 DEF Next, RuntimeRestarts, vars, Killed, Fault, Uninterrupted

\* The step that ends the undoing of one Configure.
LEMMA UndoReverts ==
    ASSUME UndoInv, [Next]_vars, touched = 1, touched' = 0, node.runtime # "crio"
    PROVE  Reverted'
<1> USE DEF fileVars, runtimeVars, histVars, procVars
<1>1. PICK a \in Actor : Write(a) \/ Restore(a) \/ RemoveDropIn(a)
  <2>1. ASSUME NEW a \in Actor, CheckReady(a) \/ CheckFails(a) \/ ConfigureStep(a), ~Write(a) PROVE FALSE
    BY <2>1 DEF CheckReady, CheckFails, ConfigureStep, Backup, SaveTruncate, Save, ReadAndEnable, ReadRefuses,
                PrepareDropIn, Truncate, WriteFails
  <2>2. ASSUME NEW a \in Actor, Generate(a) \/ GenerateFails(a) \/ CleanupStep(a), ~Restore(a), ~RemoveDropIn(a)
        PROVE  FALSE
    BY <2>2 DEF Generate, GenerateFails, CleanupStep, RemoveSpec, Revert, RestoreTruncate, RestoreFails,
                DropBackup, RemoveBackup, RemoveFails
  <2>3. ASSUME NEW a \in Actor, RestartStep(a) PROVE FALSE
    BY <2>3 DEF RestartStep, RestartSkipped, SignalRestart, SignalFails, SystemdRestart, SystemdFails
  <2> QED
    BY <2>1, <2>2, <2>3 DEF Next, ActorStep, Begin, DaemonStops, Killed, RuntimeRestarts, vars
<1>2. /\ RevertAt(a) /\ pc[a] \notin EditsDropIn /\ node' = node
      /\ pc[a] \in Cleaning => prog[a] = "cleanup"
  <2>1. pc[a] # "idle"
    BY <1>1 DEF Write, Restore, RemoveDropIn, Step
  <2> QED
    BY <2>1, NodeStays DEF UndoInv, RevertInv, Base, Places
<1>3. CASE Write(a)
  BY <1>2, <1>3 DEF Write, RevertAt, Reverted
<1>4. CASE Restore(a)
  BY <1>2, <1>4 DEF Restore, Step, RevertAt, Saved, Reverted
<1>5. CASE RemoveDropIn(a)
  BY <1>2, <1>5 DEF RemoveDropIn, Step, EditsDropIn
<1> QED
  BY <1>1, <1>3, <1>4, <1>5

\* README: cleanup will "restore the backed-up config".  The step by which it
\* undoes the edits of a single Configure leaves the file as it was before,
\* whatever restarts and removals failed in between.
THEOREM CleanupUndoes ==
    ASSUME Unshared, Uninterrupted
    PROVE  Spec => CleanupReverts
<1>1. Init => UndoInv
  <2> SUFFICES ASSUME Init PROVE RevertInv
    BY InitTypes, InitBase DEF UndoInv
  <2> QED
    BY DEF Init, RevertInv, RevertAt
<1>2. UndoInv /\ [Next]_vars => UndoInv'
  BY NextUndo
<1>3. UndoInv /\ [Next]_vars => [touched = 1 /\ touched' = 0 => Reverted']_vars
  <2> SUFFICES ASSUME UndoInv, [Next]_vars, touched = 1, touched' = 0 PROVE Reverted'
    OBVIOUS
  <2>1. CASE node.runtime = "crio"
    BY <2>1, NodeStays DEF Reverted
  <2>2. CASE node.runtime # "crio"
    BY <2>2, UndoReverts
  <2> QED
    BY <2>1, <2>2
<1> QED
  BY <1>1, <1>2, <1>3, PTL DEF Spec, CleanupReverts

-----------------------------------------------------------------------------
(* The daemon's deployment.                                                 *)

\* A file that the toolkit can parse and keeps parsable.
Sound(n, f) == f # Broken /\ (n.runtime = "containerd" /\ f \in Text => ~f.many)

\* Every program that edits the configuration gets to its restart, and the
\* restart works.
Reliable ==
    /\ Uninterrupted /\ "generate" \notin FaultyOps /\ "restart" \notin FaultyOps
    /\ "cli" \notin Programs /\ "none" \notin Modes
    /\ \A n \in Nodes : ~n.node.mounted /\ Sound(n.node, n.conf) /\ Sound(n.node, n.backup)

SoundInv ==
    /\ ~node.mounted /\ loaded # "down"
    /\ Sound(node, conf) /\ Sound(node, backup)
    /\ \A a \in Actor : Sound(node, buf[a])

\* The runtime has loaded the configuration, or is about to.
Synced == reload \/ loaded = Loads(node, conf, backup)

\* The runtime is in step with its files while nobody edits them, and a daemon
\* that runs has seen to it that they expose CDI.
SyncInv ==
    /\ \A a \in Actor :
          /\ prog[a] # "none" => mode[a] # "none"
          /\ pc[a] = "running" => Loads(node, conf, backup) = "cdi"
          /\ prog[a] = "daemon" /\ pc[a] \in {"truncate", "write"} => Good(buf[a])
          /\ prog[a] = "daemon" /\ pc[a] = "restart" => Good(conf)
    /\ (\A a \in Actor : pc[a] \in {"idle", "check", "running"}) => Synced

DeployInv == TypeOK /\ Base /\ DockerInv /\ SoundInv /\ SyncInv

LEMMA SoundStays ==
    ASSUME node \in NodeType, NEW f \in File, Sound(node, f)
    PROVE  /\ Sound(node, Blank) /\ Sound(node, NoFile)
           /\ node.runtime = "crio" => Sound(node, DropIn)
           /\ Sound(node, Disable(node, f)) /\ Sound(node, Enable(node, Read(f)))
<1> USE RuntimeConfigAssumption DEF Sound
<1>1. Blank \in Text /\ DropIn \in Text /\ ~Blank.many
  BY DEF Blank, DropIn, Text, Setting, Dirs
<1>2. Sound(node, Disable(node, f))
  BY DEF NodeType, File, Text, Setting, Dirs, Disable
<1>3. Sound(node, Enable(node, Read(f)))
  <2>1. Read(f) \in Text
    BY <1>1 DEF Read, File
  <2>2. Enable(node, Read(f)) \in Text
    BY <2>1 DEF Text, Setting, Dirs, Enable
  <2> QED
    BY <2>1, <2>2 DEF Enable, Text
<1> QED
  BY <1>1, <1>2, <1>3

\* Nothing ever breaks the configuration, so the runtime is never down.
LEMMA NextSound == DeployInv /\ [Next]_vars => SoundInv'
<1> SUFFICES ASSUME DeployInv, [Next]_vars, node' = node PROVE SoundInv'
  BY NodeStays
<1> USE DEF DeployInv, SoundInv
<1>0. /\ conf \in File /\ backup \in File /\ buf \in [Actor -> File]
      /\ Sound(node, Blank) /\ Sound(node, NoFile)
  BY SoundStays DEF TypeOK
<1>1. Loads(node, conf, backup) # "down"
  BY DEF Sound, Loads
<1>2. ASSUME NEW a \in Actor, ActorStep(a) PROVE SoundInv'
  <2>1. \A f \in Holdable(a) : Sound(node, f)
    BY <1>0, SoundStays DEF Holdable, TypeOK
  <2>2. PICK f \in Holdable(a) : buf' = [buf EXCEPT ![a] = f]
    BY <1>2, Contents
  <2>3. Sound(node, conf') /\ Sound(node, backup')
    BY <1>0, <1>2, Contents
  <2>4. loaded' \in {loaded, Loads(node, conf, backup)}
    BY <1>2, Contents
  <2> QED
    BY <1>0, <1>1, <2>1, <2>2, <2>3, <2>4
<1>3. ASSUME NEW a \in Actor, Hold(a, Blank), UNCHANGED <<conf, backup, loaded>> PROVE SoundInv'
  BY <1>0, <1>3 DEF Hold
<1>4. CASE UNCHANGED <<conf, backup, buf>> /\ loaded' \in {loaded, Loads(node, conf, backup)}
  BY <1>1, <1>4
<1> QED
  BY <1>2, <1>3, <1>4
     DEF Next, Begin, DaemonStops, Killed, End, RuntimeRestarts, vars, fileVars, runtimeVars

\* A program that moves on, and one that ends.
LEMMA MoveSync ==
    ASSUME DeployInv, NEW a \in Actor, NEW label, GoTo(a, label), pc[a] # "idle",
           UNCHANGED <<node, prog, mode>>,
           label = "running" => Loads(node', conf', backup') = "cdi",
           label \in {"check", "running"} => Synced',
           prog[a] = "daemon" => /\ label \in {"truncate", "write"} => Good(buf'[a])
                                 /\ label = "restart" => Good(conf'),
           label # "idle"
    PROVE  SyncInv'
<1> USE DEF DeployInv, Base, TypeOK, GoTo
<1>1. pc'[a] = label /\ \A b \in Actor : b # a => pc'[b] = "idle" /\ prog[b] = "none"
  BY DEF OneProgram, Places
<1> QED
  BY <1>1 DEF SyncInv, Good

LEMMA EndSync ==
    ASSUME DeployInv, NEW a \in Actor, NEW result, End(a, result), pc[a] # "idle", Synced'
    PROVE  SyncInv'
<1>1. \A b \in Actor : pc'[b] = "idle" /\ prog'[b] = "none"
  BY DEF DeployInv, Base, TypeOK, End, GoTo, OneProgram, Places
<1> QED
  BY <1>1 DEF SyncInv

\* CDIReady and Configure.
LEMMA ConfigureSync ==
    ASSUME Reliable, DeployInv, NEW a \in Actor, CheckReady(a) \/ CheckFails(a) \/ ConfigureStep(a)
    PROVE  SyncInv'
<1> USE MoveSync DEF fileVars, runtimeVars, histVars, procVars, Step, Hold
<1>0. /\ node \in NodeType /\ conf \in File /\ buf \in [Actor -> File]
      /\ pc[a] \in EditsFile => node.runtime # "crio"
      /\ pc[a] = "dropIn" => node.runtime = "crio"
      /\ prog[a] = "daemon" /\ pc[a] \in {"truncate", "write"} => Good(buf[a])
      /\ pc[a] = "check" => Synced
      /\ prog[a] # "cli" /\ prog[a] \in {"none", "daemon", "setup", "cleanup", "cli"}
      /\ ConfigureStart \in {"dropIn", "backup"}
      /\ conf # Broken
  <2>1. pc[a] = "check" => \A b \in Actor : b # a => pc[b] = "idle"
    BY DEF DeployInv, TypeOK, Base, OneProgram, Places
  <2> QED
    BY <2>1 DEF DeployInv, Base, TypeOK, Places, EditsDropIn, SyncInv, SoundInv, Sound, OneProgram, Reliable,
                ConfigureStart
<1>1. CASE CheckReady(a)
  <2>1. PICK version \in {node.default, FALSE} :
            GoTo(a, IF Ready(node, conf, backup, version) THEN "running" ELSE ConfigureStart)
    BY <1>1 DEF CheckReady
  <2>2. Ready(node, conf, backup, version) => Loads(node, conf, backup) = "cdi"
    BY <1>0, RuntimeConfigAssumption
       DEF NodeType, DeployInv, DockerInv, Ready, Loads, DirsOf, Read, Blank, File
  <2> QED
    BY <1>0, <1>1, <2>1, <2>2 DEF CheckReady, Synced
<1>2. CASE CheckFails(a)
  BY <1>0, <1>2 DEF CheckFails
<1>3. CASE Backup(a) \/ SaveTruncate(a) \/ Save(a)
  BY <1>0, <1>3 DEF Backup, SaveTruncate, Save
<1>4. CASE ReadAndEnable(a)
  <2>1. Good(buf'[a])
    BY <1>0, <1>4, EnableIsGood DEF ReadAndEnable, EditsFile
  <2> QED
    BY <1>0, <1>4, <2>1 DEF ReadAndEnable
<1>5. CASE PrepareDropIn(a)
  <2>1. Good(buf'[a])
    BY <1>0, <1>5 DEF PrepareDropIn, Good
  <2> QED
    BY <1>0, <1>5, <2>1 DEF PrepareDropIn
<1>6. CASE Truncate(a)
  BY <1>0, <1>6 DEF Truncate
<1>7. CASE Write(a)
  <2>1. /\ pc[a] = "write" /\ conf' = buf[a] /\ UNCHANGED <<node, prog, mode>>
        /\ \E label \in {"restart", "generate"} :
              GoTo(a, label) /\ (prog[a] = "daemon" => label = "restart")
    BY <1>0, <1>7 DEF Write
  <2> QED
    BY <1>0, <2>1
<1> QED
  BY <1>0, <1>1, <1>2, <1>3, <1>4, <1>5, <1>6, <1>7
     DEF ConfigureStep, ReadRefuses, WriteFails, Fault, Reliable, Uninterrupted

\* Generation, Cleanup and the restart, which comes after every edit.
LEMMA InstallerSync ==
    ASSUME Reliable, DeployInv, NEW a \in Actor,
           Generate(a) \/ GenerateFails(a) \/ CleanupStep(a) \/ RestartStep(a)
    PROVE  SyncInv'
<1> USE MoveSync DEF fileVars, runtimeVars, histVars, procVars, Step
<1>0. /\ pc[a] \in Cleaning => prog[a] # "daemon"
      /\ pc[a] = "generate" => prog[a] # "daemon"
      /\ pc[a] = "restart" /\ prog[a] = "daemon" => Good(conf)
      /\ pc[a] # "idle" => mode[a] # "none"
      /\ ~node.mounted /\ loaded # "down"
  BY DEF DeployInv, Base, Places, Cleaning, SyncInv, SoundInv
<1>1. CASE Generate(a)
  BY <1>0, <1>1 DEF Generate
<1>2. CASE RemoveSpec(a) \/ Revert(a)
  BY <1>0, <1>2 DEF RemoveSpec, Revert, RevertStart, Cleaning
<1>3. CASE RestoreTruncate(a) \/ Restore(a) \/ RestoreFails(a) \/ DropBackup(a)
  BY <1>0, <1>3 DEF RestoreTruncate, Restore, RestoreFails, DropBackup, Cleaning
<1>4. CASE RemoveDropIn(a) \/ RemoveBackup(a) \/ RemoveFails(a)
  BY <1>0, <1>4 DEF RemoveDropIn, RemoveBackup, RemoveFails, Cleaning
<1>5. ASSUME NEW result, Restarted(a, result), pc[a] = "restart", UNCHANGED <<node, conf, backup>>, Synced'
      PROVE  SyncInv'
  <2>1. prog[a] = "daemon" => Loads(node, conf, backup) = "cdi"
    BY <1>0, <1>5, GoodLoads DEF DeployInv
  <2> QED
    BY <1>5, <2>1, EndSync DEF Restarted
<1>6. CASE SignalRestart(a)
  BY <1>5, <1>6 DEF SignalRestart, Synced
<1>7. CASE SystemdRestart(a)
  BY <1>5, <1>7 DEF SystemdRestart, Synced
<1> QED
  BY <1>0, <1>1, <1>2, <1>3, <1>4, <1>6, <1>7
     DEF CleanupStep, RestartStep, RestartSkipped, SignalFails, SystemdFails, SocketReachable, GenerateFails,
         Fault, Reliable

LEMMA NextSync == Unshared /\ Reliable /\ DeployInv /\ [Next]_vars => DeployInv'
<1> SUFFICES ASSUME Unshared, Reliable, DeployInv, [Next]_vars PROVE SyncInv'
  BY NextTypes, NextBase, NextDocker, NextSound DEF DeployInv
<1> USE DEF fileVars, runtimeVars, histVars, procVars
<1>1. ASSUME NEW a \in Actor, ActorStep(a) PROVE SyncInv'
  BY <1>1, ConfigureSync, InstallerSync DEF ActorStep
<1>2. ASSUME NEW a \in Actor, DaemonStops(a) PROVE SyncInv'
  <2>1. \A b \in Actor : pc[b] \in {"idle", "check", "running"}
    BY <1>2 DEF DaemonStops, DeployInv, Base, TypeOK, OneProgram, Places
  <2> QED
    BY <1>2, <2>1, EndSync DEF DaemonStops, DeployInv, SyncInv, Synced
<1>3. ASSUME NEW a \in Actor, NEW program \in Programs, Begin(a, program) PROVE SyncInv'
  <2>1. \A b \in Actor : pc[b] = "idle" /\ prog[b] = "none"
    BY <1>3 DEF Begin, DeployInv, Base, TypeOK, OneProgram, Places, Unshared
  <2>2. mode'[a] # "none" /\ \A b \in Actor : b # a => prog'[b] = "none"
    BY <1>3, <2>1 DEF Begin, ModesFor, Reliable, DeployInv, TypeOK
  <2>3. \A b \in Actor : pc'[b] \in {"idle", "check", "backup", "dropIn", "removeSpec"}
    BY <1>3, <2>1, RuntimeSetupAssumption DEF Begin, GoTo, DeployInv, TypeOK, FirstStep, ConfigureStart
  <2> QED
    BY <1>3, <2>1, <2>2, <2>3 DEF Begin, DeployInv, SyncInv, Synced
<1>4. CASE RuntimeRestarts
  BY <1>4 DEF RuntimeRestarts, DeployInv, SyncInv, Synced, Good
<1>5. CASE UNCHANGED vars
  BY <1>5 DEF vars, DeployInv, SyncInv, Synced, Good
<1> QED
  BY <1>1, <1>2, <1>3, <1>4, <1>5 DEF Next, Killed, Fault, Reliable, Uninterrupted

\* README, "A node with CDI initially disabled is restarted once, on the first
\* deploy": once a daemon's setup is over, the runtime serves CDI or is about
\* to restart into doing so, in any sequence of deployments, setups and
\* cleanups whose restarts work.
THEOREM DeployedServes ==
    ASSUME Unshared, DockerKeeps, Reliable
    PROVE  Spec => []DaemonServes
<1>1. Init => DeployInv
  <2> SUFFICES ASSUME Init PROVE SoundInv /\ SyncInv /\ DockerInv
    BY InitTypes, InitBase DEF DeployInv
  <2>1. PICK n \in Nodes : node = n.node /\ conf = n.conf /\ backup = n.backup
    BY DEF Init
  <2>2. \A a \in Actor : buf[a] = Blank
    BY DEF Init
  <2>3. DockerInv
    BY <2>1, <2>2 DEF DockerKeeps, DockerInv, DirsOf, Blank
  <2>4. SoundInv
    <3>1. Sound(node, conf) /\ Sound(node, backup) /\ ~node.mounted
      BY <2>1 DEF Reliable
    <3>2. loaded # "down"
      BY <3>1 DEF Init, Sound, Loads
    <3>3. Sound(node, Blank)
      BY <3>1, InitTypes, SoundStays DEF TypeOK
    <3> QED
      BY <2>2, <3>1, <3>2, <3>3 DEF SoundInv
  <2> QED
    BY <2>3, <2>4 DEF Init, SyncInv, Synced
<1>2. DeployInv /\ [Next]_vars => DeployInv'
  BY NextSync
<1>3. DeployInv => DaemonServes
  <2> SUFFICES ASSUME DeployInv, NEW a \in Actor, pc[a] = "running" PROVE loaded = "cdi" \/ reload
    BY DEF DaemonServes
  <2>1. \A b \in Actor : pc[b] \in {"idle", "check", "running"}
    BY DEF DeployInv, Base, TypeOK, OneProgram, Places
  <2> QED
    BY <2>1 DEF DeployInv, SyncInv, Synced
<1> QED
  BY <1>1, <1>2, <1>3, PTL DEF Spec
=============================================================================
