------------------------------ MODULE CdiSpec ------------------------------
(***************************************************************************)
(* Regeneration of the CDI specification files from what is installed on   *)
(* the host: regenerateCDISpec (cmd/rbln-ctk-daemon/root.go) and           *)
(* GenerateCDISpec (internal/cdi/setup/setup.go), as run by the daemon and *)
(* by `rbln-ctk cdi generate`.  The files are rbln.yaml and rbln-rds.yaml. *)
(*                                                                         *)
(* A generator is one run of that code: it scans the host library by       *)
(* library, replaces the NPU file, then replaces or prunes the RDS file.   *)
(* Other generators and driver upgrades interleave with those steps.       *)
(* Replacing a file is one step here; SpecWriter shows why it may be.      *)
(***************************************************************************)
EXTENDS Integers, FiniteSets

CONSTANTS
    Lib,          \* the driver libraries a scan looks for
    MaxVersion,   \* bound: a library has versions 1..MaxVersion
    Generator,    \* who regenerates the spec files
    FaultyOps,    \* which operations may fail, a subset of
                  \* {"probe", "discover", "npu", "rds", "prune"}
    MaxFaults,    \* bound: how many of them fail
    NoSpec        \* "rbln.yaml does not exist"

\* A library map in the sense of Go: the zero value 0 is "no entry".
LibMap == [Lib -> 0..MaxVersion]
EmptyMap == [l \in Lib |-> 0]

ASSUME CdiSpecAssumption ==
    /\ IsFiniteSet(Lib)
    /\ MaxVersion \in Nat \ {0}
    /\ MaxFaults \in Nat
    /\ NoSpec \notin LibMap

VARIABLES
    host,     \* the libraries installed on the host
    rdsDev,   \* whether the host has /dev/rblnfs* devices
    npu,      \* rbln.yaml: the libraries it mounts, or NoSpec
    rds,      \* whether rbln-rds.yaml exists
    gstage,   \* per generator: where GenerateCDISpec is
    found,    \* per generator: what its current scan has collected
    todo,     \* per generator: what its current scan has still to look at
    faults    \* transient faults so far

hostVars == <<host, rdsDev>>
fileVars == <<npu, rds>>
scanVars == <<found, todo>>
cdiVars == <<hostVars, fileVars, gstage, scanVars, faults>>

GStage == {"idle", "discover", "emitRds", "ok", "failed"}

CdiTypeOK ==
    /\ host \in LibMap
    /\ rdsDev \in BOOLEAN
    /\ npu \in LibMap \cup {NoSpec}
    /\ rds \in BOOLEAN
    /\ gstage \in [Generator -> GStage]
    /\ found \in [Generator -> LibMap]
    /\ todo \in [Generator -> SUBSET Lib]
    /\ faults \in 0..MaxFaults

\* Operation op fails this time.
Fault(op) ==
    /\ op \in FaultyOps
    /\ faults < MaxFaults
    /\ faults' = faults + 1

-----------------------------------------------------------------------------
(* Scanning the host.  Discovery and the watcher's probe both walk the      *)
(* library directories file by file, so an upgrade can fall into a scan.    *)

StartScan(g) ==
    /\ found' = [found EXCEPT ![g] = EmptyMap]
    /\ todo' = [todo EXCEPT ![g] = Lib]

ScanLibrary(g, l) ==
    /\ l \in todo[g]
    /\ found' = [found EXCEPT ![g][l] = host[l]]
    /\ todo' = [todo EXCEPT ![g] = @ \ {l}]

\* A library that is there but cannot be read gets no entry in the map.
ScanLibraryFails(g, l, op) ==
    /\ l \in todo[g]
    /\ host[l] # 0
    /\ Fault(op)
    /\ todo' = [todo EXCEPT ![g] = @ \ {l}]
    /\ UNCHANGED found

-----------------------------------------------------------------------------
(* GenerateCDISpec.                                                         *)

SetStage(g, stage) == gstage' = [gstage EXCEPT ![g] = stage]

\* Mutant: the libraries of the previous run are used again.
BeginGenerate_CachedScan(g) ==
    /\ gstage[g] = "idle"
    /\ SetStage(g, "discover")
    /\ UNCHANGED scanVars

BeginGenerate(g) ==
    /\ gstage[g] = "idle"
    /\ SetStage(g, "discover")
    /\ StartScan(g)

Discover(g, l) ==
    /\ gstage[g] = "discover"
    /\ ScanLibrary(g, l)
    /\ UNCHANGED <<hostVars, fileVars, gstage, faults>>

\* DiscoverRBLN skips a file it cannot stat, without an error.
DiscoverSkips(g, l) ==
    /\ gstage[g] = "discover"
    /\ ScanLibraryFails(g, l, "discover")
    /\ UNCHANGED <<hostVars, fileVars, gstage>>

WriteNpu(g) ==
    /\ gstage[g] = "discover"
    /\ todo[g] = {}
    /\ npu' = found[g]
    /\ SetStage(g, "emitRds")
    /\ UNCHANGED <<hostVars, rds, scanVars, faults>>

\* MkdirAll or the writer fails: the previous file stays.
WriteNpuFails(g) ==
    /\ gstage[g] = "discover"
    /\ todo[g] = {}
    /\ Fault("npu")
    /\ SetStage(g, "failed")
    /\ UNCHANGED <<hostVars, fileVars, scanVars>>

\* emitRDSSpec: write the file when the host has RDS devices, else prune it.
EmitRds(g) ==
    /\ gstage[g] = "emitRds"
    /\ rds' = rdsDev
    /\ SetStage(g, "ok")
    /\ UNCHANGED <<hostVars, npu, scanVars, faults>>

\* A failing removal of a stale file is only a warning.
EmitRdsPruneFails(g) ==
    /\ gstage[g] = "emitRds"
    /\ ~rdsDev
    /\ Fault("prune")
    /\ SetStage(g, "ok")
    /\ UNCHANGED <<hostVars, fileVars, scanVars>>

\* A failing write is an error, after rbln.yaml has been replaced.
EmitRdsWriteFails(g) ==
    /\ gstage[g] = "emitRds"
    /\ rdsDev
    /\ Fault("rds")
    /\ SetStage(g, "failed")
    /\ UNCHANGED <<hostVars, fileVars, scanVars>>

GenerateStep(g) ==
    \/ \E l \in Lib : Discover(g, l) \/ DiscoverSkips(g, l)
    \/ WriteNpu(g)
    \/ WriteNpuFails(g)
    \/ EmitRds(g)
    \/ EmitRdsPruneFails(g)
    \/ EmitRdsWriteFails(g)

\* The generator is past its last check and may still touch the files.
Generating(g) == gstage[g] \in {"discover", "emitRds"}
=============================================================================
