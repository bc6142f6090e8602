------------------------------ MODULE Watcher ------------------------------
(***************************************************************************)
(* The daemon's refresh watcher (internal/daemon/watcher.go): it polls the *)
(* fingerprints of the driver libraries and, when they differ from the     *)
(* previous snapshot, regenerates the CDI spec files.  A failed            *)
(* regeneration rolls the snapshot back so that the next tick retries.     *)
(*                                                                         *)
(* The watcher's goroutine is generator Self.  Its probe and its           *)
(* regeneration are two scans of a host that may change under both.        *)
(* RefreshSystem runs the watcher in its environment; Daemon embeds it in  *)
(* the life of the process.                                                *)
(***************************************************************************)
EXTENDS CdiSpec

CONSTANTS
    Self    \* the generator that is the watcher

ASSUME WatcherAssumption == Self \in Generator

VARIABLES
    wpc,       \* where the watcher goroutine is
    ctxDone,   \* watcherCtx is cancelled
    last,      \* Watcher.last: the snapshot the next tick compares with
    prev,      \* the snapshot of the tick before, kept for the rollback
    lastErr,   \* Watcher.lastErr # nil
    check      \* the "cdi-refresh" check of /ready, or "none"

watchVars == <<wpc, ctxDone, last, prev, lastErr, check>>
WPc == {"off", "start", "baseline", "wait", "probe", "callback", "generate", "done"}

WatcherTypeOK ==
    /\ wpc \in WPc
    /\ ctxDone \in BOOLEAN
    /\ last \in LibMap
    /\ prev \in LibMap
    /\ lastErr \in BOOLEAN
    /\ check \in {"none", "ok", "error"}

-----------------------------------------------------------------------------
\* versionsDiffer: two maps differ when their sizes do or a key of the first
\* has another value in the second.
Keys(m) == {l \in Lib : m[l] # 0}

\* Mutant: only the number of libraries is compared.
versionsDiffer_SizeOnly(a, b) == Cardinality(Keys(a)) # Cardinality(Keys(b))

versionsDiffer(a, b) ==
    \/ Cardinality(Keys(a)) # Cardinality(Keys(b))
    \/ \E k \in Keys(a) : b[k] # a[k]

\* Mutant: a failure is published under a word no probe of /ready knows.
publishStatus_Word(err) == check' = IF err THEN "failed" ELSE "ok"

publishStatus(err) == check' = IF err THEN "error" ELSE "ok"

-----------------------------------------------------------------------------
(* Run, baseline and tick.                                                  *)

RunCancelled ==
    /\ wpc = "start"
    /\ ctxDone
    /\ wpc' = "done"
    /\ UNCHANGED <<cdiVars, ctxDone, last, prev, lastErr, check>>

StartBaseline ==
    /\ wpc = "start"
    /\ ~ctxDone
    /\ wpc' = "baseline"
    /\ StartScan(Self)
    /\ UNCHANGED <<hostVars, fileVars, gstage, faults, ctxDone, last, prev, lastErr, check>>

Probe(l) ==
    /\ wpc \in {"baseline", "probe"}
    /\ ScanLibrary(Self, l)
    /\ UNCHANGED <<hostVars, fileVars, gstage, faults, watchVars>>

ProbeFails(l) ==
    /\ wpc \in {"baseline", "probe"}
    /\ ScanLibraryFails(Self, l, "probe")
    /\ UNCHANGED <<hostVars, fileVars, gstage, watchVars>>

Baseline ==
    /\ wpc = "baseline"
    /\ todo[Self] = {}
    /\ last' = found[Self]
    /\ publishStatus(lastErr)
    /\ wpc' = "wait"
    /\ UNCHANGED <<cdiVars, ctxDone, prev, lastErr>>

Tick ==
    /\ wpc = "wait"
    /\ ~ctxDone
    /\ wpc' = "probe"
    /\ StartScan(Self)
    /\ UNCHANGED <<hostVars, fileVars, gstage, faults, ctxDone, last, prev, lastErr, check>>

\* Mutant: the loop never looks at the context.
LoopExit_KeepsTicking ==
    /\ wpc = "wait"
    /\ ctxDone
    /\ wpc' = "probe"
    /\ StartScan(Self)
    /\ UNCHANGED <<hostVars, fileVars, gstage, faults, ctxDone, last, prev, lastErr, check>>

LoopExit ==
    /\ wpc = "wait"
    /\ ctxDone
    /\ wpc' = "done"
    /\ UNCHANGED <<cdiVars, ctxDone, last, prev, lastErr, check>>

\* The probe returned: its result replaces last before anything is decided.
TakeSnapshot ==
    /\ wpc = "probe"
    /\ todo[Self] = {}
    /\ prev' = last
    /\ last' = found[Self]

TickCancelled ==
    /\ TakeSnapshot
    /\ ctxDone
    /\ wpc' = "wait"
    /\ UNCHANGED <<cdiVars, ctxDone, lastErr, check>>

TickUnchanged ==
    /\ TakeSnapshot
    /\ ~ctxDone
    /\ ~versionsDiffer(last, found[Self])
    /\ publishStatus(lastErr)
    /\ wpc' = "wait"
    /\ UNCHANGED <<cdiVars, ctxDone, lastErr>>

TickChanged ==
    /\ TakeSnapshot
    /\ ~ctxDone
    /\ versionsDiffer(last, found[Self])
    /\ wpc' = "callback"
    /\ UNCHANGED <<cdiVars, ctxDone, lastErr, check>>

\* Mutant: a failed callback leaves the new snapshot in place.
FinishTick_NoRollback(err) ==
    /\ lastErr' = err
    /\ publishStatus(err)
    /\ wpc' = "wait"
    /\ UNCHANGED <<ctxDone, last, prev>>

\* Mutant: a success records what the host looks like now.
FinishTick_Reprobe(err) ==
    /\ lastErr' = err
    /\ last' = IF err THEN prev ELSE host
    /\ publishStatus(err)
    /\ wpc' = "wait"
    /\ UNCHANGED <<ctxDone, prev>>

\* Mutant: a success does not clear the error.
FinishTick_ErrorKept(err) ==
    /\ lastErr' = (err \/ lastErr)
    /\ last' = IF err THEN prev ELSE last
    /\ publishStatus(err \/ lastErr)
    /\ wpc' = "wait"
    /\ UNCHANGED <<ctxDone, prev>>

\* The tail of tick: record the callback's result, roll back on an error.
FinishTick(err) ==
    /\ lastErr' = err
    /\ last' = IF err THEN prev ELSE last
    /\ publishStatus(err)
    /\ wpc' = "wait"
    /\ UNCHANGED <<ctxDone, prev>>

CallbackCancelled ==
    /\ wpc = "callback"
    /\ ctxDone
    /\ FinishTick(TRUE)
    /\ UNCHANGED cdiVars

CallbackBegin ==
    /\ wpc = "callback"
    /\ ~ctxDone
    /\ BeginGenerate(Self)
    /\ wpc' = "generate"
    /\ UNCHANGED <<hostVars, fileVars, faults, ctxDone, last, prev, lastErr, check>>

Regenerate ==
    /\ wpc = "generate"
    /\ GenerateStep(Self)
    /\ UNCHANGED watchVars

CallbackReturn ==
    /\ wpc = "generate"
    /\ gstage[Self] \in {"ok", "failed"}
    /\ FinishTick(gstage[Self] = "failed")
    /\ SetStage(Self, "idle")
    /\ UNCHANGED <<hostVars, fileVars, scanVars, faults>>

\* Every step of the watcher goroutine.
WatcherStep ==
    \/ RunCancelled
    \/ StartBaseline
    \/ \E l \in Lib : Probe(l)
    \/ \E l \in Lib : ProbeFails(l)
    \/ Baseline
    \/ Tick
    \/ LoopExit
    \/ TickCancelled
    \/ TickUnchanged
    \/ TickChanged
    \/ CallbackCancelled
    \/ CallbackBegin
    \/ Regenerate
    \/ CallbackReturn

=============================================================================
