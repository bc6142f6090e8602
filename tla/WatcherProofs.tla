--------------------------- MODULE WatcherProofs ---------------------------
(***************************************************************************)
(* Lemmas about CdiSpec and Watcher that the proofs about RefreshSystem    *)
(* and Daemon share: what versionsDiffer decides, and type correctness of  *)
(* the steps of a generator and of the watcher goroutine.                  *)
(***************************************************************************)
EXTENDS Watcher, FiniteSetTheorems, TLAPS

\* versionsDiffer (watcher.go) compares the sizes and then only the keys of
\* its first argument; for maps without zero values that is enough to decide
\* whether the maps differ.
LEMMA VersionsDifferIsInequality ==
    ASSUME NEW a \in LibMap, NEW b \in LibMap
    PROVE  versionsDiffer(a, b) <=> a # b
<1> USE CdiSpecAssumption DEF LibMap, Keys
<1>1. IsFiniteSet(Keys(a)) /\ IsFiniteSet(Keys(b))
  BY FS_Subset
<1>2. ASSUME a # b, ~versionsDiffer(a, b) PROVE FALSE
  <2>1. PICK l \in Lib : a[l] # b[l]
    BY <1>2
  <2>2. \A k \in Keys(a) : b[k] = a[k]
    BY <1>2 DEF versionsDiffer
  <2>3. Keys(a) \subseteq Keys(b)
    BY <2>2
  <2>4. l \in Keys(b) /\ l \notin Keys(a)
    BY <2>1, <2>2
  <2>5. Cardinality(Keys(a)) = Cardinality(Keys(b))
    BY <1>2 DEF versionsDiffer
  <2>6. Keys(a) = Keys(b)
    BY <1>1, <2>3, <2>5, FS_Subset
  <2> QED BY <2>4, <2>6
<1>3. ASSUME a = b PROVE ~versionsDiffer(a, b)
  BY <1>3 DEF versionsDiffer
<1> QED BY <1>2, <1>3

-----------------------------------------------------------------------------
LEMMA CdiUnchanged == CdiTypeOK /\ UNCHANGED cdiVars => CdiTypeOK'
BY DEF CdiTypeOK, cdiVars, hostVars, fileVars, scanVars

LEMMA WatcherUnchanged == WatcherTypeOK /\ UNCHANGED watchVars => WatcherTypeOK'
BY DEF WatcherTypeOK, watchVars

\* Entering GenerateCDISpec resets the scan.
LEMMA BeginGenerateTypes ==
    ASSUME CdiTypeOK, NEW g \in Generator, BeginGenerate(g),
           UNCHANGED <<hostVars, fileVars, faults>>
    PROVE  CdiTypeOK'
BY CdiSpecAssumption
   DEF CdiTypeOK, BeginGenerate, SetStage, StartScan, EmptyMap, LibMap, GStage, hostVars, fileVars

\* One library is looked at, with or without success.
LEMMA ScanTypes ==
    ASSUME CdiTypeOK, NEW g \in Generator, NEW l \in Lib, NEW op,
           \/ ScanLibrary(g, l) /\ UNCHANGED faults
           \/ ScanLibraryFails(g, l, op),
           UNCHANGED <<hostVars, fileVars, gstage>>
    PROVE  CdiTypeOK'
<1> USE CdiSpecAssumption
<1>1. CASE ScanLibrary(g, l) /\ UNCHANGED faults
  <2>1. [found[g] EXCEPT ![l] = host[l]] \in LibMap
    BY DEF CdiTypeOK, LibMap
  <2>2. found' = [found EXCEPT ![g] = [found[g] EXCEPT ![l] = host[l]]]
    BY <1>1 DEF ScanLibrary, CdiTypeOK
  <2>3. todo' \in [Generator -> SUBSET Lib]
    BY <1>1 DEF ScanLibrary, CdiTypeOK
  <2> QED BY <1>1, <2>1, <2>2, <2>3 DEF CdiTypeOK, hostVars, fileVars
<1>2. CASE ScanLibraryFails(g, l, op)
  BY <1>2 DEF CdiTypeOK, ScanLibraryFails, Fault, hostVars, fileVars
<1> QED BY <1>1, <1>2

\* Every step of GenerateCDISpec.
LEMMA GenerateTypes ==
    ASSUME CdiTypeOK, NEW g \in Generator, GenerateStep(g)
    PROVE  CdiTypeOK'
<1> USE CdiSpecAssumption
<1>1. ASSUME NEW l \in Lib, Discover(g, l) \/ DiscoverSkips(g, l) PROVE CdiTypeOK'
  BY <1>1, ScanTypes DEF Discover, DiscoverSkips
<1>2. CASE WriteNpu(g) \/ WriteNpuFails(g)
  BY <1>2 DEF WriteNpu, WriteNpuFails, Fault, SetStage, CdiTypeOK, GStage, hostVars, fileVars, scanVars
<1>3. CASE EmitRds(g) \/ EmitRdsPruneFails(g) \/ EmitRdsWriteFails(g)
  BY <1>3 DEF EmitRds, EmitRdsPruneFails, EmitRdsWriteFails, Fault, SetStage, CdiTypeOK,
              GStage, hostVars, fileVars, scanVars
<1> QED BY <1>1, <1>2, <1>3 DEF GenerateStep

LEMMA StartScanTypes ==
    ASSUME CdiTypeOK, NEW g \in Generator, StartScan(g),
           UNCHANGED <<hostVars, fileVars, gstage, faults>>
    PROVE  CdiTypeOK'
BY CdiSpecAssumption
   DEF CdiTypeOK, StartScan, EmptyMap, LibMap, hostVars, fileVars

\* The tail of tick leaves the watcher's variables well typed.
LEMMA FinishTickTypes ==
    ASSUME WatcherTypeOK, NEW err \in BOOLEAN, FinishTick(err)
    PROVE  WatcherTypeOK'
<1>1. lastErr' \in BOOLEAN /\ ctxDone' \in BOOLEAN /\ last' \in LibMap /\ prev' \in LibMap
  BY DEF FinishTick, WatcherTypeOK
<1>2. wpc' \in WPc /\ check' \in {"none", "ok", "error"}
  BY DEF FinishTick, publishStatus, WPc
<1> QED BY <1>1, <1>2 DEF WatcherTypeOK

\* Every step of the watcher goroutine.
LEMMA WatcherTypes ==
    ASSUME CdiTypeOK, WatcherTypeOK, WatcherStep
    PROVE  CdiTypeOK' /\ WatcherTypeOK'
<1> USE WatcherAssumption DEF WPc
<1>1. CASE RunCancelled \/ LoopExit \/ Baseline
  BY <1>1 DEF RunCancelled, LoopExit, Baseline, publishStatus, CdiTypeOK, WatcherTypeOK, cdiVars,
              hostVars, fileVars, scanVars
<1>2. CASE StartBaseline \/ Tick
  BY <1>2, StartScanTypes DEF StartBaseline, Tick, WatcherTypeOK
<1>3. ASSUME NEW l \in Lib, Probe(l) \/ ProbeFails(l) PROVE CdiTypeOK' /\ WatcherTypeOK'
  BY <1>3, ScanTypes DEF Probe, ProbeFails, WatcherTypeOK, watchVars
<1>4. CASE TickCancelled \/ TickUnchanged \/ TickChanged
  BY <1>4 DEF TickCancelled, TickUnchanged, TickChanged, TakeSnapshot, publishStatus, CdiTypeOK,
              WatcherTypeOK, cdiVars, hostVars, fileVars, scanVars
<1>5. CASE CallbackCancelled
  BY <1>5, FinishTickTypes DEF CallbackCancelled, CdiTypeOK, cdiVars, hostVars, fileVars, scanVars
<1>6. CASE CallbackBegin
  BY <1>6, BeginGenerateTypes DEF CallbackBegin, WatcherTypeOK
<1>7. CASE Regenerate
  BY <1>7, GenerateTypes DEF Regenerate, WatcherTypeOK, watchVars
<1>8. CASE CallbackReturn
  <2>1. WatcherTypeOK'
    BY <1>8, FinishTickTypes DEF CallbackReturn
  <2>2. CdiTypeOK'
    BY <1>8 DEF CallbackReturn, SetStage, GStage, CdiTypeOK, hostVars, fileVars, scanVars
  <2> QED BY <2>1, <2>2
<1> QED
  BY <1>1, <1>2, <1>3, <1>4, <1>5, <1>6, <1>7, <1>8 DEF WatcherStep
=============================================================================
