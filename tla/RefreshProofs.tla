--------------------------- MODULE RefreshProofs ---------------------------
(***************************************************************************)
(* Proofs about RefreshSystem, for any set of libraries, any number of     *)
(* versions and any number of faults.                                      *)
(*                                                                         *)
(* Versions only grow on a host without rollbacks, so everything the       *)
(* watcher remembers can be ordered.  Between ticks the snapshot is at     *)
(* most what rbln.yaml says, which is at most what is installed: the       *)
(* snapshot is taken before the files are discovered, and goes back to the *)
(* previous one when the regeneration fails.  A snapshot that equals the   *)
(* host squeezes rbln.yaml between the two.                                *)
(***************************************************************************)
EXTENDS RefreshSystem, WatcherProofs

\* Type correctness of the system, whatever the environment does.
LEMMA NextTypes == TypeOK /\ [Next]_vars => TypeOK'
<1> SUFFICES ASSUME TypeOK, [Next]_vars PROVE TypeOK'
  OBVIOUS
<1> USE CdiSpecAssumption, WatcherAssumption DEF TypeOK
<1>1. CASE WatcherStep
  BY <1>1, WatcherTypes
<1>2. ASSUME NEW l \in Lib, NEW v \in 0..MaxVersion, HostChange(l, v) PROVE TypeOK'
  BY <1>2 DEF HostChange, CdiTypeOK, WatcherTypeOK, LibMap, fileVars, scanVars, watchVars
<1>3. CASE Cancel
  BY <1>3 DEF Cancel, CdiTypeOK, WatcherTypeOK, cdiVars, hostVars, fileVars, scanVars
<1>4. ASSUME NEW g \in OtherGenerator, OtherBegin(g) PROVE TypeOK'
  BY <1>4, BeginGenerateTypes DEF OtherGenerator, OtherBegin, WatcherTypeOK, watchVars
<1>5. ASSUME NEW g \in OtherGenerator, OtherStep(g) PROVE TypeOK'
  BY <1>5, GenerateTypes DEF OtherGenerator, OtherStep, WatcherTypeOK, watchVars
<1>6. ASSUME NEW g \in OtherGenerator, OtherEnd(g) PROVE TypeOK'
  BY <1>6 DEF OtherGenerator, OtherEnd, SetStage, GStage, CdiTypeOK, WatcherTypeOK, hostVars,
              fileVars, scanVars, watchVars
<1>7. CASE UNCHANGED vars
  BY <1>7 DEF vars, CdiTypeOK, WatcherTypeOK, cdiVars, hostVars, fileVars, scanVars, watchVars
<1> QED
  BY <1>1, <1>2, <1>3, <1>4, <1>5, <1>6, <1>7 DEF Next, Finished

LEMMA InitTypes == Init => TypeOK
<1> SUFFICES ASSUME Init PROVE TypeOK
  OBVIOUS
<1> USE CdiSpecAssumption, WatcherAssumption
<1>1. host \in LibMap /\ EmptyMap \in LibMap /\ npu = host
  BY DEF Init, LibMap, EmptyMap
<1>2. rdsDev \in BOOLEAN /\ rds \in BOOLEAN
  BY DEF Init
<1>3. CdiTypeOK
  BY <1>1, <1>2 DEF Init, CdiTypeOK, GStage
<1>4. WatcherTypeOK
  BY <1>1 DEF Init, WatcherTypeOK, WPc
<1> QED BY <1>3, <1>4 DEF TypeOK

\* Type correctness of the refresh system.
THEOREM TypeCorrect == Spec => []TypeOK
BY InitTypes, NextTypes, PTL DEF Spec

-----------------------------------------------------------------------------
\* The watcher alone, on a host that only moves forward, once the baseline
\* is taken, and where every library that is there can be read.  The runs
\* show what happens without each of these.
Quiet ==
    /\ ~Rollback
    /\ ~EarlyUpgrade
    /\ Generator = {Self}
    /\ "probe" \notin FaultyOps
    /\ "discover" \notin FaultyOps

AtMost(a, b) == \A l \in Lib : a[l] <= b[l]

\* The scan has seen, of each library so far, a version that lies between the
\* one in m and the installed one.
ScannedSince(m) ==
    \A l \in Lib \ todo[Self] : m[l] <= found[Self][l] /\ found[Self][l] <= host[l]

\* The snapshot lags behind the host, and the scan cannot miss it.
Lagging == \E l \in Lib : last[l] < host[l]
LaggingInScan ==
    \E l \in Lib : last[l] < host[l] /\ (l \notin todo[Self] => last[l] < found[Self][l])

FilesInv == npu \in LibMap /\ AtMost(npu, host)

StartInv ==
    /\ wpc \in {"start", "baseline"} => npu = host /\ ~lastErr
    /\ wpc = "baseline" => \A l \in Lib \ todo[Self] : found[Self][l] = host[l]

WaitInv == wpc = "wait" /\ ~ctxDone => AtMost(last, npu) /\ (lastErr => Lagging)

ProbeInv ==
    wpc = "probe" => AtMost(last, npu) /\ ScannedSince(last) /\ (lastErr => LaggingInScan)

CallbackInv ==
    /\ wpc = "generate" <=> gstage[Self] # "idle"
    /\ wpc \in {"callback", "generate"} =>
           /\ AtMost(prev, npu) /\ AtMost(prev, last) /\ AtMost(last, host)
           /\ \E l \in Lib : prev[l] < last[l]
    /\ gstage[Self] = "discover" => ScannedSince(last)
    /\ gstage[Self] \in {"emitRds", "ok"} => AtMost(last, npu)

IInv == TypeOK /\ FilesInv /\ StartInv /\ WaitInv /\ ProbeInv /\ CallbackInv

\* The types the arithmetic needs, as one fact.
LEMMA Versions ==
    ASSUME TypeOK, npu \in LibMap, NEW l \in Lib
    PROVE  /\ host[l] \in Nat /\ npu[l] \in Nat /\ last[l] \in Nat /\ prev[l] \in Nat
           /\ found[Self][l] \in Nat
BY CdiSpecAssumption, WatcherAssumption DEF TypeOK, CdiTypeOK, WatcherTypeOK, LibMap

LEMMA InitIInv == Init => IInv
<1> SUFFICES ASSUME Init PROVE IInv
  OBVIOUS
<1> USE CdiSpecAssumption, WatcherAssumption
<1>1. FilesInv
  BY DEF Init, FilesInv, AtMost, LibMap
<1>2. StartInv /\ WaitInv /\ ProbeInv /\ CallbackInv
  BY DEF Init, StartInv, WaitInv, ProbeInv, CallbackInv
<1> QED BY <1>1, <1>2, InitTypes DEF IInv

-----------------------------------------------------------------------------
(* Preservation.  TypeOK' is NextTypes throughout.                          *)

\* An upgrade raises one version, after the baseline.
LEMMA HostChangeIInv ==
    ASSUME Quiet, IInv, NEW l \in Lib, NEW v \in 0..MaxVersion, HostChange(l, v), TypeOK'
    PROVE  IInv'
<1> USE DEF HostChange, Quiet, fileVars, scanVars, watchVars
<1>0. wpc \notin {"start", "baseline"} /\ UNCHANGED <<npu, found, todo, last, prev, lastErr>>
  OBVIOUS
<1>1. \A k \in Lib : /\ host[k] <= host'[k]
                      /\ host[k] \in Nat /\ host'[k] \in Nat /\ npu[k] \in Nat
                      /\ last[k] \in Nat /\ prev[k] \in Nat /\ found[Self][k] \in Nat
  BY Versions DEF IInv, FilesInv, TypeOK, CdiTypeOK, LibMap
<1>2. FilesInv' /\ StartInv' /\ WaitInv'
  BY <1>0, <1>1 DEF IInv, FilesInv, StartInv, WaitInv, AtMost, Lagging
<1>3. ProbeInv' /\ CallbackInv'
  BY <1>0, <1>1 DEF IInv, ProbeInv, CallbackInv, ScannedSince, LaggingInScan, AtMost
<1> QED BY <1>2, <1>3 DEF IInv

LEMMA CancelIInv ==
    ASSUME IInv, Cancel, TypeOK'
    PROVE  IInv'
BY DEF Cancel, cdiVars, hostVars, fileVars, scanVars, IInv, FilesInv, StartInv, WaitInv, ProbeInv,
       CallbackInv, AtMost, Lagging, LaggingInScan, ScannedSince

\* What one look at a library adds to the scan of the watcher.
LEMMA ScanOne ==
    ASSUME TypeOK, NEW l \in Lib, ScanLibrary(Self, l)
    PROVE  /\ found'[Self][l] = host[l]
           /\ todo'[Self] = todo[Self] \ {l}
           /\ \A k \in Lib : k # l => found'[Self][k] = found[Self][k]
<1>1. found' = [found EXCEPT ![Self] = [found[Self] EXCEPT ![l] = host[l]]]
  BY DEF ScanLibrary, TypeOK, CdiTypeOK
<1>2. found[Self] \in LibMap /\ found \in [Generator -> LibMap]
  BY WatcherAssumption DEF TypeOK, CdiTypeOK
<1> QED
  BY <1>1, <1>2, WatcherAssumption DEF ScanLibrary, TypeOK, CdiTypeOK, LibMap

\* The steps of run and tick up to the callback.
LEMMA TickIInv ==
    ASSUME Quiet, IInv, TypeOK',
           \/ RunCancelled \/ StartBaseline \/ Baseline \/ Tick \/ LoopExit
           \/ \E l \in Lib : Probe(l) \/ ProbeFails(l)
           \/ TickCancelled \/ TickUnchanged \/ TickChanged
    PROVE  IInv'
<1> USE WatcherAssumption
<1>0. \A k \in Lib : /\ host[k] \in Nat /\ npu[k] \in Nat /\ found[Self][k] \in Nat
                      /\ last[k] \in Nat /\ prev[k] \in Nat
  BY Versions DEF IInv, FilesInv
<1>1. CASE RunCancelled \/ LoopExit
  BY <1>1 DEF RunCancelled, LoopExit, cdiVars, hostVars, fileVars, scanVars, IInv, FilesInv,
              StartInv, WaitInv, ProbeInv, CallbackInv, AtMost
<1>2. CASE StartBaseline
  <2>1. todo'[Self] = Lib
    BY <1>2 DEF StartBaseline, StartScan, IInv, TypeOK, CdiTypeOK
  <2> QED
    BY <1>2, <2>1 DEF StartBaseline, hostVars, fileVars, IInv, FilesInv, StartInv, WaitInv,
                      ProbeInv, CallbackInv, AtMost
<1>3. CASE Baseline
  <2>1. \A k \in Lib : found[Self][k] = host[k]
    BY <1>3 DEF Baseline, IInv, StartInv
  <2>2. last' = found[Self] /\ npu = host /\ ~lastErr
    BY <1>3 DEF Baseline, IInv, StartInv
  <2> QED
    BY <1>0, <1>3, <2>1, <2>2 DEF Baseline, cdiVars, hostVars, fileVars, scanVars, IInv, FilesInv,
                      StartInv, WaitInv, ProbeInv, CallbackInv, AtMost
<1>4. CASE Tick
  <2>1. todo'[Self] = Lib
    BY <1>4 DEF Tick, StartScan, IInv, TypeOK, CdiTypeOK
  <2> QED
    BY <1>4, <2>1 DEF Tick, hostVars, fileVars, IInv, FilesInv, StartInv, WaitInv,
                      ProbeInv, CallbackInv, AtMost, ScannedSince, Lagging, LaggingInScan
<1>5. ASSUME NEW l \in Lib, Probe(l) PROVE IInv'
  <2>0. /\ found'[Self][l] = host[l]
        /\ todo'[Self] = todo[Self] \ {l}
        /\ \A k \in Lib : k # l => found'[Self][k] = found[Self][k]
    BY <1>5, ScanOne DEF Probe, IInv
  <2> USE <1>0, <1>5, <2>0 DEF Probe, hostVars, fileVars, watchVars
  <2>1. FilesInv' /\ WaitInv' /\ CallbackInv'
    BY DEF IInv, FilesInv, WaitInv, CallbackInv, AtMost, Lagging
  <2>2. StartInv'
    BY DEF IInv, StartInv
  <2>3. ProbeInv'
    <3> SUFFICES ASSUME wpc = "probe" PROVE ProbeInv'
      BY DEF IInv, ProbeInv
    <3>1. AtMost(last, npu)' /\ AtMost(last, host)
      BY DEF IInv, FilesInv, ProbeInv, AtMost
    <3>2. ScannedSince(last)'
      BY <3>1 DEF IInv, ProbeInv, ScannedSince, AtMost
    <3>3. lastErr => LaggingInScan'
      BY DEF IInv, ProbeInv, LaggingInScan
    <3> QED BY <3>1, <3>2, <3>3 DEF ProbeInv
  <2> QED BY <2>1, <2>2, <2>3 DEF IInv
<1>6. ASSUME NEW l \in Lib, ProbeFails(l) PROVE FALSE
  BY <1>6 DEF Quiet, ProbeFails, ScanLibraryFails, Fault
<1>7. CASE TickCancelled \/ TickChanged
  <2>1. TakeSnapshot /\ UNCHANGED <<cdiVars, ctxDone, lastErr>>
    BY <1>7 DEF TickCancelled, TickChanged
  <2>2. /\ prev' = last /\ last' = found[Self]
        /\ AtMost(last, npu) /\ AtMost(last, found[Self]) /\ AtMost(found[Self], host)
    BY <2>1 DEF TakeSnapshot, IInv, ProbeInv, ScannedSince, AtMost
  <2>3. CASE TickCancelled
    BY <2>1, <2>2, <2>3 DEF TickCancelled, TakeSnapshot, cdiVars, hostVars, fileVars, scanVars, IInv,
               FilesInv, StartInv, WaitInv, ProbeInv, CallbackInv, AtMost
  <2>4. CASE TickChanged
    <3>1. last \in LibMap /\ found[Self] \in LibMap
      BY DEF IInv, TypeOK, CdiTypeOK, WatcherTypeOK
    <3>2. last # found[Self]
      BY <2>4, <3>1, VersionsDifferIsInequality DEF TickChanged
    <3>3. \E l \in Lib : last[l] < found[Self][l]
      BY <1>0, <2>2, <3>1, <3>2 DEF AtMost, LibMap
    <3> QED
      BY <2>1, <2>2, <2>4, <3>3 DEF TickChanged, TakeSnapshot, cdiVars, hostVars, fileVars, scanVars,
               IInv, FilesInv, StartInv, WaitInv, ProbeInv, CallbackInv, AtMost
  <2> QED BY <1>7, <2>3, <2>4
<1>8. CASE TickUnchanged
  <2>1. last \in LibMap /\ found[Self] \in LibMap
    BY DEF IInv, TypeOK, CdiTypeOK, WatcherTypeOK
  <2>2. last = found[Self]
    BY <1>8, <2>1, VersionsDifferIsInequality DEF TickUnchanged
  <2>3. AtMost(last, npu) /\ ~lastErr
    BY <1>0, <1>8, <2>2 DEF TickUnchanged, TakeSnapshot, IInv, ProbeInv, LaggingInScan
  <2> QED
    BY <1>8, <2>2, <2>3 DEF TickUnchanged, TakeSnapshot, cdiVars, hostVars, fileVars, scanVars, IInv,
               FilesInv, StartInv, WaitInv, ProbeInv, CallbackInv, AtMost
<1> QED BY <1>1, <1>2, <1>3, <1>4, <1>5, <1>6, <1>7, <1>8

\* A tick that fails goes back to the snapshot before it, one that succeeds
\* keeps the one the files were discovered after.
LEMMA FinishIInv ==
    ASSUME IInv, TypeOK', NEW err \in BOOLEAN, FinishTick(err),
           wpc \in {"callback", "generate"},
           gstage'[Self] = "idle",
           ~err => AtMost(last, npu),
           UNCHANGED <<host, npu>>
    PROVE  IInv'
<1>0. \A k \in Lib : /\ host[k] \in Nat /\ npu[k] \in Nat
                      /\ last[k] \in Nat /\ prev[k] \in Nat
  BY Versions DEF IInv, FilesInv
<1>1. /\ AtMost(prev, npu) /\ AtMost(last, host)
      /\ \E l \in Lib : prev[l] < last[l]
  BY DEF IInv, CallbackInv
<1>2. wpc' = "wait" /\ ctxDone' = ctxDone /\ lastErr' = err /\ prev' = prev
  BY DEF FinishTick
<1>3. CASE err
  <2>1. last' = prev
    BY <1>3 DEF FinishTick
  <2>2. Lagging'
    BY <1>0, <1>1, <2>1 DEF Lagging, AtMost
  <2> QED
    BY <1>1, <1>2, <2>1, <2>2 DEF IInv, FilesInv, StartInv, WaitInv, ProbeInv, CallbackInv, AtMost
<1>4. CASE ~err
  <2>1. last' = last
    BY <1>4 DEF FinishTick
  <2> QED
    BY <1>2, <1>4, <2>1 DEF IInv, FilesInv, StartInv, WaitInv, ProbeInv, CallbackInv, AtMost
<1> QED BY <1>3, <1>4

LEMMA CallbackIInv ==
    ASSUME Quiet, IInv, TypeOK', CallbackCancelled \/ CallbackBegin \/ CallbackReturn
    PROVE  IInv'
<1> USE WatcherAssumption
<1>1. CASE CallbackCancelled
  <2>1. gstage[Self] = "idle"
    BY <1>1 DEF CallbackCancelled, IInv, CallbackInv
  <2> QED
    BY <1>1, <2>1, FinishIInv DEF CallbackCancelled, cdiVars, hostVars, fileVars
<1>2. CASE CallbackBegin
  <2>1. todo'[Self] = Lib /\ gstage'[Self] = "discover"
    BY <1>2 DEF CallbackBegin, BeginGenerate, StartScan, SetStage, IInv, TypeOK, CdiTypeOK
  <2> QED
    BY <1>2, <2>1 DEF CallbackBegin, hostVars, fileVars, IInv, FilesInv, StartInv, WaitInv, ProbeInv,
                      CallbackInv, AtMost, ScannedSince
<1>3. CASE CallbackReturn
  <2>1. gstage'[Self] = "idle"
    BY <1>3 DEF CallbackReturn, SetStage, IInv, TypeOK, CdiTypeOK
  <2>2. gstage[Self] # "failed" => AtMost(last, npu)
    BY <1>3 DEF CallbackReturn, IInv, CallbackInv
  <2>3. (gstage[Self] = "failed") \in BOOLEAN /\ FinishTick(gstage[Self] = "failed")
    BY <1>3 DEF CallbackReturn
  <2> QED
    BY <1>3, <2>1, <2>2, <2>3, FinishIInv DEF CallbackReturn, hostVars, fileVars
<1> QED BY <1>1, <1>2, <1>3

\* The regeneration of the watcher's callback.
LEMMA RegenerateIInv ==
    ASSUME Quiet, IInv, TypeOK', Regenerate
    PROVE  IInv'
<1> USE WatcherAssumption
<1>0. /\ \A k \in Lib : /\ host[k] \in Nat /\ npu[k] \in Nat /\ found[Self][k] \in Nat
                         /\ last[k] \in Nat /\ prev[k] \in Nat
      /\ wpc = "generate" /\ UNCHANGED watchVars /\ GenerateStep(Self)
  BY Versions DEF IInv, FilesInv, Regenerate
<1> USE <1>0 DEF watchVars
<1>1. ASSUME NEW l \in Lib, Discover(Self, l) PROVE IInv'
  <2>0. /\ found'[Self][l] = host[l]
        /\ todo'[Self] = todo[Self] \ {l}
        /\ \A k \in Lib : k # l => found'[Self][k] = found[Self][k]
    BY <1>1, ScanOne DEF Discover, IInv
  <2>1. FilesInv' /\ StartInv' /\ WaitInv' /\ ProbeInv'
    BY <1>1 DEF Discover, hostVars, fileVars, IInv, FilesInv, StartInv, WaitInv, ProbeInv, AtMost
  <2>2. AtMost(last, host) /\ ScannedSince(last)
    BY <1>1 DEF Discover, IInv, CallbackInv
  <2>3. ScannedSince(last)'
    BY <1>1, <2>0, <2>2 DEF Discover, hostVars, ScannedSince, AtMost
  <2>4. CallbackInv'
    BY <1>1, <2>3 DEF Discover, hostVars, fileVars, IInv, CallbackInv, AtMost
  <2> QED BY <2>1, <2>4 DEF IInv
<1>2. ASSUME NEW l \in Lib, DiscoverSkips(Self, l) PROVE FALSE
  BY <1>2 DEF Quiet, DiscoverSkips, ScanLibraryFails, Fault
<1>3. CASE WriteNpu(Self)
  <2>1. npu' = found[Self] /\ gstage'[Self] = "emitRds" /\ found[Self] \in LibMap
    BY <1>3 DEF WriteNpu, SetStage, IInv, TypeOK, CdiTypeOK
  <2>2. AtMost(last, found[Self]) /\ AtMost(found[Self], host) /\ AtMost(prev, last)
    BY <1>3 DEF WriteNpu, IInv, CallbackInv, ScannedSince, AtMost
  <2>3. AtMost(prev, found[Self])
    BY <2>2 DEF AtMost
  <2> QED
    BY <1>3, <2>1, <2>2, <2>3 DEF WriteNpu, hostVars, IInv, FilesInv, StartInv, WaitInv, ProbeInv,
                      CallbackInv, AtMost
<1>4. CASE \/ WriteNpuFails(Self) \/ EmitRds(Self)
           \/ EmitRdsPruneFails(Self) \/ EmitRdsWriteFails(Self)
  <2>1. \/ gstage'[Self] = "failed"
        \/ gstage[Self] = "emitRds" /\ gstage'[Self] = "ok"
    BY <1>4 DEF WriteNpuFails, EmitRds, EmitRdsPruneFails, EmitRdsWriteFails, SetStage, IInv, TypeOK,
                CdiTypeOK
  <2>2. UNCHANGED <<host, npu>>
    BY <1>4 DEF WriteNpuFails, EmitRds, EmitRdsPruneFails, EmitRdsWriteFails, hostVars, fileVars
  <2> QED
    BY <2>1, <2>2 DEF IInv, FilesInv, StartInv, WaitInv, ProbeInv, CallbackInv, AtMost
<1> QED BY <1>1, <1>2, <1>3, <1>4 DEF GenerateStep

LEMMA NextIInv ==
    ASSUME Quiet
    PROVE  IInv /\ [Next]_vars => IInv'
<1> SUFFICES ASSUME IInv, [Next]_vars PROVE IInv'
  OBVIOUS
<1>0. TypeOK'
  BY NextTypes DEF IInv
<1>1. CASE WatcherStep
  BY <1>0, <1>1, TickIInv, CallbackIInv, RegenerateIInv DEF WatcherStep
<1>2. ASSUME NEW l \in Lib, NEW v \in 0..MaxVersion, HostChange(l, v) PROVE IInv'
  BY <1>0, <1>2, HostChangeIInv
<1>3. CASE Cancel
  BY <1>0, <1>3, CancelIInv
<1>4. OtherGenerator = {}
  BY DEF Quiet, OtherGenerator
<1>5. CASE UNCHANGED vars
  BY <1>5 DEF vars, cdiVars, hostVars, fileVars, scanVars, watchVars, IInv, TypeOK, CdiTypeOK,
              WatcherTypeOK, FilesInv, StartInv, WaitInv, ProbeInv, CallbackInv, AtMost, Lagging,
              LaggingInScan, ScannedSince
<1> QED BY <1>1, <1>2, <1>3, <1>4, <1>5 DEF Next, Finished

\* The ordering of snapshot, file and host holds in every behaviour.
THEOREM Ordered ==
    ASSUME Quiet
    PROVE  Spec => []IInv
BY InitIInv, NextIInv, PTL DEF Spec

\* An upgrade is never missed: a watcher whose snapshot agrees with the host
\* has published that host in rbln.yaml, although the probe and the
\* regeneration scan the host at different times and the regeneration may
\* fail at any point (tick, watcher.go).
THEOREM UpgradesAreNotMissed ==
    ASSUME Quiet
    PROVE  Spec => []NoMissedUpgrade
<1>1. IInv => NoMissedUpgrade
  <2> SUFFICES ASSUME IInv, wpc = "wait", ~ctxDone, last = host PROVE npu = host
    BY DEF NoMissedUpgrade
  <2>1. AtMost(host, npu) /\ AtMost(npu, host) /\ npu \in LibMap /\ host \in LibMap
    BY DEF IInv, WaitInv, FilesInv, TypeOK, CdiTypeOK
  <2>2. \A l \in Lib : npu[l] = host[l]
    BY <2>1, Versions DEF IInv, AtMost
  <2> QED BY <2>1, <2>2 DEF LibMap
<1> QED BY <1>1, Ordered, PTL

\* A failed regeneration is retried: while the error is reported, the
\* snapshot is one the host has left behind for good (rollback of w.last).
THEOREM FailuresStayPending ==
    ASSUME Quiet
    PROVE  Spec => []FailureStaysPending
<1>1. IInv => FailureStaysPending
  <2> SUFFICES ASSUME IInv, wpc = "wait", ~ctxDone, lastErr PROVE last # host
    BY DEF FailureStaysPending
  <2>1. PICK l \in Lib : last[l] < host[l]
    BY DEF IInv, WaitInv, Lagging
  <2> QED BY <2>1, Versions DEF IInv, FilesInv
<1> QED BY <1>1, Ordered, PTL
=============================================================================
