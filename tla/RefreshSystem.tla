--------------------------- MODULE RefreshSystem ---------------------------
(***************************************************************************)
(* The refresh watcher in its environment: driver upgrades on the host, a  *)
(* cancelled context, transient I/O errors, and other programs that        *)
(* regenerate the same files.  Those other generators are runs of          *)
(* `rbln-ctk cdi generate` (an operator, or rbln-cdi-refresh.service),     *)
(* which take no lock against the daemon.                                  *)
(***************************************************************************)
EXTENDS Watcher

CONSTANTS
    Rollback,      \* whether the host may go back to an earlier driver
    EarlyUpgrade   \* whether it may change before the baseline is taken

ASSUME RefreshAssumption ==
    /\ Rollback \in BOOLEAN
    /\ EarlyUpgrade \in BOOLEAN

vars == <<cdiVars, watchVars>>

TypeOK == CdiTypeOK /\ WatcherTypeOK

-----------------------------------------------------------------------------

\* One library file is replaced (or, with Rollback, removed or downgraded).
HostChange(l, v) ==
    /\ v # host[l]
    /\ Rollback \/ v > host[l]
    /\ EarlyUpgrade \/ wpc \notin {"off", "start", "baseline"}
    /\ host' = [host EXCEPT ![l] = v]
    /\ UNCHANGED <<rdsDev, fileVars, gstage, scanVars, faults, watchVars>>

Cancel ==
    /\ ~ctxDone
    /\ ctxDone' = TRUE
    /\ UNCHANGED <<cdiVars, wpc, last, prev, lastErr, check>>

OtherGenerator == Generator \ {Self}

\* `rbln-ctk cdi generate` starts.
OtherBegin(g) ==
    /\ BeginGenerate(g)
    /\ UNCHANGED <<hostVars, fileVars, faults, watchVars>>

OtherStep(g) ==
    /\ GenerateStep(g)
    /\ UNCHANGED watchVars

OtherEnd(g) ==
    /\ gstage[g] \in {"ok", "failed"}
    /\ SetStage(g, "idle")
    /\ UNCHANGED <<hostVars, fileVars, scanVars, faults, watchVars>>

\* The daemon's setup has written the spec of the installed driver, and the
\* watcher goroutine has just been started.
Init ==
    /\ host = [l \in Lib |-> 1]
    /\ rdsDev \in BOOLEAN
    /\ npu = host
    /\ rds \in {rdsDev, TRUE}    \* pruning a stale file may have failed
    /\ gstage = [g \in Generator |-> "idle"]
    /\ found = [g \in Generator |-> EmptyMap]
    /\ todo = [g \in Generator |-> {}]
    /\ faults = 0
    /\ wpc = "start"
    /\ ctxDone = FALSE
    /\ last = EmptyMap
    /\ prev = EmptyMap
    /\ lastErr = FALSE
    /\ check = "none"

\* The watcher has returned and nothing else runs.
Finished ==
    /\ wpc = "done"
    /\ UNCHANGED vars

Next ==
    \/ WatcherStep
    \/ \E l \in Lib, v \in 0..MaxVersion : HostChange(l, v)
    \/ Cancel
    \/ \E g \in OtherGenerator : OtherBegin(g) \/ OtherStep(g) \/ OtherEnd(g)
    \/ Finished

Spec == Init /\ [][Next]_vars

\* The Go scheduler runs the goroutine and the ticker keeps firing; whether a
\* fault happens is the environment's choice, but there are finitely many.
FairSpec ==
    /\ Spec
    /\ WF_vars(WatcherStep)
    /\ \A g \in OtherGenerator : WF_vars(OtherStep(g) \/ OtherEnd(g))

\* An operator or the systemd unit keeps re-running `rbln-ctk cdi generate`.
RerunSpec ==
    /\ FairSpec
    /\ \A g \in OtherGenerator : WF_vars(OtherBegin(g))

-----------------------------------------------------------------------------
(* Properties.                                                              *)

\* A watcher that considers itself up to date is: between ticks, when its
\* snapshot (watcher.go, w.last) agrees with the host, rbln.yaml describes
\* the host.  Otherwise no later tick would see a difference and the spec
\* would stay wrong.  It needs the snapshot to be taken before the files are
\* discovered, and the rollback of w.last after a failed callback.
NoMissedUpgrade ==
    wpc = "wait" /\ ~ctxDone /\ last = host => npu = host

\* A refresh that failed is still pending: as long as /ready reports the
\* error between ticks, the snapshot differs from the host, so the next tick
\* re-detects the change ("will retry on next tick").
FailureStaysPending ==
    wpc = "wait" /\ ~ctxDone /\ lastErr => last # host

\* Comment of watcherCheck (daemon.go): "transient errors (disk full,
\* momentary EIO) self-heal without operator intervention".  While the daemon
\* runs, a check that shows "error" eventually shows "ok" again.
ErrorHeals == []~ctxDone => (check = "error" ~> check = "ok")

\* Upgrades reach the spec: when the host stops changing and the daemon keeps
\* running, rbln.yaml ends up describing the installed driver for good.  This
\* is what buildRefreshWatcher (root.go) promises: a callback that "regenerates
\* the CDI spec when a driver upgrade changes the fingerprint".
SpecConverges == []~ctxDone => <>[](npu = host)

\* Cancelling the context ends the goroutine: Daemon.Run may wait for it.
CancelEndsWatcher == ctxDone ~> wpc = "done"

\* RefreshTrigger.Errors (watcher.go): probe errors "do not by themselves
\* trigger a refresh".  A tick that refreshes has seen a library appear or
\* change, or one that is gone from the host.
ErrorsDoNotTrigger ==
    [][wpc = "probe" /\ wpc' = "callback" =>
        \E l \in Lib : found[Self][l] # last[l] /\ (found[Self][l] # 0 \/ host[l] = 0)]_vars

\* Re-running `rbln-ctk cdi generate` repairs the spec whatever upgrades,
\* downgrades and faults did to it, even though it runs unlocked beside the
\* watcher: once the host settles, rbln.yaml is right for good.
HostSettles == <>[][UNCHANGED host]_host
RerunRepairs == HostSettles => <>[](npu = host)
=============================================================================
