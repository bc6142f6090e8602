# Verification of the RBLN container toolkit

TLA+ models of this repository, its concurrent and crash-prone parts and the way from a
host's driver to a running container, model-checked with TLC and, where the statement is
worth having for every instance, proved with TLAPS.
Paths below are relative to the repository.

- [The system](#the-system)
- [Modules](#modules)
- [Runs, bounds and what they show](#runs-bounds-and-what-they-show)
- [Fairness](#fairness)
- [What is proved](#what-is-proved)
- [Where the code and its documentation disagree](#where-the-code-and-its-documentation-disagree)
- [What is not modelled](#what-is-not-modelled)
- [Plan](#plan)
- [Running it](#running-it)

## The system

The toolkit makes RBLN accelerators available to containers through CDI (Container Device
Interface). Four programs change one node:

| program | what it does to the node |
|---|---|
| `rbln-ctk-daemon` (DaemonSet) | takes the PID lock, writes the spec files, configures and perhaps restarts the container runtime, then watches the driver and rewrites the spec files; on SIGTERM removes them |
| `rbln-ctk-daemon runtime X setup` / `cleanup` | one shot, under the same PID lock: configure and restart, or revert and restart |
| `rbln-ctk cdi generate` (also from a systemd unit) | rewrites the spec files, without a lock |
| `rbln-ctk runtime configure` | edits the runtime's configuration, without a lock |

and the container runtime (containerd, CRI-O or Docker) reads what they leave, mounts what
it says and runs a fifth one, `rbln-cdi-hook`, in every container that asks for a device.

### Inventory

For each component: its state, its operations, how it meets the others, what is hard, and
what makes it correct.

**Refresh watcher** (`internal/daemon/watcher.go`, callback in `cmd/rbln-ctk-daemon/root.go`).
State: the last snapshot of library fingerprints, the last error. Operations: baseline,
tick, callback, rollback, status. It runs as a goroutine of the daemon, shares
`regenerateCDISpec` with setup, publishes to the health server and is cancelled by a context.
Hard: the driver changes while it is being scanned; a regeneration fails half-way; the
snapshot a tick keeps is older than what the callback discovers; cancellation between any
two of its steps. Correct if no upgrade is missed, failures are retried, and a cancelled
watcher neither regenerates nor lingers.

**Fingerprint probe and CDI spec generation** (`internal/discover/umdfingerprint.go`,
`internal/cdi/setup/setup.go`, `cmd/rbln-ctk/cdi.go`). A scan, library by library, then
two files: `rbln.yaml`, and `rbln-rds.yaml` on hosts with `/dev/rblnfs*`, pruned on others.
Hard: partial failure between the two files; libraries that cannot be read are left out;
several programs do it at once.

**CDI spec writer** (`internal/cdi/writer.go`). State: a temporary file, the target, a
directory. `Write` is create, write, chmod, fsync, close, rename, fsync of the directory.
Hard: crash and power loss between any two system calls, concurrent writers, readers in the
middle. Correct if the path always names a whole, readable spec, or none.

**Daemon life cycle** (`internal/daemon/daemon.go`, `state.go`, `health.go`,
`cmd/rbln-ctk-daemon/root.go`). State: the state machine, `started` and `ready`, the PID
lock, the signal channels, the goroutines. Operations: acquire, setup, run, graceful
shutdown, the early-signal path, cleanup under a timeout, release. Hard: four goroutines,
time-outs that leave goroutines behind, signals at any moment, SIGKILL. Correct if shutdown
ends, removes the files with nobody writing them and keeps the lock until then, and if
readiness means that the spec is served.

**PID lock** (`internal/daemon/daemon.go`, `internal/installer/lock.go`). State: a file, an
`flock`, a record. Operations: acquire, `--force`, release. Hard: the path and the inode
part company when a release unlinks the file; PIDs are used again; two record formats.
Correct if there is one holder, with its own record, and none that is dead.

**Runtime configuration** (`internal/runtime/*.go`), **runtime restart**
(`internal/restart/*.go`) and **installer** (`internal/installer/setup.go`, `cleanup.go`).
State: the configuration file and its backup, what the running runtime has loaded, the
attempts of the restarter. Operations: `CDIReady`, `Configure`, `Revert`, `Restart`, the
sequences `Setup` and `Cleanup`. Hard: a crash between file and restart; restarts that
happen later or not at all; repeated setups; files of the operator that override the
toolkit's; a file that is truncated before it is written. Correct if the runtime is
restarted at most once per deployment history, serves CDI when a program says so, and the
operator's settings survive.

**Resource discovery** (`internal/discover/*.go`), **CDI generator**
(`internal/cdi/generator.go`) and **topology resolver** (`internal/topology/*.go`). No state
between calls. Operations: find libraries, what they need by way of `DT_NEEDED`, plugins,
RDMA providers, tools and devices; turn them into mounts, links, folders, device nodes and
device entries. Hard: the host changes between the reads and is read once more for the
links; a program in a container sees other paths than the host has, and `/` below a mount;
the driver may be in a container of its own and its files may go to a directory of their own;
NPUs are paired with groups by a snapshot that may be partial. Correct if every path exists on
the host, every program writes the same file, no parser refuses it, and a container gets the
driver of the host, all of it, and the devices that belong together.

**CDI hook** (`cmd/rbln-cdi-hook`, `internal/ldconfig`, `internal/oci`) and its installation
(`cmd/rbln-ctk-daemon/root.go`). State: the hook binary on the host, the container's root
file system and its library cache. Operations: copy the binary, make links, add a conf file,
run ldconfig. Hard: the binary is overwritten in place while it runs; a hook is killed or fails
between links; a restarted container has the links and conf files of earlier starts. Correct
if a container that runs loads what the host loads, and comes up again after any kill.

**Configuration loader, runtime detection, output**: decided once or only printed; see
[What is not modelled](#what-is-not-modelled).

### Interactions

```
             SIGTERM, SIGKILL                      driver upgrades
                    |                                     |
 PidLock  <---  Daemon (main, signal, cleanup) --- Watcher (goroutine)
                    |                                     |
                    +--- regenerateCDISpec / CdiSpec <----+---- rbln-ctk cdi generate
                    |     Discovery -> CdiGenerator
                    |              |
              RuntimeSetup     SpecWriter  --->  rbln.yaml, rbln-rds.yaml
   (configure, restart)            |                      |
                    |              +-- SpecFile           |
                    v                                     v
             container runtime  <-------------------  reads both
                    |
                    +--- mounts, rbln-cdi-hook (Injection) --->  container
```

`CdiSpec` and `Injection` are two views of the same generation. `CdiSpec` has every error
return and every write apart and knows of the content only the versions of the libraries;
`Injection` has the content and what becomes of it, and no failing I/O.

## Modules

| module | models | kind |
|---|---|---|
| `CdiSpec` | the host's libraries, the scan, `GenerateCDISpec` and `emitRDSSpec` for any number of generators | component |
| `Watcher` | `Watcher.Run`, `baseline`, `tick`, the callback | component, extends `CdiSpec` |
| `RefreshSystem` | watcher, host changes, cancellation, other generators | composition |
| `Daemon` | one daemon process after another: main, signal goroutine, cleanup goroutine, watcher, kills | composition, extends `Watcher` |
| `PidLock` | the PID file as a lock, `--force`, daemon and installer | component |
| `SpecFile` | a register that is replaced at once and survives a power loss as an old or the new value | abstract specification |
| `SpecWriter` | `Write` by system calls, readers, crashes, power loss; implements `SpecFile` | component, refinement |
| `RuntimeConfig` | what `CDIReady`, `Configure` and `Revert` do to a file, per runtime | operators |
| `RuntimeSetup` | daemon, setup, cleanup and `runtime configure` on one node, with the restarters | composition |
| `Discovery` | file trees with links, the discoverers and the translation of paths | operators |
| `CdiGenerator` | from discovered resources to the two specifications, and what a runtime makes of them | operators, extends `Discovery` |
| `Injection` | programs that discover and write, the installation of the hook, a container with its two hooks, on a host that changes | composition, extends `CdiGenerator` |
| `WatcherProofs`, `RefreshProofs`, `DaemonProofs`, `PidLockProofs`, `SpecWriterProofs`, `RuntimeSetupProofs`, `DiscoveryProofs`, `InjectionProofs` | theorems | proofs |
| `MCRefresh`, `MCDaemon`, `MCPidLock`, `MCSpecWriter`, `MCRuntime`, `MCInjection` | instances for TLC | model checking |

`PROJECT.json` maps every definition to the lines it stands for. The correspondence in short:

**CdiSpec.** A library has a version (0: not installed); `host` is what is installed, `npu`
the versions `rbln.yaml` mounts, or `NoSpec`; `rds` whether `rbln-rds.yaml` exists. A
fingerprint in the code is a build-id, or size and modification time, and here it is the
version: two different installed files are taken to have different fingerprints. A scan
(`found`, `todo`) looks at one library per step, in any order, because the host may change
in between. `GenerateStep` is `GenerateCDISpec` and `emitRDSSpec`: scan, replace the NPU file,
then replace the RDS file or prune it, each able to fail; a failed prune is only a warning.
This is the generation of the daemon and of `rbln-ctk cdi generate`; the installer has one of
its own (`internal/installer/setup.go:251`), where a failed prune is an error, and in
`RuntimeSetup` that is a single step. Replacing a file is one step because `SpecWriter`
shows that it may be.

**Watcher.** `wpc` is the program counter of the goroutine. `StartBaseline`, `Probe`,
`Baseline` are `baseline`; `Tick`, `Probe`, `TakeSnapshot` and the disjuncts `TickCancelled`,
`TickUnchanged`, `TickChanged` are `tick` up to the callback; `CallbackCancelled`,
`CallbackBegin`, `Regenerate`, `CallbackReturn` are the callback; `FinishTick` keeps the new
snapshot or rolls back to `prev`, and publishes the status. Errors of a probe (`ProbeFails`)
leave a library out of the map, as in the code.

**Daemon.** `mpc`, `spc`, `cpc`, `wpc` are the four goroutines. Main goes through setup (the
shared generation), configuration of the runtime (one step here; `RuntimeSetup` has the
detail), `RunStart` (signals are caught from here on), the announcements, the start of the
watcher, `Arm` (closing `waitingForSignal`), and after `BeginShutdown` through cancel, join
with a time-out, cleanup with a time-out, release, exit. The signal goroutine either hands
the signal to main or, when main does not wait yet, takes the early path and ends the process
with `os.Exit`. `SlowIO` says which I/O may outlast `ShutdownTimeout`. `Vanish` is the end of
a process: memory and lock go, the files stay.

**PidLock.** The path names an inode at most, a descriptor refers to an inode, `flock` is on
the inode, and an unlinked inode lives on while it is open. Releasing is unlock, close,
unlink in this order, as both implementations do. Daemons write JSON, installers a bare
number, which `--force` cannot decode. A PID may be used again, by any program.

**SpecWriter.** Data is written in two halves so that a torn file can be told from a whole
one; what is in the page cache (`data`, `public`, `entry`) is kept apart from what is on the
disk (`onDisk`, `modeDisk`, `entries`). A power loss keeps, for each inode, what was flushed
or any later state, and for the directory any entry since its last fsync. Every step before
the rename can fail and then removes the temporary file.

**RuntimeConfig, RuntimeSetup.** A configuration file is abstracted to what CDI needs: whether
CDI is on, off or not mentioned; whether the directories it lists contain the toolkit's;
whether the list spans several lines; whether the operator's own settings are still there.
A file may be missing or unparsable. A CRI-O node has files sorted below and above the
toolkit's drop-in. `os.WriteFile` is truncate and then write. The runtime keeps what it has
`loaded` and restarts in its own time after SIGHUP, or at any time for its own reasons.

**Discovery.** A path is a sequence of components, a file tree a function from paths to nodes:
a file with its soname and `DT_NEEDED`, a device, or a link. `Lstat`, `Stat` and `EvalSymlinks`
follow links as the kernel and `filepath` do, with ".." and absolute targets. What the code
reads off the letters of a name (patterns, `.so` suffixes, device numbers) is a table over the
names of the instance. The configuration record has the three roots (`driverRoot`,
`searchRoot`, `hostRoot`), and `ToHostPath`, `ToSearchRootPath`, `ToDriverRootPath`,
`ToContainerPath` and the tools' variants translate between them as the functions of these
names do. `NeededByLibrary` is the breadth-first queue of the ELF resolver, `FirstOf` the
code's `seen` maps.

**CdiGenerator.** The edits of a specification are sequences of mounts and links, a set of
folders (the arguments of the ldcache hook) and a sequence of device nodes, in the code's
order, since the first mount per container path wins. Device entries are `<<kind, index>>`.
`BuildCommonEdits` takes the tree as an argument of its own: `computeSymlinks` reads the host
again. `Accepted` and `EditsFor` are the parser and the injection of the runtimes' CDI
library, as the comments of `generator.go` describe them.

**Injection.** A site is a deployment: where the driver is installed, whether libraries go to
a directory of their own, whether NPUs are left to a device plugin, and which program runs.
`ReadRBLN`, `ReadDependencies`, `ReadOthers` and `WriteSpecs` are `DiscoverResources`,
`Generate` and the two writes, each on the host of its moment (`gen[g].from` remembers
whether all of them saw one). `TruncateHook` and `CopyHook` are `installHookBinary`, which the
kernel refuses while the hook executes, and a hook that is not whole cannot be executed.
`StartContainer` mounts through the container's own links; `CreateSymlinks`, `WriteConf` and
`RunLdconfig` are the hooks, and `KillHook` ends them after any link. `root` and `conf` are
the container's files and stay over its restarts. What a container loads under a name is what
ldconfig finds, first in the directories of the conf files.

## Runs, bounds and what they show

Passing runs finish without an error and report these numbers of distinct states.

| run | instance | states | properties |
|---|---|---|---|
| `refresh_upgrades` | 2 libraries, versions 1..3, 2 faults of the file operations, fair | 57 469 | `NoMissedUpgrade`, `FailureStaysPending`, `SpecConverges`, `ErrorHeals`, `CancelEndsWatcher` |
| `refresh_rerun` | 1 library, versions 1..2, up- and downgrades, the watcher and a CLI, 1 fault of any kind | 213 066 | `RerunRepairs` |
| `daemon_safety` | 2 processes, each with or without cleanup, 1 library, 2 versions, 1 fault, a probe that may hang | 89 119 | `CleanupExclusive`, `GracefulExitRemovesSpecs`, `LockCoversFileAccess`, `ReadyMeansServing`, `ReadySpecIsFresh`, `NoCleanupKeepsSpec` |
| `daemon_stop` | 1 process, any fault, every I/O may hang, fair | 66 635 | `SignalStops` |
| `pidlock_lock` | 2 PIDs, 3 inodes | 169 810 | `ExclusiveUnlessOrphaned`, `RecordIntact`, `NoStaleLock` |
| `specwriter_replace` | 2 writers, 1 reader, 2 values, 3 inodes, 1 crash or power loss | 204 111 | `PublishedIsDurable`, `NoLitter`, `ImplementsSpecFile` |
| `runtime_faults` | every program, every kind of node and initial file, 3 faults | 693 480 | `RestartOnce`, `SetupServes` |
| `runtime_reliable` | 2 processes; daemon, setup, cleanup; every kind of node; 2 faults, of version detection, the readiness test or a removal; fair | 490 257 | `DaemonServes`, `SettingsKept`, `CleanupReverts`, `ProgramsEnd` |
| `injection_complete` | 6 sites; up to 3 file operations of an upgrade, 1 change of the devices, 1 kill | 20 845 | `RunningIsComplete`, `NeverTheImages`, `HostPathsExist`, `SpecAccepted`, `ProvidersWin`, `NpuGetsItsGroup`, `RdsIsOptIn`, `ProgramsAgree` |
| `injection_runs` | 1 site, 1 kill, fair | 1 454 | `ContainerRuns` |

Every module has one type invariant, checked in the run of that module.

**What they show.**

- `NoMissedUpgrade`: a watcher that waits with a snapshot equal to the host and no error
  has written that host to `rbln.yaml`. The interesting case is an upgrade between the probe
  and the discovery, or inside either: the snapshot may be older than the spec, never newer.
  The mutant that takes a fresh snapshot after the callback loses this.
- `FailureStaysPending`: after a failed regeneration the snapshot differs from the host, so
  the next tick tries again, whichever file had been replaced.
- `SpecConverges`, `ErrorHeals`, `CancelEndsWatcher`: the liveness of the same, for upgrades
  that come after the baseline.
- `RerunRepairs`: `cdi generate` beside the watcher, unlocked, may write an older scan last;
  if it is run again and the host settles, the spec is right in the end.
- `CleanupExclusive`: the wait for the watcher is bounded, and a goroutine stuck in a probe
  outlives it; it finds the context cancelled and never regenerates during the cleanup.
- `LockCoversFileAccess`: no leaked goroutine changes a file after the lock is released.
- `GracefulExitRemovesSpecs`, `NoCleanupKeepsSpec`: what a process leaves, with and without
  `--no-cleanup-on-exit`; the flag is chosen for each process, so a redeployment may change it.
- `ReadyMeansServing`, `ReadySpecIsFresh`: `/ready` answers 200 only while the files are there,
  and never with the files a killed process left.
- `ExclusiveUnlessOrphaned`: two processes hold the lock together only after a release has
  unlinked a file somebody else had open. `MCPidLock_release_race.cfg` shows that they then do.
- `PublishedIsDurable`, `ImplementsSpecFile`: what the path names, now or after a power loss,
  is a whole and world-readable spec; readers, writers and crashes see a register.
- `NoLitter`: only a crash leaves a temporary file.
- `RestartOnce`: daemons restart the runtime at most once between two runs of another
  program, through redeployments, kills, failing writes and failing restarts. Two provisos are
  in the instance and the README of the repository does not state them: no file sorted after
  the drop-in takes CRI-O's directories back, and the readiness test itself does not fail (an
  error there makes the daemon configure and restart again).
- `DaemonServes`: while nothing but detection, the readiness test and a removal fails, a daemon past its
  setup has a runtime that has loaded CDI or is about to.
- `SetupServes`: the same of a setup that reports success, whatever has failed or been killed in
  it or before it; a restart that was tried three times in vain is not reported as done.
- `SettingsKept`, `CleanupReverts`: no sequence of programs loses the operator's settings from
  the file or its backup, and cleanup after one `Configure` restores the file. It takes the PID
  lock, which the mutant of `SettingsKept` drops, and writes that are neither cut short by a kill
  nor fail. Removals do fail in the run; that failing restarts and generations do no harm either is
  for the theorems.
- `RunningIsComplete`: a container on a specification of the host as it is loads, under every
  name the driver needs, the file the host's linker would find. The reference (`HostLibrary`,
  `Closure`) is a declarative one: search order and the least set closed under `DT_NEEDED`.
  The instance has a dependency of a dependency in another directory, a cycle, an image with
  a library of its own under the driver's name and with a link on the way to where the toolkit
  puts its libraries, and roots that are mounted elsewhere. Its
  proviso, one version of a library per directory, is not kept by the code
  (`MCInjection_versions.cfg`).
- `NeverTheImages`: whatever a torn scan put together, a container never ends up with the
  driver its image was built with.
- `HostPathsExist`, `ProgramsAgree`: a daemon that sees the host below `/host`, with the driver
  in a container of its own, names the same files as a CLI on the host.
- `SpecAccepted`, `RdsIsOptIn`: no entry is empty on any path of the daemon and the CLI, and
  RDS devices come in their own file, on Kubernetes too.
- `NpuGetsItsGroup`: with a resolver that was cut short, or groups that changed, a container has
  the group of its NPU as `/dev/rsd0` or none.
- `ProvidersWin`: the host's RDMA provider hides the plugin of the same name, and plugins lie
  where libibverbs looks.
- `ContainerRuns`: a torn hook binary is repaired by the next daemon, and a root that was linked
  half-way does not keep the container from starting.

**Why the bounds are enough.** Two libraries are the least for a scan that sees one before
and one after an upgrade, and two upgrades of each allow a change before, inside and after
one scan. Two daemon processes are the least for files, lock and PID file to be inherited.
With two PIDs and three inodes both processes can sit on different unlinked inodes while the
path names a third. Two writers and a reader on three inodes let the file and both temporary
files exist together with one the reader still has open. Three faults exhaust the retries of
a restart (`MaxRetries = 3`, as in the code) or hit three successive programs. An upgrade of
three file operations (new files, the link, the old file) can fall between any two of the four
reads; one change of the devices adds an RDS device and moves an NPU to another group; the six
sites have every value of driver root, container path, device policy and generating program,
and give each the kinds of change its properties are about.
`MaxLinks` is 4, where the longest chain of the instances has 3 links. Bounds are
`MaxVersion`, `MaxFaults`, `MaxBoots`, `MaxCrashes` and a site's `upgrades`, `plugs` and
`kills`; they appear only in guards. `restarts` and `touched` count to two and stay there,
because the properties tell apart no more.

Deadlock is checked in every run. Where the system may stop (no process is started any more,
the watcher is done) the model says so with the explicit action `Finished`.

Two more runs are counterexamples; see [below](#where-the-code-and-its-documentation-disagree).

## Fairness

- `RefreshSystem!FairSpec`: weak fairness of the watcher's steps. A goroutine that is
  runnable is scheduled, the ticker fires, and a regeneration ends (it takes no context and
  has no other way to end). Nothing is assumed of the host, of faults or of cancellation.
  `RerunSpec` also assumes that the CLI is run again and again, strongly so for its success,
  which is what the property is about.
- `Daemon!FairSpec`: weak fairness of main, of the signal goroutine and of the watcher outside
  I/O. Timers fire, so `WatcherOverdue` and `CleanupOver` end the waits. Nothing is assumed of
  a probe, a regeneration or a removal: `SignalStops` holds although none of them returns.
- `RuntimeSetup!FairSpec`: weak fairness of each program, and a runtime that was told to
  restart does.
- `Injection!FairSpec`: a daemon that died is started again by its supervisor and gets through
  the installation of the hook, and the runtime goes on with a container, trying again one that
  failed. Nothing is assumed of generation: `ContainerRuns` starts from a specification that is
  of the host and stays so, which is what `SpecConverges` is about.
- `PidLock` and `SpecWriter` have no fairness; all their properties are safety.

## What is proved

All theorems hold for every value of the constants that satisfies the modules' `ASSUME`s,
and are checked by TLAPS to the last leaf.

| theorem | assumes | states |
|---|---|---|
| `PidLockProofs!TypeCorrect`, `RecordsStay`, `LocksAreLive` | - | `TypeOK`, `RecordIntact`, `NoStaleLock` |
| `PidLockProofs!ExclusiveUntilOrphaned` | - | `ExclusiveUnlessOrphaned` |
| `SpecWriterProofs!TypeCorrect`, `Durable`, `NothingIsLeft` | - | `TypeOK`, `PublishedIsDurable`, `NoLitter` |
| `SpecWriterProofs!Refinement` | - | `SpecWriter` implements `SpecFile` |
| `WatcherProofs!VersionsDifferIsInequality` | finite set of libraries | `versionsDiffer(a, b) <=> a # b` |
| `RefreshProofs!TypeCorrect` | - | `TypeOK` |
| `RefreshProofs!UpgradesAreNotMissed`, `FailuresStayPending` | `Quiet` | `NoMissedUpgrade`, `FailureStaysPending` |
| `DaemonProofs!TypeCorrect`, `FileIsKept` | - | `TypeOK`, `NoCleanupKeepsSpec` |
| `DaemonProofs!CleanupIsExclusive` | `RegenBounded` | `CleanupExclusive` |
| `DaemonProofs!LockCovers` | `RegenBounded`, `CleanupBounded` | `LockCoversFileAccess` |
| `DaemonProofs!GracefulRemoves` | both, and `RemovalWorks` | `GracefulExitRemovesSpecs` |
| `DaemonProofs!ReadyServes` | - | `ReadyMeansServing` |
| `DaemonProofs!ReadyIsFresh` | `ScanReliable` | `ReadySpecIsFresh` |
| `RuntimeSetupProofs!TypeCorrect` | - | `TypeOK` |
| `RuntimeSetupProofs!RestartedOnce` | `Undisturbed` | `RestartOnce` |
| `RuntimeSetupProofs!SuccessServes` | `Unshared`, `DockerKeeps` | `SetupServes` |
| `RuntimeSetupProofs!DeployedServes` | `Unshared`, `DockerKeeps`, `Reliable` | `DaemonServes` |
| `RuntimeSetupProofs!OwnSettingsKept` | `Unshared`, `Careful` | `SettingsKept` |
| `RuntimeSetupProofs!CleanupUndoes` | `Unshared`, `Uninterrupted` | `CleanupReverts` |
| `InjectionProofs!TypeCorrect` | - | `TypeOK` |
| `InjectionProofs!OwnGroup` | - | `NpuGetsItsGroup` |
| `InjectionProofs!RdsOptIn` | - | `RdsIsOptIn` |
| `InjectionProofs!NeverRefused` | `NoInstaller`, `DriverInstalled` | `SpecAccepted` |
| `InjectionProofs!HostPathsThere` | `NoInstaller`, `Orderly` | `HostPathsExist` |
| `InjectionProofs!ProgramsDoAgree` | `NoInstaller`, `Orderly` | `ProgramsAgree` |

**PID lock.** The invariant ties the kernel's record to the processes: an inode's owner is
alive, has it open and is between flock and unlock, and conversely. A record can then only be
overwritten by the owner. For exclusion one more fact is needed: until a file is orphaned,
every open descriptor is for the path's inode. Two holders then own the same inode.

**Spec writer.** The invariant says what a writer has achieved at each program counter (whole
in the cache, readable, on the disk), that temporary inodes are private to their writer, and
that every inode any directory state may name is whole, readable and flushed. The refinement
maps the register to what the path's inode contains and the survivors of a power loss to what
the directory entries on the disk name. Only the rename changes the register. `NoLitter` is
inductive next to it.

**Watcher.** Under `Quiet` (upgrades only, no other generator, no upgrade before the
baseline, a scan that sees every library) versions only grow, so snapshots are ordered:
`last` or `prev` <= what is being found <= `host`, and after a regeneration the snapshot <=
`npu` <= `host`. A snapshot equal to the host therefore squeezes the spec. The comparison in
the code (`len` and a lookup for each key of one map) is inequality, which is a lemma about
cardinalities.

**Daemon.** The phase invariant says, for each position of main, where the other goroutines
may be; in particular that after the join the context is cancelled and the watcher is not in a
regeneration. `RegenBounded` is needed there: a regeneration that outlasts `ShutdownTimeout`
is not joined, and then it does overlap the cleanup. The code gives no bound of its own.
Readiness needs no bound: `ReadyInv` follows one generation through its scan (every library
already scanned is at least as new as at the start of the process), from there into the NPU
file, and through the rest of setup. After that the watcher only replaces the files, and
whoever removes one runs after `ready` has been withdrawn or on the early path.
`ScanReliable` (no scan misses a library) is needed only for freshness.

**Runtime setup.** The five theorems after type correctness rest on `Base`: the lock admits one program at a time, which program
can be where, and on CRI-O nothing overrides the drop-in. A daemon only restarts a runtime it has configured, and what Configure
writes is `Good`: `GoodIsReady` says that `CDIReady` then answers yes for every version it may
detect. The invariant says that a daemon which is still editing has counted no restart, that it
comes to the restart with a good configuration, and that after a counted restart the
configuration stays good and only daemons run. `Undisturbed` names what the code does not
guarantee: `CDIReady` reports no error for a file that parses (an error is logged and leads to
Configure and another restart), and `Unshared`: no `runtime configure` runs next to another
program (it takes no lock), and on CRI-O no file that is read after the drop-in sets the directories again
(`MCRuntime_overridden` is the counterexample without that). The number of processes, the
faults and kills, the initial files and the number of deployments are arbitrary.

What the programs leave behind has an invariant for each question. A setup past its edit has
left a good configuration, and only a setup whose restart was asked for reports success: that
needs nothing of the faults (`DockerKeeps` says that Docker's file names no other directories,
which the toolkit does not edit). For the operator's settings, whatever is about to be written
is whole, and so are the file and the backup except between a truncation and its write; there
a failing write or a kill does lose them, hence `Uninterrupted`. `Careful` adds that a backup
which was there before has the settings too. For the revert, the backup is the file as it was
before a single Configure, unless Configure has begun to replace it. A running daemon finds the
runtime in step with its files only if every program that edited them came to its restart and
the restart worked: `Reliable` lists what that takes, and `runtime_skipped_restart` is the
counterexample without it. It also asks for files that parse and keep parsing, which the run
does not: it starts from broken ones as well.

**Injection.** `DiscoveryProofs` has what the operators of `Discovery` and `CdiGenerator`
return, for every tree of files: which elements a sequence has after it was flattened, filtered
or cut to its first of each key (what Go's `seen` maps do), that paths stay paths when roots are
exchanged and links followed, and what the device entries made of any list of devices are. The
operators fold and recurse through recursive functions; a theorem about one is an induction over a
set of numbers, from the library's well-founded induction on `Nat`, with the partial results of the
recursion as the set. `InjectionProofs` has the composition. Its invariant `IInv` follows a device
from the scan to the container: what a program has found is the host's device nodes at their
own paths (`GenOK`), an entry of the written file has the NPU it is named for and, by the
resolver's grouping of the one host it was read from, only that NPU's group (`SpecOK`), the RDS
file has the RDS devices of its host and no others (`RdsOK`), and a container keeps what its
entry said when it was started, whatever has been written since (`CtrOK`). That a scan saw one
host is tracked by `from`, which is why `NpuGetsItsGroup` needs no assumption on how the host
changes during a scan. `RootOK` says that the container's files are a tree under any sequence of
links and mounts. What a program sees below its mount is related to the host by `ViewLinks` and
`ViewElements`: a path has the same links on its way in both.
For `SpecAccepted` a scan must also promise, from the step that reads them to the write,
that there is something to put into an entry (`AInv`): a device, or on Kubernetes, where the device
plugin hands out the devices, a library. `DriverInstalled` says that the host has one; without
it a daemon on a node without a driver writes a file that is refused as a whole, as `generator.go`
says. `NoInstaller` leaves out the generation of the installer, which does not have the property
(`injection_setup`).
For `HostPathsExist` everything a scan has found is on the host it was found on, if that was one
host (`EInv`). The work is in `DiscoveryProofs`: what a program sees through its mount and the
driver's root is the host's tree moved (`IsView`), a walk along links leads to the same file in
both (`Sees`), and `ToHostPath`, `ToSearchRootPath` and `ToDriverRootPath`, which cut prefixes off
paths, undo what put them there. `DependenciesThere` carries that through the visits of the
dependency resolver, which goes from one root's paths to the other's and back. `Orderly` says
where cutting prefixes is sound: names of files and directories are not `..`; links are relative
and lead to nowhere outside the driver's root (to a file or, as `/lib64` to `/usr/lib64`, to a
directory), and the way to the driver's root has none; no path of the tree has a link on its way,
which is how a tree of files is written down; libraries need files by known names; no plugin and
no device is a dangling link; and below the driver's root is nothing whose path starts like the
driver's root or the mount. An absolute link is what the daemon does follow to nowhere
(`MCInjection_absolute`).
For `ProgramsAgree` it is not enough that what is found is there: both programs have to find the
same, in the same order, and make the same edits of it. `PInv` says so for each step of a scan: its
libraries, then with what they need, then the plugins, providers and tools, are those of one scan
by rbln-ctk of the host the steps have read, and a written file has that scan's common edits. The
section *All programs find the same* of `DiscoveryProofs` shows it for one operator after the
other. Each is first stated for a tree and the same tree moved below a root (the `Moved` lemmas: what
is found is moved with it, as a sequence), then for two programs that both see the host
(`BothSee`), whose host and container paths come out equal since the root is cut off again.
Dependencies are the long part: visits and rounds are recursive functions, so the induction
has as its set the numbers for which both programs' lists so far are the same. The hypotheses are
those of `HostPathsThere`. On Kubernetes the property says nothing: there the daemon leaves the
devices to the device plugin and folds the common edits into them.
`MCInjection` checks that the sites of the runs satisfy `NoInstaller`, `DriverInstalled` and
`Orderly`, which include a driver in a root of its own seen below `/host`.
The modules' `ASSUME`s say that constants are of their kinds, that "/" and "/dev" of a host
are no links, that its devices are in `/dev` and the file `rblnfs0` is one, and that sonames, also
with the version cut off, are names. `ImageLinksStay` says that a link of the image to a directory
is relative and stays below the image's root: `createSymlinkInContainer` joins the container's
root and the path of a link (`create_symlinks.go:118`) and so resolves it like any path of the
host, which is the same only if no such link leads out of that root. What it does otherwise is not
modelled.

**Only model-checked.** All liveness (`SpecConverges`, `ErrorHeals`, `CancelEndsWatcher`,
`RerunRepairs`, `SignalStops`, `ProgramsEnd`, `ContainerRuns`): fairness and ENABLED are out of the prover's
reach. Of `Injection`, `RunningIsComplete`, `ProvidersWin` and `NeverTheImages`: they compare what
the container's linker finds with what the host's does, through the order in which mounts, hooks
and search directories shadow each other, and hold for hosts of the usual layout only; what such
a layout is would have to be assumed in as many words as the model has.

## Where the code and its documentation disagree

Two of these are runs that TLC refutes:

1. `runtime_skipped_restart` (`cmd/rbln-ctk-daemon/root.go:428`): readiness is judged from the
   file. If the daemon dies between writing it and the restart, the next daemon skips the
   restart and the runtime never loads CDI.
2. `injection_setup` (`internal/installer/setup.go:291`): the installer's own generation discovers
   no devices and does not say that they are disabled, so `all` and `runtime` are empty and the
   common edits are not folded into them; by `generator.go:139` a parser refuses such a file.
   The next generation by a daemon or the CLI replaces it.

The others were met on the way. Each has a property in its module and, outside the list of
runs, a configuration with which TLC finds the counterexample:

| configuration | property | what happens |
|---|---|---|
| `MCDaemon_sigterm` | `SigtermRemovesSpecs` | signals are caught after setup has written the spec and perhaps restarted the runtime (`daemon.go:149`); a SIGTERM before that leaves the files |
| `MCPidLock_release_race` | `MutualExclusion` | release unlocks, closes and then unlinks by name (`installer/lock.go:92`, `daemon.go:421`); a second process locks the file in between, a third creates a new one, and both hold "the" lock |
| `MCRuntime_mounted` | `SetupSucceeds` | `socketUserProvided` is computed after the default was filled in (`installer/setup.go:83`), so with `--host-root-mount` the default socket is looked up in the container's own file system |
| `MCInjection_versions` | `LinksAreTheHosts` | with two versions of a library beside each other both ask for the same links, and the later name wins, whichever the host's link points to (`generator.go:666`) |
| `MCInjection_chain` | `LinksAvoidMounts` | links among the plugins are mounted and linked as well (`generator.go:648` expects none: `RealPath` is never set), so the hook has to replace a mount point and no container starts on that file, unless libraries go to a directory of their own |
| `MCInjection_absolute` | `RunningIsComplete` | an absolute link of the host leads nowhere where the daemon sees it (`elf.go:97`), and the dependency behind it is not mounted |
| `MCRefresh_baseline_gap` | `SpecConverges` | the baseline is probed after setup generated the spec (`watcher.go:156`); an upgrade in between is never regenerated |
| `MCRefresh_sticky_error` | `ErrorHeals` | a tick without a change republishes the old error (`watcher.go:196`); if the driver is rolled back, the check stays at error |
| `MCRefresh_probe_error` | `ErrorsDoNotTrigger` | a library that cannot be fingerprinted looks uninstalled and triggers a refresh, although `watcher.go:45` says errors do not |
| `MCDaemon_early` | `CleanupNeverRaces` | the early-signal path removes the files without stopping the watcher (`daemon.go:163`) |
| `MCPidLock_stale_pid` | `ForceTargetsDaemon` | `--force` sends SIGTERM to whatever program has the recorded PID now (`daemon.go:364`) |
| `MCRuntime_twosetups` | `CleanupAlwaysReverts` | a second setup backs up the configured file over the operator's (`configure.go:166`) |
| `MCRuntime_multiline` | `StaysValid` | revert without a backup drops the first line of a list that spans several (`configure.go:577`) |
| `MCRuntime_overridden` | `RestartOnce` | a file sorted after the drop-in that sets the directories makes every deployment restart CRI-O (`crio_config.go:126`) |
| `MCRuntime_unlocked` | `SettingsKept` | `runtime configure` takes no lock and may back up a file another program has just truncated (`cmd/rbln-ctk/runtime.go:168`) |

## What is not modelled

- **Content of the files**: mount options, SELinux contexts, hook paths, the environment
  variable that is never set, marshalling, the validator, which no program calls.
- **ldd and ld cache** (`ldd.go`, `ldcache.go`, `symlink.go`): not used by the discoverers;
  `paths.go` chooses search directories per distribution, which the instances take as given.
- **The vendor library behind cgo**: a resolver is the part of the grouping it got to know.
- **Runtimes and ldconfig**: external, modelled as far as the hooks and the generator rely on
  them; the OCI state the hooks parse is taken for the container they run for.
- **A specification without libraries** has no update-ldcache hook; the model runs the hook for
  no directories, so such a container needs the hook binary. No instance has one.
- **Remove and symlink of the create-symlinks hook** are one step, the same hook is the only
  writer of that root until the container runs.
- **Failing discovery**: in lenient mode discovery fails only on an ill-formed glob pattern
  (`internal/discover/device.go:49`), which the constant `"discover"` fault of `CdiSpec`
  over-approximates; `Injection` has no failing reads.
- **Runtime detection**: a choice of the node's kind in `RuntimeSetup`.
- **Configuration loader, output, errors, other commands**: no state after start, read-only,
  or formatting.
- **Health handlers**: they only report `started`, `ready` and the check, which are modelled.
- **Dry runs, prompts, logging, version parsing, marshalling**: change no state, or are a value.
- **Cancellation of the daemon's parent context**: `runDaemon` passes `context.Background()`.
- **Clocks**: intervals and time-outs are nondeterministic choices; the models do not say how
  long anything takes, only what may outlast what (`SlowIO`).

## Plan

Done, in this order: `CdiSpec`, `Watcher`, `RefreshSystem`, `Daemon`, `PidLock`, `SpecFile`,
`SpecWriter`, `RuntimeConfig`, `RuntimeSetup`, the proofs, `Discovery`, `CdiGenerator`,
`Injection`.

Next, most important first:

1. Failing reads in `Injection`: a library that cannot be opened, a directory that cannot be
   read, a provider that disappears.
2. `Node`: `Daemon`, `PidLock` and `RuntimeSetup` composed, with an abstract specification of a
   node ("deployed implies served, undeployed implies gone, settings kept") that the
   composition implements.
3. The configuration loader and the detection of the runtime as operators.

## Running it

```
tlc -config MCDaemon_safety.cfg MCDaemon      # any MC module with one of its configurations
tlapm DaemonProofs.tla                        # any *Proofs module
```

`PROJECT.json` lists the runs, the theorems, the map from definitions to source lines, the
hazards of the code with the properties that cover them, and for every property of a passing
run a mutant: a plausible bug (the `Name_Variant` operators in the modules) under which TLC
must find the property violated.
