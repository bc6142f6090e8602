----------------------------- MODULE Injection -----------------------------
(***************************************************************************)
(* From a host to a container: programs discover the host's driver and     *)
(* write the CDI specification files, the container runtime mounts what    *)
(* they say and runs rbln-cdi-hook, and the container is to load the       *)
(* host's libraries.  Composes Discovery and CdiGenerator with the daemon's *)
(* installation of the hook binary (cmd/rbln-ctk-daemon/root.go) and the   *)
(* two hooks (cmd/rbln-cdi-hook, internal/ldconfig).                       *)
(*                                                                         *)
(* The host's files change while all of that runs, one file operation of a *)
(* package manager at a time, and its devices change too.  A regeneration  *)
(* is discovery in four steps and then a write; how files are written      *)
(* (SpecWriter) and when the daemon regenerates (Watcher) is not repeated. *)
(***************************************************************************)
EXTENDS CdiGenerator

CONSTANTS
    Sites,        \* how the toolkit is deployed: [driverRoot, containerPath,
                  \* kubernetes, programs], and the bounds of the instance,
                  \* [upgrades, plugs, kills]: file operations of the package
                  \* manager, changes of the devices, programs and hooks killed
    InstallerMount, \* --host-root-mount of the installer
    Tree(_, _),   \* Tree(s, h): the host's files at a site, by absolute path
    Group(_),     \* Group(h): NPU index -> index of the group it is in
    Image         \* the files of the container's image

Hosts(s) == [files : 0..s.upgrades, devs : 0..s.plugs]

\* On Kubernetes nobody runs rbln-ctk by hand: it knows nothing of the device
\* plugin.
ASSUME InjectionAssumption ==
    /\ InstallerMount \in Path
    /\ \A s \in Sites : /\ s.programs \subseteq {"daemon", "cli", "installer"}
                        /\ {s.upgrades, s.plugs, s.kills} \subseteq Nat
                        /\ {s.driverRoot, s.containerPath} \subseteq Path
                        /\ s.kubernetes \in BOOLEAN
                        /\ s.kubernetes => "cli" \notin s.programs

ASSUME ImageAssumption ==
    /\ Image = [p \in DOMAIN Image |-> Image[p]]
    /\ \A p \in DOMAIN Image : Image[p].kind \in {"file", "link"}

\* createSymlinkInContainer resolves a path below the container's root like any
\* path of the host, where an absolute link leads out of that root: only links
\* to files, which are never on the way, may be absolute.
ASSUME ImageLinksStay ==
    \A p \in DOMAIN Image :
        Image[p].kind = "link" /\ Stat(Image, p) = NoNode => LinkStays(Image[p], Len(p) - 1)

\* A host's "/" and /dev are no links, and the devices are in /dev.
ASSUME HostsAssumption ==
    \A s \in Sites : \A h \in Hosts(s) :
        /\ IsTree(Tree(s, h))
        /\ \A p \in {<<>>, <<"dev">>} \cap DOMAIN Tree(s, h) : Tree(s, h)[p].kind # "link"
        /\ \A p \in DOMAIN Tree(s, h) : Tree(s, h)[p].kind = "dev" => p = <<"dev", Last(p)>>

\* The first device for RDS.
ASSUME RDSAssumption ==
    /\ "rblnfs0" \in ToSet(Names) \cap DOMAIN DeviceClass
    /\ DeviceClass["rblnfs0"] = "rblnfs" /\ DeviceIndex["rblnfs0"] = 0
    /\ \A s \in Sites : \A h \in Hosts(s) : \A p \in DOMAIN Tree(s, h) :
          Last(p) = "rblnfs0" => Tree(s, h)[p].kind = "dev"

VARIABLES
    site,    \* the deployment, fixed
    host,    \* [files, devs]: how many changes the host has seen
    gen,     \* per program: where it is, what it has discovered, from when
    spec,    \* rbln.yaml: its content and the one host it was read from
    rds,     \* rbln-rds.yaml likewise
    hook,    \* /usr/local/bin/rbln-cdi-hook: "absent", "partial" or "whole"
    ctr,     \* the container: its stage, edits, mounts and library cache
    root,    \* the container's own files, kept over restarts
    conf,    \* the directories its /etc/ld.so.conf.d/00-rbln-*.conf name
    kills    \* programs and hooks killed so far

vars == <<site, host, gen, spec, rds, hook, ctr, root, conf, kills>>
hostVars == <<site, host>>
fileVars == <<spec, rds>>
ctrVars == <<ctr, root, conf>>

NeverOne == [files |-> -1, devs |-> -1]
NoFile == [edits |-> NoSpecification, from |-> NeverOne]
HostFiles == Tree(site, host)

-----------------------------------------------------------------------------
(* The programs' configurations and views of the host.                      *)

LibDirs == <<<<"usr", "lib64">>, <<"usr", "lib">>, <<"usr", "local", "lib">>, <<"lib64">>>>
PluginDir == <<"usr", "lib64", "libibverbs">>

ASSUME ConfigNames ==
    {"host", "usr", "lib64", "lib", "local", "bin", "libibverbs", "libbnxt.so", "etc",
     "libibverbs.d", "bnxt.driver", "rbln-smi"} \subseteq Name

\* Where a program sees the host's "/".
HostMount(g) ==
    CASE g = "daemon" -> <<"host">> [] g = "cli" -> <<>> [] g = "installer" -> InstallerMount

\* Mutant: the mount, without the driver's root.
JoinSearchPrefix_MountOnly(hostRoot, driverRoot) == hostRoot

\* joinSearchPrefix.
JoinSearchPrefix(hostRoot, driverRoot) == hostRoot \o driverRoot

DefaultConfig ==
    [driverRoot |-> <<>>, searchRoot |-> <<>>, hostRoot |-> <<>>, containerPath |-> <<>>,
     libDirs |-> LibDirs, pluginDirs |-> <<PluginDir>>,
     binDirs |-> <<<<"usr", "bin">>, <<"usr", "local", "bin">>>>,
     tools |-> <<"rbln-smi">>,
     providers |-> <<[library |-> <<"usr", "local", "lib", "libbnxt.so">>,
                      driver |-> <<"etc", "libibverbs.d", "bnxt.driver">>]>>,
     providerDir |-> PluginDir,
     devicesDisabled |-> FALSE]

\* regenerateCDISpec's settings.
DaemonConfig ==
    [DefaultConfig EXCEPT
        !.driverRoot = site.driverRoot,
        !.hostRoot = HostMount("daemon"),
        !.searchRoot = IF HostMount("daemon") = <<>> THEN <<>>
                       ELSE JoinSearchPrefix(HostMount("daemon"), site.driverRoot),
        !.containerPath = site.containerPath,
        !.devicesDisabled = site.kubernetes]

\* `rbln-ctk cdi generate` runs on the host.
CliConfig ==
    [DefaultConfig EXCEPT !.driverRoot = site.driverRoot, !.containerPath = site.containerPath]

\* The installer's generateCDISpec takes the host mount for the driver's root.
InstallerConfig ==
    [DefaultConfig EXCEPT !.driverRoot = InstallerMount, !.hostRoot = InstallerMount]

Config(g) ==
    CASE g = "daemon" -> DaemonConfig [] g = "cli" -> CliConfig
      [] g = "installer" -> InstallerConfig

\* The files as the program sees them: the host's, below its mount.
View(g) ==
    LET m == HostMount(g)
    IN  [p \in {m \o q : q \in DOMAIN HostFiles} |-> HostFiles[SubSeq(p, Len(m) + 1, Len(p))]]

\* resolveTopology: a load that fails or is cut short knows fewer NPUs; on
\* Kubernetes and in the installer there is no resolver.
Resolvers(g) ==
    IF g = "installer" \/ Config(g).devicesDisabled THEN {<<>>}
    ELSE {[n \in known |-> Group(host)[n]] : known \in SUBSET DOMAIN Group(host)}

-----------------------------------------------------------------------------
(* The host changes.                                                        *)

\* A package manager creates, links or removes one file.
Upgrade ==
    /\ host.files < site.upgrades
    /\ host' = [host EXCEPT !.files = @ + 1]
    /\ UNCHANGED <<site, gen, fileVars, hook, ctrVars, kills>>

\* A device appears or NPUs are put into other groups.
Replug ==
    /\ host.devs < site.plugs
    /\ host' = [host EXCEPT !.devs = @ + 1]
    /\ UNCHANGED <<site, gen, fileVars, hook, ctrVars, kills>>

-----------------------------------------------------------------------------
(* GenerateCDISpec: the reads in the order of DiscoverResources, each at a  *)
(* host of its own, then computeSymlinks and the writes (CdiSpec has them   *)
(* apart and failing).                                                      *)

NoFound == [libraries |-> <<>>, providers |-> <<>>, tools |-> <<>>, devices |-> <<>>]
Idle == [pc |-> "idle", found |-> NoFound, from |-> NeverOne]

\* The host all reads so far have seen, if it was one.
From(g) == IF gen[g].from = host THEN host ELSE NeverOne

Read(g, pc, found, next) ==
    /\ gen[g].pc = pc
    /\ gen' = [gen EXCEPT ![g] = [pc |-> next, found |-> found, from |-> From(g)]]
    /\ UNCHANGED <<hostVars, fileVars, hook, ctrVars, kills>>

ReadRBLN(g) ==
    /\ gen[g].pc = "generate"
    /\ gen' = [gen EXCEPT ![g] =
                 [pc |-> "dependencies",
                  found |-> [NoFound EXCEPT !.libraries = DiscoverRBLN(Config(g), View(g))],
                  from |-> host]]
    /\ UNCHANGED <<hostVars, fileVars, hook, ctrVars, kills>>

ReadDependencies(g) ==
    Read(g, "dependencies",
         [gen[g].found EXCEPT !.libraries = WithDependencies(Config(g), View(g), @)],
         "others")

\* Plugins, providers, tools and devices; the installer looks for tools only.
ReadOthers(g) ==
    Read(g, "others",
         IF g = "installer" THEN [gen[g].found EXCEPT !.tools = DiscoverTools(Config(g), View(g))]
         ELSE DiscoverOthers(Config(g), View(g), gen[g].found.libraries),
         "write")

\* Generate, GenerateRDS and the two files.
WriteSpecs(g) ==
    /\ gen[g].pc = "write"
    /\ \E group \in Resolvers(g) :
         spec' = [edits |-> Generate(Config(g), View(g), gen[g].found, group), from |-> From(g)]
    /\ rds' = [edits |-> GenerateRDS(Config(g), View(g)), from |-> host]
    /\ gen' = [gen EXCEPT ![g] = Idle]
    /\ UNCHANGED <<hostVars, hook, ctrVars, kills>>

\* The watcher of a daemon, an operator or the systemd unit starts one.
Regenerate(g) ==
    /\ gen[g].pc = "idle"
    /\ gen' = [gen EXCEPT ![g].pc = "generate"]
    /\ UNCHANGED <<hostVars, fileVars, hook, ctrVars, kills>>

-----------------------------------------------------------------------------
(* The daemon's setup and the hook binary.                                  *)

\* The kernel does not let a file be written that is being executed.
HookRuns == ctr.stage \in {"linking", "conf", "ldconfig"}

\* setup: the daemon sees the host below a mount, so it installs the hook.
StartDaemon ==
    /\ gen["daemon"].pc = "down"
    /\ gen' = [gen EXCEPT !["daemon"].pc = "install"]
    /\ UNCHANGED <<hostVars, fileVars, hook, ctrVars, kills>>

\* Mutant: a binary that is there is left alone.
TruncateHook_KeepExisting ==
    /\ gen["daemon"].pc = "install"
    /\ IF HookRuns \/ hook # "absent"
       THEN /\ gen' = [gen EXCEPT !["daemon"].pc = "generate"]
            /\ UNCHANGED hook
       ELSE /\ gen' = [gen EXCEPT !["daemon"].pc = "copy"]
            /\ hook' = "partial"
    /\ UNCHANGED <<hostVars, fileVars, ctrVars, kills>>

\* installHookBinary: O_TRUNC, then the copy; failing is a warning.
TruncateHook ==
    /\ gen["daemon"].pc = "install"
    /\ IF HookRuns
       THEN /\ gen' = [gen EXCEPT !["daemon"].pc = "generate"]
            /\ UNCHANGED hook
       ELSE /\ gen' = [gen EXCEPT !["daemon"].pc = "copy"]
            /\ hook' = "partial"
    /\ UNCHANGED <<hostVars, fileVars, ctrVars, kills>>

CopyHook ==
    /\ gen["daemon"].pc = "copy"
    /\ hook' = "whole"
    /\ gen' = [gen EXCEPT !["daemon"].pc = "generate"]
    /\ UNCHANGED <<hostVars, fileVars, ctrVars, kills>>

\* Mutant: whoever is killed has to be started again.
Kill_AllDown(g) ==
    /\ kills < site.kills
    /\ gen[g].pc \notin {"idle", "down"}
    /\ kills' = kills + 1
    /\ gen' = [gen EXCEPT ![g] = [Idle EXCEPT !.pc = "down"]]
    /\ UNCHANGED <<hostVars, fileVars, hook, ctrVars>>

Kill(g) ==
    /\ kills < site.kills
    /\ gen[g].pc \notin {"idle", "down"}
    /\ kills' = kills + 1
    /\ gen' = [gen EXCEPT ![g] = IF g = "daemon" THEN [Idle EXCEPT !.pc = "down"] ELSE Idle]
    /\ UNCHANGED <<hostVars, fileVars, hook, ctrVars>>

-----------------------------------------------------------------------------
(* The container (external: the runtime; the hooks are the repository's).   *)
(* Its files are its own and, on top of them, what is mounted.              *)

NoMounts == [p \in {} |-> NoNode]
NoLibraries == [n \in {} |-> NoNode]
Files == Over(ctr.mounts, root)

\* Everything the runtime set up for the container goes, its files stay.
Gone == [ctr EXCEPT !.stage = "down", !.edits = NoEdits, !.from = NeverOne,
                    !.mounts = NoMounts, !.libraries = NoLibraries]

OnHost(p) == Stat(HostFiles, p) # NoNode
Sources(edits) == {m.src : m \in ToSet(edits.mounts) \cup ToSet(edits.nodes)}

\* The runtime reads the specification and mounts what it says, if all of it
\* is there; else the container fails, and may be tried again.  A mount
\* follows the container's links, and leaves an empty file where none was.
Mounted(mounts) ==
    LET at(m) == EvalSymlinks(root, m.dst)
    IN  [p \in {at(m) : m \in mounts} |-> Stat(HostFiles, (CHOOSE m \in mounts : at(m) = p).src)]

StartContainer ==
    /\ ctr.stage = "down"
    /\ Accepted(spec.edits)
    /\ ctr.want \in DOMAIN spec.edits.devices
    /\ \E edits \in {EditsFor(spec.edits, ctr.want)} :
        /\ \A p \in Sources(edits) : OnHost(p)
        /\ \E mounts \in {Mounted(ToSet(edits.mounts))} :
            /\ ctr' = [ctr EXCEPT !.stage = IF edits.links = <<>> THEN "linked" ELSE "mounted",
                                  !.from = spec.from, !.edits = edits, !.mounts = mounts]
            /\ root' = Over(root, [p \in DOMAIN mounts |-> [kind |-> "empty"]])
    /\ UNCHANGED <<hostVars, gen, fileVars, hook, conf, kills>>

\* A createContainer hook is executed, or cannot be.
ExecHook(stage, next) ==
    /\ ctr.stage = stage
    /\ ctr' = IF hook = "whole" THEN [ctr EXCEPT !.stage = next] ELSE Gone
    /\ UNCHANGED <<hostVars, gen, fileVars, hook, root, conf, kills>>

ExecCreateSymlinks == ExecHook("mounted", "linking")
ExecUpdateLdcache == ExecHook("linked", "conf")

\* createSymlinkInContainer on a container's files: nothing to do, or the link
\* replaces what is there.  That the way stays below the container's root is
\* ImageLinksStay.
Placed(link) == Append(EvalSymlinks(Files, Front(link.at)), Last(link.at))
LinkNode(link) == [kind |-> "link", abs |-> FALSE, to |-> <<link.target>>]

\* Mutant: what has the name already is kept.
CreateSymlink_KeepExisting(files, link) == Over(files, [p \in {Placed(link)} |-> LinkNode(link)])

CreateSymlink(files, link) == Over([p \in {Placed(link)} |-> LinkNode(link)], files)

\* executeCreateSymlinks up to its n-th link.
AfterLinks(n) == Fold(CreateSymlink, root, SubSeq(ctr.edits.links, 1, n))

\* A link cannot replace what something is mounted on.
Busy == {n \in DOMAIN ctr.edits.links : Placed(ctr.edits.links[n]) \in DOMAIN ctr.mounts}

CreateSymlinks ==
    /\ ctr.stage = "linking"
    /\ Busy = {}
    /\ root' = AfterLinks(Len(ctr.edits.links))
    /\ ctr' = [ctr EXCEPT !.stage = "linked"]
    /\ UNCHANGED <<hostVars, gen, fileVars, hook, conf, kills>>

\* The links before the one that fails stay.
CreateSymlinksFails ==
    /\ ctr.stage = "linking"
    /\ Busy # {}
    /\ root' = AfterLinks(Min(Busy) - 1)
    /\ ctr' = Gone
    /\ UNCHANGED <<hostVars, gen, fileVars, hook, conf, kills>>

\* UpdateLDCache: one more file in ld.so.conf.d on every start.
WriteConf ==
    /\ ctr.stage = "conf"
    /\ conf' = conf \cup {ctr.edits.folders}
    /\ ctr' = [ctr EXCEPT !.stage = "ldconfig"]
    /\ UNCHANGED <<hostVars, gen, fileVars, hook, root, kills>>

\* What ldconfig finds under a name in a directory: the entry of that name,
\* else a file with that soname, to which it adds the link.
InDirectory(dir, n) ==
    LET at == Stat(Files, Append(dir, n))
    IN  IF at.kind = "file" THEN {at}
        ELSE {Files[p] : p \in {p \in DOMAIN Files : /\ Front(p) = EvalSymlinks(Files, dir)
                                                     /\ Files[p].kind = "file"
                                                     /\ Files[p].soname = n}}

\* The library cache: the directories of the conf files come first.
FoundIn(dirs) == [n \in ToSet(Names) |-> UNION {InDirectory(d, n) : d \in dirs}]
OwnDirs == {<<"usr", "lib64">>, <<"usr", "lib">>}
Cache(first, own) ==
    [n \in {n \in ToSet(Names) : first[n] \cup own[n] # {}} |->
        CHOOSE f \in (IF first[n] # {} THEN first[n] ELSE own[n]) : TRUE]
LibrariesOf(dirs) == Cache(FoundIn(dirs), FoundIn(OwnDirs))

RunLdconfig ==
    /\ ctr.stage = "ldconfig"
    /\ ctr' = [ctr EXCEPT !.stage = "running", !.libraries = LibrariesOf(UNION conf)]
    /\ UNCHANGED <<hostVars, gen, fileVars, hook, root, conf, kills>>

\* A hook is killed after any of its links.
KillHook ==
    /\ HookRuns
    /\ kills < site.kills
    /\ kills' = kills + 1
    /\ IF ctr.stage = "linking" /\ Busy = {}
       THEN \E n \in 0..Len(ctr.edits.links) : root' = AfterLinks(n)
       ELSE UNCHANGED root
    /\ ctr' = Gone
    /\ UNCHANGED <<hostVars, gen, fileVars, hook, conf>>

StopContainer ==
    /\ ctr.stage = "running"
    /\ ctr' = Gone
    /\ UNCHANGED <<hostVars, gen, fileVars, hook, root, conf, kills>>

-----------------------------------------------------------------------------
\* A pod's devices come from the device plugin, a container asks for an NPU.
Wants(s) == IF s.kubernetes THEN <<"all", 0>> ELSE <<"npu", 1>>

Init ==
    /\ site \in Sites
    /\ host = [files |-> 0, devs |-> 0]
    /\ gen = [g \in site.programs |-> IF g = "daemon" THEN [Idle EXCEPT !.pc = "down"] ELSE Idle]
    /\ spec = NoFile
    /\ rds = NoFile
    /\ hook = IF "daemon" \in site.programs THEN "absent" ELSE "whole"
    /\ ctr = [stage |-> "down", want |-> Wants(site), edits |-> NoEdits, from |-> NeverOne,
              mounts |-> NoMounts, libraries |-> NoLibraries]
    /\ root = Image
    /\ conf = {}
    /\ kills = 0

Generation(g) ==
    ReadRBLN(g) \/ ReadDependencies(g) \/ ReadOthers(g) \/ WriteSpecs(g)

Setup == StartDaemon \/ TruncateHook \/ CopyHook

Start == StartContainer \/ ExecCreateSymlinks \/ ExecUpdateLdcache
         \/ CreateSymlinks \/ CreateSymlinksFails \/ WriteConf \/ RunLdconfig

Next ==
    \/ Upgrade \/ Replug
    \/ \E g \in site.programs : Regenerate(g) \/ Generation(g) \/ Kill(g)
    \/ "daemon" \in site.programs /\ Setup
    \/ Start
    \/ KillHook \/ StopContainer

Spec == Init /\ [][Next]_vars

\* A dead daemon is restarted by its supervisor, and the runtime goes on with
\* a container, retrying one that failed or stopped.
FairSpec ==
    /\ Spec
    /\ WF_vars("daemon" \in site.programs /\ Setup)
    /\ WF_vars(Start)

-----------------------------------------------------------------------------
(* What some theorems of InjectionProofs assume of a set of sites.          *)

\* The installer's GenerateCDISpec knows neither devices nor libraries.
NoInstaller(S) == \A s \in S : "installer" \notin s.programs

\* The driver is installed: a node has a device of its, and where the device
\* plugin hands devices out, one of its libraries in a directory of its own.
HasDevice(tree) ==
    \E n \in ToSet(Names) \cap DOMAIN DeviceClass :
        DeviceClass[n] \in {"rbln", "rsd"} /\ <<"dev", n>> \in DOMAIN tree

HasLibrary(tree, driverRoot) ==
    \E d \in ToSet(LibDirs), n \in ToSet(Names) \cap RblnName :
        /\ LinksOn(tree, driverRoot \o d) = {}
        /\ NodeAt(tree, Append(driverRoot \o d, n)).kind = "file"

DriverInstalled(S) ==
    \A s \in S : \A h \in Hosts(s) :
        IF s.kubernetes THEN HasLibrary(Tree(s, h), s.driverRoot) ELSE HasDevice(Tree(s, h))

\* The host's files are tidy, and what is mounted by its name is no dangling
\* link.
Orderly(S) ==
    /\ \A n \in ToSet(Names) : n # ".."
    /\ \A s \in S : \A h \in Hosts(s) :
        LET tree == Tree(s, h)
            driver == s.driverRoot
            plugins == driver \o PluginDir
        IN  /\ Tidy(tree, driver)
            /\ \A n \in ToSet(Entries(tree, plugins)) \cap SharedObject :
                 Stat(tree, plugins \o <<n>>) # NoNode
            /\ \A n \in ToSet(Names) \cap DOMAIN DeviceClass :
                 <<"dev", n>> \in DOMAIN tree => Stat(tree, <<"dev", n>>) # NoNode
            /\ \A g \in s.programs :
                 /\ driver # <<>> /\ HostMount(g) # <<>> => driver[1] # HostMount(g)[1]
                 /\ \A p \in DOMAIN tree :
                      IsPrefix(driver, p) => Apart(driver, HostMount(g), SubSeq(p, Len(driver) + 1, Len(p)))
                 /\ \A d \in ToSet(LibDirs), n \in ToSet(Names) : Apart(driver, HostMount(g), d \o <<n>>)

-----------------------------------------------------------------------------
(* Properties.                                                              *)

\* Types: the stages, and that the data is what the stages say.
TypeOK ==
    /\ site \in Sites
    /\ host \in Hosts(site)
    /\ \A g \in site.programs :
         gen[g].pc \in {"idle", "generate", "dependencies", "others", "write"}
                      \cup (IF g = "daemon" THEN {"down", "install", "copy"} ELSE {})
    /\ hook \in {"absent", "partial", "whole"}
    /\ ctr.stage \in {"down", "mounted", "linking", "linked", "conf", "ldconfig", "running"}
    /\ \A p \in DOMAIN root : root[p].kind \in {"file", "link", "empty"}
    /\ kills \in 0..site.kills

\* Read from the host as it is now, from the first read to the write.
Fresh(file) == file # NoFile /\ file.from = host

\* What the dynamic linker on the host finds under a name.
HostLibrary(n) ==
    LET dirs == Filter(LibDirs, LAMBDA d :
                  Stat(HostFiles, (site.driverRoot \o d) \o <<n>>).kind = "file")
    IN  IF dirs = <<>> THEN NoNode ELSE Stat(HostFiles, (site.driverRoot \o dirs[1]) \o <<n>>)

\* The driver's libraries, under every name, and what they need in turn: the
\* least set of names that is closed under DT_NEEDED.
DriverNames == {n \in ToSet(Names) : n \in RblnName /\ HostLibrary(n) # NoNode}
Closure ==
    LET needs(S) == UNION {IF HostLibrary(n) = NoNode THEN {} ELSE ToSet(HostLibrary(n).needs) : n \in S}
    IN  Fold(LAMBDA S, i : S \cup needs(S), DriverNames, Names)
Needs == {n \in Closure : HostLibrary(n) # NoNode} \ GlibcName

\* No two versions of a library lie beside each other on the host.
OneVersionEach ==
    \A p, q \in DOMAIN HostFiles :
        /\ p # q /\ Front(p) = Front(q)
        /\ HostFiles[p].kind = "file" /\ HostFiles[q].kind = "file"
        => HostFiles[p].soname # HostFiles[q].soname

\* A container that runs on a specification of the host as it is loads, under
\* every name that is needed, the file the host loads: discovery follows
\* DT_NEEDED through other libraries and directories, roots are exchanged
\* both ways, and the hooks restore the names, on whatever an earlier start
\* or an aborted hook has left in the container.
RunningIsComplete ==
    ctr.stage = "running" /\ ctr.from = host /\ OneVersionEach
    => \A n \in Needs : n \in DOMAIN ctr.libraries /\ ctr.libraries[n] = HostLibrary(n)

\* Whatever the scans behind its specification have seen of an upgrade, a
\* running container loads a driver of the host's under the driver's names,
\* never the one its image came with.
NeverTheImages ==
    ctr.stage = "running" =>
        \A n \in RblnName \cap DOMAIN ctr.libraries : ctr.libraries[n] \notin {Image[p] : p \in DOMAIN Image}

\* Every path a specification of the host as it is names exists on the host,
\* whatever mount it was discovered through.
HostPathsExist ==
    Fresh(spec) =>
        \A q \in DOMAIN spec.edits.devices :
            \A p \in Sources(EditsFor(spec.edits, q)) : OnHost(p)

\* generator.go: a specification with an empty device is refused as a whole,
\* and only the Kubernetes path has one before the fold.
SpecAccepted == Accepted(spec.edits) /\ Accepted(rds.edits)

\* Plugins are found where libibverbs looks for them, and the provider the
\* host installs wins over the plugin of the same name.
ProvidersWin ==
    ctr.stage = "running" /\ ctr.from = host =>
        \A n \in SharedObject :
            LET provider == <<"usr", "local", "lib", n>>
                driver == <<"etc", "libibverbs.d", "bnxt.driver">>
                plugin == (site.driverRoot \o PluginDir) \o <<n>>
                chosen == IF n = "libbnxt.so" /\ OnHost(provider) /\ OnHost(driver)
                          THEN provider ELSE plugin
                at == IF site.containerPath # <<>> /\ chosen = plugin
                      THEN site.containerPath \o <<"libibverbs", n>> ELSE Append(PluginDir, n)
            IN  OnHost(chosen) => Stat(Files, at) = Stat(HostFiles, chosen)

\* A container with one NPU sees that NPU and, as the /dev/rsd0 the UMD
\* opens, no group but its own; a pod's devices are the device plugin's.
NpuGetsItsGroup ==
    ctr.stage = "running" /\ ctr.from = host =>
        LET nodes == ToSet(ctr.edits.nodes)
            group == Group(host)[ctr.want[2]]
        IN  IF site.kubernetes THEN nodes = {}
            ELSE ctr.want[1] = "npu" =>
                 /\ \E m \in nodes : m.dst = m.src /\ IndexOf([cpath |-> m.src]) = ctr.want[2]
                                      /\ ClassOf([cpath |-> m.src]) = "rbln"
                 /\ \A m \in nodes : ClassOf([cpath |-> m.dst]) = "rsd" =>
                       m.dst = <<"dev", "rsd0">> /\ IndexOf([cpath |-> m.src]) = group

\* The RDS devices are in their own file alone, on Kubernetes too.
RdsIsOptIn ==
    LET classes(edits) == {ClassOf([cpath |-> m.src]) : m \in ToSet(edits.nodes)}
    IN  /\ \A q \in DOMAIN spec.edits.devices : "rblnfs" \notin classes(spec.edits.devices[q])
        /\ Fresh(rds) /\ (\E p \in DOMAIN HostFiles : Last(p) = "rblnfs0")
           => /\ <<"rblnfs", 0>> \in DOMAIN rds.edits.devices
              /\ \A q \in DOMAIN rds.edits.devices : classes(rds.edits.devices[q]) = {"rblnfs"}

\* Whoever writes the file, from a container or on the host, writes the same
\* one (but for what the resolver knew and who owns the devices).
ProgramsAgree ==
    Fresh(spec) /\ ~site.kubernetes =>
        spec.edits.common = BuildCommonEdits(CliConfig, HostFiles, DiscoverResources(CliConfig, HostFiles))

\* RunningIsComplete without the proviso, which the code does not keep: of two
\* versions beside each other the one with the later name gets the links.
LinksAreTheHosts ==
    ctr.stage = "running" /\ ctr.from = host
    => \A n \in Needs : n \in DOMAIN ctr.libraries /\ ctr.libraries[n] = HostLibrary(n)

\* The hook never meets a mount where it is to put a link: "there won't be any"
\* links among the libraries (computeSymlinks).  It does where a plugin's link
\* is discovered, and no container starts on that specification.
LinksAvoidMounts == ctr.stage = "linking" /\ ctr.from = host => Busy = {}

\* As long as the specification is of the host as it is, a container comes
\* up again and again, whatever was killed at whatever step.
ContainerRuns == <>[]Fresh(spec) => []<>(ctr.stage = "running")
=============================================================================
