-------------------------- MODULE InjectionProofs --------------------------
(***************************************************************************)
(* Proofs about Injection.                                                  *)
(***************************************************************************)
EXTENDS Injection, DiscoveryProofs

-----------------------------------------------------------------------------
(* The programs' configurations and what they see of the host.              *)

LEMMA SiteType ==
    ASSUME site \in Sites
    PROVE  /\ InstallerMount \in Path
           /\ site.programs \subseteq {"daemon", "cli", "installer"}
           /\ site.upgrades \in Nat /\ site.plugs \in Nat /\ site.kills \in Nat
           /\ site.driverRoot \in Path /\ site.containerPath \in Path
           /\ site.kubernetes \in BOOLEAN
           /\ site.kubernetes => "cli" \notin site.programs
BY InjectionAssumption

LEMMA DefaultConfigType == IsConfig(DefaultConfig)
<1>1. /\ <<>> \in Path /\ PluginDir \in Path
      /\ <<"usr", "lib64">> \in Path /\ <<"usr", "lib">> \in Path
      /\ <<"usr", "local", "lib">> \in Path /\ <<"lib64">> \in Path
      /\ <<"usr", "bin">> \in Path /\ <<"usr", "local", "bin">> \in Path
      /\ <<"rbln-smi">> \in Seq(Name)
  BY ConfigNames DEF Path, PluginDir
<1>2. LibDirs \in Seq(Path) /\ <<PluginDir>> \in Seq(Path)
      /\ <<<<"usr", "bin">>, <<"usr", "local", "bin">>>> \in Seq(Path)
  <2> HIDE DEF Path
  <2> QED BY <1>1 DEF LibDirs
<1> QED BY <1>1, <1>2, OneIsSeq DEF DefaultConfig, IsConfig

\* A configuration that differs from the default in its roots.
DefaultButForRoots(c) ==
    /\ c.driverRoot \in Path /\ c.searchRoot \in Path /\ c.hostRoot \in Path /\ c.containerPath \in Path
    /\ c.providerDir = DefaultConfig.providerDir /\ c.libDirs = DefaultConfig.libDirs
    /\ c.pluginDirs = DefaultConfig.pluginDirs /\ c.binDirs = DefaultConfig.binDirs
    /\ c.tools = DefaultConfig.tools /\ c.providers = DefaultConfig.providers

LEMMA RootedConfig ==
    ASSUME NEW c, DefaultButForRoots(c)
    PROVE  IsConfig(c)
BY DefaultConfigType DEF IsConfig, DefaultButForRoots

LEMMA ConfigType ==
    ASSUME site \in Sites, NEW g \in site.programs
    PROVE  /\ IsConfig(Config(g)) /\ Config(g).hostRoot = HostMount(g)
           /\ HostMount(g) \in Path
           /\ Config(g).devicesDisabled \in BOOLEAN
           /\ Config(g).devicesDisabled <=> site.kubernetes /\ g = "daemon"
<1> DEFINE mount == HostMount("daemon")
           prefix == IF mount = <<>> THEN <<>> ELSE JoinSearchPrefix(mount, site.driverRoot)
<1>1. <<>> \in Path /\ mount \in Path /\ InstallerMount \in Path
      /\ site.driverRoot \in Path /\ site.containerPath \in Path
  <2>1. <<"host">> \in Path /\ <<>> \in Path
    BY ConfigNames DEF Path
  <2> QED BY <2>1, SiteType DEF HostMount
<1>2. prefix \in Path
  BY <1>1, PathConcat DEF JoinSearchPrefix
<1>3. CASE g = "daemon"
  <2>1. Config(g) = [DefaultConfig EXCEPT
        !.driverRoot = site.driverRoot,
        !.hostRoot = mount,
        !.searchRoot = prefix,
        !.containerPath = site.containerPath,
        !.devicesDisabled = site.kubernetes]
    BY <1>3 DEF Config, DaemonConfig
  <2> HIDE DEF prefix, mount
  <2>2. DefaultButForRoots(Config(g)) /\ Config(g).hostRoot = mount /\ Config(g).devicesDisabled = site.kubernetes
    BY <1>1, <1>2, <2>1 DEF DefaultButForRoots, DefaultConfig
  <2> QED BY <1>1, <1>3, <2>2, SiteType, RootedConfig DEF mount
<1>4. CASE g = "cli"
  <2>1. Config(g) = CliConfig /\ HostMount(g) = <<>>
    BY <1>4 DEF Config, HostMount
  <2>2. DefaultButForRoots(CliConfig) /\ CliConfig.hostRoot = <<>> /\ CliConfig.devicesDisabled = FALSE
    BY <1>1 DEF DefaultButForRoots, CliConfig, DefaultConfig
  <2> QED BY <1>1, <1>4, <2>1, <2>2, RootedConfig
<1>5. CASE g = "installer"
  <2>1. Config(g) = InstallerConfig /\ HostMount(g) = InstallerMount
    BY <1>5 DEF Config, HostMount
  <2>2. DefaultButForRoots(InstallerConfig) /\ InstallerConfig.hostRoot = InstallerMount
        /\ InstallerConfig.devicesDisabled = FALSE
    BY <1>1 DEF DefaultButForRoots, InstallerConfig, DefaultConfig
  <2> QED BY <1>1, <1>5, <2>1, <2>2, RootedConfig
<1> QED BY <1>3, <1>4, <1>5, SiteType

\* A program sees the host's file q at m \o q, if m is where the host is.
LEMMA ViewElements ==
    ASSUME site \in Sites, host \in Hosts(site), NEW g \in site.programs
    PROVE  /\ IsTree(HostFiles)
           /\ DOMAIN View(g) = {HostMount(g) \o q : q \in DOMAIN HostFiles}
           /\ \A q \in DOMAIN HostFiles : View(g)[HostMount(g) \o q] = HostFiles[q]
<1> DEFINE m == HostMount(g)
<1>1. IsTree(HostFiles)
  BY HostsAssumption DEF HostFiles
<1>2. m \in Path
  BY ConfigType
<1>3. View(g) = [p \in {m \o q : q \in DOMAIN HostFiles} |-> HostFiles[SubSeq(p, Len(m) + 1, Len(p))]]
  BY DEF View
<1> HIDE DEF m
<1>4. ASSUME NEW q \in DOMAIN HostFiles
      PROVE  SubSeq(m \o q, Len(m) + 1, Len(m \o q)) = q
  <2>1. q \in Path
    BY <1>1 DEF IsTree
  <2>2. Len(m \o q) = Len(m) + Len(q)
    BY <1>2, <2>1 DEF Path
  <2> QED BY <1>2, <2>1, <2>2 DEF Path
<1>5. DOMAIN View(g) = {m \o q : q \in DOMAIN HostFiles}
  BY <1>3
<1>6. ASSUME NEW q \in DOMAIN HostFiles PROVE View(g)[m \o q] = HostFiles[q]
  <2>1. m \o q \in {m \o r : r \in DOMAIN HostFiles}
    OBVIOUS
  <2>2. View(g)[m \o q] = HostFiles[SubSeq(m \o q, Len(m) + 1, Len(m \o q))]
    BY <1>3, <2>1
  <2> QED BY <2>2, <1>4
<1> QED BY <1>1, <1>5, <1>6 DEF m

LEMMA ViewType ==
    ASSUME site \in Sites, host \in Hosts(site), NEW g \in site.programs
    PROVE  IsTree(View(g))
<1>1. HostMount(g) \in Path
  BY ConfigType
<1>2. ASSUME NEW p \in DOMAIN View(g) PROVE p \in Path /\ IsNode(View(g)[p])
  <2>1. PICK q \in DOMAIN HostFiles : p = HostMount(g) \o q
    BY ViewElements
  <2>2. q \in Path /\ IsNode(HostFiles[q]) /\ View(g)[p] = HostFiles[q]
    BY <2>1, ViewElements DEF IsTree
  <2> QED BY <1>1, <2>1, <2>2, PathConcat
<1> QED BY <1>2 DEF IsTree

-----------------------------------------------------------------------------
(* The inductive invariant.                                                 *)

Once == Hosts(site) \cup {NeverOne}

\* A program's state has what the steps of its scan have put there; the
\* installer looks for no device.
GenOK ==
    /\ gen = [g \in site.programs |-> gen[g]]
    /\ \A g \in site.programs :
         /\ gen[g] = [pc |-> gen[g].pc, found |-> gen[g].found, from |-> gen[g].from]
         /\ IsFound(gen[g].found)
         /\ gen[g].from \in Once
         /\ g = "installer" => gen[g].found.devices = <<>>

\* The device nodes under a name: a pod's are not the toolkit's, and an NPU
\* comes with its own group as the resolver knew it on host h, and no other.
EntryOK(n, nodes, h) ==
    /\ \A m \in ToSet(nodes) : ClassOf([cpath |-> m.src]) # "rblnfs"
    /\ site.kubernetes => nodes = <<>>
    /\ ~site.kubernetes /\ n[1] = "npu" /\ h \in Hosts(site) =>
         /\ \E m \in ToSet(nodes) : /\ m.dst = m.src /\ IndexOf([cpath |-> m.src]) = n[2]
                                    /\ ClassOf([cpath |-> m.src]) = "rbln"
         /\ \A m \in ToSet(nodes) : ClassOf([cpath |-> m.dst]) = "rsd" =>
               m.dst = <<"dev", "rsd0">> /\ IndexOf([cpath |-> m.src]) = Group(h)[n[2]]

SpecOK ==
    /\ spec.from \in Once
    /\ IsSpecification(spec.edits)
    /\ spec.edits.common.nodes = <<>>
    /\ \A n \in DOMAIN spec.edits.devices : EntryOK(n, spec.edits.devices[n].nodes, spec.from)

\* The RDS file has the RDS devices of the host it was read from.
RdsOK ==
    /\ rds.from \in Once
    /\ \A q \in DOMAIN rds.edits.devices :
         {ClassOf([cpath |-> m.src]) : m \in ToSet(rds.edits.devices[q].nodes)} = {"rblnfs"}
    /\ (rds.from \in Hosts(site) /\ \E p \in DOMAIN Tree(site, rds.from) : Last(p) = "rblnfs0")
       => <<"rblnfs", 0>> \in DOMAIN rds.edits.devices

CtrOK ==
    /\ ctr = [stage |-> ctr.stage, want |-> ctr.want, edits |-> ctr.edits, from |-> ctr.from,
              mounts |-> ctr.mounts, libraries |-> ctr.libraries]
    /\ IsEdits(ctr.edits)
    /\ ctr.from \in Once
    /\ ctr.stage # "down" => EntryOK(ctr.want, ctr.edits.nodes, ctr.from)

RootOK == root = [p \in DOMAIN root |-> root[p]]

IInv == TypeOK /\ GenOK /\ SpecOK /\ RdsOK /\ CtrOK /\ RootOK

LEMMA FoundNothing == IsFound(NoFound) /\ NoFound.devices = <<>>
<1>1. /\ NoFound = [libraries |-> NoFound.libraries, providers |-> NoFound.providers,
                     tools |-> NoFound.tools, devices |-> NoFound.devices]
      /\ NoFound.libraries = <<>> /\ NoFound.providers = <<>> /\ NoFound.tools = <<>> /\ NoFound.devices = <<>>
  BY DEF NoFound
<1>2. IsSeq(<<>>) /\ ToSet(<<>>) = {} /\ DOMAIN <<>> = {}
  BY EmptyIsSeq
<1> QED BY <1>1, <1>2 DEF IsFound, IsFiles, IsDevices

LEMMA NoSpecificationType ==
    /\ IsSpecification(NoSpecification) /\ NoSpecification.common.nodes = <<>>
    /\ DOMAIN NoSpecification.devices = {}
<1>1. NoSpecification.common = NoEdits /\ DOMAIN NoSpecification.devices = {}
  BY DEF NoSpecification
<1> QED BY <1>1, NoEditsType DEF IsSpecification, NoEdits

LEMMA NeverIsNoHost == ASSUME site \in Sites PROVE NeverOne \notin Hosts(site)
BY SiteType DEF NeverOne, Hosts

LEMMA InitIInv == Init => IInv
<1> SUFFICES ASSUME Init PROVE IInv
  OBVIOUS
<1>1. site \in Sites
  BY DEF Init
<1>2. Idle.pc = "idle" /\ Idle.found = NoFound /\ Idle.from = NeverOne
      /\ Idle = [pc |-> "idle", found |-> NoFound, from |-> NeverOne]
  BY DEF Idle
<1>3. GenOK
  <2>1. gen = [g \in site.programs |-> IF g = "daemon" THEN [Idle EXCEPT !.pc = "down"] ELSE Idle]
    BY DEF Init
  <2>2. ASSUME NEW g \in site.programs
        PROVE  /\ gen[g] = [pc |-> gen[g].pc, found |-> gen[g].found, from |-> gen[g].from]
               /\ gen[g].found = NoFound /\ gen[g].from = NeverOne
    BY <1>2, <2>1
  <2> QED BY <2>1, <2>2, FoundNothing DEF GenOK, Once
<1>4. host \in Hosts(site)
  BY <1>1, SiteType DEF Init, Hosts
<1>5. TypeOK
  <2>1. \A g \in site.programs : gen[g].pc \in {"idle"} \cup (IF g = "daemon" THEN {"down"} ELSE {})
    BY <1>2 DEF Init
  <2>2. \A p \in DOMAIN root : root[p].kind \in {"file", "link", "empty"}
    BY ImageAssumption DEF Init
  <2>3. kills \in 0..site.kills
    BY <1>1, SiteType DEF Init
  <2>4. ctr.stage = "down" /\ hook \in {"absent", "whole"}
    BY DEF Init
  <2> QED BY <1>1, <1>4, <2>1, <2>2, <2>3, <2>4 DEF TypeOK
<1>6. NoFile.edits = NoSpecification /\ NoFile.from = NeverOne
  BY DEF NoFile
<1>7. SpecOK
  <2>1. spec = NoFile
    BY DEF Init
  <2> QED BY <1>6, <2>1, NoSpecificationType DEF SpecOK, Once
<1>8. RdsOK
  <2>1. rds = NoFile
    BY DEF Init
  <2> QED BY <1>1, <1>6, <2>1, NoSpecificationType, NeverIsNoHost DEF RdsOK, Once
<1>9. CtrOK
  <2>1. ctr = [stage |-> "down", want |-> Wants(site), edits |-> NoEdits, from |-> NeverOne,
              mounts |-> NoMounts, libraries |-> NoLibraries]
    BY DEF Init
  <2> QED BY <2>1, NoEditsType DEF CtrOK, Once
<1>10. RootOK
  BY ImageAssumption DEF Init, RootOK
<1> QED BY <1>3, <1>5, <1>7, <1>8, <1>9, <1>10 DEF IInv

\* What a step leaves alone keeps its part of the invariant.
LEMMA SpecFrame == SpecOK /\ UNCHANGED <<site, spec>> => SpecOK'
BY DEF SpecOK, Once, EntryOK, Hosts

LEMMA RdsFrame == RdsOK /\ UNCHANGED <<site, rds>> => RdsOK'
BY DEF RdsOK, Once, Hosts

LEMMA CtrFrame == CtrOK /\ UNCHANGED <<site, ctr>> => CtrOK'
BY DEF CtrOK, Once, EntryOK, Hosts

LEMMA GenFrame == GenOK /\ UNCHANGED <<site, gen>> => GenOK'
BY DEF GenOK, Once, Hosts

LEMMA RootFrame == RootOK /\ UNCHANGED root => RootOK'
BY DEF RootOK

\* The stages of a program and of the container.
Stages(g) == {"idle", "generate", "dependencies", "others", "write"}
             \cup (IF g = "daemon" THEN {"down", "install", "copy"} ELSE {})

LEMMA TypeFrame ==
    ASSUME TypeOK, UNCHANGED site, host' \in Hosts(site),
           \A g \in site.programs : gen'[g].pc \in Stages(g),
           hook' \in {"absent", "partial", "whole"},
           ctr'.stage \in {"down", "mounted", "linking", "linked", "conf", "ldconfig", "running"},
           \A p \in DOMAIN root' : root'[p].kind \in {"file", "link", "empty"},
           kills' \in 0..site.kills
    PROVE  TypeOK'
BY DEF TypeOK, Stages, Hosts

\* A step of one program.
LEMMA GenStep ==
    ASSUME IInv, UNCHANGED site, NEW g \in site.programs, NEW pc \in Stages(g), NEW found, NEW from \in Once,
           IsFound(found), g = "installer" => found.devices = <<>>,
           gen' = [gen EXCEPT ![g] = [pc |-> pc, found |-> found, from |-> from]]
    PROVE  GenOK' /\ \A h \in site.programs : gen'[h].pc \in Stages(h)
<1>1. gen = [h \in site.programs |-> gen[h]]
  BY DEF IInv, GenOK
<1>2. ASSUME NEW h \in site.programs
      PROVE  gen'[h] = IF h = g THEN [pc |-> pc, found |-> found, from |-> from] ELSE gen[h]
  BY <1>1
<1>3. gen' = [h \in site.programs |-> gen'[h]]
  BY <1>1
<1>4. \A h \in site.programs :
         /\ gen'[h] = [pc |-> gen'[h].pc, found |-> gen'[h].found, from |-> gen'[h].from]
         /\ IsFound(gen'[h].found)
         /\ gen'[h].from \in Once
         /\ h = "installer" => gen'[h].found.devices = <<>>
  BY <1>2 DEF IInv, GenOK
<1>5. \A h \in site.programs : gen'[h].pc \in Stages(h)
  BY <1>2 DEF IInv, TypeOK, Stages
<1> QED BY <1>3, <1>4, <1>5 DEF GenOK, Once, Hosts

LEMMA HostStep ==
    ASSUME IInv, Upgrade \/ Replug
    PROVE  IInv'
<1>1. host \in Hosts(site) /\ site \in Sites
  BY DEF IInv, TypeOK
<1>2. host' \in Hosts(site)
  BY <1>1, SiteType DEF Upgrade, Replug, Hosts
<1>3. UNCHANGED <<site, gen, spec, rds, hook, ctr, root, conf, kills>>
  BY DEF Upgrade, Replug, fileVars, ctrVars
<1>4. TypeOK'
  BY <1>2, <1>3, TypeFrame DEF IInv, TypeOK, Stages
<1> QED BY <1>3, <1>4, SpecFrame, RdsFrame, CtrFrame, GenFrame, RootFrame DEF IInv

\* A step of a program that writes no file.
LEMMA ProgramStep ==
    ASSUME IInv, UNCHANGED <<site, host, spec, rds, ctr, root>>,
           hook' \in {"absent", "partial", "whole"}, kills' \in 0..site.kills,
           NEW g \in site.programs, NEW pc \in Stages(g), NEW found, NEW from \in Once,
           IsFound(found), g = "installer" => found.devices = <<>>,
           gen' = [gen EXCEPT ![g] = [pc |-> pc, found |-> found, from |-> from]]
    PROVE  IInv'
<1>1. GenOK' /\ \A h \in site.programs : gen'[h].pc \in Stages(h)
  BY GenStep
<1>2. TypeOK'
  BY <1>1, TypeFrame DEF IInv, TypeOK
<1> QED BY <1>1, <1>2, SpecFrame, RdsFrame, CtrFrame, RootFrame DEF IInv

LEMMA RegenerateStep ==
    ASSUME IInv, NEW g \in site.programs, Regenerate(g)
    PROVE  IInv'
<1>1. UNCHANGED <<site, host, spec, rds, hook, ctr, root, kills>>
  BY DEF Regenerate, hostVars, fileVars, ctrVars
<1>2. gen' = [gen EXCEPT ![g] = [pc |-> "generate", found |-> gen[g].found, from |-> gen[g].from]]
  <2>1. gen[g] = [pc |-> gen[g].pc, found |-> gen[g].found, from |-> gen[g].from]
    BY DEF IInv, GenOK
  <2>2. [gen[g] EXCEPT !.pc = "generate"] = [pc |-> "generate", found |-> gen[g].found, from |-> gen[g].from]
    BY <2>1
  <2>3. gen' = [gen EXCEPT ![g] = [gen[g] EXCEPT !.pc = "generate"]]
    BY DEF Regenerate
  <2> QED BY <2>2, <2>3
<1>3. IsFound(gen[g].found) /\ gen[g].from \in Once /\ (g = "installer" => gen[g].found.devices = <<>>)
  BY DEF IInv, GenOK
<1>4. hook' \in {"absent", "partial", "whole"} /\ kills' \in 0..site.kills /\ "generate" \in Stages(g)
  BY <1>1 DEF IInv, TypeOK, Stages
<1> QED BY <1>1, <1>2, <1>3, <1>4, ProgramStep

LEMMA KillStep ==
    ASSUME IInv, NEW g \in site.programs, Kill(g)
    PROVE  IInv'
<1> DEFINE pc == IF g = "daemon" THEN "down" ELSE "idle"
<1>1. UNCHANGED <<site, host, spec, rds, hook, ctr, root>>
  BY DEF Kill, hostVars, fileVars, ctrVars
<1>2. gen' = [gen EXCEPT ![g] = [pc |-> pc, found |-> NoFound, from |-> NeverOne]]
  <2>1. [Idle EXCEPT !.pc = "down"] = [pc |-> "down", found |-> NoFound, from |-> NeverOne]
    BY DEF Idle
  <2>2. (IF g = "daemon" THEN [Idle EXCEPT !.pc = "down"] ELSE Idle) = [pc |-> pc, found |-> NoFound, from |-> NeverOne]
    BY <2>1 DEF Idle
  <2> QED BY <2>2 DEF Kill
<1>3. hook' \in {"absent", "partial", "whole"} /\ pc \in Stages(g)
  BY <1>1 DEF IInv, TypeOK, Stages
<1>4. kills' \in 0..site.kills
  <2>1. kills \in 0..site.kills /\ kills < site.kills /\ kills' = kills + 1 /\ site.kills \in Nat
    BY SiteType DEF IInv, TypeOK, Kill
  <2> QED BY <2>1
<1> HIDE DEF pc
<1> QED BY <1>1, <1>2, <1>3, <1>4, FoundNothing, ProgramStep DEF Once

LEMMA SetupStep ==
    ASSUME IInv, "daemon" \in site.programs, Setup
    PROVE  IInv'
<1> DEFINE g == "daemon"
<1>1. UNCHANGED <<site, host, spec, rds, ctr, root, kills>>
  BY DEF Setup, StartDaemon, TruncateHook, CopyHook, hostVars, fileVars, ctrVars
<1>2. PICK pc \in Stages(g) : gen' = [gen EXCEPT !["daemon"].pc = pc]
  BY DEF Setup, StartDaemon, TruncateHook, CopyHook, Stages
<1>3. hook' \in {"absent", "partial", "whole"}
  BY DEF Setup, StartDaemon, TruncateHook, CopyHook, IInv, TypeOK
<1>4. gen' = [gen EXCEPT ![g] = [pc |-> pc, found |-> gen[g].found, from |-> gen[g].from]]
  <2>1. gen[g] = [pc |-> gen[g].pc, found |-> gen[g].found, from |-> gen[g].from]
    BY DEF IInv, GenOK
  <2>2. [gen[g] EXCEPT !.pc = pc] = [pc |-> pc, found |-> gen[g].found, from |-> gen[g].from]
    BY <2>1
  <2>3. gen' = [gen EXCEPT ![g] = [gen[g] EXCEPT !.pc = pc]]
    BY <1>2
  <2> QED BY <2>2, <2>3
<1>5. IsFound(gen[g].found) /\ gen[g].from \in Once /\ g # "installer" /\ g \in site.programs
  BY DEF IInv, GenOK
<1>6. kills' \in 0..site.kills
  BY <1>1 DEF IInv, TypeOK
<1> HIDE DEF g
<1> QED BY <1>1, <1>3, <1>4, <1>5, <1>6, ProgramStep

LEMMA FromType == ASSUME IInv, NEW g \in site.programs PROVE From(g) \in Once
BY DEF IInv, TypeOK, From, Once

LEMMA ReadRBLNStep ==
    ASSUME IInv, NEW g \in site.programs, ReadRBLN(g)
    PROVE  IInv'
<1> DEFINE libs == DiscoverRBLN(Config(g), View(g))
           found == [libraries |-> libs, providers |-> <<>>, tools |-> <<>>, devices |-> <<>>]
<1>1. UNCHANGED <<site, host, spec, rds, hook, ctr, root, kills>>
  BY DEF ReadRBLN, hostVars, fileVars, ctrVars
<1>2. gen' = [gen EXCEPT ![g] = [pc |-> "dependencies", found |-> found, from |-> host]]
  <2>1. [NoFound EXCEPT !.libraries = libs] = found
    BY DEF NoFound
  <2> QED BY <2>1 DEF ReadRBLN
<1>3. IsFiles(libs)
  BY ConfigType, DiscoverRBLNType DEF IInv, TypeOK
<1>4. IsFound(found) /\ found.devices = <<>>
  <2>1. IsSeq(<<>>) /\ IsDevices(<<>>)
    BY FoundNothing DEF IsFound, IsDevices
  <2> QED BY <1>3, <2>1 DEF IsFound
<1>5. host \in Once /\ "dependencies" \in Stages(g)
  BY DEF IInv, TypeOK, Once, Stages
<1>6. hook' \in {"absent", "partial", "whole"} /\ kills' \in 0..site.kills
  BY <1>1 DEF IInv, TypeOK
<1> HIDE DEF found
<1> QED BY <1>1, <1>2, <1>4, <1>5, <1>6, ProgramStep

LEMMA ReadDependenciesStep ==
    ASSUME IInv, NEW g \in site.programs, ReadDependencies(g)
    PROVE  IInv'
<1> DEFINE old == gen[g].found
           libs == WithDependencies(Config(g), View(g), old.libraries)
           found == [libraries |-> libs, providers |-> old.providers, tools |-> old.tools, devices |-> old.devices]
<1>1. UNCHANGED <<site, host, spec, rds, hook, ctr, root, kills>>
  BY DEF ReadDependencies, Read, hostVars, fileVars, ctrVars
<1>2. IsFound(old) /\ (g = "installer" => old.devices = <<>>)
  BY DEF IInv, GenOK
<1>3. gen' = [gen EXCEPT ![g] = [pc |-> "others", found |-> found, from |-> From(g)]]
  <2>1. [old EXCEPT !.libraries = libs] = found
    <3> HIDE DEF old, libs
    <3> QED BY <1>2 DEF IsFound
  <2>2. gen' = [gen EXCEPT ![g] = [pc |-> "others", found |-> [old EXCEPT !.libraries = libs], from |-> From(g)]]
    BY DEF ReadDependencies, Read
  <2> QED BY <2>1, <2>2
<1>4. IsFiles(libs)
  <2>1. IsTree(View(g)) /\ IsConfig(Config(g))
    BY ConfigType, ViewType DEF IInv, TypeOK
  <2>2. IsFiles(old.libraries)
    BY <1>2 DEF IsFound
  <2>3. IsFiles(DiscoverDependencies(Config(g), View(g), old.libraries))
    BY <2>1, <2>2, DiscoverDependenciesType
  <2> QED BY <2>2, <2>3, ConcatFiles DEF WithDependencies
<1> HIDE DEF old
<1>5. IsFound(found) /\ (g = "installer" => found.devices = <<>>)
  BY <1>2, <1>4 DEF IsFound
<1>6. "others" \in Stages(g) /\ hook' \in {"absent", "partial", "whole"} /\ kills' \in 0..site.kills
  BY <1>1 DEF IInv, TypeOK, Stages
<1> HIDE DEF found
<1> QED BY <1>1, <1>3, <1>5, <1>6, FromType, ProgramStep

LEMMA ReadOthersStep ==
    ASSUME IInv, NEW g \in site.programs, ReadOthers(g)
    PROVE  IInv'
<1> DEFINE old == gen[g].found
           c == Config(g)
           fs == View(g)
           found == IF g = "installer" THEN [old EXCEPT !.tools = DiscoverTools(c, fs)]
                    ELSE DiscoverOthers(c, fs, old.libraries)
<1>1. UNCHANGED <<site, host, spec, rds, hook, ctr, root, kills>>
  BY DEF ReadOthers, Read, hostVars, fileVars, ctrVars
<1>2. IsFound(old) /\ (g = "installer" => old.devices = <<>>)
  BY DEF IInv, GenOK
<1>3. gen' = [gen EXCEPT ![g] = [pc |-> "write", found |-> found, from |-> From(g)]]
  BY DEF ReadOthers, Read
<1>4. IsConfig(c)
  BY ConfigType DEF IInv, TypeOK
<1> HIDE DEF old, c, fs
<1>5. IsSeq(DiscoverTools(c, fs)) /\ IsSeq(DiscoverRDMAProviders(c, fs)) /\ IsFiles(DiscoverPlugins(c, fs))
  BY <1>4, DiscoverToolsType, DiscoverRDMAProvidersType, DiscoverPluginsType
<1>6. IsFound(found) /\ (g = "installer" => found.devices = <<>>)
  <2>1. CASE g = "installer"
    <3>1. found = [libraries |-> old.libraries, providers |-> old.providers,
                   tools |-> DiscoverTools(c, fs), devices |-> old.devices]
      BY <1>2, <2>1 DEF IsFound
    <3> HIDE DEF found
    <3> QED BY <1>2, <1>5, <2>1, <3>1 DEF IsFound
  <2>2. CASE g # "installer"
    <3> DEFINE devices == IF c.devicesDisabled THEN <<>> ELSE DiscoverDevices(c, fs, {"rbln", "rsd", "rblnfs"})
    <3>1. found = [libraries |-> old.libraries \o DiscoverPlugins(c, fs),
                   providers |-> DiscoverRDMAProviders(c, fs),
                   tools |-> DiscoverTools(c, fs),
                   devices |-> devices]
      BY <2>2 DEF DiscoverOthers
    <3>2. IsDevices(devices)
      BY <1>4, FoundNothing, DiscoverDevicesType DEF IsFound, IsConfig
    <3>3. IsFiles(old.libraries \o DiscoverPlugins(c, fs))
      BY <1>2, <1>5, ConcatFiles DEF IsFound
    <3> HIDE DEF found, devices
    <3> QED BY <1>5, <2>2, <3>1, <3>2, <3>3 DEF IsFound
  <2> QED BY <2>1, <2>2
<1>7. "write" \in Stages(g) /\ hook' \in {"absent", "partial", "whole"} /\ kills' \in 0..site.kills
  BY <1>1 DEF IInv, TypeOK, Stages
<1> HIDE DEF found
<1> QED BY <1>1, <1>3, <1>6, <1>7, FromType, ProgramStep

\* What a device is, is told by the path it has on the host or in the container.
LEMMA DeviceNodes ==
    ASSUME NEW d, HostDevice(d)
    PROVE  /\ DeviceNode(d).src = DeviceNode(d).dst
           /\ ClassOf([cpath |-> DeviceNode(d).src]) = ClassOf(d)
           /\ IndexOf([cpath |-> DeviceNode(d).src]) = IndexOf(d)
           /\ RSDAliasNode(d).dst = <<"dev", "rsd0">>
           /\ ClassOf([cpath |-> RSDAliasNode(d).src]) = ClassOf(d)
           /\ IndexOf([cpath |-> RSDAliasNode(d).src]) = IndexOf(d)
<1>1. d.path = d.cpath
  BY DEF HostDevice
<1>2. DeviceNode(d).src = d.path /\ DeviceNode(d).dst = d.cpath
      /\ RSDAliasNode(d).src = d.path /\ RSDAliasNode(d).dst = <<"dev", "rsd0">>
  BY DEF DeviceNode, RSDAliasNode
<1>3. [cpath |-> DeviceNode(d).src].cpath = d.cpath /\ [cpath |-> RSDAliasNode(d).src].cpath = d.cpath
  BY <1>1, <1>2
<1> QED BY <1>1, <1>2, <1>3 DEF ClassOf, IndexOf

\* What Generate makes of a program's discovery has the right nodes.
LEMMA GeneratedEntries ==
    ASSUME IInv, NEW g \in site.programs, NEW group \in Resolvers(g)
    PROVE  LET edits == Generate(Config(g), View(g), gen[g].found, group)
           IN  /\ IsSpecification(edits) /\ edits.common.nodes = <<>>
               /\ \A n \in DOMAIN edits.devices : EntryOK(n, edits.devices[n].nodes, From(g))
<1> DEFINE c == Config(g)
           found == gen[g].found
           edits == Generate(c, View(g), found, group)
           npus == Classify(c, found.devices, "rbln")
           rsds == Classify(c, found.devices, "rsd")
<1>1. IsFound(found) /\ c.devicesDisabled \in BOOLEAN /\ (c.devicesDisabled <=> site.kubernetes /\ g = "daemon")
  BY ConfigType DEF IInv, TypeOK, GenOK
<1>2. /\ IsSpecification(edits) /\ edits.common.nodes = <<>>
      /\ \A n \in DOMAIN edits.devices : NodesOfEntry(n, edits.devices[n].nodes, npus, rsds, group)
  <2> HIDE DEF c, found
  <2>1. Generated(edits, c, View(g), found, group)
    BY <1>1, GenerateNodes
  <2> QED BY <2>1 DEF Generated
<1>3. /\ \A d \in ToSet(npus) : HostDevice(d) /\ ClassOf(d) = "rbln"
      /\ \A d \in ToSet(rsds) : HostDevice(d) /\ ClassOf(d) = "rsd"
  BY <1>1, ClassifyElements DEF IsFound, IsDevices
<1>4. site.kubernetes \/ g = "installer" => ToSet(npus) = {} /\ ToSet(rsds) = {}
  <2>1. CASE g = "installer"
    <3>1. found.devices = <<>>
      BY <2>1 DEF IInv, GenOK
    <3>2. ToSet(found.devices) = {}
      BY <3>1, EmptyIsSeq
    <3> QED BY <1>1, <3>2, ClassifyElements DEF IsFound
  <2>2. CASE site.kubernetes /\ g # "installer"
    <3>1. c.devicesDisabled
      BY <1>1, <2>2, SiteType DEF IInv, TypeOK
    <3> QED BY <1>1, <3>1, ClassifyElements DEF IsFound
  <2> QED BY <2>1, <2>2
<1> HIDE DEF edits, npus, rsds, c, found
<1>5. ASSUME NEW n \in DOMAIN edits.devices PROVE EntryOK(n, edits.devices[n].nodes, From(g))
  <2> DEFINE nodes == edits.devices[n].nodes
  <2>1. NodesOfEntry(n, nodes, npus, rsds, group)
    BY <1>2
  <2> HIDE DEF nodes
  <2>2. \A m \in ToSet(nodes) : \E d \in ToSet(npus) \cup ToSet(rsds) : m \in {DeviceNode(d), RSDAliasNode(d)}
    BY <2>1 DEF NodesOfEntry
  <2>3. \A m \in ToSet(nodes) : ClassOf([cpath |-> m.src]) # "rblnfs"
    <3> TAKE m \in ToSet(nodes)
    <3>1. PICK d \in ToSet(npus) \cup ToSet(rsds) : m \in {DeviceNode(d), RSDAliasNode(d)}
      BY <2>2
    <3>2. HostDevice(d) /\ ClassOf(d) # "rblnfs"
      BY <1>3, <3>1
    <3> QED BY <3>1, <3>2, DeviceNodes
  <2>4. ASSUME site.kubernetes PROVE nodes = <<>>
    <3>1. ToSet(nodes) = {}
      BY <1>4, <2>2, <2>4
    <3> QED BY <2>1, <3>1, ToSetEmpty DEF NodesOfEntry
  <2>5. ASSUME ~site.kubernetes, n[1] = "npu", From(g) \in Hosts(site)
        PROVE  /\ \E m \in ToSet(nodes) : /\ m.dst = m.src /\ IndexOf([cpath |-> m.src]) = n[2]
                                          /\ ClassOf([cpath |-> m.src]) = "rbln"
               /\ \A m \in ToSet(nodes) : ClassOf([cpath |-> m.dst]) = "rsd" =>
                     m.dst = <<"dev", "rsd0">> /\ IndexOf([cpath |-> m.src]) = Group(From(g))[n[2]]
    <3> DEFINE mine == {e \in ToSet(rsds) : n[2] \in DOMAIN group /\ IndexOf(e) = group[n[2]]}
    <3>1. PICK d \in ToSet(npus) : /\ IndexOf(d) = n[2]
                                   /\ ToSet(nodes) = {DeviceNode(d)} \cup {RSDAliasNode(e) : e \in mine}
      BY <2>1, <2>5 DEF NodesOfEntry
    <3>2. g # "installer" /\ ~c.devicesDisabled
      BY <1>1, <1>4, <2>5, <3>1
    <3>3. From(g) = host
      BY <2>5, NeverIsNoHost DEF From, IInv, TypeOK
    <3>4. PICK known \in SUBSET DOMAIN Group(host) : group = [i \in known |-> Group(host)[i]]
      BY <3>2 DEF Resolvers, c
    <3>5. ASSUME NEW e \in mine PROVE IndexOf(e) = Group(From(g))[n[2]]
      BY <3>3, <3>4
    <3>6. DeviceNode(d).dst = DeviceNode(d).src /\ IndexOf([cpath |-> DeviceNode(d).src]) = n[2]
          /\ ClassOf([cpath |-> DeviceNode(d).src]) = "rbln" /\ ClassOf([cpath |-> DeviceNode(d).dst]) # "rsd"
      BY <1>3, <3>1, DeviceNodes
    <3>7. ASSUME NEW e \in mine
          PROVE  /\ RSDAliasNode(e).dst = <<"dev", "rsd0">>
                 /\ IndexOf([cpath |-> RSDAliasNode(e).src]) = Group(From(g))[n[2]]
      BY <1>3, <3>5, DeviceNodes
    <3> HIDE DEF mine
    <3>8. ASSUME NEW m \in ToSet(nodes), ClassOf([cpath |-> m.dst]) = "rsd"
          PROVE  m.dst = <<"dev", "rsd0">> /\ IndexOf([cpath |-> m.src]) = Group(From(g))[n[2]]
      <4>1. PICK e \in mine : m = RSDAliasNode(e)
        BY <3>1, <3>6, <3>8
      <4> QED BY <4>1, <3>7
    <3>9. DeviceNode(d) \in ToSet(nodes)
      BY <3>1
    <3> QED BY <3>6, <3>8, <3>9
  <2> QED BY <2>3, <2>4, <2>5 DEF EntryOK, nodes
<1> QED BY <1>2, <1>5 DEF edits, c, found

-----------------------------------------------------------------------------
(* Links below a mount.                                                     *)

\* The links a program sees are the host's.
LEMMA ViewLinks ==
    ASSUME site \in Sites, host \in Hosts(site), NEW g \in site.programs, NEW p \in Path
    PROVE  LinksOn(View(g), HostMount(g) \o p) = {Len(HostMount(g)) + k : k \in LinksOn(HostFiles, p)}
<1>1. <<>> \in DOMAIN HostFiles => HostFiles[<<>>].kind # "link"
  BY HostsAssumption DEF HostFiles
<1>2. LiesBelow(View(g), HostFiles, HostMount(g))
  BY <1>1, ConfigType, ViewElements, HostsAssumption DEF LiesBelow, HostFiles
<1> QED BY <1>2, LinksBelow

-----------------------------------------------------------------------------
(* The RDS file.                                                            *)

\* A program finds the device nodes of the host's /dev.
LEMMA DevicesFound ==
    ASSUME site \in Sites, host \in Hosts(site), NEW g \in site.programs, NEW classes
    PROVE  LET devices == DiscoverDevices(Config(g), View(g), classes)
           IN  /\ IsDevices(devices)
               /\ \A d \in ToSet(devices) : ClassOf(d) \in classes
               /\ \A n \in ToSet(Names) \cap DOMAIN DeviceClass :
                    DeviceClass[n] \in classes /\ <<"dev", n>> \in DOMAIN HostFiles
                    => [path |-> <<"dev", n>>, cpath |-> <<"dev", n>>] \in ToSet(devices)
               /\ \A d \in ToSet(devices) :
                    \E n \in ToSet(Names) \cap DOMAIN DeviceClass :
                      d.path = <<"dev", n>> /\ <<"dev", n>> \in DOMAIN HostFiles
<1> DEFINE c == Config(g)
           fs == View(g)
           m == HostMount(g)
           devices == DiscoverDevices(c, fs, classes)
           dir == EvalSymlinks(fs, Append(m, "dev"))
           device(n) == [path |-> <<"dev", n>>, cpath |-> <<"dev", n>>]
<1>1. c.hostRoot = m /\ m \in Path /\ IsTree(fs) /\ IsTree(HostFiles)
  BY ConfigType, ViewType, ViewElements
<1>2. "dev" \in Name /\ <<"dev">> \in Path
  BY DiscoveryAssumption, SingletonPath
<1>3. Append(m, "dev") = m \o <<"dev">> /\ m \o <<"dev">> \in Path
  BY <1>1, <1>2 DEF Path
<1>4. LinksOn(fs, m \o <<"dev">>) = {}
  <2>1. LinksOn(HostFiles, <<"dev">>) = {}
    <3>1. \A k \in 1..Len(<<"dev">>) : SubSeq(<<"dev">>, 1, k) = <<"dev">>
      <4>1. Len(<<"dev">>) = 1 /\ \A k \in 1..1 : k = 1
        OBVIOUS
      <4>2. \A p \in Path : SubSeq(p, 1, Len(p)) = p
        BY DEF Path
      <4> QED BY <1>2, <4>1, <4>2
    <3>2. <<"dev">> \in DOMAIN HostFiles => HostFiles[<<"dev">>].kind # "link"
      BY HostsAssumption DEF HostFiles
    <3> QED BY <3>1, <3>2 DEF LinksOn
  <2>2. LinksOn(fs, m \o <<"dev">>) = {Len(m) + k : k \in LinksOn(HostFiles, <<"dev">>)}
    BY <1>2, ViewLinks
  <2> QED BY <2>1, <2>2
<1>5. dir = m \o <<"dev">>
  BY <1>1, <1>3, <1>4, EvalSymlinksType
<1>6. /\ IsSeq(devices)
      /\ ToSet(devices) = {device(n) : n \in {n \in ToSet(Names) : /\ Append(dir, n) \in DOMAIN fs
                                                                  /\ n \in DOMAIN DeviceClass
                                                                  /\ DeviceClass[n] \in classes}}
  <2> HIDE DEF fs
  <2> QED BY <1>1, DiscoverDevicesElements
<1>7. IsDevices(devices)
  BY <1>1, DiscoverDevicesType
<1>8. \A n : ClassOf(device(n)) = DeviceClass[n]
  BY DEF ClassOf, Last
<1>9. ASSUME NEW n \in ToSet(Names)
      PROVE  Append(dir, n) \in DOMAIN fs <=> <<"dev", n>> \in DOMAIN HostFiles
  <2>1. n \in Name
    BY DiscoveryAssumption DEF ToSet
  <2>2. Append(dir, n) = m \o <<"dev", n>> /\ <<"dev", n>> \in Path
    BY <1>1, <1>2, <1>5, <2>1 DEF Path
  <2>3. ASSUME m \o <<"dev", n>> \in DOMAIN fs PROVE <<"dev", n>> \in DOMAIN HostFiles
    <3>1. PICK q \in DOMAIN HostFiles : m \o <<"dev", n>> = m \o q
      <4>1. DOMAIN fs = {m \o q : q \in DOMAIN HostFiles}
        BY ViewElements
      <4> HIDE DEF fs, m
      <4> QED BY <2>3, <4>1
    <3>2. q \in Path
      BY <1>1 DEF IsTree
    <3>3. <<"dev", n>> = q
      BY <1>1, <2>2, <3>1, <3>2, ConcatCancel
    <3> QED BY <3>3
  <2> QED BY <2>2, <2>3, ViewElements
<1> HIDE DEF device, devices, dir
<1>10. \A d \in ToSet(devices) : ClassOf(d) \in classes
  BY <1>6, <1>8
<1>11. \A n \in ToSet(Names) \cap DOMAIN DeviceClass :
         DeviceClass[n] \in classes /\ <<"dev", n>> \in DOMAIN HostFiles => device(n) \in ToSet(devices)
  BY <1>6, <1>9
<1>12. \A d \in ToSet(devices) :
         \E n \in ToSet(Names) \cap DOMAIN DeviceClass : d.path = <<"dev", n>> /\ <<"dev", n>> \in DOMAIN HostFiles
  BY <1>6, <1>9 DEF device
<1> QED BY <1>7, <1>10, <1>11, <1>12 DEF devices, device

LEMMA GeneratedRDS ==
    ASSUME IInv, NEW g \in site.programs
    PROVE  LET edits == GenerateRDS(Config(g), View(g))
           IN  /\ \A q \in DOMAIN edits.devices :
                    {ClassOf([cpath |-> m.src]) : m \in ToSet(edits.devices[q].nodes)} = {"rblnfs"}
               /\ (\E p \in DOMAIN HostFiles : Last(p) = "rblnfs0") => <<"rblnfs", 0>> \in DOMAIN edits.devices
<1> DEFINE devices == DiscoverDevices(Config(g), View(g), {"rblnfs"})
           edits == RDSFor(devices)
<1>1. GenerateRDS(Config(g), View(g)) = edits
  BY DEF GenerateRDS
<1>2. site \in Sites /\ host \in Hosts(site)
  BY DEF IInv, TypeOK
<1>3. /\ IsDevices(devices)
      /\ \A d \in ToSet(devices) : ClassOf(d) = "rblnfs"
      /\ \A n \in ToSet(Names) \cap DOMAIN DeviceClass :
            DeviceClass[n] = "rblnfs" /\ <<"dev", n>> \in DOMAIN HostFiles
            => [path |-> <<"dev", n>>, cpath |-> <<"dev", n>>] \in ToSet(devices)
  BY <1>2, DevicesFound
<1> HIDE DEF devices
<1>4. /\ \A n \in DOMAIN edits.devices :
           LET nodes == edits.devices[n].nodes
           IN  ToSet(nodes) # {} /\ ToSet(nodes) \subseteq {DeviceNode(d) : d \in ToSet(devices)}
      /\ \A d \in ToSet(devices) : <<"rblnfs", IndexOf(d)>> \in DOMAIN edits.devices
  BY <1>3, RDSForNodes
<1> HIDE DEF edits
<1>5. ASSUME NEW q \in DOMAIN edits.devices
      PROVE  {ClassOf([cpath |-> m.src]) : m \in ToSet(edits.devices[q].nodes)} = {"rblnfs"}
  <2>1. ASSUME NEW m \in ToSet(edits.devices[q].nodes) PROVE ClassOf([cpath |-> m.src]) = "rblnfs"
    <3>1. PICK d \in ToSet(devices) : m = DeviceNode(d)
      BY <1>4
    <3> QED BY <1>3, <3>1, DeviceNodes DEF IsDevices
  <2> QED BY <1>4, <2>1
<1>6. ASSUME NEW p \in DOMAIN HostFiles, Last(p) = "rblnfs0" PROVE <<"rblnfs", 0>> \in DOMAIN edits.devices
  <2> DEFINE d == [path |-> <<"dev", "rblnfs0">>, cpath |-> <<"dev", "rblnfs0">>]
  <2>1. p = <<"dev", "rblnfs0">>
    BY <1>2, <1>6, HostsAssumption, RDSAssumption DEF HostFiles
  <2>2. d \in ToSet(devices)
    BY <1>3, <1>6, <2>1, RDSAssumption
  <2>3. IndexOf(d) = 0
    BY RDSAssumption DEF IndexOf, Last
  <2> QED BY <1>4, <2>2, <2>3
<1> QED BY <1>1, <1>5, <1>6

LEMMA WriteSpecsStep ==
    ASSUME IInv, NEW g \in site.programs, WriteSpecs(g)
    PROVE  IInv'
<1>1. UNCHANGED <<site, host, hook, ctr, root, kills>>
  BY DEF WriteSpecs, hostVars, ctrVars
<1>2. PICK group \in Resolvers(g) :
        spec' = [edits |-> Generate(Config(g), View(g), gen[g].found, group), from |-> From(g)]
  BY DEF WriteSpecs
<1>3. SpecOK'
  <2> DEFINE edits == Generate(Config(g), View(g), gen[g].found, group)
  <2>1. /\ IsSpecification(edits) /\ edits.common.nodes = <<>>
        /\ \A n \in DOMAIN edits.devices : EntryOK(n, edits.devices[n].nodes, From(g))
    BY GeneratedEntries
  <2>2. From(g) \in Once
    BY FromType
  <2>3. spec'.edits = edits /\ spec'.from = From(g)
    BY <1>2
  <2> HIDE DEF edits
  <2> QED BY <1>1, <2>1, <2>2, <2>3 DEF SpecOK, Once, EntryOK, Hosts
<1>4. RdsOK'
  <2> DEFINE edits == GenerateRDS(Config(g), View(g))
  <2>1. /\ \A q \in DOMAIN edits.devices :
             {ClassOf([cpath |-> m.src]) : m \in ToSet(edits.devices[q].nodes)} = {"rblnfs"}
        /\ (\E p \in DOMAIN HostFiles : Last(p) = "rblnfs0") => <<"rblnfs", 0>> \in DOMAIN edits.devices
    BY GeneratedRDS
  <2>2. rds'.edits = edits /\ rds'.from = host /\ host \in Hosts(site)
    BY DEF WriteSpecs, IInv, TypeOK
  <2> HIDE DEF edits
  <2> QED BY <1>1, <2>1, <2>2 DEF RdsOK, Once, Hosts, HostFiles
<1>5. GenOK' /\ \A h \in site.programs : gen'[h].pc \in Stages(h)
  <2>1. gen' = [gen EXCEPT ![g] = [pc |-> "idle", found |-> NoFound, from |-> NeverOne]]
    BY DEF WriteSpecs, Idle
  <2>2. "idle" \in Stages(g) /\ NeverOne \in Once
    BY DEF Stages, Once
  <2> QED BY <1>1, <2>1, <2>2, FoundNothing, GenStep
<1>6. TypeOK'
  BY <1>1, <1>5, TypeFrame DEF IInv, TypeOK
<1> QED BY <1>1, <1>3, <1>4, <1>5, <1>6, CtrFrame, RootFrame DEF IInv

-----------------------------------------------------------------------------
(* The container.                                                           *)

\* A step of the container alone.
LEMMA ContainerStep ==
    ASSUME IInv, UNCHANGED <<site, host, gen, spec, rds, hook>>, kills' \in 0..site.kills,
           CtrOK', ctr'.stage \in {"down", "mounted", "linking", "linked", "conf", "ldconfig", "running"},
           RootOK', \A p \in DOMAIN root' : root'[p].kind \in {"file", "link", "empty"}
    PROVE  IInv'
<1>1. TypeOK'
  BY TypeFrame DEF IInv, TypeOK, Stages
<1> QED BY <1>1, SpecFrame, RdsFrame, GenFrame DEF IInv

\* The container is gone or goes on with the edits it has.
LEMMA StageStep ==
    ASSUME IInv, UNCHANGED site,
           \/ ctr' = Gone
           \/ \E stage \in {"mounted", "linking", "linked", "conf", "ldconfig", "running"} : \E libraries :
                /\ ctr.stage # "down"
                /\ ctr' = [ctr EXCEPT !.stage = stage, !.libraries = libraries]
    PROVE  /\ CtrOK'
           /\ ctr'.stage \in {"down", "mounted", "linking", "linked", "conf", "ldconfig", "running"}
<1>1. /\ ctr = [stage |-> ctr.stage, want |-> ctr.want, edits |-> ctr.edits, from |-> ctr.from,
                mounts |-> ctr.mounts, libraries |-> ctr.libraries]
      /\ IsEdits(ctr.edits)
      /\ ctr.from \in Once
      /\ ctr.stage # "down" => EntryOK(ctr.want, ctr.edits.nodes, ctr.from)
  BY DEF IInv, CtrOK
<1>2. CASE ctr' = Gone
  <2>1. ctr' = [stage |-> "down", want |-> ctr.want, edits |-> NoEdits, from |-> NeverOne,
                mounts |-> NoMounts, libraries |-> NoLibraries]
    BY <1>1, <1>2 DEF Gone
  <2> QED BY <2>1, NoEditsType DEF CtrOK, Once
<1>3. ASSUME NEW stage \in {"mounted", "linking", "linked", "conf", "ldconfig", "running"}, NEW libraries,
             ctr.stage # "down", ctr' = [ctr EXCEPT !.stage = stage, !.libraries = libraries]
      PROVE  CtrOK' /\ ctr'.stage = stage
  <2>1. ctr' = [stage |-> stage, want |-> ctr.want, edits |-> ctr.edits, from |-> ctr.from,
                mounts |-> ctr.mounts, libraries |-> libraries]
    BY <1>1, <1>3
  <2> QED BY <1>1, <1>3, <2>1 DEF CtrOK, EntryOK, Once, Hosts
<1> QED BY <1>2, <1>3

LEMMA EditsForType ==
    ASSUME NEW edits, IsSpecification(edits), edits.common.nodes = <<>>, NEW q \in DOMAIN edits.devices
    PROVE  IsEdits(EditsFor(edits, q)) /\ EditsFor(edits, q).nodes = edits.devices[q].nodes
<1> DEFINE e == EditsFor(edits, q)
           common == edits.common
           own == edits.devices[q]
<1>1. IsEdits(common) /\ IsEdits(own) /\ common.nodes = <<>>
  BY DEF IsSpecification
<1>2. e.mounts = common.mounts \o own.mounts /\ e.links = common.links \o own.links
      /\ e.nodes = common.nodes \o own.nodes
  BY DEF EditsFor
<1> HIDE DEF e, common, own
<1>3. IsEdits(e)
  BY <1>1, <1>2, ConcatIsSeq DEF IsEdits
<1>4. <<>> \o own.nodes = own.nodes
  <2>1. own.nodes \in Seq(ToSet(own.nodes))
    BY <1>1 DEF IsEdits, IsSeq
  <2> QED BY <2>1
<1> QED BY <1>1, <1>2, <1>3, <1>4 DEF e, own

LEMMA StartContainerStep ==
    ASSUME IInv, StartContainer
    PROVE  IInv'
<1> DEFINE edits == EditsFor(spec.edits, ctr.want)
           mounts == Mounted(ToSet(edits.mounts))
           stage == IF edits.links = <<>> THEN "linked" ELSE "mounted"
<1>1. UNCHANGED <<site, host, gen, spec, rds, hook, kills>>
  BY DEF StartContainer, hostVars, fileVars
<1>2. /\ ctr.want \in DOMAIN spec.edits.devices
      /\ ctr' = [ctr EXCEPT !.stage = stage, !.from = spec.from, !.edits = edits, !.mounts = mounts]
      /\ root' = Over(root, [p \in DOMAIN mounts |-> [kind |-> "empty"]])
  BY DEF StartContainer
<1>3. /\ IsEdits(edits) /\ edits.nodes = spec.edits.devices[ctr.want].nodes
      /\ EntryOK(ctr.want, edits.nodes, spec.from) /\ spec.from \in Once
  BY <1>2, EditsForType DEF IInv, SpecOK
<1> HIDE DEF edits, mounts
<1>4. ctr' = [stage |-> stage, want |-> ctr.want, edits |-> edits, from |-> spec.from,
              mounts |-> mounts, libraries |-> ctr.libraries]
  <2>1. ctr = [stage |-> ctr.stage, want |-> ctr.want, edits |-> ctr.edits, from |-> ctr.from,
                mounts |-> ctr.mounts, libraries |-> ctr.libraries]
    BY DEF IInv, CtrOK
  <2> HIDE DEF stage
  <2> QED BY <1>2, <2>1
<1>5. CtrOK' /\ ctr'.stage \in {"linked", "mounted"}
  BY <1>1, <1>3, <1>4 DEF CtrOK, EntryOK, Once, Hosts
<1>6. RootOK' /\ \A p \in DOMAIN root' : root'[p].kind \in {"file", "link", "empty"}
  BY <1>2 DEF IInv, TypeOK, RootOK, Over
<1>7. kills' \in 0..site.kills
  BY <1>1 DEF IInv, TypeOK
<1> QED BY <1>1, <1>5, <1>6, <1>7, ContainerStep

\* A fold over a sequence whose steps stay in a set.
LEMMA AfterLinksType ==
    ASSUME IInv, NEW n \in 0..Len(ctr.edits.links)
    PROVE  /\ AfterLinks(n) = [p \in DOMAIN AfterLinks(n) |-> AfterLinks(n)[p]]
           /\ \A p \in DOMAIN AfterLinks(n) : AfterLinks(n)[p].kind \in {"file", "link", "empty"}
<1> DEFINE links == SubSeq(ctr.edits.links, 1, n)
           placed == {Placed(links[i]) : i \in 1..n}
           nodes == {root[p] : p \in DOMAIN root} \cup {LinkNode(links[i]) : i \in 1..n}
           A == UNION {[S -> nodes] : S \in SUBSET (DOMAIN root \cup placed)}
           F == [a \in A \X (1..n) |-> CreateSymlink(a[1], links[a[2]])]
           Is(acc) == acc = [i \in 0..n |-> IF i = 0 THEN root ELSE CreateSymlink(acc[i - 1], links[i])]
           chosen == CHOOSE acc : acc = [i \in 0..Len(links) |-> IF i = 0 THEN root ELSE CreateSymlink(acc[i - 1], links[i])]
<1>1. n \in Nat /\ Len(links) = n
  <2>1. ctr.edits.links \in Seq(ToSet(ctr.edits.links))
    BY DEF IInv, CtrOK, IsEdits, IsSeq
  <2> QED BY <2>1
<1>2. root \in A
  BY DEF IInv, RootOK
<1>3. ASSUME NEW f \in A, NEW i \in 1..n PROVE CreateSymlink(f, links[i]) \in A
  <2> DEFINE p == Placed(links[i])
             v == LinkNode(links[i])
             g == CreateSymlink(f, links[i])
  <2>1. g = [q \in {p} \cup DOMAIN f |-> IF q \in {p} THEN v ELSE f[q]]
    BY DEF CreateSymlink, Over
  <2>2. PICK S \in SUBSET (DOMAIN root \cup placed) : f \in [S -> nodes]
    BY <1>3
  <2>3. p \in placed /\ v \in nodes
    OBVIOUS
  <2> HIDE DEF placed, nodes, p, v, g
  <2>4. g \in [S \cup {p} -> nodes]
    BY <2>1, <2>2, <2>3
  <2>5. S \cup {p} \in SUBSET (DOMAIN root \cup placed)
    BY <2>2, <2>3
  <2>6. g \in A
    BY <2>4, <2>5
  <2> QED BY <2>6 DEF g, A, placed, nodes
<1>4. \A f \in A : \A i \in 1..n : F[<<f, i>>] = CreateSymlink(f, links[i]) /\ F[<<f, i>>] \in A
  <2> HIDE DEF A, links
  <2> QED BY <1>3
<1>5. AfterLinks(n) = chosen[Len(links)]
  BY DEF AfterLinks, Fold
<1>6. \A f \in A : f = [p \in DOMAIN f |-> f[p]] /\ \A p \in DOMAIN f : f[p].kind \in {"file", "link", "empty"}
  <2>1. \A v \in nodes : v.kind \in {"file", "link", "empty"}
    BY DEF LinkNode, IInv, TypeOK
  <2> HIDE DEF nodes, placed
  <2> QED BY <2>1
<1> HIDE DEF F, A, links
<1>7. PICK acc \in [0..n -> A] : Folded(F, root, n, acc)
  BY <1>1, <1>2, <1>4, FoldInto
<1>8. Is(acc)
  <2>1. \A i \in 1..n : i - 1 \in 0..n /\ acc[i - 1] \in A
    BY <1>1
  <2>2. \A i \in 0..n : i # 0 => i \in 1..n
    BY <1>1
  <2>3. \A i \in 1..n : acc[i] = CreateSymlink(acc[i - 1], links[i])
    BY <2>1, <1>4, <1>7 DEF Folded
  <2>4. acc = [i \in 0..n |-> acc[i]]
    OBVIOUS
  <2> QED BY <1>7, <2>2, <2>3, <2>4 DEF Folded
<1>9. Is(chosen)
  <2>1. acc = [i \in 0..Len(links) |-> IF i = 0 THEN root ELSE CreateSymlink(acc[i - 1], links[i])]
    BY <1>1, <1>8
  <2>2. chosen = [i \in 0..Len(links) |-> IF i = 0 THEN root ELSE CreateSymlink(chosen[i - 1], links[i])]
    BY <2>1
  <2> HIDE DEF chosen
  <2> QED BY <1>1, <2>2
<1> HIDE DEF chosen
<1> DEFINE S == {i \in 0..n : chosen[i] \in A}
<1>10. 0 \in S
  BY <1>1, <1>2, <1>9
<1>11. ASSUME NEW i \in 1..n, i - 1 \in S PROVE i \in S
  <2>1. i \in 0..n /\ i # 0
    BY <1>1
  <2>2. chosen[i] = CreateSymlink(chosen[i - 1], links[i])
    BY <1>9, <2>1
  <2> QED BY <1>4, <1>11, <2>1, <2>2
<1>12. \A i \in 0..n : i \in S
  <2> HIDE DEF S
  <2> QED BY <1>1, <1>10, <1>11, InductionTo
<1>13. AfterLinks(n) \in A
  BY <1>1, <1>5, <1>12
<1> QED BY <1>6, <1>13

LEMMA LinksStep ==
    ASSUME IInv, CreateSymlinks \/ CreateSymlinksFails
    PROVE  IInv'
<1>1. UNCHANGED <<site, host, gen, spec, rds, hook, kills>>
  BY DEF CreateSymlinks, CreateSymlinksFails, hostVars, fileVars
<1>2. kills' \in 0..site.kills
  BY <1>1 DEF IInv, TypeOK
<1>3. Len(ctr.edits.links) \in Nat /\ DOMAIN ctr.edits.links = 1..Len(ctr.edits.links)
  BY IsSeqLen DEF IInv, CtrOK, IsEdits
<1>4. PICK n \in 0..Len(ctr.edits.links) : root' = AfterLinks(n)
  <2>1. CASE CreateSymlinks
    <3>1. Len(ctr.edits.links) \in 0..Len(ctr.edits.links)
      BY <1>3
    <3> QED BY <2>1, <3>1 DEF CreateSymlinks
  <2>2. CASE CreateSymlinksFails
    <3>1. Busy \subseteq 1..Len(ctr.edits.links)
      BY <1>3 DEF Busy
    <3>2. Busy # {} /\ root' = AfterLinks(Min(Busy) - 1)
      BY <2>2 DEF CreateSymlinksFails
    <3>3. Min(Busy) \in Busy
      <4>1. Busy \in SUBSET Nat
        BY <1>3, <3>1
      <4> QED BY <3>2, <4>1, MinIsLeast
    <3>4. Min(Busy) - 1 \in 0..Len(ctr.edits.links)
      <4>1. \A len \in Nat : \A n \in 1..len : n - 1 \in 0..len
        OBVIOUS
      <4>2. Min(Busy) \in 1..Len(ctr.edits.links)
        BY <3>1, <3>3
      <4> QED BY ONLY <1>3, <4>1, <4>2
    <3> QED BY <3>2, <3>4
  <2> QED BY <2>1, <2>2
<1>5. RootOK' /\ \A p \in DOMAIN root' : root'[p].kind \in {"file", "link", "empty"}
  BY <1>4, AfterLinksType DEF RootOK
<1>6. CtrOK' /\ ctr'.stage \in {"down", "mounted", "linking", "linked", "conf", "ldconfig", "running"}
  <2>1. CASE CreateSymlinks
    <3>1. ctr.stage # "down" /\ ctr' = [ctr EXCEPT !.stage = "linked"]
      BY <2>1 DEF CreateSymlinks
    <3>2. ctr' = [ctr EXCEPT !.stage = "linked", !.libraries = ctr.libraries]
      BY <3>1 DEF IInv, CtrOK
    <3> QED BY <1>1, <3>1, <3>2, StageStep
  <2>2. CASE CreateSymlinksFails
    BY <1>1, <2>2, StageStep DEF CreateSymlinksFails
  <2> QED BY <2>1, <2>2
<1> QED BY <1>1, <1>2, <1>5, <1>6, ContainerStep

LEMMA HookStep ==
    ASSUME IInv, ExecCreateSymlinks \/ ExecUpdateLdcache \/ WriteConf \/ RunLdconfig \/ StopContainer
    PROVE  IInv'
<1>1. UNCHANGED <<site, host, gen, spec, rds, hook, root, kills>>
  BY DEF ExecCreateSymlinks, ExecUpdateLdcache, ExecHook, WriteConf, RunLdconfig, StopContainer, hostVars, fileVars
<1>2. kills' \in 0..site.kills /\ RootOK' /\ \A p \in DOMAIN root' : root'[p].kind \in {"file", "link", "empty"}
  BY <1>1, RootFrame DEF IInv, TypeOK
<1>3. \/ ctr' = Gone
      \/ \E stage \in {"mounted", "linking", "linked", "conf", "ldconfig", "running"} : \E libraries :
           /\ ctr.stage # "down"
           /\ ctr' = [ctr EXCEPT !.stage = stage, !.libraries = libraries]
  <2>1. ASSUME NEW stage PROVE [ctr EXCEPT !.stage = stage] = [ctr EXCEPT !.stage = stage, !.libraries = ctr.libraries]
    BY DEF IInv, CtrOK
  <2>2. CASE ExecCreateSymlinks
    <3>1. ctr.stage # "down" /\ ctr' \in {Gone, [ctr EXCEPT !.stage = "linking"]}
      BY <2>2 DEF ExecCreateSymlinks, ExecHook
    <3> QED BY <2>1, <3>1
  <2>3. CASE ExecUpdateLdcache
    <3>1. ctr.stage # "down" /\ ctr' \in {Gone, [ctr EXCEPT !.stage = "conf"]}
      BY <2>3 DEF ExecUpdateLdcache, ExecHook
    <3> QED BY <2>1, <3>1
  <2>4. CASE WriteConf
    <3>1. ctr.stage # "down" /\ ctr' = [ctr EXCEPT !.stage = "ldconfig"]
      BY <2>4 DEF WriteConf
    <3> QED BY <2>1, <3>1
  <2>5. CASE RunLdconfig
    BY <2>5 DEF RunLdconfig
  <2>6. CASE StopContainer
    BY <2>6 DEF StopContainer
  <2> QED BY <2>2, <2>3, <2>4, <2>5, <2>6
<1>4. CtrOK' /\ ctr'.stage \in {"down", "mounted", "linking", "linked", "conf", "ldconfig", "running"}
  BY <1>1, <1>3, StageStep
<1> QED BY <1>1, <1>2, <1>4, ContainerStep

LEMMA KillHookStep ==
    ASSUME IInv, KillHook
    PROVE  IInv'
<1>1. UNCHANGED <<site, host, gen, spec, rds, hook>>
  BY DEF KillHook, hostVars, fileVars
<1>2. kills' \in 0..site.kills
  <2>1. kills \in 0..site.kills /\ kills < site.kills /\ kills' = kills + 1 /\ site.kills \in Nat
    BY SiteType DEF IInv, TypeOK, KillHook
  <2> QED BY <2>1
<1>3. root' = root \/ \E n \in 0..Len(ctr.edits.links) : root' = AfterLinks(n)
  BY DEF KillHook
<1>4. RootOK' /\ \A p \in DOMAIN root' : root'[p].kind \in {"file", "link", "empty"}
  <2>1. CASE root' = root
    BY <2>1, RootFrame DEF IInv, TypeOK
  <2>2. ASSUME NEW n \in 0..Len(ctr.edits.links), root' = AfterLinks(n)
        PROVE  RootOK' /\ \A p \in DOMAIN root' : root'[p].kind \in {"file", "link", "empty"}
    BY <2>2, AfterLinksType DEF RootOK
  <2> QED BY <1>3, <2>1, <2>2
<1>5. CtrOK' /\ ctr'.stage \in {"down", "mounted", "linking", "linked", "conf", "ldconfig", "running"}
  BY <1>1, StageStep DEF KillHook
<1> QED BY <1>1, <1>2, <1>4, <1>5, ContainerStep

-----------------------------------------------------------------------------
(* Every step keeps the invariant.                                          *)

LEMMA StutterStep ==
    ASSUME IInv, UNCHANGED vars
    PROVE  IInv'
<1>1. UNCHANGED <<site, host, gen, spec, rds, hook, ctr, root, conf, kills>>
  BY DEF vars
<1>2. TypeOK'
  BY <1>1 DEF IInv, TypeOK, Hosts
<1> QED BY <1>1, <1>2, SpecFrame, RdsFrame, CtrFrame, GenFrame, RootFrame DEF IInv

LEMMA NextIInv == IInv /\ [Next]_vars => IInv'
<1> SUFFICES ASSUME IInv, [Next]_vars PROVE IInv'
  OBVIOUS
<1>1. CASE Upgrade \/ Replug
  BY <1>1, HostStep
<1>2. ASSUME NEW g \in site.programs, Regenerate(g) \/ Generation(g) \/ Kill(g) PROVE IInv'
  <2>1. CASE Regenerate(g)
    BY <2>1, RegenerateStep
  <2>2. CASE ReadRBLN(g)
    BY <2>2, ReadRBLNStep
  <2>3. CASE ReadDependencies(g)
    BY <2>3, ReadDependenciesStep
  <2>4. CASE ReadOthers(g)
    BY <2>4, ReadOthersStep
  <2>5. CASE WriteSpecs(g)
    BY <2>5, WriteSpecsStep
  <2>6. CASE Kill(g)
    BY <2>6, KillStep
  <2> QED BY <1>2, <2>1, <2>2, <2>3, <2>4, <2>5, <2>6 DEF Generation
<1>3. CASE "daemon" \in site.programs /\ Setup
  BY <1>3, SetupStep
<1>4. CASE Start
  BY <1>4, StartContainerStep, LinksStep, HookStep DEF Start
<1>5. CASE KillHook
  BY <1>5, KillHookStep
<1>6. CASE StopContainer
  BY <1>6, HookStep
<1>7. CASE UNCHANGED vars
  BY <1>7, StutterStep
<1> QED BY <1>1, <1>2, <1>3, <1>4, <1>5, <1>6, <1>7 DEF Next

\* The inductive invariant holds in every reachable state, whatever programs
\* run, however the host changes under their scans, and whoever is killed.
THEOREM Invariance == Spec => []IInv
<1>1. Init => IInv
  BY InitIInv
<1>2. IInv /\ [Next]_vars => IInv'
  BY NextIInv
<1> QED BY <1>1, <1>2, PTL DEF Spec

\* The programs, the hook, the container and its files are always in one of
\* the states their code puts them in.
THEOREM TypeCorrect == Spec => []TypeOK
<1>1. IInv => TypeOK
  BY DEF IInv
<1> QED BY <1>1, Invariance, PTL

\* A container with one NPU sees it and, as /dev/rsd0, its own group alone:
\* for any grouping of the devices, any host files, and whatever the scan
\* behind its specification overlapped with (generator.go's per-NPU entries).
THEOREM OwnGroup == Spec => []NpuGetsItsGroup
<1>1. IInv => NpuGetsItsGroup
  <2> SUFFICES ASSUME IInv, ctr.stage = "running", ctr.from = host PROVE
        LET nodes == ToSet(ctr.edits.nodes)
            group == Group(host)[ctr.want[2]]
        IN  IF site.kubernetes THEN nodes = {}
            ELSE ctr.want[1] = "npu" =>
                 /\ \E m \in nodes : m.dst = m.src /\ IndexOf([cpath |-> m.src]) = ctr.want[2]
                                      /\ ClassOf([cpath |-> m.src]) = "rbln"
                 /\ \A m \in nodes : ClassOf([cpath |-> m.dst]) = "rsd" =>
                       m.dst = <<"dev", "rsd0">> /\ IndexOf([cpath |-> m.src]) = group
    BY DEF NpuGetsItsGroup
  <2>1. EntryOK(ctr.want, ctr.edits.nodes, host)
    BY DEF IInv, CtrOK
  <2>2. host \in Hosts(site)
    BY DEF IInv, TypeOK
  <2>3. CASE site.kubernetes
    <3>1. ctr.edits.nodes = <<>>
      BY <2>1, <2>3 DEF EntryOK
    <3> QED BY <2>3, <3>1, EmptyIsSeq
  <2>4. CASE ~site.kubernetes
    BY <2>1, <2>2, <2>4 DEF EntryOK
  <2> QED BY <2>3, <2>4
<1> QED BY <1>1, Invariance, PTL

\* The RDS devices are named by rbln-rds.yaml alone, which has all of them and
\* nothing else: on every site, Kubernetes too.
THEOREM RdsOptIn == Spec => []RdsIsOptIn
<1>1. IInv => RdsIsOptIn
  <2> SUFFICES ASSUME IInv PROVE RdsIsOptIn
    OBVIOUS
  <2> DEFINE classes(edits) == {ClassOf([cpath |-> m.src]) : m \in ToSet(edits.nodes)}
  <2>1. ASSUME NEW q \in DOMAIN spec.edits.devices PROVE "rblnfs" \notin classes(spec.edits.devices[q])
    <3>1. EntryOK(q, spec.edits.devices[q].nodes, spec.from)
      BY DEF IInv, SpecOK
    <3> QED BY <3>1 DEF EntryOK
  <2>2. ASSUME Fresh(rds), \E p \in DOMAIN HostFiles : Last(p) = "rblnfs0"
        PROVE  /\ <<"rblnfs", 0>> \in DOMAIN rds.edits.devices
               /\ \A q \in DOMAIN rds.edits.devices : classes(rds.edits.devices[q]) = {"rblnfs"}
    <3>1. rds.from = host /\ host \in Hosts(site)
      BY <2>2 DEF Fresh, IInv, TypeOK
    <3>2. \E p \in DOMAIN Tree(site, rds.from) : Last(p) = "rblnfs0"
      BY <2>2, <3>1 DEF HostFiles
    <3> QED BY <3>1, <3>2 DEF IInv, RdsOK
  <2> QED BY <2>1, <2>2 DEF RdsIsOptIn
<1> QED BY <1>1, Invariance, PTL

-----------------------------------------------------------------------------
(* Every specification that is written is accepted.                         *)

\* What a scan has to have found by now: where the devices are the device
\* plugin's, a library, for the common edits to be folded into the devices;
\* elsewhere a device.
Promise(state) ==
    IF site.kubernetes
    THEN state.pc \in {"dependencies", "others", "write"} => state.found.libraries # <<>>
    ELSE state.pc = "write" => \E d \in ToSet(state.found.devices) : ClassOf(d) \in {"rbln", "rsd"}

AInv == Accepted(spec.edits) /\ \A g \in site.programs : Promise(gen[g])

LEMMA ConcatNonempty ==
    ASSUME NEW s, NEW t, IsSeq(s), IsSeq(t), s # <<>>
    PROVE  s \o t # <<>>
BY ConcatIsSeq, ToSetEmpty, EmptyIsSeq

LEMMA PromiseStep ==
    ASSUME IInv, AInv, UNCHANGED site, Accepted(spec'.edits),
           NEW g \in site.programs, NEW state, Promise(state), gen' = [gen EXCEPT ![g] = state]
    PROVE  AInv'
<1>1. gen = [h \in site.programs |-> gen[h]]
  BY DEF IInv, GenOK
<1>2. \A h \in site.programs : Promise(gen'[h])
  <2> TAKE h \in site.programs
  <2>1. gen'[h] = IF h = g THEN state ELSE gen[h]
    BY <1>1
  <2> QED BY <2>1 DEF AInv
<1> QED BY <1>2 DEF AInv, Promise

\* On Kubernetes only the daemon generates, without an installer.
LEMMA OnlyTheDaemon ==
    ASSUME NoInstaller(Sites), site \in Sites, NEW g \in site.programs
    PROVE  /\ g # "installer"
           /\ site.kubernetes => g = "daemon"
           /\ Config(g).devicesDisabled <=> site.kubernetes
BY SiteType, ConfigType DEF NoInstaller

\* The daemon sees a library of the driver.
LEMMA DaemonFinds ==
    ASSUME site \in Sites, host \in Hosts(site), "daemon" \in site.programs,
           HasLibrary(HostFiles, site.driverRoot)
    PROVE  DiscoverRBLN(Config("daemon"), View("daemon")) # <<>>
<1> DEFINE c == Config("daemon")
           fs == View("daemon")
           m == HostMount("daemon")
           r == site.driverRoot
<1>1. IsConfig(c) /\ IsTree(fs) /\ m \in Path /\ r \in Path
  BY ConfigType, ViewType, SiteType
<1>2. SearchRoot(c) = m \o r /\ c.libDirs = LibDirs
  <2>1. m = <<"host">> /\ <<"host">> # <<>> /\ <<"host">> \o r # <<>>
    BY <1>1 DEF HostMount, Path
  <2>2. c.searchRoot = m \o r /\ c.libDirs = DefaultConfig.libDirs
    BY <2>1 DEF Config, DaemonConfig, JoinSearchPrefix, DefaultConfig
  <2>3. DefaultConfig.libDirs = LibDirs
    BY DEF DefaultConfig
  <2> QED BY <2>1, <2>2, <2>3 DEF SearchRoot
<1>3. PICK d \in ToSet(LibDirs), n \in ToSet(Names) \cap RblnName :
         LinksOn(HostFiles, r \o d) = {} /\ NodeAt(HostFiles, Append(r \o d, n)).kind = "file"
  BY DEF HasLibrary
<1>4. PICK k \in DOMAIN LibDirs : d = LibDirs[k]
  BY DEF ToSet
<1>5. d \in Path /\ n \in Name
  BY <1>1, <1>2, <1>4, SeqElements, DiscoveryAssumption DEF IsConfig, ToSet
<1>6. (m \o r) \o d = m \o (r \o d) /\ r \o d \in Path
  BY <1>1, <1>5, PathConcat, ConcatAssoc
<1>7. LinksOn(fs, SearchRoot(c) \o c.libDirs[k]) = {}
  <2>1. LinksOn(fs, m \o (r \o d)) = {Len(m) + j : j \in LinksOn(HostFiles, r \o d)}
    BY <1>6, ViewLinks
  <2> QED BY <1>2, <1>3, <1>4, <1>6, <2>1
<1>8. NodeAt(fs, Append(SearchRoot(c) \o c.libDirs[k], n)).kind = "file"
  <2> DEFINE q == Append(r \o d, n)
  <2>1. q \in DOMAIN HostFiles /\ HostFiles[q].kind = "file"
    BY <1>3 DEF NodeAt, NoNode
  <2>2. m \o q \in DOMAIN fs /\ fs[m \o q] = HostFiles[q]
    BY <2>1, ViewElements
  <2>3. m \o q = Append(m \o (r \o d), n)
    BY <1>1, <1>5, <1>6 DEF Path
  <2> QED BY <1>2, <1>4, <1>6, <2>1, <2>2, <2>3 DEF NodeAt
<1> HIDE DEF c, fs, m, r
<1>9. k \in DOMAIN c.libDirs
  BY <1>2
<1>10. DiscoverRBLN(c, fs) # <<>>
  BY <1>1, <1>3, <1>7, <1>8, <1>9, DiscoverRBLNFinds
<1> QED BY <1>10 DEF c, fs

\* A node with a device has it found.
LEMMA DeviceFound ==
    ASSUME site \in Sites, host \in Hosts(site), NEW g \in site.programs, HasDevice(HostFiles)
    PROVE  \E d \in ToSet(DiscoverDevices(Config(g), View(g), {"rbln", "rsd", "rblnfs"})) :
              ClassOf(d) \in {"rbln", "rsd"}
<1>1. PICK n \in ToSet(Names) \cap DOMAIN DeviceClass :
         DeviceClass[n] \in {"rbln", "rsd"} /\ <<"dev", n>> \in DOMAIN HostFiles
  BY DEF HasDevice
<1> DEFINE d == [path |-> <<"dev", n>>, cpath |-> <<"dev", n>>]
           classes == {"rbln", "rsd", "rblnfs"}
<1>2. d \in ToSet(DiscoverDevices(Config(g), View(g), classes))
  <2>1. DeviceClass[n] \in classes
    BY <1>1
  <2> HIDE DEF classes
  <2> QED BY <1>1, <2>1, DevicesFound
<1>3. ClassOf(d) \in {"rbln", "rsd"}
  BY <1>1 DEF ClassOf, Last
<1> QED BY <1>2, <1>3

LEMMA InitAInv == ASSUME Init PROVE AInv
<1>1. spec.edits = NoSpecification /\ DOMAIN NoSpecification.devices = {}
  BY NoSpecificationType DEF Init, NoFile
<1>2. \A g \in site.programs : gen[g].pc \in {"idle", "down"}
  BY DEF Init, Idle
<1> QED BY <1>1, <1>2 DEF AInv, Accepted, Promise

\* A specification written of what a program has found.
LEMMA WriteAccepted ==
    ASSUME NoInstaller(Sites), IInv, AInv, NEW g \in site.programs, gen[g].pc = "write", NEW group
    PROVE  Accepted(Generate(Config(g), View(g), gen[g].found, group))
<1> DEFINE c == Config(g)
           found == gen[g].found
<1>1. IsFound(found) /\ c.devicesDisabled \in BOOLEAN /\ (c.devicesDisabled <=> site.kubernetes)
  BY ConfigType, OnlyTheDaemon DEF IInv, TypeOK, GenOK
<1>2. Enough(c, found)
  <2>1. Promise(gen[g])
    BY DEF AInv
  <2> QED BY <1>1, <2>1 DEF Promise, Enough
<1> HIDE DEF c, found
<1>3. Accepted(Generate(c, View(g), found, group))
  BY <1>1, <1>2, GenerateIsAccepted
<1> QED BY <1>3 DEF c, found

LEMMA GenerationKeepsAInv ==
    ASSUME NoInstaller(Sites), DriverInstalled(Sites), IInv, AInv, NEW g \in site.programs, Generation(g)
    PROVE  AInv'
<1>1. site \in Sites /\ host \in Hosts(site) /\ UNCHANGED site
  BY DEF IInv, TypeOK, Generation, ReadRBLN, ReadDependencies, ReadOthers, Read, WriteSpecs, hostVars
<1>2. IF site.kubernetes THEN HasLibrary(HostFiles, site.driverRoot) ELSE HasDevice(HostFiles)
  BY <1>1 DEF DriverInstalled, HostFiles
<1>3. /\ g # "installer"
      /\ site.kubernetes => g = "daemon"
      /\ Config(g).devicesDisabled <=> site.kubernetes
  BY <1>1, OnlyTheDaemon
<1>4. Promise(gen[g]) /\ Accepted(spec.edits) /\ IsFound(gen[g].found)
  BY DEF AInv, IInv, GenOK
<1>5. CASE ReadRBLN(g)
  <2> DEFINE libs == DiscoverRBLN(Config(g), View(g))
             found == [NoFound EXCEPT !.libraries = libs]
             state == [pc |-> "dependencies", found |-> found, from |-> host]
  <2>1. found.libraries = libs
    BY DEF NoFound
  <2>2. site.kubernetes => libs # <<>>
    BY <1>1, <1>2, <1>3, DaemonFinds
  <2>3. gen' = [gen EXCEPT ![g] = state] /\ UNCHANGED spec
    BY <1>5 DEF ReadRBLN, fileVars
  <2>4. Promise(state)
    <3> HIDE DEF found, libs
    <3> QED BY <2>1, <2>2 DEF Promise
  <2> HIDE DEF state
  <2> QED BY <1>1, <1>4, <2>3, <2>4, PromiseStep
<1>6. CASE ReadDependencies(g)
  <2> DEFINE old == gen[g].found
             libs == WithDependencies(Config(g), View(g), old.libraries)
             found == [old EXCEPT !.libraries = libs]
             state == [pc |-> "others", found |-> found, from |-> From(g)]
  <2>1. gen[g].pc = "dependencies" /\ gen' = [gen EXCEPT ![g] = state] /\ UNCHANGED spec
    BY <1>6 DEF ReadDependencies, Read, fileVars
  <2>2. found.libraries = libs
    <3> HIDE DEF libs, old
    <3> QED BY <1>4 DEF IsFound, old
  <2>3. site.kubernetes => libs # <<>>
    <3> DEFINE more == DiscoverDependencies(Config(g), View(g), old.libraries)
    <3>1. IsFiles(old.libraries) /\ IsFiles(more)
      BY <1>1, <1>4, ConfigType, ViewType, DiscoverDependenciesType DEF IsFound
    <3>2. site.kubernetes => old.libraries # <<>>
      BY <1>4, <2>1 DEF Promise
    <3>3. libs = old.libraries \o more
      BY DEF WithDependencies
    <3> HIDE DEF more, old, libs
    <3> QED BY <3>1, <3>2, <3>3, ConcatNonempty DEF IsFiles
  <2>4. Promise(state)
    <3> HIDE DEF found, libs
    <3> QED BY <2>2, <2>3 DEF Promise
  <2> HIDE DEF state
  <2> QED BY <1>1, <1>4, <2>1, <2>4, PromiseStep
<1>7. CASE ReadOthers(g)
  <2> DEFINE old == gen[g].found.libraries
             c == Config(g)
             plugins == DiscoverPlugins(c, View(g))
             devices == DiscoverDevices(c, View(g), {"rbln", "rsd", "rblnfs"})
             found == DiscoverOthers(c, View(g), old)
             state == [pc |-> "write", found |-> found, from |-> From(g)]
  <2>1. gen[g].pc = "others" /\ gen' = [gen EXCEPT ![g] = state] /\ UNCHANGED spec
    BY <1>3, <1>7 DEF ReadOthers, Read, fileVars
  <2>2. found.libraries = old \o plugins /\ (~site.kubernetes => found.devices = devices)
    BY <1>3 DEF DiscoverOthers
  <2>3. site.kubernetes => old \o plugins # <<>>
    <3>1. IsFiles(old) /\ IsFiles(plugins)
      BY <1>1, <1>4, ConfigType, DiscoverPluginsType DEF IsFound
    <3>2. site.kubernetes => old # <<>>
      BY <1>4, <2>1 DEF Promise
    <3> HIDE DEF plugins, old
    <3> QED BY <3>1, <3>2, ConcatNonempty DEF IsFiles
  <2>4. ~site.kubernetes => \E d \in ToSet(devices) : ClassOf(d) \in {"rbln", "rsd"}
    BY <1>1, <1>2, DeviceFound
  <2>5. Promise(state)
    <3> HIDE DEF found, plugins, devices, old
    <3> QED BY <2>2, <2>3, <2>4 DEF Promise
  <2> HIDE DEF state
  <2> QED BY <1>1, <1>4, <2>1, <2>5, PromiseStep
<1>8. CASE WriteSpecs(g)
  <2>1. PICK group : spec' = [edits |-> Generate(Config(g), View(g), gen[g].found, group), from |-> From(g)]
    BY <1>8 DEF WriteSpecs
  <2>2. gen[g].pc = "write" /\ gen' = [gen EXCEPT ![g] = Idle]
    BY <1>8 DEF WriteSpecs
  <2>3. Accepted(spec'.edits)
    BY <2>1, <2>2, WriteAccepted
  <2>4. Promise(Idle)
    BY DEF Promise, Idle
  <2> QED BY <1>1, <2>2, <2>3, <2>4, PromiseStep
<1> QED BY <1>5, <1>6, <1>7, <1>8 DEF Generation

LEMMA NextAInv ==
    ASSUME NoInstaller(Sites), DriverInstalled(Sites), IInv, AInv, [Next]_vars
    PROVE  AInv'
<1>1. Accepted(spec.edits) /\ gen = [g \in site.programs |-> gen[g]]
  BY DEF AInv, IInv, GenOK
<1>2. CASE UNCHANGED <<site, spec, gen>>
  BY <1>2 DEF AInv, Promise
<1>3. ASSUME NEW g \in site.programs, Regenerate(g) PROVE AInv'
  <2>1. gen' = [gen EXCEPT ![g] = [gen[g] EXCEPT !.pc = "generate"]] /\ UNCHANGED <<site, spec>>
    BY <1>3 DEF Regenerate, hostVars, fileVars
  <2>2. [gen[g] EXCEPT !.pc = "generate"].pc = "generate"
    BY DEF IInv, GenOK
  <2>3. Promise([gen[g] EXCEPT !.pc = "generate"])
    BY <2>2 DEF Promise
  <2> QED BY <1>1, <2>1, <2>3, PromiseStep
<1>4. ASSUME NEW g \in site.programs, Kill(g) PROVE AInv'
  <2> DEFINE state == IF g = "daemon" THEN [Idle EXCEPT !.pc = "down"] ELSE Idle
  <2>1. gen' = [gen EXCEPT ![g] = state] /\ UNCHANGED <<site, spec>>
    BY <1>4 DEF Kill, hostVars, fileVars
  <2>2. Promise(state)
    BY DEF Promise, Idle
  <2> HIDE DEF state
  <2> QED BY <1>1, <2>1, <2>2, PromiseStep
<1>5. ASSUME NEW g \in site.programs, Generation(g) PROVE AInv'
  BY <1>5, GenerationKeepsAInv
<1>6. ASSUME "daemon" \in site.programs, Setup PROVE AInv'
  <2>1. PICK pc \in {"install", "copy", "generate"} : gen' = [gen EXCEPT !["daemon"].pc = pc]
    BY <1>6 DEF Setup, StartDaemon, TruncateHook, CopyHook
  <2>2. gen' = [gen EXCEPT !["daemon"] = [gen["daemon"] EXCEPT !.pc = pc]] /\ UNCHANGED <<site, spec>>
    BY <1>6, <2>1 DEF Setup, StartDaemon, TruncateHook, CopyHook, hostVars, fileVars
  <2>3. [gen["daemon"] EXCEPT !.pc = pc].pc = pc
    BY <1>6 DEF IInv, GenOK
  <2>4. Promise([gen["daemon"] EXCEPT !.pc = pc])
    BY <2>3 DEF Promise
  <2> QED BY <1>1, <1>6, <2>2, <2>4, PromiseStep
<1>7. CASE Upgrade \/ Replug \/ Start \/ KillHook \/ StopContainer \/ UNCHANGED vars
  <2>1. UNCHANGED <<site, spec, gen>>
    BY <1>7 DEF Upgrade, Replug, Start, StartContainer, ExecCreateSymlinks, ExecUpdateLdcache, ExecHook,
                CreateSymlinks, CreateSymlinksFails, WriteConf, RunLdconfig, KillHook, StopContainer,
                hostVars, fileVars, vars
  <2> QED BY <1>2, <2>1
<1> QED BY <1>3, <1>4, <1>5, <1>6, <1>7 DEF Next

\* No specification that is written has a device without edits, which the
\* container runtime would refuse: with devices because a node has one, and
\* on Kubernetes, where it has none, because foldCommonEditsIntoEmptyDevices
\* has a library to fold into them - whatever the host became meanwhile.
THEOREM NeverRefused ==
    ASSUME NoInstaller(Sites), DriverInstalled(Sites)
    PROVE  Spec => []SpecAccepted
<1>1. Init => AInv
  BY InitAInv
<1>2. IInv /\ IInv' /\ AInv /\ [Next]_vars => AInv'
  BY NextAInv
<1>3. IInv /\ AInv => SpecAccepted
  <2> SUFFICES ASSUME IInv, AInv PROVE Accepted(rds.edits)
    BY DEF SpecAccepted, AInv
  <2>1. ASSUME NEW n \in DOMAIN rds.edits.devices PROVE rds.edits.devices[n] # NoEdits
    <3>1. {ClassOf([cpath |-> m.src]) : m \in ToSet(rds.edits.devices[n].nodes)} = {"rblnfs"}
      BY DEF IInv, RdsOK
    <3>2. rds.edits.devices[n].nodes # <<>>
      BY <3>1, EmptyIsSeq
    <3> QED BY <3>2 DEF NoEdits
  <2> QED BY <2>1 DEF Accepted
<1> QED BY <1>1, <1>2, <1>3, Invariance, PTL DEF Spec

-----------------------------------------------------------------------------
(* What a specification names is on the host.                               *)

\* The directories, names and files a program looks for have no "..".
LEMMA ClearDefaults ==
    /\ <<>> \in Clear /\ <<"host">> \in Clear /\ PluginDir \in Clear
    /\ ToSet(LibDirs) \subseteq Clear
    /\ \A p \in ToSet(DefaultConfig.providers) : p.library \in Clear /\ p.driver \in Clear
    /\ ToSet(DefaultConfig.binDirs) \subseteq Clear /\ ToSet(DefaultConfig.pluginDirs) = {PluginDir}
    /\ \A t \in ToSet(DefaultConfig.tools) : t # ".."
    /\ DefaultConfig.libDirs = LibDirs
<1>1. /\ <<>> \in Clear /\ <<"host">> \in Clear /\ PluginDir \in Clear
      /\ <<"usr", "lib64">> \in Clear /\ <<"usr", "lib">> \in Clear
      /\ <<"usr", "local", "lib">> \in Clear /\ <<"lib64">> \in Clear
      /\ <<"usr", "bin">> \in Clear /\ <<"usr", "local", "bin">> \in Clear
      /\ <<"usr", "local", "lib", "libbnxt.so">> \in Clear
      /\ <<"etc", "libibverbs.d", "bnxt.driver">> \in Clear
  BY ConfigNames DEF Clear, Path, PluginDir
<1>2. ToSet(LibDirs) \subseteq Clear
  <2> HIDE DEF Clear
  <2> QED BY <1>1 DEF LibDirs, ToSet
<1>3. ToSet(DefaultConfig.binDirs) \subseteq Clear
  BY <1>1 DEF DefaultConfig, ToSet
<1>4. ToSet(DefaultConfig.pluginDirs) = {PluginDir}
  BY OneIsSeq DEF DefaultConfig
<1>5. \A t \in ToSet(DefaultConfig.tools) : t # ".."
  BY OneIsSeq DEF DefaultConfig
<1>6. \A p \in ToSet(DefaultConfig.providers) : p.library \in Clear /\ p.driver \in Clear
  BY <1>1, OneIsSeq DEF DefaultConfig
<1> QED BY <1>1, <1>2, <1>3, <1>4, <1>5, <1>6 DEF DefaultConfig

\* A program's roots, but for the installer's.
LEMMA ProgramRoots ==
    ASSUME site \in Sites, NEW g \in site.programs, g # "installer"
    PROVE  /\ DefaultButForRoots(Config(g))
           /\ Config(g).driverRoot = site.driverRoot
           /\ Config(g).hostRoot = HostMount(g) /\ HostMount(g) \in {<<>>, <<"host">>}
           /\ Config(g).searchRoot = IF HostMount(g) = <<>> THEN <<>> ELSE HostMount(g) \o site.driverRoot
<1>1. site.driverRoot \in Path /\ site.containerPath \in Path /\ <<>> \in Path /\ <<"host">> \in Path
  BY SiteType, ConfigNames DEF Path
<1>2. g \in {"daemon", "cli"}
  BY SiteType
<1>3. CASE g = "daemon"
  <2> DEFINE mount == HostMount("daemon")
             prefix == IF mount = <<>> THEN <<>> ELSE JoinSearchPrefix(mount, site.driverRoot)
  <2>1. Config(g) = [DefaultConfig EXCEPT
        !.driverRoot = site.driverRoot,
        !.hostRoot = mount,
        !.searchRoot = prefix,
        !.containerPath = site.containerPath,
        !.devicesDisabled = site.kubernetes]
    BY <1>3 DEF Config, DaemonConfig
  <2>2. mount = <<"host">> /\ prefix \in Path
    BY <1>1, PathConcat DEF HostMount, JoinSearchPrefix
  <2>3. prefix = IF mount = <<>> THEN <<>> ELSE mount \o site.driverRoot
    BY DEF JoinSearchPrefix
  <2> HIDE DEF prefix, mount
  <2>4. /\ DefaultButForRoots(Config(g)) /\ Config(g).driverRoot = site.driverRoot
        /\ Config(g).hostRoot = mount /\ Config(g).searchRoot = prefix
    BY <1>1, <2>1, <2>2 DEF DefaultButForRoots, DefaultConfig
  <2>5. mount = HostMount(g)
    BY <1>3 DEF mount
  <2> QED BY <2>2, <2>3, <2>4, <2>5
<1>4. CASE g = "cli"
  <2>1. Config(g) = CliConfig /\ HostMount(g) = <<>>
    BY <1>4 DEF Config, HostMount
  <2> QED BY <1>1, <2>1 DEF DefaultButForRoots, CliConfig, DefaultConfig
<1> QED BY <1>2, <1>3, <1>4

\* What the lemmas of DiscoveryProofs ask of a program's view.
SeesAll(g) ==
    /\ Sees(Config(g), View(g), HostFiles) /\ ClearNames(Config(g))
    /\ NoDangling(Config(g), HostFiles) /\ WellApart(Config(g), HostFiles)

LEMMA ProgramSees ==
    ASSUME NoInstaller(Sites), Orderly(Sites), site \in Sites, host \in Hosts(site), NEW g \in site.programs
    PROVE  SeesAll(g)
<1> DEFINE c == Config(g)
           T == HostFiles
           m == HostMount(g)
           r == site.driverRoot
           plugins == r \o PluginDir
<1>1. g # "installer"
  BY OnlyTheDaemon
<1>2. /\ DefaultButForRoots(c) /\ c.driverRoot = r /\ c.hostRoot = m /\ m \in Clear
      /\ c.searchRoot = IF m = <<>> THEN <<>> ELSE m \o r
  BY <1>1, ProgramRoots, ClearDefaults
<1>3. /\ \A n \in ToSet(Names) : n # ".."
      /\ Tidy(T, r)
      /\ \A n \in ToSet(Entries(T, plugins)) \cap SharedObject : Stat(T, plugins \o <<n>>) # NoNode
      /\ r # <<>> /\ m # <<>> => r[1] # m[1]
      /\ \A p \in DOMAIN T : IsPrefix(r, p) => Apart(r, m, SubSeq(p, Len(r) + 1, Len(p)))
      /\ \A d \in ToSet(LibDirs), n \in ToSet(Names) : Apart(r, m, d \o <<n>>)
  BY DEF Orderly, HostFiles
<1>4. Sees(c, View(g), T)
  <2>1. IsTree(T) /\ (<<>> \in DOMAIN T => T[<<>>].kind # "link")
    BY HostsAssumption DEF HostFiles
  <2>2. IsView(View(g), T, m)
    BY <1>2, <2>1, ViewElements DEF IsView
  <2>3. IsConfig(c)
    BY ConfigType
  <2> HIDE DEF c, T, m, r
  <2> QED BY <1>2, <1>3, <2>2, <2>3 DEF Sees
<1> HIDE DEF c, T, m, r
<1>5. ClearNames(c)
  BY <1>2, <1>3, ClearDefaults DEF ClearNames, DefaultButForRoots
<1>6. NoDangling(c, T)
  <2>1. ToSet(c.pluginDirs) = {PluginDir} /\ PluginDir \in Clear /\ PluginDir \in Path
    BY <1>2, ClearDefaults, ClearIsPath DEF DefaultButForRoots
  <2>2. OnHostAt(c, PluginDir) = plugins /\ r \in Path
    BY <1>2, <1>3, ClearIsPath DEF OnHostAt, Tidy
  <2>3. ASSUME NEW n \in ToSet(Entries(T, plugins)) \cap SharedObject PROVE PluginDir \o <<n>> \in There(c, T)
    <3>1. n \in ToSet(Names) /\ n \in Name /\ n # ".."
      BY <1>5, EntriesElements, NamesAre
    <3>2. PluginDir \o <<n>> \in Clear /\ PluginDir \o <<n>> # <<>>
      <4>1. Append(PluginDir, n) = PluginDir \o <<n>> /\ Len(Append(PluginDir, n)) # 0
        BY <2>1, <3>1, LastOf, PathLen
      <4> QED BY <2>1, <3>1, <4>1, ClearAppend, EmptyIsSeq
    <3>3. OnHostAt(c, PluginDir \o <<n>>) = plugins \o <<n>>
      BY <1>2, <2>1, <2>2, <3>1, SingletonPath, ConcatAssoc DEF OnHostAt
    <3> QED BY <1>3, <3>2, <3>3 DEF There
  <2> QED BY <2>1, <2>2, <2>3 DEF NoDangling
<1>7. WellApart(c, T)
  BY <1>2, <1>3, ClearDefaults DEF WellApart, DefaultButForRoots
<1> QED BY <1>4, <1>5, <1>6, <1>7 DEF SeesAll, c, T

\* The devices a program finds are there.
LEMMA DevicesThere ==
    ASSUME Orderly(Sites), site \in Sites, host \in Hosts(site), NEW g \in site.programs, NEW classes
    PROVE  \A d \in ToSet(DiscoverDevices(Config(g), View(g), classes)) : Stat(HostFiles, d.path) # NoNode
<1>1. \A n \in ToSet(Names) \cap DOMAIN DeviceClass :
        <<"dev", n>> \in DOMAIN HostFiles => Stat(HostFiles, <<"dev", n>>) # NoNode
  BY DEF Orderly, HostFiles
<1> DEFINE devices == DiscoverDevices(Config(g), View(g), classes)
<1>2. \A d \in ToSet(devices) :
        \E n \in ToSet(Names) \cap DOMAIN DeviceClass : d.path = <<"dev", n>> /\ <<"dev", n>> \in DOMAIN HostFiles
  BY DevicesFound
<1> HIDE DEF devices
<1>3. \A d \in ToSet(devices) : Stat(HostFiles, d.path) # NoNode
  BY <1>1, <1>2
<1> QED BY <1>3 DEF devices

\* What a scan that has seen one host has found is there, and so is what a
\* specification of one host names.
FoundExists(g, state) ==
    state.from \in Hosts(site) => FoundThere(Config(g), Tree(site, state.from), state.found)

SpecExists ==
    spec.from \in Hosts(site) =>
        \A q \in DOMAIN spec.edits.devices :
            /\ IsThere(Tree(site, spec.from), ToSet(EditsFor(spec.edits, q).mounts))
            /\ IsThere(Tree(site, spec.from), ToSet(EditsFor(spec.edits, q).nodes))

EInv == SpecExists /\ \A g \in site.programs : FoundExists(g, gen[g])

\* Nothing of it depends on what host it is now.
LEMMA SpecExistsFrame == SpecExists /\ UNCHANGED <<site, spec>> => SpecExists'
BY DEF SpecExists, Hosts

LEMMA ConfigFrame == UNCHANGED site => \A g : Config(g)' = Config(g)
BY DEF Config, DaemonConfig, CliConfig, InstallerConfig

LEMMA EInvStep ==
    ASSUME IInv, EInv, UNCHANGED site, SpecExists',
           NEW g \in site.programs, NEW state, FoundExists(g, state), gen' = [gen EXCEPT ![g] = state]
    PROVE  EInv'
<1>1. gen = [h \in site.programs |-> gen[h]]
  BY DEF IInv, GenOK
<1>2. \A h \in site.programs : FoundExists(h, gen'[h])
  <2> TAKE h \in site.programs
  <2>1. gen'[h] = IF h = g THEN state ELSE gen[h]
    BY <1>1
  <2> QED BY <2>1 DEF EInv
<1>3. \A h \in site.programs : FoundExists(h, gen[h])'
  BY <1>2, ConfigFrame DEF FoundExists, Hosts
<1> QED BY <1>3 DEF EInv

\* A scan that began on another host promises nothing.
LEMMA NeverExists ==
    ASSUME site \in Sites, NEW g, NEW state, state.from = NeverOne
    PROVE  FoundExists(g, state)
BY NeverIsNoHost DEF FoundExists

LEMMA InitEInv == ASSUME Init PROVE EInv
<1>1. site \in Sites /\ spec.from = NeverOne
  BY DEF Init, NoFile
<1>2. \A g \in site.programs : gen[g].from = NeverOne
  BY DEF Init, Idle
<1>3. \A g \in site.programs : FoundExists(g, gen[g])
  BY <1>1, <1>2, NeverExists
<1> QED BY <1>1, <1>3, NeverIsNoHost DEF EInv, SpecExists

\* What has been read up to here, if the host is still the same.
LEMMA FoundSoFar ==
    ASSUME IInv, EInv, NEW g \in site.programs, From(g) \in Hosts(site)
    PROVE  From(g) = host /\ Tree(site, From(g)) = HostFiles /\ FoundThere(Config(g), HostFiles, gen[g].found)
<1>1. From(g) = host /\ gen[g].from = host
  BY NeverIsNoHost DEF From, IInv, TypeOK
<1>2. FoundExists(g, gen[g])
  BY DEF EInv
<1> QED BY <1>1, <1>2 DEF FoundExists, IInv, TypeOK, HostFiles

LEMMA ReadRBLNExists ==
    ASSUME NoInstaller(Sites), Orderly(Sites), IInv, EInv, NEW g \in site.programs, ReadRBLN(g)
    PROVE  EInv'
<1> DEFINE libs == DiscoverRBLN(Config(g), View(g))
           found == [NoFound EXCEPT !.libraries = libs]
           state == [pc |-> "dependencies", found |-> found, from |-> host]
           c == Config(g)
<1>1. site \in Sites /\ host \in Hosts(site) /\ SpecExists
  BY DEF IInv, TypeOK, EInv
<1>2. gen' = [gen EXCEPT ![g] = state] /\ UNCHANGED <<site, spec>>
  BY DEF ReadRBLN, fileVars, hostVars
<1>3. found.libraries = libs /\ found.providers = <<>> /\ found.tools = <<>> /\ found.devices = <<>>
  BY DEF NoFound
<1>4. \A l \in ToSet(libs) : l.path \in HostPaths(c, HostFiles)
  BY <1>1, ProgramSees, RBLNThere DEF SeesAll
<1>5. FoundThere(c, HostFiles, found)
  <2> HIDE DEF found, libs, c
  <2> QED BY <1>3, <1>4, EmptyIsSeq DEF FoundThere
<1>6. state.found = found /\ state.from = host
  OBVIOUS
<1>7. FoundExists(g, state)
  <2> HIDE DEF state, found
  <2> QED BY <1>5, <1>6 DEF FoundExists, HostFiles
<1>8. SpecExists'
  BY <1>1, <1>2, SpecExistsFrame
<1> HIDE DEF state
<1> QED BY <1>2, <1>7, <1>8, EInvStep

LEMMA ReadDependenciesExists ==
    ASSUME NoInstaller(Sites), Orderly(Sites), IInv, EInv, NEW g \in site.programs, ReadDependencies(g)
    PROVE  EInv'
<1> DEFINE c == Config(g)
           old == gen[g].found
           more == DiscoverDependencies(c, View(g), old.libraries)
           libs == WithDependencies(c, View(g), old.libraries)
           found == [old EXCEPT !.libraries = libs]
           state == [pc |-> "others", found |-> found, from |-> From(g)]
<1>1. site \in Sites /\ host \in Hosts(site) /\ SpecExists /\ IsFound(old)
  BY DEF IInv, TypeOK, EInv, GenOK
<1>2. gen' = [gen EXCEPT ![g] = state] /\ UNCHANGED <<site, spec>>
  BY DEF ReadDependencies, Read, fileVars, hostVars
<1>3. /\ found.libraries = libs /\ found.providers = old.providers
      /\ found.tools = old.tools /\ found.devices = old.devices
  <2> HIDE DEF libs, old
  <2> QED BY <1>1 DEF IsFound
<1>4. ASSUME From(g) \in Hosts(site) PROVE FoundThere(c, Tree(site, From(g)), found)
  <2>1. Tree(site, From(g)) = HostFiles /\ FoundThere(c, HostFiles, old)
    BY <1>4, FoundSoFar
  <2>2. \A l \in ToSet(old.libraries) : l.path \in HostPaths(c, HostFiles)
    BY <2>1 DEF FoundThere
  <2>3. IsSeq(old.libraries)
    BY <1>1 DEF IsFound, IsFiles
  <2>4. SeesAll(g)
    BY <1>1, ProgramSees
  <2>5. \A l \in ToSet(more) : l.path \in HostPaths(c, HostFiles)
    <3>1. Sees(c, View(g), HostFiles) /\ ClearNames(c) /\ WellApart(c, HostFiles)
      BY <2>4 DEF SeesAll
    <3> HIDE DEF old, c
    <3> QED BY <2>2, <2>3, <3>1, DependenciesThere
  <2>6. libs = old.libraries \o more /\ IsSeq(more)
    <3>1. libs = old.libraries \o more
      BY DEF WithDependencies
    <3>2. IsFiles(more)
      BY <1>1, ConfigType, ViewType, DiscoverDependenciesType DEF IsFound
    <3> QED BY <3>1, <3>2 DEF IsFiles
  <2> HIDE DEF c, old, more, libs, found
  <2>7. ToSet(libs) = ToSet(old.libraries) \cup ToSet(more)
    BY <2>3, <2>6, ConcatIsSeq
  <2> QED BY <1>3, <2>1, <2>2, <2>5, <2>7 DEF FoundThere
<1>5. state.found = found /\ state.from = From(g)
  OBVIOUS
<1>6. FoundExists(g, state)
  <2> HIDE DEF state, found
  <2> QED BY <1>4, <1>5 DEF FoundExists
<1>7. SpecExists'
  BY <1>1, <1>2, SpecExistsFrame
<1> HIDE DEF state
<1> QED BY <1>2, <1>6, <1>7, EInvStep

LEMMA ReadOthersExists ==
    ASSUME NoInstaller(Sites), Orderly(Sites), IInv, EInv, NEW g \in site.programs, ReadOthers(g)
    PROVE  EInv'
<1> DEFINE c == Config(g)
           old == gen[g].found
           plugins == DiscoverPlugins(c, View(g))
           devices == IF c.devicesDisabled THEN <<>> ELSE DiscoverDevices(c, View(g), {"rbln", "rsd", "rblnfs"})
           found == DiscoverOthers(c, View(g), old.libraries)
           state == [pc |-> "write", found |-> found, from |-> From(g)]
<1>1. site \in Sites /\ host \in Hosts(site) /\ SpecExists /\ IsFound(old)
  BY DEF IInv, TypeOK, EInv, GenOK
<1>2. gen' = [gen EXCEPT ![g] = state] /\ UNCHANGED <<site, spec>>
  <2>1. g # "installer"
    BY <1>1, OnlyTheDaemon
  <2> QED BY <2>1 DEF ReadOthers, Read, fileVars, hostVars
<1>3. found = [libraries |-> old.libraries \o plugins,
               providers |-> DiscoverRDMAProviders(c, View(g)),
               tools |-> DiscoverTools(c, View(g)),
               devices |-> devices]
  BY DEF DiscoverOthers
<1>4. ASSUME From(g) \in Hosts(site) PROVE FoundThere(c, Tree(site, From(g)), found)
  <2>1. Tree(site, From(g)) = HostFiles /\ FoundThere(c, HostFiles, old)
    BY <1>4, FoundSoFar
  <2>2. \A l \in ToSet(old.libraries) : l.path \in HostPaths(c, HostFiles)
    BY <2>1 DEF FoundThere
  <2>3. Sees(c, View(g), HostFiles) /\ ClearNames(c) /\ NoDangling(c, HostFiles)
    BY <1>1, ProgramSees DEF SeesAll
  <2>4. \A l \in ToSet(plugins) : l.path \in HostPaths(c, HostFiles)
    BY <2>3, PluginsThere
  <2>5. \A t \in ToSet(DiscoverTools(c, View(g))) : t.path \in HostPaths(c, HostFiles)
    BY <2>3, ToolsThere
  <2>6. \A p \in ToSet(DiscoverRDMAProviders(c, View(g))) :
          Stat(HostFiles, p.path) # NoNode /\ (p.driver # <<>> => Stat(HostFiles, p.driver) # NoNode)
    BY <2>3, ProvidersThere
  <2>7. \A d \in ToSet(devices) : Stat(HostFiles, d.path) # NoNode
    BY <1>1, DevicesThere, EmptyIsSeq
  <2>8. IsSeq(old.libraries) /\ IsSeq(plugins)
    BY <1>1, ConfigType, DiscoverPluginsType DEF IsFound, IsFiles
  <2> HIDE DEF c, old, plugins, devices, found
  <2>9. ToSet(old.libraries \o plugins) = ToSet(old.libraries) \cup ToSet(plugins)
    BY <2>8, ConcatIsSeq
  <2> QED BY <1>3, <2>1, <2>2, <2>4, <2>5, <2>6, <2>7, <2>9 DEF FoundThere
<1>5. state.found = found /\ state.from = From(g)
  OBVIOUS
<1>6. FoundExists(g, state)
  <2> HIDE DEF state, found
  <2> QED BY <1>4, <1>5 DEF FoundExists
<1>7. SpecExists'
  BY <1>1, <1>2, SpecExistsFrame
<1> HIDE DEF state
<1> QED BY <1>2, <1>6, <1>7, EInvStep

LEMMA WriteSpecsExists ==
    ASSUME IInv, EInv, NEW g \in site.programs, WriteSpecs(g)
    PROVE  EInv'
<1> DEFINE c == Config(g)
           found == gen[g].found
           fs == View(g)
<1>1. site \in Sites /\ host \in Hosts(site) /\ IsFound(found) /\ c.devicesDisabled \in BOOLEAN
  BY ConfigType DEF IInv, TypeOK, GenOK
<1>2. PICK group : spec' = [edits |-> Generate(c, fs, found, group), from |-> From(g)]
  BY DEF WriteSpecs
<1>3. gen' = [gen EXCEPT ![g] = Idle] /\ UNCHANGED site
  BY DEF WriteSpecs, hostVars
<1>4. ASSUME From(g) \in Hosts(site), NEW q \in DOMAIN Generate(c, fs, found, group).devices
      PROVE  /\ IsThere(Tree(site, From(g)), ToSet(EditsFor(Generate(c, fs, found, group), q).mounts))
             /\ IsThere(Tree(site, From(g)), ToSet(EditsFor(Generate(c, fs, found, group), q).nodes))
  <2>1. Tree(site, From(g)) = HostFiles /\ FoundThere(c, HostFiles, found)
    BY <1>4, FoundSoFar
  <2> HIDE DEF c, found, fs
  <2> QED BY <1>1, <1>4, <2>1, GenerateThere
<1>5. SpecExists'
  <2> DEFINE edits == Generate(c, fs, found, group)
  <2>1. spec'.edits = edits /\ spec'.from = From(g)
    BY <1>2
  <2>2. From(g) \in Hosts(site) =>
          \A q \in DOMAIN edits.devices :
            /\ IsThere(Tree(site, From(g)), ToSet(EditsFor(edits, q).mounts))
            /\ IsThere(Tree(site, From(g)), ToSet(EditsFor(edits, q).nodes))
    BY <1>4
  <2> HIDE DEF edits
  <2> QED BY <1>3, <2>1, <2>2 DEF SpecExists, Hosts
<1>6. FoundExists(g, Idle)
  <2>1. Idle.from = NeverOne
    BY DEF Idle
  <2> QED BY <1>1, <2>1, NeverExists
<1> QED BY <1>3, <1>5, <1>6, EInvStep

LEMMA NextEInv ==
    ASSUME NoInstaller(Sites), Orderly(Sites), IInv, EInv, [Next]_vars
    PROVE  EInv'
<1>1. SpecExists /\ site \in Sites
  BY DEF EInv, IInv, TypeOK
<1>2. CASE UNCHANGED <<site, spec, gen>>
  BY <1>2, ConfigFrame DEF EInv, SpecExists, FoundExists, Hosts
<1>3. ASSUME NEW g \in site.programs, NEW pc, UNCHANGED <<site, spec>>,
             gen' = [gen EXCEPT ![g] = [gen[g] EXCEPT !.pc = pc]]
      PROVE  EInv'
  <2> DEFINE state == [gen[g] EXCEPT !.pc = pc]
  <2>1. state.found = gen[g].found /\ state.from = gen[g].from
    BY DEF IInv, GenOK
  <2>2. gen' = [gen EXCEPT ![g] = state]
    BY <1>3
  <2>3. SpecExists'
    BY <1>1, <1>3, SpecExistsFrame
  <2> HIDE DEF state
  <2>4. FoundExists(g, state)
    BY <2>1 DEF FoundExists, EInv
  <2> QED BY <1>3, <2>2, <2>3, <2>4, EInvStep
<1>4. ASSUME NEW g \in site.programs, Regenerate(g) PROVE EInv'
  <2>1. gen' = [gen EXCEPT ![g] = [gen[g] EXCEPT !.pc = "generate"]] /\ UNCHANGED <<site, spec>>
    BY <1>4 DEF Regenerate, hostVars, fileVars
  <2> QED BY <1>3, <2>1
<1>5. ASSUME NEW g \in site.programs, Kill(g) PROVE EInv'
  <2> DEFINE state == IF g = "daemon" THEN [Idle EXCEPT !.pc = "down"] ELSE Idle
  <2>1. gen' = [gen EXCEPT ![g] = state] /\ UNCHANGED <<site, spec>>
    BY <1>5 DEF Kill, hostVars, fileVars
  <2>2. state.from = NeverOne
    BY DEF Idle
  <2>3. SpecExists'
    BY <1>1, <2>1, SpecExistsFrame
  <2> HIDE DEF state
  <2> QED BY <1>1, <2>1, <2>2, <2>3, NeverExists, EInvStep
<1>6. ASSUME NEW g \in site.programs, Generation(g) PROVE EInv'
  BY <1>6, ReadRBLNExists, ReadDependenciesExists, ReadOthersExists, WriteSpecsExists DEF Generation
<1>7. ASSUME "daemon" \in site.programs, Setup PROVE EInv'
  <2>1. PICK pc \in {"install", "copy", "generate"} : gen' = [gen EXCEPT !["daemon"].pc = pc]
    BY <1>7 DEF Setup, StartDaemon, TruncateHook, CopyHook
  <2>2. gen' = [gen EXCEPT !["daemon"] = [gen["daemon"] EXCEPT !.pc = pc]] /\ UNCHANGED <<site, spec>>
    BY <1>7, <2>1 DEF Setup, StartDaemon, TruncateHook, CopyHook, hostVars, fileVars
  <2> QED BY <1>3, <1>7, <2>2
<1>8. CASE Upgrade \/ Replug \/ Start \/ KillHook \/ StopContainer \/ UNCHANGED vars
  <2>1. UNCHANGED <<site, spec, gen>>
    BY <1>8 DEF Upgrade, Replug, Start, StartContainer, ExecCreateSymlinks, ExecUpdateLdcache, ExecHook,
                CreateSymlinks, CreateSymlinksFails, WriteConf, RunLdconfig, KillHook, StopContainer,
                hostVars, fileVars, vars
  <2> QED BY <1>2, <2>1
<1> QED BY <1>4, <1>5, <1>6, <1>7, <1>8 DEF Next

\* A specification that every read and the write made of one host, which is
\* still as it was, names nothing the host does not have: through whatever
\* mount the program saw the host, discovery's exchange of the roots
\* (ToHostPath, ToSearchRootPath, ToDriverRootPath) leads back to what it has
\* seen, for libraries, what they need, plugins, providers, tools and devices.
THEOREM HostPathsThere ==
    ASSUME NoInstaller(Sites), Orderly(Sites)
    PROVE  Spec => []HostPathsExist
<1>1. Init => EInv
  BY InitEInv
<1>2. IInv /\ IInv' /\ EInv /\ [Next]_vars => EInv'
  BY NextEInv
<1>3. IInv /\ EInv => HostPathsExist
  <2> SUFFICES ASSUME IInv, EInv, spec.from = host,
                      NEW q \in DOMAIN spec.edits.devices, NEW p \in Sources(EditsFor(spec.edits, q))
               PROVE  OnHost(p)
    BY DEF HostPathsExist, Fresh
  <2>1. /\ IsThere(HostFiles, ToSet(EditsFor(spec.edits, q).mounts))
        /\ IsThere(HostFiles, ToSet(EditsFor(spec.edits, q).nodes))
    BY DEF EInv, SpecExists, IInv, TypeOK, HostFiles
  <2> QED BY <2>1 DEF IsThere, Sources, OnHost
<1> QED BY <1>1, <1>2, <1>3, Invariance, PTL DEF Spec

-----------------------------------------------------------------------------
(* The daemon and rbln-ctk make the same of a host.                         *)

\* A program in a container and the one on the host see the same.
LEMMA ProgramsSee ==
    ASSUME NoInstaller(Sites), Orderly(Sites), site \in Sites, host \in Hosts(site), NEW g \in site.programs
    PROVE  /\ BothSee(Config(g), View(g), CliConfig, HostFiles)
           /\ <<>> \notin ToSet(Config(g).pluginDirs)
<1> DEFINE c == Config(g)
           h == CliConfig
<1>1. g \in {"daemon", "cli"}
  BY SiteType, OnlyTheDaemon
<1>2. DefaultButForRoots(c) /\ c.driverRoot = site.driverRoot
  BY <1>1, ProgramRoots
<1>3. c.containerPath = site.containerPath
  BY <1>1 DEF Config, DaemonConfig, CliConfig, DefaultConfig
<1>4. /\ h.hostRoot = <<>> /\ h.searchRoot = <<>>
      /\ h.driverRoot = site.driverRoot /\ h.containerPath = site.containerPath
  BY DEF CliConfig, DefaultConfig
<1>5. /\ h.libDirs = DefaultConfig.libDirs /\ h.pluginDirs = DefaultConfig.pluginDirs
      /\ h.binDirs = DefaultConfig.binDirs /\ h.tools = DefaultConfig.tools
      /\ h.providers = DefaultConfig.providers /\ h.providerDir = DefaultConfig.providerDir
  BY DEF CliConfig, DefaultConfig
<1>6. SeesAll(g)
  BY ProgramSees
<1>7. PluginDir # <<>> /\ ToSet(DefaultConfig.pluginDirs) = {PluginDir}
  BY ClearDefaults DEF PluginDir
<1> HIDE DEF c, h
<1>8. Twin(c, h)
  BY <1>2, <1>3, <1>4, <1>5 DEF Twin, DefaultButForRoots
<1>9. <<>> \notin ToSet(c.pluginDirs)
  BY <1>2, <1>7 DEF DefaultButForRoots
<1>10. Sees(c, View(g), HostFiles) /\ ClearNames(c) /\ WellApart(c, HostFiles)
  BY <1>6 DEF SeesAll, c
<1>11. BothSee(c, View(g), h, HostFiles)
  BY <1>8, <1>10, TwinSees
<1> QED BY <1>9, <1>11 DEF c, h

\* What has been found up to a step, and what is written of it, is what a
\* program on the host would have, had it seen that one host.
FoundAlike(h, T, state) ==
    LET rbln == DiscoverRBLN(h, T)
        all == DiscoverResources(h, T)
    IN  /\ state.pc = "dependencies" => state.found.libraries = rbln
        /\ state.pc = "others" => state.found.libraries = WithDependencies(h, T, rbln)
        /\ state.pc = "write" => /\ state.found.libraries = all.libraries
                                 /\ state.found.providers = all.providers
                                 /\ state.found.tools = all.tools

ScanAgrees(state) == state.from \in Hosts(site) => FoundAlike(CliConfig, Tree(site, state.from), state)

SpecAgrees ==
    spec.from \in Hosts(site) =>
        LET T == Tree(site, spec.from)
        IN  spec.edits.common = BuildCommonEdits(CliConfig, T, DiscoverResources(CliConfig, T))

PInv == ~site.kubernetes => SpecAgrees /\ \A g \in site.programs : ScanAgrees(gen[g])

LEMMA SpecAgreesFrame == SpecAgrees /\ UNCHANGED <<site, spec>> => SpecAgrees'
BY DEF SpecAgrees, Hosts, CliConfig

LEMMA PInvStep ==
    ASSUME IInv, PInv, UNCHANGED site, ~site.kubernetes => SpecAgrees',
           NEW g \in site.programs, NEW state, ~site.kubernetes => ScanAgrees(state), gen' = [gen EXCEPT ![g] = state]
    PROVE  PInv'
<1>1. gen = [h \in site.programs |-> gen[h]]
  BY DEF IInv, GenOK
<1>2. ASSUME ~site.kubernetes PROVE \A h \in site.programs : ScanAgrees(gen'[h])
  <2> TAKE h \in site.programs
  <2>1. gen'[h] = IF h = g THEN state ELSE gen[h]
    BY <1>1
  <2> QED BY <1>2, <2>1 DEF PInv
<1>3. \A h \in site.programs : ScanAgrees(gen'[h]) => ScanAgrees(gen[h])'
  BY DEF ScanAgrees, Hosts, CliConfig
<1> QED BY <1>2, <1>3 DEF PInv

\* Steps at which nothing has been found yet promise nothing.
LEMMA NothingAgrees ==
    ASSUME NEW state, state.pc \notin {"dependencies", "others", "write"}
    PROVE  ScanAgrees(state)
BY DEF ScanAgrees, FoundAlike

LEMMA InitPInv == ASSUME Init PROVE PInv
<1>1. site \in Sites /\ spec.from = NeverOne
  BY DEF Init, NoFile
<1>2. \A g \in site.programs : gen[g].pc \in {"idle", "down"}
  BY DEF Init, Idle
<1>3. \A g \in site.programs : ScanAgrees(gen[g])
  BY <1>2, NothingAgrees
<1> QED BY <1>1, <1>3, NeverIsNoHost DEF PInv, SpecAgrees

LEMMA FoundSoFarAgrees ==
    ASSUME IInv, EInv, PInv, ~site.kubernetes, NEW g \in site.programs, From(g) \in Hosts(site)
    PROVE  /\ Tree(site, From(g)) = HostFiles /\ FoundAlike(CliConfig, HostFiles, gen[g])
           /\ IsFound(gen[g].found) /\ FoundThere(Config(g), HostFiles, gen[g].found)
<1>1. From(g) = host /\ gen[g].from = host
  BY NeverIsNoHost DEF From, IInv, TypeOK
<1>2. ScanAgrees(gen[g])
  BY DEF PInv
<1> QED BY <1>1, <1>2, FoundSoFar DEF ScanAgrees, IInv, GenOK, TypeOK, HostFiles

LEMMA ReadRBLNAgrees ==
    ASSUME NoInstaller(Sites), Orderly(Sites), IInv, PInv, NEW g \in site.programs, ReadRBLN(g)
    PROVE  PInv'
<1> DEFINE libs == DiscoverRBLN(Config(g), View(g))
           found == [NoFound EXCEPT !.libraries = libs]
           state == [pc |-> "dependencies", found |-> found, from |-> host]
<1>1. site \in Sites /\ host \in Hosts(site)
  BY DEF IInv, TypeOK
<1>2. gen' = [gen EXCEPT ![g] = state] /\ UNCHANGED <<site, spec>>
  BY DEF ReadRBLN, fileVars, hostVars
<1>3. found.libraries = libs
  BY DEF NoFound
<1>4. libs = DiscoverRBLN(CliConfig, HostFiles)
  BY <1>1, ProgramsSee, RBLNSame
<1>5. state.pc = "dependencies" /\ state.found = found /\ state.from = host
  OBVIOUS
<1>6. ScanAgrees(state)
  <2> HIDE DEF state, found
  <2> QED BY <1>3, <1>4, <1>5 DEF ScanAgrees, FoundAlike, HostFiles
<1>7. ~site.kubernetes => SpecAgrees'
  BY <1>2, SpecAgreesFrame DEF PInv
<1> HIDE DEF state
<1> QED BY <1>2, <1>6, <1>7, PInvStep

LEMMA ReadDependenciesAgrees ==
    ASSUME NoInstaller(Sites), Orderly(Sites), IInv, EInv, PInv, NEW g \in site.programs, ReadDependencies(g)
    PROVE  PInv'
<1> DEFINE c == Config(g)
           h == CliConfig
           old == gen[g].found
           libs == WithDependencies(c, View(g), old.libraries)
           found == [old EXCEPT !.libraries = libs]
           state == [pc |-> "others", found |-> found, from |-> From(g)]
<1>1. site \in Sites /\ host \in Hosts(site) /\ IsFound(old)
  BY DEF IInv, TypeOK, GenOK
<1>2. gen[g].pc = "dependencies" /\ gen' = [gen EXCEPT ![g] = state] /\ UNCHANGED <<site, spec>>
  BY DEF ReadDependencies, Read, fileVars, hostVars
<1>3. found.libraries = libs
  <2> HIDE DEF libs, old
  <2> QED BY <1>1 DEF IsFound
<1>4. ASSUME ~site.kubernetes, From(g) \in Hosts(site)
      PROVE  Tree(site, From(g)) = HostFiles /\ libs = WithDependencies(h, HostFiles, DiscoverRBLN(h, HostFiles))
  <2>1. /\ Tree(site, From(g)) = HostFiles /\ old.libraries = DiscoverRBLN(h, HostFiles)
        /\ FoundThere(c, HostFiles, old)
    BY <1>2, <1>4, FoundSoFarAgrees DEF FoundAlike
  <2>2. IsSeq(old.libraries) /\ \A l \in ToSet(old.libraries) : l.path \in HostPaths(c, HostFiles)
    BY <1>1, <2>1 DEF FoundThere, IsFound, IsFiles
  <2>3. BothSee(c, View(g), h, HostFiles)
    BY <1>1, ProgramsSee
  <2>4. DiscoverDependencies(c, View(g), old.libraries) = DiscoverDependencies(h, HostFiles, old.libraries)
    <3> HIDE DEF c, h, old
    <3> QED BY <2>2, <2>3, DependenciesSame
  <2> QED BY <2>1, <2>4 DEF WithDependencies
<1>5. state.pc = "others" /\ state.found = found /\ state.from = From(g)
  OBVIOUS
<1>6. ~site.kubernetes => ScanAgrees(state)
  <2> HIDE DEF state, found, libs
  <2> QED BY <1>3, <1>4, <1>5 DEF ScanAgrees, FoundAlike
<1>7. ~site.kubernetes => SpecAgrees'
  BY <1>2, SpecAgreesFrame DEF PInv
<1> HIDE DEF state
<1> QED BY <1>2, <1>6, <1>7, PInvStep

LEMMA ReadOthersAgrees ==
    ASSUME NoInstaller(Sites), Orderly(Sites), IInv, EInv, PInv, NEW g \in site.programs, ReadOthers(g)
    PROVE  PInv'
<1> DEFINE c == Config(g)
           h == CliConfig
           old == gen[g].found
           found == DiscoverOthers(c, View(g), old.libraries)
           all == DiscoverResources(h, HostFiles)
           state == [pc |-> "write", found |-> found, from |-> From(g)]
<1>1. site \in Sites /\ host \in Hosts(site)
  BY DEF IInv, TypeOK
<1>2. gen[g].pc = "others" /\ gen' = [gen EXCEPT ![g] = state] /\ UNCHANGED <<site, spec>>
  <2>1. g # "installer"
    BY <1>1, OnlyTheDaemon
  <2> QED BY <2>1 DEF ReadOthers, Read, fileVars, hostVars
<1>3. /\ found.libraries = old.libraries \o DiscoverPlugins(c, View(g))
      /\ found.providers = DiscoverRDMAProviders(c, View(g)) /\ found.tools = DiscoverTools(c, View(g))
  BY DEF DiscoverOthers
<1>4. /\ all.libraries = WithDependencies(h, HostFiles, DiscoverRBLN(h, HostFiles)) \o DiscoverPlugins(h, HostFiles)
      /\ all.providers = DiscoverRDMAProviders(h, HostFiles) /\ all.tools = DiscoverTools(h, HostFiles)
  BY DEF DiscoverResources, DiscoverOthers
<1>5. /\ DiscoverPlugins(c, View(g)) = DiscoverPlugins(h, HostFiles)
      /\ DiscoverRDMAProviders(c, View(g)) = DiscoverRDMAProviders(h, HostFiles)
      /\ DiscoverTools(c, View(g)) = DiscoverTools(h, HostFiles)
  BY <1>1, ProgramsSee, PluginsSame, ProvidersSame, ToolsSame
<1>6. ASSUME ~site.kubernetes, From(g) \in Hosts(site)
      PROVE  Tree(site, From(g)) = HostFiles /\ old.libraries = WithDependencies(h, HostFiles, DiscoverRBLN(h, HostFiles))
  BY <1>2, <1>6, FoundSoFarAgrees DEF FoundAlike
<1>7. state.pc = "write" /\ state.found = found /\ state.from = From(g)
  OBVIOUS
<1>8. ~site.kubernetes => ScanAgrees(state)
  <2> HIDE DEF state, found, all, old
  <2>1. ASSUME ~site.kubernetes, From(g) \in Hosts(site)
        PROVE  /\ Tree(site, From(g)) = HostFiles
               /\ found.libraries = all.libraries /\ found.providers = all.providers /\ found.tools = all.tools
    BY <1>3, <1>4, <1>5, <1>6, <2>1
  <2> QED BY <1>7, <2>1 DEF ScanAgrees, FoundAlike, all
<1>9. ~site.kubernetes => SpecAgrees'
  BY <1>2, SpecAgreesFrame DEF PInv
<1> HIDE DEF state
<1> QED BY <1>2, <1>8, <1>9, PInvStep

\* The edits depend on libraries, providers and tools.
LEMMA EditsOfSame ==
    ASSUME NEW h, NEW T, NEW found, NEW all,
           found.libraries = all.libraries, found.providers = all.providers, found.tools = all.tools
    PROVE  BuildCommonEdits(h, T, found) = BuildCommonEdits(h, T, all)
<1>1. CommonMounts(found) = CommonMounts(all)
  BY DEF CommonMounts
<1>2. LibraryFolders(found) = LibraryFolders(all)
  BY DEF LibraryFolders
<1> QED BY <1>1, <1>2 DEF BuildCommonEdits

LEMMA WriteSpecsAgrees ==
    ASSUME NoInstaller(Sites), Orderly(Sites), IInv, EInv, PInv, NEW g \in site.programs, WriteSpecs(g)
    PROVE  PInv'
<1> DEFINE c == Config(g)
           h == CliConfig
           found == gen[g].found
           fs == View(g)
           all == DiscoverResources(h, HostFiles)
<1>1. site \in Sites /\ host \in Hosts(site) /\ IsFound(found) /\ c.devicesDisabled \in BOOLEAN
  BY ConfigType DEF IInv, TypeOK, GenOK
<1>2. PICK group : spec' = [edits |-> Generate(c, fs, found, group), from |-> From(g)]
  BY DEF WriteSpecs
<1>3. gen[g].pc = "write" /\ gen' = [gen EXCEPT ![g] = Idle] /\ UNCHANGED site
  BY DEF WriteSpecs, hostVars
<1>4. ASSUME ~site.kubernetes, From(g) \in Hosts(site)
      PROVE  /\ Tree(site, From(g)) = HostFiles
             /\ Generate(c, fs, found, group).common = BuildCommonEdits(h, HostFiles, all)
  <2>1. /\ Tree(site, From(g)) = HostFiles /\ FoundThere(c, HostFiles, found)
        /\ found.libraries = all.libraries /\ found.providers = all.providers /\ found.tools = all.tools
    BY <1>3, <1>4, FoundSoFarAgrees DEF FoundAlike
  <2>2. ~c.devicesDisabled
    BY <1>1, <1>4, OnlyTheDaemon
  <2>3. BothSee(c, fs, h, HostFiles)
    BY <1>1, ProgramsSee
  <2> HIDE DEF c, h, found, fs, all
  <2>4. Generate(c, fs, found, group).common = BuildCommonEdits(c, fs, found)
    BY <1>1, <2>2, GenerateNodes DEF Generated
  <2>5. IsSeq(found.libraries) /\ \A l \in ToSet(found.libraries) : l.path \in HostPaths(c, HostFiles)
    BY <1>1, <2>1 DEF FoundThere, IsFound, IsFiles
  <2>6. BuildCommonEdits(c, fs, found) = BuildCommonEdits(h, HostFiles, found)
    BY <2>3, <2>5, CommonEditsSame
  <2>7. BuildCommonEdits(h, HostFiles, found) = BuildCommonEdits(h, HostFiles, all)
    BY <2>1, EditsOfSame
  <2> QED BY <2>1, <2>4, <2>6, <2>7
<1>5. ~site.kubernetes => SpecAgrees'
  <2> DEFINE edits == Generate(c, fs, found, group)
             T == Tree(site, From(g))
  <2>1. spec'.edits = edits /\ spec'.from = From(g)
    BY <1>2
  <2>2. ~site.kubernetes /\ From(g) \in Hosts(site)
        => edits.common = BuildCommonEdits(h, T, DiscoverResources(h, T))
    BY <1>4
  <2>3. Hosts(site)' = Hosts(site) /\ CliConfig' = h /\ site' = site
    BY <1>3 DEF Hosts, CliConfig
  <2> HIDE DEF edits, h
  <2>4. SpecAgrees' <=> (spec'.from \in Hosts(site)' =>
           spec'.edits.common = BuildCommonEdits(CliConfig', Tree(site', spec'.from), DiscoverResources(CliConfig', Tree(site', spec'.from))))
    BY DEF SpecAgrees
  <2> QED BY <2>1, <2>2, <2>3, <2>4
<1>6. ScanAgrees(Idle)
  BY NothingAgrees DEF Idle
<1> QED BY <1>3, <1>5, <1>6, PInvStep

LEMMA NextPInv ==
    ASSUME NoInstaller(Sites), Orderly(Sites), IInv, EInv, PInv, [Next]_vars
    PROVE  PInv'
<1>1. ~site.kubernetes => SpecAgrees
  BY DEF PInv
<1>2. CASE UNCHANGED <<site, spec, gen>>
  BY <1>2 DEF PInv, SpecAgrees, ScanAgrees, Hosts, CliConfig
<1>3. ASSUME NEW g \in site.programs, NEW pc, pc \notin {"dependencies", "others", "write"}, UNCHANGED <<site, spec>>,
             gen' = [gen EXCEPT ![g] = [gen[g] EXCEPT !.pc = pc]]
      PROVE  PInv'
  <2> DEFINE state == [gen[g] EXCEPT !.pc = pc]
  <2>1. state.pc = pc
    BY DEF IInv, GenOK
  <2>2. gen' = [gen EXCEPT ![g] = state]
    BY <1>3
  <2>3. ~site.kubernetes => SpecAgrees'
    BY <1>1, <1>3, SpecAgreesFrame
  <2> HIDE DEF state
  <2>4. ScanAgrees(state)
    BY <1>3, <2>1, NothingAgrees
  <2> QED BY <1>3, <2>2, <2>3, <2>4, PInvStep
<1>4. ASSUME NEW g \in site.programs, Regenerate(g) PROVE PInv'
  <2>1. PICK pc : pc = "generate"
    OBVIOUS
  <2>2. gen' = [gen EXCEPT ![g] = [gen[g] EXCEPT !.pc = pc]] /\ UNCHANGED <<site, spec>>
    BY <1>4, <2>1 DEF Regenerate, hostVars, fileVars
  <2>3. pc \notin {"dependencies", "others", "write"}
    BY <2>1
  <2> QED BY <1>3, <2>2, <2>3
<1>5. ASSUME NEW g \in site.programs, Kill(g) PROVE PInv'
  <2> DEFINE state == IF g = "daemon" THEN [Idle EXCEPT !.pc = "down"] ELSE Idle
  <2>1. gen' = [gen EXCEPT ![g] = state] /\ UNCHANGED <<site, spec>>
    BY <1>5 DEF Kill, hostVars, fileVars
  <2>2. state.pc \in {"idle", "down"}
    BY DEF Idle
  <2>3. ~site.kubernetes => SpecAgrees'
    BY <1>1, <2>1, SpecAgreesFrame
  <2> HIDE DEF state
  <2> QED BY <2>1, <2>2, <2>3, NothingAgrees, PInvStep
<1>6. ASSUME NEW g \in site.programs, Generation(g) PROVE PInv'
  BY <1>6, ReadRBLNAgrees, ReadDependenciesAgrees, ReadOthersAgrees, WriteSpecsAgrees DEF Generation
<1>7. ASSUME "daemon" \in site.programs, Setup PROVE PInv'
  <2>1. PICK pc \in {"install", "copy", "generate"} : gen' = [gen EXCEPT !["daemon"].pc = pc]
    BY <1>7 DEF Setup, StartDaemon, TruncateHook, CopyHook
  <2>2. gen' = [gen EXCEPT !["daemon"] = [gen["daemon"] EXCEPT !.pc = pc]] /\ UNCHANGED <<site, spec>>
    BY <1>7, <2>1 DEF Setup, StartDaemon, TruncateHook, CopyHook, hostVars, fileVars
  <2> QED BY <1>3, <1>7, <2>2
<1>8. CASE Upgrade \/ Replug \/ Start \/ KillHook \/ StopContainer \/ UNCHANGED vars
  <2>1. UNCHANGED <<site, spec, gen>>
    BY <1>8 DEF Upgrade, Replug, Start, StartContainer, ExecCreateSymlinks, ExecUpdateLdcache, ExecHook,
                CreateSymlinks, CreateSymlinksFails, WriteConf, RunLdconfig, KillHook, StopContainer,
                hostVars, fileVars, vars
  <2> QED BY <1>2, <2>1
<1> QED BY <1>4, <1>5, <1>6, <1>7, <1>8 DEF Next

\* The daemon in its container and rbln-ctk on the host make the same of a
\* host: the mounts, links and directories every container gets are, in the
\* same order, what one scan by rbln-ctk would give, if every read and the
\* write have seen that host - whoever wrote, through whatever mount, however
\* the host changed before and after.
THEOREM ProgramsDoAgree ==
    ASSUME NoInstaller(Sites), Orderly(Sites)
    PROVE  Spec => []ProgramsAgree
<1>1. Init => EInv /\ PInv
  BY InitEInv, InitPInv
<1>2. IInv /\ IInv' /\ EInv /\ PInv /\ [Next]_vars => EInv' /\ PInv'
  BY NextEInv, NextPInv
<1>3. IInv /\ EInv /\ PInv => ProgramsAgree
  <2> SUFFICES ASSUME IInv, PInv, ~site.kubernetes, spec.from = host
               PROVE  spec.edits.common = BuildCommonEdits(CliConfig, HostFiles, DiscoverResources(CliConfig, HostFiles))
    BY DEF ProgramsAgree, Fresh
  <2> QED BY DEF PInv, SpecAgrees, IInv, TypeOK, HostFiles
<1> QED BY <1>1, <1>2, <1>3, Invariance, PTL DEF Spec
=============================================================================
