---------------------------- MODULE CdiGenerator ----------------------------
(***************************************************************************)
(* The CDI specification made of what was discovered                       *)
(* (internal/cdi/generator.go) and the discovery it is made from           *)
(* (DiscoverResources, GenerateCDISpec in internal/cdi/setup/setup.go).    *)
(*                                                                         *)
(* The edits of a specification or of one of its devices are               *)
(*   [mounts |-> seq of [src, dst], links |-> seq of [target, at],         *)
(*    folders |-> set of directories, nodes |-> seq of [src, dst]]:        *)
(* bind mounts, the create-symlinks and the update-ldcache hook (absent    *)
(* when empty; the first always before the second), and device nodes.      *)
(* LD_LIBRARY_PATH needs a folder and no hook, and a folder always brings  *)
(* the second hook, so there is never an environment variable.             *)
(***************************************************************************)
EXTENDS Discovery

CONSTANTS
    SoLink,     \* the names that contain .so -> what is left behind it cut off
    NoName

ASSUME GeneratorAssumption == {NoName} \cup {SoLink[n] : n \in DOMAIN SoLink} \subseteq Name

NoEdits == [mounts |-> <<>>, links |-> <<>>, folders |-> {}, nodes |-> <<>>]
NoSpecification == [common |-> NoEdits, devices |-> [n \in {} |-> NoEdits]]

-----------------------------------------------------------------------------
(* What every container gets.                                               *)

\* DiscoverResources, after the driver's libraries and what they need:
\* nothing is looked for behind a plugin, a provider or a tool.
DiscoverOthers(c, fs, libraries) ==
    [libraries |-> libraries \o DiscoverPlugins(c, fs),
     providers |-> DiscoverRDMAProviders(c, fs),
     tools |-> DiscoverTools(c, fs),
     devices |-> IF c.devicesDisabled THEN <<>>
                 ELSE DiscoverDevices(c, fs, {"rbln", "rsd", "rblnfs"})]

WithDependencies(c, fs, rbln) == rbln \o DiscoverDependencies(c, fs, rbln)

\* All of DiscoverResources on one tree.
DiscoverResources(c, fs) == DiscoverOthers(c, fs, WithDependencies(c, fs, DiscoverRBLN(c, fs)))

\* The provider and, when configured, its registration file.
ProviderMounts(p) ==
    <<[src |-> p.path, dst |-> p.cpath]>>
    \o (IF p.driver = <<>> THEN <<>> ELSE <<[src |-> p.driver, dst |-> p.driver]>>)

Mount(x) == [src |-> x.path, dst |-> x.cpath]

\* Mutant: libraries come before providers.
CommonMounts_LibrariesFirst(found) ==
    FirstOf([i \in DOMAIN found.libraries |-> Mount(found.libraries[i])]
            \o Flatten(found.providers, ProviderMounts), LAMBDA m : m.dst)
    \o [i \in DOMAIN found.tools |-> Mount(found.tools[i])]

\* buildCommonEdits, the mounts: per container path the first one stays, and
\* providers come first.  Tools are not looked at.
CommonMounts(found) ==
    FirstOf(Flatten(found.providers, ProviderMounts)
            \o [i \in DOMAIN found.libraries |-> Mount(found.libraries[i])],
            LAMBDA m : m.dst)
    \o [i \in DOMAIN found.tools |-> Mount(found.tools[i])]

\* buildCommonEdits, libPaths: the directories of the libraries that are
\* mounted; a provider's directory alone is not one of them.
LibraryFolders(found) ==
    LET taken == {m.dst : m \in ToSet(Flatten(found.providers, ProviderMounts))}
    IN  {Front(l.cpath) : l \in {l \in ToSet(found.libraries) : l.cpath \notin taken}}

\* ReadSONAME: the file's name when it has no DT_SONAME.
ReadSONAME(node, name) == IF node.soname = NoName THEN name ELSE node.soname

\* The name without the version behind .so, if it has one.
GetSoLink(soname) == IF soname \in DOMAIN SoLink THEN SoLink[soname] ELSE NoName

LinkExistsOnHost(c, fs, p) == Lstat(fs, ToSearchRootPath(c, p)).kind = "link"

SymlinkDir(c, lib) == IF c.containerPath # <<>> THEN c.containerPath ELSE Front(lib.cpath)

\* One link of computeSymlinks, if the host has it beside the library.
LinkIf(c, fs, lib, name, target) ==
    IF name \notin {NoName, target} /\ LinkExistsOnHost(c, fs, Append(Front(lib.path), name))
    THEN <<[target |-> target, at |-> Append(SymlinkDir(c, lib), name)]>> ELSE <<>>

\* computeSymlinks: soname -> file and .so -> soname.
LinksFor(c, fs, lib, soname) ==
    LinkIf(c, fs, lib, soname, Last(lib.path)) \o LinkIf(c, fs, lib, GetSoLink(soname), soname)

\* A library that cannot be read gets none.
SymlinksOf(c, fs, lib, node) ==
    IF node.kind # "file" THEN <<>> ELSE LinksFor(c, fs, lib, ReadSONAME(node, Last(lib.path)))

ComputeSymlinks(c, fs, libs) ==
    FirstOf(Flatten(libs, LAMBDA l : SymlinksOf(c, fs, l, Stat(fs, ToSearchRootPath(c, l.path)))),
            LAMBDA s : s)

\* buildCommonEdits; fs is read again for the links.
BuildCommonEdits(c, fs, found) ==
    [mounts |-> CommonMounts(found),
     links |-> ComputeSymlinks(c, fs, found.libraries),
     folders |-> LibraryFolders(found),
     nodes |-> <<>>]

-----------------------------------------------------------------------------
(* The device entries.  An entry is named <<kind, index>>; group is what    *)
(* the resolver knows: NPU index -> group index, a partial function.        *)

ClassOf(d) == DeviceClass[Last(d.cpath)]
IndexOf(d) == DeviceIndex[Last(d.cpath)]

\* classifyDevices, one class of it.
Classify(c, devices, class) ==
    IF c.devicesDisabled THEN <<>> ELSE Filter(devices, LAMBDA d : ClassOf(d) = class)

\* Mutant: the group keeps its own number in the container.
RSDAliasNode_Identity(d) == [src |-> d.path, dst |-> d.cpath]

\* createDeviceNode, and createRSDAliasNode: the UMD opens /dev/rsd0 only.
DeviceNode(d) == [src |-> d.path, dst |-> d.cpath]
RSDAliasNode(d) == [src |-> d.path, dst |-> <<"dev", "rsd0">>]

\* resolveRSDFor: the group's node if it is known and was discovered.
ResolveRSDFor(npu, rsds, group) ==
    Filter(rsds, LAMBDA d : /\ IndexOf(npu) \in DOMAIN group
                               /\ IndexOf(d) = group[IndexOf(npu)])

WithNodes(nodes) == [NoEdits EXCEPT !.nodes = nodes]
NodesOf(npus, rsds) == Map(npus, DeviceNode) \o Map(rsds, DeviceNode)

\* buildDeviceEntries.
DeviceEntries(npus, rsds, group) ==
    LET named(devices, i) == CHOOSE d \in ToSet(devices) : IndexOf(d) = i
        npuNodes(d) == <<DeviceNode(d)>> \o Map(ResolveRSDFor(d, rsds, group), RSDAliasNode)
    IN  [n \in {<<"npu", IndexOf(d)>> : d \in ToSet(npus)}
               \cup {<<"rsd", IndexOf(d)>> : d \in ToSet(rsds)}
               \cup {<<"all", 0>>, <<"runtime", 0>>} |->
         WithNodes(CASE n[1] = "npu" -> npuNodes(named(npus, n[2]))
                     [] n[1] = "rsd" -> <<RSDAliasNode(named(rsds, n[2]))>>
                     [] OTHER -> NodesOf(npus, rsds))]

BuildDeviceEntries(c, devices, group) ==
    DeviceEntries(Classify(c, devices, "rbln"), Classify(c, devices, "rsd"), group)

\* Mutant: no fold.
FoldCommonEdits_Never(spec) == spec

\* foldCommonEditsIntoEmptyDevices: a parser refuses a device without edits.
FoldCommonEdits(spec) ==
    IF spec.common = NoEdits \/ \A n \in DOMAIN spec.devices : spec.devices[n] # NoEdits THEN spec
    ELSE [common |-> NoEdits,
          devices |-> [n \in DOMAIN spec.devices |->
                         IF spec.devices[n] = NoEdits THEN spec.common ELSE spec.devices[n]]]

\* Generate; fs is the tree at that time, found what was discovered before.
Unfolded(c, fs, found, group) ==
    [common |-> BuildCommonEdits(c, fs, found),
     devices |-> BuildDeviceEntries(c, found.devices, group)]

Generate(c, fs, found, group) ==
    IF c.devicesDisabled THEN FoldCommonEdits(Unfolded(c, fs, found, group))
    ELSE Unfolded(c, fs, found, group)

\* buildRBLNFSDeviceEntries: one entry per device, and all of them.
RBLNFSEntries(devices) ==
    [n \in {<<"rblnfs", IndexOf(d)>> : d \in ToSet(devices)} \cup {<<"all", 0>>} |->
        WithNodes(Map(Filter(devices, LAMBDA d : n \in {<<"all", 0>>, <<"rblnfs", IndexOf(d)>>}),
                      DeviceNode))]

RDSFor(devices) ==
    IF devices = <<>> THEN NoSpecification ELSE [common |-> NoEdits, devices |-> RBLNFSEntries(devices)]

\* Mutant: the policy for NPUs holds for RDS devices.
GenerateRDS_Policy(c, fs) ==
    IF c.devicesDisabled THEN NoSpecification ELSE RDSFor(DiscoverDevices(c, fs, {"rblnfs"}))

\* emitRDSSpec: what discoverRDSDevices finds, whatever devicesDisabled says;
\* without a device there is no specification.
GenerateRDS(c, fs) == RDSFor(DiscoverDevices(c, fs, {"rblnfs"}))

-----------------------------------------------------------------------------
(* What a container that selects device q gets (external: the parser and    *)
(* the injection of the container runtime's CDI library).                   *)

\* A specification with a device without edits is refused as a whole.
Accepted(spec) == \A n \in DOMAIN spec.devices : spec.devices[n] # NoEdits

EditsFor(spec, q) ==
    [mounts |-> spec.common.mounts \o spec.devices[q].mounts,
     links |-> spec.common.links \o spec.devices[q].links,
     folders |-> spec.common.folders \cup spec.devices[q].folders,
     nodes |-> spec.common.nodes \o spec.devices[q].nodes]
=============================================================================
