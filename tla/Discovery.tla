----------------------------- MODULE Discovery -----------------------------
(***************************************************************************)
(* What is discovered on a host (internal/discover): the driver's          *)
(* libraries, their dependencies, plugins, RDMA providers, tools and       *)
(* device nodes, each with the path it has on the host and the path it     *)
(* gets in a container.                                                    *)
(*                                                                         *)
(* A path is a sequence of components, so "/" is <<>>, filepath.Join is    *)
(* \o, filepath.Base is Last and filepath.Dir is Front; it is              *)
(* clean unless a link puts ".." into it.  A file tree is a function from  *)
(* paths to nodes; directories are implicit.  What the code reads off the  *)
(* letters of a name (glob patterns, suffixes) is a table over Names.      *)
(*                                                                         *)
(* The operators take the configuration c and the tree fs as the program   *)
(* sees it: a program in a container sees the host below a mount.          *)
(***************************************************************************)
EXTENDS Integers, Sequences, SequencesExt, FiniteSetsExt

CONSTANTS
    Names,        \* the file names there are, in the lexical order of Glob
    RblnName,     \* those that match Libraries.Patterns
    SharedObject, \* those that end in .so or contain .so.
    GlibcName,    \* those that match GlibcExclude
    DeviceClass,  \* device name -> "rbln", "rsd" or "rblnfs"
    DeviceIndex,  \* device name -> its numeric suffix
    MaxLinks      \* bound: symbolic links followed before giving up

Name == STRING
Path == Seq(Name)

ASSUME DiscoveryAssumption ==
    /\ Names \in Seq(Name) /\ {"..", "dev"} \subseteq Name
    /\ MaxLinks \in Nat

NoNode == [kind |-> "none"]

-----------------------------------------------------------------------------
(* Files and links (external: the kernel and path/filepath).  A node is     *)
(*   [kind |-> "file", id, soname, needs, exec], [kind |-> "dev", id] or    *)
(*   [kind |-> "link", abs, to].                                            *)

IsNode(node) ==
    /\ node.kind \in {"file", "link", "dev"}
    /\ node.kind = "link" => node.abs \in BOOLEAN /\ node.to \in Path
    /\ node.kind = "file" => node.needs \in Seq(Name) /\ node.soname \in Name

\* One tree laid over another.
Over(upper, lower) ==
    [p \in DOMAIN upper \cup DOMAIN lower |-> IF p \in DOMAIN upper THEN upper[p] ELSE lower[p]]

IsTree(fs) == DOMAIN fs \subseteq Path /\ \A p \in DOMAIN fs : IsNode(fs[p])

\* FoldLeft as a function that is defined recursively, which TLC evaluates in
\* one pass over the sequence.
Fold(op(_, _), base, s) ==
    LET acc[i \in 0..Len(s)] == IF i = 0 THEN base ELSE op(acc[i - 1], s[i])
    IN  acc[Len(s)]

\* Sequences mapped, flattened, filtered, cut.
Map(s, F(_)) == [i \in DOMAIN s |-> F(s[i])]
Flatten(s, F(_)) == FlattenSeq(Map(s, F))
FirstN(s, n) == SubSeq(s, 1, IF Len(s) < n THEN Len(s) ELSE n)

\* The elements at some indices, and those that pass a test, in order.
Only(s, kept) == FlattenSeq([i \in DOMAIN s |-> IF i \in kept THEN <<s[i]>> ELSE <<>>])
Filter(s, Test(_)) == Only(s, {i \in DOMAIN s : Test(s[i])})

\* Go's "seen" map: of the entries with the same key the first one stays.
First(keys) == {i \in DOMAIN keys : \A j \in 1..(i - 1) : keys[j] # keys[i]}
Firsts(s, keys) ==
    LET first == Only([i \in DOMAIN s |-> i], First(keys)) IN [n \in DOMAIN first |-> s[first[n]]]
FirstOf(s, Key(_)) == Firsts(s, Map(s, Key))

\* filepath.Clean: ".." takes back a component, and nothing is above "/".
Clean(p) ==
    Fold(LAMBDA q, x : IF x # ".." THEN Append(q, x)
                           ELSE IF q = <<>> THEN q ELSE Front(q), <<>>, p)

\* One link, the first on the way to p, replaced by what it points to.
LinksOn(fs, p) ==
    {k \in 1..Len(p) : SubSeq(p, 1, k) \in DOMAIN fs /\ fs[SubSeq(p, 1, k)].kind = "link"}

Follow(link, p, k) ==
    Clean((IF link.abs THEN <<>> ELSE SubSeq(p, 1, k - 1)) \o link.to \o SubSeq(p, k + 1, Len(p)))

FollowOne(fs, p) ==
    LET k == Min(LinksOn(fs, p)) IN Follow(fs[SubSeq(p, 1, k)], p, k)

\* filepath.EvalSymlinks; a dangling or circular link ends outside the tree
\* or at a link, and is an error.
EvalSymlinks(fs, p) ==
    LET followed[n \in 0..MaxLinks] ==
            [q \in Path |->
                IF n = 0 \/ LinksOn(fs, q) = {} THEN q ELSE followed[n - 1][FollowOne(fs, q)]]
    IN  followed[MaxLinks][p]

NodeAt(fs, q) == IF q \in DOMAIN fs THEN fs[q] ELSE NoNode
NoLink(node) == IF node.kind = "link" THEN NoNode ELSE node

\* os.Lstat: the node p names, links on the way followed, the last one not.
Lstat(fs, p) == NodeAt(fs, Append(EvalSymlinks(fs, Front(p)), Last(p)))

\* os.Stat, and whether EvalSymlinks succeeds.
Stat(fs, p) == NoLink(NodeAt(fs, EvalSymlinks(fs, p)))

\* The key of the seen maps: the real path, or the path where there is none.
RealPath(fs, p) == IF Stat(fs, p) = NoNode THEN p ELSE EvalSymlinks(fs, p)

\* The entries of a directory in lexical order, as Glob and ReadDir give them.
EntriesOf(fs, real) == Filter(Names, LAMBDA n : Append(real, n) \in DOMAIN fs)
Entries(fs, dir) == EntriesOf(fs, EvalSymlinks(fs, dir))

-----------------------------------------------------------------------------
(* Roots.  DriverRoot is where the driver is installed on the host;         *)
(* SearchRoot, when set, is where the program sees it; HostRoot is where    *)
(* the program sees the host's "/".  <<>> stands for "/" and for unset.     *)

TrimPrefix(p, root) ==
    IF IsPrefix(root, p) THEN SubSeq(p, Len(root) + 1, Len(p)) ELSE p

SearchRoot(c) == IF c.searchRoot # <<>> THEN c.searchRoot ELSE c.driverRoot

\* Mutant: the path in the program's container.
ToHostPath_Seen(c, p) == p

\* Where the program sees it -> where the host has it.
ToHostPath(c, p) ==
    IF SearchRoot(c) = <<>> THEN p ELSE c.driverRoot \o TrimPrefix(p, SearchRoot(c))

\* The tools' variant leaves a path below DriverRoot as it is.
ToolHostPath(c, p) ==
    IF SearchRoot(c) # <<>> /\ c.driverRoot # <<>> /\ IsPrefix(c.driverRoot, p)
    THEN p ELSE ToHostPath(c, p)

\* Where the host has it -> where the program sees it.
ToSearchRootPath(c, p) ==
    IF c.searchRoot = <<>> \/ c.searchRoot = c.driverRoot THEN p
    ELSE c.searchRoot \o TrimPrefix(p, c.driverRoot)

\* A path below the root from the ELF resolver -> where the host has it.
ToDriverRootPath(c, p) ==
    IF c.searchRoot # <<>> /\ c.searchRoot # c.driverRoot
    THEN IF c.driverRoot = <<>> THEN TrimPrefix(p, c.searchRoot)
         ELSE Clean(c.driverRoot \o TrimPrefix(p, c.searchRoot))
    ELSE IF IsPrefix(c.driverRoot, p) THEN p ELSE Clean(c.driverRoot \o p)

\* Where the host has it -> where the container gets it.
WithoutDriverRoot(c, p) == TrimPrefix(p, c.driverRoot)

ToContainerPath(c, p) ==
    IF c.containerPath # <<>> THEN Append(c.containerPath, Last(p))
    ELSE WithoutDriverRoot(c, p)

PluginContainerPath(c, p, subdir) ==
    IF c.containerPath # <<>> THEN c.containerPath \o <<subdir, Last(p)>>
    ELSE WithoutDriverRoot(c, p)

-----------------------------------------------------------------------------
(* Libraries.                                                               *)

\* A discovered file: its path on the host and the one in the container.
Library(c, host) == [path |-> host, cpath |-> ToContainerPath(c, host)]

\* DiscoverRBLN: the regular files that match, once per real path; links are
\* left to the create-symlinks hook.
MatchesIn(fs, dir) ==
    Filter([i \in DOMAIN Entries(fs, dir) |-> Append(dir, Entries(fs, dir)[i])],
              LAMBDA p : Last(p) \in RblnName /\ Lstat(fs, p).kind = "file")

DiscoverRBLN(c, fs) ==
    Map(FirstOf(Flatten(c.libDirs, LAMBDA dir : MatchesIn(fs, SearchRoot(c) \o dir)),
                LAMBDA p : RealPath(fs, p)),
        LAMBDA p : Library(c, ToHostPath(c, p)))

\* filepath.Rel of two absolute paths.
Rel(root, p) ==
    LET shared == Max({k \in 0..Len(root) : k <= Len(p) /\ SubSeq(root, 1, k) = SubSeq(p, 1, k)})
    IN  [i \in 1..(Len(root) - shared) |-> ".."] \o SubSeq(p, shared + 1, Len(p))

\* resolveLibrary: the first search path that has the name; a link gives the
\* file behind it, a broken one is passed over.  <<>> is "not found".
Resolved(c, fs, p) ==
    IF Lstat(fs, p).kind = "link" THEN Rel(SearchRoot(c), EvalSymlinks(fs, p))
    ELSE TrimPrefix(p, SearchRoot(c))

ResolveLibrary(c, fs, name) ==
    LET usable == Filter(c.libDirs, LAMBDA dir : Stat(fs, SearchRoot(c) \o dir \o <<name>>) # NoNode)
    IN  IF usable = <<>> THEN <<>> ELSE Resolved(c, fs, SearchRoot(c) \o Head(usable) \o <<name>>)

\* elfReadNeeded; what is no ELF file has no needs.
Needed(fs, p) == IF Stat(fs, p).kind = "file" THEN Stat(fs, p).needs ELSE <<>>

\* elfResolver.Run: breadth first through DT_NEEDED, every file once.  The
\* queue is the result, with the library itself in front.
Visit(visited, rel, full) ==
    IF rel = <<>> \/ \E i \in DOMAIN visited : visited[i].full = full
    THEN visited ELSE Append(visited, [rel |-> rel, full |-> full])

VisitNeeds(c, fs, visited, needs) ==
    Fold(LAMBDA v, name : LET rel == ResolveLibrary(c, fs, name)
                          IN  Visit(v, rel, Clean(SearchRoot(c) \o rel)),
         visited, needs)

\* Mutant: the needs of the libraries alone, not of what they need.
NeededByLibrary_Direct(c, fs, start) ==
    Tail(VisitNeeds(c, fs, <<[rel |-> <<>>, full |-> start]>>, Needed(fs, start)))

NeededByLibrary(c, fs, start) ==
    LET step(queue, i) ==
            IF i > Len(queue) THEN queue ELSE VisitNeeds(c, fs, queue, Needed(fs, queue[i].full))
    IN  Tail(Fold(step, <<[rel |-> <<>>, full |-> start]>>, [i \in 1..(Len(Names) + 1) |-> i]))

\* DiscoverDependencies: what the libraries need, by way of others too, and
\* is neither one of them nor glibc's.
DiscoverDependencies(c, fs, libs) ==
    Map(Filter(FirstOf(Flatten(libs, LAMBDA lib : NeededByLibrary(c, fs, ToSearchRootPath(c, lib.path))),
                          LAMBDA n : ToDriverRootPath(c, n.rel)),
                  LAMBDA n : /\ Last(n.rel) \notin GlibcName
                             /\ \A i \in DOMAIN libs : libs[i].path # ToDriverRootPath(c, n.rel)),
        LAMBDA n : Library(c, ToDriverRootPath(c, n.rel)))

\* DiscoverPlugins: every shared object of the plugin directories, links too,
\* once per real path and under the name that comes first.
Plugin(c, host, subdir) == [path |-> host, cpath |-> PluginContainerPath(c, host, subdir)]

DiscoverPlugins(c, fs) ==
    Map(FirstOf(Flatten(c.pluginDirs, LAMBDA dir :
                    Map(Filter(Entries(fs, SearchRoot(c) \o dir), LAMBDA n : n \in SharedObject),
                        LAMBDA n : SearchRoot(c) \o dir \o <<n>>)),
                LAMBDA p : RealPath(fs, p)),
        LAMBDA p : Plugin(c, ToHostPath(c, p), Last(Front(p))))

\* DiscoverRDMAProviders: those whose files the host has, looked up below
\* HostRoot.
DiscoverRDMAProviders(c, fs) ==
    LET isHostFile(p) == Stat(fs, c.hostRoot \o p).kind = "file"
    IN  IF c.providerDir = <<>> THEN <<>>
        ELSE Map(Filter(c.providers, LAMBDA p :
                     isHostFile(p.library) /\ (p.driver # <<>> => isHostFile(p.driver))),
                 LAMBDA p : [path |-> p.library, driver |-> p.driver,
                             cpath |-> Append(c.providerDir, Last(p.library))])

-----------------------------------------------------------------------------
(* Tools and devices.                                                       *)

\* findTool: the first directory that has an executable of that name.
FindTool(c, fs, tool) ==
    Filter(Map(c.binDirs, LAMBDA dir : SearchRoot(c) \o dir \o <<tool>>),
              LAMBDA p : Stat(fs, p).kind = "file" /\ Stat(fs, p).exec)

Tool(c, host) == [path |-> host, cpath |-> WithoutDriverRoot(c, host)]

DiscoverTools(c, fs) ==
    Flatten(c.tools, LAMBDA t : Map(FirstN(FindTool(c, fs, t), 1), LAMBDA p : Tool(c, ToolHostPath(c, p))))

\* deviceDiscoverer: the nodes of the given classes in the host's /dev, with
\* the path they have there on both sides, sorted by it.
Device(p) == [path |-> p, cpath |-> p]

DiscoverDevices(c, fs, classes) ==
    Map(Filter(Entries(fs, Append(c.hostRoot, "dev")),
                  LAMBDA n : n \in DOMAIN DeviceClass /\ DeviceClass[n] \in classes),
        LAMBDA n : Device(TrimPrefix(Append(c.hostRoot, "dev") \o <<n>>, c.hostRoot)))
-----------------------------------------------------------------------------
(* What some theorems assume of a host's files.                             *)

Clear == {p \in Path : \A i \in 1..Len(p) : p[i] # ".."}

\* What a link points to goes up by at most so many directories, then down.
GoesUp(to, n) == n <= Len(to) /\ \A i \in 1..Len(to) : to[i] = ".." <=> i <= n
LinkStays(link, most) == ~link.abs /\ \E n \in 0..most : GoesUp(link.to, n)

\* Links are relative and lead from the driver's root to nowhere outside, no
\* path has a link on its way, and libraries need files by their names.
Tidy(fs, root) ==
    /\ root \in Clear /\ DOMAIN fs \subseteq Clear
    /\ LinksOn(fs, root) = {}
    /\ \A p \in DOMAIN fs :
         /\ LinksOn(fs, Front(p)) = {}
         /\ fs[p].kind = "link" =>
              LinkStays(fs[p], Len(p) - 1 - (IF IsPrefix(root, p) THEN Len(root) ELSE 0))
         /\ fs[p].kind = "file" => \A i \in DOMAIN fs[p].needs : fs[p].needs[i] \in ToSet(Names)

\* Below the driver's root is no copy of it, and where the host is seen below
\* a mount, no copy of the mount.
Apart(driver, mount, p) ==
    /\ driver # <<>> => ~IsPrefix(driver, p)
    /\ mount # <<>> => ~IsPrefix(mount \o driver, p)
=============================================================================
