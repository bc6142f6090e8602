---------------------------- MODULE MCInjection ----------------------------
(* Small instances of Injection for TLC. *)
EXTENDS Injection

\* In lexical order; the driver's library is ccl, which needs dep, by way of
\* dep sub in another directory, which needs dep in turn, and, from its second
\* version on, aux.
MCNames == <<"aux.so", "bnxt.driver", "ccl.so", "ccl.so.3", "ccl.so.3.1", "ccl.so.3.2",
             "dep.so.1", "dep.so.1.1", "libbnxt.so", "libc.so.6",
             "librbln-rdma.so", "librbln-rdma.so.1", "librbln-rdma.so.1.0",
             "rbln-smi", "rbln0", "rbln1", "rblnfs0", "rsd0", "rsd1",
             "sub.so">>
MCRblnName == {"ccl.so", "ccl.so.3", "ccl.so.3.1", "ccl.so.3.2"}
MCSharedObject == ToSet(MCNames) \ {"bnxt.driver", "rbln-smi", "rbln0", "rbln1", "rblnfs0", "rsd0", "rsd1"}
MCGlibcName == {"libc.so.6"}
MCDeviceClass == [n \in {"rbln0", "rbln1", "rblnfs0", "rsd0", "rsd1"} |->
    CASE n \in {"rbln0", "rbln1"} -> "rbln" [] n = "rblnfs0" -> "rblnfs" [] OTHER -> "rsd"]
MCDeviceIndex == [n \in DOMAIN MCDeviceClass |-> IF n \in {"rbln1", "rsd1"} THEN 1 ELSE 0]
MCSoLink == [n \in ToSet(MCNames) |->
    CASE n \in MCRblnName -> "ccl.so"
      [] n \in {"aux.so", "libbnxt.so", "librbln-rdma.so", "sub.so"} -> n
      [] n \in {"librbln-rdma.so.1", "librbln-rdma.so.1.0"} -> "librbln-rdma.so"
      [] n \in {"dep.so.1", "dep.so.1.1"} -> "dep.so"
      [] n = "libc.so.6" -> "libc.so"
      [] OTHER -> NoName]

File(id, soname, needs) ==
    [kind |-> "file", id |-> id, soname |-> soname, needs |-> needs, exec |-> id = "rbln-smi"]
Link(to) == [kind |-> "link", abs |-> FALSE, to |-> to]
Dev(n) == [kind |-> "dev", id |-> n]

Below(dir, f) == [p \in {Append(dir, n) : n \in DOMAIN f} |-> f[Last(p)]]
Table(n, node) == [x \in {n} |-> node]

\* The upgrade: the second ccl and aux, which it needs; the link to it; the
\* first ccl goes.
MCUpgrades == 3
Lib64(d, links, h) ==
    LET ccl1 == IF h.files < 3 THEN Table("ccl.so.3.1", File("ccl1", "ccl.so.3", <<"dep.so.1", "libc.so.6">>)) ELSE <<>>
        ccl2 == IF h.files >= 1 THEN Table("ccl.so.3.2", File("ccl2", "ccl.so.3", <<"dep.so.1", "aux.so">>)) ELSE <<>>
    IN  ccl1 @@ ccl2
        @@ Table("ccl.so.3", Link(<<IF h.files < 2 THEN "ccl.so.3.1" ELSE "ccl.so.3.2">>))
        @@ Table("ccl.so", Link(<<"ccl.so.3">>))
        @@ Table("dep.so.1",
                 IF links # "absolute" THEN Link(<<"dep.so.1.1">>)
                 ELSE [kind |-> "link", abs |-> TRUE, to |-> d \o <<"usr", "lib64", "dep.so.1.1">>])
        @@ Table("dep.so.1.1", File("dep", "dep.so.1", <<"sub.so">>))
        @@ Table("libc.so.6", File("libc", "libc.so.6", <<>>))
Lib(h) == Table("sub.so", File("sub", NoName, <<"libc.so.6", "dep.so.1">>))
          @@ IF h.files >= 1 THEN Table("aux.so", File("aux", NoName, <<>>)) ELSE <<>>
\* In a chain, a plugin directory holds a library with its two links.
Verbs(links) ==
    Table("librbln-rdma.so", IF links = "chain" THEN Link(<<"librbln-rdma.so.1">>) ELSE File("rdma", "librbln-rdma.so", <<>>))
    @@ Table("libbnxt.so", File("inbox", "libbnxt.so", <<>>))
    @@ IF links # "chain" THEN <<>>
       ELSE Table("librbln-rdma.so.1", Link(<<"librbln-rdma.so.1.0">>))
            @@ Table("librbln-rdma.so.1.0", File("rdma", "librbln-rdma.so.1", <<>>))

DriverContainer == <<"run", "driver">>

HostTree(d, links, h) ==
    Below(d \o <<"usr", "lib64">>, Lib64(d, links, h))
    @@ Below(d \o <<"usr", "lib">>, Lib(h))
    @@ Below(d \o <<"usr", "lib64", "libibverbs">>, Verbs(links))
    @@ Below(d \o <<"usr", "bin">>, Table("rbln-smi", File("rbln-smi", NoName, <<>>)))
    @@ Table(Append(d, "lib64"), Link(<<"usr", "lib64">>))
    @@ Below(<<"usr", "local", "lib">>, Table("libbnxt.so", File("bnxt", "libbnxt.so", <<>>)))
    @@ Below(<<"etc", "libibverbs.d">>, Table("bnxt.driver", File("driver", NoName, <<>>)))
    @@ Below(<<"dev">>, [n \in {"rbln0", "rbln1", "rsd0", "rsd1"}
                               \cup (IF h.devs >= 1 THEN {"rblnfs0"} ELSE {}) |-> Dev(n)])

\* All of them, computed once.
MCTrees == [d \in {<<>>, DriverContainer}, links \in {"plain", "chain", "absolute"}, h \in [files : 0..MCUpgrades, devs : 0..1] |->
              HostTree(d, links, h)]
MCTree(s, h) == MCTrees[s.driverRoot, s.links, h]

\* Both NPUs in group 0, then NPU 1 in group 1.
MCGroup(h) == [n \in 0..1 |-> IF h.devs = 0 THEN 0 ELSE n]

\* An image with libraries of its own under some of the names, and a link to
\* the directory in which the toolkit's are isolated.
MCImage ==
    Table(<<"rbln">>, Link(<<"opt">>)) @@
    Below(<<"usr", "lib64">>, Table("ccl.so", File("bundled", "ccl.so", <<>>))
                              @@ Table("libc.so.6", File("ownc", "libc.so.6", <<>>)))
    @@ Below(<<"usr", "lib">>, Table("sub.so", File("ownsub", NoName, <<>>)))

Isolated == <<"rbln", "lib64">>

MCSite(programs, driverRoot, containerPath, kubernetes) ==
    [programs |-> programs, driverRoot |-> driverRoot, containerPath |-> containerPath,
     kubernetes |-> kubernetes, links |-> "plain", upgrades |-> 0, plugs |-> 0, kills |-> 0]

OnHostSite == MCSite({"daemon"}, <<>>, <<>>, FALSE)

MCSites ==
    {[OnHostSite EXCEPT !.plugs = 1, !.kills = 1],
     [MCSite({"daemon"}, DriverContainer, <<>>, TRUE) EXCEPT !.plugs = 1, !.kills = 1],
     MCSite({"daemon"}, <<>>, Isolated, TRUE),
     [MCSite({"daemon"}, DriverContainer, Isolated, FALSE) EXCEPT !.plugs = 1],
     [MCSite({"daemon"}, DriverContainer, <<>>, TRUE) EXCEPT !.upgrades = MCUpgrades],
     [MCSite({"cli"}, <<>>, <<>>, FALSE) EXCEPT !.links = "chain", !.kills = 1]}

\* What the theorems assume holds of these.
ASSUME MCHypotheses == NoInstaller(MCSites) /\ DriverInstalled(MCSites) /\ Orderly(MCSites)

MCKilled == {[OnHostSite EXCEPT !.kills = 1]}
MCUpgraded == {[OnHostSite EXCEPT !.upgrades = MCUpgrades]}
MCChained == {[OnHostSite EXCEPT !.links = "chain"]}
MCAbsolute == {[OnHostSite EXCEPT !.links = "absolute"]}
MCInstalled == {MCSite({"installer"}, <<>>, <<>>, FALSE)}

MCHostMount == <<"host">>
=============================================================================
