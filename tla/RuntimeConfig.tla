--------------------------- MODULE RuntimeConfig ---------------------------
(***************************************************************************)
(* What the toolkit reads from and does to the configuration of a          *)
(* container runtime (internal/runtime/configure.go, containerd_config.go, *)
(* crio_config.go, version.go): whether it exposes CDI, the edit that      *)
(* enables it, and the edit that undoes that.  Operators only.             *)
(*                                                                         *)
(* A configuration file is abstracted to the two CDI settings, how they    *)
(* are laid out, and whether the operator's other settings are in it.      *)
(***************************************************************************)
CONSTANTS
    NoFile,   \* the file does not exist
    Broken    \* the file is not valid TOML or JSON

Setting == {"unset", "on", "off"}
Dirs == {"unset", "covers", "misses"}

\* cdi: containerd's enable_cdi, Docker's features.cdi.  dirs: cdi_spec_dirs,
\* with or without /var/run/cdi.  many: the list of dirs takes several lines.
Text == [cdi : Setting, dirs : Dirs, many : BOOLEAN, own : BOOLEAN]
Blank == [cdi |-> "unset", dirs |-> "unset", many |-> FALSE, own |-> FALSE]
File == Text \cup {NoFile, Broken}

ASSUME RuntimeConfigAssumption == NoFile # Broken /\ NoFile \notin Text /\ Broken \notin Text

\* A node: its runtime, whether that runtime's version has CDI on by default,
\* what the files read before and after CRI-O's drop-in 99-rbln.conf set, and
\* whether the toolkit runs in a container with the host mounted.
NodeType == [runtime : {"containerd", "crio", "docker"}, default : BOOLEAN,
             below : Dirs, above : Dirs, mounted : BOOLEAN]

\* A missing file is read as an empty one.
Read(f) == IF f = NoFile THEN Blank ELSE f

-----------------------------------------------------------------------------
(* Configure.                                                               *)

\* The whole content of the drop-in: it names /var/run/cdi.
DropIn == [cdi |-> "unset", dirs |-> "covers", many |-> TRUE, own |-> FALSE]

\* Mutant: a list of dirs that is there is left alone.
Enable_KeepsDirs(node, text) ==
    IF node.runtime = "docker"
    THEN [text EXCEPT !.cdi = "on"]
    ELSE [cdi |-> "on", many |-> FALSE, own |-> text.own,
          dirs |-> IF text.dirs = "unset" THEN "covers" ELSE text.dirs]

\* enableCDIInContainerdConfig rewrites the file from its parsed tree, with
\* arrays on one line; enableCDI only sets features.cdi.
Enable(node, text) ==
    IF node.runtime = "docker"
    THEN [text EXCEPT !.cdi = "on"]
    ELSE [cdi |-> "on", dirs |-> "covers", many |-> FALSE, own |-> text.own]

-----------------------------------------------------------------------------
(* CDIReady.                                                                *)

Overlay(lower, upper) == IF upper = "unset" THEN lower ELSE upper

\* A drop-in that does not parse is skipped.
DirsOf(f) == IF f \in {NoFile, Broken} THEN "unset" ELSE f.dirs

\* The last file that sets cdi_spec_dirs wins.  Every file of the directory
\* is read, <drop-in>.backup too.
crioEffectiveSpecDirs(node, conf, backup) ==
    Overlay(Overlay(Overlay(node.below, DirsOf(conf)), DirsOf(backup)), node.above)

\* Mutant: an explicit setting counts as enabled, whatever its value.
Ready_KeyPresent(node, conf, backup, version) ==
    IF node.runtime = "crio" THEN crioEffectiveSpecDirs(node, conf, backup) # "misses"
    ELSE /\ node.runtime = "containerd" => Read(conf).dirs # "misses"
         /\ Read(conf).cdi # "unset" \/ version

\* containerdCDIReady, crioCDIReady, dockerCDIReady, for a file that parses;
\* version is "the default of the detected version is on".
Ready(node, conf, backup, version) ==
    IF node.runtime = "crio" THEN crioEffectiveSpecDirs(node, conf, backup) # "misses"
    ELSE /\ node.runtime = "containerd" => Read(conf).dirs # "misses"
         /\ Read(conf).cdi = "on" \/ (Read(conf).cdi = "unset" /\ version)

\* CDIReady and Configure report a file they cannot parse.
Unparsable(node, conf) == node.runtime # "crio" /\ conf = Broken

-----------------------------------------------------------------------------
(* Revert, when there is no backup.                                         *)

\* disableCDIInContainerdConfig drops the lines that start with one of the
\* keys; the rest of an array that takes several lines stays.
Disable(node, f) ==
    IF f \in {NoFile, Broken} THEN f
    ELSE IF node.runtime = "containerd" /\ f.dirs # "unset" /\ f.many THEN Broken
    ELSE [f EXCEPT !.cdi = "unset", !.dirs = "unset", !.many = FALSE]

\* containerd's file is written if its text changes.  Docker's is parsed, so
\* an empty one is an error like a broken one, and always written.
RevertWrites(node, f) ==
    IF node.runtime = "docker" THEN f \notin {NoFile, Broken, Blank}
    ELSE Disable(node, f) # f

-----------------------------------------------------------------------------
\* The container runtime: what it is like after loading its files.
Loads(node, conf, backup) ==
    LET dirs == IF node.runtime = "crio" THEN crioEffectiveSpecDirs(node, conf, backup)
                ELSE Read(conf).dirs
        on == \/ node.runtime = "crio"
              \/ Read(conf).cdi = "on"
              \/ Read(conf).cdi = "unset" /\ node.default
    IN IF conf = Broken THEN "down"
       ELSE IF on /\ dirs # "misses" THEN "cdi" ELSE "noCdi"
=============================================================================
