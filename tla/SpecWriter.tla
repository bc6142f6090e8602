----------------------------- MODULE SpecWriter -----------------------------
(***************************************************************************)
(* Replacing a CDI spec file (internal/cdi/writer.go, writer.Write):       *)
(* temporary file, chmod, fsync, close, rename, fsync of the directory.    *)
(* Several writers replace the same file without a lock (the daemon's      *)
(* watcher, `rbln-ctk cdi generate`, the installer), the container runtime *)
(* reads it meanwhile, processes crash and the machine may lose power.     *)
(*                                                                         *)
(* A content has two halves, which is what it takes to see a partial one.  *)
(* The file system keeps for every inode what a read returns and what is   *)
(* on the disk for sure, and for the path the entries the disk may hold.   *)
(***************************************************************************)
EXTENDS Integers, FiniteSets

CONSTANTS
    Value,       \* contents of a spec file
    Blank,       \* a half that is not written
    Absent,      \* there is no file
    Writer,
    Reader,
    Inode,
    None,        \* no inode
    MaxCrashes   \* bound: process crashes and power losses

ASSUME SpecWriterAssumption ==
    /\ Blank \notin Value
    /\ Absent \notin Value
    /\ None \notin Inode
    /\ MaxCrashes \in Nat

VARIABLES
    data,      \* what a read of an inode returns
    public,    \* whether an inode's mode is 0644, not CreateTemp's 0600
    onDisk,    \* the data of an inode that the disk holds for sure
    modeDisk,  \* likewise for its mode
    entry,     \* the inode the path names, or None
    entries,   \* what the path may name on the disk
    temps,     \* inodes named by a temporary file in the directory
    wpc,       \* where a writer is
    tmp,       \* its temporary file
    new,       \* what it writes
    rpc,       \* where a reader is
    rfd,       \* the inode it has open
    got,       \* what it has read
    crashes    \* crashes so far

inodeVars == <<data, public, onDisk, modeDisk>>
dirVars == <<entry, entries, temps>>
writerVars == <<wpc, tmp, new>>
readerVars == <<rpc, rfd, got>>
vars == <<inodeVars, dirVars, writerVars, readerVars, crashes>>

Half == Value \cup {Blank}
Data == [a : Half, b : Half]
Nothing == [a |-> Blank, b |-> Blank]
Whole(v) == [a |-> v, b |-> v]

WPc == {"idle", "write", "writeRest", "chmod", "sync", "close", "rename", "syncDir"}

TypeOK ==
    /\ data \in [Inode -> Data] /\ onDisk \in [Inode -> Data]
    /\ public \in [Inode -> BOOLEAN] /\ modeDisk \in [Inode -> BOOLEAN]
    /\ entry \in Inode \cup {None}
    /\ entries \in SUBSET (Inode \cup {None})
    /\ temps \in SUBSET Inode
    /\ wpc \in [Writer -> WPc]
    /\ tmp \in [Writer -> Inode \cup {None}]
    /\ new \in [Writer -> Value]
    /\ rpc \in [Reader -> {"idle", "first", "second"}]
    /\ rfd \in [Reader -> Inode \cup {None}]
    /\ got \in [Reader -> Data]
    /\ crashes \in 0..MaxCrashes

-----------------------------------------------------------------------------
(* Write, one system call at a time.                                        *)

Step(w, from, to) ==
    /\ wpc[w] = from
    /\ wpc' = [wpc EXCEPT ![w] = to]

\* No name and no descriptor refers to the inode, now or after a power loss.
Free(i) ==
    /\ i # entry /\ i \notin entries /\ i \notin temps
    /\ \A w \in Writer : tmp[w] # i
    /\ \A r \in Reader : rfd[r] # i

\* Mutant: the file itself is opened and written over.
Create_InPlace(w, v) ==
    /\ Step(w, "idle", "write")
    /\ new' = [new EXCEPT ![w] = v]
    /\ tmp' = [tmp EXCEPT ![w] = entry]
    /\ entry # None
    /\ UNCHANGED <<inodeVars, dirVars, readerVars, crashes>>

\* Mutant: the error of CreateTemp is not looked at.
Create_Unchecked(w, v) ==
    /\ Step(w, "idle", "write")
    /\ new' = [new EXCEPT ![w] = v]
    /\ tmp' = [tmp EXCEPT ![w] = None]
    /\ temps' = temps \cup {None}
    /\ UNCHANGED <<inodeVars, entry, entries, readerVars, crashes>>

\* The spec is marshalled; MkdirAll and CreateTemp.  If any of them fails
\* nothing has changed.
Create(w, v) ==
    /\ Step(w, "idle", "write")
    /\ new' = [new EXCEPT ![w] = v]
    /\ \E i \in Inode :
          /\ Free(i)
          /\ tmp' = [tmp EXCEPT ![w] = i]
          /\ temps' = temps \cup {i}
          /\ data' = [data EXCEPT ![i] = Nothing]
          /\ public' = [public EXCEPT ![i] = FALSE]
          /\ onDisk' = [onDisk EXCEPT ![i] = Nothing]
          /\ modeDisk' = [modeDisk EXCEPT ![i] = FALSE]
    /\ UNCHANGED <<entry, entries, readerVars, crashes>>

\* buf.WriteTo may need more than one write(2).
WriteHalf(w) ==
    /\ Step(w, "write", "writeRest")
    /\ data' = [data EXCEPT ![tmp[w]] = [a |-> new[w], b |-> @.b]]
    /\ UNCHANGED <<public, onDisk, modeDisk, dirVars, tmp, new, readerVars, crashes>>

WriteRest(w) ==
    /\ Step(w, "writeRest", "chmod")
    /\ data' = [data EXCEPT ![tmp[w]] = [a |-> @.a, b |-> new[w]]]
    /\ UNCHANGED <<public, onDisk, modeDisk, dirVars, tmp, new, readerVars, crashes>>

Chmod(w) ==
    /\ Step(w, "chmod", "sync")
    /\ public' = [public EXCEPT ![tmp[w]] = TRUE]
    /\ UNCHANGED <<data, onDisk, modeDisk, dirVars, tmp, new, readerVars, crashes>>

\* Mutant: fdatasync instead of fsync.
Sync_DataOnly(w) ==
    /\ Step(w, "sync", "close")
    /\ onDisk' = [onDisk EXCEPT ![tmp[w]] = data[tmp[w]]]
    /\ UNCHANGED <<data, public, modeDisk, dirVars, tmp, new, readerVars, crashes>>

Sync(w) ==
    /\ Step(w, "sync", "close")
    /\ onDisk' = [onDisk EXCEPT ![tmp[w]] = data[tmp[w]]]
    /\ modeDisk' = [modeDisk EXCEPT ![tmp[w]] = public[tmp[w]]]
    /\ UNCHANGED <<data, public, dirVars, tmp, new, readerVars, crashes>>

Close(w) ==
    /\ Step(w, "close", "rename")
    /\ UNCHANGED <<inodeVars, dirVars, tmp, new, readerVars, crashes>>

Rename(w) ==
    /\ Step(w, "rename", "syncDir")
    /\ entry' = tmp[w]
    /\ entries' = entries \cup {tmp[w]}
    /\ temps' = temps \ {tmp[w]}
    /\ tmp' = [tmp EXCEPT ![w] = None]
    /\ UNCHANGED <<inodeVars, new, readerVars, crashes>>

SyncDir(w) ==
    /\ Step(w, "syncDir", "idle")
    /\ entries' = {entry}
    /\ UNCHANGED <<inodeVars, entry, temps, tmp, new, readerVars, crashes>>

\* Its failure is only logged.
SyncDirFails(w) ==
    /\ Step(w, "syncDir", "idle")
    /\ UNCHANGED <<inodeVars, dirVars, tmp, new, readerVars, crashes>>

HasTemp(w) == wpc[w] \notin {"idle", "syncDir"}

\* Mutant: an error return leaves the temporary file behind.
Fail_KeepsTemp(w) ==
    /\ HasTemp(w)
    /\ wpc' = [wpc EXCEPT ![w] = "idle"]
    /\ tmp' = [tmp EXCEPT ![w] = None]
    /\ UNCHANGED <<inodeVars, dirVars, new, readerVars, crashes>>

\* Any step before the rename, or the rename, fails: the deferred function
\* closes and removes the temporary file.
Fail(w) ==
    /\ HasTemp(w)
    /\ wpc' = [wpc EXCEPT ![w] = "idle"]
    /\ tmp' = [tmp EXCEPT ![w] = None]
    /\ temps' = temps \ {tmp[w]}
    /\ UNCHANGED <<inodeVars, entry, entries, new, readerVars, crashes>>

WriterStep(w) ==
    \/ \E v \in Value : Create(w, v)
    \/ WriteHalf(w) \/ WriteRest(w) \/ Chmod(w) \/ Sync(w) \/ Close(w)
    \/ Rename(w) \/ SyncDir(w) \/ SyncDirFails(w) \/ Fail(w)

-----------------------------------------------------------------------------
(* Removal of the file: doCleanup (root.go), and emitRDSSpec on a host      *)
(* without RDS devices.                                                     *)

Remove ==
    /\ entry # None
    /\ entry' = None
    /\ entries' = entries \cup {None}
    /\ UNCHANGED <<inodeVars, temps, writerVars, readerVars, crashes>>

-----------------------------------------------------------------------------
(* The container runtime loads the file.                                    *)

ReadOpen(r) ==
    /\ rpc[r] = "idle"
    /\ got' = [got EXCEPT ![r] = Nothing]
    /\ rfd' = [rfd EXCEPT ![r] = entry]
    /\ rpc' = [rpc EXCEPT ![r] = IF entry = None THEN "idle" ELSE "first"]
    /\ UNCHANGED <<inodeVars, dirVars, writerVars, crashes>>

ReadHalf(r) ==
    /\ rpc[r] = "first"
    /\ got' = [got EXCEPT ![r] = [a |-> data[rfd[r]].a, b |-> @.b]]
    /\ rpc' = [rpc EXCEPT ![r] = "second"]
    /\ UNCHANGED <<inodeVars, dirVars, writerVars, rfd, crashes>>

ReadRest(r) ==
    /\ rpc[r] = "second"
    /\ got' = [got EXCEPT ![r] = [a |-> @.a, b |-> data[rfd[r]].b]]
    /\ rpc' = [rpc EXCEPT ![r] = "idle"]
    /\ rfd' = [rfd EXCEPT ![r] = None]
    /\ UNCHANGED <<inodeVars, dirVars, writerVars, crashes>>

ReaderStep(r) == ReadOpen(r) \/ ReadHalf(r) \/ ReadRest(r)

-----------------------------------------------------------------------------
(* Crashes.                                                                 *)

\* A writer dies; the files stay as they are.
Crash(w) ==
    /\ wpc[w] # "idle"
    /\ crashes < MaxCrashes
    /\ crashes' = crashes + 1
    /\ wpc' = [wpc EXCEPT ![w] = "idle"]
    /\ tmp' = [tmp EXCEPT ![w] = None]
    /\ UNCHANGED <<inodeVars, dirVars, new, readerVars>>

\* Of an inode that was not flushed the disk may hold each half, and the
\* mode, either as last written or as last flushed.
Unflushed == {i \in Inode : data[i] # onDisk[i] \/ public[i] # modeDisk[i]}

PowerLoss ==
    /\ crashes < MaxCrashes
    /\ crashes' = crashes + 1
    /\ \E lostA, lostB, lostMode \in SUBSET Unflushed :
          /\ data' = [i \in Inode |-> [a |-> IF i \in lostA THEN onDisk[i].a ELSE data[i].a,
                                      b |-> IF i \in lostB THEN onDisk[i].b ELSE data[i].b]]
          /\ public' = [i \in Inode |-> IF i \in lostMode THEN modeDisk[i] ELSE public[i]]
    /\ onDisk' = data' /\ modeDisk' = public'
    /\ entry' \in entries
    /\ entries' = {entry'}
    /\ wpc' = [w \in Writer |-> "idle"]
    /\ tmp' = [w \in Writer |-> None]
    /\ rpc' = [r \in Reader |-> "idle"]
    /\ rfd' = [r \in Reader |-> None]
    /\ got' = [r \in Reader |-> Nothing]
    /\ UNCHANGED <<temps, new>>

-----------------------------------------------------------------------------
\* A file of an earlier run may exist.
Init ==
    /\ \E v \in Value : \E e \in {None} \cup Inode :
          /\ data = [i \in Inode |-> IF i = e THEN Whole(v) ELSE Nothing]
          /\ public = [i \in Inode |-> i = e]
          /\ entry = e
          /\ new = [w \in Writer |-> v]
    /\ onDisk = data /\ modeDisk = public
    /\ entries = {entry}
    /\ temps = {}
    /\ wpc = [w \in Writer |-> "idle"]
    /\ tmp = [w \in Writer |-> None]
    /\ rpc = [r \in Reader |-> "idle"]
    /\ rfd = [r \in Reader |-> None]
    /\ got = [r \in Reader |-> Nothing]
    /\ crashes = 0

Next ==
    \/ \E w \in Writer : WriterStep(w)
    \/ Remove
    \/ \E r \in Reader : ReaderStep(r)
    \/ \E w \in Writer : Crash(w)
    \/ PowerLoss

Spec == Init /\ [][Next]_vars

-----------------------------------------------------------------------------
(* Properties.                                                              *)

\* Comment of Write: "chmod runs before the file's fsync", else a crash
\* "could land a 0o600 spec from os.CreateTemp on disk".  What the path names,
\* now or after a power loss, is a whole spec, readable, and on the disk.
PublishedIsDurable ==
    \A i \in (entries \cup {entry}) \ {None} :
        /\ \E v \in Value : data[i] = Whole(v) /\ onDisk[i] = Whole(v)
        /\ public[i] /\ modeDisk[i]

\* The deferred function of Write removes the temporary file on every error
\* path: short of a crash, each one that is there belongs to a writer that is
\* still at work.
NoLitter ==
    crashes = 0 => \A i \in temps : \E w \in Writer : HasTemp(w) /\ tmp[w] = i

\* The value of a content; a partial or mixed one is none of Value.
ValueOf(d) == IF d.a = d.b THEN d.a ELSE Blank

ValueAt(i) == IF i = None THEN Absent ELSE ValueOf(data[i])

\* What a reader got; it has read nothing when there was no file.
Result(r) ==
    IF rpc[r] # "idle" THEN ValueAt(rfd[r])
    ELSE IF got[r] = Nothing THEN Absent ELSE ValueOf(got[r])

\* A read takes effect when the file is opened.
File == INSTANCE SpecFile WITH
    value <- ValueAt(entry),
    survivors <- {ValueAt(i) : i \in entries},
    seen <- [r \in Reader |-> Result(r)]

\* Comment of Write: readers "always observe either the previous full content
\* or the new full content, never a partial write".
ImplementsSpecFile == File!Spec
=============================================================================
