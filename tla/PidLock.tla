------------------------------ MODULE PidLock ------------------------------
(***************************************************************************)
(* The PID file /run/rbln/toolkit.pid as a lock between processes: the     *)
(* daemon's acquirePIDLock, terminateExisting and releasePIDLock           *)
(* (internal/daemon/daemon.go) and the installer's Lock.Acquire and        *)
(* Lock.Release (internal/installer/lock.go), which share the file.        *)
(*                                                                         *)
(* The lock is flock(2) on an inode; the path names an inode at most.      *)
(* Releasing is three system calls - unlock, close, unlink - and the       *)
(* unlink acts on whatever the path names by then.  A process that dies    *)
(* loses its lock but leaves the file, and its PID may be used again by    *)
(* any program.                                                            *)
(***************************************************************************)
EXTENDS Integers, FiniteSets

CONSTANTS
    Pid,        \* process identifiers
    Inode,      \* inodes of the directory's file system
    None        \* no process, no inode

ASSUME PidLockAssumption ==
    /\ None \notin Pid
    /\ None \notin Inode

VARIABLES
    prog,     \* the program running under a PID, or "none"
    pc,       \* where it is
    fd,       \* the inode its descriptor refers to
    path,     \* the inode the PID file's path names
    locked,   \* who holds the flock of an inode
    content,  \* what an inode contains
    target,   \* --force: the PID read from the file
    term,     \* PIDs with a SIGTERM pending
    orphaned  \* history: a release unlinked a file another process had open

vars == <<prog, pc, fd, path, locked, content, target, term, orphaned>>

\* "force" is a daemon started with --force, "other" any unrelated program.
Program == {"daemon", "force", "installer", "other"}
Toolkit == Program \ {"other"}

\* The daemon writes {"pid":N}, the installer N: terminateExisting can only
\* decode the former.
Format == [daemon |-> "json", force |-> "json", installer |-> "plain", other |-> "plain"]
Empty == <<"empty", None>>
Record(p) == <<Format[prog[p]], p>>
Contents == {Empty} \cup ({"json", "plain"} \X Pid)

PC == {"none", "busy", "forceRead", "forceKill", "forceWait", "open", "flock",
       "truncate", "write", "held", "unlock", "close", "remove"}

TypeOK ==
    /\ prog \in [Pid -> Program \cup {"none"}]
    /\ pc \in [Pid -> PC]
    /\ fd \in [Pid -> Inode \cup {None}]
    /\ path \in Inode \cup {None}
    /\ locked \in [Inode -> Pid \cup {None}]
    /\ content \in [Inode -> Contents]
    /\ target \in [Pid -> Pid \cup {None}]
    /\ term \in SUBSET Pid
    /\ orphaned \in BOOLEAN

Alive(p) == prog[p] # "none"

\* Acquire has returned, or is about to, with the lock taken.
Holds(p) == pc[p] \in {"truncate", "write", "held"}

GoTo(p, label) == pc' = [pc EXCEPT ![p] = label]

Init ==
    /\ prog = [p \in Pid |-> "none"]
    /\ pc = [p \in Pid |-> "none"]
    /\ fd = [p \in Pid |-> None]
    /\ path = None
    /\ locked = [i \in Inode |-> None]
    /\ content = [i \in Inode |-> Empty]
    /\ target = [p \in Pid |-> None]
    /\ term = {}
    /\ orphaned = FALSE

-----------------------------------------------------------------------------
FirstStep == [daemon |-> "open", force |-> "forceRead", installer |-> "open", other |-> "busy"]

\* A program starts under a free PID.
Start(p, program) ==
    /\ ~Alive(p)
    /\ prog' = [prog EXCEPT ![p] = program]
    /\ GoTo(p, FirstStep[program])
    /\ UNCHANGED <<fd, path, locked, content, target, term, orphaned>>

\* Mutant: another process still shares the descriptor, so the lock stays.
Die_LockKept(p) ==
    /\ prog' = [prog EXCEPT ![p] = "none"]
    /\ GoTo(p, "none")
    /\ fd' = [fd EXCEPT ![p] = None]
    /\ target' = [target EXCEPT ![p] = None]
    /\ term' = term \ {p}
    /\ UNCHANGED locked

\* The end of a process: the kernel closes its descriptor, which drops the
\* lock.  The file stays as it is.
Die(p) ==
    /\ prog' = [prog EXCEPT ![p] = "none"]
    /\ GoTo(p, "none")
    /\ fd' = [fd EXCEPT ![p] = None]
    /\ locked' = [i \in Inode |-> IF locked[i] = p THEN None ELSE locked[i]]
    /\ target' = [target EXCEPT ![p] = None]
    /\ term' = term \ {p}

\* SIGKILL, a crash, an early os.Exit, or an unrelated program that is done.
Crash(p) ==
    /\ Alive(p)
    /\ Die(p)
    /\ UNCHANGED <<path, content, orphaned>>

-----------------------------------------------------------------------------
(* terminateExisting, under --force.                                        *)

\* The PID in the file the path names now, if that decodes.
RecordedPid == IF path # None /\ content[path][1] = "json" THEN content[path][2] ELSE None

\* No file, or one that does not decode, counts as no instance.
ForceRead(p) ==
    /\ pc[p] = "forceRead"
    /\ target' = [target EXCEPT ![p] = RecordedPid]
    /\ GoTo(p, IF RecordedPid = None THEN "open" ELSE "forceKill")
    /\ UNCHANGED <<prog, fd, path, locked, content, term, orphaned>>

\* kill(pid, 0) and SIGTERM.
ForceKill(p) ==
    /\ pc[p] = "forceKill"
    /\ \/ /\ Alive(target[p])
          /\ term' = term \cup {target[p]}
          /\ GoTo(p, "forceWait")
       \/ /\ ~Alive(target[p])
          /\ GoTo(p, "open")
          /\ UNCHANGED term
    /\ UNCHANGED <<prog, fd, path, locked, content, target, orphaned>>

ForceGone(p) ==
    /\ pc[p] = "forceWait"
    /\ ~Alive(target[p])
    /\ GoTo(p, "open")
    /\ UNCHANGED <<prog, fd, path, locked, content, target, term, orphaned>>

\* Thirty polls found it alive: the daemon gives up.
ForceTimeout(p) ==
    /\ pc[p] = "forceWait"
    /\ Alive(target[p])
    /\ Die(p)
    /\ UNCHANGED <<path, content, orphaned>>

\* SIGTERM reaches a process: a daemon that holds the lock shuts down and
\* releases it, any other program is ended by it.
Terminate(p) ==
    /\ p \in term
    /\ \/ /\ pc[p] = "held"
          /\ prog[p] \in {"daemon", "force"}
          /\ GoTo(p, "unlock")
          /\ term' = term \ {p}
          /\ UNCHANGED <<prog, fd, locked, target>>
       \/ Die(p)
    /\ UNCHANGED <<path, content, orphaned>>

-----------------------------------------------------------------------------
(* Acquire.                                                                 *)

Free(i) == i # path /\ \A p \in Pid : fd[p] # i

\* Mutant: open(O_CREATE | O_TRUNC), before the lock is taken.
Open_Truncates(p) ==
    /\ pc[p] = "open"
    /\ GoTo(p, "flock")
    /\ \E i \in {j \in Inode : IF path = None THEN Free(j) ELSE j = path} :
          /\ path' = i
          /\ fd' = [fd EXCEPT ![p] = i]
          /\ content' = [content EXCEPT ![i] = Empty]
    /\ UNCHANGED <<prog, locked, target, term, orphaned>>

\* open(O_CREATE)
Open(p) ==
    /\ pc[p] = "open"
    /\ GoTo(p, "flock")
    /\ \/ /\ path # None
          /\ fd' = [fd EXCEPT ![p] = path]
          /\ UNCHANGED <<path, content>>
       \/ /\ path = None
          /\ \E i \in {j \in Inode : Free(j)} :
                /\ path' = i
                /\ fd' = [fd EXCEPT ![p] = i]
                /\ content' = [content EXCEPT ![i] = Empty]
    /\ UNCHANGED <<prog, locked, target, term, orphaned>>

\* Mutant: a shared lock, flock(LOCK_SH | LOCK_NB).
Flock_Shared(p) ==
    /\ pc[p] = "flock"
    /\ locked' = [locked EXCEPT ![fd[p]] = p]
    /\ GoTo(p, "truncate")
    /\ UNCHANGED <<prog, fd, path, content, target, term, orphaned>>

\* flock(LOCK_EX | LOCK_NB)
Flock(p) ==
    /\ pc[p] = "flock"
    /\ locked[fd[p]] = None
    /\ locked' = [locked EXCEPT ![fd[p]] = p]
    /\ GoTo(p, "truncate")
    /\ UNCHANGED <<prog, fd, path, content, target, term, orphaned>>

\* "another instance is already running": close the file and exit.
FlockFails(p) ==
    /\ pc[p] = "flock"
    /\ locked[fd[p]] # None
    /\ Die(p)
    /\ UNCHANGED <<path, content, orphaned>>

Truncate(p) ==
    /\ pc[p] = "truncate"
    /\ content' = [content EXCEPT ![fd[p]] = Empty]
    /\ GoTo(p, "write")
    /\ UNCHANGED <<prog, fd, path, locked, target, term, orphaned>>

\* Mutant: the PID is written as it was read, without the other fields.
WritePid_Bare(p) ==
    /\ pc[p] = "write"
    /\ content' = [content EXCEPT ![fd[p]] = p]
    /\ GoTo(p, "held")
    /\ UNCHANGED <<prog, fd, path, locked, target, term, orphaned>>

WritePid(p) ==
    /\ pc[p] = "write"
    /\ content' = [content EXCEPT ![fd[p]] = Record(p)]
    /\ GoTo(p, "held")
    /\ UNCHANGED <<prog, fd, path, locked, target, term, orphaned>>

\* A failing truncate or write: the installer releases, the daemon returns
\* an error with the file still open and the process ends.
RecordFails(p) ==
    /\ pc[p] \in {"truncate", "write"}
    /\ \/ /\ prog[p] = "installer"
          /\ GoTo(p, "unlock")
          /\ UNCHANGED <<prog, fd, locked, target, term>>
       \/ /\ prog[p] # "installer"
          /\ Die(p)
    /\ UNCHANGED <<path, content, orphaned>>

-----------------------------------------------------------------------------
(* Release.                                                                 *)

Finish(p) ==
    /\ pc[p] = "held"
    /\ GoTo(p, "unlock")
    /\ UNCHANGED <<prog, fd, path, locked, content, target, term, orphaned>>

Unlock(p) ==
    /\ pc[p] = "unlock"
    /\ locked' = [locked EXCEPT ![fd[p]] = None]
    /\ GoTo(p, "close")
    /\ UNCHANGED <<prog, fd, path, content, target, term, orphaned>>

Close(p) ==
    /\ pc[p] = "close"
    /\ fd' = [fd EXCEPT ![p] = None]
    /\ GoTo(p, "remove")
    /\ UNCHANGED <<prog, path, locked, content, target, term, orphaned>>

\* unlink(path), whatever it names; then the process ends.
Remove(p) ==
    /\ pc[p] = "remove"
    /\ path' = None
    /\ orphaned' = (orphaned \/ \E q \in Pid : fd[q] # None /\ fd[q] = path)
    /\ Die(p)
    /\ UNCHANGED content

-----------------------------------------------------------------------------
Step(p) ==
    \/ \E program \in Program : Start(p, program)
    \/ Crash(p)
    \/ ForceRead(p) \/ ForceKill(p) \/ ForceGone(p) \/ ForceTimeout(p)
    \/ Terminate(p)
    \/ Open(p) \/ Flock(p) \/ FlockFails(p)
    \/ Truncate(p) \/ WritePid(p) \/ RecordFails(p)
    \/ Finish(p) \/ Unlock(p) \/ Close(p) \/ Remove(p)

Next == \E p \in Pid : Step(p)

Spec == Init /\ [][Next]_vars

-----------------------------------------------------------------------------
(* Properties.                                                              *)

\* lock.go: "Lock represents a file lock for preventing concurrent installer
\* execution", and acquirePIDLock reports "another instance is already
\* running": two processes never hold the lock at a time.
MutualExclusion ==
    \A p, q \in Pid : Holds(p) /\ Holds(q) => p = q

\* Where it can go wrong: two processes hold the lock together only after a
\* release (releasePIDLock, Lock.Release) has unlinked a file that another
\* process had already opened, whatever was killed or terminated before.
ExclusiveUnlessOrphaned == ~orphaned => MutualExclusion

\* The record of a holder is its own for as long as it holds the lock: no
\* other process truncates or overwrites the file it has locked, so --force
\* and the "already running (PID n)" message name the right process.
RecordIntact ==
    \A p \in Pid : pc[p] = "held" => content[fd[p]] = Record(p)

\* A lock never outlives its holder: whoever is recorded by the kernel as
\* the owner of a lock is alive, has the file open and is between the flock
\* and the unlock, so a stale PID file cannot block the next start.
NoStaleLock ==
    \A i \in Inode : locked[i] # None =>
        /\ Alive(locked[i])
        /\ fd[locked[i]] = i
        /\ Holds(locked[i]) \/ pc[locked[i]] = "unlock"

\* terminateExisting logs "Existing daemon found (PID n), sending SIGTERM":
\* only a daemon that was started is ever sent one.
ForceTargetsDaemon == \A p \in term : prog[p] \in {"daemon", "force"}
=============================================================================
