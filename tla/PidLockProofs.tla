--------------------------- MODULE PidLockProofs ---------------------------
(***************************************************************************)
(* Proofs about PidLock, for any set of processes and inodes.              *)
(*                                                                         *)
(* The inductive invariant ties what the kernel records (locked) to where  *)
(* the processes are: a lock is owned by a live process that has the inode *)
(* open and is between its flock and its unlock, and conversely.  From it  *)
(* follow the record's integrity and the absence of stale locks.  Mutual   *)
(* exclusion needs one fact more, which holds until a release unlinks a    *)
(* file somebody has open: every open descriptor is for the path's inode.  *)
(***************************************************************************)
EXTENDS PidLock, TLAPS

Owning == {"truncate", "write", "held", "unlock"}
Opened == {"flock", "truncate", "write", "held", "unlock", "close"}

\* The program counter agrees with the rest of a process's state.
PcInv ==
    \A p \in Pid :
        /\ pc[p] = "none" <=> prog[p] = "none"
        /\ pc[p] \in Opened <=> fd[p] # None
        /\ pc[p] \in {"forceKill", "forceWait"} => target[p] # None

\* The kernel's owner of a lock is exactly the process that took it.
LockInv ==
    /\ \A i \in Inode : locked[i] # None =>
            fd[locked[i]] = i /\ pc[locked[i]] \in Owning
    /\ \A p \in Pid : pc[p] \in Owning => locked[fd[p]] = p

IInv == TypeOK /\ PcInv /\ LockInv /\ RecordIntact

\* Until a file is orphaned, whoever has a file open has the path's open.
PathInv == ~orphaned => \A p \in Pid : fd[p] # None => fd[p] = path

-----------------------------------------------------------------------------
\* The initial state, with no process and no file, satisfies the invariant.
LEMMA InitIInv == Init => IInv
BY PidLockAssumption
   DEF Init, IInv, TypeOK, PcInv, LockInv, RecordIntact, Program, PC, Contents,
       Empty, Opened, Owning

\* The end of a process (Die) frees its descriptor and its lock.
LEMMA DiePreserves ==
    ASSUME NEW p \in Pid, IInv, Die(p), content' = content,
           path' = path \/ path' = None, orphaned' \in BOOLEAN
    PROVE  IInv'
BY PidLockAssumption
   DEF IInv, TypeOK, PcInv, LockInv, RecordIntact, Program, PC, Contents,
       Empty, Opened, Owning, Die, GoTo, Record, Format

\* Every step of every process preserves the invariant.
LEMMA StepIInv ==
    ASSUME NEW p \in Pid, IInv, Step(p)
    PROVE  IInv'
<1> USE PidLockAssumption
<1>0. orphaned' \in BOOLEAN
  BY DEF Step, Start, Crash, ForceRead, ForceKill, ForceGone, ForceTimeout, Terminate, Open,
         Flock, FlockFails, Truncate, WritePid, RecordFails, Finish, Unlock, Close, Remove,
         IInv, TypeOK
<1>1. ASSUME NEW program \in Program, Start(p, program) PROVE IInv'
  BY <1>1 DEF Start, FirstStep, Alive, IInv, TypeOK, PcInv, LockInv, RecordIntact, Program,
              PC, Contents, Empty, Opened, Owning, GoTo, Record, Format
<1>2. CASE Crash(p)
  BY <1>2, <1>0, DiePreserves DEF Crash
<1>3. CASE ForceRead(p)
  BY <1>3 DEF ForceRead, RecordedPid, IInv, TypeOK, PcInv, LockInv, RecordIntact,
              Program, PC, Contents, Empty, Opened, Owning, GoTo, Record, Format
<1>4. CASE ForceKill(p)
  BY <1>4 DEF ForceKill, Alive, IInv, TypeOK, PcInv, LockInv, RecordIntact,
              Program, PC, Contents, Empty, Opened, Owning, GoTo, Record, Format
<1>5. CASE ForceGone(p)
  BY <1>5 DEF ForceGone, Alive, IInv, TypeOK, PcInv, LockInv, RecordIntact,
              Program, PC, Contents, Empty, Opened, Owning, GoTo, Record, Format
<1>6. CASE ForceTimeout(p)
  BY <1>6, <1>0, DiePreserves DEF ForceTimeout
<1>7. CASE Terminate(p)
  <2>1. CASE Die(p)
    BY <1>7, <2>1, <1>0, DiePreserves DEF Terminate
  <2>2. CASE ~Die(p)
    BY <1>7, <2>2 DEF Terminate, IInv, TypeOK, PcInv, LockInv, RecordIntact,
              Program, PC, Contents, Empty, Opened, Owning, GoTo, Record, Format
  <2> QED BY <2>1, <2>2
<1>8. CASE Open(p)
  BY <1>8 DEF Open, Free, IInv, TypeOK, PcInv, LockInv, RecordIntact,
              Program, PC, Contents, Empty, Opened, Owning, GoTo, Record, Format
<1>9. CASE Flock(p)
  BY <1>9 DEF Flock, IInv, TypeOK, PcInv, LockInv, RecordIntact,
              Program, PC, Contents, Empty, Opened, Owning, GoTo, Record, Format
<1>10. CASE FlockFails(p)
  BY <1>10, <1>0, DiePreserves DEF FlockFails
<1>11. CASE Truncate(p)
  BY <1>11 DEF Truncate, IInv, TypeOK, PcInv, LockInv, RecordIntact,
              Program, PC, Contents, Empty, Opened, Owning, GoTo, Record, Format
<1>12. CASE WritePid(p)
  BY <1>12 DEF WritePid, IInv, TypeOK, PcInv, LockInv, RecordIntact,
              Program, PC, Contents, Empty, Opened, Owning, GoTo, Record, Format
<1>13. CASE RecordFails(p)
  <2>1. CASE Die(p)
    BY <1>13, <2>1, <1>0, DiePreserves DEF RecordFails
  <2>2. CASE ~Die(p)
    BY <1>13, <2>2 DEF RecordFails, IInv, TypeOK, PcInv, LockInv, RecordIntact,
              Program, PC, Contents, Empty, Opened, Owning, GoTo, Record, Format
  <2> QED BY <2>1, <2>2
<1>14. CASE Finish(p)
  BY <1>14 DEF Finish, IInv, TypeOK, PcInv, LockInv, RecordIntact,
              Program, PC, Contents, Empty, Opened, Owning, GoTo, Record, Format
<1>15. CASE Unlock(p)
  BY <1>15 DEF Unlock, IInv, TypeOK, PcInv, LockInv, RecordIntact,
              Program, PC, Contents, Empty, Opened, Owning, GoTo, Record, Format
<1>16. CASE Close(p)
  BY <1>16 DEF Close, IInv, TypeOK, PcInv, LockInv, RecordIntact,
              Program, PC, Contents, Empty, Opened, Owning, GoTo, Record, Format
<1>17. CASE Remove(p)
  BY <1>17, <1>0, DiePreserves DEF Remove
<1> QED
  BY <1>1, <1>2, <1>3, <1>4, <1>5, <1>6, <1>7, <1>8, <1>9, <1>10, <1>11, <1>12,
     <1>13, <1>14, <1>15, <1>16, <1>17 DEF Step

LEMMA NextIInv == IInv /\ [Next]_vars => IInv'
<1> SUFFICES ASSUME IInv, [Next]_vars PROVE IInv'
  OBVIOUS
<1>1. CASE Next
  BY <1>1, StepIInv DEF Next
<1>2. CASE UNCHANGED vars
  BY <1>2 DEF vars, IInv, TypeOK, PcInv, LockInv, RecordIntact, Record
<1> QED BY <1>1, <1>2

\* The invariant holds of every behaviour.
THEOREM Inductive == Spec => []IInv
BY InitIInv, NextIInv, PTL DEF Spec

\* Type correctness of the PID lock.
THEOREM TypeCorrect == Spec => []TypeOK
<1>1. IInv => TypeOK
  BY DEF IInv
<1> QED BY <1>1, Inductive, PTL

\* A holder's record (daemon.go:331, lock.go:68) is never overwritten while
\* it holds the lock, by any program, with or without clean exits.
THEOREM RecordsStay == Spec => []RecordIntact
<1>1. IInv => RecordIntact
  BY DEF IInv
<1> QED BY <1>1, Inductive, PTL

\* No lock outlives its holder, so a PID file left by a process that was
\* killed never blocks the next start.
THEOREM LocksAreLive == Spec => []NoStaleLock
<1>1. IInv => NoStaleLock
  BY PidLockAssumption
     DEF IInv, TypeOK, PcInv, LockInv, NoStaleLock, Alive, Holds, Owning, Opened
<1> QED BY <1>1, Inductive, PTL

-----------------------------------------------------------------------------
(* Mutual exclusion, until a release unlinks a file another process has open. *)

LEMMA InitPathInv == Init => PathInv
BY DEF Init, PathInv

LEMMA StepPathInv ==
    ASSUME IInv, PathInv, NEW p \in Pid, Step(p)
    PROVE  PathInv'
<1> USE PidLockAssumption DEF IInv, TypeOK, PathInv, GoTo
<1>1. ASSUME NEW program \in Program, Start(p, program) PROVE PathInv'
  BY <1>1 DEF Start
<1>2. ASSUME Die(p), path' = path, orphaned' = orphaned PROVE PathInv'
  BY <1>2 DEF Die
<1>3. CASE Open(p)
  BY <1>3 DEF Open
<1>4. CASE ForceRead(p) \/ ForceKill(p) \/ ForceGone(p)
  BY <1>4 DEF ForceRead, ForceKill, ForceGone
<1>5. CASE Flock(p) \/ Truncate(p) \/ WritePid(p) \/ Finish(p) \/ Unlock(p)
  BY <1>5 DEF Flock, Truncate, WritePid, Finish, Unlock
<1>6. CASE Crash(p) \/ ForceTimeout(p) \/ FlockFails(p)
  BY <1>6, <1>2 DEF Crash, ForceTimeout, FlockFails
<1>7. CASE Terminate(p) \/ RecordFails(p)
  BY <1>7, <1>2 DEF Terminate, RecordFails
<1>8. CASE Close(p)
  BY <1>8 DEF Close
\* The path's inode is lost, but no descriptor for it is left open.
<1>9. CASE Remove(p)
  BY <1>9 DEF Remove, Die
<1> QED
  BY <1>1, <1>3, <1>4, <1>5, <1>6, <1>7, <1>8, <1>9 DEF Step

\* The flock does exclude, through crashes, signals, releases and --force:
\* there is one holder at a time until a release unlinks a file that another
\* process has already opened.  The unlink in releasePIDLock and Lock.Release
\* is therefore the only thing in the protocol that can break it.
THEOREM ExclusiveUntilOrphaned == Spec => []ExclusiveUnlessOrphaned
<1>1. IInv /\ PathInv /\ [Next]_vars => PathInv'
  <2> SUFFICES ASSUME IInv, PathInv, [Next]_vars PROVE PathInv'
    OBVIOUS
  <2>1. CASE Next
    BY <2>1, StepPathInv DEF Next
  <2>2. CASE UNCHANGED vars
    BY <2>2 DEF vars, PathInv
  <2> QED BY <2>1, <2>2
<1>2. IInv /\ PathInv => ExclusiveUnlessOrphaned
  BY PidLockAssumption
     DEF IInv, TypeOK, PcInv, LockInv, PathInv, ExclusiveUnlessOrphaned, MutualExclusion, Holds,
         Owning, Opened
<1> QED BY <1>1, <1>2, InitPathInv, Inductive, PTL DEF Spec
=============================================================================
