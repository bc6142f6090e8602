-------------------------- MODULE SpecWriterProofs --------------------------
(***************************************************************************)
(* Proofs about SpecWriter, for any number of writers, readers, inodes and *)
(* crashes.                                                                *)
(*                                                                         *)
(* The argument is one of separation: the inodes that writers change are   *)
(* temporary files, each of one writer, and none of them is named by the   *)
(* path, now or after a power loss, or open in a reader.  A writer's own   *)
(* progress then carries to the rename what PublishedIsDurable needs.      *)
(***************************************************************************)
EXTENDS SpecWriter, TLAPS

\* Temporary files are private, and disjoint from what is published.
Separation ==
    /\ entry \in entries
    /\ \A i \in temps : i \notin entries
    /\ \A r \in Reader : rfd[r] \notin temps
    /\ \A w \in Writer : HasTemp(w) <=> tmp[w] # None
    /\ \A w \in Writer : tmp[w] # None => tmp[w] \in temps
    /\ \A w, x \in Writer : tmp[w] # None /\ tmp[w] = tmp[x] => w = x

\* What the steps of a writer so far have done to its temporary file.
Progress ==
    \A w \in Writer :
        /\ wpc[w] \in {"writeRest", "chmod", "sync", "close", "rename"} =>
               data[tmp[w]].a = new[w]
        /\ wpc[w] \in {"chmod", "sync", "close", "rename"} => data[tmp[w]].b = new[w]
        /\ wpc[w] \in {"sync", "close", "rename"} => public[tmp[w]]
        /\ wpc[w] \in {"close", "rename"} =>
               onDisk[tmp[w]] = data[tmp[w]] /\ modeDisk[tmp[w]]

\* A reader has a whole content open and has read it faithfully.
Reading ==
    \A r \in Reader :
        /\ rpc[r] = "idle" => rfd[r] = None
        /\ rpc[r] # "idle" => rfd[r] # None /\ \E v \in Value : data[rfd[r]] = Whole(v)
        /\ rpc[r] = "second" => got[r].a = data[rfd[r]].a

IInv == TypeOK /\ Separation /\ Progress /\ Reading /\ PublishedIsDurable

-----------------------------------------------------------------------------
\* A file of an earlier run is whole and on the disk (Init).
LEMMA InitIInv == Init => IInv
<1> SUFFICES ASSUME Init PROVE IInv
  OBVIOUS
<1> USE SpecWriterAssumption
<1>1. PICK v \in Value, e \in {None} \cup Inode :
          /\ data = [i \in Inode |-> IF i = e THEN Whole(v) ELSE Nothing]
          /\ public = [i \in Inode |-> i = e]
          /\ entry = e
          /\ new = [w \in Writer |-> v]
  BY DEF Init
<1>2. TypeOK
  BY <1>1 DEF Init, TypeOK, Data, Half, Whole, Nothing, WPc
<1>3. Separation /\ Progress /\ Reading
  BY <1>1 DEF Init, Separation, HasTemp, Progress, Reading
<1>4. PublishedIsDurable
  BY <1>1 DEF Init, PublishedIsDurable
<1> QED BY <1>2, <1>3, <1>4 DEF IInv

\* Every step of a writer preserves the invariant: what it changes is its
\* own temporary file until the rename publishes it.
LEMMA WriterIInv ==
    ASSUME IInv, NEW w \in Writer, WriterStep(w)
    PROVE  IInv'
<1> USE SpecWriterAssumption
<1>1. ASSUME NEW v \in Value, Create(w, v) PROVE IInv'
  <2> PICK i \in Inode :
          /\ Free(i)
          /\ tmp' = [tmp EXCEPT ![w] = i]
          /\ temps' = temps \cup {i}
          /\ data' = [data EXCEPT ![i] = Nothing]
          /\ public' = [public EXCEPT ![i] = FALSE]
          /\ onDisk' = [onDisk EXCEPT ![i] = Nothing]
          /\ modeDisk' = [modeDisk EXCEPT ![i] = FALSE]
    BY <1>1 DEF Create
  <2>1. TypeOK'
    BY <1>1 DEF Create, Step, IInv, TypeOK, Data, Half, Nothing, WPc, readerVars
  <2>2. Separation'
    BY <1>1 DEF Create, Step, Free, IInv, TypeOK, Separation, HasTemp, WPc, readerVars
  <2>3. Progress'
    BY <1>1 DEF Create, Step, Free, IInv, TypeOK, Separation, Progress, HasTemp, WPc, readerVars
  <2>4. Reading'
    BY <1>1 DEF Create, Step, Free, IInv, TypeOK, Reading, readerVars
  <2>5. PublishedIsDurable'
    BY <1>1 DEF Create, Free, IInv, TypeOK, PublishedIsDurable
  <2> QED BY <2>1, <2>2, <2>3, <2>4, <2>5 DEF IInv
<1>2. CASE WriteHalf(w) \/ WriteRest(w)
  <2> USE <1>2 DEF WriteHalf, WriteRest, Step, dirVars, readerVars
  <2>0. tmp[w] \in Inode /\ tmp[w] \in temps
    BY DEF IInv, TypeOK, Separation, HasTemp
  <2>1. TypeOK'
    <3>1. CASE WriteHalf(w)
      BY <2>0, <3>1 DEF IInv, TypeOK, Data, Half, WPc
    <3>2. CASE WriteRest(w)
      BY <2>0, <3>2 DEF IInv, TypeOK, Data, Half, WPc
    <3> QED BY <3>1, <3>2
  <2>2. Separation'
    BY DEF IInv, TypeOK, Separation, HasTemp, WPc
  <2>3. Progress'
    BY <2>0 DEF IInv, TypeOK, Separation, Progress, HasTemp, WPc, Data
  <2>4. Reading'
    BY <2>0 DEF IInv, TypeOK, Separation, Reading
  <2>5. PublishedIsDurable'
    BY <2>0 DEF IInv, TypeOK, Separation, PublishedIsDurable
  <2> QED BY <2>1, <2>2, <2>3, <2>4, <2>5 DEF IInv
<1>3. CASE Chmod(w) \/ Sync(w) \/ Close(w)
  <2> USE <1>3 DEF Chmod, Sync, Close, Step, inodeVars, dirVars, readerVars
  <2>0. tmp[w] \in Inode /\ tmp[w] \in temps
    BY DEF IInv, TypeOK, Separation, HasTemp
  <2>1. TypeOK'
    <3>1. CASE Chmod(w)
      BY <2>0, <3>1 DEF IInv, TypeOK, WPc
    <3>2. CASE Sync(w)
      <4>1. data[tmp[w]] \in Data /\ public[tmp[w]] \in BOOLEAN
        BY <2>0 DEF IInv, TypeOK
      <4> QED BY <2>0, <3>2, <4>1 DEF IInv, TypeOK, WPc
    <3>3. CASE Close(w)
      BY <2>0, <3>3 DEF IInv, TypeOK, WPc
    <3> QED BY <3>1, <3>2, <3>3
  <2>2. Separation'
    BY DEF IInv, TypeOK, Separation, HasTemp, WPc
  <2>3. Progress'
    BY <2>0 DEF IInv, TypeOK, Separation, Progress, HasTemp, WPc
  <2>4. Reading'
    BY <2>0 DEF IInv, TypeOK, Separation, Reading
  <2>5. PublishedIsDurable'
    BY <2>0 DEF IInv, TypeOK, Separation, PublishedIsDurable
  <2> QED BY <2>1, <2>2, <2>3, <2>4, <2>5 DEF IInv
<1>4. CASE Rename(w)
  <2> USE <1>4 DEF Rename, Step, inodeVars, readerVars
  <2>0. tmp[w] \in Inode /\ tmp[w] \in temps
    BY DEF IInv, TypeOK, Separation, HasTemp
  <2>1. TypeOK'
    BY <2>0 DEF IInv, TypeOK, WPc
  <2>2. Separation'
    BY <2>0 DEF IInv, TypeOK, Separation, HasTemp, WPc
  <2>3. Progress'
    BY <2>0 DEF IInv, TypeOK, Separation, Progress, HasTemp, WPc
  <2>4. Reading'
    BY <2>0 DEF IInv, TypeOK, Reading
  <2>5. data[tmp[w]] = Whole(new[w]) /\ onDisk[tmp[w]] = Whole(new[w])
    BY <2>0 DEF IInv, TypeOK, Progress, Whole, Data
  <2>6. PublishedIsDurable'
    BY <2>0, <2>5 DEF IInv, TypeOK, Separation, Progress, PublishedIsDurable
  <2> QED BY <2>1, <2>2, <2>3, <2>4, <2>6 DEF IInv
<1>5. CASE SyncDir(w) \/ SyncDirFails(w) \/ Fail(w)
  <2> USE <1>5 DEF SyncDir, SyncDirFails, Fail, Step, inodeVars, dirVars, readerVars
  <2>1. TypeOK'
    BY DEF IInv, TypeOK, WPc, Separation
  <2>2. Separation'
    BY DEF IInv, TypeOK, Separation, HasTemp, WPc
  <2>3. Progress' /\ Reading'
    BY DEF IInv, TypeOK, Separation, Progress, HasTemp, WPc, Reading
  <2>4. PublishedIsDurable'
    BY DEF IInv, TypeOK, Separation, PublishedIsDurable
  <2> QED BY <2>1, <2>2, <2>3, <2>4 DEF IInv
<1> QED BY <1>1, <1>2, <1>3, <1>4, <1>5 DEF WriterStep

\* Readers change nothing but what they have read.
LEMMA ReaderIInv ==
    ASSUME IInv, NEW r \in Reader, ReaderStep(r)
    PROVE  IInv'
<1> USE SpecWriterAssumption DEF ReaderStep, ReadOpen, ReadHalf, ReadRest,
        inodeVars, dirVars, writerVars
<1>1. TypeOK'
  <2>1. CASE ReadOpen(r)
    BY <2>1 DEF IInv, TypeOK, Data, Half, Nothing
  <2>2. CASE ReadHalf(r)
    BY <2>2 DEF IInv, TypeOK, Data, Half, Reading
  <2>3. CASE ReadRest(r)
    BY <2>3 DEF IInv, TypeOK, Data, Half, Reading
  <2> QED BY <2>1, <2>2, <2>3
<1>2. Separation' /\ Progress'
  BY DEF IInv, TypeOK, Separation, Progress, HasTemp
<1>3. Reading'
  BY DEF IInv, TypeOK, Data, Separation, Reading, PublishedIsDurable
<1>4. PublishedIsDurable'
  BY DEF IInv, PublishedIsDurable
<1> QED BY <1>1, <1>2, <1>3, <1>4 DEF IInv

\* A power loss keeps every published inode: those are flushed.
LEMMA PowerLossIInv ==
    ASSUME IInv, PowerLoss
    PROVE  IInv' /\ \A i \in entries \ {None} : data'[i] = data[i]
<1> USE SpecWriterAssumption
<1> PICK lostA \in SUBSET Unflushed, lostB \in SUBSET Unflushed, lostMode \in SUBSET Unflushed :
        /\ data' = [i \in Inode |-> [a |-> IF i \in lostA THEN onDisk[i].a ELSE data[i].a,
                                    b |-> IF i \in lostB THEN onDisk[i].b ELSE data[i].b]]
        /\ public' = [i \in Inode |-> IF i \in lostMode THEN modeDisk[i] ELSE public[i]]
  BY DEF PowerLoss
<1>1. TypeOK'
  BY DEF PowerLoss, IInv, TypeOK, Data, Half, Nothing, WPc
<1>2. ASSUME NEW i \in entries \ {None}
      PROVE  i \in Inode /\ i \notin Unflushed /\ data'[i] = data[i] /\ public'[i] = public[i]
  BY <1>2 DEF IInv, TypeOK, Data, Unflushed, PublishedIsDurable
<1>3. Separation' /\ Progress' /\ Reading'
  BY DEF PowerLoss, IInv, TypeOK, Separation, Progress, Reading, HasTemp
<1>4. PublishedIsDurable'
  <2> SUFFICES ASSUME NEW i \in (entries' \cup {entry'}) \ {None}
               PROVE  /\ \E v \in Value : data'[i] = Whole(v) /\ onDisk'[i] = Whole(v)
                      /\ public'[i] /\ modeDisk'[i]
    BY DEF PublishedIsDurable
  <2>1. i \in entries \ {None}
    BY DEF PowerLoss
  <2>2. data'[i] = data[i] /\ public'[i] = public[i]
    BY <1>2, <2>1
  <2>3. onDisk' = data' /\ modeDisk' = public'
    BY DEF PowerLoss
  <2>4. public[i] /\ \E v \in Value : data[i] = Whole(v)
    BY <2>1 DEF IInv, PublishedIsDurable
  <2>5. public'[i] /\ modeDisk'[i]
    BY <2>2, <2>3, <2>4, Zenon
  <2> QED BY <2>2, <2>3, <2>4, <2>5
<1> QED BY <1>1, <1>2, <1>3, <1>4 DEF IInv

LEMMA CrashIInv ==
    ASSUME IInv, NEW w \in Writer, Crash(w)
    PROVE  IInv'
<1> USE SpecWriterAssumption DEF Crash, inodeVars, dirVars, readerVars
<1>1. TypeOK'
  BY DEF IInv, TypeOK, WPc
<1>2. Separation' /\ Progress' /\ Reading' /\ PublishedIsDurable'
  BY DEF IInv, TypeOK, Separation, Progress, Reading, HasTemp, PublishedIsDurable
<1> QED BY <1>1, <1>2 DEF IInv

LEMMA RemoveIInv == IInv /\ Remove => IInv'
BY SpecWriterAssumption
   DEF Remove, inodeVars, writerVars, readerVars, IInv, TypeOK, Separation, Progress,
       Reading, HasTemp, PublishedIsDurable

LEMMA NextIInv == IInv /\ [Next]_vars => IInv'
<1> SUFFICES ASSUME IInv, [Next]_vars PROVE IInv'
  OBVIOUS
<1>1. CASE Next
  BY <1>1, WriterIInv, ReaderIInv, PowerLossIInv, CrashIInv, RemoveIInv DEF Next
<1>2. CASE UNCHANGED vars
  BY <1>2 DEF vars, inodeVars, dirVars, writerVars, readerVars, IInv, TypeOK, Separation,
              Progress, Reading, HasTemp, PublishedIsDurable
<1> QED BY <1>1, <1>2

\* The invariant holds of every behaviour.
THEOREM Inductive == Spec => []IInv
BY InitIInv, NextIInv, PTL DEF Spec

\* Type correctness of the writer.
THEOREM TypeCorrect == Spec => []TypeOK
<1>1. IInv => TypeOK
  BY DEF IInv
<1> QED BY <1>1, Inductive, PTL

\* Whatever the path names, now or after a power loss at any point, is a
\* whole spec with mode 0644 that the disk holds (writer.go, Write).
THEOREM Durable == Spec => []PublishedIsDurable
<1>1. IInv => PublishedIsDurable
  BY DEF IInv
<1> QED BY <1>1, Inductive, PTL

-----------------------------------------------------------------------------
(* Temporary files.                                                         *)

\* What each step does to the temporary files: a writer makes one, and gives
\* up its own, by renaming or removing it, in the step in which it forgets it.
LEMMA NoLitterWriter ==
    ASSUME IInv, NoLitter, NEW w \in Writer, WriterStep(w)
    PROVE  NoLitter'
<1> SUFFICES ASSUME crashes' = 0, NEW i \in temps'
             PROVE  \E x \in Writer : HasTemp(x)' /\ tmp'[x] = i
  BY DEF NoLitter
<1>1. ASSUME NEW v \in Value, Create(w, v) PROVE \E x \in Writer : HasTemp(x)' /\ tmp'[x] = i
  <2> PICK j \in Inode : tmp' = [tmp EXCEPT ![w] = j] /\ temps' = temps \cup {j}
    BY <1>1 DEF Create
  <2>1. CASE i = j
    BY <1>1, <2>1 DEF Create, Step, HasTemp, IInv, TypeOK
  <2>2. CASE i # j
    <3>1. PICK x \in Writer : HasTemp(x) /\ tmp[x] = i
      BY <1>1, <2>2 DEF Create, NoLitter
    <3>2. x # w
      BY <1>1, <3>1 DEF Create, Step, HasTemp
    <3> QED BY <1>1, <3>1, <3>2 DEF Create, Step, HasTemp, IInv, TypeOK
  <2> QED BY <2>1, <2>2
<1>2. CASE WriteHalf(w) \/ WriteRest(w) \/ Chmod(w) \/ Sync(w) \/ Close(w)
  <2> USE <1>2 DEF WriteHalf, WriteRest, Chmod, Sync, Close, Step, dirVars
  <2>1. PICK x \in Writer : HasTemp(x) /\ tmp[x] = i
    BY DEF NoLitter
  <2> QED BY <2>1 DEF HasTemp, IInv, TypeOK
<1>3. CASE Rename(w) \/ Fail(w)
  <2> USE <1>3 DEF Rename, Fail, Step
  <2>1. i \in temps /\ i # tmp[w]
    OBVIOUS
  <2>2. PICK x \in Writer : HasTemp(x) /\ tmp[x] = i
    BY <2>1 DEF NoLitter
  <2> QED BY <2>1, <2>2 DEF HasTemp, IInv, TypeOK
<1>4. CASE SyncDir(w) \/ SyncDirFails(w)
  <2> USE <1>4 DEF SyncDir, SyncDirFails, Step, dirVars
  <2>1. PICK x \in Writer : HasTemp(x) /\ tmp[x] = i
    BY DEF NoLitter
  <2>2. x # w
    BY <2>1 DEF HasTemp
  <2> QED BY <2>1, <2>2 DEF HasTemp, IInv, TypeOK
<1> QED BY <1>1, <1>2, <1>3, <1>4 DEF WriterStep

LEMMA NoLitterNext == IInv /\ NoLitter /\ [Next]_vars => NoLitter'
<1> SUFFICES ASSUME IInv, NoLitter, [Next]_vars PROVE NoLitter'
  OBVIOUS
<1>1. ASSUME NEW w \in Writer, WriterStep(w) PROVE NoLitter'
  BY <1>1, NoLitterWriter
<1>2. CASE Remove
  BY <1>2 DEF Remove, writerVars, NoLitter, HasTemp
<1>3. ASSUME NEW r \in Reader, ReaderStep(r) PROVE NoLitter'
  BY <1>3 DEF ReaderStep, ReadOpen, ReadHalf, ReadRest, dirVars, writerVars, NoLitter, HasTemp
<1>4. (\E w \in Writer : Crash(w)) \/ PowerLoss => crashes' # 0
  BY SpecWriterAssumption DEF Crash, PowerLoss, IInv, TypeOK
<1>5. CASE UNCHANGED vars
  BY <1>5 DEF vars, dirVars, writerVars, NoLitter, HasTemp
<1> QED BY <1>1, <1>2, <1>3, <1>4, <1>5 DEF Next, NoLitter

\* The deferred function of Write: until something crashes, a temporary file
\* in the directory is that of a writer at work, whatever has failed.
THEOREM NothingIsLeft == Spec => []NoLitter
<1>1. Init => NoLitter
  BY DEF Init, NoLitter
<1> QED BY <1>1, Inductive, NoLitterNext, PTL DEF Spec

-----------------------------------------------------------------------------
(* Refinement of SpecFile.                                                  *)

\* A step that leaves the published contents and the readers alone is a
\* stutter of the abstract file.
LEMMA Stutter ==
    ASSUME IInv, UNCHANGED <<entry, entries, readerVars>>,
           \A i \in Inode \ temps : data'[i] = data[i]
    PROVE  UNCHANGED File!fileVars
<1>1. \A i \in entries : ValueAt(i)' = ValueAt(i)
  BY SpecWriterAssumption DEF IInv, TypeOK, Separation, ValueAt
<1>2. ValueAt(entry)' = ValueAt(entry)
  BY <1>1 DEF IInv, Separation
<1>3. {ValueAt(i) : i \in entries}' = {ValueAt(i) : i \in entries}
  BY <1>1
<1>4. ASSUME NEW r \in Reader PROVE Result(r)' = Result(r)
  BY <1>4 DEF IInv, TypeOK, Separation, Result, ValueAt, readerVars
<1> QED BY <1>2, <1>3, <1>4 DEF File!fileVars

\* A step that publishes inode i (or None) sets the abstract file.
LEMMA Publish ==
    ASSUME IInv, NEW i \in Inode \cup {None}, entry' = i, entries' = entries \cup {i},
           UNCHANGED <<data, readerVars>>, ValueAt(i) \in Value \cup {Absent}
    PROVE  File!Next
<1>1. \A j : ValueAt(j)' = ValueAt(j)
  BY DEF ValueAt
<1>2. ValueAt(entry)' = ValueAt(i)
  BY DEF ValueAt
<1>3. {ValueAt(j) : j \in entries}' = {ValueAt(j) : j \in entries} \cup {ValueAt(i)}
  BY <1>1
<1>4. ASSUME NEW r \in Reader PROVE Result(r)' = Result(r)
  BY DEF Result, ValueAt, readerVars
<1>5. File!Set(ValueAt(i))
  BY <1>2, <1>3, <1>4 DEF File!Set
<1> QED BY <1>5 DEF File!Next

LEMMA WriterRefines ==
    ASSUME IInv, NEW w \in Writer, WriterStep(w)
    PROVE  File!Next \/ UNCHANGED File!fileVars
<1> USE SpecWriterAssumption
<1>1. ASSUME NEW v \in Value, Create(w, v) PROVE UNCHANGED File!fileVars
  <2> PICK i \in Inode : Free(i) /\ data' = [data EXCEPT ![i] = Nothing]
    BY <1>1 DEF Create
  <2>1. \A j \in entries : ValueAt(j)' = ValueAt(j)
    BY DEF Free, IInv, TypeOK, ValueAt
  <2>2. ValueAt(entry)' = ValueAt(entry)
    BY <1>1, <2>1 DEF Create, IInv, Separation, ValueAt
  <2>3. {ValueAt(j) : j \in entries}' = {ValueAt(j) : j \in entries}
    BY <1>1, <2>1 DEF Create
  <2>4. ASSUME NEW r \in Reader PROVE Result(r)' = Result(r)
    BY <1>1 DEF Create, Free, IInv, TypeOK, Result, ValueAt, readerVars
  <2> QED BY <2>2, <2>3, <2>4 DEF File!fileVars
<1>2. CASE WriteHalf(w) \/ WriteRest(w)
  <2>1. tmp[w] \in temps
    BY <1>2 DEF WriteHalf, WriteRest, Step, IInv, TypeOK, Separation, HasTemp
  <2> QED BY <1>2, <2>1, Stutter DEF WriteHalf, WriteRest, dirVars, IInv, TypeOK
<1>3. CASE Chmod(w) \/ Sync(w) \/ Close(w) \/ SyncDirFails(w) \/ Fail(w)
  BY <1>3, Stutter DEF Chmod, Sync, Close, SyncDirFails, Fail, inodeVars, dirVars
<1>4. CASE Rename(w)
  <2>1. tmp[w] \in Inode /\ data[tmp[w]] = Whole(new[w]) /\ new[w] \in Value
    BY <1>4 DEF Rename, Step, IInv, TypeOK, Separation, HasTemp, Progress, Whole, Data
  <2>2. ValueAt(tmp[w]) = new[w]
    BY <2>1 DEF ValueAt, ValueOf, Whole
  <2> QED BY <1>4, <2>1, <2>2, Publish DEF Rename, inodeVars
<1>5. CASE SyncDir(w)
  <2>1. \A i : ValueAt(i)' = ValueAt(i)
    BY <1>5 DEF SyncDir, inodeVars, ValueAt
  <2>2. ValueAt(entry)' = ValueAt(entry)
    BY <1>5, <2>1 DEF SyncDir
  <2>3. {ValueAt(i) : i \in entries}' = {ValueAt(entry)}
    BY <1>5, <2>1 DEF SyncDir
  <2>4. ASSUME NEW r \in Reader PROVE Result(r)' = Result(r)
    BY <1>5 DEF SyncDir, Result, ValueAt, inodeVars, readerVars
  <2>5. File!Settle
    BY <2>2, <2>3, <2>4 DEF File!Settle
  <2> QED BY <2>5 DEF File!Next
<1> QED BY <1>1, <1>2, <1>3, <1>4, <1>5 DEF WriterStep

\* Opening the file reads it; the two reads that follow change nothing.
LEMMA ReaderRefines ==
    ASSUME IInv, NEW r \in Reader, ReaderStep(r)
    PROVE  File!Next \/ UNCHANGED File!fileVars
<1> USE SpecWriterAssumption
<1>0. UNCHANGED <<data, entry, entries>>
  BY DEF ReaderStep, ReadOpen, ReadHalf, ReadRest, inodeVars, dirVars
<1>1. /\ ValueAt(entry)' = ValueAt(entry)
      /\ {ValueAt(i) : i \in entries}' = {ValueAt(i) : i \in entries}
  BY <1>0 DEF ValueAt
<1>2. ASSUME NEW q \in Reader, q # r PROVE Result(q)' = Result(q)
  BY <1>0, <1>2 DEF ReaderStep, ReadOpen, ReadHalf, ReadRest, Result, ValueAt, IInv, TypeOK
<1>3. CASE ReadOpen(r)
  <2>1. Result(r)' = ValueAt(entry)
    BY <1>0, <1>3 DEF ReadOpen, Result, ValueAt, IInv, TypeOK
  <2>2. [q \in Reader |-> Result(q)]' = [[q \in Reader |-> Result(q)] EXCEPT ![r] = ValueAt(entry)]
    BY <1>2, <2>1
  <2>3. File!Read(r)
    BY <1>1, <2>2 DEF File!Read
  <2> QED BY <2>3 DEF File!Next
<1>4. CASE ReadHalf(r) \/ ReadRest(r)
  <2>1. PICK v \in Value : rfd[r] # None /\ data[rfd[r]] = Whole(v)
    BY <1>4 DEF ReadHalf, ReadRest, IInv, Reading
  <2>2. Result(r) = v
    BY <1>4, <2>1 DEF ReadHalf, ReadRest, Result, ValueAt, ValueOf, Whole
  <2>3. Result(r)' = v
    <3>1. CASE ReadHalf(r)
      BY <1>0, <2>1, <3>1 DEF ReadHalf, Result, ValueAt, ValueOf, Whole, IInv, TypeOK
    <3>2. CASE ReadRest(r)
      <4>1. got'[r] = Whole(v) /\ rpc'[r] = "idle"
        BY <2>1, <3>2 DEF ReadRest, IInv, TypeOK, Reading, Whole
      <4> QED BY <4>1 DEF Result, ValueOf, Whole, Nothing
    <3> QED BY <1>4, <3>1, <3>2
  <2>4. [q \in Reader |-> Result(q)]' = [q \in Reader |-> Result(q)]
    BY <1>2, <2>2, <2>3
  <2> QED BY <1>1, <2>4 DEF File!fileVars
<1> QED BY <1>3, <1>4 DEF ReaderStep

LEMMA PowerLossRefines ==
    ASSUME IInv, PowerLoss
    PROVE  File!Next
<1>1. \A i \in entries : ValueAt(i)' = ValueAt(i)
  BY PowerLossIInv DEF ValueAt
<1>2. entry' \in entries /\ entries' = {entry'}
  BY DEF PowerLoss
<1>3. ValueAt(entry)' \in {ValueAt(i) : i \in entries}
  BY <1>1, <1>2
<1>4. {ValueAt(i) : i \in entries}' = {ValueAt(entry)'}
  BY <1>2
<1>5. ASSUME NEW r \in Reader PROVE Result(r)' = Absent
  BY DEF PowerLoss, Result
<1>6. File!PowerLoss
  BY <1>3, <1>4, <1>5 DEF File!PowerLoss
<1> QED BY <1>6 DEF File!Next

\* writer.Write implements the register of SpecFile for any number of
\* unlocked writers: readers "always observe either the previous full
\* content or the new full content", and a power loss takes the file back to
\* a content it had since the last directory fsync.
THEOREM Refinement == Spec => ImplementsSpecFile
<1>1. Init => File!Init
  <2> SUFFICES ASSUME Init PROVE File!Init
    OBVIOUS
  <2>1. PICK v \in Value, e \in {None} \cup Inode :
            /\ data = [i \in Inode |-> IF i = e THEN Whole(v) ELSE Nothing]
            /\ entry = e
    BY DEF Init
  <2>2. ValueAt(entry) \in Value \cup {Absent}
    BY <2>1 DEF ValueAt, ValueOf, Whole
  <2>3. {ValueAt(i) : i \in entries} = {ValueAt(entry)}
    BY DEF Init
  <2>4. ASSUME NEW r \in Reader PROVE Result(r) = Absent
    BY DEF Init, Result
  <2> QED BY <2>2, <2>3, <2>4 DEF File!Init
<1>2. IInv /\ [Next]_vars => [File!Next]_(File!fileVars)
  <2> SUFFICES ASSUME IInv, [Next]_vars
               PROVE  File!Next \/ UNCHANGED File!fileVars
    OBVIOUS
  <2>1. CASE \E w \in Writer : WriterStep(w)
    BY <2>1, WriterRefines
  <2>2. CASE Remove
    BY <2>2, Publish DEF Remove, inodeVars, ValueAt
  <2>3. CASE \E r \in Reader : ReaderStep(r)
    BY <2>3, ReaderRefines
  <2>4. CASE \E w \in Writer : Crash(w)
    BY <2>4, Stutter DEF Crash, inodeVars, dirVars
  <2>5. CASE PowerLoss
    BY <2>5, PowerLossRefines
  <2>6. CASE UNCHANGED vars
    BY <2>6, Stutter DEF vars, inodeVars, dirVars
  <2> QED BY <2>1, <2>2, <2>3, <2>4, <2>5, <2>6 DEF Next
<1> QED BY <1>1, <1>2, Inductive, PTL DEF Spec, ImplementsSpecFile, File!Spec
=============================================================================
