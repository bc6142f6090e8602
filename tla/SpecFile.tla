------------------------------ MODULE SpecFile ------------------------------
(***************************************************************************)
(* What a reader of a CDI spec file is promised: a register that is        *)
(* replaced or removed at once, and that a power loss may only take back   *)
(* to one of the values it had since it was last settled on the disk.      *)
(***************************************************************************)
CONSTANTS
    Value,    \* contents of a spec file
    Absent,   \* there is no file
    Reader    \* who loads the spec file

VARIABLES
    value,      \* what the file contains
    survivors,  \* what a power loss may leave
    seen        \* what each reader got

fileVars == <<value, survivors, seen>>

Init ==
    /\ value \in Value \cup {Absent}
    /\ survivors = {value}
    /\ seen = [r \in Reader |-> Absent]

\* The file is replaced by v, or removed.
Set(v) ==
    /\ value' = v
    /\ survivors' = survivors \cup {v}
    /\ UNCHANGED seen

Settle ==
    /\ survivors' = {value}
    /\ UNCHANGED <<value, seen>>

Read(r) ==
    /\ seen' = [seen EXCEPT ![r] = value]
    /\ UNCHANGED <<value, survivors>>

\* The machine restarts; readers start afresh.
PowerLoss ==
    /\ value' \in survivors
    /\ survivors' = {value'}
    /\ seen' = [r \in Reader |-> Absent]

Next ==
    \/ \E v \in Value \cup {Absent} : Set(v)
    \/ Settle
    \/ \E r \in Reader : Read(r)
    \/ PowerLoss

Spec == Init /\ [][Next]_fileVars
=============================================================================
