SPECIFICATION Spec
CONSTANTS
    p1 = p1
    p2 = p2
    i1 = i1
    i2 = i2
    i3 = i3
    None = None
    Pid <- MCTwoPids
    Inode <- MCThreeInodes
SYMMETRY MCSymmetryTwo
INVARIANTS
    TypeOK
    ExclusiveUnlessOrphaned
    RecordIntact
    NoStaleLock
