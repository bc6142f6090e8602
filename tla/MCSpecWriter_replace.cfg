SPECIFICATION Spec
CONSTANTS
    old = old
    upgraded = upgraded
    daemon = daemon
    cli = cli
    runtime = runtime
    i1 = i1
    i2 = i2
    i3 = i3
    Blank = Blank
    Absent = Absent
    None = None
    Value <- MCValue
    Writer <- MCWriter
    Reader <- MCReader
    Inode <- MCInode
    MaxCrashes = 1
SYMMETRY MCSymmetry
INVARIANTS
    TypeOK
    PublishedIsDurable
    NoLitter
PROPERTIES
    ImplementsSpecFile
