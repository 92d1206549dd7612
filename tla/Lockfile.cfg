SPECIFICATION FairSpec
CONSTANTS
    p1 = p1
    p2 = p2
    i1 = i1
    i2 = i2
    i3 = i3
    Procs = {p1, p2}
    Inodes = {i1, i2, i3}
    NoInode = NoInode
INVARIANTS
    LockSafety
PROPERTIES
    SomebodyGetsIt
    ImplementsRWLock
