SPECIFICATION FairSpec
CONSTANTS
    NoOne = NoOne
    Gone = Gone
    Clients = {c1, c2}
    Servers = {s1, s2}
    Timeout = FALSE
    Tries = 1
    Backlog = 2
    Killers = {c2}
    MayDie = {c1, s1}
INVARIANTS
    ServerSafety
    CommandKept
PROPERTIES
    UIComesBack
    ClientHeard
    StopHonoured
