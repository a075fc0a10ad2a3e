\* Two servers started at any time, one client, three kinds of files.
CONSTANTS
    Servers = {s1, s2}
    Clients = {c1}
    a = a
    b = b
    d = d
    NoEntry = NoEntry
    Missing = Missing
    Files <- SomeFiles
    Batch = 2
    MaxCrashes = 1
    MaxRequests = 3
SPECIFICATION FairSpec
\* Clients leave and servers wait for clients.
CHECK_DEADLOCK FALSE
INVARIANTS
    AllOrNothing
    ServesWhole
    InStep
PROPERTIES
    NobodyHangs
