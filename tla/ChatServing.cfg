\* A room of three of whom one stays, or of two who may both leave.
CONSTANTS
    c1 = c1
    c2 = c2
    c3 = c3
    Clients = {c1, c2, c3}
    Habits <- AllHabits
    Workers = {w1, w2}
    Fds = {4, 5}
    MaxChats = 1
    MaxMerge = 2
    None = None
SPECIFICATION FairSpec
\* The server may wait for clients for ever.
CHECK_DEADLOCK FALSE
INVARIANTS
    SameOrderForAll
    NoEcho
    NoFdLeak
    RestingRoomIsEmpty
PROPERTIES
    EmptyRoomFreesPool
