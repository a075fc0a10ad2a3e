CONSTANTS
    c1 = c1
    c2 = c2
    c3 = c3
    Clients = {c1, c2, c3}
    Habits <- SilentOnly
    Workers = {w1, w2}
    Fds = {4, 5}
    MaxChats = 1
    MaxMerge = 2
    None = None
SPECIFICATION Spec
\* The server may wait for clients for ever.
CHECK_DEADLOCK FALSE
INVARIANT TaskServesItsClient
