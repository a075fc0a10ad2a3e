\* Two clients at once.
CONSTANTS
    Clients = {c1, c2}
    Kinds = {"page"}
    NumFds = 3
    Chunks = 2
    Manners = {"rude"}
SPECIFICATION Spec
\* The server may wait for clients for ever, or have exited.
CHECK_DEADLOCK FALSE
PROPERTIES ClosesOnlyItsOwn
