\* Two clients on a table that holds a connection and a file: accept and open may
\* find it full.
CONSTANTS
    Clients = {c1, c2}
    Kinds = {"page", "dynamic", "missing", "bad"}
    NumFds = 2
    Chunks = 2
    Manners = {"polite", "rude"}
SPECIFICATION ServingSpec
\* The server may wait for clients for ever, or have exited.
CHECK_DEADLOCK FALSE
INVARIANTS TypeOK DoneMeansClosed RightAnswer StaysUp
PROPERTIES EndedIsClosed
