\* One client after the other, with any request.
CONSTANTS
    Clients = {c1, c2}
    Kinds = {"page", "dynamic", "missing", "bad"}
    NumFds = 2
    Chunks = 1
    Manners = {"polite"}
SPECIFICATION Spec
\* The server waits for clients for ever.
CHECK_DEADLOCK FALSE
INVARIANTS BadMethodIsAnswered
