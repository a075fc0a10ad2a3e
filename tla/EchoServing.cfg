\* Two clients, one of which waits for its answers; the other may type ahead or be
\* killed.  Every kind of server.
CONSTANTS
    Clients = {c1, c2}
    Kinds = {"once", "local", "loop", "fork", "thread", "hangup", "select", "epoll", "small", "edge", "reuse"}
    Polling = {c2}
    Killable = {c2}
    Lengthy = {c2}
    Blank = {c1}
    MaxLines = 2
    MaxConsole = 1
    MaxBoots = 2
SPECIFICATION FairSpec
\* Clients may leave, and a server may end or wait for ever.
CHECK_DEADLOCK FALSE
INVARIANTS
    DroppedOnlyByItself
    OneAnswerEach
PROPERTIES
    AllIsRead
    QuitIsHonoured
    ZombiesAreReaped
