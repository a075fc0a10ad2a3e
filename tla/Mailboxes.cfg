\* Two lines and a quit of each author, room for three, one receiver killed.
CONSTANTS
    Kinds = {"pipe", "drain", "flood", "fifo", "chat", "msgq", "talk", "shm", "sem"}
    MaxLines = 2
    Cap = 3
    MaxKills = 1
SPECIFICATION FairSpec
\* Programs end, or wait for a line that nobody types.
CHECK_DEADLOCK FALSE
PROPERTIES
    IsLineTransfer
    EndsOnQuit
    FloodIsStopped
