\* Three workers of each program, two increments of each, one spurious wakeup;
\* sources of no to seven bytes, two at a time: halves of up to two buffers;
\* four members of the ring, killed up to three times and started again.
CONSTANTS
    Workers = {w1, w2, w3}
    Kinds = {"post", "signal", "broadcast", "detached", "shared", "whole", "reap", "usr1", "mask"}
    MaxRounds = 2
    MaxSpurious = 1
    MaxSize = 7
    Buf = 2
    NumMembers = 4
    Orderly = TRUE
    MaxKills = 3
SPECIFICATION ProcessSpec
\* Programs end, or wait for a notification or a token that has been lost.
CHECK_DEADLOCK FALSE
INVARIANTS
    NothingFromNothing
    CountedUp
    ZombiesWereMerged
    CopyIsFaithful
    RingTypeOK
    InTurn
PROPERTIES
    ComesToItsEnd
    CopyEnds
    EverybodyPrints
