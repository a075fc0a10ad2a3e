\* Two bytes are enough for a second half.
CONSTANTS
    MaxSize = 4
    Buf = 2
SPECIFICATION CopySpec
\* The programs end.
CHECK_DEADLOCK FALSE
INVARIANTS SecondHalfCopied
