\* A reliable network and a lossy one; files longer and shorter than the numbering.
CONSTANTS
    Getters = {"g", "c"}
    Putters = {"p", "c"}
    Refused = {"r"}
    Ascii = {"a"}
    BlockMod = 8
    Settings <- BothNetworks
SPECIFICATION FairSpec
\* The server may wait for a packet for ever.
CHECK_DEADLOCK FALSE
INVARIANTS
    DownloadIsFaithful
    UploadIsFaithful
PROPERTIES
    ServerComesBack
