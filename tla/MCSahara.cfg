\* Safety and liveness: qdl killed twice, one failing read.
SPECIFICATION FairSpec
CONSTANTS
    Wanted <- MCWanted
    Files <- MCFiles
    Wrong = "wrong"
    MaxKills = 2
    MaxFaults = 1
INVARIANTS
    HalfDuplex
    ImageIntact
    XmlOnlyToProgrammer
    NobodyWaits
PROPERTY
    Completes
