CONSTANTS
    MaxBoots = 3
    MaxFaults = 1
SPECIFICATION FairSpec
INVARIANTS
    TypeOK
    PairMatches
    IdentityKept
    SetupKeysGone
    HandOver
    OncePerBoot
PROPERTIES
    UserKeysKept
    SetupEnds
