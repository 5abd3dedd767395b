\* Four plans, four payload sizes, three leftovers, one log line and two
\* failing reads.
SPECIFICATION FairSpec
CONSTANTS
    Plans <- MCPlans
    Caps <- MCCaps
    DefaultPayload = 4
    MaxLogs = 1
    Leftovers <- MCLeftovers
    MaxFaults = 2
INVARIANTS
    InOrder
    RawModeSeesOnlyData
    DataFits
PROPERTIES
    IsFlashJob
    Terminates
