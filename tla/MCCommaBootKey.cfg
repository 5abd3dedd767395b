CONSTANTS
    MaxBoots = 2
    MaxFaults = 0
SPECIFICATION Spec
INVARIANT SetupHasKey
