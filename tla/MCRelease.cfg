\* Builds, preparation and pushes beside each other.
SPECIFICATION Spec
CONSTANTS
    Compared <- MCCompared
    Uncompared <- MCUncompared
    NoImage = NoImage
    NoOta = NoOta
    Partial = Partial
    Bounds <- MCBounds
INVARIANTS
    ToolchainsCurrent
    BaseIsWhole
    ShippedIsTested
