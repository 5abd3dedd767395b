\* Signing and copying: bootloaders as linked and as signed before.
SPECIFICATION Spec
CONSTANTS
    EhdrSize <- MCEhdrSize
    PhdrSize <- MCPhdrSize
    ShdrSize <- MCShdrSize
    NameSize <- MCNameSize
    ByteBase = 4
    Inputs <- MCInputs
    Originals <- MCOriginals
    Programs <- MCPrograms
    Leftovers <- MCLeftovers
INVARIANTS
    TypeOK
    NoOverlap
    SegmentsKept
    HashPerSegment
    PointersRight
    CopyIsFaithful
    ProgramKept
