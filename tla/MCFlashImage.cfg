\* Every small image with every small payload; offsets wrap at 8 bytes.
SPECIFICATION Spec
CONSTANTS
    Images <- MCImages
    Payloads <- MCPayloads
    Word = 8
INVARIANTS
    ChunkFits
    DiskFaithful
    WrittenExactly
