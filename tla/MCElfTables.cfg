\* Writing and reading tables, in all classes and byte orders, and a section.
SPECIFICATION SectionsSpec
CONSTANTS
    ByteBase = 4
    Names <- MCNames
    Files <- MCFiles
    Strings <- MCStrings
    StringSize <- MCStringSize
    Hash <- MCHash
    Numbers <- MCNumbers
    Addends <- MCAddends
    Tags <- MCTags
    RelTypes <- MCRelTypes
    MaxAdded = 2
    MaxString = 6
    Sizes <- MCSizes
INVARIANTS
    RelocationsReachSymbols
    LookupByName
    DynamicReadBack
    NotesReadBack
    DumpedAll
    RoomForAll
PROPERTIES
    DumpEnds
