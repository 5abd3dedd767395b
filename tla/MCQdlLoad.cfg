\* What the loaders accept and load.
SPECIFICATION Spec
CONSTANT
    CommandLines <- MCCommandLines
INVARIANTS
    LoadedInOrder
    GateExact
