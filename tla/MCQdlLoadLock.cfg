\* The notice of ufs.c:52 against the descriptor that is sent.
SPECIFICATION Spec
CONSTANT
    CommandLines <- MCCommandLines
INVARIANT
    LockedAsAsked
