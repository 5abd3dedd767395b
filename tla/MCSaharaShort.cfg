\* The message of sahara.c:151 against a stale errno.
SPECIFICATION Spec
CONSTANTS
    Wanted <- MCWanted
    Files <- MCFiles
    Wrong = "wrong"
    MaxKills = 0
    MaxFaults = 0
INVARIANT
    ShortReadEnds
