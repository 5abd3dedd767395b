\* The comment of ufs.c:325 against a read that fails.
SPECIFICATION Spec
CONSTANTS
    Plans <- MCPlans
    Caps <- MCCaps
    DefaultPayload = 4
    MaxLogs = 0
    Leftovers <- MCLeftovers
    MaxFaults = 1
INVARIANT
    DryRunAccepted
