\* Two networks, a grace and a budget of a few ticks, three submissions, two reboots.
CONSTANTS
    Networks = {n1, n2}
    CaptiveAfterDisconnect = 3
    CaptiveTryingTimeout = 2
    Elapsed = {1, 2}
    MaxSaves = 3
    MaxReboots = 2

SPECIFICATION FairSpec
INVARIANTS
    InStep
    SpinnerTellsTruth
    SavedIsProven
    ResetForgets
PROPERTIES
    ResetReachesPortal
    SaveIsAnswered
    AlwaysAWayIn
