\* One submission and one reboot.
CONSTANTS
    Networks = {n1, n2}
    CaptiveAfterDisconnect = 2
    CaptiveTryingTimeout = 2
    Elapsed = {1}
    MaxSaves = 1
    MaxReboots = 1

SPECIFICATION Spec
INVARIANTS
    KnownGoodSurvives
