\* A main loop that stalls, and what the readers see meanwhile.
CONSTANTS
    Producers = {"battery", "ps"}
    HistoryCapacity = 2
    MaxInterval = 2
    StaleWindow = 2
    DurationMax = 5
    LongestLap = 3
    MaxEpoch = 6
    ClockSettings = {1, 3}
    MaxSteps = 2
    MaxCommits = 4

SPECIFICATION Spec
INVARIANTS
    StallDoesNotExtend
