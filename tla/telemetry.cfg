\* The readings, their clocks and the history, over two compactions and a slide.
CONSTANTS
    Producers = {"ps"}
    HistoryCapacity = 4
    MaxInterval = 4
    StaleWindow = 2
    DurationMax = 5
    LongestLap = 2
    MaxEpoch = 18
    ClockSettings = {0, 1, 8}
    MaxSteps = 2
    MaxCommits = 17

SPECIFICATION Spec
INVARIANTS
    HistoryOrdered
    Contiguous
    SpanIsKept
    DeadIsNotShown
    LiveIsShown
