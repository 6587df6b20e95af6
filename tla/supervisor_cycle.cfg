\* The charge cycle: the exit window, the two caps, samples that go missing; that it
\* ends, and that a rail that keeps flapping ends in a latch.
CONSTANTS
    FloatV = 2
    AbsorbV = 4
    FullRestV = 2
    OvMargin = 1
    CvBand = 1
    RegulationA = 4
    EnterAbsorbA = 2
    ExitAbsorbA = 1
    OvDuration = 1
    OvercurrentDuration = 1
    MaxAbsorb = 2
    MaxCharge = 4
    ExitDebounce = 2
    BatteryMissingTimeout = 2
    ModbusUnhealthyTimeout = 1
    PackTempStaleTimeout = 1
    FlapWindow = 2
    MaxHolds = 1
    TransitionBuffer = 3
    DurationMax = 5
    PackTemp = "Absent"
    Samples <- CycleSamples
    BuckReads <- MCBuckReads
    Temps <- NoTemps
    Elapsed = {1}

SPECIFICATION FairSpec
INVARIANTS
    FaultTellsState
    NoPanic
    TicketsAgree
PROPERTIES
    KeepsPromise
    StopsAreLogged
    AbsorbEnds
    FlappingLatches
