\* The gauntlet's windows, on a board that has a pack temperature sensor.
CONSTANTS
    FloatV = 2
    AbsorbV = 4
    FullRestV = 2
    OvMargin = 1
    CvBand = 1
    RegulationA = 4
    EnterAbsorbA = 2
    ExitAbsorbA = 1
    OvDuration = 2
    OvercurrentDuration = 2
    MaxAbsorb = 1
    MaxCharge = 2
    ExitDebounce = 1
    BatteryMissingTimeout = 2
    ModbusUnhealthyTimeout = 2
    PackTempStaleTimeout = 2
    FlapWindow = 1
    MaxHolds = 1
    TransitionBuffer = 3
    DurationMax = 3
    PackTemp = "Fitted"
    Samples <- WindowSamples
    BuckReads <- TrueBuckReads
    Temps <- SomeTemps
    Elapsed = {1}
    ShortestTick = 1

SPECIFICATION WatchSpec
INVARIANTS
    TypeOK
    NeverBlind
    DangerEnds
    CycleIsCapped
    UnreadTemperatureEnds
