\* A hand on the panel, and writes that get lost: what the charger brings to an end.
CONSTANTS
    FloatV = 2
    AbsorbV = 4
    FullRestV = 2
    OvMargin = 1
    CvBand = 1
    RegulationA = 4
    EnterAbsorbA = 2
    ExitAbsorbA = 1
    OvDuration = 1
    OvercurrentDuration = 1
    MaxAbsorb = 1
    MaxCharge = 2
    ExitDebounce = 1
    BatteryMissingTimeout = 1
    ModbusUnhealthyTimeout = 1
    PackTempStaleTimeout = 1
    FlapWindow = 1
    MaxHolds = 0
    TransitionBuffer = 3
    DurationMax = 3
    PackTemp = "Absent"
    Samples <- CycleSamples
    BuckReads <- AllBuckReads
    Temps <- NoTemps
    Elapsed = {1}
    Outcomes = {"Ok", "Lost"}
    Trips = {"Lvp"}
    PanelUsed = TRUE
    RebootAllowed = FALSE
    BootRetryCount = 1
    PowerOnDefaults = {FALSE}

SPECIFICATION FairChargerSpec
PROPERTIES
    LatchWins
    StrayTargetEnds
    ParkLands
