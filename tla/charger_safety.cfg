\* The charger with writes that get lost, protections, power cycles and reboots.
CONSTANTS
    FloatV = 2
    AbsorbV = 4
    FullRestV = 2
    OvMargin = 1
    CvBand = 1
    RegulationA = 4
    EnterAbsorbA = 2
    ExitAbsorbA = 1
    OvDuration = 2
    OvercurrentDuration = 2
    MaxAbsorb = 1
    MaxCharge = 2
    ExitDebounce = 1
    BatteryMissingTimeout = 2
    ModbusUnhealthyTimeout = 2
    PackTempStaleTimeout = 1
    FlapWindow = 2
    MaxHolds = 2
    TransitionBuffer = 3
    DurationMax = 3
    PackTemp = "Absent"
    Samples <- MCSamples
    BuckReads <- AllBuckReads
    Temps <- NoTemps
    Elapsed = {1}
    Outcomes = {"Ok", "Lost"}
    Trips = {"Lvp", "Ovp"}
    PanelUsed = FALSE
    RebootAllowed = TRUE
    BootRetryCount = 2
    PowerOnDefaults = {FALSE}

SPECIFICATION ChargerSpec
INVARIANTS
    DeviceHoldsTarget
    LatchedIsDark
    FaultEndsCharge
    NoSelfInflictedLatch
PROPERTIES
    StepDownIsDark
