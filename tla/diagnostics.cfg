\* Lines of every length up to one longer than the ring, events of three sources.
CONSTANTS
    Capacity = 4
    LineBuf = 6
    LongestFormat = 6
    MaxBytes = 12
    EventCapacity = 2
    CountMax = 3
    InaKinds = 2
    XyKinds = 4
    Causes = {"Lvp", "Otp", "Ocp"}
    ChargeKinds = 1
    MaxEvents = 4

SPECIFICATION Spec
INVARIANTS
    StreamIsOneCut
    EveryEventCounted
PROPERTIES
    KeepsLastBytes
