\* Two servers, two images of seven pieces, and texts at and past limits of two to four bytes.
CONSTANTS
    Firmwares = {f1, f2}
    Pieces = 7
    TagLen = 2
    RecvTimeout = 2
    UploadTimeout = 3
    TypedSsids <- MCTypedSsids
    TypedPasswords <- MCTypedPasswords
    SsidMax = 2
    PskMin = 2
    PskMax = 3
    PasswordMax = 4
    BodyMax = 20
    ReadSizes = {1, 5}
    Threads = {t1, t2}
    HeaderLen = 3

SPECIFICATION FairHttpSpec
INVARIANTS
    BootsLastVerified
    UploadIsBounded
    BindFindsPortFree
    SavedIsWhatWasTyped
PROPERTIES
    SwitchEnds
