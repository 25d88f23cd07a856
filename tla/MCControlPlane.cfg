SPECIFICATION Spec
CONSTANTS
    app = app
    Global = Global
    Trade = Trade
    Absent = Absent
    Apps <- MCApps
    MayOverlap = FALSE
    MayFail = TRUE
    OpenBlocks = FALSE
    MaxRevision = 3
    MaxStamp = 4
INVARIANTS
    CacheHonest
    StopHolds
    QuietAgreement

    
