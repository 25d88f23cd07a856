SPECIFICATION Spec
CONSTANTS
    app = app
    Global = Global
    Trade = Trade
    Absent = Absent
    Apps <- MCApps
    MayOverlap = TRUE
    MayFail = FALSE
    OpenBlocks = FALSE
    MaxRevision = 2
    MaxStamp = 3
INVARIANT
    StopHolds
