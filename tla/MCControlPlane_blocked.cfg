SPECIFICATION Spec
CONSTANTS
    app = app
    Global = Global
    Trade = Trade
    Absent = Absent
    Apps <- MCApps
    MayOverlap = FALSE
    MayFail = FALSE
    OpenBlocks = TRUE
    MaxRevision = 2
    MaxStamp = 3
INVARIANT
    StopHolds
