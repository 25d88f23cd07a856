SPECIFICATION Spec
CONSTANTS
    app = app
    refresh = refresh
    broken = broken
    Global = Global
    Trade = Trade
    Unassigned = Unassigned
    Poll = Poll
    None = None
    Apps = {app}
    Manual = {refresh}
    Problems = {broken}
    MaxRevision = 2
INVARIANTS
    NotBehind
PROPERTIES
    AsSeen
    ToldTruly
    BackOnlyByOverlap
