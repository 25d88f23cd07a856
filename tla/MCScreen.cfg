SPECIFICATION Spec
CONSTANTS
    Unknown = Unknown
    DateParse <- MCDateParse
    Responses <- MCResponses
    AuditResponses <- MCAuditResponses
    Moments <- MCMoments
    Widths = {840, 940, 1000}
CHECK_DEADLOCK FALSE
INVARIANTS
    
    StopShown
    OldNeverCurrent
    AgeHonest
    AlertReachable
    ChartTrue
    AuditHonest
