SPECIFICATION ShareSpec
CONSTANTS
    trading = trading
    bulk = bulk
    collector = collector
    quoter = quoter
    report = report
    c1 = c1
    c2 = c2
    q1 = q1
    b1 = b1
    None = None
    Classes <- MCClasses
    Weight <- MCWeight
    Rank <- MCRank
    Callers <- MCCallers
    ClassOf <- MCClassOf
    Requests <- MCRequests
    CallerOf <- MCCallerOf
    Cancellable = {b1}
    CancelPoints = {"waiting", "admitting", "settling"}
PROPERTY
    NoStarvation
