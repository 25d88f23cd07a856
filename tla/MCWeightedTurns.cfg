SPECIFICATION Spec
CONSTANTS
    trading = trading
    standard = standard
    bulk = bulk
    Classes <- MCClasses
    Weight <- MCWeight
    Rank <- MCRank
    MaxMissed = 40
INVARIANTS
    
    RoundShare
