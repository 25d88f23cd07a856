SPECIFICATION Spec
CONSTANTS
    p1 = p1
    p2 = p2
    p3 = p3
    a1 = a1
    a2 = a2
    u1 = u1
    book = book
    alice = alice
    Public = Public
    None = None
    Ttl <- MCTtl
    Requests <- ApartRequests
    PathOf <- ApartPath
    CredentialOf <- ApartCredential
    Named = {a1, a2}
    MaxEntries = 1
    MaxRetries = 1
    MaxTime = 0
CHECK_DEADLOCK FALSE
INVARIANTS
    RetriesBounded
    KeptApart
PROPERTIES
    QuietAfterClose
    EveryRequestEnds
