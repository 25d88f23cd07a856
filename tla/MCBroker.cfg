SPECIFICATION Spec
CONSTANTS
    p1 = p1
    p2 = p2
    p3 = p3
    a1 = a1
    a2 = a2
    u1 = u1
    book = book
    alice = alice
    Public = Public
    None = None
    Ttl <- MCTtl
    Requests <- SharedRequests
    PathOf <- SharedPath
    CredentialOf <- SharedCredential
    Named = {p1, p2, p3, a1}
    MaxEntries = 1
    MaxRetries = 0
    MaxTime = 1
CHECK_DEADLOCK FALSE
SYMMETRY SharedSymmetry
INVARIANTS
    SingleFlight
    Fresh
    CacheSound
