SPECIFICATION MCSpec
CONSTANTS
    idp = idp
    other = other
    third = third
    n1 = n1
    n2 = n2
    v1 = v1
    v2 = v2
    a1 = a1
    a2 = a2
    Host = {idp, other, third}
    Seed = {idp}
    Env = {}
    Row = {1, 2, 3}
    Unused = Unused
    Removed = Removed
    Admin = {a1, a2}
    Call <- MCCall
    FirstTables <- MCFirstTables
    MaxDbFailures = 1
    Uri = {idp}
    Verifier = {v1, v2}
    Slot = {n1, n2}
    Policy <- MCPolicy
    Server <- MCServer
    Token <- MCToken
    KeySet <- MCKeySet
    NoKid = NoKid
    None = None
    MaxRedirects = 1
    MaxTime = 2
    MaxSweeps = 1
INVARIANT
    FetchWithinDeadline
