SPECIFICATION MCSpec
CONSTANTS
    e1 = e1
    e2 = e2
    user = user
    new = new
    group = group
    thing = thing
    r1 = r1
    r2 = r2
    Endpoint = {e1, e2}
    Created <- MCCreated
    Resource = {user, new, group, thing}
    Kind <- MCKind
    Home <- MCHome
    FirstRows <- MCFirstRows
    Request = {r1, r2}
    Task <- MCTask
    Seeder = {s1, s2}
    MaxFaults = 1
    None = None
INVARIANTS
    CountsExactUnlessRaced
PROPERTY
    DriftIsRepaired
