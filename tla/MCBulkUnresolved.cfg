SPECIFICATION DanglingSpec
CONSTANTS
    user = user
    group = group
    x = x
    y = y
    n1 = n1
    n2 = n2
    b1 = b1
    b2 = b2
    Bulk = {b1, b2}
    First = {user, group}
    FirstRows <- MCFirstRows
    Plan <- MCPlan
    Length = 3
    Limit = {0}
    BulkId = {x, y}
    Name = {n1, n2}
    Config <- MCConfig
    MaxFailures = 0
    None = None
INVARIANTS
    UnresolvedIsRefused
