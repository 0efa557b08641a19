SPECIFICATION MCSpec
CONSTANTS
    r1 = r1
    r2 = r2
    r3 = r3
    client = client
    trust = trust
    Request = {r1, r2, r3}
    First = {client, trust}
    FirstRows <- MCFirstRows
    DefaultId = DefaultId
    None = None
    MaxFailures = 1
INVARIANTS
    RevokedIsRefused
    IssuedSecretAccepted
    OnceKeepsNoSecret
    TrustStands
