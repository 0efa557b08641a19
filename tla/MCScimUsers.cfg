SPECIFICATION MCSpec
CONSTANTS
    Request = {1, 2, 3}
    u1 = u1
    u2 = u2
    u3 = u3
    alice = alice
    bob = bob
    carol = carol
    mail = mail
    title = title
    Id <- MCId
    UserName <- MCUserName
    Attr <- MCAttr
    Operation <- AllOperations
    FirstUsers <- MCFirstUsers
    Config <- MCConfig
    MaxFailures = 1
    NoUser = NoUser
    NoRequest = NoRequest
INVARIANTS
    EtagIdentifiesContent
    NoLossWithoutOverlap
    IfMatchHoldsUnlessOverlapped
PROPERTY
    ImplementsStore
