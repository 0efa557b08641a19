SPECIFICATION MCSpec
CONSTANTS
    Request = {1, 2, 3}
    g1 = g1
    g2 = g2
    g3 = g3
    g4 = g4
    user = user
    guest = guest
    eng = eng
    ops = ops
    new = new
    Id <- MCId
    Member <- MCMember
    DisplayName <- MCDisplayName
    Operation <- AllOperations
    FirstUsers <- MCFirstUsers
    FirstGroups <- MCFirstGroups
    Config <- MCConfig
    MaxFailures = 1
    NoGroup = NoGroup
INVARIANTS
    ChangeStandsUnlessOverlapped
    LinksFollowUsers
    EtagIdentifiesGroup
    NamesUniqueUnlessRaced
    EventsCountGroups
PROPERTY
    GroupsImplementStore
