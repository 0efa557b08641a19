SPECIFICATION MCSpec
CONSTANTS
    Request = {1, 2}
    e1 = e1
    e2 = e2
    name = name
    f1 = f1
    f2 = f2
    MaxFailures = 1
    FirstMethod = FirstMethod
    NoRow = NoRow
    NoRequest = NoRequest
    Id <- MCId
    Name <- MCName
    Flag <- MCFlag
    Operation <- SettingsOnly
    FirstRows <- MCFirstRows
INVARIANT
    TogglesOfDifferentFlagsSurvive
