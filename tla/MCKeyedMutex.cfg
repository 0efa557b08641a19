SPECIFICATION MCSpec
CONSTANTS
    Call = {c1, c2, c3, c4}
    Key = {e1, e2}
    NoCall = NoCall
INVARIANTS
    MutualExclusion
    MapExact
PROPERTIES
    EveryCallSettles
    ServedInOrder
