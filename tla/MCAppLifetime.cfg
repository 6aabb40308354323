SPECIFICATION FairSpec
CONSTANTS
    empty = empty
    default = default
    exact = exact
    long = long
    Values = {empty, default, exact, long}
    Empty = empty
    Default = default
    Length <- MCLength
    Truncated = Truncated
    Buffers = {5, 10, 20}
    Nobody = Nobody
INVARIANTS
    TypeOK
    DeletedAlone
    ShownIsRemembered
PROPERTIES
    SettingsSpec
    CloseEnds
