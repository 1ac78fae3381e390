CONSTANTS
    aud = aud
    Name <- Names
    Path <- TwoDeep
    Id = {1, 2, 3}
    None = None
    Date = {1, 2}
    Codes = {aud}
    Documents <- Ledgers
    MaxRuns = 2
    MaxEdits = 1
    MaxCrashes = 1
SPECIFICATION FairSpec
CHECK_DEADLOCK FALSE
INVARIANTS
    TypeOK
    WindowsNest
    DiscardUndoes
PROPERTIES
    DiscardSparesNamed
    StoredStands
    RunEnds
