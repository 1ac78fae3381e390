CONSTANTS
    aud = aud
    Name <- Names
    Path <- ThreeDeep
    Id = {1, 2, 3, 4}
    None = None
    Date = {1, 2}
    Codes = {aud}
    Documents <- Deep
    MaxRuns = 1
    MaxEdits = 2
    MaxCrashes = 0
SPECIFICATION Spec
CHECK_DEADLOCK FALSE
INVARIANT
    PathsResolveHome
