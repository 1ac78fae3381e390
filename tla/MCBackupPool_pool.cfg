CONSTANTS
    Db = {d1, d2}
    Holder = {h1}
    Command = {c1}
    Id = {i1, i2, i3}
    None = None
    Policy <- ByEither
    Day = 2
    Fold = 2
    Shift = 1
    Horizon = 4
    MaxTaken = 3
SPECIFICATION Spec
SYMMETRY Symmetry
CHECK_DEADLOCK FALSE
INVARIANTS
    HoldersKeepTheirPool
PROPERTIES
    UnionPolicy
    JustTakenStays
