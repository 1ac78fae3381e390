CONSTANTS
    h1 = h1
    h2 = h2
    r1 = r1
    c1 = c1
    Host = {h1, h2}
    Restorer = {r1}
    Writer = {c1}
    Casts <- MCCasts
    Nobody = Nobody
    File = {f1, f2, f3}
    Wal = {l1, l2, l3}
    None = None
    Write = {w1}
    Retain = 1
    MaxBackups = 2
    MaxFaults = 1
SPECIFICATION FairSpec
CHECK_DEADLOCK FALSE
INVARIANTS
    TypeOK
    ServedIsLive
PROPERTIES
    ServedStays
    WholeRestores
    RestoreApplied
