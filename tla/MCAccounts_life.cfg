CONSTANTS
    Account = {a1, a2, a3}
    NoAccount = NoAccount
    assets = assets
    other = other
    asset = asset
    expense = expense
    Name <- OneName
    Type = {asset}
    NoType = NoType
    Lists = {aud}
    NoList = NoList
    Path <- NoPath
    RootType <- OneRootType
    MaxDate = 2
    MaxEvents = 3
    Creator = {}
    NoSnapshot = NoSnapshot
SPECIFICATION Spec
SYMMETRY Symmetry
CHECK_DEADLOCK FALSE
INVARIANTS
    TypeOK
    ClosedAboveClosed
    ArchivedAboveArchived
    LifeInOrder
    EventsExplainDates
PROPERTY
    ClosingDateStands
