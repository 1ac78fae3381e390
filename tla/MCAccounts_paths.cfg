CONSTANTS
    Account = {a1, a2, a3}
    NoAccount = NoAccount
    assets = assets
    other = other
    asset = asset
    expense = expense
    Name <- MCName
    Type = {asset, expense}
    NoType = NoType
    Lists = {}
    NoList = NoList
    Path <- MCPath
    RootType <- MCRootType
    MaxDate = 1
    MaxEvents = 2
    Creator = {c1, c2}
    NoSnapshot = NoSnapshot
SPECIFICATION Spec
SYMMETRY Symmetry
CHECK_DEADLOCK FALSE
INVARIANTS
    OneTypePerTree
    PathNamesOneAccount
