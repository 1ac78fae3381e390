CONSTANTS
    Tx = {t1, t2}
    Posting = {p1, p2}
    NoPosting = NoPosting
    bank = bank
    food = food
    s1 = s1
    s2 = s2
    Slot = {s1, s2}
    NoRef = NoRef
    Value <- StatedValue
    ValueOf <- MCValueOf
    Documents <- RowAndPart
    Early <- Both
    MaxRuns = 2
    AtOnce = 2
    Editor = {e1}
    Hand = Hand
    Stray = Stray
    Free = Free
    Rejected = Rejected
    Unread = Unread
    NoPlan = NoPlan
    NoDraft = NoDraft
SPECIFICATION Spec
SYMMETRY Symmetry
CHECK_DEADLOCK FALSE
INVARIANTS
    TypeOK
    ImportedKeepProvenance
    ReferencesPointHome
    NoEmptyTransaction
    DiscardReachesAll
PROPERTY
    HandEntriesStand
