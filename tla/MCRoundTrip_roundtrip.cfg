CONSTANTS
    Transaction = {1, 2, 3}
    Posting = {1, 2, 3, 4, 5, 6}
    Ref = {1, 2, 3, 4, 5}
    Value = {1, 2}
    Line = {1, 2}
    Run = {r1, r2, r3}
    Editor = {e1}
    Opening <- One
    Sourced <- OneSourced
    Scopes <- All
    AtOnce = 2
    None = None
SPECIFICATION Spec
SYMMETRY Runs
CHECK_DEADLOCK FALSE
INVARIANTS
    DiscardsPeelOff
    CreatedOnce
