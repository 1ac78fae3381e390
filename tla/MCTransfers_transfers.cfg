CONSTANTS
    Transaction = {t1, t2, t3}
    Posting = {1, 2, 3, 4}
    Ref = {1, 2}
    aud = aud
    c1 = c1
    c2 = c2
    e1 = e1
    t1 = t1
    t2 = t2
    t3 = t3
    tag = tag
    note = note
    Tag = {tag}
    Entry = {note}
    Amount <- BothWays
    Commodity = {aud}
    MaxDate = 2
    Settled <- Ends
    Drafts <- Two
    Openings <- One
    Caller = {c1, c2}
    Editor = {e1}
    None = None
    Scopes <- Both
    MaxMeta = 1
SPECIFICATION Spec
SYMMETRY Callers
CHECK_DEADLOCK FALSE
INVARIANTS
    EditsStand
    ReferencesFollow
    MergesStand
PROPERTIES
    MergesFuseTwo
    LegsReturnAsMerged
