CONSTANTS
  Tag = {h, k}
  NoTag = NoTag
  TagParent <- MCTagParent
  NoTarget = NoTarget
  CarryForward = CarryForward
  CapAtTarget = CapAtTarget
  ResetToZero = ResetToZero
  NoQuery = NoQuery
  Account = {expenses, food, groceries, takeaway}
  Archived = {takeaway}
  NoAccount = NoAccount
  Parent <- MCParent
  Flow = {expenses}
  NoRow = NoRow
  MaxBudgets = 3
  MaxArchived = 1
  Revision = {r1, r2, r3}
  NoRevision = NoRevision
  Offer <- MCOffer
  View <- MCView
  Horizon = 7
  Posting <- MCPosting
  Window <- MCWindow
  Remover = {c1}
  Idle = Idle
  expenses = expenses
  food = food
  groceries = groceries
  takeaway = takeaway
  h = h
  k = k

SPECIFICATION Spec
SYMMETRY Symmetry
CHECK_DEADLOCK FALSE
INVARIANTS
    PageAddsUp
    CarriesChain
    SubRowsSum
