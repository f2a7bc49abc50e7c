SPECIFICATION FairSpec
CONSTANTS
  Roots = {root}
  Children = {a, b}
  Kinds = {"foreground", "continue"}
  Budgets = {TRUE}
  MaxCalls = 3
  MaxDepth = 2
  MaxSlots = 2
INVARIANTS OneLoopPerChild BudgetSpentOnce
PROPERTY StopEndsTree
CHECK_DEADLOCK FALSE
