SPECIFICATION Spec
CONSTANTS
  Roots = {root}
  Children = {a, b, c}
  Kinds = {"foreground", "background"}
  Budgets = {FALSE}
  MaxCalls = 3
  MaxDepth = 2
  MaxSlots = 1
INVARIANTS TypeOK SlotsBalanced DepthCapped CancelIsHeard
SYMMETRY ChildrenSymmetry
CHECK_DEADLOCK FALSE
