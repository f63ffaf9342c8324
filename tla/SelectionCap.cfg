CONSTANTS
  Name = {"x", "y", "a", "b", "c", "by_a", "by_b"}
  CellClass = {"number", "text"}
  Cells <- MCCells
  Sources <- MCSources
  Selectors <- MCSelectors
  Updates <- MCUpdates
  Puts <- MCPuts
  Orders <- MCOrders
  ColumnLists <- MCColumnLists
  Limits <- MCLimits
  MaxCalls = 2
SPECIFICATION Spec
INVARIANTS
  SelectionKeepsCap
CHECK_DEADLOCK FALSE
