CONSTANTS
  Name = {"x", "y", "a", "b", "c", "by_a", "by_b"}
  CellClass = {"number", "text"}
  Cells <- MCCells
  Sources <- MCSources
  Selectors <- MCSelectors
  Updates <- MCUpdates
  Puts <- MCPuts
  Orders <- MCOrders
  ColumnLists <- MCColumnLists
  Limits <- MCLimits
  MaxCalls = 2
  BKeys = {1, 2, 3, 4}
  Bounds <- MCBounds
SPECIFICATION MCCollectionSpec
INVARIANTS
  TypeOK
  CountIsRows
  CopyIsView
  IndexRowsFit
  SchemaRoundTrip
  SelectorsAgree
  WritesStayInside
  RewriteLosesOneRow
  SliceIsIntersection
  PersistentIsWhole
CHECK_DEADLOCK FALSE
