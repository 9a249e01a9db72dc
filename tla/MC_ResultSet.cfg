CONSTANTS
  EMPTY = EMPTY
  SortKeys = {1, 2}
  QueryTypes = {"GroupByBaselineHash", "Projection"}
  Buffers <- BuffersByType
  Readers = {r1, r2}
  MaxStorages = 2
  MaxLimit = 2
  MaxFrom = 1

SPECIFICATION Spec
INVARIANT TypeOK
INVARIANT CursorYieldsWindow
INVARIANT CursorWithinEntries
INVARIANT IteratorsYieldWindow
INVARIANT RowCountMatchesIteration
PROPERTY RefinesRowStream
