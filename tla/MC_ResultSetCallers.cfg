CONSTANTS
  EMPTY = EMPTY
  SortKeys = {1, 2}
  QueryTypes = {"Projection"}
  Buffers <- BuffersByType
  Readers = {r1}
  MaxStorages = 2
  MaxLimit = 2
  MaxFrom = 1

SPECIFICATION CallersSpec
INVARIANT NextRowsFollowWindow
