CONSTANTS
  QueryTypes = {"GroupByPerfectHash"}
  Kinds = {"plain", "avg", "varlen"}
  KeyWidths = {4, 8}
  SlotWidths = {4, 8}
  EntryCounts = {1, 3}
  MaxTargets = 2
  MaxKeys = 2
  MaxStorages = 2
SPECIFICATION Spec
INVARIANTS
  EmptinessReadsMarker
