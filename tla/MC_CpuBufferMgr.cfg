CONSTANTS
  SlabSizes = {4, 6}
  PageSize = 4
  MaxSlabs = 3
  MaxArenas = 3
SPECIFICATION Spec
INVARIANTS
  TypeOK
  SlabsAndSegmentsInStep
