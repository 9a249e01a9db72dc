CONSTANTS
  Storages = {s1, s2}
  FragSizes = {1, 2, 3}
  MaxFrags = 3
  FullFragmentsOnly = TRUE
SPECIFICATION Spec
INVARIANTS
  ReadersReturnSourceCell
