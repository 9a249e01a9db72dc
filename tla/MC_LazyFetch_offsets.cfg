CONSTANTS
  Storages = {s1}
  FragSizes = {1, 2}
  MaxFrags = 3
  FullFragmentsOnly = FALSE
SPECIFICATION Spec
INVARIANTS
  NoSilentMisread
