CONSTANTS
  Queries = {q1, q2}
  GpuDevices = {0, 1}
  Buckets = {b1, b2}
  MaxRows = 3
  MaxHashEntries = 4
  MaxBucketKey = 1
  HalfBits = 8
SPECIFICATION Spec
INVARIANTS
  TypeOK
  PayloadCoversEmittedKeys
  ReifiedTablesCoverDevices
  ProbeKeyUnpacksOffsets
CHECK_DEADLOCK FALSE
