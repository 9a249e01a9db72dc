CONSTANTS
  SecondsPerDay = 2
  VMin <- MCVMin
  VMax = 2
  TLowest <- MCTLowest
  TMax = 100
  Inputs <- WithOverflow
  Encoded <- MCEncoded
  MaxBatch = 2
  MaxElems = 3

SPECIFICATION Spec
INVARIANT StatsCoverChunk
