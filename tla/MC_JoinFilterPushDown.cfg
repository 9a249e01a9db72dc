CONSTANTS
  NumInputs = 3
  InputSizes = {1, 2}
  MaxQuals = 2

SPECIFICATION Spec
INVARIANT PushDownMatchesReference
