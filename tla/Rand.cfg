CONSTANTS
  Seeds = {5}
  MAX_TICK = 64

SPECIFICATION Spec

INVARIANT RandTypeOK
INVARIANT RandRangeWithinBounds
