CONSTANTS
  Seeds = {5}
  MAX_TICK = 2

SPECIFICATION Spec

INVARIANT RandNeverStuck
