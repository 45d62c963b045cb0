CONSTANTS
  Alphabet = {"%", "l", "d", "a"}
  MAX_FMT = 3

SPECIFICATION Spec08

INVARIANT PrintfStaysInFormat
