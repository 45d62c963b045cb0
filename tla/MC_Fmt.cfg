CONSTANTS
  SMALL = 130

SPECIFICATION Spec

INVARIANT FormattingMatchesNotation
