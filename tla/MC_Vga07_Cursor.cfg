CONSTANTS
  VGA_WIDTH = 5
  VGA_HEIGHT = 2
  VGA_WHITE_ON_BLACK = 15
  BOOT_CELL = BOOT_CELL
  Chars <- MCChars
  Colors = {31}
  Moves <- MCMoves

SPECIFICATION MC07Spec

INVARIANT HardwareCursorTracksCursor
