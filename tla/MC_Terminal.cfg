\* Two rows of four columns in a ring of eleven cells, which rows do not divide:
\* the window starts at every cell and wraps around in the middle of a row.
SPECIFICATION TerminalSpec
CONSTANTS
  VGA_WIDTH = 4
  VGA_HEIGHT = 2
  TAB_WIDTH = 2
  VGA_TEXT_MEMORY_CELLS = 11
  ADAPTER_CELLS = 22
  Remnant <- BlackCell
  Glyphs <- OneGlyph
  Colors = {7, 12}
  LIGHT_GREY_ON_BLACK = 7
PROPERTY
  RefinesScreen
