\* The window reaches the end of the driver's memory, and the display runs on.
SPECIFICATION TerminalSpec
CONSTANTS
  VGA_WIDTH = 4
  VGA_HEIGHT = 2
  TAB_WIDTH = 2
  VGA_TEXT_MEMORY_CELLS = 11
  ADAPTER_CELLS = 22
  Remnant <- BlackCell
  Glyphs <- OneGlyph
  Colors = {7, 12}
  LIGHT_GREY_ON_BLACK = 7
INVARIANT
  WrittenCellsAreVisible
