\* A prompt of two characters, a buffer of four (three letters), rows of six:
\* as in the kernel, a full line fits.  Three rows in a ring of 19 cells.
SPECIFICATION ShellSpec
CONSTANTS
  VGA_WIDTH = 6
  VGA_HEIGHT = 3
  TAB_WIDTH = 2
  VGA_TEXT_MEMORY_CELLS = 19
  ADAPTER_CELLS = 38
  Remnant <- BlackCell
  Glyphs <- Printable
  Colors = {7}
  LIGHT_GREY_ON_BLACK = 7
  SHELL_BUFFER_SIZE = 4
  SHELL_PROMPT <- Prompt
  Keys <- Letters
  Greeting <- Hello
  FullWarning <- Warning
  UnknownText <- Unknown
  HintText <- Hint
  ClearCommand <- Clear
  CommandOutput <- Outputs
  TicksCommand <- Ticks
  MemCommand <- Mem
  ReportLabel <- Label
  Counts32 = {0, 10, 999}
  Counts64 = {9999}
  Decimal32Size = 4
  Decimal64Size = 5
INVARIANTS
  LineIsTerminated
  LineIsOnScreen
  ReportShowsCounter
PROPERTY
  EditingKeepsOutput
