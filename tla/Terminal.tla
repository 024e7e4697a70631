------------------------------ MODULE Terminal ------------------------------
(***************************************************************************)
(* The VGA text terminal (src/drivers/vga.c) behind the console service    *)
(* (src/kernel/console.c).  The screen is a window of VGA_WIDTH columns    *)
(* and VGA_HEIGHT rows into a ring of VGA_TEXT_MEMORY_CELLS cells; to      *)
(* scroll, the driver moves the window.  The statics of the driver and the *)
(* adapter's start-address register are the fields of one record.  Only    *)
(* foreground code writes here, so a call is one step.                     *)
(***************************************************************************)
EXTENDS Integers, Sequences

CONSTANTS VGA_WIDTH, VGA_HEIGHT, TAB_WIDTH,
          VGA_TEXT_MEMORY_CELLS,
          ADAPTER_CELLS,     \* cells the adapter can display: 2^15 on a VGA
          Remnant,           \* what it holds where the driver cannot write
          Glyphs,            \* the characters that are not controls
          Colors,            \* encoded colour bytes
          LIGHT_GREY_ON_BLACK

Space == "space"
Controls == {"LF", "CR", "TAB", "BS", "FF"}

(* Rows end at a tab stop, and the window fits into the video memory,      *)
(* whose cells the 16-bit start address can name.                          *)
ASSUME TerminalConstants ==
  /\ VGA_WIDTH \in Nat \ {0}
  /\ VGA_HEIGHT \in Nat \ {0}
  /\ TAB_WIDTH \in Nat \ {0}
  /\ VGA_WIDTH % TAB_WIDTH = 0
  /\ VGA_TEXT_MEMORY_CELLS \in VGA_WIDTH * VGA_HEIGHT .. 65536
  /\ Space \in Glyphs
  /\ Controls \cap Glyphs = {}
  /\ LIGHT_GREY_ON_BLACK \in Colors

(* The driver reaches a first part of the adapter's memory, 32 KiB from    *)
(* 0xB8000.                                                                *)
ASSUME AdapterConstants ==
  ADAPTER_CELLS \in Nat /\ ADAPTER_CELLS >= VGA_TEXT_MEMORY_CELLS

VARIABLES terminal, console_initialized

MemoryCells == 0 .. VGA_TEXT_MEMORY_CELLS - 1
Rows == 0 .. VGA_HEIGHT - 1
Columns == 0 .. VGA_WIDTH - 1

-----------------------------------------------------------------------------
terminal_wrap_index(index) == index % VGA_TEXT_MEMORY_CELLS

terminal_get_buffer_index(t, row, column) ==
  terminal_wrap_index(t.view_start + row * VGA_WIDTH + column)

vga_entry(character, color) == [character |-> character, color |-> color]

(* Two byte-wide registers receive the 16 bits of the cell offset.         *)
terminal_set_hardware_view_start(t, cell_offset) ==
  [t EXCEPT !.crtc_start = cell_offset % 65536]

(* Stores a character in the current colour at the given memory cells.     *)
Store(t, indices, character) ==
  [t EXCEPT !.buffer =
     [i \in MemoryCells |-> IF i \in indices THEN vga_entry(character, t.color)
                                             ELSE @[i]]]

terminal_clear_row(t, row) ==
  Store(t, {terminal_get_buffer_index(t, row, x) : x \in Columns}, Space)

(* All visible rows, whose order makes no difference.                      *)
terminal_clear(t) ==
  LET home == terminal_set_hardware_view_start([t EXCEPT !.view_start = 0], 0)
      cells == {terminal_get_buffer_index(home, y, x) : y \in Rows, x \in Columns}
  IN  [Store(home, cells, Space) EXCEPT !.row = 0, !.column = 0]

terminal_initialize(t) ==
  terminal_clear([t EXCEPT !.row = 0, !.column = 0, !.view_start = 0,
                           !.color = LIGHT_GREY_ON_BLACK])

(* Mutation: clears the bottom row before the window moves.                *)
ScrollClearsFirst(t) ==
  LET cleared == terminal_clear_row(t, VGA_HEIGHT - 1)
      start == terminal_wrap_index(t.view_start + VGA_WIDTH)
  IN  terminal_set_hardware_view_start([cleared EXCEPT !.view_start = start],
                                       start)

terminal_scroll_up(t) ==
  LET start == terminal_wrap_index(t.view_start + VGA_WIDTH)
      moved == terminal_set_hardware_view_start(
                 [t EXCEPT !.view_start = start], start)
  IN  terminal_clear_row(moved, VGA_HEIGHT - 1)

terminal_newline(t) ==
  IF t.row + 1 >= VGA_HEIGHT
  THEN [terminal_scroll_up([t EXCEPT !.column = 0])
          EXCEPT !.row = VGA_HEIGHT - 1]
  ELSE [t EXCEPT !.column = 0, !.row = @ + 1]

terminal_carriage_return(t) == [t EXCEPT !.column = 0]

(* The default case of terminal_putchar.                                   *)
PutGlyph(t, c) ==
  LET index == terminal_get_buffer_index(t, t.row, t.column)
      stored == [Store(t, {index}, c) EXCEPT !.column = @ + 1]
  IN  IF stored.column >= VGA_WIDTH THEN terminal_newline(stored) ELSE stored

terminal_tab(t) ==
  LET spaces == TAB_WIDTH - (t.column % TAB_WIDTH)
      After[i \in 0 .. spaces] ==
        IF i = 0 THEN t ELSE PutGlyph(After[i - 1], Space)
  IN  After[spaces]

terminal_backspace(t) ==
  LET EraseAt(row, column) ==
        [Store(t, {terminal_get_buffer_index(t, row, column)}, Space)
           EXCEPT !.row = row, !.column = column]
  IN  CASE t.column > 0 -> EraseAt(t.row, t.column - 1)
        [] t.column = 0 /\ t.row > 0 -> EraseAt(t.row - 1, VGA_WIDTH - 1)
        [] OTHER -> t

terminal_form_feed(t) == terminal_clear(t)

terminal_putchar(t, c) ==
  CASE c = "LF"  -> terminal_newline(t)
    [] c = "CR"  -> terminal_carriage_return(t)
    [] c = "TAB" -> terminal_tab(t)
    [] c = "BS"  -> terminal_backspace(t)
    [] c = "FF"  -> terminal_form_feed(t)
    [] OTHER     -> PutGlyph(t, c)

(* terminal_write and terminal_writestring: the characters in order.       *)
terminal_write(t, data) ==
  LET After[i \in 0 .. Len(data)] ==
        IF i = 0 THEN t ELSE terminal_putchar(After[i - 1], data[i])
  IN  After[Len(data)]

-----------------------------------------------------------------------------
(* The console: every call is ignored until the terminal is set up.        *)
console_initialize ==
  /\ terminal' = terminal_initialize(terminal)
  /\ console_initialized' = TRUE

(* console_putchar is the string of one character.                         *)
console_writestring(text) ==
  /\ terminal' = IF console_initialized THEN terminal_write(terminal, text)
                                        ELSE terminal
  /\ UNCHANGED console_initialized

console_clear ==
  /\ terminal' = IF console_initialized THEN terminal_clear(terminal)
                                        ELSE terminal
  /\ UNCHANGED console_initialized

terminal_setcolor(color) ==
  /\ terminal' = [terminal EXCEPT !.color = color]
  /\ UNCHANGED console_initialized

(* The statics are zero; the firmware left some text, at some start        *)
(* address.                                                                *)
TerminalInit ==
  /\ \E c \in Glyphs, start \in {0, VGA_WIDTH} :
       terminal = [row |-> 0, column |-> 0, view_start |-> 0,
                   color |-> 0, crtc_start |-> start,
                   buffer |-> [i \in MemoryCells |->
                                 vga_entry(c, LIGHT_GREY_ON_BLACK)]]
  /\ console_initialized = FALSE

Characters == {<<c>> : c \in Glyphs \cup Controls}

TerminalNext ==
  \/ ~console_initialized /\ console_initialize
  \/ \E text \in Characters : console_writestring(text)
  \/ console_clear
  \/ \E color \in Colors : terminal_setcolor(color)

TerminalSpec == TerminalInit /\ [][TerminalNext]_<<terminal, console_initialized>>

-----------------------------------------------------------------------------
(* Properties.                                                             *)

(* The cursor is on the screen, the window starts in the video memory.     *)
TerminalTypeOK ==
  /\ terminal.row \in Rows
  /\ terminal.column \in Columns
  /\ terminal.view_start \in MemoryCells
  /\ terminal.color \in Colors \cup {0}
  /\ terminal.buffer \in [MemoryCells -> [character : Glyphs, color : Colors]]
  /\ console_initialized \in BOOLEAN

(* What the adapter shows: the cells from its start address on.  They run  *)
(* on past the part of its memory that the driver can write, where the     *)
(* driver itself goes back to the first cell.                              *)
Shown(t) ==
  [p \in 0 .. VGA_WIDTH * VGA_HEIGHT - 1 |->
     LET a == (t.crtc_start + p) % ADAPTER_CELLS
     IN  IF a < VGA_TEXT_MEMORY_CELLS THEN t.buffer[a] ELSE Remnant]

(* Is the position displayed from memory that the driver can write?        *)
InReach(t, p) == t.crtc_start + p < VGA_TEXT_MEMORY_CELLS

(* The page: what is displayed, and at the positions out of reach what the *)
(* driver has stored for them.                                             *)
Viewed(t) ==
  [p \in 0 .. VGA_WIDTH * VGA_HEIGHT - 1 |->
     IF InReach(t, p) THEN Shown(t)[p]
     ELSE t.buffer[terminal_wrap_index(t.crtc_start + p)]]

(* vga.h:129-130 says that reaching an edge "wraps or scrolls the visible  *)
(* terminal as needed", and vga.c:51 that the driver's index is that of    *)
(* "visible terminal coordinates": every cell the driver writes is         *)
(* displayed where it was meant.  It is not once the window has moved to   *)
(* the end of the driver's memory, 180 rows down: the lower rows go to the *)
(* first cells while the display runs on behind the last.                  *)
WrittenCellsAreVisible ==
  console_initialized =>
    \A row \in Rows, column \in Columns :
      Shown(terminal)[row * VGA_WIDTH + column]
        = terminal.buffer[terminal_get_buffer_index(terminal, row, column)]

(* Moving a window through a ring of video memory, clearing rows relative  *)
(* to it and writing through it looks like a plain page of text: what is   *)
(* displayed changes as vga.h says for every character, control, wrap and  *)
(* scroll, and stale cells of the ring never come into view.  Positions    *)
(* out of reach, which only a window across the end of the driver's memory *)
(* has, are not displayed; what the driver keeps for them is right when    *)
(* the window has moved on and they come back into view.                   *)
Plain == INSTANCE Screen WITH
           Width <- VGA_WIDTH, Height <- VGA_HEIGHT, TabWidth <- TAB_WIDTH,
           Texts <- Characters, DefaultColor <- LIGHT_GREY_ON_BLACK,
           Cell <- vga_entry,
           page <- Viewed(terminal),
           cursor <- terminal.row * VGA_WIDTH + terminal.column,
           color <- terminal.color,
           ready <- console_initialized

RefinesScreen == Plain!ScreenSpec
=============================================================================
