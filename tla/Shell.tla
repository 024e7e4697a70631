-------------------------------- MODULE Shell --------------------------------
(***************************************************************************)
(* The shell's line editor (src/kernel/shell.c) on the console: one        *)
(* character at a time comes from the work loop, is edited into a fixed    *)
(* buffer and echoed; Enter runs the line.  A command is a word and the    *)
(* texts it may print; a counter's value is any of a set when it is read.  *)
(* The check for interrupt context is in KernelLoop, the serial copy of    *)
(* log output in Serial.                                                   *)
(***************************************************************************)
EXTENDS Terminal, Format

CONSTANTS
  SHELL_BUFFER_SIZE,
  SHELL_PROMPT,
  Keys,              \* the printable characters the keyboard gives
  Greeting,          \* shell_initialize's text
  FullWarning,       \* "\n[WARNING] Shell input buffer full.\n"
  UnknownText,       \* "Unknown command: "
  HintText,          \* "\nType 'help' for available commands.\n"
  ClearCommand,      \* "clear"
  CommandOutput,     \* for each other command word the texts it may print
  TicksCommand,      \* a command that shows a 32-bit counter
  MemCommand,        \* one that shows a 64-bit one
  ReportLabel,       \* what they print before it
  Counts32, Counts64, \* the counters' values
  Decimal32Size, Decimal64Size  \* the buffers for their digits: 11, 21

EndsLine(text) == text # <<>> /\ text[Len(text)] = "LF"

(* The prompt and a full line fit into a row, and every text that is       *)
(* followed by a prompt ends its line.                                     *)
ASSUME ShellConstants ==
  /\ SHELL_BUFFER_SIZE \in Nat \ {0, 1}
  /\ Keys \subseteq Glyphs
  /\ SHELL_PROMPT \in Seq(Glyphs)
  /\ Len(SHELL_PROMPT) + SHELL_BUFFER_SIZE - 1 < VGA_WIDTH
  /\ EndsLine(Greeting) /\ EndsLine(FullWarning) /\ EndsLine(HintText)
  /\ {ClearCommand, TicksCommand, MemCommand} \cap DOMAIN CommandOutput = {}
  /\ \A word \in DOMAIN CommandOutput :
       \A text \in CommandOutput[word] : EndsLine(text)

(* There are lines above a prompt, and the texts of the kernel hold no     *)
(* control character but the newline.                                      *)
Texts == Seq(Glyphs \cup {"LF"})

ASSUME TextsArePlain ==
  /\ VGA_HEIGHT >= 2
  /\ {Greeting, FullWarning, UnknownText, HintText} \subseteq Texts
  /\ \A word \in DOMAIN CommandOutput : CommandOutput[word] \subseteq Texts
  /\ ReportLabel \in Seq(Glyphs)
  /\ \A digit \in 0 .. 9 : Character(digit) \in Glyphs \ {Space}
  /\ Counts32 \subseteq Nat /\ Counts64 \subseteq Nat
  /\ Decimal32Size \in Nat /\ Decimal64Size \in Nat

(* The buffers hold every digit of their counters, and the terminator; the *)
(* label and a full buffer fit into a row.                                 *)
ASSUME CountersFit ==
  /\ \A v \in Counts32 : Len(Digits[v]) < Decimal32Size
  /\ \A v \in Counts64 : Len(Digits[v]) < Decimal64Size
  /\ \A size \in {Decimal32Size, Decimal64Size} :
       size >= 2 /\ Len(ReportLabel) + size <= VGA_WIDTH

VARIABLES
  shell_buffer,          \* [0 .. SHELL_BUFFER_SIZE - 1 -> character]
  shell_buffer_length,
  shell_started,         \* kernel_main has called shell_initialize
  hidden,                \* history: characters typed above the last prompt
  prompt_row,            \* history: the row of the last prompt
  reported               \* history: the value a command has just shown

bufferVars == <<shell_buffer, shell_buffer_length>>
historyVars == <<hidden, prompt_row, reported>>
vars == <<terminal, console_initialized, bufferVars, shell_started,
          historyVars>>

NUL == "NUL"
Slots == 0 .. SHELL_BUFFER_SIZE - 1

(* The driver drops keys that have no character.                           *)
ASSUME KeysAreCharacters == NUL \notin Keys

-----------------------------------------------------------------------------
(* A C string: the characters before the first NUL, if there is one.       *)
CString(array) ==
  LET ends == {n \in Slots : array[n] = NUL}
      end == CHOOSE n \in ends : \A k \in ends : n <= k
  IN  [i \in 1 .. end |-> array[i - 1]]

shell_command_is_empty(command) == command = <<>>

NoValue == -1

shell_print_uint32(value) == kformat_uint32_decimal(value, Decimal32Size)
klog_write_uint64(value) == kformat_uint64_decimal(value, Decimal64Size)

(* What a command other than clear may print, with the value it shows; "=" *)
(* on words is shell_strings_equal.                                        *)
Output(command) ==
  LET line(digits) == ReportLabel \o digits \o <<"LF">>
  IN  IF command = TicksCommand
      THEN {[value |-> v, text |-> line(shell_print_uint32(v))] : v \in Counts32}
      ELSE IF command = MemCommand
      THEN {[value |-> v, text |-> line(klog_write_uint64(v))] : v \in Counts64}
      ELSE {[value |-> NoValue, text |-> text] :
              text \in IF command \in DOMAIN CommandOutput
                       THEN CommandOutput[command]
                       ELSE {UnknownText \o command \o HintText}}

(* What the terminal may be after the command.                             *)
shell_execute_command(t, command) ==
  IF shell_command_is_empty(command)
  THEN {[terminal |-> t, value |-> NoValue]}
  ELSE IF command = ClearCommand
  THEN {[terminal |-> terminal_clear(t), value |-> NoValue]}
  ELSE {[terminal |-> terminal_write(t, o.text), value |-> o.value] :
          o \in Output(command)}

shell_reset_buffer ==
  /\ shell_buffer' = [i \in Slots |-> NUL]
  /\ shell_buffer_length' = 0

Prompted(value) ==
  /\ hidden' = shell_buffer_length'
  /\ prompt_row' = terminal'.row
  /\ reported' = value

(* The shell is started once, after log messages of the boot.              *)
shell_initialize ==
  /\ console_initialized /\ ~shell_started
  /\ shell_reset_buffer
  /\ console_writestring(Greeting \o SHELL_PROMPT)
  /\ shell_started' = TRUE
  /\ Prompted(NoValue)

(* Mutation: the prompt is printed before the command runs.                *)
EnterPromptsFirst ==
  /\ shell_started
  /\ LET echoed == terminal_write(terminal, <<"LF">> \o SHELL_PROMPT)
         command == CString([shell_buffer EXCEPT ![shell_buffer_length] = NUL])
     IN  \E done \in shell_execute_command(echoed, command) :
           terminal' = done.terminal
  /\ shell_reset_buffer
  /\ Prompted(NoValue)
  /\ UNCHANGED <<console_initialized, shell_started>>

(* shell_handle_character('\n').                                           *)
HandleEnter ==
  /\ shell_started
  /\ LET echoed == terminal_putchar(terminal, "LF")
         command == CString([shell_buffer EXCEPT ![shell_buffer_length] = NUL])
     IN  \E done \in shell_execute_command(echoed, command) :
           /\ shell_reset_buffer
           /\ terminal' = terminal_write(done.terminal, SHELL_PROMPT)
           /\ Prompted(done.value)
  /\ UNCHANGED <<console_initialized, shell_started>>

(* Mutation: erases on the screen although the line is empty.              *)
BackspaceUnchecked ==
  /\ shell_started
  /\ shell_buffer_length' = IF shell_buffer_length > 0
                            THEN shell_buffer_length - 1 ELSE 0
  /\ shell_buffer' = [shell_buffer EXCEPT ![shell_buffer_length'] = NUL]
  /\ console_writestring(<<"BS">>)
  /\ UNCHANGED <<shell_started, historyVars>>

(* shell_handle_character('\b'); nothing happens on an empty line.         *)
HandleBackspace ==
  /\ shell_started
  /\ shell_buffer_length > 0
  /\ shell_buffer_length' = shell_buffer_length - 1
  /\ shell_buffer' = [shell_buffer EXCEPT ![shell_buffer_length - 1] = NUL]
  /\ console_writestring(<<"BS">>)
  /\ UNCHANGED <<shell_started, historyVars>>

(* Mutation: takes one character more.                                     *)
FullOffByOne == shell_buffer_length >= SHELL_BUFFER_SIZE

BufferFull == shell_buffer_length >= SHELL_BUFFER_SIZE - 1

(* A printable character for which there is no room.                       *)
HandleFull ==
  /\ shell_started
  /\ BufferFull
  /\ console_writestring(FullWarning \o SHELL_PROMPT)
  /\ UNCHANGED <<bufferVars, shell_started>>
  /\ Prompted(NoValue)

(* A printable character.  The Tab key is ignored.                         *)
HandleCharacter(ascii) ==
  /\ shell_started
  /\ ~BufferFull
  /\ shell_buffer' = [shell_buffer EXCEPT ![shell_buffer_length] = ascii]
  /\ shell_buffer_length' = shell_buffer_length + 1
  /\ console_writestring(<<ascii>>)
  /\ UNCHANGED <<shell_started, historyVars>>

-----------------------------------------------------------------------------
ShellInit ==
  /\ TerminalInit
  /\ shell_buffer = [i \in Slots |-> NUL]
  /\ shell_buffer_length = 0
  /\ shell_started = FALSE
  /\ hidden = 0 /\ prompt_row = 0 /\ reported = NoValue

Boot ==
  /\ ~console_initialized
  /\ console_initialize
  /\ UNCHANGED <<bufferVars, shell_started, historyVars>>

(* klog_writestring before the shell starts: each message ends its line.   *)
BootMessage ==
  /\ console_initialized /\ ~shell_started
  /\ console_writestring(Greeting)
  /\ UNCHANGED <<bufferVars, shell_started, historyVars>>

ShellNext ==
  \/ Boot \/ BootMessage \/ shell_initialize
  \/ HandleEnter \/ HandleBackspace \/ HandleFull
  \/ \E ascii \in Keys : HandleCharacter(ascii)

ShellSpec == ShellInit /\ [][ShellNext]_vars

-----------------------------------------------------------------------------
(* Properties.                                                             *)

Line == [i \in 1 .. shell_buffer_length |-> shell_buffer[i - 1]]

(* The line has room for its terminator and is followed by nothing else,   *)
(* so that what Enter runs is the line, with no rest of a longer one that  *)
(* was edited or run before.                                               *)
LineIsTerminated ==
  /\ shell_buffer_length \in Slots
  /\ \A i \in Slots : shell_buffer[i] = NUL <=> i >= shell_buffer_length

(* The page, which is the display except where the window runs over the    *)
(* end of the driver's memory.                                             *)
ShownCell(p) == Viewed(terminal)[p].character
ShownRow(row) == [i \in 1 .. VGA_WIDTH |-> ShownCell(row * VGA_WIDTH + i - 1)]
Blank(from) == \A p \in from .. VGA_WIDTH * VGA_HEIGHT - 1 : ShownCell(p) = Space

(* Where the line starts on the screen, as a cell.  After the full-buffer  *)
(* warning the whole line is hidden above the new prompt, and the cell     *)
(* lies before the prompt.                                                 *)
LineStart == prompt_row * VGA_WIDTH + Len(SHELL_PROMPT) - hidden

(* What the user sees is what Enter will run: the cursor is behind the     *)
(* line with nothing after it, and unless the line met the full buffer its *)
(* row shows the prompt and the edited line.  It holds after every         *)
(* command, "clear" included, after every scroll, and when Backspace       *)
(* deletes hidden characters and so erases the prompt and more above it.   *)
LineIsOnScreen ==
  shell_started =>
    LET cursor == terminal.row * VGA_WIDTH + terminal.column
        text == SHELL_PROMPT \o Line
    IN  /\ cursor = LineStart + shell_buffer_length
        /\ Blank(cursor)
        /\ hidden = 0 =>
             /\ terminal.row = prompt_row
             /\ SubSeq(ShownRow(prompt_row), 1, Len(text)) = text

(* Editing touches only the line: a step that neither runs a command nor   *)
(* warns of a full buffer leaves every cell before the line's start as it  *)
(* is.  So after the warning Backspace may erase the new prompt and the    *)
(* end of the warning's row, but never a row of earlier output.            *)
EditingKeepsOutput ==
  [][ (HandleBackspace \/ \E a \in Keys : HandleCharacter(a))
        => /\ LineStart >= (prompt_row - 1) * VGA_WIDTH
           /\ \A p \in 0 .. LineStart - 1 :
                Viewed(terminal)'[p] = Viewed(terminal)[p] ]_vars

(* A counter that a command shows, up to the largest value of its type, is *)
(* in the row above the prompt, in decimal and complete, until the next    *)
(* command: its digits fit the buffer with the terminator.                 *)
ReportShowsCounter ==
  reported # NoValue =>
    LET row == ShownRow(prompt_row - 1)
        from == Len(ReportLabel) + 1
    IN  \E to \in from .. VGA_WIDTH - 1 :
          /\ SubSeq(row, 1, from - 1) = ReportLabel
          /\ \A i \in to + 1 .. VGA_WIDTH : row[i] = Space
          /\ \A i \in from .. to : row[i] # Space
          /\ IsDecimalFor(SubSeq(row, from, to), reported)
=============================================================================
