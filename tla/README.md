# wigOSX: TLA+ models and proofs

wigOSX is a small i386 kernel: it boots from Multiboot, builds a memory map and
a physical frame allocator, switches paging and interrupts on, and then serves
a command shell from one foreground loop that timer and keyboard interrupts
preempt.  This directory models the parts in which something can go wrong that a
test would hardly reach, model-checks them with TLC on small instances and
proves every safety property that the passing runs check with TLAPS, for every
value of the constants; only the three liveness properties rest on TLC alone.

## The system

There is one CPU, no scheduler, no persistence and no network.  Concurrency is
that of a foreground with interrupt handlers; handlers run with interrupts off.

| part | state | operations | used by |
|---|---|---|---|
| memory map (`kernel/memory.c`) | region table, counts, totals, status flags | `memory_initialize` parses the boot loader's list | PMM, shell |
| frame allocator (`mm/pmm.c`) | used bitmap, ownership bitmap, counters, search position | initialise, allocate, free, self-test | shell (`pmm_test`); nothing in interrupt context |
| input queue (`kernel/input.c`) | ring of 64 characters, free-running head and tail, drop counter | enqueue in IRQ1, try-read in the work loop, counts for the shell | keyboard handler, work loop |
| keyboard (`drivers/keyboard.c`) | Shift and Caps Lock flags | one scancode per IRQ1 | input queue |
| interrupt registry (`kernel/interrupts.c`) | handler table, dispatch counters, context depth | register, enter, dispatch, exit | `irq_handler`, work loop, shell |
| PIC driver (`hardware/pic.c`) | the chips' masks, latches, in-service bits | remap, mask, unmask, EOI | boot, `irq_handler` |
| GDT (`memory/gdt.c`, `gdt_flush.s`) | three descriptors, segment registers | initialise once | boot, gates |
| IDT (`interrupts/idt.c`, `isr_stubs.s`) | gates, the frame on the stack | entry stubs, `isr_handler`, `irq_handler`, IRET | CPU |
| work loop (`kernel/work.c`) | the CPU's interrupt flag and halt state | one pass: check, CLI, read, deliver or STI+HLT | `kernel_main` |
| PIT (`drivers/pit.c`) | tick counter | initialise, count, heartbeat text | registry, shell |
| shell (`kernel/shell.c`) | line buffer | one character at a time; Enter runs a command | work loop |
| serial port (`drivers/serial.c`) and log (`kernel/log.c`) | two availability flags, the transmitter | probe, write with a polling limit, mirror | everyone, the IRQ0 handler included |
| VGA terminal (`drivers/vga.c`) and console (`kernel/console.c`) | cursor, colour, window into video memory | characters, controls, clear | log, shell; foreground only |
| kernel entry (`kernel/kernel.c`) | none of its own | the services in order, each required to succeed | boot loader |
| paging and VMM (`memory/paging.c`, `mm/vmm.c`) | page directory and tables, CR3, CR0.PG, two flags | build the identity map, switch paging on | boot |
| heap (`mm/heap.c`) | the region and a flag | initialise; `kmalloc` and `kfree` are stubs | boot |
| formatting (`kernel/format.c`) | none | decimal and hexadecimal text in a caller's buffer | shell, log, exception report |

What is hard here: an interrupt between any two accesses of the foreground; an
edge that arrives while a handler runs; HLT racing with the last interrupt;
32-bit positions and counters at their end; two writers on one serial port; a
ring of video memory that rows do not divide and the display does not follow; a
boot loader's map with sizes and ranges at the end of their types, perhaps above
the part of memory that paging maps; a keyboard that repeats its codes and has
two keys for one modifier; frees of wrong addresses; the order of the boot
steps; exceptions with and without an error code, inside other handlers too; and
a line of the shell that its own warning has scrolled away.  `PROJECT.json`
lists these hazards at the lines where they bite.

## Modules

| module | models |
|---|---|
| `FrameAllocator` | what a frame allocator promises: a fixed pool, no frame handed out twice, refusal only when the pool is empty |
| `Pmm` | `pmm.c`; a bitmap is the set of the indices whose bit is 1, a range loop is one set operation, counters move by the bits that really change |
| `PmmProofs`, `BootProofs`, `InputQueueProofs`, `KernelLoopProofs`, `TypingProofs`, `InterruptEntryProofs`, `FormatProofs` | theorems about the module they are named after; `BootProofs` uses `PmmProofs`, and `KernelLoopProofs` uses `InputQueueProofs`, through an instance |
| `OutputProofs` | theorems about `Terminal`, `Shell` and `Serial`, which print and send with the same few lemmas about texts; uses `FormatProofs`, as `InterruptEntryProofs` does |
| `MemoryMap` | `memory.c`; one map entry per step, its fields chosen when they are read |
| `BoundedFifo` | what the input queue promises: first in first out, at most Capacity, the newest is dropped and counted |
| `InputQueue` | `input.c`; the producer is one step (it runs with interrupts off), the consumer one step per volatile access |
| `Keyboard` | `keyboard.c` as operators on a scancode and two flags |
| `Typing` | `Keyboard` with a user: keys go down, repeat and come up, bytes arrive late, and each carries the character the user meant |
| `Interrupts` | `interrupts.c` |
| `Pic` | `pic.c` and, as external behaviour, the 8259 pair |
| `KernelLoop` | `kernel.c` from the interrupt services on, `work.c`, `idt.c`, the PIT handler, and the devices; instantiates `InputQueue`, `Keyboard`, `Interrupts` and extends `Pic` |
| `Screen` | what a terminal promises: a page of cells in reading order with a cursor, which moves up by a row when it is full |
| `Terminal` | `vga.c` and `console.c`; a call is a function on the record of the driver's statics, the video memory and the adapter's start-address register; the adapter's display is external |
| `Boot` | `kernel_main` up to the interrupt services, the layout of `kernel.ld`, `paging.c`, `vmm.c` and `heap.c`; extends `MemoryMap` and instantiates `Pmm` on the map it hands over; the MMU's walk (`Translate`) is external |
| `Format` | `format.c`, and as reference what a reader takes a text of digits for |
| `InterruptEntry` | `gdt.c`, `gdt_flush.s`, the gates of `idt.c`, `isr_stubs.s`, `struct interrupt_frame`, `isr_handler`; the processor decodes what the code encoded |
| `Shell` | `shell.c` on top of `Terminal` and `Format`; commands are words and the texts they may print, two of them with a counter |
| `Serial` | `serial.c`, `log.c` and the heartbeat of `pit.c`; foreground and IRQ0 handler are two writers, cut at their accesses to the port and to the shared flag |
| `MC_*` | values of the constants for TLC |

Definitions carry the name of the function they model; `PROJECT.json` maps each
to its lines.  Operators marked "Mutation" are plausible bugs used to show that
a property can fail; no specification uses them.

`KernelLoop` in more detail.  `step` is the foreground's next step, `irq_frames`
the stack of handler activations, `interrupt_flag` and `halted` the CPU.  The
foreground moves only while no handler is active and the CPU is not halted.
`TakeInterrupt` enters a handler when the flag is set and the PIC offers a line;
the gate type decides whether the flag is cleared, so that handlers not nesting
is a result and not an assumption.  A handler has four steps (context enter,
dispatch with the registered handler's whole effect, EOI, context exit with
IRET), and device edges may come between them.  `TakeSpurious` is the 8259's
spurious IRQ7.  Every early return of the code that leads to `kernel_panic` is
in the model.  Log and console output is left out; the line that the IRQ0
handler writes on every hundredth tick is in `Serial`.

`stranded` is a history variable: `pic_remap` resets the controllers' edge
detection, so a key struck before it is never seen, and as nothing reads port
0x60 until an IRQ1 comes, the keyboard stays silent from then on.  The keyboard
properties except exactly this case, and so show that it is the only way to a
dead keyboard.

## Runs

| run | shows | bounds |
|---|---|---|
| `pmm` | type, counter, ownership and search-position invariants; the pool holds only usable memory outside the kernel's ranges and never changes; `Pmm` implements `FrameAllocator` | 8 frames of 4 bytes, a 48-address space; maps with unaligned edges, a partial last frame, overlaps of usable and reserved regions, more memory than the bitmap covers, nothing usable |
| `boot` | the parser never reads outside the map, its cursor moves strictly forward, and an accepted map is complete and free of overflowing regions; the frames the PMM then offers belong to nobody else, the heap and the live page tables included; everything boot touches is mapped to itself when it is touched; the interrupt services start exactly when every memory service is ready | pages of 4 bytes, 4 entries a table, 2 tables: 32 of 64 addresses are mapped; image at 8..31; boot data below the image or above the mapped part; a 2-byte size field, 2 region slots, sizes, bases and lengths around 0, the minimum and the type's limit |
| `input_queue` | the reader's copies never go stale; the ring implements `BoundedFifo` | capacity 2, positions modulo 6, two characters: every fill level at every position of the wrap-around |
| `typing` | each byte gives the character its key stood for when it was hit, and the flags follow the keys, except in exactly two cases: a Shift still held when the other is released, and Caps Lock held until it repeats; each spoils one flag, until the next make code of a Shift or one more repeat | two Shifts, Caps Lock, letters, digits and more, an arrow key; every key repeats; 3 keys held, 2 bytes in flight |
| `typing_shifts` | **violation**: with both Shift keys held, releasing one clears the flag, while `keyboard.c:11` says the driver "tracks Shift and Caps Lock" | two Shift keys and a letter |
| `kernel_loop` | no panic is reachable; handlers do not nest and the depth counts them; every EOI ends its own line; HLT is never entered with input queued; the queue is stable while it is read; a waiting scancode always has its interrupt pending; the diagnostics agree and never fall; the queue is still a FIFO | capacity 2, 2-bit positions and counters, so that they wrap and saturate; one letter key; timer, key and spurious interrupts at any point |
| `terminal` | the moving window implements `Screen` for every character and control: at the positions in reach with what is displayed, at the others with what the driver keeps for them | 2 rows of 4 columns in 11 cells, of 22 that the adapter has: a row crosses the end at every place; tab stops inside a row; two colours, which tell the cells apart |
| `terminal_end` | **violation**: a window that crosses the end of the driver's 32 KiB is not displayed as it was written, while `vga.h:129` says that the edges scroll "the visible terminal" | as above |
| `shell` | the line is terminated inside its buffer; the cursor's row shows the prompt and the line that Enter will run, and nothing follows the cursor; editing changes no cell before the line, a line hidden by the full-buffer warning included; a counter is shown with the value it had | lines of up to 3 letters, a prompt of 2, 3 rows of 6 columns in 19 cells; clearing, printing, reporting and unknown commands; counters whose largest value just fits its buffer |
| `serial` | each writer's text reaches the port as a first part of what was written, complete while the port is on; no writer waits for ever | 2 messages and 2 heartbeats of 3 bytes, 2 polls, a transmitter of 2 bytes (a 16550 has 16; with 1, as without its FIFO, a byte would be lost) |
| `entry` | every interrupt and exception reaches its own handler, which finds number, error code and registers where `struct interrupt_frame` has them; the report names the exception that struck last; a hardware interrupt leaves no trace in what it interrupted | all 48 vectors at full width, three error codes, one exception inside another; stubs above 2 MiB and across a 64 KiB boundary |
| `kernel_loop_live` | every scancode is read; the boot ends in the loop and queued characters reach the shell | capacity 1, 1-bit counters |

The widths are small on purpose: the code compares, adds and masks, and treats
all values alike except those next to zero, the capacity and the type's limit,
all of which the instances have.  `input_queue` takes more values than
`kernel_loop` because only there several characters are told apart.

**Deadlock** is not checked in `boot`, which ends in a panic or hands over to
`KernelLoop`; in `entry`, where an exception halts the machine; and in `serial`,
which ends when all texts are written.

**Fairness** (`kernel_loop_live`).  Weak fairness of handler steps: the CPU
executes.  Strong fairness of foreground steps and of taking IRQ0 and IRQ1: an
instruction, or an interrupt the PIC offers, that is possible again and again is
not preempted at that very point for ever.  Nothing is assumed of the PIT or the
user: a character must be served even if no timer interrupt follows.  The run
sets `HandlersOutrunPit`: the timer raises no edge while a handler runs.  The
period is 10 ms and a handler is a few dozen instructions; the heartbeat is the
exception (see the hazards).  With a timer faster than its own handler the
keyboard, of lower priority, would really never be served.

In `serial` only the CPU's own steps are fair (weakly): nothing is assumed of the
port, so the polling limit alone must bring every writer back.  Heartbeats are
bounded by `MaxBeats`; in the kernel they are a second apart.

`Shell` has three history variables.  `prompt_row` is the row of the last prompt
and `reported` the counter a command has just shown.  `hidden` counts the
characters typed above the last prompt: the full-buffer warning prints a new
prompt but keeps the line, so that its beginning is no longer visible and
Backspace erases the prompt and then the end of the warning.  `LineStart`
is the cell where the line would start if it stood in front of the cursor; for a
hidden line it lies before the prompt.  `LineIsOnScreen` always puts the cursor
the line's length behind it, and `EditingKeepsOutput` bounds by it what Backspace
may erase: the prompt and part of the warning's row, never earlier output.

`Terminal` tells three things apart.  The driver numbers cells modulo the 16384
that it reaches at 0xB8000.  The adapter (`Shown`) displays consecutive cells
from its start address on, and its memory goes on behind those: a VGA in text
mode has 32768, QEMU's does not wrap there either.  So when the window starts
behind cell 14384, after some 180 scrolled rows, its lower rows are written to
the first cells and something else is displayed, until the window itself has
wrapped around 25 rows later; `terminal_end` shows it.  `Viewed` is the page of
the refinement: what is displayed at every position in reach of the driver, and
what the driver keeps for the others.  The properties of the shell speak of this
page; on the display they hold while the whole window is in reach.  The memory
out of reach (`Remnant`) is never written; its contents do not matter.

`Typing` keeps user and keyboard apart from the driver.  A key that is held
repeats its make code until another goes down.  `forgotten` and `flipped` are
history variables: a Shift is held and another has been released since it last
sent its code; Caps Lock has repeated its code an odd number of times.  They
mark the bytes whose meaning the driver may miss (`InDoubt`), and
`NoOtherDivergence` shows that they account for every difference between the
driver's flags and the keys.

`Boot` lets the processor leave CR0.PG clear, because `vmm_initialize` checks for
it.  The error returns of `heap_initialize` cannot be reached with this linker
script.  Frames above the identity map (16 MiB) are handed out; nothing in the
kernel writes to a frame yet, so no property speaks of it.

`InterruptEntry` takes the processor's list of exceptions with an error code from
its manual; vector 21 is not in it, as its feature is off.  The stubs save only
DS and load ES, FS and GS from it; in this kernel all four are equal, and
`ContextIsRestored` shows that this is enough.  Before the IDT is loaded any
exception resets the machine; `HandlerSeesItsInterrupt` excepts only that.

Things the code does of which no run makes a property:

* A region that the map reports as reserved is never marked.  If it overlaps a
  usable region its frames are in the pool, while `pmm.c:18` says that a set bit
  stands for "used or reserved"; one map of the run `pmm` is like that.
* The prefix byte of an extended key is dropped and the byte behind it read as an
  ordinary key.  An arrow key has no character there, and the run `typing` shows
  that it is ignored, as `keyboard.c:15` says of extended scancodes; keypad Enter
  and slash type theirs all the same.
* After a timeout the serial port is off for good, while
  `klog_has_serial_output`, which nothing calls, still answers true.
* A heartbeat may come between the return and the newline of a log line, as
  `Serial` keeps each writer's bytes in order but not together.

## Proofs

Eight modules hold theorems; TLAPS checks every step.  For a state machine the
argument is always the same: an invariant that says what a property needs to
know about the other variables, one lemma per action that the action keeps it,
and a last step that derives the property.  Below, for each module, what is
assumed of the constants, what the invariant adds and why it has to.

**`PmmProofs`.**  Assumed: the frame size and the number of bits are positive,
the bitmap's reach fits the 64-bit type, the addresses of the kernel's sections
and buffers are natural numbers, and the hand-over from `memory.c` has its type,
which includes that regions are not empty.  Nothing is assumed about alignment,
order or overlap.

* `PmmInvariant`: `Spec => []IInv`.  The counters equal the sizes of the parts of
  the bitmap; that alone is not inductive, because freeing decrements "used" only
  above zero and because a frame is freed on the word of the ownership bitmap.
  `IInv` adds that owned frames are tracked and marked used, and that no free
  frame lies below the search position, so that the first free frame found is
  the lowest one.  `PmmTypeOK`, `PmmCountersMatchBitmap`,
  `PmmAllocatedIsMarkedUsed` and `PmmNoFreeFrameBelowSearch` are its parts.
* `PmmPoolIsSafe`: a frame of the pool lies in usable memory and touches no
  reserved range.  Initialisation makes such a pool and, by `IInv`, no later call
  changes it; the first part rests on lemmas about rounding: a frame inside the
  inward-rounded range is covered by it, and one outside the outward-rounded
  range does not meet it, saturation at the end of the address space included.
* `PmmPoolIsFixed`: the action property from the same invariant.
* `PmmRefinesFrameAllocator`: initial states map to initial states, every step to
  an allocation, a release, a refusal or a stutter; the search loops find a free
  frame whenever one exists.

**`BootProofs`.**  Assumed: the widths of the types are ordered as in C; what the
boot loader passes are values of those types, and nothing else about its map; the
layout facts that `kernel.ld` and the alignment attributes give (both paging
structures are page-aligned objects of .bss, the heap is whole pages behind it);
the image and the video memory lie below the identity-mapped limit, the directory
has room for the tables, and the bitmap spans the 32-bit space.

* `BootInvariant`.  `MapInv` is the parser's part: the cursor is inside the map
  while it is read, the region table is filled up to its count with regions that
  are not empty and do not overflow, and "OK" is reported only at the end of the
  map.  `BootInv` adds what each call of `kernel_main` has left behind, the page
  tables among it.
* `BootReadsStayInTheMap`, `BootCursorAdvances` and `BootReadyMapIsUsable`: no
  entry size, however large, leads the walk outside the map or backwards, and an
  accepted map has been read completely.
* `BootFramesAreNobodyElses`: the parser's invariant implies what `PmmProofs`
  assumes of the hand-over, so that `PmmPoolIsSafe` applies to every map the
  parser accepts; the image, the heap, the paging structures and the boot
  loader's data then lie in reserved ranges.
* `BootAccessesAreMapped`: the table that `paging.c` fills maps every address
  below the limit to itself.  The proof computes an entry's number, its address
  and its flags back from the encoded word; the page size being a multiple of
  four keeps the flags apart from the address.
* `BootServicesStartOnReadyKernel`: by the order of the calls.

**`InputQueueProofs`.**  Assumed: the capacity is positive, smaller than the
positions' modulus, and divides it (64 divides 2^32).  Head and tail run freely
and wrap around; the invariant says that their distance never exceeds the
capacity and relates the consumer's copies to the shared positions at each of its
accesses.  Divisibility is needed because the slot is the position modulo the
capacity, which must go on correctly over the wrap-around.

* `InputQueueReaderIsNeverStale`, `InputQueueTypeOK`: parts of the invariant.
* `InputQueueRefinesBoundedFifo`: an enqueue appends or, when the ring is full,
  drops and counts; the consumer's last access removes the first; its other
  accesses are stutters, interleaved with the producer anywhere.

**`KernelLoopProofs`.**  Assumed: scancodes are bytes, and what `InputQueue`
assumes.  The proofs hold for a timer of any speed (`HandlersOutrunPit` either
way).  `KernelLoopInvariant` is a conjunction: at most one handler is active
and then the interrupt flag is clear (`OneFrame`), the flag in the foreground is
a function of the step (`FlagFollowsStep`), which handlers, gates and offsets
each boot step has left (`BootProgress`), depth, in-service bits and the waiting
scancode as functions of the active handler's step (`HandlerState`), an empty
queue from the decision to halt until the halt ends (`NothingQueued`),
agreement of the counters (`CountersAgree`), and the queue's own invariant.
That handlers do not nest follows from the gate type and is needed by almost
everything else; without `BootProgress` neither the registrations' success nor
the EOI could be shown.  Ten theorems state the properties of the run
`kernel_loop`; `KernelLoopQueueIsFifo` reuses the refinement of
`InputQueueProofs` step by step.

**`TypingProofs`.** The two theorems speak of a plain keyboard (`PlainKeys`):
its keys send one byte and the letters are those of the driver's tables.  The
hypothesis is needed, as some extended keys are read as ordinary ones;
`MC_Typing` evaluates it for its keyboard without the arrow key.  Shift keys may
be any number, every key repeats, and keys held and bytes in flight are not
bounded in the proof.

* `PlainKeysReadWhatWasMeant`: the invariant `WireLeadsToKeys` treats the bytes in
  flight as a run of the driver that has not happened yet: it ends with the flags
  that `forgotten` and `flipped` predict from the keys, and each byte on the way
  is read as it was meant or was in doubt when it was sent.
* `PlainKeysNoOtherDivergence`: the same run, when no byte is in flight.

**`InterruptEntryProofs`.**  Assumed: the 48 stubs have distinct 32-bit addresses,
the IDT has at least 48 gates, registers and segments hold natural numbers.
`EntryInvariant` says what the descriptor tables hold from their loading on, what
the stack holds at each stub (the processor's part with or without an error
code), and what it holds in the handlers: the saved registers, number and error
code at the offsets of `struct interrupt_frame`, and below them the interrupted
context.  The offset split into two 16-bit halves and the selector's index and
privilege bits are shown to decode to what was encoded.

* `EntryHandlerSeesItsInterrupt`: the number, error code and registers in the
  frame are those of the interrupt that struck, for all vectors and error codes
  and any depth.
* `EntryContextIsRestored`: pops and IRET undo the pushes exactly.
* `EntryExceptionIsReported`: the report of the halted kernel reads as the number
  and the error code of the exception that struck last.  `ReportInv` adds to the
  invariant that the halt comes only from an exception, whose frame
  `isr_handler` has just formatted; the text is right by `FormatProofs`.  Also
  assumed: error codes have 32 bits.

**`FormatProofs`.**  Nothing is assumed.  `Digits` and `ReadAs` are recursive
functions; that they satisfy their equations, and what they compute, is shown by
the least counterexample, which a theorem of the library about well-founded
orders gives.

* `DecimalIsRight`: what is written for a number reads as that number, has no
  needless zeros, and is refused exactly when text and terminator do not fit.
* `HexIsRight`: the same for the eight hexadecimal digits of a 32-bit number.

**`OutputProofs`.**  Assumed of the terminal: rows end at a tab stop, there are at
least two, the page fits into the video memory, whose cells a 16-bit register can
name, the adapter has at least those, and controls are not glyphs; the memory
need not be a multiple of a row.
Of the shell: the buffer has at least two slots, prompt and full line fit into a
row, the texts of the kernel have no control character but the newline and end a
line where a prompt follows, no typed character is NUL, as
`keyboard_handle_interrupt` drops keys without a character (`keyboard.c:147`), the
digits of each counter fit its buffer (10 digits in 11 bytes, 20 in 21) and label
and buffer fit into a row.  Of the serial port: texts are sequences of
characters, and the transmitter holds at least two bytes (see the run).

* `TerminalRefinesScreen`: the terminal implements `Screen`, with the page of
  `Viewed`.  In reach, driver and adapter number the cells alike (`ViewedIs`), so
  that the argument is about the ring.  The invariant is
  that after initialisation the adapter's start register equals the driver's
  window and the cursor is on the page; before, the register is the firmware's.
  As the page is not larger than the ring, two positions of the page are never
  the same cell (`CellsApart`), so that a store is seen where it was meant and
  nowhere else; moving the window by a row shifts the page (`WindowMoves`), and
  the row that comes into view is cleared whatever it held.  Each control is a
  lemma of its own; that a tab written space by space ends at the stop that
  `Screen` computes from the position needs rows to end at a stop.
* `ShellLineIsTerminated`: `BufferInv` says of every slot whether it is NUL,
  exactly from the length on; it holds whatever the terminal and the commands do.
* `ShellLineIsOnScreen`, `ShellEditingKeepsOutput`: `ScreenInv` says that nothing
  stands behind the cursor (`Tidy`), that the cursor is the line's length behind
  `LineStart`, that either nothing or exactly a full line's worth is hidden, and
  that a line which is not hidden is shown behind its prompt.  `Tidy` is needed
  because a prompt is printed over what the page held; that printing any text
  keeps it, through every scroll, is an induction over the text.  A text in two
  parts is printed as the one text (`WriteBoth`), so that the last newline of a
  command's output can be told from what stands before it: the prompt is at the
  start of a row.
* `ShellReportShowsCounter`: `ReportInv` says that the row above the prompt holds
  the label and the digits and blanks behind them; no edit reaches that row,
  because while a counter is shown nothing of the line is hidden.
* `SerialTextsAreIntact`: `SerialInv` says for each writer that what was sent and
  what it has still to send are together what it was asked for, even after the
  other has switched the port off, if it has passed its own test of the flag; and
  that who has seen the transmitter empty still finds room.  The last part is the
  race: the heartbeat may interrupt the foreground between its poll and its
  output, and leaves at most one byte, since it polls before each of its own.

Only model-checked: the liveness properties (`KeysAreRead`, `QueueIsServed`,
`WritersReturn`), as the prover does not reason about fairness.

## Not modelled

The visual tests, which are the only callers of `terminal_setcolor` and which the
kernel never calls; the port I/O instructions (no state of their own); `kmalloc`
and `kfree`, stubs without state; the wording of what is printed and the
summaries of memory map, frames and heap.  A panic message that interrupts a
foreground write to the terminal is not modelled: the kernel stops after it.
NULL arguments are not modelled where every caller passes an object.  The build
and boot scripts have no run-time behaviour; the linker script's layout is in
`Boot`.

## Plan

What is left is a composition: the shell and the heartbeat inside the kernel
loop, if the product stays within reach of TLC.
