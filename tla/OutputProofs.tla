---------------------------- MODULE OutputProofs ----------------------------
(***************************************************************************)
(* Theorems about what the kernel shows and sends, for every size of the   *)
(* page, of the tab stops, of the video memory, of the line buffer and of  *)
(* the serial FIFO, and everything that commands print and the user types: *)
(* the terminal implements Screen, the line on the screen is the one that  *)
(* Enter will run, a counter can be read above the prompt, and the texts   *)
(* on the serial line are whole.                                           *)
(***************************************************************************)
EXTENDS Shell, Serial, FormatProofs, SequenceTheorems, WellFoundedInduction,
        TLAPS

Page == VGA_WIDTH * VGA_HEIGHT
Positions == 0 .. Page - 1

AnyColor == Colors \cup {0}
Cells == [character : Glyphs, color : AnyColor]
Terminals == [row : Nat, column : Nat, view_start : Nat, color : AnyColor,
              crtc_start : Nat, buffer : [MemoryCells -> Cells]]

(* The driver's window is the adapter's.                                   *)
Aligned(t) ==
  /\ t \in Terminals
  /\ t.view_start < VGA_TEXT_MEMORY_CELLS
  /\ t.crtc_start = t.view_start

(* Between two calls the cursor is on the page, too.                       *)
Good(t) == Aligned(t) /\ t.row < VGA_HEIGHT /\ t.column < VGA_WIDTH

(* The memory cell of a position of the page.                              *)
Address(t, p) == (t.view_start + p) % VGA_TEXT_MEMORY_CELLS

Cursor(t) == t.row * VGA_WIDTH + t.column

(* The page after the cells at P have got a character, and after it has    *)
(* moved up by a row.                                                      *)
Filled(page, P, ch, c) ==
  [p \in Positions |-> IF p \in P THEN vga_entry(ch, c) ELSE page[p]]

Scrolled(page, c) ==
  [p \in Positions |-> IF p + VGA_WIDTH \in Positions
                       THEN page[p + VGA_WIDTH] ELSE vga_entry(Space, c)]

(* A call that turned t into u shows the page.                             *)
Shows(t, u, page) == Aligned(u) /\ u.color = t.color /\ Viewed(u) = page

(* The same, and it has left the cursor at p, where a page that is full    *)
(* moves up.                                                               *)
MovedTo(t, u, page, p) ==
  /\ Good(u) /\ u.color = t.color
  /\ p < Page => Viewed(u) = page /\ Cursor(u) = p
  /\ p >= Page => Viewed(u) = Scrolled(page, t.color) /\ Cursor(u) = p - VGA_WIDTH

-----------------------------------------------------------------------------
(* Arithmetic.                                                             *)

(* The sizes of page, row, tab and memory, one by one.                     *)
LEMMA Sizes ==
  /\ VGA_WIDTH \in Nat /\ VGA_WIDTH >= 1
  /\ VGA_HEIGHT \in Nat /\ VGA_HEIGHT >= 1
  /\ TAB_WIDTH \in Nat /\ TAB_WIDTH >= 1 /\ VGA_WIDTH % TAB_WIDTH = 0
  /\ VGA_TEXT_MEMORY_CELLS \in Nat /\ VGA_TEXT_MEMORY_CELLS <= 65536
  /\ Page \in Nat /\ Page <= VGA_TEXT_MEMORY_CELLS
BY TerminalConstants, SMT DEF Page

(* A row fits into the page.                                               *)
LEMMA RowFits ==
  ASSUME NEW y \in Nat, y < VGA_HEIGHT
  PROVE  /\ y * VGA_WIDTH \in Nat /\ y * VGA_WIDTH + VGA_WIDTH <= Page
         /\ (y + 1) * VGA_WIDTH = y * VGA_WIDTH + VGA_WIDTH
         /\ y + 1 < VGA_HEIGHT => (y + 1) * VGA_WIDTH < Page
         /\ y + 1 >= VGA_HEIGHT => (y + 1) * VGA_WIDTH = Page
<1>1. VGA_HEIGHT \in Nat /\ VGA_WIDTH \in Nat /\ VGA_WIDTH >= 1
  BY Sizes
<1>2. y + 1 <= VGA_HEIGHT
  BY <1>1
<1>3. (y + 1) * VGA_WIDTH <= VGA_HEIGHT * VGA_WIDTH
  BY <1>1, <1>2, Z3
<1>4. (y + 1) * VGA_WIDTH = y * VGA_WIDTH + VGA_WIDTH
      /\ y * VGA_WIDTH \in Nat
  BY <1>1, Z3
<1>5. y + 1 < VGA_HEIGHT => (y + 2) * VGA_WIDTH <= VGA_HEIGHT * VGA_WIDTH
  BY <1>1, Z3
<1>6. (y + 2) * VGA_WIDTH = (y + 1) * VGA_WIDTH + VGA_WIDTH
  BY <1>1, Z3
<1>7. Page = VGA_HEIGHT * VGA_WIDTH /\ Page \in Nat
  BY <1>1, Z3 DEF Page
<1>8. y + 1 < VGA_HEIGHT => (y + 1) * VGA_WIDTH < Page
  BY <1>1, <1>4, <1>5, <1>6, <1>7
<1>9. y + 1 >= VGA_HEIGHT => (y + 1) * VGA_WIDTH = Page
  <2>1. y + 1 >= VGA_HEIGHT => y + 1 = VGA_HEIGHT
    BY <1>1, <1>2
  <2>. QED BY <2>1, <1>7
<1>. QED BY <1>3, <1>4, <1>7, <1>8, <1>9

(* Quotient and remainder are unique.                                      *)
LEMMA DivisionIs ==
  ASSUME NEW m \in Nat, NEW q \in Nat, NEW r \in 0 .. m - 1
  PROVE  (m * q + r) \div m = q /\ (m * q + r) % m = r
<1>. DEFINE a == m * q + r
            d == a \div m
            e == a % m
<1>1. m > 0 /\ a \in Int
  BY Z3
<1>. HIDE DEF a
<1>2. d \in Int /\ e \in 0 .. m - 1 /\ a = m * d + e
  BY <1>1, Z3
<1>. HIDE DEF d, e
<1>3. m * q + r = m * d + e
  BY <1>2 DEF a
<1>4. d <= q
  <2>1. SUFFICES ASSUME d >= q + 1 PROVE FALSE
    BY <1>2
  <2>2. m * d >= m * (q + 1)
    BY <1>1, <1>2, <2>1, Z3
  <2>3. m * (q + 1) = m * q + m
    BY Z3
  <2>4. m * q \in Int /\ m * d \in Int
    BY <1>2, Z3
  <2>. QED BY <1>2, <1>3, <2>2, <2>3, <2>4
<1>5. q <= d
  <2>1. SUFFICES ASSUME q >= d + 1 PROVE FALSE
    BY <1>2
  <2>2. m * q >= m * (d + 1)
    BY <1>1, <1>2, <2>1, Z3
  <2>3. m * (d + 1) = m * d + m
    BY <1>2, Z3
  <2>4. m * q \in Int /\ m * d \in Int
    BY <1>2, Z3
  <2>. QED BY <1>2, <1>3, <2>2, <2>3, <2>4
<1>6. d = q
  BY <1>2, <1>4, <1>5
<1>7. e = r
  <2>1. m * q \in Int
    BY Z3
  <2>. QED BY <1>2, <1>3, <1>6, <2>1
<1>. QED BY <1>6, <1>7 DEF d, e, a

Wrap(a) == IF a < VGA_TEXT_MEMORY_CELLS THEN a ELSE a - VGA_TEXT_MEMORY_CELLS

(* The remainder of a number below twice the divisor.                      *)
LEMMA WrapIs ==
  ASSUME NEW a \in Nat, a < VGA_TEXT_MEMORY_CELLS + VGA_TEXT_MEMORY_CELLS
  PROVE  a % VGA_TEXT_MEMORY_CELLS = Wrap(a)
<1>. DEFINE m == VGA_TEXT_MEMORY_CELLS
<1>1. m \in Nat
  BY Sizes
<1>. HIDE DEF m
<1>2. CASE a < m
  <2>1. a \in 0 .. m - 1 /\ 0 \in Nat /\ m * 0 + a = a
    BY <1>1, <1>2
  <2>2. a % m = a
    BY <1>1, <2>1, DivisionIs
  <2>. QED BY <1>2, <2>2 DEF Wrap, m
<1>3. CASE ~(a < m)
  <2>1. a - m \in 0 .. m - 1 /\ 1 \in Nat /\ m * 1 + (a - m) = a
    BY <1>1, <1>3 DEF m
  <2>2. a % m = a - m
    BY <1>1, <2>1, DivisionIs
  <2>. QED BY <1>3, <2>2 DEF Wrap, m
<1>. QED BY <1>2, <1>3

(* Two positions of the page are two cells of the ring.                    *)
LEMMA CellsApart ==
  ASSUME NEW t, Aligned(t), NEW p \in Positions, NEW q \in Positions,
         Address(t, p) = Address(t, q)
  PROVE  p = q
<1>. DEFINE m == VGA_TEXT_MEMORY_CELLS
            v == t.view_start
<1>1. m \in Nat /\ Page \in Nat /\ Page <= m /\ v \in Nat /\ v < m
  BY Sizes DEF Aligned, Terminals
<1>2. p \in Nat /\ q \in Nat /\ p < m /\ q < m
  BY <1>1 DEF Positions
<1>. HIDE DEF v
<1>3. v + p \in Nat /\ v + p < m + m /\ v + q \in Nat /\ v + q < m + m
  BY <1>1, <1>2
<1>4. (v + p) % m = Wrap(v + p) /\ (v + q) % m = Wrap(v + q)
  BY <1>3, WrapIs, Zenon
<1>5. Wrap(v + p) = Wrap(v + q)
  BY <1>4, Zenon DEF Address, v
<1>. QED BY <1>1, <1>2, <1>5 DEF Wrap

(* A position's address is a cell of the memory.                           *)
LEMMA AddressIsCell ==
  ASSUME NEW t, Aligned(t), NEW p \in Nat
  PROVE  Address(t, p) \in MemoryCells
<1>. DEFINE a == t.view_start + p
<1>1. a \in Nat /\ VGA_TEXT_MEMORY_CELLS \in Nat /\ VGA_TEXT_MEMORY_CELLS > 0
  BY Sizes DEF Aligned, Terminals
<1>. HIDE DEF a
<1>2. a % VGA_TEXT_MEMORY_CELLS \in MemoryCells
  BY <1>1, Z3 DEF MemoryCells
<1>. QED BY <1>2 DEF Address, a

(* A position below a window that has moved by a row.                      *)
LEMMA WindowMoves ==
  ASSUME NEW v \in Nat, v < VGA_TEXT_MEMORY_CELLS, NEW q \in Positions,
         q + VGA_WIDTH \in Positions
  PROVE  (((v + VGA_WIDTH) % VGA_TEXT_MEMORY_CELLS) + q) % VGA_TEXT_MEMORY_CELLS
           = (v + (q + VGA_WIDTH)) % VGA_TEXT_MEMORY_CELLS
<1>. DEFINE m == VGA_TEXT_MEMORY_CELLS
            w == VGA_WIDTH
            s == (v + w) % m
<1>1. m \in Nat /\ w \in Nat /\ Page \in Nat /\ Page <= m
  BY Sizes
<1>2. q \in Nat /\ q + w < m
  BY <1>1 DEF Positions
<1>. HIDE DEF w
<1>3. v < m /\ v + w \in Nat /\ v + w < m + m /\ v + (q + w) \in Nat
      /\ v + (q + w) < m + m
  BY <1>1, <1>2
<1>4. s = Wrap(v + w) /\ (v + (q + w)) % m = Wrap(v + (q + w))
  BY <1>3, WrapIs, Zenon
<1>. HIDE DEF s
<1>5. s \in Nat /\ s + q \in Nat /\ s + q < m + m
  BY <1>1, <1>2, <1>3, <1>4 DEF Wrap
<1>6. (s + q) % m = Wrap(s + q)
  BY <1>5, WrapIs, Zenon
<1>7. Wrap(s + q) = Wrap(v + (q + w))
  BY <1>1, <1>2, <1>3, <1>4, <1>5 DEF Wrap
<1>. QED BY <1>4, <1>6, <1>7, Zenon DEF s, w

-----------------------------------------------------------------------------
(* The driver's primitives, as the adapter shows them.                     *)

(* The cells at P show a character, the cursor stays.                      *)
Stored(t, u, P, ch) ==
  /\ Shows(t, u, Filled(Viewed(t), P, ch, t.color))
  /\ u.row = t.row /\ u.column = t.column

(* The page is what the ring holds from the window's start on: in reach,   *)
(* the adapter numbers the cells as the driver does.                       *)
LEMMA ViewedIs ==
  ASSUME NEW t, t.crtc_start \in Nat
  PROVE  Viewed(t) = [p \in 0 .. VGA_WIDTH * VGA_HEIGHT - 1 |->
                        t.buffer[(t.crtc_start + p) % VGA_TEXT_MEMORY_CELLS]]
<1>. DEFINE P == 0 .. VGA_WIDTH * VGA_HEIGHT - 1
<1>1. ASSUME NEW p \in P, InReach(t, p)
      PROVE  Shown(t)[p] = t.buffer[(t.crtc_start + p) % VGA_TEXT_MEMORY_CELLS]
  <2>. DEFINE a == t.crtc_start + p
  <2>1. p \in Nat
    BY Sizes DEF Page
  <2>2. /\ a \in Nat /\ a < VGA_TEXT_MEMORY_CELLS /\ a < ADAPTER_CELLS
        /\ VGA_TEXT_MEMORY_CELLS \in Nat /\ ADAPTER_CELLS \in Nat
    BY <1>1, <2>1, Sizes, AdapterConstants DEF InReach
  <2>. HIDE DEF a
  <2>3. a % ADAPTER_CELLS = a /\ a % VGA_TEXT_MEMORY_CELLS = a
    <3>. DEFINE m == VGA_TEXT_MEMORY_CELLS
                n == ADAPTER_CELLS
    <3>1. m \in Nat /\ n \in Nat /\ a \in 0 .. m - 1 /\ a \in 0 .. n - 1
      BY <2>2
    <3>. HIDE DEF m, n
    <3>2. 0 \in Nat /\ m * 0 + a = a /\ n * 0 + a = a
      BY <2>2, <3>1
    <3>3. a % m = a /\ a % n = a
      BY <3>1, <3>2, DivisionIs
    <3>. QED BY <3>3 DEF m, n
  <2>4. Shown(t)[p] = IF a % ADAPTER_CELLS < VGA_TEXT_MEMORY_CELLS
                      THEN t.buffer[a % ADAPTER_CELLS] ELSE Remnant
    BY DEF Shown, a
  <2>. QED BY <2>2, <2>3, <2>4 DEF a
<1>. QED BY <1>1 DEF Viewed, terminal_wrap_index

(* One cell of it.                                                         *)
LEMMA ViewedAt ==
  ASSUME NEW t \in Terminals, NEW p \in Positions
  PROVE  Viewed(t)[p] = t.buffer[(t.crtc_start + p) % VGA_TEXT_MEMORY_CELLS]
<1>1. t.crtc_start \in Nat
  BY DEF Terminals
<1>. QED BY <1>1, ViewedIs DEF Positions, Page

(* Stored characters appear at their positions and nowhere else.           *)
LEMMA StoreShows ==
  ASSUME NEW t, Aligned(t), NEW P \in SUBSET Positions, NEW ch \in Glyphs
  PROVE  Stored(t, Store(t, {Address(t, p) : p \in P}, ch), P, ch)
<1>. DEFINE I == {Address(t, p) : p \in P}
            b == [i \in MemoryCells |-> IF i \in I THEN vga_entry(ch, t.color)
                                        ELSE t.buffer[i]]
            u == Store(t, I, ch)
<1>1. t \in Terminals /\ t.color \in AnyColor /\ t.crtc_start = t.view_start
      /\ t.buffer \in [MemoryCells -> Cells]
  BY DEF Aligned, Terminals
<1>2. vga_entry(ch, t.color) \in Cells
  BY <1>1 DEF vga_entry, Cells
<1>. HIDE DEF I
<1>3. b \in [MemoryCells -> Cells]
  BY <1>1, <1>2
<1>4. u = [t EXCEPT !.buffer = b]
  BY <1>1 DEF Store, Terminals
<1>. HIDE DEF u, b
<1>5. /\ u \in Terminals /\ u.buffer = b /\ u.row = t.row
      /\ u.column = t.column /\ u.color = t.color
      /\ u.view_start = t.view_start /\ u.crtc_start = t.crtc_start
  BY <1>1, <1>3, <1>4 DEF Terminals
<1>6. Aligned(u)
  BY <1>5 DEF Aligned
<1>7. ASSUME NEW p \in Positions
      PROVE  b[Address(t, p)] = IF p \in P THEN vga_entry(ch, t.color)
                                ELSE t.buffer[Address(t, p)]
  <2>1. Address(t, p) \in MemoryCells
    BY AddressIsCell DEF Positions
  <2>2. Address(t, p) \in I <=> p \in P
    BY CellsApart DEF I
  <2>. QED BY <2>1, <2>2 DEF b
<1>8. Viewed(u) = [p \in Positions |-> b[Address(t, p)]]
  BY <1>1, <1>5, ViewedIs DEF Address, Positions, Page, Aligned, Terminals
<1>9. Viewed(t) = [p \in Positions |-> t.buffer[Address(t, p)]]
  BY <1>1, ViewedIs DEF Address, Positions, Page, Aligned, Terminals
<1>10. Viewed(u) = Filled(Viewed(t), P, ch, t.color)
  BY <1>7, <1>8, <1>9 DEF Filled
<1>. QED BY <1>5, <1>6, <1>10 DEF Shows, Stored, u, I

(* The driver's index of a cell of the page is that of its position.       *)
LEMMA IndexIsAddress ==
  ASSUME NEW t, t.view_start \in Nat, NEW y \in Nat, y < VGA_HEIGHT,
         NEW x \in Nat
  PROVE  terminal_get_buffer_index(t, y, x) = Address(t, y * VGA_WIDTH + x)
<1>. DEFINE v == t.view_start
            z == y * VGA_WIDTH
<1>1. z \in Nat /\ v \in Nat
  BY RowFits
<1>. HIDE DEF v, z
<1>2. v + z + x = v + (z + x)
  BY <1>1
<1>. QED BY <1>2, Zenon
         DEF terminal_get_buffer_index, terminal_wrap_index, Address, v, z

(* The positions of a row.                                                 *)
RowOf(y) == y * VGA_WIDTH .. y * VGA_WIDTH + VGA_WIDTH - 1

(* They are on the page.                                                   *)
LEMMA RowOnPage ==
  ASSUME NEW y \in Nat, y < VGA_HEIGHT
  PROVE  RowOf(y) \in SUBSET Positions
<1>. DEFINE z == y * VGA_WIDTH
<1>1. z \in Nat /\ z + VGA_WIDTH <= Page /\ VGA_WIDTH \in Nat /\ Page \in Nat
  BY RowFits, Sizes
<1>. HIDE DEF z
<1>2. z .. z + VGA_WIDTH - 1 \in SUBSET (0 .. Page - 1)
  BY <1>1
<1>. QED BY <1>2 DEF RowOf, Positions, z

(* terminal_clear_row fills the row with spaces.                           *)
LEMMA ClearRowShows ==
  ASSUME NEW t, Aligned(t), NEW y \in Nat, y < VGA_HEIGHT
  PROVE  Stored(t, terminal_clear_row(t, y), RowOf(y), Space)
<1>. DEFINE z == y * VGA_WIDTH
            I == {terminal_get_buffer_index(t, y, x) : x \in Columns}
            J == {Address(t, p) : p \in RowOf(y)}
<1>1. z \in Nat /\ VGA_WIDTH \in Nat /\ t.view_start \in Nat
  BY RowFits, Sizes DEF Aligned, Terminals
<1>2. \A x \in Columns : terminal_get_buffer_index(t, y, x) = Address(t, z + x)
  <2>. TAKE x \in Columns
  <2>1. x \in Nat
    BY <1>1 DEF Columns
  <2>. QED BY <1>1, <2>1, IndexIsAddress
<1>. HIDE DEF z
<1>3. \A x \in Columns : z + x \in z .. z + VGA_WIDTH - 1
  BY <1>1 DEF Columns
<1>4. \A p \in z .. z + VGA_WIDTH - 1 : p - z \in Columns /\ z + (p - z) = p
  BY <1>1 DEF Columns
<1>5. RowOf(y) = z .. z + VGA_WIDTH - 1
  BY DEF RowOf, z
<1>6. I = J
  <2>1. I \subseteq J
    BY <1>2, <1>3, <1>5, Zenon
  <2>2. J \subseteq I
    <3>. SUFFICES ASSUME NEW p \in RowOf(y) PROVE Address(t, p) \in I
      OBVIOUS
    <3>1. p - z \in Columns /\ z + (p - z) = p
      BY <1>4, <1>5
    <3>2. terminal_get_buffer_index(t, y, p - z) = Address(t, p)
      BY <1>2, <3>1, Zenon
    <3>. QED BY <3>1, <3>2, Zenon
  <2>. QED BY <2>1, <2>2
<1>7. RowOf(y) \in SUBSET Positions /\ Space \in Glyphs
  BY RowOnPage, TerminalConstants
<1>8. terminal_clear_row(t, y) = Store(t, J, Space)
  BY <1>6, Zenon DEF terminal_clear_row
<1>9. Stored(t, Store(t, J, Space), RowOf(y), Space)
  BY <1>7, StoreShows, Zenon
<1>. HIDE DEF I, J
<1>. QED BY <1>8, <1>9, Zenon

(* The adapter's register holds every start of the window.                 *)
LEMMA RegisterHolds ==
  ASSUME NEW s \in Nat, s < VGA_TEXT_MEMORY_CELLS
  PROVE  s % 65536 = s
<1>1. s < 65536
  BY Sizes
<1>. QED BY <1>1, Z3

(* terminal_scroll_up shows the page moved up by a row, whatever was in    *)
(* the cells that come into view.                                          *)
LEMMA ScrollShows ==
  ASSUME NEW t, Aligned(t)
  PROVE  LET u == terminal_scroll_up(t)
         IN  /\ Shows(t, u, Scrolled(Viewed(t), t.color))
             /\ u.row = t.row /\ u.column = t.column
<1>. DEFINE v == t.view_start
            s == (v + VGA_WIDTH) % VGA_TEXT_MEMORY_CELLS
            moved == terminal_set_hardware_view_start(
                       [t EXCEPT !.view_start = s], s)
            y == VGA_HEIGHT - 1
<1>1. /\ t \in Terminals /\ v \in Nat /\ v < VGA_TEXT_MEMORY_CELLS
      /\ t.crtc_start = v
  BY DEF Aligned, Terminals
<1>2. s \in Nat /\ s < VGA_TEXT_MEMORY_CELLS
  <2>1. v + VGA_WIDTH \in Nat /\ VGA_TEXT_MEMORY_CELLS \in Nat
        /\ VGA_TEXT_MEMORY_CELLS > 0
    BY <1>1, Sizes
  <2>. QED BY <2>1, Z3
<1>3. s % 65536 = s
  BY <1>2, RegisterHolds
<1>. HIDE DEF s
<1>4. moved = [[t EXCEPT !.view_start = s] EXCEPT !.crtc_start = s]
  <2>. DEFINE r == s % 65536
  <2>1. moved = [[t EXCEPT !.view_start = s] EXCEPT !.crtc_start = r]
    BY DEF terminal_set_hardware_view_start
  <2>. HIDE DEF moved, r
  <2>2. r = s
    BY <1>3 DEF r
  <2>. QED BY <2>1, <2>2
<1>. HIDE DEF moved
<1>5. /\ moved \in Terminals /\ moved.view_start = s /\ moved.crtc_start = s
      /\ moved.row = t.row /\ moved.column = t.column
      /\ moved.color = t.color /\ moved.buffer = t.buffer
  BY <1>1, <1>2, <1>4 DEF Terminals
<1>6. Aligned(moved)
  BY <1>2, <1>5 DEF Aligned
<1>7. y \in Nat /\ y < VGA_HEIGHT /\ y + 1 = VGA_HEIGHT
  BY Sizes
<1>8. terminal_scroll_up(t) = terminal_clear_row(moved, y)
  BY DEF terminal_scroll_up, terminal_wrap_index, moved, s, y, v
<1>. DEFINE u == terminal_scroll_up(t)
<1>9. /\ Shows(moved, u, Filled(Viewed(moved), RowOf(y), Space, moved.color))
      /\ u.row = moved.row /\ u.column = moved.column
  <2>1. Stored(moved, u, RowOf(y), Space)
    BY <1>6, <1>7, <1>8, ClearRowShows, Zenon
  <2>. QED BY <2>1 DEF Stored
<1>. HIDE DEF u, y
<1>10. ASSUME NEW p \in Positions
       PROVE  (IF p \in RowOf(y) THEN vga_entry(Space, t.color)
               ELSE Viewed(moved)[p])
              = IF p + VGA_WIDTH \in Positions THEN Viewed(t)[p + VGA_WIDTH]
                ELSE vga_entry(Space, t.color)
  <2>. DEFINE z == y * VGA_WIDTH
  <2>1. z \in Nat /\ z + VGA_WIDTH = Page /\ VGA_WIDTH \in Nat
    BY <1>7, RowFits, Sizes
  <2>. HIDE DEF z
  <2>2. p \in z .. z + VGA_WIDTH - 1 <=> p + VGA_WIDTH \notin Positions
    BY <2>1 DEF Positions
  <2>3. p \in RowOf(y) <=> p + VGA_WIDTH \notin Positions
    BY <2>2 DEF RowOf, z
  <2>4. ASSUME p + VGA_WIDTH \in Positions
        PROVE  Viewed(moved)[p] = Viewed(t)[p + VGA_WIDTH]
    <3>1. (s + p) % VGA_TEXT_MEMORY_CELLS
            = (v + (p + VGA_WIDTH)) % VGA_TEXT_MEMORY_CELLS
      BY <1>1, <2>4, WindowMoves DEF s
    <3>2. Viewed(moved)[p] = t.buffer[(s + p) % VGA_TEXT_MEMORY_CELLS]
      BY <1>5, ViewedAt
    <3>3. Viewed(t)[p + VGA_WIDTH]
            = t.buffer[(v + (p + VGA_WIDTH)) % VGA_TEXT_MEMORY_CELLS]
      BY <1>1, <2>4, ViewedAt
    <3>. QED BY <3>1, <3>2, <3>3
  <2>. QED BY <2>3, <2>4
<1>11. Filled(Viewed(moved), RowOf(y), Space, t.color)
         = Scrolled(Viewed(t), t.color)
  BY <1>10 DEF Filled, Scrolled
<1>. QED BY <1>5, <1>9, <1>11 DEF Shows, u

(* Assignments to the driver's row and column.                             *)
Assigned(t, u, y, x) ==
  \/ u = [t EXCEPT !.row = y, !.column = x]
  \/ u = [t EXCEPT !.column = x, !.row = y]
  \/ u = [t EXCEPT !.row = y] /\ x = t.column
  \/ u = [t EXCEPT !.column = x] /\ y = t.row

Placed(t, u, y, x) == Shows(t, u, Viewed(t)) /\ u.row = y /\ u.column = x

(* They change nothing of what is shown.                                   *)
LEMMA CursorShows ==
  ASSUME NEW t, Aligned(t), NEW y \in Nat, NEW x \in Nat, NEW u,
         Assigned(t, u, y, x)
  PROVE  Placed(t, u, y, x)
<1>1. /\ u \in Terminals /\ u.row = y /\ u.column = x
      /\ u.view_start = t.view_start /\ u.crtc_start = t.crtc_start
      /\ u.color = t.color /\ u.buffer = t.buffer
  BY DEF Assigned, Aligned, Terminals
<1>2. Aligned(u)
  BY <1>1 DEF Aligned
<1>3. Viewed(u) = Viewed(t)
  BY <1>1 DEF Viewed, Shown, InReach
<1>. QED BY <1>1, <1>2, <1>3 DEF Shows, Placed

(* terminal_newline: the cursor goes to the start of the next row, and the *)
(* page moves up when there is none.                                       *)
LEMMA NewlineMoves ==
  ASSUME NEW t, Aligned(t), t.row < VGA_HEIGHT
  PROVE  MovedTo(t, terminal_newline(t), Viewed(t), (t.row + 1) * VGA_WIDTH)
<1>. DEFINE y == t.row
            u == terminal_newline(t)
<1>1. y \in Nat /\ t \in Terminals
  BY DEF Aligned, Terminals
<1>2. VGA_WIDTH \in Nat /\ VGA_WIDTH >= 1 /\ VGA_HEIGHT \in Nat
      /\ VGA_HEIGHT >= 1 /\ Page \in Nat
  BY Sizes
<1>3. /\ y * VGA_WIDTH \in Nat
      /\ (y + 1) * VGA_WIDTH = y * VGA_WIDTH + VGA_WIDTH
      /\ y + 1 < VGA_HEIGHT => (y + 1) * VGA_WIDTH < Page
      /\ y + 1 >= VGA_HEIGHT => (y + 1) * VGA_WIDTH = Page
  BY <1>1, RowFits
<1>4. CASE y + 1 >= VGA_HEIGHT
  <2>. DEFINE t0 == [t EXCEPT !.column = 0]
              t1 == terminal_scroll_up(t0)
  <2>1. u = [t1 EXCEPT !.row = VGA_HEIGHT - 1]
    BY <1>4 DEF terminal_newline
  <2>2. Shows(t, t0, Viewed(t)) /\ t0.row = y /\ t0.column = 0
    <3>1. Assigned(t, t0, y, 0) /\ 0 \in Nat
      BY DEF Assigned
    <3>. HIDE DEF t0
    <3>2. Placed(t, t0, y, 0)
      BY <1>1, <3>1, CursorShows, Zenon
    <3>. QED BY <3>2 DEF Placed
  <2>. HIDE DEF t0
  <2>3. /\ Shows(t0, t1, Scrolled(Viewed(t0), t0.color))
        /\ t1.row = t0.row /\ t1.column = t0.column
    BY <2>2, ScrollShows DEF Shows
  <2>. HIDE DEF t1, u
  <2>4. VGA_HEIGHT - 1 \in Nat /\ 0 \in Nat /\ t1.column = 0
    BY <1>2, <2>2, <2>3
  <2>5. Shows(t1, u, Viewed(t1)) /\ u.row = VGA_HEIGHT - 1 /\ u.column = 0
    <3>1. Assigned(t1, u, VGA_HEIGHT - 1, 0)
      BY <2>1, <2>4 DEF Assigned
    <3>2. Aligned(t1)
      BY <2>3 DEF Shows
    <3>3. Placed(t1, u, VGA_HEIGHT - 1, 0)
      BY <2>4, <3>1, <3>2, CursorShows, Zenon
    <3>. QED BY <3>3 DEF Placed
  <2>6. /\ Aligned(u) /\ u.color = t.color
        /\ Viewed(u) = Scrolled(Viewed(t), t.color)
    BY <2>2, <2>3, <2>5 DEF Shows
  <2>7. u.row = y /\ y < VGA_HEIGHT
    BY <1>1, <1>2, <1>4, <2>5
  <2>8. Cursor(u) = (y + 1) * VGA_WIDTH - VGA_WIDTH
    BY <1>2, <1>3, <2>5, <2>7 DEF Cursor
  <2>. QED BY <1>2, <1>3, <1>4, <2>5, <2>6, <2>7, <2>8 DEF MovedTo, Good, u
<1>5. CASE ~(y + 1 >= VGA_HEIGHT)
  <2>1. u = [t EXCEPT !.column = 0, !.row = y + 1]
    BY <1>1, <1>5 DEF terminal_newline, Terminals
  <2>. HIDE DEF u
  <2>2. Shows(t, u, Viewed(t)) /\ u.row = y + 1 /\ u.column = 0
    <3>1. Assigned(t, u, y + 1, 0) /\ 0 \in Nat /\ y + 1 \in Nat
      BY <1>1, <2>1 DEF Assigned
    <3>2. Placed(t, u, y + 1, 0)
      BY <3>1, CursorShows, Zenon
    <3>. QED BY <3>2 DEF Placed
  <2>3. Cursor(u) = (y + 1) * VGA_WIDTH
    BY <1>2, <1>3, <2>2 DEF Cursor
  <2>. QED BY <1>1, <1>2, <1>3, <1>5, <2>2, <2>3 DEF MovedTo, Good, Shows, u
<1>. QED BY <1>4, <1>5

(* The cursor is on the page, and so is the rest of its row.               *)
LEMMA CursorOnPage ==
  ASSUME NEW t, Good(t)
  PROVE  /\ t.row \in Nat /\ t.column \in Nat /\ t.view_start \in Nat
         /\ t.row * VGA_WIDTH \in Nat
         /\ Cursor(t) \in Positions /\ Cursor(t) \in Nat
         /\ Cursor(t) = t.row * VGA_WIDTH + t.column
         /\ t.row * VGA_WIDTH + VGA_WIDTH <= Page
         /\ (t.row + 1) * VGA_WIDTH = t.row * VGA_WIDTH + VGA_WIDTH
         /\ VGA_WIDTH \in Nat /\ Page \in Nat /\ t.column < VGA_WIDTH
<1>1. /\ t.row \in Nat /\ t.column \in Nat /\ t.view_start \in Nat
      /\ t.row < VGA_HEIGHT /\ t.column < VGA_WIDTH
  BY DEF Good, Aligned, Terminals
<1>. DEFINE z == t.row * VGA_WIDTH
<1>2. z \in Nat /\ z + VGA_WIDTH <= Page /\ VGA_WIDTH \in Nat /\ Page \in Nat
      /\ (t.row + 1) * VGA_WIDTH = z + VGA_WIDTH
  <2>1. /\ z \in Nat /\ z + VGA_WIDTH <= Page
        /\ (t.row + 1) * VGA_WIDTH = z + VGA_WIDTH
    BY <1>1, RowFits, Zenon
  <2>. QED BY <2>1, Sizes
<1>3. Cursor(t) = z + t.column
  BY DEF Cursor
<1>. HIDE DEF z
<1>4. Cursor(t) \in Positions /\ Cursor(t) \in Nat
  BY <1>1, <1>2, <1>3 DEF Positions
<1>. QED BY <1>1, <1>2, <1>3, <1>4 DEF z

(* A character other than a control: the cell at the cursor shows it, and  *)
(* the cursor goes to the next position.                                   *)
LEMMA GlyphMoves ==
  ASSUME NEW t, Good(t), NEW ch \in Glyphs
  PROVE  MovedTo(t, PutGlyph(t, ch),
                 Filled(Viewed(t), {Cursor(t)}, ch, t.color), Cursor(t) + 1)
<1>. DEFINE z == t.row * VGA_WIDTH
            k == Cursor(t)
            page == Filled(Viewed(t), {k}, ch, t.color)
            t0 == Store(t, {Address(t, k)}, ch)
            t1 == [t0 EXCEPT !.column = t0.column + 1]
            u == PutGlyph(t, ch)
<1>1. /\ t.row \in Nat /\ t.column \in Nat /\ t.view_start \in Nat
      /\ k \in Positions /\ k \in Nat /\ k = z + t.column /\ z \in Nat
      /\ z + VGA_WIDTH <= Page /\ (t.row + 1) * VGA_WIDTH = z + VGA_WIDTH
      /\ VGA_WIDTH \in Nat /\ Page \in Nat /\ t.column < VGA_WIDTH
  BY CursorOnPage
<1>2. Aligned(t) /\ t.row < VGA_HEIGHT
  BY DEF Good
<1>3. terminal_get_buffer_index(t, t.row, t.column) = Address(t, k)
  BY <1>1, <1>2, IndexIsAddress
<1>4. Shows(t, t0, page) /\ t0.row = t.row /\ t0.column = t.column
  <2>1. {k} \in SUBSET Positions
    BY <1>1
  <2>2. {Address(t, p) : p \in {k}} = {Address(t, k)}
    OBVIOUS
  <2>3. Stored(t, t0, {k}, ch)
    BY <1>2, <2>1, <2>2, StoreShows
  <2>. QED BY <2>3 DEF Stored
<1>5. /\ u = IF t1.column >= VGA_WIDTH THEN terminal_newline(t1) ELSE t1
  BY <1>3 DEF PutGlyph
<1>. HIDE DEF z, k, t0
<1>6. Shows(t0, t1, Viewed(t0)) /\ t1.row = t.row /\ t1.column = t.column + 1
  <2>1. Aligned(t0) /\ t0.column + 1 \in Nat /\ t0.row \in Nat
    BY <1>1, <1>4 DEF Shows
  <2>2. Assigned(t0, t1, t0.row, t0.column + 1)
    BY DEF Assigned
  <2>. HIDE DEF t1
  <2>3. Placed(t0, t1, t0.row, t0.column + 1)
    BY <2>1, <2>2, CursorShows, Zenon
  <2>. QED BY <1>4, <2>3 DEF Placed
<1>. HIDE DEF t1, page, u
<1>7. Aligned(t1) /\ t1.color = t.color /\ Viewed(t1) = page
  BY <1>4, <1>6 DEF Shows
<1>8. CASE t.column + 1 >= VGA_WIDTH
  <2>1. t1.row < VGA_HEIGHT /\ (t1.row + 1) * VGA_WIDTH = k + 1
    BY <1>1, <1>2, <1>6, <1>8
  <2>2. MovedTo(t1, terminal_newline(t1), Viewed(t1), (t1.row + 1) * VGA_WIDTH)
    BY <1>7, <2>1, NewlineMoves, Zenon
  <2>3. u = terminal_newline(t1)
    BY <1>5, <1>6, <1>8
  <2>. QED BY <1>7, <2>1, <2>2, <2>3 DEF MovedTo, u, k, page
<1>9. CASE ~(t.column + 1 >= VGA_WIDTH)
  <2>1. u = t1 /\ Good(u)
    BY <1>1, <1>2, <1>5, <1>6, <1>7, <1>9 DEF Good
  <2>2. Cursor(u) = k + 1 /\ k + 1 < Page
    BY <1>1, <1>6, <1>9, <2>1 DEF Cursor, z
  <2>3. MovedTo(t, u, page, k + 1)
    BY <1>1, <1>7, <2>1, <2>2 DEF MovedTo
  <2>. QED BY <2>3 DEF u, k, page
<1>. QED BY <1>8, <1>9

-----------------------------------------------------------------------------
(* The controls.                                                           *)

(* The next tab stop lies on the cursor's row or starts the next one.      *)
LEMMA StopIs ==
  ASSUME NEW t, Good(t)
  PROVE  LET n == TAB_WIDTH - (t.column % TAB_WIDTH)
         IN  /\ n \in Nat /\ n >= 1
             /\ (Cursor(t) \div TAB_WIDTH + 1) * TAB_WIDTH = Cursor(t) + n
             /\ Cursor(t) + n <= Page
<1>. DEFINE T == TAB_WIDTH
            W == VGA_WIDTH
            y == t.row
            x == t.column
            k == W \div T
            q == x \div T
            r == x % T
            b == k * y + q
<1>1. /\ T \in Nat /\ T >= 1 /\ W \in Nat /\ W % T = 0 /\ y \in Nat
      /\ x \in Nat /\ x < W /\ Cursor(t) = y * W + x
      /\ y * W + W <= Page /\ y * W \in Nat /\ Page \in Nat
  BY Sizes, CursorOnPage
<1>. HIDE DEF T, W, y, x
<1>2. k \in Nat /\ W = T * k
  BY <1>1, Z3
<1>3. q \in Nat /\ r \in 0 .. T - 1 /\ x = T * q + r
  BY <1>1, Z3
<1>. HIDE DEF k, q, r
<1>4. b \in Nat /\ T * b = T * (k * y) + T * q
  BY <1>1, <1>2, <1>3, Z3
<1>5. T * (k * y) = y * W
  BY <1>1, <1>2, Z3
<1>6. T * q \in Nat
  BY <1>1, <1>3, Z3
<1>. HIDE DEF b
<1>7. Cursor(t) = T * b + r
  BY <1>1, <1>3, <1>4, <1>5, <1>6
<1>8. Cursor(t) \div T = b
  <2>1. (T * b + r) \div T = b
    BY <1>1, <1>3, <1>4, DivisionIs, Zenon
  <2>. QED BY <1>7, <2>1, Zenon
<1>9. (b + 1) * T = T * b + T /\ T * b \in Nat
  BY <1>1, <1>4, Z3
<1>10. (b + 1) * T = Cursor(t) + (T - r)
  BY <1>1, <1>3, <1>7, <1>9
<1>11. q + 1 <= k
  <2>1. SUFFICES ASSUME q >= k PROVE FALSE
    BY <1>2, <1>3
  <2>2. T * q >= T * k
    BY <1>1, <1>2, <1>3, <2>1, Z3
  <2>. QED BY <1>1, <1>2, <1>3, <1>6, <2>2
<1>12. T * q + T <= W
  <2>1. T * (q + 1) <= T * k
    BY <1>1, <1>2, <1>3, <1>11, Z3
  <2>2. T * (q + 1) = T * q + T
    BY <1>1, <1>3, Z3
  <2>. QED BY <1>2, <2>1, <2>2
<1>13. T - r \in Nat /\ T - r >= 1
  BY <1>1, <1>3
<1>14. Cursor(t) + (T - r) <= Page
  BY <1>1, <1>3, <1>6, <1>12
<1>. QED BY <1>8, <1>10, <1>13, <1>14 DEF T, r, x

(* Any number of spaces can be written.                                    *)
LEMMA SpacesExist ==
  ASSUME NEW t, NEW n \in Nat
  PROVE  \E g : g = [i \in 0 .. n |-> IF i = 0 THEN t
                                      ELSE PutGlyph(g[i - 1], Space)]
<1>. DEFINE Spaced(m) == \E g : g = [i \in 0 .. m |-> IF i = 0 THEN t
                                     ELSE PutGlyph(g[i - 1], Space)]
            S == {m \in Nat : ~Spaced(m)}
<1>1. Spaced(0)
  <2>. DEFINE g == [i \in 0 .. 0 |-> t]
  <2>1. g = [i \in 0 .. 0 |-> IF i = 0 THEN t ELSE PutGlyph(g[i - 1], Space)]
    OBVIOUS
  <2>. QED BY <2>1
<1>2. ASSUME NEW m \in Nat, Spaced(m) PROVE Spaced(m + 1)
  <2>1. PICK f : f = [i \in 0 .. m |-> IF i = 0 THEN t
                                       ELSE PutGlyph(f[i - 1], Space)]
    BY <1>2
  <2>. DEFINE g == [i \in 0 .. m + 1 |-> IF i = 0 THEN t
                                         ELSE PutGlyph(f[i - 1], Space)]
  <2>2. \A i \in 0 .. m : g[i] = f[i]
    BY <2>1
  <2>3. g = [i \in 0 .. m + 1 |-> IF i = 0 THEN t
                                  ELSE PutGlyph(g[i - 1], Space)]
    <3>1. \A i \in 0 .. m + 1 : i # 0 => g[i - 1] = f[i - 1]
      <4>1. \A i \in 0 .. m + 1 : i # 0 => i - 1 \in 0 .. m
        OBVIOUS
      <4>. HIDE DEF g
      <4>. QED BY <2>2, <4>1, Zenon
    <3>. HIDE DEF g
    <3>2. \A i \in 0 .. m + 1 : (IF i = 0 THEN t ELSE PutGlyph(f[i - 1], Space))
                         = IF i = 0 THEN t ELSE PutGlyph(g[i - 1], Space)
      BY <3>1
    <3>. QED BY <3>2 DEF g
  <2>. QED BY <2>3
<1>. HIDE DEF Spaced
<1>3. S = {}
  <2>. SUFFICES ASSUME S # {} PROVE FALSE
    OBVIOUS
  <2>1. PICK m \in S : \A y \in S : m <= y
    BY Least
  <2>2. m \in Nat /\ ~Spaced(m) /\ m # 0
    BY <1>1
  <2>3. m - 1 \in Nat /\ m - 1 \notin S
    BY <2>1, <2>2
  <2>4. Spaced(m - 1)
    BY <2>3
  <2>5. Spaced((m - 1) + 1) /\ (m - 1) + 1 = m
    BY <1>2, <2>2, <2>3, <2>4
  <2>. QED BY <2>2, <2>5
<1>4. Spaced(n)
  BY <1>3
<1>. QED BY <1>4 DEF Spaced

(* Filling more cells with the same.                                       *)
LEMMA FilledTwice ==
  ASSUME NEW page, NEW P, NEW Q, NEW ch, NEW c
  PROVE  Filled(Filled(page, P, ch, c), Q, ch, c) = Filled(page, P \cup Q, ch, c)
BY DEF Filled

(* The state of the terminal after i spaces of a tab.                      *)
Tabbed(t, u, i) ==
  /\ Good(u) /\ u.color = t.color
  /\ Cursor(u) = Cursor(t) + i
  /\ Viewed(u) = Filled(Viewed(t), Cursor(t) .. Cursor(t) + i - 1, Space, t.color)

(* One more space.                                                         *)
LEMMA TabStep ==
  ASSUME NEW t, Good(t), NEW u, NEW i \in Nat, Tabbed(t, u, i),
         Cursor(t) + i < Page
  PROVE  MovedTo(t, PutGlyph(u, Space),
                 Filled(Viewed(t), Cursor(t) .. Cursor(t) + (i + 1) - 1, Space,
                        t.color),
                 Cursor(t) + (i + 1))
<1>. DEFINE k == Cursor(t)
            v == PutGlyph(u, Space)
<1>1. k \in Nat /\ Good(u) /\ u.color = t.color /\ Cursor(u) = k + i
      /\ Viewed(u) = Filled(Viewed(t), k .. k + i - 1, Space, t.color)
  BY CursorOnPage DEF Tabbed
<1>2. Space \in Glyphs
  BY TerminalConstants
<1>3. MovedTo(u, v, Filled(Viewed(u), {Cursor(u)}, Space, u.color), Cursor(u) + 1)
  BY <1>1, <1>2, GlyphMoves, Zenon
<1>. HIDE DEF k, v
<1>4. (k .. k + i - 1) \cup {k + i} = k .. k + (i + 1) - 1
  BY <1>1
<1>5. Filled(Viewed(u), {k + i}, Space, t.color)
        = Filled(Viewed(t), k .. k + (i + 1) - 1, Space, t.color)
  <2>. DEFINE A == k .. k + i - 1
              B == {k + i}
  <2>. HIDE DEF A, B
  <2>1. Filled(Filled(Viewed(t), A, Space, t.color), B, Space, t.color)
          = Filled(Viewed(t), A \cup B, Space, t.color)
    BY FilledTwice
  <2>2. Viewed(u) = Filled(Viewed(t), A, Space, t.color)
    BY <1>1 DEF A
  <2>3. A \cup B = k .. k + (i + 1) - 1
    BY <1>4 DEF A, B
  <2>. QED BY <2>1, <2>2, <2>3, Zenon DEF B
<1>6. k + i + 1 = k + (i + 1)
  BY <1>1
<1>7. MovedTo(u, v, Filled(Viewed(t), k .. k + (i + 1) - 1, Space, t.color),
              k + (i + 1))
  BY <1>1, <1>3, <1>5, <1>6, Zenon
<1>8. MovedTo(t, v, Filled(Viewed(t), k .. k + (i + 1) - 1, Space, t.color),
              k + (i + 1))
  BY <1>1, <1>7, Zenon DEF MovedTo
<1>. QED BY <1>8 DEF k, v

(* terminal_tab fills the cells up to the next stop with spaces.           *)
LEMMA TabMoves ==
  ASSUME NEW t, Good(t)
  PROVE  LET n == TAB_WIDTH - (t.column % TAB_WIDTH)
         IN  MovedTo(t, terminal_tab(t),
                     Filled(Viewed(t), Cursor(t) .. Cursor(t) + n - 1, Space,
                            t.color), Cursor(t) + n)
<1>. DEFINE n == TAB_WIDTH - (t.column % TAB_WIDTH)
            k == Cursor(t)
            f == CHOOSE g : g = [i \in 0 .. n |-> IF i = 0 THEN t
                                   ELSE PutGlyph(g[i - 1], Space)]
<1>1. n \in Nat /\ n >= 1 /\ k + n <= Page
  BY StopIs
<1>2. k \in Nat /\ Page \in Nat
  BY CursorOnPage
<1>3. terminal_tab(t) = f[n]
  BY DEF terminal_tab
<1>. HIDE DEF n
<1>4. f = [i \in 0 .. n |-> IF i = 0 THEN t ELSE PutGlyph(f[i - 1], Space)]
  <2>1. \E g : g = [i \in 0 .. n |-> IF i = 0 THEN t
                                     ELSE PutGlyph(g[i - 1], Space)]
    BY <1>1, SpacesExist, Zenon
  <2>. QED BY <2>1, Zenon
<1>. HIDE DEF f
<1>5. f[0] = t /\ \A i \in 0 .. n - 1 : f[i + 1] = PutGlyph(f[i], Space)
  <2>1. f[0] = t
    BY <1>1, <1>4
  <2>2. ASSUME NEW i \in 0 .. n - 1 PROVE f[i + 1] = PutGlyph(f[i], Space)
    <3>. DEFINE j == i + 1
    <3>1. j \in 0 .. n /\ j # 0 /\ j - 1 = i
      BY <1>1
    <3>. HIDE DEF j
    <3>2. f[j] = IF j = 0 THEN t ELSE PutGlyph(f[j - 1], Space)
      BY <1>4, <3>1, Zenon
    <3>. QED BY <3>1, <3>2 DEF j
  <2>. QED BY <2>1, <2>2
<1>6. Tabbed(t, f[0], 0)
  <2>1. k .. k + 0 - 1 = {} /\ k + 0 = k
    BY <1>2
  <2>2. Filled(Viewed(t), {}, Space, t.color) = Viewed(t)
    BY DEF Filled, Viewed, Positions, Page
  <2>. QED BY <1>5, <2>1, <2>2 DEF Tabbed
<1>. DEFINE S == {i \in Nat : i < n /\ ~Tabbed(t, f[i], i)}
<1>7. S = {}
  <2>. SUFFICES ASSUME S # {} PROVE FALSE
    OBVIOUS
  <2>1. PICK m \in S : \A y \in S : m <= y
    BY Least
  <2>. HIDE DEF k
  <2>2. m \in Nat /\ m < n /\ m # 0 /\ ~Tabbed(t, f[m], m)
    BY <1>6
  <2>3. m - 1 \in Nat /\ m - 1 \in 0 .. n - 1 /\ m - 1 < n /\ m - 1 \notin S
        /\ (m - 1) + 1 = m
    BY <1>1, <2>1, <2>2
  <2>4. Tabbed(t, f[m - 1], m - 1)
    BY <2>3
  <2>5. f[m] = PutGlyph(f[m - 1], Space)
    BY <1>5, <2>3
  <2>6. k + (m - 1) < Page /\ k + m < Page
    BY <1>1, <1>2, <2>2
  <2>7. MovedTo(t, f[m], Filled(Viewed(t), k .. k + m - 1, Space, t.color), k + m)
    BY <2>3, <2>4, <2>5, <2>6, TabStep, Zenon DEF k
  <2>8. Tabbed(t, f[m], m)
    BY <2>6, <2>7, Zenon DEF MovedTo, Tabbed, k
  <2>. QED BY <2>2, <2>8
<1>8. n - 1 \in Nat /\ n - 1 \in 0 .. n - 1 /\ n - 1 < n /\ (n - 1) + 1 = n
      /\ k + (n - 1) < Page
  <2>. HIDE DEF k
  <2>. QED BY <1>1, <1>2
<1>9. Tabbed(t, f[n - 1], n - 1)
  BY <1>7, <1>8
<1>10. f[n] = PutGlyph(f[n - 1], Space)
  BY <1>5, <1>8
<1>11. MovedTo(t, f[n], Filled(Viewed(t), k .. k + n - 1, Space, t.color), k + n)
  BY <1>8, <1>9, <1>10, TabStep, Zenon
<1>. QED BY <1>3, <1>11, Zenon DEF n

(* A space at a position of the page, where the cursor goes.               *)
LEMMA EraseMoves ==
  ASSUME NEW t, Good(t), NEW y \in Nat, y < VGA_HEIGHT,
         NEW x \in Nat, x < VGA_WIDTH, NEW k \in Positions,
         k = y * VGA_WIDTH + x, NEW u,
         u = [Store(t, {terminal_get_buffer_index(t, y, x)}, Space)
                EXCEPT !.row = y, !.column = x]
  PROVE  MovedTo(t, u, Filled(Viewed(t), {k}, Space, t.color), k)
<1>. DEFINE t0 == Store(t, {Address(t, k)}, Space)
            page == Filled(Viewed(t), {k}, Space, t.color)
<1>1. Aligned(t) /\ t.view_start \in Nat
  BY DEF Good, Aligned, Terminals
<1>2. terminal_get_buffer_index(t, y, x) = Address(t, k)
  BY <1>1, IndexIsAddress
<1>3. Shows(t, t0, page)
  <2>1. {k} \in SUBSET Positions /\ Space \in Glyphs
    BY TerminalConstants
  <2>2. {Address(t, p) : p \in {k}} = {Address(t, k)}
    OBVIOUS
  <2>3. Stored(t, t0, {k}, Space)
    BY <1>1, <2>1, <2>2, StoreShows
  <2>. QED BY <2>3 DEF Stored
<1>. HIDE DEF t0, page
<1>4. u = [t0 EXCEPT !.row = y, !.column = x]
  BY <1>2 DEF t0
<1>5. Placed(t0, u, y, x)
  <2>1. Assigned(t0, u, y, x) /\ Aligned(t0)
    BY <1>3, <1>4 DEF Assigned, Shows
  <2>. QED BY <2>1, CursorShows, Zenon
<1>6. Good(u) /\ u.color = t.color /\ Viewed(u) = page
  BY <1>3, <1>5 DEF Placed, Shows, Good
<1>7. Cursor(u) = k
  BY <1>5 DEF Placed, Cursor
<1>8. k < Page /\ k \in Nat /\ Page \in Nat
  BY Sizes DEF Positions
<1>9. MovedTo(t, u, page, k)
  BY <1>6, <1>7, <1>8 DEF MovedTo
<1>. QED BY <1>9 DEF page

(* terminal_backspace erases the cell before the cursor, the last one of   *)
(* the row above included, and does nothing at the start of the page.      *)
LEMMA BackspaceMoves ==
  ASSUME NEW t, Good(t)
  PROVE  /\ Cursor(t) = 0 => terminal_backspace(t) = t
         /\ Cursor(t) # 0 =>
              /\ Cursor(t) - 1 \in Positions
              /\ MovedTo(t, terminal_backspace(t),
                         Filled(Viewed(t), {Cursor(t) - 1}, Space, t.color),
                         Cursor(t) - 1)
<1>. DEFINE y == t.row
            x == t.column
            u == terminal_backspace(t)
            k == Cursor(t)
            E(a, b) == [Store(t, {terminal_get_buffer_index(t, a, b)}, Space)
                          EXCEPT !.row = a, !.column = b]
<1>1. /\ y \in Nat /\ x \in Nat /\ y * VGA_WIDTH \in Nat /\ k \in Positions
      /\ k = y * VGA_WIDTH + x /\ k \in Nat /\ VGA_WIDTH \in Nat
      /\ x < VGA_WIDTH /\ Page \in Nat
  BY CursorOnPage
<1>2. y < VGA_HEIGHT /\ VGA_HEIGHT \in Nat /\ VGA_WIDTH >= 1
  BY Sizes DEF Good
<1>3. u = CASE x > 0 -> E(y, x - 1)
            [] x = 0 /\ y > 0 -> E(y - 1, VGA_WIDTH - 1)
            [] OTHER -> t
  BY DEF terminal_backspace
<1>4. k # 0 => k - 1 \in Positions
  BY <1>1 DEF Positions
<1>. HIDE DEF k, u
<1>5. CASE x > 0
  <2>1. u = E(y, x - 1)
    BY <1>3, <1>5
  <2>. HIDE DEF x, y, E
  <2>2. x - 1 \in Nat /\ x - 1 < VGA_WIDTH /\ k # 0
        /\ k - 1 = y * VGA_WIDTH + (x - 1)
    BY <1>1, <1>5
  <2>3. MovedTo(t, u, Filled(Viewed(t), {k - 1}, Space, t.color), k - 1)
    BY <1>1, <1>2, <1>4, <2>1, <2>2, EraseMoves, Zenon DEF E
  <2>. QED BY <1>4, <2>2, <2>3 DEF u, k
<1>6. CASE x = 0 /\ y > 0
  <2>. DEFINE z == y - 1
  <2>1. u = E(z, VGA_WIDTH - 1)
    BY <1>1, <1>3, <1>6
  <2>. HIDE DEF x, E
  <2>2. z \in Nat /\ z < VGA_HEIGHT /\ z + 1 = y
    BY <1>1, <1>2, <1>6
  <2>. HIDE DEF y, z
  <2>3. z * VGA_WIDTH \in Nat /\ (z + 1) * VGA_WIDTH = z * VGA_WIDTH + VGA_WIDTH
    BY <2>2, RowFits, Zenon
  <2>4. /\ VGA_WIDTH - 1 \in Nat /\ VGA_WIDTH - 1 < VGA_WIDTH /\ k # 0
        /\ k - 1 = z * VGA_WIDTH + (VGA_WIDTH - 1)
    BY <1>1, <1>2, <1>6, <2>2, <2>3
  <2>5. MovedTo(t, u, Filled(Viewed(t), {k - 1}, Space, t.color), k - 1)
    BY <1>4, <2>1, <2>2, <2>4, EraseMoves, Zenon DEF E
  <2>. QED BY <1>4, <2>4, <2>5 DEF u, k
<1>7. CASE x = 0 /\ ~(y > 0)
  <2>1. u = t
    BY <1>3, <1>7
  <2>2. y = 0
    BY <1>1, <1>7
  <2>3. k = 0
    BY <1>1, <1>7, <2>2
  <2>. QED BY <2>1, <2>3 DEF u, k
<1>8. x > 0 \/ x = 0
  BY <1>1
<1>. QED BY <1>5, <1>6, <1>7, <1>8

(* A return goes back to the start of the cursor's row.                    *)
LEMMA ReturnMoves ==
  ASSUME NEW t, Good(t)
  PROVE  MovedTo(t, terminal_carriage_return(t), Viewed(t),
                 t.row * VGA_WIDTH)
<1>. DEFINE u == terminal_carriage_return(t)
            z == t.row * VGA_WIDTH
<1>1. /\ t.row \in Nat /\ z \in Nat /\ z + VGA_WIDTH <= Page
      /\ VGA_WIDTH \in Nat /\ VGA_WIDTH >= 1 /\ Page \in Nat
  BY CursorOnPage, Sizes
<1>2. Assigned(t, u, t.row, 0) /\ 0 \in Nat /\ Aligned(t)
  BY DEF Assigned, Good, terminal_carriage_return
<1>. HIDE DEF u
<1>3. Placed(t, u, t.row, 0)
  BY <1>1, <1>2, CursorShows, Zenon
<1>4. Good(u) /\ u.color = t.color /\ Viewed(u) = Viewed(t)
  BY <1>1, <1>3 DEF Placed, Shows, Good
<1>5. Cursor(u) = z
  BY <1>1, <1>3 DEF Placed, Cursor
<1>. HIDE DEF z
<1>6. MovedTo(t, u, Viewed(t), z)
  BY <1>1, <1>4, <1>5 DEF MovedTo
<1>. QED BY <1>6 DEF u, z

BlankPage(c) == [p \in Positions |-> vga_entry(Space, c)]

Cleared(t, u) ==
  Good(u) /\ u.color = t.color /\ Viewed(u) = BlankPage(t.color) /\ Cursor(u) = 0

(* terminal_clear blanks the page, wherever the window and the adapter's   *)
(* register were.                                                          *)
LEMMA ClearShows ==
  ASSUME NEW t \in Terminals
  PROVE  Cleared(t, terminal_clear(t))
<1>. DEFINE home == terminal_set_hardware_view_start(
                      [t EXCEPT !.view_start = 0], 0)
            I == {terminal_get_buffer_index(home, y, x) :
                    y \in Rows, x \in Columns}
            J == {Address(home, p) : p \in Positions}
            t0 == Store(home, I, Space)
            u == terminal_clear(t)
<1>0. /\ VGA_WIDTH \in Nat /\ VGA_WIDTH >= 1 /\ VGA_HEIGHT \in Nat
      /\ VGA_HEIGHT >= 1 /\ Page \in Nat /\ VGA_TEXT_MEMORY_CELLS \in Nat
      /\ VGA_TEXT_MEMORY_CELLS > 0
  <2>1. Page > 0
    <3>1. VGA_WIDTH \in Nat /\ VGA_WIDTH >= 1 /\ VGA_HEIGHT \in Nat
          /\ VGA_HEIGHT >= 1
      BY Sizes
    <3>. QED BY <3>1, Z3 DEF Page
  <2>. QED BY Sizes, <2>1
<1>1. home = [[t EXCEPT !.view_start = 0] EXCEPT !.crtc_start = 0]
  <2>. DEFINE r == 0 % 65536
  <2>1. home = [[t EXCEPT !.view_start = 0] EXCEPT !.crtc_start = r]
    BY DEF terminal_set_hardware_view_start
  <2>2. r = 0
    BY Z3
  <2>. HIDE DEF home, r
  <2>. QED BY <2>1, <2>2
<1>2. u = [t0 EXCEPT !.row = 0, !.column = 0]
  BY DEF terminal_clear
<1>. HIDE DEF home, u
<1>3. home \in Terminals /\ home.view_start = 0 /\ home.crtc_start = 0
      /\ home.color = t.color
  BY <1>1 DEF Terminals
<1>4. Aligned(home)
  BY <1>0, <1>3 DEF Aligned
<1>5. I = J
  <2>1. ASSUME NEW y \in Rows, NEW x \in Columns
        PROVE  terminal_get_buffer_index(home, y, x) \in J
    <3>1. y \in Nat /\ y < VGA_HEIGHT /\ x \in Nat /\ x < VGA_WIDTH
      BY <1>0 DEF Rows, Columns
    <3>2. terminal_get_buffer_index(home, y, x) = Address(home, y * VGA_WIDTH + x)
      BY <1>3, <3>1, IndexIsAddress
    <3>3. y * VGA_WIDTH \in Nat /\ y * VGA_WIDTH + VGA_WIDTH <= Page
      BY <3>1, RowFits
    <3>4. y * VGA_WIDTH + x \in Positions
      BY <1>0, <3>1, <3>3 DEF Positions
    <3>. QED BY <3>2, <3>4
  <2>2. ASSUME NEW p \in Positions PROVE Address(home, p) \in I
    <3>. DEFINE y == p \div VGA_WIDTH
                x == p % VGA_WIDTH
    <3>1. p \in Nat /\ p < Page
      BY <1>0 DEF Positions
    <3>2. y \in Nat /\ x \in Nat /\ x < VGA_WIDTH /\ p = VGA_WIDTH * y + x
      BY <1>0, <3>1, Z3
    <3>. HIDE DEF x, y
    <3>3. y < VGA_HEIGHT
      <4>1. SUFFICES ASSUME y >= VGA_HEIGHT PROVE FALSE
        BY <1>0, <3>2
      <4>2. VGA_WIDTH * y >= VGA_WIDTH * VGA_HEIGHT
        BY <1>0, <3>2, <4>1, Z3
      <4>3. VGA_WIDTH * y \in Nat
        BY <1>0, <3>2, Z3
      <4>. QED BY <3>1, <3>2, <4>2, <4>3, <1>0 DEF Page
    <3>4. VGA_WIDTH * y = y * VGA_WIDTH
      BY <1>0, <3>2, Z3
    <3>5. terminal_get_buffer_index(home, y, x) = Address(home, p)
      BY <1>3, <3>2, <3>3, <3>4, IndexIsAddress
    <3>6. y \in Rows /\ x \in Columns
      BY <1>0, <3>2, <3>3 DEF Rows, Columns
    <3>. QED BY <3>5, <3>6
  <2>. QED BY <2>1, <2>2
<1>6. Shows(home, t0, Filled(Viewed(home), Positions, Space, home.color))
  <2>1. Positions \in SUBSET Positions /\ Space \in Glyphs
    BY TerminalConstants
  <2>2. Stored(home, Store(home, J, Space), Positions, Space)
    BY <1>4, <2>1, StoreShows, Zenon
  <2>. HIDE DEF I, J
  <2>. QED BY <1>5, <2>2 DEF Stored
<1>. HIDE DEF t0
<1>7. Filled(Viewed(home), Positions, Space, t.color) = BlankPage(t.color)
  BY DEF Filled, BlankPage
<1>8. Placed(t0, u, 0, 0)
  <2>1. Assigned(t0, u, 0, 0) /\ 0 \in Nat /\ Aligned(t0)
    BY <1>2, <1>6 DEF Assigned, Shows
  <2>. QED BY <2>1, CursorShows, Zenon
<1>9. Cursor(u) = 0
  BY <1>0, <1>8 DEF Cursor, Placed
<1>10. Good(u) /\ u.color = t.color /\ Viewed(u) = BlankPage(t.color)
  BY <1>0, <1>3, <1>6, <1>7, <1>8 DEF Placed, Shows, Good
<1>. QED BY <1>9, <1>10 DEF Cleared, u

-----------------------------------------------------------------------------
(* The same in the words of Screen.                                        *)

(* Plain!Now, and the page and cursor of a terminal.                       *)
LEMMA NowIs == Plain!Now = [page |-> Viewed(terminal), cursor |-> Cursor(terminal)]
BY DEF Plain!Now, Cursor

(* A call that moves the cursor is a move on the plain page.               *)
LEMMA MoveIs ==
  ASSUME NEW u, NEW pg, NEW c, NEW p,
         MovedTo(terminal, u, pg, p), p \in Nat
  PROVE  LET s == Plain!MoveTo([page |-> pg, cursor |-> c], p)
         IN  Viewed(u) = s.page /\ Cursor(u) = s.cursor
<1>1. Page \in Nat /\ Page = VGA_WIDTH * VGA_HEIGHT
  BY Sizes DEF Page
<1>2. CASE p < Page
  BY <1>1, <1>2 DEF MovedTo, Plain!MoveTo
<1>3. CASE ~(p < Page)
  <2>1. Viewed(u) = Scrolled(pg, terminal.color) /\ Cursor(u) = p - VGA_WIDTH
    BY <1>1, <1>3 DEF MovedTo
  <2>2. Plain!MoveTo([page |-> pg, cursor |-> c], p)
          = [page |-> Scrolled(pg, terminal.color), cursor |-> p - VGA_WIDTH]
    BY <1>1, <1>3 DEF Plain!MoveTo, Scrolled, Positions, Plain!Positions, Page
  <2>. QED BY <2>1, <2>2
<1>. QED BY <1>2, <1>3

(* Filling a part of the plain page.                                       *)
LEMMA FillIs ==
  ASSUME NEW pg, NEW c, NEW a, NEW b, NEW ch
  PROVE  Plain!Fill([page |-> pg, cursor |-> c], a, b, ch)
           = [page |-> Filled(pg, a .. b - 1, ch, terminal.color), cursor |-> c]
<1>. DEFINE s == [page |-> pg, cursor |-> c]
            f == [r \in Positions |-> IF r \in a .. b - 1
                                      THEN vga_entry(ch, terminal.color)
                                      ELSE s.page[r]]
<1>1. Plain!Fill(s, a, b, ch) = [s EXCEPT !.page = f]
  BY DEF Plain!Fill, Positions, Plain!Positions, Page
<1>2. f = Filled(pg, a .. b - 1, ch, terminal.color)
  BY DEF Filled
<1>. HIDE DEF f
<1>. QED BY <1>1, <1>2

(* Filling it with spaces.                                                 *)
LEMMA SpacesAre ==
  ASSUME NEW pg, NEW c, NEW a, NEW b
  PROVE  Plain!Fill([page |-> pg, cursor |-> c], a, b, Space)
           = [page |-> Filled(pg, a .. b - 1, Space, terminal.color),
              cursor |-> c]
<1>. DEFINE ch == Space
<1>. HIDE DEF ch
<1>1. Plain!Fill([page |-> pg, cursor |-> c], a, b, ch)
        = [page |-> Filled(pg, a .. b - 1, ch, terminal.color), cursor |-> c]
  BY FillIs
<1>. QED BY <1>1 DEF ch

(* The row and the column of the cursor.                                   *)
LEMMA CursorParts ==
  ASSUME NEW t, Good(t)
  PROVE  Cursor(t) \div VGA_WIDTH = t.row /\ Cursor(t) % VGA_WIDTH = t.column
<1>. DEFINE y == t.row
            x == t.column
<1>1. /\ y \in Nat /\ x \in Nat /\ x < VGA_WIDTH /\ VGA_WIDTH \in Nat
      /\ Cursor(t) = y * VGA_WIDTH + x
  BY CursorOnPage
<1>. HIDE DEF x, y
<1>2. x \in 0 .. VGA_WIDTH - 1 /\ y * VGA_WIDTH = VGA_WIDTH * y
  BY <1>1, Z3
<1>3. /\ (VGA_WIDTH * y + x) \div VGA_WIDTH = y
      /\ (VGA_WIDTH * y + x) % VGA_WIDTH = x
  BY <1>1, <1>2, DivisionIs
<1>. QED BY <1>1, <1>2, <1>3 DEF x, y

(* u is what Screen makes of the present page.                             *)
Follows(u, s) ==
  /\ Good(u) /\ u.color = terminal.color
  /\ Viewed(u) = s.page /\ Cursor(u) = s.cursor

(* A call that moves the cursor follows the plain page.                    *)
LEMMA MoveFollows ==
  ASSUME NEW u, NEW pg, NEW c, NEW p \in Nat, MovedTo(terminal, u, pg, p)
  PROVE  Follows(u, Plain!MoveTo([page |-> pg, cursor |-> c], p))
<1>1. Good(u) /\ u.color = terminal.color
  BY DEF MovedTo
<1>. QED BY <1>1, MoveIs DEF Follows

(* A newline.                                                              *)
LEMMA NewlineFollows ==
  ASSUME Good(terminal)
  PROVE  Follows(terminal_putchar(terminal, "LF"), Plain!Put(Plain!Now, "LF"))
<1>. DEFINE t == terminal
            k == Cursor(t)
            p == (t.row + 1) * VGA_WIDTH
<1>1. p \in Nat /\ Aligned(t) /\ t.row < VGA_HEIGHT
  BY CursorOnPage DEF Good
<1>2. MovedTo(t, terminal_newline(t), Viewed(t), p)
  BY <1>1, NewlineMoves
<1>3. Plain!NextStop(k, VGA_WIDTH) = p
  BY CursorParts DEF Plain!NextStop
<1>4. Plain!Put(Plain!Now, "LF") = Plain!MoveTo([page |-> Viewed(t), cursor |-> k], p)
  BY <1>3, NowIs DEF Plain!Put
<1>5. terminal_putchar(t, "LF") = terminal_newline(t)
  BY DEF terminal_putchar
<1>. HIDE DEF k, p
<1>6. Follows(terminal_newline(t),
              Plain!MoveTo([page |-> Viewed(t), cursor |-> k], p))
  BY <1>1, <1>2, MoveFollows, Zenon
<1>. QED BY <1>4, <1>5, <1>6

(* A return.                                                               *)
LEMMA ReturnFollows ==
  ASSUME Good(terminal)
  PROVE  Follows(terminal_putchar(terminal, "CR"), Plain!Put(Plain!Now, "CR"))
<1>. DEFINE t == terminal
            k == Cursor(t)
            z == t.row * VGA_WIDTH
            u == terminal_putchar(t, "CR")
<1>1. /\ z \in Nat /\ z + VGA_WIDTH <= Page /\ VGA_WIDTH \in Nat
      /\ VGA_WIDTH >= 1 /\ Page \in Nat /\ t.column \in Nat
      /\ k = z + t.column
  BY CursorOnPage, Sizes
<1>2. k - (k % VGA_WIDTH) = z
  <2>1. k % VGA_WIDTH = t.column
    BY CursorParts
  <2>. HIDE DEF z
  <2>. QED BY <1>1, <2>1
<1>3. Plain!Put(Plain!Now, "CR") = [page |-> Viewed(t), cursor |-> z]
  <2>. HIDE DEF z
  <2>. QED BY <1>2, NowIs DEF Plain!Put
<1>4. u = terminal_carriage_return(t)
  BY DEF terminal_putchar
<1>5. MovedTo(t, u, Viewed(t), z)
  BY <1>4, ReturnMoves
<1>. HIDE DEF u, z
<1>6. Good(u) /\ u.color = t.color /\ Viewed(u) = Viewed(t) /\ Cursor(u) = z
  BY <1>1, <1>5 DEF MovedTo
<1>. QED BY <1>3, <1>6 DEF Follows, u

(* A tab.                                                                  *)
LEMMA TabFollows ==
  ASSUME Good(terminal)
  PROVE  Follows(terminal_putchar(terminal, "TAB"), Plain!Put(Plain!Now, "TAB"))
<1>. DEFINE t == terminal
            k == Cursor(t)
            n == TAB_WIDTH - (t.column % TAB_WIDTH)
            pg == Filled(Viewed(t), k .. k + n - 1, Space, t.color)
<1>1. n \in Nat /\ k \in Nat /\ (k \div TAB_WIDTH + 1) * TAB_WIDTH = k + n
  BY StopIs, CursorOnPage
<1>2. MovedTo(t, terminal_tab(t), pg, k + n)
  BY TabMoves
<1>3. Plain!NextStop(k, TAB_WIDTH) = k + n /\ k + n \in Nat
  <2>. HIDE DEF n
  <2>. QED BY <1>1 DEF Plain!NextStop
<1>4. terminal_putchar(t, "TAB") = terminal_tab(t)
  BY DEF terminal_putchar
<1>. HIDE DEF n, k
<1>5. Plain!Fill([page |-> Viewed(t), cursor |-> k], k, k + n, Space)
        = [page |-> pg, cursor |-> k]
  <2>. DEFINE e == k + n
  <2>. HIDE DEF e
  <2>1. Plain!Fill([page |-> Viewed(t), cursor |-> k], k, e, Space)
          = [page |-> Filled(Viewed(t), k .. e - 1, Space, t.color), cursor |-> k]
    BY SpacesAre
  <2>2. e - 1 = k + n - 1
    BY <1>1 DEF e
  <2>. QED BY <2>1, <2>2 DEF e
<1>6. Plain!Put(Plain!Now, "TAB")
        = LET stop == Plain!NextStop(k, TAB_WIDTH)
          IN  Plain!MoveTo(Plain!Fill([page |-> Viewed(t), cursor |-> k], k, stop,
                                      Space), stop)
  BY NowIs DEF Plain!Put, k
<1>7. Plain!Put(Plain!Now, "TAB")
        = Plain!MoveTo([page |-> pg, cursor |-> k], k + n)
  BY <1>3, <1>5, <1>6
<1>. HIDE DEF pg
<1>8. Follows(terminal_tab(t), Plain!MoveTo([page |-> pg, cursor |-> k], k + n))
  BY <1>2, <1>3, MoveFollows, Zenon
<1>. QED BY <1>4, <1>7, <1>8

(* A backspace.                                                            *)
LEMMA BackspaceFollows ==
  ASSUME Good(terminal)
  PROVE  Follows(terminal_putchar(terminal, "BS"), Plain!Put(Plain!Now, "BS"))
<1>. DEFINE t == terminal
            k == Cursor(t)
            u == terminal_putchar(t, "BS")
            now == [page |-> Viewed(t), cursor |-> k]
<1>1. u = terminal_backspace(t)
  BY DEF terminal_putchar
<1>2. Plain!Put(Plain!Now, "BS")
        = IF k = 0 THEN now
          ELSE [Plain!Fill(now, k - 1, k, Space) EXCEPT !.cursor = @ - 1]
  BY NowIs DEF Plain!Put
<1>3. k \in Nat /\ Page \in Nat
  BY CursorOnPage
<1>4. CASE k = 0
  <2>1. u = t
    BY <1>1, <1>4, BackspaceMoves
  <2>. HIDE DEF u
  <2>. QED BY <1>2, <1>4, <2>1 DEF Follows, u
<1>5. CASE k # 0
  <2>. DEFINE pg == Filled(Viewed(t), {k - 1}, Space, t.color)
  <2>1. k - 1 \in Positions /\ MovedTo(t, u, pg, k - 1)
    BY <1>1, <1>5, BackspaceMoves
  <2>. HIDE DEF k, u
  <2>2. k - 1 .. k - 1 = {k - 1} /\ k - 1 < Page
    BY <1>3, <2>1 DEF Positions
  <2>3. Plain!Fill(now, k - 1, k, Space)
          = [page |-> Filled(Viewed(t), k - 1 .. k - 1, Space, t.color),
             cursor |-> k]
    <3>. DEFINE a == k - 1
    <3>. HIDE DEF a
    <3>1. Plain!Fill([page |-> Viewed(t), cursor |-> k], a, k, Space)
            = [page |-> Filled(Viewed(t), a .. k - 1, Space, t.color),
               cursor |-> k]
      BY SpacesAre
    <3>. QED BY <3>1 DEF a
  <2>4. Plain!Fill(now, k - 1, k, Space) = [page |-> pg, cursor |-> k]
    BY <2>2, <2>3
  <2>. HIDE DEF pg
  <2>5. Plain!Put(Plain!Now, "BS") = [page |-> pg, cursor |-> k - 1]
    BY <1>2, <1>5, <2>4
  <2>6. Good(u) /\ u.color = t.color /\ Viewed(u) = pg /\ Cursor(u) = k - 1
    BY <2>1, <2>2 DEF MovedTo
  <2>. QED BY <2>5, <2>6 DEF Follows, u
<1>. QED BY <1>4, <1>5

(* A form feed.                                                            *)
LEMMA FormFeedFollows ==
  ASSUME Good(terminal)
  PROVE  Follows(terminal_putchar(terminal, "FF"), Plain!Put(Plain!Now, "FF"))
<1>. DEFINE u == terminal_putchar(terminal, "FF")
<1>1. u = terminal_clear(terminal)
  BY DEF terminal_putchar, terminal_form_feed
<1>2. Cleared(terminal, u)
  <2>1. terminal \in Terminals
    BY DEF Good, Aligned
  <2>. QED BY <1>1, <2>1, ClearShows, Zenon
<1>. HIDE DEF u
<1>3. Plain!Put(Plain!Now, "FF")
        = [page |-> BlankPage(terminal.color), cursor |-> 0]
  BY DEF Plain!Put, Plain!Blank, BlankPage, Positions, Plain!Positions, Page
<1>. QED BY <1>2, <1>3 DEF Cleared, Follows, u

(* Any other character.                                                    *)
LEMMA GlyphFollows ==
  ASSUME Good(terminal), NEW ch \in Glyphs
  PROVE  Follows(terminal_putchar(terminal, ch), Plain!Put(Plain!Now, ch))
<1>. DEFINE t == terminal
            k == Cursor(t)
            now == [page |-> Viewed(t), cursor |-> k]
            pg == Filled(Viewed(t), {k}, ch, t.color)
<1>1. ch \notin Controls
  BY TerminalConstants
<1>2. ch # "LF" /\ ch # "CR" /\ ch # "TAB" /\ ch # "BS" /\ ch # "FF"
  BY <1>1 DEF Controls
<1>3. terminal_putchar(t, ch) = PutGlyph(t, ch)
  BY <1>2 DEF terminal_putchar
<1>4. Plain!Put(Plain!Now, ch)
        = Plain!MoveTo(Plain!Fill(now, k, k + 1, ch), k + 1)
  BY <1>2, NowIs DEF Plain!Put
<1>5. k \in Nat /\ k + 1 \in Nat
  BY CursorOnPage
<1>6. MovedTo(t, PutGlyph(t, ch), pg, k + 1)
  BY GlyphMoves
<1>. HIDE DEF k
<1>7. k .. (k + 1) - 1 = {k}
  BY <1>5
<1>8. Plain!Fill(now, k, k + 1, ch)
        = [page |-> Filled(Viewed(t), k .. (k + 1) - 1, ch, t.color),
           cursor |-> k]
  BY FillIs
<1>9. Plain!Fill(now, k, k + 1, ch) = [page |-> pg, cursor |-> k]
  BY <1>7, <1>8
<1>. HIDE DEF pg
<1>10. Follows(PutGlyph(t, ch), Plain!MoveTo([page |-> pg, cursor |-> k], k + 1))
  BY <1>5, <1>6, MoveFollows, Zenon
<1>. QED BY <1>3, <1>4, <1>9, <1>10

(* Every character.                                                        *)
LEMMA PutFollows ==
  ASSUME Good(terminal), NEW ch \in Glyphs \cup Controls
  PROVE  Follows(terminal_putchar(terminal, ch), Plain!Put(Plain!Now, ch))
<1>1. CASE ch \in Glyphs
  BY <1>1, GlyphFollows
<1>2. CASE ch \in Controls
  BY <1>2, NewlineFollows, ReturnFollows, TabFollows, BackspaceFollows,
     FormFeedFollows, Zenon DEF Controls
<1>. QED BY <1>1, <1>2

(* A string of one character is that character, here and there.            *)
LEMMA WriteIsPut ==
  ASSUME NEW t, NEW ch
  PROVE  terminal_write(t, <<ch>>) = terminal_putchar(t, ch)
<1>. DEFINE F(f) == [i \in 0 .. Len(<<ch>>) |->
                       IF i = 0 THEN t
                       ELSE terminal_putchar(f[i - 1], <<ch>>[i])]
            one == terminal_putchar(t, ch)
            h == CHOOSE f : f = F(f)
            g == [i \in 0 .. Len(<<ch>>) |-> IF i = 0 THEN t ELSE one]
<1>1. terminal_write(t, <<ch>>) = h[Len(<<ch>>)]
  BY DEF terminal_write
<1>2. g = F(g)
  <2>1. Len(<<ch>>) = 1 /\ <<ch>>[1] = ch
    OBVIOUS
  <2>2. g[0] = t
    BY <2>1
  <2>3. ASSUME NEW i \in 0 .. 1
        PROVE  (IF i = 0 THEN t ELSE one)
                 = IF i = 0 THEN t ELSE terminal_putchar(g[i - 1], <<ch>>[i])
    <3>1. CASE i = 0
      BY <3>1
    <3>2. CASE i = 1
      <4>1. g[i - 1] = t /\ <<ch>>[i] = ch
        BY <2>1, <2>2, <3>2
      <4>. HIDE DEF g
      <4>. QED BY <3>2, <4>1
    <3>. QED BY <3>1, <3>2
  <2>. QED BY <2>1, <2>3
<1>3. h = F(h)
  <2>. HIDE DEF F, g
  <2>. QED BY <1>2
<1>. HIDE DEF h
<1>4. Len(<<ch>>) = 1 /\ <<ch>>[1] = ch
  OBVIOUS
<1>5. h[0] = t
  BY <1>3, <1>4
<1>6. h[1] = terminal_putchar(h[0], ch)
  BY <1>3, <1>4
<1>. QED BY <1>1, <1>4, <1>5, <1>6

(* The same for Screen.                                                    *)
LEMMA WrittenIsPut ==
  ASSUME NEW ch
  PROVE  Plain!Written(Plain!Now, <<ch>>) = Plain!Put(Plain!Now, ch)
<1>. DEFINE t == Plain!Now
            F(f) == [i \in 0 .. Len(<<ch>>) |->
                       IF i = 0 THEN t
                       ELSE Plain!Put(f[i - 1], <<ch>>[i])]
            one == Plain!Put(t, ch)
            h == CHOOSE f : f = F(f)
            g == [i \in 0 .. Len(<<ch>>) |-> IF i = 0 THEN t ELSE one]
<1>1. Plain!Written(t, <<ch>>) = h[Len(<<ch>>)]
  BY DEF Plain!Written
<1>. HIDE DEF t
<1>2. g = F(g)
  <2>1. Len(<<ch>>) = 1 /\ <<ch>>[1] = ch
    OBVIOUS
  <2>2. g[0] = t
    BY <2>1
  <2>3. ASSUME NEW i \in 0 .. 1
        PROVE  (IF i = 0 THEN t ELSE one)
                 = IF i = 0 THEN t ELSE Plain!Put(g[i - 1], <<ch>>[i])
    <3>1. CASE i = 0
      BY <3>1
    <3>2. CASE i = 1
      <4>1. g[i - 1] = t /\ <<ch>>[i] = ch
        BY <2>1, <2>2, <3>2
      <4>. HIDE DEF g
      <4>. QED BY <3>2, <4>1
    <3>. QED BY <3>1, <3>2
  <2>. QED BY <2>1, <2>3
<1>3. h = F(h)
  <2>. HIDE DEF F, g
  <2>. QED BY <1>2
<1>. HIDE DEF h
<1>4. Len(<<ch>>) = 1 /\ <<ch>>[1] = ch
  OBVIOUS
<1>5. h[0] = t
  BY <1>3, <1>4
<1>6. h[1] = Plain!Put(h[0], ch)
  BY <1>3, <1>4
<1>. QED BY <1>1, <1>4, <1>5, <1>6 DEF t

-----------------------------------------------------------------------------
(* The invariant: from initialisation on, the adapter shows the driver's   *)
(* window, and the cursor is in it.  Before, the register may hold what    *)
(* the firmware left.                                                      *)
TerminalInv ==
  /\ terminal \in Terminals
  /\ console_initialized \in BOOLEAN
  /\ console_initialized => Good(terminal)
  /\ ~console_initialized => Cursor(terminal) = 0

(* The statics of C and the firmware's page satisfy it.                    *)
LEMMA InitEstablishesInv == TerminalInit => TerminalInv
<1>. SUFFICES ASSUME TerminalInit PROVE TerminalInv
  OBVIOUS
<1>1. PICK c \in Glyphs, start \in {0, VGA_WIDTH} :
        terminal = [row |-> 0, column |-> 0, view_start |-> 0,
                    color |-> 0, crtc_start |-> start,
                    buffer |-> [i \in MemoryCells |->
                                  vga_entry(c, LIGHT_GREY_ON_BLACK)]]
  BY DEF TerminalInit
<1>2. [i \in MemoryCells |-> vga_entry(c, LIGHT_GREY_ON_BLACK)]
        \in [MemoryCells -> Cells]
  BY TerminalConstants DEF vga_entry, Cells, AnyColor
<1>3. start \in Nat /\ 0 \in AnyColor /\ VGA_WIDTH \in Nat
  BY Sizes DEF AnyColor
<1>4. terminal \in Terminals
  BY <1>1, <1>2, <1>3 DEF Terminals
<1>5. Cursor(terminal) = 0
  BY <1>1, <1>3 DEF Cursor
<1>. QED BY <1>4, <1>5 DEF TerminalInv, TerminalInit


(* A step that leaves the terminal as it was, or only changes its colour.  *)
LEMMA SetColorKeepsInv ==
  ASSUME TerminalInv, NEW c \in Colors, terminal_setcolor(c)
  PROVE  TerminalInv' /\ Plain!SetColor
<1>1. /\ terminal' \in Terminals /\ terminal'.color = c
      /\ terminal'.row = terminal.row /\ terminal'.column = terminal.column
      /\ terminal'.view_start = terminal.view_start
      /\ terminal'.crtc_start = terminal.crtc_start
      /\ terminal'.buffer = terminal.buffer
      /\ UNCHANGED console_initialized
  BY DEF terminal_setcolor, TerminalInv, Terminals, AnyColor
<1>2. Viewed(terminal)' = Viewed(terminal) /\ Cursor(terminal)' = Cursor(terminal)
  BY <1>1 DEF Viewed, Shown, InReach, Cursor
<1>3. TerminalInv'
  BY <1>1, <1>2 DEF TerminalInv, Good, Aligned
<1>4. Plain!SetColor
  BY <1>1, <1>2 DEF Plain!SetColor, Cursor
<1>. QED BY <1>3, <1>4

(* Writing a character follows Screen, once the terminal is ready.         *)
LEMMA WriteKeepsInv ==
  ASSUME TerminalInv, NEW text \in Characters, console_writestring(text)
  PROVE  /\ TerminalInv'
         /\ Plain!Write \/ UNCHANGED <<terminal, console_initialized>>
<1>1. PICK ch \in Glyphs \cup Controls : text = <<ch>>
  BY DEF Characters
<1>2. CASE ~console_initialized
  <2>1. UNCHANGED <<terminal, console_initialized>>
    BY <1>2 DEF console_writestring
  <2>. QED BY <2>1 DEF TerminalInv
<1>3. CASE console_initialized
  <2>. DEFINE s == Plain!Put(Plain!Now, ch)
  <2>1. Good(terminal)
    BY <1>3 DEF TerminalInv
  <2>2. terminal' = terminal_putchar(terminal, ch) /\ UNCHANGED console_initialized
    BY <1>1, <1>3, WriteIsPut DEF console_writestring
  <2>3. Follows(terminal', s)
    BY <2>1, <2>2, PutFollows
  <2>4. Plain!Written(Plain!Now, text) = s
    BY <1>1, WrittenIsPut
  <2>. HIDE DEF s
  <2>5. /\ Good(terminal') /\ terminal'.color = terminal.color
        /\ Viewed(terminal') = s.page /\ Cursor(terminal') = s.cursor
    BY <2>3 DEF Follows
  <2>6. TerminalInv'
    BY <1>3, <2>2, <2>5 DEF TerminalInv, Good, Aligned
  <2>7. Plain!Write
    <3>1. /\ Viewed(terminal)' = s.page
          /\ (terminal.row * VGA_WIDTH + terminal.column)' = s.cursor
          /\ UNCHANGED terminal.color
      BY <2>5 DEF Cursor
    <3>. QED BY <1>3, <2>2, <2>4, <3>1 DEF Plain!Write
  <2>. QED BY <2>6, <2>7
<1>. QED BY <1>2, <1>3

(* Clearing.                                                               *)
LEMMA ClearKeepsInv ==
  ASSUME TerminalInv, console_clear
  PROVE  /\ TerminalInv'
         /\ Plain!Clear \/ UNCHANGED <<terminal, console_initialized>>
<1>1. CASE ~console_initialized
  <2>1. UNCHANGED <<terminal, console_initialized>>
    BY <1>1 DEF console_clear
  <2>. QED BY <2>1 DEF TerminalInv
<1>2. CASE console_initialized
  <2>1. terminal' = terminal_clear(terminal) /\ UNCHANGED console_initialized
        /\ terminal \in Terminals
    BY <1>2 DEF console_clear, TerminalInv
  <2>2. Cleared(terminal, terminal')
    BY <2>1, ClearShows
  <2>3. /\ Good(terminal') /\ terminal'.color = terminal.color
        /\ Viewed(terminal') = BlankPage(terminal.color) /\ Cursor(terminal') = 0
    BY <2>2 DEF Cleared
  <2>4. TerminalInv'
    BY <1>2, <2>1, <2>3 DEF TerminalInv, Good, Aligned
  <2>5. Plain!Clear
    <3>1. /\ Viewed(terminal)' = Plain!Blank(terminal.color)
          /\ (terminal.row * VGA_WIDTH + terminal.column)' = 0
          /\ UNCHANGED terminal.color
      BY <2>3 DEF Cursor, BlankPage, Plain!Blank, Positions, Plain!Positions,
                  Page
    <3>. QED BY <1>2, <2>1, <3>1 DEF Plain!Clear
  <2>. QED BY <2>4, <2>5
<1>. QED BY <1>1, <1>2

(* Initialisation.                                                         *)
LEMMA InitializeKeepsInv ==
  ASSUME TerminalInv, console_initialize
  PROVE  TerminalInv' /\ Plain!Initialize
<1>. DEFINE t == [terminal EXCEPT !.row = 0, !.column = 0, !.view_start = 0,
                                  !.color = LIGHT_GREY_ON_BLACK]
<1>1. t \in Terminals /\ t.color = LIGHT_GREY_ON_BLACK
  <2>1. LIGHT_GREY_ON_BLACK \in AnyColor /\ terminal \in Terminals
    BY TerminalConstants DEF TerminalInv, AnyColor
  <2>. QED BY <2>1 DEF Terminals
<1>2. terminal' = terminal_clear(t) /\ console_initialized'
  BY DEF console_initialize, terminal_initialize
<1>. HIDE DEF t
<1>3. Cleared(t, terminal')
  BY <1>1, <1>2, ClearShows
<1>4. /\ Good(terminal') /\ terminal'.color = LIGHT_GREY_ON_BLACK
      /\ Viewed(terminal') = BlankPage(LIGHT_GREY_ON_BLACK)
      /\ Cursor(terminal') = 0
  BY <1>1, <1>3 DEF Cleared
<1>5. console_initialized' = TRUE
  BY DEF console_initialize
<1>6. TerminalInv'
  BY <1>4, <1>5 DEF TerminalInv, Good, Aligned
<1>7. Plain!Initialize
  <2>1. /\ Viewed(terminal)' = Plain!Blank(LIGHT_GREY_ON_BLACK)
        /\ (terminal.row * VGA_WIDTH + terminal.column)' = 0
        /\ (terminal.color)' = LIGHT_GREY_ON_BLACK
    BY <1>4 DEF Cursor, BlankPage, Plain!Blank, Positions, Plain!Positions,
                Page
  <2>. QED BY <1>5, <2>1 DEF Plain!Initialize
<1>. QED BY <1>6, <1>7

(* The window that moves through a ring of video memory shows a plain page *)
(* of text, as Screen describes it, wherever the display is of memory that *)
(* the driver can write, and keeps the rest of the page for when it is:    *)
(* for every size of screen and memory, every character and control, and   *)
(* every place where a row wraps around.                                   *)
THEOREM TerminalRefinesScreen == TerminalSpec => RefinesScreen
<1>1. TerminalInit => Plain!ScreenInit
  <2>. SUFFICES ASSUME TerminalInit PROVE Plain!ScreenInit
    OBVIOUS
  <2>1. Cursor(terminal) = 0 /\ console_initialized = FALSE
    BY InitEstablishesInv DEF TerminalInv, TerminalInit
  <2>. QED BY <2>1 DEF Plain!ScreenInit, Cursor
<1>2. TerminalInv /\ [TerminalNext]_<<terminal, console_initialized>> =>
        /\ TerminalInv'
        /\ [Plain!ScreenNext]_<<Viewed(terminal),
             terminal.row * VGA_WIDTH + terminal.column, terminal.color,
             console_initialized>>
  <2>. SUFFICES ASSUME TerminalInv,
                       [TerminalNext]_<<terminal, console_initialized>>
                PROVE  /\ TerminalInv'
                       /\ \/ Plain!ScreenNext
                          \/ UNCHANGED <<terminal, console_initialized>>
    BY DEF Viewed
  <2>1. CASE UNCHANGED <<terminal, console_initialized>>
    BY <2>1 DEF TerminalInv
  <2>2. CASE ~console_initialized /\ console_initialize
    BY <2>2, InitializeKeepsInv DEF Plain!ScreenNext
  <2>3. CASE \E text \in Characters : console_writestring(text)
    BY <2>3, WriteKeepsInv DEF Plain!ScreenNext
  <2>4. CASE console_clear
    BY <2>4, ClearKeepsInv DEF Plain!ScreenNext
  <2>5. CASE \E color \in Colors : terminal_setcolor(color)
    BY <2>5, SetColorKeepsInv DEF Plain!ScreenNext
  <2>. QED BY <2>1, <2>2, <2>3, <2>4, <2>5 DEF TerminalNext
<1>. QED BY <1>1, <1>2, InitEstablishesInv, PTL
         DEF TerminalSpec, RefinesScreen, Plain!ScreenSpec

-----------------------------------------------------------------------------
(* The line buffer.                                                        *)

(* The buffer never leaves its bounds, so that each store finds a slot.    *)
BufferInv ==
  /\ shell_buffer \in [Slots -> Keys \cup {NUL}]
  /\ LineIsTerminated

(* The size of the buffer.                                                 *)
LEMMA BufferSize == SHELL_BUFFER_SIZE \in Nat /\ SHELL_BUFFER_SIZE >= 2
BY ShellConstants, SMT

(* A cleared buffer holds an empty line.                                   *)
LEMMA ResetKeepsBuffer == ASSUME shell_reset_buffer PROVE BufferInv'
BY BufferSize DEF shell_reset_buffer, BufferInv, LineIsTerminated, Slots

(* Backspace clears the slot that it takes from the line.                  *)
LEMMA BackspaceKeepsBuffer ==
  ASSUME BufferInv, HandleBackspace PROVE BufferInv'
<1>. DEFINE n == shell_buffer_length - 1
<1>1. /\ n \in Slots /\ shell_buffer_length = n + 1
      /\ shell_buffer_length' = n
      /\ shell_buffer' = [shell_buffer EXCEPT ![n] = NUL]
      /\ shell_buffer \in [Slots -> Keys \cup {NUL}]
  BY BufferSize DEF HandleBackspace, BufferInv, LineIsTerminated, Slots
<1>2. \A i \in Slots : shell_buffer[i] = NUL <=> i >= n + 1
  BY <1>1 DEF BufferInv, LineIsTerminated
<1>. HIDE DEF n
<1>3. shell_buffer' \in [Slots -> Keys \cup {NUL}]
  BY <1>1
<1>4. ASSUME NEW i \in Slots PROVE shell_buffer'[i] = NUL <=> i >= n
  <2>1. CASE i = n
    BY <1>1, <2>1 DEF Slots
  <2>2. CASE i # n
    <3>1. i >= n <=> i >= n + 1
      BY <1>1, <2>2, BufferSize DEF Slots
    <3>. QED BY <1>1, <1>2, <2>2, <3>1
  <2>. QED BY <2>1, <2>2
<1>. QED BY <1>1, <1>3, <1>4 DEF BufferInv, LineIsTerminated

(* A character goes where the terminator was, and there is a slot behind   *)
(* it for the next terminator.                                             *)
LEMMA CharacterKeepsBuffer ==
  ASSUME BufferInv, NEW ascii \in Keys, HandleCharacter(ascii)
  PROVE  BufferInv'
<1>. DEFINE n == shell_buffer_length
<1>1. /\ n \in Slots /\ n + 1 \in Slots
      /\ shell_buffer_length' = n + 1
      /\ shell_buffer' = [shell_buffer EXCEPT ![n] = ascii]
      /\ shell_buffer \in [Slots -> Keys \cup {NUL}]
  BY BufferSize DEF HandleCharacter, BufferFull, BufferInv, LineIsTerminated,
                    Slots
<1>2. \A i \in Slots : shell_buffer[i] = NUL <=> i >= n
  BY DEF BufferInv, LineIsTerminated
<1>. HIDE DEF n
<1>3. shell_buffer' \in [Slots -> Keys \cup {NUL}]
  BY <1>1
<1>4. ASSUME NEW i \in Slots PROVE shell_buffer'[i] = NUL <=> i >= n + 1
  <2>1. CASE i = n
    <3>1. ascii # NUL
      BY KeysAreCharacters
    <3>2. ~(n >= n + 1)
      BY <1>1, BufferSize DEF Slots
    <3>. QED BY <1>1, <2>1, <3>1, <3>2
  <2>2. CASE i # n
    <3>1. i >= n <=> i >= n + 1
      BY <1>1, <2>2, BufferSize DEF Slots
    <3>. QED BY <1>1, <1>2, <2>2, <3>1
  <2>. QED BY <2>1, <2>2
<1>. QED BY <1>1, <1>3, <1>4 DEF BufferInv, LineIsTerminated

(* Every step keeps the buffer's invariant.                                *)
LEMMA StepKeepsBuffer == BufferInv /\ [ShellNext]_vars => BufferInv'
<1>. SUFFICES ASSUME BufferInv, [ShellNext]_vars PROVE BufferInv'
  OBVIOUS
<1>1. CASE UNCHANGED bufferVars
  BY <1>1 DEF bufferVars, BufferInv, LineIsTerminated
<1>2. CASE Boot \/ BootMessage \/ HandleFull \/ UNCHANGED vars
  <2>1. UNCHANGED bufferVars
    BY <1>2 DEF Boot, BootMessage, HandleFull, vars
  <2>. QED BY <1>1, <2>1
<1>3. CASE shell_initialize \/ HandleEnter
  <2>1. shell_reset_buffer
    BY <1>3 DEF shell_initialize, HandleEnter
  <2>. QED BY <2>1, ResetKeepsBuffer
<1>4. CASE HandleBackspace
  BY <1>4, BackspaceKeepsBuffer
<1>5. ASSUME NEW ascii \in Keys, HandleCharacter(ascii) PROVE BufferInv'
  BY <1>5, CharacterKeepsBuffer
<1>. QED BY <1>2, <1>3, <1>4, <1>5 DEF ShellNext

(* The empty buffer satisfies it.                                          *)
LEMMA InitEstablishesBuffer == ShellInit => BufferInv
BY BufferSize DEF ShellInit, BufferInv, LineIsTerminated, Slots

(* However long the user types, deletes and runs lines: the line and its   *)
(* terminator are inside the buffer, and nothing of an older line follows. *)
THEOREM ShellLineIsTerminated == ShellSpec => []LineIsTerminated
<1>1. BufferInv => LineIsTerminated
  BY DEF BufferInv
<1>. QED BY <1>1, InitEstablishesBuffer, StepKeepsBuffer, PTL DEF ShellSpec

-----------------------------------------------------------------------------
(* Writing a text.                                                         *)

(* The terminal after each number of characters.                           *)
Writing(t, data, n, f) ==
  f = [i \in 0 .. n |-> IF i = 0 THEN t ELSE terminal_putchar(f[i - 1], data[i])]

(* The recursion in terminal_write has a solution.                         *)
LEMMA WritingExists ==
  ASSUME NEW t, NEW data, NEW n \in Nat PROVE \E f : Writing(t, data, n, f)
<1>. DEFINE Has(m) == \E f : Writing(t, data, m, f)
            S == {m \in Nat : ~Has(m)}
<1>1. Has(0)
  <2>. DEFINE f == [i \in 0 .. 0 |-> t]
  <2>1. f = [i \in 0 .. 0 |-> IF i = 0 THEN t
                              ELSE terminal_putchar(f[i - 1], data[i])]
    OBVIOUS
  <2>. HIDE DEF f
  <2>. QED BY <2>1 DEF Writing
<1>2. ASSUME NEW m \in Nat, Has(m) PROVE Has(m + 1)
  <2>1. PICK f : Writing(t, data, m, f)
    BY <1>2
  <2>. DEFINE g == [i \in 0 .. m + 1 |-> IF i = 0 THEN t
                                 ELSE terminal_putchar(f[i - 1], data[i])]
  <2>2. \A i \in 0 .. m : g[i] = f[i]
    BY <2>1 DEF Writing
  <2>3. g = [i \in 0 .. m + 1 |-> IF i = 0 THEN t
                                  ELSE terminal_putchar(g[i - 1], data[i])]
    <3>1. \A i \in 0 .. m + 1 : i # 0 => g[i - 1] = f[i - 1]
      <4>1. \A i \in 0 .. m + 1 : i # 0 => i - 1 \in 0 .. m
        OBVIOUS
      <4>. HIDE DEF g
      <4>. QED BY <2>2, <4>1, Zenon
    <3>. HIDE DEF g
    <3>2. \A i \in 0 .. m + 1 :
            (IF i = 0 THEN t ELSE terminal_putchar(f[i - 1], data[i]))
              = IF i = 0 THEN t ELSE terminal_putchar(g[i - 1], data[i])
      BY <3>1
    <3>. QED BY <3>2 DEF g
  <2>. HIDE DEF g
  <2>. QED BY <2>3 DEF Writing
<1>. HIDE DEF Has
<1>3. S = {}
  <2>. SUFFICES ASSUME S # {} PROVE FALSE
    OBVIOUS
  <2>1. PICK m \in S : \A y \in S : m <= y
    BY Least
  <2>2. m \in Nat /\ ~Has(m) /\ m # 0
    BY <1>1
  <2>3. m - 1 \in Nat /\ m - 1 \notin S /\ (m - 1) + 1 = m
    BY <2>1, <2>2
  <2>4. Has(m - 1)
    BY <2>3
  <2>. QED BY <1>2, <2>2, <2>3, <2>4
<1>4. Has(n)
  BY <1>3
<1>. QED BY <1>4 DEF Has

(* The states that f names lead from t to u by the characters of the text. *)
Leads(t, data, f, u) ==
  /\ f[0] = t /\ f[Len(data)] = u
  /\ \A i \in 0 .. Len(data) - 1 : f[i + 1] = terminal_putchar(f[i], data[i + 1])

(* terminal_write goes through them.                                       *)
LEMMA WriteLeads ==
  ASSUME NEW t, NEW data, Len(data) \in Nat
  PROVE  \E f : Leads(t, data, f, terminal_write(t, data))
<1>. DEFINE n == Len(data)
            f == CHOOSE g : Writing(t, data, n, g)
<1>1. terminal_write(t, data) = f[n]
  BY Zenon DEF terminal_write, Writing
<1>2. Writing(t, data, n, f)
  BY WritingExists, Zenon
<1>. HIDE DEF f
<1>3. f[0] = t
  BY <1>2 DEF Writing
<1>4. ASSUME NEW i \in 0 .. n - 1
      PROVE  f[i + 1] = terminal_putchar(f[i], data[i + 1])
  <2>. DEFINE j == i + 1
  <2>1. j \in 0 .. n /\ j # 0 /\ j - 1 = i
    OBVIOUS
  <2>. HIDE DEF j
  <2>2. f[j] = IF j = 0 THEN t ELSE terminal_putchar(f[j - 1], data[j])
    BY <1>2, <2>1, Zenon DEF Writing
  <2>. QED BY <2>1, <2>2 DEF j
<1>5. Leads(t, data, f, f[n])
  BY <1>3, <1>4, Zenon DEF Leads
<1>. QED BY <1>1, <1>5, Zenon

(* There is only one such way.                                             *)
LEMMA LeadsToOne ==
  ASSUME NEW t, NEW data, Len(data) \in Nat,
         NEW f, NEW u, Leads(t, data, f, u), NEW g, NEW v, Leads(t, data, g, v)
  PROVE  u = v
<1>. DEFINE n == Len(data)
            S == {i \in Nat : i <= n /\ f[i] # g[i]}
<1>1. f[0] = t /\ g[0] = t /\ f[n] = u /\ g[n] = v
  BY DEF Leads
<1>2. S = {}
  <2>. SUFFICES ASSUME S # {} PROVE FALSE
    OBVIOUS
  <2>1. PICK m \in S : \A y \in S : m <= y
    BY Least
  <2>2. m \in Nat /\ m <= n /\ f[m] # g[m] /\ m # 0
    BY <1>1
  <2>. DEFINE k == m - 1
  <2>3. k \in Nat /\ k <= n /\ k \notin S /\ k + 1 = m /\ k \in 0 .. n - 1
    BY <2>1, <2>2
  <2>. HIDE DEF k
  <2>4. f[k] = g[k]
    BY <2>3
  <2>5. f[k + 1] = terminal_putchar(f[k], data[k + 1])
        /\ g[k + 1] = terminal_putchar(g[k], data[k + 1])
    BY <2>3, Zenon DEF Leads
  <2>6. f[m] = g[m]
    BY <2>3, <2>4, <2>5, Zenon
  <2>. QED BY <2>2, <2>6
<1>3. f[n] = g[n]
  BY <1>2
<1>. QED BY <1>1, <1>3

(* Writing two texts.                                                      *)
LEMMA WriteBoth ==
  ASSUME NEW S, NEW a \in Seq(S), NEW b \in Seq(S), NEW t
  PROVE  terminal_write(t, a \o b) = terminal_write(terminal_write(t, a), b)
<1>. DEFINE m == Len(a)
            n == Len(b)
            c == a \o b
            u == terminal_write(t, a)
            v == terminal_write(u, b)
<1>1. /\ m \in Nat /\ n \in Nat /\ Len(c) = m + n
      /\ \A i \in 1 .. m + n : c[i] = IF i <= m THEN a[i] ELSE b[i - m]
  OBVIOUS
<1>2. PICK f : Leads(t, a, f, u)
  BY <1>1, WriteLeads
<1>3. PICK g : Leads(u, b, g, v)
  BY <1>1, WriteLeads
<1>. HIDE DEF c, u, v
<1>. DEFINE h == [i \in 0 .. m + n |-> IF i <= m THEN f[i] ELSE g[i - m]]
<1>4. /\ f[0] = t /\ f[m] = u /\ g[0] = u /\ g[n] = v
      /\ \A i \in 0 .. m - 1 : f[i + 1] = terminal_putchar(f[i], a[i + 1])
      /\ \A i \in 0 .. n - 1 : g[i + 1] = terminal_putchar(g[i], b[i + 1])
  BY <1>2, <1>3, Zenon DEF Leads
<1>5. h[0] = t
  BY <1>1, <1>4
<1>6. h[m + n] = v
  <2>1. m + n \in 0 .. m + n /\ (m + n) - m = n /\ (m + n <= m => n = 0 /\ m + n = m)
    BY <1>1
  <2>2. CASE n = 0
    BY <1>1, <1>4, <2>2
  <2>3. CASE n # 0
    <3>1. ~(m + n <= m)
      BY <1>1, <2>3
    <3>. QED BY <1>4, <2>1, <3>1
  <2>. QED BY <2>2, <2>3
<1>7. ASSUME NEW i \in 0 .. (m + n) - 1
      PROVE  h[i + 1] = terminal_putchar(h[i], c[i + 1])
  <2>1. i \in 0 .. m + n /\ i + 1 \in 0 .. m + n /\ i + 1 \in 1 .. m + n
    BY <1>1
  <2>2. CASE i < m
    <3>1. i \in 0 .. m - 1 /\ i <= m /\ i + 1 <= m
      BY <1>1, <2>2
    <3>2. h[i] = f[i] /\ h[i + 1] = f[i + 1]
      BY <2>1, <3>1
    <3>3. c[i + 1] = a[i + 1]
      BY <1>1, <2>1, <3>1
    <3>4. f[i + 1] = terminal_putchar(f[i], a[i + 1])
      BY <1>4, <3>1
    <3>. HIDE DEF h
    <3>. QED BY <3>2, <3>3, <3>4
  <2>3. CASE i >= m
    <3>. DEFINE k == i - m
                j == i + 1
    <3>1. k \in 0 .. n - 1 /\ k + 1 = j - m /\ ~(j <= m) /\ j \in 0 .. m + n
          /\ j \in 1 .. m + n
      BY <1>1, <2>3
    <3>2. h[i] = g[k]
      <4>1. CASE i = m
        <5>1. i <= m /\ k = 0
          BY <1>1, <4>1
        <5>2. h[i] = f[i]
          BY <2>1, <5>1
        <5>. HIDE DEF h, k
        <5>. QED BY <1>4, <4>1, <5>1, <5>2
      <4>2. CASE i > m
        <5>1. ~(i <= m)
          BY <1>1, <4>2
        <5>. QED BY <2>1, <5>1
      <4>. QED BY <1>1, <2>3, <4>1, <4>2
    <3>. HIDE DEF j, k
    <3>3. h[j] = g[k + 1]
      BY <3>1
    <3>4. c[j] = b[k + 1]
      BY <1>1, <3>1
    <3>5. g[k + 1] = terminal_putchar(g[k], b[k + 1])
      BY <1>4, <3>1
    <3>. HIDE DEF h
    <3>6. h[j] = terminal_putchar(h[i], c[j])
      BY <3>2, <3>3, <3>4, <3>5
    <3>. QED BY <3>6 DEF j
  <2>. QED BY <1>1, <2>2, <2>3
<1>. HIDE DEF h
<1>8. Leads(t, c, h, v)
  BY <1>1, <1>5, <1>6, <1>7, Zenon DEF Leads
<1>9. Len(c) \in Nat
  BY <1>1
<1>10. PICK w : Leads(t, c, w, terminal_write(t, c))
  BY <1>9, WriteLeads
<1>11. terminal_write(t, c) = v
  BY <1>8, <1>9, <1>10, LeadsToOne
<1>. QED BY <1>11 DEF c, u, v

(* The character at a position of the page; a page that is blank from a    *)
(* position on; a terminal with nothing behind its cursor.                 *)
CharAt(t, p) == Viewed(t)[p].character
BlankAfter(page, k) ==
  \A p \in Positions : p >= k => page[p].character = Space
Tidy(t) == Good(t) /\ BlankAfter(Viewed(t), Cursor(t))

(* Row and column are in the cursor's position.                            *)
LEMMA CursorAt ==
  ASSUME NEW t, Good(t), NEW y \in Nat, NEW x \in Nat, x < VGA_WIDTH,
         Cursor(t) = y * VGA_WIDTH + x
  PROVE  t.row = y /\ t.column = x
<1>. DEFINE W == VGA_WIDTH
<1>1. W \in Nat /\ x \in 0 .. W - 1
  BY Sizes
<1>2. Cursor(t) \div W = t.row /\ Cursor(t) % W = t.column
  BY CursorParts
<1>. HIDE DEF W
<1>3. (W * y + x) \div W = y /\ (W * y + x) % W = x
  BY <1>1, DivisionIs
<1>4. W * y = y * W
  BY <1>1, Z3
<1>. QED BY <1>2, <1>3, <1>4 DEF W

(* A cursor that moves to where the page is blank.                         *)
LEMMA MoveTidy ==
  ASSUME NEW t, NEW u, NEW page, NEW p \in Nat, p <= Page,
         MovedTo(t, u, page, p), BlankAfter(page, p)
  PROVE  Tidy(u)
<1>1. Good(u) /\ VGA_WIDTH \in Nat /\ Page \in Nat
  BY Sizes DEF MovedTo
<1>2. CASE p < Page
  BY <1>1, <1>2 DEF MovedTo, Tidy
<1>3. CASE p >= Page
  <2>1. Viewed(u) = Scrolled(page, t.color) /\ Cursor(u) = p - VGA_WIDTH
    BY <1>3 DEF MovedTo
  <2>2. p = Page
    BY <1>1, <1>3
  <2>3. ASSUME NEW q \in Positions, q >= p - VGA_WIDTH
        PROVE  Scrolled(page, t.color)[q].character = Space
    <3>1. q + VGA_WIDTH \notin Positions
      BY <1>1, <2>2, <2>3 DEF Positions
    <3>2. Scrolled(page, t.color)[q] = vga_entry(Space, t.color)
      BY <3>1 DEF Scrolled
    <3>. QED BY <3>2 DEF vga_entry
  <2>. QED BY <1>1, <2>1, <2>3 DEF Tidy, BlankAfter
<1>. QED BY <1>1, <1>2, <1>3

(* A character that is not a control.                                      *)
LEMMA PutIsGlyph ==
  ASSUME NEW t, NEW ch \in Glyphs
  PROVE  terminal_putchar(t, ch) = PutGlyph(t, ch)
<1>1. ch \notin Controls
  BY TerminalConstants
<1>2. ch # "LF" /\ ch # "CR" /\ ch # "TAB" /\ ch # "BS" /\ ch # "FF"
  BY <1>1 DEF Controls
<1>. QED BY <1>2 DEF terminal_putchar

(* A character is written behind what there is.                            *)
LEMMA GlyphTidy ==
  ASSUME NEW t, Tidy(t), NEW ch \in Glyphs
  PROVE  Tidy(terminal_putchar(t, ch))
<1>. DEFINE u == terminal_putchar(t, ch)
            k == Cursor(t)
            p == k + 1
            page == Filled(Viewed(t), {k}, ch, t.color)
<1>1. Good(t) /\ BlankAfter(Viewed(t), k)
  BY DEF Tidy
<1>2. k \in Positions /\ k \in Nat /\ Page \in Nat
  BY <1>1, CursorOnPage
<1>3. MovedTo(t, u, page, p)
  BY <1>1, GlyphMoves, PutIsGlyph
<1>4. p \in Nat /\ p <= Page
  BY <1>2 DEF Positions
<1>5. BlankAfter(page, p)
  <2>. SUFFICES ASSUME NEW q \in Positions, q >= p
                PROVE  page[q].character = Space
    BY DEF BlankAfter
  <2>1. q >= k /\ q # k
    BY <1>2 DEF Positions
  <2>2. page[q] = Viewed(t)[q]
    BY <2>1 DEF Filled
  <2>. HIDE DEF page, p, k
  <2>. QED BY <1>1, <2>1, <2>2 DEF BlankAfter
<1>. HIDE DEF page, p, u
<1>6. Tidy(u)
  BY <1>3, <1>4, <1>5, MoveTidy
<1>. QED BY <1>6 DEF u

(* A newline leads to the start of a blank row, which is not the first.    *)
LEMMA NewlineTidy ==
  ASSUME NEW t, Tidy(t)
  PROVE  LET u == terminal_putchar(t, "LF")
         IN  Tidy(u) /\ u.column = 0 /\ u.row >= 1
<1>. DEFINE u == terminal_putchar(t, "LF")
            k == Cursor(t)
            W == VGA_WIDTH
            H == VGA_HEIGHT
            p == (t.row + 1) * W
<1>1. Good(t) /\ BlankAfter(Viewed(t), k)
  BY DEF Tidy
<1>2. /\ k \in Positions /\ k \in Nat /\ Page \in Nat /\ t.row \in Nat
      /\ t.row < H /\ t.column < W /\ t.column \in Nat
      /\ k = t.row * W + t.column /\ t.row * W \in Nat
  BY <1>1, CursorOnPage DEF Good
<1>3. /\ W \in Nat /\ W >= 1 /\ H \in Nat /\ H >= 2
  BY Sizes, TextsArePlain
<1>4. /\ p = t.row * W + W /\ p <= Page
      /\ t.row + 1 < H => p < Page
      /\ t.row + 1 >= H => p = Page
  BY <1>2, RowFits
<1>5. u = terminal_newline(t)
  BY DEF terminal_putchar
<1>6. MovedTo(t, u, Viewed(t), p)
  BY <1>1, <1>2, <1>5, NewlineMoves DEF Good
<1>. HIDE DEF u, k, p
<1>7. p \in Nat /\ k <= p
  BY <1>2, <1>3, <1>4
<1>8. BlankAfter(Viewed(t), p)
  <2>. SUFFICES ASSUME NEW q \in Positions, q >= p
                PROVE  Viewed(t)[q].character = Space
    BY DEF BlankAfter
  <2>1. q >= k
    BY <1>2, <1>7 DEF Positions
  <2>. QED BY <1>1, <2>1 DEF BlankAfter
<1>9. Tidy(u)
  BY <1>4, <1>6, <1>7, <1>8, MoveTidy
<1>10. Good(u)
  BY <1>9 DEF Tidy
<1>11. CASE t.row + 1 < H
  <2>1. Cursor(u) = p
    BY <1>4, <1>6, <1>11 DEF MovedTo
  <2>2. t.row + 1 \in Nat /\ t.row + 1 >= 1 /\ 0 \in Nat /\ 0 < W
    BY <1>2, <1>3
  <2>3. Cursor(u) = (t.row + 1) * W + 0
    <3>1. p \in Nat /\ p = (t.row + 1) * W
      BY <1>7 DEF p
    <3>. QED BY <2>1, <3>1
  <2>. DEFINE y == t.row + 1
  <2>. HIDE DEF y
  <2>4. u.row = y /\ u.column = 0
    BY <1>10, <2>2, <2>3, CursorAt DEF y
  <2>. QED BY <1>9, <2>2, <2>4 DEF y, u
<1>12. CASE t.row + 1 >= H
  <2>1. Cursor(u) = p - W /\ p = Page
    BY <1>2, <1>4, <1>6, <1>7, <1>12 DEF MovedTo
  <2>. DEFINE y == t.row
  <2>2. y \in Nat /\ y >= 1 /\ 0 \in Nat /\ 0 < W
    BY <1>2, <1>3, <1>12
  <2>3. Cursor(u) = y * W + 0
    BY <1>2, <1>3, <1>4, <2>1
  <2>. HIDE DEF y
  <2>4. u.row = y /\ u.column = 0
    BY <1>10, <2>2, <2>3, CursorAt
  <2>. QED BY <1>9, <2>2, <2>4 DEF u
<1>. QED BY <1>2, <1>3, <1>11, <1>12

(* So a text of the kernel leaves the terminal tidy; one that ends its     *)
(* line leaves the cursor at the start of a row, which is not the first.   *)
LEMMA WriteTidy ==
  ASSUME NEW t, Tidy(t), NEW text \in Texts
  PROVE  LET u == terminal_write(t, text)
         IN  Tidy(u) /\ (EndsLine(text) => u.column = 0 /\ u.row >= 1)
<1>. DEFINE n == Len(text)
            u == terminal_write(t, text)
<1>1. n \in Nat /\ \A i \in 1 .. n : text[i] \in Glyphs \cup {"LF"}
  BY DEF Texts
<1>2. PICK f : Leads(t, text, f, u)
  BY <1>1, WriteLeads
<1>3. f[0] = t /\ f[n] = u
      /\ \A i \in 0 .. n - 1 : f[i + 1] = terminal_putchar(f[i], text[i + 1])
  BY <1>2, Zenon DEF Leads
<1>. HIDE DEF u
<1>. DEFINE S == {i \in Nat : i <= n /\ ~Tidy(f[i])}
<1>4. S = {}
  <2>. SUFFICES ASSUME S # {} PROVE FALSE
    OBVIOUS
  <2>1. PICK m \in S : \A y \in S : m <= y
    BY Least
  <2>2. m \in Nat /\ m <= n /\ ~Tidy(f[m]) /\ m # 0
    BY <1>3
  <2>. DEFINE k == m - 1
  <2>3. /\ k \in Nat /\ k <= n /\ k \notin S /\ k + 1 = m /\ k \in 0 .. n - 1
        /\ m \in 1 .. n
    BY <1>1, <2>1, <2>2
  <2>. HIDE DEF k
  <2>4. Tidy(f[k])
    BY <2>3
  <2>5. f[m] = terminal_putchar(f[k], text[m])
    BY <1>3, <2>3
  <2>6. CASE text[m] = "LF"
    <3>1. Tidy(terminal_putchar(f[k], "LF"))
      BY <2>4, NewlineTidy, Zenon
    <3>. QED BY <2>2, <2>5, <2>6, <3>1
  <2>7. CASE text[m] \in Glyphs
    BY <2>2, <2>4, <2>5, <2>7, GlyphTidy, Zenon
  <2>. QED BY <1>1, <2>3, <2>6, <2>7
<1>5. Tidy(u)
  BY <1>1, <1>3, <1>4
<1>6. ASSUME EndsLine(text) PROVE u.column = 0 /\ u.row >= 1
  <2>. DEFINE k == n - 1
  <2>1. n # 0 /\ text[n] = "LF"
    BY <1>6 DEF EndsLine, Texts
  <2>2. k \in Nat /\ k <= n /\ k + 1 = n /\ k \in 0 .. n - 1 /\ k \notin S
    BY <1>1, <1>4, <2>1
  <2>. HIDE DEF k
  <2>3. Tidy(f[k]) /\ u = terminal_putchar(f[k], "LF")
    <3>1. Tidy(f[k])
      BY <2>2
    <3>. QED BY <1>3, <2>1, <2>2, <3>1
  <2>. HIDE DEF S, n
  <2>4. LET v == terminal_putchar(f[k], "LF")
        IN  Tidy(v) /\ v.column = 0 /\ v.row >= 1
    BY <2>3, NewlineTidy, Zenon
  <2>. QED BY <2>3, <2>4, Zenon
<1>. QED BY <1>5, <1>6 DEF u

(* A character that does not reach the end of the row.                     *)
LEMMA GlyphInRow ==
  ASSUME NEW t, Tidy(t), NEW ch \in Glyphs, t.column + 1 < VGA_WIDTH
  PROVE  LET u == terminal_putchar(t, ch)
         IN  /\ Tidy(u) /\ u.row = t.row /\ u.column = t.column + 1
             /\ Cursor(u) = Cursor(t) + 1
             /\ Viewed(u) = Filled(Viewed(t), {Cursor(t)}, ch, t.color)
<1>. DEFINE u == terminal_putchar(t, ch)
            k == Cursor(t)
            y == t.row
            x == t.column + 1
            W == VGA_WIDTH
            page == Filled(Viewed(t), {k}, ch, t.color)
<1>1. Good(t) /\ Tidy(u)
  BY GlyphTidy DEF Tidy
<1>2. /\ y \in Nat /\ t.column \in Nat /\ k = y * W + t.column
      /\ y * W \in Nat /\ y * W + W <= Page /\ Page \in Nat /\ W \in Nat
  BY <1>1, CursorOnPage
<1>3. MovedTo(t, u, page, k + 1)
  BY <1>1, GlyphMoves, PutIsGlyph
<1>. HIDE DEF u, k, y, page
<1>4. k + 1 < Page /\ x \in Nat /\ x < W /\ k + 1 = y * W + x
  BY <1>2
<1>5. Viewed(u) = page /\ Cursor(u) = k + 1
  BY <1>3, <1>4 DEF MovedTo
<1>6. Good(u)
  BY <1>1 DEF Tidy
<1>. HIDE DEF x
<1>7. u.row = y /\ u.column = x
  BY <1>2, <1>4, <1>5, <1>6, CursorAt
<1>. QED BY <1>1, <1>5, <1>7 DEF u, k, y, x, page

(* The first n characters of a text have been written in t's row.          *)
InRow(t, u, text, n) ==
  /\ Tidy(u) /\ u.row = t.row /\ u.column = t.column + n
  /\ Cursor(u) = Cursor(t) + n
  /\ \A p \in Positions : p < Cursor(t) => Viewed(u)[p] = Viewed(t)[p]
  /\ \A i \in 1 .. n : CharAt(u, Cursor(t) + i - 1) = text[i]

(* One more.                                                               *)
LEMMA InRowStep ==
  ASSUME NEW t, Tidy(t), NEW u, NEW text, NEW n \in Nat, InRow(t, u, text, n),
         text[n + 1] \in Glyphs, t.column + (n + 1) < VGA_WIDTH
  PROVE  InRow(t, terminal_putchar(u, text[n + 1]), text, n + 1)
<1>. DEFINE ch == text[n + 1]
            v == terminal_putchar(u, ch)
            k == Cursor(t)
            l == Cursor(u)
            m == n + 1
<1>1. /\ Tidy(u) /\ u.row = t.row /\ u.column = t.column + n
      /\ l = k + n
      /\ \A p \in Positions : p < k => Viewed(u)[p] = Viewed(t)[p]
      /\ \A i \in 1 .. n : CharAt(u, k + i - 1) = text[i]
  BY DEF InRow
<1>2. Good(t) /\ Good(u)
  BY <1>1 DEF Tidy
<1>3. t.column \in Nat /\ k \in Nat /\ VGA_WIDTH \in Nat
      /\ l \in Positions /\ Page \in Nat
  BY <1>2, CursorOnPage
<1>4. u.column + 1 < VGA_WIDTH /\ u.column + 1 = t.column + m /\ l + 1 = k + m
      /\ m \in Nat
  BY <1>1, <1>3
<1>5. ch \in Glyphs
  OBVIOUS
<1>. HIDE DEF ch
<1>6. /\ Tidy(v) /\ v.row = u.row /\ v.column = u.column + 1
      /\ Cursor(v) = l + 1
      /\ Viewed(v) = Filled(Viewed(u), {l}, ch, u.color)
  BY <1>1, <1>4, <1>5, GlyphInRow
<1>. HIDE DEF v, k, l
<1>7. ASSUME NEW p \in Positions, p < k PROVE Viewed(v)[p] = Viewed(t)[p]
  <2>1. p # l
    BY <1>1, <1>3, <1>7 DEF Positions
  <2>2. Viewed(v)[p] = Viewed(u)[p]
    BY <1>6, <2>1 DEF Filled
  <2>. QED BY <1>1, <1>7, <2>2
<1>8. ASSUME NEW i \in 1 .. m PROVE CharAt(v, k + i - 1) = text[i]
  <2>1. CASE i = m
    <3>1. k + i - 1 = l
      BY <1>1, <1>3, <2>1
    <3>2. Viewed(v)[l] = vga_entry(ch, u.color)
      BY <1>3, <1>6 DEF Filled
    <3>3. CharAt(v, l) = ch
      BY <3>2 DEF CharAt, vga_entry
    <3>. QED BY <2>1, <3>1, <3>3 DEF ch, m
  <2>2. CASE i # m
    <3>. DEFINE q == k + i - 1
    <3>1. i \in 1 .. n /\ q \in Positions /\ q # l
      BY <1>1, <1>3, <2>2 DEF Positions
    <3>. HIDE DEF q
    <3>2. Viewed(v)[q] = Viewed(u)[q]
      BY <1>6, <3>1 DEF Filled
    <3>3. CharAt(u, q) = text[i]
      BY <1>1, <3>1 DEF q
    <3>4. CharAt(v, q) = text[i]
      BY <3>2, <3>3 DEF CharAt
    <3>. QED BY <3>4 DEF q
  <2>. QED BY <2>1, <2>2
<1>9. /\ v.row = t.row /\ v.column = t.column + m /\ Cursor(v) = k + m
  BY <1>1, <1>4, <1>6
<1>. HIDE DEF m
<1>10. InRow(t, v, text, m)
  BY <1>6, <1>7, <1>8, <1>9 DEF InRow, k
<1>. QED BY <1>10 DEF m, v, ch

(* A text that fits into the rest of the row.                              *)
LEMMA WriteInRow ==
  ASSUME NEW t, Tidy(t), NEW text \in Seq(Glyphs),
         t.column + Len(text) < VGA_WIDTH
  PROVE  InRow(t, terminal_write(t, text), text, Len(text))
<1>. DEFINE n == Len(text)
            u == terminal_write(t, text)
<1>1. n \in Nat /\ \A i \in 1 .. n : text[i] \in Glyphs
  OBVIOUS
<1>2. PICK f : Leads(t, text, f, u)
  BY <1>1, WriteLeads
<1>3. f[0] = t /\ f[n] = u
      /\ \A i \in 0 .. n - 1 : f[i + 1] = terminal_putchar(f[i], text[i + 1])
  BY <1>2, Zenon DEF Leads
<1>4. t.column \in Nat /\ Cursor(t) \in Nat /\ VGA_WIDTH \in Nat
  BY CursorOnPage DEF Tidy
<1>5. InRow(t, t, text, 0)
  <2>1. t.column + 0 = t.column /\ Cursor(t) + 0 = Cursor(t) /\ 1 .. 0 = {}
    BY <1>4
  <2>. QED BY <2>1 DEF InRow
<1>. HIDE DEF u
<1>. DEFINE S == {i \in Nat : i <= n /\ ~InRow(t, f[i], text, i)}
<1>6. S = {}
  <2>. SUFFICES ASSUME S # {} PROVE FALSE
    OBVIOUS
  <2>1. PICK m \in S : \A y \in S : m <= y
    BY Least
  <2>2. m \in Nat /\ m <= n /\ ~InRow(t, f[m], text, m) /\ m # 0
    BY <1>3, <1>5
  <2>. DEFINE k == m - 1
  <2>3. /\ k \in Nat /\ k <= n /\ k \notin S /\ k + 1 = m /\ k \in 0 .. n - 1
        /\ m \in 1 .. n
    BY <1>1, <2>1, <2>2
  <2>4. t.column + (k + 1) < VGA_WIDTH
    BY <1>1, <1>4, <2>2
  <2>. HIDE DEF k
  <2>5. InRow(t, f[k], text, k)
    BY <2>3
  <2>6. f[m] = terminal_putchar(f[k], text[k + 1]) /\ text[k + 1] \in Glyphs
    BY <1>1, <1>3, <2>3
  <2>. HIDE DEF S, n
  <2>7. InRow(t, terminal_putchar(f[k], text[k + 1]), text, k + 1)
    BY <2>3, <2>4, <2>5, <2>6, InRowStep, Zenon
  <2>. QED BY <2>2, <2>3, <2>6, <2>7
<1>7. n \notin S /\ n <= n
  BY <1>1, <1>6
<1>8. InRow(t, f[n], text, n)
  BY <1>1, <1>7
<1>. QED BY <1>3, <1>8 DEF u

Printables == Glyphs \ {Space}

(* A number's text is printable.                                           *)
LEMMA DecimalIsText ==
  ASSUME NEW v \in Nat, NEW size \in Nat
  PROVE  kformat_uint32_decimal(v, size) \in Seq(Printables)
<1>. DEFINE digits == IF v = 0 THEN <<0>> ELSE Digits[v]
            count == Len(digits)
            text == [i \in 1 .. count |-> Character(digits[count + 1 - i])]
<1>1. kformat_uint32_decimal(v, size) = IF size <= count THEN Refused ELSE text
  BY DEF kformat_uint32_decimal
<1>2. digits \in DecimalDigits
  <2>1. CASE v = 0
    BY <2>1 DEF DecimalDigits
  <2>2. CASE v # 0
    BY <2>2, DigitsAreGood DEF DigitsGood
  <2>. QED BY <2>1, <2>2
<1>. HIDE DEF digits
<1>3. count \in Nat /\ \A i \in 1 .. count : digits[i] \in 0 .. 9
  BY <1>2 DEF DecimalDigits
<1>. HIDE DEF count
<1>4. ASSUME NEW i \in 1 .. count
      PROVE  Character(digits[count + 1 - i]) \in Printables
  <2>1. count + 1 - i \in 1 .. count
    BY <1>3
  <2>2. digits[count + 1 - i] \in 0 .. 9
    BY <1>3, <2>1
  <2>. DEFINE d == digits[count + 1 - i]
  <2>. HIDE DEF d
  <2>3. Character(d) \in Printables
    BY <2>2, TextsArePlain, Zenon DEF d, Printables
  <2>. QED BY <2>3 DEF d
<1>. DEFINE C(i) == Character(digits[count + 1 - i])
<1>5. \A i \in 1 .. count : C(i) \in Printables
  BY <1>4
<1>6. text = [i \in 1 .. count |-> C(i)]
  OBVIOUS
<1>. HIDE DEF C, text
<1>7. text \in Seq(Printables)
  BY <1>3, <1>5, <1>6, IsASeq
<1>8. Refused \in Seq(Printables)
  BY DEF Refused
<1>. QED BY <1>1, <1>7, <1>8

(* Two texts in a row, and what they end with.                             *)
LEMMA TextsJoin ==
  ASSUME NEW a \in Texts, NEW b \in Texts
  PROVE  a \o b \in Texts /\ (EndsLine(b) => EndsLine(a \o b))
<1>1. a \o b \in Texts
  BY DEF Texts
<1>2. ASSUME EndsLine(b) PROVE EndsLine(a \o b)
  <2>. DEFINE m == Len(a)
              n == Len(b)
  <2>1. /\ m \in Nat /\ n \in Nat /\ Len(a \o b) = m + n
        /\ b # <<>> /\ b[n] = "LF"
    BY <1>2 DEF EndsLine, Texts
  <2>2. n # 0
    BY <2>1, EmptySeq DEF Texts
  <2>3. (a \o b)[m + n] = b[n]
    BY <2>1, <2>2 DEF Texts
  <2>4. a \o b # <<>>
    BY <2>1, <2>2
  <2>. QED BY <2>1, <2>3, <2>4 DEF EndsLine
<1>. QED BY <1>1, <1>2

(* Characters that are not controls are a text.                            *)
LEMMA GlyphsAreText ==
  ASSUME NEW S, S \subseteq Glyphs, NEW a \in Seq(S)
  PROVE  a \in Texts /\ a \in Seq(Glyphs)
<1>1. S \subseteq Glyphs \cup {"LF"}
  OBVIOUS
<1>2. Seq(S) \subseteq Seq(Glyphs \cup {"LF"}) /\ Seq(S) \subseteq Seq(Glyphs)
  BY <1>1, SeqMonotonic
<1>. QED BY <1>2 DEF Texts

(* A newline is a text that ends its line.                                 *)
LEMMA NewlineIsText == <<"LF">> \in Texts /\ EndsLine(<<"LF">>)
BY DEF Texts, EndsLine

(* What Enter runs is the line.                                            *)
LEMMA CommandIsLine ==
  ASSUME BufferInv
  PROVE  LET array == [shell_buffer EXCEPT ![shell_buffer_length] = NUL]
         IN  CString(array) = Line /\ CString(array) \in Seq(Keys)
<1>. DEFINE n == shell_buffer_length
            array == [shell_buffer EXCEPT ![n] = NUL]
            ends == {k \in Slots : array[k] = NUL}
            end == CHOOSE k \in ends : \A l \in ends : k <= l
<1>1. /\ n \in Slots /\ n \in Nat /\ SHELL_BUFFER_SIZE \in Nat
      /\ shell_buffer \in [Slots -> Keys \cup {NUL}]
      /\ \A i \in Slots : shell_buffer[i] = NUL <=> i >= n
  BY BufferSize DEF BufferInv, LineIsTerminated, Slots
<1>2. \A i \in Slots : array[i] = shell_buffer[i]
  BY <1>1 DEF Slots
<1>3. n \in ends /\ \A k \in ends : n <= k
  <2>. HIDE DEF array
  <2>1. \A i \in Slots : array[i] = NUL <=> i >= n
    BY <1>1, <1>2
  <2>2. n >= n
    BY <1>1
  <2>. QED BY <1>1, <2>1, <2>2
<1>4. end \in ends /\ \A k \in ends : end <= k
  <2>. HIDE DEF ends
  <2>. QED BY <1>3, Zenon
<1>5. end \in Slots
  BY <1>4
<1>. HIDE DEF end
<1>6. end <= n /\ n <= end
  <2>. HIDE DEF ends
  <2>. QED BY <1>3, <1>4
<1>7. end = n
  BY <1>1, <1>5, <1>6 DEF Slots
<1>. HIDE DEF array
<1>8. \A i \in 1 .. n : i - 1 \in Slots /\ ~(i - 1 >= n)
  BY <1>1 DEF Slots
<1>9. ASSUME NEW i \in 1 .. n
      PROVE  array[i - 1] = shell_buffer[i - 1] /\ array[i - 1] \in Keys
  <2>. DEFINE k == i - 1
  <2>1. k \in Slots /\ ~(k >= n)
    BY <1>8
  <2>. HIDE DEF k
  <2>2. shell_buffer[k] # NUL /\ shell_buffer[k] \in Keys \cup {NUL}
        /\ array[k] = shell_buffer[k]
    BY <1>1, <1>2, <2>1
  <2>. QED BY <2>2 DEF k
<1>. DEFINE A(i) == array[i - 1]
<1>10. \A i \in 1 .. n : A(i) = shell_buffer[i - 1] /\ A(i) \in Keys
  BY <1>9
<1>11. CString(array) = [i \in 1 .. n |-> A(i)]
  BY <1>7 DEF CString, end, ends
<1>. HIDE DEF A
<1>12. [i \in 1 .. n |-> A(i)] \in Seq(Keys)
  BY <1>1, <1>10, IsASeq
<1>13. [i \in 1 .. n |-> A(i)] = Line
  BY <1>10 DEF Line
<1>. QED BY <1>11, <1>12, <1>13 DEF array

(* Every command prints texts that end their line.                         *)
LEMMA OutputIsText ==
  ASSUME NEW command \in Seq(Keys), NEW o \in Output(command)
  PROVE  o.text \in Texts /\ EndsLine(o.text)
<1>0. Keys \subseteq Glyphs /\ Printables \subseteq Glyphs
  BY ShellConstants DEF Printables
<1>1. /\ ReportLabel \in Texts /\ command \in Texts
      /\ UnknownText \in Texts /\ HintText \in Texts /\ EndsLine(HintText)
  <2>1. ReportLabel \in Seq(Glyphs) /\ UnknownText \in Texts /\ HintText \in Texts
    BY TextsArePlain
  <2>2. EndsLine(HintText)
    BY ShellConstants
  <2>. QED BY <1>0, <2>1, <2>2, GlyphsAreText
<1>2. ASSUME NEW digits \in Seq(Printables),
             o.text = (ReportLabel \o digits) \o <<"LF">>
      PROVE  o.text \in Texts /\ EndsLine(o.text)
  <2>1. digits \in Texts
    BY <1>0, GlyphsAreText
  <2>2. ReportLabel \o digits \in Texts
    BY <1>1, <2>1, TextsJoin
  <2>. QED BY <1>2, <2>2, TextsJoin, NewlineIsText
<1>3. CASE command = TicksCommand
  <2>1. PICK v \in Counts32 :
          o = [value |-> v, text |-> (ReportLabel \o shell_print_uint32(v)) \o <<"LF">>]
    BY <1>3, Zenon DEF Output
  <2>2. shell_print_uint32(v) \in Seq(Printables)
    BY TextsArePlain, DecimalIsText DEF shell_print_uint32
  <2>. QED BY <1>2, <2>1, <2>2
<1>4. CASE command # TicksCommand /\ command = MemCommand
  <2>1. PICK v \in Counts64 :
          o = [value |-> v, text |-> (ReportLabel \o klog_write_uint64(v)) \o <<"LF">>]
    BY <1>4, Zenon DEF Output
  <2>2. klog_write_uint64(v) \in Seq(Printables)
    BY TextsArePlain, DecimalIsText DEF klog_write_uint64, kformat_uint64_decimal
  <2>. QED BY <1>2, <2>1, <2>2
<1>5. CASE command # TicksCommand /\ command # MemCommand
  <2>1. PICK text \in (IF command \in DOMAIN CommandOutput
                       THEN CommandOutput[command]
                       ELSE {UnknownText \o command \o HintText}) :
          o = [value |-> NoValue, text |-> text]
    BY <1>5, Zenon DEF Output
  <2>2. CASE command \in DOMAIN CommandOutput
    <3>1. text \in CommandOutput[command]
      BY <2>1, <2>2
    <3>2. text \in Texts /\ EndsLine(text)
      BY <2>2, <3>1, TextsArePlain, ShellConstants
    <3>. QED BY <2>1, <3>2
  <2>3. CASE command \notin DOMAIN CommandOutput
    <3>1. text = (UnknownText \o command) \o HintText
      BY <2>1, <2>3
    <3>2. UnknownText \o command \in Texts
      BY <1>1, TextsJoin
    <3>3. text \in Texts /\ EndsLine(text)
      BY <1>1, <3>1, <3>2, TextsJoin
    <3>. QED BY <2>1, <3>3
  <2>. QED BY <2>2, <2>3
<1>. QED BY <1>3, <1>4, <1>5

-----------------------------------------------------------------------------
(* The line on the screen.                                                 *)

PromptStart == prompt_row * VGA_WIDTH

(* The line is where the cursor is, and in its row if no part is hidden.   *)
PlaceInv ==
  /\ prompt_row \in Nat /\ prompt_row < VGA_HEIGHT
  /\ hidden \in {0, SHELL_BUFFER_SIZE - 1}
  /\ hidden # 0 => prompt_row >= 1
  /\ Cursor(terminal) = LineStart + shell_buffer_length

PromptShown ==
  \A i \in 1 .. Len(SHELL_PROMPT) :
    CharAt(terminal, PromptStart + i - 1) = SHELL_PROMPT[i]

LineShown ==
  \A i \in Slots : i < shell_buffer_length =>
    CharAt(terminal, LineStart + i) = shell_buffer[i]

EditInv == PlaceInv /\ (hidden = 0 => PromptShown /\ LineShown)

ScreenInv ==
  /\ terminal \in Terminals
  /\ console_initialized => Tidy(terminal)
  /\ shell_started => console_initialized /\ EditInv

(* Sizes that the line depends on.                                         *)
LEMMA LineSizes ==
  /\ SHELL_PROMPT \in Seq(Glyphs) /\ Len(SHELL_PROMPT) \in Nat
  /\ SHELL_BUFFER_SIZE \in Nat /\ SHELL_BUFFER_SIZE >= 2
  /\ Len(SHELL_PROMPT) + (SHELL_BUFFER_SIZE - 1) < VGA_WIDTH
  /\ Len(SHELL_PROMPT) < VGA_WIDTH
  /\ VGA_WIDTH \in Nat /\ VGA_HEIGHT \in Nat /\ VGA_HEIGHT >= 2
  /\ Page \in Nat
<1>1. /\ SHELL_PROMPT \in Seq(Glyphs)
      /\ Len(SHELL_PROMPT) + SHELL_BUFFER_SIZE - 1 < VGA_WIDTH
  BY ShellConstants
<1>2. Len(SHELL_PROMPT) \in Nat
  BY <1>1
<1>3. VGA_WIDTH \in Nat /\ VGA_HEIGHT \in Nat /\ VGA_HEIGHT >= 2 /\ Page \in Nat
  BY Sizes, TextsArePlain
<1>. QED BY <1>1, <1>2, <1>3, BufferSize

(* The line starts on the page, and its buffer ends before the page does.  *)
LEMMA LinePlace ==
  ASSUME PlaceInv
  PROVE  /\ LineStart \in Nat /\ LineStart + (SHELL_BUFFER_SIZE - 1) < Page
         /\ PromptStart \in Nat /\ PromptStart + VGA_WIDTH <= Page
         /\ hidden = 0 => LineStart = PromptStart + Len(SHELL_PROMPT)
         /\ LineStart >= (prompt_row - 1) * VGA_WIDTH
<1>. DEFINE b == PromptStart
            W == VGA_WIDTH
            P == Len(SHELL_PROMPT)
            B == SHELL_BUFFER_SIZE - 1
            y == prompt_row
<1>1. /\ W \in Nat /\ P \in Nat /\ B \in Nat /\ B >= 1 /\ P + B < W
      /\ Page \in Nat
  BY LineSizes
<1>2. /\ y \in Nat /\ y < VGA_HEIGHT /\ hidden \in {0, B}
      /\ hidden # 0 => y >= 1
  BY DEF PlaceInv
<1>3. b \in Nat /\ b + W <= Page
  BY <1>2, RowFits DEF PromptStart
<1>4. y >= 1 => b >= W
  <2>1. y * W = b
    BY DEF PromptStart
  <2>. HIDE DEF b, y, W, P, B
  <2>. QED BY <1>1, <1>2, <2>1, Z3
<1>5. (y - 1) * W = b - W
  <2>1. y * W = b
    BY DEF PromptStart
  <2>. HIDE DEF b, y, W, P, B
  <2>. QED BY <1>1, <1>2, <2>1, Z3
<1>6. LineStart = b + P - hidden
  BY DEF LineStart, PromptStart
<1>. HIDE DEF b, W, P, B, y, LineStart
<1>7. CASE hidden = 0
  <2>1. LineStart = b + P
    BY <1>1, <1>3, <1>6, <1>7
  <2>2. LineStart \in Nat /\ LineStart + B < Page /\ LineStart >= b - W
    BY <1>1, <1>3, <2>1
  <2>. QED BY <1>3, <1>5, <2>1, <2>2 DEF b, W, P, B, y
<1>8. CASE hidden # 0
  <2>1. hidden = B /\ b >= W
    BY <1>2, <1>4, <1>8
  <2>2. LineStart \in Nat /\ LineStart + B < Page /\ LineStart >= b - W
    BY <1>1, <1>3, <1>6, <2>1
  <2>. QED BY <1>3, <1>5, <1>8, <2>2 DEF b, W, P, B, y
<1>. QED BY <1>7, <1>8

(* What a printable character does to the screen.                          *)
Typed(ascii) ==
  /\ Tidy(terminal') /\ Cursor(terminal') = Cursor(terminal) + 1
  /\ Viewed(terminal') = Filled(Viewed(terminal), {Cursor(terminal)}, ascii,
                               terminal.color)

(* The page does not scroll.                                               *)
LEMMA CharacterTypes ==
  ASSUME BufferInv, ScreenInv, NEW ascii \in Keys, HandleCharacter(ascii)
  PROVE  /\ Typed(ascii) /\ PlaceInv /\ shell_buffer_length \in Nat
         /\ Cursor(terminal) \in Positions
         /\ console_initialized' = console_initialized
<1>. DEFINE k == Cursor(terminal)
            n == shell_buffer_length
<1>1. /\ shell_started /\ ~BufferFull /\ console_writestring(<<ascii>>)
  BY DEF HandleCharacter
<1>2. console_initialized /\ PlaceInv /\ Tidy(terminal)
  BY <1>1 DEF ScreenInv, EditInv
<1>3. /\ terminal' = terminal_putchar(terminal, ascii)
      /\ console_initialized' = console_initialized
  BY <1>1, <1>2, WriteIsPut DEF console_writestring
<1>4. n \in Nat /\ n < SHELL_BUFFER_SIZE - 1 /\ SHELL_BUFFER_SIZE \in Nat
  BY <1>1, BufferSize DEF BufferFull, BufferInv, LineIsTerminated, Slots
<1>5. LineStart \in Nat /\ LineStart + (SHELL_BUFFER_SIZE - 1) < Page
      /\ Page \in Nat
  BY <1>2, LinePlace, LineSizes
<1>6. k = LineStart + n /\ k \in Positions
  BY <1>2, CursorOnPage DEF PlaceInv, Tidy
<1>. HIDE DEF k, n
<1>7. k + 1 < Page
  BY <1>4, <1>5, <1>6
<1>8. ascii \in Glyphs
  BY ShellConstants
<1>9. MovedTo(terminal, terminal', Filled(Viewed(terminal), {k}, ascii, terminal.color),
              k + 1)
  BY <1>2, <1>3, <1>8, GlyphMoves, PutIsGlyph DEF Tidy, k
<1>10. Tidy(terminal')
  BY <1>2, <1>3, <1>8, GlyphTidy
<1>. QED BY <1>2, <1>3, <1>4, <1>6, <1>7, <1>9, <1>10 DEF MovedTo, Typed, k, n

(* So it appears at the end of the line.                                   *)
LEMMA CharacterKeepsScreen ==
  ASSUME BufferInv, ScreenInv, NEW ascii \in Keys, HandleCharacter(ascii)
  PROVE  ScreenInv'
<1>. DEFINE k == Cursor(terminal)
            n == shell_buffer_length
<1>1. /\ Tidy(terminal') /\ Cursor(terminal') = k + 1
      /\ Viewed(terminal') = Filled(Viewed(terminal), {k}, ascii, terminal.color)
      /\ PlaceInv /\ n \in Nat /\ k \in Positions
      /\ console_initialized' = console_initialized
  BY CharacterTypes DEF Typed
<1>2. /\ shell_started /\ shell_started' = shell_started
      /\ hidden' = hidden /\ prompt_row' = prompt_row
      /\ shell_buffer_length' = n + 1
      /\ shell_buffer' = [shell_buffer EXCEPT ![n] = ascii]
  BY DEF HandleCharacter, historyVars
<1>3. LineStart' = LineStart /\ PromptStart' = PromptStart
  BY <1>2 DEF LineStart, PromptStart
<1>4. /\ LineStart \in Nat /\ PromptStart \in Nat
      /\ hidden = 0 => LineStart = PromptStart + Len(SHELL_PROMPT)
      /\ Len(SHELL_PROMPT) \in Nat /\ k = LineStart + n /\ Page \in Nat
  BY <1>1, LinePlace, LineSizes DEF PlaceInv
<1>5. PlaceInv'
  <2>1. Cursor(terminal') = LineStart + (n + 1)
    BY <1>1, <1>4
  <2>. QED BY <1>1, <1>2, <1>3, <2>1 DEF PlaceInv
<1>6. shell_buffer \in [Slots -> Keys \cup {NUL}]
  BY DEF BufferInv
<1>. HIDE DEF k, n, LineStart, PromptStart
<1>7. \A p \in Positions : p # k => CharAt(terminal', p) = CharAt(terminal, p)
  BY <1>1 DEF Filled, CharAt
<1>8. CharAt(terminal', k) = ascii
  BY <1>1 DEF Filled, CharAt, vga_entry
<1>9. \A p \in Nat : p < k => CharAt(terminal', p) = CharAt(terminal, p)
  <2>1. \A p \in Nat : p < k => p \in Positions /\ p # k
    BY <1>1, <1>4 DEF Positions
  <2>. QED BY <1>7, <2>1
<1>10. ASSUME hidden = 0, PromptShown PROVE PromptShown'
  <2>. SUFFICES ASSUME NEW i \in 1 .. Len(SHELL_PROMPT)
                PROVE  CharAt(terminal', PromptStart + i - 1) = SHELL_PROMPT[i]
    BY <1>3 DEF PromptShown
  <2>. DEFINE p == PromptStart + i - 1
  <2>1. p \in Nat /\ p < k
    BY <1>1, <1>4, <1>10
  <2>2. CharAt(terminal, p) = SHELL_PROMPT[i]
    BY <1>10 DEF PromptShown
  <2>. HIDE DEF p
  <2>3. CharAt(terminal', p) = SHELL_PROMPT[i]
    BY <1>9, <2>1, <2>2
  <2>. QED BY <2>3 DEF p
<1>11. ASSUME LineShown PROVE LineShown'
  <2>. SUFFICES ASSUME NEW i \in Slots, i < n + 1
                PROVE  CharAt(terminal', LineStart + i) = shell_buffer'[i]
    BY <1>2, <1>3 DEF LineShown
  <2>1. i \in Nat
    BY DEF Slots
  <2>2. CASE i = n
    BY <1>2, <1>4, <1>6, <1>8, <2>2
  <2>3. CASE i # n
    <3>. DEFINE p == LineStart + i
    <3>1. p \in Nat /\ p < k /\ i < n
      BY <1>1, <1>4, <2>1, <2>3
    <3>2. CharAt(terminal, p) = shell_buffer[i]
      BY <1>11, <3>1 DEF LineShown, n
    <3>. HIDE DEF p
    <3>3. CharAt(terminal', p) = shell_buffer[i]
      BY <1>9, <3>1, <3>2
    <3>4. shell_buffer'[i] = shell_buffer[i]
      BY <1>2, <1>6, <2>3
    <3>. QED BY <3>3, <3>4 DEF p
  <2>. QED BY <2>2, <2>3
<1>12. EditInv'
  <2>1. EditInv
    BY <1>2 DEF ScreenInv
  <2>. QED BY <1>2, <1>5, <1>10, <1>11, <2>1 DEF EditInv
<1>13. terminal' \in Terminals
  BY <1>1 DEF Tidy, Good, Aligned
<1>. QED BY <1>1, <1>2, <1>12, <1>13 DEF ScreenInv

(* What Backspace does to the screen.                                      *)
Erased ==
  /\ Good(terminal') /\ Cursor(terminal') = Cursor(terminal) - 1
  /\ Viewed(terminal') = Filled(Viewed(terminal), {Cursor(terminal) - 1}, Space,
                               terminal.color)

(* There is a cell to erase.                                               *)
LEMMA BackspaceErases ==
  ASSUME BufferInv, ScreenInv, HandleBackspace
  PROVE  /\ Erased /\ PlaceInv /\ shell_buffer_length \in Nat
         /\ shell_buffer_length > 0
         /\ Cursor(terminal) - 1 \in Positions /\ Cursor(terminal) \in Positions
         /\ Tidy(terminal)
         /\ console_initialized' = console_initialized
<1>. DEFINE k == Cursor(terminal)
            n == shell_buffer_length
<1>1. shell_started /\ n > 0 /\ console_writestring(<<"BS">>)
  BY DEF HandleBackspace
<1>2. console_initialized /\ PlaceInv /\ Tidy(terminal)
  BY <1>1 DEF ScreenInv, EditInv
<1>3. /\ terminal' = terminal_backspace(terminal)
      /\ console_initialized' = console_initialized
  <2>1. terminal' = terminal_putchar(terminal, "BS")
        /\ console_initialized' = console_initialized
    BY <1>1, <1>2, WriteIsPut DEF console_writestring
  <2>2. terminal_putchar(terminal, "BS") = terminal_backspace(terminal)
    BY DEF terminal_putchar
  <2>. QED BY <2>1, <2>2
<1>4. n \in Nat
  BY BufferSize DEF BufferInv, LineIsTerminated, Slots
<1>5. LineStart \in Nat
  BY <1>2, LinePlace
<1>6. k = LineStart + n /\ k \in Positions /\ Good(terminal)
  BY <1>2, CursorOnPage DEF PlaceInv, Tidy
<1>7. k # 0
  BY <1>1, <1>4, <1>5, <1>6
<1>8. /\ k - 1 \in Positions
      /\ MovedTo(terminal, terminal', Filled(Viewed(terminal), {k - 1}, Space,
                                             terminal.color), k - 1)
  BY <1>3, <1>6, <1>7, BackspaceMoves
<1>. DEFINE p == k - 1
<1>9. p < Page
  BY <1>8, LineSizes DEF Positions
<1>. HIDE DEF p
<1>10. Good(terminal') /\ Cursor(terminal') = p
       /\ Viewed(terminal') = Filled(Viewed(terminal), {p}, Space, terminal.color)
  BY <1>8, <1>9 DEF MovedTo, p
<1>. QED BY <1>1, <1>2, <1>3, <1>4, <1>6, <1>8, <1>10 DEF Erased, p

(* So the last character of the line disappears.                           *)
LEMMA BackspaceKeepsScreen ==
  ASSUME BufferInv, ScreenInv, HandleBackspace PROVE ScreenInv'
<1>. DEFINE k == Cursor(terminal)
            n == shell_buffer_length
            c == k - 1
            m == n - 1
<1>1. /\ Good(terminal') /\ Cursor(terminal') = c
      /\ Viewed(terminal') = Filled(Viewed(terminal), {c}, Space, terminal.color)
      /\ PlaceInv /\ n \in Nat /\ n > 0 /\ c \in Positions /\ k \in Positions
      /\ console_initialized' = console_initialized /\ Tidy(terminal)
  BY BackspaceErases DEF Erased
<1>2. /\ shell_started /\ shell_started' = shell_started
      /\ hidden' = hidden /\ prompt_row' = prompt_row
      /\ shell_buffer_length' = m
      /\ shell_buffer' = [shell_buffer EXCEPT ![m] = NUL]
  BY DEF HandleBackspace, historyVars
<1>3. LineStart' = LineStart /\ PromptStart' = PromptStart
  BY <1>2 DEF LineStart, PromptStart
<1>4. /\ LineStart \in Nat /\ PromptStart \in Nat
      /\ hidden = 0 => LineStart = PromptStart + Len(SHELL_PROMPT)
      /\ Len(SHELL_PROMPT) \in Nat /\ k = LineStart + n /\ Page \in Nat
  BY <1>1, LinePlace, LineSizes DEF PlaceInv
<1>5. c = LineStart + m /\ m \in Nat
  BY <1>1, <1>4
<1>6. PlaceInv'
  BY <1>1, <1>2, <1>3, <1>5 DEF PlaceInv
<1>7. shell_buffer \in [Slots -> Keys \cup {NUL}]
  BY DEF BufferInv
<1>8. Tidy(terminal')
  <2>1. BlankAfter(Viewed(terminal), k)
    BY <1>1 DEF Tidy
  <2>2. ASSUME NEW p \in Positions, p >= c
        PROVE  Viewed(terminal')[p].character = Space
    <3>1. CASE p = c
      BY <1>1, <3>1 DEF Filled, vga_entry
    <3>2. CASE p # c
      <4>1. p >= k
        BY <1>1, <2>2, <3>2 DEF Positions
      <4>2. Viewed(terminal')[p] = Viewed(terminal)[p]
        BY <1>1, <3>2 DEF Filled
      <4>. QED BY <2>1, <4>1, <4>2 DEF BlankAfter
    <3>. QED BY <3>1, <3>2
  <2>. QED BY <1>1, <2>2 DEF Tidy, BlankAfter
<1>. HIDE DEF k, n, c, m, LineStart, PromptStart
<1>9. \A p \in Nat : p < c => CharAt(terminal', p) = CharAt(terminal, p)
  <2>1. \A p \in Nat : p < c => p \in Positions /\ p # c
    BY <1>1, <1>4 DEF Positions
  <2>2. \A p \in Positions : p # c => CharAt(terminal', p) = CharAt(terminal, p)
    BY <1>1 DEF Filled, CharAt
  <2>. QED BY <2>1, <2>2
<1>10. ASSUME hidden = 0, PromptShown PROVE PromptShown'
  <2>. SUFFICES ASSUME NEW i \in 1 .. Len(SHELL_PROMPT)
                PROVE  CharAt(terminal', PromptStart + i - 1) = SHELL_PROMPT[i]
    BY <1>3 DEF PromptShown
  <2>. DEFINE p == PromptStart + i - 1
  <2>1. p \in Nat /\ p < c
    BY <1>4, <1>5, <1>10
  <2>2. CharAt(terminal, p) = SHELL_PROMPT[i]
    BY <1>10 DEF PromptShown
  <2>. HIDE DEF p
  <2>3. CharAt(terminal', p) = SHELL_PROMPT[i]
    BY <1>9, <2>1, <2>2
  <2>. QED BY <2>3 DEF p
<1>11. ASSUME LineShown PROVE LineShown'
  <2>. SUFFICES ASSUME NEW i \in Slots, i < m
                PROVE  CharAt(terminal', LineStart + i) = shell_buffer'[i]
    BY <1>2, <1>3 DEF LineShown
  <2>1. i \in Nat /\ i # m /\ i < n
    BY <1>1, <1>5 DEF Slots, m
  <2>. DEFINE p == LineStart + i
  <2>2. p \in Nat /\ p < c
    BY <1>4, <1>5, <2>1
  <2>3. CharAt(terminal, p) = shell_buffer[i]
    BY <1>11, <2>1 DEF LineShown, n
  <2>. HIDE DEF p
  <2>4. CharAt(terminal', p) = shell_buffer[i]
    BY <1>9, <2>2, <2>3
  <2>5. shell_buffer'[i] = shell_buffer[i]
    BY <1>2, <1>7, <2>1
  <2>. QED BY <2>4, <2>5 DEF p
<1>12. EditInv'
  <2>1. EditInv
    BY <1>2 DEF ScreenInv
  <2>. QED BY <1>2, <1>6, <1>10, <1>11, <2>1 DEF EditInv
<1>13. terminal' \in Terminals
  BY <1>1 DEF Good, Aligned
<1>. QED BY <1>1, <1>2, <1>8, <1>12, <1>13 DEF ScreenInv

(* A prompt at the start of a row, with an empty line in it or a full line *)
(* above it.                                                               *)
LEMMA PromptKeepsScreen ==
  ASSUME NEW t, Tidy(t), t.column = 0,
         terminal' = terminal_write(t, SHELL_PROMPT),
         NEW value, Prompted(value),
         shell_buffer_length' \in {0, SHELL_BUFFER_SIZE - 1},
         shell_buffer_length' # 0 => t.row >= 1,
         console_initialized' = TRUE
  PROVE  ScreenInv'
<1>. DEFINE u == terminal_write(t, SHELL_PROMPT)
            P == Len(SHELL_PROMPT)
            y == t.row
            W == VGA_WIDTH
            k == Cursor(t)
            h == shell_buffer_length'
<1>1. /\ SHELL_PROMPT \in Seq(Glyphs) /\ P \in Nat /\ P < W /\ W \in Nat
      /\ SHELL_BUFFER_SIZE \in Nat /\ SHELL_BUFFER_SIZE >= 2
  BY LineSizes
<1>2. /\ y \in Nat /\ y < VGA_HEIGHT /\ k = y * W + t.column /\ y * W \in Nat
  BY CursorOnPage DEF Tidy, Good
<1>3. k = y * W /\ t.column + P < W
  BY <1>1, <1>2
<1>4. InRow(t, u, SHELL_PROMPT, P)
  BY <1>1, <1>3, WriteInRow
<1>5. /\ Tidy(u) /\ u.row = y /\ Cursor(u) = k + P
      /\ \A i \in 1 .. P : CharAt(u, k + i - 1) = SHELL_PROMPT[i]
  BY <1>4 DEF InRow
<1>6. terminal' = u /\ hidden' = h /\ prompt_row' = y
  BY <1>5 DEF Prompted
<1>. HIDE DEF u, P, y, W, k
<1>7. LineStart' = y * W + P - h /\ PromptStart' = y * W
  BY <1>6 DEF LineStart, PromptStart, P, W
<1>8. h \in Nat
  BY <1>1
<1>9. Cursor(terminal') = LineStart' + h
  <2>1. Cursor(terminal') = y * W + P
    BY <1>3, <1>5, <1>6
  <2>. DEFINE z == y * W
  <2>2. z \in Nat
    BY <1>2
  <2>. HIDE DEF z, h
  <2>3. z + P - h + h = z + P
    BY <1>1, <1>8, <2>2
  <2>. QED BY <1>7, <2>1, <2>3 DEF z
<1>10. PlaceInv'
  <2>. HIDE DEF LineStart
  <2>1. prompt_row' \in Nat /\ prompt_row' < VGA_HEIGHT
    BY <1>2, <1>6
  <2>2. hidden' \in {0, SHELL_BUFFER_SIZE - 1} /\ (hidden' # 0 => prompt_row' >= 1)
    BY <1>6 DEF y
  <2>. QED BY <1>9, <2>1, <2>2 DEF PlaceInv
<1>11. PromptShown'
  <2>1. \A i \in 1 .. P : CharAt(terminal', PromptStart' + i - 1) = SHELL_PROMPT[i]
    BY <1>3, <1>5, <1>6, <1>7
  <2>. QED BY <2>1 DEF PromptShown, P
<1>12. ASSUME hidden' = 0 PROVE LineShown'
  <2>1. shell_buffer_length' = 0
    BY <1>6, <1>12
  <2>2. \A i \in Slots : ~(i < 0)
    BY <1>1 DEF Slots
  <2>. QED BY <2>1, <2>2 DEF LineShown
<1>13. terminal' \in Terminals /\ Tidy(terminal')
  BY <1>5, <1>6 DEF Tidy, Good, Aligned
<1>. QED BY <1>10, <1>11, <1>12, <1>13 DEF ScreenInv, EditInv

(* A text that ends its line, and a prompt.                                *)
LEMMA TextAndPromptKeepScreen ==
  ASSUME NEW text \in Texts, EndsLine(text), Tidy(terminal),
         terminal' = terminal_write(terminal, text \o SHELL_PROMPT),
         NEW value, Prompted(value),
         shell_buffer_length' \in {0, SHELL_BUFFER_SIZE - 1},
         console_initialized' = TRUE
  PROVE  ScreenInv'
<1>. DEFINE t == terminal_write(terminal, text)
<1>1. Tidy(t) /\ t.column = 0 /\ t.row >= 1
  BY WriteTidy, Zenon
<1>2. SHELL_PROMPT \in Texts
  BY LineSizes, GlyphsAreText
<1>3. terminal_write(terminal, text \o SHELL_PROMPT) = terminal_write(t, SHELL_PROMPT)
  BY <1>2, WriteBoth DEF Texts
<1>. HIDE DEF t
<1>. QED BY <1>1, <1>3, PromptKeepsScreen

(* The full-buffer warning.                                                *)
LEMMA FullKeepsScreen ==
  ASSUME BufferInv, ScreenInv, HandleFull PROVE ScreenInv'
<1>1. /\ shell_started /\ BufferFull /\ Prompted(NoValue)
      /\ console_writestring(FullWarning \o SHELL_PROMPT)
      /\ shell_buffer_length' = shell_buffer_length
  BY DEF HandleFull, bufferVars
<1>2. console_initialized /\ Tidy(terminal)
  BY <1>1 DEF ScreenInv
<1>3. /\ terminal' = terminal_write(terminal, FullWarning \o SHELL_PROMPT)
      /\ console_initialized' = console_initialized
  BY <1>1, <1>2 DEF console_writestring
<1>4. shell_buffer_length = SHELL_BUFFER_SIZE - 1
  BY <1>1, BufferSize DEF BufferFull, BufferInv, LineIsTerminated, Slots
<1>5. FullWarning \in Texts /\ EndsLine(FullWarning)
  BY TextsArePlain, ShellConstants
<1>6. console_initialized' = TRUE
  BY <1>2, <1>3
<1>. QED BY <1>1, <1>2, <1>3, <1>4, <1>5, <1>6, TextAndPromptKeepScreen

(* The shell's start.                                                      *)
LEMMA StartKeepsScreen ==
  ASSUME ScreenInv, shell_initialize PROVE ScreenInv'
<1>1. /\ console_initialized /\ Prompted(NoValue)
      /\ console_writestring(Greeting \o SHELL_PROMPT)
      /\ shell_buffer_length' = 0
  BY DEF shell_initialize, shell_reset_buffer
<1>2. Tidy(terminal)
  BY <1>1 DEF ScreenInv
<1>3. /\ terminal' = terminal_write(terminal, Greeting \o SHELL_PROMPT)
      /\ console_initialized' = TRUE
  BY <1>1 DEF console_writestring
<1>4. Greeting \in Texts /\ EndsLine(Greeting)
  BY TextsArePlain, ShellConstants
<1>. QED BY <1>1, <1>2, <1>3, <1>4, TextAndPromptKeepScreen

(* A blank page.                                                           *)
LEMMA ClearedIsTidy ==
  ASSUME NEW t, NEW u, Cleared(t, u)
  PROVE  Tidy(u) /\ u.column = 0
<1>1. Good(u) /\ Viewed(u) = BlankPage(t.color) /\ Cursor(u) = 0
  BY DEF Cleared
<1>2. Tidy(u)
  <2>1. \A p \in Positions : Viewed(u)[p].character = Space
    BY <1>1 DEF BlankPage, vga_entry
  <2>. QED BY <1>1, <2>1 DEF Tidy, BlankAfter
<1>3. /\ 0 = 0 * VGA_WIDTH + 0 /\ 0 < VGA_WIDTH
  BY Sizes
<1>. QED BY <1>1, <1>2, <1>3, CursorAt

(* A command leaves the cursor at the start of a row.                      *)
LEMMA CommandIsTidy ==
  ASSUME NEW t, Tidy(t), t.column = 0, NEW command \in Seq(Keys),
         NEW done \in shell_execute_command(t, command)
  PROVE  Tidy(done.terminal) /\ done.terminal.column = 0
<1>1. CASE shell_command_is_empty(command)
  <2>1. done = [terminal |-> t, value |-> NoValue]
    BY <1>1 DEF shell_execute_command
  <2>. QED BY <2>1
<1>2. CASE ~shell_command_is_empty(command) /\ command = ClearCommand
  <2>1. done = [terminal |-> terminal_clear(t), value |-> NoValue]
    BY <1>2 DEF shell_execute_command
  <2>2. t \in Terminals
    BY DEF Tidy, Good, Aligned
  <2>3. Cleared(t, terminal_clear(t))
    BY <2>2, ClearShows
  <2>4. done.terminal = terminal_clear(t)
    BY <2>1
  <2>. QED BY <2>3, <2>4, ClearedIsTidy
<1>3. CASE ~shell_command_is_empty(command) /\ command # ClearCommand
  <2>1. PICK o \in Output(command) :
          done = [terminal |-> terminal_write(t, o.text), value |-> o.value]
    BY <1>3, Zenon DEF shell_execute_command
  <2>2. done.terminal = terminal_write(t, o.text)
    BY <2>1
  <2>3. o.text \in Texts /\ EndsLine(o.text)
    BY OutputIsText
  <2>. QED BY <2>2, <2>3, WriteTidy, Zenon
<1>. QED BY <1>1, <1>2, <1>3

(* Enter.                                                                  *)
LEMMA EnterKeepsScreen ==
  ASSUME BufferInv, ScreenInv, HandleEnter PROVE ScreenInv'
<1>. DEFINE echoed == terminal_putchar(terminal, "LF")
            command == CString([shell_buffer EXCEPT ![shell_buffer_length] = NUL])
<1>1. shell_started /\ console_initialized' = console_initialized
  BY DEF HandleEnter
<1>2. PICK done \in shell_execute_command(echoed, command) :
           /\ shell_reset_buffer
           /\ terminal' = terminal_write(done.terminal, SHELL_PROMPT)
           /\ Prompted(done.value)
  BY Zenon DEF HandleEnter
<1>3. console_initialized /\ Tidy(terminal)
  BY <1>1 DEF ScreenInv
<1>4. Tidy(echoed) /\ echoed.column = 0
  BY <1>3, NewlineTidy, Zenon
<1>5. command \in Seq(Keys)
  BY CommandIsLine, Zenon
<1>. HIDE DEF echoed, command
<1>6. Tidy(done.terminal) /\ done.terminal.column = 0
  BY <1>2, <1>4, <1>5, CommandIsTidy
<1>7. shell_buffer_length' = 0 /\ console_initialized' = TRUE
  BY <1>1, <1>2, <1>3 DEF shell_reset_buffer
<1>. QED BY <1>2, <1>6, <1>7, PromptKeepsScreen

(* The boot, before there is a line.                                       *)
LEMMA BootKeepsScreen ==
  ASSUME ScreenInv, Boot PROVE ScreenInv'
<1>. DEFINE t == [terminal EXCEPT !.row = 0, !.column = 0, !.view_start = 0,
                                  !.color = LIGHT_GREY_ON_BLACK]
<1>1. t \in Terminals
  <2>1. LIGHT_GREY_ON_BLACK \in AnyColor /\ terminal \in Terminals
    BY TerminalConstants DEF ScreenInv, AnyColor
  <2>. QED BY <2>1 DEF Terminals
<1>2. terminal' = terminal_clear(t)
  BY DEF Boot, console_initialize, terminal_initialize
<1>. HIDE DEF t
<1>3. Cleared(t, terminal')
  BY <1>1, <1>2, ClearShows
<1>4. Tidy(terminal') /\ terminal' \in Terminals
  BY <1>3, ClearedIsTidy DEF Tidy, Good, Aligned
<1>5. ~shell_started'
  BY DEF Boot, ScreenInv
<1>. QED BY <1>4, <1>5 DEF ScreenInv

(* A message of the boot.                                                  *)
LEMMA MessageKeepsScreen ==
  ASSUME ScreenInv, BootMessage PROVE ScreenInv'
<1>1. /\ console_initialized /\ ~shell_started' /\ console_writestring(Greeting)
  BY DEF BootMessage
<1>2. Tidy(terminal) /\ terminal' = terminal_write(terminal, Greeting)
  BY <1>1 DEF ScreenInv, console_writestring
<1>3. Tidy(terminal')
  BY <1>2, TextsArePlain, WriteTidy, Zenon
<1>4. terminal' \in Terminals
  BY <1>3 DEF Tidy, Good, Aligned
<1>. QED BY <1>1, <1>3, <1>4 DEF ScreenInv

(* Every step of the shell.                                                *)
LEMMA StepKeepsScreen ==
  BufferInv /\ ScreenInv /\ [ShellNext]_vars => ScreenInv'
<1>. SUFFICES ASSUME BufferInv, ScreenInv, [ShellNext]_vars PROVE ScreenInv'
  OBVIOUS
<1>1. CASE Boot
  BY <1>1, BootKeepsScreen
<1>2. CASE BootMessage
  BY <1>2, MessageKeepsScreen
<1>3. CASE shell_initialize
  BY <1>3, StartKeepsScreen
<1>4. CASE HandleEnter
  BY <1>4, EnterKeepsScreen
<1>5. CASE HandleBackspace
  BY <1>5, BackspaceKeepsScreen
<1>6. CASE HandleFull
  BY <1>6, FullKeepsScreen
<1>7. ASSUME NEW ascii \in Keys, HandleCharacter(ascii) PROVE ScreenInv'
  BY <1>7, CharacterKeepsScreen
<1>8. CASE UNCHANGED vars
  BY <1>8 DEF vars, bufferVars, historyVars, ScreenInv, EditInv, PlaceInv,
              PromptShown, LineShown, LineStart, PromptStart
<1>. QED BY <1>1, <1>2, <1>3, <1>4, <1>5, <1>6, <1>7, <1>8 DEF ShellNext

(* At first there is no line.                                              *)
LEMMA InitEstablishesScreen == ShellInit => ScreenInv
<1>. SUFFICES ASSUME ShellInit PROVE ScreenInv
  OBVIOUS
<1>1. TerminalInit /\ shell_started = FALSE
  BY DEF ShellInit
<1>2. terminal \in Terminals /\ console_initialized = FALSE
  BY <1>1, InitEstablishesInv DEF TerminalInv, TerminalInit
<1>. QED BY <1>1, <1>2 DEF ScreenInv

(* A text in a row of the screen, from column a on.                        *)
LEMMA RowShowsText ==
  ASSUME NEW S, NEW text \in Seq(S), NEW a \in Nat, a + Len(text) <= VGA_WIDTH,
         NEW y \in Nat,
         \A i \in 1 .. Len(text) :
           CharAt(terminal, y * VGA_WIDTH + (a + i - 1)) = text[i]
  PROVE  SubSeq(ShownRow(y), a + 1, a + Len(text)) = text
<1>. DEFINE n == Len(text)
            W == VGA_WIDTH
            z == y * W
            row == ShownRow(y)
            from == a + 1
            to == a + n
            s == SubSeq(row, from, to)
<1>1. n \in Nat /\ W \in Nat /\ z \in Nat
  <2>1. n \in Nat /\ W \in Nat
    BY Sizes
  <2>. QED BY <2>1, Z3
<1>2. row = [i \in 1 .. W |-> CharAt(terminal, z + i - 1)]
  BY DEF ShownRow, ShownCell, CharAt
<1>. HIDE DEF row, z, W
<1>3. ASSUME NEW i \in 1 .. n PROVE row[from + i - 1] = text[i]
  <2>. DEFINE k == from + i - 1
  <2>1. k \in 1 .. W /\ z + k - 1 = z + (a + i - 1)
    BY <1>1 DEF W
  <2>. HIDE DEF k
  <2>2. row[k] = CharAt(terminal, z + k - 1)
    BY <1>2, <2>1
  <2>. QED BY <2>1, <2>2 DEF k, z, W
<1>4. /\ from \in Int /\ to \in Int /\ to - from + 1 = n
      /\ from <= to <=> n > 0
  BY <1>1
<1>5. \A i \in from .. to : row[i] \in S
  <2>. SUFFICES ASSUME NEW i \in from .. to PROVE row[i] \in S
    OBVIOUS
  <2>. DEFINE k == i - a
  <2>1. k \in 1 .. n /\ from + k - 1 = i
    BY <1>1
  <2>. HIDE DEF k, from, to
  <2>2. row[i] = text[k]
    BY <1>3, <2>1
  <2>. QED BY <2>1, <2>2
<1>. HIDE DEF from, to
<1>6. /\ s \in Seq(S) /\ Len(s) = IF from <= to THEN to - from + 1 ELSE 0
      /\ \A i \in 1 .. to - from + 1 : s[i] = row[from + i - 1]
  BY <1>4, <1>5, SubSeqProperties
<1>7. Len(s) = n
  BY <1>1, <1>4, <1>6
<1>. HIDE DEF s
<1>8. \A i \in 1 .. n : s[i] = text[i]
  BY <1>3, <1>4, <1>6
<1>9. s = text
  BY <1>6, <1>7, <1>8, SeqEqual
<1>. QED BY <1>9 DEF s, from, to, row

(* The invariant says what the user sees.                                  *)
LEMMA ScreenShowsLine == BufferInv /\ ScreenInv => LineIsOnScreen
<1>. SUFFICES ASSUME BufferInv, ScreenInv, shell_started
              PROVE  LineIsOnScreen
  BY DEF LineIsOnScreen
<1>. DEFINE n == shell_buffer_length
            P == Len(SHELL_PROMPT)
            y == prompt_row
            W == VGA_WIDTH
            text == SHELL_PROMPT \o Line
<1>1. /\ Tidy(terminal) /\ PlaceInv /\ (hidden = 0 => PromptShown /\ LineShown)
  BY DEF ScreenInv, EditInv
<1>2. Good(terminal) /\ BlankAfter(Viewed(terminal), Cursor(terminal))
  BY <1>1 DEF Tidy
<1>3. Cursor(terminal) = LineStart + n
  BY <1>1 DEF PlaceInv
<1>4. Blank(Cursor(terminal))
  <2>1. Cursor(terminal) \in Nat /\ Page \in Nat
    BY <1>2, CursorOnPage
  <2>2. ASSUME NEW p \in Cursor(terminal) .. VGA_WIDTH * VGA_HEIGHT - 1
        PROVE  ShownCell(p) = Space
    <3>1. p \in Positions /\ p >= Cursor(terminal)
      BY <2>1 DEF Positions, Page
    <3>. QED BY <1>2, <3>1 DEF BlankAfter, ShownCell
  <2>. QED BY <2>2 DEF Blank
<1>5. ASSUME hidden = 0
      PROVE  terminal.row = y /\ SubSeq(ShownRow(y), 1, Len(text)) = text
  <2>1. /\ SHELL_PROMPT \in Seq(Glyphs) /\ P \in Nat /\ W \in Nat
        /\ SHELL_BUFFER_SIZE \in Nat /\ P + (SHELL_BUFFER_SIZE - 1) < W
    BY LineSizes
  <2>2. n \in Nat /\ n <= SHELL_BUFFER_SIZE - 1
    BY <2>1 DEF BufferInv, LineIsTerminated, Slots
  <2>3. /\ y \in Nat /\ PromptStart \in Nat /\ LineStart = PromptStart + P
        /\ PromptStart = y * W
    BY <1>1, <1>5, LinePlace DEF PlaceInv, PromptStart
  <2>4. Line \in Seq(Glyphs) /\ Len(Line) = n /\ \A i \in 1 .. n : Line[i] = shell_buffer[i - 1]
    <3>1. Line \in Seq(Keys) /\ Keys \subseteq Glyphs
      BY CommandIsLine, ShellConstants, Zenon
    <3>2. Line \in Seq(Glyphs)
      BY <3>1, GlyphsAreText
    <3>. QED BY <2>2, <3>2 DEF Line
  <2>5. /\ text \in Seq(Glyphs) /\ Len(text) = P + n
        /\ \A i \in 1 .. P + n : text[i] = IF i <= P THEN SHELL_PROMPT[i]
                                           ELSE Line[i - P]
    <3>1. /\ text \in Seq(Glyphs) /\ Len(text) = P + Len(Line)
          /\ \A i \in 1 .. P + Len(Line) :
               text[i] = IF i <= P THEN SHELL_PROMPT[i] ELSE Line[i - P]
      BY <2>1, <2>4, ConcatProperties
    <3>. HIDE DEF text, n, P
    <3>. QED BY <2>4, <3>1
  <2>. HIDE DEF text, n, P, W, y, LineStart, PromptStart
  <2>6. terminal.row = y
    <3>. DEFINE x == P + n
    <3>1. x \in Nat /\ x < W /\ Cursor(terminal) = y * W + x
      BY <1>3, <2>1, <2>2, <2>3
    <3>. HIDE DEF x
    <3>. QED BY <1>2, <2>3, <3>1, CursorAt DEF W
  <2>7. ASSUME NEW i \in 1 .. P + n
        PROVE  CharAt(terminal, y * W + (0 + i - 1)) = text[i]
    <3>1. y * W + (0 + i - 1) = PromptStart + i - 1
      BY <2>1, <2>2, <2>3
    <3>2. CASE i <= P
      <4>1. i \in 1 .. P
        BY <2>1, <3>2
      <4>2. CharAt(terminal, PromptStart + i - 1) = SHELL_PROMPT[i]
        BY <1>1, <1>5, <4>1 DEF PromptShown, P
      <4>. QED BY <2>5, <3>1, <3>2, <4>2
    <3>3. CASE i > P
      <4>. DEFINE j == i - P
                  k == j - 1
      <4>1. /\ j \in 1 .. n /\ k \in Nat /\ k < n /\ k < SHELL_BUFFER_SIZE
            /\ k \in 0 .. SHELL_BUFFER_SIZE - 1
            /\ LineStart + k = PromptStart + i - 1
        BY <2>1, <2>2, <2>3, <3>3
      <4>2. text[i] = Line[j] /\ Line[j] = shell_buffer[k]
        BY <2>1, <2>4, <2>5, <3>3, <4>1
      <4>. HIDE DEF j, k
      <4>3. CharAt(terminal, LineStart + k) = shell_buffer[k]
        BY <1>1, <1>5, <4>1 DEF LineShown, Slots, n
      <4>. QED BY <3>1, <4>1, <4>2, <4>3
    <3>. QED BY <2>1, <3>2, <3>3
  <2>8. 0 + Len(text) <= W /\ 0 \in Nat /\ 0 + 1 = 1 /\ 0 + Len(text) = Len(text)
    BY <2>1, <2>2, <2>5
  <2>9. SubSeq(ShownRow(y), 0 + 1, 0 + Len(text)) = text
    BY <2>3, <2>5, <2>7, <2>8, RowShowsText DEF W
  <2>. QED BY <2>6, <2>8, <2>9
<1>. HIDE DEF LineStart, Blank, ShownRow
<1>. QED BY <1>3, <1>4, <1>5 DEF LineIsOnScreen, Cursor

(* What the user sees is what Enter will run, for every size of the line   *)
(* and of the screen, whatever commands print and wherever the page        *)
(* scrolls.                                                                *)
THEOREM ShellLineIsOnScreen == ShellSpec => []LineIsOnScreen
<1>1. ShellInit => BufferInv /\ ScreenInv
  BY InitEstablishesBuffer, InitEstablishesScreen
<1>2. BufferInv /\ ScreenInv /\ [ShellNext]_vars => (BufferInv /\ ScreenInv)'
  BY StepKeepsBuffer, StepKeepsScreen
<1>3. BufferInv /\ ScreenInv => LineIsOnScreen
  BY ScreenShowsLine
<1>. QED BY <1>1, <1>2, <1>3, PTL DEF ShellSpec

(* What an editing step may never do.                                      *)
KeepsOutput ==
  (HandleBackspace \/ \E a \in Keys : HandleCharacter(a))
    => /\ LineStart >= (prompt_row - 1) * VGA_WIDTH
       /\ \A p \in 0 .. LineStart - 1 : Viewed(terminal)'[p] = Viewed(terminal)[p]

(* The cell that such a step changes is in the line.                       *)
LEMMA EditKeepsOutput == BufferInv /\ ScreenInv => KeepsOutput
<1>. SUFFICES ASSUME BufferInv, ScreenInv,
                     HandleBackspace \/ \E a \in Keys : HandleCharacter(a)
              PROVE  /\ LineStart >= (prompt_row - 1) * VGA_WIDTH
                     /\ \A p \in 0 .. LineStart - 1 :
                          Viewed(terminal)'[p] = Viewed(terminal)[p]
  BY DEF KeepsOutput
<1>1. /\ PlaceInv /\ Page \in Nat
      /\ \E c \in Positions : \E ch :
           /\ c >= LineStart
           /\ Viewed(terminal') = Filled(Viewed(terminal), {c}, ch, terminal.color)
  <2>1. CASE HandleBackspace
    <3>. DEFINE c == Cursor(terminal) - 1
    <3>1. /\ Viewed(terminal') = Filled(Viewed(terminal), {c}, Space, terminal.color)
          /\ PlaceInv /\ shell_buffer_length \in Nat /\ shell_buffer_length > 0
          /\ c \in Positions /\ Page \in Nat
      BY <2>1, BackspaceErases, LineSizes DEF Erased
    <3>2. LineStart \in Nat /\ Cursor(terminal) = LineStart + shell_buffer_length
      BY <3>1, LinePlace DEF PlaceInv
    <3>. HIDE DEF LineStart
    <3>3. c >= LineStart
      BY <3>1, <3>2
    <3>. HIDE DEF c
    <3>. QED BY <3>1, <3>3
  <2>2. CASE \E a \in Keys : HandleCharacter(a)
    <3>. DEFINE c == Cursor(terminal)
    <3>0. PICK a \in Keys : HandleCharacter(a)
      BY <2>2
    <3>1. /\ Viewed(terminal') = Filled(Viewed(terminal), {c}, a, terminal.color)
          /\ PlaceInv /\ shell_buffer_length \in Nat
          /\ c \in Positions /\ Page \in Nat
      BY <3>0, CharacterTypes, LineSizes DEF Typed
    <3>2. LineStart \in Nat /\ Cursor(terminal) = LineStart + shell_buffer_length
      BY <3>1, LinePlace DEF PlaceInv
    <3>. HIDE DEF LineStart
    <3>3. c >= LineStart
      BY <3>1, <3>2
    <3>. HIDE DEF c
    <3>. QED BY <3>1, <3>3
  <2>. QED BY <2>1, <2>2
<1>2. /\ LineStart >= (prompt_row - 1) * VGA_WIDTH
      /\ LineStart \in Nat /\ LineStart < Page
  <2>1. /\ LineStart \in Nat /\ LineStart + (SHELL_BUFFER_SIZE - 1) < Page
        /\ LineStart >= (prompt_row - 1) * VGA_WIDTH
    BY <1>1, LinePlace
  <2>. HIDE DEF LineStart
  <2>. QED BY <1>1, <2>1, BufferSize
<1>3. PICK c \in Positions : \E ch :
           /\ c >= LineStart
           /\ Viewed(terminal') = Filled(Viewed(terminal), {c}, ch, terminal.color)
  BY <1>1
<1>. HIDE DEF LineStart
<1>4. ASSUME NEW p \in 0 .. LineStart - 1
      PROVE  Viewed(terminal')[p] = Viewed(terminal)[p]
  <2>1. p \in Positions /\ p # c
    BY <1>1, <1>2, <1>3 DEF Positions
  <2>. QED BY <1>3, <2>1 DEF Filled
<1>5. Viewed(terminal)' = Viewed(terminal')
  BY DEF Viewed
<1>. QED BY <1>2, <1>4, <1>5

(* Editing never touches a row of earlier output, for every size of the    *)
(* line and of the screen.                                                 *)
THEOREM ShellEditingKeepsOutput == ShellSpec => EditingKeepsOutput
<1>1. ShellInit => BufferInv /\ ScreenInv
  BY InitEstablishesBuffer, InitEstablishesScreen
<1>2. BufferInv /\ ScreenInv /\ [ShellNext]_vars => (BufferInv /\ ScreenInv)'
  BY StepKeepsBuffer, StepKeepsScreen
<1>3. BufferInv /\ ScreenInv => [KeepsOutput]_vars
  BY EditKeepsOutput
<1>4. EditingKeepsOutput <=> [][KeepsOutput]_vars
  BY DEF EditingKeepsOutput, KeepsOutput
<1>. QED BY <1>1, <1>2, <1>3, <1>4, PTL DEF ShellSpec

-----------------------------------------------------------------------------
(* The counter that a command shows.                                       *)

(* A row that shows a text and nothing else.                               *)
RowHas(t, y, text) ==
  \A x \in Nat : x < VGA_WIDTH =>
    CharAt(t, y * VGA_WIDTH + x) = IF x < Len(text) THEN text[x + 1] ELSE Space

(* A text that is written in a blank row.                                  *)
LEMMA TextFillsRow ==
  ASSUME NEW t, Tidy(t), t.column = 0, NEW text \in Seq(Glyphs),
         Len(text) < VGA_WIDTH
  PROVE  LET u == terminal_write(t, text)
         IN  Tidy(u) /\ RowHas(u, u.row, text)
<1>. DEFINE u == terminal_write(t, text)
            n == Len(text)
            W == VGA_WIDTH
            k == Cursor(t)
            z == t.row * W
<1>1. /\ n \in Nat /\ W \in Nat /\ z \in Nat /\ z + W <= Page /\ Page \in Nat
      /\ k = z + t.column
  BY CursorOnPage DEF Tidy
<1>2. k = z /\ t.column + n < W
  BY <1>1
<1>3. InRow(t, u, text, n)
  BY <1>2, WriteInRow
<1>4. /\ Tidy(u) /\ u.row = t.row /\ Cursor(u) = k + n
      /\ \A i \in 1 .. n : CharAt(u, k + i - 1) = text[i]
  BY <1>3 DEF InRow
<1>5. BlankAfter(Viewed(u), z + n)
  BY <1>2, <1>4 DEF Tidy
<1>. HIDE DEF u, n, k, z, W
<1>6. ASSUME NEW x \in Nat, x < W
      PROVE  CharAt(u, z + x) = IF x < n THEN text[x + 1] ELSE Space
  <2>1. CASE x < n
    <3>1. x + 1 \in 1 .. n /\ k + (x + 1) - 1 = z + x
      BY <1>1, <1>2, <2>1
    <3>. QED BY <1>4, <2>1, <3>1
  <2>2. CASE ~(x < n)
    <3>1. z + x \in Positions /\ z + x >= z + n
      BY <1>1, <1>6, <2>2 DEF Positions
    <3>. QED BY <1>5, <2>2, <3>1 DEF BlankAfter, CharAt
  <2>. QED BY <2>1, <2>2
<1>7. RowHas(u, u.row, text)
  BY <1>4, <1>6 DEF RowHas, z, W, n
<1>. QED BY <1>4, <1>7 DEF u

(* After a newline it is in the row above the cursor.                      *)
LEMMA NewlineKeepsRow ==
  ASSUME NEW u, Tidy(u), NEW text, RowHas(u, u.row, text)
  PROVE  LET v == terminal_putchar(u, "LF")
         IN  RowHas(v, v.row - 1, text)
<1>. DEFINE v == terminal_putchar(u, "LF")
            W == VGA_WIDTH
            H == VGA_HEIGHT
            r == u.row
            z == r * W
            p == (r + 1) * W
<1>1. Good(u)
  BY DEF Tidy
<1>2. r \in Nat /\ r < H /\ z \in Nat /\ Page \in Nat
  BY <1>1, CursorOnPage DEF Good
<1>3. W \in Nat /\ W >= 1 /\ H \in Nat /\ H >= 2
  BY Sizes, TextsArePlain
<1>4. /\ p = z + W /\ z + W <= Page
      /\ r + 1 < H => p < Page
      /\ r + 1 >= H => p = Page
  BY <1>2, RowFits
<1>5. MovedTo(u, v, Viewed(u), p)
  <2>1. v = terminal_newline(u)
    BY DEF terminal_putchar
  <2>. QED BY <1>1, <1>2, <2>1, NewlineMoves DEF Good
<1>6. Good(v)
  BY <1>5 DEF MovedTo
<1>. HIDE DEF v
<1>7. ASSUME NEW x \in Nat, x < W
      PROVE  CharAt(v, (v.row - 1) * W + x) = CharAt(u, z + x)
  <2>1. CASE r + 1 < H
    <3>1. Viewed(v) = Viewed(u) /\ Cursor(v) = p
      BY <1>4, <1>5, <2>1 DEF MovedTo
    <3>2. p = (r + 1) * W + 0 /\ 0 < W /\ r + 1 \in Nat
      <4>1. p \in Nat
        BY <1>2, <1>3, <1>4
      <4>. QED BY <1>2, <1>3, <4>1
    <3>3. v.row = r + 1
      BY <1>6, <3>1, <3>2, CursorAt
    <3>4. v.row - 1 = r
      BY <1>2, <3>3
    <3>. QED BY <3>1, <3>4 DEF CharAt
  <2>2. CASE r + 1 >= H
    <3>1. p >= Page /\ p = Page
      BY <1>2, <1>4, <2>2
    <3>2. Viewed(v) = Scrolled(Viewed(u), u.color) /\ Cursor(v) = p - W
      BY <1>5, <3>1 DEF MovedTo
    <3>3. Cursor(v) = z + 0 /\ 0 < W
      BY <1>2, <1>3, <1>4, <3>2
    <3>4. v.row = r
      BY <1>2, <1>6, <3>3, CursorAt
    <3>. DEFINE q == (r - 1) * W
    <3>5. q \in Nat /\ q + W = z
      <4>1. r >= 1
        BY <1>2, <1>3, <2>2
      <4>. HIDE DEF r, W
      <4>. QED BY <1>2, <1>3, <4>1, Z3
    <3>. HIDE DEF q, z, p
    <3>6. q + x \in Positions /\ (q + x) + W \in Positions /\ (q + x) + W = z + x
      BY <1>2, <1>3, <1>4, <1>7, <3>1, <3>5 DEF Positions
    <3>7. Viewed(v)[q + x] = Viewed(u)[z + x]
      BY <3>2, <3>6 DEF Scrolled
    <3>. QED BY <3>4, <3>7 DEF CharAt, q
  <2>. QED BY <1>2, <1>3, <2>1, <2>2
<1>8. RowHas(v, v.row - 1, text)
  BY <1>7 DEF RowHas, z
<1>. QED BY <1>8 DEF v

(* The prompt does not touch it.                                           *)
LEMMA PromptKeepsRow ==
  ASSUME NEW v, Tidy(v), v.column = 0, v.row >= 1, NEW text,
         RowHas(v, v.row - 1, text)
  PROVE  LET w == terminal_write(v, SHELL_PROMPT)
         IN  w.row = v.row /\ RowHas(w, w.row - 1, text)
<1>. DEFINE w == terminal_write(v, SHELL_PROMPT)
            W == VGA_WIDTH
            P == Len(SHELL_PROMPT)
            k == Cursor(v)
            q == (v.row - 1) * W
<1>1. SHELL_PROMPT \in Seq(Glyphs) /\ P \in Nat /\ P < W /\ W \in Nat
  BY LineSizes
<1>2. /\ v.row \in Nat /\ k = v.row * W + v.column /\ v.row * W \in Nat
      /\ v.row * W + W <= Page /\ Page \in Nat
  BY CursorOnPage DEF Tidy
<1>3. k = v.row * W /\ v.column + P < W
  BY <1>1, <1>2
<1>4. InRow(v, w, SHELL_PROMPT, P)
  BY <1>1, <1>3, WriteInRow
<1>5. w.row = v.row /\ \A p \in Positions : p < k => Viewed(w)[p] = Viewed(v)[p]
  BY <1>4 DEF InRow
<1>6. q \in Nat /\ q + W = k
  <2>. DEFINE y == v.row
  <2>1. y \in Nat /\ y >= 1 /\ k = y * W
    BY <1>2, <1>3
  <2>. HIDE DEF y, k, W
  <2>2. (y - 1) * W \in Nat /\ (y - 1) * W + W = k
    BY <1>1, <2>1, Z3
  <2>. QED BY <2>2 DEF y
<1>. HIDE DEF w, W, k, q, P
<1>7. ASSUME NEW x \in Nat, x < W PROVE CharAt(w, q + x) = CharAt(v, q + x)
  <2>1. q + x \in Positions /\ q + x < k
    BY <1>1, <1>2, <1>3, <1>6, <1>7 DEF Positions
  <2>. QED BY <1>5, <2>1 DEF CharAt
<1>8. RowHas(w, v.row - 1, text)
  BY <1>7 DEF RowHas, q, W
<1>. QED BY <1>5, <1>8 DEF w

Report(v) == ReportLabel \o Numeral(v)

ReportFits(v) ==
  /\ v \in Nat /\ Report(v) \in Seq(Glyphs)
  /\ Len(Report(v)) = Len(ReportLabel) + Len(Numeral(v))
  /\ Len(Report(v)) < VGA_WIDTH

(* A counter is printed completely.                                        *)
LEMMA CounterFits ==
  ASSUME NEW v \in Nat, NEW size \in {Decimal32Size, Decimal64Size},
         Len(Digits[v]) < size
  PROVE  ReportFits(v) /\ kformat_uint32_decimal(v, size) = Numeral(v)
<1>1. size \in Nat
  BY TextsArePlain
<1>2. size >= 2 /\ Len(ReportLabel) + size <= VGA_WIDTH
  BY CountersFit
<1>3. Len(DecimalOf(v)) < size
  <2>1. Len(<<0>>) = 1
    OBVIOUS
  <2>2. CASE v = 0
    <3>1. DecimalOf(v) = <<0>>
      BY <2>2 DEF DecimalOf
    <3>. QED BY <1>1, <1>2, <2>1, <3>1
  <2>3. CASE v # 0
    BY <2>3 DEF DecimalOf
  <2>. QED BY <2>2, <2>3
<1>4. kformat_uint32_decimal(v, size) = Numeral(v)
  BY <1>1, <1>3, DecimalIsNumeral
<1>5. /\ Numeral(v) \in Seq(DigitCharacters)
      /\ Len(Numeral(v)) = Len(DecimalOf(v)) /\ Len(DecimalOf(v)) \in Nat
  BY NumeralIsDecimal, DecimalOfType
<1>6. DigitCharacters \subseteq Glyphs
  <2>1. \A d \in 0 .. 9 : Character(d) \in Glyphs \ {Space}
    BY TextsArePlain
  <2>. QED BY <2>1, Zenon DEF DigitCharacters
<1>7. Numeral(v) \in Seq(Glyphs) /\ ReportLabel \in Seq(Glyphs)
  BY <1>5, <1>6, GlyphsAreText, TextsArePlain
<1>8. /\ Report(v) \in Seq(Glyphs)
      /\ Len(Report(v)) = Len(ReportLabel) + Len(Numeral(v))
  BY <1>7, ConcatProperties DEF Report
<1>9. Len(ReportLabel) \in Nat /\ VGA_WIDTH \in Nat
  BY <1>7, Sizes
<1>10. Len(Report(v)) < VGA_WIDTH
  BY <1>1, <1>2, <1>3, <1>5, <1>8, <1>9
<1>. QED BY <1>4, <1>8, <1>10 DEF ReportFits

(* A command that shows a value prints it after the label.                 *)
LEMMA OutputIsReport ==
  ASSUME NEW command, NEW o \in Output(command), o.value # NoValue
  PROVE  ReportFits(o.value) /\ o.text = Report(o.value) \o <<"LF">>
<1>1. CASE command = TicksCommand
  <2>1. PICK v \in Counts32 :
          o = [value |-> v, text |-> (ReportLabel \o shell_print_uint32(v)) \o <<"LF">>]
    BY <1>1, Zenon DEF Output
  <2>2. v \in Nat /\ Len(Digits[v]) < Decimal32Size
    BY TextsArePlain, CountersFit
  <2>3. ReportFits(v) /\ shell_print_uint32(v) = Numeral(v)
    BY <2>2, CounterFits DEF shell_print_uint32
  <2>4. o.value = v /\ o.text = (ReportLabel \o shell_print_uint32(v)) \o <<"LF">>
    BY <2>1
  <2>. QED BY <2>3, <2>4 DEF Report
<1>2. CASE command # TicksCommand /\ command = MemCommand
  <2>1. PICK v \in Counts64 :
          o = [value |-> v, text |-> (ReportLabel \o klog_write_uint64(v)) \o <<"LF">>]
    BY <1>2, Zenon DEF Output
  <2>2. v \in Nat /\ Len(Digits[v]) < Decimal64Size
    BY TextsArePlain, CountersFit
  <2>3. ReportFits(v) /\ klog_write_uint64(v) = Numeral(v)
    BY <2>2, CounterFits DEF klog_write_uint64, kformat_uint64_decimal
  <2>4. o.value = v /\ o.text = (ReportLabel \o klog_write_uint64(v)) \o <<"LF">>
    BY <2>1
  <2>. QED BY <2>3, <2>4 DEF Report
<1>3. CASE command # TicksCommand /\ command # MemCommand
  <2>1. PICK text \in (IF command \in DOMAIN CommandOutput
                       THEN CommandOutput[command]
                       ELSE {UnknownText \o command \o HintText}) :
          o = [value |-> NoValue, text |-> text]
    BY <1>3, Zenon DEF Output
  <2>. QED BY <2>1
<1>. QED BY <1>1, <1>2, <1>3

(* The row above the prompt shows the counter of the last command.         *)
ReportInv ==
  /\ ~shell_started => reported = NoValue
  /\ reported # NoValue =>
       /\ hidden = 0 /\ prompt_row >= 1
       /\ ReportFits(reported)
       /\ RowHas(terminal, prompt_row - 1, Report(reported))

(* Enter puts it there.                                                    *)
LEMMA EnterKeepsReport ==
  ASSUME BufferInv, ScreenInv, HandleEnter PROVE ReportInv'
<1>. DEFINE echoed == terminal_putchar(terminal, "LF")
            command == CString([shell_buffer EXCEPT ![shell_buffer_length] = NUL])
<1>1. shell_started /\ shell_started' = shell_started
  BY DEF HandleEnter
<1>2. PICK done \in shell_execute_command(echoed, command) :
           /\ shell_reset_buffer
           /\ terminal' = terminal_write(done.terminal, SHELL_PROMPT)
           /\ Prompted(done.value)
  BY Zenon DEF HandleEnter
<1>3. Tidy(terminal)
  BY <1>1 DEF ScreenInv
<1>4. Tidy(echoed) /\ echoed.column = 0
  BY <1>3, NewlineTidy, Zenon
<1>. HIDE DEF echoed, command
<1>5. hidden' = 0 /\ prompt_row' = terminal'.row /\ reported' = done.value
  BY <1>2 DEF shell_reset_buffer, Prompted
<1>6. ASSUME done.value # NoValue
      PROVE  /\ prompt_row' >= 1 /\ ReportFits(done.value)
             /\ RowHas(terminal', prompt_row' - 1, Report(done.value))
  <2>1. PICK o \in Output(command) :
          done = [terminal |-> terminal_write(echoed, o.text), value |-> o.value]
    <3>1. ~shell_command_is_empty(command) /\ command # ClearCommand
      BY <1>2, <1>6 DEF shell_execute_command
    <3>. QED BY <1>2, <3>1, Zenon DEF shell_execute_command
  <2>2. done.terminal = terminal_write(echoed, o.text) /\ done.value = o.value
    BY <2>1
  <2>. DEFINE text == Report(o.value)
              u == terminal_write(echoed, text)
              v == terminal_putchar(u, "LF")
              w == terminal_write(v, SHELL_PROMPT)
  <2>3. ReportFits(o.value) /\ o.text = text \o <<"LF">>
    BY <1>6, <2>2, OutputIsReport
  <2>4. text \in Seq(Glyphs) /\ Len(text) < VGA_WIDTH
    BY <2>3 DEF ReportFits
  <2>. HIDE DEF text
  <2>5. done.terminal = v
    <3>1. text \in Texts
      BY <2>4, GlyphsAreText
    <3>2. terminal_write(echoed, text \o <<"LF">>) = terminal_write(u, <<"LF">>)
      BY <3>1, NewlineIsText, WriteBoth DEF Texts
    <3>3. terminal_write(u, <<"LF">>) = v
      BY WriteIsPut
    <3>. QED BY <2>2, <2>3, <3>2, <3>3
  <2>6. Tidy(u) /\ RowHas(u, u.row, text)
    BY <1>4, <2>4, TextFillsRow, Zenon
  <2>. HIDE DEF u
  <2>7. Tidy(v) /\ v.column = 0 /\ v.row >= 1
    BY <2>6, NewlineTidy, Zenon
  <2>8. RowHas(v, v.row - 1, text)
    BY <2>6, NewlineKeepsRow, Zenon
  <2>. HIDE DEF v
  <2>9. w.row = v.row /\ RowHas(w, w.row - 1, text)
    BY <2>7, <2>8, PromptKeepsRow, Zenon
  <2>10. terminal' = w
    BY <1>2, <2>5
  <2>. HIDE DEF w
  <2>11. prompt_row' = w.row /\ w.row >= 1
    BY <1>5, <2>7, <2>9, <2>10
  <2>. QED BY <2>2, <2>3, <2>9, <2>10, <2>11 DEF text
<1>. QED BY <1>1, <1>5, <1>6 DEF ReportInv

(* Editing leaves it there.                                                *)
LEMMA EditKeepsReport ==
  ASSUME BufferInv, ScreenInv, ReportInv,
         HandleBackspace \/ \E a \in Keys : HandleCharacter(a)
  PROVE  ReportInv'
<1>1. /\ shell_started /\ shell_started' = shell_started
      /\ hidden' = hidden /\ prompt_row' = prompt_row /\ reported' = reported
  BY DEF HandleBackspace, HandleCharacter, historyVars
<1>2. PlaceInv
  BY <1>1 DEF ScreenInv, EditInv
<1>3. \A p \in 0 .. LineStart - 1 : Viewed(terminal)'[p] = Viewed(terminal)[p]
  BY EditKeepsOutput DEF KeepsOutput
<1>4. ASSUME reported # NoValue
      PROVE  RowHas(terminal', prompt_row - 1, Report(reported))
  <2>. DEFINE W == VGA_WIDTH
              y == prompt_row
              q == (y - 1) * W
              text == Report(reported)
  <2>1. hidden = 0 /\ y >= 1 /\ RowHas(terminal, y - 1, text)
    BY <1>4 DEF ReportInv
  <2>2. /\ LineStart \in Nat /\ PromptStart \in Nat
        /\ LineStart = PromptStart + Len(SHELL_PROMPT)
        /\ Len(SHELL_PROMPT) \in Nat /\ W \in Nat /\ y \in Nat
        /\ PromptStart = y * W
    BY <1>2, <2>1, LinePlace, LineSizes DEF PlaceInv, PromptStart
  <2>. HIDE DEF LineStart, PromptStart, text
  <2>3. q \in Nat /\ q + W = PromptStart
    <3>. HIDE DEF y, W
    <3>1. (y - 1) * W \in Nat /\ (y - 1) * W + W = y * W
      BY <2>1, <2>2, Z3
    <3>. QED BY <2>2, <3>1
  <2>. HIDE DEF q, W
  <2>4. ASSUME NEW x \in Nat, x < W
        PROVE  CharAt(terminal', q + x) = CharAt(terminal, q + x)
    <3>1. q + x \in 0 .. LineStart - 1
      BY <2>2, <2>3, <2>4
    <3>2. Viewed(terminal)' = Viewed(terminal')
      BY DEF Viewed
    <3>. QED BY <1>3, <3>1, <3>2 DEF CharAt
  <2>5. RowHas(terminal', y - 1, text)
    BY <2>1, <2>4 DEF RowHas, q, W
  <2>. QED BY <2>5 DEF text
<1>. QED BY <1>1, <1>4 DEF ReportInv

(* Every step of the shell.                                                *)
LEMMA StepKeepsReport ==
  BufferInv /\ ScreenInv /\ ReportInv /\ [ShellNext]_vars => ReportInv'
<1>. SUFFICES ASSUME BufferInv, ScreenInv, ReportInv, [ShellNext]_vars
              PROVE  ReportInv'
  OBVIOUS
<1>1. CASE Boot
  <2>1. ~shell_started /\ shell_started' = shell_started /\ reported' = reported
    BY <1>1 DEF Boot, historyVars, ScreenInv
  <2>. QED BY <2>1 DEF ReportInv
<1>2. CASE BootMessage
  <2>1. ~shell_started /\ shell_started' = shell_started /\ reported' = reported
    BY <1>2 DEF BootMessage, historyVars
  <2>. QED BY <2>1 DEF ReportInv
<1>3. CASE shell_initialize
  <2>1. reported' = NoValue
    BY <1>3 DEF shell_initialize, Prompted
  <2>. QED BY <2>1 DEF ReportInv
<1>4. CASE HandleEnter
  BY <1>4, EnterKeepsReport
<1>5. CASE HandleBackspace \/ \E ascii \in Keys : HandleCharacter(ascii)
  BY <1>5, EditKeepsReport
<1>6. CASE HandleFull
  <2>1. reported' = NoValue
    BY <1>6 DEF HandleFull, Prompted
  <2>. QED BY <2>1 DEF ReportInv
<1>7. CASE UNCHANGED vars
  BY <1>7 DEF vars, historyVars, ReportInv
<1>. QED BY <1>1, <1>2, <1>3, <1>4, <1>5, <1>6, <1>7 DEF ShellNext

(* The invariant says what the user can read.                              *)
LEMMA ReportIsRead == ScreenInv /\ ReportInv => ReportShowsCounter
<1>. SUFFICES ASSUME ScreenInv, ReportInv, reported # NoValue
              PROVE  ReportShowsCounter
  BY DEF ReportShowsCounter
<1>. DEFINE v == reported
            y == prompt_row - 1
            W == VGA_WIDTH
            z == y * W
            row == ShownRow(y)
            label == ReportLabel
            digits == Numeral(v)
            a == Len(label)
            n == Len(digits)
            text == Report(v)
            from == a + 1
            to == a + n
<1>1. /\ ReportFits(v) /\ RowHas(terminal, y, text) /\ prompt_row >= 1
      /\ shell_started
  BY DEF ReportInv
<1>2. prompt_row \in Nat
  BY <1>1 DEF ScreenInv, EditInv, PlaceInv
<1>3. y \in Nat
  BY <1>1, <1>2
<1>4. /\ v \in Nat /\ Len(text) = a + n /\ a + n < W /\ label \in Seq(Glyphs)
  BY <1>1, TextsArePlain DEF ReportFits
<1>5. /\ IsDecimalFor(digits, v) /\ digits \in Seq(DigitCharacters) /\ n >= 1
      /\ n \in Nat
  BY <1>4, NumeralIsDecimal, DecimalOfType
<1>6. a \in Nat /\ W \in Nat
  BY <1>4, Sizes
<1>7. DigitCharacters \subseteq Glyphs /\ Space \notin DigitCharacters
  <2>1. \A d \in 0 .. 9 : Character(d) \in Glyphs \ {Space}
    BY TextsArePlain
  <2>. QED BY <2>1, Zenon DEF DigitCharacters
<1>8. /\ \A i \in 1 .. a : text[i] = label[i]
      /\ \A i \in 1 .. n : text[a + i] = digits[i]
  <2>1. digits \in Seq(Glyphs)
    BY <1>5, <1>7, GlyphsAreText
  <2>2. \A i \in 1 .. a + n : text[i] = IF i <= a THEN label[i] ELSE digits[i - a]
    BY <1>4, <2>1, ConcatProperties DEF Report
  <2>. HIDE DEF text, digits, label, a, n
  <2>3. \A i \in 1 .. n : a + i \in 1 .. a + n /\ ~(a + i <= a) /\ (a + i) - a = i
    BY <1>5, <1>6
  <2>4. \A i \in 1 .. a : i \in 1 .. a + n /\ i <= a
    BY <1>5, <1>6
  <2>. QED BY <2>2, <2>3, <2>4
<1>. HIDE DEF text, digits, label, v, y
<1>9. \A x \in Nat : x < W =>
        CharAt(terminal, z + x) = IF x < a + n THEN text[x + 1] ELSE Space
  BY <1>1, <1>4 DEF RowHas
<1>. HIDE DEF a, n, z, W
<1>10. ASSUME NEW i \in 1 .. a PROVE CharAt(terminal, z + (0 + i - 1)) = label[i]
  <2>. DEFINE x == 0 + i - 1
  <2>1. x \in Nat /\ x < W /\ x < a + n /\ x + 1 = i
    BY <1>4, <1>5, <1>6
  <2>. HIDE DEF x
  <2>2. CharAt(terminal, z + x) = text[i]
    BY <1>9, <2>1
  <2>. QED BY <1>8, <2>2 DEF x
<1>11. ASSUME NEW i \in 1 .. n PROVE CharAt(terminal, z + (a + i - 1)) = digits[i]
  <2>. DEFINE x == a + i - 1
  <2>1. x \in Nat /\ x < W /\ x < a + n /\ x + 1 = a + i
    BY <1>4, <1>5, <1>6
  <2>. HIDE DEF x
  <2>2. CharAt(terminal, z + x) = text[a + i]
    BY <1>9, <2>1
  <2>. QED BY <1>8, <2>2 DEF x
<1>12. SubSeq(row, 1, a) = label
  <2>1. 0 + a <= W /\ 0 + 1 = 1 /\ 0 + a = a /\ 0 \in Nat
    BY <1>4, <1>5, <1>6
  <2>2. SubSeq(row, 0 + 1, 0 + a) = label
    BY <1>3, <1>4, <1>10, <2>1, RowShowsText DEF a, z, W
  <2>. QED BY <2>1, <2>2
<1>13. SubSeq(row, from, to) = digits
  <2>1. a + n <= W
    BY <1>4, <1>5, <1>6
  <2>. QED BY <1>3, <1>5, <1>6, <1>11, <2>1, RowShowsText DEF n, z, W
<1>14. row = [i \in 1 .. W |-> CharAt(terminal, z + i - 1)]
  BY DEF ShownRow, ShownCell, CharAt, z, W
<1>. HIDE DEF row
<1>15. z \in Nat
  BY <1>3, <1>6, Z3 DEF z
<1>16. ASSUME NEW i \in from .. to PROVE row[i] # Space
  <2>. DEFINE k == i - a
  <2>1. k \in 1 .. n /\ i \in 1 .. W /\ z + i - 1 = z + (a + k - 1)
    BY <1>4, <1>5, <1>6, <1>15
  <2>. HIDE DEF k, from, to
  <2>2. row[i] = digits[k]
    BY <1>11, <1>14, <2>1
  <2>3. digits[k] \in DigitCharacters
    BY <1>5, <2>1, ElementOfSeq DEF n
  <2>. QED BY <1>7, <2>2, <2>3
<1>17. ASSUME NEW i \in to + 1 .. W PROVE row[i] = Space
  <2>. DEFINE x == i - 1
  <2>1. i \in 1 .. W /\ z + i - 1 = z + x /\ x \in Nat /\ x < W /\ ~(x < a + n)
    BY <1>4, <1>5, <1>6, <1>15
  <2>. HIDE DEF x, to
  <2>. QED BY <1>9, <1>14, <2>1
<1>18. to \in from .. W - 1 /\ from - 1 = a
  BY <1>4, <1>5, <1>6
<1>. HIDE DEF from, to
<1>19. /\ SubSeq(row, 1, from - 1) = label
       /\ \A i \in to + 1 .. W : row[i] = Space
       /\ \A i \in from .. to : row[i] # Space
       /\ IsDecimalFor(SubSeq(row, from, to), v)
  BY <1>5, <1>12, <1>13, <1>16, <1>17, <1>18
<1>20. \E e \in from .. W - 1 :
          /\ SubSeq(row, 1, from - 1) = label
          /\ \A i \in e + 1 .. W : row[i] = Space
          /\ \A i \in from .. e : row[i] # Space
          /\ IsDecimalFor(SubSeq(row, from, e), v)
  BY <1>18, <1>19
<1>. QED BY <1>20 DEF ReportShowsCounter, row, label, v, y, W, from, a

(* A command's counter can be read above the prompt, complete, for every   *)
(* value that its buffer holds and every size of the screen.               *)
THEOREM ShellReportShowsCounter == ShellSpec => []ReportShowsCounter
<1>1. ShellInit => BufferInv /\ ScreenInv /\ ReportInv
  <2>1. ShellInit => ReportInv
    BY DEF ShellInit, ReportInv
  <2>. QED BY <2>1, InitEstablishesBuffer, InitEstablishesScreen
<1>2. BufferInv /\ ScreenInv /\ ReportInv /\ [ShellNext]_vars
        => (BufferInv /\ ScreenInv /\ ReportInv)'
  BY StepKeepsBuffer, StepKeepsScreen, StepKeepsReport
<1>3. ScreenInv /\ ReportInv => ReportShowsCounter
  BY ReportIsRead
<1>. QED BY <1>1, <1>2, <1>3, PTL DEF ShellSpec

-----------------------------------------------------------------------------
(* The serial port.                                                        *)

(* The characters of the texts and the two that a newline becomes.         *)
Byte == STRING \cup {"CR", "LF"}
Bytes == Seq(Byte)

Text(w) == IF w = "main" THEN LogText ELSE HeartbeatText
Count(w) == IF w = "main" THEN logs ELSE beats

(* A nonempty set of natural numbers has a least element.                  *)
LEMMA SmallestNumber ==
  ASSUME NEW S \in SUBSET Nat, S # {}
  PROVE  \E x \in S : \A y \in S : x <= y
<1>. DEFINE R == {ss \in Nat \X Nat : ss[1] < ss[2]}
<1>1. IsWellFoundedOn(R, Nat)
  BY NatLessThanWellFounded, Zenon DEF OpToRel
<1>. HIDE DEF R
<1>2. PICK x \in S : \A y \in S : ~ (<<y, x>> \in R)
  BY WFMin, <1>1, Zenon
<1>3. \A y \in S : ~(y < x)
  BY <1>2 DEF R
<1>. QED BY <1>3

-----------------------------------------------------------------------------
(* What serial_putchar sends for a text.                                   *)

OfCharacter(c) == IF c = "LF" THEN <<"CR", "LF">> ELSE <<c>>

Translation(text, n, f) ==
  f = [i \in 0 .. n |-> IF i = 0 THEN <<>> ELSE f[i - 1] \o OfCharacter(text[i])]

(* The recursion in Expand has a solution.                                 *)
LEMMA TranslationExists ==
  ASSUME NEW text, NEW n \in Nat PROVE \E f : Translation(text, n, f)
<1>. DEFINE Has(m) == \E f : Translation(text, m, f)
            S == {m \in Nat : ~Has(m)}
<1>1. Has(0)
  <2>. DEFINE f == [i \in 0 .. 0 |-> <<>>]
  <2>1. f = [i \in 0 .. 0 |-> IF i = 0 THEN <<>>
                              ELSE f[i - 1] \o OfCharacter(text[i])]
    OBVIOUS
  <2>. QED BY <2>1 DEF Translation
<1>2. ASSUME NEW m \in Nat, Has(m) PROVE Has(m + 1)
  <2>1. PICK f : Translation(text, m, f)
    BY <1>2
  <2>. DEFINE g == [i \in 0 .. m + 1 |-> IF i = 0 THEN <<>>
                                 ELSE f[i - 1] \o OfCharacter(text[i])]
  <2>2. \A i \in 0 .. m : g[i] = f[i]
    BY <2>1 DEF Translation
  <2>3. g = [i \in 0 .. m + 1 |-> IF i = 0 THEN <<>>
                                  ELSE g[i - 1] \o OfCharacter(text[i])]
    <3>1. \A i \in 0 .. m + 1 : i # 0 => g[i - 1] = f[i - 1]
      <4>1. \A i \in 0 .. m + 1 : i # 0 => i - 1 \in 0 .. m
        OBVIOUS
      <4>. HIDE DEF g
      <4>. QED BY <2>2, <4>1, Zenon
    <3>. HIDE DEF g
    <3>2. \A i \in 0 .. m + 1 :
            (IF i = 0 THEN <<>> ELSE f[i - 1] \o OfCharacter(text[i]))
              = IF i = 0 THEN <<>> ELSE g[i - 1] \o OfCharacter(text[i])
      BY <3>1
    <3>. QED BY <3>2 DEF g
  <2>. HIDE DEF g
  <2>. QED BY <2>3 DEF Translation
<1>. HIDE DEF Has
<1>3. S = {}
  <2>. SUFFICES ASSUME S # {} PROVE FALSE
    OBVIOUS
  <2>1. PICK m \in S : \A y \in S : m <= y
    BY SmallestNumber
  <2>2. m \in Nat /\ ~Has(m) /\ m # 0
    BY <1>1
  <2>3. m - 1 \in Nat /\ m - 1 \notin S /\ (m - 1) + 1 = m
    BY <2>1, <2>2
  <2>4. Has(m - 1)
    BY <2>3
  <2>. QED BY <1>2, <2>2, <2>3, <2>4
<1>4. Has(n)
  BY <1>3
<1>. QED BY <1>4 DEF Has

(* A text becomes a sequence of bytes.                                     *)
LEMMA ExpandIsBytes ==
  ASSUME NEW text \in Bytes PROVE Expand(text) \in Bytes
<1>. DEFINE n == Len(text)
            f == CHOOSE g : Translation(text, n, g)
<1>1. n \in Nat
  BY DEF Bytes
<1>2. Expand(text) = f[n]
  BY DEF Expand, Translation, OfCharacter
<1>3. Translation(text, n, f)
  BY <1>1, TranslationExists, Zenon
<1>. HIDE DEF f
<1>. DEFINE S == {i \in Nat : i <= n /\ f[i] \notin Bytes}
<1>4. S = {}
  <2>. SUFFICES ASSUME S # {} PROVE FALSE
    OBVIOUS
  <2>1. PICK m \in S : \A y \in S : m <= y
    BY SmallestNumber
  <2>2. m \in 0 .. n
    BY <1>1
  <2>3. f[m] = IF m = 0 THEN <<>> ELSE f[m - 1] \o OfCharacter(text[m])
    BY <1>3, <2>2, Zenon DEF Translation
  <2>4. m # 0
    <3>1. <<>> \in Bytes
      BY DEF Bytes
    <3>. QED BY <2>3, <3>1
  <2>5. m - 1 \in Nat /\ m - 1 <= n /\ m - 1 \notin S /\ m \in 1 .. n
    BY <1>1, <2>1, <2>2, <2>4
  <2>6. f[m - 1] \in Bytes
    BY <2>5
  <2>7. OfCharacter(text[m]) \in Bytes
    <3>1. text[m] \in Byte
      BY <2>5 DEF Bytes
    <3>. DEFINE c == text[m]
    <3>. HIDE DEF c
    <3>2. "CR" \in Byte /\ "LF" \in Byte
      BY DEF Byte
    <3>6. c \in Byte
      BY <3>1 DEF c
    <3>3. \A x \in Byte : <<x>> \in Seq(Byte)
      OBVIOUS
    <3>4. \A x, y \in Byte : <<x, y>> \in Seq(Byte)
      OBVIOUS
    <3>5. OfCharacter(c) \in Bytes
      BY <3>2, <3>6, <3>3, <3>4, Zenon DEF OfCharacter, Bytes
    <3>. QED BY <3>5 DEF c
  <2>8. f[m] \in Bytes
    BY <2>3, <2>4, <2>6, <2>7 DEF Bytes
  <2>. QED BY <2>8
<1>. QED BY <1>1, <1>2, <1>4

-----------------------------------------------------------------------------
(* Writing a text again and again.                                         *)

Repeated(text, n) ==
  [i \in 1 .. n * Len(text) |-> text[((i - 1) % Len(text)) + 1]]

(* Quotient and remainder are unique.                                      *)
LEMMA RemainderIs ==
  ASSUME NEW m \in Nat, NEW q \in Nat, NEW r \in 0 .. m - 1
  PROVE  (q * m + r) % m = r
<1>. DEFINE a == q * m + r
            d == a \div m
            e == a % m
<1>1. m > 0 /\ a \in Int
  BY Z3
<1>. HIDE DEF a
<1>2. d \in Int /\ e \in 0 .. m - 1 /\ a = m * d + e
  BY <1>1, Z3
<1>. HIDE DEF d, e
<1>3. q * m = m * q /\ m * q + r = m * d + e
  BY <1>2, Z3 DEF a
<1>4. d <= q
  <2>1. SUFFICES ASSUME d >= q + 1 PROVE FALSE
    BY <1>2
  <2>2. m * d >= m * (q + 1)
    BY <1>1, <1>2, <2>1, Z3
  <2>3. m * (q + 1) = m * q + m
    BY Z3
  <2>4. m * q \in Int /\ m * d \in Int
    BY <1>2, Z3
  <2>. QED BY <1>2, <1>3, <2>2, <2>3, <2>4
<1>5. d >= q
  <2>1. SUFFICES ASSUME q >= d + 1 PROVE FALSE
    BY <1>2
  <2>2. m * q >= m * (d + 1)
    BY <1>1, <1>2, <2>1, Z3
  <2>3. m * (d + 1) = m * d + m
    BY <1>2, Z3
  <2>4. m * q \in Int /\ m * d \in Int
    BY <1>2, Z3
  <2>. QED BY <1>2, <1>3, <2>2, <2>3, <2>4
<1>6. d = q
  BY <1>2, <1>4, <1>5
<1>7. m * d = m * q /\ m * q \in Int
  BY <1>6, Z3
<1>8. e = r
  BY <1>2, <1>3, <1>7
<1>. QED BY <1>8 DEF e, a

(* It is a sequence of bytes of that length.                               *)
LEMMA RepeatedIsBytes ==
  ASSUME NEW text \in Bytes, NEW n \in Nat
  PROVE  Repeated(text, n) \in Bytes /\ Len(Repeated(text, n)) = n * Len(text)
<1>. DEFINE m == Len(text)
            k == n * m
<1>1. m \in Nat /\ \A i \in 1 .. m : text[i] \in Byte
  BY DEF Bytes
<1>. HIDE DEF m
<1>2. k \in Nat /\ (k > 0 => m > 0)
  BY <1>1, Z3
<1>. HIDE DEF k
<1>3. ASSUME NEW i \in 1 .. k PROVE text[((i - 1) % m) + 1] \in Byte
  <2>1. m > 0 /\ i - 1 \in Nat
    BY <1>2
  <2>2. (i - 1) % m \in 0 .. m - 1
    BY <1>1, <2>1, Z3
  <2>3. ((i - 1) % m) + 1 \in 1 .. m
    BY <1>1, <2>2
  <2>. QED BY <1>1, <2>3
<1>4. Repeated(text, n) = [i \in 1 .. k |-> text[((i - 1) % m) + 1]]
  BY DEF Repeated, k, m
<1>. DEFINE At1(i) == text[((i - 1) % m) + 1]
<1>5. \A i \in 1 .. k : At1(i) \in Byte
  BY <1>3
<1>. HIDE DEF At1
<1>6. [i \in 1 .. k |-> At1(i)] \in Seq(Byte)
      /\ Len([i \in 1 .. k |-> At1(i)]) = k
  BY <1>2, <1>5, IsASeq
<1>. QED BY <1>4, <1>6 DEF Bytes, At1, k, m

(* Once more.                                                              *)
LEMMA RepeatedMore ==
  ASSUME NEW text \in Bytes, NEW n \in Nat
  PROVE  Repeated(text, n + 1) = Repeated(text, n) \o text
<1>. DEFINE m == Len(text)
            k == n * m
            a == Repeated(text, n + 1)
            b == Repeated(text, n) \o text
<1>1. m \in Nat
  BY DEF Bytes
<1>2. n + 1 \in Nat /\ k \in Nat /\ (n + 1) * m = k + m
  BY <1>1, Z3
<1>3. a \in Bytes /\ Len(a) = k + m
  BY <1>2, RepeatedIsBytes
<1>4. Repeated(text, n) \in Bytes /\ Len(Repeated(text, n)) = k
  BY RepeatedIsBytes
<1>5. b \in Bytes /\ Len(b) = k + m
      /\ \A i \in 1 .. k + m : b[i] = IF i <= k THEN Repeated(text, n)[i]
                                      ELSE text[i - k]
  BY <1>1, <1>2, <1>4 DEF Bytes
<1>6. ASSUME NEW i \in 1 .. k + m PROVE a[i] = b[i]
  <2>1. a[i] = text[((i - 1) % m) + 1]
    BY <1>2 DEF Repeated
  <2>2. CASE i <= k
    <3>1. i \in 1 .. k
      BY <1>1, <1>2, <2>2
    <3>2. Repeated(text, n)[i] = text[((i - 1) % m) + 1]
      BY <3>1 DEF Repeated
    <3>3. b[i] = Repeated(text, n)[i]
      BY <1>5, <2>2
    <3>. HIDE DEF a, b, k, m
    <3>. QED BY <2>1, <3>2, <3>3
  <2>3. CASE i > k
    <3>. DEFINE r == (i - k) - 1
    <3>1. r \in 0 .. m - 1 /\ i - 1 = k + r /\ r + 1 = i - k /\ ~(i <= k)
      BY <1>1, <1>2, <2>3
    <3>. HIDE DEF r
    <3>2. (k + r) % m = r
      BY <1>1, <3>1, RemainderIs
    <3>3. ((i - 1) % m) + 1 = i - k
      BY <3>1, <3>2
    <3>4. b[i] = text[i - k]
      BY <1>5, <3>1
    <3>. HIDE DEF a, b, k, m
    <3>. QED BY <2>1, <3>3, <3>4, Zenon
  <2>4. i <= k \/ i > k
    BY <1>1, <1>2
  <2>. HIDE DEF a, b, k, m
  <2>. QED BY <2>2, <2>3, <2>4
<1>. HIDE DEF a, b, k
<1>7. a = b
  BY <1>3, <1>5, <1>6, SeqEqual DEF Bytes
<1>. QED BY <1>7 DEF a, b

(* What a writer writes for one message or heartbeat.                      *)
LEMMA TextIsBytes == \A w : Expand(Text(w)) \in Bytes
<1>. DEFINE S == STRING
<1>1. LogText \in Seq(S) /\ HeartbeatText \in Seq(S)
  BY SerialConstants, Zenon
<1>2. S \subseteq Byte
  BY DEF Byte
<1>. HIDE DEF S
<1>3. LogText \in Bytes /\ HeartbeatText \in Bytes
  BY <1>1, <1>2, SeqMonotonic DEF Bytes
<1>. QED BY <1>3, ExpandIsBytes, Zenon DEF Text

(* What a writer was asked to write.                                       *)
LEMMA AskedIs == ASSUME NEW w PROVE Asked(w) = Repeated(Expand(Text(w)), Count(w))
BY Zenon DEF Asked, Repeated, Text, Count

-----------------------------------------------------------------------------
(* The inductive invariant.                                                *)

Places == {"boot", "probe", "idle", "check", "poll", "out"}
WriterStates == [at : Places, rest : Bytes, timeout : Nat]

TypeInv ==
  /\ serial_initialized \in BOOLEAN
  /\ writer \in [Writers -> WriterStates]
  /\ sent \in [Writers -> Bytes]
  /\ fifo \in Nat /\ logs \in Nat /\ beats \in Nat

(* Before the port is probed nothing was written and no heartbeat comes.   *)
BootInv ==
  /\ writer["irq0"].at \notin {"boot", "probe"}
  /\ writer["main"].at \in {"boot", "probe"} =>
       /\ writer["irq0"].at = "idle"
       /\ logs = 0 /\ beats = 0
       /\ \A w \in Writers : sent[w] = <<>>

(* Who has seen the transmitter empty still finds room in it: the handler  *)
(* finds it empty; the foreground, which the handler may have interrupted, *)
(* finds at most one byte, as the handler waits before each of its own.    *)
RoomInv ==
  /\ writer["irq0"].at = "out" => fifo = 0
  /\ writer["main"].at = "out" => fifo <= 1

(* A writer between two texts has nothing left, one at a byte has a byte.  *)
RestOf(w) ==
  /\ writer[w].at \in {"boot", "probe", "idle"} => writer[w].rest = <<>>
  /\ writer[w].at \in {"poll", "out"} => writer[w].rest # <<>>

(* What was sent is a first part of what was asked for; while the port is  *)
(* on, and for a writer that has passed its test of the flag even when it  *)
(* has gone off since, the rest is what is missing.                        *)
IntactOf(w) ==
  /\ \E missing \in Bytes : sent[w] \o missing = Asked(w)
  /\ serial_initialized \/ writer[w].at \in {"poll", "out"} =>
       sent[w] \o writer[w].rest = Asked(w)

SerialInv ==
  /\ TypeInv /\ BootInv /\ RoomInv
  /\ \A w \in Writers : RestOf(w) /\ IntactOf(w)

(* What is asked for is a sequence of bytes, nothing at first.             *)
LEMMA AskedIsBytes ==
  ASSUME TypeInv, NEW w \in Writers
  PROVE  Asked(w) \in Bytes /\ (Count(w) = 0 => Asked(w) = <<>>)
<1>. DEFINE text == Expand(Text(w))
<1>1. Count(w) \in Nat
  BY DEF TypeInv, Count
<1>2. text \in Bytes
  BY TextIsBytes
<1>. HIDE DEF text
<1>3. Len(text) \in Nat
  BY <1>2 DEF Bytes
<1>4. Repeated(text, Count(w)) \in Bytes
      /\ Len(Repeated(text, Count(w))) = Count(w) * Len(text)
  BY <1>1, <1>2, RepeatedIsBytes
<1>5. ASSUME Count(w) = 0 PROVE Repeated(text, Count(w)) = <<>>
  <2>1. Len(Repeated(text, Count(w))) = 0
    BY <1>3, <1>4, <1>5
  <2>. QED BY <1>4, <2>1, EmptySeq DEF Bytes
<1>. QED BY <1>4, <1>5, AskedIs DEF text

(* A writer's new state.                                                   *)
LEMMA AtIsWriter ==
  ASSUME NEW at \in Places, NEW rest \in Bytes
  PROVE  /\ At(at, rest) \in WriterStates
         /\ At(at, rest).at = at /\ At(at, rest).rest = rest
<1>1. SERIAL_TRANSMIT_TIMEOUT \in Nat
  BY SerialConstants
<1>. QED BY <1>1 DEF At, WriterStates

(* The empty port satisfies it.                                            *)
LEMMA InitEstablishesSerial == SerialInit => SerialInv
<1>. SUFFICES ASSUME SerialInit PROVE SerialInv
  OBVIOUS
<1>1. <<>> \in Bytes
  BY DEF Bytes
<1>2. At("boot", <<>>) \in WriterStates /\ Idle \in WriterStates
  BY <1>1, AtIsWriter DEF Idle, Places
<1>3. TypeInv
  <2>1. writer \in [Writers -> WriterStates]
    BY <1>2 DEF SerialInit
  <2>2. sent \in [Writers -> Bytes]
    BY <1>1 DEF SerialInit
  <2>3. fifo \in Nat /\ logs \in Nat /\ beats \in Nat
    BY DEF SerialInit
  <2>4. serial_initialized \in BOOLEAN
    BY Zenon DEF SerialInit
  <2>. QED BY <2>1, <2>2, <2>3, <2>4 DEF TypeInv
<1>4. /\ writer["irq0"].at = "idle" /\ writer["main"].at = "boot"
      /\ \A w \in Writers : sent[w] = <<>> /\ writer[w].rest = <<>>
                            /\ writer[w].at \notin {"poll", "out"}
      /\ \A w \in Writers : Count(w) = 0
      /\ logs = 0 /\ beats = 0
  BY DEF SerialInit, At, Idle, Writers, Count
<1>5. BootInv /\ RoomInv
  BY <1>4 DEF BootInv, RoomInv
<1>6. ASSUME NEW w \in Writers PROVE RestOf(w) /\ IntactOf(w)
  <2>1. Asked(w) = <<>>
    BY <1>3, <1>4, AskedIsBytes
  <2>2. <<>> \o <<>> = <<>>
    OBVIOUS
  <2>. QED BY <1>1, <1>4, <2>1, <2>2 DEF RestOf, IntactOf
<1>. QED BY <1>3, <1>5, <1>6 DEF SerialInv

(* A step that leaves a writer alone and does not turn the port on.        *)
LEMMA OtherWriterIntact ==
  ASSUME NEW w \in Writers, RestOf(w), IntactOf(w),
         writer'[w] = writer[w], sent'[w] = sent[w], Count(w)' = Count(w),
         serial_initialized' => serial_initialized
  PROVE  (RestOf(w) /\ IntactOf(w))'
<1>1. Asked(w)' = Asked(w)
  <2>1. Asked(w) = Repeated(Expand(Text(w)), Count(w))
    BY AskedIs
  <2>2. Asked(w)' = Repeated(Expand(Text(w)), Count(w)')
    BY Zenon DEF Asked, Repeated, Text, Count
  <2>. QED BY <2>1, <2>2
<1>2. RestOf(w)'
  BY DEF RestOf
<1>. HIDE DEF Asked
<1>3. IntactOf(w)'
  BY <1>1 DEF IntactOf
<1>. QED BY <1>2, <1>3

(* The writers' old states, in parts.                                      *)
LEMMA WriterParts ==
  ASSUME TypeInv, NEW w \in Writers
  PROVE  /\ writer[w] \in WriterStates /\ writer[w].at \in Places
         /\ writer[w].rest \in Bytes /\ writer[w].timeout \in Nat
         /\ sent[w] \in Bytes
<1>1. writer[w] \in WriterStates /\ sent[w] \in Bytes
  BY DEF TypeInv
<1>. QED BY <1>1 DEF WriterStates

(* serial_initialize programs the port.                                    *)
LEMMA ProgramPortKeeps == ASSUME SerialInv, ProgramPort PROVE SerialInv'
<1>1. TypeInv /\ BootInv /\ RoomInv /\ \A w \in Writers : RestOf(w) /\ IntactOf(w)
  BY DEF SerialInv
<1>. DEFINE new == At("probe", <<>>)
<1>2. new \in WriterStates /\ new.at = "probe" /\ new.rest = <<>>
  <2>1. <<>> \in Bytes
    BY DEF Bytes
  <2>. QED BY <2>1, AtIsWriter DEF Places
<1>. HIDE DEF new
<1>3. /\ writer' = [writer EXCEPT !["main"] = new]
      /\ writer["main"].at = "boot"
      /\ ~serial_initialized' /\ serial_initialized' \in BOOLEAN
      /\ sent' = sent /\ logs' = logs /\ beats' = beats
  BY DEF ProgramPort, new
<1>4. fifo' \in Nat
  BY <1>1 DEF ProgramPort, TypeInv
<1>5. TypeInv'
  BY <1>1, <1>2, <1>3, <1>4 DEF TypeInv
<1>6. /\ writer'["main"] = new /\ writer'["irq0"] = writer["irq0"]
  BY <1>1, <1>3 DEF TypeInv, Writers
<1>7. BootInv' /\ RoomInv'
  BY <1>1, <1>2, <1>3, <1>6 DEF BootInv, RoomInv
<1>8. ASSUME NEW w \in Writers PROVE (RestOf(w) /\ IntactOf(w))'
  <2>1. Count(w)' = Count(w) /\ Count(w) = 0 /\ sent[w] = <<>>
    BY <1>1, <1>3 DEF Count, BootInv
  <2>2. CASE w = "main"
    <3>1. (Asked(w) = <<>>)'
      <4>1. (TypeInv => (Count(w) = 0 => Asked(w) = <<>>))'
        BY AskedIsBytes, PTL
      <4>. QED BY <1>5, <2>1, <4>1
    <3>2. <<>> \o <<>> = <<>> /\ <<>> \in Bytes
      BY DEF Bytes
    <3>3. RestOf(w)'
      BY <1>2, <1>6, <2>2 DEF RestOf
    <3>4. sent'[w] = <<>> /\ writer'[w].rest = <<>>
      BY <1>2, <1>3, <1>6, <2>1, <2>2
    <3>5. IntactOf(w)'
      BY <3>1, <3>2, <3>4 DEF IntactOf
    <3>. QED BY <3>3, <3>5
  <2>3. CASE w = "irq0"
    BY <1>1, <1>3, <1>6, <2>1, <2>3, OtherWriterIntact
  <2>. QED BY <2>2, <2>3 DEF Writers
<1>. QED BY <1>5, <1>7, <1>8 DEF SerialInv

(* It waits for the port to answer, and klog_initialize notes the result.  *)
LEMMA ProbeKeeps == ASSUME SerialInv, Probe PROVE SerialInv'
<1>1. TypeInv /\ BootInv /\ RoomInv /\ \A w \in Writers : RestOf(w) /\ IntactOf(w)
  BY DEF SerialInv
<1>2. /\ Idle \in WriterStates /\ Idle.at = "idle" /\ Idle.rest = <<>>
  <2>1. <<>> \in Bytes
    BY DEF Bytes
  <2>. QED BY <2>1, AtIsWriter DEF Places, Idle
<1>. DEFINE old == writer["main"]
<1>3. /\ old \in WriterStates /\ old.at = "probe" /\ old.rest = <<>>
      /\ "main" \in Writers
  <2>1. old.at = "probe" /\ "main" \in Writers
    BY DEF Probe, Writers
  <2>. QED BY <1>1, <2>1, WriterParts DEF RestOf
<1>4. PICK new : /\ new \in WriterStates /\ new.at \in {"idle", "probe"}
                 /\ new.rest = <<>>
                 /\ writer' = [writer EXCEPT !["main"] = new]
  <2>1. CASE writer' = [writer EXCEPT !["main"] = Idle]
    BY <1>2, <2>1
  <2>2. CASE writer["main"].timeout > 0
             /\ writer' = [writer EXCEPT !["main"].timeout = @ - 1]
    <3>. DEFINE n == [old EXCEPT !.timeout = @ - 1]
    <3>1. old.timeout \in Nat /\ old.timeout > 0
      BY <1>3, <2>2 DEF WriterStates
    <3>2. n \in WriterStates /\ n.at = "probe" /\ n.rest = <<>>
      BY <1>3, <3>1 DEF WriterStates
    <3>3. writer' = [writer EXCEPT !["main"] = n]
      BY <1>1, <2>2 DEF TypeInv
    <3>. HIDE DEF n
    <3>. QED BY <3>2, <3>3
  <2>. QED BY <2>1, <2>2, Zenon DEF Probe, ProbeEnds
<1>5. serial_initialized' \in BOOLEAN
  BY <1>1 DEF Probe, ProbeEnds, TypeInv
<1>6. sent' = sent /\ logs' = logs /\ beats' = beats /\ fifo' = fifo
  BY DEF Probe
<1>7. TypeInv'
  BY <1>1, <1>4, <1>5, <1>6 DEF TypeInv
<1>8. writer'["main"] = new /\ writer'["irq0"] = writer["irq0"]
  BY <1>1, <1>4 DEF TypeInv, Writers
<1>9. BootInv' /\ RoomInv'
  BY <1>1, <1>3, <1>4, <1>6, <1>8 DEF BootInv, RoomInv
<1>10. ASSUME NEW w \in Writers PROVE (RestOf(w) /\ IntactOf(w))'
  <2>1. Count(w)' = Count(w) /\ Count(w) = 0 /\ sent[w] = <<>>
    BY <1>1, <1>3, <1>6 DEF Count, BootInv
  <2>2. writer[w].rest = <<>> /\ writer'[w].rest = <<>>
        /\ writer'[w].at \in {"idle", "probe"}
    BY <1>1, <1>3, <1>4, <1>8 DEF BootInv, RestOf, Writers
  <2>3. (Asked(w) = <<>>)'
    <3>1. (TypeInv => (Count(w) = 0 => Asked(w) = <<>>))'
      BY AskedIsBytes, PTL
    <3>. QED BY <1>7, <2>1, <3>1
  <2>4. <<>> \o <<>> = <<>> /\ <<>> \in Bytes
    BY DEF Bytes
  <2>5. RestOf(w)'
    BY <2>2 DEF RestOf
  <2>6. IntactOf(w)'
    BY <1>6, <2>1, <2>2, <2>3, <2>4 DEF IntactOf
  <2>. QED BY <2>5, <2>6
<1>. QED BY <1>7, <1>9, <1>10 DEF SerialInv

(* Bytes in a row.                                                         *)
LEMMA BytesAssociate ==
  ASSUME NEW a \in Bytes, NEW b \in Bytes, NEW c \in Bytes
  PROVE  (a \o b) \o c = a \o (b \o c)
BY ConcatAssociative DEF Bytes

(* One text more is asked for, and its writer has all of it before it.     *)
LEMMA TextBegins ==
  ASSUME TypeInv, NEW w \in Writers, RestOf(w), IntactOf(w),
         writer[w].at = "idle",
         writer'[w] = At("check", Expand(Text(w))), sent'[w] = sent[w],
         Count(w)' = Count(w) + 1,
         serial_initialized' = serial_initialized
  PROVE  (RestOf(w) /\ IntactOf(w))'
<1>. DEFINE text == Expand(Text(w))
<1>1. text \in Bytes /\ Asked(w) \in Bytes /\ sent[w] \in Bytes
  BY TextIsBytes, AskedIsBytes, WriterParts
<1>2. Count(w) \in Nat
  BY DEF TypeInv, Count
<1>3. Asked(w)' = Asked(w) \o text
  <2>1. Asked(w) = Repeated(text, Count(w))
    BY AskedIs
  <2>2. Asked(w)' = Repeated(text, Count(w)')
    BY Zenon DEF Asked, Repeated, Text, Count
  <2>3. Repeated(text, Count(w) + 1) = Repeated(text, Count(w)) \o text
    BY <1>1, <1>2, RepeatedMore
  <2>. QED BY <2>1, <2>2, <2>3
<1>. HIDE DEF text
<1>4. writer'[w].at = "check" /\ writer'[w].rest = text
  BY <1>1, AtIsWriter DEF text, Places
<1>5. RestOf(w)'
  BY <1>4 DEF RestOf
<1>6. \E missing \in Bytes : sent[w] \o missing = Asked(w) \o text
  <2>1. PICK missing \in Bytes : sent[w] \o missing = Asked(w)
    BY DEF IntactOf
  <2>2. missing \o text \in Bytes
    BY <1>1 DEF Bytes
  <2>3. sent[w] \o (missing \o text) = Asked(w) \o text
    <3>1. (sent[w] \o missing) \o text = sent[w] \o (missing \o text)
      BY <1>1, <2>1, BytesAssociate
    <3>. QED BY <2>1, <3>1, Zenon
  <2>. QED BY <2>2, <2>3
<1>7. ASSUME serial_initialized PROVE sent[w] \o text = Asked(w) \o text
  <2>1. sent[w] \o <<>> = Asked(w)
    BY <1>7 DEF IntactOf, RestOf
  <2>2. sent[w] \o <<>> = sent[w]
    BY <1>1, ConcatEmptySeq DEF Bytes
  <2>. QED BY <2>1, <2>2
<1>8. IntactOf(w)'
  BY <1>3, <1>4, <1>6, <1>7 DEF IntactOf
<1>. QED BY <1>5, <1>8

(* klog_writestring begins a message.                                      *)
LEMMA LogKeeps == ASSUME SerialInv, klog_writestring PROVE SerialInv'
<1>1. TypeInv /\ BootInv /\ RoomInv /\ \A w \in Writers : RestOf(w) /\ IntactOf(w)
  BY DEF SerialInv
<1>. DEFINE new == At("check", Expand(Text("main")))
<1>2. new \in WriterStates /\ new.at = "check"
  BY TextIsBytes, AtIsWriter DEF Places
<1>3. new = At("check", Expand(LogText)) /\ "main" \in Writers
  BY DEF Text, Writers
<1>. HIDE DEF new
<1>4. /\ writer' = [writer EXCEPT !["main"] = new]
      /\ writer["main"].at = "idle"
      /\ serial_initialized' = serial_initialized
      /\ sent' = sent /\ logs' = logs + 1 /\ beats' = beats /\ fifo' = fifo
  BY <1>3 DEF klog_writestring
<1>5. TypeInv'
  <2>1. writer' \in [Writers -> WriterStates]
    BY <1>1, <1>2, <1>4 DEF TypeInv
  <2>2. logs' \in Nat /\ beats' \in Nat
    BY <1>1, <1>4 DEF TypeInv
  <2>. QED BY <1>1, <1>4, <2>1, <2>2, Zenon DEF TypeInv
<1>6. writer'["main"] = new /\ writer'["irq0"] = writer["irq0"]
  BY <1>1, <1>4 DEF TypeInv, Writers
<1>7. BootInv' /\ RoomInv'
  BY <1>1, <1>2, <1>4, <1>6 DEF BootInv, RoomInv
<1>8. Count("main")' = Count("main") + 1 /\ Count("irq0")' = Count("irq0")
  BY <1>4 DEF Count
<1>9. (RestOf("main") /\ IntactOf("main"))'
  BY <1>1, <1>3, <1>4, <1>6, <1>8, TextBegins DEF new
<1>10. (RestOf("irq0") /\ IntactOf("irq0"))'
  BY <1>1, <1>4, <1>6, <1>8, OtherWriterIntact DEF Writers
<1>. QED BY <1>5, <1>7, <1>9, <1>10 DEF SerialInv, Writers

(* pit_handle_interrupt begins a heartbeat.                                *)
LEMMA HeartbeatKeeps == ASSUME SerialInv, Heartbeat PROVE SerialInv'
<1>1. TypeInv /\ BootInv /\ RoomInv /\ \A w \in Writers : RestOf(w) /\ IntactOf(w)
  BY DEF SerialInv
<1>. DEFINE new == At("check", Expand(Text("irq0")))
<1>2. new \in WriterStates /\ new.at = "check"
  BY TextIsBytes, AtIsWriter DEF Places
<1>3. new = At("check", Expand(HeartbeatText)) /\ "irq0" \in Writers
  BY DEF Text, Writers
<1>. HIDE DEF new
<1>4. /\ writer' = [writer EXCEPT !["irq0"] = new]
      /\ writer["irq0"].at = "idle"
      /\ writer["main"].at \notin {"boot", "probe"}
      /\ serial_initialized' = serial_initialized
      /\ sent' = sent /\ logs' = logs /\ beats' = beats + 1 /\ fifo' = fifo
  BY <1>3 DEF Heartbeat
<1>5. TypeInv'
  <2>1. writer' \in [Writers -> WriterStates]
    BY <1>1, <1>2, <1>4 DEF TypeInv
  <2>2. logs' \in Nat /\ beats' \in Nat
    BY <1>1, <1>4 DEF TypeInv
  <2>. QED BY <1>1, <1>4, <2>1, <2>2, Zenon DEF TypeInv
<1>6. writer'["irq0"] = new /\ writer'["main"] = writer["main"]
  BY <1>1, <1>4 DEF TypeInv, Writers
<1>7. BootInv' /\ RoomInv'
  BY <1>1, <1>2, <1>4, <1>6 DEF BootInv, RoomInv
<1>8. Count("irq0")' = Count("irq0") + 1 /\ Count("main")' = Count("main")
  BY <1>4 DEF Count
<1>9. (RestOf("irq0") /\ IntactOf("irq0"))'
  BY <1>1, <1>3, <1>4, <1>6, <1>8, TextBegins DEF new
<1>10. (RestOf("main") /\ IntactOf("main"))'
  BY <1>1, <1>4, <1>6, <1>8, OtherWriterIntact DEF Writers
<1>. QED BY <1>5, <1>7, <1>9, <1>10 DEF SerialInv, Writers

(* The port shifts a byte out.                                             *)
LEMMA TransmitKeeps == ASSUME SerialInv, Transmit PROVE SerialInv'
<1>1. TypeInv /\ BootInv /\ RoomInv /\ \A w \in Writers : RestOf(w) /\ IntactOf(w)
  BY DEF SerialInv
<1>2. /\ writer' = writer /\ sent' = sent /\ logs' = logs /\ beats' = beats
      /\ serial_initialized' = serial_initialized
  BY DEF Transmit
<1>3. fifo \in Nat /\ fifo > 0 /\ fifo' = fifo - 1
  BY <1>1 DEF Transmit, TypeInv
<1>4. fifo' \in Nat /\ fifo # 0 /\ (fifo <= 1 => fifo' <= 1)
  BY <1>3
<1>5. TypeInv' /\ BootInv'
  BY <1>1, <1>2, <1>4 DEF TypeInv, BootInv
<1>6. RoomInv'
  BY <1>1, <1>2, <1>4 DEF RoomInv
<1>7. ASSUME NEW w \in Writers PROVE (RestOf(w) /\ IntactOf(w))'
  <2>1. Count(w)' = Count(w)
    BY <1>2 DEF Count
  <2>. QED BY <1>1, <1>2, <2>1, OtherWriterIntact
<1>. QED BY <1>5, <1>6, <1>7 DEF SerialInv

-----------------------------------------------------------------------------
(* The steps of a writer.                                                  *)

(* All that a writer's step may change of the other writer and of the      *)
(* bounds; what it does to the writer itself is a matter of each step.     *)
Moves(w, new) ==
  /\ TypeInv /\ BootInv /\ \A v \in Writers : RestOf(v) /\ IntactOf(v)
  /\ w \in Writers /\ new \in WriterStates
  /\ writer[w].at \in {"check", "poll", "out"} /\ Runs(w)
  /\ writer' = [writer EXCEPT ![w] = new]
  /\ new.at \in {"idle", "check", "poll", "out"}
  /\ serial_initialized' \in BOOLEAN
  /\ serial_initialized' => serial_initialized
  /\ logs' = logs /\ beats' = beats /\ fifo' \in Nat
  /\ sent' \in [Writers -> Bytes]
  /\ \A v \in Writers : v # w => sent'[v] = sent[v]

(* Then only the room and the writer itself are left to show.              *)
LEMMA WriterMoves ==
  ASSUME NEW w, NEW new, Moves(w, new), RoomInv', (RestOf(w) /\ IntactOf(w))'
  PROVE  SerialInv'
<1>1. /\ TypeInv /\ BootInv /\ \A v \in Writers : RestOf(v) /\ IntactOf(v)
      /\ w \in Writers /\ new \in WriterStates
      /\ writer[w].at \in {"check", "poll", "out"}
      /\ writer' = [writer EXCEPT ![w] = new]
      /\ new.at \in {"idle", "check", "poll", "out"}
      /\ serial_initialized' \in BOOLEAN
      /\ serial_initialized' => serial_initialized
      /\ logs' = logs /\ beats' = beats /\ fifo' \in Nat
      /\ sent' \in [Writers -> Bytes]
      /\ \A v \in Writers : v # w => sent'[v] = sent[v]
  BY DEF Moves
<1>2. TypeInv'
  <2>1. writer' \in [Writers -> WriterStates]
    BY <1>1 DEF TypeInv
  <2>. QED BY <1>1, <2>1, Zenon DEF TypeInv
<1>3. writer'[w] = new /\ \A v \in Writers : v # w => writer'[v] = writer[v]
  BY <1>1 DEF TypeInv
<1>4. BootInv'
  <2>1. writer["main"].at \notin {"boot", "probe"}
    BY <1>1 DEF BootInv, Writers
  <2>2. \A v \in Writers : writer'[v].at \notin {"boot", "probe"}
    BY <1>1, <1>3, <2>1 DEF BootInv, Writers
  <2>. QED BY <2>2 DEF BootInv, Writers
<1>5. ASSUME NEW v \in Writers PROVE (RestOf(v) /\ IntactOf(v))'
  <2>1. Count(v)' = Count(v)
    BY <1>1 DEF Count
  <2>2. CASE v # w
    BY <1>1, <1>3, <2>1, <2>2, OtherWriterIntact
  <2>. QED BY <2>2
<1>. QED BY <1>2, <1>4, <1>5 DEF SerialInv

(* A step that begins no text asks for nothing more.                       *)
LEMMA AskedStays ==
  ASSUME NEW w, logs' = logs, beats' = beats PROVE Asked(w)' = Asked(w)
<1>1. Asked(w) = Repeated(Expand(Text(w)), Count(w))
  BY AskedIs
<1>2. Asked(w)' = Repeated(Expand(Text(w)), Count(w)')
  BY Zenon DEF Asked, Repeated, Text, Count
<1>. QED BY <1>1, <1>2 DEF Count

(* The tail of what a writer has left.                                     *)
LEMMA TailIsBytes ==
  ASSUME NEW rest \in Bytes, rest # <<>>
  PROVE  Tail(rest) \in Bytes /\ Head(rest) \in Byte
BY HeadTailProperties DEF Bytes

(* A writer that is not to output has room enough.                         *)
LEMMA RoomStays ==
  ASSUME TypeInv, RoomInv, NEW w \in Writers, NEW new, fifo' = fifo,
         writer' = [writer EXCEPT ![w] = new], new.at # "out"
  PROVE  RoomInv'
<1>1. writer'[w] = new /\ \A v \in Writers : v # w => writer'[v] = writer[v]
  BY DEF TypeInv
<1>. QED BY <1>1 DEF RoomInv, Writers

(* serial_putchar tests the flag.                                          *)
LEMMA CheckKeeps ==
  ASSUME SerialInv, NEW w \in Writers, CheckInitialized(w) PROVE SerialInv'
<1>1. /\ TypeInv /\ BootInv /\ RoomInv
      /\ \A v \in Writers : RestOf(v) /\ IntactOf(v)
  BY DEF SerialInv
<1>. DEFINE rest == writer[w].rest
            new == IF rest = <<>> THEN Idle
                   ELSE IF serial_initialized THEN At("poll", rest)
                   ELSE At("check", Tail(rest))
<1>2. /\ writer[w].at = "check" /\ Runs(w)
      /\ writer' = [writer EXCEPT ![w] = new]
      /\ serial_initialized' = serial_initialized /\ sent' = sent
      /\ logs' = logs /\ beats' = beats /\ fifo' = fifo
  BY DEF CheckInitialized
<1>3. rest \in Bytes /\ <<>> \in Bytes
  BY <1>1, WriterParts DEF Bytes
<1>4. /\ new \in WriterStates /\ new.at \in {"idle", "check", "poll"}
      /\ new.at = "idle" => new.rest = <<>>
      /\ new.at = "poll" => new.rest = rest /\ new.rest # <<>> /\ serial_initialized
      /\ serial_initialized => new.rest = rest
  <2>1. CASE rest = <<>>
    BY <1>3, <2>1, AtIsWriter DEF Idle, Places
  <2>2. CASE rest # <<>> /\ serial_initialized
    BY <1>3, <2>2, AtIsWriter DEF Places
  <2>3. CASE rest # <<>> /\ ~serial_initialized
    <3>1. Tail(rest) \in Bytes
      BY <1>3, <2>3, TailIsBytes
    <3>2. new = At("check", Tail(rest))
      BY <2>3
    <3>. HIDE DEF new
    <3>. QED BY <2>3, <3>1, <3>2, AtIsWriter DEF Places
  <2>. QED BY <2>1, <2>2, <2>3
<1>. HIDE DEF new
<1>5. Moves(w, new)
  BY <1>1, <1>2, <1>4 DEF Moves, TypeInv
<1>6. RoomInv'
  BY <1>1, <1>2, <1>4, RoomStays
<1>7. writer'[w] = new
  BY <1>1, <1>2 DEF TypeInv
<1>8. Asked(w)' = Asked(w)
  BY <1>2, AskedStays
<1>9. RestOf(w)'
  BY <1>4, <1>7 DEF RestOf
<1>10. IntactOf(w)'
  BY <1>1, <1>2, <1>4, <1>7, <1>8 DEF IntactOf
<1>. QED BY <1>5, <1>6, <1>9, <1>10, WriterMoves

(* serial_wait_can_transmit reads the status once, and gives up at last.   *)
LEMMA WaitKeeps ==
  ASSUME SerialInv, NEW w \in Writers, serial_wait_can_transmit(w)
  PROVE  SerialInv'
<1>1. /\ TypeInv /\ BootInv /\ RoomInv
      /\ \A v \in Writers : RestOf(v) /\ IntactOf(v)
  BY DEF SerialInv
<1>. DEFINE old == writer[w]
<1>2. /\ old.at = "poll" /\ Runs(w) /\ sent' = sent
      /\ logs' = logs /\ beats' = beats /\ fifo' = fifo
  BY DEF serial_wait_can_transmit
<1>3. /\ old \in WriterStates /\ old.rest \in Bytes /\ old.rest # <<>>
      /\ old.timeout \in Nat
  BY <1>1, <1>2, WriterParts DEF RestOf
<1>4. Asked(w)' = Asked(w)
  BY <1>2, AskedStays
<1>5. sent[w] \o old.rest = Asked(w)
  BY <1>1, <1>2 DEF IntactOf
<1>6. \E missing \in Bytes : sent[w] \o missing = Asked(w)
  BY <1>1 DEF IntactOf
<1>7. ASSUME NEW new \in WriterStates, new.at \in {"poll", "out"},
             new.rest = old.rest, new.at = "out" => fifo = 0,
             writer' = [writer EXCEPT ![w] = new],
             serial_initialized' = serial_initialized
      PROVE  SerialInv'
  <2>1. Moves(w, new)
    BY <1>1, <1>2, <1>7 DEF Moves, TypeInv
  <2>2. writer'[w] = new /\ \A v \in Writers : v # w => writer'[v] = writer[v]
    BY <1>1, <1>7 DEF TypeInv
  <2>3. RoomInv'
    BY <1>1, <1>2, <1>7, <2>2 DEF RoomInv, Writers
  <2>4. RestOf(w)'
    BY <1>3, <1>7, <2>2 DEF RestOf
  <2>5. IntactOf(w)'
    BY <1>2, <1>4, <1>5, <1>6, <1>7, <2>2 DEF IntactOf
  <2>. QED BY <2>1, <2>3, <2>4, <2>5, WriterMoves
<1>8. CASE serial_can_transmit /\ writer' = [writer EXCEPT ![w].at = "out"]
           /\ UNCHANGED serial_initialized
  <2>. DEFINE new == [old EXCEPT !.at = "out"]
  <2>1. new \in WriterStates /\ new.at = "out" /\ new.rest = old.rest
    BY <1>3 DEF WriterStates, Places
  <2>2. writer' = [writer EXCEPT ![w] = new]
    BY <1>1, <1>8 DEF TypeInv
  <2>. HIDE DEF new
  <2>. QED BY <1>7, <1>8, <2>1, <2>2 DEF serial_can_transmit
<1>9. CASE writer[w].timeout > 0
           /\ writer' = [writer EXCEPT ![w].timeout = @ - 1]
           /\ UNCHANGED serial_initialized
  <2>. DEFINE new == [old EXCEPT !.timeout = @ - 1]
  <2>1. new \in WriterStates /\ new.at = "poll" /\ new.rest = old.rest
    BY <1>2, <1>3, <1>9 DEF WriterStates
  <2>2. writer' = [writer EXCEPT ![w] = new]
    BY <1>1, <1>9 DEF TypeInv
  <2>. HIDE DEF new
  <2>. QED BY <1>7, <1>9, <2>1, <2>2
<1>10. CASE serial_initialized' = FALSE
            /\ writer' = [writer EXCEPT ![w] = At("check", Tail(@.rest))]
  <2>. DEFINE new == At("check", Tail(old.rest))
  <2>1. new \in WriterStates /\ new.at = "check"
    BY <1>3, TailIsBytes, AtIsWriter DEF Places
  <2>2. writer' = [writer EXCEPT ![w] = new]
    BY <1>1, <1>10 DEF TypeInv
  <2>. HIDE DEF new
  <2>3. writer'[w] = new
    BY <1>1, <2>2 DEF TypeInv
  <2>4. serial_initialized' \in BOOLEAN
    BY <1>10, Zenon
  <2>5. Moves(w, new)
    BY <1>1, <1>2, <1>10, <2>1, <2>2, <2>4 DEF Moves, TypeInv
  <2>6. RoomInv'
    BY <1>1, <1>2, <2>1, <2>2, RoomStays
  <2>7. RestOf(w)'
    BY <2>1, <2>3 DEF RestOf
  <2>8. IntactOf(w)'
    BY <1>2, <1>4, <1>6, <1>10, <2>1, <2>3 DEF IntactOf
  <2>. QED BY <2>5, <2>6, <2>7, <2>8, WriterMoves
<1>. QED BY <1>8, <1>9, <1>10, Zenon DEF serial_wait_can_transmit

(* The output instruction finds room, and the byte is the next.            *)
LEMMA OutputKeeps ==
  ASSUME SerialInv, NEW w \in Writers, OutputByte(w) PROVE SerialInv'
<1>1. /\ TypeInv /\ BootInv /\ RoomInv
      /\ \A v \in Writers : RestOf(v) /\ IntactOf(v)
  BY DEF SerialInv
<1>. DEFINE rest == writer[w].rest
            new == At("check", Tail(rest))
            more == Append(sent[w], Head(rest))
<1>2. /\ writer[w].at = "out" /\ Runs(w)
      /\ writer' = [writer EXCEPT ![w] = new]
      /\ serial_initialized' = serial_initialized
      /\ logs' = logs /\ beats' = beats
  <2>1. writer' = [writer EXCEPT ![w] = At("check", Tail(@.rest))]
    BY DEF OutputByte
  <2>2. writer' = [writer EXCEPT ![w] = new]
    BY <1>1, <2>1 DEF TypeInv
  <2>. QED BY <2>2 DEF OutputByte
<1>3. rest \in Bytes /\ rest # <<>> /\ sent[w] \in Bytes
  BY <1>1, <1>2, WriterParts DEF RestOf
<1>4. Tail(rest) \in Bytes /\ Head(rest) \in Byte
  BY <1>3, TailIsBytes
<1>5. new \in WriterStates /\ new.at = "check" /\ new.rest = Tail(rest)
  BY <1>4, AtIsWriter DEF Places
<1>. HIDE DEF new
<1>6. fifo \in Nat /\ fifo <= 1 /\ (w = "main" => writer["irq0"].at # "out")
  <2>1. fifo = 0 \/ fifo <= 1
    BY <1>1, <1>2 DEF RoomInv, Writers
  <2>2. w = "main" => writer["irq0"].at # "out"
    BY <1>2 DEF Runs
  <2>. QED BY <1>1, <2>1, <2>2 DEF TypeInv
<1>7. fifo < FifoDepth
  BY <1>6, SerialConstants
<1>8. fifo' = fifo + 1 /\ sent' = [sent EXCEPT ![w] = more]
  BY <1>1, <1>7 DEF OutputByte, TypeInv
<1>9. more \in Bytes /\ more \o Tail(rest) = Asked(w)
  <2>1. sent[w] \o rest = Asked(w)
    BY <1>1, <1>2 DEF IntactOf
  <2>2. rest = <<Head(rest)>> \o Tail(rest) /\ <<Head(rest)>> \in Bytes
    BY <1>3, <1>4, HeadTailProperties DEF Bytes
  <2>3. more = sent[w] \o <<Head(rest)>>
    BY <1>3, <1>4, AppendIsConcat DEF Bytes
  <2>4. more \in Bytes
    BY <1>3, <1>4, AppendProperties DEF Bytes
  <2>. HIDE DEF rest, more
  <2>5. (sent[w] \o <<Head(rest)>>) \o Tail(rest)
          = sent[w] \o (<<Head(rest)>> \o Tail(rest))
    BY <1>3, <1>4, <2>2, BytesAssociate, Zenon
  <2>. QED BY <2>1, <2>2, <2>3, <2>4, <2>5, Zenon
<1>. HIDE DEF more
<1>10. sent' \in [Writers -> Bytes] /\ sent'[w] = more
       /\ \A v \in Writers : v # w => sent'[v] = sent[v]
  BY <1>1, <1>8, <1>9 DEF TypeInv
<1>11. fifo' \in Nat
  BY <1>6, <1>8
<1>12. Moves(w, new)
  BY <1>1, <1>2, <1>5, <1>10, <1>11 DEF Moves, TypeInv
<1>13. writer'[w] = new /\ \A v \in Writers : v # w => writer'[v] = writer[v]
  BY <1>1, <1>2 DEF TypeInv
<1>14. RoomInv'
  <2>1. CASE w = "main"
    <3>1. writer'["main"].at = "check" /\ writer'["irq0"] = writer["irq0"]
      BY <1>5, <1>13, <2>1 DEF Writers
    <3>. QED BY <1>6, <2>1, <3>1 DEF RoomInv
  <2>2. CASE w = "irq0"
    <3>1. writer'["irq0"].at = "check" /\ fifo' <= 1
      BY <1>1, <1>2, <1>5, <1>8, <1>13, <2>2 DEF RoomInv
    <3>. QED BY <3>1 DEF RoomInv
  <2>. QED BY <2>1, <2>2 DEF Writers
<1>15. RestOf(w)'
  BY <1>5, <1>13 DEF RestOf
<1>16. IntactOf(w)'
  <2>1. Asked(w)' = Asked(w)
    BY <1>2, AskedStays
  <2>. QED BY <1>4, <1>5, <1>9, <1>10, <1>13, <2>1 DEF IntactOf
<1>. QED BY <1>12, <1>14, <1>15, <1>16, WriterMoves

-----------------------------------------------------------------------------
(* Every step keeps the invariant.                                         *)
LEMMA StepKeepsSerial == SerialInv /\ [SerialNext]_serialVars => SerialInv'
<1>. SUFFICES ASSUME SerialInv, [SerialNext]_serialVars PROVE SerialInv'
  OBVIOUS
<1>1. CASE UNCHANGED serialVars
  BY <1>1 DEF serialVars, SerialInv, TypeInv, BootInv, RoomInv, RestOf, IntactOf,
              Asked
<1>2. ASSUME NEW w \in Writers, Step(w) PROVE SerialInv'
  BY <1>2, CheckKeeps, WaitKeeps, OutputKeeps DEF Step
<1>. QED BY <1>1, <1>2, ProgramPortKeeps, ProbeKeeps, LogKeeps, HeartbeatKeeps,
            TransmitKeeps DEF SerialNext

(* A sequence and a first part of it.                                      *)
LEMMA PrefixIs ==
  ASSUME NEW s \in Bytes, NEW t \in Bytes, NEW a, s \o t = a
  PROVE  Len(s) <= Len(a) /\ s = SubSeq(a, 1, Len(s))
<1>1. Len(s) \in Nat /\ Len(t) \in Nat /\ Len(s \o t) = Len(s) + Len(t)
  BY DEF Bytes
<1>2. SubSeq(s \o t, 1, Len(s)) = s
  BY SubSeqOfConcat1 DEF Bytes
<1>. QED BY <1>1, <1>2

(* The invariant implies the property.                                     *)
LEMMA SerialInvImplies == SerialInv => TextsAreIntact
<1>. SUFFICES ASSUME SerialInv, NEW w \in Writers
              PROVE  /\ Len(sent[w]) <= Len(Asked(w))
                     /\ sent[w] = SubSeq(Asked(w), 1, Len(sent[w]))
                     /\ serial_initialized => sent[w] \o writer[w].rest = Asked(w)
  BY DEF TextsAreIntact
<1>1. TypeInv /\ IntactOf(w)
  BY DEF SerialInv
<1>2. PICK missing \in Bytes : sent[w] \o missing = Asked(w)
  BY <1>1 DEF IntactOf
<1>3. sent[w] \in Bytes
  BY <1>1, WriterParts
<1>4. Len(sent[w]) <= Len(Asked(w)) /\ sent[w] = SubSeq(Asked(w), 1, Len(sent[w]))
  BY <1>2, <1>3, PrefixIs
<1>. QED BY <1>1, <1>4 DEF IntactOf

(* Foreground and IRQ0 handler write through one port without a lock, and  *)
(* either may turn it off: still the port has of each a first part of what *)
(* it wrote, complete but for the rest while the port is on.               *)
THEOREM SerialTextsAreIntact == SerialSpec => []TextsAreIntact
BY SerialInvImplies, InitEstablishesSerial, StepKeepsSerial, PTL DEF SerialSpec
=============================================================================
