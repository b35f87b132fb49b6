------------------------------ MODULE Terminal ------------------------------
(***************************************************************************)
(* The terminal emulator (kernel/tty/terminal.c) and the escape-sequence   *)
(* parser in front of it (kernel/tty/lw_terminal_parser.c), as functions   *)
(* from a terminal and a character to a terminal.                          *)
(*                                                                         *)
(* A terminal t has the cursor (cx, cy), the scroll region (top, bot), the *)
(* saved cursor (sx, sy), the flags pending_wrap (pw) and autowrap (aw),   *)
(* and the parser's state, flag and stack.  hung says that a write does    *)
(* not come back: the model stops there.  far is history: a sequence moved *)
(* the cursor by a number that int arithmetic does not hold, and there has *)
(* been no reset since.  Characters are their codes.  What is in a cell,   *)
(* colours and the visibility of the cursor are left out; which row of the *)
(* screen goes where is modelled apart, by the operators on rows.  A loop  *)
(* over characters or rows is a function from its turns to what it has     *)
(* made.                                                                   *)
(***************************************************************************)
EXTENDS Integers, Sequences, SequencesExt

CONSTANTS
  COLS, ROWS,
  TABSTOP,          \* columns between two tab stops (8)
  TERM_STACK_SIZE,  \* characters of parameters the parser keeps
  INT_MAX           \* the largest int, 2^31 - 1

(* There are 80 columns, 25 rows and a tab stop every 8 columns: a row has *)
(* a tab stop behind its first column.                                     *)
ASSUME TerminalConstants ==
  /\ COLS \in Nat \ {0, 1} /\ ROWS \in Nat \ {0, 1} /\ TABSTOP \in 1..(COLS - 1)
  /\ TERM_STACK_SIZE \in Nat
  /\ INT_MAX \in Nat /\ COLS + ROWS < INT_MAX

BS == 8
TAB == 9
LF == 10
CR == 13
ESC == 27
Digit == 48..57
Semicolon == 59
Question == 63

(* Final characters of sequences. *)
Ch == [A |-> 65, B |-> 66, C |-> 67, D |-> 68, E |-> 69, F |-> 70, G |-> 71, H |-> 72,
       M |-> 77, c |-> 99, d |-> 100, f |-> 102, h |-> 104, l |-> 108, r |-> 114,
       n7 |-> 55, n8 |-> 56]

Imin(a, b) == IF a < b THEN a ELSE b
Imax(a, b) == IF a > b THEN a ELSE b

(* An unsigned int counts modulo this. *)
UINT_RANGE == 2 * INT_MAX + 2

(* The int that the sum of two ints becomes, or an unsigned int cast to    *)
(* one: the build has no optimisation, and its arithmetic wraps.           *)
AsInt(v) ==
  IF v > INT_MAX THEN v - UINT_RANGE
  ELSE IF v < -INT_MAX - 1 THEN v + UINT_RANGE ELSE v

(***************************************************************************)
(* Writing                                                                 *)
(***************************************************************************)
(* At the bottom of the region, or below it, the region scrolls. *)
Linefeed(t) ==
  IF t.cy >= t.bot \/ t.cy >= ROWS - 1 THEN t ELSE [t EXCEPT !.cy = @ + 1]

(* The wrap behind the last column waits for the next character.  That the *)
(* cell of a cursor off the screen is other memory is left out.            *)
Putc(t) ==
  LET w == IF t.pw THEN Linefeed([t EXCEPT !.pw = FALSE, !.cx = 0]) ELSE t
  IN  IF w.cx = COLS - 1 THEN [w EXCEPT !.pw = w.aw] ELSE [w EXCEPT !.cx = AsInt(@ + 1)]

AtStop(t) == t.cx % TABSTOP = 0 \/ t.cx <= 0

TabStep(t) == IF AtStop(t) THEN t ELSE Putc(t)

(* Blanks up to the next tab stop.  Two rows of them without reaching one  *)
(* means that none ever is.                                                *)
Tab(t) ==
  LET after[k \in 0..(2 * COLS)] == IF k = 0 THEN Putc(t) ELSE TabStep(after[k - 1])
      end == after[2 * COLS]
  IN  IF AtStop(end) THEN end ELSE [end EXCEPT !.hung = TRUE]

(* term_write_cb *)
Write(t, c) ==
  CASE c = LF -> Linefeed([t EXCEPT !.cx = 0, !.pw = FALSE])
    [] c = CR -> [t EXCEPT !.cx = 0, !.pw = FALSE]
    [] c = BS -> [t EXCEPT !.cx = IF @ > 0 THEN @ - 1 ELSE @, !.pw = FALSE]
    [] c = TAB -> Tab(t)
    [] c >= 32 -> Putc(t)
    [] OTHER -> t

(***************************************************************************)
(* Sequences                                                               *)
(***************************************************************************)
(* The number so far, and a digit or semicolon behind it. *)
ParamStep(p, c) ==
  IF c \in Digit THEN [p EXCEPT !.last = (@ * 10 + c - 48) % UINT_RANGE, !.got = TRUE]
  ELSE [argv |-> Append(p.argv, p.last), last |-> 0, got |-> FALSE]

(* lw_terminal_parser_parse_params: the numbers between the semicolons; an *)
(* empty one is 0, and an empty last one does not count.                   *)
ParseParams(stack) ==
  LET after[k \in 0..Len(stack)] ==
        IF k = 0 THEN [argv |-> <<>>, last |-> 0, got |-> FALSE]
        ELSE ParamStep(after[k - 1], stack[k])
      p == after[Len(stack)]
  IN  IF p.got THEN Append(p.argv, p.last) ELSE p.argv

Arg(argv, i, def) == IF i < Len(argv) /\ argv[i + 1] # 0 THEN AsInt(argv[i + 1]) ELSE def

(* A parameter that is negative as an int, or so large that the sum with a *)
(* place on the screen is.                                                 *)
Large(argv) == \E i \in DOMAIN argv : argv[i] + Imax(COLS, ROWS) > INT_MAX

Home(t) == [t EXCEPT !.cx = 0, !.cy = 0, !.pw = FALSE]

SetRegionMut_NoOrder(t, argv) ==
  LET nt == Imax(0, AsInt(Arg(argv, 0, 1) - 1))
      nb == Imin(ROWS - 1, AsInt(Arg(argv, 1, ROWS) - 1))
  IN  Home([t EXCEPT !.top = nt, !.bot = nb])

(* csi_decstbm *)
SetRegion(t, argv) ==
  LET nt == Imax(0, AsInt(Arg(argv, 0, 1) - 1))
      nb == Imin(ROWS - 1, AsInt(Arg(argv, 1, ROWS) - 1))
  IN  IF nt >= nb THEN t ELSE Home([t EXCEPT !.top = nt, !.bot = nb])

(* csi_sm and csi_rm: only ?7, autowrap, is kept. *)
SetModes(t, argv, on) ==
  IF t.flag /\ \E i \in DOMAIN argv : argv[i] = 7 THEN [t EXCEPT !.aw = on] ELSE t

Moves == {Ch.A, Ch.B, Ch.C, Ch.D, Ch.E, Ch.F, Ch.G, Ch.H, Ch.d, Ch.f}

(* The callbacks of terminal_init for "ESC [ ... c".  Those that only draw *)
(* (J, K, L, M, S, T, m) leave the cursor where it is.                     *)
Csi(t, c) ==
  LET argv == ParseParams(t.stack)
      n == Arg(argv, 0, 1)
      m == Arg(argv, 1, 1)
      v == [t EXCEPT !.far = @ \/ (c \in Moves /\ Large(argv))]
  IN  CASE c = Ch.A -> [v EXCEPT !.cy = Imax(t.top, AsInt(t.cy - n))]
        [] c = Ch.B -> [v EXCEPT !.cy = Imin(t.bot, AsInt(t.cy + n))]
        [] c = Ch.C -> [v EXCEPT !.cx = Imin(COLS - 1, AsInt(t.cx + n))]
        [] c = Ch.D -> [v EXCEPT !.cx = Imax(0, AsInt(t.cx - n))]
        [] c = Ch.E -> [v EXCEPT !.cx = 0, !.cy = Imin(t.bot, AsInt(t.cy + n))]
        [] c = Ch.F -> [v EXCEPT !.cx = 0, !.cy = Imax(t.top, AsInt(t.cy - n))]
        [] c = Ch.G -> [v EXCEPT !.cx = Imin(COLS - 1, AsInt(n - 1))]
        [] c = Ch.d -> [v EXCEPT !.cy = Imin(ROWS - 1, AsInt(n - 1))]
        [] c \in {Ch.H, Ch.f} -> [v EXCEPT !.cy = Imin(ROWS - 1, AsInt(n - 1)), !.pw = FALSE,
                                           !.cx = Imin(COLS - 1, AsInt(m - 1))]
        [] c = Ch.r -> SetRegion(v, argv)
        [] c = Ch.h -> SetModes(v, argv, TRUE)
        [] c = Ch.l -> SetModes(v, argv, FALSE)
        [] OTHER -> v

(* terminal_reset leaves the parser alone. *)
Reset(t) ==
  [t EXCEPT !.cx = 0, !.cy = 0, !.top = 0, !.bot = ROWS - 1, !.sx = 0, !.sy = 0,
            !.pw = FALSE, !.aw = TRUE, !.far = FALSE]

(* The callbacks for "ESC c". *)
Esc(t, c) ==
  CASE c = Ch.D -> Linefeed(t)
    [] c = Ch.M -> IF t.cy <= t.top THEN t ELSE [t EXCEPT !.cy = @ - 1]
    [] c = Ch.E -> Linefeed([t EXCEPT !.cx = 0])
    [] c = Ch.n7 -> [t EXCEPT !.sx = t.cx, !.sy = t.cy]
    [] c = Ch.n8 -> [t EXCEPT !.cx = t.sx, !.cy = t.sy, !.pw = FALSE]
    [] c = Ch.c -> Reset(t)
    [] OTHER -> t

(* The end of lw_terminal_parser_call_*. *)
Leave(t) == [t EXCEPT !.st = "INIT", !.stack = <<>>]

Push(t, c) == IF Len(t.stack) >= TERM_STACK_SIZE THEN t ELSE [t EXCEPT !.stack = Append(@, c)]

(* lw_terminal_parser_read.  A character no branch wants is written, and   *)
(* the sequence goes on.                                                   *)
Read(t, c) ==
  CASE t.st = "INIT" -> IF c = ESC THEN [t EXCEPT !.st = "ESC"] ELSE Write(t, c)
    [] t.st = "ESC" ->
         IF c = 91 THEN [t EXCEPT !.st = "CSI"]
         ELSE IF c = 35 THEN [t EXCEPT !.st = "HASH"]
         ELSE IF c \in {40, 41} THEN [t EXCEPT !.st = "GSET"]
         ELSE IF c \in 48..122 THEN Leave(Esc(t, c)) ELSE Write(t, c)
    [] t.st = "HASH" -> IF c \in Digit THEN Leave(t) ELSE Write(t, c)
    [] t.st = "GSET" -> Leave(t)
    [] t.st = "CSI" ->
         IF c = Question THEN [t EXCEPT !.flag = TRUE]
         ELSE IF c \in Digit \cup {Semicolon} THEN Push(t, c)
         ELSE IF c \in 63..122 THEN [Leave(Csi(t, c)) EXCEPT !.flag = FALSE] ELSE Write(t, c)

(* A tab that does not come back is the end of a write. *)
Feed(t, c) == IF t.hung THEN t ELSE Read(t, c)

(* terminal_write *)
TerminalWrite(t, s) ==
  LET after[k \in 0..Len(s)] == IF k = 0 THEN t ELSE Feed(after[k - 1], s[k])
  IN  after[Len(s)]

(* terminal_init *)
NewTerminal ==
  [cx |-> 0, cy |-> 0, top |-> 0, bot |-> ROWS - 1, sx |-> 0, sy |-> 0, pw |-> FALSE,
   aw |-> TRUE, st |-> "INIT", flag |-> FALSE, stack |-> <<>>, hung |-> FALSE, far |-> FALSE]

(***************************************************************************)
(* Rows                                                                    *)
(***************************************************************************)
(* A screen is a function from 0..ROWS-1; -1 is a blank row.  Rows are     *)
(* copied one at a time, so the order of the copies decides.               *)
Screen == [y \in 0..(ROWS - 1) |-> y]
Up(a, b) == [k \in 1..(b - a + 1) |-> a + k - 1]
Down(a, b) == [k \in 1..(a - b + 1) |-> a - k + 1]

CopyRow(rows, y, d) == [rows EXCEPT ![y] = rows[y + d]]

(* move_rows(y, y + d) for each y of ys *)
MoveRows(rows, ys, d) ==
  LET after[k \in 0..Len(ys)] == IF k = 0 THEN rows ELSE CopyRow(after[k - 1], ys[k], d)
  IN  after[Len(ys)]

BlankRows(rows, a, b) == [y \in DOMAIN rows |-> IF y \in a..b THEN -1 ELSE rows[y]]

ScrollUp(t, rows) == BlankRows(MoveRows(rows, Up(t.top, t.bot - 1), 1), t.bot, t.bot)
ScrollDown(t, rows) == BlankRows(MoveRows(rows, Down(t.bot, t.top + 1), -1), t.top, t.top)

InsertLinesMut_Upward(t, rows, k) ==
  LET n == Imin(k, t.bot - t.cy + 1)
  IN  BlankRows(MoveRows(rows, Up(t.cy + n, t.bot), -n), t.cy, t.cy + n - 1)

InsertLines(t, rows, k) ==
  LET n == Imin(k, t.bot - t.cy + 1)
  IN  BlankRows(MoveRows(rows, Down(t.bot, t.cy + n), -n), t.cy, t.cy + n - 1)

DeleteLines(t, rows, k) ==
  LET n == Imin(k, t.bot - t.cy + 1)
  IN  BlankRows(MoveRows(rows, Up(t.cy, t.bot - n), n), t.bot - n + 1, t.bot)

(* What they must come to: rows a..b shifted down by n, up when n < 0. *)
Shifted(rows, a, b, n) ==
  [y \in DOMAIN rows |->
     IF y \notin a..b THEN rows[y] ELSE IF y - n \in a..b THEN rows[y - n] ELSE -1]

(* Scrolling, inserting and deleting lines moves the rows between the      *)
(* cursor, or the region's top, and the region's bottom, each once and by  *)
(* the same distance, and no other row: above, in or below the region.     *)
(* The number n of lines is one that an int holds.                         *)
RowsExact(t) ==
  /\ ScrollUp(t, Screen) = Shifted(Screen, t.top, t.bot, -1)
  /\ ScrollDown(t, Screen) = Shifted(Screen, t.top, t.bot, 1)
  /\ \A n \in 1..(ROWS + 1) :
       /\ InsertLines(t, Screen, n) = Shifted(Screen, t.cy, t.bot, n)
       /\ DeleteLines(t, Screen, n) = Shifted(Screen, t.cy, t.bot, -n)
============================================================================
