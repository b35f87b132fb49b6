-------------------------------- MODULE Tty --------------------------------
(***************************************************************************)
(* The console device: the keyboard's interrupt handler and ring           *)
(* (drivers/input/keyboard.c), the wait for a character                    *)
(* (kernel/console.c), a process reading a line or raw bytes               *)
(* (console_read in kernel/fs/devfs.c), and the terminal its echo goes to. *)
(*                                                                         *)
(* console_read runs with interrupts on: the handler may come between any  *)
(* two of its steps, and so may, by the timer, another process that        *)
(* writes.  What one key makes the reader print is one step: writes of     *)
(* others in the middle of it are not modelled.  There is one reader at a  *)
(* time.  The serial line is external: it has a character at times.        *)
(***************************************************************************)
EXTENDS Terminal

CONSTANTS
  KB_BUFFER_SIZE,
  Scancodes,     \* the keyboard's codes that occur
  SerialChars,   \* characters that come in over the serial line
  Output,        \* characters that other processes write
  Glyphs,        \* characters that a cell of the screen may show
  ReadSizes      \* the sizes of reads

ASSUME TtyConstants ==
  /\ KB_BUFFER_SIZE \in Nat \ {0} /\ ReadSizes \subseteq Nat \ {0}
  /\ Glyphs \subseteq Nat /\ \A g \in Glyphs : g >= 32
  /\ Scancodes \subseteq Nat /\ Output \subseteq Nat /\ SerialChars \subseteq Nat \ {0}

VARIABLES
  term,
  kb,      \* the ring: buf, head, tail
  keys,    \* the handler's shift, ctrl and e0
  ser,     \* the character waiting on the serial line, 0 for none
  rd       \* the reader: console_read's locals

vars == <<term, kb, keys, ser, rd>>

ETX == 3
EOT == 4
FF == 12
DEL == 127

(***************************************************************************)
(* The keyboard                                                            *)
(***************************************************************************)
Slots == 0..(KB_BUFFER_SIZE - 1)
Inc(i) == (i + 1) % KB_BUFFER_SIZE

HasChar(k) == k.head # k.tail

KbPushMut_Overwrite(k, c) == [k EXCEPT !.buf[k.head] = c, !.head = Inc(@)]

(* kb_buf_push: one slot stays empty; a character too many is dropped. *)
KbPush(k, c) ==
  IF Inc(k.head) = k.tail THEN k ELSE [k EXCEPT !.buf[k.head] = c, !.head = Inc(@)]

(* The characters in the ring, oldest first. *)
Queue(k) ==
  [j \in 1..((k.head - k.tail + KB_BUFFER_SIZE) % KB_BUFFER_SIZE) |->
     k.buf[(k.tail + j - 1) % KB_BUFFER_SIZE]]

(* The parts of the tables that the model uses: backspace, tab, enter and  *)
(* the letters d, l and c.                                                 *)
scancode_map ==
  [sc \in {14, 15, 28, 32, 38, 46} |->
     CASE sc = 14 -> BS [] sc = 15 -> TAB [] sc = 28 -> LF
       [] sc = 32 -> 100 [] sc = 38 -> 108 [] sc = 46 -> 99]
shift_map ==
  [sc \in {14, 15, 28, 32, 38, 46} |->
     CASE sc = 14 -> BS [] sc = 15 -> TAB [] sc = 28 -> LF
       [] sc = 32 -> 68 [] sc = 38 -> 76 [] sc = 46 -> 67]

(* What the cursor keys send, by the code behind 0xE0. *)
Extended == [sc \in {72, 80} |-> <<ESC, 91, IF sc = 72 THEN 65 ELSE 66>>]

Shifts == {42, 54}
Ctrl == 29

Lookup(map, sc) == IF sc \in DOMAIN map THEN map[sc] ELSE 0

(* keyboard_handler.  Codes from 128 on are releases, 0xE0 among them: the *)
(* branches behind it, for 0xE0 and for extended keys, are never taken.    *)
Keyboard(sc) ==
  LET key == Lookup(IF keys.shift THEN shift_map ELSE scancode_map, sc)
      c == IF keys.ctrl THEN key % 32 ELSE key
  IN  /\ IF sc >= 128
         THEN /\ keys' = [shift |-> keys.shift /\ sc - 128 \notin Shifts,
                          ctrl |-> keys.ctrl /\ sc - 128 # Ctrl, e0 |-> FALSE]
              /\ UNCHANGED kb
         ELSE IF sc = 224 THEN keys' = [keys EXCEPT !.e0 = TRUE] /\ UNCHANGED kb
         ELSE IF keys.e0
         THEN /\ keys' = [keys EXCEPT !.e0 = FALSE]
              /\ kb' = IF sc \in DOMAIN Extended THEN FoldLeft(KbPush, kb, Extended[sc]) ELSE kb
         ELSE IF sc = 1 THEN kb' = KbPush(kb, ESC) /\ UNCHANGED keys
         ELSE IF sc \in Shifts THEN keys' = [keys EXCEPT !.shift = TRUE] /\ UNCHANGED kb
         ELSE IF sc = Ctrl THEN keys' = [keys EXCEPT !.ctrl = TRUE] /\ UNCHANGED kb
         ELSE /\ kb' = IF c = 0 THEN kb ELSE KbPush(kb, c)
              /\ UNCHANGED keys
      /\ UNCHANGED <<term, ser, rd>>

(* The line holds one character until it is read. *)
Serial(c) ==
  /\ ser = 0
  /\ ser' = c
  /\ UNCHANGED <<term, kb, keys, rd>>

(***************************************************************************)
(* Other processes                                                         *)
(***************************************************************************)
NoRead == [pc |-> "idle", n |-> 0, mode |-> "canon", plen |-> 0, b |-> <<>>, c |-> 0,
           from |-> FALSE, typed |-> FALSE]

(* console_write, a character at a time; it never returns from a tab that  *)
(* finds no stop.                                                          *)
ConsoleWrite(c) ==
  /\ ~term.hung
  /\ term' = TerminalWrite(term, <<c>>)
  /\ rd' = [rd EXCEPT !.typed = FALSE]
  /\ UNCHANGED <<kb, keys, ser>>

(***************************************************************************)
(* console_read                                                            *)
(***************************************************************************)
(* What console_read tells apart; in canonical mode ^C always interrupts. *)
Modes == {"canon", "raw", "raw_isig"}

(* The mode m is looked at once, here; any process may have set it to      *)
(* anything (terminal_set_mode).  The prompt is what is left of the cursor *)
(* (terminal_snapshot_line).  typed is history: the read began outside of  *)
(* any sequence and with no wrap pending, all the reader has taken for the *)
(* line came from the keyboard and took up a column, and nobody else has   *)
(* written since.                                                          *)
StartRead(n, m) ==
  /\ rd = NoRead /\ ~term.hung
  /\ rd' = [NoRead EXCEPT !.pc = "wait", !.n = n, !.mode = m, !.plen = Imin(term.cx, COLS - 1),
                          !.typed = term.st = "INIT" /\ ~term.pw /\ ~term.far]
  /\ UNCHANGED <<term, kb, keys, ser>>

(* console_getchar_src: the keyboard goes first. *)
Wait ==
  /\ rd.pc = "wait"
  /\ HasChar(kb) \/ ser # 0
  /\ rd' = [rd EXCEPT !.pc = IF HasChar(kb) THEN "kb" ELSE "ser"]
  /\ UNCHANGED <<term, kb, keys, ser>>

(* kb_getchar up to the assignment to kb_tail. *)
KbTake ==
  /\ rd.pc = "kb"
  /\ HasChar(kb)
  /\ rd' = [rd EXCEPT !.pc = "took", !.c = kb.buf[kb.tail]]
  /\ UNCHANGED <<term, kb, keys, ser>>

KbAdvanceMut_FromHead ==
  /\ rd.pc = "took"
  /\ kb' = [kb EXCEPT !.tail = kb.head]
  /\ rd' = [rd EXCEPT !.pc = "got", !.from = TRUE]
  /\ UNCHANGED <<term, keys, ser>>

(* The rest of kb_getchar.  The slot is cleared because its old content is *)
(* never read again.                                                       *)
KbAdvance ==
  /\ rd.pc = "took"
  /\ kb' = [kb EXCEPT !.tail = Inc(@), !.buf[kb.tail] = 0]
  /\ rd' = [rd EXCEPT !.pc = "got", !.from = TRUE]
  /\ UNCHANGED <<term, keys, ser>>

(* serial_getchar *)
SerialTake ==
  /\ rd.pc = "ser"
  /\ ser' = 0
  /\ rd' = [rd EXCEPT !.pc = "got", !.from = FALSE, !.c = ser]
  /\ UNCHANGED <<term, kb, keys>>

Icrnl(c) == IF c = CR THEN LF ELSE c

Continue(b, typed) ==
  rd' = [rd EXCEPT !.pc = "wait", !.c = 0, !.from = FALSE, !.b = b, !.typed = typed]
Return == rd' = NoRead

(* ^L: the prompt, whatever the cells in front of the cursor showed, and   *)
(* the line so far on a clear screen.                                      *)
Redraw ==
  \E prompt \in [1..rd.plen -> Glyphs] : term' = TerminalWrite(Reset(term), prompt \o rd.b)

(* ^C: process_kill (Process); the read goes on if the reader ignores the  *)
(* signal.                                                                 *)
Interrupt(echo) ==
  \/ Continue(rd.b, rd.typed) /\ UNCHANGED term
  \/ Return /\ term' = TerminalWrite(term, echo)

EraseMut_NoStepBack(from) ==
  /\ Continue(Front(rd.b), rd.typed /\ from)
  /\ term' = IF from THEN TerminalWrite(term, <<BS, 32>>) ELSE term

(* Backspace with something to erase. *)
Erase(from) ==
  /\ Continue(Front(rd.b), rd.typed /\ from)
  /\ term' = IF from THEN TerminalWrite(term, <<BS, 32, BS>>) ELSE term

(* A character in canonical mode. *)
Canonical(c, from) ==
  LET Echo(s) == IF from THEN s ELSE <<>>
      b == Append(rd.b, c)
  IN  CASE c = FF -> Redraw /\ Continue(rd.b, rd.typed)
        [] c = ETX -> Interrupt(Echo(<<94, 67, LF>>))
        [] c = EOT -> UNCHANGED term /\ IF rd.b = <<>> THEN Return ELSE Continue(rd.b, rd.typed)
        [] c = LF -> term' = TerminalWrite(term, Echo(<<LF>>)) /\ Return
        [] c \in {BS, DEL} ->
             IF rd.b # <<>> THEN Erase(from) ELSE UNCHANGED term /\ Continue(rd.b, rd.typed)
        [] OTHER -> /\ term' = TerminalWrite(term, Echo(<<c>>))
                    /\ IF Len(b) = rd.n THEN Return ELSE Continue(b, rd.typed /\ from /\ c >= 32)

(* A character in raw mode, where only how many there are matters; more    *)
(* says that another one is there.                                         *)
Raw(c, from, more) ==
  LET b == Append(rd.b, 32)
  IN  IF c = ETX /\ rd.mode = "raw_isig" THEN Interrupt(<<>>)
      ELSE /\ IF Len(b) = rd.n \/ ~more THEN Return ELSE Continue(b, rd.typed /\ from)
           /\ UNCHANGED term

Handle(c, from, more) ==
  IF rd.mode = "canon" THEN Canonical(Icrnl(c), from) ELSE Raw(Icrnl(c), from, more)

(* What the reader does with the character it has got. *)
Got ==
  /\ rd.pc = "got"
  /\ Handle(rd.c, rd.from, HasChar(kb) \/ ser # 0)
  /\ UNCHANGED <<kb, keys, ser>>

Reader == ~term.hung /\ (Wait \/ KbTake \/ KbAdvance \/ SerialTake \/ Got)

Init ==
  /\ term = NewTerminal
  /\ kb = [buf |-> [i \in Slots |-> 0], head |-> 0, tail |-> 0]
  /\ keys = [shift |-> FALSE, ctrl |-> FALSE, e0 |-> FALSE]
  /\ ser = 0
  /\ rd = NoRead

Next ==
  \/ Reader
  \/ \E sc \in Scancodes : Keyboard(sc)
  \/ \E c \in SerialChars : Serial(c)
  \/ \E c \in Output : ConsoleWrite(c)
  \/ \E n \in ReadSizes, m \in Modes : StartRead(n, m)

(* The reader spins with interrupts on and gets its time slices. *)
Spec == Init /\ [][Next]_vars /\ WF_vars(Reader)

(***************************************************************************)
(* Properties                                                              *)
(***************************************************************************)
(* Whatever sequences processes write, the cursor and the saved cursor     *)
(* stay on the screen until a parameter is too large for an int, and are   *)
(* back on it after a reset; the scroll region stays on it in any case;    *)
(* the parser's stack and the ring keep their bounds; and only a tab       *)
(* without autowrap never comes back.                                      *)
TypeOK ==
  /\ term.far \/ /\ term.cx \in 0..(COLS - 1) /\ term.cy \in 0..(ROWS - 1)
                 /\ term.sx \in 0..(COLS - 1) /\ term.sy \in 0..(ROWS - 1)
                 /\ term.hung => ~term.aw
  /\ 0 <= term.top /\ term.top < term.bot /\ term.bot < ROWS
  /\ Len(term.stack) <= TERM_STACK_SIZE
  /\ kb.head \in Slots /\ kb.tail \in Slots
  /\ Len(rd.b) <= rd.n

(* With the cursor on the screen, wherever it and the region are, the      *)
(* loops over rows shift the rows they are meant to shift (scroll_up,      *)
(* scroll_down, insert_lines, delete_lines).                               *)
ScreenExact == term.far \/ RowsExact(term)

(* With one reader the ring is a queue: a step leaves it alone, adds a     *)
(* character at its end, or takes the first one, and that is the character *)
(* the reader got, although the handler may run between the two halves of  *)
(* kb_getchar.                                                             *)
FifoRing ==
  [][LET q == Queue(kb) IN
     \/ Queue(kb)' = q
     \/ \E c \in 1..127 : Queue(kb)' = Append(q, c)
     \/ q # <<>> /\ Queue(kb)' = Tail(q) /\ rd.pc = "took" /\ rd.c = Head(q)]_vars

(* While the line fits on the row, what is on the screen is what the read  *)
(* will return: the cursor is as many columns behind the prompt as the     *)
(* line has characters, after every echo, erasure and redraw.  Nothing is  *)
(* said, by typed, of a read that begins within a sequence or with a wrap  *)
(* pending, of one during which another process writes, and of characters  *)
(* that are not echoed or take up no column.                               *)
EchoColumn ==
  /\ rd # NoRead /\ rd.mode = "canon" /\ rd.typed
  /\ rd.plen + rd.n < COLS
  => term.cx = rd.plen + Len(rd.b)

(* A read of a line ends once Enter is in the ring, whatever else is typed *)
(* and others write, unless the echo of a tab never comes back.            *)
LineDelivered ==
  (rd # NoRead /\ rd.mode = "canon" /\ LF \in Range(Queue(kb))) ~> (rd = NoRead \/ term.hung)
============================================================================
