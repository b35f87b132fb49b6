------------------------------- MODULE MCTty -------------------------------
(***************************************************************************)
(* A terminal of three rows of four columns whose ints end at 15, a ring   *)
(* for two characters, and the keys backspace, tab, enter, c, d, l and     *)
(* control.  A behaviour has one of several workloads: what processes      *)
(* write, what is typed and what is read.                                  *)
(***************************************************************************)
EXTENDS Tty

CONSTANT MaxLate   \* bound: characters written while the cursor is far

VARIABLES
  load,   \* the workload
  late    \* characters written since the cursor went far

(* A blank, LF, CR, BS, TAB, ESC, [ # ( ? ; 2 7 8 and the final characters *)
(* of every sequence that moves the cursor.                                *)
MCOutput == {32, LF, CR, BS, TAB, ESC, 91, 35, 40, Question, Semicolon, 50, 55, 56}
            \cup {Ch[x] : x \in DOMAIN Ch}

MCScancodes == {14, 15, 28, 29, 157, 46, 32, 38}

Load(output, keys_, serial, reads) ==
  [output |-> output, keys |-> keys_, serial |-> serial, reads |-> reads]

(* Sequences of every kind and no input; a writer in the middle of a read; *)
(* the serial line beside the keyboard; ^C and ^L; ^D; and the tab key.    *)
Loads ==
  {Load(MCOutput, {}, {}, {}),
   Load({32, ESC, 91, Ch.D}, {28, 46}, {}, {2}),
   Load({}, {28, 46, 14}, {120}, {2}),
   Load({}, {28, 29, 157, 46, 38}, {}, {2}),
   Load({}, {28, 29, 157, 32}, {}, {2}),
   Load({}, {28, 15}, {}, {2})}

MCInit == Init /\ load \in Loads /\ late = 0

MCNext ==
  \/ /\ \/ Reader
        \/ \E sc \in load.keys : Keyboard(sc)
        \/ \E c \in load.serial : Serial(c)
        \/ \E n \in load.reads, m \in Modes : StartRead(n, m)
     /\ UNCHANGED <<load, late>>
  \/ /\ late < MaxLate
     /\ \E c \in load.output : ConsoleWrite(c)
     /\ late' = IF term'.far THEN late + 1 ELSE 0
     /\ UNCHANGED load

MCSpec == MCInit /\ [][MCNext]_<<vars, load, late>> /\ WF_vars(Reader)
============================================================================
