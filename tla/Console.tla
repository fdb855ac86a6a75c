------------------------------ MODULE Console ------------------------------
(***************************************************************************)
(* The CGA console of lab 4 (lib.cc): console_printer and the functions    *)
(* that print with it.  The model keeps beside the screen the paper that   *)
(* an endless printer would have written, from the row home on.            *)
(***************************************************************************)
EXTENDS Integers, Sequences, SequencesExt, FiniteSets, FiniteSetsExt

CONSTANTS
  CONSOLE_ROWS, CONSOLE_COLUMNS,
  Texts,                \* what is printed: sequences of characters
  Places,               \* positions at which it is printed
  MaxRows               \* rows of paper

VARIABLES
  console,              \* the cells of the screen
  cursorpos,
  paper, home, pen      \* cells of the paper, row at the screen's top, where to write

vars == <<console, cursorpos, paper, home, pen>>

Cells == CONSOLE_ROWS * CONSOLE_COLUMNS
Blank == " "
Null == "0"             \* the cell 0 that scroll leaves

\* mutant: scrolls one cell too late
Over_late(cell) == cell > Cells

\* the printer is behind the last cell
Over(cell) == cell >= Cells

\* scroll() until the printer is on the screen
Scrolled(p) ==
  IF ~Over(p.cell) THEN p
  ELSE IF ~p.scroll THEN [p EXCEPT !.cell = 0]
  ELSE LET rows == (p.cell - Cells) \div CONSOLE_COLUMNS + 1
           from(i) == i + rows * CONSOLE_COLUMNS
       IN [p EXCEPT !.cell = @ - rows * CONSOLE_COLUMNS,
                    !.screen = [i \in 0..(Cells - 1) |->
                                  IF from(i) < Cells THEN p.screen[from(i)] ELSE Null]]

putc(p, c) ==
  LET q == Scrolled(p)
      n == IF c = "\n" THEN CONSOLE_COLUMNS - (q.cell % CONSOLE_COLUMNS) ELSE 1
      ch == IF c = "\n" THEN Blank ELSE c
  IN [q EXCEPT !.cell = @ + n,
               !.screen = [i \in DOMAIN q.screen \cup q.cell..(q.cell + n - 1) |->
                             IF q.cell <= i /\ i < q.cell + n THEN ch ELSE q.screen[i]]]

\* the constructor, the text, and what the printer is in the end
Printed(cpos, text) ==
  LET start == IF cpos < 0 THEN cursorpos ELSE IF cpos <= Cells THEN cpos ELSE 0
  IN FoldLeft(putc, [cell |-> start, scroll |-> cpos < 0, screen |-> console], text)

-----------------------------------------------------------------------------
(* The paper: text goes on where the pen is, a newline blanks the rest of  *)
(* the row, and the screen shows the rows from home on.                    *)
Write(q, c) ==
  LET n == IF c = "\n" THEN CONSOLE_COLUMNS - (q.pen % CONSOLE_COLUMNS) ELSE 1
      last == (q.pen + n - 1) \div CONSOLE_COLUMNS
  IN [paper |-> [i \in DOMAIN q.paper |->
                   IF q.pen <= i /\ i < q.pen + n THEN IF c = "\n" THEN Blank ELSE c ELSE q.paper[i]],
      pen |-> q.pen + n,
      home |-> Max({q.home, last - CONSOLE_ROWS + 1})]

Written(text) == FoldLeft(Write, [paper |-> paper, pen |-> pen, home |-> home], text)

\* a print at a place of the screen writes over it, and from its end goes to its start
Stamp(q, c) ==
  LET at == IF q.at >= Cells THEN 0 ELSE q.at
      n == IF c = "\n" THEN CONSOLE_COLUMNS - (at % CONSOLE_COLUMNS) ELSE 1
      abs == home * CONSOLE_COLUMNS + at
  IN [at |-> at + n,
      paper |-> [i \in DOMAIN q.paper |->
                   IF abs <= i /\ i < abs + n THEN IF c = "\n" THEN Blank ELSE c ELSE q.paper[i]]]

-----------------------------------------------------------------------------
Paper == 0..(MaxRows * CONSOLE_COLUMNS - 1)

\* console_clear, at the start of the kernel
Init ==
  /\ console = [i \in 0..(Cells - 1) |-> Blank]
  /\ cursorpos = 0
  /\ paper = [i \in Paper |-> IF i < Cells THEN Blank ELSE Null]
  /\ home = 0 /\ pen = 0

\* console_puts and console_printf with cpos < 0
PrintAtCursor ==
  \E text \in Texts :
    LET p == Printed(-1, text)
        w == Written(text)
    IN /\ w.pen + CONSOLE_COLUMNS <= MaxRows * CONSOLE_COLUMNS
       /\ console' = p.screen /\ cursorpos' = p.cell
       /\ paper' = [i \in Paper |-> IF i < w.home * CONSOLE_COLUMNS THEN Null ELSE w.paper[i]]
       /\ pen' = w.pen /\ home' = w.home

\* ... and with a position, as for CPOS(24, 0): the cursor stays
PrintAt ==
  \E text \in Texts, cpos \in Places :
    /\ console' = Printed(cpos, text).screen
    /\ paper' = FoldLeft(Stamp, [at |-> IF cpos > Cells THEN 0 ELSE cpos, paper |-> paper], text).paper
    /\ UNCHANGED <<cursorpos, home, pen>>

\* panic sets cursorpos to CPOS(24, 80), so that its message is on rows of its own
panic ==
  /\ cursorpos' = Cells
  /\ pen' = home * CONSOLE_COLUMNS + Cells
  /\ pen' + CONSOLE_COLUMNS <= MaxRows * CONSOLE_COLUMNS
  /\ UNCHANGED <<console, paper, home>>

console_clear ==
  /\ console' = [i \in 0..(Cells - 1) |-> Blank]
  /\ cursorpos' = 0
  /\ paper' = [i \in Paper |-> IF i < Cells THEN Blank ELSE Null]
  /\ home' = 0 /\ pen' = 0

Next == PrintAtCursor \/ PrintAt \/ panic \/ console_clear
Spec == Init /\ [][Next]_vars

-----------------------------------------------------------------------------
\* The screen is a window on the paper: whatever is printed, at the cursor or at a
\* place of the screen, no cell is lost, doubled or written outside the screen,
\* and the cursor is where the pen is.
Window ==
  /\ console = [i \in 0..(Cells - 1) |-> paper[home * CONSOLE_COLUMNS + i]]
  /\ cursorpos = pen - home * CONSOLE_COLUMNS
  /\ cursorpos \in 0..Cells
=============================================================================
