------------------------------ MODULE Console ------------------------------
(***************************************************************************)
(* The text console of lib.c as operators: a console is the cells of a     *)
(* screen and the cursor, putc() takes one to the next.                    *)
(***************************************************************************)
EXTENDS Integers

CONSTANTS
    Rows, Cols,     \* NUM_ROWS and NUM_COLS, 25 and 80
    TabStop,        \* spaces of a tab, 4
    Blank, NewLine, BackSpace, HorizontalTab

ASSUME SizeAssumption ==
    /\ Rows \in Nat \ {0} /\ Cols \in Nat \ {0} /\ TabStop \in Nat
    /\ BackSpace # NewLine /\ HorizontalTab # NewLine /\ HorizontalTab # BackSpace

Screen == 0 .. Rows * Cols - 1
BlankCells == [i \in Screen |-> Blank]

\* The cell of the cursor
At(k) == Cols * k.y + k.x

\* video_mem[i] = c, as far as it is on the screen; StoredPast has the rest.
Set(cells, i, c) == IF i \in Screen THEN [cells EXCEPT ![i] = c] ELSE cells

Scrolled(cells) ==
    [i \in Screen |-> IF i + Cols \in Screen THEN cells[i + Cols] ELSE Blank]

\* (mutant) the screen never scrolls
Mutant_Wrapped(k, x) ==
    IF x # Cols THEN [k EXCEPT !.x = x] ELSE [k EXCEPT !.x = 0, !.y = @ + 1]

\* The cursor has moved to column x.
Wrapped(k, x) ==
    IF x # Cols THEN [k EXCEPT !.x = x]
    ELSE IF k.y = Rows - 1 THEN [k EXCEPT !.x = 0, !.cells = Scrolled(@)]
    ELSE [k EXCEPT !.x = 0, !.y = @ + 1]

PutVisible(k, c) == Wrapped([k EXCEPT !.cells = Set(@, At(k), c)], k.x + 1)

PutNewLine(k) ==
    IF k.y = Rows - 1 THEN [k EXCEPT !.x = 0, !.cells = Scrolled(@)]
    ELSE [k EXCEPT !.x = 0, !.y = @ + 1]

\* From the first column the cursor goes to column NUM_COLS of the row above,
\* which is the cell it comes from.
Back(k) ==
    IF k.x > 0 THEN [k EXCEPT !.x = @ - 1]
    ELSE IF k.y # 0 THEN [k EXCEPT !.x = Cols, !.y = @ - 1]
    ELSE k

PutBackSpace(k) == [Back(k) EXCEPT !.cells = Set(@, At(Back(k)), Blank)]

PutTab(k) ==
    LET after[i \in 0 .. TabStop] == IF i = 0 THEN k ELSE PutVisible(after[i - 1], Blank)
    IN  after[TabStop]

putc(k, c) ==
    CASE c = NewLine -> PutNewLine(k)
      [] c = BackSpace -> PutBackSpace(k)
      [] c = HorizontalTab -> PutTab(k)
      [] OTHER -> PutVisible(k, c)

\* Beyond column NUM_COLS no row ends: putc() stores on, over the rows below
\* and, after the last, past the screen.  The cells it stores to then, if they
\* are not on the screen, and what it stores
StoredPast(k, c) ==
    CASE c = NewLine -> {}
      [] c = BackSpace -> {At(Back(k))} \ Screen
      [] k.x < Cols -> {}
      [] c = HorizontalTab -> (At(k) .. At(k) + TabStop - 1) \ Screen
      [] OTHER -> {At(k)} \ Screen
Ink(c) == IF c \in {BackSpace, HorizontalTab} THEN Blank ELSE c
=============================================================================
