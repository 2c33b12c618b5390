------------------------------- MODULE Video -------------------------------
(***************************************************************************)
(* The screens of the terminals: one video memory, a page of its own for   *)
(* each terminal that is not on display, and the page of the kernel and of *)
(* the program (vidmap) that the scheduler, terminal_write() and the       *)
(* keyboard turn from one to the other (keyboard.c, syscalls.c, paging.c). *)
(*                                                                         *)
(* A system call runs with interrupts off, and so does the keyboard        *)
(* handler, except that switch_terminal() enables them before the handler  *)
(* has turned the page back.                                               *)
(***************************************************************************)
EXTENDS Console

CONSTANTS
    NumTerminals,   \* NUM_TERMINALS, 3
    Output,         \* the characters that programs and keys put on a screen
    Stored,         \* the characters that programs store into the screen
    Prompt,         \* "391OS> "
    PageCells,      \* cells of a 4 KB page of video memory, 2048
    MaxColumn       \* bound: nothing is put on a screen past this column

\* A screen fits its page, and no row runs past the pages of all terminals,
\* where the next store would be a page fault in the kernel.
ASSUME VideoAssumption ==
    /\ NumTerminals \in Nat \ {0} /\ Prompt \in Output /\ MaxColumn \in Nat
    /\ PageCells \in Nat /\ Rows * Cols <= PageCells
    /\ Cols * (Rows - 1) + MaxColumn + TabStop < (NumTerminals + 1) * PageCells

Terminals == 0 .. NumTerminals - 1

\* The pages: video memory itself, and terminals[t].terminal_vmem, which follow
\* it in the order of the terminals
VIDEO == NumTerminals
Pages == Terminals \cup {VIDEO}

VARIABLES
    page,           \* the cells of each page
    vmem,           \* the page that addresses VIDEO and VIDMAP_MEM stand for
    screen_xy,      \* screen_x and screen_y, lib.c's cursor
    saved_xy,       \* screen_x and screen_y of each terminal
    cursor,         \* the cursor of the display
    displayed_tid,
    scheduled_tid,
    vidmapped,      \* vidmapped[t]: the program of terminal t called vidmap()
    switching,      \* switching[t]: the processor left switch_terminal()'s
                    \* handler, on the stack of terminal t's task, after sti()
    interrupted,    \* history: the timer or the keyboard interrupted the
                    \* handler that terminal t's task is in
    stray           \* history: CONTROL-L, or such a handler, was the last to
                    \* move the cursor of the display

vars == <<page, vmem, screen_xy, saved_xy, cursor, displayed_tid, scheduled_tid,
          vidmapped, switching, interrupted, stray>>

Home == [x |-> 0, y |-> 0]
Console(cells, xy) == [cells |-> cells, x |-> xy.x, y |-> xy.y]
Xy(k) == [x |-> k.x, y |-> k.y]

\* clear() has cleared video memory, and nobody the pages of the terminals.
Init ==
    /\ page \in {f \in [Pages -> [Screen -> {Blank} \cup Stored]] : f[VIDEO] = BlankCells}
    /\ vmem = VIDEO
    /\ screen_xy = Home
    /\ saved_xy = [t \in Terminals |-> Home]
    /\ cursor = Home
    /\ displayed_tid = 0 /\ scheduled_tid = 0
    /\ vidmapped = [t \in Terminals |-> FALSE]
    /\ switching = [t \in Terminals |-> FALSE]
    /\ interrupted = [t \in Terminals |-> FALSE]
    /\ stray = FALSE

-----------------------------------------------------------------------------
\* The page switch_vmem_paging(t) turns to
PageOf(t) == IF t = displayed_tid THEN VIDEO ELSE t

\* switch_vmem_paging(t), the last thing a handler or a call does; where it
\* is not the last, the page it turns to is named in the action.
switch_vmem_paging(t) ==
    /\ vmem' = PageOf(t)
    /\ screen_xy' = saved_xy'[t]

\* (mutant) the display's cursor follows every program
Mutant_CursorAfter(t, xy) == xy

\* update_cursor() is for the terminal on display only.
CursorAfter(t, xy) == IF t = displayed_tid THEN xy ELSE cursor

\* c is put on the screen of terminal t, whose page was turned to.  The pages of
\* the terminals lie behind it, so what putc() stores past the page is in theirs.
PutOn(t, c) ==
    LET old == Console(page[PageOf(t)], saved_xy[t])
        new == putc(old, c)
        Hit(p, i) == p \in Terminals /\ (p + 1) * PageCells + i \in StoredPast(old, c)
    IN  /\ old.x <= MaxColumn
        /\ page' = [p \in Pages |-> [i \in Screen |->
                        IF Hit(p, i) THEN Ink(c)
                        ELSE IF p = PageOf(t) THEN new.cells[i] ELSE page[p][i]]]
        /\ saved_xy' = [saved_xy EXCEPT ![t] = Xy(new)]
        /\ cursor' = CursorAfter(t, Xy(new))

\* An interrupt is taken.
Disturb ==
    interrupted' = [interrupted EXCEPT ![scheduled_tid] = switching[scheduled_tid]]

\* The program of the scheduled terminal runs.
Running == ~switching[scheduled_tid]

\* terminal_write() leaves the page of the terminal on display turned to.
terminal_write(c) ==
    /\ Running
    /\ PutOn(scheduled_tid, c)
    /\ switch_vmem_paging(displayed_tid)
    /\ stray' = (stray /\ scheduled_tid # displayed_tid)
    /\ UNCHANGED <<displayed_tid, scheduled_tid, vidmapped, switching, interrupted>>

vidmap ==
    /\ Running
    /\ vidmapped' = [vidmapped EXCEPT ![scheduled_tid] = TRUE]
    /\ UNCHANGED saved_xy
    /\ switch_vmem_paging(scheduled_tid)
    /\ UNCHANGED <<page, cursor, displayed_tid, scheduled_tid, switching, interrupted, stray>>

\* The program stores into the screen it got from vidmap().
Store(i, c) ==
    /\ Running /\ vidmapped[scheduled_tid]
    /\ page' = [page EXCEPT ![vmem][i] = c]
    /\ UNCHANGED <<vmem, screen_xy, saved_xy, cursor, displayed_tid, scheduled_tid,
                   vidmapped, switching, interrupted, stray>>

\* A program starts: execute() turns no page.
StartProgram ==
    /\ Running
    /\ vidmapped' = [vidmapped EXCEPT ![scheduled_tid] = FALSE]
    /\ UNCHANGED <<page, vmem, screen_xy, saved_xy, cursor, displayed_tid, scheduled_tid,
                   switching, interrupted, stray>>

\* A program ends; the one that goes on may have called vidmap() before.
EndProgram ==
    /\ Running
    /\ \E before \in BOOLEAN : vidmapped' = [vidmapped EXCEPT ![scheduled_tid] = before]
    /\ UNCHANGED saved_xy
    /\ switch_vmem_paging(scheduled_tid)
    /\ UNCHANGED <<page, cursor, displayed_tid, scheduled_tid, switching, interrupted, stray>>

\* schedule() once every terminal has its shell
schedule ==
    /\ scheduled_tid' = (scheduled_tid + 1) % NumTerminals
    /\ Disturb
    /\ UNCHANGED saved_xy
    /\ switch_vmem_paging(scheduled_tid')
    /\ UNCHANGED <<page, cursor, displayed_tid, vidmapped, switching, stray>>

-----------------------------------------------------------------------------
(* The keyboard handler                                                    *)

\* A key that is echoed, or one of the characters of a tab taken back
Echo(c) ==
    /\ PutOn(displayed_tid, c)
    /\ switch_vmem_paging(scheduled_tid)
    /\ Disturb
    /\ stray' = FALSE
    /\ UNCHANGED <<displayed_tid, scheduled_tid, vidmapped, switching>>

\* CONTROL-L: the prompt is put at lib.c's cursor, which is not saved.
ClearScreen ==
    LET k == putc(Console(BlankCells, Home), Prompt)
    IN  /\ page' = [page EXCEPT ![VIDEO] = k.cells]
        /\ cursor' = Xy(k)
        /\ stray' = TRUE
        /\ UNCHANGED saved_xy
        /\ switch_vmem_paging(scheduled_tid)
        /\ Disturb
        /\ UNCHANGED <<displayed_tid, scheduled_tid, vidmapped, switching>>

\* A key that changes nothing: a backspace on an empty line, or ALT and the
\* function key of the terminal on display
OtherKey ==
    /\ cursor' = saved_xy[displayed_tid]
    /\ stray' = FALSE
    /\ UNCHANGED saved_xy
    /\ switch_vmem_paging(scheduled_tid)
    /\ Disturb
    /\ UNCHANGED <<page, displayed_tid, scheduled_tid, vidmapped, switching>>

\* (mutant) the screen of the next terminal is not copied to video memory
Mutant_Copied(t) == [page EXCEPT ![displayed_tid] = page[VIDEO]]

\* The two memcpy() of a switch to terminal t
Copied(t) == [page EXCEPT ![displayed_tid] = page[VIDEO], ![VIDEO] = page[t]]

\* switch_terminal(), up to its sti().  Bound: a task has one such handler on
\* its stack.
StartSwitch(t) ==
    /\ t # displayed_tid /\ ~switching[scheduled_tid]
    /\ page' = Copied(t)
    /\ vmem' = VIDEO
    /\ screen_xy' = saved_xy[t] /\ cursor' = saved_xy[t]
    /\ displayed_tid' = t
    /\ switching' = [switching EXCEPT ![scheduled_tid] = TRUE]
    /\ stray' = FALSE
    /\ UNCHANGED <<saved_xy, scheduled_tid, vidmapped, interrupted>>

\* (mutant) the handler does not turn back to the page of the program
Mutant_TurnBack == UNCHANGED <<vmem, screen_xy>>
TurnBack == switch_vmem_paging(scheduled_tid)

\* The handler ends: update_cursor() with the cursor lib.c has by now, that of
\* the program if an interrupt came.
FinishSwitch ==
    /\ switching[scheduled_tid]
    /\ cursor' = screen_xy
    /\ stray' = (interrupted[scheduled_tid] /\ scheduled_tid # displayed_tid)
    /\ UNCHANGED saved_xy
    /\ TurnBack
    /\ switching' = [switching EXCEPT ![scheduled_tid] = FALSE]
    /\ interrupted' = [interrupted EXCEPT ![scheduled_tid] = FALSE]
    /\ UNCHANGED <<page, displayed_tid, scheduled_tid, vidmapped>>

-----------------------------------------------------------------------------
Common ==
    \/ vidmap \/ StartProgram \/ EndProgram \/ schedule
    \/ FinishSwitch \/ OtherKey \/ ClearScreen
    \/ \E i \in Screen, c \in Stored : Store(i, c)
    \/ \E c \in Output : Echo(c)
    \/ \E t \in Terminals : StartSwitch(t)

Next ==
    \/ Common
    \/ \E c \in Output : terminal_write(c)

Spec == Init /\ [][Next]_vars

\* Programs that use vidmap() call write() only before it, as fish does.
PlainNext ==
    \/ Common
    \/ \E c \in Output : terminal_write(c) /\ ~vidmapped[scheduled_tid]

PlainSpec == Init /\ [][PlainNext]_vars

-----------------------------------------------------------------------------
Cells == [Screen -> {Blank} \cup Output \cup Stored]
Positions == [x : Nat, y : 0 .. Rows - 1]

\* The types.  A column may be past the edge of the screen, a row may not.
TypeOK ==
    /\ page \in [Pages -> Cells]
    /\ vmem \in Pages
    /\ screen_xy \in Positions /\ cursor \in Positions
    /\ saved_xy \in [Terminals -> Positions]
    /\ displayed_tid \in Terminals /\ scheduled_tid \in Terminals
    /\ vidmapped \in [Terminals -> BOOLEAN] /\ switching \in [Terminals -> BOOLEAN]
    /\ interrupted \in [Terminals -> BOOLEAN] /\ stray \in BOOLEAN

\* While a program that called vidmap() runs, what it stores goes to the
\* screen of its own terminal, on display or not: the scheduler and every
\* handler turn back to its page.
VidmapOwn ==
    Running /\ vidmapped[scheduled_tid] => vmem = PageOf(scheduled_tid)

\* The cursor of the display is where the terminal on display goes on, whatever
\* programs of other terminals write.  It strays only when CONTROL-L puts a
\* prompt without saving the cursor, or when an interrupt came between the sti()
\* of switch_terminal() and the end of its handler, which then shows the cursor
\* of the terminal it interrupted; the next key or output puts it right.
CursorFollowsDisplay == ~stray => cursor = saved_xy[displayed_tid]

\* The screen that terminal t shows, or will show
ScreenOf(t) == Console(page[PageOf(t)], saved_xy[t])

\* Every terminal has a console of its own: characters, stores, CONTROL-L and
\* switches do to the screens what Screens says, whichever page is turned to.
Consoles == INSTANCE Screens WITH
    console <- [t \in Terminals |-> ScreenOf(t)], display <- displayed_tid
ImplementsScreens == Consoles!Spec
=============================================================================
