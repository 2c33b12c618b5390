---------------------------- MODULE VideoProofs ----------------------------
(***************************************************************************)
(* Proofs about module Video, for any number of terminals and screens of   *)
(* any size: what reaches which page, and whose cursor is shown.           *)
(***************************************************************************)
EXTENDS Video, Induction

\* What the proofs need of the types: nothing of what is on the screens.
Shapes ==
    /\ displayed_tid \in Terminals /\ scheduled_tid \in Terminals
    /\ DOMAIN saved_xy = Terminals
    /\ saved_xy = [t \in Terminals |-> saved_xy[t]]
    /\ vidmapped \in [Terminals -> BOOLEAN] /\ switching \in [Terminals -> BOOLEAN]
    /\ interrupted \in [Terminals -> BOOLEAN]

\* Why the cursor is right when a switch ends: a handler that no interrupt came
\* to is that of the program that runs, and lib.c still has the cursor of the
\* terminal it switched to; after an interrupt lib.c has that of the program.
WindowKnown ==
    \A t \in Terminals :
        /\ interrupted[t] => switching[t]
        /\ switching[t] /\ ~interrupted[t] => t = scheduled_tid
        /\ switching[t] /\ t = scheduled_tid =>
              screen_xy = saved_xy[IF interrupted[t] THEN t ELSE displayed_tid]

CursorInv == Shapes /\ CursorFollowsDisplay /\ WindowKnown

\* The turns of the scheduler stay among the terminals.
LEMMA NextTerminal ==
    ASSUME NEW t \in Terminals
    PROVE  (t + 1) % NumTerminals \in Terminals
BY VideoAssumption DEF Terminals

\* Putting a character on the screen of a terminal moves only its cursor, and
\* the cursor of the display with it if that terminal is on display.
LEMMA PutOnMoves ==
    ASSUME Shapes, NEW t \in Terminals, NEW c, PutOn(t, c)
    PROVE  /\ DOMAIN saved_xy' = Terminals
           /\ saved_xy' = [u \in Terminals |-> saved_xy'[u]]
           /\ \A u \in Terminals \ {t} : saved_xy'[u] = saved_xy[u]
           /\ cursor' = IF t = displayed_tid THEN saved_xy'[t] ELSE cursor
<1> DEFINE k == putc(Console(page[PageOf(t)], saved_xy[t]), c)
<1>1. /\ saved_xy' = [saved_xy EXCEPT ![t] = Xy(k)]
      /\ cursor' = IF t = displayed_tid THEN Xy(k) ELSE cursor
  BY DEF PutOn, CursorAfter
<1> HIDE DEF k
<1>2. saved_xy' = [u \in Terminals |-> IF u = t THEN Xy(k) ELSE saved_xy[u]]
  BY <1>1 DEF Shapes
<1> QED  BY <1>1, <1>2

\* The shapes are an invariant of every step, those of Spec included.
LEMMA ShapesKept == Shapes /\ [Next]_vars => Shapes'
<1> SUFFICES ASSUME Shapes, [Next]_vars PROVE Shapes'
  OBVIOUS
<1>1. CASE vidmap
  BY <1>1 DEF vidmap, Shapes
<1>2. CASE StartProgram \/ EndProgram
  BY <1>2 DEF StartProgram, EndProgram, Shapes
<1>3. CASE schedule
  BY <1>3, NextTerminal DEF schedule, Disturb, Shapes
<1>4. CASE FinishSwitch
  BY <1>4 DEF FinishSwitch, Shapes
<1>5. ASSUME NEW i, NEW c, Store(i, c) PROVE Shapes'
  BY <1>5 DEF Store, Shapes
<1>6. ASSUME NEW c, Echo(c) PROVE Shapes'
  <2>1. displayed_tid \in Terminals /\ PutOn(displayed_tid, c)
    BY <1>6 DEF Echo, Shapes
  <2> QED  BY <1>6, <2>1, PutOnMoves DEF Echo, Disturb, Shapes
<1>7. ASSUME NEW t \in Terminals, StartSwitch(t) PROVE Shapes'
  BY <1>7 DEF StartSwitch, Shapes
<1>8. CASE ClearScreen
  BY <1>8 DEF ClearScreen, Disturb, Shapes
<1>9. ASSUME NEW c, terminal_write(c) PROVE Shapes'
  <2>1. scheduled_tid \in Terminals /\ PutOn(scheduled_tid, c)
    BY <1>9 DEF terminal_write, Shapes
  <2> QED  BY <1>9, <2>1, PutOnMoves DEF terminal_write, Shapes
<1>10. CASE OtherKey
  BY <1>10 DEF OtherKey, Disturb, Shapes
<1>11. CASE UNCHANGED vars
  BY <1>11 DEF vars, Shapes
<1> QED  BY <1>1, <1>2, <1>3, <1>4, <1>5, <1>6, <1>7, <1>8, <1>9, <1>10, <1>11 DEF Next, Common

LEMMA InitShapes == Init => Shapes /\ CursorFollowsDisplay /\ WindowKnown /\ VidmapOwn
BY VideoAssumption
   DEF Init, Shapes, CursorFollowsDisplay, WindowKnown, VidmapOwn, Terminals, Running

LEMMA PlainIsNext == PlainNext => Next
BY DEF PlainNext, Next

-----------------------------------------------------------------------------
\* A step of PlainSpec leaves a running program that called vidmap() with its
\* own page: every path back to it turns to that page, and the one that does
\* not, the end of terminal_write(), returns to a program that has none.
LEMMA VidmapStep == Shapes /\ VidmapOwn /\ [PlainNext]_vars => VidmapOwn'
<1> SUFFICES ASSUME Shapes, VidmapOwn, [PlainNext]_vars PROVE VidmapOwn'
  OBVIOUS
<1> USE DEF VidmapOwn, PageOf, Running
<1>1. CASE vidmap
  BY <1>1 DEF vidmap, switch_vmem_paging
<1>2. CASE StartProgram
  BY <1>2 DEF StartProgram, Shapes
<1>11. CASE EndProgram
  BY <1>11 DEF EndProgram, switch_vmem_paging
<1>12. CASE ClearScreen
  BY <1>12 DEF ClearScreen, switch_vmem_paging
<1>3. CASE schedule
  BY <1>3 DEF schedule, switch_vmem_paging
<1>4. CASE FinishSwitch
  BY <1>4 DEF FinishSwitch, TurnBack, switch_vmem_paging
<1>5. ASSUME NEW i, NEW c, Store(i, c) PROVE VidmapOwn'
  BY <1>5 DEF Store
<1>6. ASSUME NEW c, Echo(c) PROVE VidmapOwn'
  BY <1>6 DEF Echo, switch_vmem_paging
<1>7. ASSUME NEW t \in Terminals, StartSwitch(t) PROVE VidmapOwn'
  BY <1>7 DEF StartSwitch, Shapes
<1>8. ASSUME NEW c, terminal_write(c), ~vidmapped[scheduled_tid] PROVE VidmapOwn'
  BY <1>8 DEF terminal_write
<1>9. CASE OtherKey
  BY <1>9 DEF OtherKey, switch_vmem_paging
<1>10. CASE UNCHANGED vars
  BY <1>10 DEF vars
<1> QED  BY <1>1, <1>2, <1>3, <1>4, <1>5, <1>6, <1>7, <1>8, <1>9, <1>10, <1>11, <1>12
         DEF PlainNext, Common

\* A program that has vidmap()'s screen and does not write() stores only into
\* the screen of its own terminal, whatever the scheduler and the keyboard do.
THEOREM VidmapIsOwn == PlainSpec => []VidmapOwn
<1>1. Init => Shapes /\ VidmapOwn
  BY InitShapes
<1>2. Shapes /\ VidmapOwn /\ [PlainNext]_vars => Shapes' /\ VidmapOwn'
  BY ShapesKept, VidmapStep, PlainIsNext
<1> QED  BY <1>1, <1>2, PTL DEF PlainSpec

-----------------------------------------------------------------------------
\* Every step, CONTROL-L and write() after vidmap() included, keeps the cursor
\* of the display where its history says, and what is known of the windows of
\* switches.
LEMMA CursorStep == CursorInv /\ [Next]_vars => CursorInv'
<1> SUFFICES ASSUME CursorInv, [Next]_vars PROVE (CursorFollowsDisplay /\ WindowKnown)'
  BY ShapesKept DEF CursorInv
<1> USE DEF CursorFollowsDisplay, WindowKnown
<1>0. Shapes /\ CursorFollowsDisplay /\ WindowKnown
  BY DEF CursorInv
<1>1. CASE vidmap
  BY <1>0, <1>1 DEF vidmap, Running, Shapes
<1>2. CASE StartProgram
  BY <1>0, <1>2 DEF StartProgram
<1>11. CASE EndProgram
  BY <1>0, <1>11 DEF EndProgram, Running, Shapes
<1>3. CASE schedule
  BY <1>0, <1>3 DEF schedule, Disturb, switch_vmem_paging, Shapes
<1>4. CASE FinishSwitch
  BY <1>0, <1>4 DEF FinishSwitch, Shapes
<1>5. ASSUME NEW i, NEW c, Store(i, c) PROVE (CursorFollowsDisplay /\ WindowKnown)'
  BY <1>0, <1>5 DEF Store
<1>6. ASSUME NEW c, Echo(c) PROVE (CursorFollowsDisplay /\ WindowKnown)'
  <2>1. displayed_tid \in Terminals /\ PutOn(displayed_tid, c)
    BY <1>0, <1>6 DEF Echo, Shapes
  <2>2. cursor' = saved_xy'[displayed_tid]
    BY <1>0, <2>1, PutOnMoves
  <2> QED  BY <1>0, <1>6, <2>2 DEF Echo, Disturb, switch_vmem_paging, Shapes
<1>7. ASSUME NEW t \in Terminals, StartSwitch(t) PROVE (CursorFollowsDisplay /\ WindowKnown)'
  BY <1>0, <1>7 DEF StartSwitch, Shapes
<1>8. ASSUME NEW c, terminal_write(c) PROVE (CursorFollowsDisplay /\ WindowKnown)'
  <2>1. scheduled_tid \in Terminals /\ PutOn(scheduled_tid, c)
    BY <1>0, <1>8 DEF terminal_write, Shapes
  <2>2. ~stray' => cursor' = saved_xy'[displayed_tid]
    BY <1>0, <1>8, <2>1, PutOnMoves DEF terminal_write, Shapes
  <2> QED  BY <1>0, <1>8, <2>2 DEF terminal_write, Running, Shapes
<1>9. CASE OtherKey
  BY <1>0, <1>9 DEF OtherKey, Disturb, switch_vmem_paging, Shapes
<1>12. CASE ClearScreen
  BY <1>0, <1>12 DEF ClearScreen, Disturb, switch_vmem_paging, Shapes
<1>10. CASE UNCHANGED vars
  BY <1>0, <1>10 DEF vars
<1> QED  BY <1>1, <1>2, <1>3, <1>4, <1>5, <1>6, <1>7, <1>8, <1>9, <1>10, <1>11, <1>12
         DEF Next, Common

\* The display's cursor stays with the terminal on display while programs of
\* the other terminals write and switches are interrupted: it is elsewhere only
\* after CONTROL-L, or after a handler that an interrupt took to another
\* terminal, until the next key or output.
THEOREM CursorIsOfDisplay == Spec => []CursorFollowsDisplay
<1>1. Init => CursorInv
  BY InitShapes DEF CursorInv
<1>2. CursorInv /\ [Next]_vars => CursorInv'
  BY CursorStep
<1>3. CursorInv => CursorFollowsDisplay
  BY DEF CursorInv
<1> QED  BY <1>1, <1>2, <1>3, PTL DEF Spec

-----------------------------------------------------------------------------
(* The console: every character takes a console to a console.              *)

Values == {Blank} \cup Output \cup Stored
AnyConsole == [cells : [Screen -> Values], x : Nat, y : 0 .. Rows - 1]

LEMMA SetType ==
  ASSUME NEW cells \in [Screen -> Values], NEW i, NEW c \in Values
  PROVE  Set(cells, i, c) \in [Screen -> Values]
BY DEF Set

LEMMA ScrolledType ==
  ASSUME NEW cells \in [Screen -> Values]
  PROVE  Scrolled(cells) \in [Screen -> Values]
BY DEF Scrolled, Values

LEMMA WrappedType ==
  ASSUME NEW k \in AnyConsole, NEW x \in Nat
  PROVE  Wrapped(k, x) \in AnyConsole
<1>1. Scrolled(k.cells) \in [Screen -> Values]
  BY ScrolledType DEF AnyConsole
<1>2. k.y # Rows - 1 => k.y + 1 \in 0 .. Rows - 1
  BY SizeAssumption DEF AnyConsole
<1> QED  BY <1>1, <1>2 DEF AnyConsole, Wrapped

LEMMA PutVisibleType ==
  ASSUME NEW k \in AnyConsole, NEW c \in Values
  PROVE  PutVisible(k, c) \in AnyConsole
<1>1. Set(k.cells, At(k), c) \in [Screen -> Values]
  BY SetType DEF AnyConsole
<1>2. [k EXCEPT !.cells = Set(@, At(k), c)] \in AnyConsole
  BY <1>1 DEF AnyConsole
<1>3. k.x + 1 \in Nat
  BY DEF AnyConsole
<1> QED  BY <1>2, <1>3, WrappedType DEF PutVisible

LEMMA PutNewLineType ==
  ASSUME NEW k \in AnyConsole
  PROVE  PutNewLine(k) \in AnyConsole
<1>1. Scrolled(k.cells) \in [Screen -> Values]
  BY ScrolledType DEF AnyConsole
<1>2. k.y # Rows - 1 => k.y + 1 \in 0 .. Rows - 1
  BY SizeAssumption DEF AnyConsole
<1> QED  BY <1>1, <1>2 DEF AnyConsole, PutNewLine

LEMMA PutBackSpaceType ==
  ASSUME NEW k \in AnyConsole
  PROVE  PutBackSpace(k) \in AnyConsole
<1>1. Back(k) \in AnyConsole
  <2>1. k.x > 0 => k.x - 1 \in Nat
    BY DEF AnyConsole
  <2>2. k.y # 0 => k.y - 1 \in 0 .. Rows - 1 /\ Cols \in Nat
    BY SizeAssumption DEF AnyConsole
  <2> QED  BY <2>1, <2>2 DEF AnyConsole, Back
<1>2. Set(Back(k).cells, At(Back(k)), Blank) \in [Screen -> Values]
  BY <1>1, SetType DEF AnyConsole, Values
<1> QED  BY <1>1, <1>2 DEF AnyConsole, PutBackSpace

\* A tab is TabStop blanks, one after the other.
LEMMA PutTabType ==
  ASSUME NEW k \in AnyConsole
  PROVE  PutTab(k) \in AnyConsole
<1> DEFINE after == CHOOSE f : f = [i \in 0 .. TabStop |->
                        IF i = 0 THEN k ELSE PutVisible(f[i - 1], Blank)]
           G == [i \in Nat |-> [q \in AnyConsole |-> PutVisible(q, Blank)]]
<1>1. PutTab(k) = after[TabStop]
  BY DEF PutTab
<1>2. TabStop \in Nat /\ Blank \in Values
  BY SizeAssumption DEF Values
<1>3. G \in [Nat -> [AnyConsole -> AnyConsole]]
  BY <1>2, PutVisibleType
<1>4. PICK f \in [0 .. TabStop -> AnyConsole] :
        f[0] = k /\ \A i \in 1 .. TabStop : f[i] = G[i][f[i - 1]]
  <2> HIDE DEF G
  <2>1. PICK f \in [0 .. TabStop -> AnyConsole] : Iteration(f, k, G, TabStop)
    BY <1>2, <1>3, Iterates
  <2> QED  BY <2>1 DEF Iteration
<1>5. f = [i \in 0 .. TabStop |-> IF i = 0 THEN k ELSE PutVisible(f[i - 1], Blank)]
  <2>1. ASSUME NEW i \in 0 .. TabStop
        PROVE  f[i] = IF i = 0 THEN k ELSE PutVisible(f[i - 1], Blank)
    <3>1. CASE i = 0
      BY <1>4, <3>1
    <3>2. CASE i # 0
      <4>1. i \in 1 .. TabStop /\ i \in Nat /\ i - 1 \in 0 .. TabStop
        BY <1>2, <3>2
      <4>2. f[i - 1] \in AnyConsole
        BY <4>1
      <4>3. G[i][f[i - 1]] = PutVisible(f[i - 1], Blank)
        BY <4>1, <4>2
      <4> QED  BY <1>4, <3>2, <4>1, <4>3
    <3> QED  BY <3>1, <3>2
  <2> QED  BY <2>1
<1>6. after = [i \in 0 .. TabStop |-> IF i = 0 THEN k ELSE PutVisible(after[i - 1], Blank)]
  BY <1>5
<1> HIDE DEF after
<1>7. \A i \in 0 .. TabStop : i \in {n \in 0 .. TabStop : after[n] \in AnyConsole}
  <2> DEFINE S == {n \in 0 .. TabStop : after[n] \in AnyConsole}
  <2>1. 0 \in S
    BY <1>2, <1>6
  <2>2. ASSUME NEW n \in 1 .. TabStop, n - 1 \in S PROVE n \in S
    BY <1>2, <1>6, <2>2, PutVisibleType
  <2> HIDE DEF S
  <2>3. \A i \in 0 .. TabStop : i \in S
    BY <1>2, <2>1, <2>2, BoundedInduction
  <2> QED  BY <2>3 DEF S
<1> QED  BY <1>1, <1>2, <1>7

LEMMA PutcType ==
  ASSUME NEW k \in AnyConsole, NEW c \in Values
  PROVE  putc(k, c) \in AnyConsole
BY PutVisibleType, PutNewLineType, PutBackSpaceType, PutTabType DEF putc

-----------------------------------------------------------------------------
(* Types                                                                   *)

LEMMA PageOfType == TypeOK => \A t \in Terminals : PageOf(t) \in Pages
BY DEF TypeOK, PageOf, Pages

LEMMA ConsoleIsConsole ==
  ASSUME NEW cells \in Cells, NEW xy \in Positions
  PROVE  /\ Console(cells, xy) \in AnyConsole
         /\ Console(cells, xy).cells = cells
         /\ Xy(Console(cells, xy)) = xy
BY DEF Console, Xy, AnyConsole, Cells, Values, Positions

LEMMA XyType ==
  ASSUME NEW k \in AnyConsole
  PROVE  k.cells \in Cells /\ Xy(k) \in Positions /\ Console(k.cells, Xy(k)) = k
BY DEF Console, Xy, AnyConsole, Cells, Values, Positions

\* What PutOn puts is a console.
LEMMA PutOnConsole ==
  ASSUME TypeOK, NEW t \in Terminals, NEW c \in Output
  PROVE  putc(Console(page[PageOf(t)], saved_xy[t]), c) \in AnyConsole
<1>1. page[PageOf(t)] \in Cells /\ saved_xy[t] \in Positions
  BY PageOfType DEF TypeOK
<1>2. c \in Values
  BY DEF Values
<1> QED  BY <1>1, <1>2, ConsoleIsConsole, PutcType

LEMMA PutOnType ==
  ASSUME TypeOK, NEW t \in Terminals, NEW c \in Output, PutOn(t, c)
  PROVE  /\ page' \in [Pages -> Cells]
         /\ saved_xy' \in [Terminals -> Positions]
         /\ cursor' \in Positions
<1> DEFINE k == putc(Console(page[PageOf(t)], saved_xy[t]), c)
<1>1. k.cells \in Cells /\ Xy(k) \in Positions
  BY PutOnConsole, XyType
<1> DEFINE past == StoredPast(Console(page[PageOf(t)], saved_xy[t]), c)
<1>2. page' = [p \in Pages |-> [i \in Screen |->
                IF p \in Terminals /\ (p + 1) * PageCells + i \in past THEN Ink(c)
                ELSE IF p = PageOf(t) THEN k.cells[i] ELSE page[p][i]]]
  BY DEF PutOn
<1>3. /\ saved_xy' = [saved_xy EXCEPT ![t] = Xy(k)]
      /\ cursor' = IF t = displayed_tid THEN Xy(k) ELSE cursor
  BY DEF PutOn, CursorAfter
<1>4. Ink(c) \in Values
  BY DEF Ink, Values
<1> HIDE DEF k, past
<1>5. page' \in [Pages -> [Screen -> Values]]
  <2>1. ASSUME NEW p \in Pages, NEW i \in Screen, NEW hit \in BOOLEAN
        PROVE  (IF hit THEN Ink(c) ELSE IF p = PageOf(t) THEN k.cells[i] ELSE page[p][i]) \in Values
    BY <1>1, <1>4 DEF TypeOK, Cells, Values
  <2> QED  BY <1>2, <2>1
<1> QED  BY <1>1, <1>3, <1>5 DEF TypeOK, Cells, Values

LEMMA InitTypes == Init => TypeOK
<1> SUFFICES ASSUME Init PROVE TypeOK
  OBVIOUS
<1>1. page \in [Pages -> Cells]
  BY DEF Init, Cells
<1>2. Home \in Positions
  BY SizeAssumption DEF Home, Positions
<1>3. 0 \in Terminals /\ VIDEO \in Pages
  BY VideoAssumption DEF Terminals, Pages
<1> QED  BY <1>1, <1>2, <1>3 DEF Init, TypeOK

\* The page and lib.c's cursor that switch_vmem_paging() turns to
LEMMA TurnType ==
  ASSUME TypeOK, NEW t \in Terminals, switch_vmem_paging(t),
         saved_xy' \in [Terminals -> Positions]
  PROVE  vmem' \in Pages /\ screen_xy' \in Positions
BY PageOfType DEF switch_vmem_paging

LEMMA TypesKept == ASSUME TypeOK, [Next]_vars PROVE TypeOK'
<1>1. CASE vidmap
  BY <1>1, TurnType DEF vidmap, TypeOK
<1>2. CASE StartProgram
  BY <1>2 DEF StartProgram, TypeOK
<1>12. CASE EndProgram
  BY <1>12, TurnType DEF EndProgram, TypeOK
<1>3. CASE schedule
  <2>1. scheduled_tid' \in Terminals /\ saved_xy' \in [Terminals -> Positions]
    BY <1>3, NextTerminal DEF schedule, TypeOK
  <2>2. vmem' \in Pages /\ screen_xy' \in Positions
    BY <1>3, <2>1, TurnType DEF schedule
  <2> QED  BY <1>3, <2>1, <2>2 DEF schedule, Disturb, TypeOK
<1>4. CASE FinishSwitch
  BY <1>4, TurnType DEF FinishSwitch, TurnBack, TypeOK
<1>5. ASSUME NEW i \in Screen, NEW c \in Stored, Store(i, c) PROVE TypeOK'
  <2>1. page' \in [Pages -> Cells]
    BY <1>5 DEF Store, TypeOK, Cells
  <2> QED  BY <1>5, <2>1 DEF Store, TypeOK
<1>6. ASSUME NEW c \in Output, Echo(c) PROVE TypeOK'
  <2>1. /\ page' \in [Pages -> Cells]
        /\ saved_xy' \in [Terminals -> Positions]
        /\ cursor' \in Positions
    BY <1>6, PutOnType DEF Echo, TypeOK
  <2>2. vmem' \in Pages /\ screen_xy' \in Positions
    BY <1>6, <2>1, TurnType DEF Echo, TypeOK
  <2> QED  BY <1>6, <2>1, <2>2 DEF Echo, Disturb, TypeOK
<1>7. ASSUME NEW t \in Terminals, StartSwitch(t) PROVE TypeOK'
  <2>1. VIDEO \in Pages /\ \A u \in Terminals : u \in Pages
    BY DEF Pages
  <2>2. page' \in [Pages -> Cells]
    BY <1>7, <2>1 DEF StartSwitch, Copied, TypeOK
  <2> QED  BY <1>7, <2>1, <2>2 DEF StartSwitch, TypeOK
<1>8. CASE ClearScreen
  <2> DEFINE k == putc(Console(BlankCells, Home), Prompt)
  <2>1. BlankCells \in Cells /\ Home \in Positions /\ Prompt \in Values
    BY SizeAssumption, VideoAssumption DEF BlankCells, Cells, Home, Positions, Values
  <2>2. k.cells \in Cells /\ Xy(k) \in Positions
    BY <2>1, ConsoleIsConsole, PutcType, XyType
  <2>3. page' = [page EXCEPT ![VIDEO] = k.cells] /\ cursor' = Xy(k)
    BY <1>8 DEF ClearScreen
  <2> HIDE DEF k
  <2>4. page' \in [Pages -> Cells] /\ cursor' \in Positions
    BY <2>2, <2>3 DEF TypeOK
  <2>5. vmem' \in Pages /\ screen_xy' \in Positions
    BY <1>8, TurnType DEF ClearScreen, TypeOK
  <2> QED  BY <1>8, <2>4, <2>5 DEF ClearScreen, Disturb, TypeOK
<1>9. ASSUME NEW c \in Output, terminal_write(c) PROVE TypeOK'
  <2>1. /\ page' \in [Pages -> Cells]
        /\ saved_xy' \in [Terminals -> Positions]
        /\ cursor' \in Positions
    BY <1>9, PutOnType DEF terminal_write, TypeOK
  <2>2. vmem' \in Pages /\ screen_xy' \in Positions
    BY <1>9, <2>1, TurnType DEF terminal_write, TypeOK
  <2> QED  BY <1>9, <2>1, <2>2 DEF terminal_write, TypeOK
<1>10. CASE OtherKey
  BY <1>10, TurnType DEF OtherKey, Disturb, TypeOK
<1>11. CASE UNCHANGED vars
  BY <1>11 DEF vars, TypeOK
<1> QED  BY <1>1, <1>2, <1>3, <1>4, <1>5, <1>6, <1>7, <1>8, <1>9, <1>10, <1>11, <1>12
         DEF Next, Common

\* No step writes a row past the screen, whatever is put on it, with CONTROL-L
\* and write() after vidmap() too: pages stay screens, cursors stay in a row.
THEOREM VideoTypes == Spec => []TypeOK
BY InitTypes, TypesKept, PTL DEF Spec

-----------------------------------------------------------------------------
(* The refinement of Screens                                               *)

Mapped == [t \in Terminals |-> ScreenOf(t)]

\* The operators of Console are the same on both levels.
LEMMA SameConsole ==
  \A k, c : /\ Consoles!putc(k, c) = putc(k, c)
            /\ Consoles!StoredPast(k, c) = StoredPast(k, c)
            /\ Consoles!Ink(c) = Ink(c)
BY DEF Consoles!putc, putc, Consoles!PutVisible, PutVisible, Consoles!PutNewLine, PutNewLine,
       Consoles!PutBackSpace, PutBackSpace, Consoles!PutTab, PutTab, Consoles!Wrapped, Wrapped,
       Consoles!Scrolled, Scrolled, Consoles!Set, Set, Consoles!Screen, Screen,
       Consoles!At, At, Consoles!Back, Back, Consoles!StoredPast, StoredPast, Consoles!Ink, Ink

\* Two terminals never have one page, and only one has video memory.
LEMMA OwnPages ==
  ASSUME TypeOK, NEW t \in Terminals, NEW u \in Terminals, t # u
  PROVE  PageOf(t) # PageOf(u)
BY VideoAssumption DEF TypeOK, PageOf, VIDEO, Terminals

LEMMA MapInit == Init => Consoles!Init
<1> SUFFICES ASSUME Init PROVE Consoles!Init
  OBVIOUS
<1> DEFINE Start == {Blank} \cup Stored
<1>1. \A t \in Terminals : PageOf(t) \in Pages
  BY InitTypes, PageOfType
<1>2. page \in [Pages -> [Screen -> Start]] /\ page[VIDEO] = BlankCells
  BY DEF Init
<1>3. \A t \in Terminals :
        ScreenOf(t) = [cells |-> page[PageOf(t)], x |-> 0, y |-> 0]
  BY DEF Init, ScreenOf, Console, Home
<1>4. \A t \in Terminals :
        ScreenOf(t) \in [cells : [Screen -> Start], x : {0}, y : {0}]
  BY <1>1, <1>2, <1>3
<1>5. 0 \in Terminals /\ ScreenOf(0).cells = BlankCells
  <2>1. 0 \in Terminals /\ displayed_tid = 0
    BY VideoAssumption DEF Terminals, Init
  <2> QED  BY <1>2, <1>3, <2>1 DEF PageOf
<1> QED  BY <1>4, <1>5 DEF Init, Consoles!Init, Consoles!Terminals, Terminals, Consoles!BlankCells,
                           BlankCells, Consoles!Screen, Screen

\* The pages of the terminals lie past that of video memory.
LEMMA PastPage ==
  ASSUME NEW p \in Terminals, NEW i \in Screen
  PROVE  (p + 1) * PageCells + i >= PageCells
<1>1. p \in Nat /\ PageCells \in Nat /\ i \in Nat
  BY VideoAssumption DEF Terminals, Screen
<1>2. p * PageCells \in Nat /\ (p + 1) * PageCells = p * PageCells + PageCells
  BY <1>1
<1> QED  BY <1>1, <1>2

\* A character put on the screen of t's page changes t's console, and others
\* that are not on display if it lies past the page.
LEMMA MapPut ==
  ASSUME TypeOK, NEW t \in Terminals, NEW c \in Output, PutOn(t, c),
         displayed_tid' = displayed_tid
  PROVE  Consoles!Put(t, c)
<1> DEFINE old == Console(page[PageOf(t)], saved_xy[t])
           k == putc(old, c)
           past == StoredPast(old, c)
           hits == {q \in (Terminals \ {displayed_tid}) \X Screen :
                       (q[1] + 1) * PageCells + q[2] \in past}
           After(u) == IF u = t THEN k ELSE ScreenOf(u)
           Drawn(u) == [i \in Screen |-> IF <<u, i>> \in hits THEN Ink(c) ELSE After(u).cells[i]]
<1>1. k \in AnyConsole /\ Console(k.cells, Xy(k)) = k /\ old = ScreenOf(t)
  BY PutOnConsole, XyType DEF ScreenOf
<1>2. /\ page' = [p \in Pages |-> [i \in Screen |->
                    IF p \in Terminals /\ (p + 1) * PageCells + i \in past THEN Ink(c)
                    ELSE IF p = PageOf(t) THEN k.cells[i] ELSE page[p][i]]]
      /\ saved_xy' = [saved_xy EXCEPT ![t] = Xy(k)]
  BY DEF PutOn
<1>3. \A u \in Terminals : PageOf(u)' = PageOf(u) /\ PageOf(u) \in Pages
  BY PageOfType DEF PageOf, VIDEO
<1>4. hits \in SUBSET ((Terminals \ {displayed_tid}) \X Screen)
  OBVIOUS
<1>5. hits # {} => \E a \in past : a >= PageCells
  BY PastPage
<1> HIDE DEF k, past
<1>6. ASSUME NEW u \in Terminals
      PROVE  /\ After(u) = Console(After(u).cells, Xy(After(u)))
             /\ saved_xy'[u] = Xy(After(u))
             /\ After(u).cells = IF u = t THEN k.cells ELSE page[PageOf(u)]
  <2>1. CASE u = t
    <3>1. saved_xy'[t] = Xy(k)
      BY <1>2 DEF TypeOK
    <3> QED  BY <1>1, <2>1, <3>1
  <2>2. CASE u # t
    <3>1. saved_xy'[u] = saved_xy[u] /\ saved_xy[u] \in Positions
      BY <1>2, <2>2 DEF TypeOK
    <3>2. Xy(ScreenOf(u)) = saved_xy[u]
      BY <3>1 DEF ScreenOf, Console, Xy, Positions
    <3> QED  BY <2>2, <3>1, <3>2 DEF ScreenOf, Console
  <2> QED  BY <2>1, <2>2
<1>7. ASSUME NEW u \in Terminals PROVE page'[PageOf(u)] = Drawn(u)
  <2>1. PageOf(u) = PageOf(t) <=> u = t
    BY OwnPages
  <2>2. ASSUME NEW i \in Screen
        PROVE  (PageOf(u) \in Terminals /\ (PageOf(u) + 1) * PageCells + i \in past)
                  <=> <<u, i>> \in hits
    <3>1. CASE u = displayed_tid
      BY <3>1, VideoAssumption DEF PageOf, VIDEO, Terminals
    <3>2. CASE u # displayed_tid
      BY <3>2 DEF PageOf
    <3> QED  BY <3>1, <3>2
  <2> HIDE DEF hits, After
  <2>3. page'[PageOf(u)] = [i \in Screen |->
            IF PageOf(u) \in Terminals /\ (PageOf(u) + 1) * PageCells + i \in past THEN Ink(c)
            ELSE IF PageOf(u) = PageOf(t) THEN k.cells[i] ELSE page[PageOf(u)][i]]
    BY <1>2, <1>3
  <2> QED  BY <1>6, <2>1, <2>2, <2>3
<1> HIDE DEF hits
<1>8. ASSUME NEW u \in Terminals PROVE ScreenOf(u)' = [After(u) EXCEPT !.cells = Drawn(u)]
  <2>1. ScreenOf(u)' = Console(Drawn(u), Xy(After(u)))
    BY <1>3, <1>6, <1>7 DEF ScreenOf, Console
  <2> HIDE DEF Drawn, After
  <2>2. [Console(After(u).cells, Xy(After(u))) EXCEPT !.cells = Drawn(u)]
          = Console(Drawn(u), Xy(After(u)))
    BY DEF Console
  <2> QED  BY <1>6, <2>1, <2>2
<1>9. Mapped' = [u \in Terminals |-> [After(u) EXCEPT !.cells =
                    [i \in Screen |-> IF <<u, i>> \in hits THEN Ink(c) ELSE @[i]]]]
  BY <1>8 DEF Mapped
<1>10. /\ Mapped[t] = old /\ k = Consoles!putc(Mapped[t], c)
       /\ past = Consoles!StoredPast(Mapped[t], c)
       /\ \A u \in Terminals : Mapped[u] = ScreenOf(u)
  BY <1>1, SameConsole DEF Mapped, k, past
<1>11. Mapped' = [u \in Terminals |->
          [(IF u = t THEN Consoles!putc(Mapped[u], c) ELSE Mapped[u]) EXCEPT !.cells =
              [i \in Screen |-> IF <<u, i>> \in hits THEN Consoles!Ink(c) ELSE @[i]]]]
  <2>1. \A u \in Terminals :
          After(u) = IF u = t THEN Consoles!putc(Mapped[u], c) ELSE Mapped[u]
    BY <1>10
  <2> HIDE DEF After
  <2> QED  BY <1>9, <2>1, SameConsole
<1> HIDE DEF After, Drawn
<1> QED  BY <1>4, <1>5, <1>10, <1>11
         DEF Consoles!Put, Mapped, Consoles!Terminals, Terminals, Consoles!Screen, Screen

\* A store through vidmap() changes the console of the terminal that runs.
LEMMA MapStore ==
  ASSUME TypeOK, VidmapOwn, NEW i \in Screen, NEW c \in Stored, Store(i, c)
  PROVE  Consoles!Store(scheduled_tid, i, c)
<1> DEFINE s == scheduled_tid
<1>1. s \in Terminals /\ vmem = PageOf(s) /\ page' = [page EXCEPT ![PageOf(s)][i] = c]
  BY DEF Store, VidmapOwn, TypeOK
<1>2. UNCHANGED <<saved_xy, displayed_tid, scheduled_tid>>
  BY DEF Store
<1>3. \A u \in Terminals : PageOf(u)' = PageOf(u) /\ PageOf(u) \in Pages
  BY <1>2, PageOfType DEF PageOf, VIDEO
<1>7. /\ page'[PageOf(s)] = [page[PageOf(s)] EXCEPT ![i] = c]
      /\ \A q \in Pages : q # PageOf(s) => page'[q] = page[q]
  BY <1>1, <1>3 DEF TypeOK
<1>8. ScreenOf(s)' = Console([page[PageOf(s)] EXCEPT ![i] = c], saved_xy[s])
  BY <1>1, <1>2, <1>3, <1>7 DEF ScreenOf, Console
<1>9. ScreenOf(s) = Console(page[PageOf(s)], saved_xy[s])
  BY DEF ScreenOf
<1> DEFINE cells == page[PageOf(s)]  xy == saved_xy[s]
<1>10. [Console(cells, xy) EXCEPT !.cells[i] = c] = Console([cells EXCEPT ![i] = c], xy)
  <2> HIDE DEF cells, xy
  <2> QED  BY DEF Console
<1>4. ScreenOf(s)' = [ScreenOf(s) EXCEPT !.cells[i] = c]
  BY <1>8, <1>9, <1>10
<1>5. ASSUME NEW u \in Terminals, u # s PROVE ScreenOf(u)' = ScreenOf(u)
  <2>1. PageOf(u) # PageOf(s)
    BY <1>1, <1>5, OwnPages
  <2> QED  BY <1>1, <1>2, <1>3, <2>1 DEF ScreenOf, TypeOK
<1>6. Mapped' = [Mapped EXCEPT ![s].cells[i] = c]
  <2> DEFINE new == [ScreenOf(s) EXCEPT !.cells[i] = c]
  <2>1. [Mapped EXCEPT ![s].cells[i] = c] = [Mapped EXCEPT ![s] = new]
    BY <1>1 DEF Mapped
  <2>4. ScreenOf(s)' = new
    BY <1>4
  <2> HIDE DEF new
  <2>2. \A u \in Terminals : ScreenOf(u)' = IF u = s THEN new ELSE ScreenOf(u)
    BY <1>2, <1>5, <2>4
  <2>3. Mapped' = [Mapped EXCEPT ![s] = new]
    BY <1>1, <2>2 DEF Mapped
  <2> QED  BY <2>1, <2>3
<1> QED  BY <1>2, <1>6 DEF Consoles!Store, Mapped

\* A switch moves two screens and changes none.
LEMMA MapSwitch ==
  ASSUME TypeOK, NEW t \in Terminals, StartSwitch(t)
  PROVE  Consoles!Show(t)
<1> DEFINE d == displayed_tid
<1>1. /\ d \in Terminals /\ t # d /\ displayed_tid' = t /\ saved_xy' = saved_xy
      /\ page' = [page EXCEPT ![d] = page[VIDEO], ![VIDEO] = page[t]]
  BY DEF StartSwitch, Copied, TypeOK
<1>2. VIDEO \in Pages /\ (\A u \in Terminals : u \in Pages /\ u # VIDEO) /\ VIDEO' = VIDEO
  BY VideoAssumption DEF Pages, VIDEO, Terminals
<1>3. /\ page'[VIDEO] = page[t] /\ page'[d] = page[VIDEO]
      /\ \A u \in Terminals : u # d => page'[u] = page[u]
  BY <1>1, <1>2 DEF TypeOK
<1>4. ASSUME NEW u \in Terminals PROVE ScreenOf(u)' = ScreenOf(u)
  <2>1. PageOf(u)' = IF u = t THEN VIDEO ELSE u
    BY <1>1, <1>2 DEF PageOf
  <2>2. PageOf(u) = IF u = d THEN VIDEO ELSE u
    BY DEF PageOf
  <2>3. page'[PageOf(u)'] = page[PageOf(u)]
    BY <1>1, <1>3, <2>1, <2>2
  <2> QED  BY <1>1, <2>3 DEF ScreenOf, Console
<1>5. Mapped' = Mapped
  BY <1>4 DEF Mapped
<1> QED  BY <1>1, <1>5 DEF Consoles!Show, Mapped

\* CONTROL-L clears the screen on display and leaves the rest.
LEMMA MapClear ==
  ASSUME TypeOK, ClearScreen
  PROVE  Consoles!Clear
<1> DEFINE d == displayed_tid
           k == putc(Console(BlankCells, Home), Prompt)
<1>1. /\ d \in Terminals /\ PageOf(d) = VIDEO /\ displayed_tid' = d /\ saved_xy' = saved_xy
      /\ page' = [page EXCEPT ![VIDEO] = k.cells]
  BY DEF ClearScreen, TypeOK, PageOf
<1>2. \A u \in Terminals : PageOf(u)' = PageOf(u) /\ PageOf(u) \in Pages
  BY <1>1, PageOfType DEF PageOf, VIDEO
<1>3. k = Consoles!putc([cells |-> Consoles!BlankCells, x |-> 0, y |-> 0], Prompt)
  BY SameConsole DEF Console, Home, Consoles!BlankCells, BlankCells, Consoles!Screen, Screen
<1> HIDE DEF k
<1>4. page'[VIDEO] = k.cells /\ \A q \in Pages : q # VIDEO => page'[q] = page[q]
  BY <1>1, <1>2 DEF TypeOK
<1> DEFINE new == [ScreenOf(d) EXCEPT !.cells = k.cells]
<1>5. ScreenOf(d)' = new
  BY <1>1, <1>2, <1>4 DEF ScreenOf, Console
<1>6. ASSUME NEW u \in Terminals, u # d PROVE ScreenOf(u)' = ScreenOf(u)
  <2>1. PageOf(u) # VIDEO
    BY <1>1, <1>6, OwnPages
  <2> QED  BY <1>1, <1>2, <1>4, <2>1 DEF ScreenOf, Console
<1>7. Mapped' = [Mapped EXCEPT ![d].cells = k.cells]
  <2>1. [Mapped EXCEPT ![d].cells = k.cells] = [Mapped EXCEPT ![d] = new]
    BY <1>1 DEF Mapped
  <2> HIDE DEF new
  <2>2. \A u \in Terminals : ScreenOf(u)' = IF u = d THEN new ELSE ScreenOf(u)
    BY <1>1, <1>5, <1>6
  <2>3. Mapped' = [Mapped EXCEPT ![d] = new]
    BY <1>1, <2>2 DEF Mapped
  <2> QED  BY <2>1, <2>3
<1> QED  BY <1>1, <1>3, <1>7 DEF Consoles!Clear, Mapped

\* A step that leaves pages, cursors and display leaves the consoles.
LEMMA MapRest ==
  ASSUME UNCHANGED <<page, saved_xy, displayed_tid>>
  PROVE  UNCHANGED Consoles!vars
<1>1. \A u \in Terminals : ScreenOf(u)' = ScreenOf(u)
  BY DEF ScreenOf, PageOf, VIDEO, Console
<1> QED  BY <1>1 DEF Consoles!vars

LEMMA MapNext ==
  ASSUME TypeOK, VidmapOwn, [PlainNext]_vars
  PROVE  [Consoles!Next]_Consoles!vars
<1> USE DEF Consoles!Next, Consoles!Terminals, Terminals
<1>1. CASE \/ vidmap \/ StartProgram \/ EndProgram \/ schedule \/ FinishSwitch \/ OtherKey
           \/ UNCHANGED vars
  <2>1. UNCHANGED <<page, saved_xy, displayed_tid>>
    BY <1>1 DEF vidmap, StartProgram, EndProgram, schedule, FinishSwitch, OtherKey, vars
  <2> QED  BY <2>1, MapRest
<1>2. ASSUME NEW i \in Screen, NEW c \in Stored, Store(i, c) PROVE Consoles!Next
  BY <1>2, MapStore DEF Consoles!Screen, Screen, TypeOK
<1>3. ASSUME NEW c \in Output, Echo(c) PROVE Consoles!Next
  BY <1>3, MapPut DEF Echo, TypeOK
<1>4. ASSUME NEW t \in Terminals, StartSwitch(t) PROVE Consoles!Next
  BY <1>4, MapSwitch
<1>5. ASSUME NEW c \in Output, terminal_write(c) PROVE Consoles!Next
  BY <1>5, MapPut DEF terminal_write, TypeOK
<1>6. CASE ClearScreen
  BY <1>6, MapClear
<1> QED  BY <1>1, <1>2, <1>3, <1>4, <1>5, <1>6 DEF PlainNext, Common

\* Programs of any terminals write and draw, keys are echoed, CONTROL-L clears,
\* the scheduler and switches turn one mapping, and each terminal still has the
\* screen that its own programs and keys made, until a row that BACKSPACE let
\* grow past column NUM_COLS is so long that it runs past the page: then it
\* draws on screens that are not on display.  Video implements Screens.
THEOREM VideoImplementsScreens == PlainSpec => ImplementsScreens
<1>1. Init => TypeOK /\ Shapes /\ VidmapOwn /\ Consoles!Init
  BY InitTypes, InitShapes, MapInit
<1>2. TypeOK /\ Shapes /\ VidmapOwn /\ [PlainNext]_vars => TypeOK' /\ Shapes' /\ VidmapOwn'
  BY TypesKept, ShapesKept, VidmapStep, PlainIsNext
<1>3. TypeOK /\ VidmapOwn /\ [PlainNext]_vars => [Consoles!Next]_Consoles!vars
  BY MapNext
<1> QED  BY <1>1, <1>2, <1>3, PTL DEF PlainSpec, ImplementsScreens, Consoles!Spec
=============================================================================
