--------------------------- MODULE TerminalProofs ---------------------------
(***************************************************************************)
(* Theorems of Terminal, for lines and tabs of any length, any number of   *)
(* terminals and any requests.                                             *)
(***************************************************************************)
EXTENDS Terminal, WellFoundedInduction, SequenceTheorems, TLAPS

USE ConstantsAssumption

\* While no key was pressed since ENTER, the buffer begins with the line that
\* ENTER ended, followed by its newline.
LineStands(t) ==
    LET text == entered[t].text
    IN  /\ Len(text) \in Cells
        /\ \A i \in 1 .. Len(text) : line_buffer[t][i - 1] = text[i]
        /\ line_buffer[t][Len(text)] = NL

\* The inductive invariant: QuietReadGivesLine looks at one moment only, and
\* rests on what the buffer held ever since ENTER.
LineInv ==
    /\ TypeOK
    /\ LineIsTyped
    /\ ReadWaitsForEnter
    /\ \A t \in Terminals : entered[t].quiet => LineStands(t)

-----------------------------------------------------------------------------
(* What the steps do to the terminal on display, d.                        *)

Content == KeyChars \cup {Space}

LEMMA CellFacts ==
    /\ KeyChars \subseteq Content /\ Space \in Content /\ Tab \in Content /\ NL \in Content
    /\ 0 \in Cells /\ LastCell \in Cells /\ 0 \in Terminals
    /\ \A n \in Cells : n # LastCell => n + 1 \in Cells
BY DEF Cells, LastCell, Terminals, KeyChars, Content

\* Fill() writes the cells of its interval.
LEMMA FillFacts ==
    ASSUME NEW S, NEW b \in [Cells -> S], NEW x \in Int, NEW y \in Int, NEW c \in S
    PROVE  /\ Fill(b, x, y, c) \in [Cells -> S]
           /\ \A i \in Cells : Fill(b, x, y, c)[i] = IF x <= i /\ i < y THEN c ELSE b[i]
BY DEF Fill

\* A newline in the last cell leaves the others alone.
LEMMA EndFacts ==
    ASSUME NEW S, NL \in S, NEW f \in [Cells -> S], NEW last
    PROVE  LET g == IF last THEN [f EXCEPT ![LastCell] = NL] ELSE f
           IN  g \in [Cells -> S] /\ \A i \in Cells : i < LastCell => g[i] = f[i]
<1>1. \A i \in Cells : i < LastCell => i # LastCell
    BY DEF Cells, LastCell
<1> QED BY <1>1, CellFacts

\* A key other than ENTER changes the line on display only, and the history
\* records that the line is no longer as ENTER left it.
LEMMA EditFacts ==
    ASSUME TypeOK, NEW s \in Seq(Content), Edit(s)
    PROVE  /\ typed' \in [Terminals -> Seq(Content)]
           /\ entered' \in [Terminals -> [some : BOOLEAN, text : Seq(Content), quiet : BOOLEAN]]
           /\ typed'[d] = s /\ ~entered'[d].quiet
           /\ entered'[d].some = entered[d].some
           /\ \A t \in Terminals \ {d} : typed'[t] = typed[t] /\ entered'[t] = entered[t]
BY DEF TypeOK, Edit, d, Content

\* A key that is not ENTER, and that leaves in the buffer what the history
\* says was typed, preserves the invariant.
LEMMA EditStep ==
    ASSUME LineInv, TypeOK', NEW s \in Seq(Content), Edit(s),
           UNCHANGED <<displayed_tid, enter_flag, reader>>,
           \A t \in Terminals \ {d} :
               nchars'[t] = nchars[t] /\ line_buffer'[t] = line_buffer[t],
           Len(s) = nchars'[d],
           \A i \in 1 .. nchars'[d] : line_buffer'[d][i - 1] = s[i]
    PROVE  LineInv'
<1>1. TypeOK /\ d \in Terminals
    BY DEF LineInv, TypeOK, d
<1>2. LineIsTyped'
    <2> SUFFICES ASSUME NEW t \in Terminals
                 PROVE  /\ Len(typed'[t]) = nchars'[t]
                        /\ \A i \in 1 .. nchars'[t] : line_buffer'[t][i - 1] = typed'[t][i]
        BY DEF LineIsTyped
    <2>1. CASE t = d
        BY <1>1, <2>1, EditFacts
    <2>2. CASE t # d
        <3>1. /\ typed'[t] = typed[t] /\ nchars'[t] = nchars[t]
              /\ line_buffer'[t] = line_buffer[t]
            BY <1>1, <2>2, EditFacts
        <3>2. /\ Len(typed[t]) = nchars[t]
              /\ \A i \in 1 .. nchars[t] : line_buffer[t][i - 1] = typed[t][i]
            BY DEF LineInv, LineIsTyped
        <3> QED BY <3>1, <3>2
    <2> QED BY <2>1, <2>2
<1>3. ReadWaitsForEnter'
    BY <1>1, EditFacts DEF LineInv, ReadWaitsForEnter, CanFinish
<1>4. ASSUME NEW t \in Terminals, entered'[t].quiet PROVE LineStands(t)'
    <2>1. t # d
        BY <1>1, <1>4, EditFacts
    <2>2. entered'[t] = entered[t] /\ line_buffer'[t] = line_buffer[t]
        BY <1>1, <2>1, EditFacts
    <2> QED BY <1>4, <2>2 DEF LineInv, LineStands
<1> QED BY <1>2, <1>3, <1>4 DEF LineInv

\* What the invariant says of the line on display.
LEMMA DisplayedLine ==
    ASSUME LineInv
    PROVE  /\ TypeOK /\ d \in Terminals /\ nchars[d] \in Cells
           /\ line_buffer[d] \in [Cells -> Content] /\ tab_buffer[d] \in [Cells -> Content]
           /\ typed[d] \in Seq(Content) /\ Len(typed[d]) = nchars[d]
           /\ \A i \in 1 .. nchars[d] : line_buffer[d][i - 1] = typed[d][i]
BY DEF LineInv, TypeOK, LineIsTyped, d, Content

LEMMA TypeStep == ASSUME LineInv, NEW c \in KeyChars, Type(c) PROVE LineInv'
<1> DEFINE n == nchars[d]
           s == Append(typed[d], c)
<1>1. /\ TypeOK /\ d \in Terminals /\ n \in Cells /\ n + 1 \in Cells
      /\ c \in Content /\ typed[d] \in Seq(Content)
    BY CellFacts, DisplayedLine DEF Type, LineFull, LastCell, Cells
<1>2. /\ line_buffer' = [line_buffer EXCEPT ![d][n] = c]
      /\ tab_buffer' = [tab_buffer EXCEPT ![d][n] = c]
      /\ nchars' = [nchars EXCEPT ![d] = n + 1]
      /\ Edit(s)
      /\ UNCHANGED <<displayed_tid, enter_flag, reader>>
    BY <1>1 DEF Type, TypeOK
<1>3. /\ s \in Seq(Content) /\ Len(s) = n + 1
      /\ \A i \in 1 .. n : s[i] = line_buffer[d][i - 1]
      /\ s[n + 1] = c
    BY <1>1, DisplayedLine, AppendProperties
<1> HIDE DEF s
<1>4. TypeOK'
    <2>1. line_buffer' \in [Terminals -> [Cells -> Content]]
        BY <1>1, <1>2 DEF TypeOK, Content
    <2>2. tab_buffer' \in [Terminals -> [Cells -> Content]]
        BY <1>1, <1>2 DEF TypeOK, Content
    <2>3. nchars' \in [Terminals -> Cells]
        BY <1>1, <1>2 DEF TypeOK
    <2> QED BY <1>1, <1>2, <1>3, <2>1, <2>2, <2>3, EditFacts DEF TypeOK, Content
<1>5. /\ nchars'[d] = n + 1
      /\ \A t \in Terminals \ {d} :
            nchars'[t] = nchars[t] /\ line_buffer'[t] = line_buffer[t]
      /\ \A i \in Cells : line_buffer'[d][i] = IF i = n THEN c ELSE line_buffer[d][i]
    BY <1>1, <1>2 DEF TypeOK
<1>6. ASSUME NEW i \in 1 .. n + 1 PROVE line_buffer'[d][i - 1] = s[i]
    <2>1. i - 1 \in Cells /\ (i - 1 = n <=> i = n + 1) /\ (i # n + 1 => i \in 1 .. n)
        BY <1>1 DEF Cells
    <2> QED BY <1>3, <1>5, <2>1
<1> QED BY <1>2, <1>3, <1>4, <1>5, <1>6, EditStep

LEMMA TabStep == ASSUME LineInv, TypeTab PROVE LineInv'
<1> DEFINE n == nchars[d]
           truncated == n + TabWidth > LastCell
           End(buffer) == IF truncated THEN [buffer EXCEPT ![LastCell] = NL] ELSE buffer
           newLine == End(Fill(line_buffer[d], n, TabEnd, Space))
           newTabs == End(Fill(tab_buffer[d], n, TabEnd, Tab))
           gap == [i \in 1 .. TabEnd - n |-> Space]
           s == typed[d] \o gap
<1>1. /\ TypeOK /\ d \in Terminals /\ n \in Cells /\ TabEnd \in Cells /\ n <= TabEnd
      /\ line_buffer[d] \in [Cells -> Content] /\ tab_buffer[d] \in [Cells -> Content]
      /\ typed[d] \in Seq(Content)
    BY CellFacts, DisplayedLine DEF TabEnd, LastCell, Cells
<1>2. /\ line_buffer' = [line_buffer EXCEPT ![d] = newLine]
      /\ tab_buffer' = [tab_buffer EXCEPT ![d] = newTabs]
      /\ nchars' = [nchars EXCEPT ![d] = TabEnd]
      /\ Edit(s)
      /\ UNCHANGED <<displayed_tid, enter_flag, reader>>
    BY <1>1 DEF TypeTab, TypeOK
<1>3. /\ newLine \in [Cells -> Content]
      /\ \A i \in Cells : i < TabEnd =>
            newLine[i] = IF n <= i THEN Space ELSE line_buffer[d][i]
    <2> DEFINE f == Fill(line_buffer[d], n, TabEnd, Space)
    <2>1. /\ f \in [Cells -> Content]
          /\ \A i \in Cells : f[i] = IF n <= i /\ i < TabEnd THEN Space ELSE line_buffer[d][i]
        <3>1. n \in Int /\ TabEnd \in Int /\ Space \in Content
            BY <1>1, CellFacts DEF Cells
        <3>2. f \in [Cells -> Content]
            BY <1>1, <3>1, FillFacts
        <3>3. \A i \in Cells : f[i] = IF n <= i /\ i < TabEnd THEN Space ELSE line_buffer[d][i]
            BY DEF Fill
        <3> QED BY <3>2, <3>3
    <2>2. newLine = IF truncated THEN [f EXCEPT ![LastCell] = NL] ELSE f
        OBVIOUS
    <2>3. \A i \in Cells : i < TabEnd => i < LastCell
        BY <1>1 DEF Cells, LastCell
    <2> HIDE DEF newLine, f
    <2> QED BY <2>1, <2>2, <2>3, EndFacts, CellFacts
<1>4. newTabs \in [Cells -> Content]
    <2> DEFINE f == Fill(tab_buffer[d], n, TabEnd, Tab)
    <2>1. f \in [Cells -> Content]
        <3>1. n \in Int /\ TabEnd \in Int /\ Tab \in Content
            BY <1>1, CellFacts DEF Cells
        <3> QED BY <1>1, <3>1, FillFacts
    <2>2. newTabs = IF truncated THEN [f EXCEPT ![LastCell] = NL] ELSE f
        OBVIOUS
    <2> HIDE DEF newTabs, f
    <2> QED BY <2>1, <2>2, EndFacts, CellFacts
<1>5. /\ s \in Seq(Content) /\ Len(s) = TabEnd
      /\ \A i \in 1 .. TabEnd : s[i] = IF i <= n THEN typed[d][i] ELSE Space
    <2>1. gap \in Seq(Content) /\ Len(gap) = TabEnd - n
        BY <1>1, CellFacts DEF Cells
    <2>2. \A i \in 1 .. TabEnd - n : gap[i] = Space
        OBVIOUS
    <2>3. Len(typed[d]) = n /\ n \in Nat /\ TabEnd \in Nat
        BY <1>1, DisplayedLine DEF Cells
    <2> HIDE DEF gap, n
    <2>4. \A i \in 1 .. TabEnd : i > n => i - n \in 1 .. TabEnd - n
        BY <1>1, <2>3
    <2> QED BY <1>1, <2>1, <2>2, <2>3, <2>4, ConcatProperties
<1> HIDE DEF newLine, newTabs, s
<1>6. TypeOK'
    <2>1. line_buffer' \in [Terminals -> [Cells -> Content]]
        BY <1>1, <1>2, <1>3 DEF TypeOK, Content
    <2>2. tab_buffer' \in [Terminals -> [Cells -> Content]]
        BY <1>1, <1>2, <1>4 DEF TypeOK, Content
    <2>3. nchars' \in [Terminals -> Cells]
        BY <1>1, <1>2 DEF TypeOK
    <2> QED BY <1>1, <1>2, <1>5, <2>1, <2>2, <2>3, EditFacts DEF TypeOK, Content
<1>7. /\ nchars'[d] = TabEnd /\ line_buffer'[d] = newLine
      /\ \A t \in Terminals \ {d} :
            nchars'[t] = nchars[t] /\ line_buffer'[t] = line_buffer[t]
    BY <1>1, <1>2 DEF TypeOK
<1>8. ASSUME NEW i \in 1 .. TabEnd PROVE line_buffer'[d][i - 1] = s[i]
    <2>1. /\ i - 1 \in Cells /\ i - 1 < TabEnd
          /\ (n <= i - 1 <=> ~(i <= n)) /\ (i <= n => i \in 1 .. n)
        BY <1>1 DEF Cells
    <2> QED BY <1>3, <1>5, <1>7, <2>1, DisplayedLine
<1> QED BY <1>2, <1>5, <1>6, <1>7, <1>8, EditStep

LEMMA BackspaceStep == ASSUME LineInv, Backspace PROVE LineInv'
<1> DEFINE n == IF tab_buffer[d][nchars[d] - 1] # Tab THEN nchars[d] - 1
                ELSE IF nchars[d] >= TabWidth THEN nchars[d] - TabWidth ELSE 0
           s == SubSeq(typed[d], 1, n)
<1>1. /\ TypeOK /\ d \in Terminals /\ nchars[d] \in Cells /\ nchars[d] > 0
      /\ typed[d] \in Seq(Content) /\ Len(typed[d]) = nchars[d]
    BY DisplayedLine DEF Backspace
<1>2. n \in Cells /\ n < nchars[d]
    BY <1>1 DEF Cells
<1>3. /\ nchars' = [nchars EXCEPT ![d] = n] /\ nchars'[d] = n
      /\ Edit(s)
      /\ UNCHANGED <<displayed_tid, line_buffer, tab_buffer, enter_flag, reader>>
    BY <1>1 DEF Backspace, TypeOK
<1> HIDE DEF n
<1>4. /\ s \in Seq(Content) /\ Len(s) = n
      /\ \A i \in 1 .. n : s[i] = typed[d][i]
    BY <1>1, <1>2, SubSeqProperties DEF Cells
<1> HIDE DEF s
<1>5. TypeOK'
    BY <1>1, <1>2, <1>3, <1>4, EditFacts DEF TypeOK, Content
<1>6. \A i \in 1 .. n : line_buffer'[d][i - 1] = s[i]
    <2>1. \A i \in 1 .. n : i \in 1 .. nchars[d]
        BY <1>1, <1>2 DEF Cells
    <2> QED BY <1>3, <1>4, <2>1, DisplayedLine
<1>7. \A t \in Terminals \ {d} : nchars'[t] = nchars[t] /\ line_buffer'[t] = line_buffer[t]
    BY <1>1, <1>3 DEF TypeOK
<1> QED BY <1>3, <1>4, <1>5, <1>6, <1>7, EditStep

LEMMA EnterStep == ASSUME LineInv, Enter PROVE LineInv'
<1> DEFINE n == nchars[d]
<1>1. TypeOK /\ d \in Terminals /\ n \in Cells /\ NewLineAt(d) = n
    BY DisplayedLine DEF NewLineAt, Cells
<1>2. /\ line_buffer' = [line_buffer EXCEPT ![d][n] = NL]
      /\ tab_buffer' = [tab_buffer EXCEPT ![d][n] = NL]
      /\ enter_flag' = [enter_flag EXCEPT ![d] = TRUE]
      /\ nchars' = [nchars EXCEPT ![d] = 0]
      /\ typed' = [typed EXCEPT ![d] = <<>>]
      /\ entered' = [entered EXCEPT ![d] = IF reader[d] = 0 THEN NoLine
                    ELSE [some |-> TRUE, quiet |-> TRUE, text |-> typed[d]]]
      /\ UNCHANGED <<displayed_tid, reader>>
    BY <1>1 DEF Enter
<1>3. TypeOK'
    <2>1. line_buffer' \in [Terminals -> [Cells -> Content]]
        BY <1>1, <1>2, CellFacts DEF TypeOK, Content
    <2>2. tab_buffer' \in [Terminals -> [Cells -> Content]]
        BY <1>1, <1>2, CellFacts DEF TypeOK, Content
    <2>3. nchars' \in [Terminals -> Cells] /\ enter_flag' \in [Terminals -> BOOLEAN]
        BY <1>1, <1>2, CellFacts DEF TypeOK
    <2>4. /\ typed' \in [Terminals -> Seq(Content)]
          /\ entered' \in [Terminals -> [some : BOOLEAN, text : Seq(Content), quiet : BOOLEAN]]
        BY <1>1, <1>2 DEF TypeOK, NoLine, Content
    <2> QED BY <1>1, <1>2, <2>1, <2>2, <2>3, <2>4 DEF TypeOK, Content
<1>4. LineIsTyped'
    BY <1>1, <1>2 DEF TypeOK, LineInv, LineIsTyped
<1>5. ReadWaitsForEnter'
    BY <1>1, <1>2 DEF TypeOK, LineInv, ReadWaitsForEnter, CanFinish
<1>6. ASSUME NEW t \in Terminals, entered'[t].quiet PROVE LineStands(t)'
    <2>1. CASE t # d
        BY <1>1, <1>2, <1>6, <2>1 DEF TypeOK, LineInv, LineStands
    <2>2. CASE t = d
        <3>1. entered'[t].text = typed[d]
            BY <1>1, <1>2, <1>6, <2>2 DEF TypeOK, NoLine
        <3>2. \A i \in Cells : line_buffer'[t][i] = IF i = n THEN NL ELSE line_buffer[t][i]
            BY <1>1, <1>2, <2>2 DEF TypeOK
        <3>3. \A i \in 1 .. n : i - 1 \in Cells /\ i - 1 # n
            BY <1>1 DEF Cells
        <3> QED BY <1>1, <2>2, <3>1, <3>2, <3>3, DisplayedLine DEF LineStands
    <2> QED BY <2>1, <2>2
<1> QED BY <1>3, <1>4, <1>5, <1>6 DEF LineInv

-----------------------------------------------------------------------------
(* terminal_read()                                                         *)

LEMMA LeastElement ==
    ASSUME NEW S \in SUBSET Nat, S # {}
    PROVE  \E i \in S : \A j \in S : i <= j
<1>1. PICK i \in S : \A j \in S : ~ (<<j, i>> \in OpToRel(<, Nat))
    BY WFMin, NatLessThanWellFounded
<1>2. \A j \in S : ~ (j < i)
    BY <1>1 DEF OpToRel
<1> QED BY <1>2

\* The loop stops after a cell of the buffer, within the request; if it stops
\* before the request is met, that cell is the first with a newline.
LEMMA CopiedFacts ==
    ASSUME TypeOK, NEW t \in Terminals, reader[t] > 0
    PROVE  /\ Copied(t) \in 1 .. LineSize
           /\ Copied(t) <= reader[t]
           /\ \A i \in Cells : i < Copied(t) - 1 => line_buffer[t][i] # NL
           /\ \A i \in Cells : line_buffer[t][i] = NL /\ i < reader[t] => Copied(t) <= i + 1
           /\ \/ Copied(t) - 1 \in Cells /\ line_buffer[t][Copied(t) - 1] = NL
              \/ Copied(t) = reader[t] \/ Copied(t) = LineSize
<1> DEFINE limit == IF reader[t] < LineSize THEN reader[t] ELSE LineSize
           stops == {i \in 0 .. limit - 1 : line_buffer[t][i] = NL}
           first == CHOOSE i \in stops : \A j \in stops : i <= j
<1>1. reader[t] \in Nat \ {0} /\ limit \in 1 .. LineSize
    <2>1. reader[t] \in Requests
        BY DEF TypeOK
    <2>2. reader[t] \in Nat \ {0}
        BY <2>1
    <2> QED BY <2>2
<1>2. Copied(t) = IF stops = {} THEN limit ELSE 1 + first
    BY DEF Copied
<1>3. CASE stops = {}
    <2>1. \A i \in Cells : i < limit => line_buffer[t][i] # NL
        BY <1>1, <1>3 DEF Cells
    <2>2. \A i \in Cells : i < reader[t] => i < limit
        BY <1>1 DEF Cells
    <2>3. limit <= reader[t] /\ (limit = reader[t] \/ limit = LineSize)
        BY <1>1
    <2> HIDE DEF limit
    <2>4. Copied(t) = limit
        BY <1>2, <1>3
    <2> QED BY <1>1, <2>1, <2>2, <2>3, <2>4 DEF Cells
<1>4. CASE stops # {}
    <2>1. first \in stops /\ \A j \in stops : first <= j
        <3>1. \E i \in stops : \A j \in stops : i <= j
            <4>1. stops \subseteq Nat /\ stops # {}
                BY <1>1, <1>4
            <4> HIDE DEF stops
            <4> QED BY <4>1, LeastElement
        <3> HIDE DEF stops
        <3> QED BY <3>1
    <2> HIDE DEF first
    <2> QED BY <1>1, <1>2, <1>4, <2>1 DEF Cells
<1> QED BY <1>3, <1>4

LEMMA StartReadStep ==
    ASSUME LineInv, NEW t \in Terminals, NEW n \in Requests, StartRead(t, n)
    PROVE  LineInv'
<1>1. /\ reader[t] = 0
      /\ enter_flag' = [enter_flag EXCEPT ![t] = FALSE]
      /\ reader' = [reader EXCEPT ![t] = n]
      /\ UNCHANGED <<displayed_tid, line_buffer, tab_buffer, nchars, typed, entered>>
    BY DEF StartRead
<1>2. TypeOK'
    BY <1>1 DEF LineInv, TypeOK
<1>3. LineIsTyped'
    BY <1>1 DEF LineInv, LineIsTyped
<1>4. ReadWaitsForEnter'
    BY <1>1 DEF LineInv, TypeOK, ReadWaitsForEnter, CanFinish
<1>5. \A u \in Terminals : entered'[u].quiet => LineStands(u)'
    BY <1>1 DEF LineInv, LineStands
<1> QED BY <1>2, <1>3, <1>4, <1>5 DEF LineInv

LEMMA FinishReadStep ==
    ASSUME LineInv, NEW t \in Terminals, FinishRead(t)
    PROVE  LineInv'
<1> DEFINE newLine == Fill(line_buffer[t], 0, Copied(t), Space)
           newTabs == Fill(tab_buffer[t], 0, Copied(t), Space)
<1>1. TypeOK /\ reader[t] > 0
    BY DEF LineInv, FinishRead, CanFinish
<1>2. /\ line_buffer' = [line_buffer EXCEPT ![t] = newLine]
      /\ tab_buffer' = [tab_buffer EXCEPT ![t] = newTabs]
      /\ nchars' = [nchars EXCEPT ![t] = 0]
      /\ enter_flag' = [enter_flag EXCEPT ![t] = FALSE]
      /\ reader' = [reader EXCEPT ![t] = 0]
      /\ typed' = [typed EXCEPT ![t] = <<>>]
      /\ entered' = [entered EXCEPT ![t] = NoLine]
      /\ UNCHANGED displayed_tid
    BY <1>1 DEF FinishRead, TypeOK
<1>3. newLine \in [Cells -> Content] /\ newTabs \in [Cells -> Content]
    <2>1. line_buffer[t] \in [Cells -> Content] /\ tab_buffer[t] \in [Cells -> Content]
        BY <1>1 DEF TypeOK, Content
    <2>2. 0 \in Int /\ Copied(t) \in Int /\ Space \in Content
        BY <1>1, CopiedFacts, CellFacts
    <2> QED BY <2>1, <2>2, FillFacts
<1> HIDE DEF newLine, newTabs
<1>4. NoLine \in [some : BOOLEAN, text : Seq(Content), quiet : BOOLEAN]
    BY DEF NoLine
<1>5. TypeOK'
    <2>1. line_buffer' \in [Terminals -> [Cells -> Content]]
        BY <1>1, <1>2, <1>3 DEF TypeOK, Content
    <2>2. tab_buffer' \in [Terminals -> [Cells -> Content]]
        BY <1>1, <1>2, <1>3 DEF TypeOK, Content
    <2>3. /\ nchars' \in [Terminals -> Cells] /\ enter_flag' \in [Terminals -> BOOLEAN]
          /\ reader' \in [Terminals -> Requests \cup {0}]
        BY <1>1, <1>2, CellFacts DEF TypeOK
    <2>4. /\ typed' \in [Terminals -> Seq(Content)]
          /\ entered' \in [Terminals -> [some : BOOLEAN, text : Seq(Content), quiet : BOOLEAN]]
        BY <1>1, <1>2, <1>4 DEF TypeOK, Content
    <2> QED BY <1>1, <1>2, <2>1, <2>2, <2>3, <2>4 DEF TypeOK, Content
<1>6. LineIsTyped'
    BY <1>1, <1>2 DEF LineInv, TypeOK, LineIsTyped, Cells
<1>7. ReadWaitsForEnter'
    BY <1>1, <1>2 DEF LineInv, TypeOK, ReadWaitsForEnter, CanFinish
<1>8. ASSUME NEW u \in Terminals, entered'[u].quiet PROVE LineStands(u)'
    <2>1. u # t
        BY <1>1, <1>2, <1>8 DEF TypeOK, NoLine
    <2> QED BY <1>1, <1>2, <1>8, <2>1 DEF LineInv, TypeOK, LineStands
<1> QED BY <1>5, <1>6, <1>7, <1>8 DEF LineInv

-----------------------------------------------------------------------------
(* The theorems.                                                           *)

LEMMA LineInvInit == Init => LineInv
BY CellFacts DEF Init, LineInv, TypeOK, LineIsTyped, ReadWaitsForEnter, CanFinish,
                 NoLine, LineStands, Cells

LEMMA LineInvStep == LineInv /\ [Next]_vars => LineInv'
<1> SUFFICES ASSUME LineInv, [Next]_vars PROVE LineInv'
    OBVIOUS
<1>1. ASSUME NEW t \in Terminals, SwitchTerminal(t) PROVE LineInv'
    BY <1>1 DEF SwitchTerminal, line, LineInv, TypeOK, LineIsTyped,
                ReadWaitsForEnter, CanFinish, LineStands
<1>2. CASE UNCHANGED vars
    BY <1>2 DEF vars, line, LineInv, TypeOK, LineIsTyped,
                ReadWaitsForEnter, CanFinish, LineStands
<1> QED BY <1>1, <1>2, TypeStep, TabStep, BackspaceStep, EnterStep,
           StartReadStep, FinishReadStep DEF Next

\* A line and its newline have a first newline.
LEMMA FirstNewline ==
    ASSUME NEW text \in Seq(Content)
    PROVE  LET entry == Append(text, NL)
           IN  \E i \in 1 .. Len(entry) : entry[i] = NL /\ \A j \in 1 .. i - 1 : entry[j] # NL
<1> DEFINE entry == Append(text, NL)
           S == {i \in 1 .. Len(entry) : entry[i] = NL}
<1>1. Len(entry) = Len(text) + 1 /\ Len(text) \in Nat /\ entry[Len(text) + 1] = NL
    BY CellFacts, AppendProperties
<1> HIDE DEF entry
<1>2. S \in SUBSET Nat /\ S # {}
    BY <1>1
<1>3. PICK i \in S : \A j \in S : i <= j
    BY <1>2, LeastElement
<1>4. \A j \in 1 .. i - 1 : j \in 1 .. Len(entry) /\ j \notin S
    BY <1>1, <1>3
<1> QED BY <1>3, <1>4 DEF entry

\* What a quiet reader gets is the line, or as much of it as it asked for.
LEMMA QuietResult == LineInv => QuietReadGivesLine
<1> SUFFICES ASSUME LineInv, NEW t \in Terminals, CanFinish(t), entered[t].quiet
             PROVE  Result(t) = Answer(entered[t].text, reader[t])
    BY DEF QuietReadGivesLine
<1> DEFINE text == entered[t].text
           entry == Append(text, NL)
           IsEnd(i) == entry[i] = NL /\ \A j \in 1 .. i - 1 : entry[j] # NL
           m == CHOOSE i \in 1 .. Len(entry) : IsEnd(i)
           n == reader[t]
           k == Copied(t)
           count == IF n < m THEN n ELSE m
<1>1. /\ TypeOK /\ LineStands(t) /\ n \in Nat \ {0}
      /\ text \in Seq(Content) /\ Len(text) \in Nat
    <2>1. n \in Requests \cup {0} /\ text \in Seq(Content)
        BY DEF LineInv, TypeOK, Content
    <2>2. TypeOK /\ LineStands(t) /\ n > 0
        BY DEF LineInv, CanFinish
    <2> HIDE DEF n, text
    <2>3. n \in Nat /\ Len(text) \in Nat
        BY <2>1
    <2> QED BY <2>1, <2>2, <2>3
<1>2. /\ k \in 1 .. LineSize /\ k <= n
      /\ \A i \in Cells : line_buffer[t][i] = NL /\ i < n => k <= i + 1
      /\ \/ k - 1 \in Cells /\ line_buffer[t][k - 1] = NL
         \/ k = n \/ k = LineSize
    BY <1>1, CopiedFacts
<1>3. Result(t) = [copied |-> [i \in 1 .. k |-> line_buffer[t][i - 1]],
                   count |-> IF line_buffer[t][k - 1] = NL THEN k ELSE n]
    BY DEF Result
<1>4. Answer(text, n) = [copied |-> SubSeq(entry, 1, count), count |-> count]
    BY DEF Answer
<1>5. m \in 1 .. Len(entry) /\ IsEnd(m)
    <2>1. \E i \in 1 .. Len(entry) : IsEnd(i)
        BY <1>1, FirstNewline
    <2> HIDE DEF entry, IsEnd
    <2> QED BY <2>1
<1>6. /\ entry \in Seq(Content) /\ Len(entry) = Len(text) + 1 /\ Len(entry) <= LineSize
      /\ \A i \in 1 .. Len(entry) : i - 1 \in Cells /\ line_buffer[t][i - 1] = entry[i]
    <2>1. /\ Len(text) \in Cells /\ line_buffer[t][Len(text)] = NL
          /\ \A i \in 1 .. Len(text) : line_buffer[t][i - 1] = text[i]
        BY <1>1 DEF LineStands
    <2>2. /\ entry \in Seq(Content) /\ Len(entry) = Len(text) + 1
          /\ \A i \in 1 .. Len(text) : entry[i] = text[i]
          /\ entry[Len(text) + 1] = NL
        BY <1>1, CellFacts, AppendProperties
    <2> HIDE DEF entry, text
    <2>3. \A i \in 1 .. Len(entry) :
            i - 1 \in Cells /\ (i \in 1 .. Len(text) \/ (i = Len(text) + 1 /\ i - 1 = Len(text)))
        BY <1>1, <2>1, <2>2 DEF Cells
    <2> QED BY <1>1, <2>1, <2>2, <2>3 DEF Cells
<1>7. \A j \in 1 .. m - 1 : entry[j] # NL
    BY <1>5
<1>8. entry[m] = NL
    BY <1>5
<1> HIDE DEF m, k, n, text, entry
<1>9. m \in Nat /\ m >= 1 /\ m <= LineSize /\ k \in Nat /\ k >= 1 /\ n \in Nat
    BY <1>1, <1>2, <1>5, <1>6
<1>10. k = count
    <2>1. k <= m
        <3>1. m - 1 \in Cells /\ line_buffer[t][m - 1] = NL
            BY <1>5, <1>6, <1>8
        <3> QED BY <1>2, <1>9, <3>1
    <2>2. ASSUME k < n, k < m PROVE FALSE
        <3>1. k \in 1 .. m - 1 /\ k \in 1 .. Len(entry) /\ k # n /\ k # LineSize
            BY <1>5, <1>6, <1>9, <2>2
        <3> QED BY <1>2, <1>6, <1>7, <3>1
    <2> QED BY <1>2, <1>9, <2>1, <2>2
<1>11. k \in 1 .. Len(entry) /\ Len(entry) \in Nat
    BY <1>1, <1>2, <1>5, <1>6, <1>9, <1>10
<1>12. [i \in 1 .. k |-> line_buffer[t][i - 1]] = SubSeq(entry, 1, k)
    <2>1. \A i \in 1 .. k : i \in 1 .. Len(entry)
        BY <1>11
    <2>2. \A i \in 1 .. k : line_buffer[t][i - 1] = entry[i]
        BY <1>6, <2>1
    <2>3. SubSeq(entry, 1, k) = [i \in 1 .. k |-> entry[i]]
        BY <1>6, <1>11
    <2> QED BY <2>2, <2>3
<1>13. (IF line_buffer[t][k - 1] = NL THEN k ELSE n) = k
    <2>1. line_buffer[t][k - 1] = entry[k]
        BY <1>6, <1>11
    <2>2. k # n => k = m
        BY <1>10
    <2> QED BY <1>8, <2>1, <2>2
<1> QED BY <1>3, <1>4, <1>10, <1>12, <1>13 DEF text, n

\* The buffers, their indices and the history keep their types: no key ever
\* writes outside line_buffer and tab_buffer.
THEOREM TerminalTypes == Spec => []TypeOK
<1>1. LineInv => TypeOK
    BY DEF LineInv
<1> QED BY LineInvInit, LineInvStep, <1>1, PTL DEF Spec

\* However lines are edited, with tabs cut short, the keys of control
\* characters and a buffer full of earlier lines, the part before nchars is
\* what was typed into this one.
THEOREM LinesAreTyped == Spec => []LineIsTyped
<1>1. LineInv => LineIsTyped
    BY DEF LineInv
<1> QED BY LineInvInit, LineInvStep, <1>1, PTL DEF Spec

\* No read returns before ENTER is pressed on its terminal.
THEOREM NoStaleLine == Spec => []ReadWaitsForEnter
<1>1. LineInv => ReadWaitsForEnter
    BY DEF LineInv
<1> QED BY LineInvInit, LineInvStep, <1>1, PTL DEF Spec

\* A read that no keystroke disturbs gives exactly what was typed up to ENTER,
\* or up to a newline that F2 typed, or the part of it that was asked for.
THEOREM ReadIsExact == Spec => []QuietReadGivesLine
BY LineInvInit, LineInvStep, QuietResult, PTL DEF Spec
=============================================================================
