------------------------------ MODULE Terminal ------------------------------
(***************************************************************************)
(* The line discipline of the terminals (student-distrib/keyboard.c): the  *)
(* keyboard interrupt edits the line of the terminal on display, and       *)
(* terminal_read(), called by a program of any terminal, waits for ENTER   *)
(* with interrupts on and then takes the line with interrupts off.         *)
(*                                                                         *)
(* A reader takes its steps whenever its terminal has the processor, which *)
(* is at any time, so the scheduler does not appear.  Shift, caps lock and *)
(* control only choose the character, and releasing a key does nothing.    *)
(*                                                                         *)
(* The codes by which scan_codes tells F1, F2 and F3 apart are characters: *)
(* without ALT these keys type '\t', '\n' and 11 into the line.            *)
(***************************************************************************)
EXTENDS Integers, Sequences

CONSTANTS
    NumTerminals,   \* NUM_TERMINALS, 3
    LineSize,       \* cells of line_buffer, 128
    TabWidth,       \* cells of a tab, 4
    Chars,          \* the characters of the keys, F1 and F2 apart
    Space, Tab, NL, \* ' ' (and the '\0' of an unused cell), '\t' and '\n'
    Requests        \* the nbytes of calls of terminal_read()

ASSUME ConstantsAssumption ==
    /\ NumTerminals \in Nat \ {0}
    /\ LineSize \in Nat \ {0} /\ TabWidth \in Nat \ {0}
    /\ Requests \subseteq Nat \ {0}
    /\ Tab \notin {Space, NL} /\ NL # Space

Terminals == 0 .. NumTerminals - 1
Cells == 0 .. LineSize - 1

\* What a key may put into a line: F1 and F2 without ALT a tab and a newline
KeyChars == Chars \cup {Tab, NL}

VARIABLES
    displayed_tid,  \* the terminal on the screen, which has the keyboard
    line_buffer,    \* line_buffer[t]: the line edited last, tabs as spaces
    tab_buffer,     \* the same with tabs as tabs
    nchars,         \* nchars[t]: where the next character goes
    enter_flag,     \* enter_flag[t]: ENTER was pressed
    reader,         \* reader[t]: nbytes of the waiting terminal_read(), or 0
    typed,          \* history: what the keys have put into the line that is
                    \* edited, and not taken back
    entered         \* history: the line at the last ENTER since the read
                    \* began, and whether no key was pressed after it

line == <<line_buffer, tab_buffer, nchars, enter_flag>>
vars == <<displayed_tid, line, reader, typed, entered>>

NoLine == [some |-> FALSE, text |-> <<>>, quiet |-> FALSE]

Init ==
    /\ displayed_tid = 0
    /\ line_buffer = [t \in Terminals |-> [i \in Cells |-> Space]]
    /\ tab_buffer = [t \in Terminals |-> [i \in Cells |-> Space]]
    /\ nchars = [t \in Terminals |-> 0]
    /\ enter_flag = [t \in Terminals |-> FALSE]
    /\ reader = [t \in Terminals |-> 0]
    /\ typed = [t \in Terminals |-> <<>>]
    /\ entered = [t \in Terminals |-> NoLine]

-----------------------------------------------------------------------------
(* The keyboard interrupt, on the terminal d on display.                   *)

d == displayed_tid
LastCell == LineSize - 1

\* The handler ignores character keys at the end of the line.
LineFull(t) == nchars[t] >= LastCell

\* The cells from a up to b (excluded) of a buffer hold c.
Fill(buffer, a, b, c) == [i \in Cells |-> IF a <= i /\ i < b THEN c ELSE buffer[i]]

\* A key other than ENTER, which makes the line on display s
Edit(s) ==
    /\ typed' = [typed EXCEPT ![d] = s]
    /\ entered' = [entered EXCEPT ![d].quiet = FALSE]

Mutant_BackspaceDropsFlag ==
    /\ nchars[d] > 0
    /\ nchars' = [nchars EXCEPT ![d] = @ - 1]
    /\ enter_flag' = [enter_flag EXCEPT ![d] = FALSE]
    /\ Edit(SubSeq(typed[d], 1, nchars'[d]))
    /\ UNCHANGED <<displayed_tid, line_buffer, tab_buffer, reader>>

Type(c) ==
    /\ ~LineFull(d)
    /\ line_buffer' = [line_buffer EXCEPT ![d][nchars[d]] = c]
    /\ tab_buffer' = [tab_buffer EXCEPT ![d][nchars[d]] = c]
    /\ nchars' = [nchars EXCEPT ![d] = @ + 1]
    /\ Edit(Append(typed[d], c))
    /\ UNCHANGED <<displayed_tid, enter_flag, reader>>

\* A tab that reaches the last cell ends the line with a newline there.  The
\* limit does not hold for it: with ALT down the test of the handler passes.
Mutant_TabEnd == nchars[d] + TabWidth
TabEnd == IF nchars[d] + TabWidth <= LastCell THEN nchars[d] + TabWidth ELSE LastCell

TypeTab ==
    /\ LET truncated == nchars[d] + TabWidth > LastCell
           End(buffer) == IF truncated THEN [buffer EXCEPT ![LastCell] = NL] ELSE buffer
       IN  /\ line_buffer' = [line_buffer EXCEPT ![d] = End(Fill(@, nchars[d], TabEnd, Space))]
           /\ tab_buffer' = [tab_buffer EXCEPT ![d] = End(Fill(@, nchars[d], TabEnd, Tab))]
    /\ nchars' = [nchars EXCEPT ![d] = TabEnd]
    /\ Edit(typed[d] \o [i \in 1 .. TabEnd - nchars[d] |-> Space])
    /\ UNCHANGED <<displayed_tid, enter_flag, reader>>

\* After a tab, of F1 too, four cells go, or all there are.
Backspace ==
    /\ nchars[d] > 0
    /\ nchars' = [nchars EXCEPT ![d] =
                    IF tab_buffer[d][@ - 1] # Tab THEN @ - 1
                    ELSE IF @ >= TabWidth THEN @ - TabWidth ELSE 0]
    /\ Edit(SubSeq(typed[d], 1, nchars'[d]))
    /\ UNCHANGED <<displayed_tid, line_buffer, tab_buffer, enter_flag, reader>>

Mutant_NewLineLate(t) == IF nchars[t] < LastCell THEN nchars[t] + 1 ELSE LastCell
NewLineAt(t) == IF nchars[t] >= LineSize THEN LastCell ELSE nchars[t]

Enter ==
    /\ line_buffer' = [line_buffer EXCEPT ![d][NewLineAt(d)] = NL]
    /\ tab_buffer' = [tab_buffer EXCEPT ![d][NewLineAt(d)] = NL]
    /\ enter_flag' = [enter_flag EXCEPT ![d] = TRUE]
    /\ nchars' = [nchars EXCEPT ![d] = 0]
    /\ typed' = [typed EXCEPT ![d] = <<>>]
    /\ entered' = [entered EXCEPT ![d] =
                    IF reader[d] = 0 THEN NoLine
                    ELSE [some |-> TRUE, quiet |-> TRUE, text |-> typed[d]]]
    /\ UNCHANGED <<displayed_tid, reader>>

\* ALT and a function key
SwitchTerminal(t) ==
    /\ t # displayed_tid
    /\ displayed_tid' = t
    /\ UNCHANGED <<line, reader, typed, entered>>

-----------------------------------------------------------------------------
(* terminal_read() by the program of terminal t.                           *)

Mutant_ReadKeepsFlag(t, n) ==
    /\ reader[t] = 0
    /\ reader' = [reader EXCEPT ![t] = n]
    /\ UNCHANGED <<displayed_tid, line, typed, entered>>

StartRead(t, n) ==
    /\ reader[t] = 0
    /\ enter_flag' = [enter_flag EXCEPT ![t] = FALSE]
    /\ reader' = [reader EXCEPT ![t] = n]
    /\ UNCHANGED <<displayed_tid, line_buffer, tab_buffer, nchars, typed, entered>>

\* The cells the loop copies: up to a newline, the request or the buffer
Copied(t) ==
    LET limit == IF reader[t] < LineSize THEN reader[t] ELSE LineSize
        stops == {i \in 0 .. limit - 1 : line_buffer[t][i] = NL}
    IN  IF stops = {} THEN limit ELSE 1 + CHOOSE i \in stops : \A j \in stops : i <= j

CanFinish(t) == reader[t] > 0 /\ enter_flag[t]

\* What the program of terminal t gets when its read finishes now
Result(t) ==
    LET k == Copied(t)
    IN  [copied |-> [i \in 1 .. k |-> line_buffer[t][i - 1]],
         count |-> IF line_buffer[t][k - 1] = NL THEN k ELSE reader[t]]

\* A keystroke between the test of enter_flag and cli() is one before the
\* test: nothing but this step clears the flag.
FinishRead(t) ==
    /\ CanFinish(t)
    /\ line_buffer' = [line_buffer EXCEPT ![t] = Fill(@, 0, Copied(t), Space)]
    /\ tab_buffer' = [tab_buffer EXCEPT ![t] = Fill(@, 0, Copied(t), Space)]
    /\ nchars' = [nchars EXCEPT ![t] = 0]
    /\ enter_flag' = [enter_flag EXCEPT ![t] = FALSE]
    /\ reader' = [reader EXCEPT ![t] = 0]
    /\ typed' = [typed EXCEPT ![t] = <<>>]
    /\ entered' = [entered EXCEPT ![t] = NoLine]
    /\ UNCHANGED displayed_tid

-----------------------------------------------------------------------------
Next ==
    \/ \E c \in KeyChars : Type(c)
    \/ TypeTab \/ Backspace \/ Enter
    \/ \E t \in Terminals : SwitchTerminal(t)
    \/ \E t \in Terminals, n \in Requests : StartRead(t, n)
    \/ \E t \in Terminals : FinishRead(t)

\* A program that waits in terminal_read() has the processor again and
\* again, so it sees the flag.  Nobody has to type.
Spec == Init /\ [][Next]_vars /\ \A t \in Terminals : WF_vars(FinishRead(t))

-----------------------------------------------------------------------------
TypeOK ==
    /\ displayed_tid \in Terminals
    /\ line_buffer \in [Terminals -> [Cells -> KeyChars \cup {Space}]]
    /\ tab_buffer \in [Terminals -> [Cells -> KeyChars \cup {Space}]]
    /\ nchars \in [Terminals -> Cells]
    /\ enter_flag \in [Terminals -> BOOLEAN]
    /\ reader \in [Terminals -> Requests \cup {0}]
    /\ typed \in [Terminals -> Seq(KeyChars \cup {Space})]
    /\ entered \in [Terminals -> [some : BOOLEAN, text : Seq(KeyChars \cup {Space}),
                                 quiet : BOOLEAN]]

\* The line being edited is what keys have put into it since the last ENTER or
\* read: no newline of a tab that was cut short, and nothing of the lines that
\* were in the buffer before, lies before its end.
LineIsTyped ==
    \A t \in Terminals :
        /\ Len(typed[t]) = nchars[t]
        /\ \A i \in 1 .. nchars[t] : line_buffer[t][i - 1] = typed[t][i]

\* What a read of n bytes is to give when the user typed text and ENTER: the
\* line, or as much of it as fits.  A newline that F2 typed ends the line too.
Answer(text, n) ==
    LET entry == Append(text, NL)
        IsEnd(i) == entry[i] = NL /\ \A j \in 1 .. i - 1 : entry[j] # NL
        length == CHOOSE i \in 1 .. Len(entry) : IsEnd(i)
        count == IF n < length THEN n ELSE length
    IN  [copied |-> SubSeq(entry, 1, count), count |-> count]

\* terminal_read() gives the line that was typed up to ENTER, or as much as
\* fits, if no key was pressed between ENTER and the moment the reader gets
\* the processor.
QuietReadGivesLine ==
    \A t \in Terminals : CanFinish(t) /\ entered[t].quiet =>
        Result(t) = Answer(entered[t].text, reader[t])

\* terminal_read() "reads data from one line that has been terminated by
\* pressing enter", whatever is typed while the reader waits its turn.
ReadGivesLine ==
    \A t \in Terminals : CanFinish(t) =>
        Result(t) = Answer(entered[t].text, reader[t])

\* A read does not return a line entered before it began.
ReadWaitsForEnter ==
    \A t \in Terminals : CanFinish(t) => entered[t].some

\* A reader whose terminal saw ENTER returns, whatever is typed in between.
EnterWakesReader ==
    \A t \in Terminals : (reader[t] > 0 /\ entered[t].some) ~> reader[t] = 0
=============================================================================
