------------------------------ MODULE Screens ------------------------------
(***************************************************************************)
(* What the terminals promise of their screens: each has a console of its  *)
(* own that only its programs and the keyboard, while it is on display,    *)
(* change, whatever is on display and whatever runs.  The promise ends     *)
(* where a row does not: a console whose row has run past its page of      *)
(* video memory may draw on those that are not on display.                 *)
(***************************************************************************)
EXTENDS Console

CONSTANTS NumTerminals, Output, Stored, Prompt, PageCells

Terminals == 0 .. NumTerminals - 1

VARIABLES console, display

vars == <<console, display>>

\* Only the first screen is cleared when the system starts.
Init ==
    /\ console \in [Terminals -> [cells : [Screen -> {Blank} \cup Stored], x : {0}, y : {0}]]
    /\ console[0].cells = BlankCells
    /\ display = 0

\* A program of terminal t writes, or a key is echoed; the hits are cells of
\* other screens that a row too long draws on.
Put(t, c) ==
    LET After(u) == IF u = t THEN putc(console[u], c) ELSE console[u]
    IN  \E hits \in SUBSET ((Terminals \ {display}) \X Screen) :
            /\ hits # {} => \E a \in StoredPast(console[t], c) : a >= PageCells
            /\ console' = [u \in Terminals |-> [After(u) EXCEPT !.cells =
                    [i \in Screen |-> IF <<u, i>> \in hits THEN Ink(c) ELSE @[i]]]]
            /\ UNCHANGED display

\* A program of terminal t stores into the screen it got from vidmap().
Store(t, i, c) ==
    /\ console' = [console EXCEPT ![t].cells[i] = c]
    /\ UNCHANGED display

\* CONTROL-L: the screen on display is cleared and shows a prompt; what comes
\* next goes on where it would have.
Clear ==
    /\ console' = [console EXCEPT ![display].cells =
                    putc([cells |-> BlankCells, x |-> 0, y |-> 0], Prompt).cells]
    /\ UNCHANGED display

Show(t) ==
    /\ display' = t
    /\ UNCHANGED console

Next ==
    \/ \E t \in Terminals, c \in Output : Put(t, c)
    \/ \E t \in Terminals, i \in Screen, c \in Stored : Store(t, i, c)
    \/ Clear
    \/ \E t \in Terminals : Show(t)

Spec == Init /\ [][Next]_vars
=============================================================================
