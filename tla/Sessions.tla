------------------------------ MODULE Sessions ------------------------------
(***************************************************************************)
(* What the process layer promises its users: each terminal is a session,  *)
(* a stack of programs of which the uppermost runs whenever the terminal   *)
(* has the processor.  A program that starts another sleeps under it until *)
(* that one ends.  Terminals take turns, and none is without a program     *)
(* when its turn comes.                                                    *)
(***************************************************************************)
EXTENDS Integers, Sequences, SequencesExt

CONSTANTS NumTerminals, Tasks

Terminals == 0 .. NumTerminals - 1

VARIABLES
    current,    \* the terminal whose turn it is
    session     \* session[t]: its programs, the one that runs last

vars == <<current, session>>

Free == Tasks \ UNION {ToSet(session[t]) : t \in Terminals}

Init ==
    /\ current = 0
    /\ session = [t \in Terminals |-> <<>>]

\* The program of the current terminal starts another on top of itself, or,
\* there being none, a shell is started.
Start ==
    /\ \E x \in Free : session' = [session EXCEPT ![current] = Append(@, x)]
    /\ UNCHANGED current

\* The uppermost program ends and the one below it goes on.  When it was the
\* shell, a new one is started before the next terminal has its turn; a shell
\* that is replaced in one step by one of its number shows no change here.
End ==
    /\ session[current] # <<>>
    /\ session' = [session EXCEPT ![current] = Front(@)]
    /\ UNCHANGED current

\* The next terminal has its turn; its shell is started now if it has none.
Switch ==
    /\ session[current] # <<>>
    /\ current' = (current + 1) % NumTerminals
    /\ IF session[current'] = <<>>
       THEN \E x \in Free : session' = [session EXCEPT ![current'] = <<x>>]
       ELSE UNCHANGED session

Next == Start \/ End \/ Switch

SafeSpec == Init /\ [][Next]_vars

Spec == SafeSpec /\ WF_vars(Switch)
=============================================================================
