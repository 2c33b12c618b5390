----------------------------- MODULE MCProcess -----------------------------
(***************************************************************************)
(* The process layer for TLC: its properties with and without the          *)
(* discipline of Orderly, and the sessions it implements under it.         *)
(***************************************************************************)
EXTENDS Orderly

\* Every terminal's program runs again and again: schedule() skips none, and
\* what it saved can be resumed.
EveryTerminalRuns ==
    \A t \in Terminals : []<>(cpu.pc = "user" /\ scheduled_tid = t)

-----------------------------------------------------------------------------
(* The discipline without one of its clauses.                              *)

\* Programs end in any order, a terminal's shell among them.
AnyEndSpec ==
    Init /\ [][OrderlyExecute \/ EnterUser \/ OrderlyTick \/ Halt \/ TerminalWrite]_vars

\* The timer preempts exception handlers, as the trap gates of idt.c let it.
PreemptedExceptionSpec ==
    Init /\ [][OrderlyNext \/ (cpu.pc \in HaltSteps /\ Tick)]_vars
=============================================================================
