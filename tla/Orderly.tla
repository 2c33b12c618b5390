------------------------------ MODULE Orderly ------------------------------
(***************************************************************************)
(* The process layer used as its authors used it.                          *)
(*                                                                         *)
(* get_pcb() finds the right PCB, and a saved context survives, only while *)
(* programs start and end in a certain discipline.  This module states the *)
(* discipline and the invariant of the process layer that it keeps; the    *)
(* runs of MCProcess show what happens without it.                         *)
(***************************************************************************)
EXTENDS Process

(***************************************************************************)
(* The discipline.                                                         *)
(*  - No program is started from a terminal before every terminal has its  *)
(*    shell, which takes one timer tick for each.                          *)
(*  - The program that ends is the one started last.                       *)
(*  - A tick that arrives between the sti() of execute() and its iret finds *)
(*    the processor on a stack of the same terminal, that is, not on the    *)
(*    stack of the terminal the shell is booted from.                      *)
(*  - The exception handlers run to their end: what the interrupt gates     *)
(*    announced in idt.c would give.                                        *)
(***************************************************************************)
AllBooted == \A t \in Terminals : active[t] # NoPid
Newest == active[scheduled_tid] = processes_running - 1

OnOwnStack ==
    \/ cpu.stk = active[scheduled_tid]
    \/ cpu.stk = pcb[active[scheduled_tid]].parent_pid

OrderlyExecute == AllBooted /\ Execute
OrderlyHalt == Newest /\ Halt
OrderlyCrash == Newest /\ Crash
OrderlyTick ==
    /\ cpu.pc \notin HaltSteps
    /\ cpu.pc = "start" => OnOwnStack
    /\ Tick

OrderlyNext ==
    \/ OrderlyExecute \/ EnterUser \/ OrderlyTick \/ OrderlyHalt
    \/ OrderlyCrash \/ CrashLoad \/ CrashStore \/ CrashFree \/ CrashBranch
    \/ CrashTss \/ CrashPage \/ CrashActivate \/ CrashJump
    \/ TerminalWrite

OrderlySpec == Init /\ [][OrderlyNext]_vars

\* The interrupt controller keeps a timer interrupt pending until the
\* processor takes it, so a tick that is again and again possible is taken; a
\* time slice of 10 ms is long enough for some of the kernel's own
\* instructions, so a terminal that is again and again about to enter its
\* program enters it.  Programs owe nothing.
Fairness ==
    /\ SF_vars(OrderlyTick)
    /\ \A t \in Terminals : SF_vars(scheduled_tid = t /\ EnterUser)
    /\ WF_vars(CrashStep)

FairOrderlySpec == OrderlySpec /\ Fairness

-----------------------------------------------------------------------------
(* The invariant.  A program that crashes has left the counter and then    *)
(* the table before its terminal has left it.                              *)

Leaving == cpu.pc \in {"free", "branch", "tss", "page", "activate", "jump"}

\* The programs whose PCB is in use are 0 .. Top - 1.
Top == IF Leaving THEN processes_running + 1 ELSE processes_running
Present == {p \in Pids : p < Top}

\* The slots taken are the first ones, and their number is the counter: the
\* reason why get_pcb(), which knows only the counter, finds the PCB of the
\* slot execute() has chosen.
TableIsPrefix ==
    /\ Top <= MaxProcess
    /\ \A p \in Pids :
        process_array[p] = 1 <=>
            p < IF cpu.pc = "free" THEN Top ELSE processes_running

\* The terminals boot in turn, and the base shell of terminal t is process t.
BootInTurn ==
    /\ \A t \in Terminals : active[t] = NoPid <=> Top <= t
    /\ Top < NumTerminals =>
        /\ scheduled_tid = IF Top = 0 THEN 0 ELSE Top - 1
        /\ \A t \in Terminals : t < Top => active[t] = t
    /\ cpu.pc = "boot" <=> Top = 0

\* Each PCB describes the process of its slot, and a parent is an older
\* process of the same terminal.
PcbsMatch ==
    \A p \in Present :
        /\ pcb[p].curr_pid = p
        /\ p < NumTerminals => pcb[p].parent_pid = NoPid /\ pcb[p].terminal_id = p
        /\ p >= NumTerminals =>
            /\ pcb[p].parent_pid \in 0 .. p - 1
            /\ pcb[pcb[p].parent_pid].terminal_id = pcb[p].terminal_id

\* A parent is the youngest of the older processes of its terminal, so the
\* programs of a terminal nest.
Nested ==
    \A p \in Present : p >= NumTerminals =>
        \A q \in Present :
            pcb[q].terminal_id = pcb[p].terminal_id /\ q < p => q <= pcb[p].parent_pid

\* The program a terminal runs is the youngest of its programs, so no two
\* terminals run the same one.  At "jump" the youngest is on its way out.
ActiveIsYoungest ==
    \A t \in Terminals : active[t] # NoPid =>
        /\ active[t] \in Present
        /\ pcb[active[t]].terminal_id = t
        /\ \A q \in Present : pcb[q].terminal_id = t =>
            q <= active[t] \/ (cpu.pc = "jump" /\ q = cpu.cur_pcb)

\* Where halt() will return to is still on the parent's stack.
ParentFramesIntact ==
    \A p \in Present : p >= NumTerminals =>
        pcb[p].parent_esp = [stk |-> pcb[p].parent_pid, depth |-> 1, intact |-> TRUE]

\* What a preempted terminal will resume is intact, lies on a stack of its
\* own, and comes back with the kernel stack of its program.
SuspendedIntact ==
    \A t \in Terminals : t # scheduled_tid /\ active[t] # NoPid =>
        LET a == active[t]
            s == pcb[a].sched
        IN  /\ s.intact
            /\ pcb[a].schedule_esp0 = a
            /\ \/ s.cpu = User(a)
               \/ s.cpu = At("start", a, 1)
               \/ s.cpu = At("start", pcb[a].parent_pid, 1)

\* The program that runs has its own page, kernel stack and PCB; before the
\* first tick the processor is still on the stack of process 0.
RunningMatches ==
    LET a == active[scheduled_tid]
        Owns(p) == tss_esp0 = p /\ user_page = p
    IN  /\ cpu.pc # "lost"
        /\ cpu.pc = "boot" => cpu = At("boot", 0, 0)
        /\ cpu.pc = "user" => Owns(a) /\ cpu = User(a)
        /\ cpu.pc = "start" =>
            /\ Owns(a)
            /\ cpu.cur_pcb = 0 /\ cpu.count = 0
            /\ OnOwnStack => cpu.depth = 1
            /\ ~OnOwnStack => a > 0 /\ cpu.stk = a - 1 /\ a < NumTerminals /\ Top = a + 1

\* A crashing program is the newest, and its halt() has done what it has.
CrashMatches ==
    LET a == active[scheduled_tid]
        parent == pcb[cpu.cur_pcb].parent_pid
    IN  /\ cpu.pc \in HaltSteps => cpu.depth = 1
        /\ cpu.pc \in {"load", "store"} => a = processes_running - 1 /\ cpu.stk = a
        /\ cpu.pc = "store" => cpu.cur_pcb = a /\ cpu.count = processes_running
        /\ Leaving => cpu.cur_pcb = processes_running /\ cpu.stk = cpu.cur_pcb
        /\ cpu.pc \in {"free", "branch", "tss", "page", "activate"} => a = cpu.cur_pcb
        /\ cpu.pc \in {"tss", "page", "activate", "jump"} => parent # NoPid
        /\ cpu.pc = "jump" => a = parent /\ user_page = parent
        /\ cpu.pc = "activate" => user_page = parent
        /\ cpu.pc \in {"page", "activate", "jump"} => tss_esp0 = parent

OrderlyInv ==
    /\ TableIsPrefix /\ BootInTurn
    /\ PcbsMatch /\ Nested /\ ActiveIsYoungest
    /\ ParentFramesIntact /\ SuspendedIntact
    /\ RunningMatches /\ CrashMatches

-----------------------------------------------------------------------------
(* What it comes to: the terminals are sessions.  The session of a         *)
(* terminal is its processes in the order of their numbers.                *)

\* The elements of a finite set of numbers from the least to the greatest:
\* in place i the one that i elements do not exceed
OneOf(A) == CHOOSE p \in A : TRUE
Rank(A, p) == Cardinality({q \in A : q <= p})
Ordered(A) == [i \in 1 .. Cardinality(A) |-> OneOf({p \in A : Rank(A, p) = i})]

ProcessesOf(t) == {p \in Pids : process_array[p] = 1 /\ pcb[p].terminal_id = t}
Session == [t \in Terminals |-> Ordered(ProcessesOf(t))]

Promise == INSTANCE Sessions WITH
    Tasks <- Pids, current <- scheduled_tid, session <- Session

\* Under the discipline the terminals are sessions: programs nest, one that
\* ends gives way to the one that started it, and terminals take turns.
ImplementsSessions == Promise!Spec
=============================================================================
