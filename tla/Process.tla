------------------------------ MODULE Process ------------------------------
(***************************************************************************)
(* The process layer of the kernel: execute, halt and schedule            *)
(* (student-distrib/syscalls.c), the timer interrupt that calls schedule   *)
(* (pit.c) and the way a processor exception ends a program (idt.c).       *)
(*                                                                         *)
(* There is one processor.  What it does between two instructions at which *)
(* a timer interrupt can be taken is one action.  System calls run behind  *)
(* an interrupt gate, so they are atomic here; the exception handlers run  *)
(* behind a trap gate, so halt() called from one is cut into the steps     *)
(* between which the timer can preempt it.                                 *)
(*                                                                         *)
(* Stacks are not modelled word by word.  A saved esp is the kernel stack  *)
(* it points into, how deep it lies, and whether what it points to is      *)
(* still protected from being overwritten.                                 *)
(***************************************************************************)
EXTENDS Integers, FiniteSets

CONSTANTS
    NumTerminals,   \* NUM_TERMINALS, 3
    MaxProcess,     \* MAX_PROCESS, 6
    KernelBlocks,   \* 8 KB blocks in the 4 MB kernel page, 512
    Word            \* values of a uint32_t, 2^32

ASSUME ConstantsAssumption ==
    /\ NumTerminals \in Nat \ {0}
    /\ MaxProcess \in Nat /\ NumTerminals <= MaxProcess
    /\ KernelBlocks \in Nat /\ MaxProcess <= KernelBlocks
    /\ Word \in Nat /\ KernelBlocks < Word

Terminals == 0 .. NumTerminals - 1
Pids == 0 .. MaxProcess - 1
NoPid == -1

VARIABLES
    scheduled_tid,      \* the terminal whose task runs
    active,             \* active[t]: terminals[t].active_task_pid
    process_array,      \* process_array[p] = 1: slot p is taken
    processes_running,  \* the counter get_pcb() computes its address from
    pcb,                \* pcb[p]: the block at the bottom of kernel stack p
    tss_esp0,           \* the kernel stack the next entry from user mode uses
    user_page,          \* the program page mapped at 128 MB
    max_proc_flag,      \* a "no more processes" warning is owed to the screen
    cpu                 \* what the processor is executing

vars == <<scheduled_tid, active, process_array, processes_running, pcb,
          tss_esp0, user_page, max_proc_flag, cpu>>

-----------------------------------------------------------------------------
(* What the processor is doing: pc is the place, stk the kernel stack in   *)
(* use (in user mode the one the next entry will use), depth the number of *)
(* kernel activations on it, cur_pcb and count the locals of halt().       *)

HaltSteps == {"load", "store", "free", "branch", "tss", "page", "activate", "jump"}
Places == {"boot", "start", "user", "lost"} \cup HaltSteps

Cpu == [pc : Places, stk : Pids, depth : Nat, cur_pcb : Pids,
        count : 0 .. Word - 1]

At(pc, stk, depth) ==
    [pc |-> pc, stk |-> stk, depth |-> depth, cur_pcb |-> 0, count |-> 0]

User(stk) == At("user", stk, 0)
\* The processor has followed a pointer into memory that is unmapped or has
\* been overwritten: nothing is known of what it does next.  A fault there
\* enters exception_handler() and its halt(), on a stack that may be gone.
Lost == At("lost", 0, 0)

\* parent_esp and parent_ebp: a frame of execute() on the parent's stack
ParentFrame == [stk : Pids, depth : Nat, intact : BOOLEAN]
\* schedule_esp and schedule_ebp: the interrupted computation, on cpu.stk
Context == [cpu : Cpu, intact : BOOLEAN]

Pcb == [curr_pid : Pids, parent_pid : Pids \cup {NoPid},
        terminal_id : Terminals, parent_esp : ParentFrame,
        sched : Context, schedule_esp0 : Pids]

\* Memory reads as zero before its first use.
ZeroPcb ==
    [curr_pid |-> 0, parent_pid |-> 0, terminal_id |-> 0,
     parent_esp |-> [stk |-> 0, depth |-> 0, intact |-> FALSE],
     sched |-> [cpu |-> Lost, intact |-> FALSE], schedule_esp0 |-> 0]

\* uint32_t arithmetic
Increment(n) == IF n = Word - 1 THEN 0 ELSE n + 1
Decrement(n) == IF n = 0 THEN Word - 1 ELSE n - 1

\* get_pcb() and get_pcb_by_pid() compute the same addresses; the first from
\* the counter.  A counter of 0, or beyond the kernel page, gives an address
\* that is not mapped.
get_pcb(count) == count - 1
Mapped(count) == count \in 1 .. KernelBlocks

\* Once the processor runs c, frames deeper on its stack may be overwritten;
\* once it runs in user mode every frame on the stack of the next entry may.
Overwritable(frame, c) ==
    /\ frame.stk = c.stk
    /\ c.pc = "user" \/ frame.depth > c.depth

Unprotect(P, c) ==
    [p \in Pids |->
        [P[p] EXCEPT
            !.parent_esp.intact = @ /\ ~Overwritable(P[p].parent_esp, c),
            !.sched.intact = @ /\ ~Overwritable(P[p].sched.cpu, c)]]

-----------------------------------------------------------------------------
(* The initial state is the one kernel.c's entry() leaves: the boot code   *)
(* halts, interrupts on, on the stack whose top is that of process 0.      *)

Init ==
    /\ scheduled_tid = 0
    /\ active = [t \in Terminals |-> NoPid]
    /\ process_array = [p \in Pids |-> 0]
    /\ processes_running = 0
    /\ pcb = [p \in Pids |-> ZeroPcb]
    /\ tss_esp0 = 0
    /\ user_page = NoPid
    /\ max_proc_flag = 0
    /\ cpu = At("boot", 0, 0)

-----------------------------------------------------------------------------
(* execute(), past the checks of the command: a slot, the page, the image, *)
(* the PCB, then execute_context_switch() up to its sti.                   *)

Mutant_LastFree(table, p) == table[p] = 0 /\ \A q \in Pids : q > p => table[q] # 0
FirstFree(table, p) == table[p] = 0 /\ \A q \in Pids : q < p => table[q] # 0
Full(table) == \A p \in Pids : table[p] # 0

\* The code writes 3 for NumTerminals here.
IsBaseShell(pid) == pid < NumTerminals

Mutant_ParentIsShell(pid, task) == IF IsBaseShell(pid) THEN NoPid ELSE scheduled_tid
ParentOf(pid, task) == IF IsBaseShell(pid) THEN NoPid ELSE task

Mutant_FirstTerminal(old, pid, t, task, c) ==
    [old EXCEPT
        !.curr_pid = pid, !.parent_pid = ParentOf(pid, task), !.terminal_id = 0,
        !.parent_esp = [stk |-> c.stk, depth |-> c.depth, intact |-> TRUE]]
NewPcb(old, pid, t, task, c) ==
    [old EXCEPT
        !.curr_pid = pid,
        !.parent_pid = ParentOf(pid, task),
        !.terminal_id = t,
        !.parent_esp = [stk |-> c.stk, depth |-> c.depth, intact |-> TRUE]]

\* pid is loaded for terminal t, whose task is so far `task', by the
\* computation c; P is the PCBs and n the counter before.  The PCB filled in
\* is the one get_pcb() finds with the counter just incremented; a block
\* below those of the table is spare memory.
Load(pid, t, task, table, n, P, c) ==
    LET count == Increment(n)
        slot  == get_pcb(count)
    IN  /\ process_array' = [table EXCEPT ![pid] = 1]
        /\ processes_running' = count
        /\ user_page' = pid
        /\ IF Mapped(count)
           THEN /\ pcb' = IF slot \in Pids
                          THEN [P EXCEPT ![slot] = NewPcb(P[slot], pid, t, task, c)]
                          ELSE P
                /\ active' = [active EXCEPT ![t] = pid]
                /\ tss_esp0' = pid
                /\ cpu' = At("start", c.stk, c.depth)
           ELSE /\ pcb' = P
                /\ active' = [active EXCEPT ![t] = task]
                /\ cpu' = Lost
                /\ UNCHANGED tss_esp0

\* When the table is full the caller goes on as `otherwise' says.
Exec(t, task, table, n, P, c, otherwise) ==
    IF Full(table)
    THEN /\ max_proc_flag' = 1
         /\ pcb' = P
         /\ cpu' = otherwise
         /\ process_array' = table
         /\ processes_running' = n
         /\ active' = [active EXCEPT ![t] = task]
         /\ UNCHANGED <<user_page, tss_esp0>>
    ELSE /\ \E pid \in Pids : FirstFree(table, pid) /\ Load(pid, t, task, table, n, P, c)
         /\ UNCHANGED max_proc_flag

\* The system call.  A command that names no executable changes nothing.
Execute ==
    /\ cpu.pc = "user"
    /\ Exec(scheduled_tid, active[scheduled_tid], process_array, processes_running,
            pcb, [cpu EXCEPT !.depth = 1], cpu)
    /\ UNCHANGED scheduled_tid

\* iret to the program's entry point
EnterUser ==
    /\ cpu.pc = "start"
    /\ cpu' = User(tss_esp0)
    /\ pcb' = Unprotect(pcb, User(tss_esp0))
    /\ UNCHANGED <<scheduled_tid, active, process_array, processes_running,
                   tss_esp0, user_page, max_proc_flag>>

-----------------------------------------------------------------------------
(* schedule(), from the timer interrupt.                                   *)

Mutant_SameTerminal == scheduled_tid
Target == (scheduled_tid + 1) % NumTerminals

Mutant_Esp0NotSaved ==
    [pcb EXCEPT ![active[scheduled_tid]].sched = [cpu |-> cpu, intact |-> TRUE]]
Saved == [pcb EXCEPT ![active[scheduled_tid]].sched = [cpu |-> cpu, intact |-> TRUE],
                     ![active[scheduled_tid]].schedule_esp0 = tss_esp0]

\* Loading the saved esp: a frame that is not protected any more may still be
\* what it was, or not.
Resume(p, P) ==
    LET c == P[p].sched.cpu
    IN  /\ tss_esp0' = P[p].schedule_esp0
        /\ user_page' = p
        /\ \/ /\ cpu' = c
              /\ pcb' = Unprotect(P, c)
           \/ /\ ~P[p].sched.intact
              /\ cpu' = Lost
              /\ pcb' = P
        /\ UNCHANGED <<active, process_array, processes_running, max_proc_flag>>

\* execute("shell") for a terminal without a task, called from schedule()
Spawn(t, P, otherwise) ==
    Exec(t, NoPid, process_array, processes_running, P,
         [cpu EXCEPT !.depth = @ + 1], otherwise)

\* When that fails for the next terminal, schedule() goes on with task -1,
\* whose PCB is not mapped.
Tick ==
    /\ cpu.pc # "lost"
    /\ IF active[scheduled_tid] = NoPid
       THEN /\ Spawn(scheduled_tid, pcb, cpu)
            /\ UNCHANGED scheduled_tid
       ELSE /\ scheduled_tid' = Target
            /\ IF active[Target] = NoPid
               THEN Spawn(Target, Saved, Lost)
               ELSE Resume(active[Target], Saved)

-----------------------------------------------------------------------------
(* halt() as a system call: nothing interrupts it.                         *)

\* The table without the process whose PCB is that of p
Mutant_NotFreed(p) == process_array
Freed(p) == [process_array EXCEPT ![pcb[p].curr_pid] = 0]

\* Loading parent_esp and leaving the parent's call of execute()
ReturnTo(frame) ==
    \/ /\ cpu' = User(tss_esp0')
       /\ pcb' = Unprotect(pcb, User(tss_esp0'))
    \/ /\ ~frame.intact
       /\ cpu' = Lost
       /\ UNCHANGED pcb

\* A program that has no parent is replaced by a new shell: active_task_pid
\* becomes -1, then execute("shell").
Mutant_NoRespawn ==
    LET p      == active[scheduled_tid]
        parent == pcb[p].parent_pid
    IN  /\ cpu.pc = "user"
        /\ process_array' = Freed(p)
        /\ processes_running' = Decrement(processes_running)
        /\ tss_esp0' = parent /\ user_page' = parent
        /\ active' = [active EXCEPT ![scheduled_tid] = parent]
        /\ ReturnTo(pcb[p].parent_esp)
        /\ UNCHANGED <<scheduled_tid, max_proc_flag>>
Halt ==
    LET p      == active[scheduled_tid]
        parent == pcb[p].parent_pid
        table  == Freed(p)
        n      == Decrement(processes_running)
    IN  /\ cpu.pc = "user"
        /\ UNCHANGED scheduled_tid
        /\ IF parent = NoPid
           THEN Exec(scheduled_tid, NoPid, table, n, pcb, [cpu EXCEPT !.depth = 1], Lost)
           ELSE /\ process_array' = table
                /\ processes_running' = n
                /\ tss_esp0' = parent
                /\ user_page' = parent
                /\ active' = [active EXCEPT ![scheduled_tid] = parent]
                /\ ReturnTo(pcb[p].parent_esp)
                /\ UNCHANGED max_proc_flag

-----------------------------------------------------------------------------
(* A program that causes an exception: exception_handler() calls halt(255) *)
(* with interrupts enabled.                                                *)

Goto(pc) == cpu' = [cpu EXCEPT !.pc = pc]

Parent == pcb[cpu.cur_pcb].parent_pid

Crash ==
    /\ cpu.pc = "user"
    /\ cpu' = At("load", cpu.stk, 1)
    /\ UNCHANGED <<scheduled_tid, active, process_array, processes_running, pcb,
                   tss_esp0, user_page, max_proc_flag>>

\* processes_running-- is a load, a subtraction and a store.
CrashLoad ==
    /\ cpu.pc = "load"
    /\ cpu' = [cpu EXCEPT !.pc = "store", !.cur_pcb = active[scheduled_tid],
                          !.count = processes_running]
    /\ UNCHANGED <<scheduled_tid, active, process_array, processes_running, pcb,
                   tss_esp0, user_page, max_proc_flag>>

CrashStore ==
    /\ cpu.pc = "store"
    /\ processes_running' = Decrement(cpu.count)
    /\ Goto("free")
    /\ UNCHANGED <<scheduled_tid, active, process_array, pcb, tss_esp0, user_page,
                   max_proc_flag>>

CrashFree ==
    /\ cpu.pc = "free"
    /\ process_array' = Freed(cpu.cur_pcb)
    /\ Goto("branch")
    /\ UNCHANGED <<scheduled_tid, active, processes_running, pcb, tss_esp0,
                   user_page, max_proc_flag>>

\* A tick between active_task_pid = -1 and the cli() of execute() would itself
\* start the shell, so the two are one step.  If another terminal took the
\* last slot, halt() returns into an exception stub that ends in ret.
CrashBranch ==
    /\ cpu.pc = "branch"
    /\ IF Parent = NoPid
       THEN Exec(scheduled_tid, NoPid, process_array, processes_running, pcb, cpu, Lost)
       ELSE /\ Goto("tss")
            /\ UNCHANGED <<active, process_array, processes_running, pcb, tss_esp0,
                           user_page, max_proc_flag>>
    /\ UNCHANGED scheduled_tid

\* parent_pid is read again at each of these steps.  If the slot has become
\* that of a base shell it is -1, and so is not a process to return to.
Mutant_TssNotSet ==
    /\ cpu.pc = "tss"
    /\ Goto("page")
    /\ UNCHANGED <<scheduled_tid, active, process_array, processes_running, pcb,
                   tss_esp0, user_page, max_proc_flag>>
CrashTss ==
    /\ cpu.pc = "tss"
    /\ IF Parent = NoPid
       THEN cpu' = Lost /\ UNCHANGED tss_esp0
       ELSE Goto("page") /\ tss_esp0' = Parent
    /\ UNCHANGED <<scheduled_tid, active, process_array, processes_running, pcb,
                   user_page, max_proc_flag>>

Mutant_PageNotSet ==
    /\ cpu.pc = "page"
    /\ Goto("activate")
    /\ UNCHANGED <<scheduled_tid, active, process_array, processes_running, pcb,
                   tss_esp0, user_page, max_proc_flag>>
CrashPage ==
    /\ cpu.pc = "page"
    /\ IF Parent = NoPid
       THEN cpu' = Lost /\ UNCHANGED user_page
       ELSE Goto("activate") /\ user_page' = Parent
    /\ UNCHANGED <<scheduled_tid, active, process_array, processes_running, pcb,
                   tss_esp0, max_proc_flag>>

Mutant_TaskNotSet ==
    /\ cpu.pc = "activate"
    /\ Goto("jump")
    /\ UNCHANGED <<scheduled_tid, active, process_array, processes_running, pcb,
                   tss_esp0, user_page, max_proc_flag>>
CrashActivate ==
    /\ cpu.pc = "activate"
    /\ IF Parent = NoPid
       THEN cpu' = Lost /\ UNCHANGED active
       ELSE Goto("jump") /\ active' = [active EXCEPT ![scheduled_tid] = Parent]
    /\ UNCHANGED <<scheduled_tid, process_array, processes_running, pcb, tss_esp0,
                   user_page, max_proc_flag>>

CrashJump ==
    /\ cpu.pc = "jump"
    /\ UNCHANGED <<scheduled_tid, active, process_array, processes_running, tss_esp0,
                   user_page, max_proc_flag>>
    /\ ReturnTo(pcb[cpu.cur_pcb].parent_esp)

CrashStep ==
    \/ CrashLoad \/ CrashStore \/ CrashFree \/ CrashBranch
    \/ CrashTss \/ CrashPage \/ CrashActivate \/ CrashJump

\* write() to the screen by any program prints the warning and clears it.
TerminalWrite ==
    /\ cpu.pc = "user" /\ max_proc_flag = 1
    /\ max_proc_flag' = 0
    /\ UNCHANGED <<scheduled_tid, active, process_array, processes_running, pcb,
                   tss_esp0, user_page, cpu>>

Next ==
    \/ Execute \/ EnterUser \/ Tick \/ Halt
    \/ Crash \/ CrashLoad \/ CrashStore \/ CrashFree \/ CrashBranch
    \/ CrashTss \/ CrashPage \/ CrashActivate \/ CrashJump
    \/ TerminalWrite

Spec == Init /\ [][Next]_vars

\* No program causes an exception.
NoCrashSpec ==
    Init /\ [][Execute \/ EnterUser \/ Tick \/ Halt \/ TerminalWrite]_vars

-----------------------------------------------------------------------------
TypeOK ==
    /\ scheduled_tid \in Terminals
    /\ active \in [Terminals -> Pids \cup {NoPid}]
    /\ process_array \in [Pids -> {0, 1}]
    /\ processes_running \in 0 .. Word - 1
    /\ pcb \in [Pids -> Pcb]
    /\ tss_esp0 \in Pids
    /\ user_page \in Pids \cup {NoPid}
    /\ max_proc_flag \in {0, 1}
    /\ cpu \in Cpu

\* halt() and schedule() take terminals[scheduled_tid].active_task_pid for
\* the running program without a test: whenever a program or a part of its
\* halt() runs, it is a process.
RunningHasTask ==
    cpu.pc \notin {"boot", "lost"} => active[scheduled_tid] # NoPid

\* A program in user mode has the program page and the kernel stack of the
\* process that its terminal runs: schedule(), execute() and halt() set the
\* three of them together.
UserMatches ==
    cpu.pc = "user" => user_page = active[scheduled_tid] /\ tss_esp0 = active[scheduled_tid]

\* A terminal that has been given a shell is never without a program again:
\* "if the parent pid is -1, then we are at base shell; we need to spin up a
\* new shell".  That needs a slot, and a counter that names a PCB.
ShellKept ==
    [][\A t \in Terminals : active[t] # NoPid => active'[t] # NoPid]_vars

\* Two terminals never run one process: process_array "keeps track of the
\* pid of each process".
NoSharedProgram ==
    \A t, u \in Terminals : t # u /\ active[t] # NoPid => active[t] # active[u]

\* get_pcb() "returns the pcb of the current process".
GetPcbIsCurrent ==
    cpu.pc = "user" => get_pcb(processes_running) = active[scheduled_tid]
=============================================================================
