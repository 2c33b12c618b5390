--------------------------- MODULE ProcessProofs ---------------------------
(***************************************************************************)
(* Theorems of Process, for any number of terminals and of processes.      *)
(***************************************************************************)
EXTENDS Process, TLAPS

USE ConstantsAssumption

-----------------------------------------------------------------------------
(* What the helpers return.                                                *)

\* The counter's arithmetic stays within a uint32_t.
LEMMA CountType ==
    \A n \in 0 .. Word - 1 :
        Increment(n) \in 0 .. Word - 1 /\ Decrement(n) \in 0 .. Word - 1
BY DEF Increment, Decrement

\* The places at which code starts or goes on are places of the processor.
LEMMA CpuTypes ==
    /\ Lost \in Cpu
    /\ \A s \in Pids : User(s) \in Cpu
    /\ \A s \in Pids, d \in Nat, pc \in Places : At(pc, s, d) \in Cpu
    /\ NoPid \notin Pids
    /\ 0 \in Pids /\ 0 \in Terminals
BY DEF Lost, User, At, Cpu, Places, HaltSteps, Pids, NoPid, Terminals

\* Unprotect() marks frames and changes nothing else.
LEMMA UnprotectFields ==
    ASSUME NEW P \in [Pids -> Pcb], NEW c \in Cpu, NEW p \in Pids
    PROVE  /\ Unprotect(P, c)[p] \in Pcb
           /\ ~Overwritable(P[p].parent_esp, c) =>
                Unprotect(P, c)[p].parent_esp = P[p].parent_esp
           /\ ~Overwritable(P[p].sched.cpu, c) =>
                Unprotect(P, c)[p].sched = P[p].sched
           /\ Unprotect(P, c)[p].sched.cpu = P[p].sched.cpu
           /\ Unprotect(P, c)[p].curr_pid = P[p].curr_pid
           /\ Unprotect(P, c)[p].parent_pid = P[p].parent_pid
           /\ Unprotect(P, c)[p].terminal_id = P[p].terminal_id
           /\ Unprotect(P, c)[p].schedule_esp0 = P[p].schedule_esp0
<1> DEFINE e == P[p].parent_esp.intact /\ ~Overwritable(P[p].parent_esp, c)
           s == P[p].sched.intact /\ ~Overwritable(P[p].sched.cpu, c)
           frame == [P[p].parent_esp EXCEPT !.intact = e]
           context == [P[p].sched EXCEPT !.intact = s]
<1>1. P[p] \in Pcb /\ P[p].parent_esp \in ParentFrame /\ P[p].sched \in Context
    BY DEF Pcb
<1>2. e \in BOOLEAN /\ s \in BOOLEAN
    OBVIOUS
<1>3. Unprotect(P, c)[p] = [P[p] EXCEPT !.parent_esp = frame, !.sched = context]
    BY <1>1 DEF Unprotect, Pcb
<1> HIDE DEF e, s
<1>4. frame \in ParentFrame
    BY <1>1, <1>2 DEF ParentFrame
<1>5. context \in Context
    BY <1>1, <1>2 DEF Context
<1> HIDE DEF frame, context
<1>6. /\ Unprotect(P, c)[p] \in Pcb
      /\ Unprotect(P, c)[p].parent_esp = frame
      /\ Unprotect(P, c)[p].sched = context
      /\ Unprotect(P, c)[p].curr_pid = P[p].curr_pid
      /\ Unprotect(P, c)[p].parent_pid = P[p].parent_pid
      /\ Unprotect(P, c)[p].terminal_id = P[p].terminal_id
      /\ Unprotect(P, c)[p].schedule_esp0 = P[p].schedule_esp0
    BY <1>1, <1>3, <1>4, <1>5 DEF Pcb
<1>7. ASSUME ~Overwritable(P[p].parent_esp, c) PROVE frame = P[p].parent_esp
    BY <1>1, <1>7 DEF frame, e, ParentFrame
<1>8. ASSUME ~Overwritable(P[p].sched.cpu, c) PROVE context = P[p].sched
    BY <1>1, <1>8 DEF context, s, Context
<1>9. context.cpu = P[p].sched.cpu
    BY <1>1 DEF context, Context
<1> QED BY <1>6, <1>7, <1>8, <1>9

LEMMA UnprotectType ==
    ASSUME NEW P \in [Pids -> Pcb], NEW c \in Cpu
    PROVE  Unprotect(P, c) \in [Pids -> Pcb]
<1>1. \A p \in Pids : Unprotect(P, c)[p] \in Pcb
    BY UnprotectFields
<1> QED BY <1>1 DEF Unprotect

LEMMA ZeroPcbType == ZeroPcb \in Pcb
<1>1. ZeroPcb.parent_esp \in ParentFrame
    BY CpuTypes DEF ZeroPcb, ParentFrame
<1>2. ZeroPcb.sched \in Context
    BY CpuTypes DEF ZeroPcb, Context
<1> QED BY <1>1, <1>2, CpuTypes DEF ZeroPcb, Pcb

\* execute() fills a PCB with values a PCB holds.
LEMMA NewPcbType ==
    ASSUME NEW old \in Pcb, NEW pid \in Pids, NEW t \in Terminals,
           NEW task \in Pids \cup {NoPid}, NEW c \in Cpu
    PROVE  NewPcb(old, pid, t, task, c) \in Pcb
<1>1. [stk |-> c.stk, depth |-> c.depth, intact |-> TRUE] \in ParentFrame
    BY DEF Cpu, ParentFrame
<1>2. ParentOf(pid, task) \in Pids \cup {NoPid}
    BY DEF ParentOf
<1> QED BY <1>1, <1>2 DEF NewPcb, Pcb

\* The variables execute(), halt() and schedule() set besides scheduled_tid
\* and max_proc_flag
ProcessTypes ==
    /\ active \in [Terminals -> Pids \cup {NoPid}]
    /\ process_array \in [Pids -> {0, 1}]
    /\ processes_running \in 0 .. Word - 1
    /\ pcb \in [Pids -> Pcb]
    /\ tss_esp0 \in Pids
    /\ user_page \in Pids \cup {NoPid}
    /\ cpu \in Cpu

\* A call of execute() leaves every variable with its type, whether it finds
\* a slot or not.
LEMMA ExecType ==
    ASSUME TypeOK,
           NEW t \in Terminals, NEW task \in Pids \cup {NoPid},
           NEW table \in [Pids -> {0, 1}], NEW n \in 0 .. Word - 1,
           NEW P \in [Pids -> Pcb], NEW c \in Cpu, NEW otherwise \in Cpu,
           Exec(t, task, table, n, P, c, otherwise)
    PROVE  ProcessTypes' /\ max_proc_flag' \in {0, 1}
<1>1. CASE Full(table)
    BY <1>1 DEF Exec, ProcessTypes, TypeOK
<1>2. CASE ~Full(table)
    <2>1. PICK pid \in Pids : Load(pid, t, task, table, n, P, c)
        BY <1>2 DEF Exec
    <2>2. Increment(n) \in 0 .. Word - 1
        BY CountType
    <2>3. CASE Mapped(Increment(n))
        <3>1. \A slot \in Pids : NewPcb(P[slot], pid, t, task, c) \in Pcb
            BY NewPcbType
        <3>2. pcb' \in [Pids -> Pcb]
            BY <2>1, <2>3, <3>1 DEF Load
        <3>3. At("start", c.stk, c.depth) \in Cpu
            BY CpuTypes DEF Cpu, Places
        <3>4. /\ process_array' = [table EXCEPT ![pid] = 1]
              /\ processes_running' = Increment(n) /\ user_page' = pid
              /\ active' = [active EXCEPT ![t] = pid]
              /\ tss_esp0' = pid /\ cpu' = At("start", c.stk, c.depth)
            BY <2>1, <2>3 DEF Load
        <3>5. max_proc_flag' \in {0, 1}
            BY <1>2 DEF Exec, TypeOK
        <3> QED BY <2>2, <3>2, <3>3, <3>4, <3>5 DEF ProcessTypes, TypeOK
    <2>4. CASE ~Mapped(Increment(n))
        <3>1. /\ process_array' = [table EXCEPT ![pid] = 1]
              /\ processes_running' = Increment(n) /\ user_page' = pid
              /\ pcb' = P /\ active' = [active EXCEPT ![t] = task] /\ cpu' = Lost
              /\ UNCHANGED tss_esp0
            BY <2>1, <2>4 DEF Load
        <3>2. max_proc_flag' \in {0, 1}
            BY <1>2 DEF Exec, TypeOK
        <3> QED BY <2>2, <3>1, <3>2, CpuTypes DEF ProcessTypes, TypeOK
    <2> QED BY <2>3, <2>4
<1> QED BY <1>1, <1>2

\* So does going on with a saved context.
LEMMA ResumeType ==
    ASSUME TypeOK, NEW p \in Pids, NEW P \in [Pids -> Pcb], Resume(p, P)
    PROVE  ProcessTypes' /\ max_proc_flag' \in {0, 1}
<1>1. P[p].sched.cpu \in Cpu /\ P[p].schedule_esp0 \in Pids
    BY DEF Pcb, Context
<1>2. Unprotect(P, P[p].sched.cpu) \in [Pids -> Pcb]
    BY <1>1, UnprotectType
<1>3. cpu' \in Cpu /\ pcb' \in [Pids -> Pcb]
    BY <1>1, <1>2, CpuTypes DEF Resume
<1> QED BY <1>1, <1>3 DEF Resume, ProcessTypes, TypeOK

\* And returning to the parent's call of execute().
LEMMA ReturnType ==
    ASSUME TypeOK, NEW frame \in ParentFrame, tss_esp0' \in Pids, ReturnTo(frame)
    PROVE  cpu' \in Cpu /\ pcb' \in [Pids -> Pcb]
<1>1. User(tss_esp0') \in Cpu
    BY CpuTypes
<1>2. Unprotect(pcb, User(tss_esp0')) \in [Pids -> Pcb]
    BY <1>1, UnprotectType DEF TypeOK
<1> QED BY <1>1, <1>2, CpuTypes DEF ReturnTo, TypeOK

-----------------------------------------------------------------------------
(* Type correctness needs to know that the task that runs is a process:    *)
(* halt() and schedule() look up its PCB without a test.                   *)

TypeInv == TypeOK /\ RunningHasTask

LEMMA InitTypeInv == Init => TypeInv
BY ZeroPcbType, CpuTypes DEF Init, TypeInv, TypeOK, RunningHasTask, At, Places

\* What Exec does to the task of the terminal it loads
LEMMA ExecTask ==
    ASSUME TypeOK, NEW t \in Terminals, NEW task, NEW table, NEW n, NEW P, NEW c,
           NEW otherwise, Exec(t, task, table, n, P, c, otherwise)
    PROVE  \/ cpu' = Lost
           \/ cpu' = otherwise /\ active' = [active EXCEPT ![t] = task]
           \/ active'[t] \in Pids
<1>1. CASE Full(table)
    BY <1>1 DEF Exec
<1>2. CASE ~Full(table)
    <2>1. PICK pid \in Pids : Load(pid, t, task, table, n, P, c)
        BY <1>2 DEF Exec
    <2> QED BY <2>1 DEF Load, TypeOK
<1> QED BY <1>1, <1>2

LEMMA ExecuteStep == ASSUME TypeInv, Execute PROVE TypeInv'
<1> DEFINE c == [cpu EXCEPT !.depth = 1]
           task == active[scheduled_tid]
<1>1. c \in Cpu /\ cpu \in Cpu /\ task \in Pids \cup {NoPid} /\ scheduled_tid \in Terminals
    BY DEF TypeInv, TypeOK, Cpu
<1>2. Exec(scheduled_tid, task, process_array, processes_running, pcb, c, cpu)
    BY DEF Execute
<1>3. ProcessTypes' /\ max_proc_flag' \in {0, 1}
    BY <1>1, <1>2, ExecType DEF TypeInv, TypeOK
<1>4. \/ cpu' = Lost
      \/ cpu' = cpu /\ active' = [active EXCEPT ![scheduled_tid] = task]
      \/ active'[scheduled_tid] \in Pids
    BY <1>1, <1>2, ExecTask DEF TypeInv
<1> HIDE DEF c
<1>5. scheduled_tid' = scheduled_tid
    BY DEF Execute
<1> QED BY <1>1, <1>3, <1>4, <1>5, CpuTypes
        DEF TypeInv, TypeOK, ProcessTypes, RunningHasTask, Lost, At, NoPid

LEMMA EnterUserStep == ASSUME TypeInv, EnterUser PROVE TypeInv'
<1>1. User(tss_esp0) \in Cpu
    BY CpuTypes DEF TypeInv, TypeOK
<1>2. Unprotect(pcb, User(tss_esp0)) \in [Pids -> Pcb]
    BY <1>1, UnprotectType DEF TypeInv, TypeOK
<1> QED BY <1>1, <1>2 DEF TypeInv, TypeOK, RunningHasTask, EnterUser

LEMMA SpawnStep ==
    ASSUME TypeInv, NEW t \in Terminals, NEW P \in [Pids -> Pcb],
           NEW otherwise \in {cpu, Lost}, otherwise = cpu => cpu.pc \in {"boot", "lost"},
           Spawn(t, P, otherwise), scheduled_tid' = t
    PROVE  TypeInv'
<1> DEFINE c == [cpu EXCEPT !.depth = cpu.depth + 1]
<1>1. c \in Cpu /\ otherwise \in Cpu
    BY CpuTypes DEF TypeInv, TypeOK, Cpu
<1>2. Exec(t, NoPid, process_array, processes_running, P, c, otherwise)
    BY DEF Spawn
<1> HIDE DEF c
<1>3. ProcessTypes' /\ max_proc_flag' \in {0, 1}
    BY <1>1, <1>2, ExecType DEF TypeInv, TypeOK
<1>4. \/ cpu' = Lost
      \/ cpu' = otherwise
      \/ active'[t] \in Pids
    BY <1>1, <1>2, ExecTask DEF TypeInv
<1>5. Lost.pc = "lost"
    BY DEF Lost, At
<1> QED BY <1>3, <1>4, <1>5, CpuTypes
        DEF TypeInv, TypeOK, ProcessTypes, RunningHasTask

LEMMA TargetType == TypeOK => Target \in Terminals
BY DEF TypeOK, Target, Terminals

\* schedule() writes the PCB of the task that runs, and in it what it saves.
LEMMA SavedFields ==
    ASSUME TypeOK, active[scheduled_tid] \in Pids, NEW p \in Pids
    PROVE  /\ Saved[p] \in Pcb
           /\ p # active[scheduled_tid] => Saved[p] = pcb[p]
           /\ p = active[scheduled_tid] =>
                /\ Saved[p].sched = [cpu |-> cpu, intact |-> TRUE]
                /\ Saved[p].schedule_esp0 = tss_esp0
           /\ Saved[p].curr_pid = pcb[p].curr_pid
           /\ Saved[p].parent_pid = pcb[p].parent_pid
           /\ Saved[p].terminal_id = pcb[p].terminal_id
           /\ Saved[p].parent_esp = pcb[p].parent_esp
<1> DEFINE a == active[scheduled_tid]
           context == [cpu |-> cpu, intact |-> TRUE]
           block == [pcb[a] EXCEPT !.sched = context, !.schedule_esp0 = tss_esp0]
<1>1. pcb[a] \in Pcb /\ pcb[p] \in Pcb /\ context \in Context /\ tss_esp0 \in Pids
    BY DEF TypeOK, Context
<1>2. Saved = [pcb EXCEPT ![a] = block]
    BY <1>1 DEF Saved, TypeOK, Pcb
<1> HIDE DEF context
<1>3. /\ block \in Pcb
      /\ block.sched = context /\ block.schedule_esp0 = tss_esp0
      /\ block.curr_pid = pcb[a].curr_pid /\ block.parent_pid = pcb[a].parent_pid
      /\ block.terminal_id = pcb[a].terminal_id /\ block.parent_esp = pcb[a].parent_esp
    BY <1>1 DEF Pcb
<1> HIDE DEF block
<1>4. Saved[p] = IF p = a THEN block ELSE pcb[p]
    BY <1>2 DEF TypeOK
<1> QED BY <1>1, <1>3, <1>4 DEF context

LEMMA SavedType ==
    ASSUME TypeOK, active[scheduled_tid] \in Pids
    PROVE  Saved \in [Pids -> Pcb]
<1>1. \A p \in Pids : Saved[p] \in Pcb
    BY SavedFields
<1> QED BY <1>1 DEF Saved, TypeOK

LEMMA TickStep == ASSUME TypeInv, Tick PROVE TypeInv'
<1>1. CASE active[scheduled_tid] = NoPid
    <2>1. Spawn(scheduled_tid, pcb, cpu) /\ scheduled_tid' = scheduled_tid
        BY <1>1 DEF Tick
    <2>2. cpu.pc \in {"boot", "lost"}
        BY <1>1 DEF TypeInv, RunningHasTask
    <2> QED BY <2>1, <2>2, SpawnStep DEF TypeInv, TypeOK
<1>2. CASE active[scheduled_tid] # NoPid
    <2>1. Target \in Terminals /\ Saved \in [Pids -> Pcb]
        BY <1>2, TargetType, SavedType DEF TypeInv, TypeOK
    <2>2. CASE active[Target] = NoPid
        <3>1. Spawn(Target, Saved, Lost) /\ scheduled_tid' = Target
            BY <1>2, <2>2 DEF Tick
        <3>2. Lost = cpu => cpu.pc = "lost"
            BY DEF Lost, At
        <3> QED BY <2>1, <3>1, <3>2, SpawnStep
    <2>3. CASE active[Target] # NoPid
        <3>1. Resume(active[Target], Saved) /\ scheduled_tid' = Target
            BY <1>2, <2>3 DEF Tick
        <3>2. active[Target] \in Pids
            BY <2>1, <2>3 DEF TypeInv, TypeOK
        <3>3. ProcessTypes' /\ max_proc_flag' \in {0, 1}
            BY <2>1, <3>1, <3>2, ResumeType DEF TypeInv
        <3>4. active' = active
            BY <3>1 DEF Resume
        <3> QED BY <2>1, <2>3, <3>1, <3>3, <3>4
                DEF TypeInv, TypeOK, ProcessTypes, RunningHasTask
    <2> QED BY <2>2, <2>3
<1> QED BY <1>1, <1>2

LEMMA PcbFields ==
    ASSUME TypeOK, NEW p \in Pids
    PROVE  /\ pcb[p].curr_pid \in Pids
           /\ pcb[p].parent_pid \in Pids \cup {NoPid}
           /\ pcb[p].parent_esp \in ParentFrame
           /\ Freed(p) \in [Pids -> {0, 1}]
BY DEF TypeOK, Pcb, Freed

LEMMA HaltStep == ASSUME TypeInv, Halt PROVE TypeInv'
<1> DEFINE p == active[scheduled_tid]
           n == Decrement(processes_running)
           c == [cpu EXCEPT !.depth = 1]
<1>1. p \in Pids /\ scheduled_tid \in Terminals /\ cpu.pc = "user"
    BY DEF TypeInv, TypeOK, RunningHasTask, Halt
<1>2. /\ pcb[p].parent_pid \in Pids \cup {NoPid}
      /\ pcb[p].parent_esp \in ParentFrame
      /\ Freed(p) \in [Pids -> {0, 1}]
      /\ n \in 0 .. Word - 1
    BY <1>1, PcbFields, CountType DEF TypeInv, TypeOK
<1>3. CASE pcb[p].parent_pid = NoPid
    <2>1. Exec(scheduled_tid, NoPid, Freed(p), n, pcb, c, Lost)
        BY <1>3 DEF Halt
    <2>2. c \in Cpu
        BY DEF TypeInv, TypeOK, Cpu
    <2> HIDE DEF c, n, p
    <2>3. ProcessTypes' /\ max_proc_flag' \in {0, 1}
        BY <1>1, <1>2, <2>1, <2>2, CpuTypes, ExecType DEF TypeInv, TypeOK
    <2>4. cpu' = Lost \/ active'[scheduled_tid] \in Pids
        BY <1>1, <2>1, ExecTask DEF TypeInv
    <2>5. scheduled_tid' = scheduled_tid
        BY DEF Halt
    <2> QED BY <1>1, <2>3, <2>4, <2>5, CpuTypes
            DEF TypeInv, TypeOK, ProcessTypes, RunningHasTask, Lost, At
<1>4. CASE pcb[p].parent_pid # NoPid
    <2>1. pcb[p].parent_pid \in Pids
        BY <1>2, <1>4
    <2>2. /\ process_array' = Freed(p)
          /\ processes_running' = n
          /\ tss_esp0' = pcb[p].parent_pid
          /\ user_page' = pcb[p].parent_pid
          /\ active' = [active EXCEPT ![scheduled_tid] = pcb[p].parent_pid]
          /\ ReturnTo(pcb[p].parent_esp)
          /\ UNCHANGED <<scheduled_tid, max_proc_flag>>
        BY <1>4 DEF Halt
    <2>3. cpu' \in Cpu /\ pcb' \in [Pids -> Pcb]
        BY <1>2, <2>1, <2>2, ReturnType DEF TypeInv
    <2> HIDE DEF n
    <2> QED BY <1>1, <1>2, <2>1, <2>2, <2>3, CpuTypes
            DEF TypeInv, TypeOK, RunningHasTask
<1> QED BY <1>3, <1>4

LEMMA CrashBranchStep == ASSUME TypeInv, CrashBranch PROVE TypeInv'
<1>1. cpu \in Cpu /\ cpu.cur_pcb \in Pids /\ scheduled_tid \in Terminals
    BY DEF TypeInv, TypeOK, Cpu
<1>2. CASE Parent = NoPid
    <2>1. /\ Exec(scheduled_tid, NoPid, process_array, processes_running, pcb, cpu, Lost)
          /\ scheduled_tid' = scheduled_tid
        BY <1>2 DEF CrashBranch
    <2>2. ProcessTypes' /\ max_proc_flag' \in {0, 1}
        BY <1>1, <2>1, CpuTypes, ExecType DEF TypeInv, TypeOK
    <2>3. cpu' = Lost \/ active'[scheduled_tid] \in Pids
        BY <1>1, <2>1, ExecTask DEF TypeInv
    <2> QED BY <1>1, <2>1, <2>2, <2>3, CpuTypes
            DEF TypeInv, TypeOK, ProcessTypes, RunningHasTask, Lost, At
<1>3. CASE Parent # NoPid
    BY <1>1, <1>3 DEF CrashBranch, Goto, Cpu, Places, HaltSteps, TypeInv, TypeOK,
                      RunningHasTask
<1> QED BY <1>2, <1>3

LEMMA CrashJumpStep == ASSUME TypeInv, CrashJump PROVE TypeInv'
<1>1. cpu.cur_pcb \in Pids
    BY DEF TypeInv, TypeOK, Cpu
<1>2. pcb[cpu.cur_pcb].parent_esp \in ParentFrame
    BY <1>1, PcbFields DEF TypeInv
<1>3. cpu' \in Cpu /\ pcb' \in [Pids -> Pcb]
    BY <1>2, ReturnType DEF CrashJump, TypeInv, TypeOK
<1> QED BY <1>3 DEF CrashJump, TypeInv, TypeOK, RunningHasTask

\* The other steps of halt() in an exception, which set one variable each
LEMMA CrashStepsType ==
    ASSUME TypeInv,
           Crash \/ CrashLoad \/ CrashStore \/ CrashFree \/ CrashTss \/ CrashPage
               \/ CrashActivate
    PROVE  TypeInv'
<1>1. /\ cpu \in Cpu /\ cpu.cur_pcb \in Pids /\ cpu.stk \in Pids
      /\ cpu.count \in 0 .. Word - 1 /\ scheduled_tid \in Terminals
    BY DEF TypeInv, TypeOK, Cpu
<1>2. CASE Crash
    <2>1. At("load", cpu.stk, 1) \in Cpu
        BY <1>1, CpuTypes DEF Places, HaltSteps
    <2> QED BY <1>2, <2>1 DEF Crash, TypeInv, TypeOK, RunningHasTask
<1>3. CASE CrashLoad
    <2>1. active[scheduled_tid] \in Pids
        BY <1>3, <1>1 DEF CrashLoad, TypeInv, TypeOK, RunningHasTask
    <2>2. cpu' \in Cpu
        BY <1>1, <1>3, <2>1 DEF CrashLoad, Cpu, Places, HaltSteps, TypeInv, TypeOK
    <2> QED BY <1>3, <2>1, <2>2 DEF CrashLoad, TypeInv, TypeOK, RunningHasTask
<1>4. \A pc \in Places : [cpu EXCEPT !.pc = pc] \in Cpu
    BY <1>1 DEF Cpu
<1>5. CASE CrashStore
    <2>1. Decrement(cpu.count) \in 0 .. Word - 1
        BY <1>1, CountType
    <2> QED BY <1>1, <1>4, <1>5, <2>1
            DEF CrashStore, Goto, Places, HaltSteps, TypeInv, TypeOK, RunningHasTask
<1>6. CASE CrashFree
    <2>1. Freed(cpu.cur_pcb) \in [Pids -> {0, 1}]
        BY <1>1, PcbFields DEF TypeInv
    <2> QED BY <1>1, <1>4, <1>6, <2>1
            DEF CrashFree, Goto, Places, HaltSteps, TypeInv, TypeOK, RunningHasTask
<1>7. Parent \in Pids \cup {NoPid}
    BY <1>1, PcbFields DEF Parent, TypeInv
<1>8. Lost \in Cpu /\ Lost.pc = "lost"
    BY CpuTypes DEF Lost, At
<1>9. ASSUME NEW pc \in Places, cpu' = Lost \/ cpu' = [cpu EXCEPT !.pc = pc]
      PROVE  cpu' \in Cpu
    BY <1>4, <1>8, <1>9
<1>10. CASE CrashTss
    <2>1. cpu' \in Cpu
        BY <1>9, <1>10 DEF CrashTss, Goto, Places, HaltSteps
    <2>2. tss_esp0' \in Pids
        BY <1>7, <1>10 DEF CrashTss, TypeInv, TypeOK
    <2> QED BY <1>10, <2>1, <2>2 DEF CrashTss, TypeInv, TypeOK, RunningHasTask
<1>11. CASE CrashPage
    <2>1. cpu' \in Cpu
        BY <1>9, <1>11 DEF CrashPage, Goto, Places, HaltSteps
    <2>2. user_page' \in Pids \cup {NoPid}
        BY <1>7, <1>11 DEF CrashPage, TypeInv, TypeOK
    <2> QED BY <1>11, <2>1, <2>2 DEF CrashPage, TypeInv, TypeOK, RunningHasTask
<1>12. CASE CrashActivate
    <2>1. cpu' \in Cpu
        BY <1>9, <1>12 DEF CrashActivate, Goto, Places, HaltSteps
    <2>2. \/ cpu' = Lost /\ active' = active
          \/ Parent \in Pids /\ active' = [active EXCEPT ![scheduled_tid] = Parent]
        BY <1>7, <1>12 DEF CrashActivate
    <2> QED BY <1>1, <1>8, <1>12, <2>1, <2>2, CpuTypes
            DEF CrashActivate, TypeInv, TypeOK, RunningHasTask
<1> QED BY <1>2, <1>3, <1>5, <1>6, <1>10, <1>11, <1>12

LEMMA NextTypeInv == ASSUME TypeInv, [Next]_vars PROVE TypeInv'
<1>1. CASE Execute
    BY <1>1, ExecuteStep
<1>2. CASE EnterUser
    BY <1>2, EnterUserStep
<1>3. CASE Tick
    BY <1>3, TickStep
<1>4. CASE Halt
    BY <1>4, HaltStep
<1>5. CASE CrashBranch
    BY <1>5, CrashBranchStep
<1>6. CASE CrashJump
    BY <1>6, CrashJumpStep
<1>7. CASE Crash \/ CrashLoad \/ CrashStore \/ CrashFree \/ CrashTss \/ CrashPage
               \/ CrashActivate
    BY <1>7, CrashStepsType
<1>8. CASE TerminalWrite
    BY <1>8 DEF TerminalWrite, TypeInv, TypeOK, RunningHasTask
<1>9. CASE UNCHANGED vars
    BY <1>9 DEF vars, TypeInv, TypeOK, RunningHasTask
<1> QED BY <1>1, <1>2, <1>3, <1>4, <1>5, <1>6, <1>7, <1>8, <1>9 DEF Next

\* Every variable keeps its type, and whenever a program or its halt() runs,
\* the task of the scheduled terminal is a process: the PCB that halt() and
\* schedule() look up without a test exists, whatever the interleaving of
\* timer, system calls and exceptions.
THEOREM TypeCorrect == Spec => []TypeOK
<1>1. TypeInv /\ [Next]_vars => TypeInv'
    BY NextTypeInv
<1>2. TypeInv => TypeOK
    BY DEF TypeInv
<1> QED BY <1>1, <1>2, InitTypeInv, PTL DEF Spec

\* The part of it about the running task, on its own.
THEOREM TaskExists == Spec => []RunningHasTask
<1>1. TypeInv /\ [Next]_vars => TypeInv'
    BY NextTypeInv
<1>2. TypeInv => RunningHasTask
    BY DEF TypeInv
<1> QED BY <1>1, <1>2, InitTypeInv, PTL DEF Spec

-----------------------------------------------------------------------------
(* Without exceptions, a program in user mode has its own page and kernel  *)
(* stack.  Inductive with the same of a program about to be entered, and   *)
(* of every context that schedule() may resume.                            *)

NoCrashNext == Execute \/ EnterUser \/ Tick \/ Halt \/ TerminalWrite

ContextsMatch(P) ==
    \A p \in Pids :
        /\ P[p].sched.cpu.pc \notin HaltSteps
        /\ P[p].sched.cpu.pc \in {"start", "user"} => P[p].schedule_esp0 = p

MatchInv ==
    /\ TypeInv
    /\ cpu.pc \notin HaltSteps
    /\ cpu.pc \in {"start", "user"} =>
        user_page = active[scheduled_tid] /\ tss_esp0 = active[scheduled_tid]
    /\ ContextsMatch(pcb)

\* Unprotect() and execute() leave the saved contexts what they are.
LEMMA UnprotectMatch ==
    ASSUME NEW P \in [Pids -> Pcb], NEW c \in Cpu, ContextsMatch(P)
    PROVE  ContextsMatch(Unprotect(P, c))
<1> SUFFICES ASSUME NEW p \in Pids
             PROVE  /\ Unprotect(P, c)[p].sched.cpu = P[p].sched.cpu
                    /\ Unprotect(P, c)[p].schedule_esp0 = P[p].schedule_esp0
    BY DEF ContextsMatch
<1> QED BY UnprotectFields

LEMMA ExecMatch ==
    ASSUME MatchInv, NEW t \in Terminals, NEW task \in Pids \cup {NoPid},
           NEW table, NEW n, NEW P \in [Pids -> Pcb], NEW c, NEW otherwise,
           ContextsMatch(P), Exec(t, task, table, n, P, c, otherwise)
    PROVE  /\ ContextsMatch(pcb')
           /\ \/ cpu' = Lost
              \/ /\ cpu' = otherwise
                 /\ UNCHANGED <<user_page, tss_esp0>>
                 /\ active' = [active EXCEPT ![t] = task]
              \/ /\ cpu'.pc = "start"
                 /\ user_page' = active'[t] /\ tss_esp0' = active'[t]
<1>1. CASE Full(table)
    BY <1>1 DEF Exec
<1>2. CASE ~Full(table)
    <2>1. PICK pid \in Pids : Load(pid, t, task, table, n, P, c)
        BY <1>2 DEF Exec
    <2>2. CASE Mapped(Increment(n))
        <3>1. ContextsMatch(pcb')
            <4>1. CASE get_pcb(Increment(n)) \in Pids
                <5> DEFINE slot == get_pcb(Increment(n))
                <5>1. pcb' = [P EXCEPT ![slot] = NewPcb(P[slot], pid, t, task, c)]
                    BY <2>1, <2>2, <4>1 DEF Load
                <5>2. \A p \in Pids : /\ pcb'[p].sched = P[p].sched
                                      /\ pcb'[p].schedule_esp0 = P[p].schedule_esp0
                    BY <4>1, <5>1 DEF NewPcb, Pcb
                <5> QED BY <5>2 DEF ContextsMatch
            <4>2. CASE get_pcb(Increment(n)) \notin Pids
                BY <2>1, <2>2, <4>2 DEF Load
            <4> QED BY <4>1, <4>2
        <3>2. active'[t] = pid
            BY <2>1, <2>2 DEF Load, MatchInv, TypeInv, TypeOK
        <3>3. cpu'.pc = "start"
            BY <2>1, <2>2 DEF Load, At
        <3> QED BY <2>1, <2>2, <3>1, <3>2, <3>3 DEF Load
    <2>3. CASE ~Mapped(Increment(n))
        BY <2>1, <2>3 DEF Load
    <2> QED BY <2>2, <2>3
<1> QED BY <1>1, <1>2

LEMMA LostPlace == Lost.pc = "lost" /\ "lost" \notin HaltSteps /\ "start" \notin HaltSteps
                   /\ "user" \notin HaltSteps /\ \A s : User(s).pc = "user"
BY DEF Lost, At, HaltSteps, User

LEMMA ExecuteMatch == ASSUME MatchInv, Execute, TypeInv' PROVE MatchInv'
<1>1. /\ active[scheduled_tid] \in Pids \cup {NoPid} /\ scheduled_tid \in Terminals
      /\ pcb \in [Pids -> Pcb] /\ active = [active EXCEPT ![scheduled_tid] = @]
    BY DEF MatchInv, TypeInv, TypeOK
<1>2. Exec(scheduled_tid, active[scheduled_tid], process_array, processes_running,
           pcb, [cpu EXCEPT !.depth = 1], cpu) /\ scheduled_tid' = scheduled_tid
    BY DEF Execute
<1>3. /\ ContextsMatch(pcb')
      /\ \/ cpu' = Lost
         \/ cpu' = cpu /\ UNCHANGED <<user_page, tss_esp0, active>>
         \/ cpu'.pc = "start" /\ user_page' = active'[scheduled_tid]
            /\ tss_esp0' = active'[scheduled_tid]
    BY <1>1, <1>2, ExecMatch DEF MatchInv
<1> QED BY <1>2, <1>3, LostPlace DEF MatchInv

LEMMA TickMatch == ASSUME MatchInv, Tick, TypeInv' PROVE MatchInv'
<1>1. CASE active[scheduled_tid] = NoPid
    <2>1. /\ Exec(scheduled_tid, NoPid, process_array, processes_running, pcb,
                  [cpu EXCEPT !.depth = @ + 1], cpu)
          /\ scheduled_tid' = scheduled_tid
        BY <1>1 DEF Tick, Spawn
    <2>2. cpu.pc \notin {"start", "user"}
        BY <1>1 DEF MatchInv, TypeInv, RunningHasTask
    <2>3. /\ ContextsMatch(pcb')
          /\ \/ cpu' = Lost
             \/ cpu' = cpu
             \/ cpu'.pc = "start" /\ user_page' = active'[scheduled_tid]
                /\ tss_esp0' = active'[scheduled_tid]
        BY <2>1, ExecMatch DEF MatchInv, TypeInv, TypeOK
    <2> QED BY <2>1, <2>2, <2>3, LostPlace DEF MatchInv
<1>2. CASE active[scheduled_tid] # NoPid
    <2> DEFINE a == active[scheduled_tid]
    <2>1. Target \in Terminals /\ Saved \in [Pids -> Pcb] /\ a \in Pids
        BY <1>2, TargetType, SavedType DEF MatchInv, TypeInv, TypeOK
    <2>2. ContextsMatch(Saved)
        <3> SUFFICES ASSUME NEW p \in Pids
                     PROVE  /\ Saved[p].sched.cpu.pc \notin HaltSteps
                            /\ Saved[p].sched.cpu.pc \in {"start", "user"} =>
                                Saved[p].schedule_esp0 = p
            BY DEF ContextsMatch
        <3>1. CASE p = a
            BY <2>1, <3>1, SavedFields DEF MatchInv, TypeInv
        <3>2. CASE p # a
            BY <2>1, <3>2, SavedFields DEF MatchInv, TypeInv, ContextsMatch
        <3> QED BY <3>1, <3>2
    <2>3. CASE active[Target] = NoPid
        <3>1. /\ Exec(Target, NoPid, process_array, processes_running, Saved,
                      [cpu EXCEPT !.depth = @ + 1], Lost)
              /\ scheduled_tid' = Target
            BY <1>2, <2>3 DEF Tick, Spawn
        <3>2. /\ ContextsMatch(pcb')
              /\ \/ cpu' = Lost
                 \/ cpu'.pc = "start" /\ user_page' = active'[Target]
                    /\ tss_esp0' = active'[Target]
            BY <2>1, <2>2, <3>1, ExecMatch
        <3> QED BY <3>1, <3>2, LostPlace DEF MatchInv
    <2>4. CASE active[Target] # NoPid
        <3> DEFINE p == active[Target]
                   c == Saved[p].sched.cpu
        <3>1. Resume(p, Saved) /\ scheduled_tid' = Target
            BY <1>2, <2>4 DEF Tick
        <3>2. p \in Pids /\ c \in Cpu
            BY <2>1, <2>4 DEF MatchInv, TypeInv, TypeOK, Pcb, Context
        <3>3. active'[Target] = p /\ user_page' = p /\ tss_esp0' = Saved[p].schedule_esp0
            BY <3>1 DEF Resume
        <3>4. CASE cpu' = c /\ pcb' = Unprotect(Saved, c)
            <4>1. ContextsMatch(pcb')
                BY <2>1, <2>2, <3>2, <3>4, UnprotectMatch
            <4>2. /\ c.pc \notin HaltSteps
                  /\ c.pc \in {"start", "user"} => Saved[p].schedule_esp0 = p
                BY <2>2, <3>2 DEF ContextsMatch
            <4> QED BY <3>1, <3>3, <3>4, <4>1, <4>2 DEF MatchInv
        <3>5. CASE cpu' = Lost /\ pcb' = Saved
            BY <2>2, <3>5, LostPlace DEF MatchInv
        <3> QED BY <3>1, <3>4, <3>5 DEF Resume
    <2> QED BY <2>3, <2>4
<1> QED BY <1>1, <1>2

LEMMA HaltMatch == ASSUME MatchInv, Halt, TypeInv' PROVE MatchInv'
<1> DEFINE p == active[scheduled_tid]
           parent == pcb[p].parent_pid
<1>1. /\ scheduled_tid' = scheduled_tid /\ scheduled_tid \in Terminals
      /\ pcb \in [Pids -> Pcb] /\ active \in [Terminals -> Pids \cup {NoPid}]
      /\ ContextsMatch(pcb)
    BY DEF Halt, MatchInv, TypeInv, TypeOK
<1>2. CASE parent = NoPid
    <2>1. Exec(scheduled_tid, NoPid, Freed(p), Decrement(processes_running), pcb,
               [cpu EXCEPT !.depth = 1], Lost)
        BY <1>2 DEF Halt
    <2>2. /\ ContextsMatch(pcb')
          /\ \/ cpu' = Lost
             \/ cpu'.pc = "start" /\ user_page' = active'[scheduled_tid]
                /\ tss_esp0' = active'[scheduled_tid]
        BY <1>1, <2>1, ExecMatch
    <2> QED BY <1>1, <2>2, LostPlace DEF MatchInv
<1>3. CASE parent # NoPid
    <2>1. /\ tss_esp0' = parent /\ user_page' = parent
          /\ active' = [active EXCEPT ![scheduled_tid] = parent]
          /\ ReturnTo(pcb[p].parent_esp)
        BY <1>3 DEF Halt
    <2>2. active'[scheduled_tid] = parent
        BY <1>1, <2>1
    <2>3. CASE cpu' = User(tss_esp0') /\ pcb' = Unprotect(pcb, User(tss_esp0'))
        <3>1. User(tss_esp0') \in Cpu
            BY <2>3 DEF TypeInv, TypeOK
        <3>2. ContextsMatch(pcb')
            BY <1>1, <2>3, <3>1, UnprotectMatch
        <3> QED BY <1>1, <2>1, <2>2, <2>3, <3>2, LostPlace DEF MatchInv
    <2>4. CASE cpu' = Lost /\ pcb' = pcb
        BY <1>1, <2>4, LostPlace DEF MatchInv
    <2> QED BY <2>1, <2>3, <2>4 DEF ReturnTo
<1> QED BY <1>2, <1>3

LEMMA NoCrashStep == ASSUME MatchInv, [NoCrashNext]_vars PROVE MatchInv'
<1>1. TypeInv'
    BY NextTypeInv DEF NoCrashNext, Next, MatchInv
<1>2. CASE Execute
    BY <1>1, <1>2, ExecuteMatch
<1>3. CASE EnterUser
    <2>1. /\ cpu' = User(tss_esp0) /\ pcb' = Unprotect(pcb, User(tss_esp0))
          /\ UNCHANGED <<scheduled_tid, active, tss_esp0, user_page>>
          /\ cpu.pc = "start"
        BY <1>3 DEF EnterUser
    <2>2. User(tss_esp0) \in Cpu /\ pcb \in [Pids -> Pcb]
        BY <1>1, <2>1 DEF TypeInv, TypeOK, MatchInv
    <2>3. ContextsMatch(pcb')
        BY <2>1, <2>2, UnprotectMatch DEF MatchInv
    <2> QED BY <1>1, <2>1, <2>3, LostPlace DEF MatchInv
<1>4. CASE Tick
    BY <1>1, <1>4, TickMatch
<1>5. CASE Halt
    BY <1>1, <1>5, HaltMatch
<1>6. CASE TerminalWrite
    BY <1>1, <1>6 DEF TerminalWrite, MatchInv, ContextsMatch
<1>7. CASE UNCHANGED vars
    BY <1>1, <1>7 DEF vars, MatchInv, ContextsMatch
<1> QED BY <1>2, <1>3, <1>4, <1>5, <1>6, <1>7 DEF NoCrashNext

\* As long as no program causes an exception, a program in user mode has the
\* page and the kernel stack of its terminal's task, in whatever order
\* programs start and end and the timer preempts them.
THEOREM UserHasItsOwn == NoCrashSpec => []UserMatches
<1>1. Init => MatchInv
    <2> SUFFICES ASSUME Init PROVE MatchInv
        OBVIOUS
    <2>1. TypeInv
        BY InitTypeInv
    <2>2. ContextsMatch(pcb)
        BY LostPlace DEF Init, ContextsMatch, ZeroPcb
    <2> QED BY <2>1, <2>2 DEF Init, MatchInv, At, HaltSteps
<1>2. MatchInv /\ [NoCrashNext]_vars => MatchInv'
    BY NoCrashStep
<1>3. MatchInv => UserMatches
    BY DEF MatchInv, UserMatches
<1> QED BY <1>1, <1>2, <1>3, PTL DEF NoCrashSpec, NoCrashNext
=============================================================================
