--------------------------- MODULE OrderlyProofs ---------------------------
(***************************************************************************)
(* OrderlyInv is an invariant of the process layer used as its authors     *)
(* used it, for any number of terminals and of processes: under the        *)
(* discipline of Orderly the programs of a terminal nest, get_pcb() finds  *)
(* the right PCB, and every saved context survives.                        *)
(*                                                                         *)
(* The parts of the invariant that are about the PCBs are restated for any *)
(* PCBs P of which the first n are in use, so that what Unprotect, NewPcb  *)
(* and Saved do to them can be said once.                                  *)
(***************************************************************************)
EXTENDS Orderly, ProcessProofs, FiniteSetTheorems, Induction, Sequences

USE ConstantsAssumption

Named(P, n) ==
    \A p \in Pids : p < n =>
        /\ P[p].curr_pid = p
        /\ p < NumTerminals => P[p].parent_pid = NoPid /\ P[p].terminal_id = p
        /\ p >= NumTerminals =>
            /\ P[p].parent_pid \in 0 .. p - 1
            /\ P[P[p].parent_pid].terminal_id = P[p].terminal_id

Nests(P, n) ==
    \A p, q \in Pids :
        p < n /\ p >= NumTerminals /\ q < n /\ P[q].terminal_id = P[p].terminal_id /\ q < p =>
            q <= P[p].parent_pid

Framed(P, n) ==
    \A p \in Pids : p < n /\ p >= NumTerminals =>
        P[p].parent_esp = [stk |-> P[p].parent_pid, depth |-> 1, intact |-> TRUE]

\* A is what the terminals run, gone a process that is about to be none.
Youngest(P, n, A, gone) ==
    \A t \in Terminals : A[t] # NoPid =>
        /\ A[t] \in Pids /\ A[t] < n
        /\ P[A[t]].terminal_id = t
        /\ \A q \in Pids : q < n /\ P[q].terminal_id = t => q <= A[t] \/ q = gone

Resumable(P, a) ==
    /\ P[a].sched.intact
    /\ P[a].schedule_esp0 = a
    /\ \/ P[a].sched.cpu = User(a)
       \/ P[a].sched.cpu = At("start", a, 1)
       \/ P[a].sched.cpu = At("start", P[a].parent_pid, 1)

\* All terminals but s can be resumed.
Suspended(P, A, s) ==
    \A t \in Terminals : t # s /\ A[t] # NoPid => Resumable(P, A[t])

Gone == IF cpu.pc = "jump" THEN cpu.cur_pcb ELSE NoPid

\* The invariant in these terms
PcbParts ==
    /\ Named(pcb, Top) /\ Nests(pcb, Top) /\ Framed(pcb, Top)
    /\ Youngest(pcb, Top, active, Gone)
    /\ Suspended(pcb, active, scheduled_tid)

Inv == TypeInv /\ OrderlyInv

LEMMA Parts ==
    ASSUME Inv PROVE PcbParts
<1>1. Named(pcb, Top)
    BY DEF Inv, OrderlyInv, PcbsMatch, Present, Named
<1>2. Nests(pcb, Top)
    BY DEF Inv, OrderlyInv, Nested, Present, Nests
<1>3. Framed(pcb, Top)
    BY DEF Inv, OrderlyInv, ParentFramesIntact, Present, Framed
<1>4. Youngest(pcb, Top, active, Gone)
    BY DEF Inv, OrderlyInv, ActiveIsYoungest, Present, Youngest, Gone
<1>5. Suspended(pcb, active, scheduled_tid)
    BY DEF Inv, OrderlyInv, SuspendedIntact, Suspended, Resumable
<1> QED BY <1>1, <1>2, <1>3, <1>4, <1>5 DEF PcbParts

LEMMA Whole ==
    TypeInv /\ TableIsPrefix /\ BootInTurn /\ PcbParts /\ RunningMatches /\ CrashMatches
        => Inv
<1> SUFFICES ASSUME TypeInv, TableIsPrefix, BootInTurn, PcbParts, RunningMatches, CrashMatches
             PROVE  Inv
    OBVIOUS
<1> USE DEF PcbParts
<1>1. PcbsMatch
    BY DEF PcbsMatch, Present, Named
<1>2. Nested
    BY DEF Nested, Present, Nests
<1>3. ParentFramesIntact
    BY DEF ParentFramesIntact, Present, Framed
<1>4. ActiveIsYoungest
    BY CpuTypes DEF ActiveIsYoungest, Present, Youngest, Gone
<1>5. SuspendedIntact
    BY DEF SuspendedIntact, Suspended, Resumable
<1> QED BY <1>1, <1>2, <1>3, <1>4, <1>5 DEF Inv, OrderlyInv

-----------------------------------------------------------------------------
(* What the operators on PCBs do to these parts                            *)

\* The number of a process in use is a pid, and at most all are in use.
LEMMA TopType ==
    ASSUME Inv
    PROVE  /\ Top \in 0 .. MaxProcess
           /\ \A p \in Pids : p \in Int
           /\ processes_running \in Nat
           /\ ~Leaving => processes_running = Top
           /\ Leaving => processes_running = Top - 1
           /\ NoPid \notin Pids /\ NoPid = -1
BY CpuTypes DEF Inv, TypeInv, TypeOK, OrderlyInv, TableIsPrefix, Top, Pids, NoPid

\* Q has the names that P has
SameNames(P, Q) ==
    \A p \in Pids :
        /\ Q[p].curr_pid = P[p].curr_pid
        /\ Q[p].parent_pid = P[p].parent_pid
        /\ Q[p].terminal_id = P[p].terminal_id

LEMMA SameNamesKeep ==
    ASSUME NEW P, NEW Q, NEW n \in 0 .. MaxProcess, NEW A, NEW gone, SameNames(P, Q)
    PROVE  /\ Named(P, n) => Named(Q, n)
           /\ Nests(P, n) => Nests(Q, n)
           /\ Youngest(P, n, A, gone) => Youngest(Q, n, A, gone)
<1>1. ASSUME Named(P, n) PROVE Named(Q, n)
    <2> SUFFICES ASSUME NEW p \in Pids, p < n
                 PROVE  /\ Q[p].curr_pid = p
                        /\ p < NumTerminals => Q[p].parent_pid = NoPid /\ Q[p].terminal_id = p
                        /\ p >= NumTerminals =>
                            /\ Q[p].parent_pid \in 0 .. p - 1
                            /\ Q[Q[p].parent_pid].terminal_id = Q[p].terminal_id
        BY DEF Named
    <2>1. p \in Int /\ 0 .. p - 1 \subseteq Pids
        BY DEF Pids
    <2> QED BY <1>1, <2>1 DEF Named, SameNames
<1>2. ASSUME Nests(P, n) PROVE Nests(Q, n)
    BY <1>2 DEF Nests, SameNames
<1>3. ASSUME Youngest(P, n, A, gone) PROVE Youngest(Q, n, A, gone)
    BY <1>3 DEF Youngest, SameNames
<1> QED BY <1>1, <1>2, <1>3

LEMMA UnprotectNames ==
    ASSUME NEW P \in [Pids -> Pcb], NEW c \in Cpu
    PROVE  SameNames(P, Unprotect(P, c))
BY UnprotectFields DEF SameNames

\* Running on a stack whose process has no child protects no frame less, and
\* nor does running in the kernel above the frame of execute().
LEMMA UnprotectFramed ==
    ASSUME NEW P \in [Pids -> Pcb], NEW n \in 0 .. MaxProcess, NEW c \in Cpu,
           Framed(P, n),
           \/ c.pc # "user" /\ c.depth >= 1
           \/ \A p \in Pids : p < n /\ p >= NumTerminals => P[p].parent_pid # c.stk
    PROVE  Framed(Unprotect(P, c), n)
<1> SUFFICES ASSUME NEW p \in Pids, p < n, p >= NumTerminals
             PROVE  Unprotect(P, c)[p].parent_esp =
                [stk |-> Unprotect(P, c)[p].parent_pid, depth |-> 1, intact |-> TRUE]
    BY DEF Framed
<1>1. P[p].parent_esp = [stk |-> P[p].parent_pid, depth |-> 1, intact |-> TRUE]
    BY DEF Framed
<1>2. c.depth \in Nat
    BY DEF Cpu
<1>3. ~Overwritable(P[p].parent_esp, c)
    BY <1>1, <1>2 DEF Overwritable
<1> QED BY <1>1, <1>3, UnprotectFields

\* A context that can be resumed lies on a stack of its own terminal.
LEMMA ResumableStack ==
    ASSUME NEW P \in [Pids -> Pcb], NEW n \in 0 .. MaxProcess, Named(P, n),
           NEW a \in Pids, a < n, Resumable(P, a), NEW c, c = P[a].sched.cpu
    PROVE  /\ c \in Cpu /\ c.stk \in Pids
           /\ c.stk < n
           /\ P[c.stk].terminal_id = P[a].terminal_id
           /\ \/ c.pc = "user" /\ c.stk = a
              \/ c.pc = "start" /\ c.depth = 1
<1>1. P[a] \in Pcb /\ c \in Cpu /\ c.stk \in Pids
    BY DEF Pcb, Context, Cpu
<1>2. CASE c = User(a) \/ c = At("start", a, 1)
    <2>1. c.stk = a /\ (c.pc = "user" \/ (c.pc = "start" /\ c.depth = 1))
        BY <1>2 DEF User, At
    <2> QED BY <1>1, <2>1
<1>3. CASE c = At("start", P[a].parent_pid, 1)
    <2>1. c.stk = P[a].parent_pid /\ c.pc = "start" /\ c.depth = 1
        BY <1>3 DEF At
    <2>2. a >= NumTerminals
        BY <1>1, <2>1, CpuTypes DEF Named, Pids
    <2>3. P[a].parent_pid \in 0 .. a - 1 /\ P[P[a].parent_pid].terminal_id = P[a].terminal_id
        BY <2>2 DEF Named
    <2> QED BY <1>1, <2>1, <2>3 DEF Pids
<1> QED BY <1>2, <1>3 DEF Resumable

\* Running on a stack of terminal s leaves the others as they were suspended.
LEMMA UnprotectSuspended ==
    ASSUME NEW P \in [Pids -> Pcb], NEW n \in 0 .. MaxProcess, NEW c \in Cpu,
           NEW A, NEW s \in Terminals, NEW gone,
           Named(P, n), Youngest(P, n, A, gone), Suspended(P, A, s),
           c.stk < n, P[c.stk].terminal_id = s
    PROVE  Suspended(Unprotect(P, c), A, s)
<1> SUFFICES ASSUME NEW t \in Terminals, t # s, A[t] # NoPid
             PROVE  Resumable(Unprotect(P, c), A[t])
    BY DEF Suspended
<1> DEFINE a == A[t]
<1>1. a \in Pids /\ a < n /\ P[a].terminal_id = t
    BY DEF Youngest
<1>2. Resumable(P, a)
    BY DEF Suspended
<1>3. P[a].sched.cpu.stk # c.stk
    BY <1>1, <1>2, ResumableStack
<1>4. ~Overwritable(P[a].sched.cpu, c)
    BY <1>3 DEF Overwritable
<1>5. /\ Unprotect(P, c)[a].sched = P[a].sched
      /\ Unprotect(P, c)[a].parent_pid = P[a].parent_pid
      /\ Unprotect(P, c)[a].schedule_esp0 = P[a].schedule_esp0
    BY <1>1, <1>4, UnprotectFields
<1> HIDE DEF a
<1> QED BY <1>2, <1>5 DEF Resumable, a

\* The youngest program of a terminal is nobody's parent.
LEMMA YoungestChildless ==
    ASSUME NEW P, NEW n \in 0 .. MaxProcess, NEW a \in Pids,
           Named(P, n), a < n,
           \A q \in Pids : q < n /\ P[q].terminal_id = P[a].terminal_id => q <= a,
           NEW p \in Pids, p < n, p >= NumTerminals
    PROVE  P[p].parent_pid # a
<1> SUFFICES ASSUME P[p].parent_pid = a PROVE FALSE
    OBVIOUS
<1>1. a \in 0 .. p - 1 /\ P[a].terminal_id = P[p].terminal_id
    BY DEF Named
<1>2. p <= a
    BY <1>1
<1> QED BY <1>1, <1>2 DEF Pids

-----------------------------------------------------------------------------
(* Loading a program into the first slot that is free                      *)

\* What execute() does when it takes slot n
Loaded(t, task, table, n, P, c) ==
    /\ pcb' = [P EXCEPT ![n] = NewPcb(P[n], n, t, task, c)]
    /\ cpu' = At("start", c.stk, c.depth)
    /\ process_array' = [table EXCEPT ![n] = 1]
    /\ processes_running' = n + 1
    /\ active' = [active EXCEPT ![t] = n]
    /\ user_page' = n /\ tss_esp0' = n

\* Of a table whose slots taken are the first n, execute() takes slot n, and
\* get_pcb() finds the PCB of just that slot.
LEMMA ExecLoads ==
    ASSUME NEW t \in Terminals, NEW task, NEW table \in [Pids -> {0, 1}],
           NEW n \in Pids, \A p \in Pids : table[p] = 1 <=> p < n,
           NEW P, NEW c, NEW otherwise,
           Exec(t, task, table, n, P, c, otherwise)
    PROVE  Loaded(t, task, table, n, P, c)
<1>1. ~Full(table)
    <2>1. table[n] = 0
        BY DEF Pids
    <2> QED BY <2>1 DEF Full
<1>2. PICK pid \in Pids : FirstFree(table, pid) /\ Load(pid, t, task, table, n, P, c)
    BY <1>1 DEF Exec
<1>3. pid = n
    <2>1. table[pid] = 0 /\ \A q \in Pids : q < pid => table[q] # 0
        BY <1>2 DEF FirstFree
    <2>2. pid >= n /\ pid \in Int /\ n \in Int
        BY <2>1 DEF Pids
    <2>3. n < pid => table[n] = 1
        BY <2>1, <2>2 DEF Pids
    <2> QED BY <2>2, <2>3
<1>4. Increment(n) = n + 1 /\ Mapped(Increment(n)) /\ get_pcb(Increment(n)) = n
    BY DEF Increment, Mapped, get_pcb, Pids
<1> QED BY <1>2, <1>3, <1>4 DEF Load, Loaded

\* When all slots are taken, execute() changes nothing but what it is told to.
LEMMA ExecFull ==
    ASSUME NEW t \in Terminals, NEW task, NEW table \in [Pids -> {0, 1}],
           NEW n, \A p \in Pids : table[p] = 1,
           NEW P, NEW c, NEW otherwise,
           Exec(t, task, table, n, P, c, otherwise)
    PROVE  /\ pcb' = P /\ cpu' = otherwise /\ process_array' = table
           /\ processes_running' = n /\ active' = [active EXCEPT ![t] = task]
           /\ UNCHANGED <<user_page, tss_esp0>>
<1>1. Full(table)
    BY DEF Full
<1> QED BY <1>1 DEF Exec

\* The PCBs once slot n has been filled
LEMMA NewPcbFields ==
    ASSUME NEW P \in [Pids -> Pcb], NEW n \in Pids, NEW t \in Terminals, NEW task, NEW c,
           NEW Q, Q = [P EXCEPT ![n] = NewPcb(P[n], n, t, task, c)]
    PROVE  /\ Q[n].curr_pid = n
           /\ Q[n].parent_pid = ParentOf(n, task)
           /\ Q[n].terminal_id = t
           /\ Q[n].parent_esp = [stk |-> c.stk, depth |-> c.depth, intact |-> TRUE]
           /\ \A p \in Pids : p # n => Q[p] = P[p]
<1>1. Q[n] = NewPcb(P[n], n, t, task, c) /\ P[n] \in Pcb
    OBVIOUS
<1> QED BY <1>1 DEF NewPcb, Pcb

YoungestOf(P, n, a, t) ==
    /\ a \in Pids /\ a < n /\ P[a].terminal_id = t
    /\ \A q \in Pids : q < n /\ P[q].terminal_id = t => q <= a

\* What a layout of n processes must be for process n to be loaded for
\* terminal t: n is the shell of t, or task, the youngest program of t, starts
\* it with the call at c.
Loadable(P, n, A, t, task, c) ==
    /\ Named(P, n) /\ Nests(P, n) /\ Framed(P, n)
    /\ \A u \in Terminals \ {t} : A[u] # NoPid => YoungestOf(P, n, A[u], u)
    /\ Suspended(P, A, t)
    /\ \A u \in Terminals \ {t} : A[u] = NoPid <=> n <= u
    /\ n + 1 < NumTerminals => \A u \in Terminals : u < n => A[u] = u
    /\ n < NumTerminals =>
        /\ t = n
        /\ \/ c.stk = n /\ c.depth = 1
           \/ c.stk = n - 1 /\ n > 0
    /\ n >= NumTerminals =>
        /\ task \in 0 .. n - 1 /\ YoungestOf(P, n, task, t)
        /\ c.stk = task /\ c.depth = 1

\* The process then is part of the layout.
LEMMA LoadedParts ==
    ASSUME NEW P \in [Pids -> Pcb], NEW n \in Pids, NEW t \in Terminals, NEW task, NEW c,
           NEW A \in [Terminals -> Pids \cup {NoPid}], Loadable(P, n, A, t, task, c),
           NEW Q, Q = [P EXCEPT ![n] = NewPcb(P[n], n, t, task, c)],
           NEW B, B = [A EXCEPT ![t] = n]
    PROVE  /\ Named(Q, n + 1) /\ Nests(Q, n + 1) /\ Framed(Q, n + 1)
           /\ Youngest(Q, n + 1, B, NoPid) /\ Suspended(Q, B, t)
<1>1. /\ Q[n].curr_pid = n
      /\ Q[n].parent_pid = ParentOf(n, task)
      /\ Q[n].terminal_id = t
      /\ Q[n].parent_esp = [stk |-> c.stk, depth |-> c.depth, intact |-> TRUE]
      /\ \A p \in Pids : p # n => Q[p] = P[p]
    <2>1. Q[n] = NewPcb(P[n], n, t, task, c) /\ P[n] \in Pcb /\ \A p \in Pids : p # n => Q[p] = P[p]
        OBVIOUS
    <2> QED BY <2>1 DEF NewPcb, Pcb
<1>2. n \in Int /\ \A p \in Pids : p \in Int /\ (p < n + 1 <=> p < n \/ p = n)
    BY DEF Pids
<1>3. B[t] = n /\ \A u \in Terminals : u # t => B[u] = A[u]
    OBVIOUS
<1>4. n < NumTerminals => ParentOf(n, task) = NoPid
    BY DEF ParentOf, IsBaseShell
<1>5. n >= NumTerminals => ParentOf(n, task) = task /\ task \in 0 .. n - 1 /\ task \in Pids
    BY <1>2 DEF ParentOf, IsBaseShell, Loadable, YoungestOf
<1>6. Named(Q, n + 1)
    <2> SUFFICES ASSUME NEW p \in Pids, p < n + 1
                 PROVE  /\ Q[p].curr_pid = p
                        /\ p < NumTerminals => Q[p].parent_pid = NoPid /\ Q[p].terminal_id = p
                        /\ p >= NumTerminals =>
                            /\ Q[p].parent_pid \in 0 .. p - 1
                            /\ Q[Q[p].parent_pid].terminal_id = Q[p].terminal_id
        BY DEF Named
    <2>1. CASE p < n
        <3>1. Named(P, n)
            BY DEF Loadable
        <3>2. \A q \in 0 .. p - 1 : q \in Pids /\ Q[q] = P[q]
            BY <1>1, <2>1 DEF Pids
        <3> QED BY <1>1, <2>1, <3>1, <3>2, <1>2 DEF Named
    <2>2. CASE p = n
        <3>1. n < NumTerminals => t = n
            BY DEF Loadable
        <3>2. n >= NumTerminals => Q[task] = P[task] /\ P[task].terminal_id = t
            BY <1>1, <1>2, <1>5 DEF Loadable, YoungestOf
        <3> QED BY <1>1, <1>4, <1>5, <2>2, <3>1, <3>2
    <2> QED BY <1>2, <2>1, <2>2
<1>7. Nests(Q, n + 1)
    <2> SUFFICES ASSUME NEW p \in Pids, NEW q \in Pids, p < n + 1, p >= NumTerminals,
                        q < n + 1, Q[q].terminal_id = Q[p].terminal_id, q < p
                 PROVE  q <= Q[p].parent_pid
        BY DEF Nests
    <2>1. q # n /\ q < n
        BY <1>2
    <2>2. CASE p < n
        BY <1>1, <1>2, <2>1, <2>2 DEF Loadable, Nests
    <2>3. CASE p = n
        BY <1>1, <1>5, <2>1, <2>3 DEF Loadable, YoungestOf
    <2> QED BY <1>2, <2>2, <2>3
<1>8. Framed(Q, n + 1)
    <2> SUFFICES ASSUME NEW p \in Pids, p < n + 1, p >= NumTerminals
                 PROVE  Q[p].parent_esp =
                    [stk |-> Q[p].parent_pid, depth |-> 1, intact |-> TRUE]
        BY DEF Framed
    <2>1. CASE p < n
        BY <1>1, <1>2, <2>1 DEF Loadable, Framed
    <2>2. CASE p = n
        BY <1>1, <1>5, <2>2 DEF Loadable
    <2> QED BY <1>2, <2>1, <2>2
<1>9. Youngest(Q, n + 1, B, NoPid)
    <2> SUFFICES ASSUME NEW u \in Terminals, B[u] # NoPid
                 PROVE  /\ B[u] \in Pids /\ B[u] < n + 1
                        /\ Q[B[u]].terminal_id = u
                        /\ \A q \in Pids : q < n + 1 /\ Q[q].terminal_id = u => q <= B[u]
        BY DEF Youngest
    <2>1. CASE u = t
        <3>1. B[u] = n /\ Q[n].terminal_id = u
            BY <1>1, <1>3, <2>1
        <3> QED BY <3>1 DEF Pids
    <2>2. CASE u # t
        <3>1. YoungestOf(P, n, A[u], u) /\ B[u] = A[u]
            BY <1>3, <2>2 DEF Loadable
        <3>2. A[u] # n /\ Q[A[u]] = P[A[u]] /\ A[u] < n + 1
            BY <1>1, <3>1 DEF YoungestOf, Pids
        <3>3. ASSUME NEW q \in Pids, q < n + 1, Q[q].terminal_id = u PROVE q <= A[u]
            BY <1>1, <2>2, <3>1, <3>3 DEF YoungestOf, Pids
        <3> QED BY <3>1, <3>2, <3>3 DEF YoungestOf
    <2> QED BY <2>1, <2>2
<1>10. Suspended(Q, B, t)
    <2> SUFFICES ASSUME NEW u \in Terminals, u # t, A[u] # NoPid PROVE Resumable(Q, A[u])
        BY <1>3 DEF Suspended
    <2>1. A[u] \in Pids /\ A[u] < n /\ Resumable(P, A[u])
        BY DEF Loadable, YoungestOf, Suspended
    <2>2. Q[A[u]] = P[A[u]]
        BY <1>1, <1>2, <2>1
    <2> QED BY <2>1, <2>2 DEF Resumable
<1> QED BY <1>6, <1>7, <1>8, <1>9, <1>10

\* So a call of execute() that finds a slot keeps the invariant.
LEMMA LoadKeeps ==
    ASSUME NEW t \in Terminals, NEW task, NEW table \in [Pids -> {0, 1}],
           NEW n \in Pids, \A p \in Pids : table[p] = 1 <=> p < n,
           NEW P \in [Pids -> Pcb], NEW c \in Cpu,
           active \in [Terminals -> Pids \cup {NoPid}],
           Loadable(P, n, active, t, task, c),
           Loaded(t, task, table, n, P, c), scheduled_tid' = t,
           TypeInv'
    PROVE  Inv'
<1>a. /\ pcb' = [P EXCEPT ![n] = NewPcb(P[n], n, t, task, c)]
      /\ cpu' = At("start", c.stk, c.depth)
      /\ process_array' = [table EXCEPT ![n] = 1]
      /\ processes_running' = n + 1
      /\ active' = [active EXCEPT ![t] = n]
      /\ user_page' = n /\ tss_esp0' = n
    BY DEF Loaded
<1> USE <1>a
<1>1. cpu'.pc = "start" /\ cpu'.stk = c.stk /\ cpu'.depth = c.depth
      /\ cpu'.cur_pcb = 0 /\ cpu'.count = 0
    BY DEF At
<1>2. ~Leaving' /\ Top' = n + 1 /\ Gone' = NoPid
    BY <1>1 DEF Leaving, Top, Gone
<1>3. active'[t] = n /\ \A u \in Terminals : u # t => active'[u] = active[u]
    OBVIOUS
<1>4. PcbParts'
    <2>1. /\ Named(pcb', n + 1) /\ Nests(pcb', n + 1) /\ Framed(pcb', n + 1)
          /\ Youngest(pcb', n + 1, active', NoPid) /\ Suspended(pcb', active', t)
        BY LoadedParts
    <2> QED BY <1>2, <2>1 DEF PcbParts
<1>5. TableIsPrefix'
    BY <1>1, <1>2 DEF TableIsPrefix, Pids
<1>6. BootInTurn'
    <2>1. /\ \A u \in Terminals \ {t} : active[u] = NoPid <=> n <= u
          /\ n + 1 < NumTerminals => \A u \in Terminals : u < n => active[u] = u
          /\ n < NumTerminals => t = n
        BY DEF Loadable
    <2>2. \A u \in Terminals : active'[u] = NoPid <=> n + 1 <= u
        <3> SUFFICES ASSUME NEW u \in Terminals PROVE active'[u] = NoPid <=> n + 1 <= u
            OBVIOUS
        <3>1. CASE u = t
            <4>1. ~(n + 1 <= t)
                BY <2>1 DEF Pids, Terminals
            <4> QED BY <1>3, <3>1, <4>1, CpuTypes
        <3>2. CASE u # t
            <4>1. n <= u <=> n + 1 <= u
                BY <2>1, <3>2 DEF Pids, Terminals
            <4> QED BY <1>3, <2>1, <3>2, <4>1
        <3> QED BY <3>1, <3>2
    <2>3. n + 1 < NumTerminals =>
            t = n /\ \A u \in Terminals : u < n + 1 => active'[u] = u
        BY <1>3, <2>1 DEF Pids, Terminals
    <2>4. n + 1 # 0 /\ (n + 1) - 1 = n /\ n \in Int
        BY DEF Pids
    <2>5. \A u \in Terminals : active'[u] = NoPid <=> Top' <= u
        BY <1>2, <2>2
    <2>6. Top' < NumTerminals =>
            /\ scheduled_tid' = IF Top' = 0 THEN 0 ELSE Top' - 1
            /\ \A u \in Terminals : u < Top' => active'[u] = u
        BY <1>2, <2>3, <2>4
    <2>7. cpu'.pc = "boot" <=> Top' = 0
        BY <1>1, <1>2, <2>4
    <2> QED BY <2>5, <2>6, <2>7 DEF BootInTurn
<1>7. RunningMatches'
    <2>1. pcb'[n].parent_pid = ParentOf(n, task)
        <3>1. pcb'[n] = NewPcb(P[n], n, t, task, c) /\ P[n] \in Pcb
            OBVIOUS
        <3> QED BY <3>1 DEF NewPcb, Pcb
    <2>2. c.stk \in Pids /\ c.depth \in Nat
        BY DEF Cpu
    <2>3. (c.stk = n \/ c.stk = ParentOf(n, task)) => c.depth = 1
        BY <2>2, CpuTypes DEF Loadable, ParentOf, IsBaseShell, Pids
    <2>4. ~(c.stk = n \/ c.stk = ParentOf(n, task)) =>
            n > 0 /\ c.stk = n - 1 /\ n < NumTerminals
        BY <2>2, CpuTypes DEF Loadable, ParentOf, IsBaseShell, Pids
    <2> QED BY <1>1, <1>2, <1>3, <2>1, <2>3, <2>4 DEF RunningMatches, OnOwnStack
<1>8. CrashMatches'
    BY <1>1 DEF CrashMatches, Leaving, HaltSteps
<1> QED BY <1>4, <1>5, <1>6, <1>7, <1>8, Whole, PTL

-----------------------------------------------------------------------------
(* Going on with a program: entered, resumed, or returned to               *)

\* The processor goes on at c, in user mode or on its way there, with the
\* youngest program of the scheduled terminal.
LEMMA GoOnKeeps ==
    ASSUME NEW P \in [Pids -> Pcb], NEW n \in 1 .. MaxProcess,
           NEW s \in Terminals, NEW a, NEW c \in Cpu,
           Named(P, n), Nests(P, n), Framed(P, n),
           Youngest(P, n, active', NoPid), Suspended(P, active', s),
           c = User(a) \/ c = At("start", a, 1) \/ c = At("start", P[a].parent_pid, 1),
           scheduled_tid' = s, active'[s] = a, a # NoPid,
           cpu' = c, pcb' = Unprotect(P, c), tss_esp0' = a, user_page' = a,
           processes_running' = n, \A p \in Pids : process_array'[p] = 1 <=> p < n,
           \A t \in Terminals : active'[t] = NoPid <=> n <= t,
           n < NumTerminals => s = n - 1 /\ \A t \in Terminals : t < n => active'[t] = t,
           TypeInv'
    PROVE  Inv'
<1>1. /\ a \in Pids /\ a < n /\ P[a].terminal_id = s
      /\ \A q \in Pids : q < n /\ P[q].terminal_id = s => q <= a
    BY CpuTypes DEF Youngest
<1>2. c.stk \in Pids /\ c.stk < n /\ P[c.stk].terminal_id = s
    <2>1. c.stk \in Pids
        BY DEF Cpu
    <2>2. CASE c.stk = a
        BY <1>1, <2>2
    <2>3. CASE c = At("start", P[a].parent_pid, 1)
        <3>1. c.stk = P[a].parent_pid
            BY <2>3 DEF At
        <3>2. a >= NumTerminals
            BY <1>1, <2>1, <3>1, CpuTypes DEF Named, Pids
        <3>3. P[a].parent_pid \in 0 .. a - 1 /\ P[P[a].parent_pid].terminal_id = s
            BY <1>1, <3>2 DEF Named
        <3> QED BY <1>1, <2>1, <3>1, <3>3 DEF Pids
    <2> QED BY <2>2, <2>3 DEF User, At
<1>3. \/ c.pc = "user" /\ c.stk = a
      \/ /\ c.pc = "start" /\ c.depth = 1 /\ c.cur_pcb = 0 /\ c.count = 0
         /\ c.stk = a \/ c.stk = P[a].parent_pid
    BY DEF User, At
<1>4. cpu'.pc \in {"user", "start"} /\ ~Leaving' /\ Top' = n /\ Gone' = NoPid
    BY <1>3 DEF Leaving, Top, Gone
<1>5. SameNames(P, pcb')
    BY UnprotectNames
<1>6. PcbParts'
    <2>1. Named(pcb', n) /\ Nests(pcb', n) /\ Youngest(pcb', n, active', NoPid)
        BY <1>5, SameNamesKeep
    <2>2. Framed(pcb', n)
        <3>1. CASE c.pc = "user"
            <4>1. \A p \in Pids : p < n /\ p >= NumTerminals => P[p].parent_pid # a
                BY <1>1, YoungestChildless
            <4> QED BY <1>3, <3>1, <4>1, UnprotectFramed
        <3>2. CASE c.pc # "user"
            BY <1>3, <3>2, UnprotectFramed
        <3> QED BY <3>1, <3>2
    <2>3. Suspended(pcb', active', s)
        BY <1>2, UnprotectSuspended
    <2> QED BY <1>4, <2>1, <2>2, <2>3 DEF PcbParts
<1>7. TableIsPrefix'
    BY <1>4 DEF TableIsPrefix
<1>8. BootInTurn'
    BY <1>4 DEF BootInTurn
<1>9. RunningMatches'
    <2>1. pcb'[a].parent_pid = P[a].parent_pid
        BY <1>1, <1>5 DEF SameNames
    <2>2. cpu'.pc = "user" => c = User(a)
        BY DEF User, At
    <2>3. OnOwnStack'
        BY <1>3, <2>1 DEF OnOwnStack
    <2> QED BY <1>3, <1>4, <2>2, <2>3 DEF RunningMatches
<1>10. CrashMatches'
    BY <1>4 DEF CrashMatches, HaltSteps, Leaving
<1> QED BY <1>6, <1>7, <1>8, <1>9, <1>10, Whole, PTL

\* All terminals but s run the youngest of their programs.
OthersYoungest(P, n, A, s, gone) ==
    \A t \in Terminals \ {s} : A[t] # NoPid =>
        /\ A[t] \in Pids /\ A[t] < n + 1 /\ P[A[t]].terminal_id = t
        /\ \A q \in Pids : q < n + 1 /\ P[q].terminal_id = t => q <= A[t] \/ q = gone

\* When the newest program ends and its terminal's program is the one that
\* started it, what is left is a layout.
LEMMA Shrink ==
    ASSUME NEW P \in [Pids -> Pcb], NEW n \in Pids, n >= NumTerminals, NEW A,
           NEW s \in Terminals, NEW gone \in {NoPid, n},
           Named(P, n + 1), Nests(P, n + 1), Framed(P, n + 1),
           P[n].terminal_id = s, A[s] = P[n].parent_pid,
           OthersYoungest(P, n, A, s, gone)
    PROVE  /\ Named(P, n) /\ Nests(P, n) /\ Framed(P, n)
           /\ Youngest(P, n, A, NoPid)
           /\ A[s] \in Pids
<1>1. n \in Int /\ \A p \in Pids : p \in Int /\ (p < n + 1 <=> p < n \/ p = n)
    BY DEF Pids
<1>2. Named(P, n) /\ Nests(P, n) /\ Framed(P, n)
    BY <1>1 DEF Named, Nests, Framed
<1>3. P[n].parent_pid \in 0 .. n - 1 /\ P[P[n].parent_pid].terminal_id = s
    BY <1>1 DEF Named
<1>4. A[s] \in Pids /\ A[s] < n /\ P[A[s]].terminal_id = s
    BY <1>3 DEF Pids
<1>5. ASSUME NEW q \in Pids, q < n, P[q].terminal_id = s PROVE q <= A[s]
    BY <1>1, <1>5 DEF Nests
<1>6. ASSUME NEW t \in Terminals \ {s}, A[t] # NoPid
      PROVE  /\ A[t] \in Pids /\ A[t] < n /\ P[A[t]].terminal_id = t
             /\ \A q \in Pids : q < n /\ P[q].terminal_id = t => q <= A[t]
    <2>1. /\ A[t] \in Pids /\ A[t] < n + 1 /\ P[A[t]].terminal_id = t
          /\ \A q \in Pids : q < n + 1 /\ P[q].terminal_id = t => q <= A[t] \/ q = gone
        BY <1>6 DEF OthersYoungest
    <2>2. A[t] # n /\ A[t] < n
        BY <1>1, <2>1
    <2>3. ASSUME NEW q \in Pids, q < n, P[q].terminal_id = t PROVE q <= A[t]
        <3>1. q < n + 1 /\ q # n /\ q # NoPid
            BY <1>1, <2>3, CpuTypes
        <3> QED BY <2>1, <2>3, <3>1
    <2> QED BY <2>1, <2>2, <2>3
<1>7. Youngest(P, n, A, NoPid)
    BY <1>4, <1>5, <1>6 DEF Youngest
<1> QED BY <1>2, <1>4, <1>7

-----------------------------------------------------------------------------
(* The steps                                                               *)

\* What the invariant says of the running program
LEMMA RunningTask ==
    ASSUME Inv
    PROVE  /\ scheduled_tid \in Terminals /\ pcb \in [Pids -> Pcb] /\ cpu \in Cpu
           /\ active \in [Terminals -> Pids \cup {NoPid}]
           /\ process_array \in [Pids -> {0, 1}]
           /\ \A t \in Terminals : active[t] = NoPid <=> Top <= t
           /\ Top < NumTerminals =>
               /\ scheduled_tid = IF Top = 0 THEN 0 ELSE Top - 1
               /\ \A t \in Terminals : t < Top => active[t] = t
           /\ cpu.pc = "boot" <=> Top = 0
           /\ cpu.pc # "lost"
           /\ cpu.pc # "boot" =>
               /\ active[scheduled_tid] \in Pids /\ active[scheduled_tid] < Top
               /\ pcb[active[scheduled_tid]].terminal_id = scheduled_tid
<1>1. TypeInv /\ BootInTurn /\ RunningMatches /\ PcbParts
    BY Parts DEF Inv, OrderlyInv
<1>2. /\ scheduled_tid \in Terminals /\ pcb \in [Pids -> Pcb] /\ cpu \in Cpu
      /\ active \in [Terminals -> Pids \cup {NoPid}]
      /\ process_array \in [Pids -> {0, 1}]
    BY <1>1 DEF TypeInv, TypeOK
<1>3. cpu.pc # "lost"
    BY <1>1 DEF RunningMatches
<1>4. /\ \A t \in Terminals : active[t] = NoPid <=> Top <= t
      /\ Top < NumTerminals =>
          /\ scheduled_tid = IF Top = 0 THEN 0 ELSE Top - 1
          /\ \A t \in Terminals : t < Top => active[t] = t
      /\ cpu.pc = "boot" <=> Top = 0
    BY <1>1 DEF BootInTurn
<1>5. ASSUME cpu.pc # "boot" PROVE active[scheduled_tid] # NoPid
    BY <1>1, <1>3, <1>5 DEF TypeInv, RunningHasTask
<1>6. ASSUME cpu.pc # "boot"
      PROVE  /\ active[scheduled_tid] \in Pids /\ active[scheduled_tid] < Top
             /\ pcb[active[scheduled_tid]].terminal_id = scheduled_tid
    BY <1>1, <1>2, <1>5, <1>6 DEF PcbParts, Youngest
<1> QED BY <1>2, <1>3, <1>4, <1>6

LEMMA OrderlyExecuteStep == ASSUME Inv, OrderlyExecute, TypeInv' PROVE Inv'
<1> DEFINE a == active[scheduled_tid]
           c == [cpu EXCEPT !.depth = 1]
           n == processes_running
<1>1. /\ AllBooted /\ cpu.pc = "user" /\ scheduled_tid' = scheduled_tid
      /\ Exec(scheduled_tid, a, process_array, n, pcb, c, cpu)
    BY DEF OrderlyExecute, Execute
<1>2. /\ scheduled_tid \in Terminals /\ pcb \in [Pids -> Pcb] /\ cpu \in Cpu
      /\ active \in [Terminals -> Pids \cup {NoPid}]
      /\ process_array \in [Pids -> {0, 1}]
      /\ a \in Pids /\ a < Top /\ pcb[a].terminal_id = scheduled_tid
    BY <1>1, RunningTask
<1>3. ~Leaving /\ Top = n /\ n \in 0 .. MaxProcess /\ Gone = NoPid
    BY <1>1, TopType DEF Leaving, Gone
<1>4. \A p \in Pids : process_array[p] = 1 <=> p < n
    BY <1>1, <1>3 DEF Inv, OrderlyInv, TableIsPrefix
<1>5. CASE n = MaxProcess
    <2>1. \A p \in Pids : process_array[p] = 1
        BY <1>4, <1>5 DEF Pids
    <2>2. /\ UNCHANGED <<pcb, cpu, process_array, processes_running, user_page, tss_esp0>>
          /\ active' = [active EXCEPT ![scheduled_tid] = a]
        BY <1>1, <1>2, <2>1, ExecFull
    <2>3. active' = active
        BY <1>2, <2>2
    <2> QED BY <1>1, <2>2, <2>3
            DEF Inv, OrderlyInv, TableIsPrefix, Top, Leaving, BootInTurn, PcbsMatch, Present,
                Nested, ActiveIsYoungest, ParentFramesIntact, SuspendedIntact,
                RunningMatches, OnOwnStack, CrashMatches
<1>6. CASE n # MaxProcess
    <2>1. n \in Pids /\ Loaded(scheduled_tid, a, process_array, n, pcb, c)
        <3>1. n \in Pids
            BY <1>3, <1>6 DEF Pids
        <3> QED BY <1>1, <1>2, <1>4, <3>1, ExecLoads
    <2>2. PcbParts
        BY Parts
    <2>3. c \in Cpu /\ c.depth = 1 /\ c.stk = a
        <3>1. cpu = User(a)
            BY <1>1 DEF Inv, OrderlyInv, RunningMatches
        <3>2. cpu.stk = a
            BY <3>1 DEF User, At
        <3> QED BY <1>2, <3>2 DEF Cpu
    <2> HIDE DEF c
    <2>4. n >= NumTerminals /\ \A t \in Terminals : active[t] # NoPid /\ ~(n <= t)
        <3>1. NumTerminals - 1 \in Terminals
            BY DEF Terminals
        <3>2. \A t \in Terminals : active[t] # NoPid
            BY <1>1 DEF AllBooted
        <3>3. \A t \in Terminals : ~(n <= t)
            BY <1>3, <3>2, RunningTask
        <3> QED BY <1>3, <3>1, <3>2, <3>3
    <2>5. \A t \in Terminals : YoungestOf(pcb, n, active[t], t)
        <3> SUFFICES ASSUME NEW t \in Terminals PROVE YoungestOf(pcb, n, active[t], t)
            OBVIOUS
        <3>1. active[t] # NoPid /\ Youngest(pcb, n, active, NoPid)
            BY <1>3, <2>2, <2>4 DEF PcbParts
        <3>2. /\ active[t] \in Pids /\ active[t] < n /\ pcb[active[t]].terminal_id = t
              /\ \A q \in Pids : q < n /\ pcb[q].terminal_id = t => q <= active[t] \/ q = NoPid
            BY <3>1 DEF Youngest
        <3> QED BY <3>2, CpuTypes DEF YoungestOf
    <2>6. a \in 0 .. n - 1
        BY <1>2, <1>3 DEF Pids
    <2>7. Loadable(pcb, n, active, scheduled_tid, a, c)
        BY <1>2, <1>3, <2>2, <2>3, <2>4, <2>5, <2>6 DEF Loadable, PcbParts
    <2> HIDE DEF a, n
    <2> QED BY <1>1, <1>2, <1>4, <2>1, <2>3, <2>7, LoadKeeps
<1> QED BY <1>5, <1>6

LEMMA EnterUserOrderly == ASSUME Inv, EnterUser, TypeInv' PROVE Inv'
<1> DEFINE a == active[scheduled_tid]
           n == processes_running
<1>1. /\ cpu.pc = "start" /\ tss_esp0 = a /\ user_page = a
      /\ cpu' = User(a) /\ pcb' = Unprotect(pcb, User(a))
      /\ UNCHANGED <<scheduled_tid, active, process_array, processes_running, tss_esp0, user_page>>
    BY DEF EnterUser, Inv, OrderlyInv, RunningMatches
<1>2. /\ scheduled_tid \in Terminals /\ pcb \in [Pids -> Pcb]
      /\ a \in Pids /\ a < Top
      /\ \A t \in Terminals : active[t] = NoPid <=> Top <= t
      /\ Top < NumTerminals =>
               /\ scheduled_tid = IF Top = 0 THEN 0 ELSE Top - 1
               /\ \A t \in Terminals : t < Top => active[t] = t
      /\ Top # 0
    BY <1>1, RunningTask
<1>3. Top = n /\ n \in 1 .. MaxProcess /\ Gone = NoPid
    BY <1>1, <1>2, TopType DEF Leaving, Gone
<1>4. \A p \in Pids : process_array[p] = 1 <=> p < n
    BY <1>1, <1>3 DEF Inv, OrderlyInv, TableIsPrefix
<1>5. PcbParts
    BY Parts
<1>6. /\ Named(pcb, n) /\ Nests(pcb, n) /\ Framed(pcb, n)
      /\ Youngest(pcb, n, active', NoPid) /\ Suspended(pcb, active', scheduled_tid)
    BY <1>1, <1>3, <1>5 DEF PcbParts
<1>7. User(a) \in Cpu /\ a # NoPid
    BY <1>2, CpuTypes
<1>8. n < NumTerminals =>
        scheduled_tid = n - 1 /\ \A t \in Terminals : t < n => active'[t] = t
    BY <1>1, <1>2, <1>3
<1>9. \A t \in Terminals : active'[t] = NoPid <=> n <= t
    BY <1>1, <1>2, <1>3
<1>10. scheduled_tid' = scheduled_tid /\ active'[scheduled_tid] = a
       /\ tss_esp0' = a /\ user_page' = a /\ processes_running' = n
       /\ \A p \in Pids : process_array'[p] = 1 <=> p < n
    BY <1>1, <1>4
<1> HIDE DEF a, n
<1> QED BY <1>1, <1>2, <1>3, <1>6, <1>7, <1>8, <1>9, <1>10, GoOnKeeps

\* A program that can be preempted under the discipline is saved in a way that
\* it can be resumed.
LEMMA SavedParts ==
    ASSUME Inv, cpu.pc \in {"user", "start"}, cpu.pc = "start" => OnOwnStack
    PROVE  /\ Saved \in [Pids -> Pcb]
           /\ Named(Saved, Top) /\ Nests(Saved, Top) /\ Framed(Saved, Top)
           /\ Youngest(Saved, Top, active, NoPid)
           /\ \A t \in Terminals : active[t] # NoPid => Resumable(Saved, active[t])
           /\ \/ cpu.stk = active[scheduled_tid]
              \/ cpu.stk = pcb[active[scheduled_tid]].parent_pid
<1> DEFINE a == active[scheduled_tid]
<1>1. PcbParts /\ RunningMatches /\ TypeOK /\ Top \in 0 .. MaxProcess /\ Gone = NoPid
    BY Parts, TopType DEF Inv, OrderlyInv, TypeInv, Gone
<1>2. a \in Pids /\ scheduled_tid \in Terminals /\ pcb \in [Pids -> Pcb] /\ cpu \in Cpu
    BY RunningTask
<1>3. SameNames(pcb, Saved)
    BY <1>1, <1>2, SavedFields DEF SameNames
<1>4. Named(Saved, Top) /\ Nests(Saved, Top) /\ Youngest(Saved, Top, active, NoPid)
    BY <1>1, <1>3, SameNamesKeep DEF PcbParts
<1>5. \A p \in Pids : Saved[p].parent_esp = pcb[p].parent_esp
    BY <1>1, <1>2, SavedFields
<1>6. Framed(Saved, Top)
    BY <1>1, <1>3, <1>5 DEF PcbParts, Framed, SameNames
<1>7. \/ cpu = User(a)
      \/ cpu = At("start", a, 1)
      \/ cpu = At("start", pcb[a].parent_pid, 1)
    <2>1. CASE cpu.pc = "user"
        BY <1>1, <2>1 DEF RunningMatches
    <2>2. CASE cpu.pc = "start"
        <3>1. cpu.depth = 1 /\ cpu.cur_pcb = 0 /\ cpu.count = 0
              /\ (cpu.stk = a \/ cpu.stk = pcb[a].parent_pid)
            BY <1>1, <2>2 DEF RunningMatches, OnOwnStack
        <3>2. cpu = At("start", cpu.stk, 1)
            BY <1>2, <2>2, <3>1 DEF Cpu, At
        <3> QED BY <3>1, <3>2
    <2> QED BY <2>1, <2>2
<1>8. Resumable(Saved, a)
    <2>1. /\ Saved[a].sched = [cpu |-> cpu, intact |-> TRUE]
          /\ Saved[a].schedule_esp0 = tss_esp0
          /\ Saved[a].parent_pid = pcb[a].parent_pid
        BY <1>1, <1>2, SavedFields
    <2>2. tss_esp0 = a
        BY <1>1 DEF RunningMatches
    <2> QED BY <1>7, <2>1, <2>2 DEF Resumable
<1>9. ASSUME NEW t \in Terminals, active[t] # NoPid PROVE Resumable(Saved, active[t])
    <2>1. CASE t = scheduled_tid
        BY <1>8, <2>1
    <2>2. CASE t # scheduled_tid
        <3>1. Resumable(pcb, active[t])
            BY <1>1, <1>9, <2>2 DEF PcbParts, Suspended
        <3>2. active[t] \in Pids /\ active[t] # a
            <4>1. active[t] \in Pids /\ pcb[active[t]].terminal_id = t
                BY <1>1, <1>9 DEF PcbParts, Youngest
            <4>2. pcb[a].terminal_id = scheduled_tid
                BY RunningTask
            <4> QED BY <2>2, <4>1, <4>2
        <3>3. Saved[active[t]] = pcb[active[t]]
            BY <1>1, <1>2, <3>2, SavedFields
        <3> QED BY <3>1, <3>3 DEF Resumable
    <2> QED BY <2>1, <2>2
<1>10. cpu.stk = a \/ cpu.stk = pcb[a].parent_pid
    BY <1>7 DEF User, At
<1> QED BY <1>1, <1>2, <1>4, <1>6, <1>9, <1>10, SavedType

LEMMA BootTick == ASSUME Inv, Tick, cpu.pc = "boot", TypeInv' PROVE Inv'
<1> DEFINE c == [cpu EXCEPT !.depth = @ + 1]
<1>1. /\ scheduled_tid \in Terminals /\ pcb \in [Pids -> Pcb] /\ cpu \in Cpu
      /\ active \in [Terminals -> Pids \cup {NoPid}]
      /\ process_array \in [Pids -> {0, 1}]
      /\ \A t \in Terminals : active[t] = NoPid <=> Top <= t
      /\ Top = 0
      /\ scheduled_tid = 0
    BY RunningTask
<1>2. ~Leaving /\ processes_running = 0 /\ 0 \in 0 .. MaxProcess /\ 0 \in Pids
    BY <1>1, TopType, CpuTypes DEF Leaving
<1>3. \A t \in Terminals : active[t] = NoPid
    BY <1>1 DEF Terminals
<1>4. Exec(0, NoPid, process_array, 0, pcb, c, cpu) /\ scheduled_tid' = 0
    BY <1>1, <1>2, <1>3 DEF Tick, Spawn
<1>5. \A p \in Pids : process_array[p] = 1 <=> p < 0
    BY <1>2 DEF Inv, OrderlyInv, TableIsPrefix
<1>6. c \in Cpu /\ c.stk = 0 /\ c.depth = 1
    <2>1. cpu = At("boot", 0, 0)
        BY DEF Inv, OrderlyInv, RunningMatches
    <2>2. cpu.stk = 0 /\ cpu.depth = 0
        BY <2>1 DEF At
    <2> QED BY <1>1, <2>2 DEF Cpu
<1> HIDE DEF c
<1>7. Loaded(0, NoPid, process_array, 0, pcb, c)
    BY <1>1, <1>2, <1>4, <1>5, ExecLoads
<1>8. PcbParts
    BY Parts
<1>9. Loadable(pcb, 0, active, 0, NoPid, c)
    <2>1. Named(pcb, 0) /\ Nests(pcb, 0) /\ Framed(pcb, 0) /\ Suspended(pcb, active, 0)
        BY <1>1, <1>8 DEF PcbParts
    <2> QED BY <1>1, <1>3, <1>6, <2>1 DEF Loadable, Terminals
<1> QED BY <1>1, <1>2, <1>4, <1>5, <1>6, <1>7, <1>9, LoadKeeps

LEMMA OrderlyTickStep == ASSUME Inv, OrderlyTick, TypeInv' PROVE Inv'
<1> DEFINE a == active[scheduled_tid]
           n == processes_running
<1>1. CASE cpu.pc = "boot"
    BY <1>1, BootTick DEF OrderlyTick
<1>2. CASE cpu.pc # "boot"
    <2>1. cpu.pc \in {"user", "start"} /\ (cpu.pc = "start" => OnOwnStack) /\ Tick
        BY <1>2, RunningTask DEF OrderlyTick, Cpu, Places
    <2>2. /\ scheduled_tid \in Terminals /\ pcb \in [Pids -> Pcb] /\ cpu \in Cpu
          /\ active \in [Terminals -> Pids \cup {NoPid}]
          /\ process_array \in [Pids -> {0, 1}]
          /\ \A t \in Terminals : active[t] = NoPid <=> Top <= t
          /\ Top < NumTerminals =>
              /\ scheduled_tid = IF Top = 0 THEN 0 ELSE Top - 1
              /\ \A t \in Terminals : t < Top => active[t] = t
          /\ Top # 0 /\ a \in Pids
        BY <1>2, RunningTask
    <2>3. ~Leaving /\ Top = n /\ n \in 1 .. MaxProcess
        BY <2>1, <2>2, TopType DEF Leaving
    <2>4. \A p \in Pids : process_array[p] = 1 <=> p < n
        BY <2>1, <2>3 DEF Inv, OrderlyInv, TableIsPrefix
    <2>5. /\ Saved \in [Pids -> Pcb]
          /\ Named(Saved, n) /\ Nests(Saved, n) /\ Framed(Saved, n)
          /\ Youngest(Saved, n, active, NoPid)
          /\ \A t \in Terminals : active[t] # NoPid => Resumable(Saved, active[t])
          /\ cpu.stk = a \/ cpu.stk = pcb[a].parent_pid
        BY <2>1, <2>3, SavedParts
    <2>6. Target \in Terminals /\ scheduled_tid' = Target /\ a # NoPid
        BY <2>1, <2>2, TargetType, CpuTypes DEF Tick, Inv, TypeInv
    <2>7. n < NumTerminals => Target = n /\ scheduled_tid = n - 1
        BY <2>2, <2>3 DEF Target
    <2>8. \A t \in Terminals : active[t] = NoPid <=> n <= t
        BY <2>2, <2>3
    <2>9. n < NumTerminals => \A t \in Terminals : t < n => active[t] = t
        BY <2>2, <2>3
    <2>10. CASE active[Target] = NoPid
        <3> DEFINE c == [cpu EXCEPT !.depth = @ + 1]
        <3>1. n < NumTerminals /\ n \in Pids
            BY <2>3, <2>6, <2>8, <2>10 DEF Terminals, Pids
        <3>2. Target = n /\ a = n - 1
            BY <2>2, <2>3, <2>7, <2>9, <3>1
        <3>3. Exec(Target, NoPid, process_array, n, Saved, c, Lost)
            BY <2>1, <2>6, <2>10 DEF Tick, Spawn
        <3>4. c \in Cpu /\ c.stk = n - 1
            <4>1. cpu.stk = n - 1
                <5>1. PcbParts /\ a < Top
                    BY <1>2, Parts, RunningTask
                <5>2. pcb[a].parent_pid = NoPid
                    BY <2>2, <2>3, <3>1, <3>2, <5>1 DEF PcbParts, Named
                <5>3. cpu.stk # NoPid
                    BY <2>2, CpuTypes DEF Cpu
                <5> QED BY <2>5, <3>2, <5>2, <5>3
            <4> QED BY <2>2, <4>1 DEF Cpu
        <3> HIDE DEF c
        <3>5. n # MaxProcess /\ n \in 0 .. MaxProcess
            BY <3>1 DEF Pids
        <3>6. Loaded(Target, NoPid, process_array, n, Saved, c)
            BY <2>2, <2>4, <2>6, <3>1, <3>3, ExecLoads
        <3>7. \A u \in Terminals : active[u] # NoPid => YoungestOf(Saved, n, active[u], u)
            BY <2>5, CpuTypes DEF Youngest, YoungestOf
        <3>8. Loadable(Saved, n, active, Target, NoPid, c)
            BY <2>3, <2>5, <2>8, <2>9, <3>1, <3>2, <3>4, <3>7 DEF Loadable, Suspended
        <3> QED BY <2>2, <2>4, <2>5, <2>6, <3>1, <3>4, <3>6, <3>8, LoadKeeps
    <2>11. CASE active[Target] # NoPid
        <3> DEFINE p == active[Target]
        <3>1. Resume(p, Saved) /\ p \in Pids /\ Resumable(Saved, p)
            BY <2>1, <2>2, <2>5, <2>6, <2>11, CpuTypes DEF Tick
        <3>2. PICK c : c = Saved[p].sched.cpu
            OBVIOUS
        <3>3. c \in Cpu
            BY <2>5, <3>1, <3>2 DEF Pcb, Context
        <3>4. /\ cpu' = c /\ pcb' = Unprotect(Saved, c)
              /\ tss_esp0' = p /\ user_page' = p
              /\ UNCHANGED <<active, process_array, processes_running>>
            BY <3>1, <3>2 DEF Resume, Resumable
        <3>5. c = User(p) \/ c = At("start", p, 1) \/ c = At("start", Saved[p].parent_pid, 1)
            BY <3>1, <3>2 DEF Resumable
        <3>6. ~(n < NumTerminals)
            BY <2>3, <2>6, <2>7, <2>8, <2>11
        <3>7. Suspended(Saved, active', Target) /\ Youngest(Saved, n, active', NoPid)
            BY <2>5, <3>4 DEF Suspended
        <3>8. /\ active'[Target] = p /\ p # NoPid /\ processes_running' = n
              /\ \A q \in Pids : process_array'[q] = 1 <=> q < n
              /\ \A t \in Terminals : active'[t] = NoPid <=> n <= t
            BY <2>4, <2>8, <2>11, <3>4
        <3> HIDE DEF p, n
        <3> QED BY <2>3, <2>5, <2>6, <3>3, <3>4, <3>5, <3>6, <3>7, <3>8, GoOnKeeps
    <2> QED BY <2>10, <2>11
<1> QED BY <1>1, <1>2

-----------------------------------------------------------------------------
(* The newest program ends: process n of the n + 1 in use                  *)

\* The slot of a base shell is taken again at once.
LEMMA RespawnKeeps ==
    ASSUME Inv, NEW n \in Pids, Top = n + 1, cpu.pc # "jump",
           active[scheduled_tid] = n, pcb[n].parent_pid = NoPid,
           NEW table \in [Pids -> {0, 1}], \A p \in Pids : table[p] = 1 <=> p < n,
           NEW c \in Cpu, c.stk = n, c.depth = 1,
           Exec(scheduled_tid, NoPid, table, n, pcb, c, Lost),
           scheduled_tid' = scheduled_tid, TypeInv'
    PROVE  Inv'
<1>1. PcbParts /\ Gone = NoPid /\ n \in Int
    BY Parts DEF Gone, Pids
<1>2. /\ scheduled_tid \in Terminals /\ pcb \in [Pids -> Pcb]
      /\ active \in [Terminals -> Pids \cup {NoPid}]
      /\ \A t \in Terminals : active[t] = NoPid <=> Top <= t
      /\ Top < NumTerminals => \A t \in Terminals : t < Top => active[t] = t
    BY RunningTask
<1>3. n < NumTerminals /\ pcb[n].terminal_id = n
    <2>1. n < Top /\ Named(pcb, Top)
        BY <1>1 DEF PcbParts
    <2>2. n >= NumTerminals => pcb[n].parent_pid \in 0 .. n - 1
        BY <2>1 DEF Named
    <2>3. n < NumTerminals
        BY <1>1, <2>2, TopType
    <2> QED BY <2>1, <2>3 DEF Named
<1>4. scheduled_tid = n
    BY <1>1, <1>2, <1>3, CpuTypes DEF PcbParts, Youngest
<1>5. Named(pcb, n) /\ Nests(pcb, n) /\ Framed(pcb, n)
    <2>1. \A p \in Pids : p < n => p < Top
        BY <1>1 DEF Pids
    <2> QED BY <1>1, <2>1 DEF PcbParts, Named, Nests, Framed
<1>6. ASSUME NEW u \in Terminals, u # scheduled_tid, active[u] # NoPid
      PROVE  YoungestOf(pcb, n, active[u], u)
    <2>1. /\ active[u] \in Pids /\ active[u] < Top /\ pcb[active[u]].terminal_id = u
          /\ \A q \in Pids : q < Top /\ pcb[q].terminal_id = u => q <= active[u] \/ q = NoPid
        BY <1>1, <1>6 DEF PcbParts, Youngest
    <2>2. active[u] # n /\ active[u] < n
        BY <1>1, <1>3, <1>4, <1>6, <2>1 DEF Pids
    <2>3. \A q \in Pids : q < n => q < Top /\ q # NoPid
        BY <1>1, CpuTypes DEF Pids
    <2> QED BY <2>1, <2>2, <2>3 DEF YoungestOf
<1>7. \A u \in Terminals \ {scheduled_tid} : active[u] = NoPid <=> n <= u
    BY <1>1, <1>2, <1>4 DEF Terminals
<1>8. n + 1 < NumTerminals => \A u \in Terminals : u < n => active[u] = u
    BY <1>1, <1>2 DEF Terminals
<1>9. Loadable(pcb, n, active, scheduled_tid, NoPid, c)
    BY <1>1, <1>3, <1>4, <1>5, <1>6, <1>7, <1>8 DEF Loadable, PcbParts
<1>10. Loaded(scheduled_tid, NoPid, table, n, pcb, c)
    BY <1>2, ExecLoads
<1> QED BY <1>2, <1>9, <1>10, LoadKeeps

\* A program that another one started returns to it.
LEMMA ReturnKeeps ==
    ASSUME Inv, NEW n \in Pids, Top = n + 1, Gone \in {NoPid, n},
           pcb[n].terminal_id = scheduled_tid,
           NEW parent, parent = pcb[n].parent_pid, parent # NoPid,
           active' = [active EXCEPT ![scheduled_tid] = parent],
           processes_running' = n, \A p \in Pids : process_array'[p] = 1 <=> p < n,
           tss_esp0' = parent, user_page' = parent,
           ReturnTo(pcb[n].parent_esp), scheduled_tid' = scheduled_tid, TypeInv'
    PROVE  Inv'
<1> DEFINE s == scheduled_tid
<1>1. PcbParts /\ n \in Int
    BY Parts DEF Pids
<1>2. /\ s \in Terminals /\ pcb \in [Pids -> Pcb]
      /\ active \in [Terminals -> Pids \cup {NoPid}]
      /\ \A t \in Terminals : active[t] = NoPid <=> Top <= t
    BY RunningTask
<1>3. n >= NumTerminals /\ n < Top
    BY <1>1, CpuTypes DEF PcbParts, Named
<1>4. pcb[n].parent_esp = [stk |-> parent, depth |-> 1, intact |-> TRUE]
    BY <1>1, <1>3 DEF PcbParts, Framed
<1>5. cpu' = User(parent) /\ pcb' = Unprotect(pcb, User(parent))
    BY <1>4 DEF ReturnTo
<1>6. active'[s] = parent /\ \A t \in Terminals : t # s => active'[t] = active[t]
    BY <1>2
<1>7. /\ Named(pcb, n) /\ Nests(pcb, n) /\ Framed(pcb, n)
      /\ Youngest(pcb, n, active', NoPid)
      /\ active'[s] \in Pids
    <2>1. Named(pcb, n + 1) /\ Nests(pcb, n + 1) /\ Framed(pcb, n + 1)
        BY <1>1 DEF PcbParts
    <2>2. OthersYoungest(pcb, n, active', s, Gone)
        BY <1>1, <1>6 DEF PcbParts, Youngest, OthersYoungest
    <2>3. active'[s] = pcb[n].parent_pid
        BY <1>6
    <2>4. s \in Terminals /\ pcb[n].terminal_id = s /\ Gone \in {NoPid, n}
        BY <1>2
    <2>5. n \in Pids /\ n >= NumTerminals
        BY <1>3
    <2>6. pcb \in [Pids -> Pcb]
        BY <1>2
    <2> HIDE DEF s
    <2> QED BY ONLY <2>1, <2>2, <2>3, <2>4, <2>5, <2>6, Shrink
<1>8. Suspended(pcb, active', s)
    BY <1>1, <1>6 DEF PcbParts, Suspended
<1>9. User(parent) \in Cpu /\ n \in 1 .. MaxProcess
    BY <1>1, <1>3, <1>6, <1>7, CpuTypes DEF Pids
<1>10. \A t \in Terminals : active'[t] = NoPid <=> n <= t
    <2>1. \A t \in Terminals : ~(n <= t) /\ ~(Top <= t)
        BY <1>1, <1>3 DEF Terminals
    <2> QED BY <1>2, <1>6, <2>1
<1>11. ~(n < NumTerminals)
    BY <1>1, <1>3
<1> HIDE DEF s
<1> QED BY <1>2, <1>5, <1>6, <1>7, <1>8, <1>9, <1>10, <1>11, GoOnKeeps DEF s

LEMMA OrderlyHaltStep == ASSUME Inv, OrderlyHalt, TypeInv' PROVE Inv'
<1> DEFINE n == active[scheduled_tid]
<1>1. cpu.pc = "user" /\ n = processes_running - 1 /\ Halt /\ scheduled_tid' = scheduled_tid
    BY DEF OrderlyHalt, Newest, Halt
<1>2. /\ n \in Pids /\ Top = n + 1 /\ pcb[n].terminal_id = scheduled_tid
      /\ cpu \in Cpu /\ process_array \in [Pids -> {0, 1}]
    BY <1>1, TopType, RunningTask DEF Leaving
<1>3. cpu = User(n) /\ Gone = NoPid /\ PcbParts /\ n < Top /\ n \in Int
    BY <1>1, <1>2, Parts, TopType DEF Inv, OrderlyInv, RunningMatches, Gone
<1>4. Freed(n) = [process_array EXCEPT ![n] = 0]
    BY <1>2, <1>3 DEF Freed, PcbParts, Named
<1>5. Freed(n) \in [Pids -> {0, 1}] /\ \A p \in Pids : Freed(n)[p] = 1 <=> p < n
    <2>1. \A p \in Pids : process_array[p] = 1 <=> p < n + 1
        BY <1>1, <1>2 DEF Inv, OrderlyInv, TableIsPrefix, Leaving, Top
    <2> QED BY <1>2, <1>4, <2>1 DEF Pids
<1>6. Decrement(processes_running) = n
    BY <1>1, <1>2, TopType DEF Decrement, Pids
<1>7. CASE pcb[n].parent_pid = NoPid
    <2>1. Exec(scheduled_tid, NoPid, Freed(n), n, pcb, [cpu EXCEPT !.depth = 1], Lost)
        BY <1>1, <1>6, <1>7 DEF Halt
    <2>2. PICK c : c = [cpu EXCEPT !.depth = 1]
        OBVIOUS
    <2>3. c \in Cpu /\ c.stk = n /\ c.depth = 1
        BY <1>2, <1>3, <2>2 DEF Cpu, User, At
    <2>4. PICK table : table = Freed(n)
        OBVIOUS
    <2> HIDE DEF n
    <2> QED BY <1>1, <1>2, <1>5, <1>7, <2>1, <2>2, <2>3, <2>4, RespawnKeeps DEF n
<1>8. CASE pcb[n].parent_pid # NoPid
    <2>1. /\ active' = [active EXCEPT ![scheduled_tid] = pcb[n].parent_pid]
          /\ process_array' = Freed(n) /\ processes_running' = n
          /\ tss_esp0' = pcb[n].parent_pid /\ user_page' = pcb[n].parent_pid
          /\ ReturnTo(pcb[n].parent_esp)
        BY <1>1, <1>6, <1>8 DEF Halt
    <2>2. \A p \in Pids : process_array'[p] = 1 <=> p < n
        BY <1>5, <2>1
    <2> HIDE DEF n
    <2> QED BY <1>1, <1>2, <1>3, <1>8, <2>1, <2>2, ReturnKeeps
<1> QED BY <1>7, <1>8

\* A step of a crashing program's halt() that leaves the PCBs and what the
\* terminals run alone
LEMMA QuietStep ==
    ASSUME Inv, cpu.pc \notin {"boot", "jump"}, cpu'.pc \in HaltSteps \ {"jump"},
           UNCHANGED <<scheduled_tid, active, pcb>>, Top' = Top,
           TableIsPrefix', CrashMatches', TypeInv'
    PROVE  Inv'
<1>1. cpu'.pc \notin {"boot", "user", "start", "lost", "jump"}
    BY DEF HaltSteps
<1>2. PcbParts'
    BY <1>1, Parts DEF PcbParts, Gone, Named, Nests, Framed, Youngest, Suspended, Resumable
<1>3. BootInTurn'
    BY <1>1 DEF Inv, OrderlyInv, BootInTurn
<1>4. RunningMatches'
    BY <1>1 DEF RunningMatches
<1> QED BY <1>2, <1>3, <1>4, Whole, PTL

\* What the invariant says of a program whose halt() has taken it off the
\* counter
LEMMA LeavingTask ==
    ASSUME Inv, Leaving
    PROVE  LET n == cpu.cur_pcb
           IN  /\ n = processes_running /\ n \in Pids /\ Top = n + 1
               /\ cpu \in Cpu /\ cpu.stk = n /\ cpu.depth = 1
               /\ cpu.pc # "boot" /\ cpu.pc # "jump" => active[scheduled_tid] = n
               /\ pcb[n].terminal_id = scheduled_tid
               /\ pcb[n].curr_pid = n
<1> DEFINE n == cpu.cur_pcb
<1>1. CrashMatches /\ PcbParts /\ cpu.pc \in HaltSteps /\ cpu.pc # "boot"
    BY Parts DEF Inv, OrderlyInv, Leaving, HaltSteps
<1>2. n = processes_running /\ cpu.stk = n /\ cpu.depth = 1
    BY <1>1 DEF CrashMatches
<1>3. cpu \in Cpu /\ n \in Pids
    BY RunningTask DEF Cpu
<1>4. Top = n + 1 /\ n < Top
    BY <1>2, <1>3 DEF Top, Pids
<1>5. cpu.pc # "jump" => active[scheduled_tid] = n
    BY <1>1 DEF CrashMatches, Leaving
<1>6. pcb[n].curr_pid = n
    BY <1>1, <1>3, <1>4 DEF PcbParts, Named
<1>7. pcb[n].terminal_id = scheduled_tid
    <2>1. CASE cpu.pc # "jump"
        BY <1>1, <1>5, <2>1, RunningTask
    <2>2. CASE cpu.pc = "jump"
        <3>1. /\ active[scheduled_tid] = pcb[n].parent_pid
              /\ pcb[n].parent_pid # NoPid
            BY <1>1, <2>2 DEF CrashMatches
        <3>2. Named(pcb, Top)
            BY <1>1 DEF PcbParts
        <3>3. n >= NumTerminals
            BY <1>3, <1>4, <3>1, <3>2 DEF Named, Pids
        <3>4. pcb[pcb[n].parent_pid].terminal_id = pcb[n].terminal_id
            BY <1>3, <1>4, <3>2, <3>3 DEF Named
        <3> QED BY <1>1, <3>1, <3>4, RunningTask
    <2> QED BY <2>1, <2>2
<1> QED BY <1>1, <1>2, <1>3, <1>4, <1>5, <1>6, <1>7

LEMMA CrashBegins == ASSUME Inv, OrderlyCrash, TypeInv' PROVE Inv'
<1> DEFINE a == active[scheduled_tid]
<1>1. /\ cpu.pc = "user" /\ a = processes_running - 1 /\ cpu' = At("load", cpu.stk, 1)
      /\ UNCHANGED <<scheduled_tid, active, process_array, processes_running, pcb>>
    BY DEF OrderlyCrash, Newest, Crash
<1>2. cpu'.pc = "load" /\ cpu'.stk = a /\ cpu'.depth = 1
    BY <1>1 DEF Inv, OrderlyInv, RunningMatches, User, At
<1>3. ~Leaving /\ ~Leaving' /\ Top' = Top
    BY <1>1, <1>2 DEF Leaving, Top
<1>4. TableIsPrefix'
    BY <1>1, <1>2, <1>3 DEF Inv, OrderlyInv, TableIsPrefix
<1>5. CrashMatches'
    BY <1>1, <1>2, <1>3 DEF CrashMatches, Leaving
<1> QED BY <1>1, <1>2, <1>3, <1>4, <1>5, QuietStep DEF HaltSteps

LEMMA CrashLoads == ASSUME Inv, CrashLoad, TypeInv' PROVE Inv'
<1>1. /\ cpu.pc = "load"
      /\ cpu' = [cpu EXCEPT !.pc = "store", !.cur_pcb = active[scheduled_tid],
                            !.count = processes_running]
      /\ UNCHANGED <<scheduled_tid, active, process_array, processes_running, pcb>>
    BY DEF CrashLoad
<1>2. /\ cpu'.pc = "store" /\ cpu'.stk = cpu.stk /\ cpu'.depth = cpu.depth
      /\ cpu'.cur_pcb = active[scheduled_tid] /\ cpu'.count = processes_running
    BY <1>1, RunningTask DEF Cpu
<1>3. ~Leaving /\ ~Leaving' /\ Top' = Top
    BY <1>1, <1>2 DEF Leaving, Top
<1>4. TableIsPrefix'
    BY <1>1, <1>2, <1>3 DEF Inv, OrderlyInv, TableIsPrefix
<1>5. CrashMatches'
    BY <1>1, <1>2, <1>3 DEF Inv, OrderlyInv, CrashMatches, Leaving, HaltSteps
<1> QED BY <1>1, <1>2, <1>3, <1>4, <1>5, QuietStep DEF HaltSteps

LEMMA CrashStores == ASSUME Inv, CrashStore, TypeInv' PROVE Inv'
<1> DEFINE a == active[scheduled_tid]
<1>1. /\ cpu.pc = "store" /\ processes_running' = Decrement(cpu.count)
      /\ cpu' = [cpu EXCEPT !.pc = "free"]
      /\ UNCHANGED <<scheduled_tid, active, process_array, pcb>>
    BY DEF CrashStore, Goto
<1>2. /\ cpu.depth = 1 /\ a = processes_running - 1 /\ cpu.stk = a /\ cpu.cur_pcb = a
      /\ cpu.count = processes_running
    BY <1>1 DEF Inv, OrderlyInv, CrashMatches, HaltSteps
<1>3. /\ cpu'.pc = "free" /\ cpu'.stk = cpu.stk /\ cpu'.depth = cpu.depth
      /\ cpu'.cur_pcb = cpu.cur_pcb
    BY <1>1, RunningTask DEF Cpu
<1>4. ~Leaving /\ Leaving' /\ processes_running \in Nat /\ a \in Int /\ a >= 0
    <2>1. a \in Pids
        BY <1>1, RunningTask
    <2> QED BY <1>1, <1>3, <2>1, TopType DEF Leaving, Pids
<1>5. processes_running' = a
    BY <1>1, <1>2, <1>4 DEF Decrement
<1>6. Top' = Top /\ Top = a + 1
    BY <1>2, <1>4, <1>5 DEF Top
<1>7. TableIsPrefix'
    BY <1>1, <1>3, <1>4, <1>6 DEF Inv, OrderlyInv, TableIsPrefix, Leaving, Top
<1>8. CrashMatches'
    BY <1>1, <1>2, <1>3, <1>5 DEF CrashMatches
<1> QED BY <1>1, <1>3, <1>6, <1>7, <1>8, QuietStep DEF HaltSteps

LEMMA CrashFrees == ASSUME Inv, CrashFree, TypeInv' PROVE Inv'
<1> DEFINE n == cpu.cur_pcb
<1>1. /\ cpu.pc = "free" /\ process_array' = Freed(n) /\ cpu' = [cpu EXCEPT !.pc = "branch"]
      /\ UNCHANGED <<scheduled_tid, active, processes_running, pcb>>
    BY DEF CrashFree, Goto
<1>2. Leaving
    BY <1>1 DEF Leaving
<1>3. /\ n = processes_running /\ n \in Pids /\ Top = n + 1 /\ cpu \in Cpu
      /\ cpu.stk = n /\ cpu.depth = 1 /\ active[scheduled_tid] = n /\ pcb[n].curr_pid = n
    BY <1>1, <1>2, LeavingTask
<1>4. /\ cpu'.pc = "branch" /\ cpu'.stk = cpu.stk /\ cpu'.depth = cpu.depth
      /\ cpu'.cur_pcb = n
    BY <1>1, <1>3 DEF Cpu
<1>5. Leaving' /\ Top' = Top
    BY <1>1, <1>2, <1>4 DEF Leaving, Top
<1>6. \A p \in Pids : process_array'[p] = 1 <=> p < n
    <2>1. process_array' = [process_array EXCEPT ![n] = 0]
        BY <1>1, <1>3 DEF Freed
    <2>2. \A p \in Pids : process_array[p] = 1 <=> p < n + 1
        BY <1>1, <1>3 DEF Inv, OrderlyInv, TableIsPrefix
    <2> QED BY <1>3, <2>1, <2>2, RunningTask DEF Pids
<1>7. TableIsPrefix'
    BY <1>1, <1>3, <1>4, <1>5, <1>6 DEF Inv, OrderlyInv, TableIsPrefix
<1>8. CrashMatches'
    BY <1>1, <1>3, <1>4 DEF CrashMatches
<1> QED BY <1>1, <1>4, <1>5, <1>7, <1>8, QuietStep DEF HaltSteps

LEMMA CrashBranches == ASSUME Inv, CrashBranch, TypeInv' PROVE Inv'
<1> DEFINE n == cpu.cur_pcb
<1>1. cpu.pc = "branch" /\ Leaving /\ scheduled_tid' = scheduled_tid
    BY DEF CrashBranch, Leaving
<1>2. /\ n = processes_running /\ n \in Pids /\ Top = n + 1 /\ cpu \in Cpu
      /\ cpu.stk = n /\ cpu.depth = 1 /\ active[scheduled_tid] = n
    BY <1>1, LeavingTask
<1>3. \A p \in Pids : process_array[p] = 1 <=> p < n
    BY <1>1, <1>2 DEF Inv, OrderlyInv, TableIsPrefix
<1>4. CASE pcb[n].parent_pid = NoPid
    <2>1. Exec(scheduled_tid, NoPid, process_array, n, pcb, cpu, Lost)
        BY <1>2, <1>4 DEF CrashBranch, Parent
    <2>2. process_array \in [Pids -> {0, 1}]
        BY RunningTask
    <2> HIDE DEF n
    <2> QED BY <1>1, <1>2, <1>3, <1>4, <2>1, <2>2, RespawnKeeps
<1>5. CASE pcb[n].parent_pid # NoPid
    <2>1. /\ cpu' = [cpu EXCEPT !.pc = "tss"]
          /\ UNCHANGED <<scheduled_tid, active, process_array, processes_running, pcb>>
        BY <1>1, <1>5 DEF CrashBranch, Goto, Parent
    <2>2. /\ cpu'.pc = "tss" /\ cpu'.stk = cpu.stk /\ cpu'.depth = cpu.depth
          /\ cpu'.cur_pcb = n
        BY <1>2, <2>1 DEF Cpu
    <2>3. Leaving' /\ Top' = Top
        BY <1>1, <2>1, <2>2 DEF Leaving, Top
    <2>4. TableIsPrefix'
        BY <1>1, <2>1, <2>2, <2>3 DEF Inv, OrderlyInv, TableIsPrefix
    <2>5. CrashMatches'
        BY <1>2, <1>5, <2>1, <2>2 DEF CrashMatches
    <2> QED BY <1>1, <2>1, <2>2, <2>3, <2>4, <2>5, QuietStep DEF HaltSteps
<1> QED BY <1>4, <1>5

LEMMA CrashSetsTss == ASSUME Inv, CrashTss, TypeInv' PROVE Inv'
<1> DEFINE n == cpu.cur_pcb
<1>1. cpu.pc = "tss" /\ Leaving
    BY DEF CrashTss, Leaving
<1>2. /\ n = processes_running /\ n \in Pids /\ Top = n + 1 /\ cpu \in Cpu
      /\ cpu.stk = n /\ cpu.depth = 1 /\ active[scheduled_tid] = n
    BY <1>1, LeavingTask
<1>3. pcb[n].parent_pid # NoPid
    BY <1>1 DEF Inv, OrderlyInv, CrashMatches
<1>4. /\ cpu' = [cpu EXCEPT !.pc = "page"] /\ tss_esp0' = pcb[n].parent_pid
      /\ UNCHANGED <<scheduled_tid, active, process_array, processes_running, pcb>>
    BY <1>3 DEF CrashTss, Goto, Parent
<1>5. /\ cpu'.pc = "page" /\ cpu'.stk = cpu.stk /\ cpu'.depth = cpu.depth
      /\ cpu'.cur_pcb = n
    BY <1>2, <1>4 DEF Cpu
<1>6. Leaving' /\ Top' = Top
    BY <1>1, <1>4, <1>5 DEF Leaving, Top
<1>7. TableIsPrefix'
    BY <1>1, <1>4, <1>5, <1>6 DEF Inv, OrderlyInv, TableIsPrefix
<1>8. CrashMatches'
    BY <1>2, <1>3, <1>4, <1>5 DEF CrashMatches
<1> QED BY <1>1, <1>4, <1>5, <1>6, <1>7, <1>8, QuietStep DEF HaltSteps

LEMMA CrashSetsPage == ASSUME Inv, CrashPage, TypeInv' PROVE Inv'
<1> DEFINE n == cpu.cur_pcb
<1>1. cpu.pc = "page" /\ Leaving
    BY DEF CrashPage, Leaving
<1>2. /\ n = processes_running /\ n \in Pids /\ Top = n + 1 /\ cpu \in Cpu
      /\ cpu.stk = n /\ cpu.depth = 1 /\ active[scheduled_tid] = n
    BY <1>1, LeavingTask
<1>3. pcb[n].parent_pid # NoPid /\ tss_esp0 = pcb[n].parent_pid
    BY <1>1 DEF Inv, OrderlyInv, CrashMatches
<1>4. /\ cpu' = [cpu EXCEPT !.pc = "activate"] /\ user_page' = pcb[n].parent_pid
      /\ UNCHANGED <<scheduled_tid, active, process_array, processes_running, pcb, tss_esp0>>
    BY <1>3 DEF CrashPage, Goto, Parent
<1>5. /\ cpu'.pc = "activate" /\ cpu'.stk = cpu.stk /\ cpu'.depth = cpu.depth
      /\ cpu'.cur_pcb = n
    BY <1>2, <1>4 DEF Cpu
<1>6. Leaving' /\ Top' = Top
    BY <1>1, <1>4, <1>5 DEF Leaving, Top
<1>7. TableIsPrefix'
    BY <1>1, <1>4, <1>5, <1>6 DEF Inv, OrderlyInv, TableIsPrefix
<1>8. CrashMatches'
    BY <1>2, <1>3, <1>4, <1>5 DEF CrashMatches
<1> QED BY <1>1, <1>4, <1>5, <1>6, <1>7, <1>8, QuietStep DEF HaltSteps

LEMMA CrashActivates == ASSUME Inv, CrashActivate, TypeInv' PROVE Inv'
<1> DEFINE n == cpu.cur_pcb
           s == scheduled_tid
           parent == pcb[n].parent_pid
<1>1. cpu.pc = "activate" /\ Leaving /\ PcbParts /\ Gone = NoPid
    BY Parts DEF CrashActivate, Leaving, Gone
<1>2. /\ n = processes_running /\ n \in Pids /\ Top = n + 1 /\ cpu \in Cpu
      /\ cpu.stk = n /\ cpu.depth = 1 /\ pcb[n].terminal_id = s
    BY <1>1, LeavingTask
<1>3. parent # NoPid /\ tss_esp0 = parent /\ user_page = parent
    BY <1>1 DEF Inv, OrderlyInv, CrashMatches
<1>4. /\ cpu' = [cpu EXCEPT !.pc = "jump"] /\ active' = [active EXCEPT ![s] = parent]
      /\ UNCHANGED <<scheduled_tid, process_array, processes_running, pcb, tss_esp0, user_page>>
    BY <1>3 DEF CrashActivate, Goto, Parent
<1>5. /\ cpu'.pc = "jump" /\ cpu'.stk = cpu.stk /\ cpu'.depth = cpu.depth
      /\ cpu'.cur_pcb = n
    BY <1>2, <1>4 DEF Cpu
<1>6. Leaving' /\ Top' = Top /\ Gone' = n
    BY <1>1, <1>4, <1>5 DEF Leaving, Top, Gone
<1>7. /\ s \in Terminals /\ active \in [Terminals -> Pids \cup {NoPid}]
      /\ \A t \in Terminals : active[t] = NoPid <=> Top <= t
    BY RunningTask
<1>8. active'[s] = parent /\ \A t \in Terminals : t # s => active'[t] = active[t]
    BY <1>4, <1>7
<1>9. n >= NumTerminals /\ parent \in 0 .. n - 1 /\ pcb[parent].terminal_id = s /\ n \in Int
    <2>1. Named(pcb, Top) /\ n < Top /\ n \in Int
        BY <1>1, <1>2 DEF PcbParts, Pids
    <2>2. n >= NumTerminals
        BY <1>2, <1>3, <2>1 DEF Named
    <2> QED BY <1>2, <2>1, <2>2 DEF Named
<1>10. Youngest(pcb, Top, active', n)
    <2>1. CASE s \in Terminals
        <3>1. parent \in Pids /\ parent < Top
            BY <1>2, <1>9 DEF Pids
        <3>2. ASSUME NEW q \in Pids, q < Top, pcb[q].terminal_id = s
              PROVE  q <= parent \/ q = n
            BY <1>1, <1>2, <1>9, <3>2 DEF PcbParts, Nests, Pids
        <3>3. ASSUME NEW t \in Terminals, t # s, active[t] # NoPid
              PROVE  /\ active[t] \in Pids /\ active[t] < Top /\ pcb[active[t]].terminal_id = t
                     /\ \A q \in Pids : q < Top /\ pcb[q].terminal_id = t => q <= active[t]
            BY <1>1, <3>3, CpuTypes DEF PcbParts, Youngest
        <3> QED BY <1>8, <1>9, <3>1, <3>2, <3>3 DEF Youngest
    <2> QED BY <1>7, <2>1
<1>11. PcbParts'
    <2>1. Suspended(pcb, active', s)
        BY <1>1, <1>8 DEF PcbParts, Suspended
    <2> HIDE DEF n, s, parent
    <2> QED BY <1>1, <1>4, <1>6, <1>10, <2>1 DEF PcbParts, s
<1>12. TableIsPrefix'
    BY <1>1, <1>4, <1>5, <1>6 DEF Inv, OrderlyInv, TableIsPrefix
<1>13. BootInTurn'
    <2>1. \A t \in Terminals : ~(Top <= t)
        BY <1>2, <1>9 DEF Terminals
    <2>2. \A t \in Terminals : active'[t] # NoPid
        BY <1>3, <1>7, <1>8, <2>1
    <2>3. ~(Top < NumTerminals) /\ Top # 0
        BY <1>2, <1>9
    <2> QED BY <1>5, <1>6, <2>1, <2>2, <2>3 DEF BootInTurn
<1>14. RunningMatches'
    BY <1>5 DEF RunningMatches
<1>15. CrashMatches'
    BY <1>2, <1>3, <1>4, <1>5, <1>8 DEF CrashMatches
<1> QED BY <1>11, <1>12, <1>13, <1>14, <1>15, Whole, PTL

LEMMA CrashJumps == ASSUME Inv, CrashJump, TypeInv' PROVE Inv'
<1> DEFINE n == cpu.cur_pcb
           parent == pcb[n].parent_pid
<1>1. /\ cpu.pc = "jump" /\ Leaving /\ Gone = n /\ ReturnTo(pcb[n].parent_esp)
      /\ UNCHANGED <<scheduled_tid, active, process_array, processes_running, tss_esp0, user_page>>
    BY DEF CrashJump, Leaving, Gone
<1>2. /\ n = processes_running /\ n \in Pids /\ Top = n + 1
      /\ pcb[n].terminal_id = scheduled_tid
    BY <1>1, LeavingTask
<1>3. /\ parent # NoPid /\ tss_esp0 = parent /\ user_page = parent
      /\ active[scheduled_tid] = parent
    BY <1>1 DEF Inv, OrderlyInv, CrashMatches
<1>4. active' = [active EXCEPT ![scheduled_tid] = parent]
    BY <1>1, <1>3, RunningTask
<1>5. \A p \in Pids : process_array'[p] = 1 <=> p < n
    BY <1>1, <1>2 DEF Inv, OrderlyInv, TableIsPrefix
<1>6. processes_running' = n /\ tss_esp0' = parent /\ user_page' = parent
    BY <1>1, <1>2, <1>3
<1> HIDE DEF n
<1> QED BY <1>1, <1>2, <1>3, <1>4, <1>5, <1>6, ReturnKeeps

-----------------------------------------------------------------------------
(* The invariant and what follows from it                                  *)

LEMMA InitOrderly == Init => Inv
<1> SUFFICES ASSUME Init PROVE Inv
    OBVIOUS
<1>1. TypeInv
    BY InitTypeInv
<1>2. cpu.pc = "boot" /\ cpu = At("boot", 0, 0) /\ processes_running = 0 /\ scheduled_tid = 0
      /\ process_array = [p \in Pids |-> 0] /\ active = [t \in Terminals |-> NoPid]
    BY DEF Init, At
<1>3. Top = 0 /\ ~Leaving /\ \A p \in Pids : ~(p < 0)
    BY <1>2 DEF Top, Leaving, Pids
<1>4. PcbParts
    BY <1>2, <1>3 DEF PcbParts, Named, Nests, Framed, Youngest, Suspended
<1>5. TableIsPrefix
    BY <1>2, <1>3 DEF TableIsPrefix
<1>6. BootInTurn
    BY <1>2, <1>3 DEF BootInTurn, Terminals
<1>7. RunningMatches /\ CrashMatches
    BY <1>2, <1>3 DEF RunningMatches, CrashMatches, HaltSteps
<1> QED BY <1>1, <1>4, <1>5, <1>6, <1>7, Whole

LEMMA NextOrderly == ASSUME Inv, [OrderlyNext]_vars PROVE Inv'
<1>1. TypeInv'
    BY NextTypeInv
       DEF Inv, OrderlyNext, OrderlyExecute, OrderlyTick, OrderlyHalt, OrderlyCrash, Next
<1>2. CASE OrderlyExecute
    BY <1>1, <1>2, OrderlyExecuteStep
<1>3. CASE EnterUser
    BY <1>1, <1>3, EnterUserOrderly
<1>4. CASE OrderlyTick
    BY <1>1, <1>4, OrderlyTickStep
<1>5. CASE OrderlyHalt
    BY <1>1, <1>5, OrderlyHaltStep
<1>6. CASE OrderlyCrash
    BY <1>1, <1>6, CrashBegins
<1>7. CASE CrashLoad
    BY <1>1, <1>7, CrashLoads
<1>8. CASE CrashStore
    BY <1>1, <1>8, CrashStores
<1>9. CASE CrashFree
    BY <1>1, <1>9, CrashFrees
<1>10. CASE CrashBranch
    BY <1>1, <1>10, CrashBranches
<1>11. CASE CrashTss
    BY <1>1, <1>11, CrashSetsTss
<1>12. CASE CrashPage
    BY <1>1, <1>12, CrashSetsPage
<1>13. CASE CrashActivate
    BY <1>1, <1>13, CrashActivates
<1>14. CASE CrashJump
    BY <1>1, <1>14, CrashJumps
<1>15. CASE TerminalWrite \/ UNCHANGED vars
    <2>1. UNCHANGED <<scheduled_tid, active, process_array, processes_running, pcb, tss_esp0,
                      user_page, cpu>>
        BY <1>15 DEF TerminalWrite, vars
    <2> QED BY <1>1, <2>1
            DEF Inv, OrderlyInv, TableIsPrefix, Top, Leaving, BootInTurn, PcbsMatch, Present,
                Nested, ActiveIsYoungest, ParentFramesIntact, SuspendedIntact,
                RunningMatches, OnOwnStack, CrashMatches
<1> QED BY <1>2, <1>3, <1>4, <1>5, <1>6, <1>7, <1>8, <1>9, <1>10, <1>11, <1>12, <1>13,
           <1>14, <1>15 DEF OrderlyNext

\* Under the discipline the invariant of the process layer holds in every
\* state, for any number of terminals and of processes, with crashes and with
\* a full table.
THEOREM OrderlyCorrect == OrderlySpec => []OrderlyInv
<1>1. Inv /\ [OrderlyNext]_vars => Inv'
    BY NextOrderly
<1>2. Inv => OrderlyInv
    BY DEF Inv
<1> QED BY InitOrderly, <1>1, <1>2, PTL DEF OrderlySpec

\* The slots taken are the first ones and the counter is their number, which
\* is what get_pcb() relies on when execute() fills in the PCB.
THEOREM SlotsArePrefix == OrderlySpec => []TableIsPrefix
<1>1. OrderlyInv => TableIsPrefix
    BY DEF OrderlyInv
<1> QED BY OrderlyCorrect, <1>1, PTL

\* The programs of a terminal nest: a parent is the youngest program of its
\* terminal that is older than its child.
THEOREM ProgramsNest == OrderlySpec => []Nested
<1>1. OrderlyInv => Nested
    BY DEF OrderlyInv
<1> QED BY OrderlyCorrect, <1>1, PTL

\* What a terminal runs is its youngest program, so halt() ends the program
\* the user started last there.
THEOREM YoungestRuns == OrderlySpec => []ActiveIsYoungest
<1>1. OrderlyInv => ActiveIsYoungest
    BY DEF OrderlyInv
<1> QED BY OrderlyCorrect, <1>1, PTL

\* The frame of execute() that halt() returns to has not been overwritten,
\* however deep the programs nest and whatever ran in between.
THEOREM ReturnFramesSurvive == OrderlySpec => []ParentFramesIntact
<1>1. OrderlyInv => ParentFramesIntact
    BY DEF OrderlyInv
<1> QED BY OrderlyCorrect, <1>1, PTL

\* What schedule() saved of a preempted terminal is as it was when it comes to
\* resume it.
THEOREM SavedContextsSurvive == OrderlySpec => []SuspendedIntact
<1>1. OrderlyInv => SuspendedIntact
    BY DEF OrderlyInv
<1> QED BY OrderlyCorrect, <1>1, PTL

\* Under the discipline two terminals never run one process: what
\* process_array is said to keep track of, and what fails without it.
THEOREM ProgramsNotShared == OrderlySpec => []NoSharedProgram
<1>1. OrderlyInv => NoSharedProgram
    BY DEF OrderlyInv, ActiveIsYoungest, NoSharedProgram
<1> QED BY OrderlyCorrect, <1>1, PTL

\* Under the discipline a program in user mode has its own page and kernel
\* stack even though programs crash, because no tick comes in between the
\* steps of halt().
THEOREM OrderlyUserHasItsOwn == OrderlySpec => []UserMatches
<1>1. OrderlyInv => UserMatches
    BY DEF OrderlyInv, RunningMatches, UserMatches
<1> QED BY OrderlyCorrect, <1>1, PTL

\* Under the discipline the processor never follows a pointer into memory that
\* is unmapped or overwritten.
THEOREM NeverLost == OrderlySpec => [](cpu.pc # "lost")
<1>1. OrderlyInv => cpu.pc # "lost"
    BY DEF OrderlyInv, RunningMatches
<1> QED BY OrderlyCorrect, <1>1, PTL

\* Every terminal that had a program has one
Kept == \A u \in Terminals : active[u] # NoPid => active'[u] # NoPid

\* A call of execute() takes no terminal its program, unless it is to replace
\* that program and fails.
LEMMA ExecKept ==
    ASSUME NEW t \in Terminals, NEW task, NEW table, NEW n, NEW P, NEW c, NEW otherwise,
           active \in [Terminals -> Pids \cup {NoPid}],
           Exec(t, task, table, n, P, c, otherwise),
           task # NoPid \/ active[t] = NoPid \/ (~Full(table) /\ Mapped(Increment(n)))
    PROVE  Kept
<1>1. CASE Full(table)
    BY <1>1 DEF Exec, Kept
<1>2. CASE ~Full(table)
    <2>1. PICK pid \in Pids : Load(pid, t, task, table, n, P, c)
        BY <1>2 DEF Exec
    <2>2. active' = [active EXCEPT ![t] = pid]
          \/ (active' = [active EXCEPT ![t] = task] /\ ~Mapped(Increment(n)))
        BY <2>1 DEF Load
    <2> QED BY <2>2, CpuTypes DEF Kept
<1> QED BY <1>1, <1>2

LEMMA NextKept == ASSUME Inv, [OrderlyNext]_vars PROVE Kept
<1>1. active \in [Terminals -> Pids \cup {NoPid}] /\ scheduled_tid \in Terminals
    BY RunningTask
<1>2. CASE OrderlyExecute
    <2>1. cpu.pc = "user"
          /\ Exec(scheduled_tid, active[scheduled_tid], process_array, processes_running,
                  pcb, [cpu EXCEPT !.depth = 1], cpu)
        BY <1>2 DEF OrderlyExecute, Execute
    <2> QED BY <1>1, <2>1, ExecKept
<1>3. CASE OrderlyTick
    <2>1. CASE active[scheduled_tid] = NoPid
        <3>1. Exec(scheduled_tid, NoPid, process_array, processes_running, pcb,
                   [cpu EXCEPT !.depth = @ + 1], cpu)
            BY <1>3, <2>1 DEF OrderlyTick, Tick, Spawn
        <3> QED BY <1>1, <2>1, <3>1, ExecKept
    <2>2. CASE active[scheduled_tid] # NoPid /\ active[Target] = NoPid
        <3>1. Exec(Target, NoPid, process_array, processes_running, Saved,
                   [cpu EXCEPT !.depth = @ + 1], Lost)
            BY <1>3, <2>2 DEF OrderlyTick, Tick, Spawn
        <3>2. Target \in Terminals
            BY TargetType DEF Inv, TypeInv
        <3> QED BY <1>1, <2>2, <3>1, <3>2, ExecKept
    <2>3. CASE active[scheduled_tid] # NoPid /\ active[Target] # NoPid
        BY <1>3, <2>3 DEF OrderlyTick, Tick, Resume, Kept
    <2> QED BY <2>1, <2>2, <2>3
<1>4. CASE OrderlyHalt
    <2> DEFINE n == active[scheduled_tid]
    <2>1. cpu.pc = "user" /\ n = processes_running - 1 /\ Halt
        BY <1>4 DEF OrderlyHalt, Newest, Halt
    <2>2. n \in Pids /\ n < Top /\ PcbParts
        BY <2>1, RunningTask, Parts
    <2>3. pcb[n].curr_pid = n /\ process_array \in [Pids -> {0, 1}]
        BY <2>2, RunningTask DEF PcbParts, Named
    <2>4. ~Full(Freed(n))
        BY <2>2, <2>3 DEF Full, Freed
    <2>5. Mapped(Increment(Decrement(processes_running)))
        BY <2>1, <2>2, TopType DEF Mapped, Increment, Decrement, Pids
    <2>6. CASE pcb[n].parent_pid = NoPid
        <3>1. Exec(scheduled_tid, NoPid, Freed(n), Decrement(processes_running), pcb,
                   [cpu EXCEPT !.depth = 1], Lost)
            BY <2>1, <2>6 DEF Halt
        <3> HIDE DEF n
        <3> QED BY <1>1, <2>4, <2>5, <3>1, ExecKept
    <2>7. CASE pcb[n].parent_pid # NoPid
        BY <1>1, <2>1, <2>7 DEF Halt, Kept
    <2> QED BY <2>6, <2>7
<1>5. CASE CrashBranch
    <2> DEFINE n == cpu.cur_pcb
    <2>1. cpu.pc = "branch" /\ Leaving
        BY <1>5 DEF CrashBranch, Leaving
    <2>2. n \in Pids /\ n = processes_running /\ Top = n + 1
        BY <2>1, LeavingTask
    <2>3. ~Full(process_array)
        <3>1. process_array[n] # 1
            BY <2>1, <2>2 DEF Inv, OrderlyInv, TableIsPrefix, Pids
        <3>2. process_array[n] = 0
            BY <2>2, <3>1, RunningTask
        <3> QED BY <2>2, <3>2 DEF Full
    <2>4. Mapped(Increment(processes_running))
        BY <2>2 DEF Mapped, Increment, Pids
    <2>5. CASE Parent = NoPid
        <3>1. Exec(scheduled_tid, NoPid, process_array, processes_running, pcb, cpu, Lost)
            BY <1>5, <2>5 DEF CrashBranch
        <3> QED BY <1>1, <2>3, <2>4, <3>1, ExecKept
    <2>6. CASE Parent # NoPid
        BY <1>5, <2>6 DEF CrashBranch, Kept
    <2> QED BY <2>5, <2>6
<1>6. CASE CrashActivate
    BY <1>1, <1>6 DEF CrashActivate, Kept
<1>7. CASE \/ EnterUser \/ OrderlyCrash \/ CrashLoad \/ CrashStore \/ CrashFree
           \/ CrashTss \/ CrashPage \/ CrashJump \/ TerminalWrite \/ UNCHANGED vars
    BY <1>7 DEF EnterUser, OrderlyCrash, Crash, CrashLoad, CrashStore, CrashFree, CrashTss,
                CrashPage, CrashJump, TerminalWrite, vars, Kept
<1> QED BY <1>2, <1>3, <1>4, <1>5, <1>6, <1>7 DEF OrderlyNext

\* Under the discipline a terminal that has been given a shell is never without
\* a program again: halt() can always start the shell anew.
THEOREM ShellAlwaysKept == OrderlySpec => ShellKept
<1>1. Inv /\ [OrderlyNext]_vars =>
        [\A t \in Terminals : active[t] # NoPid => active'[t] # NoPid]_vars
    BY NextKept DEF Kept
<1>2. Inv /\ [OrderlyNext]_vars => Inv'
    BY NextOrderly
<1> QED BY InitOrderly, <1>1, <1>2, PTL DEF OrderlySpec, ShellKept

-----------------------------------------------------------------------------
(* The sessions                                                            *)

\* A number beyond those of a set comes last.
LEMMA OrderedAppend ==
    ASSUME NEW A, A \subseteq Nat, IsFiniteSet(A), NEW m \in Nat, \A q \in A : q < m
    PROVE  Ordered(A \cup {m}) = Append(Ordered(A), m)
<1> DEFINE B == A \cup {m}
           k == Cardinality(A)
           InPlace(C, i) == {p \in C : Rank(C, p) = i}
<1>1. m \notin A /\ m \in B /\ \A q \in B : q \in Int /\ (q \in A \/ q = m)
    OBVIOUS
<1>2. k \in Nat /\ IsFiniteSet(B) /\ Cardinality(B) = k + 1
    BY <1>1, FS_AddElement, FS_CardinalityType
<1>3. Rank(B, m) = k + 1
    <2>1. \A q \in B : q <= m
        BY <1>1
    <2> HIDE DEF B
    <2>2. {q \in B : q <= m} = B
        BY <2>1
    <2> QED BY <1>2, <2>2 DEF Rank
<1>4. ASSUME NEW p \in A PROVE Rank(B, p) = Rank(A, p) /\ Rank(A, p) \in 0 .. k
    <2>1. {q \in B : q <= p} = {q \in A : q <= p}
        OBVIOUS
    <2>2. {q \in A : q <= p} \in SUBSET A
        OBVIOUS
    <2>3. Rank(A, p) <= k /\ Rank(A, p) \in Nat
        BY <2>2, FS_Subset, FS_CardinalityType DEF Rank
    <2> QED BY <1>2, <2>1, <2>3 DEF Rank
<1>5. InPlace(B, k + 1) = {m}
    <2>1. \A p \in A : Rank(B, p) # k + 1
        BY <1>2, <1>4
    <2> HIDE DEF k
    <2> QED BY <1>1, <1>3, <2>1
<1>6. ASSUME NEW i \in 1 .. k PROVE InPlace(B, i) = InPlace(A, i)
    <2>1. Rank(B, m) # i
        BY <1>2, <1>3
    <2> HIDE DEF k
    <2> QED BY <1>1, <1>4, <2>1
<1>7. OneOf({m}) = m
    BY DEF OneOf
<1>8. Ordered(A) = [i \in 1 .. k |-> OneOf(InPlace(A, i))]
    BY DEF Ordered
<1>9. Ordered(B) = [i \in 1 .. k + 1 |-> OneOf(InPlace(B, i))]
    BY <1>2 DEF Ordered
<1> HIDE DEF k, B, InPlace
<1>10. Append(Ordered(A), m) = [i \in 1 .. k + 1 |-> IF i = k + 1 THEN m ELSE OneOf(InPlace(A, i))]
    BY <1>2, <1>8
<1>11. ASSUME NEW i \in 1 .. k + 1
       PROVE  OneOf(InPlace(B, i)) = IF i = k + 1 THEN m ELSE OneOf(InPlace(A, i))
    <2>1. CASE i = k + 1
        BY <1>5, <1>7, <2>1
    <2>2. CASE i # k + 1
        <3>1. i \in 1 .. k
            BY <1>2, <2>2
        <3>2. InPlace(B, i) = InPlace(A, i)
            BY <1>6, <3>1
        <3> QED BY <2>2, <3>2
    <2> QED BY <2>1, <2>2
<1>12. Ordered(B) = Append(Ordered(A), m)
    BY <1>9, <1>10, <1>11
<1> QED BY <1>12 DEF B

LEMMA OrderedEmpty == Ordered({}) = <<>>
<1>1. Cardinality({}) = 0
    BY FS_EmptySet
<1> QED BY <1>1 DEF Ordered

\* The numbers of A below m
Below(A, m) == {p \in A : p < m}

LEMMA BelowGrows ==
    ASSUME NEW A, A \subseteq Nat, NEW m \in Nat
    PROVE  /\ IsFiniteSet(Below(A, m))
           /\ m \in A => /\ Below(A, m + 1) = Below(A, m) \cup {m}
                         /\ Ordered(Below(A, m + 1)) = Append(Ordered(Below(A, m)), m)
           /\ m \notin A => Below(A, m + 1) = Below(A, m)
<1>0. \A p \in A : p \in Nat /\ (p < m => p \in 0 .. m - 1) /\ (p < m + 1 <=> p < m \/ p = m)
    OBVIOUS
<1>00. ~(m < m) /\ m < m + 1
    OBVIOUS
<1>1. IsFiniteSet(Below(A, m))
    <2>1. Below(A, m) \in SUBSET (0 .. m - 1)
        BY <1>0, Zenon DEF Below
    <2>2. IsFiniteSet(0 .. m - 1)
        BY FS_Interval
    <2> QED BY <2>1, <2>2, FS_Subset
<1>2. ASSUME m \in A PROVE Below(A, m + 1) = Below(A, m) \cup {m}
    BY <1>0, <1>00, <1>2, Zenon DEF Below
<1>3. ASSUME m \notin A PROVE Below(A, m + 1) = Below(A, m)
    BY <1>0, <1>3, Zenon DEF Below
<1>4. Below(A, m) \subseteq Nat /\ \A q \in Below(A, m) : q < m
    BY DEF Below
<1>5. Ordered(Below(A, m) \cup {m}) = Append(Ordered(Below(A, m)), m)
    BY <1>1, <1>4, OrderedAppend
<1> QED BY <1>1, <1>2, <1>3, <1>5

\* The sequence of a set holds nothing but its elements.
LEMMA OrderedElements ==
    ASSUME NEW A, A \subseteq Nat, NEW m \in Nat
    PROVE  Ordered(Below(A, m)) \in Seq(Below(A, m))
<1> DEFINE S == {i \in Nat : Ordered(Below(A, i)) \in Seq(Below(A, i))}
<1>1. 0 \in S
    <2>1. \A p \in A : p \in Int /\ ~(p < 0)
        OBVIOUS
    <2>2. Below(A, 0) = {}
        BY <2>1 DEF Below
    <2>3. <<>> \in Seq({})
        OBVIOUS
    <2> QED BY <2>2, <2>3, OrderedEmpty
<1>2. ASSUME NEW i \in Nat, i \in S PROVE i + 1 \in S
    <2>1. Ordered(Below(A, i)) \in Seq(Below(A, i))
        BY <1>2
    <2>2. CASE i \in A
        <3>1. /\ Below(A, i + 1) = Below(A, i) \cup {i}
              /\ Ordered(Below(A, i + 1)) = Append(Ordered(Below(A, i)), i)
            BY <2>2, BelowGrows
        <3>2. Ordered(Below(A, i)) \in Seq(Below(A, i) \cup {i})
            BY <2>1
        <3>3. Append(Ordered(Below(A, i)), i) \in Seq(Below(A, i) \cup {i})
            BY <3>2
        <3> QED BY <3>1, <3>3
    <2>3. CASE i \notin A
        <3>1. Below(A, i + 1) = Below(A, i)
            BY <2>3, BelowGrows
        <3> QED BY <2>1, <3>1
    <2> QED BY <2>2, <2>3
<1> HIDE DEF S
<1>3. \A i \in Nat : i \in S
    BY <1>1, <1>2, SetInduction
<1> QED BY <1>3 DEF S

\* The number of live processes; they are the first ones.
Live == IF cpu.pc = "free" THEN Top ELSE processes_running

\* The PCBs that name terminal t
Of(P, t) == {p \in Pids : P[p].terminal_id = t}

SessionsAre ==
    /\ Live \in 0 .. MaxProcess
    /\ Session = [t \in Terminals |-> Ordered(Below(Of(pcb, t), Live))]

LEMMA LiveProcesses == Inv => SessionsAre
<1> SUFFICES ASSUME Inv PROVE SessionsAre
    OBVIOUS
<1>1. \A p \in Pids : process_array[p] = 1 <=> p < Live
    BY DEF Inv, OrderlyInv, TableIsPrefix, Live
<1>2. Live \in 0 .. MaxProcess
    <2>1. CASE Leaving
        <3>1. processes_running = Top - 1 /\ Top \in 0 .. MaxProcess /\ processes_running \in Nat
            BY <2>1, TopType
        <3> HIDE DEF Top
        <3> QED BY <3>1 DEF Live
    <2>2. CASE ~Leaving
        BY <2>2, TopType DEF Live
    <2> QED BY <2>1, <2>2
<1>3. \A t \in Terminals : ProcessesOf(t) = Below(Of(pcb, t), Live)
    BY <1>1 DEF ProcessesOf, Below, Of
<1>4. \A t \in Terminals : Ordered(ProcessesOf(t)) = Ordered(Below(Of(pcb, t), Live))
    BY <1>3
<1> QED BY <1>2, <1>4 DEF SessionsAre, Session

\* Q names for the processes before n the terminals that P names.
SameTerminals(P, Q, n) == \A p \in Pids : p < n => Q[p].terminal_id = P[p].terminal_id

LEMMA SameBelow ==
    ASSUME NEW P, NEW Q, NEW n \in 0 .. MaxProcess, SameTerminals(P, Q, n), NEW t
    PROVE  Below(Of(P, t), n) = Below(Of(Q, t), n)
BY DEF SameTerminals, Below, Of

LEMMA OfType ==
    ASSUME NEW P, NEW t PROVE Of(P, t) \subseteq Nat
BY DEF Of, Pids

\* A step that neither starts nor ends a process leaves the sessions alone.
LEMMA SessionStays ==
    ASSUME SessionsAre, SessionsAre', Live' = Live, SameTerminals(pcb, pcb', Live)
    PROVE  Session' = Session
<1>1. \A t \in Terminals : Below(Of(pcb, t), Live) = Below(Of(pcb', t), Live)
    BY SameBelow DEF SessionsAre
<1>2. Session' = [t \in Terminals |-> Ordered(Below(Of(pcb', t), Live))]
    BY DEF SessionsAre
<1> QED BY <1>1, <1>2 DEF SessionsAre

\* The next process enters the session of its terminal at the end.
LEMMA Longer ==
    ASSUME NEW P, NEW Q, NEW n \in Pids, SameTerminals(P, Q, n),
           NEW s, Q[n].terminal_id = s, NEW t
    PROVE  Ordered(Below(Of(Q, t), n + 1)) =
             IF t = s THEN Append(Ordered(Below(Of(P, t), n)), n)
                      ELSE Ordered(Below(Of(P, t), n))
<1>1. Below(Of(P, t), n) = Below(Of(Q, t), n)
    <2>1. n \in 0 .. MaxProcess
        BY DEF Pids
    <2> QED BY <2>1, SameBelow
<1>2. n \in Nat
    BY DEF Pids
<1>3. n \in Of(Q, t) <=> t = s
    BY DEF Of
<1>4. /\ n \in Of(Q, t) => Ordered(Below(Of(Q, t), n + 1)) = Append(Ordered(Below(Of(Q, t), n)), n)
      /\ n \notin Of(Q, t) => Below(Of(Q, t), n + 1) = Below(Of(Q, t), n)
    BY <1>2, OfType, BelowGrows
<1> QED BY <1>1, <1>3, <1>4

LEMMA SessionGrows ==
    ASSUME SessionsAre, SessionsAre', Live' = Live + 1, SameTerminals(pcb, pcb', Live),
           NEW s \in Terminals, pcb'[Live].terminal_id = s
    PROVE  /\ Session' = [Session EXCEPT ![s] = Append(@, Live)]
           /\ Live \in Promise!Free
<1> DEFINE n == Live
<1>1. n \in Pids /\ n \in Nat
    <2>1. n \in 0 .. MaxProcess /\ n + 1 \in 0 .. MaxProcess
        BY DEF SessionsAre
    <2> HIDE DEF n
    <2> QED BY <2>1 DEF Pids
<1>2. Session' = [t \in Terminals |-> Ordered(Below(Of(pcb', t), n + 1))]
    BY DEF SessionsAre
<1>3. Session = [t \in Terminals |-> Ordered(Below(Of(pcb, t), n))]
    BY DEF SessionsAre
<1> HIDE DEF n
<1>4. \A t \in Terminals :
        Ordered(Below(Of(pcb', t), n + 1)) =
             IF t = s THEN Append(Ordered(Below(Of(pcb, t), n)), n)
                      ELSE Ordered(Below(Of(pcb, t), n))
    BY <1>1, Longer DEF n
<1>5. Session' = [Session EXCEPT ![s] = Append(@, n)]
    BY <1>2, <1>3, <1>4
<1>6. ASSUME NEW t \in Terminals PROVE n \notin Promise!ToSet(Session[t])
    <2>1. Session[t] \in Seq(Below(Of(pcb, t), n))
        BY <1>1, <1>3, OfType, OrderedElements
    <2>2. n \notin Below(Of(pcb, t), n)
        BY <1>1 DEF Below
    <2> HIDE DEF Session
    <2> QED BY <2>1, <2>2 DEF Promise!ToSet
<1>7. n \in Promise!Free
    BY <1>1, <1>6 DEF Promise!Free, Promise!Terminals, Terminals
<1> QED BY <1>5, <1>7 DEF n

\* The newest process leaves the session of its terminal at the end.
LEMMA SessionShrinks ==
    ASSUME SessionsAre, SessionsAre', Live = Live' + 1, SameTerminals(pcb, pcb', Live'),
           NEW s \in Terminals, pcb[Live'].terminal_id = s
    PROVE  /\ Session[s] # <<>>
           /\ Session' = [Session EXCEPT ![s] = Promise!Front(@)]
<1> DEFINE n == Live'
<1>1. n \in Pids /\ n \in Nat
    <2>1. n \in 0 .. MaxProcess /\ n + 1 \in 0 .. MaxProcess
        BY DEF SessionsAre
    <2> HIDE DEF n
    <2> QED BY <2>1 DEF Pids
<1>2. Session' = [t \in Terminals |-> Ordered(Below(Of(pcb', t), n))]
    BY DEF SessionsAre
<1>3. Session = [t \in Terminals |-> Ordered(Below(Of(pcb, t), n + 1))]
    BY DEF SessionsAre
<1>4. SameTerminals(pcb', pcb, n)
    BY DEF SameTerminals
<1> HIDE DEF n
<1>5. \A t \in Terminals :
        Ordered(Below(Of(pcb, t), n + 1)) =
             IF t = s THEN Append(Ordered(Below(Of(pcb', t), n)), n)
                      ELSE Ordered(Below(Of(pcb', t), n))
    BY <1>1, <1>4, Longer DEF n
<1>6. Ordered(Below(Of(pcb', s), n)) \in Seq(Below(Of(pcb', s), n))
    BY <1>1, OfType, OrderedElements
<1>7. ASSUME NEW u \in Seq(Below(Of(pcb', s), n))
      PROVE  Append(u, n) # <<>> /\ Promise!Front(Append(u, n)) = u
    <2>1. Len(u) \in Nat /\ Len(Append(u, n)) = Len(u) + 1
        OBVIOUS
    <2>2. SubSeq(Append(u, n), 1, Len(u)) = u
        OBVIOUS
    <2> QED BY <2>1, <2>2 DEF Promise!Front
<1>8. /\ Append(Ordered(Below(Of(pcb', s), n)), n) # <<>>
      /\ Promise!Front(Append(Ordered(Below(Of(pcb', s), n)), n)) = Ordered(Below(Of(pcb', s), n))
    BY <1>6, <1>7
<1> QED BY <1>2, <1>3, <1>5, <1>8

SameTask == UNCHANGED scheduled_tid
SessionStep == Promise!Next \/ UNCHANGED <<scheduled_tid, Session>>

\* A step of one terminal that starts and ends no process
LEMMA QuietSession ==
    ASSUME SessionsAre, SessionsAre', SameTask, Live' = Live, SameTerminals(pcb, pcb', Live)
    PROVE  SessionStep
BY SessionStays DEF SessionStep, SameTask

\* A terminal starts a program.
LEMMA StartSession ==
    ASSUME SessionsAre, SessionsAre', SameTask, scheduled_tid \in Terminals,
           Live' = Live + 1, SameTerminals(pcb, pcb', Live),
           pcb'[Live].terminal_id = scheduled_tid
    PROVE  SessionStep
<1>1. /\ Session' = [Session EXCEPT ![scheduled_tid] = Append(@, Live)]
      /\ Live \in Promise!Free
    BY SessionGrows
<1> QED BY <1>1 DEF SessionStep, SameTask, Promise!Next, Promise!Start

\* The program of a terminal ends.
LEMMA EndSession ==
    ASSUME SessionsAre, SessionsAre', SameTask, scheduled_tid \in Terminals,
           Live = Live' + 1, SameTerminals(pcb, pcb', Live'),
           pcb[Live'].terminal_id = scheduled_tid
    PROVE  SessionStep
<1>1. /\ Session[scheduled_tid] # <<>>
      /\ Session' = [Session EXCEPT ![scheduled_tid] = Promise!Front(@)]
    BY SessionShrinks
<1> QED BY <1>1 DEF SessionStep, SameTask, Promise!Next, Promise!End

\* A terminal that has a live process has a session that is not empty.
LEMMA SessionNotEmpty ==
    ASSUME SessionsAre, NEW s \in Terminals, NEW p \in Pids, p < Live, pcb[p].terminal_id = s
    PROVE  Session[s] # <<>>
<1>1. Session[s] = Ordered(Below(Of(pcb, s), Live)) /\ Live \in Nat
    BY DEF SessionsAre
<1>2. p \in Below(Of(pcb, s), Live) /\ IsFiniteSet(Below(Of(pcb, s), Live))
    <2>1. p \in Below(Of(pcb, s), Live)
        BY DEF Below, Of
    <2>2. Of(pcb, s) \subseteq Nat
        BY OfType
    <2>3. IsFiniteSet(Below(Of(pcb, s), Live))
        BY <1>1, <2>2, BelowGrows
    <2> QED BY <2>1, <2>3
<1>3. Cardinality(Below(Of(pcb, s), Live)) # 0
    BY <1>2, FS_EmptySet
<1>4. DOMAIN Session[s] = 1 .. Cardinality(Below(Of(pcb, s), Live))
    BY <1>1 DEF Ordered
<1>5. Cardinality(Below(Of(pcb, s), Live)) \in Nat
    BY <1>2, FS_CardinalityType
<1>6. DOMAIN Session[s] # {}
    <2>1. 1 \in 1 .. Cardinality(Below(Of(pcb, s), Live))
        BY <1>3, <1>5
    <2> QED BY <1>4, <2>1
<1>7. DOMAIN <<>> = {}
    OBVIOUS
<1> QED BY <1>6, <1>7

\* A terminal of which no live process is has an empty session.
LEMMA SessionEmpty ==
    ASSUME SessionsAre, NEW s \in Terminals, \A p \in Pids : p < Live => pcb[p].terminal_id # s
    PROVE  Session[s] = <<>>
<1>1. Below(Of(pcb, s), Live) = {}
    BY DEF Below, Of
<1> QED BY <1>1, OrderedEmpty DEF SessionsAre

\* execute() takes slot n, the first that is free, with the PCBs P.
LEMMA LoadedLive ==
    ASSUME NEW t \in Terminals, NEW task, NEW table, NEW n \in Pids,
           NEW P \in [Pids -> Pcb], NEW c,
           Loaded(t, task, table, n, P, c), SameTerminals(pcb, P, n)
    PROVE  /\ Live' = n + 1
           /\ SameTerminals(pcb, pcb', n)
           /\ pcb'[n].terminal_id = t
<1>1. /\ pcb' = [P EXCEPT ![n] = NewPcb(P[n], n, t, task, c)]
      /\ cpu' = At("start", c.stk, c.depth) /\ processes_running' = n + 1
    BY DEF Loaded
<1>2. cpu'.pc = "start"
    BY <1>1 DEF At
<1>3. pcb'[n].terminal_id = t /\ \A p \in Pids : p # n => pcb'[p] = P[p]
    <2>1. pcb'[n] = NewPcb(P[n], n, t, task, c) /\ P[n] \in Pcb
        BY <1>1
    <2>2. pcb'[n].terminal_id = t
        BY <2>1 DEF NewPcb, Pcb
    <2> QED BY <1>1, <2>2
<1>4. \A p \in Pids : p < n => p # n
    BY DEF Pids
<1> QED BY <1>1, <1>2, <1>3, <1>4 DEF Live, SameTerminals

LEMMA ExecuteSession ==
    ASSUME Inv, OrderlyExecute, SessionsAre, SessionsAre' PROVE SessionStep
<1> DEFINE s == scheduled_tid
           n == processes_running
           c == [cpu EXCEPT !.depth = 1]
<1>1. /\ cpu.pc = "user" /\ SameTask
      /\ Exec(s, active[s], process_array, n, pcb, c, cpu)
    BY DEF OrderlyExecute, Execute, SameTask
<1>2. s \in Terminals /\ pcb \in [Pids -> Pcb] /\ process_array \in [Pids -> {0, 1}]
    BY RunningTask
<1>3. Live = n /\ n \in 0 .. MaxProcess
    BY <1>1 DEF SessionsAre, Live
<1>4. \A p \in Pids : process_array[p] = 1 <=> p < n
    BY <1>1 DEF Inv, OrderlyInv, TableIsPrefix
<1>5. CASE n = MaxProcess
    <2>1. \A p \in Pids : process_array[p] = 1
        BY <1>4, <1>5 DEF Pids
    <2>2. UNCHANGED <<pcb, cpu, processes_running>>
        BY <1>1, <1>2, <2>1, ExecFull
    <2>3. Live' = Live /\ SameTerminals(pcb, pcb', Live)
        BY <1>1, <2>2 DEF Live, SameTerminals
    <2> QED BY <1>1, <2>3, QuietSession
<1>6. CASE n # MaxProcess
    <2>1. n \in Pids /\ SameTerminals(pcb, pcb, n)
        BY <1>3, <1>6 DEF Pids, SameTerminals
    <2> HIDE DEF n, c
    <2>2. Loaded(s, active[s], process_array, n, pcb, c)
        BY <1>1, <1>2, <1>4, <2>1, ExecLoads
    <2>3. Live' = Live + 1 /\ SameTerminals(pcb, pcb', Live) /\ pcb'[Live].terminal_id = s
        BY <1>2, <1>3, <2>1, <2>2, LoadedLive
    <2> QED BY <1>1, <1>2, <2>3, StartSession
<1> QED BY <1>5, <1>6

LEMMA NamesSame ==
    ASSUME NEW P, NEW Q, NEW n \in Int, SameNames(P, Q) PROVE SameTerminals(P, Q, n)
BY DEF SameNames, SameTerminals

LEMMA EnterSession ==
    ASSUME Inv, EnterUser, SessionsAre, SessionsAre' PROVE SessionStep
<1>1. /\ cpu.pc = "start" /\ cpu' = User(tss_esp0) /\ pcb' = Unprotect(pcb, User(tss_esp0))
      /\ SameTask /\ UNCHANGED processes_running
    BY DEF EnterUser, SameTask
<1>2. /\ pcb \in [Pids -> Pcb] /\ User(tss_esp0) \in Cpu
    BY CpuTypes, RunningTask DEF Inv, TypeInv, TypeOK
<1>3. SameNames(pcb, pcb')
    BY <1>1, <1>2, UnprotectNames
<1>4. cpu'.pc = "user"
    BY <1>1 DEF User, At
<1>5. Live' = Live
    BY <1>1, <1>4 DEF Live
<1>6. SameTerminals(pcb, pcb', Live)
    BY <1>3, NamesSame DEF SessionsAre
<1> QED BY <1>1, <1>5, <1>6, QuietSession

LEMMA BootSession ==
    ASSUME Inv, Tick, cpu.pc = "boot", SessionsAre, SessionsAre' PROVE SessionStep
<1> DEFINE c == [cpu EXCEPT !.depth = @ + 1]
<1>1. /\ scheduled_tid \in Terminals /\ pcb \in [Pids -> Pcb]
      /\ process_array \in [Pids -> {0, 1}]
      /\ \A t \in Terminals : active[t] = NoPid <=> Top <= t
      /\ Top = 0
    BY RunningTask
<1>2. processes_running = 0 /\ 0 \in Pids /\ Live = 0
    BY <1>1, TopType, CpuTypes DEF Leaving, Live
<1>3. active[scheduled_tid] = NoPid
    BY <1>1 DEF Terminals
<1>4. Exec(scheduled_tid, NoPid, process_array, 0, pcb, c, cpu) /\ SameTask
    BY <1>2, <1>3 DEF Tick, Spawn, SameTask
<1>5. \A p \in Pids : process_array[p] = 1 <=> p < 0
    BY <1>2 DEF Inv, OrderlyInv, TableIsPrefix
<1> HIDE DEF c
<1>6. Loaded(scheduled_tid, NoPid, process_array, 0, pcb, c)
    BY <1>1, <1>2, <1>4, <1>5, ExecLoads
<1>7. SameTerminals(pcb, pcb, 0)
    BY DEF SameTerminals
<1>8. Live' = Live + 1 /\ SameTerminals(pcb, pcb', Live) /\ pcb'[Live].terminal_id = scheduled_tid
    BY <1>1, <1>2, <1>6, <1>7, LoadedLive
<1> QED BY <1>1, <1>4, <1>8, StartSession

\* The next terminal has its turn, and has a shell or gets one.
LEMMA SwitchSession ==
    ASSUME SessionsAre, SessionsAre', scheduled_tid \in Terminals, Session[scheduled_tid] # <<>>,
           Target \in Terminals, scheduled_tid' = Target,
           \/ /\ Live' = Live /\ SameTerminals(pcb, pcb', Live)
              /\ Session[Target] # <<>>
           \/ /\ Live' = Live + 1 /\ SameTerminals(pcb, pcb', Live)
              /\ pcb'[Live].terminal_id = Target
              /\ Session[Target] = <<>>
    PROVE  SessionStep
<1>1. CASE Live' = Live /\ SameTerminals(pcb, pcb', Live) /\ Session[Target] # <<>>
    <2>1. Session' = Session
        BY <1>1, SessionStays
    <2>2. Session'[scheduled_tid'] # <<>>
        BY <1>1, <2>1
    <2> HIDE DEF Session
    <2> QED BY <1>1, <2>1 DEF SessionStep, Promise!Next, Promise!Switch, Target
<1>2. CASE /\ Live' = Live + 1 /\ SameTerminals(pcb, pcb', Live)
           /\ pcb'[Live].terminal_id = Target
           /\ Session[Target] = <<>>
    <2>1. /\ Session' = [Session EXCEPT ![Target] = Append(@, Live)]
          /\ Live \in Promise!Free
        BY <1>2, SessionGrows
    <2>2. Append(<<>>, Live) = <<Live>>
        OBVIOUS
    <2>3. Session' = [Session EXCEPT ![scheduled_tid'] = <<Live>>]
        BY <1>2, <2>1, <2>2
    <2> QED BY <1>2, <2>1, <2>3 DEF SessionStep, Promise!Next, Promise!Switch, Target
<1> QED BY <1>1, <1>2

LEMMA TickSession ==
    ASSUME Inv, Inv', OrderlyTick, SessionsAre, SessionsAre' PROVE SessionStep
<1> DEFINE a == active[scheduled_tid]
           n == processes_running
<1>1. CASE cpu.pc = "boot"
    BY <1>1, BootSession DEF OrderlyTick
<1>2. CASE cpu.pc # "boot"
    <2>1. cpu.pc \in {"user", "start"} /\ (cpu.pc = "start" => OnOwnStack) /\ Tick
        BY <1>2, RunningTask DEF OrderlyTick, Cpu, Places
    <2>2. /\ scheduled_tid \in Terminals /\ pcb \in [Pids -> Pcb] /\ cpu \in Cpu
          /\ active \in [Terminals -> Pids \cup {NoPid}]
          /\ process_array \in [Pids -> {0, 1}]
          /\ \A t \in Terminals : active[t] = NoPid <=> Top <= t
          /\ a \in Pids /\ a < Top /\ pcb[a].terminal_id = scheduled_tid
        BY <1>2, RunningTask
    <2>3. ~Leaving /\ Top = n /\ n \in 0 .. MaxProcess /\ Live = n
        BY <2>1, <2>2, TopType DEF Leaving, Live
    <2>4. \A p \in Pids : process_array[p] = 1 <=> p < n
        BY <2>1, <2>3 DEF Inv, OrderlyInv, TableIsPrefix
    <2>5. Saved \in [Pids -> Pcb] /\ SameTerminals(pcb, Saved, n)
        <3>1. Saved \in [Pids -> Pcb]
            BY <2>1, SavedParts
        <3>2. \A p \in Pids : Saved[p].terminal_id = pcb[p].terminal_id
            BY <2>2, SavedFields DEF Inv, TypeInv, TypeOK
        <3> QED BY <3>1, <3>2 DEF SameTerminals
    <2>6. Target \in Terminals /\ scheduled_tid' = Target /\ a # NoPid
        BY <2>1, <2>2, TargetType, CpuTypes DEF Tick, Inv, TypeInv
    <2>7. Session[scheduled_tid] # <<>>
        BY <2>2, <2>3, SessionNotEmpty
    <2>8. PcbParts /\ Gone = NoPid
        BY <2>1, Parts DEF Gone
    <2>9. CASE active[Target] = NoPid
        <3> DEFINE c == [cpu EXCEPT !.depth = @ + 1]
        <3>1. n <= Target /\ Target < NumTerminals /\ n \in Pids
            BY <2>2, <2>3, <2>6, <2>9 DEF Terminals, Pids
        <3>2. Exec(Target, NoPid, process_array, n, Saved, c, Lost)
            BY <2>1, <2>6, <2>9 DEF Tick, Spawn
        <3>3. ASSUME NEW p \in Pids, p < Live PROVE pcb[p].terminal_id # Target
            <4>1. p < NumTerminals /\ p # Target
                BY <2>3, <2>6, <3>1, <3>3 DEF Terminals, Pids
            <4> QED BY <2>3, <2>8, <3>3, <4>1 DEF PcbParts, Named
        <3>4. Session[Target] = <<>>
            BY <2>6, <3>3, SessionEmpty
        <3> HIDE DEF c, n
        <3>5. Loaded(Target, NoPid, process_array, n, Saved, c)
            BY <2>2, <2>4, <2>6, <3>1, <3>2, ExecLoads
        <3>6. Live' = Live + 1 /\ SameTerminals(pcb, pcb', Live) /\ pcb'[Live].terminal_id = Target
            BY <2>3, <2>5, <2>6, <3>1, <3>5, LoadedLive
        <3> QED BY <2>2, <2>6, <2>7, <3>4, <3>6, SwitchSession
    <2>10. CASE active[Target] # NoPid
        <3> DEFINE p == active[Target]
        <3>1. Resume(p, Saved) /\ p \in Pids /\ p < Live /\ pcb[p].terminal_id = Target
            BY <2>1, <2>2, <2>3, <2>6, <2>8, <2>10 DEF Tick, PcbParts, Youngest
        <3>2. Resumable(Saved, p)
            BY <2>1, <2>6, <2>10, SavedParts
        <3>3. PICK c : c = Saved[p].sched.cpu
            OBVIOUS
        <3>4. c \in Cpu
            BY <2>5, <3>1, <3>3 DEF Pcb, Context
        <3>5. cpu' = c /\ pcb' = Unprotect(Saved, c) /\ UNCHANGED processes_running
            BY <3>1, <3>2, <3>3 DEF Resume, Resumable
        <3>6. c.pc # "free"
            BY <3>2, <3>3 DEF Resumable, User, At
        <3>7. Live' = Live
            BY <2>3, <3>5, <3>6 DEF Live
        <3>8. SameTerminals(pcb, pcb', Live)
            <4>1. SameNames(Saved, pcb')
                BY <2>5, <3>4, <3>5, UnprotectNames
            <4> QED BY <2>3, <2>5, <4>1 DEF SameNames, SameTerminals
        <3>9. Session[Target] # <<>>
            BY <2>6, <3>1, SessionNotEmpty
        <3> QED BY <2>2, <2>6, <2>7, <3>7, <3>8, <3>9, SwitchSession
    <2> QED BY <2>9, <2>10
<1> QED BY <1>1, <1>2

LEMMA HaltSession ==
    ASSUME Inv, Inv', OrderlyHalt, SessionsAre, SessionsAre' PROVE SessionStep
<1> DEFINE n == active[scheduled_tid]
<1>1. cpu.pc = "user" /\ n = processes_running - 1 /\ Halt /\ SameTask
    BY DEF OrderlyHalt, Newest, Halt, SameTask
<1>2. /\ n \in Pids /\ Top = n + 1 /\ pcb[n].terminal_id = scheduled_tid
      /\ pcb \in [Pids -> Pcb] /\ scheduled_tid \in Terminals
      /\ cpu \in Cpu /\ process_array \in [Pids -> {0, 1}]
    BY <1>1, TopType, RunningTask DEF Leaving
<1>3. PcbParts /\ n < Top /\ n \in Int /\ Live = n + 1
    BY <1>1, <1>2, Parts, TopType DEF Live
<1>4. Freed(n) = [process_array EXCEPT ![n] = 0]
    BY <1>2, <1>3 DEF Freed, PcbParts, Named
<1>5. Freed(n) \in [Pids -> {0, 1}] /\ \A p \in Pids : Freed(n)[p] = 1 <=> p < n
    <2>1. \A p \in Pids : process_array[p] = 1 <=> p < n + 1
        BY <1>1, <1>2 DEF Inv, OrderlyInv, TableIsPrefix, Leaving, Top
    <2> QED BY <1>2, <1>4, <2>1 DEF Pids
<1>6. Decrement(processes_running) = n
    BY <1>1, <1>2, TopType DEF Decrement, Pids
<1>7. CASE pcb[n].parent_pid = NoPid
    <2>1. Exec(scheduled_tid, NoPid, Freed(n), n, pcb, [cpu EXCEPT !.depth = 1], Lost)
        BY <1>1, <1>6, <1>7 DEF Halt
    <2>2. PICK c : c = [cpu EXCEPT !.depth = 1]
        OBVIOUS
    <2>3. PICK table : table = Freed(n)
        OBVIOUS
    <2>4. SameTerminals(pcb, pcb, n)
        BY DEF SameTerminals
    <2> HIDE DEF n
    <2>5. Loaded(scheduled_tid, NoPid, table, n, pcb, c)
        BY <1>2, <1>5, <2>1, <2>2, <2>3, ExecLoads
    <2>6. Live' = n + 1 /\ SameTerminals(pcb, pcb', n) /\ pcb'[n].terminal_id = scheduled_tid
        BY <1>2, <2>4, <2>5, LoadedLive
    <2>7. SameTerminals(pcb, pcb', Live)
        BY <1>2, <1>3, <2>6 DEF SameTerminals, Pids
    <2> QED BY <1>1, <1>3, <2>6, <2>7, QuietSession
<1>8. CASE pcb[n].parent_pid # NoPid
    <2>1. processes_running' = n /\ ReturnTo(pcb[n].parent_esp) /\ tss_esp0' = pcb[n].parent_pid
        BY <1>1, <1>6, <1>8 DEF Halt
    <2>2. cpu'.pc # "lost"
        BY DEF Inv, OrderlyInv, RunningMatches
    <2>3. cpu' = User(tss_esp0') /\ pcb' = Unprotect(pcb, User(tss_esp0'))
        BY <2>1, <2>2 DEF ReturnTo, Lost, At
    <2>4. cpu'.pc = "user" /\ User(tss_esp0') \in Cpu
        BY <2>3, CpuTypes DEF User, At, Inv, TypeInv, TypeOK
    <2>5. Live' = n
        BY <2>1, <2>4 DEF Live
    <2>6. SameNames(pcb, pcb')
        BY <1>2, <2>3, <2>4, UnprotectNames
    <2>7. SameTerminals(pcb, pcb', Live')
        BY <1>3, <2>5, <2>6, NamesSame
    <2> HIDE DEF n
    <2> QED BY <1>1, <1>2, <1>3, <2>5, <2>7, EndSession
<1> QED BY <1>7, <1>8

\* halt() of a crashing program takes it out of its session when it frees the
\* slot; one that was the shell leaves the session empty until the next step.
LEMMA CrashFreeSession ==
    ASSUME Inv, CrashFree, SessionsAre, SessionsAre' PROVE SessionStep
<1> DEFINE n == cpu.cur_pcb
<1>1. /\ cpu.pc = "free" /\ Leaving /\ SameTask /\ UNCHANGED <<pcb, processes_running>>
      /\ cpu' = [cpu EXCEPT !.pc = "branch"]
    BY DEF CrashFree, Goto, Leaving, SameTask
<1>2. /\ n = processes_running /\ n \in Pids /\ Top = n + 1 /\ cpu \in Cpu
      /\ pcb[n].terminal_id = scheduled_tid
    BY <1>1, LeavingTask
<1>3. cpu'.pc = "branch"
    BY <1>1, <1>2 DEF Cpu
<1>4. Live = n + 1 /\ Live' = n
    BY <1>1, <1>2, <1>3 DEF Live
<1>5. SameTerminals(pcb, pcb', Live') /\ scheduled_tid \in Terminals
    BY <1>1, RunningTask DEF SameTerminals
<1> QED BY <1>1, <1>2, <1>4, <1>5, EndSession

LEMMA CrashBranchSession ==
    ASSUME Inv, CrashBranch, SessionsAre, SessionsAre' PROVE SessionStep
<1> DEFINE n == processes_running
<1>1. /\ cpu.pc = "branch" /\ Leaving /\ SameTask /\ Live = n
    BY DEF CrashBranch, Leaving, SameTask, Live
<1>2. /\ n \in Pids /\ cpu \in Cpu
    BY <1>1, LeavingTask
<1>3. /\ scheduled_tid \in Terminals /\ pcb \in [Pids -> Pcb]
      /\ process_array \in [Pids -> {0, 1}]
    BY RunningTask
<1>4. CASE Parent = NoPid
    <2>1. Exec(scheduled_tid, NoPid, process_array, n, pcb, cpu, Lost)
        BY <1>4 DEF CrashBranch
    <2>2. \A p \in Pids : process_array[p] = 1 <=> p < n
        BY <1>1 DEF Inv, OrderlyInv, TableIsPrefix
    <2>3. SameTerminals(pcb, pcb, n)
        BY DEF SameTerminals
    <2> HIDE DEF n
    <2>4. Loaded(scheduled_tid, NoPid, process_array, n, pcb, cpu)
        BY <1>2, <1>3, <2>1, <2>2, ExecLoads
    <2>5. /\ Live' = Live + 1 /\ SameTerminals(pcb, pcb', Live)
          /\ pcb'[Live].terminal_id = scheduled_tid
        BY <1>1, <1>2, <1>3, <2>3, <2>4, LoadedLive
    <2> QED BY <1>1, <1>3, <2>5, StartSession
<1>5. CASE Parent # NoPid
    <2>1. cpu' = [cpu EXCEPT !.pc = "tss"] /\ UNCHANGED <<pcb, processes_running>>
        BY <1>5 DEF CrashBranch, Goto
    <2>2. cpu'.pc = "tss"
        BY <1>2, <2>1 DEF Cpu
    <2>3. Live' = Live /\ SameTerminals(pcb, pcb', Live)
        BY <1>1, <2>1, <2>2 DEF Live, SameTerminals
    <2> QED BY <1>1, <2>3, QuietSession
<1> QED BY <1>4, <1>5

LEMMA CrashJumpSession ==
    ASSUME Inv, Inv', CrashJump, SessionsAre, SessionsAre' PROVE SessionStep
<1>1. /\ cpu.pc = "jump" /\ SameTask /\ UNCHANGED <<processes_running, tss_esp0>>
      /\ ReturnTo(pcb[cpu.cur_pcb].parent_esp)
    BY DEF CrashJump, SameTask
<1>2. cpu'.pc # "lost"
    BY DEF Inv, OrderlyInv, RunningMatches
<1>3. cpu' = User(tss_esp0') /\ pcb' = Unprotect(pcb, User(tss_esp0'))
    BY <1>1, <1>2 DEF ReturnTo, Lost, At
<1>4. cpu'.pc = "user" /\ User(tss_esp0') \in Cpu
    BY <1>3, CpuTypes DEF User, At, Inv, TypeInv, TypeOK
<1>5. Live' = Live
    BY <1>1, <1>4 DEF Live
<1>6. SameNames(pcb, pcb')
    BY <1>3, <1>4, UnprotectNames, RunningTask
<1>7. SameTerminals(pcb, pcb', Live)
    BY <1>6, NamesSame DEF SessionsAre
<1> QED BY <1>1, <1>5, <1>7, QuietSession

\* The other steps leave the PCBs and the number of live processes alone.
LEMMA OtherSession ==
    ASSUME Inv, Inv', SessionsAre, SessionsAre',
           \/ OrderlyCrash \/ CrashLoad \/ CrashStore \/ CrashTss \/ CrashPage
           \/ CrashActivate \/ TerminalWrite \/ UNCHANGED vars
    PROVE  SessionStep
<1>1. SameTask /\ UNCHANGED pcb
    BY DEF OrderlyCrash, Crash, CrashLoad, CrashStore, CrashTss, CrashPage, CrashActivate,
           TerminalWrite, vars, SameTask
<1>2. SameTerminals(pcb, pcb', Live)
    BY <1>1 DEF SameTerminals
<1>3. cpu \in Cpu
    BY RunningTask
<1>4. CASE CrashStore
    <2>1. cpu.pc = "store" /\ cpu' = [cpu EXCEPT !.pc = "free"]
        BY <1>4 DEF CrashStore, Goto
    <2>2. cpu'.pc = "free" /\ cpu'.cur_pcb = cpu.cur_pcb
        BY <1>3, <2>1 DEF Cpu
    <2>3. cpu.cur_pcb = processes_running - 1 /\ cpu.cur_pcb \in Pids
        BY <1>3, <2>1 DEF Inv, OrderlyInv, CrashMatches, Cpu
    <2>4. cpu'.cur_pcb = processes_running'
        BY <2>2 DEF Inv, OrderlyInv, CrashMatches, Leaving
    <2>5. Live = processes_running /\ Live' = processes_running' + 1
        BY <2>1, <2>2 DEF Live, Top, Leaving
    <2>6. Live' = Live
        BY <2>2, <2>3, <2>4, <2>5, TopType
    <2> QED BY <1>1, <1>2, <2>6, QuietSession
<1>5. ASSUME cpu.pc # "free", cpu'.pc # "free", UNCHANGED processes_running PROVE SessionStep
    <2>1. Live' = Live
        BY <1>5 DEF Live
    <2> QED BY <1>1, <1>2, <2>1, QuietSession
<1>6. CASE OrderlyCrash \/ CrashLoad
    <2>1. cpu' = At("load", cpu.stk, 1) \/ (cpu'.pc = "store")
        BY <1>3, <1>6 DEF OrderlyCrash, Crash, CrashLoad, Cpu
    <2>2. cpu'.pc # "free"
        BY <2>1 DEF At
    <2>3. cpu.pc # "free" /\ UNCHANGED processes_running
        BY <1>6 DEF OrderlyCrash, Crash, CrashLoad
    <2> QED BY <1>5, <2>2, <2>3
<1>7. CASE CrashTss \/ CrashPage \/ CrashActivate
    <2>1. cpu' = Lost \/ \E pc \in {"page", "activate", "jump"} : cpu' = [cpu EXCEPT !.pc = pc]
        BY <1>7 DEF CrashTss, CrashPage, CrashActivate, Goto
    <2>2. cpu'.pc # "free"
        BY <1>3, <2>1 DEF Lost, At, Cpu
    <2>3. cpu.pc # "free" /\ UNCHANGED processes_running
        BY <1>7 DEF CrashTss, CrashPage, CrashActivate
    <2> QED BY <1>5, <2>2, <2>3
<1>8. CASE TerminalWrite \/ UNCHANGED vars
    <2>1. UNCHANGED <<cpu, processes_running>>
        BY <1>8 DEF TerminalWrite, vars
    <2>2. Live' = Live
        BY <2>1 DEF Live, Top, Leaving
    <2> QED BY <1>1, <1>2, <2>2, QuietSession
<1> QED BY <1>4, <1>6, <1>7, <1>8

LEMMA NextSession ==
    ASSUME Inv, Inv', [OrderlyNext]_vars, SessionsAre, SessionsAre' PROVE SessionStep
<1>1. CASE OrderlyExecute
    BY <1>1, ExecuteSession
<1>2. CASE EnterUser
    BY <1>2, EnterSession
<1>3. CASE OrderlyTick
    BY <1>3, TickSession
<1>4. CASE OrderlyHalt
    BY <1>4, HaltSession
<1>5. CASE CrashFree
    BY <1>5, CrashFreeSession
<1>6. CASE CrashBranch
    BY <1>6, CrashBranchSession
<1>7. CASE CrashJump
    BY <1>7, CrashJumpSession
<1>8. CASE \/ OrderlyCrash \/ CrashLoad \/ CrashStore \/ CrashTss \/ CrashPage
           \/ CrashActivate \/ TerminalWrite \/ UNCHANGED vars
    BY <1>8, OtherSession
<1> QED BY <1>1, <1>2, <1>3, <1>4, <1>5, <1>6, <1>7, <1>8 DEF OrderlyNext

\* Under the discipline the terminals are sessions, for any number of them and
\* of processes: in every step a program starts on top of its terminal's, the
\* uppermost ends and the one below it goes on, or the next terminal has its
\* turn.  That the turns come is left to fairness.
THEOREM SessionsImplemented == OrderlySpec => Promise!SafeSpec
<1>1. Init => Promise!Init
    <2> SUFFICES ASSUME Init PROVE Promise!Init
        OBVIOUS
    <2>1. SessionsAre /\ scheduled_tid = 0
        BY InitOrderly, LiveProcesses DEF Init
    <2>2. Live = 0
        BY DEF Init, At, Live
    <2>3. \A t \in Terminals : Below(Of(pcb, t), Live) = {}
        BY <2>2 DEF Below, Of, Pids
    <2>4. Session = [t \in Terminals |-> <<>>]
        BY <2>1, <2>3, OrderedEmpty DEF SessionsAre
    <2> QED BY <2>1, <2>4 DEF Promise!Init, Promise!Terminals, Terminals
<1>2. Inv /\ [OrderlyNext]_vars => Inv'
    BY NextOrderly
<1>3. Inv' => SessionsAre'
    BY LiveProcesses, PTL
<1>4. Inv /\ [OrderlyNext]_vars => [Promise!Next]_(Promise!vars)
    BY <1>2, <1>3, LiveProcesses, NextSession DEF SessionStep, Promise!vars
<1> QED BY InitOrderly, <1>1, <1>2, <1>4, PTL DEF OrderlySpec, Promise!SafeSpec
=============================================================================
