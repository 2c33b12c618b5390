------------------------------ MODULE Devices ------------------------------
(***************************************************************************)
(* The interrupts: the two 8259 controllers (i8259.c), the gates they go   *)
(* through (idt.c, interrupt_linkage.S), the boot that enables them        *)
(* (entry() of kernel.c), the handlers of clock, keyboard and timer as far *)
(* as interrupts go, and rtc_read(), which waits for the clock (rtc.c).    *)
(*                                                                         *)
(* What the keyboard handler does with a key is in module Terminal, what   *)
(* schedule() does beside changing stacks in module Process.               *)
(***************************************************************************)
EXTENDS Integers, Sequences

CONSTANTS
    NumTerminals,   \* NUM_TERMINALS, 3
    Readers,        \* the terminals whose program reads the clock
    AnyFirstTick,   \* whether the timer may first tick in the clock's handler
    MaxFrames,      \* bound: interrupt frames on one stack
    MaxKeys         \* bound: keys pressed

ASSUME ConstantsAssumption ==
    /\ NumTerminals \in Nat \ {0}
    /\ Readers \subseteq 0 .. NumTerminals - 1
    /\ AnyFirstTick \in BOOLEAN /\ MaxFrames \in Nat /\ MaxKeys \in Nat

Terminals == 0 .. NumTerminals - 1
Pit == 0
Keyboard == 1
Cascade == 2        \* the master's input for the slave
Rtc == 8
Devices == {Pit, Keyboard, Rtc}
Irqs == Devices \cup {Cascade}

VARIABLES
    boot,           \* the call that entry() is at
    imr, irr, isr,  \* of both controllers: masked, requested and in service
    interrupts,     \* the interrupt flag of the processor
    scheduled_tid,
    stack,          \* the interrupt frames of every terminal's task, the
                    \* innermost first, and where each handler is
    task,           \* where the task itself is; "none" before its shell starts
    rtc_interrupt_enabled,
    PIE,            \* bit 6 of register B: periodic interrupts
    registerC,      \* the clock has a request that was not read in register C
    scancode,       \* the keyboard has one that was not read
    keys,           \* how many keys were pressed
    ticked          \* history: the clock ticked since the terminal's last read

pic == <<imr, irr, isr>>
devices == <<PIE, registerC, scancode, keys>>
tasks == <<scheduled_tid, stack, task>>
vars == <<boot, pic, interrupts, tasks, rtc_interrupt_enabled, devices, ticked>>

Init ==
    /\ boot = "i8259_init"
    /\ imr = Irqs /\ irr = {} /\ isr = {}
    /\ interrupts = FALSE
    /\ scheduled_tid = 0
    /\ stack = [t \in Terminals |-> <<>>]
    /\ task = [t \in Terminals |-> "none"]
    /\ rtc_interrupt_enabled = TRUE
    /\ PIE = FALSE /\ registerC = FALSE /\ scancode = FALSE /\ keys = 0
    /\ ticked = [t \in Terminals |-> FALSE]

-----------------------------------------------------------------------------
(* Boot                                                                    *)

enable_irq(i) == imr' = imr \ {i}

Mutant_i8259_init == imr' = Irqs /\ isr' = {}
i8259_init == imr' = Irqs \ {Cascade} /\ isr' = {}

Boot(call, next) == boot = call /\ boot' = next

BootPic ==
    /\ Boot("i8259_init", "rtc_init")
    /\ i8259_init
    /\ UNCHANGED <<irr, interrupts, tasks, rtc_interrupt_enabled, devices, ticked>>

BootRtc ==
    /\ Boot("rtc_init", "keyboard_init")
    /\ PIE' = TRUE
    /\ enable_irq(Rtc)
    /\ rtc_interrupt_enabled' = TRUE
    /\ UNCHANGED <<irr, isr, interrupts, tasks, registerC, scancode, keys, ticked>>

BootKeyboard ==
    /\ Boot("keyboard_init", "pit_init")
    /\ enable_irq(Keyboard)
    /\ UNCHANGED <<irr, isr, interrupts, tasks, rtc_interrupt_enabled, devices, ticked>>

BootPit ==
    /\ Boot("pit_init", "sti")
    /\ enable_irq(Pit)
    /\ UNCHANGED <<irr, isr, interrupts, tasks, rtc_interrupt_enabled, devices, ticked>>

BootSti ==
    /\ Boot("sti", "done")
    /\ interrupts' = TRUE
    /\ UNCHANGED <<pic, tasks, rtc_interrupt_enabled, devices, ticked>>

-----------------------------------------------------------------------------
(* Requests.  The clock asks again only when register C was read, the      *)
(* keyboard when its scancode was.  All devices are slow against their     *)
(* handlers: none asks while its last handler has yet to return to what    *)
(* the processor runs.                                                     *)

Request(i) ==
    /\ \A k \in DOMAIN stack[scheduled_tid] : stack[scheduled_tid][k].irq # i
    /\ irr' = irr \cup {i}
    /\ UNCHANGED <<boot, imr, isr, interrupts, tasks, rtc_interrupt_enabled, ticked>>

RtcTick ==
    /\ PIE /\ ~registerC
    /\ registerC' = TRUE
    /\ Request(Rtc)
    /\ UNCHANGED <<PIE, scancode, keys>>

KeyPress ==
    /\ ~scancode /\ keys < MaxKeys
    /\ scancode' = TRUE /\ keys' = keys + 1
    /\ Request(Keyboard)
    /\ UNCHANGED <<PIE, registerC>>

PitTick == Pit \notin irr /\ Request(Pit) /\ UNCHANGED devices

-----------------------------------------------------------------------------
(* Taking an interrupt and ending it                                       *)

Level(i) == IF i = Rtc THEN Cascade ELSE i
Served(i) == IF i = Rtc THEN {Rtc, Cascade} ELSE {i}

Deliverable(i) ==
    /\ i \in irr /\ Served(i) \cap imr = {}
    /\ \A j \in isr : Level(j) > Level(i)
    /\ \A j \in irr \ imr : Level(j) >= Level(i)

\* idt[0x28].reserved3 = 1, twice: the clock's gate leaves interrupts on.
TrapGate(i) == i = Rtc

Frame(i, pc) == [irq |-> i, pc |-> pc]
Push(i) == stack' = [stack EXCEPT ![scheduled_tid] = <<Frame(i, "entry")>> \o @]
Running == stack[scheduled_tid]
InHandler(i, pc) == Running # <<>> /\ Running[1] = Frame(i, pc)
GoOn(i, pc) == stack' = [stack EXCEPT ![scheduled_tid][1] = Frame(i, pc)]

\* A first tick of the timer inside the clock's handler, before its cli(),
\* leaves the handler behind on entry()'s stack with its interrupt in
\* service: the clock never ticks again.  Unless AnyFirstTick that is taken
\* not to happen.
FirstTickApart(i) ==
    AnyFirstTick \/ i # Pit \/ task[scheduled_tid] # "none" \/ Frame(Rtc, "entry") \notin {Running[k] : k \in DOMAIN Running}

Interrupt(i) ==
    /\ FirstTickApart(i)
    /\ interrupts /\ Deliverable(i) /\ Len(Running) < MaxFrames
    /\ irr' = irr \ {i} /\ isr' = isr \cup Served(i)
    /\ interrupts' = TrapGate(i)
    /\ Push(i)
    /\ UNCHANGED <<boot, imr, scheduled_tid, task, rtc_interrupt_enabled, devices, ticked>>

Mutant_send_eoi(i) == isr' = isr \ {i}
send_eoi(i) == isr' = isr \ Served(i)

\* The handler's return, over popfl and iret: only a task or a handler with
\* interrupts on was interrupted.
Iret(i) ==
    /\ InHandler(i, "exit")
    /\ stack' = [stack EXCEPT ![scheduled_tid] = Tail(@)]
    /\ interrupts' = TRUE
    /\ UNCHANGED <<boot, pic, scheduled_tid, task, rtc_interrupt_enabled, devices, ticked>>

-----------------------------------------------------------------------------
(* The handlers                                                            *)

RtcCli ==
    /\ InHandler(Rtc, "entry")
    /\ interrupts' = FALSE
    /\ GoOn(Rtc, "body")
    /\ UNCHANGED <<boot, pic, scheduled_tid, task, rtc_interrupt_enabled, devices, ticked>>

rtc_handler ==
    /\ InHandler(Rtc, "body")
    /\ send_eoi(Rtc)
    /\ registerC' = FALSE
    /\ rtc_interrupt_enabled' = FALSE
    /\ ticked' = [t \in Terminals |-> TRUE]
    /\ interrupts' = TRUE
    /\ GoOn(Rtc, "exit")
    /\ UNCHANGED <<boot, imr, irr, scheduled_tid, task, PIE, scancode, keys>>

keyboard_handler ==
    /\ InHandler(Keyboard, "entry")
    /\ send_eoi(Keyboard)
    /\ scancode' = FALSE
    /\ interrupts' = TRUE
    /\ GoOn(Keyboard, "exit")
    /\ UNCHANGED <<boot, imr, irr, scheduled_tid, task, rtc_interrupt_enabled, PIE, registerC, keys, ticked>>

Mutant_Target == scheduled_tid + 1
Target == (scheduled_tid + 1) % NumTerminals

\* The first tick starts the first shell, which never returns: what is on the
\* stack of entry() is left there.  Later ticks go to the next terminal, to
\* its new shell or back into the handler of its last tick.
pit_handler ==
    /\ InHandler(Pit, "entry")
    /\ send_eoi(Pit)
    /\ IF task[scheduled_tid] = "none"
       THEN /\ stack' = [stack EXCEPT ![scheduled_tid] = <<>>]
            /\ task' = [task EXCEPT ![scheduled_tid] = "user"]
            /\ interrupts' = TRUE /\ UNCHANGED scheduled_tid
       ELSE /\ GoOn(Pit, "resume")
            /\ scheduled_tid' = Target
            /\ task' = [task EXCEPT ![Target] = IF @ = "none" THEN "user" ELSE @]
            /\ interrupts' = (task' # task)
    /\ UNCHANGED <<boot, imr, irr, rtc_interrupt_enabled, devices, ticked>>

PitSti ==
    /\ InHandler(Pit, "resume")
    /\ interrupts' = TRUE
    /\ GoOn(Pit, "exit")
    /\ UNCHANGED <<boot, pic, scheduled_tid, task, rtc_interrupt_enabled, devices, ticked>>

-----------------------------------------------------------------------------
(* rtc_read(): it turns interrupts on and spins on the flag all readers    *)
(* share, then sets it.                                                    *)

InTask(t, at) == scheduled_tid = t /\ Running = <<>> /\ task[t] = at
Move(t, to) == task' = [task EXCEPT ![t] = to]

StartRead(t) ==
    /\ InTask(t, "user")
    /\ Move(t, "spin") /\ interrupts' = TRUE
    /\ UNCHANGED <<boot, pic, scheduled_tid, stack, rtc_interrupt_enabled, devices, ticked>>

SeeTick(t) ==
    /\ InTask(t, "spin") /\ ~rtc_interrupt_enabled
    /\ Move(t, "seen")
    /\ UNCHANGED <<boot, pic, interrupts, scheduled_tid, stack, rtc_interrupt_enabled, devices, ticked>>

Mutant_Rearm == UNCHANGED rtc_interrupt_enabled
Rearm == rtc_interrupt_enabled' = TRUE
EndRead(t) ==
    /\ InTask(t, "seen")
    /\ Move(t, "user")
    /\ Rearm
    /\ ticked' = [ticked EXCEPT ![t] = FALSE]
    /\ UNCHANGED <<boot, pic, interrupts, scheduled_tid, stack, devices>>

-----------------------------------------------------------------------------
Handlers == RtcCli \/ rtc_handler \/ keyboard_handler \/ pit_handler \/ PitSti
Booting == BootPic \/ BootRtc \/ BootKeyboard \/ BootPit \/ BootSti

Next ==
    \/ Booting
    \/ RtcTick \/ KeyPress \/ PitTick
    \/ \E i \in Devices : Interrupt(i) \/ Iret(i)
    \/ Handlers
    \/ \E t \in Readers : StartRead(t) \/ SeeTick(t) \/ EndRead(t)

\* The processor goes on, and what could go on again and again does so, be
\* it a handler that others interrupt, an interrupt or a program that waits
\* for its turn.  Timer and clock tick.
Reading == \E t \in Readers : StartRead(t) \/ SeeTick(t) \/ EndRead(t)
Fairness ==
    /\ WF_vars(Booting) /\ WF_vars(RtcTick) /\ WF_vars(PitTick)
    /\ WF_vars(Interrupt(Pit)) /\ \A i \in {Keyboard, Rtc} : SF_vars(Interrupt(i))
    /\ WF_vars(Handlers) /\ SF_vars(RtcCli) /\ \A i \in Devices : SF_vars(Iret(i))
    /\ SF_vars(Reading)

Spec == Init /\ [][Next]_vars /\ Fairness

-----------------------------------------------------------------------------
TypeOK ==
    /\ imr \subseteq Irqs /\ irr \subseteq Devices /\ isr \subseteq Irqs
    /\ interrupts \in BOOLEAN /\ rtc_interrupt_enabled \in BOOLEAN
    /\ scheduled_tid \in Terminals
    /\ stack \in [Terminals -> Seq([irq : Devices, pc : {"entry", "body", "resume", "exit"}])]
    /\ task \in [Terminals -> {"none", "user", "spin", "seen"}]
    /\ PIE \in BOOLEAN /\ registerC \in BOOLEAN /\ scancode \in BOOLEAN
    /\ keys \in 0 .. MaxKeys
    /\ ticked \in [Terminals -> BOOLEAN]

\* An interrupt is in service exactly while its handler is before its end of
\* interrupt, on whatever terminal's stack the timer left it: none is ended
\* twice, and none is left in service, which would silence its device and
\* those below it for good.
Unfinished(f) == f.irq \in {Pit, Keyboard, Rtc} /\ f.pc \in {"entry", "body"}
InServiceIsHandled ==
    isr = UNION {UNION {Served(stack[t][k].irq) : k \in {j \in DOMAIN stack[t] : Unfinished(stack[t][j])}}
                    : t \in Terminals}

\* "Wait until a rtc interrupt is received": between two reads of a program
\* there is a tick, although readers share the flag and set it after another
\* may have seen the same tick.
OneTickPerRead == \A t \in Terminals : task[t] = "seen" => ticked[t]

\* While a program waits for the clock, programs that wait are served.
ReadersServed == \A t \in Readers : task[t] = "spin" ~> \E u \in Readers : task[u] = "seen"
=============================================================================
