--------------------------- MODULE DevicesProofs ---------------------------
(***************************************************************************)
(* Theorems of Devices, for any number of terminals, of readers of the     *)
(* clock, of keys and of interrupt frames on a stack.                      *)
(***************************************************************************)
EXTENDS Devices, SequenceTheorems, TLAPS

USE ConstantsAssumption

F == [irq : Devices, pc : {"entry", "body", "resume", "exit"}]

-----------------------------------------------------------------------------
(* What the operations on stacks do                                        *)

LEMMA FrameType ==
    /\ \A i \in Devices : \A pc \in {"entry", "body", "resume", "exit"} :
        Frame(i, pc) \in F /\ Frame(i, pc).irq = i /\ Frame(i, pc).pc = pc
    /\ Pit \in Devices /\ Keyboard \in Devices /\ Rtc \in Devices
    /\ Devices \subseteq Irqs /\ Cascade \in Irqs /\ Cascade \notin Devices
BY DEF F, Frame, Devices, Irqs, Pit, Keyboard, Rtc, Cascade

\* Taking an interrupt puts a frame on top of a stack.
LEMMA PushStack ==
    ASSUME NEW S \in [Terminals -> Seq(F)], NEW s \in Terminals, NEW f \in F,
           NEW T, T = [S EXCEPT ![s] = <<f>> \o @]
    PROVE  /\ T \in [Terminals -> Seq(F)]
           /\ T[s] # <<>> /\ 1 \in DOMAIN T[s] /\ T[s][1] = f
           /\ \A k \in DOMAIN S[s] : k + 1 \in DOMAIN T[s] /\ T[s][k + 1] = S[s][k]
           /\ \A k \in DOMAIN T[s] : k # 1 =>
                k - 1 \in DOMAIN S[s] /\ T[s][k] = S[s][k - 1]
           /\ \A t \in Terminals : t # s => T[t] = S[t]
<1>1. S[s] \in Seq(F) /\ <<f>> \in Seq(F) /\ Len(<<f>>) = 1
    OBVIOUS
<1>2. T[s] = <<f>> \o S[s]
    OBVIOUS
<1>3. /\ T[s] \in Seq(F) /\ Len(T[s]) = 1 + Len(S[s])
      /\ \A k \in 1 .. 1 + Len(S[s]) :
            T[s][k] = IF k <= 1 THEN <<f>>[k] ELSE S[s][k - 1]
    BY <1>1, <1>2, ConcatProperties
<1>4. Len(S[s]) \in Nat /\ DOMAIN S[s] = 1 .. Len(S[s]) /\ DOMAIN T[s] = 1 .. Len(T[s])
    BY <1>1, <1>3
<1>5. T \in [Terminals -> Seq(F)]
    BY <1>2, <1>3
<1> QED BY <1>3, <1>4, <1>5

\* A handler goes on in its own frame.
LEMMA ReplaceTop ==
    ASSUME NEW S \in [Terminals -> Seq(F)], NEW s \in Terminals, NEW f \in F, S[s] # <<>>,
           NEW T, T = [S EXCEPT ![s][1] = f]
    PROVE  /\ T \in [Terminals -> Seq(F)]
           /\ T[s] # <<>> /\ 1 \in DOMAIN T[s] /\ T[s][1] = f
           /\ DOMAIN T[s] = DOMAIN S[s]
           /\ \A k \in DOMAIN S[s] : k # 1 => T[s][k] = S[s][k]
           /\ \A t \in Terminals : t # s => T[t] = S[t]
<1>1. S[s] \in Seq(F) /\ 1 \in 1 .. Len(S[s]) /\ DOMAIN S[s] = 1 .. Len(S[s])
    BY EmptySeq, LenProperties
<1>2. T[s] = [S[s] EXCEPT ![1] = f]
    OBVIOUS
<1>3. T[s] \in Seq(F) /\ Len(T[s]) = Len(S[s])
    BY <1>1, <1>2, ExceptSeq
<1>4. DOMAIN T[s] = DOMAIN S[s] /\ T[s] # <<>>
    BY <1>1, <1>2, <1>3
<1> QED BY <1>1, <1>2, <1>3, <1>4

\* A handler that returns takes its frame off.
LEMMA PopStack ==
    ASSUME NEW S \in [Terminals -> Seq(F)], NEW s \in Terminals, S[s] # <<>>,
           NEW T, T = [S EXCEPT ![s] = Tail(@)]
    PROVE  /\ T \in [Terminals -> Seq(F)]
           /\ 1 \in DOMAIN S[s]
           /\ T[s] # <<>> => 1 \in DOMAIN T[s]
           /\ \A k \in DOMAIN S[s] : k # 1 =>
                k - 1 \in DOMAIN T[s] /\ T[s][k - 1] = S[s][k]
           /\ \A k \in DOMAIN T[s] : k + 1 \in DOMAIN S[s] /\ T[s][k] = S[s][k + 1]
           /\ \A t \in Terminals : t # s => T[t] = S[t]
<1>1. S[s] \in Seq(F) /\ 1 \in 1 .. Len(S[s]) /\ DOMAIN S[s] = 1 .. Len(S[s])
    BY EmptySeq, LenProperties
<1>2. T[s] = Tail(S[s])
    OBVIOUS
<1>3. T[s] \in Seq(F) /\ Len(T[s]) = Len(S[s]) - 1
      /\ \A k \in 1 .. Len(T[s]) : T[s][k] = S[s][k + 1]
    BY <1>1, <1>2, HeadTailProperties
<1>4. DOMAIN T[s] = 1 .. Len(T[s]) /\ Len(S[s]) \in Nat
    BY <1>1, <1>3
<1>5. T[s] # <<>> => 1 \in DOMAIN T[s]
    BY <1>3, <1>4, EmptySeq
<1> QED BY <1>1, <1>2, <1>3, <1>4, <1>5

LEMMA StackType == TypeOK => stack \in [Terminals -> Seq(F)]
BY DEF TypeOK, F

-----------------------------------------------------------------------------
(* Types                                                                   *)

LEMMA TargetType == scheduled_tid \in Terminals => Target \in Terminals
BY DEF Target, Terminals

LEMMA ServedType == \A i \in Devices : Served(i) \subseteq Irqs
BY FrameType DEF Served

LEMMA InitType == Init => TypeOK
<1> SUFFICES ASSUME Init PROVE TypeOK
    OBVIOUS
<1>1. <<>> \in Seq(F) /\ 0 \in Terminals
    BY EmptySeq DEF Terminals
<1> QED BY <1>1 DEF Init, TypeOK, F

\* A handler's frame is replaced by one of the same interrupt.
LEMMA GoOnType ==
    ASSUME TypeOK, NEW i \in Devices, NEW pc \in {"entry", "body", "resume", "exit"},
           GoOn(i, pc), Running # <<>>
    PROVE  stack' \in [Terminals -> Seq(F)]
BY StackType, FrameType, ReplaceTop DEF GoOn, Running, TypeOK

LEMMA NextType == ASSUME TypeOK, [Next]_vars PROVE TypeOK'
<1> USE DEF F
<1>1. CASE Booting
    <2>1. /\ imr' \subseteq Irqs /\ isr' \subseteq Irqs /\ irr' = irr
          /\ interrupts' \in BOOLEAN /\ rtc_interrupt_enabled' \in BOOLEAN /\ PIE' \in BOOLEAN
        BY <1>1 DEF Booting, BootPic, BootRtc, BootKeyboard, BootPit, BootSti, i8259_init,
                    enable_irq, TypeOK, devices, pic
    <2>2. UNCHANGED <<scheduled_tid, stack, task, registerC, scancode, keys, ticked>>
        BY <1>1 DEF Booting, BootPic, BootRtc, BootKeyboard, BootPit, BootSti, tasks, devices
    <2> QED BY <2>1, <2>2 DEF TypeOK
<1>2. CASE RtcTick \/ KeyPress \/ PitTick
    <2>5. irr' \subseteq Devices
        BY <1>2, FrameType DEF RtcTick, KeyPress, PitTick, Request, TypeOK
    <2>1. registerC' \in BOOLEAN /\ scancode' \in BOOLEAN /\ PIE' = PIE
        BY <1>2, FrameType DEF RtcTick, KeyPress, PitTick, Request, TypeOK, devices
    <2>3. keys' = keys \/ (keys < MaxKeys /\ keys' = keys + 1)
        BY <1>2 DEF RtcTick, KeyPress, PitTick, devices
    <2>4. keys' \in 0 .. MaxKeys
        BY <2>3 DEF TypeOK
    <2>2. UNCHANGED <<imr, isr, interrupts, scheduled_tid, stack, task,
                      rtc_interrupt_enabled, ticked>>
        BY <1>2 DEF RtcTick, KeyPress, PitTick, Request, tasks
    <2> QED BY <2>1, <2>2, <2>4, <2>5 DEF TypeOK
<1>3. ASSUME NEW i \in Devices, Interrupt(i) PROVE TypeOK'
    <2>1. stack' \in [Terminals -> Seq(F)]
        BY <1>3, StackType, FrameType, PushStack DEF Interrupt, Push, TypeOK
    <2>2. isr' \subseteq Irqs /\ irr' \subseteq Devices /\ interrupts' \in BOOLEAN
        BY <1>3, ServedType DEF Interrupt, TypeOK, TrapGate
    <2> QED BY <1>3, <2>1, <2>2 DEF Interrupt, TypeOK, devices
<1>4. ASSUME NEW i \in Devices, Iret(i) PROVE TypeOK'
    <2>1. stack' \in [Terminals -> Seq(F)]
        BY <1>4, StackType, PopStack DEF Iret, InHandler, Running, TypeOK
    <2> QED BY <1>4, <2>1 DEF Iret, TypeOK, devices, pic
<1>5. CASE RtcCli
    <2>1. stack' \in [Terminals -> Seq(F)]
        BY <1>5, FrameType, GoOnType DEF RtcCli, InHandler
    <2> QED BY <1>5, <2>1 DEF RtcCli, TypeOK, devices, pic
<1>6. CASE rtc_handler
    <2>1. stack' \in [Terminals -> Seq(F)]
        BY <1>6, FrameType, GoOnType DEF rtc_handler, InHandler
    <2> QED BY <1>6, <2>1 DEF rtc_handler, send_eoi, TypeOK
<1>7. CASE keyboard_handler
    <2>1. stack' \in [Terminals -> Seq(F)]
        BY <1>7, FrameType, GoOnType DEF keyboard_handler, InHandler
    <2> QED BY <1>7, <2>1 DEF keyboard_handler, send_eoi, TypeOK
<1>8. CASE pit_handler
    <2>1. isr' \subseteq Irqs
        BY <1>8 DEF pit_handler, send_eoi, TypeOK
    <2>2. CASE task[scheduled_tid] = "none"
        <3>1. stack' \in [Terminals -> Seq(F)]
            BY <1>8, <2>2, StackType, EmptySeq DEF pit_handler
        <3> QED BY <1>8, <2>1, <2>2, <3>1 DEF pit_handler, TypeOK, devices
    <2>3. CASE task[scheduled_tid] # "none"
        <3>1. stack' \in [Terminals -> Seq(F)]
            BY <1>8, <2>3, FrameType, GoOnType DEF pit_handler, InHandler
        <3>2. Target \in Terminals
            BY TargetType DEF TypeOK
        <3> QED BY <1>8, <2>1, <2>3, <3>1, <3>2 DEF pit_handler, TypeOK, devices
    <2> QED BY <2>2, <2>3
<1>9. CASE PitSti
    <2>1. stack' \in [Terminals -> Seq(F)]
        BY <1>9, FrameType, GoOnType DEF PitSti, InHandler
    <2> QED BY <1>9, <2>1 DEF PitSti, TypeOK, devices, pic
<1>10. ASSUME NEW t \in Readers, StartRead(t) \/ SeeTick(t) \/ EndRead(t) PROVE TypeOK'
    BY <1>10 DEF StartRead, SeeTick, EndRead, Move, Rearm, TypeOK, devices, pic
<1>11. CASE UNCHANGED vars
    BY <1>11 DEF vars, tasks, devices, pic, TypeOK
<1> QED BY <1>1, <1>2, <1>3, <1>4, <1>5, <1>6, <1>7, <1>8, <1>9, <1>10, <1>11
        DEF Next, Handlers

\* The registers of the controllers, the stacks and the tasks keep their types
\* through boot, nested handlers and switches of terminals.
THEOREM DeviceTypes == Spec => []TypeOK
BY InitType, NextType, PTL DEF Spec

-----------------------------------------------------------------------------
(* Readers of the clock                                                    *)

\* The flag that readers share is clear only when every reader has had a tick.
TickInv == OneTickPerRead /\ (~rtc_interrupt_enabled => \A t \in Terminals : ticked[t])

LEMMA NextTick == ASSUME TypeOK, TickInv, [Next]_vars PROVE TickInv'
<1>1. CASE Booting
    BY <1>1 DEF Booting, BootPic, BootRtc, BootKeyboard, BootPit, BootSti, tasks, devices, pic,
                TickInv, OneTickPerRead
<1>2. CASE RtcTick \/ KeyPress \/ PitTick
    BY <1>2 DEF RtcTick, KeyPress, PitTick, Request, tasks, devices, TickInv, OneTickPerRead
<1>3. ASSUME NEW i \in Devices, Interrupt(i) \/ Iret(i) PROVE TickInv'
    BY <1>3 DEF Interrupt, Iret, devices, TickInv, OneTickPerRead
<1>4. CASE RtcCli \/ rtc_handler \/ keyboard_handler \/ PitSti
    BY <1>4 DEF RtcCli, rtc_handler, keyboard_handler, PitSti, devices, TickInv, OneTickPerRead
<1>5. CASE pit_handler
    BY <1>5, TargetType DEF pit_handler, devices, TickInv, OneTickPerRead, TypeOK
<1>6. ASSUME NEW t \in Readers, StartRead(t) PROVE TickInv'
    BY <1>6 DEF StartRead, Move, devices, pic, TickInv, OneTickPerRead, TypeOK
<1>7. ASSUME NEW t \in Readers, SeeTick(t) PROVE TickInv'
    BY <1>7 DEF SeeTick, Move, devices, pic, TickInv, OneTickPerRead, TypeOK, Terminals
<1>8. ASSUME NEW t \in Readers, EndRead(t) PROVE TickInv'
    BY <1>8 DEF EndRead, Move, Rearm, TickInv, OneTickPerRead, TypeOK, Terminals
<1>9. CASE UNCHANGED vars
    BY <1>9 DEF vars, tasks, devices, pic, TickInv, OneTickPerRead
<1> QED BY <1>1, <1>2, <1>3, <1>4, <1>5, <1>6, <1>7, <1>8, <1>9 DEF Next, Handlers

\* Between two reads of the clock by a program there is a tick, although all
\* programs share one flag and the timer preempts rtc_read() anywhere.
THEOREM ReadersSeeTicks == Spec => []OneTickPerRead
<1>1. Init => TickInv
    BY DEF Init, TickInv, OneTickPerRead
<1>2. TickInv => OneTickPerRead
    BY DEF TickInv
<1> QED BY InitType, NextType, NextTick, <1>1, <1>2, PTL DEF Spec

-----------------------------------------------------------------------------
(* Interrupts in service, for any stacks S                                 *)

Handles(i, f) == f.irq = i /\ Unfinished(f)
Handled(S, i) == \E t \in Terminals : \E k \in DOMAIN S[t] : Handles(i, S[t][k])

\* No interrupt has two handlers before their end of interrupt.
Once(S) ==
    \A i \in Devices : \A t \in Terminals : \A k \in DOMAIN S[t] :
        \A u \in Terminals : \A l \in DOMAIN S[u] :
            Handles(i, S[t][k]) /\ Handles(i, S[u][l]) => t = u /\ k = l

\* A handler is interrupted behind its sti(), or before the clock's cli().
Interruptible(f) == f.pc = "exit" \/ f = Frame(Rtc, "entry")
Below(S) == \A t \in Terminals : \A k \in DOMAIN S[t] : k # 1 => Interruptible(S[t][k])

\* What a frame f on top of stack s makes of S.
PushedOn(S, s, f, T) ==
    /\ \A i \in Devices : Handled(T, i) <=> Handled(S, i) \/ Handles(i, f)
    /\ Once(S) /\ (\A i \in Devices : Handles(i, f) => ~Handled(S, i)) => Once(T)
    /\ Below(S) /\ (S[s] = <<>> \/ Interruptible(S[s][1])) => Below(T)

LEMMA PushHandled ==
    ASSUME NEW S \in [Terminals -> Seq(F)], NEW s \in Terminals, NEW f \in F,
           NEW T, T = [S EXCEPT ![s] = <<f>> \o @]
    PROVE  PushedOn(S, s, f, T)
<1>1. /\ T[s] # <<>> /\ 1 \in DOMAIN T[s] /\ T[s][1] = f
      /\ \A k \in DOMAIN S[s] : k + 1 \in DOMAIN T[s] /\ T[s][k + 1] = S[s][k]
      /\ \A k \in DOMAIN T[s] : k # 1 =>
                k - 1 \in DOMAIN S[s] /\ T[s][k] = S[s][k - 1]
      /\ \A t \in Terminals : t # s => T[t] = S[t]
    BY PushStack
<1>2. T \in [Terminals -> Seq(F)]
    BY PushStack
<1>3. \A t \in Terminals : /\ \A k \in DOMAIN S[t] : k \in Int
                           /\ \A k \in DOMAIN T[t] : k \in Int
    BY <1>2, LenProperties
<1>4. ASSUME NEW i \in Devices PROVE Handled(T, i) <=> Handled(S, i) \/ Handles(i, f)
    <2>1. ASSUME Handled(T, i) PROVE Handled(S, i) \/ Handles(i, f)
        <3>0. PICK t \in Terminals : \E k \in DOMAIN T[t] : Handles(i, T[t][k])
            BY <2>1 DEF Handled
        <3>1. PICK k \in DOMAIN T[t] : Handles(i, T[t][k])
            BY <3>0
        <3>2. CASE t = s
            BY <1>1, <3>1, <3>2 DEF Handled
        <3>3. CASE t # s
            BY <1>1, <3>1, <3>3 DEF Handled
        <3> QED BY <3>2, <3>3
    <2>2. ASSUME Handled(S, i) PROVE Handled(T, i)
        <3>0. PICK t \in Terminals : \E k \in DOMAIN S[t] : Handles(i, S[t][k])
            BY <2>2 DEF Handled
        <3>1. PICK k \in DOMAIN S[t] : Handles(i, S[t][k])
            BY <3>0
        <3>2. CASE t = s
            BY <1>1, <3>1, <3>2 DEF Handled
        <3>3. CASE t # s
            BY <1>1, <3>1, <3>3 DEF Handled
        <3> QED BY <3>2, <3>3
    <2>3. Handles(i, f) => Handled(T, i)
        BY <1>1 DEF Handled
    <2> QED BY <2>1, <2>2, <2>3
<1>5. ASSUME Once(S), \A i \in Devices : Handles(i, f) => ~Handled(S, i) PROVE Once(T)
    <2>1. ASSUME NEW i \in Devices, NEW t \in Terminals, NEW k \in DOMAIN T[t],
                 NEW u \in Terminals, NEW l \in DOMAIN T[u],
                 Handles(i, T[t][k]), Handles(i, T[u][l])
          PROVE  t = u /\ k = l
        <3>1. k \in Int /\ l \in Int
            BY <1>3
        <3>2. CASE t = s /\ k = 1
            <4>1. ~Handled(S, i)
                BY <1>1, <1>5, <2>1, <3>2
            <4>2. CASE u = s
                BY <2>1, <1>1, <3>1, <3>2, <4>1, <4>2 DEF Handled
            <4>3. CASE u # s
                BY <2>1, <1>1, <4>1, <4>3 DEF Handled
            <4> QED BY <4>2, <4>3
        <3>3. CASE u = s /\ l = 1
            <4>1. ~Handled(S, i)
                BY <1>1, <1>5, <2>1, <3>3
            <4>2. CASE t = s
                BY <2>1, <1>1, <3>1, <3>3, <4>1, <4>2 DEF Handled
            <4>3. CASE t # s
                BY <2>1, <1>1, <4>1, <4>3 DEF Handled
            <4> QED BY <4>2, <4>3
        <3>4. CASE ~(t = s /\ k = 1) /\ ~(u = s /\ l = 1)
            <4>1. PICK a \in DOMAIN S[t] : Handles(i, S[t][a]) /\ (a = IF t = s THEN k - 1 ELSE k)
                BY <1>1, <2>1, <3>4
            <4>2. PICK b \in DOMAIN S[u] : Handles(i, S[u][b]) /\ (b = IF u = s THEN l - 1 ELSE l)
                BY <1>1, <2>1, <3>4
            <4>3. t = u /\ a = b
                BY <1>5, <4>1, <4>2 DEF Once
            <4> QED BY <3>1, <4>1, <4>2, <4>3
        <3> QED BY <3>2, <3>3, <3>4
    <2> QED BY ONLY <2>1 DEF Once
<1>6. ASSUME Below(S), S[s] = <<>> \/ Interruptible(S[s][1]) PROVE Below(T)
    <2> SUFFICES ASSUME NEW t \in Terminals, NEW k \in DOMAIN T[t], k # 1
                 PROVE  Interruptible(T[t][k])
        BY DEF Below
    <2>1. CASE t # s
        BY <1>1, <1>6, <2>1 DEF Below
    <2>2. CASE t = s
        <3>1. k - 1 \in DOMAIN S[s] /\ T[s][k] = S[s][k - 1]
            BY <1>1, <2>2
        <3>2. S[s] # <<>>
            BY <3>1
        <3> QED BY <1>6, <2>2, <3>1, <3>2 DEF Below
    <2> QED BY <2>1, <2>2
<1> QED BY <1>4, <1>5, <1>6 DEF PushedOn

\* A handler goes on: it is the one that serves its interrupt until it ends it.
ReplacedBy(S, s, f, T) ==
    /\ \A i \in Devices :
        Handled(T, i) <=> Handled(S, i) /\ (Handles(i, S[s][1]) => Unfinished(f))
    /\ Once(T)
    /\ Below(S) => Below(T)

LEMMA ReplaceHandled ==
    ASSUME NEW S \in [Terminals -> Seq(F)], NEW s \in Terminals, NEW f \in F, S[s] # <<>>,
           NEW T, T = [S EXCEPT ![s][1] = f], f.irq = S[s][1].irq, Once(S),
           Unfinished(f) => Unfinished(S[s][1])
    PROVE  ReplacedBy(S, s, f, T)
<1>1. /\ 1 \in DOMAIN S[s] /\ 1 \in DOMAIN T[s] /\ T[s][1] = f
      /\ DOMAIN T[s] = DOMAIN S[s]
      /\ \A k \in DOMAIN S[s] : k # 1 => T[s][k] = S[s][k]
      /\ \A t \in Terminals : t # s => T[t] = S[t]
    BY ReplaceTop
<1>2. \A t \in Terminals : /\ DOMAIN T[t] = DOMAIN S[t]
                           /\ \A k \in DOMAIN S[t] : ~(t = s /\ k = 1) => T[t][k] = S[t][k]
    BY <1>1
<1>3. \A i \in Devices : Handles(i, f) <=> Handles(i, S[s][1]) /\ Unfinished(f)
    BY DEF Handles
<1>4. \A t \in Terminals : \A k \in DOMAIN T[t] : \A i \in Devices :
        Handles(i, T[t][k]) => k \in DOMAIN S[t] /\ Handles(i, S[t][k])
    BY <1>1, <1>2, <1>3
<1>5. ASSUME NEW i \in Devices, Handled(T, i)
      PROVE  Handled(S, i) /\ (Handles(i, S[s][1]) => Unfinished(f))
    <2>0. PICK t \in Terminals : \E k \in DOMAIN T[t] : Handles(i, T[t][k])
        BY <1>5 DEF Handled
    <2>1. PICK k \in DOMAIN T[t] : Handles(i, T[t][k])
        BY <2>0
    <2>2. k \in DOMAIN S[t] /\ Handles(i, S[t][k])
        BY <1>4, <2>1
    <2>3. ASSUME Handles(i, S[s][1]) PROVE Unfinished(f)
        <3>1. t = s /\ k = 1
            BY <1>1, <2>2, <2>3 DEF Once
        <3> QED BY <1>1, <1>3, <2>1, <3>1
    <2> QED BY <2>2, <2>3 DEF Handled
<1>6. ASSUME NEW i \in Devices, Handled(S, i), Handles(i, S[s][1]) => Unfinished(f)
      PROVE  Handled(T, i)
    <2>0. PICK t \in Terminals : \E k \in DOMAIN S[t] : Handles(i, S[t][k])
        BY <1>6 DEF Handled
    <2>1. PICK k \in DOMAIN S[t] : Handles(i, S[t][k])
        BY <2>0
    <2>2. CASE t = s /\ k = 1
        BY <1>1, <1>3, <1>6, <2>1, <2>2 DEF Handled
    <2>3. CASE ~(t = s /\ k = 1)
        BY <1>2, <2>1, <2>3 DEF Handled
    <2> QED BY <2>2, <2>3
<1>7. Once(T)
    BY <1>2, <1>4 DEF Once
<1>8. Below(S) => Below(T)
    BY <1>2 DEF Below
<1> QED BY <1>5, <1>6, <1>7, <1>8 DEF ReplacedBy

\* A handler that returns has ended its interrupt.
TakenOff(S, s, T) ==
    /\ \A i \in Devices : Handled(T, i) <=> Handled(S, i)
    /\ Once(S) => Once(T)
    /\ Below(T)
    /\ T[s] = <<>> \/ Interruptible(T[s][1])

LEMMA PopHandled ==
    ASSUME NEW S \in [Terminals -> Seq(F)], NEW s \in Terminals, S[s] # <<>>,
           NEW T, T = [S EXCEPT ![s] = Tail(@)], ~Unfinished(S[s][1]), Below(S)
    PROVE  TakenOff(S, s, T)
<1>1. /\ T \in [Terminals -> Seq(F)]
      /\ T[s] # <<>> => 1 \in DOMAIN T[s]
      /\ \A k \in DOMAIN S[s] : k # 1 => k - 1 \in DOMAIN T[s] /\ T[s][k - 1] = S[s][k]
      /\ \A k \in DOMAIN T[s] : k + 1 \in DOMAIN S[s] /\ T[s][k] = S[s][k + 1]
      /\ \A t \in Terminals : t # s => T[t] = S[t]
    BY PopStack
<1>2. \A t \in Terminals : \A k \in DOMAIN T[t] : k \in Int /\ k >= 1
    BY <1>1, LenProperties
<1>3. ASSUME NEW i \in Devices PROVE Handled(T, i) <=> Handled(S, i)
    <2>1. ASSUME Handled(T, i) PROVE Handled(S, i)
        <3>0. PICK t \in Terminals : \E k \in DOMAIN T[t] : Handles(i, T[t][k])
            BY <2>1 DEF Handled
        <3>1. PICK k \in DOMAIN T[t] : Handles(i, T[t][k])
            BY <3>0
        <3> QED BY <1>1, <3>1 DEF Handled
    <2>2. ASSUME Handled(S, i) PROVE Handled(T, i)
        <3>0. PICK t \in Terminals : \E k \in DOMAIN S[t] : Handles(i, S[t][k])
            BY <2>2 DEF Handled
        <3>1. PICK k \in DOMAIN S[t] : Handles(i, S[t][k])
            BY <3>0
        <3>2. ~(t = s /\ k = 1)
            BY <3>1 DEF Handles
        <3>3. CASE t = s
            BY <1>1, <3>1, <3>2, <3>3 DEF Handled
        <3>4. CASE t # s
            BY <1>1, <3>1, <3>4 DEF Handled
        <3> QED BY <3>3, <3>4
    <2> QED BY <2>1, <2>2
<1>4. ASSUME Once(S) PROVE Once(T)
    <2>1. ASSUME NEW i \in Devices, NEW t \in Terminals, NEW k \in DOMAIN T[t],
                 NEW u \in Terminals, NEW l \in DOMAIN T[u],
                 Handles(i, T[t][k]), Handles(i, T[u][l])
          PROVE  t = u /\ k = l
        <3>1. PICK a \in DOMAIN S[t] : Handles(i, S[t][a]) /\ (a = IF t = s THEN k + 1 ELSE k)
            BY <1>1, <2>1
        <3>2. PICK b \in DOMAIN S[u] : Handles(i, S[u][b]) /\ (b = IF u = s THEN l + 1 ELSE l)
            BY <1>1, <2>1
        <3>3. t = u /\ a = b
            BY <1>4, <3>1, <3>2 DEF Once
        <3> QED BY <1>2, <3>1, <3>2, <3>3
    <2> QED BY ONLY <2>1 DEF Once
<1>5. ASSUME NEW k \in DOMAIN T[s] PROVE Interruptible(T[s][k])
    <2>1. k + 1 \in DOMAIN S[s] /\ T[s][k] = S[s][k + 1] /\ k + 1 # 1
        BY <1>1, <1>2
    <2> QED BY <2>1 DEF Below
<1>6. Below(T)
    BY <1>1, <1>5 DEF Below
<1> QED BY <1>1, <1>3, <1>4, <1>5, <1>6 DEF TakenOff

\* The first tick leaves entry()'s stack: the frames that it drops below its
\* own have ended their interrupts.
Dropped(S, s, T) ==
    /\ \A i \in Devices : Handled(T, i) <=> Handled(S, i) /\ ~Handles(i, S[s][1])
    /\ Once(T)
    /\ Below(S) => Below(T)

LEMMA ClearHandled ==
    ASSUME NEW S \in [Terminals -> Seq(F)], NEW s \in Terminals, 1 \in DOMAIN S[s],
           NEW T, T = [S EXCEPT ![s] = <<>>], Once(S), Unfinished(S[s][1]),
           \A k \in DOMAIN S[s] : k # 1 => ~Unfinished(S[s][k])
    PROVE  Dropped(S, s, T)
<1>1. T[s] = <<>> /\ DOMAIN T[s] = {} /\ \A t \in Terminals : t # s => T[t] = S[t]
    OBVIOUS
<1>2. \A t \in Terminals : \A k \in DOMAIN T[t] : t # s /\ T[t] = S[t]
    BY <1>1
<1>3. ASSUME NEW i \in Devices
      PROVE  Handled(T, i) <=> Handled(S, i) /\ ~Handles(i, S[s][1])
    <2>1. ASSUME Handled(T, i) PROVE Handled(S, i) /\ ~Handles(i, S[s][1])
        <3>0. PICK t \in Terminals : \E k \in DOMAIN T[t] : Handles(i, T[t][k])
            BY <2>1 DEF Handled
        <3>1. PICK k \in DOMAIN T[t] : Handles(i, T[t][k])
            BY <3>0
        <3>2. t # s /\ T[t] = S[t]
            BY <1>2, <3>1
        <3> QED BY <3>1, <3>2 DEF Handled, Once
    <2>2. ASSUME Handled(S, i), ~Handles(i, S[s][1]) PROVE Handled(T, i)
        <3>0. PICK t \in Terminals : \E k \in DOMAIN S[t] : Handles(i, S[t][k])
            BY <2>2 DEF Handled
        <3>1. PICK k \in DOMAIN S[t] : Handles(i, S[t][k])
            BY <3>0
        <3>2. t # s
            BY <2>2, <3>1 DEF Handles
        <3> QED BY <1>1, <3>1, <3>2 DEF Handled
    <2> QED BY <2>1, <2>2
<1>4. Once(T)
    BY <1>2 DEF Once
<1>5. Below(S) => Below(T)
    BY <1>2 DEF Below
<1> QED BY <1>3, <1>4, <1>5 DEF Dropped

-----------------------------------------------------------------------------
(* Interrupts in service                                                   *)

Serves ==
    /\ \A i \in Devices : i \in isr <=> Handled(stack, i)
    /\ Cascade \in isr <=> Rtc \in isr

\* A task that waits for its turn was interrupted by the timer, unless its
\* shell has yet to start.
Preempted ==
    \A t \in Terminals : t # scheduled_tid =>
        IF task[t] = "none" THEN stack[t] = <<>>
        ELSE stack[t] # <<>> /\ stack[t][1] = Frame(Pit, "resume")

Open == interrupts => Running = <<>> \/ Interruptible(Running[1])
FirstTick ==
    task[scheduled_tid] = "none" /\ InHandler(Pit, "entry")
        => \A k \in DOMAIN Running : Running[k] # Frame(Rtc, "entry")
BootQuiet ==
    boot # "done" => ~interrupts /\ \A t \in Terminals : stack[t] = <<>> /\ task[t] = "none"

DevInv ==
    Serves /\ Once(stack) /\ Below(stack) /\ Preempted /\ Open /\ FirstTick /\ BootQuiet

LEMMA Numbers ==
    /\ Pit = 0 /\ Keyboard = 1 /\ Cascade = 2 /\ Rtc = 8
    /\ Devices = {0, 1, 8} /\ \A i \in Devices : Level(i) \in Int
    /\ \A i, j \in Devices : j \in Served(i) <=> j = i
    /\ \A i \in Devices : Cascade \in Served(i) <=> Rtc \in Served(i)
BY DEF Pit, Keyboard, Cascade, Rtc, Devices, Level, Served

LEMMA FrameHandles ==
    ASSUME NEW i \in Devices, NEW pc \in {"entry", "body", "resume", "exit"}
    PROVE  /\ Unfinished(Frame(i, pc)) <=> pc \in {"entry", "body"}
           /\ \A j \in Devices : Handles(j, Frame(i, pc)) <=> j = i /\ pc \in {"entry", "body"}
BY FrameType DEF Unfinished, Handles, Devices

\* A handler in its own frame, from one place to a later one.
WentOn(i, from, to) ==
    /\ \A j \in Devices : Handled(stack', j) <=>
            Handled(stack, j) /\ (j = i /\ from \in {"entry", "body"} => to \in {"entry", "body"})
    /\ Once(stack') /\ Below(stack')
    /\ stack'[scheduled_tid] # <<>> /\ stack'[scheduled_tid][1] = Frame(i, to)
    /\ \A t \in Terminals : t # scheduled_tid => stack'[t] = stack[t]

LEMMA GoOnHandled ==
    ASSUME TypeOK, DevInv, NEW i \in Devices,
           NEW from \in {"entry", "body", "resume", "exit"},
           NEW to \in {"entry", "body", "resume", "exit"},
           InHandler(i, from), GoOn(i, to),
           to \in {"entry", "body"} => from \in {"entry", "body"}
    PROVE  WentOn(i, from, to)
<1>1. stack \in [Terminals -> Seq(F)] /\ scheduled_tid \in Terminals
    BY StackType DEF TypeOK
<1>7. Frame(i, to) \in F /\ Frame(i, to).irq = i /\ Frame(i, from).irq = i
    BY FrameType
<1>8. Once(stack) /\ Below(stack)
    BY DEF DevInv
<1>2. stack[scheduled_tid] # <<>> /\ stack[scheduled_tid][1] = Frame(i, from)
    BY DEF InHandler, Running
<1>3. stack' = [stack EXCEPT ![scheduled_tid][1] = Frame(i, to)]
    BY DEF GoOn
<1>4. Unfinished(Frame(i, to)) => Unfinished(Frame(i, from))
    BY FrameHandles
<1>9. /\ Frame(i, to).irq = stack[scheduled_tid][1].irq
      /\ Unfinished(Frame(i, to)) => Unfinished(stack[scheduled_tid][1])
    BY <1>2, <1>4, <1>7
<1>11. ReplacedBy(stack, scheduled_tid, Frame(i, to), stack')
    BY <1>1, <1>2, <1>3, <1>7, <1>8, <1>9, ReplaceHandled
<1>5. /\ \A j \in Devices : Handled(stack', j) <=>
            Handled(stack, j) /\ (Handles(j, stack[scheduled_tid][1]) => Unfinished(Frame(i, to)))
      /\ Once(stack') /\ Below(stack')
    BY <1>8, <1>11 DEF ReplacedBy
<1>6. /\ stack'[scheduled_tid] # <<>> /\ stack'[scheduled_tid][1] = Frame(i, to)
      /\ \A t \in Terminals : t # scheduled_tid => stack'[t] = stack[t]
    BY <1>1, <1>2, <1>3, <1>7, ReplaceTop
<1>10. \A j \in Devices : Handled(stack', j) <=>
         Handled(stack, j) /\ (j = i /\ from \in {"entry", "body"} => to \in {"entry", "body"})
    BY <1>2, <1>5, FrameHandles
<1> QED BY <1>5, <1>6, <1>10 DEF WentOn

LEMMA InitServes == Init => DevInv
<1> SUFFICES ASSUME Init PROVE DevInv
    OBVIOUS
<1>1. \A t \in Terminals : stack[t] = <<>> /\ DOMAIN stack[t] = {} /\ task[t] = "none"
    BY DEF Init
<1>2. scheduled_tid \in Terminals
    BY InitType DEF TypeOK
<1>3. Serves
    BY <1>1 DEF Init, Serves, Handled
<1>4. Once(stack) /\ Below(stack)
    BY <1>1 DEF Once, Below
<1>5. Preempted /\ Open /\ FirstTick /\ BootQuiet
    BY <1>1, <1>2 DEF Init, Preempted, Open, FirstTick, BootQuiet, Running, InHandler
<1> QED BY <1>3, <1>4, <1>5 DEF DevInv

\* Only an interrupt that no handler serves is taken, and only where the
\* handler that runs has interrupts on.
LEMMA InterruptServes ==
    ASSUME TypeOK, DevInv, ~AnyFirstTick, NEW i \in Devices, Interrupt(i)
    PROVE  DevInv'
<1> DEFINE s == scheduled_tid  f == Frame(i, "entry")
<1>1. /\ stack \in [Terminals -> Seq(F)] /\ s \in Terminals /\ f \in F
      /\ stack' = [stack EXCEPT ![s] = <<f>> \o @] /\ s' = s
      /\ Once(stack) /\ Below(stack)
    BY StackType, FrameType DEF TypeOK, DevInv, Interrupt, Push
<1>2. ~Handled(stack, i)
    BY Numbers DEF Interrupt, Deliverable, DevInv, Serves
<1>3. stack[s] = <<>> \/ Interruptible(stack[s][1])
    BY DEF Interrupt, DevInv, Open, Running
<1>4. \A j \in Devices : Handles(j, f) <=> j = i
    BY FrameHandles
<1>5. PushedOn(stack, s, f, stack')
    BY <1>1, PushHandled
<1>12. /\ \A j \in Devices : Handled(stack', j) <=> Handled(stack, j) \/ j = i
       /\ Once(stack') /\ Below(stack')
    BY <1>1, <1>2, <1>3, <1>4, <1>5 DEF PushedOn
<1>6. /\ stack'[s] # <<>> /\ stack'[s][1] = f
      /\ \A k \in DOMAIN stack'[s] : k # 1 =>
            k - 1 \in DOMAIN stack[s] /\ stack'[s][k] = stack[s][k - 1]
      /\ \A t \in Terminals : t # s => stack'[t] = stack[t]
    BY <1>1, PushStack
<1>7. Serves'
    BY <1>12, Numbers DEF Interrupt, DevInv, Serves
<1>8. Preempted'
    BY <1>1, <1>6 DEF Interrupt, DevInv, Preempted
<1>9. Open'
    BY <1>1, <1>6 DEF Interrupt, TrapGate, Open, Running, Interruptible
<1>10. FirstTick'
    <2>1. CASE i # Pit
        BY <2>1, <1>1, <1>6, FrameType DEF FirstTick, InHandler, Running
    <2>2. CASE i = Pit /\ task[s] = "none"
        <3>1. \A k \in DOMAIN stack[s] : stack[s][k] # Frame(Rtc, "entry")
            BY <2>2 DEF Interrupt, FirstTickApart, Running
        <3>2. f # Frame(Rtc, "entry")
            BY <2>2, FrameType, Numbers
        <3> QED BY <1>1, <1>6, <3>1, <3>2 DEF FirstTick, Running
    <2>3. CASE task[s] # "none"
        BY <2>3, <1>1 DEF Interrupt, FirstTick
    <2> QED BY <2>1, <2>2, <2>3
<1>11. BootQuiet'
    BY <1>1 DEF Interrupt, DevInv, BootQuiet
<1> QED BY <1>7, <1>8, <1>9, <1>10, <1>11, <1>12 DEF DevInv

\* What a handler returns to had interrupts on.
LEMMA IretServes == ASSUME TypeOK, DevInv, NEW i \in Devices, Iret(i) PROVE DevInv'
<1> DEFINE s == scheduled_tid
<1>1. /\ stack \in [Terminals -> Seq(F)] /\ s \in Terminals
      /\ stack[s] # <<>> /\ stack[s][1] = Frame(i, "exit")
      /\ stack' = [stack EXCEPT ![s] = Tail(@)] /\ s' = s
      /\ Once(stack) /\ Below(stack)
    BY StackType DEF TypeOK, DevInv, Iret, InHandler, Running
<1>2. ~Unfinished(stack[s][1])
    BY <1>1, FrameHandles
<1>3. TakenOff(stack, s, stack')
    BY <1>1, <1>2, PopHandled
<1>4. \A t \in Terminals : t # s => stack'[t] = stack[t]
    BY <1>1, PopStack
<1>5. Serves'
    BY <1>3 DEF Iret, pic, DevInv, Serves, TakenOff
<1>6. Once(stack') /\ Below(stack')
    BY <1>1, <1>3 DEF TakenOff
<1>7. Preempted'
    BY <1>1, <1>4 DEF Iret, DevInv, Preempted
<1>8. stack'[s] = <<>> \/ Interruptible(stack'[s][1])
    BY <1>3 DEF TakenOff
<1>9. Open'
    BY <1>1, <1>8 DEF Open, Running
<1>10. FirstTick'
    <2>1. ~Interruptible(Frame(Pit, "entry"))
        BY FrameType, Numbers DEF Interruptible
    <2> QED BY <1>1, <1>8, <2>1 DEF FirstTick, InHandler, Running
<1>11. BootQuiet'
    BY <1>1 DEF Iret, DevInv, BootQuiet
<1> QED BY <1>5, <1>6, <1>7, <1>9, <1>10, <1>11 DEF DevInv

\* The clock's cli() and the sti() of a timer's handler that is scheduled
\* again end nothing; the bodies of clock and keyboard end what they serve.
LEMMA StaysServes ==
    ASSUME TypeOK, DevInv, NEW i \in Devices,
           NEW from \in {"entry", "body", "resume", "exit"},
           NEW to \in {"entry", "body", "resume", "exit"},
           InHandler(i, from), WentOn(i, from, to),
           <<i, to>> # <<Pit, "entry">>,
           IF from \in {"entry", "body"} /\ to \notin {"entry", "body"}
           THEN isr' = isr \ Served(i) ELSE isr' = isr,
           interrupts' => to = "exit",
           UNCHANGED <<boot, scheduled_tid, task>>
    PROVE  DevInv'
<1> DEFINE s == scheduled_tid
<1>1. s \in Terminals /\ s' = s /\ stack[s] # <<>>
    BY DEF TypeOK, InHandler, Running
<1>2. /\ \A j \in Devices : Handled(stack', j) <=>
            Handled(stack, j) /\ (j = i /\ from \in {"entry", "body"} => to \in {"entry", "body"})
      /\ Once(stack') /\ Below(stack')
      /\ stack'[s] # <<>> /\ stack'[s][1] = Frame(i, to)
      /\ \A t \in Terminals : t # s => stack'[t] = stack[t]
    BY DEF WentOn
<1>3. Serves'
    BY <1>2, Numbers DEF DevInv, Serves
<1>4. Preempted'
    BY <1>1, <1>2 DEF DevInv, Preempted
<1>5. Open'
    BY <1>1, <1>2, FrameType DEF Open, Running, Interruptible
<1>6. FirstTick'
    BY <1>1, <1>2, FrameType DEF FirstTick, InHandler, Running
<1>7. BootQuiet'
    BY <1>1 DEF DevInv, BootQuiet
<1> QED BY <1>2, <1>3, <1>4, <1>5, <1>6, <1>7 DEF DevInv

LEMMA HandlerServes ==
    ASSUME TypeOK, DevInv, RtcCli \/ rtc_handler \/ keyboard_handler \/ PitSti
    PROVE  DevInv'
<1>1. CASE RtcCli
    <2>1. InHandler(Rtc, "entry") /\ GoOn(Rtc, "body") /\ ~interrupts' /\ isr' = isr
          /\ UNCHANGED <<boot, scheduled_tid, task>>
        BY <1>1 DEF RtcCli, pic
    <2>2. WentOn(Rtc, "entry", "body")
        BY <2>1, FrameType, GoOnHandled
    <2> QED BY <2>1, <2>2, FrameType, StaysServes
<1>2. CASE rtc_handler
    <2>1. InHandler(Rtc, "body") /\ GoOn(Rtc, "exit") /\ isr' = isr \ Served(Rtc)
          /\ UNCHANGED <<boot, scheduled_tid, task>>
        BY <1>2 DEF rtc_handler, send_eoi
    <2>2. WentOn(Rtc, "body", "exit")
        BY <2>1, FrameType, GoOnHandled
    <2> QED BY <2>1, <2>2, FrameType, StaysServes
<1>3. CASE keyboard_handler
    <2>1. InHandler(Keyboard, "entry") /\ GoOn(Keyboard, "exit") /\ isr' = isr \ Served(Keyboard)
          /\ UNCHANGED <<boot, scheduled_tid, task>>
        BY <1>3 DEF keyboard_handler, send_eoi
    <2>2. WentOn(Keyboard, "entry", "exit")
        BY <2>1, FrameType, GoOnHandled
    <2> QED BY <2>1, <2>2, FrameType, StaysServes
<1>4. CASE PitSti
    <2>1. InHandler(Pit, "resume") /\ GoOn(Pit, "exit") /\ isr' = isr
          /\ UNCHANGED <<boot, scheduled_tid, task>>
        BY <1>4 DEF PitSti, pic
    <2>2. WentOn(Pit, "resume", "exit")
        BY <2>1, FrameType, GoOnHandled
    <2> QED BY <2>1, <2>2, FrameType, StaysServes
<1> QED BY <1>1, <1>2, <1>3, <1>4

\* The first tick drops what it interrupted, which has ended its interrupt.
LEMMA FirstTickServes ==
    ASSUME TypeOK, DevInv, pit_handler, task[scheduled_tid] = "none"
    PROVE  DevInv'
<1> DEFINE s == scheduled_tid
<1>1. /\ stack \in [Terminals -> Seq(F)] /\ s \in Terminals
      /\ stack[s] # <<>> /\ stack[s][1] = Frame(Pit, "entry")
      /\ stack' = [stack EXCEPT ![s] = <<>>] /\ s' = s
      /\ Once(stack) /\ Below(stack)
    BY StackType DEF TypeOK, DevInv, pit_handler, InHandler, Running
<1>2. 1 \in DOMAIN stack[s] /\ Unfinished(stack[s][1])
    BY <1>1, FrameType, FrameHandles, EmptySeq, LenProperties
<1>3. ASSUME NEW k \in DOMAIN stack[s], k # 1 PROVE ~Unfinished(stack[s][k])
    <2>1. Interruptible(stack[s][k])
        BY <1>1, <1>3 DEF Below
    <2>2. stack[s][k] # Frame(Rtc, "entry")
        BY <1>1, <1>3 DEF DevInv, FirstTick, InHandler, Running
    <2> QED BY <2>1, <2>2 DEF Interruptible, Unfinished
<1>4. Dropped(stack, s, stack')
    BY <1>1, <1>2, <1>3, ClearHandled
<1>5. \A j \in Devices : Handles(j, stack[s][1]) <=> j = Pit
    BY <1>1, FrameType, FrameHandles
<1>6. Serves'
    BY <1>4, <1>5, Numbers, FrameType DEF pit_handler, send_eoi, DevInv, Serves, Dropped
<1>7. Once(stack') /\ Below(stack')
    BY <1>1, <1>4 DEF Dropped
<1>8. stack'[s] = <<>> /\ \A t \in Terminals : t # s => stack'[t] = stack[t] /\ task'[t] = task[t]
    BY <1>1 DEF pit_handler, TypeOK
<1>9. task'[s] = "user"
    BY <1>1 DEF pit_handler, TypeOK
<1>10. Preempted'
    BY <1>1, <1>8 DEF DevInv, Preempted
<1>11. Open' /\ FirstTick'
    BY <1>1, <1>8, <1>9 DEF Open, FirstTick, Running
<1>12. BootQuiet'
    BY <1>1 DEF pit_handler, DevInv, BootQuiet
<1> QED BY <1>6, <1>7, <1>10, <1>11, <1>12 DEF DevInv

\* A later tick leaves its frame to be gone on with, and goes to a terminal
\* that was left so, or that has nothing on its stack.
LEMMA TickServes ==
    ASSUME TypeOK, DevInv, pit_handler, task[scheduled_tid] # "none"
    PROVE  DevInv'
<1> DEFINE s == scheduled_tid
<1>1. InHandler(Pit, "entry") /\ GoOn(Pit, "resume") /\ isr' = isr \ Served(Pit) /\ boot' = boot
    BY DEF pit_handler, send_eoi
<1>2. /\ s \in Terminals /\ s' = Target /\ Target \in Terminals
      /\ interrupts' = (task' # task)
      /\ task' = [task EXCEPT ![Target] = IF @ = "none" THEN "user" ELSE @]
    BY TargetType DEF pit_handler, TypeOK
<1>3. WentOn(Pit, "entry", "resume")
    BY <1>1, FrameType, GoOnHandled
<1>4. /\ \A j \in Devices : Handled(stack', j) <=> Handled(stack, j) /\ j # Pit
      /\ Once(stack') /\ Below(stack')
      /\ stack'[s] # <<>> /\ stack'[s][1] = Frame(Pit, "resume")
      /\ \A t \in Terminals : t # s => stack'[t] = stack[t]
    BY <1>3 DEF WentOn
<1>5. Serves'
    BY <1>1, <1>4, Numbers, FrameType DEF DevInv, Serves
<1>6. /\ task'[Target] # "none"
      /\ \A t \in Terminals : t # Target => task'[t] = task[t]
      /\ task[Target] # "none" => task' = task
    BY <1>2 DEF TypeOK
<1>7. Preempted'
    <2>1. ASSUME NEW t \in Terminals, t # Target
          PROVE  IF task'[t] = "none" THEN stack'[t] = <<>>
                 ELSE stack'[t] # <<>> /\ stack'[t][1] = Frame(Pit, "resume")
        BY <2>1, <1>4, <1>6 DEF DevInv, Preempted
    <2>2. Frame(Pit, "resume")' = Frame(Pit, "resume")
        BY DEF Frame, Pit
    <2> QED BY <1>2, <2>1, <2>2 DEF Preempted
<1>8. Open'
    <2>1. CASE task[Target] = "none"
        <3>1. Target # s
            BY <2>1
        <3>2. stack[Target] = <<>>
            BY <2>1, <3>1, <1>2 DEF DevInv, Preempted
        <3> QED BY <1>2, <1>4, <3>1, <3>2 DEF Open, Running
    <2>2. CASE task[Target] # "none"
        BY <1>2, <1>6, <2>2 DEF Open
    <2> QED BY <2>1, <2>2
<1>9. FirstTick'
    BY <1>2, <1>6 DEF FirstTick
<1>10. BootQuiet'
    BY <1>1, <1>2 DEF DevInv, BootQuiet
<1> QED BY <1>4, <1>5, <1>7, <1>8, <1>9, <1>10 DEF DevInv

LEMMA ReaderServes ==
    ASSUME TypeOK, DevInv, NEW t \in Readers, StartRead(t) \/ SeeTick(t) \/ EndRead(t)
    PROVE  DevInv'
<1>6. t \in Terminals
    BY DEF ConstantsAssumption, Terminals
<1>7. scheduled_tid = t /\ stack[t] = <<>> /\ task[t] # "none"
    BY DEF StartRead, SeeTick, EndRead, InTask, Running
<1>8. UNCHANGED <<boot, isr, scheduled_tid, stack>>
    BY DEF StartRead, SeeTick, EndRead, pic
<1>9. boot = "done"
    BY <1>6, <1>7 DEF DevInv, BootQuiet
<1>1. /\ t \in Terminals /\ scheduled_tid = t /\ stack[t] = <<>> /\ task[t] # "none"
      /\ UNCHANGED <<boot, isr, scheduled_tid, stack>>
      /\ boot = "done"
    BY <1>6, <1>7, <1>8, <1>9
<1>2. task'[t] # "none" /\ \A u \in Terminals : u # t => task'[u] = task[u]
    BY <1>1 DEF StartRead, SeeTick, EndRead, Move, TypeOK
<1>3. Serves' /\ Once(stack') /\ Below(stack')
    BY <1>1 DEF DevInv, Serves
<1>4. Preempted'
    BY <1>1, <1>2 DEF DevInv, Preempted
<1>5. Open' /\ FirstTick' /\ BootQuiet'
    BY <1>1, <1>2 DEF Open, FirstTick, BootQuiet, Running
<1> QED BY <1>3, <1>4, <1>5 DEF DevInv

\* Boot has nothing in service: interrupts are off until it is done.
LEMMA BootServes == ASSUME TypeOK, DevInv, Booting PROVE DevInv'
<1>1. /\ boot # "done" /\ UNCHANGED <<scheduled_tid, stack, task>>
      /\ isr' = isr \/ isr' = {}
      /\ interrupts' => boot' = "done"
    BY DEF Booting, BootPic, BootRtc, BootKeyboard, BootPit, BootSti, Boot, i8259_init,
           enable_irq, tasks, pic, DevInv, BootQuiet
<1>2. \A t \in Terminals : stack[t] = <<>> /\ DOMAIN stack[t] = {} /\ task[t] = "none"
    BY <1>1 DEF DevInv, BootQuiet
<1>3. \A i \in Devices : ~Handled(stack, i)
    BY <1>2 DEF Handled
<1>4. Serves'
    BY <1>1, <1>3, FrameType DEF DevInv, Serves
<1>5. scheduled_tid \in Terminals
    BY DEF TypeOK
<1>6. Preempted' /\ Open' /\ FirstTick' /\ BootQuiet'
    BY <1>1, <1>2, <1>5 DEF Preempted, Open, FirstTick, InHandler, Running, BootQuiet
<1> QED BY <1>1, <1>4, <1>6 DEF DevInv

LEMMA NextServes ==
    ASSUME ~AnyFirstTick, TypeOK, DevInv, [Next]_vars PROVE DevInv'
<1>1. ASSUME UNCHANGED <<boot, isr, interrupts, scheduled_tid, stack, task>> PROVE DevInv'
    BY <1>1 DEF DevInv, Serves, Preempted, Open, FirstTick, InHandler, Running, BootQuiet
<1>2. CASE RtcTick \/ KeyPress \/ PitTick
    BY <1>1, <1>2 DEF RtcTick, KeyPress, PitTick, Request, tasks
<1>3. CASE UNCHANGED vars
    BY <1>1, <1>3 DEF vars, tasks, pic
<1>4. CASE pit_handler
    BY <1>4, FirstTickServes, TickServes
<1> QED BY <1>2, <1>3, <1>4, BootServes, InterruptServes, IretServes, HandlerServes,
           ReaderServes DEF Next, Handlers

LEMMA ServesAll == TypeOK /\ DevInv => InServiceIsHandled
<1> SUFFICES ASSUME TypeOK, DevInv PROVE InServiceIsHandled
    OBVIOUS
<1> DEFINE At(t) == {j \in DOMAIN stack[t] : Unfinished(stack[t][j])}
           All == UNION {UNION {Served(stack[t][k].irq) : k \in At(t)} : t \in Terminals}
<1>1. \A t \in Terminals : \A k \in DOMAIN stack[t] : stack[t][k].irq \in Devices
    <2>1. ASSUME NEW t \in Terminals, NEW k \in DOMAIN stack[t] PROVE stack[t][k] \in F
        <3>1. stack[t] \in Seq(F)
            BY StackType
        <3> QED BY <3>1, LenProperties
    <2> QED BY <2>1 DEF F
<1>2. \A x : x \in All <=>
        \E t \in Terminals : \E k \in DOMAIN stack[t] :
            Unfinished(stack[t][k]) /\ x \in Served(stack[t][k].irq)
    OBVIOUS
<1>3. \A i \in Devices : i \in All <=> i \in isr
    BY <1>1, <1>2, Numbers DEF DevInv, Serves, Handled, Handles
<1>4. Cascade \in All <=> Rtc \in All
    BY <1>1, <1>2, Numbers
<1>5. \A x : x \in All => x \in Irqs
    BY <1>1, <1>2, ServedType
<1>6. \A x \in isr : x \in Irqs
    BY DEF TypeOK
<1>7. All = isr
    BY <1>3, <1>4, <1>5, <1>6, FrameType DEF DevInv, Serves, Irqs
<1> QED BY <1>7 DEF InServiceIsHandled

\* An interrupt is in service exactly while a handler has yet to end it,
\* through nested handlers, on whatever terminal's stack the timer left it:
\* unless the timer first ticks in the clock's handler.
THEOREM NoneLeftInService ==
    ASSUME ~AnyFirstTick PROVE Spec => []InServiceIsHandled
<1>1. TypeOK /\ DevInv /\ [Next]_vars => TypeOK' /\ DevInv'
    BY NextType, NextServes
<1> QED BY InitType, InitServes, ServesAll, <1>1, PTL DEF Spec
=============================================================================
