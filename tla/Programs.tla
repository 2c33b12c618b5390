------------------------------ MODULE Programs ------------------------------
(***************************************************************************)
(* The user programs over the system calls: cat, ls, grep, fish, syserr,   *)
(* counter, hello and sigtest as they are written, and a client that makes *)
(* any calls.  A step is one system call with what the program computes    *)
(* up to the next; pc "start" is main(), "exit" its return.                *)
(***************************************************************************)
EXTENDS Shell, Grep

LOCAL INSTANCE SequencesExt

CONSTANTS
    BufSize,        \* the buffers of cat and grep, 1024
    Junk,           \* what a buffer on the stack may hold before it is written
    Counts,         \* counter's 100, 10000 and 100000, by the digit typed
    Wait            \* WAIT of fish, 100

ASSUME ProgramsAssumption ==
    BufSize \in Nat \ {0} /\ Junk \subseteq STRING /\ Counts \in [{"0", "1", "2"} -> Nat] /\ Wait \in Nat

vars == <<fileVars, shellVars>>

At(name, p) == prog = name /\ pc = p
Goto(p, locals) == pc' = p /\ loc' = locals /\ UNCHANGED programVars
Writes(bytes) == out' = Append(out, bytes)

-----------------------------------------------------------------------------
(* cat and ls                                                              *)

CatOpen ==
    /\ At(<<"cat">>, "start")
    /\ IF args = <<>> THEN Exit(3) /\ UNCHANGED fileVars
       ELSE /\ open(args)
            /\ IF OpenRet(args) = -1 THEN Exit(2) ELSE Goto("read", [fd |-> OpenRet(args)])
    /\ UNCHANGED out

CatRead ==
    /\ At(<<"cat">>, "read")
    /\ read(loc.fd, BufSize)
    /\ LET cnt == ReadRet(loc.fd, BufSize) IN
       CASE cnt = 0 -> Exit(0) /\ UNCHANGED out
         [] cnt = -1 -> Exit(3) /\ UNCHANGED out
         [] OTHER -> Goto("read", loc) /\ Writes(ReadData(loc.fd, BufSize))

LsOpen ==
    /\ At(<<"ls">>, "start")
    /\ open(<<".">>)
    /\ IF OpenRet(<<".">>) = -1 THEN Exit(2) ELSE Goto("read", [fd |-> OpenRet(<<".">>)])
    /\ UNCHANGED out

LsRead ==
    /\ At(<<"ls">>, "read")
    /\ read(loc.fd, NameSize)
    /\ LET cnt == ReadRet(loc.fd, NameSize) IN
       CASE cnt = 0 -> Exit(0) /\ UNCHANGED out
         [] cnt = -1 -> Exit(3) /\ UNCHANGED out
         [] OTHER -> Goto("read", loc) /\ Writes(ReadData(loc.fd, NameSize) \o <<"\n">>)

-----------------------------------------------------------------------------
(* grep: dir is the open directory, fd and fname the file do_one_file()    *)
(* searches, data and last its buffer.                                     *)

GrepOpenDir ==
    /\ At(<<"grep">>, "start")
    /\ IF args = <<>> THEN Exit(3) /\ UNCHANGED fileVars
       ELSE /\ open(<<".">>)
            /\ IF OpenRet(<<".">>) = -1 THEN Exit(2) ELSE Goto("list", [dir |-> OpenRet(<<".">>)])
    /\ UNCHANGED out

GrepList ==
    /\ At(<<"grep">>, "list")
    /\ read(loc.dir, NameSize)
    /\ LET cnt == ReadRet(loc.dir, NameSize) IN
       CASE cnt = 0 -> Exit(0)
         [] cnt = -1 -> Exit(3)
         [] cnt > 0 /\ ListedName[1] = "." -> Goto("list", loc)
         [] OTHER -> Goto("open", [dir |-> loc.dir, fname |-> ListedName])
    /\ UNCHANGED out

GrepOpen ==
    /\ At(<<"grep">>, "open")
    /\ open(loc.fname)
    /\ \E junk \in Junk :
        IF OpenRet(loc.fname) = -1 THEN Exit(3)
        ELSE Goto("search", [dir |-> loc.dir, fname |-> loc.fname, fd |-> OpenRet(loc.fname),
                             data |-> [i \in 0 .. BufSize |-> junk], last |-> 0])
    /\ UNCHANGED out

GrepSearch ==
    /\ At(<<"grep">>, "search")
    /\ read(loc.fd, BufSize - loc.last)
    /\ \E cnt \in {ReadRet(loc.fd, BufSize - loc.last)} :
        IF cnt = -1 THEN Exit(3) /\ UNCHANGED out
        ELSE \E data \in {Filled(loc.data, loc.last, ReadData(loc.fd, BufSize - loc.last))} :
             \E result \in {Search(data, loc.last + cnt, cnt, args)} :
                /\ out' = out \o [i \in DOMAIN result.found |-> <<loc.fname, result.found[i]>>]
                /\ Goto(IF cnt = 0 THEN "close" ELSE "search",
                        [loc EXCEPT !.data = Shifted(data, loc.last + cnt, result.kept),
                                    !.last = loc.last + cnt - result.kept])

GrepClose ==
    /\ At(<<"grep">>, "close")
    /\ close(loc.fd)
    /\ IF CloseRet(loc.fd) = -1 THEN Exit(3) ELSE Goto("list", [dir |-> loc.dir])
    /\ UNCHANGED out

-----------------------------------------------------------------------------
(* fish: two frames are read side by side, a character of each in turn;    *)
(* each pair becomes a blinking character.  (mp1_ioctl() and the tasklet   *)
(* are assembler that keeps the list of them.)                             *)

Frames == << <<"frame0">>, <<"frame1">> >>

FishOpenRtc ==
    /\ At(<<"fish">>, "start")
    /\ open(<<"rtc">>)
    /\ Goto("open", [rtc |-> OpenRet(<<"rtc">>), fds |-> <<>>])
    /\ UNCHANGED out

FishOpen ==
    /\ At(<<"fish">>, "open")
    /\ LET name == Frames[Len(loc.fds) + 1]
           fds == Append(loc.fds, OpenRet(name))
       IN  /\ open(name)
           /\ IF OpenRet(name) = -1 THEN Exit(-1)
              ELSE IF Len(fds) < 2 THEN Goto("open", [loc EXCEPT !.fds = fds])
              ELSE Goto("read", [rtc |-> loc.rtc, fds |-> fds, c |-> <<"0", "0">>,
                                 eof |-> <<FALSE, FALSE>>, row |-> 0, col |-> 0, k |-> 1])
    /\ UNCHANGED out

\* One character of frame k; k = 3 when both are read
FishRead ==
    /\ At(<<"fish">>, "read") /\ loc.k \in {1, 2}
    /\ IF loc.c[loc.k] = "\n"
       THEN Goto("read", [loc EXCEPT !.k = @ + 1]) /\ UNCHANGED fileVars
       ELSE LET fd == loc.fds[loc.k]
                num_bytes == ReadRet(fd, 1)
            IN  /\ read(fd, 1)
                /\ Goto("read", [loc EXCEPT
                     !.c[loc.k] = CASE num_bytes = 0 -> "\n"
                                    [] num_bytes = 1 -> ReadData(fd, 1)[1]
                                    [] OTHER -> @,
                     !.eof[loc.k] = @ \/ num_bytes = 0,
                     !.k = @ + 1])
    /\ UNCHANGED out

Mutant_Shown(c) == c
Shown(c) == IF c = "\n" THEN Space ELSE c

FishBlink ==
    /\ At(<<"fish">>, "read") /\ loc.k = 3
    /\ out' = IF {loc.c[1], loc.c[2]} \subseteq {Space, "\n"} THEN out
              ELSE Append(out, [row |-> loc.row, col |-> loc.col,
                                on_char |-> Shown(loc.c[1]), off_char |-> Shown(loc.c[2])])
    /\ IF loc.c = <<"\n", "\n">> THEN Goto("row", [loc EXCEPT !.k = 1])
       ELSE Goto("read", [loc EXCEPT !.col = @ + 1, !.k = 1])
    /\ UNCHANGED fileVars

\* The end of a row: a frame that ended is closed, in every row again
NextChar(eof) == IF eof THEN "\n" ELSE "0"
FishRow ==
    /\ At(<<"fish">>, "row")
    /\ IF loc.eof[loc.k] THEN close(loc.fds[loc.k]) ELSE UNCHANGED fileVars
    /\ LET next == [loc EXCEPT !.c[loc.k] = NextChar(loc.eof[loc.k]), !.k = @ + 1] IN
       IF loc.k = 1 THEN Goto("row", next)
       ELSE IF loc.eof = <<TRUE, TRUE>> THEN Goto("clock", [rtc |-> loc.rtc, i |-> 0])
       ELSE Goto("read", [next EXCEPT !.row = @ + 1, !.col = 0, !.k = 1])
    /\ UNCHANGED out

\* Four times WAIT ticks, with a call of mp1_ioctl() between
FishClock ==
    /\ At(<<"fish">>, "clock")
    /\ IF loc.i < 4 * Wait
       THEN read(loc.rtc, 4) /\ Goto("clock", [loc EXCEPT !.i = @ + 1])
       ELSE close(loc.rtc) /\ Exit(0)
    /\ UNCHANGED out

-----------------------------------------------------------------------------
(* syserr: each test makes calls that must fail, but for the third, which  *)
(* opens as often as there are descriptors and once more.                  *)

NegFd == -1073741823
BigFd == 1073741823
UserFds == [i \in 1 .. MaxFiles - 2 |-> i + 1]
Calls(call, fds) == [i \in DOMAIN fds |-> <<call, fds[i]>>]

Mutant_LastFd == MaxFiles
LastFd == MaxFiles - 1
OpenLots ==
    [i \in 1 .. MaxFiles - 1 |-> <<"open", <<".">> >>] \o Calls("close", [i \in 1 .. LastFd - 1 |-> i + 1])
Tests ==
    << << <<"read", NegFd>>, <<"write", NegFd>>, <<"close", NegFd>> >>,
       << <<"read", BigFd>>, <<"write", BigFd>>, <<"close", BigFd>> >>,
       OpenLots,
       << <<"open", <<"hell", "o", "o">> >>, <<"open", <<"shel">> >>, <<"open", <<>> >> >>,
       Calls("close", <<0, 1>> \o UserFds) \o Calls("read", UserFds) \o Calls("write", UserFds),
       << <<"vidmap", 0>>, <<"vidmap", 4194304>> >>,
       << <<"write", 0>>, <<"read", 1>> >>,
       << <<"syscall", 1073741823>>, <<"syscall", -1073741823>>, <<"syscall", 0>> >> >>

\* vidmap() takes an address in the page of the user program.
USER_VMEM == 134217728
USR_PROGRAM_PAGE_SIZE == 4194304
VidmapRet(address) == IF address \in USER_VMEM .. USER_VMEM + USR_PROGRAM_PAGE_SIZE THEN 0 ELSE -1
\* syscall_link: any other number gives a call of the table.
NoSuchCall(num) == num \notin 1 .. 10

CallRet(c) ==
    CASE c[1] = "read" -> ReadRet(c[2], 31)
      [] c[1] = "write" -> WriteRet(c[2], 31)
      [] c[1] = "open" -> OpenRet(c[2])
      [] c[1] = "close" -> CloseRet(c[2])
      [] c[1] = "vidmap" -> VidmapRet(c[2])
      [] c[1] = "syscall" -> IF NoSuchCall(c[2]) THEN -1 ELSE 0

MakeCall(c) ==
    CASE c[1] = "read" -> read(c[2], 31)
      [] c[1] = "open" -> open(c[2])
      [] c[1] = "close" -> close(c[2])
      [] OTHER -> UNCHANGED fileVars

Failures(rets) == Cardinality({i \in DOMAIN rets : rets[i] = -1})
Fails(test, rets) ==
    IF test = 3 THEN Failures(SubSeq(rets, 1, MaxFiles - 1)) # 1 ELSE Failures(rets) # Len(rets)

Digits == <<"0", "1", "2", "3", "4", "5", "6", "7", "8">>
SyserrSelect ==
    /\ At(<<"syserr">>, "start")
    /\ \E line \in Lines :
        LET chosen == {t \in 0 .. 8 : Char(line, 0) = Digits[t + 1]} IN
        \/ chosen = {} /\ Exit(0)
        \/ \E t \in chosen \ {0} : Goto("call", [test |-> t, last |-> t, rets |-> <<>>, fail |-> 0])
        \/ 0 \in chosen /\ Goto("call", [test |-> 1, last |-> 8, rets |-> <<>>, fail |-> 0])
    /\ UNCHANGED <<out, fileVars>>

SyserrCall ==
    /\ At(<<"syserr">>, "call") /\ Len(loc.rets) < Len(Tests[loc.test])
    /\ LET c == Tests[loc.test][Len(loc.rets) + 1] IN
        /\ MakeCall(c)
        /\ Goto("call", [loc EXCEPT !.rets = Append(@, CallRet(c))])
    /\ UNCHANGED out

SyserrVerdict ==
    /\ At(<<"syserr">>, "call") /\ Len(loc.rets) = Len(Tests[loc.test])
    /\ LET fail == loc.fail + (IF Fails(loc.test, loc.rets) THEN 2 ELSE 0) IN
       IF loc.test = loc.last THEN Exit(fail)
       ELSE Goto("call", [loc EXCEPT !.test = @ + 1, !.rets = <<>>, !.fail = fail])
    /\ UNCHANGED <<out, fileVars>>

-----------------------------------------------------------------------------
(* hello, counter and sigtest                                              *)

Hello ==
    /\ At(<<"hell", "o">>, "start")
    /\ \E line \in Lines : Writes(<<"Hello, ">> \o line \o <<"\n">>)
    /\ Exit(0)
    /\ UNCHANGED fileVars

\* The length counts the newline: an empty line passes, with max 0.
CounterSelect ==
    /\ At(<<"count", "e", "r">>, "start")
    /\ \E line \in Lines :
        LET length == Len(line) + 1 IN
        IF length > 2 \/ (length = 2 /\ line[1] \notin DOMAIN Counts) THEN Exit(0)
        ELSE Goto("count", [i |-> 0, max |-> IF line = <<>> THEN 0 ELSE Counts[line[1]]])
    /\ UNCHANGED <<out, fileVars>>

Count ==
    /\ At(<<"count", "e", "r">>, "count")
    /\ IF loc.i < loc.max THEN Writes(<<loc.i + 1>>) /\ Goto("count", [loc EXCEPT !.i = @ + 1])
       ELSE Exit(0) /\ UNCHANGED out
    /\ UNCHANGED fileVars

\* set_handler() fails, so the store through the null pointer ends it.
SigTest ==
    /\ At(<<"sigtest">>, "start")
    /\ IF args = <<>> THEN Exit(3) ELSE \E line \in Lines : Fault
    /\ UNCHANGED <<out, fileVars>>

-----------------------------------------------------------------------------
(* Any other program; a store or a write that faults ends it with 255.     *)

ClientCall ==
    /\ At(<<"client">>, "start")
    /\ Client
    /\ UNCHANGED shellVars

ClientExit ==
    /\ At(<<"client">>, "start")
    /\ \/ \E status \in {-1, 256} : Exit(status)
       \/ \E n \in Requests : WriteFaults(MaxFiles, n) /\ Fault
    /\ UNCHANGED <<out, fileVars>>

-----------------------------------------------------------------------------
Init == ShellInit

ProgramNext ==
    \/ CatOpen \/ CatRead \/ LsOpen \/ LsRead
    \/ GrepOpenDir \/ GrepList \/ GrepOpen \/ GrepSearch \/ GrepClose
    \/ FishOpenRtc \/ FishOpen \/ FishRead \/ FishBlink \/ FishRow \/ FishClock
    \/ SyserrSelect \/ SyserrCall \/ SyserrVerdict
    \/ Hello \/ CounterSelect \/ Count \/ SigTest
    \/ Halt \/ HaltLost

ProgramsNext == ProgramNext \/ ShellRead \/ Execute \/ ClientCall \/ ClientExit

\* The scheduler gives every terminal its turn (EveryTerminalRuns of module
\* Process), the clock ticks and the user answers a program that reads a line.
ProgramsSpec == Init /\ [][ProgramsNext]_vars /\ WF_vars(ProgramNext)

-----------------------------------------------------------------------------
\* Lines of a text, counted from 0: the newlines before a place, and where
\* its line began
RowOf(s, i) == Cardinality({j \in 1 .. i - 1 : s[j] = "\n"})
Row(s, r) ==
    LET places == {i \in 1 .. Len(s) : RowOf(s, i) = r /\ s[i] # "\n"} IN
    IF places = {} THEN <<>>
    ELSE SubSeq(s, CHOOSE i \in places : \A j \in places : i <= j,
                   CHOOSE i \in places : \A j \in places : i >= j)
Rows(s) == [k \in 1 .. RowOf(s, Len(s) + 1) + 1 |-> Row(s, k - 1)]

InodeOf(name) == Dentries[Lookup(name)].inode_count
IsFile(name) == Entries(name) # {} /\ Dentries[Lookup(name)].file_type = RegularFile
Ended(name) == prog = name /\ pc = "exit" /\ loc.status = 0

\* cat writes the file it was asked for, all of it, whatever its length is
\* to the size of the buffer and of a block.
CatIsExact ==
    Ended(<<"cat">>) /\ IsFile(args) /\ Sound(InodeOf(args)) =>
        FlattenSeq(out) = Content(InodeOf(args))

\* ls ends well and has written every name once, in the order of the table.
LsListsAll ==
    prog = <<"ls">> /\ pc = "exit" =>
        /\ loc.status = 0
        /\ FlattenSeq(out) = FlattenSeq([i \in DOMAIN Dentries |->
               IF Dentries[i].name = <<>> THEN <<>> ELSE Dentries[i].name \o <<"\n">>])

\* Of hits the lines found in a file; of lines those with the pattern
HitsIn(name, hits) ==
    FlattenSeq([i \in DOMAIN hits |-> IF hits[i][1] = name THEN <<hits[i][2]>> ELSE <<>>])
WithPattern(lines, s) ==
    FlattenSeq([k \in DOMAIN lines |-> IF Matches(lines[k], s) THEN <<lines[k]>> ELSE <<>>])

\* grep writes exactly the lines with the pattern, of every file: lines that
\* the reads cut included, unless they are longer than the buffer.  (That its
\* buffer does not begin with newlines is luck, so Junk has none.)
GrepFindsLines ==
    Ended(<<"grep">>) =>
        \A name \in {Dentries[i].name : i \in DOMAIN Dentries} :
            LET lines == Rows(Content(InodeOf(name))) IN
            IsFile(name) /\ Sound(InodeOf(name)) /\ (\A k \in DOMAIN lines : Len(lines[k]) <= BufSize) =>
                HitsIn(name, out) = WithPattern(lines, args)

\* fish lays the two frames over each other: at every place where one of
\* them has a character the two blink, the shorter lines and the shorter
\* frame filled with blanks.
CharAt(s, r, c) == IF r + 1 \in DOMAIN Rows(s) /\ c + 1 \in DOMAIN Row(s, r) THEN Row(s, r)[c + 1] ELSE Space
FramesMerged ==
    At(<<"fish">>, "clock") =>
        LET text(k) == Content(InodeOf(Frames[k]))
            places == (0 .. Len(text(1)) + Len(text(2))) \X (0 .. Len(text(1)) + Len(text(2)))
        IN  {out[i] : i \in DOMAIN out}
            = {[row |-> p[1], col |-> p[2], on_char |-> CharAt(text(1), p[1], p[2]),
                                            off_char |-> CharAt(text(2), p[1], p[2])] :
                  p \in {q \in places : \E k \in {1, 2} : CharAt(text(k), q[1], q[2]) # Space}}

\* Every test of syserr passes: each wrong call fails, and of MaxFiles - 1
\* opens after start-up only the last, whatever the tests before left open.
SyserrPasses == prog = <<"syserr">> /\ pc = "exit" => loc.status = 0

\* The programs never touch the ninth descriptor, the frame halt() returns to.
FrameKept == prog # <<"client">> => parent_ebp

\* Every program comes to its end and gives the terminal back to the shell.
Written == {<<"cat">>, <<"ls">>, <<"grep">>, <<"fish">>, <<"syserr">>, <<"count", "e", "r">>,
            <<"hell", "o">>, <<"sigtest">>}
ProgramsEnd == \A name \in Written : prog = name ~> prog = ShellName
=============================================================================
