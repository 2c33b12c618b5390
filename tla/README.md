# A verification of the 391OS kernel

TLA+ models, TLC runs and TLAPS proofs for the kernel in `src/student-distrib`
and the programs that run on it (`src/syscalls`, `src/fish`): a small x86 kernel
with one processor, three terminals, six processes, a read-only file system and
a round-robin scheduler driven by the timer. File names below are relative to
`src/student-distrib` unless they begin with `ece391` or `fish`.

## 1. The system

| Component | State | Operations | Interacts through |
|---|---|---|---|
| Process layer (`syscalls.c`, `pit.c`, `idt.c`) | `process_array`, `processes_running`, the PCBs at the bottom of the kernel stacks, `tss.esp0`, the program page at 128 MB, `terminals[].active_task_pid`, `scheduled_tid` | `execute`, `halt`, `schedule`, `get_pcb`, `exception_handler` | saved stack pointers; the timer preempts whatever runs with interrupts on |
| Terminal line discipline (`keyboard.c`) | `line_buffer`, `tab_buffer`, `nchars`, `enter_flag` of each terminal, `displayed_tid` | keyboard interrupt, `terminal_read` | the reader waits on `enter_flag`, which the interrupt sets |
| Screens (`keyboard.c`, `lib.c`, `paging.c`) | video memory, a page for each terminal, the page that `VIDEO` and the vidmap address stand for, `screen_x/y` of lib.c and of each terminal, the display's cursor | `terminal_write`, echo, CONTROL-L, `switch_terminal`, `switch_vmem_paging`, `vidmap`, `putc` | one global mapping, turned by writers, the keyboard and the scheduler |
| Descriptors and file system (`syscalls.c`, `file_system.c`) | `fd_array` of a PCB; the image, never written | `open`, `close`, `read`, `write`, `read_dentry_by_name/index`, `read_data`, `dir_read` | finds its PCB with `get_pcb()` |
| Real-time clock (`rtc.c`) | `rtc_interrupt_enabled`, the registers | interrupt, `rtc_read`, `rtc_write`, `rtc_open` | one flag for all readers |
| Command parsing (first part of `execute`) | locals | name, arguments, tests of the image | calls `read_dentry_by_name`, `read_data` |
| Interrupt controller and gates (`i8259.c`, `idt.c`, `interrupt_linkage.S`, `kernel.c`) | masks, requests, interrupts in service, the interrupt flag, the frames on the stacks | boot, `enable_irq`, `send_eoi`, the handlers' entry and return | decide what can interrupt what |
| User programs (`ece391*.c`, `fish.c`) | their buffers, descriptors and place | shell, cat, ls, grep, fish, syserr, counter, hello, sigtest | system calls |
| GDT, paging set-up, kernel tests | constant once booted | initialisation | - |

What is hard in it:

* **Interleaving.** System calls and device interrupts go through interrupt
  gates, exceptions through trap gates (`idt.c:97`), and some handlers call
  `sti()` early. A tick may therefore come in user mode, while `terminal_read`
  and `rtc_read` wait, in the clock's handler before its `cli()` (its gate is a
  trap gate, `idt.c:140`), between the `sti()` of `execute_context_switch` and its
  `iret`, within `halt()` called by an exception handler, and within
  `switch_terminal`.
* **Stale pointers.** `schedule` and `halt` resume stack pointers saved earlier,
  into stacks that others have run on since.
* **A count instead of a name.** `get_pcb` computes an address from the number
  of processes, so it is right only if processes end in a certain order.
* **One mapping for all.** Which screen a store reaches depends on the last
  `switch_vmem_paging`.
* **Shared buffers.** The keyboard edits the line that a reader has yet to copy.
* **Boundaries.** End of a line, of a screen, of a block, of a buffer, of a
  table.
* **One flag for all readers.** `rtc_read` waits on it and sets it again, the
  clock's handler clears it.

What makes each part correct: the process layer gives every terminal a stack of
nested programs and runs each of them with its own page, kernel stack and PCB;
the line discipline gives a reader the line entered after it began to read; each
terminal has a screen only its own programs and keys change; a descriptor reads
the file it was opened on, portion by portion; the programs do what they are
for over those calls and come to an end; no interrupt is left in service, and a
program that waits for the clock gets a tick.

## 2. Modules

| Module | Models | Form |
|---|---|---|
| `Process` | process layer: one action per system call and per stretch of code between two points where the timer can come | state machine, properties |
| `Orderly` | the discipline under which the process layer works, the inductive invariant `OrderlyInv` it keeps, and the mapping to `Sessions` | restriction of `Process`, refines `Sessions` |
| `Sessions` | abstract: a terminal is a stack of programs, terminals take turns | abstract specification |
| `MCProcess` | progress of the terminals, the weakened disciplines | model checking |
| `Terminal`, `MCTerminal` | line discipline | state machine |
| `Files` | descriptors and file system: open, close, read, write | state machine, pure operators |
| `Shell` (over `Files`) | the shell, the parsing of a command, `execute` and `halt` as a program sees them | state machine, pure operators |
| `Grep` | the search of a buffer for lines | pure operators |
| `Programs` (over `Shell`, `Grep`), `MCPrograms` | the user programs call by call, and one that makes any calls; a small image | state machine, end-to-end properties |
| `Devices`, `MCDevices` | interrupt controllers, gates, boot, handlers and `rtc_read` | state machine, liveness |
| `Console` | `putc`, `scroll` as operators on a screen and a cursor | pure operators |
| `Screens` | abstract: a console per terminal | abstract specification |
| `Video`, `MCVideo` | pages, mapping, cursors, switching, vidmap | refines `Screens` |
| `ProcessProofs`, `OrderlyProofs` | theorems about the process layer, with any order of ends and under the discipline | TLAPS |
| `TerminalProofs`, `DevicesProofs`, `VideoProofs` | theorems about the line, the interrupts, the screens | TLAPS |
| `FilesProofs`, `ProgramsProofs` | theorems about descriptors, commands and programs | TLAPS |
| `Induction` | induction over the natural numbers and the recursive functions it gives, used by the others | TLAPS |

How state corresponds to code:

* `Process`: stacks are not modelled word by word. A saved `esp` is the stack it
  points into, how deep it lies, and whether it is still `intact`, i.e. nobody
  has run deeper on that stack since (`Unprotect`). Resuming a frame that is not
  intact may go right or lead to `Lost`. `pc` says where the processor is:
  `start` lies between `sti()` and `iret` of `execute_context_switch`, and
  `load .. jump` are the stretches of a `halt()` called by an exception handler.
  `processes_running--` is a load and a store there.
* `Terminal`: a waiting `terminal_read` is `reader[t]` = its `nbytes`. What the
  handler does while a key is pressed is one action each: `Type`, `TypeTab`,
  `Backspace`, `Enter`, `SwitchTerminal`. `KeyChars` are the characters a key may
  put into a line; `scan_codes` gives F1, F2 and F3 the codes 9, 10 and 11
  (`keyboard.c:65-67`), so without ALT F1 types a `'\t'` and F2 a `'\n'` there. The
  history `typed` is what the keys have put into the line being edited and not
  taken back, `entered` that of the line at the last ENTER since the read began.
* `Files`: `fd_array` is that of the code; `read_data`'s loop is the recursive
  function in `ReadLoop`, with its block and byte indices. The histories `got`
  and `listed` are what came back through a descriptor since it was opened.
  `parent_ebp` is the field of the PCB that a ninth descriptor's flags fall on:
  whether it is still the frame `halt` returns to. Names are sequences of units
  that need not be single characters (`<<"shel", "l">>`): what matters is which
  name is a beginning of which, and how many units a name may have.
* `Shell`, `Programs`: a step is one system call with what the program computes
  up to the next, `pc` its place, `loc` its locals, `out` what it has written.
  One terminal; `depth` counts its programs, `Free` the slots that are left.
  That `get_pcb()` finds its PCB and that it goes on where it was interrupted
  is the business of `Process`. Reading a line is a choice among `Lines`
  (`Terminal` has how it comes about).
* `Devices`: `irr`, `isr`, `imr` are those of both controllers; a handler is a
  frame on the stack of the terminal it interrupted, with its place: `entry`,
  `body` (the clock's handler after its `cli()`), `resume` (the timer's, when
  its terminal is scheduled again), `exit` (after `sti()`). The first tick
  starts a shell on `entry()`'s stack, which is left.
* `Video`: a page is its cells; `vmem` is the page that kernel address `VIDEO`
  and the vidmap address stand for, which `switch_vmem_paging` always turns
  together. `PageCells` are the cells of a page, of which the screen is the first:
  behind video memory lie the pages of the terminals, in order, and what `putc`
  stores past its page is in one of them (`StoredPast`, `Hit` in `PutOn`).
  `switching[t]` says that the handler of a switch was left after its
  `sti()` on the stack of terminal t's task, the history `interrupted[t]` that an
  interrupt came there since. The history `stray` says that CONTROL-L or such an
  interrupted handler was the last to move the display's cursor. `StartProgram`
  and `EndProgram` are what `execute` and `halt` do to the page: nothing, and a
  turn to the scheduled terminal's. A `write()` of several characters
  is several steps here, a refinement of granularity only: the code has
  interrupts off between them.

## 3. Runs

| Run | Question | Instance | Result |
|---|---|---|---|
| `process_anyorder` | what holds whatever order programs end in: types, a running program is a process, `UserMatches` | 2 terminals, 4 slots, no exceptions | holds |
| `process_orderly` | `OrderlyInv` and its parts, `ShellKept`, refinement of `Sessions`, every terminal runs | 2 terminals, 4 slots, fairness | holds |
| `process_getpcb` | is `get_pcb()` the running program's? | 3 terminals, 6 slots | no: finding |
| `process_shared` | can two terminals run one process? | 3, 6 | yes: finding |
| `process_exception` | are exception handlers safe from the timer? | 3, 6 | no: finding |
| `terminal_lines` | types, the line is what was typed, exact reads, no stale line, ENTER wakes the reader | 2 terminals, lines of 3, tabs of 2, requests of 2 | holds |
| `terminal_mangled` | does a read give the line ENTER ended whatever is typed after? | the same with one more character, requests of 2 and 4 | no: finding |
| `programs` | reads are content, 0 means end, first listing complete, descriptors kept; commands reach programs as typed; cat, ls, grep, fish and syserr give what they are for; every program ends | 5 descriptors, 17 entries, blocks of 4, buffers of 3, 1 free slot | holds |
| `programs_listing` | is every listing complete? | same | no: finding |
| `devices_clock` | no interrupt is left in service, a tick between two reads of the clock, readers are served | boot, 2 terminals that both read, 1 key, 3 frames on a stack | holds |
| `video_screens` | refinement of `Screens`, vidmap stores stay home, the cursor follows the display; with CONTROL-L, and with rows that run past their page | 2 terminals, 2 rows, 1 column, pages of 2 cells | holds |
| `video_vidmap` | the same for programs that `write()` after `vidmap()` | 2 terminals, 2x2 | no: finding |

Why the bounds suffice. Two terminals give every pairing of "the terminal that
runs" with "the terminal on display" or "another one"; the three findings that
need the actual configuration use the code's three terminals and six slots. Four
slots for two terminals let both terminals nest a program and the table be full.
(What the proofs show they show for every size; see 4.) `KernelBlocks` and `Word` are small, so
that a counter that leaves the table, leaves the mapped page or wraps does so
within the run. A line of three cells with a tab of two has a tab that fits, one
that is cut and one that starts on the last cell; lines are empty, shorter than a
request of 2, as long and longer, and hold the characters of F1 and F2 and the
spaces of tabs, which are all that any test of the code tells apart. Blocks of four bytes
with files of 4, 5, 8 and 10 end a file within and at the end of a block; buffers
of three start reads within blocks and cross their ends; the block numbers are
out of order so that a wrong one shows. Five descriptors leave three for
programs: a file open twice, two listings, grep's directory and file, fish's
clock and frames. The lines of the text are shorter than the buffer, as long,
and cut by its end and by the end of the file; the frames differ in number and
length of lines. `ClientFiles` bounds what the free program has open, `Free`
leaves one slot, so that a program finds the table full by running a shell. The
lines typed are the commands of all programs and every sequence of up to three
of two names and a space. Two terminals that read the clock share its flag and
leave handlers on each other's stacks; `MaxKeys` and `MaxFrames` bound keys and
nesting. With two keys and four frames the run holds too and takes minutes.
Both levels of the screens' refinement share `putc`, so a screen
of two cells suffices: what is checked is the pages and cursors. `MaxColumn` ends
behaviours in which the column has run past the edge: a backspace over the start
of a row leaves the column at the edge (1 here), where the next characters are
put over the row below, and from the last row past the page. With `PageCells = 2`
that is a hidden terminal's page at once, so the run has such stores, and
`Screens` allows them nothing else. `MaxColumn` also keeps rows from running
past the last page, where the kernel would fault (`VideoAssumption`).
`StartSwitch` bounds a task to one unfinished switch on its stack.
`CHECK_DEADLOCK FALSE` is set for five process runs and the two programs runs
only. `Lost` and `HaltLost` have no successor by design: nothing is known of a
processor that has jumped into overwritten memory, or that has left `halt()` by a
frame at address 0 because a program closed descriptor 8, which overlays the
saved `parent_ebp`.

Fairness. `EveryTerminalRuns` and the progress of `Sessions` assume that a timer
interrupt that stays possible is taken (the PIC keeps it pending), that a task in
`start` which is scheduled again and again reaches its `iret`, and that a handler
that runs takes its steps. The assumption on ticks and `EnterUser` is strong
because ticks and entries disable each other. `EnterWakesReader` assumes that a waiting
reader gets the processor again and again, which is what `EveryTerminalRuns`
shows of the scheduler. `ProgramsEnd` assumes that a program that
can go on does: it is scheduled, the clock ticks, and the user answers when it
reads a line. `ReadersServed` assumes that timer and clock tick, and of handlers,
interrupts and readers that can go on again and again that they do (strong
fairness, since each excludes the others for a while). Nothing else is assumed
of users or programs.

Assumptions about the inputs, each a named ASSUME or constant:

* `LinesAssumption` (Shell): no command whose name would overflow
  `file_command`: with k leading spaces the loop at `syscalls.c:115` takes
  k more characters than there is room for. No NUL either, which ESC types: the
  string would end there.
* `ReadableAssumption` (Shell): executables have no bad block (hazard at
  `syscalls.c:175`).
* `Junk` (Programs): grep's buffer holds no newline before its first use. With
  one `GrepFindsLines` is violated: `data[last]` is compared unread.
* `AnyFirstTick = FALSE` (Devices): the first tick of the timer does not fall
  between the trap gate of the clock and its `cli()`. With TRUE
  `InServiceIsHandled` is violated: `execute("shell")` leaves the stack with the
  clock's interrupt in service in both controllers, and the clock is dead.
* A device does not ask again while its last handler has yet to return to what
  runs (`Request`): handlers take microseconds, requests come every millisecond
  at most.

### Findings

1. `get_pcb()` names the newest process, not the running one (`syscalls.c:40`):
   with three shells the first two use the third's descriptors.
2. A base shell respawned out of order takes a slot and a PCB of different
   numbers; later a slot is freed that another terminal runs in and is given
   away again (`syscalls.c:177`). With five slots or more it goes further, as
   the attempt to prove `ShellKept` for any order of ends showed:
   `processes_running` falls to 0 while programs run and wraps at the next exit,
   and a terminal is left without a shell. `ShellKept`, and `TableIsPrefix` for
   the counter, are therefore checked and proved under the discipline of `Orderly`.
3. Exceptions go through trap gates although the comment says interrupt gates
   (`idt.c:97`); a tick inside `halt()` returns to the parent with the dead
   child's page.
4. Keys typed after ENTER overwrite the line before its reader copies it
   (`keyboard.c:335`).
5. `dir_read()` keeps its position in descriptor 0 (`file_system.c:209`).
6. `terminal_write()` leaves the displayed terminal's page mapped for vidmap too
   (`keyboard.c:285`).

## 4. Proofs

All hold for every number of terminals and processes, every size of lines,
screens, buffers, blocks and tables, and every image, from the named assumptions
on the constants. Hypotheses beyond those are named below.

**`ProcessProofs`** (`Spec`, any order of ends).
`TypeCorrect`, `TaskExists`: inductive invariant
`TypeInv == TypeOK /\ RunningHasTask`; the types need `RunningHasTask`, because
`schedule` and `halt` index the PCBs with the active task. One lemma per action;
`ExecType`, `ResumeType`, `ReturnType`, `UnprotectType` carry what they share.
`UserHasItsOwn` (`NoCrashSpec`): `UserMatches` is not inductive; `MatchInv` adds
that the same holds at `start`, and that every suspended context comes back with
the kernel stack of its task.

**`OrderlyProofs`** (`OrderlySpec`, exception handlers included as long as no tick
preempts them). `OrderlyCorrect`: `OrderlyInv` is inductive together with
`TypeInv`. It is long because its parts need each other: that a halting program
is the newest process (so that `get_pcb` finds it) needs the nesting, which needs
that the active task of a terminal is its youngest, which needs that the frames
`halt` returns to are intact, which needs that nobody runs on a stack that is not
his. To move them together they are restated for any PCBs of which the first n
are in use (`Named`, `Nests`, `Framed`, `Youngest`, `Suspended`): `LoadKeeps` says
what starting a program does to them, `Shrink` the end of one, `GoOnKeeps` the
return to a saved context, `RespawnKeeps` the new shell of a terminal,
`QuietStep` a step that leaves them alone. The seven places of a `halt()` called
by an exception handler are seven lemmas. What follows: `SlotsArePrefix`,
`ProgramsNest`, `YoungestRuns`, `ReturnFramesSurvive`, `SavedContextsSurvive`,
`ProgramsNotShared`, `OrderlyUserHasItsOwn`, `NeverLost` (no jump into an
overwritten stack), and the action property `ShellAlwaysKept`. By `SlotsArePrefix`
the counter is the number of slots taken, so a full table is all slots and the
search of a slot never runs off it.

`SessionsImplemented` is the safety part of the refinement of `Sessions`. The
session of a terminal is `Ordered` of its processes: the one in place i is the one
that i of them do not exceed. A number above those of a set comes last in its
sequence (`OrderedAppend`), so the sessions follow from three facts about a step:
whether the number of live processes (`Live`) goes up, down or stays, and whose
the process is that comes or goes (`SessionGrows`, `SessionShrinks`,
`SessionStays`). A shell that a call of `halt` replaces in its slot shows no change;
one that crashes leaves its session empty until the next step, and no tick comes
in between. A turn finds the session of the next terminal empty just while the
terminals boot.

**`TerminalProofs`** (`Spec`): `TerminalTypes`, `LinesAreTyped`, `NoStaleLine`,
`ReadIsExact`, from `LineInv == TypeOK /\ LineIsTyped /\ ReadWaitsForEnter /\
LineStands`. `LineIsTyped` needs that the newline a cut tab leaves lies behind
the end of the line, and that a backspace takes the same cells off the line and
the history. `LineStands` ties the history of the line entered to the buffer: as
long as no key was pressed since ENTER the buffer holds that line followed by a
newline. What a read gives is the line up to its first newline, be it ENTER's or
one that F2 typed (`FirstNewline`); nothing is assumed of the characters but that
`'\t'`, `'\n'` and the blank differ.

**`DevicesProofs`** (`Spec`). `DeviceTypes`; `ReadersSeeTicks`, from `TickInv`:
the shared flag is clear only when every reader has had a tick.
`NoneLeftInService` has the hypothesis `~AnyFirstTick` (see the assumptions
above): every interrupt in service has, on one stack and once, a frame of a
handler that has yet to send its end. `DevInv` has that in both directions
(`Serves`), that a device is on the stacks once (`Once`), that what lies under
such a frame could be interrupted by it (`Below`), what interrupts are masked or
enabled meanwhile (`Preempted`, `Open`), and that the first tick, which abandons
a stack, finds no frame of the clock's on it. Four lemmas say what pushing,
replacing, popping and abandoning frames do to these, whatever the device.

**`Induction`**. The theorems on induction in the library take an operator as a
parameter; here induction is said over a set of numbers instead
(`SetInduction`, from the well-foundedness of `<`), and from it `Iterates` and
`Descends`: a recursive function on an initial segment of the numbers, counted up
or down, satisfies its equation. This gives `ReadLoop`, `FlattenSeq` and the
cells of a tab a value the provers can use.

**`FilesProofs`** (`Spec`: a process that makes any calls; `Call` has any names,
descriptors and sizes, for use by `ProgramsProofs`). `FileInv == TypeOK /\ ConsoleKept /\ ReadsInv /\
ListingInv`. `ReadsInv` says that through a descriptor of a file without bad
blocks came its first bytes, as many as its position says; that a read appends
the right ones is the lemma on the loop of `read_data` (its block and byte index
are quotient and remainder of the position, at every step). `ListingInv` ties
the cursor that all listings share to the one listing there is. Theorems
`FileTypes`, `TerminalDescriptorsStay`, `ReadsGiveContent`, `NothingMeansEnd`,
`OnlyListingIsInOrder`, and the action property `DescriptorsStandForTheirFile`.

**`ProgramsProofs`** (`ProgramsSpec`: the shell, its programs, and the one that
makes any calls). `FilesWithPrograms`, `DescriptorsWithPrograms`: each program's
step makes at most one call, so `FileInv` goes through; a read must not be of a
negative size, which for grep needs `GrepInv` (what it keeps of its buffer fits).
`LinesAreParsed` (`CommandParsed`): a line without leading spaces is a name, spaces
and the rest, and the two loops of `execute` stop where these do. `CatCopiesFile`:
what cat has written is what its descriptor has given, so at the end it is the
file. `LsWritesNames`: what ls has written are the entries up to the cursor;
hypothesis `ListableImage`: there is a directory ".", and the entries without a
name are exactly those behind the last named one, at least one of them. (The
image of the repository is so. If the table were full of names ls would end with
3, since `dir_read` answers -1 there.) `ProgramsSpareFrame` (`FrameKept`): fish and
syserr are the programs that close what they computed; hypothesis
`MaxFiles < BigFd`, for syserr closes its big descriptor. `SyserrSucceeds`
(`SyserrPasses`): `WrongCallFails` goes through the calls that must fail while the
descriptors from 2 are free; in the third test those in use are an interval whose
upper end goes up with each open and whose lower end with each close
(`OpensAndCloses`), so the test leaves none and the next may begin; hypothesis
`SyserrImage`: there is a ".", and none of the names the tests make up.
`FishMergesFrames` (`FramesMerged`): fish reads its two frames a character at a
time, in turns, and skips to the next row where one of them ends earlier;
`MergeInv`, next to `PlaceInv` and `FishInv`, ties the position of each
descriptor to the row and column the program is at, and says that what it has
drawn is the overlay of the places it has passed; that the property looks at rows
and the program at characters is bridged by lemmas on the lines of a text
(`RowOfStep`, `LineIn`, `Reading`); hypothesis `FramesImage`: both frames are
regular files without bad blocks. `GrepFindsAll` (`GrepFindsLines`): `FindInv` says
where grep is in the directory (`FoundUpto`: of the files up to the cursor all lines
with the pattern are written, of the others none) and in the file it searches
(`Seeking`: the buffer begins with the last characters before the descriptor's
position, there is no newline anywhere in it, and the lines before those characters
are written). Within a read `FoundFrom` goes through the lines of the buffer, each
the next line of the text (`LineToNewline`, `LineToEnd`); what is not kept at its end
is a line without an end, which either is moved to the front or, when it fills the
buffer, is a whole line (`Over`) and the newline after it comes with the next read.
That its buffer never holds a newline between two reads is what makes the comparison
of `data[last]`, which no read has written, harmless. Hypothesis `GrepImage`:
`ListableImage`; an entry whose name begins with a point is no regular file, all
others have names of their own and are no directories; and `Junk` is without
newlines.

**`VideoProofs`**. `VideoTypes` (`Spec`): `putc` keeps the shape of a console, the
four of a tab by `Iterates`, and what is stored past a page is a character too.
`CursorIsOfDisplay` (`Spec`, CONTROL-L and all programs included): the cursor is
the displayed terminal's unless it is `stray`. That is so after CONTROL-L, which
does not save the cursor it leaves, and after the handler of a switch in whose
window an interrupt came, until the next key or output of the terminal on
display. It needs `WindowKnown`: a handler in whose window no interrupt came is that
of the running task, and lib.c's cursor is still that of the terminal it switched
to. `PlainSpec` is `Spec` without programs that `write()` after `vidmap()` (finding
6), and that is all it leaves out: `VidmapIsOwn` is inductive given the shapes of
the variables. `VideoImplementsScreens` (`PlainSpec`): the refinement, step by step.
A step on the page of a terminal is a step on its console, since different
terminals have different pages (`OwnPages`), a store of a program goes to its own by
`VidmapOwn`, the copying of a switch changes which page a console is on and not the
console, and CONTROL-L is `Clear` on the one on display (`MapClear`). A row that has
run past its page stores into a page that is not on display (`PastPage`), which
`Screens` promises nothing about; `VideoAssumption` bounds the columns so that it ends
before the last page does.

What the attempts at proofs changed: `ShellKept` is not true for any order of ends
(finding 2); `CommandParsed` had to say what becomes of
names longer than 32 characters (they are cut, and the program that the cut name
names is run without arguments) and of a NUL in the line; `LsListsAll` and
`FrameKept` got the hypotheses named above.

Model-checked only: liveness (`EveryTerminalRuns`, `EnterWakesReader`,
`ProgramsEnd`, `ReadersServed`), for which TLAPS has no rules here, and with them
the fairness part of `ImplementsSessions`, that turns come (its safety part is a
theorem). Every other invariant and action
property of a passing run is a theorem.

## 5. What is not modelled

* The clock's rate: `rtc_open` and `rtc_write` set register A, `rtc_write` by
  reading the data port before it selects the register (`rtc.c:126`).
* GDT, LDT, paging tables, reading of the boot information: straight-line code
  that runs once. Its results appear as initial states.
* `printf` and the string routines of lib.c: formatting, no state.
* What an exception handler clears and prints, and the starting of shells by
  `schedule`, on the screens of `Video`.
* pingpong and testprint, which draw and print without end, the emulation of
  system calls on Linux (`ece391emulate.c`), the list of blinking characters
  (`blink.S`), and the modifier keys of the keyboard beside CONTROL and ALT as
  parts of a key.
* `tests.c`: calls of the kernel's own functions, nothing else uses it.

Behaviour the models have and the properties allow, for no text of the repository
says what should happen: a backspace over the start of a row leaves column 80,
past the edge (`lib.c:191`), after which the row neither ends nor scrolls, is put
over the rows below and runs on into the pages of terminals not on display;
CONTROL-L does not save the new cursor (`keyboard.c:159`), so the next character
goes where the old one was; F1, F2 and F3 without ALT type control characters
into the line (`keyboard.c:65-67`), and a read ends at F2's newline; a backspace
after a tab takes four characters, also after a cut tab or F1's. An
exception is reported by the shell as an abnormal end: it waits for 256, and
`halt` takes eight bits (`idt.c:60`, `ece391shell.c:30`).

## 6. Plan

The models are written and all that the runs check, of liveness apart, is proved.
What could follow: properties of the cases named in section 5, once the code says
what should happen there, and the hypotheses of the theorems on
programs as tests of the image the repository ships.
