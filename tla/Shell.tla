------------------------------- MODULE Shell -------------------------------
(***************************************************************************)
(* One terminal's shell (ece391shell.c), the command line that execute()   *)
(* takes apart and the tests it makes of an image, and the return of       *)
(* halt()'s status.  Slots, pages and stacks are in module Process: here a *)
(* terminal has Free slots beside its base shell's.                        *)
(*                                                                         *)
(* Characters are units of a name or a text (see Files); a unit " " is a   *)
(* space.                                                                  *)
(***************************************************************************)
EXTENDS Files

CONSTANTS
    Lines,          \* what the user may type, without the ENTER
    Free            \* free slots of the process table

Space == " "
Magic == <<"0x7f", "E", "L", "F">>
ShellName == <<"shel", "l">>

VARIABLES
    prog,           \* the program running, by its name in the directory
    pc, loc,        \* where it is, and its locals
    args,           \* its pcb->arg
    command,        \* buf of the shell: the line it read last
    depth,          \* programs above the base shell
    out             \* what the program has written to the terminal, write by write

shellVars == <<prog, pc, loc, args, command, depth, out>>
programVars == <<prog, args, command, depth>>

-----------------------------------------------------------------------------
(* The command line                                                        *)

\* command[i] of C
Char(line, i) == IF i < Len(line) THEN line[i + 1] ELSE "NUL"

First(P(_), S) == CHOOSE i \in S : P(i) /\ \A j \in S : P(j) => i <= j

LeadingSpaces(line) ==
    LET NotSpace(k) == Char(line, k) # Space IN First(NotSpace, 0 .. Len(line))

\* i after the loop that copies the name
NameLength(line) ==
    LET k == LeadingSpaces(line)
        Ends(i) == Char(line, i + k) \in {Space, "NUL"} \/ i - k >= NameSize
    IN  First(Ends, 0 .. Len(line))

FileCommand(line) ==
    SubSeq(line, LeadingSpaces(line) + 1, LeadingSpaces(line) + NameLength(line))

\* start_of_args counts from the start of the line, spaces or not.
Mutant_Arguments(line) ==
    IF Char(line, NameLength(line)) = Space THEN SubSeq(line, NameLength(line) + 1, Len(line)) ELSE <<>>
Arguments(line) ==
    IF Char(line, NameLength(line)) = Space THEN SubSeq(line, NameLength(line) + 2, Len(line)) ELSE <<>>

\* With leading spaces a name longer than file_command would be written past
\* it.  A line is what C's string functions see of it: it ends before the NUL
\* that the ESC key types.
ASSUME LinesAssumption ==
    /\ Lines \subseteq Seq(STRING)
    /\ \A line \in Lines : \A i \in DOMAIN line : line[i] # "NUL"
    /\ \A line \in Lines : NameLength(line) <= NameSize
    /\ Free \in Nat \ {0}

-----------------------------------------------------------------------------
(* execute() and halt()                                                    *)

\* Of a file shorter than four bytes the rest of magic_num is stale.
Executable(name, stale) ==
    /\ Entries(name) # {}
    /\ LET entry == Dentries[Lookup(name)]
           magic == ReadLoop(entry.inode_count, 0, 4)
       IN  /\ ~magic.failed
           /\ magic.bytes \o SubSeq(stale, Len(magic.bytes) + 1, 4) = Magic
           /\ entry.file_type = RegularFile

\* The images are readable (Process has what follows when one is not).
ASSUME ReadableAssumption ==
    \A i \in DOMAIN Dentries :
        Dentries[i].file_type = RegularFile /\ ReadLoop(Dentries[i].inode_count, 0, 4).bytes = Magic =>
            Sound(Dentries[i].inode_count)

Report(rval) ==
    CASE rval = 0 -> <<>>
      [] rval = -1 -> <<"no such command">>
      [] rval = 256 -> <<"program terminated by exception">>
      [] OTHER -> <<"program terminated abnormally">>

\* execute() returns rval to the shell
BackToShell(rval) ==
    /\ prog' = ShellName /\ pc' = "prompt" /\ loc' = <<>> /\ args' = <<>>
    /\ out' = Report(rval)

Execute ==
    /\ prog = ShellName /\ pc = "execute"
    /\ \E stale \in {Magic, <<"0", "0", "0", "0">>} :
        \/ /\ ~Executable(FileCommand(command), stale)
           /\ BackToShell(-1) /\ UNCHANGED <<depth, fileVars>>
        \/ /\ Executable(FileCommand(command), stale) /\ depth = Free
           /\ BackToShell(0) /\ UNCHANGED <<depth, fileVars>>
        \/ /\ Executable(FileCommand(command), stale) /\ depth < Free
           /\ prog' = Dentries[Lookup(FileCommand(command))].name
           /\ pc' = "start" /\ loc' = <<>> /\ out' = <<>>
           /\ args' = Arguments(command)
           /\ depth' = depth + 1
           /\ NewProcess
    /\ UNCHANGED command

\* main() returns, or the program calls halt()
Exit(status) == pc' = "exit" /\ loc' = [status |-> status] /\ UNCHANGED programVars

\* exception_handler() calls it in the program's place: otherwise it would
\* return to the instruction that faulted.
Mutant_Fault == UNCHANGED <<pc, loc, programVars>>
Fault == Exit(255)

\* halt() takes the status as a uint8_t; a base shell is started anew.
Halt ==
    /\ pc = "exit" /\ (depth = 0 \/ parent_ebp)
    /\ BackToShell(IF depth = 0 THEN 0 ELSE loc.status % 256)
    /\ depth' = IF depth = 0 THEN 0 ELSE depth - 1
    /\ NewProcess
    /\ UNCHANGED command

\* With parent_ebp cleared through the ninth descriptor halt() leaves by a
\* frame at address 0: the processor is lost.
HaltLost ==
    /\ pc = "exit" /\ depth > 0 /\ ~parent_ebp
    /\ pc' = "lost"
    /\ UNCHANGED <<loc, out, programVars, fileVars>>

ShellRead ==
    /\ prog = ShellName /\ pc \in {"start", "prompt"}
    /\ \E line \in Lines :
        /\ command' = line /\ out' = <<>>
        /\ CASE line = <<"exit">> -> pc' = "exit" /\ loc' = [status |-> 0]
             [] line = <<>> -> pc' = "prompt" /\ loc' = <<>>
             [] OTHER -> pc' = "execute" /\ loc' = <<>>
    /\ UNCHANGED <<prog, args, depth, fileVars>>

ShellInit ==
    /\ prog = ShellName /\ pc = "start" /\ loc = <<>> /\ args = <<>>
    /\ command = <<>> /\ depth = 0 /\ out = <<>>
    /\ Fresh

-----------------------------------------------------------------------------
\* A program gets what was typed: of a line that does not begin with a space
\* the name and the arguments, with the space between them, are the line.
\* Only a name longer than a directory's can be is cut, and what follows lost.
CommandParsed ==
    pc = "start" /\ prog # ShellName /\ Char(command, 0) # Space =>
        \/ command = prog /\ args = <<>>
        \/ command = prog \o <<Space>> \o args
        \/ /\ Len(prog) = NameSize /\ args = <<>>
           /\ SubSeq(command, 1, NameSize) = prog /\ command[NameSize + 1] # Space
=============================================================================
