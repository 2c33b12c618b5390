------------------------------- MODULE Files -------------------------------
(***************************************************************************)
(* The descriptors of a process (open, close and read of syscalls.c) and   *)
(* the read-only file system below them (file_system.c).                   *)
(*                                                                         *)
(* One process, whose PCB get_pcb() finds (module Process shows when it    *)
(* does).  Each call is an action with its result as an operator beside    *)
(* it, -1 for failure.  Reads and writes of the terminal and of the clock  *)
(* change nothing here; module Programs has what they give.                *)
(***************************************************************************)
EXTENDS Integers, Sequences, FiniteSets

CONSTANTS
    MaxFiles,       \* MAX_FILES, 8
    NameSize,       \* FILE_NAME_SIZE, 32
    Dentries,       \* boot_ptr->dentry_block: name, file_type and inode_count,
                    \* the unused ones with an empty name
    Inodes,         \* the inodes: data_len and data_inode_block_nums
    Data,           \* the data blocks, each a function of 0 .. BlockSize - 1
    BlockSize,      \* BLOCK_SIZE, 4096
    Names,          \* names a free client gives to open()
    Requests,       \* the nbytes it gives to read() and write()
    ClientFiles     \* bound: the files it has open at a time

DentryNums == Len(Dentries)
Fds == 0 .. MaxFiles - 1
InodeNums == DOMAIN Inodes
Rtc == 0
Directory == 1
RegularFile == 2

ASSUME ConstantsAssumption ==
    /\ MaxFiles \in Nat /\ MaxFiles > 2
    /\ BlockSize \in Nat \ {0}
    /\ NameSize \in Nat \ {0}
    /\ Dentries \in Seq([name : Seq(STRING), file_type : {Rtc, Directory, RegularFile},
                         inode_count : InodeNums])
    /\ \A i \in DOMAIN Dentries : Len(Dentries[i].name) <= NameSize
    /\ 0 \in InodeNums
    /\ \A n \in InodeNums : Inodes[n].data_len \in Nat
    /\ Names \subseteq Seq(STRING)
    /\ Requests \subseteq Int
    /\ ClientFiles \in Nat

VARIABLES
    fd_array,       \* the descriptors of the PCB
    parent_ebp,     \* the field of the PCB where a ninth descriptor would have
                    \* its flags: whether it still is the parent's frame
    got,            \* history: got[f] is what read() gave through f since open()
    listed,         \* history: the number of entries dir_read() gave through f
                    \* since open(), OutOfOrder once it skipped one
    shared,         \* history: another opening's dir_read() came since execute()
                    \* before or during that of f
    anyListed       \* history: dir_read() was called since execute()

history == <<got, listed, shared, anyListed>>
fileVars == <<fd_array, parent_ebp, history>>

Tables == {"none", "stdin", "stdout", "rtc_ops", "dir_ops", "fs_ops"}
Fd(flags, table) == [flags |-> flags, table_ptr |-> table, inode |-> 0, file_position |-> 0]

\* execute_init_fdarray()
InitFds == [f \in Fds |-> CASE f = 0 -> Fd(TRUE, "stdin")
                            [] f = 1 -> Fd(TRUE, "stdout")
                            [] OTHER -> Fd(FALSE, "none")]

OutOfOrder == -1

\* A process with its descriptors as execute() leaves them
Fresh ==
    /\ fd_array = InitFds
    /\ parent_ebp = TRUE
    /\ got = [f \in Fds |-> <<>>]
    /\ listed = [f \in Fds |-> 0]
    /\ shared = [f \in Fds |-> FALSE]
    /\ anyListed = FALSE

\* A program starts in the process's slot, or its parent has it back: halt()
\* clears the table, and the shell, the only parent, opens nothing.
NewProcess ==
    /\ fd_array' = InitFds
    /\ parent_ebp' = TRUE
    /\ got' = [f \in Fds |-> <<>>]
    /\ listed' = [f \in Fds |-> 0]
    /\ shared' = [f \in Fds |-> FALSE]
    /\ anyListed' = FALSE

-----------------------------------------------------------------------------
(* open() and close()                                                      *)

\* The entries read_dentry_by_name() matches: of a longer name it compares
\* the first NameSize.  Its loop goes one past the table, to bytes of the
\* first inode that match no name.
Entries(name) ==
    {i \in 1 .. DentryNums :
        Dentries[i].name = SubSeq(name, 1, IF Len(name) < NameSize THEN Len(name) ELSE NameSize)}
Lookup(name) == CHOOSE i \in Entries(name) : \A j \in Entries(name) : i <= j

Vacant == {f \in Fds : ~fd_array[f].flags}
Mutant_VacantFd == CHOOSE f \in Fds : fd_array[f].file_position = 0 /\ f > 1
VacantFd == CHOOSE f \in Vacant : \A g \in Vacant : f <= g

Mutant_Opened(entry) ==
    [fd_array[VacantFd] EXCEPT !.flags = TRUE, !.inode = entry.inode_count,
        !.table_ptr = CASE entry.file_type = Rtc -> "rtc_ops"
                        [] entry.file_type = Directory -> "dir_ops"
                        [] entry.file_type = RegularFile -> "fs_ops"]
Opened(entry) ==
    [flags |-> TRUE, file_position |-> 0,
     table_ptr |-> CASE entry.file_type = Rtc -> "rtc_ops"
                     [] entry.file_type = Directory -> "dir_ops"
                     [] entry.file_type = RegularFile -> "fs_ops",
     inode |-> IF entry.file_type = RegularFile THEN entry.inode_count ELSE 0]

OpenRet(name) ==
    IF name = <<>> \/ Entries(name) = {} \/ Vacant = {} THEN -1 ELSE VacantFd

open(name) ==
    IF OpenRet(name) = -1 THEN UNCHANGED fileVars
    ELSE /\ fd_array' = [fd_array EXCEPT ![VacantFd] = Opened(Dentries[Lookup(name)])]
         /\ got' = [got EXCEPT ![VacantFd] = <<>>]
         /\ listed' = [listed EXCEPT ![VacantFd] = 0]
         /\ shared' = [shared EXCEPT ![VacantFd] = anyListed]
         /\ UNCHANGED <<anyListed, parent_ebp>>

\* The flags of descriptor f; MaxFiles, one past the table, passes the tests
\* of close() and write().
InUse(f) == IF f = MaxFiles THEN parent_ebp ELSE fd_array[f].flags

Mutant_CloseRet(f) == IF f \in 0 .. MaxFiles /\ InUse(f) THEN 0 ELSE -1
CloseRet(f) == IF f \in 2 .. MaxFiles /\ InUse(f) THEN 0 ELSE -1

close(f) ==
    /\ fd_array' = IF CloseRet(f) = 0 /\ f \in Fds
                   THEN [fd_array EXCEPT ![f].flags = FALSE] ELSE fd_array
    /\ parent_ebp' = (parent_ebp /\ ~(CloseRet(f) = 0 /\ f = MaxFiles))
    /\ UNCHANGED history

-----------------------------------------------------------------------------
(* Reading a file                                                          *)

Mutant_NextCell(s) ==
    IF s.byte >= BlockSize THEN [block |-> s.block, byte |-> 0]
    ELSE [block |-> s.block, byte |-> s.byte]
NextCell(s) ==
    IF s.byte >= BlockSize THEN [block |-> s.block + 1, byte |-> 0]
    ELSE [block |-> s.block, byte |-> s.byte]

\* A block number is tested when the loop moves into the block, not when a
\* read starts in it: then the byte comes from memory beyond the blocks.
Beyond == "beyond"
Byte(b, i) == IF b \in DOMAIN Data THEN Data[b][i] ELSE Beyond

\* The loop of read_data(): the state after i turns, each from the state
\* before it.  A turn at the end of the file does nothing, and so do those
\* after it, as after a break.
ReadLoop(inode, offset, length) ==
    LET node == Inodes[inode]
        Turn(i, s) ==
            LET c == NextCell(s)
                b == node.data_inode_block_nums[c.block + 1]
            IN  IF s.failed \/ offset + i - 1 >= node.data_len THEN s
                ELSE IF c.block # s.block /\ b \notin DOMAIN Data
                THEN [s EXCEPT !.failed = TRUE]
                ELSE [block |-> c.block, byte |-> c.byte + 1, failed |-> FALSE,
                      bytes |-> Append(s.bytes, Byte(b, c.byte))]
        turn[i \in 0 .. length] ==
            IF i = 0
            THEN [block |-> offset \div BlockSize, byte |-> offset % BlockSize,
                  bytes |-> <<>>, failed |-> FALSE]
            ELSE CHOOSE t \in {Turn(i, s) : s \in {turn[i - 1]}} : TRUE
    IN  turn[length]

\* The bytes f_read() gives and counts: none at the end and on a bad block
FileRead(f, n) ==
    LET fd == fd_array[f]
        result == ReadLoop(fd.inode, fd.file_position, n)
    IN  IF fd.file_position >= Inodes[fd.inode].data_len \/ result.failed
        THEN <<>> ELSE result.bytes

Advance(f, n) == Len(FileRead(f, n))

f_read(f, n) ==
    /\ fd_array' = [fd_array EXCEPT ![f].file_position = @ + Advance(f, n)]
    /\ got' = [got EXCEPT ![f] = @ \o FileRead(f, n)]
    /\ UNCHANGED <<listed, shared, anyListed, parent_ebp>>

-----------------------------------------------------------------------------
(* Reading a directory: dir_read() takes the position of descriptor 0,     *)
(* whatever descriptor it is called with, and counts the whole name,       *)
(* however little of it was asked for.                                     *)

Cursor == fd_array[0].file_position
Mutant_NextCursor == Cursor + 2
NextCursor == Cursor + 1

InTable == Cursor < DentryNums
ListedName == Dentries[Cursor + 1].name

dir_read(f) ==
    /\ InTable
    /\ fd_array' = [fd_array EXCEPT ![0].file_position = NextCursor]
    /\ listed' = [listed EXCEPT ![f] = IF @ = Cursor THEN Cursor + 1 ELSE OutOfOrder]
    /\ shared' = [g \in Fds |-> shared[g] \/ g # f]
    /\ anyListed' = TRUE
    /\ UNCHANGED <<got, parent_ebp>>

-----------------------------------------------------------------------------
(* read() and write()                                                      *)

CanRead(f, n) == f \in Fds /\ f # 1 /\ n >= 0 /\ fd_array[f].flags

IsOpen(f, table) == fd_array[f].flags /\ fd_array[f].table_ptr = table

\* What read() returns and gives, of the terminal apart
ReadRet(f, n) ==
    IF ~CanRead(f, n) THEN -1
    ELSE CASE IsOpen(f, "fs_ops") -> Advance(f, n)
           [] IsOpen(f, "dir_ops") -> IF InTable THEN Len(ListedName) ELSE -1
           [] IsOpen(f, "rtc_ops") -> 0

ReadData(f, n) ==
    CASE IsOpen(f, "fs_ops") -> FileRead(f, n)
      [] IsOpen(f, "dir_ops") -> ListedName
      [] IsOpen(f, "rtc_ops") -> <<>>

read(f, n) ==
    \/ CanRead(f, n) /\ IsOpen(f, "fs_ops") /\ f_read(f, n)
    \/ CanRead(f, n) /\ IsOpen(f, "dir_ops") /\ dir_read(f)
    \/ /\ CanRead(f, n) => IF IsOpen(f, "dir_ops") THEN ~InTable ELSE ~IsOpen(f, "fs_ops")
       /\ UNCHANGED fileVars

\* write() of n bytes, which for the clock are a frequency it knows.  Through
\* the ninth descriptor it calls by way of curr_pid, which is no table: the
\* page fault ends the program.
WriteFaults(f, n) == f = MaxFiles /\ n >= 0 /\ parent_ebp
WriteRet(f, n) ==
    IF f \notin Fds \/ f = 0 \/ n < 0 THEN -1
    ELSE CASE IsOpen(f, "stdout") -> n
           [] IsOpen(f, "rtc_ops") /\ n = 4 -> 0
           [] OTHER -> -1

-----------------------------------------------------------------------------
\* A program that makes any calls, with at most ClientFiles files open
Client ==
    \/ Cardinality(Fds \ Vacant) < 2 + ClientFiles /\ \E name \in Names : open(name)
    \/ \E f \in -1 .. MaxFiles + 1 : close(f)
    \/ \E f \in -1 .. MaxFiles + 1, n \in Requests : read(f, n)

Next == NewProcess \/ Client

Spec == Fresh /\ [][Next]_fileVars

-----------------------------------------------------------------------------
TypeOK ==
    /\ fd_array \in [Fds -> [flags : BOOLEAN, table_ptr : Tables,
                             inode : InodeNums, file_position : Nat]]
    /\ Cursor <= DentryNums
    /\ listed \in [Fds -> OutOfOrder .. DentryNums]
    /\ shared \in [Fds -> BOOLEAN]
    /\ anyListed \in BOOLEAN /\ parent_ebp \in BOOLEAN

\* Descriptors 0 and 1 stay those of the terminal, whatever is opened and
\* closed: the programs read and write them without a check.
ConsoleKept == IsOpen(0, "stdin") /\ IsOpen(1, "stdout")

\* The content of a file whose blocks are sound
Sound(inode) ==
    \A k \in 0 .. Inodes[inode].data_len - 1 :
        Inodes[inode].data_inode_block_nums[k \div BlockSize + 1] \in DOMAIN Data
Content(inode) ==
    [k \in 1 .. Inodes[inode].data_len |->
        Data[Inodes[inode].data_inode_block_nums[(k - 1) \div BlockSize + 1]]
            [(k - 1) % BlockSize]]

\* What a program has read through a descriptor since it opened it is the
\* file up to the descriptor's position, in whatever portions it was read,
\* over the ends of blocks, and with the file open a second time.
ReadsAreContent ==
    \A f \in Fds : IsOpen(f, "fs_ops") /\ Sound(fd_array[f].inode) =>
        /\ fd_array[f].file_position = Len(got[f])
        /\ got[f] = SubSeq(Content(fd_array[f].inode), 1, Len(got[f]))

\* read() of a sound file gives no bytes only at its end: a program that
\* reads until 0 has the whole file.
ZeroMeansEnd ==
    \A f \in Fds, n \in Requests \ {0} :
        IsOpen(f, "fs_ops") /\ Sound(fd_array[f].inode) /\ n > 0 /\ FileRead(f, n) = <<>> =>
            Len(got[f]) >= Inodes[fd_array[f].inode].data_len

\* While it is open a descriptor stands for what it was opened on: opening
\* another file never takes it over.
DescriptorsKept ==
    [][\A f \in Fds : (fd_array[f].flags /\ fd_array'[f].flags) =>
            \/ /\ fd_array'[f].table_ptr = fd_array[f].table_ptr
               /\ fd_array'[f].inode = fd_array[f].inode
               /\ fd_array'[f].file_position >= fd_array[f].file_position
            \/ fd_array' = InitFds]_fileVars

\* The only reader of a directory since the program began gets the entries in
\* order, from the first.
SoleListingInOrder ==
    \A f \in Fds : IsOpen(f, "dir_ops") /\ ~shared[f] => listed[f] # OutOfOrder

\* dir_read() "prints all directories/files in input directory": every
\* opening of the directory lists it from the first entry.
EveryListingInOrder ==
    \A f \in Fds : IsOpen(f, "dir_ops") => listed[f] # OutOfOrder
=============================================================================
