---------------------------- MODULE FilesProofs ----------------------------
(***************************************************************************)
(* What is proved of module Files, for any image, sound or not, and any    *)
(* size of table and block.                                                *)
(***************************************************************************)
EXTENDS Files, Induction, SequenceTheorems

-----------------------------------------------------------------------------
(* The loop of read_data(): its states, and a turn as ReadLoop has it      *)

Bytes == {Byte(b, i) : b \in DOMAIN Data, i \in 0 .. BlockSize - 1} \cup {Beyond}
Loops == [block : Nat, byte : 0 .. BlockSize, bytes : Seq(Bytes), failed : BOOLEAN]

LoopStart(offset) ==
    [block |-> offset \div BlockSize, byte |-> offset % BlockSize, bytes |-> <<>>, failed |-> FALSE]

BlockNumber(inode, block) == Inodes[inode].data_inode_block_nums[block + 1]

LoopTurn(inode, offset, i, s) ==
    IF s.failed \/ offset + i - 1 >= Inodes[inode].data_len THEN s
    ELSE IF NextCell(s).block # s.block /\ BlockNumber(inode, NextCell(s).block) \notin DOMAIN Data
    THEN [s EXCEPT !.failed = TRUE]
    ELSE [block |-> NextCell(s).block, byte |-> NextCell(s).byte + 1, failed |-> FALSE,
          bytes |-> Append(s.bytes, Byte(BlockNumber(inode, NextCell(s).block), NextCell(s).byte))]

LEMMA DivMod ==
  ASSUME NEW m \in Nat \ {0}, NEW p \in Nat, NEW b \in Nat, NEW y \in 0 .. m - 1, b * m + y = p
  PROVE  p \div m = b /\ p % m = y
OBVIOUS

LEMMA Parts ==
  ASSUME NEW m \in Nat \ {0}, NEW p \in Nat
  PROVE  p \div m \in Nat /\ p % m \in 0 .. m - 1 /\ (p \div m) * m + (p % m) = p
OBVIOUS

LEMMA ByteType ==
  ASSUME NEW b, NEW i \in 0 .. BlockSize - 1
  PROVE  Byte(b, i) \in Bytes
<1>1. CASE b \in DOMAIN Data
  BY <1>1 DEF Bytes
<1>2. CASE b \notin DOMAIN Data
  BY <1>2 DEF Byte, Bytes
<1> QED  BY <1>1, <1>2

LEMMA NextCellType ==
  ASSUME NEW s \in Loops
  PROVE  /\ NextCell(s).block \in Nat
         /\ NextCell(s).byte \in 0 .. BlockSize - 1
         /\ NextCell(s).block * BlockSize + NextCell(s).byte = s.block * BlockSize + s.byte
BY ConstantsAssumption DEF NextCell, Loops

LEMMA StartType == ASSUME NEW offset \in Nat PROVE LoopStart(offset) \in Loops
<1>1. BlockSize \in Nat \ {0}
  BY ConstantsAssumption
<1>2. offset \div BlockSize \in Nat /\ offset % BlockSize \in 0 .. BlockSize
  BY <1>1, Parts
<1> QED  BY <1>2 DEF LoopStart, Loops

LEMMA TurnType ==
  ASSUME NEW inode, NEW offset, NEW i, NEW s \in Loops
  PROVE  LoopTurn(inode, offset, i, s) \in Loops
<1> DEFINE c == NextCell(s)
           byte == Byte(BlockNumber(inode, c.block), c.byte)
<1>1. c.block \in Nat /\ c.byte + 1 \in 0 .. BlockSize /\ byte \in Bytes
  BY NextCellType, ByteType, ConstantsAssumption
<1>2. s.bytes \in Seq(Bytes)
  BY DEF Loops
<1>3. Append(s.bytes, byte) \in Seq(Bytes)
  BY <1>1, <1>2
<1>4. [s EXCEPT !.failed = TRUE] \in Loops
  BY DEF Loops
<1>5. [block |-> c.block, byte |-> c.byte + 1, failed |-> FALSE, bytes |-> Append(s.bytes, byte)] \in Loops
  BY <1>1, <1>3 DEF Loops
<1> QED  BY <1>4, <1>5 DEF LoopTurn

\* read_data() takes its turns one after the other.
Turns(inode, offset, length, turn) ==
    /\ ReadLoop(inode, offset, length) = turn[length]
    /\ turn[0] = LoopStart(offset)
    /\ \A i \in 1 .. length : turn[i] = LoopTurn(inode, offset, i, turn[i - 1])

LEMMA LoopUnfolds ==
  ASSUME NEW inode, NEW offset \in Nat, NEW length \in Nat
  PROVE  \E turn \in [0 .. length -> Loops] : Turns(inode, offset, length, turn)
<1> DEFINE Taken(i, x) == CHOOSE t \in {LoopTurn(inode, offset, i, s) : s \in {x}} : TRUE
           turn == CHOOSE f : f = [i \in 0 .. length |->
                        IF i = 0 THEN LoopStart(offset) ELSE Taken(i, f[i - 1])]
           G == [i \in Nat |-> [s \in Loops |-> LoopTurn(inode, offset, i, s)]]
<1>1. ReadLoop(inode, offset, length) = turn[length]
  BY Zenon DEF ReadLoop, LoopStart, LoopTurn, BlockNumber
<1>2. ASSUME NEW i, NEW x PROVE Taken(i, x) = LoopTurn(inode, offset, i, x)
  <2>1. {LoopTurn(inode, offset, i, s) : s \in {x}} = {LoopTurn(inode, offset, i, x)}
    OBVIOUS
  <2> QED  BY <2>1
<1> HIDE DEF Taken
<1>3. G \in [Nat -> [Loops -> Loops]]
  BY TurnType
<1>4. PICK f \in [0 .. length -> Loops] :
        f[0] = LoopStart(offset) /\ \A i \in 1 .. length : f[i] = G[i][f[i - 1]]
  <2> DEFINE k == LoopStart(offset)
  <2>1. k \in Loops
    BY StartType
  <2> HIDE DEF G, k
  <2>2. \E f \in [0 .. length -> Loops] : Iteration(f, k, G, length)
    BY <1>3, <2>1, Iterates
  <2> QED  BY <2>2 DEF k, Iteration
<1>5. ASSUME NEW i \in 1 .. length
      PROVE  f[i] = LoopTurn(inode, offset, i, f[i - 1])
  <2>1. i \in Nat /\ f[i - 1] \in Loops
    OBVIOUS
  <2>2. G[i][f[i - 1]] = LoopTurn(inode, offset, i, f[i - 1])
    BY <2>1
  <2> QED  BY <1>4, <2>2
<1>6. f = [i \in 0 .. length |-> IF i = 0 THEN LoopStart(offset) ELSE Taken(i, f[i - 1])]
  <2>1. ASSUME NEW i \in 0 .. length
        PROVE  f[i] = IF i = 0 THEN LoopStart(offset) ELSE Taken(i, f[i - 1])
    BY <1>2, <1>4, <1>5
  <2> QED  BY <2>1
<1>7. turn = [i \in 0 .. length |-> IF i = 0 THEN LoopStart(offset) ELSE Taken(i, turn[i - 1])]
  BY <1>6
<1> HIDE DEF turn, G
<1>8. ASSUME NEW i \in 1 .. length PROVE turn[i] = LoopTurn(inode, offset, i, turn[i - 1])
  BY <1>2, <1>7
<1>9. turn[0] = LoopStart(offset)
  BY <1>7
<1> DEFINE S == {n \in 0 .. length : turn[n] \in Loops}
<1>10. 0 \in S
  BY <1>9, StartType
<1>11. ASSUME NEW n \in 1 .. length, n - 1 \in S PROVE n \in S
  BY <1>8, <1>11, TurnType
<1>12. \A i \in 0 .. length : i \in S
  <2> HIDE DEF S
  <2> QED  BY <1>10, <1>11, BoundedInduction
<1>13. turn \in [0 .. length -> Loops]
  BY <1>7, <1>12
<1>14. Turns(inode, offset, length, turn)
  BY <1>1, <1>8, <1>9 DEF Turns
<1> HIDE DEF S
<1> QED  BY <1>13, <1>14

-----------------------------------------------------------------------------
(* What a read of a sound file gives                                       *)

Portion(inode, offset, i) ==
    IF offset + i <= Inodes[inode].data_len THEN i ELSE Inodes[inode].data_len - offset

\* After i turns the loop has the next i bytes of the file, or all there are.
GoodLoop(inode, offset, i, s) ==
    /\ ~s.failed
    /\ Len(s.bytes) = Portion(inode, offset, i)
    /\ \A k \in 1 .. Portion(inode, offset, i) : s.bytes[k] = Content(inode)[offset + k]
    /\ s.block * BlockSize + s.byte = offset + Portion(inode, offset, i)

LEMMA GoodTurn ==
  ASSUME NEW inode \in InodeNums, Sound(inode), NEW offset \in Nat, offset < Inodes[inode].data_len,
         NEW i \in Nat \ {0}, NEW s \in Loops, GoodLoop(inode, offset, i - 1, s)
  PROVE  GoodLoop(inode, offset, i, LoopTurn(inode, offset, i, s))
<1> DEFINE len == Inodes[inode].data_len
           c == NextCell(s)
           pos == offset + i - 1
           b == BlockNumber(inode, c.block)
<1>1. len \in Nat /\ BlockSize \in Nat \ {0}
  BY ConstantsAssumption
<1>2. ~s.failed
  BY DEF GoodLoop
<1>3. CASE pos >= len
  <2>1. LoopTurn(inode, offset, i, s) = s
    BY <1>3 DEF LoopTurn
  <2>2. Portion(inode, offset, i) = Portion(inode, offset, i - 1)
    BY <1>1, <1>3 DEF Portion
  <2> QED  BY <2>1, <2>2 DEF GoodLoop
<1>4. CASE pos < len
  <2>1. Portion(inode, offset, i) = i /\ Portion(inode, offset, i - 1) = i - 1
    BY <1>1, <1>4 DEF Portion
  <2>2. c.block \in Nat /\ c.byte \in 0 .. BlockSize - 1
    BY NextCellType
  <2>3. s.block * BlockSize + s.byte = pos
    <3>1. s.block * BlockSize + s.byte = offset + (i - 1)
      BY <2>1 DEF GoodLoop
    <3> QED  BY <3>1
  <2>4. c.block * BlockSize + c.byte = pos
    BY <2>3, NextCellType
  <2>5. pos \in Nat
    OBVIOUS
  <2>6. pos \div BlockSize = c.block /\ pos % BlockSize = c.byte
    BY <1>1, <2>2, <2>4, <2>5, DivMod
  <2>7. b \in DOMAIN Data
    <3>1. pos \in 0 .. len - 1
      BY <1>1, <1>4
    <3>2. Inodes[inode].data_inode_block_nums[pos \div BlockSize + 1] \in DOMAIN Data
      BY <3>1 DEF Sound
    <3> QED  BY <2>6, <3>2 DEF BlockNumber
  <2>8. Byte(b, c.byte) = Content(inode)[offset + i]
    <3>1. offset + i \in 1 .. len /\ (offset + i) - 1 = pos
      BY <1>1, <1>4
    <3>2. Content(inode)[offset + i] =
            Data[Inodes[inode].data_inode_block_nums[pos \div BlockSize + 1]][pos % BlockSize]
      BY <3>1 DEF Content
    <3> QED  BY <2>6, <2>7, <3>2 DEF Byte, BlockNumber
  <2> DEFINE x == Byte(b, c.byte)
             t == LoopTurn(inode, offset, i, s)
  <2>9. t = [block |-> c.block, byte |-> c.byte + 1, failed |-> FALSE, bytes |-> Append(s.bytes, x)]
    BY <1>1, <1>2, <1>4, <2>7 DEF LoopTurn
  <2>10. t.block = c.block /\ t.byte = c.byte + 1 /\ t.failed = FALSE /\ t.bytes = Append(s.bytes, x)
    BY <2>9
  <2>11. s.bytes \in Seq(Bytes) /\ Len(s.bytes) = i - 1
    BY <2>1 DEF Loops, GoodLoop
  <2>12. \A k \in 1 .. i - 1 : s.bytes[k] = Content(inode)[offset + k]
    BY <2>1 DEF GoodLoop
  <2>13. x \in Bytes
    BY <2>2, ByteType
  <2> HIDE DEF t, x, b, c, pos
  <2>14. Len(t.bytes) = i /\ \A k \in 1 .. i : t.bytes[k] = IF k = i THEN x ELSE s.bytes[k]
    BY <2>10, <2>11, <2>13, AppendProperties
  <2>15. \A k \in 1 .. i : t.bytes[k] = Content(inode)[offset + k]
    BY <2>8, <2>12, <2>14 DEF x
  <2>16. t.block * BlockSize + t.byte = offset + i
    <3>1. PICK m \in Nat : m = c.block * BlockSize
      BY <1>1, <2>2
    <3>2. m + c.byte = pos /\ t.block * BlockSize = m
      BY <2>4, <2>10, <3>1
    <3>3. m + (c.byte + 1) = pos + 1
      BY <2>2, <3>1, <3>2
    <3>4. t.block * BlockSize + t.byte = pos + 1
      BY <2>10, <3>2, <3>3
    <3> QED  BY <3>4 DEF pos
  <2>17. GoodLoop(inode, offset, i, t)
    BY <2>1, <2>10, <2>14, <2>15, <2>16 DEF GoodLoop
  <2> QED  BY <2>17 DEF t
<1> QED  BY <1>1, <1>3, <1>4

\* Of a file whose blocks are sound read_data() gives the bytes from the
\* offset on, as many as were asked for or are left, over the ends of blocks.
LEMMA SoundRead ==
  ASSUME NEW inode \in InodeNums, Sound(inode), NEW offset \in Nat, offset < Inodes[inode].data_len,
         NEW length \in Nat
  PROVE  GoodLoop(inode, offset, length, ReadLoop(inode, offset, length))
<1>0. PICK turn \in [0 .. length -> Loops] : Turns(inode, offset, length, turn)
  BY LoopUnfolds
<1>1. /\ ReadLoop(inode, offset, length) = turn[length]
      /\ turn[0] = LoopStart(offset)
      /\ \A i \in 1 .. length : turn[i] = LoopTurn(inode, offset, i, turn[i - 1])
  BY <1>0 DEF Turns
<1>2. BlockSize \in Nat \ {0} /\ Inodes[inode].data_len \in Nat
  BY ConstantsAssumption
<1> DEFINE S == {n \in 0 .. length : GoodLoop(inode, offset, n, turn[n])}
<1>3. 0 \in S
  <2>1. (offset \div BlockSize) * BlockSize + (offset % BlockSize) = offset
    BY <1>2, Parts
  <2>2. Portion(inode, offset, 0) = 0
    BY <1>2 DEF Portion
  <2>3. Len(<<>>) = 0
    OBVIOUS
  <2>4. GoodLoop(inode, offset, 0, LoopStart(offset))
    BY <2>1, <2>2, <2>3 DEF GoodLoop, LoopStart
  <2> QED  BY <1>1, <2>4
<1>4. ASSUME NEW n \in 1 .. length, n - 1 \in S PROVE n \in S
  <2>1. n \in Nat \ {0} /\ turn[n - 1] \in Loops
    OBVIOUS
  <2>2. GoodLoop(inode, offset, n - 1, turn[n - 1])
    BY <1>4
  <2>3. GoodLoop(inode, offset, n, LoopTurn(inode, offset, n, turn[n - 1]))
    BY <2>1, <2>2, GoodTurn
  <2> QED  BY <1>1, <2>3
<1> HIDE DEF S
<1>5. \A n \in 0 .. length : n \in S
  BY <1>3, <1>4, BoundedInduction
<1> QED  BY <1>1, <1>5 DEF S

-----------------------------------------------------------------------------
(* f_read()                                                                *)

ShapeOK ==
    fd_array \in [Fds -> [flags : BOOLEAN, table_ptr : Tables, inode : InodeNums, file_position : Nat]]

LEMMA FileReadType ==
  ASSUME ShapeOK, NEW f \in Fds, NEW n \in Nat
  PROVE  FileRead(f, n) \in Seq(Bytes) /\ Advance(f, n) \in Nat
<1> DEFINE fd == fd_array[f]
           result == ReadLoop(fd.inode, fd.file_position, n)
<1>1. fd.inode \in InodeNums /\ fd.file_position \in Nat
  BY DEF ShapeOK
<1>2. PICK turn \in [0 .. n -> Loops] : Turns(fd.inode, fd.file_position, n, turn)
  BY <1>1, LoopUnfolds
<1>3. result \in Loops
  BY <1>2 DEF Turns
<1>4. result.bytes \in Seq(Bytes)
  BY <1>3 DEF Loops
<1>5. FileRead(f, n) = <<>> \/ FileRead(f, n) = result.bytes
  BY DEF FileRead
<1> HIDE DEF result
<1>6. FileRead(f, n) \in Seq(Bytes)
  BY <1>4, <1>5
<1> QED  BY <1>6, LenProperties DEF Advance

\* The bytes of a sound file from a position on
LEMMA FileReadGives ==
  ASSUME ShapeOK, NEW f \in Fds, NEW n \in Nat, Sound(fd_array[f].inode)
  PROVE  LET pos == fd_array[f].file_position
             inode == fd_array[f].inode
         IN  /\ Len(FileRead(f, n)) = IF pos >= Inodes[inode].data_len THEN 0 ELSE Portion(inode, pos, n)
             /\ \A k \in 1 .. Len(FileRead(f, n)) : FileRead(f, n)[k] = Content(inode)[pos + k]
<1> DEFINE pos == fd_array[f].file_position
           inode == fd_array[f].inode
           result == ReadLoop(inode, pos, n)
<1>1. inode \in InodeNums /\ pos \in Nat /\ Inodes[inode].data_len \in Nat
  BY ConstantsAssumption DEF ShapeOK
<1>2. CASE pos >= Inodes[inode].data_len
  <2>1. FileRead(f, n) = <<>>
    BY <1>2 DEF FileRead
  <2>2. Len(<<>>) = 0
    OBVIOUS
  <2>3. Len(FileRead(f, n)) = 0
    BY <2>1, <2>2
  <2> QED  BY <1>2, <2>3
<1>3. CASE ~(pos >= Inodes[inode].data_len)
  <2>1. pos < Inodes[inode].data_len
    BY <1>1, <1>3
  <2>2. GoodLoop(inode, pos, n, result)
    BY <1>1, <2>1, SoundRead
  <2>3. FileRead(f, n) = result.bytes
    BY <1>3, <2>2 DEF FileRead, GoodLoop
  <2> HIDE DEF result
  <2> QED  BY <1>3, <2>2, <2>3 DEF GoodLoop
<1> QED  BY <1>2, <1>3

-----------------------------------------------------------------------------
(* The inductive invariant                                                 *)

HasRead(f) ==
    LET inode == fd_array[f].inode IN
    /\ fd_array[f].file_position = Len(got[f])
    /\ Len(got[f]) <= Inodes[inode].data_len
    /\ \A k \in 1 .. Len(got[f]) : got[f][k] = Content(inode)[k]

\* Through a descriptor of a sound file came the file up to its position.
ReadsInv ==
    /\ got \in [Fds -> Seq(Bytes)]
    /\ \A f \in Fds : IsOpen(f, "fs_ops") /\ Sound(fd_array[f].inode) => HasRead(f)

\* The cursor all listings share stands where an only listing is.
ListingInv ==
    /\ ~anyListed => Cursor = 0
    /\ \A f \in Fds : IsOpen(f, "dir_ops") /\ ~shared[f] => listed[f] = Cursor

FileInv == TypeOK /\ ConsoleKept /\ ReadsInv /\ ListingInv

\* Any program: Client with names, descriptors and sizes not bounded
Call ==
    \/ NewProcess
    \/ \E name : open(name)
    \/ \E f : close(f)
    \/ \E f : \E n \in Int : read(f, n)

LEMMA Numbers ==
    /\ 0 \in Fds /\ 1 \in Fds /\ 0 \in InodeNums /\ DentryNums \in Nat
    /\ OutOfOrder .. DentryNums = {n \in Int : -1 <= n /\ n <= DentryNums}
<1>1. DentryNums \in Nat
  BY ConstantsAssumption, LenProperties DEF DentryNums
<1> QED  BY <1>1, ConstantsAssumption DEF Fds, OutOfOrder

LEMMA FreshInv == Fresh => FileInv
<1> SUFFICES ASSUME Fresh PROVE FileInv
  OBVIOUS
<1>1. InitFds \in [Fds -> [flags : BOOLEAN, table_ptr : Tables, inode : InodeNums, file_position : Nat]]
  BY Numbers DEF InitFds, Fd, Tables
<1>2. /\ \A f \in Fds : InitFds[f].table_ptr \notin {"fs_ops", "dir_ops"} /\ InitFds[f].file_position = 0
      /\ InitFds[0].flags /\ InitFds[0].table_ptr = "stdin"
      /\ InitFds[1].flags /\ InitFds[1].table_ptr = "stdout"
  BY Numbers DEF InitFds, Fd
<1> HIDE DEF InitFds
<1>3. TypeOK
  <2>1. Cursor = 0
    BY <1>2, Numbers DEF Fresh, Cursor
  <2>2. listed \in [Fds -> OutOfOrder .. DentryNums]
    BY Numbers DEF Fresh
  <2>3. shared \in [Fds -> BOOLEAN] /\ anyListed \in BOOLEAN /\ parent_ebp \in BOOLEAN
    BY DEF Fresh
  <2>4. fd_array \in [Fds -> [flags : BOOLEAN, table_ptr : Tables, inode : InodeNums, file_position : Nat]]
    BY <1>1 DEF Fresh
  <2>5. Cursor <= DentryNums
    BY <2>1, Numbers
  <2> QED  BY <2>2, <2>3, <2>4, <2>5 DEF TypeOK
<1>4. ConsoleKept
  BY <1>2 DEF Fresh, ConsoleKept, IsOpen
<1>5. ReadsInv
  <2>1. <<>> \in Seq(Bytes)
    OBVIOUS
  <2>2. got \in [Fds -> Seq(Bytes)]
    BY <2>1 DEF Fresh
  <2> QED  BY <1>2, <2>2 DEF Fresh, ReadsInv, IsOpen
<1>6. ListingInv
  BY <1>2, Numbers DEF Fresh, ListingInv, IsOpen, Cursor
<1> QED  BY <1>3, <1>4, <1>5, <1>6 DEF FileInv

LEMMA NewProcessKeeps == ASSUME NewProcess PROVE FileInv'
<1>1. Fresh'
  BY DEF NewProcess, Fresh
<1> QED  BY <1>1, FreshInv, PTL

\* The descriptor open() takes is a free one, and none of the terminal's.
LEMMA VacantFdIsVacant ==
  ASSUME Vacant # {}
  PROVE  VacantFd \in Fds /\ ~fd_array[VacantFd].flags
<1>1. Vacant \subseteq Nat
  BY DEF Vacant, Fds
<1>2. \E f \in Vacant : \A g \in Vacant : f <= g
  BY <1>1, LeastElement
<1>3. VacantFd \in Vacant
  BY <1>2 DEF VacantFd
<1> QED  BY <1>3 DEF Vacant

LEMMA LookupIsEntry ==
  ASSUME NEW name, Entries(name) # {}
  PROVE  /\ Lookup(name) \in Entries(name)
         /\ Dentries[Lookup(name)] \in [name : Seq(STRING), file_type : {Rtc, Directory, RegularFile},
                                        inode_count : InodeNums]
<1>1. Entries(name) \subseteq 1 .. DentryNums
  BY DEF Entries
<1>2. Entries(name) \subseteq Nat
  BY <1>1, Numbers
<1>3. \E i \in Entries(name) : \A j \in Entries(name) : i <= j
  BY <1>2, LeastElement
<1>4. Lookup(name) \in Entries(name)
  BY <1>3 DEF Lookup
<1> QED  BY <1>1, <1>4, ConstantsAssumption, ElementOfSeq DEF DentryNums

LEMMA OpenKeeps == ASSUME FileInv, NEW name, open(name) PROVE FileInv'
<1>1. CASE OpenRet(name) = -1
  BY <1>1 DEF open, fileVars, history, FileInv, TypeOK, Cursor, ConsoleKept, ReadsInv, HasRead, ListingInv, IsOpen
<1>2. CASE OpenRet(name) # -1
  <2> DEFINE v == VacantFd
             d == Opened(Dentries[Lookup(name)])
  <2>1. Vacant # {} /\ Entries(name) # {}
    BY <1>2 DEF OpenRet
  <2>2. v \in Fds /\ ~fd_array[v].flags
    BY <2>1, VacantFdIsVacant
  <2>3. v # 0 /\ v # 1
    BY <2>2 DEF FileInv, ConsoleKept, IsOpen
  <2>4. /\ d \in [flags : BOOLEAN, table_ptr : Tables, inode : InodeNums, file_position : Nat]
        /\ d.file_position = 0
    BY <2>1, LookupIsEntry, Numbers DEF Opened, Tables, Rtc, Directory, RegularFile
  <2>5. /\ fd_array' = [fd_array EXCEPT ![v] = d]
        /\ got' = [got EXCEPT ![v] = <<>>]
        /\ listed' = [listed EXCEPT ![v] = 0]
        /\ shared' = [shared EXCEPT ![v] = anyListed]
        /\ anyListed' = anyListed /\ parent_ebp' = parent_ebp
    BY <1>2 DEF open
  <2> HIDE DEF v, d
  <2>6. Cursor' = Cursor
    BY <2>2, <2>3, <2>5, Numbers DEF FileInv, TypeOK, Cursor
  <2>7. TypeOK'
    BY <2>2, <2>4, <2>5, <2>6, Numbers DEF FileInv, TypeOK
  <2>8. ConsoleKept'
    BY <2>2, <2>3, <2>5, Numbers DEF FileInv, TypeOK, ConsoleKept, IsOpen
  <2>9. ReadsInv'
    <3>1. <<>> \in Seq(Bytes) /\ Len(<<>>) = 0
      OBVIOUS
    <3>2. got' \in [Fds -> Seq(Bytes)]
      BY <2>2, <2>5, <3>1 DEF FileInv, ReadsInv
    <3>3. ASSUME NEW f \in Fds, (IsOpen(f, "fs_ops") /\ Sound(fd_array[f].inode))'
          PROVE  HasRead(f)'
      <4>1. CASE f = v
        <5>1. fd_array'[f] = d /\ got'[f] = <<>>
          BY <2>2, <2>5, <4>1 DEF FileInv, TypeOK, ReadsInv
        <5>2. Inodes[d.inode].data_len \in Nat
          BY <2>4, ConstantsAssumption
        <5> QED  BY <2>4, <3>1, <5>1, <5>2 DEF HasRead
      <4>2. CASE f # v
        <5>1. fd_array'[f] = fd_array[f] /\ got'[f] = got[f]
          BY <2>2, <2>5, <4>2 DEF FileInv, TypeOK, ReadsInv
        <5> QED  BY <3>3, <5>1 DEF FileInv, ReadsInv, HasRead, IsOpen, Sound
      <4> QED  BY <4>1, <4>2
    <3> QED  BY <3>2, <3>3 DEF ReadsInv
  <2>10. ListingInv'
    <3>1. ASSUME NEW f \in Fds, IsOpen(f, "dir_ops")', ~shared'[f]
          PROVE  listed'[f] = Cursor'
      <4>1. CASE f = v
        BY <2>2, <2>5, <2>6, <3>1, <4>1 DEF FileInv, TypeOK, ListingInv
      <4>2. CASE f # v
        BY <2>2, <2>5, <2>6, <3>1, <4>2 DEF FileInv, TypeOK, ListingInv, IsOpen
      <4> QED  BY <4>1, <4>2
    <3>2. ~anyListed' => Cursor' = 0
      BY <2>5, <2>6 DEF FileInv, ListingInv
    <3> QED  BY <3>1, <3>2 DEF ListingInv
  <2> QED  BY <2>7, <2>8, <2>9, <2>10 DEF FileInv
<1> QED  BY <1>1, <1>2

LEMMA CloseKeeps == ASSUME FileInv, NEW f, close(f) PROVE FileInv'
<1>1. history' = history /\ parent_ebp' \in BOOLEAN
  BY DEF close, FileInv, TypeOK
<1>2. CASE CloseRet(f) = 0 /\ f \in Fds
  <2>1. f # 0 /\ f # 1
    BY <1>2 DEF CloseRet
  <2>2. fd_array' = [fd_array EXCEPT ![f].flags = FALSE]
    BY <1>2 DEF close
  <2>3. \A g \in Fds :
            /\ fd_array'[g].table_ptr = fd_array[g].table_ptr
            /\ fd_array'[g].inode = fd_array[g].inode
            /\ fd_array'[g].file_position = fd_array[g].file_position
            /\ fd_array'[g].flags = IF g = f THEN FALSE ELSE fd_array[g].flags
    BY <1>2, <2>2 DEF FileInv, TypeOK
  <2>4. fd_array' \in [Fds -> [flags : BOOLEAN, table_ptr : Tables, inode : InodeNums, file_position : Nat]]
    BY <1>2, <2>2 DEF FileInv, TypeOK
  <2>5. TypeOK'
    BY <1>1, <2>3, <2>4, Numbers DEF FileInv, TypeOK, Cursor, history
  <2>6. ConsoleKept'
    BY <2>1, <2>3, Numbers DEF FileInv, ConsoleKept, IsOpen
  <2>7. ReadsInv'
    <3>1. ASSUME NEW g \in Fds, (IsOpen(g, "fs_ops") /\ Sound(fd_array[g].inode))'
          PROVE  HasRead(g)'
      <4>1. IsOpen(g, "fs_ops") /\ Sound(fd_array[g].inode)
        BY <2>3, <3>1 DEF IsOpen, Sound
      <4>2. HasRead(g)
        BY <4>1 DEF FileInv, ReadsInv
      <4>3. fd_array'[g].inode = fd_array[g].inode /\ fd_array'[g].file_position = fd_array[g].file_position
        BY <2>3
      <4>4. got' = got
        BY <1>1 DEF history
      <4> QED  BY <4>2, <4>3, <4>4, Zenon DEF HasRead
    <3>2. got' = got
      BY <1>1 DEF history
    <3> QED  BY <3>1, <3>2 DEF FileInv, ReadsInv
  <2>8. ListingInv'
    <3>1. Cursor' = Cursor
      BY <2>3, Numbers DEF Cursor
    <3>2. ASSUME NEW g \in Fds, IsOpen(g, "dir_ops")', ~shared'[g]
          PROVE  listed'[g] = Cursor'
      BY <1>1, <2>3, <3>1, <3>2 DEF FileInv, ListingInv, IsOpen, history
    <3> QED  BY <1>1, <3>1, <3>2 DEF FileInv, ListingInv, history
  <2> QED  BY <2>5, <2>6, <2>7, <2>8 DEF FileInv
<1>3. CASE ~(CloseRet(f) = 0 /\ f \in Fds)
  <2>1. fd_array' = fd_array
    BY <1>3 DEF close
  <2> QED
    BY <1>1, <2>1 DEF history, FileInv, TypeOK, Cursor, ConsoleKept, ReadsInv, HasRead, ListingInv, IsOpen
<1> QED  BY <1>2, <1>3

\* A read joins the bytes at the position to those read before it.
LEMMA FReadKeeps ==
  ASSUME FileInv, NEW f \in Fds, NEW n \in Nat, IsOpen(f, "fs_ops"), f_read(f, n)
  PROVE  FileInv'
<1> DEFINE bytes == FileRead(f, n)
<1>1. f # 0 /\ f # 1 /\ ShapeOK
  BY DEF FileInv, ConsoleKept, IsOpen, TypeOK, ShapeOK
<1>2. bytes \in Seq(Bytes) /\ Len(bytes) \in Nat
  BY <1>1, FileReadType, LenProperties
<1>3. /\ fd_array' = [fd_array EXCEPT ![f].file_position = @ + Len(bytes)]
      /\ got' = [got EXCEPT ![f] = @ \o bytes]
      /\ UNCHANGED <<listed, shared, anyListed, parent_ebp>>
  BY DEF f_read, Advance
<1>4. \A g \in Fds :
          /\ fd_array'[g].table_ptr = fd_array[g].table_ptr
          /\ fd_array'[g].inode = fd_array[g].inode
          /\ fd_array'[g].flags = fd_array[g].flags
          /\ fd_array'[g].file_position =
                IF g = f THEN fd_array[g].file_position + Len(bytes) ELSE fd_array[g].file_position
  BY <1>3 DEF FileInv, TypeOK
<1>5. fd_array' \in [Fds -> [flags : BOOLEAN, table_ptr : Tables, inode : InodeNums, file_position : Nat]]
  <2> DEFINE p == fd_array[f].file_position + Len(bytes)
  <2> HIDE DEF bytes
  <2>1. p \in Nat
    BY <1>2 DEF FileInv, TypeOK
  <2>2. fd_array' = [fd_array EXCEPT ![f].file_position = p]
    BY <1>3
  <2> HIDE DEF p
  <2> QED  BY <2>1, <2>2 DEF FileInv, TypeOK
<1>6. got[f] \in Seq(Bytes)
  BY DEF FileInv, ReadsInv
<1>7. got[f] \o bytes \in Seq(Bytes)
  BY <1>2, <1>6
<1>8. got' \in [Fds -> Seq(Bytes)] /\ \A g \in Fds : got'[g] = IF g = f THEN got[f] \o bytes ELSE got[g]
  BY <1>3, <1>7 DEF FileInv, ReadsInv
<1>9. ASSUME Sound(fd_array[f].inode) PROVE HasRead(f)'
  <2> DEFINE inode == fd_array[f].inode
             pos == fd_array[f].file_position
             len == Inodes[inode].data_len
  <2>1. /\ Len(bytes) = IF pos >= len THEN 0 ELSE Portion(inode, pos, n)
        /\ \A k \in 1 .. Len(bytes) : bytes[k] = Content(inode)[pos + k]
    BY <1>1, <1>9, FileReadGives
  <2>2. /\ pos = Len(got[f]) /\ Len(got[f]) <= len
        /\ \A k \in 1 .. Len(got[f]) : got[f][k] = Content(inode)[k]
    BY <1>9 DEF FileInv, ReadsInv, HasRead
  <2>3. len \in Nat /\ pos \in Nat
    BY ConstantsAssumption DEF FileInv, TypeOK
  <2>4. pos + Len(bytes) <= len
    BY <1>2, <2>1, <2>2, <2>3 DEF Portion
  <2>5. /\ Len(got[f] \o bytes) = pos + Len(bytes)
        /\ \A k \in 1 .. pos + Len(bytes) :
              (got[f] \o bytes)[k] = IF k <= pos THEN got[f][k] ELSE bytes[k - pos]
    BY <1>2, <1>6, <2>2, ConcatProperties
  <2>6. ASSUME NEW k \in 1 .. pos + Len(bytes)
        PROVE  (got[f] \o bytes)[k] = Content(inode)[k]
    <3> HIDE DEF bytes, inode, pos, len
    <3>1. CASE k <= pos
      <4>1. k \in 1 .. Len(got[f])
        BY <2>2, <2>3, <3>1
      <4> QED  BY <2>2, <2>5, <3>1, <4>1
    <3>2. CASE ~(k <= pos)
      <4>1. k - pos \in 1 .. Len(bytes) /\ pos + (k - pos) = k
        BY <1>2, <2>3, <3>2
      <4>2. bytes[k - pos] = Content(inode)[k]
        BY <2>1, <4>1
      <4> QED  BY <2>5, <3>2, <4>2
    <3> QED  BY <3>1, <3>2
  <2>7. fd_array'[f].inode = inode /\ fd_array'[f].file_position = pos + Len(bytes) /\ got'[f] = got[f] \o bytes
    BY <1>4, <1>8
  <2> HIDE DEF bytes, inode, pos, len
  <2> QED  BY <2>4, <2>5, <2>6, <2>7 DEF HasRead, len
<1>10. TypeOK'
  BY <1>1, <1>3, <1>4, <1>5, Numbers DEF FileInv, TypeOK, Cursor
<1>11. ConsoleKept'
  BY <1>4, Numbers DEF FileInv, ConsoleKept, IsOpen
<1>12. ReadsInv'
  <2> HIDE DEF bytes
  <2>1. ASSUME NEW g \in Fds, (IsOpen(g, "fs_ops") /\ Sound(fd_array[g].inode))'
        PROVE  HasRead(g)'
    <3>1. IsOpen(g, "fs_ops") /\ Sound(fd_array[g].inode)
      BY <1>4, <2>1 DEF IsOpen, Sound
    <3>2. CASE g = f
      BY <1>9, <3>1, <3>2
    <3>3. CASE g # f
      <4>1. HasRead(g)
        BY <3>1 DEF FileInv, ReadsInv
      <4>2. fd_array'[g] = fd_array[g]
        <5>1. DOMAIN fd_array = Fds
          BY DEF FileInv, TypeOK
        <5> QED  BY <1>3, <3>3, <5>1, Zenon
      <4>3. got'[g] = got[g]
        BY <1>8, <3>3, Zenon
      <4> QED  BY <4>1, <4>2, <4>3, Zenon DEF HasRead
    <3> QED  BY <3>2, <3>3
  <2> QED  BY <1>8, <2>1 DEF ReadsInv
<1>13. ListingInv'
  <2>1. Cursor' = Cursor
    BY <1>1, <1>4, Numbers DEF Cursor
  <2>2. ASSUME NEW g \in Fds, IsOpen(g, "dir_ops")', ~shared'[g]
        PROVE  listed'[g] = Cursor'
    BY <1>3, <1>4, <2>1, <2>2 DEF FileInv, ListingInv, IsOpen
  <2> QED  BY <1>3, <2>1, <2>2 DEF FileInv, ListingInv
<1> QED  BY <1>10, <1>11, <1>12, <1>13 DEF FileInv

LEMMA DirReadKeeps ==
  ASSUME FileInv, NEW f \in Fds, IsOpen(f, "dir_ops"), dir_read(f)
  PROVE  FileInv'
<1>1. Cursor \in Nat /\ Cursor < DentryNums /\ DentryNums \in Nat
  BY Numbers DEF dir_read, InTable, Cursor, FileInv, TypeOK
<1>2. /\ fd_array' = [fd_array EXCEPT ![0].file_position = Cursor + 1]
      /\ listed' = [listed EXCEPT ![f] = IF @ = Cursor THEN Cursor + 1 ELSE OutOfOrder]
      /\ shared' = [g \in Fds |-> shared[g] \/ g # f]
      /\ anyListed' = TRUE
      /\ UNCHANGED <<got, parent_ebp>>
  BY DEF dir_read, NextCursor
<1>3. \A g \in Fds :
          /\ fd_array'[g].table_ptr = fd_array[g].table_ptr
          /\ fd_array'[g].inode = fd_array[g].inode
          /\ fd_array'[g].flags = fd_array[g].flags
          /\ g # 0 => fd_array'[g].file_position = fd_array[g].file_position
  BY <1>2, Numbers DEF FileInv, TypeOK
<1>4. Cursor' = Cursor + 1
  BY <1>2, Numbers DEF FileInv, TypeOK, Cursor
<1>5. fd_array' \in [Fds -> [flags : BOOLEAN, table_ptr : Tables, inode : InodeNums, file_position : Nat]]
  <2> DEFINE p == Cursor + 1
  <2>1. p \in Nat /\ fd_array' = [fd_array EXCEPT ![0].file_position = p]
    BY <1>1, <1>2
  <2> HIDE DEF p
  <2> QED  BY <2>1, Numbers DEF FileInv, TypeOK
<1>6. listed' \in [Fds -> OutOfOrder .. DentryNums]
  BY <1>1, <1>2, Numbers DEF FileInv, TypeOK, OutOfOrder
<1>7. TypeOK'
  BY <1>1, <1>2, <1>4, <1>5, <1>6 DEF FileInv, TypeOK
<1>8. ConsoleKept'
  BY <1>3, Numbers DEF FileInv, ConsoleKept, IsOpen
<1>9. ReadsInv'
  <2>1. ASSUME NEW g \in Fds, (IsOpen(g, "fs_ops") /\ Sound(fd_array[g].inode))'
        PROVE  HasRead(g)'
    <3>1. IsOpen(g, "fs_ops") /\ Sound(fd_array[g].inode)
      BY <1>3, <2>1 DEF IsOpen, Sound
    <3>2. g # 0
      BY <3>1 DEF FileInv, ConsoleKept, IsOpen
    <3> QED  BY <1>2, <1>3, <3>1, <3>2 DEF FileInv, ReadsInv, HasRead
  <2> QED  BY <1>2, <2>1 DEF FileInv, ReadsInv
<1>10. ListingInv'
  <2>1. ASSUME NEW g \in Fds, IsOpen(g, "dir_ops")', ~shared'[g]
        PROVE  listed'[g] = Cursor'
    <3>1. g = f /\ ~shared[f]
      BY <1>2, <2>1
    <3>2. listed[f] = Cursor
      BY <3>1 DEF FileInv, ListingInv
    <3> QED  BY <1>2, <1>4, <3>1, <3>2 DEF FileInv, TypeOK
  <2> QED  BY <1>2, <2>1 DEF ListingInv
<1> QED  BY <1>7, <1>8, <1>9, <1>10 DEF FileInv

LEMMA QuietKeeps == ASSUME FileInv, UNCHANGED fileVars PROVE FileInv'
BY DEF fileVars, history, FileInv, TypeOK, Cursor, ConsoleKept, ReadsInv, HasRead, ListingInv, IsOpen

LEMMA CallKeeps == ASSUME FileInv, Call \/ UNCHANGED fileVars PROVE FileInv'
<1>1. CASE NewProcess
  BY <1>1, NewProcessKeeps
<1>2. ASSUME NEW name, open(name) PROVE FileInv'
  BY <1>2, OpenKeeps
<1>3. ASSUME NEW f, close(f) PROVE FileInv'
  BY <1>3, CloseKeeps
<1>4. ASSUME NEW f, NEW n \in Int, read(f, n) PROVE FileInv'
  <2>1. CanRead(f, n) => f \in Fds /\ n \in Nat
    BY DEF CanRead
  <2>2. CASE CanRead(f, n) /\ IsOpen(f, "fs_ops") /\ f_read(f, n)
    BY <2>1, <2>2, FReadKeeps
  <2>3. CASE CanRead(f, n) /\ IsOpen(f, "dir_ops") /\ dir_read(f)
    BY <2>1, <2>3, DirReadKeeps
  <2>4. CASE UNCHANGED fileVars
    BY <2>4, QuietKeeps
  <2> QED  BY <1>4, <2>2, <2>3, <2>4 DEF read
<1>5. CASE UNCHANGED fileVars
  BY <1>5, QuietKeeps
<1> QED  BY <1>1, <1>2, <1>3, <1>4, <1>5 DEF Call

LEMMA NextIsCall == [Next]_fileVars => Call \/ UNCHANGED fileVars
BY ConstantsAssumption DEF Next, Client, Call

LEMMA AlwaysFileInv == Spec => []FileInv
<1>1. Fresh => FileInv
  BY FreshInv
<1>2. FileInv /\ [Next]_fileVars => FileInv'
  BY NextIsCall, CallKeeps
<1> QED  BY <1>1, <1>2, PTL DEF Spec

-----------------------------------------------------------------------------
(* What the invariant says of programs                                     *)

LEMMA ContentType ==
  ASSUME NEW inode \in InodeNums, Sound(inode), NEW k \in 1 .. Inodes[inode].data_len
  PROVE  Content(inode)[k] \in Bytes
<1>1. Inodes[inode].data_len \in Nat /\ BlockSize \in Nat \ {0}
  BY ConstantsAssumption
<1> DEFINE b == Inodes[inode].data_inode_block_nums[(k - 1) \div BlockSize + 1]
<1>2. k - 1 \in 0 .. Inodes[inode].data_len - 1 /\ k - 1 \in Nat
  BY <1>1
<1>3. b \in DOMAIN Data
  BY <1>2 DEF Sound
<1>4. (k - 1) % BlockSize \in 0 .. BlockSize - 1
  BY <1>1, <1>2, Parts
<1>5. Content(inode)[k] = Data[b][(k - 1) % BlockSize]
  BY DEF Content
<1>6. Content(inode)[k] = Byte(b, (k - 1) % BlockSize)
  BY <1>3, <1>5 DEF Byte
<1> QED  BY <1>4, <1>6, ByteType

LEMMA ReadsFollow == FileInv => ReadsAreContent
<1> SUFFICES ASSUME FileInv, NEW f \in Fds, IsOpen(f, "fs_ops") /\ Sound(fd_array[f].inode)
             PROVE  /\ fd_array[f].file_position = Len(got[f])
                    /\ got[f] = SubSeq(Content(fd_array[f].inode), 1, Len(got[f]))
  BY DEF ReadsAreContent
<1> DEFINE inode == fd_array[f].inode
           text == Content(inode)
<1>1. HasRead(f) /\ got[f] \in Seq(Bytes) /\ inode \in InodeNums
  BY DEF FileInv, ReadsInv, TypeOK
<1>2. Len(got[f]) \in Nat
  BY <1>1, LenProperties
<1>3. \A k \in 1 .. Len(got[f]) : got[f][k] = text[k]
  BY <1>1 DEF HasRead
<1>4. \A k \in 1 .. Len(got[f]) : text[k] \in Bytes
  <2>1. \A k \in 1 .. Len(got[f]) : k \in 1 .. Inodes[inode].data_len
    BY <1>1, <1>2, ConstantsAssumption DEF HasRead
  <2> QED  BY <1>1, <2>1, ContentType
<1> HIDE DEF text
<1>5. /\ SubSeq(text, 1, Len(got[f])) \in Seq(Bytes)
      /\ Len(SubSeq(text, 1, Len(got[f]))) = Len(got[f])
      /\ \A k \in 1 .. Len(got[f]) : SubSeq(text, 1, Len(got[f]))[k] = text[k]
  BY <1>2, <1>4, SubSeqProperties
<1>6. got[f] = SubSeq(text, 1, Len(got[f]))
  BY <1>1, <1>3, <1>5, SeqEqual
<1> QED  BY <1>1, <1>6 DEF HasRead, text

LEMMA EndOfFile ==
  ASSUME FileInv, NEW f \in Fds, NEW n \in Nat \ {0},
         IsOpen(f, "fs_ops"), Sound(fd_array[f].inode), Len(FileRead(f, n)) = 0
  PROVE  Len(got[f]) >= Inodes[fd_array[f].inode].data_len
<1> DEFINE inode == fd_array[f].inode
           pos == fd_array[f].file_position
<1>1. ShapeOK /\ HasRead(f)
  BY DEF FileInv, TypeOK, ShapeOK, ReadsInv
<1>2. inode \in InodeNums /\ pos \in Nat /\ Inodes[inode].data_len \in Nat
  BY <1>1, ConstantsAssumption DEF ShapeOK
<1>3. Len(FileRead(f, n)) = IF pos >= Inodes[inode].data_len THEN 0 ELSE Portion(inode, pos, n)
  BY <1>1, FileReadGives
<1>4. pos >= Inodes[inode].data_len
  <2> SUFFICES ASSUME ~(pos >= Inodes[inode].data_len) PROVE FALSE
    OBVIOUS
  <2>1. Portion(inode, pos, n) = 0
    BY <1>3
  <2> HIDE DEF pos, inode
  <2> QED  BY <1>2, <2>1 DEF Portion
<1> QED  BY <1>1, <1>4 DEF HasRead

LEMMA EndFollows == FileInv => ZeroMeansEnd
<1> SUFFICES ASSUME FileInv, NEW f \in Fds, NEW n \in Requests \ {0},
                    IsOpen(f, "fs_ops") /\ Sound(fd_array[f].inode) /\ n > 0 /\ FileRead(f, n) = <<>>
             PROVE  Len(got[f]) >= Inodes[fd_array[f].inode].data_len
  BY DEF ZeroMeansEnd
<1>1. n \in Nat \ {0}
  BY ConstantsAssumption
<1>2. Len(FileRead(f, n)) = 0
  OBVIOUS
<1> QED  BY <1>1, <1>2, EndOfFile

LEMMA ListingFollows == FileInv => SoleListingInOrder
BY Numbers DEF FileInv, ListingInv, SoleListingInOrder, TypeOK, Cursor, OutOfOrder

\* No call turns a descriptor that is open and stays open.
LEMMA CallKeepsDescriptors ==
  ASSUME FileInv, Call,
         NEW g \in Fds, fd_array[g].flags, fd_array'[g].flags
  PROVE  \/ /\ fd_array'[g].table_ptr = fd_array[g].table_ptr
            /\ fd_array'[g].inode = fd_array[g].inode
            /\ fd_array'[g].file_position >= fd_array[g].file_position
         \/ fd_array' = InitFds
<1>1. CASE NewProcess
  BY <1>1 DEF NewProcess
<1> DEFINE Kept == /\ fd_array'[g].table_ptr = fd_array[g].table_ptr
                   /\ fd_array'[g].inode = fd_array[g].inode
                   /\ fd_array'[g].file_position >= fd_array[g].file_position
<1>2. ASSUME UNCHANGED fd_array PROVE Kept
  BY <1>2 DEF FileInv, TypeOK
<1>3. ASSUME NEW name, open(name) PROVE Kept
  <2>1. CASE OpenRet(name) = -1
    BY <1>2, <1>3, <2>1 DEF open, fileVars
  <2>2. CASE OpenRet(name) # -1
    <3>1. ~fd_array[VacantFd].flags
      BY <2>2, VacantFdIsVacant DEF OpenRet
    <3>2. fd_array' = [fd_array EXCEPT ![VacantFd] = Opened(Dentries[Lookup(name)])]
      BY <1>3, <2>2 DEF open
    <3>3. fd_array'[g] = fd_array[g]
      BY <3>1, <3>2 DEF FileInv, TypeOK
    <3> QED  BY <3>3 DEF FileInv, TypeOK
  <2> QED  BY <2>1, <2>2
<1>4. ASSUME NEW f, close(f) PROVE Kept
  BY <1>4 DEF close, FileInv, TypeOK
<1>5. ASSUME NEW f, NEW n \in Int, read(f, n) PROVE Kept
  <2>1. CASE CanRead(f, n) /\ IsOpen(f, "fs_ops") /\ f_read(f, n)
    <3>1. Advance(f, n) \in Nat
      BY <2>1, FileReadType DEF FileInv, TypeOK, ShapeOK, CanRead
    <3> HIDE DEF Kept
    <3>2. fd_array' = [fd_array EXCEPT ![f].file_position = @ + Advance(f, n)]
      BY <2>1 DEF f_read
    <3>3. Kept
      BY <3>1, <3>2 DEF Kept, FileInv, TypeOK
    <3> QED  BY <3>3
  <2>2. CASE CanRead(f, n) /\ IsOpen(f, "dir_ops") /\ dir_read(f)
    <3>1. fd_array' = [fd_array EXCEPT ![0].file_position = Cursor + 1]
      BY <2>2 DEF dir_read, NextCursor
    <3> QED  BY <3>1 DEF Cursor, FileInv, TypeOK
  <2>3. CASE UNCHANGED fileVars
    BY <1>2, <2>3 DEF fileVars
  <2> QED  BY <1>5, <2>1, <2>2, <2>3 DEF read
<1> QED  BY <1>1, <1>3, <1>4, <1>5 DEF Call

\* The action of DescriptorsKept
KeepsDescriptors ==
    \A f \in Fds : (fd_array[f].flags /\ fd_array'[f].flags) =>
        \/ /\ fd_array'[f].table_ptr = fd_array[f].table_ptr
           /\ fd_array'[f].inode = fd_array[f].inode
           /\ fd_array'[f].file_position >= fd_array[f].file_position
        \/ fd_array' = InitFds

LEMMA DescriptorsFollow ==
  ASSUME FileInv, Call \/ UNCHANGED fileVars
  PROVE  [KeepsDescriptors]_fileVars
BY CallKeepsDescriptors DEF KeepsDescriptors

-----------------------------------------------------------------------------
\* The table, the cursor and the histories keep their types, over any image.
THEOREM FileTypes == Spec => []TypeOK
<1>1. FileInv => TypeOK
  BY DEF FileInv
<1> QED  BY <1>1, AlwaysFileInv, PTL

\* No sequence of opens and closes gives the terminal's descriptors away.
THEOREM TerminalDescriptorsStay == Spec => []ConsoleKept
<1>1. FileInv => ConsoleKept
  BY DEF FileInv
<1> QED  BY <1>1, AlwaysFileInv, PTL

\* Over any image and in any portions: what came through a descriptor of a
\* file without bad blocks is the file up to the descriptor's position.
THEOREM ReadsGiveContent == Spec => []ReadsAreContent
BY ReadsFollow, AlwaysFileInv, PTL

\* A read that gives nothing is a read at the end.
THEOREM NothingMeansEnd == Spec => []ZeroMeansEnd
BY EndFollows, AlwaysFileInv, PTL

\* An only listing of a directory skips nothing, whatever else is read.
THEOREM OnlyListingIsInOrder == Spec => []SoleListingInOrder
BY ListingFollows, AlwaysFileInv, PTL

\* A descriptor in use is never given to another file.
THEOREM DescriptorsStandForTheirFile == Spec => DescriptorsKept
<1>1. FileInv /\ [Next]_fileVars => [KeepsDescriptors]_fileVars
  BY NextIsCall, DescriptorsFollow
<1> QED  BY <1>1, AlwaysFileInv, PTL DEF Spec, DescriptorsKept, KeepsDescriptors
=============================================================================
