--------------------------- MODULE ProgramsProofs ---------------------------
(***************************************************************************)
(* The programs make only calls that FilesProofs is about, so what it      *)
(* proves holds while they run; and what counter, sigtest, cat, ls,        *)
(* syserr, fish and grep are for.                                          *)
(***************************************************************************)
EXTENDS Programs, FilesProofs, FiniteSetTheorems

LOCAL INSTANCE SequencesExt

-----------------------------------------------------------------------------
(* The search of a buffer: how much of it is kept                          *)

LEMMA LineEndIs ==
  ASSUME NEW data, NEW last \in Nat, NEW start \in 0 .. last
  PROVE  LET e == LineEnd(data, start, last) IN
         /\ e \in start .. last
         /\ e = last \/ data[e] = "\n"
         /\ \A i \in start .. e - 1 : data[i] # "\n"
<1> DEFINE T == {e \in start .. last : e = last \/ data[e] = "\n"}
<1>1. T \subseteq Nat /\ T # {}
  <2>1. last \in T
    OBVIOUS
  <2> QED  BY <2>1
<1>2. PICK e \in T : \A i \in T : e <= i
  <2> HIDE DEF T
  <2> QED  BY <1>1, LeastElement
<1>3. /\ e \in start .. last
      /\ e = last \/ data[e] = "\n"
      /\ \A i \in start .. e - 1 : data[i] # "\n"
  <2>1. ASSUME NEW i \in start .. e - 1, data[i] = "\n" PROVE FALSE
    <3>1. i \in T
      BY <2>1
    <3> QED  BY <1>2, <3>1
  <2> QED  BY <2>1
<1> QED  BY <1>3 DEF LineEnd

LineOf(data, start, last) == [i \in 1 .. LineEnd(data, start, last) - start |-> data[start + i - 1]]
FoundAt(data, start, last, s) ==
    IF Matches(LineOf(data, start, last), s) THEN <<LineOf(data, start, last)>> ELSE <<>>
Results(data, last) == [found : Seq({LineOf(data, start, last) : start \in 0 .. last}), kept : 0 .. last]

\* f has what the search gives from each place of the buffer.
Searches(f, data, last, cnt, s) ==
    \A start \in 0 .. last :
        LET end == LineEnd(data, start, last) IN
        /\ f[start] \in Results(data, last)
        /\ f[start] = IF data[end] # "\n" /\ cnt # 0 /\ start # 0 THEN [found |-> <<>>, kept |-> start]
                      ELSE IF end + 1 >= last THEN [found |-> FoundAt(data, start, last, s), kept |-> last]
                      ELSE [found |-> FoundAt(data, start, last, s) \o f[end + 1].found, kept |-> f[end + 1].kept]

LEMMA SearchIs ==
  ASSUME NEW data, NEW last \in Nat, NEW cnt, NEW s
  PROVE  \E f : Search(data, last, cnt, s) = f[0] /\ Searches(f, data, last, cnt, s)
<1> DEFINE End(start) == LineEnd(data, start, last)
           Line(start) == [i \in 1 .. End(start) - start |-> data[start + i - 1]]
           Found(start) == IF Matches(Line(start), s) THEN <<Line(start)>> ELSE <<>>
           Cut(start) == data[End(start)] # "\n" /\ cnt # 0 /\ start # 0
           V == {Line(start) : start \in 0 .. last}
           K == [found : Seq(V), kept : 0 .. last]
           Stop == {start \in 0 .. last : Cut(start) \/ End(start) + 1 >= last}
           Base == [start \in 0 .. last |-> IF Cut(start) THEN [found |-> <<>>, kept |-> start]
                                            ELSE [found |-> Found(start), kept |-> last]]
           Step == [start \in 0 .. last |-> [r \in K |-> [r EXCEPT !.found = Found(start) \o @]]]
           Jump == [start \in 0 .. last |-> End(start) + 1]
           Body(start, r) == IF Cut(start) THEN [found |-> <<>>, kept |-> start]
                             ELSE IF End(start) + 1 >= last THEN [found |-> Found(start), kept |-> last]
                             ELSE [r EXCEPT !.found = Found(start) \o @]
           from == CHOOSE f : f = [start \in 0 .. last |-> Body(start, f[End(start) + 1])]
<1>1. Search(data, last, cnt, s) = from[0]
  BY Zenon DEF Search
<1>2. \A start \in 0 .. last : End(start) \in start .. last
  BY LineEndIs
<1>3. \A start \in 0 .. last : Found(start) \in Seq(V)
  <2>1. ASSUME NEW start \in 0 .. last PROVE Found(start) \in Seq(V)
    <3>1. Line(start) \in V
      OBVIOUS
    <3> HIDE DEF V, Line
    <3>2. <<Line(start)>> \in Seq(V) /\ <<>> \in Seq(V)
      BY <3>1
    <3> QED  BY <3>2
  <2> QED  BY <2>1
<1> HIDE DEF End, Found, V, Cut
<1>4. Base \in [0 .. last -> K]
  <2>1. <<>> \in Seq(V)
    OBVIOUS
  <2> QED  BY <1>3, <2>1
<1>5. Step \in [0 .. last -> [K -> K]]
  <2>1. ASSUME NEW start \in 0 .. last, NEW r \in K
        PROVE  [r EXCEPT !.found = Found(start) \o @] \in K
    <3>1. Found(start) \o r.found \in Seq(V)
      BY <1>3
    <3> QED  BY <3>1
  <2> HIDE DEF K
  <2> QED  BY <2>1
<1>6. \A i \in (0 .. last) \ Stop : Jump[i] \in i + 1 .. last
  BY <1>2
<1>7. PICK f \in [0 .. last -> K] :
        \A i \in 0 .. last : f[i] = IF i \in Stop THEN Base[i] ELSE Step[i][f[Jump[i]]]
  <2> HIDE DEF K, Stop, Base, Step, Jump
  <2>1. \E f \in [0 .. last -> K] : Descent(f, last, Stop, Base, Step, Jump)
    BY <1>4, <1>5, <1>6, Descends
  <2> QED  BY <2>1 DEF Descent
<1>8. f = [start \in 0 .. last |-> Body(start, f[End(start) + 1])]
  <2>1. ASSUME NEW start \in 0 .. last
        PROVE  f[start] = Body(start, f[End(start) + 1])
    <3>1. CASE start \in Stop
      BY <1>7, <3>1
    <3>2. CASE start \notin Stop
      <4>1. End(start) + 1 \in 0 .. last /\ Jump[start] = End(start) + 1
        BY <1>6, <3>2
      <4>2. f[End(start) + 1] \in K
        BY <4>1
      <4>3. f[start] = Step[start][f[End(start) + 1]]
        BY <1>7, <3>2, <4>1
      <4>4. Step[start][f[End(start) + 1]] = [f[End(start) + 1] EXCEPT !.found = Found(start) \o @]
        BY <4>2
      <4> QED  BY <3>2, <4>3, <4>4
    <3> QED  BY <3>1, <3>2
  <2> QED  BY <2>1
<1>9. from = [start \in 0 .. last |-> Body(start, from[End(start) + 1])]
  BY <1>8
<1> HIDE DEF from
<1>10. ASSUME NEW i \in 0 .. last, i \notin Stop => from[Jump[i]] \in K
       PROVE  from[i] \in K
  <2>1. CASE i \in Stop
    <3>1. from[i] = Base[i]
      BY <1>9, <2>1
    <3> HIDE DEF K, Base
    <3> QED  BY <1>4, <3>1
  <2>2. CASE i \notin Stop
    <3> DEFINE r == from[Jump[i]]
    <3>1. Jump[i] = End(i) + 1 /\ r \in K
      BY <1>10, <2>2
    <3>2. from[i] = [r EXCEPT !.found = Found(i) \o @]
      BY <1>9, <2>2, <3>1
    <3>3. Step[i] \in [K -> K] /\ Step[i][r] = [r EXCEPT !.found = Found(i) \o @]
      BY <1>5, <3>1
    <3> HIDE DEF K, Step, r
    <3> QED  BY <3>1, <3>2, <3>3
  <2> QED  BY <2>1, <2>2
<1> DEFINE S == {n \in 0 .. last : \A i \in last - n .. last : from[i] \in K}
<1> HIDE DEF K, Base, Step, Body
<1>11. 0 \in S
  <2>1. last \in Stop
    BY <1>2
  <2> QED  BY <1>10, <2>1
<1>12. ASSUME NEW n \in 1 .. last, n - 1 \in S PROVE n \in S
  <2>1. ASSUME NEW i \in last - n .. last PROVE from[i] \in K
    <3>1. CASE i > last - n
      BY <1>12, <3>1
    <3>2. CASE i = last - n
      <4>1. i \in 0 .. last /\ (i \notin Stop => Jump[i] \in last - (n - 1) .. last)
        <5>1. i \in 0 .. last
          BY <3>2
        <5>2. i \notin Stop => Jump[i] \in i + 1 .. last
          BY <1>6, <5>1
        <5> HIDE DEF Stop, Jump
        <5> QED  BY <3>2, <5>1, <5>2
      <4> HIDE DEF Stop, Jump
      <4> QED  BY <1>10, <1>12, <4>1
    <3> QED  BY <3>1, <3>2
  <2> QED  BY <2>1
<1>13. 0 \in 0 .. last /\ last \in 0 .. last
  OBVIOUS
<1>14. last \in S
  <2> HIDE DEF S
  <2> QED  BY <1>11, <1>12, <1>13, BoundedInduction
<1>15. ASSUME NEW start \in 0 .. last
       PROVE  /\ from[start] \in K
              /\ from[start] = IF Cut(start) THEN [found |-> <<>>, kept |-> start]
                               ELSE IF End(start) + 1 >= last THEN [found |-> Found(start), kept |-> last]
                               ELSE [found |-> Found(start) \o from[End(start) + 1].found,
                                     kept |-> from[End(start) + 1].kept]
  <2>1. from[start] \in K
    BY <1>14
  <2>2. from[start] = IF Cut(start) THEN [found |-> <<>>, kept |-> start]
                      ELSE IF End(start) + 1 >= last THEN [found |-> Found(start), kept |-> last]
                      ELSE [from[End(start) + 1] EXCEPT !.found = Found(start) \o @]
    BY <1>9 DEF Body
  <2>3. ~(End(start) + 1 >= last) => from[End(start) + 1] \in K
    <3>1. ASSUME ~(End(start) + 1 >= last) PROVE End(start) + 1 \in 0 .. last
      BY <1>2, <3>1
    <3> QED  BY <1>14, <3>1
  <2>4. ASSUME NEW x \in K, NEW y PROVE [x EXCEPT !.found = y] = [found |-> y, kept |-> x.kept]
    BY <2>4 DEF K
  <2> QED  BY <2>1, <2>2, <2>3, <2>4
<1>16. Searches(from, data, last, cnt, s)
  <2>1. K = Results(data, last)
    BY Zenon DEF K, V, Results, LineOf, End
  <2>2. \A start : Found(start) = FoundAt(data, start, last, s)
    BY Zenon DEF Found, FoundAt, LineOf, End
  <2>3. ASSUME NEW start \in 0 .. last
        PROVE  /\ from[start] \in Results(data, last)
               /\ from[start] = IF Cut(start) THEN [found |-> <<>>, kept |-> start]
                                ELSE IF End(start) + 1 >= last THEN [found |-> FoundAt(data, start, last, s), kept |-> last]
                                ELSE [found |-> FoundAt(data, start, last, s) \o from[End(start) + 1].found,
                                      kept |-> from[End(start) + 1].kept]
    <3> HIDE DEF K
    <3> QED  BY <1>15, <2>1, <2>2
  <2> QED  BY <2>3, Zenon DEF Searches, Cut, End
<1> QED  BY <1>1, <1>16

\* Of what is in the buffer at most all is kept for the next read.
LEMMA SearchKeeps ==
  ASSUME NEW data, NEW last \in Nat, NEW cnt, NEW s
  PROVE  Search(data, last, cnt, s).kept \in 0 .. last
<1>1. PICK f : Search(data, last, cnt, s) = f[0] /\ Searches(f, data, last, cnt, s)
  BY SearchIs
<1>2. f[0] \in Results(data, last)
  <2>1. 0 \in 0 .. last
    OBVIOUS
  <2> QED  BY <1>1, <2>1, Zenon DEF Searches
<1> QED  BY <1>1, <1>2 DEF Results

-----------------------------------------------------------------------------
(* What a program gets from read(), and grep's locals while it searches    *)

OpenTables ==
    \A f \in Fds \ {0, 1} : fd_array[f].flags => fd_array[f].table_ptr \in {"rtc_ops", "dir_ops", "fs_ops"}

GrepLocals(l) ==
    /\ l = [dir |-> l.dir, fname |-> l.fname, fd |-> l.fd, data |-> l.data, last |-> l.last]
    /\ l.fd \in Fds \ {0, 1}
    /\ l.last \in Nat

GrepInv ==
    /\ At(<<"grep">>, "search") => GrepLocals(loc)
    /\ At(<<"grep">>, "close") => loc.fd \in Fds \ {0, 1}

CallInv == FileInv /\ OpenTables /\ GrepInv

LEMMA OpenRetType ==
  ASSUME FileInv, NEW name
  PROVE  OpenRet(name) # -1 => /\ OpenRet(name) = VacantFd /\ OpenRet(name) \in Fds \ {0, 1}
                               /\ ~fd_array[OpenRet(name)].flags /\ Entries(name) # {}
BY VacantFdIsVacant DEF OpenRet, FileInv, ConsoleKept, IsOpen

LEMMA ReadRetType ==
  ASSUME FileInv, OpenTables, NEW f, f # 0, NEW n \in Int
  PROVE  ReadRet(f, n) \in Nat \cup {-1}
<1>1. CASE ~CanRead(f, n)
  BY <1>1 DEF ReadRet
<1>2. CASE CanRead(f, n)
  <2>1. f \in Fds \ {0, 1} /\ n \in Nat /\ fd_array[f].flags
    BY <1>2 DEF CanRead
  <2>2. Advance(f, n) \in Nat
    BY <2>1, FileReadType DEF FileInv, TypeOK, ShapeOK
  <2>3. InTable => Len(ListedName) \in Nat
    <3>1. ASSUME InTable PROVE Cursor + 1 \in 1 .. Len(Dentries)
      BY <3>1, Numbers DEF InTable, DentryNums, FileInv, TypeOK, Cursor
    <3>2. ASSUME InTable PROVE ListedName \in Seq(STRING)
      <4>1. Dentries[Cursor + 1] \in [name : Seq(STRING), file_type : {Rtc, Directory, RegularFile},
                                      inode_count : InodeNums]
        BY <3>1, <3>2, ConstantsAssumption, ElementOfSeq
      <4> QED  BY <4>1 DEF ListedName
    <3> QED  BY <3>2, LenProperties
  <2>4. fd_array[f].table_ptr \in {"rtc_ops", "dir_ops", "fs_ops"}
    BY <2>1 DEF OpenTables
  <2>5. CASE fd_array[f].table_ptr = "fs_ops"
    BY <1>2, <2>1, <2>2, <2>5 DEF ReadRet, IsOpen
  <2>6. CASE fd_array[f].table_ptr = "dir_ops"
    BY <1>2, <2>1, <2>3, <2>6 DEF ReadRet, IsOpen
  <2>7. CASE fd_array[f].table_ptr = "rtc_ops"
    BY <1>2, <2>1, <2>7 DEF ReadRet, IsOpen
  <2> QED  BY <2>4, <2>5, <2>6, <2>7
<1> QED  BY <1>1, <1>2

\* A descriptor that is in use after a call was before, or is what open() took.
LEMMA OpenTablesKept == ASSUME FileInv, OpenTables, Call \/ UNCHANGED fileVars PROVE OpenTables'
<1>1. CASE UNCHANGED fd_array
  BY <1>1 DEF OpenTables
<1>2. CASE NewProcess
  BY <1>2 DEF NewProcess, OpenTables, InitFds, Fd
<1>3. ASSUME NEW name, open(name) PROVE OpenTables'
  <2>1. CASE OpenRet(name) = -1
    BY <1>1, <1>3, <2>1 DEF open, fileVars
  <2>2. CASE OpenRet(name) # -1
    <3> DEFINE d == Opened(Dentries[Lookup(name)])
    <3>1. d.table_ptr \in {"rtc_ops", "dir_ops", "fs_ops"}
      <4>1. Dentries[Lookup(name)].file_type \in {Rtc, Directory, RegularFile}
        BY <2>2, LookupIsEntry DEF OpenRet
      <4> QED  BY <4>1 DEF Opened
    <3>2. fd_array' = [fd_array EXCEPT ![VacantFd] = d]
      BY <1>3, <2>2 DEF open
    <3> HIDE DEF d
    <3> QED  BY <3>1, <3>2 DEF OpenTables, FileInv, TypeOK
  <2> QED  BY <2>1, <2>2
<1>4. ASSUME NEW f, close(f) PROVE OpenTables'
  BY <1>4 DEF close, OpenTables, FileInv, TypeOK
<1>5. ASSUME NEW f, NEW n \in Int, read(f, n) PROVE OpenTables'
  <2>1. CASE f_read(f, n)
    BY <2>1 DEF f_read, OpenTables, FileInv, TypeOK
  <2>2. CASE dir_read(f)
    BY <2>2 DEF dir_read, OpenTables, FileInv, TypeOK
  <2>3. CASE UNCHANGED fileVars
    BY <1>1, <2>3 DEF fileVars
  <2> QED  BY <1>5, <2>1, <2>2, <2>3 DEF read
<1> QED  BY <1>1, <1>2, <1>3, <1>4, <1>5 DEF Call, fileVars

LEMMA ShellSteps ==
  ASSUME Execute \/ Halt \/ HaltLost \/ ShellRead
  PROVE  Call \/ UNCHANGED fileVars
BY DEF Execute, Halt, HaltLost, ShellRead, Call

LEMMA CatLsSteps ==
  ASSUME CatOpen \/ CatRead \/ LsOpen \/ LsRead
  PROVE  Call \/ UNCHANGED fileVars
<1>1. BufSize \in Int /\ NameSize \in Int
  BY ConstantsAssumption, ProgramsAssumption
<1> QED  BY <1>1 DEF CatOpen, CatRead, LsOpen, LsRead, Call

LEMMA GrepSteps ==
  ASSUME GrepInv, GrepOpenDir \/ GrepList \/ GrepOpen \/ GrepSearch \/ GrepClose
  PROVE  Call \/ UNCHANGED fileVars
<1>1. BufSize \in Int /\ NameSize \in Int
  BY ConstantsAssumption, ProgramsAssumption
<1>2. CASE GrepSearch
  <2>1. At(<<"grep">>, "search") /\ read(loc.fd, BufSize - loc.last)
    BY <1>2, Zenon DEF GrepSearch
  <2>2. BufSize - loc.last \in Int
    BY <1>1, <2>1 DEF GrepInv, GrepLocals
  <2> QED  BY <2>1, <2>2 DEF Call
<1>3. CASE GrepOpenDir \/ GrepList
  BY <1>1, <1>3 DEF GrepOpenDir, GrepList, Call
<1>4. CASE GrepOpen \/ GrepClose
  BY <1>4 DEF GrepOpen, GrepClose, Call
<1> QED  BY <1>2, <1>3, <1>4

LEMMA FishSteps ==
  ASSUME FishOpenRtc \/ FishOpen \/ FishRead \/ FishBlink \/ FishRow \/ FishClock
  PROVE  Call \/ UNCHANGED fileVars
<1>1. CASE FishOpenRtc \/ FishOpen \/ FishBlink
  BY <1>1 DEF FishOpenRtc, FishOpen, FishBlink, Call
<1>2. CASE FishRead
  BY <1>2 DEF FishRead, Call
<1>3. CASE FishRow \/ FishClock
  <2>1. ASSUME NEW f, close(f) PROVE Call
    BY <2>1 DEF Call
  <2>2. ASSUME NEW f, read(f, 4) PROVE Call
    BY <2>2 DEF Call
  <2> QED  BY <1>3, <2>1, <2>2, Zenon DEF FishRow, FishClock
<1> QED  BY <1>1, <1>2, <1>3

LEMMA SyserrSteps ==
  ASSUME SyserrSelect \/ SyserrCall \/ SyserrVerdict
  PROVE  Call \/ UNCHANGED fileVars
<1>1. ASSUME NEW c, MakeCall(c) PROVE Call \/ UNCHANGED fileVars
  BY <1>1 DEF MakeCall, Call
<1> QED  BY <1>1 DEF SyserrSelect, SyserrCall, SyserrVerdict

LEMMA OtherSteps ==
  ASSUME Hello \/ CounterSelect \/ Count \/ SigTest \/ ClientCall \/ ClientExit
  PROVE  Call \/ UNCHANGED fileVars
<1>1. ClientCall => Call
  BY ConstantsAssumption DEF ClientCall, Client, Call
<1> QED  BY <1>1 DEF Hello, CounterSelect, Count, SigTest, ClientExit

\* Whatever the programs do, to the files it is calls.
LEMMA StepsAreCalls ==
  ASSUME GrepInv, [ProgramsNext]_vars
  PROVE  Call \/ UNCHANGED fileVars
BY ShellSteps, CatLsSteps, GrepSteps, FishSteps, SyserrSteps, OtherSteps DEF ProgramsNext, ProgramNext, vars

-----------------------------------------------------------------------------
(* What is proved of files holds while the programs run                    *)

\* grep's search goes on with what the buffer keeps of what was in it.
LEMMA GrepSearchKeeps == ASSUME CallInv, GrepSearch PROVE GrepInv'
<1> DEFINE n == BufSize - loc.last
           cnt == ReadRet(loc.fd, n)
<1>1. At(<<"grep">>, "search") /\ GrepLocals(loc)
  BY Zenon DEF GrepSearch, CallInv, GrepInv
<1>2. n \in Int /\ loc.fd \in Fds \ {0, 1} /\ loc.last \in Nat
  BY <1>1, ProgramsAssumption DEF GrepLocals
<1>3. cnt \in Nat \cup {-1}
  <2>1. loc.fd # 0
    BY <1>2
  <2> QED  BY <1>2, <2>1, ReadRetType DEF CallInv
<1>4. CASE cnt = -1
  <2>1. pc' = "exit"
    BY <1>4, Zenon DEF GrepSearch, Exit
  <2> QED  BY <2>1 DEF GrepInv, At
<1>5. CASE cnt # -1
  <2> DEFINE last == loc.last + cnt
             After(data, kept) == [loc EXCEPT !.data = Shifted(data, last, kept), !.last = loc.last + cnt - kept]
  <2>1. PICK data : \E result \in {Search(data, last, cnt, args)} : loc' = After(data, result.kept)
    BY <1>5, Zenon DEF GrepSearch, Goto
  <2> DEFINE kept == Search(data, last, cnt, args).kept
             shifted == Shifted(data, last, kept)
  <2>2. loc' = After(data, kept)
    <3> HIDE DEF After
    <3> QED  BY <2>1
  <2>3. last \in Nat
    BY <1>2, <1>3, <1>5
  <2>4. kept \in 0 .. last
    <3> HIDE DEF last, cnt
    <3> QED  BY <2>3, SearchKeeps
  <2>5. last - kept \in Nat
    <3> HIDE DEF last, kept
    <3> QED  BY <2>3, <2>4
  <2> DEFINE left == loc.last + cnt - kept
  <2>6. loc' = [dir |-> loc.dir, fname |-> loc.fname, fd |-> loc.fd, data |-> shifted, last |-> left]
    <3>1. loc' = [loc EXCEPT !.data = shifted, !.last = left]
      <4> HIDE DEF kept, cnt
      <4> QED  BY <2>2
    <3> HIDE DEF shifted, left
    <3> QED  BY <1>1, <3>1 DEF GrepLocals
  <2>8. left = last - kept
    <3> HIDE DEF kept, cnt
    <3> QED  BY <1>2, <1>3, <1>5, <2>4
  <2> HIDE DEF last, kept, shifted, cnt, n, left
  <2>7. GrepLocals(loc')
    BY <1>2, <2>5, <2>6, <2>8 DEF GrepLocals
  <2> QED  BY <2>7 DEF GrepInv, GrepLocals
<1> QED  BY <1>4, <1>5

LEMMA GrepKept == ASSUME CallInv, [ProgramsNext]_vars PROVE GrepInv'
<1> DEFINE Away == ~At(<<"grep">>, "search")' /\ ~At(<<"grep">>, "close")'
<1>1. Away => GrepInv'
  BY DEF GrepInv
<1>2. CASE CatOpen \/ CatRead \/ LsOpen \/ LsRead
  BY <1>2 DEF CatOpen, CatRead, LsOpen, LsRead, At, Goto, Exit, programVars, GrepInv
<1>3. CASE GrepOpenDir \/ GrepList \/ GrepClose
  BY <1>3 DEF GrepOpenDir, GrepList, GrepClose, At, Goto, Exit, programVars, GrepInv
<1>4. CASE GrepOpen
  <2>1. PICK junk : IF OpenRet(loc.fname) = -1 THEN Exit(3)
                    ELSE Goto("search", [dir |-> loc.dir, fname |-> loc.fname, fd |-> OpenRet(loc.fname),
                                         data |-> [i \in 0 .. BufSize |-> junk], last |-> 0])
    BY <1>4 DEF GrepOpen
  <2>2. OpenRet(loc.fname) # -1 => OpenRet(loc.fname) \in Fds \ {0, 1}
    BY OpenRetType DEF CallInv
  <2> QED  BY <2>1, <2>2 DEF Exit, Goto, GrepInv, GrepLocals, At
<1>5. CASE GrepSearch
  BY <1>5, GrepSearchKeeps
<1>6. CASE FishOpenRtc \/ FishOpen \/ FishBlink \/ FishClock
  BY <1>6 DEF FishOpenRtc, FishOpen, FishBlink, FishClock, At, Goto, Exit, programVars, GrepInv
<1>7. CASE FishRead \/ FishRow
  <2>1. prog = <<"fish">> /\ prog' = prog
    BY <1>7 DEF FishRead, FishRow, At, Goto, programVars
  <2> QED  BY <2>1 DEF GrepInv, At
<1>8. CASE SyserrSelect \/ SyserrCall \/ SyserrVerdict
  <2>1. prog = <<"syserr">> /\ prog' = prog
    BY <1>8 DEF SyserrSelect, SyserrCall, SyserrVerdict, At, Goto, Exit, programVars
  <2> QED  BY <2>1 DEF GrepInv, At
<1>9. CASE Hello \/ CounterSelect \/ Count \/ SigTest
  BY <1>9 DEF Hello, CounterSelect, Count, SigTest, Fault, At, Goto, Exit, programVars, GrepInv
<1>10. CASE Halt \/ HaltLost \/ ShellRead \/ Execute
  BY <1>10 DEF Halt, HaltLost, ShellRead, Execute, BackToShell, ShellName, At, GrepInv
<1>11. CASE ClientCall \/ ClientExit
  BY <1>11 DEF ClientCall, ClientExit, Fault, Exit, shellVars, At, GrepInv
<1>12. CASE UNCHANGED vars
  BY <1>12 DEF vars, shellVars, At, GrepInv, CallInv
<1> QED  BY <1>2, <1>3, <1>4, <1>5, <1>6, <1>7, <1>8, <1>9, <1>10, <1>11, <1>12 DEF ProgramsNext, ProgramNext

LEMMA CallInvKept == ASSUME CallInv, [ProgramsNext]_vars PROVE CallInv'
<1>1. Call \/ UNCHANGED fileVars
  BY StepsAreCalls DEF CallInv
<1>2. FileInv'
  BY <1>1, CallKeeps DEF CallInv
<1>3. OpenTables'
  BY <1>1, OpenTablesKept DEF CallInv
<1>4. GrepInv'
  BY GrepKept
<1> QED  BY <1>2, <1>3, <1>4 DEF CallInv

LEMMA InitCallInv == Init => CallInv
<1> SUFFICES ASSUME Init PROVE CallInv
  OBVIOUS
<1>1. Fresh
  BY DEF Init, ShellInit
<1>2. FileInv
  BY <1>1, FreshInv
<1>3. OpenTables
  BY <1>1 DEF Fresh, OpenTables, InitFds, Fd
<1>4. GrepInv
  BY DEF Init, ShellInit, GrepInv, At, ShellName
<1> QED  BY <1>2, <1>3, <1>4 DEF CallInv

LEMMA AlwaysCallInv == ProgramsSpec => []CallInv
<1>1. CallInv /\ [ProgramsNext]_vars => CallInv'
  BY CallInvKept
<1> QED  BY <1>1, InitCallInv, PTL DEF ProgramsSpec

\* While any programs run, over any image: types, the terminal's descriptors,
\* reads and listings, as FilesProofs has them of one program's calls.
THEOREM FilesWithPrograms ==
    ProgramsSpec => [](TypeOK /\ ConsoleKept /\ ReadsAreContent /\ ZeroMeansEnd /\ SoleListingInOrder)
<1>1. CallInv => TypeOK /\ ConsoleKept
  BY DEF CallInv, FileInv
<1>2. CallInv => ReadsAreContent /\ ZeroMeansEnd
  BY ReadsFollow, EndFollows DEF CallInv
<1>3. CallInv => SoleListingInOrder
  BY ListingFollows DEF CallInv
<1> QED  BY <1>1, <1>2, <1>3, AlwaysCallInv, PTL

\* A descriptor that a program has open stands for the file it opened, through
\* every call of any program.
THEOREM DescriptorsWithPrograms == ProgramsSpec => DescriptorsKept
<1>1. CallInv /\ [ProgramsNext]_vars => [KeepsDescriptors]_fileVars
  <2> SUFFICES ASSUME CallInv, [ProgramsNext]_vars PROVE [KeepsDescriptors]_fileVars
    OBVIOUS
  <2> QED  BY StepsAreCalls, DescriptorsFollow DEF CallInv
<1> QED  BY <1>1, AlwaysCallInv, PTL DEF ProgramsSpec, DescriptorsKept, KeepsDescriptors

-----------------------------------------------------------------------------
(* The command line                                                        *)

LEMMA SpaceIsUnit == Space # "NUL"
BY Zenon DEF Space

LEMMA LineFacts ==
  ASSUME NEW line \in Lines
  PROVE  /\ line \in Seq(STRING) /\ Len(line) \in Nat
         /\ \A i \in 1 .. Len(line) : line[i] # "NUL"
         /\ NameLength(line) <= NameSize
<1>1. line \in Seq(STRING) /\ (\A i \in DOMAIN line : line[i] # "NUL") /\ NameLength(line) <= NameSize
  BY LinesAssumption, Zenon
<1>2. Len(line) \in Nat /\ DOMAIN line = 1 .. Len(line)
  BY <1>1, LenProperties
<1> QED  BY <1>1, <1>2, Zenon

LEMMA LeadingNone ==
  ASSUME NEW line \in Lines, Char(line, 0) # Space
  PROVE  LeadingSpaces(line) = 0
<1> DEFINE IsFirst(i) == Char(line, i) # Space /\ \A j \in 0 .. Len(line) : Char(line, j) # Space => i <= j
<1>1. LeadingSpaces(line) = CHOOSE i \in 0 .. Len(line) : IsFirst(i)
  BY DEF LeadingSpaces, First
<1>2. 0 \in 0 .. Len(line) /\ IsFirst(0)
  BY LineFacts
<1>3. \A i \in 0 .. Len(line) : IsFirst(i) => i = 0
  BY LineFacts
<1> HIDE DEF IsFirst
<1> QED  BY <1>1, <1>2, <1>3

LEMMA NameEnds ==
  ASSUME NEW line \in Lines, Char(line, 0) # Space
  PROVE  /\ NameLength(line) \in 0 .. Len(line)
         /\ Char(line, NameLength(line)) \in {Space, "NUL"} \/ NameLength(line) >= NameSize
<1> DEFINE Ends(i) == Char(line, i) \in {Space, "NUL"} \/ i >= NameSize
           T == {i \in 0 .. Len(line) : Ends(i)}
<1>1. Len(line) \in Nat
  BY LineFacts
<1>2. NameLength(line) = CHOOSE i \in 0 .. Len(line) : Ends(i) /\ \A j \in 0 .. Len(line) : Ends(j) => i <= j
  <2>1. \A i \in 0 .. Len(line) : i + 0 = i /\ i - 0 = i
    BY <1>1
  <2>2. NameLength(line) = CHOOSE i \in 0 .. Len(line) :
          /\ Char(line, i + 0) \in {Space, "NUL"} \/ i - 0 >= NameSize
          /\ \A j \in 0 .. Len(line) : Char(line, j + 0) \in {Space, "NUL"} \/ j - 0 >= NameSize => i <= j
    BY LeadingNone DEF NameLength, First
  <2> QED  BY <2>1, <2>2
<1>3. T \subseteq Nat /\ Len(line) \in T
  BY <1>1 DEF Char
<1>4. \E i \in T : \A j \in T : i <= j
  <2> HIDE DEF T
  <2> QED  BY <1>3, LeastElement
<1> HIDE DEF Ends
<1>5. \E i \in 0 .. Len(line) : Ends(i) /\ \A j \in 0 .. Len(line) : Ends(j) => i <= j
  BY <1>4
<1>6. NameLength(line) \in 0 .. Len(line) /\ Ends(NameLength(line))
  BY <1>2, <1>5
<1> QED  BY <1>6 DEF Ends

\* The name and the arguments of a line that does not begin with a space
LEMMA LineParts ==
  ASSUME NEW line \in Lines, Char(line, 0) # Space
  PROVE  LET name == FileCommand(line) rest == Arguments(line) IN
         /\ name \in Seq(STRING) /\ Len(name) <= NameSize
         /\ \/ line = name /\ rest = <<>>
            \/ line = name \o <<Space>> \o rest
            \/ /\ Len(name) = NameSize /\ rest = <<>>
               /\ SubSeq(line, 1, NameSize) = name /\ line[NameSize + 1] # Space
<1> DEFINE U == STRING \cup {Space}
           n == NameLength(line)
           name == FileCommand(line)
           rest == Arguments(line)
<1>1. line \in Seq(STRING) /\ Len(line) \in Nat /\ n <= NameSize /\ NameSize \in Nat \ {0}
  BY LineFacts, ConstantsAssumption
<1>2. n \in 0 .. Len(line)
  BY NameEnds
<1>3. n < Len(line) => line[n + 1] # "NUL"
  BY <1>1, <1>2, LineFacts
<1>4. n < Len(line) => line[n + 1] = Space \/ n = NameSize
  BY <1>1, <1>2, <1>3, NameEnds DEF Char
<1>5. name = SubSeq(line, 1, n)
  BY <1>2, LeadingNone DEF FileCommand
<1>6. rest = IF n < Len(line) /\ line[n + 1] = Space THEN SubSeq(line, n + 2, Len(line)) ELSE <<>>
  BY <1>1, <1>2, SpaceIsUnit DEF Arguments, Char
<1> HIDE DEF n, name, rest
<1>7. Len(name) = n /\ name \in Seq(STRING)
  BY <1>1, <1>2, <1>5
<1>8. CASE n = Len(line)
  <2>1. name = line
    BY <1>1, <1>5, <1>8
  <2> QED  BY <1>1, <1>6, <1>7, <1>8, <2>1 DEF name, rest
<1>9. CASE n < Len(line) /\ line[n + 1] = Space
  <2>1. rest = SubSeq(line, n + 2, Len(line))
    BY <1>6, <1>9
  <2>2. rest \in Seq(STRING) /\ Len(rest) = Len(line) - n - 1
    BY <1>1, <1>2, <1>9, <2>1
  <2> DEFINE w == name \o <<Space>> \o rest
  <2>3. w \in Seq(U) /\ Len(w) = Len(line)
    <3>1. <<Space>> \in Seq(U) /\ name \in Seq(U) /\ rest \in Seq(U)
      BY <1>7, <2>2
    <3>2. Len(<<Space>>) = 1
      OBVIOUS
    <3> HIDE DEF U
    <3>3. /\ name \o <<Space>> \in Seq(U)
          /\ Len(name \o <<Space>>) = n + 1
      BY <1>7, <3>1, <3>2, ConcatProperties
    <3>4. w \in Seq(U) /\ Len(w) = (n + 1) + Len(rest)
      BY <3>1, <3>3, ConcatProperties
    <3>5. (n + 1) + (Len(line) - n - 1) = Len(line)
      BY <1>1, <1>2
    <3> QED  BY <2>2, <3>4, <3>5
  <2>4. \A i \in 1 .. Len(line) : w[i] = line[i]
    <3>1. ASSUME NEW i \in 1 .. n PROVE w[i] = line[i]
      BY <1>1, <1>2, <1>5, <1>7, <2>2
    <3>2. w[n + 1] = line[n + 1]
      BY <1>1, <1>2, <1>7, <1>9, <2>2
    <3>3. ASSUME NEW i \in n + 2 .. Len(line) PROVE w[i] = line[i]
      <4>1. w[i] = rest[i - n - 1]
        BY <1>1, <1>2, <1>7, <2>2
      <4>2. rest[i - n - 1] = line[i]
        BY <1>1, <1>2, <2>1
      <4> QED  BY <4>1, <4>2
    <3> HIDE DEF w
    <3> QED  BY <1>1, <1>2, <1>9, <3>1, <3>2, <3>3
  <2>5. w = line
    <3> HIDE DEF w
    <3>1. line \in Seq(U)
      BY <1>1
    <3> HIDE DEF U
    <3> QED  BY <2>3, <2>4, <3>1, SeqEqual
  <2> QED  BY <1>1, <1>7, <2>5 DEF name, rest
<1>10. CASE n < Len(line) /\ line[n + 1] # Space
  <2>1. n = NameSize
    BY <1>4, <1>10
  <2> QED  BY <1>1, <1>5, <1>6, <1>7, <1>10, <2>1 DEF name, rest
<1> QED  BY <1>1, <1>2, <1>8, <1>9, <1>10

-----------------------------------------------------------------------------
\* A program that makes a step goes on to another place of its own, or exits.
GoesOn == prog # ShellName /\ prog' = prog /\ pc' # "start" /\ UNCHANGED <<args, command, depth>>

LEMMA ProgramGoesOn ==
  ASSUME ProgramNext, ~Halt, ~HaltLost
  PROVE  GoesOn
<1>1. CASE CatOpen \/ CatRead \/ LsOpen \/ LsRead
  BY <1>1 DEF CatOpen, CatRead, LsOpen, LsRead, At, Goto, Exit, programVars, GoesOn, ShellName
<1>2. CASE GrepOpenDir \/ GrepList \/ GrepOpen \/ GrepClose
  BY <1>2 DEF GrepOpenDir, GrepList, GrepOpen, GrepClose, At, Goto, Exit, programVars, GoesOn, ShellName
<1>3. CASE GrepSearch
  <2>1. prog = <<"grep">> /\ UNCHANGED programVars /\ pc' \in {"exit", "close", "search"}
    BY <1>3, Zenon DEF GrepSearch, At, Goto, Exit
  <2> QED  BY <2>1 DEF programVars, GoesOn, ShellName
<1>4. CASE FishOpenRtc \/ FishOpen \/ FishBlink \/ FishClock
  <2>1. prog = <<"fish">> /\ UNCHANGED programVars /\ pc' \in {"open", "read", "row", "clock", "exit"}
    BY <1>4, Zenon DEF FishOpenRtc, FishOpen, FishBlink, FishClock, At, Goto, Exit
  <2> QED  BY <2>1 DEF programVars, GoesOn, ShellName
<1>5. CASE FishRead \/ FishRow
  <2>1. prog = <<"fish">> /\ UNCHANGED programVars /\ pc' \in {"read", "row", "clock"}
    BY <1>5 DEF FishRead, FishRow, At, Goto
  <2> QED  BY <2>1 DEF programVars, GoesOn, ShellName
<1>6. CASE SyserrSelect \/ SyserrCall \/ SyserrVerdict
  <2>1. prog = <<"syserr">> /\ UNCHANGED programVars /\ pc' \in {"exit", "call"}
    BY <1>6, Zenon DEF SyserrSelect, SyserrCall, SyserrVerdict, At, Goto, Exit
  <2> QED  BY <2>1 DEF programVars, GoesOn, ShellName
<1>7. CASE Hello \/ CounterSelect \/ Count \/ SigTest
  <2>1. /\ prog \in {<<"hell", "o">>, <<"count", "e", "r">>, <<"sigtest">>}
        /\ UNCHANGED programVars /\ pc' \in {"exit", "count"}
    BY <1>7, Zenon DEF Hello, CounterSelect, Count, SigTest, Fault, At, Goto, Exit
  <2> QED  BY <2>1 DEF programVars, GoesOn, ShellName
<1> QED  BY <1>1, <1>2, <1>3, <1>4, <1>5, <1>6, <1>7 DEF ProgramNext

LEMMA StepOfProgram ==
  ASSUME ProgramNext, ~Halt, ~HaltLost
  PROVE  \/ prog = <<"cat">> /\ (CatOpen \/ CatRead)
         \/ prog = <<"ls">> /\ (LsOpen \/ LsRead)
         \/ prog = <<"grep">> /\ (GrepOpenDir \/ GrepList \/ GrepOpen \/ GrepSearch \/ GrepClose)
         \/ prog = <<"fish">> /\ (FishOpenRtc \/ FishOpen \/ FishRead \/ FishBlink \/ FishRow \/ FishClock)
         \/ prog = <<"syserr">> /\ (SyserrSelect \/ SyserrCall \/ SyserrVerdict)
         \/ prog \in {<<"hell", "o">>, <<"count", "e", "r">>, <<"sigtest">>} /\ UNCHANGED fileVars
<1>1. (CatOpen \/ CatRead) => prog = <<"cat">>
  BY Zenon DEF CatOpen, CatRead, At
<1>2. (LsOpen \/ LsRead) => prog = <<"ls">>
  BY Zenon DEF LsOpen, LsRead, At
<1>3. (GrepOpenDir \/ GrepList \/ GrepOpen \/ GrepSearch \/ GrepClose) => prog = <<"grep">>
  BY Zenon DEF GrepOpenDir, GrepList, GrepOpen, GrepSearch, GrepClose, At
<1>4. (FishOpenRtc \/ FishOpen \/ FishRead \/ FishBlink \/ FishRow \/ FishClock) => prog = <<"fish">>
  BY Zenon DEF FishOpenRtc, FishOpen, FishRead, FishBlink, FishRow, FishClock, At
<1>5. (SyserrSelect \/ SyserrCall \/ SyserrVerdict) => prog = <<"syserr">>
  BY Zenon DEF SyserrSelect, SyserrCall, SyserrVerdict, At
<1>6. (Hello \/ CounterSelect \/ Count \/ SigTest)
        => prog \in {<<"hell", "o">>, <<"count", "e", "r">>, <<"sigtest">>} /\ UNCHANGED fileVars
  BY Zenon DEF Hello, CounterSelect, Count, SigTest, At
<1> QED  BY <1>1, <1>2, <1>3, <1>4, <1>5, <1>6, Zenon DEF ProgramNext

\* The line execute() takes apart is one the user typed.
LineRead == prog = ShellName /\ pc = "execute" => command \in Lines

LEMMA ParsedKept == ASSUME LineRead, CommandParsed, [ProgramsNext]_vars PROVE LineRead' /\ CommandParsed'
<1>1. CASE Execute
  <2>1. prog = ShellName /\ command \in Lines /\ command' = command
    BY <1>1 DEF Execute, LineRead
  <2>2. CASE pc' = "prompt"
    BY <2>2 DEF LineRead, CommandParsed
  <2>3. CASE pc' = "start"
    <3>1. /\ prog' = Dentries[Lookup(FileCommand(command))].name
          /\ args' = Arguments(command)
          /\ Entries(FileCommand(command)) # {}
      BY <1>1, <2>3 DEF Execute, BackToShell, Executable
    <3>2. SUFFICES ASSUME Char(command, 0) # Space PROVE CommandParsed'
      BY <2>1, <2>3 DEF LineRead, CommandParsed
    <3>3. prog' = FileCommand(command)
      <4> DEFINE name == FileCommand(command)
      <4>1. Lookup(name) \in Entries(name)
        BY <3>1, LookupIsEntry
      <4>2. Len(name) <= NameSize /\ SubSeq(name, 1, Len(name)) = name /\ Len(name) \in Nat
        <5>1. name \in Seq(STRING) /\ Len(name) <= NameSize
          BY <2>1, <3>2, LineParts
        <5> HIDE DEF name
        <5> QED  BY <5>1
      <4>3. name = SubSeq(name, 1, IF Len(name) < NameSize THEN Len(name) ELSE NameSize)
        BY <4>2, ConstantsAssumption
      <4> HIDE DEF name
      <4>4. Dentries[Lookup(name)].name = name
        <5>1. \A i \in Entries(name) : Dentries[i].name =
                SubSeq(name, 1, IF Len(name) < NameSize THEN Len(name) ELSE NameSize)
          BY Zenon DEF Entries
        <5> QED  BY <4>1, <4>3, <5>1, Zenon
      <4> QED  BY <3>1, <4>4 DEF name
    <3>4. \/ command = prog' /\ args' = <<>>
          \/ command = prog' \o <<Space>> \o args'
          \/ /\ Len(prog') = NameSize /\ args' = <<>>
             /\ SubSeq(command, 1, NameSize) = prog' /\ command[NameSize + 1] # Space
      BY <2>1, <3>1, <3>2, <3>3, LineParts
    <3> QED  BY <2>1, <3>4 DEF CommandParsed
  <2> QED  BY <1>1, <2>2, <2>3 DEF Execute, BackToShell
<1>2. CASE ShellRead
  BY <1>2 DEF ShellRead, LineRead, CommandParsed
<1>3. CASE Halt \/ HaltLost
  BY <1>3 DEF Halt, HaltLost, BackToShell, LineRead, CommandParsed
<1>4. CASE ProgramNext /\ ~Halt /\ ~HaltLost
  BY <1>4, ProgramGoesOn DEF GoesOn, LineRead, CommandParsed
<1>5. CASE ClientCall \/ ClientExit \/ UNCHANGED vars
  BY <1>5 DEF ClientCall, ClientExit, At, Fault, Exit, programVars, shellVars, vars, ShellName, LineRead, CommandParsed
<1> QED  BY <1>1, <1>2, <1>3, <1>4, <1>5 DEF ProgramsNext

\* Of every line without leading spaces that the user may type, a program gets
\* the name and the arguments, whole but for a name no directory entry can have.
THEOREM LinesAreParsed == ProgramsSpec => []CommandParsed
<1>1. Init => LineRead /\ CommandParsed
  BY DEF Init, ShellInit, LineRead, CommandParsed
<1>2. LineRead /\ CommandParsed /\ [ProgramsNext]_vars => (LineRead /\ CommandParsed)'
  BY ParsedKept
<1> QED  BY <1>1, <1>2, PTL DEF ProgramsSpec

-----------------------------------------------------------------------------
(* What cat writes                                                         *)

\* The sequences of s one after the other: the first i of them make f[i].
Joined(f, s) == f[0] = <<>> /\ \A i \in 1 .. Len(s) : f[i] = f[i - 1] \o s[i]

LEMMA Flattened ==
  ASSUME NEW S, NEW s \in Seq(Seq(S))
  PROVE  \E f \in [0 .. Len(s) -> Seq(S)] : Joined(f, s) /\ FlattenSeq(s) = f[Len(s)]
<1> DEFINE n == Len(s)
           K == Seq(S)
           Body(i, x) == IF i = 1 THEN s[i] ELSE x \o s[i]
           flatten == CHOOSE f : f = [i \in 1 .. n |-> Body(i, f[i - 1])]
           T == [i \in Nat |-> IF i \in 1 .. n THEN s[i] ELSE <<>>]
           G == [i \in Nat |-> [x \in K |-> x \o T[i]]]
<1>1. n \in Nat /\ <<>> \in K /\ \A i \in 1 .. n : s[i] \in K
  <2>1. \A i \in 1 .. Len(s) : s[i] \in Seq(S)
    BY ElementOfSeq
  <2> QED  BY <2>1, LenProperties
<1>2. G \in [Nat -> [K -> K]]
  <2>1. T \in [Nat -> K]
    BY <1>1
  <2> HIDE DEF T
  <2>2. \A i \in Nat, x \in K : x \o T[i] \in K
    BY <2>1, ConcatProperties
  <2> HIDE DEF K
  <2> QED  BY <2>2
<1>3. PICK f \in [0 .. n -> K] : f[0] = <<>> /\ \A i \in 1 .. n : f[i] = G[i][f[i - 1]]
  <2> DEFINE k == <<>>
  <2>1. k \in K /\ n \in Nat
    BY <1>1
  <2> HIDE DEF K, G, n, k
  <2>2. \E f \in [0 .. n -> K] : Iteration(f, k, G, n)
    BY <1>2, <2>1, Iterates
  <2> QED  BY <2>2 DEF k, Iteration
<1>4. Joined(f, s)
  <2>1. ASSUME NEW i \in 1 .. n PROVE f[i] = f[i - 1] \o s[i]
    <3>1. i \in Nat /\ i - 1 \in 0 .. n /\ T[i] = s[i]
      BY <1>1
    <3> HIDE DEF T, K
    <3> QED  BY <1>3, <3>1
  <2> QED  BY <1>3, <2>1 DEF Joined
<1>5. CASE n = 0
  <2>1. FlattenSeq(s) = s /\ s = <<>>
    BY <1>5, EmptySeq DEF FlattenSeq
  <2> QED  BY <1>3, <1>4, <1>5, <2>1
<1>6. CASE n # 0
  <2>1. FlattenSeq(s) = flatten[n]
    BY <1>6, Zenon DEF FlattenSeq
  <2> DEFINE g == [i \in 1 .. n |-> f[i]]
  <2>2. g = [i \in 1 .. n |-> Body(i, g[i - 1])]
    <3>1. ASSUME NEW i \in 1 .. n PROVE g[i] = Body(i, g[i - 1])
      <4>1. CASE i = 1
        <5>1. f[1] = f[0] \o s[1] /\ s[1] \in K
          <6>1. i - 1 = 0
            BY <4>1
          <6>2. f[i] = f[i - 1] \o s[i]
            BY <1>4 DEF Joined
          <6> QED  BY <1>1, <4>1, <6>1, <6>2
        <5>2. <<>> \o s[1] = s[1]
          BY <5>1, ConcatEmptySeq
        <5> QED  BY <1>3, <4>1, <5>1, <5>2
      <4>2. CASE i # 1
        <5>1. i - 1 \in 1 .. n
          BY <1>1, <4>2
        <5>2. f[i] = f[i - 1] \o s[i]
          BY <1>4 DEF Joined
        <5> QED  BY <4>2, <5>1, <5>2
      <4> QED  BY <4>1, <4>2
    <3> HIDE DEF Body
    <3> QED  BY <3>1
  <2>3. flatten = [i \in 1 .. n |-> Body(i, flatten[i - 1])]
    <3> HIDE DEF g, Body
    <3> QED  BY <2>2
  <2> HIDE DEF flatten
  <2> DEFINE R == {i \in 0 .. n : i = 0 \/ flatten[i] = f[i]}
  <2>4. 0 \in R
    BY <1>1
  <2>5. ASSUME NEW i \in 1 .. n, i - 1 \in R PROVE i \in R
    <3>1. flatten[i] = Body(i, flatten[i - 1])
      BY <2>3
    <3>4. i \in 0 .. n /\ i - 1 \in 0 .. n
      BY <1>1
    <3>2. CASE i = 1
      <4>1. flatten[i] = g[i] /\ g[i] = f[i]
        BY <2>2, <3>1, <3>2
      <4> QED  BY <3>4, <4>1
    <3>3. CASE i # 1
      <4>1. flatten[i - 1] = f[i - 1]
        BY <2>5, <3>3
      <4>2. f[i] = f[i - 1] \o s[i]
        BY <1>4 DEF Joined
      <4> QED  BY <3>1, <3>3, <3>4, <4>1, <4>2
    <3> QED  BY <3>2, <3>3
  <2>6. n \in R
    <3>1. n \in 0 .. n
      BY <1>1
    <3> HIDE DEF R, n
    <3> QED  BY <1>1, <2>4, <2>5, <3>1, BoundedInduction
  <2>7. flatten[n] = f[n]
    BY <1>6, <2>6
  <2> QED  BY <1>3, <1>4, <2>1, <2>7
<1> QED  BY <1>5, <1>6

LEMMA FlattenAppend ==
  ASSUME NEW S, NEW s \in Seq(Seq(S)), NEW e \in Seq(S)
  PROVE  /\ FlattenSeq(s) \in Seq(S)
         /\ FlattenSeq(Append(s, e)) = FlattenSeq(s) \o e
<1> DEFINE n == Len(s)
           t == Append(s, e)
<1>1. n \in Nat /\ t \in Seq(Seq(S)) /\ Len(t) = n + 1 /\ t[n + 1] = e /\ \A i \in 1 .. n : t[i] = s[i]
  BY LenProperties, AppendProperties
<1> HIDE DEF t
<1>2. PICK f \in [0 .. n -> Seq(S)] : Joined(f, s) /\ FlattenSeq(s) = f[n]
  BY Flattened
<1>3. PICK g \in [0 .. n + 1 -> Seq(S)] : Joined(g, t) /\ FlattenSeq(t) = g[n + 1]
  BY <1>1, Flattened
<1> DEFINE R == {i \in 0 .. n : f[i] = g[i]}
<1>4. 0 \in R
  BY <1>1, <1>2, <1>3 DEF Joined
<1>5. ASSUME NEW i \in 1 .. n, i - 1 \in R PROVE i \in R
  <2>1. i \in 1 .. n + 1 /\ i \in 0 .. n
    BY <1>1
  <2>3. f[i] = f[i - 1] \o s[i]
    BY <1>2 DEF Joined
  <2>2. g[i] = g[i - 1] \o t[i]
    BY <1>1, <1>3, <2>1 DEF Joined
  <2> QED  BY <1>1, <1>5, <2>1, <2>2, <2>3
<1>6. n \in R
  <2>1. n \in 0 .. n
    BY <1>1
  <2> HIDE DEF R, n
  <2> QED  BY <1>1, <1>4, <1>5, <2>1, BoundedInduction
<1>7. g[n + 1] = g[n] \o e
  <2>1. n + 1 \in 1 .. Len(t) /\ (n + 1) - 1 = n
    BY <1>1
  <2> QED  BY <1>1, <1>3, <2>1 DEF Joined
<1>8. f[n] \in Seq(S)
  <2>1. n \in 0 .. n
    BY <1>1
  <2> HIDE DEF n
  <2> QED  BY <2>1
<1> QED  BY <1>2, <1>3, <1>6, <1>7, <1>8 DEF t

\* cat while it copies the file: what it has written it has read.
Copying ==
    /\ loc.fd \in Fds /\ IsOpen(loc.fd, "fs_ops") /\ fd_array[loc.fd].inode = InodeOf(args)
    /\ out \in Seq(Seq(Bytes))
    /\ FlattenSeq(out) = got[loc.fd]

CatInv ==
    /\ At(<<"cat">>, "start") => out = <<>>
    /\ At(<<"cat">>, "read") /\ IsFile(args) => Copying

LEMMA CatOpenKeeps == ASSUME CallInv, CatInv, CatOpen PROVE CatInv' /\ CatIsExact'
<1>1. At(<<"cat">>, "start") /\ out = <<>> /\ UNCHANGED <<prog, args, out>>
  BY Zenon DEF CatOpen, CatInv, Exit, Goto, programVars
<1>2. CASE pc' = "exit"
  <2>1. loc' \in {[status |-> 2], [status |-> 3]}
    BY <1>2 DEF CatOpen, Exit, Goto
  <2>2. loc'.status # 0
    BY <2>1
  <2> QED  BY <1>2, <2>2 DEF CatInv, At, CatIsExact, Ended
<1>3. CASE pc' # "exit"
  <2>1. pc' = "read" /\ open(args) /\ OpenRet(args) # -1 /\ loc' = [fd |-> OpenRet(args)]
    BY <1>3 DEF CatOpen, Exit, Goto
  <2> DEFINE f == VacantFd
             d == Opened(Dentries[Lookup(args)])
  <2>2. f \in Fds /\ loc'.fd = f
    BY <2>1, OpenRetType DEF CallInv
  <2>3. fd_array' = [fd_array EXCEPT ![f] = d] /\ got' = [got EXCEPT ![f] = <<>>]
    BY <2>1 DEF open
  <2>4. ASSUME IsFile(args) PROVE Copying'
    <3>1. d.flags /\ d.table_ptr = "fs_ops" /\ d.inode = InodeOf(args)
      BY <2>4 DEF IsFile, Opened, InodeOf, Rtc, Directory, RegularFile
    <3> HIDE DEF d, f
    <3>2. fd_array'[f] = d /\ got'[f] = <<>>
      BY <2>2, <2>3 DEF CallInv, FileInv, TypeOK, ReadsInv
    <3>3. FlattenSeq(<<>>) = <<>>
      BY DEF FlattenSeq
    <3> QED  BY <1>1, <2>2, <3>1, <3>2, <3>3 DEF Copying, IsOpen, InodeOf
  <2>5. IsFile(args)' => IsFile(args)
    BY <1>1 DEF IsFile
  <2> HIDE DEF f, d
  <2> QED  BY <1>1, <2>1, <2>4, <2>5 DEF CatInv, CatIsExact, Ended, At
<1> QED  BY <1>2, <1>3

LEMMA CatReadKeeps == ASSUME CallInv, CatInv, CatRead PROVE CatInv' /\ CatIsExact'
<1> DEFINE f == loc.fd
           cnt == ReadRet(f, BufSize)
           bytes == FileRead(f, BufSize)
<1>1. At(<<"cat">>, "read") /\ UNCHANGED programVars /\ read(f, BufSize)
  BY Zenon DEF CatRead, Exit, Goto
<1>2. \/ cnt = 0 /\ Exit(0) /\ UNCHANGED out
      \/ cnt = -1 /\ Exit(3) /\ UNCHANGED out
      \/ cnt # 0 /\ cnt # -1 /\ Goto("read", loc) /\ Writes(ReadData(f, BufSize))
  BY DEF CatRead
<1>3. IsFile(args)' <=> IsFile(args)
  BY <1>1 DEF IsFile, programVars
<1>4. ASSUME IsFile(args)
      PROVE  /\ f \in Fds /\ IsOpen(f, "fs_ops") /\ fd_array[f].inode = InodeOf(args)
             /\ bytes \in Seq(Bytes) /\ cnt = Len(bytes) /\ ReadData(f, BufSize) = bytes
             /\ f_read(f, BufSize)
  <2>1. f \in Fds /\ IsOpen(f, "fs_ops") /\ fd_array[f].inode = InodeOf(args)
    BY <1>1, <1>4 DEF CatInv, Copying
  <2>2. BufSize \in Nat
    BY ProgramsAssumption
  <2>3. f # 1
    BY <2>1 DEF CallInv, FileInv, ConsoleKept, IsOpen
  <2>4. CanRead(f, BufSize)
    BY <2>1, <2>2, <2>3 DEF CanRead, IsOpen
  <2>5. bytes \in Seq(Bytes)
    BY <2>1, <2>2, FileReadType DEF CallInv, FileInv, TypeOK, ShapeOK
  <2>6. cnt = Len(bytes)
    BY <2>1, <2>4 DEF ReadRet, Advance, IsOpen
  <2>7. ReadData(f, BufSize) = bytes
    BY <2>1 DEF ReadData, IsOpen
  <2>8. f_read(f, BufSize)
    BY <1>1, <2>1, <2>4 DEF read, IsOpen
  <2> QED  BY <2>1, <2>5, <2>6, <2>7, <2>8
<1>5. CASE cnt = 0
  <2>1. pc' = "exit" /\ out' = out /\ args' = args
    BY <1>1, <1>2, <1>5 DEF Exit, Goto, Writes, programVars
  <2>2. ASSUME IsFile(args), Sound(InodeOf(args)) PROVE FlattenSeq(out) = Content(InodeOf(args))
    <3> DEFINE inode == InodeOf(args)
    <3>1. /\ f \in Fds /\ IsOpen(f, "fs_ops") /\ fd_array[f].inode = inode
          /\ Len(bytes) = 0 /\ BufSize \in Nat \ {0}
      BY <1>4, <1>5, <2>2, ProgramsAssumption
    <3>2. FlattenSeq(out) = got[f]
      BY <1>1, <2>2 DEF CatInv, Copying
    <3> HIDE DEF inode, f
    <3>3. Sound(fd_array[f].inode)
      BY <2>2, <3>1 DEF inode
    <3>4. Len(got[f]) >= Inodes[inode].data_len
      BY <3>1, <3>3, EndOfFile DEF CallInv
    <3>5. HasRead(f) /\ got[f] \in Seq(Bytes)
      BY <3>1, <3>3 DEF CallInv, FileInv, ReadsInv
    <3>6. Len(got[f]) = Inodes[inode].data_len /\ \A k \in 1 .. Len(got[f]) : got[f][k] = Content(inode)[k]
      <4>1. inode \in InodeNums
        BY <3>1 DEF CallInv, FileInv, TypeOK
      <4>2. Inodes[inode].data_len \in Nat /\ Len(got[f]) \in Nat
        BY <3>5, <4>1, ConstantsAssumption, LenProperties
      <4> QED  BY <3>1, <3>4, <3>5, <4>2 DEF HasRead
    <3>7. got[f] = [k \in 1 .. Inodes[inode].data_len |-> got[f][k]]
      BY <3>5, <3>6
    <3>8. got[f] = Content(inode)
      BY <3>6, <3>7 DEF Content
    <3> QED  BY <3>2, <3>8 DEF inode
  <2> QED  BY <1>3, <2>1, <2>2 DEF CatInv, CatIsExact, Ended, At
<1>6. CASE cnt = -1
  <2>1. loc' = [status |-> 3] /\ pc' = "exit"
    BY <1>2, <1>6 DEF Exit
  <2>2. loc'.status # 0
    BY <2>1
  <2> QED  BY <2>1, <2>2 DEF CatInv, CatIsExact, Ended, At
<1>7. CASE cnt # 0 /\ cnt # -1
  <2>1. pc' = "read" /\ loc' = loc /\ args' = args /\ out' = Append(out, ReadData(f, BufSize))
    BY <1>2, <1>7 DEF Goto, Writes, programVars
  <2>2. ASSUME IsFile(args) PROVE Copying'
    <3>1. /\ f \in Fds /\ IsOpen(f, "fs_ops") /\ fd_array[f].inode = InodeOf(args)
          /\ bytes \in Seq(Bytes) /\ ReadData(f, BufSize) = bytes /\ f_read(f, BufSize)
      BY <1>4, <2>2
    <3>2. out \in Seq(Seq(Bytes)) /\ FlattenSeq(out) = got[f]
      BY <1>1, <2>2 DEF CatInv, Copying
    <3> HIDE DEF f, bytes
    <3>3. out' \in Seq(Seq(Bytes)) /\ FlattenSeq(out') = got[f] \o bytes
      <4>1. out' = Append(out, bytes)
        BY <2>1, <3>1
      <4>2. out' \in Seq(Seq(Bytes))
        BY <3>1, <3>2, <4>1, AppendProperties
      <4>3. FlattenSeq(Append(out, bytes)) = FlattenSeq(out) \o bytes
        BY <3>1, <3>2, FlattenAppend
      <4> QED  BY <3>2, <4>1, <4>2, <4>3
    <3>4. got'[f] = got[f] \o bytes
      BY <3>1 DEF f_read, CallInv, FileInv, ReadsInv, bytes
    <3>5. /\ fd_array'[f].flags /\ fd_array'[f].table_ptr = "fs_ops"
          /\ fd_array'[f].inode = fd_array[f].inode
      <4>1. fd_array' = [fd_array EXCEPT ![f].file_position = @ + Advance(f, BufSize)]
        BY <3>1 DEF f_read
      <4> QED  BY <3>1, <4>1 DEF IsOpen, CallInv, FileInv, TypeOK
    <3>6. loc'.fd = f
      BY <2>1 DEF f
    <3> QED  BY <2>1, <3>1, <3>3, <3>4, <3>5, <3>6 DEF Copying, IsOpen, InodeOf
  <2> QED  BY <1>3, <2>1, <2>2 DEF CatInv, CatIsExact, Ended, At
<1> QED  BY <1>5, <1>6, <1>7

LEMMA CatKept == ASSUME CallInv, CatInv, CatIsExact, [ProgramsNext]_vars PROVE CatInv' /\ CatIsExact'
<1>1. CASE prog' # <<"cat">>
  BY <1>1 DEF CatInv, CatIsExact, Ended, At
<1>2. CASE ProgramNext /\ ~Halt /\ ~HaltLost /\ prog' = <<"cat">>
  <2>1. prog = <<"cat">>
    BY <1>2, ProgramGoesOn DEF GoesOn
  <2>2. CatOpen \/ CatRead
    BY <1>2, <2>1, StepOfProgram
  <2> QED  BY <2>2, CatOpenKeeps, CatReadKeeps
<1>3. CASE Halt \/ ShellRead
  BY <1>1, <1>3 DEF Halt, ShellRead, BackToShell, ShellName
<1>4. CASE HaltLost
  BY <1>4 DEF HaltLost, CatInv, CatIsExact, Ended, At
<1>5. CASE Execute
  <2>1. pc' = "prompt" \/ (pc' = "start" /\ out' = <<>>)
    BY <1>5 DEF Execute, BackToShell
  <2> QED  BY <2>1 DEF CatInv, CatIsExact, Ended, At
<1>6. CASE ClientCall \/ ClientExit
  <2>1. prog' = <<"client">>
    BY <1>6 DEF ClientCall, ClientExit, At, Fault, Exit, programVars, shellVars
  <2> QED  BY <1>1, <2>1
<1>7. CASE UNCHANGED vars
  BY <1>7 DEF vars, fileVars, shellVars, history, CatInv, CatIsExact, Ended, IsFile, InodeOf, Copying, IsOpen, At
<1> QED  BY <1>1, <1>2, <1>3, <1>4, <1>5, <1>6, <1>7 DEF ProgramsNext

\* cat writes the file it was asked for, exactly, whatever the image, the
\* block size and the size of its buffer.
THEOREM CatCopiesFile == ProgramsSpec => []CatIsExact
<1>1. Init => CatInv /\ CatIsExact
  BY DEF Init, ShellInit, CatInv, CatIsExact, Ended, At, ShellName
<1>2. CallInv /\ CatInv /\ CatIsExact /\ [ProgramsNext]_vars => (CatInv /\ CatIsExact)'
  BY CatKept
<1> QED  BY <1>1, <1>2, AlwaysCallInv, PTL DEF ProgramsSpec

-----------------------------------------------------------------------------
(* The ninth descriptor: no program closes it                              *)

Low == Fds \cup {-1}

FishInv ==
    /\ At(<<"fish">>, "open") =>
        /\ DOMAIN loc = {"rtc", "fds"} /\ loc.rtc \in Low
        /\ loc.fds \in Seq(Low) /\ Len(loc.fds) \in {0, 1}
    /\ At(<<"fish">>, "read") \/ At(<<"fish">>, "row") =>
        /\ DOMAIN loc = {"rtc", "fds", "c", "eof", "row", "col", "k"} /\ loc.rtc \in Low
        /\ loc.fds \in Seq(Low) /\ Len(loc.fds) = 2
    /\ At(<<"fish">>, "row") => loc.k \in {1, 2}
    /\ At(<<"fish">>, "clock") => DOMAIN loc = {"rtc", "i"} /\ loc.rtc \in Low

SyserrPlace ==
    At(<<"syserr">>, "call") =>
        /\ DOMAIN loc = {"test", "last", "rets", "fail"}
        /\ loc.last \in 1 .. 8 /\ loc.test \in 1 .. loc.last

LEMMA OpenRetLow == ASSUME FileInv, NEW name PROVE OpenRet(name) \in Low
BY OpenRetType DEF Low

LEMMA FishStarts == ASSUME FileInv, FishInv, FishOpenRtc \/ FishOpen PROVE FishInv'
<1>1. CASE FishOpenRtc
  <2>1. prog' = <<"fish">> /\ pc' = "open" /\ loc' = [rtc |-> OpenRet(<<"rtc">>), fds |-> <<>>]
    BY <1>1 DEF FishOpenRtc, At, Goto, programVars
  <2> QED  BY <2>1, OpenRetLow DEF FishInv, At
<1>2. CASE FishOpen
  <2> DEFINE ret == OpenRet(Frames[Len(loc.fds) + 1])
             frames == Append(loc.fds, ret)
  <2>1. At(<<"fish">>, "open") /\ prog' = prog
    BY <1>2, Zenon DEF FishOpen, At, Goto, Exit, programVars
  <2>2. \/ pc' = "exit"
        \/ Len(frames) < 2 /\ pc' = "open" /\ loc' = [loc EXCEPT !.fds = frames]
        \/ /\ ~(Len(frames) < 2) /\ pc' = "read"
           /\ loc' = [rtc |-> loc.rtc, fds |-> frames, c |-> <<"0", "0">>,
                      eof |-> <<FALSE, FALSE>>, row |-> 0, col |-> 0, k |-> 1]
    BY <1>2, Zenon DEF FishOpen, Goto, Exit
  <2>3. /\ DOMAIN loc = {"rtc", "fds"} /\ loc.rtc \in Low
        /\ frames \in Seq(Low) /\ Len(frames) = Len(loc.fds) + 1 /\ Len(loc.fds) \in {0, 1}
    BY <2>1, OpenRetLow, AppendProperties DEF FishInv
  <2> HIDE DEF frames
  <2>4. CASE pc' = "exit"
    BY <2>4 DEF FishInv, At
  <2>5. CASE Len(frames) < 2 /\ pc' = "open" /\ loc' = [loc EXCEPT !.fds = frames]
    <3>1. DOMAIN loc' = {"rtc", "fds"} /\ loc'.rtc = loc.rtc /\ loc'.fds = frames
      BY <2>3, <2>5
    <3> QED  BY <2>3, <2>5, <3>1 DEF FishInv, At
  <2>6. CASE /\ ~(Len(frames) < 2) /\ pc' = "read"
             /\ loc' = [rtc |-> loc.rtc, fds |-> frames, c |-> <<"0", "0">>,
                        eof |-> <<FALSE, FALSE>>, row |-> 0, col |-> 0, k |-> 1]
    <3>1. /\ DOMAIN loc' = {"rtc", "fds", "c", "eof", "row", "col", "k"}
          /\ loc'.rtc = loc.rtc /\ loc'.fds = frames
      BY <2>6
    <3>2. ASSUME NEW m, NEW n, m = n + 1, n = 0 \/ n = 1, ~(m < 2) PROVE m = 2
      BY <3>2
    <3>3. Len(frames) = 2
      BY <2>3, <2>6, <3>2, Zenon
    <3> QED  BY <2>3, <2>6, <3>1, <3>3 DEF FishInv, At
  <2> QED  BY <2>2, <2>4, <2>5, <2>6
<1> QED  BY <1>1, <1>2

\* The locals of fish that its loop over the characters leaves alone
LoopKept(l) == DOMAIN l = DOMAIN loc /\ l.rtc = loc.rtc /\ l.fds = loc.fds

LEMMA FishLoops == ASSUME FileInv, FishInv, FishRead \/ FishBlink \/ FishRow \/ FishClock PROVE FishInv'
<1>1. prog = <<"fish">> /\ prog' = prog
  BY Zenon DEF FishRead, FishBlink, FishRow, FishClock, At, Goto, Exit, programVars
<1> DEFINE Fields == {"rtc", "fds", "c", "eof", "row", "col", "k"}
<1>2. CASE FishRead
  <2>1. pc = "read" /\ pc' = "read" /\ DOMAIN loc = Fields
    BY <1>2 DEF FishRead, At, Goto, FishInv
  <2>2. \/ loc' = [loc EXCEPT !.k = @ + 1]
        \/ \E x, y : loc' = [loc EXCEPT !.c[loc.k] = x, !.eof[loc.k] = y, !.k = @ + 1]
    BY <1>2, Zenon DEF FishRead, Goto
  <2>3. LoopKept(loc')
    BY <2>1, <2>2, Zenon DEF LoopKept
  <2> QED  BY <1>1, <2>1, <2>3 DEF FishInv, LoopKept, At
<1>3. CASE FishBlink
  <2>1. pc = "read" /\ DOMAIN loc = Fields
    BY <1>3 DEF FishBlink, At, FishInv
  <2>2. \/ pc' = "row" /\ loc' = [loc EXCEPT !.k = 1]
        \/ pc' = "read" /\ loc' = [loc EXCEPT !.col = @ + 1, !.k = 1]
    BY <1>3 DEF FishBlink, Goto
  <2>3. LoopKept(loc') /\ loc'.k = 1
    BY <2>1, <2>2 DEF LoopKept
  <2> QED  BY <1>1, <2>1, <2>2, <2>3 DEF FishInv, LoopKept, At
<1>4. CASE FishRow
  <2> DEFINE next == [loc EXCEPT !.c[loc.k] = NextChar(loc.eof[loc.k]), !.k = @ + 1]
  <2>1. pc = "row" /\ DOMAIN loc = Fields
    BY <1>1, <1>4 DEF FishRow, At, FishInv
  <2>2. \/ loc.k = 1 /\ pc' = "row" /\ loc' = next
        \/ pc' = "clock" /\ loc' = [rtc |-> loc.rtc, i |-> 0]
        \/ pc' = "read" /\ loc' = [next EXCEPT !.row = @ + 1, !.col = 0, !.k = 1]
    BY <1>4, Zenon DEF FishRow, Goto
  <2>3. LoopKept(next) /\ next.k = loc.k + 1
    BY <2>1, Zenon DEF LoopKept
  <2> HIDE DEF next
  <2>4. LoopKept([next EXCEPT !.row = @ + 1, !.col = 0, !.k = 1])
    BY <2>1, <2>3, Zenon DEF LoopKept
  <2>5. CASE pc' = "clock" /\ loc' = [rtc |-> loc.rtc, i |-> 0]
    BY <1>1, <2>1, <2>5 DEF FishInv, At
  <2>6. CASE loc.k = 1 /\ pc' = "row" /\ loc' = next
    BY <1>1, <2>1, <2>3, <2>6 DEF FishInv, LoopKept, At
  <2>7. CASE pc' = "read" /\ LoopKept(loc')
    BY <1>1, <2>1, <2>7 DEF FishInv, LoopKept, At
  <2> QED  BY <2>2, <2>4, <2>5, <2>6, <2>7
<1>5. CASE FishClock
  <2>1. pc = "clock" /\ DOMAIN loc = {"rtc", "i"} /\ loc.rtc \in Low
    BY <1>1, <1>5 DEF FishClock, At, FishInv
  <2>2. \/ pc' = "exit"
        \/ pc' = "clock" /\ loc' = [loc EXCEPT !.i = @ + 1]
    BY <1>5 DEF FishClock, Goto, Exit
  <2>3. loc' = [loc EXCEPT !.i = @ + 1] => DOMAIN loc' = {"rtc", "i"} /\ loc'.rtc = loc.rtc
    BY <2>1
  <2> QED  BY <2>1, <2>2, <2>3 DEF FishInv, At
<1> QED  BY <1>2, <1>3, <1>4, <1>5

LEMMA SyserrPlaceKept ==
  ASSUME SyserrPlace, SyserrSelect \/ SyserrCall \/ SyserrVerdict
  PROVE  SyserrPlace'
<1>1. prog = <<"syserr">> /\ prog' = prog
  BY Zenon DEF SyserrSelect, SyserrCall, SyserrVerdict, At, Goto, Exit, programVars
<1> DEFINE Fields == {"test", "last", "rets", "fail"}
<1>2. CASE SyserrSelect
  <2>1. \/ pc' = "exit"
        \/ /\ pc' = "call"
           /\ \E t \in 1 .. 8 : loc' \in {[test |-> t, last |-> t, rets |-> <<>>, fail |-> 0],
                                          [test |-> 1, last |-> 8, rets |-> <<>>, fail |-> 0]}
    BY <1>2 DEF SyserrSelect, Exit, Goto
  <2> QED  BY <1>1, <2>1 DEF SyserrPlace, At
<1>3. CASE SyserrCall
  <2>1. /\ pc = "call" /\ pc' = "call"
        /\ loc' = [loc EXCEPT !.rets = Append(@, CallRet(Tests[loc.test][Len(loc.rets) + 1]))]
    BY <1>3, Zenon DEF SyserrCall, At, Goto
  <2>2. DOMAIN loc = Fields /\ loc.last \in 1 .. 8 /\ loc.test \in 1 .. loc.last
    BY <1>1, <2>1 DEF SyserrPlace, At
  <2>3. DOMAIN loc' = DOMAIN loc /\ loc'.last = loc.last /\ loc'.test = loc.test
    BY <2>1, <2>2, Zenon
  <2> QED  BY <2>2, <2>3 DEF SyserrPlace
<1>4. CASE SyserrVerdict
  <2>1. pc = "call" /\ (pc' = "exit" \/ /\ pc' = "call" /\ loc.test # loc.last
                                        /\ \E fail : loc' = [loc EXCEPT !.test = @ + 1, !.rets = <<>>, !.fail = fail])
    BY <1>4, Zenon DEF SyserrVerdict, At, Exit, Goto
  <2>2. DOMAIN loc = Fields /\ loc.last \in 1 .. 8 /\ loc.test \in 1 .. loc.last
    BY <1>1, <2>1 DEF SyserrPlace, At
  <2>3. ASSUME NEW fail, loc' = [loc EXCEPT !.test = @ + 1, !.rets = <<>>, !.fail = fail]
        PROVE  DOMAIN loc' = DOMAIN loc /\ loc'.last = loc.last /\ loc'.test = loc.test + 1
    BY <2>2, <2>3, Zenon
  <2>4. CASE pc' = "exit"
    BY <2>4 DEF SyserrPlace, At
  <2>5. CASE pc' # "exit"
    <3>1. loc.test # loc.last /\ DOMAIN loc' = DOMAIN loc /\ loc'.last = loc.last /\ loc'.test = loc.test + 1
      BY <2>1, <2>3, <2>5, Zenon
    <3>2. loc.test + 1 \in 1 .. loc.last
      BY <2>2, <3>1
    <3> QED  BY <2>2, <3>1, <3>2 DEF SyserrPlace
  <2> QED  BY <2>4, <2>5
<1> QED  BY <1>2, <1>3, <1>4

\* The tests close only what open() may give, or what no close() accepts.
LEMMA TestsSpareFrame ==
  ASSUME MaxFiles < BigFd, NEW t \in 1 .. 8, NEW i \in DOMAIN Tests[t], Tests[t][i][1] = "close"
  PROVE  Tests[t][i][2] # MaxFiles
<1>1. MaxFiles \in Nat /\ MaxFiles > 2
  BY ConstantsAssumption
<1>2. CASE t = 1
  BY <1>1, <1>2, SMT DEF Tests, NegFd
<1>3. CASE t = 2
  BY <1>1, <1>3, SMT DEF Tests, BigFd
<1>4. CASE t = 3
  BY <1>1, <1>4, SMT DEF Tests, OpenLots, Calls, LastFd
<1>5. CASE t = 4
  BY <1>1, <1>5, SMT DEF Tests
<1>6. CASE t = 5
  BY <1>1, <1>6, SMT DEF Tests, Calls, UserFds
<1>7. CASE t = 6
  BY <1>1, <1>7, SMT DEF Tests
<1>8. CASE t = 7
  BY <1>1, <1>8, SMT DEF Tests
<1>9. CASE t = 8
  BY <1>1, <1>9, SMT DEF Tests
<1> QED  BY <1>2, <1>3, <1>4, <1>5, <1>6, <1>7, <1>8, <1>9

PlaceInv == FishInv /\ SyserrPlace

\* What a written program closes is not the frame.
LEMMA OwnStepsSpareFrame ==
  ASSUME MaxFiles < BigFd, CallInv, PlaceInv, parent_ebp, ProgramNext, ~Halt, ~HaltLost
  PROVE  parent_ebp'
<1>1. ASSUME NEW f, close(f), f # MaxFiles PROVE parent_ebp'
  BY <1>1 DEF close
<1>2. ASSUME NEW name, open(name) PROVE parent_ebp'
  BY <1>2 DEF open, fileVars
<1>3. ASSUME NEW f, NEW n, read(f, n) PROVE parent_ebp'
  BY <1>3 DEF read, f_read, dir_read, fileVars
<1>4. (UNCHANGED fileVars) => parent_ebp'
  BY DEF fileVars
<1>5. MaxFiles \notin Low
  BY ConstantsAssumption DEF Low, Fds
<1>6. CASE CatOpen \/ CatRead \/ LsOpen \/ LsRead
  BY <1>2, <1>3, <1>4, <1>6, Zenon DEF CatOpen, CatRead, LsOpen, LsRead
<1>7. CASE GrepOpenDir \/ GrepList \/ GrepOpen \/ GrepSearch
  BY <1>2, <1>3, <1>4, <1>7, Zenon DEF GrepOpenDir, GrepList, GrepOpen, GrepSearch
<1>8. CASE GrepClose
  <2>1. close(loc.fd) /\ loc.fd \in Fds
    BY <1>8 DEF GrepClose, CallInv, GrepInv
  <2> QED  BY <1>1, <1>5, <2>1 DEF Low
<1>9. CASE FishOpenRtc \/ FishOpen \/ FishRead \/ FishBlink
  BY <1>2, <1>3, <1>4, <1>9, Zenon DEF FishOpenRtc, FishOpen, FishRead, FishBlink
<1>10. CASE FishRow
  <2>1. (\E k \in {1, 2} : close(loc.fds[k])) \/ UNCHANGED fileVars
    BY <1>10 DEF FishRow, PlaceInv, FishInv
  <2>2. \A k \in {1, 2} : loc.fds[k] \in Low
    BY <1>10 DEF FishRow, PlaceInv, FishInv, At
  <2> QED  BY <1>1, <1>4, <1>5, <2>1, <2>2
<1>11. CASE FishClock
  <2>1. loc.rtc \in Low
    BY <1>11 DEF FishClock, PlaceInv, FishInv
  <2>2. close(loc.rtc) \/ read(loc.rtc, 4)
    BY <1>11, Zenon DEF FishClock
  <2> QED  BY <1>1, <1>3, <1>5, <2>1, <2>2
<1>12. CASE SyserrSelect \/ SyserrVerdict
  BY <1>4, <1>12, Zenon DEF SyserrSelect, SyserrVerdict
<1>13. CASE SyserrCall
  <2> DEFINE i == Len(loc.rets) + 1
             c == Tests[loc.test][i]
  <2>1. MakeCall(c) /\ loc.test \in 1 .. 8 /\ i \in DOMAIN Tests[loc.test]
    BY <1>13 DEF SyserrCall, PlaceInv, SyserrPlace
  <2>2. c[1] = "close" => c[2] # MaxFiles
    <3> HIDE DEF i
    <3> QED  BY <2>1, TestsSpareFrame
  <2> HIDE DEF c
  <2> QED  BY <1>1, <1>2, <1>3, <1>4, <2>1, <2>2 DEF MakeCall
<1>14. CASE Hello \/ CounterSelect \/ Count \/ SigTest
  BY <1>4, <1>14, Zenon DEF Hello, CounterSelect, Count, SigTest
<1> QED  BY <1>6, <1>7, <1>8, <1>9, <1>10, <1>11, <1>12, <1>13, <1>14, Zenon DEF ProgramNext

LEMMA PlaceKept == ASSUME CallInv, PlaceInv, [ProgramsNext]_vars PROVE PlaceInv'
<1>1. CASE ProgramNext /\ ~Halt /\ ~HaltLost
  <2>1. CASE prog \notin {<<"fish">>, <<"syserr">>}
    <3>1. prog' = prog
      BY <1>1, ProgramGoesOn DEF GoesOn
    <3> QED  BY <2>1, <3>1 DEF PlaceInv, FishInv, SyserrPlace, At
  <2>2. CASE prog = <<"fish">>
    <3>1. FishOpenRtc \/ FishOpen \/ FishRead \/ FishBlink \/ FishRow \/ FishClock
      BY <1>1, <2>2, StepOfProgram
    <3>2. FishInv'
      BY <3>1, FishStarts, FishLoops DEF CallInv, PlaceInv
    <3>3. prog' = prog
      BY <1>1, ProgramGoesOn DEF GoesOn
    <3> QED  BY <2>2, <3>2, <3>3 DEF PlaceInv, SyserrPlace, At
  <2>3. CASE prog = <<"syserr">>
    <3>1. SyserrSelect \/ SyserrCall \/ SyserrVerdict
      BY <1>1, <2>3, StepOfProgram
    <3>2. SyserrPlace'
      BY <3>1, SyserrPlaceKept DEF PlaceInv
    <3>3. prog' = prog
      BY <1>1, ProgramGoesOn DEF GoesOn
    <3> QED  BY <2>3, <3>2, <3>3 DEF PlaceInv, FishInv, At
  <2> QED  BY <2>1, <2>2, <2>3
<1>2. CASE Halt \/ HaltLost \/ ShellRead \/ Execute
  <2>1. pc' \in {"prompt", "lost", "exit", "execute", "start"}
    BY <1>2 DEF Halt, HaltLost, ShellRead, Execute, BackToShell
  <2> QED  BY <2>1 DEF PlaceInv, FishInv, SyserrPlace, At
<1>3. CASE ClientCall \/ ClientExit
  <2>1. prog' = <<"client">>
    BY <1>3 DEF ClientCall, ClientExit, At, Fault, Exit, programVars, shellVars
  <2> QED  BY <2>1 DEF PlaceInv, FishInv, SyserrPlace, At
<1>4. CASE UNCHANGED vars
  BY <1>4 DEF vars, shellVars, PlaceInv, FishInv, SyserrPlace, At
<1> QED  BY <1>1, <1>2, <1>3, <1>4 DEF ProgramsNext

LEMMA FrameStep ==
  ASSUME MaxFiles < BigFd, CallInv, PlaceInv, FrameKept, [ProgramsNext]_vars
  PROVE  FrameKept'
<1>1. CASE ProgramNext /\ ~Halt /\ ~HaltLost
  <2>1. prog' = prog
    BY <1>1, ProgramGoesOn DEF GoesOn
  <2> QED  BY <1>1, <2>1, OwnStepsSpareFrame DEF FrameKept
<1>2. CASE Halt
  BY <1>2 DEF Halt, NewProcess, FrameKept
<1>3. CASE HaltLost \/ ShellRead
  BY <1>3 DEF HaltLost, ShellRead, programVars, fileVars, FrameKept, ShellName
<1>4. CASE Execute
  <2>1. prog = ShellName /\ (NewProcess \/ UNCHANGED fileVars)
    BY <1>4 DEF Execute
  <2> QED  BY <2>1 DEF NewProcess, fileVars, FrameKept, ShellName
<1>5. CASE ClientCall \/ ClientExit
  <2>1. prog' = <<"client">>
    BY <1>5 DEF ClientCall, ClientExit, At, Fault, Exit, programVars, shellVars
  <2> QED  BY <2>1 DEF FrameKept
<1>6. CASE UNCHANGED vars
  BY <1>6 DEF vars, shellVars, fileVars, FrameKept
<1> QED  BY <1>1, <1>2, <1>3, <1>4, <1>5, <1>6 DEF ProgramsNext

\* As long as the table is shorter than the descriptor syserr makes up, no
\* written program closes the ninth descriptor, through which halt() returns.
THEOREM ProgramsSpareFrame == MaxFiles < BigFd => (ProgramsSpec => []FrameKept)
<1> SUFFICES ASSUME MaxFiles < BigFd PROVE ProgramsSpec => []FrameKept
  OBVIOUS
<1>1. Init => PlaceInv /\ FrameKept
  BY DEF Init, ShellInit, Fresh, PlaceInv, FishInv, SyserrPlace, At, ShellName, FrameKept
<1>2. CallInv /\ PlaceInv /\ FrameKept /\ [ProgramsNext]_vars => (PlaceInv /\ FrameKept)'
  BY PlaceKept, FrameStep
<1> QED  BY <1>1, <1>2, AlwaysCallInv, PTL DEF ProgramsSpec

-----------------------------------------------------------------------------
(* What ls writes                                                          *)

\* Empty sequences at the end add nothing.
LEMMA FlattenPadded ==
  ASSUME NEW S, NEW s \in Seq(Seq(S)), NEW t \in Seq(Seq(S)), Len(s) <= Len(t),
         \A i \in 1 .. Len(t) : t[i] = IF i <= Len(s) THEN s[i] ELSE <<>>
  PROVE  FlattenSeq(t) = FlattenSeq(s)
<1> DEFINE n == Len(s)
           m == Len(t)
<1>1. n \in Nat /\ m \in Nat /\ n <= m
  BY LenProperties
<1>2. PICK f \in [0 .. n -> Seq(S)] : Joined(f, s) /\ FlattenSeq(s) = f[n]
  BY Flattened
<1>3. PICK g \in [0 .. m -> Seq(S)] : Joined(g, t) /\ FlattenSeq(t) = g[m]
  BY Flattened
<1> DEFINE R == {i \in 0 .. m : g[i] = f[IF i <= n THEN i ELSE n]}
<1>4. 0 \in R
  BY <1>1, <1>2, <1>3 DEF Joined
<1>5. ASSUME NEW i \in 1 .. m, i - 1 \in R PROVE i \in R
  <2>1. i \in 0 .. m /\ i - 1 \in 0 .. m
    BY <1>1
  <2>2. g[i] = g[i - 1] \o t[i]
    BY <1>3 DEF Joined
  <2>3. CASE i <= n
    <3>1. i \in 1 .. n /\ i - 1 <= n
      BY <1>1, <2>3
    <3>2. f[i] = f[i - 1] \o s[i]
      BY <1>2, <3>1 DEF Joined
    <3>3. t[i] = s[i]
      BY <2>3
    <3> QED  BY <1>5, <2>1, <2>2, <2>3, <3>1, <3>2, <3>3
  <2>4. CASE ~(i <= n)
    <3>1. t[i] = <<>>
      BY <2>4
    <3>2. g[i - 1] = f[n]
      BY <1>1, <1>5, <2>4
    <3>3. g[i - 1] \in Seq(S)
      BY <2>1
    <3>4. g[i - 1] \o <<>> = g[i - 1]
      BY <3>3, ConcatEmptySeq
    <3> QED  BY <2>1, <2>2, <2>4, <3>1, <3>2, <3>4
  <2> QED  BY <2>3, <2>4
<1>6. m \in R
  <2>1. m \in 0 .. m
    BY <1>1
  <2> HIDE DEF R, m
  <2> QED  BY <1>1, <1>4, <1>5, <2>1, BoundedInduction
<1>7. g[m] = f[n]
  BY <1>1, <1>6
<1> QED  BY <1>2, <1>3, <1>7

\* An image whose directory has an entry for itself and, after the entries
\* with names, one without.
ListableImage ==
    /\ Entries(<<".">>) # {} /\ Dentries[Lookup(<<".">>)].file_type = Directory
    /\ \E last \in 0 .. DentryNums - 1 : \A i \in 1 .. DentryNums : Dentries[i].name = <<>> <=> i > last

Units == STRING \cup {"\n"}
NameLine(i) == Dentries[i].name \o <<"\n">>

LEMMA NamesType ==
  ASSUME NEW i \in 1 .. DentryNums
  PROVE  Dentries[i].name \in Seq(STRING) /\ NameLine(i) \in Seq(Units)
<1>1. Dentries[i].name \in Seq(STRING)
  <2>1. Dentries[i] \in [name : Seq(STRING), file_type : {Rtc, Directory, RegularFile}, inode_count : InodeNums]
    BY ConstantsAssumption, ElementOfSeq DEF DentryNums
  <2> QED  BY <2>1
<1>2. Dentries[i].name \in Seq(Units) /\ <<"\n">> \in Seq(Units)
  BY <1>1 DEF Units
<1> HIDE DEF Units
<1>3. NameLine(i) \in Seq(Units)
  BY <1>2, ConcatProperties DEF NameLine
<1> QED  BY <1>1, <1>3

\* A program opens the directory first.
LEMMA DirectoryOpens ==
  ASSUME ListableImage, FileInv, fd_array = InitFds, open(<<".">>)
  PROVE  /\ OpenRet(<<".">>) # -1 /\ OpenRet(<<".">>) \in Fds \ {0, 1}
         /\ fd_array'[OpenRet(<<".">>)].flags /\ fd_array'[OpenRet(<<".">>)].table_ptr = "dir_ops"
         /\ Cursor' = 0
<1> DEFINE name == <<".">>
<1>1. OpenRet(name) # -1
  <2>1. Vacant # {}
    <3>1. 2 \in Fds /\ ~InitFds[2].flags
      BY ConstantsAssumption DEF Fds, InitFds, Fd
    <3> QED  BY <3>1 DEF Vacant
  <2>2. VacantFd \in Fds
    BY <2>1, VacantFdIsVacant
  <2>3. VacantFd # -1
    BY <2>2 DEF Fds
  <2>4. name # <<>>
    OBVIOUS
  <2> QED  BY <2>1, <2>3, <2>4 DEF OpenRet, ListableImage
<1> DEFINE f == VacantFd
           d == Opened(Dentries[Lookup(name)])
<1>2. f = OpenRet(name) /\ f \in Fds \ {0, 1}
  BY <1>1, OpenRetType
<1>3. fd_array' = [fd_array EXCEPT ![f] = d]
  BY <1>1 DEF open
<1>4. d.flags /\ d.table_ptr = "dir_ops"
  BY DEF ListableImage, Opened, Rtc, Directory, RegularFile
<1> HIDE DEF f, d
<1>5. fd_array'[f].flags /\ fd_array'[f].table_ptr = "dir_ops"
  BY <1>2, <1>3, <1>4 DEF FileInv, TypeOK
<1>6. Cursor' = 0
  <2>1. InitFds[0].file_position = 0 /\ 0 \in Fds
    BY ConstantsAssumption DEF InitFds, Fds, Fd
  <2> QED  BY <1>2, <1>3, <2>1 DEF Cursor
<1> QED  BY <1>1, <1>2, <1>5, <1>6

\* A read of the directory gives the next name, until there is one without.
LEMMA DirectoryReads ==
  ASSUME ListableImage, FileInv, NEW f \in Fds \ {0, 1}, IsOpen(f, "dir_ops"),
         \A i \in 1 .. Cursor : Dentries[i].name # <<>>, read(f, NameSize)
  PROVE  /\ ListedName \in Seq(STRING) /\ Len(ListedName) \in Nat
         /\ ReadRet(f, NameSize) = Len(ListedName) /\ ReadData(f, NameSize) = ListedName
         /\ Cursor \in Nat /\ Cursor + 1 \in 1 .. DentryNums /\ Cursor' = Cursor + 1
         /\ \A g \in Fds \ {0} : fd_array'[g] = fd_array[g]
         /\ ListedName = <<>> => \A i \in 1 .. DentryNums : Dentries[i].name # <<>> <=> i <= Cursor
<1>1. PICK last \in 0 .. DentryNums - 1 : \A i \in 1 .. DentryNums : Dentries[i].name = <<>> <=> i > last
  BY DEF ListableImage
<1>2. Cursor \in 0 .. last /\ DentryNums \in Nat /\ last \in Nat
  <2>1. Cursor \in Nat /\ DentryNums \in Nat /\ Cursor <= DentryNums
    BY Numbers DEF Cursor, FileInv, TypeOK
  <2>2. Cursor <= last
    <3>1. CASE Cursor > last
      <4>1. last + 1 \in 1 .. Cursor /\ last + 1 \in 1 .. DentryNums
        BY <2>1, <3>1
      <4> QED  BY <1>1, <4>1
    <3> QED  BY <2>1, <3>1
  <2> QED  BY <2>1, <2>2
<1>3. InTable /\ Cursor + 1 \in 1 .. DentryNums
  BY <1>2 DEF InTable
<1>4. CanRead(f, NameSize)
  BY ConstantsAssumption DEF CanRead, IsOpen
<1>5. dir_read(f)
  BY <1>3, <1>4 DEF read, IsOpen
<1>6. ReadRet(f, NameSize) = Len(ListedName) /\ ReadData(f, NameSize) = ListedName
  BY <1>3, <1>4 DEF ReadRet, ReadData, IsOpen
<1>7. ListedName \in Seq(STRING) /\ Len(ListedName) \in Nat
  BY <1>3, NamesType, LenProperties DEF ListedName
<1>8. fd_array' = [fd_array EXCEPT ![0].file_position = Cursor + 1]
  BY <1>5 DEF dir_read, NextCursor
<1>9. Cursor' = Cursor + 1 /\ \A g \in Fds \ {0} : fd_array'[g] = fd_array[g]
  BY <1>8, Numbers DEF Cursor, FileInv, TypeOK
<1>10. ListedName = <<>> => \A i \in 1 .. DentryNums : Dentries[i].name # <<>> <=> i <= Cursor
  <2> SUFFICES ASSUME ListedName = <<>> PROVE \A i \in 1 .. DentryNums : Dentries[i].name # <<>> <=> i <= Cursor
    OBVIOUS
  <2>1. Cursor = last
    BY <1>1, <1>2, <1>3 DEF ListedName
  <2> QED  BY <1>1, <1>2, <2>1
<1> QED  BY <1>2, <1>3, <1>6, <1>7, <1>9, <1>10

LsInv ==
    /\ prog = <<"ls">> /\ pc = "start" => out = <<>> /\ fd_array = InitFds
    /\ prog = <<"ls">> /\ pc = "read" =>
        /\ loc.fd \in Fds \ {0, 1} /\ IsOpen(loc.fd, "dir_ops")
        /\ \A i \in 1 .. Cursor : Dentries[i].name # <<>>
        /\ out = [i \in 1 .. Cursor |-> NameLine(i)]

LEMMA LsOpenKeeps ==
  ASSUME ListableImage, CallInv, LsInv, LsOpen
  PROVE  LsInv' /\ LsListsAll'
<1>1. /\ At(<<"ls">>, "start") /\ prog' = prog /\ open(<<".">>) /\ out = <<>> /\ out' = <<>>
      /\ fd_array = InitFds /\ FileInv
  BY Zenon DEF LsOpen, LsInv, At, Exit, Goto, programVars, CallInv
<1>2. /\ OpenRet(<<".">>) # -1 /\ OpenRet(<<".">>) \in Fds \ {0, 1}
      /\ fd_array'[OpenRet(<<".">>)].flags /\ fd_array'[OpenRet(<<".">>)].table_ptr = "dir_ops"
      /\ Cursor' = 0
  BY <1>1, DirectoryOpens
<1>3. pc' = "read" /\ loc' = [fd |-> OpenRet(<<".">>)]
  BY <1>2 DEF LsOpen, Goto
<1>4. loc'.fd = OpenRet(<<".">>)
  BY <1>3
<1>5. out' = [i \in 1 .. 0 |-> NameLine(i)]
  BY <1>1
<1> QED  BY <1>1, <1>2, <1>3, <1>4, <1>5 DEF LsInv, LsListsAll, IsOpen, At

\* What ls writes of the names up to the last is what the whole table gives.
LEMMA NamesFlattened ==
  ASSUME NEW last \in 0 .. DentryNums - 1, \A i \in 1 .. DentryNums : Dentries[i].name = <<>> <=> i > last
  PROVE  FlattenSeq([i \in 1 .. last |-> NameLine(i)])
           = FlattenSeq([i \in DOMAIN Dentries |->
                 IF Dentries[i].name = <<>> THEN <<>> ELSE Dentries[i].name \o <<"\n">>])
<1> DEFINE s == [i \in 1 .. last |-> NameLine(i)]
           t == [i \in 1 .. DentryNums |-> IF Dentries[i].name = <<>> THEN <<>> ELSE NameLine(i)]
<1>1. DentryNums \in Nat /\ last \in Nat /\ DOMAIN Dentries = 1 .. DentryNums
  BY Numbers, ConstantsAssumption, LenProperties DEF DentryNums
<1>2. s \in Seq(Seq(Units)) /\ Len(s) = last
  <2>1. \A i \in 1 .. last : NameLine(i) \in Seq(Units)
    BY <1>1, NamesType
  <2> QED  BY <1>1, <2>1
<1>3. t \in Seq(Seq(Units)) /\ Len(t) = DentryNums
  <2>1. \A i \in 1 .. DentryNums : NameLine(i) \in Seq(Units)
    BY NamesType
  <2>2. <<>> \in Seq(Units)
    OBVIOUS
  <2> HIDE DEF Units
  <2> QED  BY <1>1, <2>1, <2>2
<1>4. \A i \in 1 .. DentryNums : t[i] = IF i <= last THEN s[i] ELSE <<>>
  BY <1>1
<1>5. FlattenSeq(t) = FlattenSeq(s)
  <2> HIDE DEF s, t, Units
  <2> QED  BY <1>1, <1>2, <1>3, <1>4, FlattenPadded
<1>6. t = [i \in DOMAIN Dentries |-> IF Dentries[i].name = <<>> THEN <<>> ELSE Dentries[i].name \o <<"\n">>]
  BY <1>1 DEF NameLine
<1> QED  BY <1>5, <1>6

LEMMA LsReadKeeps ==
  ASSUME ListableImage, CallInv, LsInv, LsRead
  PROVE  LsInv' /\ LsListsAll'
<1> DEFINE f == loc.fd
           cnt == ReadRet(f, NameSize)
<1>1. At(<<"ls">>, "read") /\ UNCHANGED programVars /\ read(f, NameSize)
  BY Zenon DEF LsRead, Exit, Goto
<1>2. /\ f \in Fds \ {0, 1} /\ IsOpen(f, "dir_ops")
      /\ \A i \in 1 .. Cursor : Dentries[i].name # <<>>
      /\ out = [i \in 1 .. Cursor |-> NameLine(i)]
  BY <1>1 DEF LsInv, At
<1>3. PICK last \in 0 .. DentryNums - 1 : \A i \in 1 .. DentryNums : Dentries[i].name = <<>> <=> i > last
  BY DEF ListableImage
<1>4. PICK d \in Fds \ {0, 1} : d = f
  BY <1>2
<1>5. /\ ListedName \in Seq(STRING) /\ Len(ListedName) \in Nat
      /\ ReadRet(d, NameSize) = Len(ListedName) /\ ReadData(d, NameSize) = ListedName
      /\ Cursor \in Nat /\ Cursor + 1 \in 1 .. DentryNums /\ Cursor' = Cursor + 1
      /\ \A g \in Fds \ {0} : fd_array'[g] = fd_array[g]
      /\ ListedName = <<>> => \A i \in 1 .. DentryNums : Dentries[i].name # <<>> <=> i <= Cursor
  <2>1. IsOpen(d, "dir_ops") /\ read(d, NameSize) /\ FileInv
    BY <1>1, <1>2, <1>4 DEF CallInv
  <2> QED  BY <1>2, <2>1, DirectoryReads
<1>6. cnt = Len(ListedName) /\ ReadData(f, NameSize) = ListedName
  BY <1>4, <1>5
<1>7. Cursor \in Nat /\ last \in Nat /\ DentryNums \in Nat
  BY <1>3, <1>5, Numbers
<1>8. cnt # -1
  BY <1>5, <1>6
<1>9. \/ cnt = 0 /\ Exit(0) /\ UNCHANGED out
      \/ cnt # 0 /\ Goto("read", loc) /\ Writes(ReadData(f, NameSize) \o <<"\n">>)
  BY <1>8 DEF LsRead
<1> HIDE DEF cnt
<1>10. CASE cnt = 0
  <2>1. ListedName = <<>>
    BY <1>5, <1>6, <1>10, EmptySeq
  <2>2. Cursor = last
    <3>1. last + 1 \in 1 .. DentryNums /\ ~(last + 1 <= Cursor)
      BY <1>3, <1>5, <1>7, <2>1
    <3>2. Cursor + 1 > last
      BY <1>3, <1>5, <2>1 DEF ListedName
    <3> QED  BY <1>7, <3>1, <3>2
  <2>3. FlattenSeq(out) = FlattenSeq([i \in DOMAIN Dentries |->
                 IF Dentries[i].name = <<>> THEN <<>> ELSE Dentries[i].name \o <<"\n">>])
    BY <1>2, <1>3, <2>2, NamesFlattened
  <2>4. pc' = "exit" /\ loc' = [status |-> 0] /\ out' = out
    BY <1>9, <1>10 DEF Exit
  <2>5. loc'.status = 0
    BY <2>4
  <2> QED  BY <2>3, <2>4, <2>5 DEF LsInv, LsListsAll
<1>11. CASE cnt # 0
  <2>1. Dentries[Cursor + 1].name # <<>>
    BY <1>6, <1>11, EmptySeq DEF ListedName
  <2>2. pc' = "read" /\ loc' = loc /\ out' = Append(out, NameLine(Cursor + 1)) /\ prog' = prog
    BY <1>1, <1>6, <1>9, <1>11 DEF Goto, Writes, NameLine, ListedName, programVars
  <2>3. Cursor' = Cursor + 1 /\ fd_array'[f] = fd_array[f]
    BY <1>2, <1>5
  <2>4. out' = [i \in 1 .. Cursor + 1 |-> NameLine(i)]
    <3>1. out \in Seq(Seq(Units)) /\ Len(out) = Cursor /\ NameLine(Cursor + 1) \in Seq(Units)
      <4>1. \A i \in 1 .. Cursor + 1 : NameLine(i) \in Seq(Units)
        BY <1>5, <1>7, NamesType
      <4> HIDE DEF Cursor
      <4> QED  BY <1>2, <1>7, <4>1
    <3>2. /\ out' \in Seq(Seq(Units)) /\ Len(out') = Cursor + 1
          /\ \A i \in 1 .. Cursor : out'[i] = out[i]
          /\ out'[Cursor + 1] = NameLine(Cursor + 1)
      <4> DEFINE x == NameLine(Cursor + 1)
      <4>1. out' = Append(out, x)
        BY <2>2
      <4> HIDE DEF x
      <4>2. x \in Seq(Units)
        BY <3>1 DEF x
      <4>3. /\ out' \in Seq(Seq(Units)) /\ Len(out') = Len(out) + 1
            /\ \A i \in 1 .. Len(out) : out'[i] = out[i]
            /\ out'[Len(out) + 1] = x
        <5>1. PICK s \in Seq(Seq(Units)) : s = out
          BY <3>1
        <5>2. /\ Append(s, x) \in Seq(Seq(Units)) /\ Len(Append(s, x)) = Len(s) + 1
              /\ \A i \in 1 .. Len(s) : Append(s, x)[i] = s[i]
              /\ Append(s, x)[Len(s) + 1] = x
          BY <4>2, AppendProperties
        <5> QED  BY <4>1, <5>1, <5>2
      <4> QED  BY <3>1, <4>3 DEF x
    <3>3. \A i \in 1 .. Cursor + 1 : out'[i] = NameLine(i)
      BY <1>2, <1>7, <3>2
    <3> QED  BY <1>7, <3>2, <3>3
  <2>5. \A i \in 1 .. Cursor + 1 : Dentries[i].name # <<>>
    BY <1>2, <1>7, <2>1
  <2> QED  BY <1>1, <1>2, <2>2, <2>3, <2>4, <2>5 DEF LsInv, LsListsAll, IsOpen, At
<1> QED  BY <1>10, <1>11

LEMMA LsKept ==
  ASSUME ListableImage, CallInv, LsInv, LsListsAll, [ProgramsNext]_vars
  PROVE  LsInv' /\ LsListsAll'
<1>1. CASE prog' # <<"ls">>
  BY <1>1 DEF LsInv, LsListsAll
<1>2. CASE ProgramNext /\ ~Halt /\ ~HaltLost /\ prog' = <<"ls">>
  <2>1. prog = <<"ls">>
    BY <1>2, ProgramGoesOn DEF GoesOn
  <2>2. LsOpen \/ LsRead
    BY <1>2, <2>1, StepOfProgram
  <2> QED  BY <2>2, LsOpenKeeps, LsReadKeeps
<1>3. CASE Halt \/ ShellRead
  <2>1. prog' = ShellName
    BY <1>3 DEF Halt, ShellRead, BackToShell
  <2> QED  BY <1>1, <2>1 DEF ShellName
<1>4. CASE HaltLost
  BY <1>4 DEF HaltLost, LsInv, LsListsAll
<1>5. CASE Execute
  <2>1. pc' = "prompt" \/ (pc' = "start" /\ out' = <<>> /\ NewProcess)
    BY <1>5 DEF Execute, BackToShell
  <2> QED  BY <2>1 DEF LsInv, LsListsAll, NewProcess
<1>6. CASE ClientCall \/ ClientExit
  <2>1. prog' = <<"client">>
    BY <1>6 DEF ClientCall, ClientExit, At, Fault, Exit, programVars, shellVars
  <2> QED  BY <1>1, <2>1
<1>7. CASE UNCHANGED vars
  BY <1>7 DEF vars, fileVars, shellVars, LsInv, LsListsAll, IsOpen, Cursor
<1> QED  BY <1>1, <1>2, <1>3, <1>4, <1>5, <1>6, <1>7 DEF ProgramsNext

\* Over an image whose directory lists itself and ends with an entry without a
\* name, ls ends well and has written every name once, in the table's order.
THEOREM LsWritesNames == ListableImage => (ProgramsSpec => []LsListsAll)
<1> SUFFICES ASSUME ListableImage PROVE ProgramsSpec => []LsListsAll
  OBVIOUS
<1>1. Init => LsInv /\ LsListsAll
  BY DEF Init, ShellInit, LsInv, LsListsAll, ShellName
<1>2. CallInv /\ LsInv /\ LsListsAll /\ [ProgramsNext]_vars => (LsInv /\ LsListsAll)'
  BY LsKept
<1> QED  BY <1>1, <1>2, AlwaysCallInv, PTL DEF ProgramsSpec

-----------------------------------------------------------------------------
(* What syserr finds                                                       *)

\* An image that has a directory and not the names that syserr makes up
SyserrImage ==
    /\ MaxFiles < BigFd
    /\ Entries(<<".">>) # {}
    /\ Entries(<<"hell", "o", "o">>) = {} /\ Entries(<<"shel">>) = {}

\* The calls of the tests but for the third
WrongCalls ==
    {<<op, f>> : op \in {"read", "write", "close"}, f \in {NegFd, BigFd} \cup (2 .. MaxFiles - 1)}
    \cup {<<"close", 0>>, <<"close", 1>>, <<"write", 0>>, <<"read", 1>>}
    \cup {<<"open", <<"hell", "o", "o">> >>, <<"open", <<"shel">> >>, <<"open", <<>> >>}
    \cup {<<"vidmap", 0>>, <<"vidmap", 4194304>>}
    \cup {<<"syscall", 1073741823>>, <<"syscall", -1073741823>>, <<"syscall", 0>>}

LEMMA WrongTests ==
  ASSUME NEW t \in 1 .. 8, t # 3
  PROVE  Len(Tests[t]) \in Nat /\ \A i \in 1 .. Len(Tests[t]) : Tests[t][i] \in WrongCalls
<1>1. MaxFiles \in Nat /\ MaxFiles > 2
  BY ConstantsAssumption
<1>2. CASE t \in {1, 2}
  <2>1. /\ Tests[1] = << <<"read", NegFd>>, <<"write", NegFd>>, <<"close", NegFd>> >>
        /\ Tests[2] = << <<"read", BigFd>>, <<"write", BigFd>>, <<"close", BigFd>> >>
    BY SMT DEF Tests
  <2>2. ASSUME NEW f \in {NegFd, BigFd} \cup (2 .. MaxFiles - 1), NEW op \in {"read", "write", "close"}
        PROVE  <<op, f>> \in WrongCalls
    BY SMT DEF WrongCalls
  <2>3. CASE t = 1
    BY <2>1, <2>2, <2>3
  <2>4. CASE t = 2
    BY <2>1, <2>2, <2>4
  <2> QED  BY <1>2, <2>3, <2>4
<1>3. CASE t = 4
  BY <1>1, <1>3, SMT DEF Tests, WrongCalls
<1>4. CASE t = 5
  <2> DEFINE closes == Calls("close", <<0, 1>> \o UserFds)
             reads == Calls("read", UserFds)
             writes == Calls("write", UserFds)
  <2>1. \A n \in 1 .. MaxFiles - 2 : UserFds[n] = n + 1 /\ n + 1 \in 2 .. MaxFiles - 1
    BY <1>1 DEF UserFds
  <2>2. UserFds \in Seq(Nat) /\ Len(UserFds) = MaxFiles - 2
    BY <1>1 DEF UserFds
  <2>3. ASSUME NEW f \in {NegFd, BigFd} \cup (2 .. MaxFiles - 1), NEW op \in {"read", "write", "close"}
        PROVE  <<op, f>> \in WrongCalls
    BY SMT DEF WrongCalls
  <2>4. <<"close", 0>> \in WrongCalls /\ <<"close", 1>> \in WrongCalls
    BY SMT DEF WrongCalls
  <2>5. closes \in Seq(WrongCalls)
    <3>1. DOMAIN (<<0, 1>> \o UserFds) = 1 .. MaxFiles
      BY <1>1, <2>2
    <3>2. \A n \in 1 .. MaxFiles : (<<0, 1>> \o UserFds)[n] \in {0, 1} \cup (2 .. MaxFiles - 1)
      BY <1>1, <2>1, <2>2
    <3> HIDE DEF WrongCalls
    <3>3. \A n \in 1 .. MaxFiles : <<"close", (<<0, 1>> \o UserFds)[n]>> \in WrongCalls
      BY <2>3, <2>4, <3>2
    <3> QED  BY <1>1, <3>1, <3>3 DEF Calls
  <2>6. reads \in Seq(WrongCalls) /\ writes \in Seq(WrongCalls)
    <3>1. DOMAIN UserFds = 1 .. MaxFiles - 2
      BY <1>1, <2>2
    <3>2. \A n \in 1 .. MaxFiles - 2 : <<"read", UserFds[n]>> \in WrongCalls /\ <<"write", UserFds[n]>> \in WrongCalls
      BY <2>1, <2>3
    <3> DEFINE N == 1 .. MaxFiles - 2
               S == WrongCalls
    <3>3. reads = [n \in N |-> <<"read", UserFds[n]>>] /\ writes = [n \in N |-> <<"write", UserFds[n]>>]
      BY <3>1 DEF Calls
    <3>4. ASSUME NEW s, s = [n \in N |-> s[n]], \A n \in N : s[n] \in S PROVE s \in Seq(S)
      <4> HIDE DEF S
      <4>1. MaxFiles - 2 \in Nat
        BY <1>1
      <4> QED  BY <3>4, <4>1
    <3> QED  BY <3>2, <3>3, <3>4
  <2>7. Tests[t] = closes \o reads \o writes
    BY <1>4, SMT DEF Tests
  <2> HIDE DEF closes, reads, writes
  <2>8. Tests[t] \in Seq(WrongCalls)
    BY <2>5, <2>6, <2>7, ConcatProperties
  <2> QED  BY <2>8, ElementOfSeq, LenProperties
<1>5. CASE t = 6
  BY <1>1, <1>5, SMT DEF Tests, WrongCalls
<1>6. CASE t = 7
  BY <1>1, <1>6, SMT DEF Tests, WrongCalls
<1>7. CASE t = 8
  BY <1>1, <1>7, SMT DEF Tests, WrongCalls
<1> QED  BY <1>2, <1>3, <1>4, <1>5, <1>6, <1>7

AllFree == \A f \in Fds \ {0, 1} : ~fd_array[f].flags

LEMMA WrongCallFails ==
  ASSUME SyserrImage, FileInv, AllFree, NEW c \in WrongCalls
  PROVE  CallRet(c) = -1 /\ (MakeCall(c) => UNCHANGED fd_array)
<1>1. MaxFiles \in Nat /\ MaxFiles > 2 /\ Fds = 0 .. MaxFiles - 1
  BY ConstantsAssumption DEF Fds
<1>2. ASSUME NEW f \in {NegFd, BigFd} \cup (2 .. MaxFiles - 1)
      PROVE  ~CanRead(f, 31) /\ CloseRet(f) = -1 /\ WriteRet(f, 31) = -1
  <2>1. f \in 2 .. MaxFiles - 1 \/ (f \in Int /\ f \notin 0 .. MaxFiles)
    BY <1>1, SMT DEF SyserrImage, NegFd, BigFd
  <2> QED  BY <1>1, <2>1 DEF AllFree, CanRead, CloseRet, InUse, WriteRet, IsOpen
<1>3. ~CanRead(1, 31) /\ CloseRet(0) = -1 /\ CloseRet(1) = -1 /\ WriteRet(0, 31) = -1
  BY <1>1 DEF CanRead, CloseRet, WriteRet
<1>4. \A f : ~CanRead(f, 31) => ReadRet(f, 31) = -1 /\ (read(f, 31) => UNCHANGED fd_array)
  BY DEF ReadRet, read, fileVars
<1>5. \A f : CloseRet(f) = -1 /\ close(f) => UNCHANGED fd_array
  BY DEF close
<1>6. \A name : OpenRet(name) = -1 /\ open(name) => UNCHANGED fd_array
  BY DEF open, fileVars
<1>7. ASSUME NEW name \in {<<"hell", "o", "o">>, <<"shel">>, <<>>} PROVE OpenRet(name) = -1
  BY DEF SyserrImage, OpenRet
<1>8. VidmapRet(0) = -1 /\ VidmapRet(4194304) = -1
  <2>1. USER_VMEM \in Int /\ USR_PROGRAM_PAGE_SIZE \in Int /\ 0 < USER_VMEM /\ 4194304 < USER_VMEM
    BY SMT DEF USER_VMEM, USR_PROGRAM_PAGE_SIZE
  <2> QED  BY <2>1, SMT DEF VidmapRet
<1>9. NoSuchCall(1073741823) /\ NoSuchCall(-1073741823) /\ NoSuchCall(0)
  BY SMT DEF NoSuchCall
<1>10. CASE \E f \in {NegFd, BigFd} \cup (2 .. MaxFiles - 1) : c = <<"read", f>> \/ c = <<"write", f>> \/ c = <<"close", f>>
  BY <1>2, <1>4, <1>5, <1>10 DEF CallRet, MakeCall, fileVars
<1>11. CASE c \in {<<"close", 0>>, <<"close", 1>>, <<"write", 0>>, <<"read", 1>>}
  BY <1>3, <1>4, <1>5, <1>11 DEF CallRet, MakeCall, fileVars
<1>12. CASE \E name \in {<<"hell", "o", "o">>, <<"shel">>, <<>>} : c = <<"open", name>>
  BY <1>6, <1>7, <1>12 DEF CallRet, MakeCall
<1>13. CASE c \in {<<"vidmap", 0>>, <<"vidmap", 4194304>>}
  BY <1>8, <1>13, SMT DEF CallRet, MakeCall, fileVars
<1>14. CASE c \in {<<"syscall", 1073741823>>, <<"syscall", -1073741823>>, <<"syscall", 0>>}
  BY <1>9, <1>14, SMT DEF CallRet, MakeCall, fileVars
<1> QED  BY <1>10, <1>11, <1>12, <1>13, <1>14, SMT DEF WrongCalls

-----------------------------------------------------------------------------
\* The third test: of n calls the first MaxFiles - 1 open, the others close
\* what the first took, one after the other.
OpensAndCloses(fds, n, rets) ==
    /\ \A f \in Fds \ {0, 1} : fds[f].flags <=> f < n + 2 /\ f + MaxFiles >= n + 3
    /\ \A i \in 1 .. n : i < MaxFiles => (rets[i] = -1 <=> i = MaxFiles - 1)

AllFail(rets) == \A i \in 1 .. Len(rets) : rets[i] = -1

\* Where a test is after the calls that gave rets
Underway(fds, t, rets) ==
    IF t = 3 THEN OpensAndCloses(fds, Len(rets), rets)
    ELSE (\A f \in Fds \ {0, 1} : ~fds[f].flags) /\ AllFail(rets)

SyserrInv ==
    /\ prog = <<"syserr">> /\ pc = "start" => fd_array = InitFds
    /\ At(<<"syserr">>, "call") =>
        /\ loc.fail = 0
        /\ loc.rets \in Seq(Int) /\ Len(loc.rets) <= Len(Tests[loc.test])
        /\ Underway(fd_array, loc.test, loc.rets)

LEMMA InitFree == fd_array = InitFds => AllFree
BY DEF InitFds, AllFree, Fd, Fds

LEMMA ThirdTest ==
  /\ Len(Tests[3]) = (MaxFiles - 1) + (MaxFiles - 2)
  /\ \A i \in 1 .. Len(Tests[3]) :
        Tests[3][i] = IF i < MaxFiles THEN <<"open", <<".">> >> ELSE <<"close", i - MaxFiles + 2>>
<1>1. MaxFiles \in Nat /\ MaxFiles > 2
  BY ConstantsAssumption
<1> DEFINE S == {<<"open", <<".">> >>} \cup {<<"close", f>> : f \in Int}
           opens == [i \in 1 .. MaxFiles - 1 |-> <<"open", <<".">> >>]
           closes == [i \in 1 .. MaxFiles - 2 |-> <<"close", i + 1>>]
<1>2. Tests[3] = OpenLots
  BY SMT DEF Tests
<1>3. OpenLots = opens \o closes
  <2> DEFINE given == Calls("close", [i \in 1 .. LastFd - 1 |-> i + 1])
  <2>1. LastFd - 1 = MaxFiles - 2
    BY <1>1 DEF LastFd
  <2>2. given = closes
    BY <2>1 DEF Calls
  <2>3. OpenLots = opens \o given
    BY Zenon DEF OpenLots
  <2> HIDE DEF given, opens, closes
  <2> QED  BY <2>2, <2>3
<1>4. /\ opens \in Seq(S) /\ Len(opens) = MaxFiles - 1
      /\ closes \in Seq(S) /\ Len(closes) = MaxFiles - 2
  <2>1. \A f \in Int : <<"close", f>> \in S
    OBVIOUS
  <2>2. <<"open", <<".">> >> \in S
    OBVIOUS
  <2> HIDE DEF S
  <2> QED  BY <1>1, <2>1, <2>2
<1> DEFINE w == opens \o closes
<1>5. /\ Len(w) = (MaxFiles - 1) + (MaxFiles - 2)
      /\ \A i \in 1 .. (MaxFiles - 1) + (MaxFiles - 2) :
            w[i] = IF i <= MaxFiles - 1 THEN opens[i] ELSE closes[i - (MaxFiles - 1)]
  <2> HIDE DEF S, opens, closes
  <2>1. Len(w) = Len(opens) + Len(closes)
    BY <1>4, ConcatProperties
  <2>2. \A i \in 1 .. Len(opens) + Len(closes) : w[i] = IF i <= Len(opens) THEN opens[i] ELSE closes[i - Len(opens)]
    BY <1>4, ConcatProperties
  <2> QED  BY <1>4, <2>1, <2>2
<1> HIDE DEF w
<1>6. ASSUME NEW i \in 1 .. (MaxFiles - 1) + (MaxFiles - 2)
      PROVE  w[i] = IF i < MaxFiles THEN <<"open", <<".">> >> ELSE <<"close", i - MaxFiles + 2>>
  <2>1. CASE i < MaxFiles
    <3>1. i \in 1 .. MaxFiles - 1
      BY <1>1, <2>1
    <3>2. w[i] = opens[i]
      <4> HIDE DEF opens, closes
      <4>1. i <= MaxFiles - 1
        BY <3>1
      <4> QED  BY <1>5, <4>1
    <3>3. opens[i] = <<"open", <<".">> >>
      BY <3>1
    <3> QED  BY <2>1, <3>2, <3>3
  <2>2. CASE ~(i < MaxFiles)
    <3>1. w[i] = closes[i - (MaxFiles - 1)] /\ i - (MaxFiles - 1) \in 1 .. MaxFiles - 2
      <4> HIDE DEF opens, closes
      <4>1. ~(i <= MaxFiles - 1) /\ i - (MaxFiles - 1) \in 1 .. MaxFiles - 2
        BY <1>1, <2>2
      <4> QED  BY <1>5, <4>1
    <3>2. closes[i - (MaxFiles - 1)] = <<"close", i - (MaxFiles - 1) + 1>>
      BY <3>1
    <3>3. i - (MaxFiles - 1) + 1 = i - MaxFiles + 2
      BY <1>1
    <3> QED  BY <2>2, <3>1, <3>2, <3>3
  <2> QED  BY <2>1, <2>2
<1>7. Tests[3] = w
  BY <1>2, <1>3, Zenon DEF w
<1> HIDE DEF opens, closes
<1> QED  BY <1>1, <1>5, <1>6, <1>7

LEMMA TestLength == ASSUME NEW t \in 1 .. 8 PROVE Len(Tests[t]) \in Nat
<1>1. CASE t = 3
  BY <1>1, ThirdTest, ConstantsAssumption
<1> QED  BY <1>1, WrongTests

\* No call made: a test may begin.
LEMMA TestBegins ==
  ASSUME AllFree, NEW t \in 1 .. 8
  PROVE  /\ <<>> \in Seq(Int) /\ Len(<<>>) = 0 /\ 0 <= Len(Tests[t])
         /\ Underway(fd_array, t, <<>>)
<1>1. OpensAndCloses(fd_array, 0, <<>>)
  <2>1. \A f \in Fds \ {0, 1} : f \in Nat /\ f >= 2
    BY ConstantsAssumption DEF Fds
  <2> QED  BY <2>1 DEF OpensAndCloses, AllFree
<1> QED  BY <1>1, TestLength DEF AllFail, AllFree, Underway

LEMMA ThirdOpens ==
  ASSUME SyserrImage, FileInv, NEW n \in 0 .. MaxFiles - 2, NEW rets,
         OpensAndCloses(fd_array, n, rets), open(<<".">>)
  PROVE  /\ OpenRet(<<".">>) \in Int
         /\ OpenRet(<<".">>) = -1 <=> n + 1 = MaxFiles - 1
         /\ \A f \in Fds \ {0, 1} : fd_array'[f].flags <=> f < n + 3 /\ f + MaxFiles >= n + 4
<1> DEFINE name == <<".">>
<1>1. MaxFiles \in Nat /\ MaxFiles > 2 /\ Fds = 0 .. MaxFiles - 1
  BY ConstantsAssumption DEF Fds
<1>2. \A f \in Fds \ {0, 1} : fd_array[f].flags <=> f < n + 2
  BY <1>1 DEF OpensAndCloses
<1>3. fd_array[0].flags /\ fd_array[1].flags
  BY DEF FileInv, ConsoleKept, IsOpen
<1>4. CASE n = MaxFiles - 2
  <2>1. \A f \in Fds : fd_array[f].flags
    BY <1>1, <1>2, <1>3, <1>4
  <2>2. OpenRet(name) = -1
    BY <2>1 DEF Vacant, OpenRet
  <2>3. fd_array' = fd_array
    BY <2>2 DEF open, fileVars
  <2> QED  BY <1>1, <1>2, <1>4, <2>2, <2>3
<1>5. CASE n # MaxFiles - 2
  <2>1. n + 2 \in Fds /\ n + 2 \in Nat
    BY <1>1, <1>5
  <2>2. Vacant = {f \in Fds : f >= n + 2}
    BY <1>1, <1>2, <1>3 DEF Vacant
  <2>3. VacantFd = n + 2
    <3>1. n + 2 \in Vacant /\ \A g \in Vacant : n + 2 <= g
      BY <1>1, <2>1, <2>2
    <3>2. VacantFd \in Vacant /\ \A g \in Vacant : VacantFd <= g
      BY <3>1 DEF VacantFd
    <3> QED  BY <1>1, <2>1, <2>2, <3>1, <3>2
  <2>4. OpenRet(name) = n + 2 /\ OpenRet(name) # -1
    <3>1. Vacant # {}
      BY <2>1, <2>2
    <3>2. OpenRet(name) = VacantFd
      BY <3>1 DEF OpenRet, SyserrImage
    <3> QED  BY <1>1, <2>1, <2>3, <3>2
  <2> DEFINE d == Opened(Dentries[Lookup(name)])
  <2>5. fd_array' = [fd_array EXCEPT ![n + 2] = d]
    BY <2>3, <2>4 DEF open
  <2>6. d.flags
    BY DEF Opened
  <2> HIDE DEF d
  <2>7. DOMAIN fd_array = Fds
    BY DEF FileInv, TypeOK
  <2>8. \A f \in Fds : fd_array'[f].flags <=> f = n + 2 \/ fd_array[f].flags
    BY <2>5, <2>6, <2>7
  <2> QED  BY <1>1, <1>2, <1>5, <2>1, <2>4, <2>8
<1> QED  BY <1>4, <1>5

LEMMA ThirdCloses ==
  ASSUME FileInv, NEW n \in Nat, MaxFiles <= n + 1, n + 1 <= (MaxFiles - 1) + (MaxFiles - 2), NEW rets,
         OpensAndCloses(fd_array, n, rets), NEW f, f = (n + 1) - MaxFiles + 2, close(f)
  PROVE  /\ CloseRet(f) \in Int
         /\ \A g \in Fds \ {0, 1} : fd_array'[g].flags <=> g < n + 3 /\ g + MaxFiles >= n + 4
<1>1. MaxFiles \in Nat /\ MaxFiles > 2 /\ Fds = 0 .. MaxFiles - 1
  BY ConstantsAssumption DEF Fds
<1>2. f \in Fds \ {0, 1} /\ f \in 2 .. MaxFiles /\ f # MaxFiles /\ f + MaxFiles = n + 3
  BY <1>1
<1>3. fd_array[f].flags
  BY <1>1, <1>2 DEF OpensAndCloses
<1>4. CloseRet(f) = 0
  BY <1>2, <1>3 DEF CloseRet, InUse
<1>5. fd_array' = [fd_array EXCEPT ![f].flags = FALSE]
  BY <1>2, <1>4 DEF close
<1>6. \A g \in Fds : fd_array'[g].flags <=> g # f /\ fd_array[g].flags
  <2> QED  BY <1>2, <1>5 DEF FileInv, TypeOK
<1>7. \A g \in Fds \ {0, 1} : fd_array[g].flags <=> g + MaxFiles >= n + 3
  BY <1>1 DEF OpensAndCloses
<1> QED  BY <1>1, <1>2, <1>4, <1>6, <1>7

LEMMA SyserrSelectKeeps == ASSUME SyserrInv, SyserrSelect PROVE SyserrInv' /\ SyserrPasses'
<1>1. prog = <<"syserr">> /\ pc = "start" /\ prog' = prog /\ fd_array' = fd_array
  BY Zenon DEF SyserrSelect, At, Goto, Exit, programVars, fileVars
<1>2. \/ pc' = "exit" /\ loc' = [status |-> 0]
      \/ /\ pc' = "call"
         /\ \E t \in 1 .. 8 : loc' \in {[test |-> t, last |-> t, rets |-> <<>>, fail |-> 0],
                                        [test |-> 1, last |-> 8, rets |-> <<>>, fail |-> 0]}
  BY SMT DEF SyserrSelect, Exit, Goto
<1>3. AllFree
  BY <1>1, InitFree DEF SyserrInv
<1>4. CASE pc' = "exit" /\ loc' = [status |-> 0]
  <2>1. loc'.status = 0
    BY <1>4
  <2> QED  BY <1>4, <2>1 DEF SyserrInv, SyserrPasses, At
<1>5. CASE pc' = "call" /\ pc' # "exit"
  <2>1. loc'.test \in 1 .. 8 /\ loc'.rets = <<>> /\ loc'.fail = 0
    BY <1>2, <1>5
  <2>2. Underway(fd_array, loc'.test, <<>>) /\ <<>> \in Seq(Int) /\ Len(<<>>) <= Len(Tests[loc'.test])
    BY <1>3, <2>1, TestBegins, Zenon
  <2> QED  BY <1>1, <1>5, <2>1, <2>2, Zenon DEF SyserrInv, SyserrPasses, At
<1> QED  BY <1>2, <1>4, <1>5

LEMMA SyserrCallKeeps ==
  ASSUME SyserrImage, FileInv, SyserrPlace, SyserrInv, SyserrCall
  PROVE  SyserrInv' /\ SyserrPasses'
<1> DEFINE t == loc.test
           n == Len(loc.rets)
           c == Tests[t][n + 1]
           r == CallRet(c)
           new == Append(loc.rets, r)
<1>1. At(<<"syserr">>, "call") /\ n < Len(Tests[t]) /\ MakeCall(c)
  BY Zenon DEF SyserrCall
<1>2. prog' = prog /\ pc' = "call" /\ loc' = [loc EXCEPT !.rets = new]
  BY Zenon DEF SyserrCall, Goto, programVars
<1>3. DOMAIN loc = {"test", "last", "rets", "fail"} /\ t \in 1 .. 8
  BY <1>1 DEF SyserrPlace
<1>4. loc'.test = t /\ loc'.rets = new /\ loc'.fail = loc.fail
  BY <1>2, <1>3, Zenon
<1>5. loc.fail = 0 /\ loc.rets \in Seq(Int) /\ Underway(fd_array, t, loc.rets)
  BY <1>1 DEF SyserrInv
<1>6. n \in Nat /\ n + 1 \in 1 .. Len(Tests[t])
  <2>1. n \in Nat
    BY <1>5, LenProperties
  <2>2. Len(Tests[t]) \in Nat
    BY <1>3, TestLength
  <2> HIDE DEF n, t
  <2> QED  BY <1>1, <2>1, <2>2
<1> HIDE DEF n, c, r
<1>7. ASSUME r \in Int
      PROVE  /\ new \in Seq(Int) /\ Len(new) = n + 1
             /\ \A i \in 1 .. n + 1 : new[i] = IF i = n + 1 THEN r ELSE loc.rets[i]
  <2>1. /\ new \in Seq(Int) /\ Len(new) = Len(loc.rets) + 1
        /\ \A i \in 1 .. Len(loc.rets) : new[i] = loc.rets[i]
        /\ new[Len(loc.rets) + 1] = r
    BY <1>5, <1>7, AppendProperties
  <2> HIDE DEF new
  <2> QED  BY <1>6, <2>1 DEF n
<1> HIDE DEF new
<1>8. CASE t # 3
  <2>1. c \in WrongCalls
    BY <1>3, <1>6, <1>8, WrongTests DEF c
  <2>2. AllFree /\ AllFail(loc.rets)
    BY <1>5, <1>8 DEF Underway, AllFree
  <2>3. r = -1 /\ fd_array' = fd_array
    BY <1>1, <2>1, <2>2, WrongCallFails DEF r
  <2>4. AllFail(new)
    <3>1. /\ Len(new) = n + 1
          /\ \A i \in 1 .. n + 1 : new[i] = IF i = n + 1 THEN -1 ELSE loc.rets[i]
      BY <1>7, <2>3
    <3>2. \A i \in 1 .. n : loc.rets[i] = -1
      BY <2>2 DEF AllFail, n
    <3> QED  BY <1>6, <3>1, <3>2 DEF AllFail
  <2>5. Underway(fd_array', t, new)
    BY <1>8, <2>2, <2>3, <2>4 DEF Underway, AllFree
  <2>6. new \in Seq(Int) /\ Len(new) <= Len(Tests[t])
    BY <1>6, <1>7, <2>3
  <2> QED  BY <1>2, <1>4, <1>5, <2>5, <2>6, Zenon DEF SyserrInv, SyserrPasses, At
<1>9. CASE t = 3
  <2>1. OpensAndCloses(fd_array, n, loc.rets)
    BY <1>5, <1>9 DEF Underway, n
  <2>2. MaxFiles \in Nat /\ MaxFiles > 2 /\ n + 1 <= (MaxFiles - 1) + (MaxFiles - 2)
    BY <1>6, <1>9, ThirdTest, ConstantsAssumption
  <2>3. /\ r \in Int
        /\ n + 1 < MaxFiles => (r = -1 <=> n + 1 = MaxFiles - 1)
        /\ \A f \in Fds \ {0, 1} : fd_array'[f].flags <=> f < n + 3 /\ f + MaxFiles >= n + 4
    <3>1. CASE n + 1 < MaxFiles
      <4>1. c = <<"open", <<".">> >>
        BY <1>6, <1>9, <3>1, ThirdTest DEF c
      <4>2. r = OpenRet(<<".">>) /\ open(<<".">>)
        BY <1>1, <4>1 DEF r, CallRet, MakeCall
      <4>3. n \in 0 .. MaxFiles - 2
        BY <1>6, <2>2, <3>1
      <4> QED  BY <2>1, <4>2, <4>3, ThirdOpens
    <3>2. CASE ~(n + 1 < MaxFiles)
      <4> DEFINE f == (n + 1) - MaxFiles + 2
      <4>1. c = <<"close", f>>
        BY <1>6, <1>9, <3>2, ThirdTest DEF c
      <4>2. r = CloseRet(f) /\ close(f)
        BY <1>1, <4>1 DEF r, CallRet, MakeCall
      <4>3. MaxFiles <= n + 1
        BY <1>6, <2>2, <3>2
      <4> QED  BY <1>6, <2>1, <2>2, <3>2, <4>2, <4>3, ThirdCloses
    <3> QED  BY <3>1, <3>2
  <2>4. ASSUME NEW i \in 1 .. n + 1, i < MaxFiles
        PROVE  new[i] = -1 <=> i = MaxFiles - 1
    <3>1. CASE i = n + 1
      <4>1. new[n + 1] = r
        BY <1>6, <1>7, <2>3
      <4> QED  BY <2>3, <2>4, <3>1, <4>1
    <3>2. CASE i # n + 1
      <4>1. i \in 1 .. n
        BY <1>6, <3>2
      <4>2. new[i] = loc.rets[i]
        BY <1>6, <1>7, <2>3, <3>2
      <4> QED  BY <2>1, <2>4, <4>1, <4>2 DEF OpensAndCloses
    <3> QED  BY <3>1, <3>2
  <2>5. OpensAndCloses(fd_array', n + 1, new)
    <3>1. \A f \in Fds \ {0, 1} : fd_array'[f].flags <=> f < n + 1 + 2 /\ f + MaxFiles >= n + 1 + 3
      BY <1>6, <2>3
    <3> QED  BY <2>4, <3>1 DEF OpensAndCloses
  <2>6. Underway(fd_array', t, new)
    BY <1>7, <1>9, <2>3, <2>5 DEF Underway
  <2>7. new \in Seq(Int) /\ Len(new) <= Len(Tests[t])
    BY <1>6, <1>7, <2>3
  <2> QED  BY <1>2, <1>4, <1>5, <2>6, <2>7, Zenon DEF SyserrInv, SyserrPasses, At
<1> QED  BY <1>8, <1>9

\* A test whose calls are all made has passed and left nothing open.
LEMMA TestPasses ==
  ASSUME NEW t \in 1 .. 8, NEW rets \in Seq(Int), Len(rets) = Len(Tests[t]), Underway(fd_array, t, rets)
  PROVE  ~Fails(t, rets) /\ AllFree
<1>1. Len(rets) \in Nat /\ DOMAIN rets = 1 .. Len(rets)
  BY LenProperties
<1>2. MaxFiles \in Nat /\ MaxFiles > 2 /\ Fds = 0 .. MaxFiles - 1
  BY ConstantsAssumption DEF Fds
<1>3. CASE t # 3
  <2>1. AllFree /\ AllFail(rets)
    BY <1>3 DEF Underway, AllFree
  <2>2. {i \in DOMAIN rets : rets[i] = -1} = 1 .. Len(rets)
    BY <1>1, <2>1 DEF AllFail
  <2>3. Cardinality(1 .. Len(rets)) = Len(rets)
    BY <1>1, FS_Interval
  <2> QED  BY <1>3, <2>1, <2>2, <2>3, Zenon DEF Fails, Failures
<1>4. CASE t = 3
  <2>1. Len(rets) = (MaxFiles - 1) + (MaxFiles - 2) /\ OpensAndCloses(fd_array, Len(rets), rets)
    BY <1>4, ThirdTest DEF Underway
  <2>2. AllFree
    BY <1>2, <2>1 DEF OpensAndCloses, AllFree
  <2> DEFINE w == SubSeq(rets, 1, MaxFiles - 1)
  <2>3. DOMAIN w = 1 .. MaxFiles - 1 /\ \A i \in 1 .. MaxFiles - 1 : w[i] = rets[i]
    <3> HIDE DEF w
    <3>1. 1 \in 1 .. Len(rets) + 1 /\ MaxFiles - 1 \in 0 .. Len(rets) /\ MaxFiles - 1 \in Nat
      BY <1>1, <1>2, <2>1
    <3>2. w \in Seq(Int) /\ Len(w) = MaxFiles - 1 /\ \A i \in 1 .. MaxFiles - 1 : w[i] = rets[i]
      BY <1>1, <1>2, <2>1, <3>1 DEF w
    <3> QED  BY <3>1, <3>2, LenProperties
  <2> HIDE DEF w
  <2>4. \A i \in 1 .. MaxFiles - 1 : w[i] = -1 <=> i = MaxFiles - 1
    BY <1>2, <2>1, <2>3 DEF OpensAndCloses
  <2>5. {i \in DOMAIN w : w[i] = -1} = {MaxFiles - 1}
    BY <1>2, <2>3, <2>4
  <2>6. Failures(w) = 1
    BY <2>5, FS_Singleton, Zenon DEF Failures
  <2> QED  BY <1>4, <2>2, <2>6, Zenon DEF Fails, w
<1> QED  BY <1>3, <1>4

LEMMA SyserrVerdictKeeps ==
  ASSUME SyserrPlace, SyserrInv, SyserrVerdict
  PROVE  SyserrInv' /\ SyserrPasses'
<1> DEFINE t == loc.test
<1>1. At(<<"syserr">>, "call") /\ Len(loc.rets) = Len(Tests[t])
  BY Zenon DEF SyserrVerdict
<1>2. DOMAIN loc = {"test", "last", "rets", "fail"} /\ loc.last \in 1 .. 8 /\ t \in 1 .. loc.last /\ t \in 1 .. 8
  BY <1>1 DEF SyserrPlace
<1>3. loc.fail = 0 /\ loc.rets \in Seq(Int) /\ Underway(fd_array, t, loc.rets)
  BY <1>1 DEF SyserrInv
<1>4. ~Fails(t, loc.rets) /\ AllFree
  BY <1>1, <1>2, <1>3, TestPasses
<1>5. prog' = prog /\ fd_array' = fd_array
  BY Zenon DEF SyserrVerdict, Exit, Goto, programVars, fileVars
<1> DEFINE fail == loc.fail + (IF Fails(t, loc.rets) THEN 2 ELSE 0)
<1>6. fail = 0
  BY <1>3, <1>4
<1>7. IF t = loc.last THEN Exit(fail)
      ELSE Goto("call", [loc EXCEPT !.test = @ + 1, !.rets = <<>>, !.fail = fail])
  BY Zenon DEF SyserrVerdict
<1> HIDE DEF fail
<1>8. CASE t = loc.last
  <2>1. pc' = "exit" /\ loc' = [status |-> 0]
    BY <1>6, <1>7, <1>8 DEF Exit
  <2>2. loc'.status = 0
    BY <2>1
  <2> QED  BY <2>1, <2>2 DEF SyserrInv, SyserrPasses, At
<1>9. CASE t # loc.last
  <2>1. pc' = "call" /\ loc' = [loc EXCEPT !.test = @ + 1, !.rets = <<>>, !.fail = 0]
    BY <1>6, <1>7, <1>9, Zenon DEF Goto
  <2>2. loc'.test = t + 1 /\ loc'.rets = <<>> /\ loc'.fail = 0
    BY <1>2, <2>1, Zenon
  <2>3. t + 1 \in 1 .. 8
    BY <1>2, <1>9
  <2>4. Underway(fd_array, t + 1, <<>>) /\ <<>> \in Seq(Int) /\ Len(<<>>) <= Len(Tests[t + 1])
    BY <1>4, <2>3, TestBegins, Zenon
  <2> QED  BY <1>5, <2>1, <2>2, <2>4, Zenon DEF SyserrInv, SyserrPasses, At
<1> QED  BY <1>8, <1>9

LEMMA SyserrKept ==
  ASSUME SyserrImage, CallInv, SyserrPlace, SyserrInv, SyserrPasses, [ProgramsNext]_vars
  PROVE  SyserrInv' /\ SyserrPasses'
<1>1. CASE prog' # <<"syserr">>
  BY <1>1 DEF SyserrInv, SyserrPasses, At
<1>2. CASE ProgramNext /\ ~Halt /\ ~HaltLost /\ prog' = <<"syserr">>
  <2>1. prog = <<"syserr">>
    BY <1>2, ProgramGoesOn DEF GoesOn
  <2>2. SyserrSelect \/ SyserrCall \/ SyserrVerdict
    BY <1>2, <2>1, StepOfProgram
  <2> QED  BY <2>2, SyserrSelectKeeps, SyserrCallKeeps, SyserrVerdictKeeps DEF CallInv
<1>3. CASE Halt \/ ShellRead
  <2>1. prog' = ShellName
    BY <1>3 DEF Halt, ShellRead, BackToShell
  <2> QED  BY <1>1, <2>1 DEF ShellName
<1>4. CASE HaltLost
  BY <1>4 DEF HaltLost, SyserrInv, SyserrPasses, At
<1>5. CASE Execute
  <2>1. pc' = "prompt" \/ (pc' = "start" /\ NewProcess)
    BY <1>5 DEF Execute, BackToShell
  <2> QED  BY <2>1 DEF SyserrInv, SyserrPasses, NewProcess, At
<1>6. CASE ClientCall \/ ClientExit
  <2>1. prog' = <<"client">>
    BY <1>6 DEF ClientCall, ClientExit, At, Fault, Exit, programVars, shellVars
  <2> QED  BY <1>1, <2>1
<1>7. CASE UNCHANGED vars
  BY <1>7, Zenon DEF vars, fileVars, shellVars, SyserrInv, SyserrPasses, At
<1> QED  BY <1>1, <1>2, <1>3, <1>4, <1>5, <1>6, <1>7 DEF ProgramsNext

\* Over an image with a directory and without the names that syserr makes up,
\* every test of syserr passes, in whatever order the user calls for them.
THEOREM SyserrSucceeds == SyserrImage => (ProgramsSpec => []SyserrPasses)
<1> SUFFICES ASSUME SyserrImage PROVE ProgramsSpec => []SyserrPasses
  OBVIOUS
<1>1. Init => PlaceInv /\ SyserrInv /\ SyserrPasses
  BY DEF Init, ShellInit, Fresh, PlaceInv, FishInv, SyserrPlace, SyserrInv, SyserrPasses, At, ShellName
<1>2. CallInv /\ PlaceInv /\ SyserrInv /\ SyserrPasses /\ [ProgramsNext]_vars
      => (PlaceInv /\ SyserrInv /\ SyserrPasses)'
  BY PlaceKept, SyserrKept DEF PlaceInv
<1> QED  BY <1>1, <1>2, AlwaysCallInv, PTL DEF ProgramsSpec

-----------------------------------------------------------------------------
(* The rows and columns of a text                                          *)

\* The ends of rows before i
Newlines(s, i) == {j \in 1 .. i - 1 : s[j] = "\n"}

LEMMA RowOfStep ==
  ASSUME NEW s, NEW i \in Nat \ {0}
  PROVE  RowOf(s, 1) = 0 /\ RowOf(s, i) \in Nat /\ RowOf(s, i + 1) = RowOf(s, i) + (IF s[i] = "\n" THEN 1 ELSE 0)
<1>1. IsFiniteSet(Newlines(s, i)) /\ Cardinality(Newlines(s, i)) \in Nat
  <2>1. IsFiniteSet(1 .. i - 1)
    BY FS_Interval
  <2>2. IsFiniteSet(Newlines(s, i))
    BY <2>1, FS_Subset DEF Newlines
  <2> QED  BY <2>2, FS_CardinalityType
<1>2. Newlines(s, 1) = {}
  BY DEF Newlines
<1>3. CASE s[i] = "\n"
  <2>1. Newlines(s, i + 1) = Newlines(s, i) \cup {i} /\ i \notin Newlines(s, i)
    BY <1>3 DEF Newlines
  <2>2. Cardinality(Newlines(s, i + 1)) = Cardinality(Newlines(s, i)) + 1
    BY <1>1, <2>1, FS_AddElement
  <2> QED  BY <1>1, <1>2, <1>3, <2>2, FS_EmptySet DEF RowOf, Newlines
<1>4. CASE s[i] # "\n"
  <2>1. Newlines(s, i + 1) = Newlines(s, i)
    BY <1>4 DEF Newlines
  <2> QED  BY <1>1, <1>2, <1>4, <2>1, FS_EmptySet DEF RowOf, Newlines
<1> QED  BY <1>3, <1>4

LEMMA RowOfGrows ==
  ASSUME NEW s, NEW i \in Nat \ {0}, NEW j \in Nat, i <= j
  PROVE  RowOf(s, i) <= RowOf(s, j)
<1>1. IsFiniteSet(Newlines(s, j))
  <2>1. IsFiniteSet(1 .. j - 1)
    BY FS_Interval
  <2> QED  BY <2>1, FS_Subset DEF Newlines
<1>2. Newlines(s, i) \subseteq Newlines(s, j)
  BY DEF Newlines
<1>3. Cardinality(Newlines(s, i)) <= Cardinality(Newlines(s, j))
  BY <1>1, <1>2, FS_Subset
<1> QED  BY <1>3 DEF RowOf, Newlines

\* Row r of a text begins at b
LineFrom(s, b, r) == b \in 1 .. Len(s) + 1 /\ RowOf(s, b) = r /\ (b = 1 \/ s[b - 1] = "\n")

\* ... and ends at e
LineIn(s, b, e, r) ==
    /\ LineFrom(s, b, r)
    /\ e \in b - 1 .. Len(s) /\ \A j \in b .. e : s[j] # "\n"
    /\ e = Len(s) \/ s[e + 1] = "\n"

\* The places in s of the characters of row r
PlacesOf(s, r) == {i \in 1 .. Len(s) : RowOf(s, i) = r /\ s[i] # "\n"}

LEMMA PlacesOfLine ==
  ASSUME NEW s, Len(s) \in Nat, NEW b, NEW e, NEW r, LineIn(s, b, e, r)
  PROVE  PlacesOf(s, r) = b .. e /\ r \in Nat /\ r <= RowOf(s, Len(s) + 1)
<1>1. b \in 1 .. Len(s) + 1 /\ e \in b - 1 .. Len(s) /\ RowOf(s, b) = r
  BY DEF LineIn, LineFrom
<1>2. ASSUME NEW i \in b .. e + 1 PROVE RowOf(s, i) = r
  <2>1. Newlines(s, i) = Newlines(s, b)
    BY <1>1, <1>2 DEF Newlines, LineIn
  <2> QED  BY <1>1, <2>1 DEF RowOf, Newlines
<1>3. ASSUME NEW i \in 1 .. b - 1 PROVE RowOf(s, i) # r
  <2>1. s[b - 1] = "\n" /\ b - 1 \in Nat \ {0} /\ (b - 1) + 1 = b /\ i \in Nat \ {0} /\ i <= b - 1
    BY <1>1, <1>3 DEF LineIn, LineFrom
  <2>2. RowOf(s, b - 1) \in Nat /\ RowOf(s, b) = RowOf(s, b - 1) + 1
    BY <2>1, RowOfStep
  <2>3. RowOf(s, i) <= RowOf(s, b - 1) /\ RowOf(s, i) \in Nat
    BY <2>1, RowOfGrows, RowOfStep
  <2> QED  BY <1>1, <2>2, <2>3
<1>4. ASSUME NEW i \in e + 2 .. Len(s) PROVE RowOf(s, i) # r
  <2>1. /\ s[e + 1] = "\n" /\ e + 1 \in Nat \ {0} /\ (e + 1) + 1 = e + 2
        /\ e + 2 \in Nat \ {0} /\ i \in Nat \ {0} /\ e + 2 <= i
    BY <1>1, <1>4 DEF LineIn
  <2>2. RowOf(s, e + 1) \in Nat /\ RowOf(s, e + 2) = RowOf(s, e + 1) + 1
    BY <2>1, RowOfStep
  <2>3. RowOf(s, e + 2) <= RowOf(s, i) /\ RowOf(s, i) \in Nat
    BY <2>1, RowOfGrows, RowOfStep
  <2>4. RowOf(s, e + 1) = r
    BY <1>1, <1>2
  <2> QED  BY <2>2, <2>3, <2>4
<1>5. e + 1 \in 1 .. Len(s) => s[e + 1] = "\n"
  BY <1>1 DEF LineIn
<1>6. \A i \in b .. e : s[i] # "\n"
  BY DEF LineIn
<1>7. ASSUME NEW i \in 1 .. Len(s) PROVE i \in PlacesOf(s, r) <=> i \in b .. e
  <2>1. CASE i \in b .. e
    BY <1>1, <1>2, <1>6, <2>1 DEF PlacesOf
  <2>2. CASE i < b
    BY <1>1, <1>3, <2>2 DEF PlacesOf
  <2>3. CASE i = e + 1
    BY <1>1, <1>5, <2>3 DEF PlacesOf
  <2>4. CASE i > e + 1
    BY <1>1, <1>4, <2>4 DEF PlacesOf
  <2> QED  BY <1>1, <2>1, <2>2, <2>3, <2>4
<1>8. PlacesOf(s, r) \subseteq 1 .. Len(s) /\ b .. e \subseteq 1 .. Len(s)
  BY <1>1 DEF PlacesOf
<1>9. r \in Nat /\ r <= RowOf(s, Len(s) + 1)
  <2>1. b \in Nat \ {0} /\ Len(s) + 1 \in Nat /\ b <= Len(s) + 1
    BY <1>1
  <2> QED  BY <1>1, <2>1, RowOfStep, RowOfGrows
<1> QED  BY <1>7, <1>8, <1>9

LEMMA RowOfPlaces ==
  ASSUME NEW s, NEW r, NEW b \in Int, NEW e \in Int, PlacesOf(s, r) = b .. e
  PROVE  Row(s, r) = IF b > e THEN <<>> ELSE SubSeq(s, b, e)
<1>1. CASE b > e
  <2>1. PlacesOf(s, r) = {}
    BY <1>1
  <2> QED  BY <1>1, <2>1 DEF Row, PlacesOf
<1>2. CASE ~(b > e)
  <2>1. PlacesOf(s, r) # {}
    BY <1>2
  <2>2. (CHOOSE i \in b .. e : \A j \in b .. e : i <= j) = b
    BY <1>2
  <2>3. (CHOOSE i \in b .. e : \A j \in b .. e : i >= j) = e
    BY <1>2
  <2>4. Row(s, r) = LET P == PlacesOf(s, r) IN
                    IF P = {} THEN <<>>
                    ELSE SubSeq(s, CHOOSE i \in P : \A j \in P : i <= j, CHOOSE i \in P : \A j \in P : i >= j)
    BY DEF Row, PlacesOf
  <2> QED  BY <1>2, <2>1, <2>2, <2>3, <2>4
<1> QED  BY <1>1, <1>2

\* What is in column c of a line
LEMMA CharOfLine ==
  ASSUME NEW S, NEW s \in Seq(S), NEW b, NEW e, NEW r, LineIn(s, b, e, r), NEW c \in Nat
  PROVE  CharAt(s, r, c) = IF b + c <= e THEN s[b + c] ELSE Space
<1>1. Len(s) \in Nat
  BY LenProperties
<1>2. b \in 1 .. Len(s) + 1 /\ e \in b - 1 .. Len(s)
  BY DEF LineIn, LineFrom
<1>3. PlacesOf(s, r) = b .. e /\ r \in Nat /\ r <= RowOf(s, Len(s) + 1)
  BY <1>1, PlacesOfLine
<1>4. r + 1 \in DOMAIN Rows(s)
  <2>1. RowOf(s, Len(s) + 1) \in Nat
    BY <1>1, RowOfStep
  <2> QED  BY <1>3, <2>1 DEF Rows
<1>5. Row(s, r) = IF b > e THEN <<>> ELSE SubSeq(s, b, e)
  BY <1>1, <1>2, <1>3, RowOfPlaces
<1>6. CASE b > e
  <2>1. c + 1 \notin DOMAIN Row(s, r)
    BY <1>5, <1>6
  <2> QED  BY <1>2, <1>6, <2>1 DEF CharAt
<1>7. CASE ~(b > e)
  <2> DEFINE line == SubSeq(s, b, e)
  <2>1. DOMAIN line = 1 .. e - b + 1 /\ \A i \in 1 .. e - b + 1 : line[i] = s[b + i - 1]
    BY <1>1, <1>2, <1>7, SubSeqProperties
  <2>2. Row(s, r) = line
    BY <1>5, <1>7
  <2> HIDE DEF line
  <2>3. CASE b + c <= e
    <3>1. c + 1 \in 1 .. e - b + 1 /\ b + (c + 1) - 1 = b + c
      BY <1>2, <2>3
    <3>2. line[c + 1] = s[b + c]
      BY <2>1, <3>1
    <3> QED  BY <1>4, <2>1, <2>2, <2>3, <3>1, <3>2 DEF CharAt
  <2>4. CASE ~(b + c <= e)
    <3>1. c + 1 \notin 1 .. e - b + 1
      BY <1>1, <1>2, <2>4
    <3> QED  BY <2>1, <2>2, <2>4, <3>1 DEF CharAt
  <2> QED  BY <2>3, <2>4
<1> QED  BY <1>6, <1>7

LEMMA LineEnds ==
  ASSUME NEW s, Len(s) \in Nat, NEW b, NEW r, LineFrom(s, b, r), NEW p \in b - 1 .. Len(s),
         \A j \in b .. p : s[j] # "\n"
  PROVE  \E e \in p .. Len(s) : LineIn(s, b, e, r)
<1> DEFINE T == {j \in p + 1 .. Len(s) + 1 : j = Len(s) + 1 \/ s[j] = "\n"}
<1>1. b \in 1 .. Len(s) + 1
  BY DEF LineFrom
<1>2. Len(s) + 1 \in T /\ T \subseteq Nat
  BY <1>1
<1>3. PICK x \in T : \A y \in T : x <= y
  <2> HIDE DEF T
  <2> QED  BY <1>2, LeastElement
<1> DEFINE e == x - 1
<1>4. e \in p .. Len(s) /\ e \in b - 1 .. Len(s) /\ e + 1 = x
  BY <1>1, <1>3
<1>5. ASSUME NEW j \in b .. e PROVE s[j] # "\n"
  <2>1. CASE j <= p
    BY <1>1, <2>1
  <2>2. CASE ~(j <= p)
    <3>1. j \in p + 1 .. Len(s) + 1 /\ j < x
      BY <1>1, <1>4, <2>2
    <3> QED  BY <1>3, <3>1
  <2> QED  BY <2>1, <2>2
<1>6. e = Len(s) \/ s[e + 1] = "\n"
  BY <1>3, <1>4
<1> HIDE DEF e, T
<1> QED  BY <1>4, <1>5, <1>6 DEF LineIn

\* Nothing is in a row after the last.
LEMMA CharAfterRows ==
  ASSUME NEW s, Len(s) \in Nat, NEW r \in Nat, RowOf(s, Len(s) + 1) < r, NEW c
  PROVE  CharAt(s, r, c) = Space
<1>1. RowOf(s, Len(s) + 1) \in Nat
  BY RowOfStep
<1>2. r + 1 \notin DOMAIN Rows(s)
  BY <1>1 DEF Rows
<1> QED  BY <1>2 DEF CharAt

\* Of a text p characters were read, the last c of them in row r, which they
\* did not end.
Reading(s, p, r, c) ==
    \E b \in 1 .. Len(s) + 1 :
        /\ LineFrom(s, b, r)
        /\ c \in Nat /\ p = b - 1 + c /\ p <= Len(s)
        /\ \A j \in b .. p : s[j] # "\n"

\* Row r has nothing from column c on.
Blank(s, r, c) == \A i \in Nat : i >= c => CharAt(s, r, i) = Space

LEMMA ReadingBegins == ASSUME NEW s, Len(s) \in Nat PROVE Reading(s, 0, 0, 0)
<1>1. RowOf(s, 1) = 0
  BY RowOfStep
<1>2. 1 \in 1 .. Len(s) + 1 /\ LineFrom(s, 1, 0)
  BY <1>1 DEF LineFrom
<1> QED  BY <1>2 DEF Reading

LEMMA ReadingGoesOn ==
  ASSUME NEW S, NEW s \in Seq(S), NEW p, NEW r, NEW c, Reading(s, p, r, c), p < Len(s)
  PROVE  IF s[p + 1] = "\n" THEN Blank(s, r, c) /\ Reading(s, p + 1, r + 1, 0)
         ELSE CharAt(s, r, c) = s[p + 1] /\ Reading(s, p + 1, r, c + 1)
<1>1. Len(s) \in Nat
  BY LenProperties
<1>2. PICK b \in 1 .. Len(s) + 1 :
        /\ LineFrom(s, b, r)
        /\ c \in Nat /\ p = b - 1 + c /\ p <= Len(s)
        /\ \A j \in b .. p : s[j] # "\n"
  BY DEF Reading
<1>3. p \in b - 1 .. Len(s) /\ p \in Nat /\ p + 1 <= Len(s) /\ p + 1 = b + c
  BY <1>1, <1>2
<1>4. CASE s[p + 1] = "\n"
  <2>1. LineIn(s, b, p, r)
    BY <1>2, <1>3, <1>4 DEF LineIn
  <2>2. ASSUME NEW i \in Nat, i >= c PROVE CharAt(s, r, i) = Space
    <3>1. CharAt(s, r, i) = IF b + i <= p THEN s[b + i] ELSE Space
      BY <2>1, CharOfLine
    <3> QED  BY <1>2, <1>3, <2>2, <3>1
  <2>3. RowOf(s, p + 1) = r /\ r \in Nat
    <3>1. b \in Nat \ {0} /\ p + 1 \in Nat \ {0}
      BY <1>2, <1>3
    <3>2. Newlines(s, p + 1) = Newlines(s, b)
      BY <1>2, <1>3 DEF Newlines, LineFrom
    <3> QED  BY <1>2, <3>1, <3>2, RowOfStep DEF RowOf, Newlines, LineFrom
  <2>4. p + 2 \in 1 .. Len(s) + 1 /\ (p + 2) - 1 = p + 1 /\ (p + 1) + 1 = p + 2 /\ p + 1 \in Nat \ {0}
    BY <1>1, <1>3
  <2>5. RowOf(s, p + 2) = r + 1
    BY <1>4, <2>3, <2>4, RowOfStep
  <2>6. LineFrom(s, p + 2, r + 1)
    BY <1>4, <2>4, <2>5 DEF LineFrom
  <2>7. \A j \in p + 2 .. p + 1 : s[j] # "\n"
    BY <1>3
  <2>8. Reading(s, p + 1, r + 1, 0)
    BY <1>3, <2>4, <2>6, <2>7 DEF Reading
  <2> QED  BY <1>4, <2>2, <2>8 DEF Blank
<1>5. CASE s[p + 1] # "\n"
  <2>1. \A j \in b .. p + 1 : s[j] # "\n"
    BY <1>2, <1>3, <1>5
  <2>2. p + 1 \in b - 1 .. Len(s)
    BY <1>1, <1>3
  <2>3. PICK e \in p + 1 .. Len(s) : LineIn(s, b, e, r)
    BY <1>1, <1>2, <2>1, <2>2, LineEnds
  <2>4. CharAt(s, r, c) = IF b + c <= e THEN s[b + c] ELSE Space
    BY <1>2, <2>3, CharOfLine
  <2>5. CharAt(s, r, c) = s[p + 1]
    BY <1>3, <2>3, <2>4
  <2>6. Reading(s, p + 1, r, c + 1)
    BY <1>2, <1>3, <2>1 DEF Reading
  <2> QED  BY <1>5, <2>5, <2>6
<1> QED  BY <1>4, <1>5

LEMMA ReadingEnds ==
  ASSUME NEW S, NEW s \in Seq(S), NEW p, NEW r, NEW c, Reading(s, p, r, c), ~(p < Len(s))
  PROVE  Blank(s, r, c) /\ RowOf(s, Len(s) + 1) <= r
<1>1. Len(s) \in Nat
  BY LenProperties
<1>2. PICK b \in 1 .. Len(s) + 1 :
        /\ LineFrom(s, b, r)
        /\ c \in Nat /\ p = b - 1 + c /\ p <= Len(s)
        /\ \A j \in b .. p : s[j] # "\n"
  BY DEF Reading
<1>3. p = Len(s) /\ p \in b - 1 .. Len(s)
  BY <1>1, <1>2
<1>4. LineIn(s, b, p, r)
  BY <1>2, <1>3 DEF LineIn
<1>5. ASSUME NEW i \in Nat, i >= c PROVE CharAt(s, r, i) = Space
  <2>1. CharAt(s, r, i) = IF b + i <= p THEN s[b + i] ELSE Space
    BY <1>4, CharOfLine
  <2> QED  BY <1>2, <1>3, <1>5, <2>1
<1>6. RowOf(s, Len(s) + 1) = r
  <2>1. b \in Nat \ {0} /\ Len(s) + 1 \in Nat \ {0}
    BY <1>1, <1>2
  <2>2. Newlines(s, Len(s) + 1) = Newlines(s, b)
    BY <1>2, <1>3 DEF Newlines, LineFrom
  <2> QED  BY <1>2, <2>1, <2>2, RowOfStep DEF RowOf, Newlines, LineFrom
<1>7. r \in Nat
  BY <1>1, <1>4, PlacesOfLine
<1> QED  BY <1>5, <1>6, <1>7 DEF Blank

\* Every character is within as many rows and columns as the text is long.
LEMMA CharInBounds ==
  ASSUME NEW S, NEW s \in Seq(S), NEW r \in Nat, NEW c \in Nat, CharAt(s, r, c) # Space
  PROVE  r <= Len(s) /\ c <= Len(s)
<1>1. Len(s) \in Nat
  BY LenProperties
<1>2. r + 1 \in DOMAIN Rows(s) /\ c + 1 \in DOMAIN Row(s, r)
  BY DEF CharAt
<1>3. RowOf(s, Len(s) + 1) \in Nat /\ RowOf(s, Len(s) + 1) <= Len(s)
  <2>1. Newlines(s, Len(s) + 1) \subseteq 1 .. Len(s)
    BY <1>1 DEF Newlines
  <2>2. IsFiniteSet(1 .. Len(s)) /\ Cardinality(1 .. Len(s)) = Len(s)
    <3>1. ASSUME NEW n \in Nat PROVE IsFiniteSet(1 .. n) /\ Cardinality(1 .. n) = n
      BY FS_Interval
    <3> QED  BY <1>1, <3>1
  <2>3. Cardinality(Newlines(s, Len(s) + 1)) <= Len(s)
    BY <2>1, <2>2, FS_Subset
  <2>4. RowOf(s, Len(s) + 1) = Cardinality(Newlines(s, Len(s) + 1))
    BY DEF RowOf, Newlines
  <2>5. Len(s) + 1 \in Nat \ {0}
    BY <1>1
  <2> QED  BY <2>3, <2>4, <2>5, RowOfStep
<1>4. r <= Len(s)
  BY <1>1, <1>2, <1>3 DEF Rows
<1> DEFINE P == PlacesOf(s, r)
<1>5. P \subseteq 1 .. Len(s)
  BY DEF PlacesOf
<1>6. Row(s, r) = IF P = {} THEN <<>>
                  ELSE SubSeq(s, CHOOSE i \in P : \A j \in P : i <= j, CHOOSE i \in P : \A j \in P : i >= j)
  BY DEF Row, PlacesOf
<1> HIDE DEF P
<1>7. P # {}
  BY <1>2, <1>6
<1>8. \E i \in P : \A j \in P : i <= j
  <2>1. P \subseteq Nat
    BY <1>1, <1>5
  <2> QED  BY <1>7, <2>1, LeastElement
<1>9. \E i \in P : \A j \in P : i >= j
  <2> DEFINE Q == {n \in 0 .. Len(s) : Len(s) - n \in P}
  <2>1. Q \subseteq Nat
    BY <1>1
  <2>2. Q # {}
    <3>1. PICK i \in P : i \in 1 .. Len(s)
      BY <1>5, <1>7
    <3>2. Len(s) - i \in 0 .. Len(s) /\ Len(s) - (Len(s) - i) = i
      BY <1>1, <3>1
    <3> QED  BY <3>1, <3>2
  <2>3. PICK n \in Q : \A m \in Q : n <= m
    <3> HIDE DEF Q
    <3> QED  BY <2>1, <2>2, LeastElement
  <2>4. ASSUME NEW j \in P PROVE Len(s) - n >= j
    <3>1. j \in 1 .. Len(s)
      BY <1>5
    <3>2. Len(s) - j \in 0 .. Len(s) /\ Len(s) - (Len(s) - j) = j
      BY <1>1, <3>1
    <3>3. Len(s) - j \in Q
      BY <3>2
    <3>4. n <= Len(s) - j /\ n \in 0 .. Len(s)
      BY <2>3, <3>3
    <3> QED  BY <1>1, <3>1, <3>4
  <2>5. Len(s) - n \in P
    BY <2>3
  <2> QED  BY <2>4, <2>5
<1>10. PICK a \in 1 .. Len(s), z \in 1 .. Len(s) : Row(s, r) = SubSeq(s, a, z)
  BY <1>5, <1>6, <1>7, <1>8, <1>9
<1>11. DOMAIN Row(s, r) = 1 .. z - a + 1
  BY <1>1, <1>10
<1>12. c + 1 \in 1 .. z - a + 1
  BY <1>2, <1>11
<1>13. c <= Len(s)
  BY <1>1, <1>12
<1> QED  BY <1>4, <1>13

-----------------------------------------------------------------------------
(* What fish has made of the frames                                        *)

\* What a sound file holds
LEMMA SoundText ==
  ASSUME NEW inode \in InodeNums, Sound(inode)
  PROVE  /\ Content(inode) \in Seq(Bytes) /\ Len(Content(inode)) \in Nat
         /\ Len(Content(inode)) = Inodes[inode].data_len
<1> DEFINE text == Content(inode)
           n == Inodes[inode].data_len
<1>3. n \in Nat
  BY ConstantsAssumption
<1>4. \A i \in 1 .. n : text[i] \in Bytes
  BY ContentType
<1>5. text = [i \in 1 .. n |-> text[i]]
  BY DEF Content
<1> HIDE DEF n
<1>6. text \in Seq(Bytes) /\ Len(text) = n
  <2>1. ASSUME NEW t, \A i \in 1 .. n : t[i] \in Bytes
        PROVE  [i \in 1 .. n |-> t[i]] \in Seq(Bytes) /\ Len([i \in 1 .. n |-> t[i]]) = n
    BY <1>3, <2>1
  <2> HIDE DEF text
  <2> QED  BY <1>4, <1>5, <2>1
<1> QED  BY <1>3, <1>6 DEF n

\* What the file of frame k holds
FrameText(k) == Content(InodeOf(Frames[k]))

\* The image has both frames, as files with sound blocks.
FramesImage == \A k \in {1, 2} : IsFile(Frames[k]) /\ Sound(InodeOf(Frames[k]))

LEMMA FrameTextType ==
  ASSUME FramesImage, NEW k \in {1, 2}
  PROVE  /\ InodeOf(Frames[k]) \in InodeNums
         /\ FrameText(k) \in Seq(Bytes) /\ Len(FrameText(k)) \in Nat
         /\ Len(FrameText(k)) = Inodes[InodeOf(Frames[k])].data_len
<1>1. Sound(InodeOf(Frames[k])) /\ Entries(Frames[k]) # {}
  BY DEF FramesImage, IsFile
<1>2. InodeOf(Frames[k]) \in InodeNums
  BY <1>1, LookupIsEntry DEF InodeOf
<1> QED  BY <1>1, <1>2, SoundText DEF FrameText

\* The characters of the two frames at column c of row r
Blink(r, c) == [row |-> r, col |-> c, on_char |-> CharAt(FrameText(1), r, c), off_char |-> CharAt(FrameText(2), r, c)]
Visible(r, c) == \E k \in {1, 2} : CharAt(FrameText(k), r, c) # Space
Overlay(A) == {Blink(q[1], q[2]) : q \in {p \in A : Visible(p[1], p[2])}}

\* The places before column c of row r, row by row
Passed(r, c) == {q \in Nat \X Nat : q[1] < r \/ (q[1] = r /\ q[2] < c)}

\* The frames are laid over each other at the places of A.
Merges(blinks, A) ==
    /\ blinks \in Seq(Overlay(Nat \X Nat))
    /\ {blinks[i] : i \in DOMAIN blinks} = Overlay(A)

LEMMA OverlayOfSome ==
  ASSUME NEW A, NEW B, A \subseteq B, \A q \in B \ A : ~Visible(q[1], q[2])
  PROVE  Overlay(A) = Overlay(B)
BY DEF Overlay

LEMMA MergesNone == Merges(<<>>, Passed(0, 0))
<1>1. Passed(0, 0) = {}
  BY DEF Passed
<1>2. Overlay({}) = {}
  BY DEF Overlay
<1> QED  BY <1>1, <1>2 DEF Merges

LEMMA MergesBlink ==
  ASSUME NEW o, NEW r \in Nat, NEW c \in Nat, Merges(o, Passed(r, c))
  PROVE  Merges(IF Visible(r, c) THEN Append(o, Blink(r, c)) ELSE o, Passed(r, c + 1))
<1>1. Passed(r, c + 1) = Passed(r, c) \cup {<<r, c>>} /\ <<r, c>> \in Nat \X Nat
  BY DEF Passed
<1>2. CASE Visible(r, c)
  <2>1. Overlay(Passed(r, c + 1)) = Overlay(Passed(r, c)) \cup {Blink(r, c)} /\ Blink(r, c) \in Overlay(Nat \X Nat)
    BY <1>1, <1>2 DEF Overlay
  <2> DEFINE new == Append(o, Blink(r, c))
  <2>2. o \in Seq(Overlay(Nat \X Nat)) /\ {o[i] : i \in DOMAIN o} = Overlay(Passed(r, c))
    BY DEF Merges
  <2>3. /\ new \in Seq(Overlay(Nat \X Nat)) /\ Len(new) = Len(o) + 1
        /\ \A i \in 1 .. Len(o) : new[i] = o[i]
        /\ new[Len(o) + 1] = Blink(r, c)
    BY <2>1, <2>2, AppendProperties
  <2>4. DOMAIN new = 1 .. Len(o) + 1 /\ DOMAIN o = 1 .. Len(o) /\ Len(o) \in Nat
    BY <2>2, <2>3, LenProperties
  <2> HIDE DEF new
  <2>5. {new[i] : i \in DOMAIN new} = {o[i] : i \in DOMAIN o} \cup {Blink(r, c)}
    BY <2>3, <2>4
  <2> QED  BY <1>2, <2>1, <2>2, <2>3, <2>5 DEF Merges, new
<1>3. CASE ~Visible(r, c)
  <2>1. Overlay(Passed(r, c)) = Overlay(Passed(r, c + 1))
    BY <1>1, <1>3, OverlayOfSome
  <2> QED  BY <1>3, <2>1 DEF Merges
<1> QED  BY <1>2, <1>3

LEMMA MergesRow ==
  ASSUME NEW o, NEW r \in Nat, NEW c \in Nat, Merges(o, Passed(r, c)), \A k \in {1, 2} : Blank(FrameText(k), r, c)
  PROVE  Merges(o, Passed(r + 1, 0))
<1>1. Passed(r, c) \subseteq Passed(r + 1, 0)
  BY DEF Passed
<1>2. ASSUME NEW q \in Passed(r + 1, 0) \ Passed(r, c) PROVE ~Visible(q[1], q[2])
  <2>1. q[1] = r /\ q[2] \in Nat /\ q[2] >= c
    BY <1>2 DEF Passed
  <2> QED  BY <2>1 DEF Visible, Blank
<1>3. Overlay(Passed(r, c)) = Overlay(Passed(r + 1, 0))
  BY <1>1, <1>2, OverlayOfSome
<1> QED  BY <1>3 DEF Merges

LEMMA MergesAll ==
  ASSUME FramesImage, NEW o, NEW r \in Nat, Merges(o, Passed(r + 1, 0)),
         \A k \in {1, 2} : RowOf(FrameText(k), Len(FrameText(k)) + 1) <= r
  PROVE  Merges(o, Nat \X Nat)
<1>1. Passed(r + 1, 0) \subseteq Nat \X Nat
  BY DEF Passed
<1>2. ASSUME NEW q \in (Nat \X Nat) \ Passed(r + 1, 0) PROVE ~Visible(q[1], q[2])
  <2>1. q[1] \in Nat /\ q[1] > r
    BY <1>2 DEF Passed
  <2>2. ASSUME NEW k \in {1, 2} PROVE CharAt(FrameText(k), q[1], q[2]) = Space
    <3>1. Len(FrameText(k)) \in Nat
      BY FrameTextType
    <3>2. RowOf(FrameText(k), Len(FrameText(k)) + 1) \in Nat
      <4>1. Len(FrameText(k)) + 1 \in Nat \ {0}
        BY <3>1
      <4> QED  BY <4>1, RowOfStep
    <3>3. RowOf(FrameText(k), Len(FrameText(k)) + 1) < q[1]
      BY <2>1, <3>2
    <3> QED  BY <2>1, <3>1, <3>3, CharAfterRows
  <2> QED  BY <2>2 DEF Visible
<1>3. Overlay(Passed(r + 1, 0)) = Overlay(Nat \X Nat)
  BY <1>1, <1>2, OverlayOfSome
<1> QED  BY <1>3 DEF Merges

LEMMA MergedFrames ==
  ASSUME FramesImage, Merges(out, Nat \X Nat)
  PROVE  FramesMerged
<1> DEFINE N == Len(FrameText(1)) + Len(FrameText(2))
           places == (0 .. N) \X (0 .. N)
<1>1. Len(FrameText(1)) \in Nat /\ Len(FrameText(2)) \in Nat /\ N \in Nat
  BY FrameTextType
<1>2. ASSUME NEW q \in (Nat \X Nat) \ places PROVE ~Visible(q[1], q[2])
  <2>1. q[1] \in Nat /\ q[2] \in Nat /\ ~(q[1] <= N /\ q[2] <= N)
    BY <1>1, <1>2
  <2>2. ASSUME NEW k \in {1, 2} PROVE CharAt(FrameText(k), q[1], q[2]) = Space
    <3>1. FrameText(k) \in Seq(Bytes)
      BY FrameTextType
    <3>2. CharAt(FrameText(k), q[1], q[2]) # Space => q[1] <= Len(FrameText(k)) /\ q[2] <= Len(FrameText(k))
      BY <2>1, <3>1, CharInBounds
    <3>3. Len(FrameText(k)) <= N /\ Len(FrameText(k)) \in Nat
      BY <1>1
    <3> QED  BY <1>1, <2>1, <3>2, <3>3
  <2> QED  BY <2>2 DEF Visible
<1>3. places \subseteq Nat \X Nat
  BY <1>1
<1>4. Overlay(places) = Overlay(Nat \X Nat)
  <2> HIDE DEF places
  <2> QED  BY <1>2, <1>3, OverlayOfSome
<1>5. {out[i] : i \in DOMAIN out} = Overlay(places)
  BY <1>4 DEF Merges
<1> QED  BY <1>5, Zenon DEF FramesMerged, Overlay, Visible, Blink, FrameText

\* Frame k is open as f.
FrameFile(fds, k, f) ==
    /\ f \in Fds \ {0, 1}
    /\ fds[f].flags /\ fds[f].table_ptr = "fs_ops" /\ fds[f].inode = InodeOf(Frames[k])

\* With ch as its last character frame k, open as f, is at column c of row r,
\* or before the next row if that was the end of this, or over.
FrameAt(fds, k, f, eof, ch, r, c) ==
    /\ ch = "\n" => Blank(FrameText(k), r, c)
    /\ eof => ch = "\n" /\ RowOf(FrameText(k), Len(FrameText(k)) + 1) <= r
    /\ ~eof => /\ FrameFile(fds, k, f)
               /\ IF ch = "\n" THEN Reading(FrameText(k), fds[f].file_position, r + 1, 0)
                  ELSE Reading(FrameText(k), fds[f].file_position, r, c)

LEMMA FrameStarts ==
  ASSUME FramesImage, NEW fds, NEW k \in {1, 2}, NEW f, FrameFile(fds, k, f), fds[f].file_position = 0
  PROVE  FrameAt(fds, k, f, FALSE, "0", 0, 0)
<1>1. Reading(FrameText(k), 0, 0, 0)
  BY FrameTextType, ReadingBegins
<1> QED  BY <1>1 DEF FrameAt

LEMMA FrameStays ==
  ASSUME NEW fds, NEW new, NEW k, NEW f, NEW eof, NEW ch, NEW r, NEW c,
         FrameAt(fds, k, f, eof, ch, r, c), ~eof => new[f] = fds[f]
  PROVE  FrameAt(new, k, f, eof, ch, r, c)
BY Zenon DEF FrameAt, FrameFile

\* Column c of a row that ended before it
LEMMA FrameSkips ==
  ASSUME NEW fds, NEW k, NEW f, NEW eof, NEW r, NEW c \in Nat, FrameAt(fds, k, f, eof, "\n", r, c)
  PROVE  FrameAt(fds, k, f, eof, "\n", r, c + 1) /\ CharAt(FrameText(k), r, c) = Shown("\n")
<1>1. Blank(FrameText(k), r, c)
  BY DEF FrameAt
<1>2. Blank(FrameText(k), r, c + 1) /\ CharAt(FrameText(k), r, c) = Space
  BY <1>1 DEF Blank
<1> QED  BY <1>2 DEF FrameAt, Shown

\* The next row of a frame that was read to the end of this one
LEMMA FrameNextRow ==
  ASSUME FramesImage, NEW fds, NEW new, NEW k \in {1, 2}, NEW f, NEW eof \in BOOLEAN, NEW r \in Nat, NEW c,
         FrameAt(fds, k, f, eof, "\n", r, c), ~eof => new[f] = fds[f]
  PROVE  FrameAt(new, k, f, eof, NextChar(eof), r + 1, 0)
<1> DEFINE s == FrameText(k)
           last == RowOf(s, Len(s) + 1)
<1>1. CASE eof
  <2>1. Len(s) \in Nat
    BY FrameTextType
  <2>2. last \in Nat
    <3>1. Len(s) + 1 \in Nat \ {0}
      BY <2>1
    <3> QED  BY <3>1, RowOfStep
  <2>3. last <= r
    BY <1>1 DEF FrameAt
  <2> HIDE DEF last
  <2>4. last < r + 1 /\ last <= r + 1 /\ r + 1 \in Nat
    BY <2>2, <2>3
  <2>5. \A i \in Nat : CharAt(s, r + 1, i) = Space
    BY <2>1, <2>4, CharAfterRows DEF last
  <2>6. Blank(s, r + 1, 0)
    BY <2>5 DEF Blank
  <2> QED  BY <1>1, <2>4, <2>6 DEF FrameAt, NextChar, last
<1>2. CASE ~eof
  <2>1. FrameFile(new, k, f) /\ Reading(s, new[f].file_position, r + 1, 0)
    BY <1>2, Zenon DEF FrameAt, FrameFile
  <2> QED  BY <1>2, <2>1 DEF FrameAt, NextChar
<1> QED  BY <1>1, <1>2

\* A character of frame k, or its end
LEMMA FrameReads ==
  ASSUME FramesImage, FileInv, NEW k \in {1, 2}, NEW f, NEW eof, NEW ch, ch # "\n", NEW r \in Nat, NEW c \in Nat,
         FrameAt(fd_array, k, f, eof, ch, r, c), read(f, 1),
         NEW n, n = ReadRet(f, 1), NEW x, n = 0 => x = "\n", n = 1 => x = ReadData(f, 1)[1]
  PROVE  /\ ~eof /\ n \in {0, 1}
         /\ FrameAt(fd_array', k, f, n = 0, x, r, c + 1)
         /\ CharAt(FrameText(k), r, c) = Shown(x)
         /\ \A g \in Fds \ {f} : fd_array'[g] = fd_array[g]
<1> DEFINE s == FrameText(k)
           p == fd_array[f].file_position
           bytes == FileRead(f, 1)
<1>1. ~eof /\ FrameFile(fd_array, k, f) /\ Reading(s, p, r, c)
  BY DEF FrameAt
<1>2. f \in Fds \ {0, 1} /\ IsOpen(f, "fs_ops") /\ fd_array[f].inode = InodeOf(Frames[k])
  BY <1>1 DEF FrameFile, IsOpen
<1>3. CanRead(f, 1)
  BY <1>2 DEF CanRead, IsOpen
<1>4. f_read(f, 1)
  BY <1>2, <1>3 DEF read, IsOpen
<1>5. n = Len(bytes) /\ ReadData(f, 1) = bytes
  BY <1>2, <1>3 DEF ReadRet, ReadData, IsOpen, Advance
<1>6. s \in Seq(Bytes) /\ Len(s) \in Nat /\ Len(s) = Inodes[fd_array[f].inode].data_len
  BY <1>2, FrameTextType
<1>7. p \in Nat /\ ShapeOK
  BY <1>2 DEF FileInv, TypeOK, ShapeOK
<1>8. /\ n = IF p >= Len(s) THEN 0 ELSE Portion(fd_array[f].inode, p, 1)
      /\ \A i \in 1 .. n : bytes[i] = s[p + i]
  <2>1. Sound(fd_array[f].inode) /\ Content(fd_array[f].inode) = s
    BY <1>2 DEF FramesImage, FrameText
  <2> HIDE DEF bytes
  <2> QED  BY <1>2, <1>5, <1>6, <1>7, <2>1, FileReadGives DEF bytes
<1>9. n = IF p >= Len(s) THEN 0 ELSE 1
  <2>1. ~(p >= Len(s)) => p + 1 <= Len(s)
    BY <1>6, <1>7
  <2> QED  BY <1>6, <1>8, <2>1 DEF Portion
<1>10. fd_array' = [fd_array EXCEPT ![f].file_position = @ + n]
  BY <1>4, <1>5 DEF f_read, Advance
<1>11. /\ fd_array'[f].flags = fd_array[f].flags /\ fd_array'[f].table_ptr = fd_array[f].table_ptr
       /\ fd_array'[f].inode = fd_array[f].inode /\ fd_array'[f].file_position = p + n
  BY <1>2, <1>10 DEF FileInv, TypeOK
<1>12. \A g \in Fds \ {f} : fd_array'[g] = fd_array[g]
  <2>1. DOMAIN fd_array = Fds
    BY DEF FileInv, TypeOK
  <2> QED  BY <1>10, <2>1, Zenon
<1>13. FrameFile(fd_array', k, f)
  BY <1>1, <1>11 DEF FrameFile
<1> HIDE DEF s, p, bytes
<1>14. CASE p < Len(s)
  <2>1. n = 1 /\ 1 \in 1 .. n
    BY <1>6, <1>7, <1>9, <1>14
  <2>2. x = s[p + 1] /\ fd_array'[f].file_position = p + 1
    BY <1>5, <1>8, <1>11, <2>1
  <2>3. IF x = "\n" THEN Blank(s, r, c) /\ Reading(s, p + 1, r + 1, 0)
        ELSE CharAt(s, r, c) = x /\ Reading(s, p + 1, r, c + 1)
    BY <1>1, <1>6, <1>14, <2>2, ReadingGoesOn
  <2>4. x = "\n" => Blank(s, r, c + 1) /\ CharAt(s, r, c) = Space
    BY <2>3 DEF Blank
  <2>5. CharAt(s, r, c) = Shown(x)
    BY <2>3, <2>4 DEF Shown
  <2>6. FrameAt(fd_array', k, f, n = 0, x, r, c + 1)
    BY <1>13, <2>1, <2>2, <2>3, <2>4 DEF FrameAt, s
  <2> QED  BY <1>1, <1>12, <2>1, <2>5, <2>6 DEF s
<1>15. CASE ~(p < Len(s))
  <2>1. n = 0 /\ x = "\n"
    BY <1>6, <1>7, <1>9, <1>15
  <2>2. Blank(s, r, c) /\ RowOf(s, Len(s) + 1) <= r
    BY <1>1, <1>6, <1>15, ReadingEnds
  <2>3. Blank(s, r, c + 1) /\ CharAt(s, r, c) = Space
    BY <2>2 DEF Blank
  <2>4. FrameAt(fd_array', k, f, n = 0, x, r, c + 1)
    BY <2>1, <2>2, <2>3 DEF FrameAt, s
  <2> QED  BY <1>1, <1>12, <2>1, <2>3, <2>4 DEF Shown, s
<1> QED  BY <1>14, <1>15

-----------------------------------------------------------------------------
(* fish: where it is in the two frames, and what it has laid over each      *)
(* other                                                                   *)

\* A pair, as a function of 1 and 2
Two(t) == t = [j \in {1, 2} |-> t[j]]

\* fish's variables, from when both frames are open
FishLocals(l) ==
    /\ l.row \in Nat /\ l.col \in Nat
    /\ Two(l.c) /\ Two(l.eof) /\ l.eof[1] \in BOOLEAN /\ l.eof[2] \in BOOLEAN
    /\ l.fds[1] # l.fds[2]

\* Reading a column: the frames before k have its character.
ReadPlace(fds, l, blinks) ==
    /\ FishLocals(l) /\ l.k \in 1 .. 3
    /\ \A j \in {1, 2} :
        /\ FrameAt(fds, j, l.fds[j], l.eof[j], l.c[j], l.row, IF j < l.k THEN l.col + 1 ELSE l.col)
        /\ j < l.k => CharAt(FrameText(j), l.row, l.col) = Shown(l.c[j])
    /\ Merges(blinks, Passed(l.row, l.col))

\* At the end of a row: the frames before k are set for the next.
RowPlace(fds, l, blinks) ==
    /\ FishLocals(l) /\ l.k \in {1, 2}
    /\ \A j \in {1, 2} :
        IF j < l.k THEN FrameAt(fds, j, l.fds[j], l.eof[j], l.c[j], l.row + 1, 0)
        ELSE FrameAt(fds, j, l.fds[j], l.eof[j], "\n", l.row, l.col + 1)
    /\ Merges(blinks, Passed(l.row + 1, 0))

\* Where fish is in both frames, and that it has merged all it has passed: what
\* a character of the one is laid over depends on the places of both.
MergeInv ==
    /\ At(<<"fish">>, "start") => out = <<>>
    /\ At(<<"fish">>, "open") =>
        /\ out = <<>>
        /\ \A j \in 1 .. Len(loc.fds) :
            FrameFile(fd_array, j, loc.fds[j]) /\ fd_array[loc.fds[j]].file_position = 0
    /\ At(<<"fish">>, "read") => ReadPlace(fd_array, loc, out)
    /\ At(<<"fish">>, "row") => RowPlace(fd_array, loc, out)
    /\ At(<<"fish">>, "clock") => Merges(out, Nat \X Nat)

LEMMA PairIsTwo ==
  ASSUME NEW a, NEW b
  PROVE  Two(<<a, b>>) /\ <<a, b>>[1] = a /\ <<a, b>>[2] = b /\ \A t : Two(t) /\ t[1] = a /\ t[2] = b => t = <<a, b>>
<1>1. <<a, b>> = [j \in {1, 2} |-> IF j = 1 THEN a ELSE b]
  OBVIOUS
<1>2. ASSUME NEW t, Two(t), t[1] = a, t[2] = b PROVE t = <<a, b>>
  <2>1. [j \in {1, 2} |-> t[j]] = [j \in {1, 2} |-> IF j = 1 THEN a ELSE b]
    BY <1>2
  <2> QED  BY <1>1, <1>2, <2>1, Zenon DEF Two
<1>3. Two(<<a, b>>)
  BY <1>1 DEF Two
<1> QED  BY <1>2, <1>3

LEMMA FishOpenMerges ==
  ASSUME FramesImage, CallInv, FishInv, MergeInv, FishOpen
  PROVE  MergeInv'
<1> DEFINE n == Len(loc.fds)
           name == Frames[n + 1]
           f == OpenRet(name)
           frames == Append(loc.fds, f)
<1>1. At(<<"fish">>, "open") /\ prog' = prog /\ open(name) /\ out' = out
  BY Zenon DEF FishOpen, At, Goto, Exit, programVars
<1>2. \/ pc' = "exit"
      \/ f # -1 /\ Len(frames) < 2 /\ pc' = "open" /\ loc' = [loc EXCEPT !.fds = frames]
      \/ /\ f # -1 /\ ~(Len(frames) < 2) /\ pc' = "read"
         /\ loc' = [rtc |-> loc.rtc, fds |-> frames, c |-> <<"0", "0">>,
                    eof |-> <<FALSE, FALSE>>, row |-> 0, col |-> 0, k |-> 1]
  BY <1>1, Zenon DEF FishOpen, Goto, Exit
<1>3. CASE pc' = "exit"
  BY <1>3 DEF MergeInv, At
<1>4. CASE f # -1
  <2>1. /\ DOMAIN loc = {"rtc", "fds"} /\ loc.fds \in Seq(Low) /\ n \in {0, 1} /\ out = <<>>
        /\ \A j \in 1 .. n : FrameFile(fd_array, j, loc.fds[j]) /\ fd_array[loc.fds[j]].file_position = 0
    BY <1>1 DEF FishInv, MergeInv
  <2>2. f = VacantFd /\ f \in Fds \ {0, 1} /\ ~fd_array[f].flags
    BY <1>4, OpenRetType DEF CallInv
  <2>3. /\ Len(frames) = n + 1
        /\ \A j \in 1 .. n : frames[j] = loc.fds[j]
        /\ frames[n + 1] = f
    <3>1. f \in Low
      BY <2>2 DEF Low
    <3> HIDE DEF f
    <3> QED  BY <2>1, <3>1, AppendProperties
  <2> DEFINE d == Opened(Dentries[Lookup(name)])
  <2>4. fd_array' = [fd_array EXCEPT ![f] = d]
    BY <1>1, <1>4, <2>2 DEF open
  <2>5. d.flags /\ d.table_ptr = "fs_ops" /\ d.inode = InodeOf(name) /\ d.file_position = 0
    <3>1. n + 1 \in {1, 2}
      BY <2>1
    <3>2. IsFile(name)
      BY <3>1 DEF FramesImage
    <3> HIDE DEF name
    <3> QED  BY <3>2 DEF IsFile, Opened, InodeOf, Rtc, Directory, RegularFile
  <2> HIDE DEF d, f, frames
  <2>6. fd_array'[f] = d /\ \A g \in Fds \ {f} : fd_array'[g] = fd_array[g]
    BY <2>2, <2>4 DEF CallInv, FileInv, TypeOK
  <2>7. FrameFile(fd_array', n + 1, f) /\ fd_array'[f].file_position = 0
    BY <2>2, <2>5, <2>6 DEF FrameFile
  <2>8. ASSUME NEW j \in 1 .. n
        PROVE  loc.fds[j] # f /\ FrameFile(fd_array', j, loc.fds[j]) /\ fd_array'[loc.fds[j]].file_position = 0
    <3>1. FrameFile(fd_array, j, loc.fds[j]) /\ fd_array[loc.fds[j]].file_position = 0
      BY <2>1
    <3>2. loc.fds[j] # f /\ loc.fds[j] \in Fds
      BY <2>2, <3>1 DEF FrameFile
    <3>3. fd_array'[loc.fds[j]] = fd_array[loc.fds[j]]
      BY <2>6, <3>2
    <3> QED  BY <3>1, <3>2, <3>3, Zenon DEF FrameFile
  <2>9. \A j \in 1 .. n + 1 : FrameFile(fd_array', j, frames[j]) /\ fd_array'[frames[j]].file_position = 0
    <3> SUFFICES ASSUME NEW j \in 1 .. n + 1
                 PROVE  FrameFile(fd_array', j, frames[j]) /\ fd_array'[frames[j]].file_position = 0
      OBVIOUS
    <3>1. CASE j = n + 1
      BY <2>3, <2>7, <3>1, Zenon
    <3>2. CASE j # n + 1
      <4>1. j \in 1 .. n
        BY <2>1, <3>2
      <4>2. frames[j] = loc.fds[j]
        BY <2>3, <4>1
      <4>3. FrameFile(fd_array', j, loc.fds[j]) /\ fd_array'[loc.fds[j]].file_position = 0
        BY <2>8, <4>1
      <4> QED  BY <4>2, <4>3, Zenon
    <3> QED  BY <3>1, <3>2
  <2>10. CASE pc' = "open" /\ loc' = [loc EXCEPT !.fds = frames]
    <3>1. loc'.fds = frames
      BY <2>1, <2>10, Zenon
    <3> QED  BY <1>1, <2>1, <2>3, <2>9, <2>10, <3>1 DEF MergeInv, At
  <2>11. CASE /\ ~(Len(frames) < 2) /\ pc' = "read"
              /\ loc' = [rtc |-> loc.rtc, fds |-> frames, c |-> <<"0", "0">>,
                         eof |-> <<FALSE, FALSE>>, row |-> 0, col |-> 0, k |-> 1]
    <3>1. /\ loc'.fds = frames /\ loc'.c = <<"0", "0">> /\ loc'.eof = <<FALSE, FALSE>>
          /\ loc'.row = 0 /\ loc'.col = 0 /\ loc'.k = 1
      BY <2>11
    <3>2. n = 1
      BY <2>1, <2>3, <2>11
    <3>3. frames[1] # frames[2] /\ \A j \in {1, 2} : FrameFile(fd_array', j, frames[j])
                                                     /\ fd_array'[frames[j]].file_position = 0
      BY <2>3, <2>8, <2>9, <3>2
    <3>4. \A j \in {1, 2} : FrameAt(fd_array', j, frames[j], FALSE, "0", 0, 0)
      BY <3>3, FrameStarts
    <3>5. Merges(out', Passed(0, 0))
      BY <1>1, <2>1, MergesNone
    <3>6. FishLocals(loc')
      <4>1. Two(loc'.c) /\ Two(loc'.eof) /\ loc'.eof[1] = FALSE /\ loc'.eof[2] = FALSE
        BY <3>1, PairIsTwo
      <4> QED  BY <3>1, <3>3, <4>1 DEF FishLocals
    <3>7. ASSUME NEW j \in {1, 2}
          PROVE  /\ loc'.c[j] = "0" /\ loc'.eof[j] = FALSE /\ ~(j < loc'.k)
                 /\ (IF j < loc'.k THEN loc'.col + 1 ELSE loc'.col) = 0
      <4>1. loc'.c[j] = "0" /\ loc'.eof[j] = FALSE
        <5>1. loc'.c[1] = "0" /\ loc'.c[2] = "0" /\ loc'.eof[1] = FALSE /\ loc'.eof[2] = FALSE
          BY <3>1, PairIsTwo
        <5> QED  BY <5>1
      <4>2. ~(j < loc'.k)
        BY <3>1
      <4> QED  BY <3>1, <4>1, <4>2
    <3>8. ReadPlace(fd_array', loc', out')
      <4>1. ASSUME NEW j \in {1, 2}
            PROVE  /\ FrameAt(fd_array', j, loc'.fds[j], loc'.eof[j], loc'.c[j], loc'.row,
                              IF j < loc'.k THEN loc'.col + 1 ELSE loc'.col)
                   /\ ~(j < loc'.k)
        BY <3>1, <3>4, <3>7
      <4>2. loc'.k \in 1 .. 3 /\ Merges(out', Passed(loc'.row, loc'.col))
        BY <3>1, <3>5
      <4> QED  BY <3>6, <4>1, <4>2, Zenon DEF ReadPlace
    <3> QED  BY <2>11, <3>8 DEF MergeInv, At
  <2> QED  BY <1>2, <1>3, <2>10, <2>11
<1> QED  BY <1>2, <1>3, <1>4

\* FishRead takes a character of frame k, or a blank after the end of its row.
LEMMA FishReadMerges ==
  ASSUME FramesImage, CallInv, FishInv, MergeInv, FishRead
  PROVE  MergeInv'
<1> DEFINE k == loc.k
           f == loc.fds[k]
           n == ReadRet(f, 1)
           x == CASE n = 0 -> "\n" [] n = 1 -> ReadData(f, 1)[1] [] OTHER -> loc.c[k]
           y == loc.eof[k] \/ n = 0
<1>1. At(<<"fish">>, "read") /\ k \in {1, 2} /\ pc' = "read" /\ prog' = prog /\ out' = out
  BY Zenon DEF FishRead, Goto, programVars, At
<1>2. ReadPlace(fd_array, loc, out) /\ DOMAIN loc = {"rtc", "fds", "c", "eof", "row", "col", "k"}
  BY <1>1 DEF MergeInv, FishInv
<1>3. FishLocals(loc)
  BY <1>2 DEF ReadPlace
<1>4. k \notin {j \in {1, 2} : j < k} /\ \A j \in {1, 2} : j < k + 1 <=> j < k \/ j = k
  BY <1>1
<1>5. FrameAt(fd_array, k, f, loc.eof[k], loc.c[k], loc.row, loc.col)
  BY <1>1, <1>2 DEF ReadPlace
<1>6. CASE loc.c[k] = "\n"
  <2>1. loc' = [loc EXCEPT !.k = @ + 1] /\ fd_array' = fd_array
    BY <1>6, Zenon DEF FishRead, Goto, fileVars
  <2>2. /\ loc'.k = k + 1 /\ loc'.c = loc.c /\ loc'.eof = loc.eof /\ loc'.fds = loc.fds
        /\ loc'.row = loc.row /\ loc'.col = loc.col
    BY <1>2, <2>1, Zenon
  <2>3. /\ FrameAt(fd_array, k, f, loc.eof[k], loc.c[k], loc.row, loc.col + 1)
        /\ CharAt(FrameText(k), loc.row, loc.col) = Shown(loc.c[k])
    BY <1>3, <1>5, <1>6, FrameSkips DEF FishLocals
  <2>4. FishLocals(loc')
    BY <1>3, <2>2 DEF FishLocals
  <2>5. ReadPlace(fd_array', loc', out')
    BY <1>1, <1>2, <1>4, <2>1, <2>2, <2>3, <2>4 DEF ReadPlace
  <2> QED  BY <1>1, <2>5 DEF MergeInv, At
<1>7. CASE loc.c[k] # "\n"
  <2>1. loc' = [loc EXCEPT !.c[k] = x, !.eof[k] = y, !.k = @ + 1] /\ read(f, 1)
    BY <1>7, Zenon DEF FishRead, Goto
  <2>2. (n = 0 => x = "\n") /\ (n = 1 => x = ReadData(f, 1)[1])
    OBVIOUS
  <2> HIDE DEF x, n
  <2>3. /\ ~loc.eof[k] /\ n \in {0, 1}
        /\ FrameAt(fd_array', k, f, n = 0, x, loc.row, loc.col + 1)
        /\ CharAt(FrameText(k), loc.row, loc.col) = Shown(x)
        /\ \A g \in Fds \ {f} : fd_array'[g] = fd_array[g]
    <3> DEFINE eof == loc.eof[k]
               ch == loc.c[k]
    <3>1. FileInv /\ loc.row \in Nat /\ loc.col \in Nat /\ k \in {1, 2} /\ read(f, 1) /\ n = ReadRet(f, 1)
      BY <1>1, <1>3, <2>1 DEF CallInv, FishLocals, n
    <3>2. FrameAt(fd_array, k, f, eof, ch, loc.row, loc.col) /\ ch # "\n"
      BY <1>5, <1>7
    <3> HIDE DEF f, k, eof, ch
    <3>3. PICK kk, ff, ee, hh, rr, cc, nn, xx :
             kk = k /\ ff = f /\ ee = eof /\ hh = ch /\ rr = loc.row /\ cc = loc.col /\ nn = n /\ xx = x
      BY Zenon
    <3>4. /\ ~ee /\ nn \in {0, 1}
          /\ FrameAt(fd_array', kk, ff, nn = 0, xx, rr, cc + 1)
          /\ CharAt(FrameText(kk), rr, cc) = Shown(xx)
          /\ \A g \in Fds \ {ff} : fd_array'[g] = fd_array[g]
      <4>1. FrameAt(fd_array, kk, ff, ee, hh, rr, cc) /\ hh # "\n"
        BY <3>2, <3>3, Zenon
      <4>2. FileInv /\ rr \in Nat /\ cc \in Nat /\ kk \in {1, 2}
        BY <3>1, <3>3, Zenon
      <4>3. read(ff, 1) /\ nn = ReadRet(ff, 1)
        BY <3>1, <3>3
      <4>4. (nn = 0 => xx = "\n") /\ (nn = 1 => xx = ReadData(ff, 1)[1])
        BY <2>2, <3>3, Zenon
      <4> QED  BY <4>1, <4>2, <4>3, <4>4, FrameReads
    <3> QED  BY <3>3, <3>4, Zenon DEF eof
  <2>4. y = (n = 0) /\ y \in BOOLEAN
    BY <2>3
  <2> HIDE DEF y
  <2>5. /\ loc'.k = k + 1 /\ loc'.c = [loc.c EXCEPT ![k] = x] /\ loc'.eof = [loc.eof EXCEPT ![k] = y]
        /\ loc'.fds = loc.fds /\ loc'.row = loc.row /\ loc'.col = loc.col
    BY <1>2, <2>1, Zenon
  <2>6. /\ Two(loc'.c) /\ Two(loc'.eof)
        /\ \A j \in {1, 2} : /\ loc'.c[j] = IF j = k THEN x ELSE loc.c[j]
                             /\ loc'.eof[j] = IF j = k THEN y ELSE loc.eof[j]
    <3>1. DOMAIN loc.c = {1, 2} /\ DOMAIN loc.eof = {1, 2}
      BY <1>3 DEF FishLocals, Two
    <3> HIDE DEF k
    <3> QED  BY <1>1, <1>3, <2>5, <3>1 DEF FishLocals, Two
  <2>7. FishLocals(loc')
    BY <1>1, <1>3, <2>4, <2>5, <2>6 DEF FishLocals
  <2>8. ASSUME NEW j \in {1, 2}, j # k
        PROVE  FrameAt(fd_array', j, loc.fds[j], loc.eof[j], loc.c[j], loc.row,
                       IF j < k THEN loc.col + 1 ELSE loc.col)
    <3> DEFINE c == IF j < k THEN loc.col + 1 ELSE loc.col
    <3>1. FrameAt(fd_array, j, loc.fds[j], loc.eof[j], loc.c[j], loc.row, c)
      BY <1>2 DEF ReadPlace
    <3>2. loc.fds[j] # f
      BY <1>1, <1>3, <2>8 DEF FishLocals
    <3>3. ~loc.eof[j] => fd_array'[loc.fds[j]] = fd_array[loc.fds[j]]
      BY <2>3, <3>1, <3>2 DEF FrameAt, FrameFile
    <3> HIDE DEF c
    <3>4. FrameAt(fd_array', j, loc.fds[j], loc.eof[j], loc.c[j], loc.row, c)
      BY <3>1, <3>3, FrameStays
    <3> QED  BY <3>4 DEF c
  <2>9. ASSUME NEW j \in {1, 2}
        PROVE  /\ FrameAt(fd_array', j, loc'.fds[j], loc'.eof[j], loc'.c[j], loc'.row,
                          IF j < loc'.k THEN loc'.col + 1 ELSE loc'.col)
               /\ j < loc'.k => CharAt(FrameText(j), loc'.row, loc'.col) = Shown(loc'.c[j])
    <3>1. CASE j = k
      <4>1. j < loc'.k
        BY <1>4, <2>5, <3>1
      <4> QED  BY <2>3, <2>4, <2>5, <2>6, <3>1, <4>1
    <3>2. CASE j # k
      <4>1. j < loc'.k <=> j < k
        BY <1>4, <2>5, <3>2
      <4>2. j < k => CharAt(FrameText(j), loc.row, loc.col) = Shown(loc.c[j])
        BY <1>2 DEF ReadPlace
      <4> QED  BY <2>5, <2>6, <2>8, <3>2, <4>1, <4>2
    <3> QED  BY <3>1, <3>2
  <2>10. loc'.k \in 1 .. 3 /\ Merges(out', Passed(loc'.row, loc'.col))
    BY <1>1, <1>2, <2>5 DEF ReadPlace
  <2>11. ReadPlace(fd_array', loc', out')
    BY <2>7, <2>9, <2>10 DEF ReadPlace
  <2> QED  BY <1>1, <2>11 DEF MergeInv, At
<1> QED  BY <1>6, <1>7

LEMMA BlankIsShown == ASSUME NEW c PROVE Shown(c) = Space <=> c \in {Space, "\n"}
BY DEF Shown

\* FishBlink lays the two characters of a column over each other.
LEMMA FishBlinkMerges ==
  ASSUME FramesImage, CallInv, FishInv, MergeInv, FishBlink
  PROVE  MergeInv'
<1>1. At(<<"fish">>, "read") /\ loc.k = 3 /\ prog' = prog /\ fd_array' = fd_array
  BY Zenon DEF FishBlink, Goto, programVars, At, fileVars
<1>2. ReadPlace(fd_array, loc, out) /\ DOMAIN loc = {"rtc", "fds", "c", "eof", "row", "col", "k"}
  BY <1>1 DEF MergeInv, FishInv
<1> DEFINE r == loc.row
           c == loc.col
           blink == [row |-> r, col |-> c, on_char |-> Shown(loc.c[1]), off_char |-> Shown(loc.c[2])]
<1>3. FishLocals(loc) /\ r \in Nat /\ c \in Nat /\ Merges(out, Passed(r, c))
  BY <1>2 DEF ReadPlace, FishLocals
<1>4. ASSUME NEW j \in {1, 2}
      PROVE  /\ FrameAt(fd_array, j, loc.fds[j], loc.eof[j], loc.c[j], r, c + 1)
             /\ CharAt(FrameText(j), r, c) = Shown(loc.c[j])
  <2>1. j < loc.k
    BY <1>1
  <2> QED  BY <1>2, <2>1 DEF ReadPlace
<1>5. Visible(r, c) <=> ~({loc.c[1], loc.c[2]} \subseteq {Space, "\n"})
  <2>1. Visible(r, c) <=> Shown(loc.c[1]) # Space \/ Shown(loc.c[2]) # Space
    BY <1>4 DEF Visible
  <2>2. {loc.c[1], loc.c[2]} \subseteq {Space, "\n"} <=> loc.c[1] \in {Space, "\n"} /\ loc.c[2] \in {Space, "\n"}
    BY Zenon
  <2> QED  BY <2>1, <2>2, BlankIsShown
<1>6. Blink(r, c) = blink
  BY <1>4 DEF Blink
<1>7. out' = IF {loc.c[1], loc.c[2]} \subseteq {Space, "\n"} THEN out ELSE Append(out, blink)
  BY Zenon DEF FishBlink
<1>8. Merges(out', Passed(r, c + 1))
  <2>1. out' = IF Visible(r, c) THEN Append(out, Blink(r, c)) ELSE out
    BY <1>5, <1>6, <1>7, Zenon
  <2>2. Merges(IF Visible(r, c) THEN Append(out, Blink(r, c)) ELSE out, Passed(r, c + 1))
    BY <1>3, MergesBlink
  <2> QED  BY <2>1, <2>2, Zenon
<1> HIDE DEF blink
<1>9. CASE loc.c = <<"\n", "\n">>
  <2>1. pc' = "row" /\ loc' = [loc EXCEPT !.k = 1]
    BY <1>9, Zenon DEF FishBlink, Goto
  <2>2. /\ loc'.k = 1 /\ loc'.c = loc.c /\ loc'.eof = loc.eof /\ loc'.fds = loc.fds
        /\ loc'.row = r /\ loc'.col = c
    BY <1>2, <2>1, Zenon
  <2>3. ASSUME NEW j \in {1, 2}
        PROVE  FrameAt(fd_array, j, loc.fds[j], loc.eof[j], "\n", r, c + 1) /\ Blank(FrameText(j), r, c + 1)
    <3>1. loc.c[1] = "\n" /\ loc.c[2] = "\n"
      BY <1>9, PairIsTwo
    <3>2. loc.c[j] = "\n"
      BY <3>1
    <3>3. FrameAt(fd_array, j, loc.fds[j], loc.eof[j], "\n", r, c + 1)
      BY <1>4, <3>2, Zenon
    <3> QED  BY <3>3 DEF FrameAt
  <2>4. Merges(out', Passed(r + 1, 0))
    <3>1. c + 1 \in Nat
      BY <1>3
    <3>2. PICK blinks : blinks = out'
      OBVIOUS
    <3>3. Merges(blinks, Passed(r + 1, 0))
      BY <1>3, <1>8, <2>3, <3>1, <3>2, MergesRow
    <3> QED  BY <3>2, <3>3
  <2>5. FishLocals(loc')
    BY <1>3, <2>2, Zenon DEF FishLocals
  <2>6. ASSUME NEW j \in {1, 2}
        PROVE  /\ ~(j < loc'.k)
               /\ FrameAt(fd_array', j, loc'.fds[j], loc'.eof[j], "\n", loc'.row, loc'.col + 1)
    <3>1. ~(j < loc'.k)
      BY <2>2
    <3> QED  BY <1>1, <2>2, <2>3, <3>1, Zenon
  <2>7. loc'.k \in {1, 2} /\ Merges(out', Passed(loc'.row + 1, 0))
    BY <2>2, <2>4, Zenon
  <2>8. RowPlace(fd_array', loc', out')
    BY <2>5, <2>6, <2>7, Zenon DEF RowPlace
  <2> QED  BY <1>1, <2>1, <2>8 DEF MergeInv, At
<1>10. CASE loc.c # <<"\n", "\n">>
  <2>1. pc' = "read" /\ loc' = [loc EXCEPT !.col = @ + 1, !.k = 1]
    BY <1>10, Zenon DEF FishBlink, Goto
  <2>2. /\ loc'.k = 1 /\ loc'.c = loc.c /\ loc'.eof = loc.eof /\ loc'.fds = loc.fds
        /\ loc'.row = r /\ loc'.col = c + 1
    BY <1>2, <2>1, Zenon
  <2>3. FishLocals(loc')
    <3>1. c + 1 \in Nat
      BY <1>3
    <3> QED  BY <1>3, <2>2, <3>1, Zenon DEF FishLocals
  <2>4. ASSUME NEW j \in {1, 2}
        PROVE  /\ ~(j < loc'.k)
               /\ FrameAt(fd_array', j, loc'.fds[j], loc'.eof[j], loc'.c[j], loc'.row, loc'.col)
    <3>1. ~(j < loc'.k)
      BY <2>2
    <3> QED  BY <1>1, <1>4, <2>2, <3>1, Zenon
  <2>5. loc'.k \in 1 .. 3 /\ Merges(out', Passed(loc'.row, loc'.col))
    BY <1>8, <2>2
  <2>6. ReadPlace(fd_array', loc', out')
    BY <2>3, <2>4, <2>5, Zenon DEF ReadPlace
  <2> QED  BY <1>1, <2>1, <2>6 DEF MergeInv, At
<1> QED  BY <1>9, <1>10

\* FishRow sets a frame for the next row, and fish has merged all when both are over.
LEMMA FishRowMerges ==
  ASSUME FramesImage, CallInv, FishInv, MergeInv, FishRow
  PROVE  MergeInv'
<1> DEFINE k == loc.k
           f == loc.fds[k]
           r == loc.row
           next == [loc EXCEPT !.c[k] = NextChar(loc.eof[k]), !.k = @ + 1]
<1>1. At(<<"fish">>, "row") /\ prog' = prog /\ out' = out
  BY Zenon DEF FishRow, Goto, programVars, At
<1>2. RowPlace(fd_array, loc, out) /\ DOMAIN loc = {"rtc", "fds", "c", "eof", "row", "col", "k"}
  BY <1>1 DEF MergeInv, FishInv
<1>3. FishLocals(loc) /\ k \in {1, 2} /\ r \in Nat /\ Merges(out, Passed(r + 1, 0))
  BY <1>2 DEF RowPlace, FishLocals
<1>4. (\A g \in Fds \ {f} : fd_array'[g] = fd_array[g]) /\ (~loc.eof[k] => fd_array' = fd_array)
  <2>1. CASE loc.eof[k]
    <3>1. close(f)
      BY <2>1, Zenon DEF FishRow
    <3>2. fd_array' = fd_array \/ fd_array' = [fd_array EXCEPT ![f].flags = FALSE]
      BY <3>1 DEF close
    <3>3. DOMAIN fd_array = Fds
      BY DEF CallInv, FileInv, TypeOK
    <3> HIDE DEF f
    <3> QED  BY <2>1, <3>2, <3>3, Zenon
  <2>2. CASE ~loc.eof[k]
    BY <2>2, Zenon DEF FishRow, fileVars
  <2> QED  BY <2>1, <2>2
<1>5. FrameAt(fd_array', k, f, loc.eof[k], NextChar(loc.eof[k]), r + 1, 0)
  <2> DEFINE eof == loc.eof[k]
             c == loc.col + 1
  <2>1. FrameAt(fd_array, k, f, eof, "\n", r, c)
    BY <1>2, <1>3 DEF RowPlace
  <2>2. eof \in BOOLEAN
    BY <1>3 DEF FishLocals
  <2>3. ~eof => fd_array'[f] = fd_array[f]
    BY <1>4
  <2> HIDE DEF eof, c, f, k
  <2> QED  BY <1>3, <2>1, <2>2, <2>3, FrameNextRow DEF eof
<1>6. ASSUME NEW j \in {1, 2}, j # k
      PROVE  IF j < k THEN FrameAt(fd_array', j, loc.fds[j], loc.eof[j], loc.c[j], r + 1, 0)
             ELSE FrameAt(fd_array', j, loc.fds[j], loc.eof[j], "\n", r, loc.col + 1)
  <2>1. loc.fds[j] # f
    BY <1>3, <1>6 DEF FishLocals
  <2>2. ASSUME NEW eof, NEW ch, NEW row, NEW c, FrameAt(fd_array, j, loc.fds[j], eof, ch, row, c)
        PROVE  FrameAt(fd_array', j, loc.fds[j], eof, ch, row, c)
    <3>1. ~eof => fd_array'[loc.fds[j]] = fd_array[loc.fds[j]]
      BY <1>4, <2>1, <2>2 DEF FrameAt, FrameFile
    <3> QED  BY <2>2, <3>1, FrameStays
  <2>3. IF j < k THEN FrameAt(fd_array, j, loc.fds[j], loc.eof[j], loc.c[j], r + 1, 0)
        ELSE FrameAt(fd_array, j, loc.fds[j], loc.eof[j], "\n", r, loc.col + 1)
    BY <1>2 DEF RowPlace
  <2> QED  BY <2>2, <2>3, Zenon
<1>7. /\ DOMAIN next = DOMAIN loc /\ next.k = k + 1 /\ next.c = [loc.c EXCEPT ![k] = NextChar(loc.eof[k])]
      /\ next.eof = loc.eof /\ next.fds = loc.fds /\ next.row = r /\ next.col = loc.col
  BY <1>2, Zenon
<1>8. Two(next.c) /\ \A j \in {1, 2} : next.c[j] = IF j = k THEN NextChar(loc.eof[k]) ELSE loc.c[j]
  <2>1. DOMAIN loc.c = {1, 2}
    BY <1>3 DEF FishLocals, Two
  <2> HIDE DEF k, next
  <2> QED  BY <1>3, <1>7, <2>1 DEF Two
<1>9. \/ k = 1 /\ pc' = "row" /\ loc' = next
      \/ k # 1 /\ loc.eof = <<TRUE, TRUE>> /\ pc' = "clock"
      \/ k # 1 /\ pc' = "read" /\ loc' = [next EXCEPT !.row = @ + 1, !.col = 0, !.k = 1]
  BY Zenon DEF FishRow, Goto
<1> HIDE DEF next, f
<1>10. CASE k = 1 /\ pc' = "row" /\ loc' = next
  <2>1. FishLocals(loc')
    BY <1>3, <1>7, <1>8, <1>10 DEF FishLocals
  <2>2. loc'.k = 2 /\ Merges(out', Passed(loc'.row + 1, 0))
    BY <1>1, <1>3, <1>7, <1>10
  <2>3. FrameAt(fd_array', 1, loc'.fds[1], loc'.eof[1], loc'.c[1], loc'.row + 1, 0)
    BY <1>5, <1>7, <1>8, <1>10 DEF f
  <2>4. FrameAt(fd_array', 2, loc'.fds[2], loc'.eof[2], "\n", loc'.row, loc'.col + 1)
    BY <1>6, <1>7, <1>10
  <2>5. RowPlace(fd_array', loc', out')
    BY <2>1, <2>2, <2>3, <2>4 DEF RowPlace
  <2> QED  BY <1>1, <1>10, <2>5 DEF MergeInv, At
<1>11. ASSUME k # 1, NEW j \in {1, 2}
       PROVE  FrameAt(fd_array', j, loc.fds[j], loc.eof[j], next.c[j], r + 1, 0)
  <2>1. CASE j = k
    BY <1>5, <1>8, <2>1, Zenon DEF f
  <2>2. CASE j # k
    <3>1. j < k
      BY <1>3, <1>11, <2>2
    <3> QED  BY <1>6, <1>8, <2>2, <3>1, Zenon
  <2> QED  BY <2>1, <2>2
<1>12. CASE k # 1 /\ loc.eof = <<TRUE, TRUE>> /\ pc' = "clock"
  <2>1. r + 1 \in Nat /\ 0 \in Nat
    BY <1>3
  <2>2. ASSUME NEW j \in {1, 2}
        PROVE  Blank(FrameText(j), r + 1, 0) /\ RowOf(FrameText(j), Len(FrameText(j)) + 1) <= r + 1
    <3>1. loc.eof[1] = TRUE /\ loc.eof[2] = TRUE
      BY <1>12, PairIsTwo
    <3>2. FrameAt(fd_array', j, loc.fds[j], TRUE, next.c[j], r + 1, 0)
      <4>1. loc.eof[j] = TRUE
        BY <3>1
      <4> QED  BY <1>11, <1>12, <4>1, Zenon
    <3> QED  BY <3>2 DEF FrameAt
  <2>3. Merges(out, Passed((r + 1) + 1, 0))
    BY <1>3, <2>1, <2>2, MergesRow
  <2>4. Merges(out, Nat \X Nat)
    BY <2>1, <2>2, <2>3, MergesAll
  <2> QED  BY <1>1, <1>12, <2>4 DEF MergeInv, At
<1>13. CASE k # 1 /\ pc' = "read" /\ loc' = [next EXCEPT !.row = @ + 1, !.col = 0, !.k = 1]
  <2>1. /\ loc'.k = 1 /\ loc'.c = next.c /\ loc'.eof = loc.eof /\ loc'.fds = loc.fds
        /\ loc'.row = r + 1 /\ loc'.col = 0
    BY <1>2, <1>7, <1>13, Zenon
  <2>2. FishLocals(loc')
    BY <1>3, <1>8, <2>1 DEF FishLocals
  <2>3. ASSUME NEW j \in {1, 2}
        PROVE  /\ ~(j < loc'.k)
               /\ FrameAt(fd_array', j, loc'.fds[j], loc'.eof[j], loc'.c[j], loc'.row, loc'.col)
    <3>1. ~(j < loc'.k)
      BY <2>1
    <3> QED  BY <1>11, <1>13, <2>1, <3>1, Zenon
  <2>4. loc'.k \in 1 .. 3 /\ Merges(out', Passed(loc'.row, loc'.col))
    BY <1>1, <1>3, <2>1
  <2>5. ReadPlace(fd_array', loc', out')
    BY <2>2, <2>3, <2>4, Zenon DEF ReadPlace
  <2> QED  BY <1>1, <1>13, <2>5 DEF MergeInv, At
<1> QED  BY <1>9, <1>10, <1>12, <1>13

LEMMA MergeKept ==
  ASSUME FramesImage, CallInv, FishInv, MergeInv, [ProgramsNext]_vars
  PROVE  MergeInv'
<1>1. CASE prog' # <<"fish">>
  BY <1>1 DEF MergeInv, At
<1>2. CASE ProgramNext /\ ~Halt /\ ~HaltLost /\ prog' = <<"fish">>
  <2>1. prog = <<"fish">>
    BY <1>2, ProgramGoesOn DEF GoesOn
  <2>2. FishOpenRtc \/ FishOpen \/ FishRead \/ FishBlink \/ FishRow \/ FishClock
    BY <1>2, <2>1, StepOfProgram
  <2>3. CASE FishOpenRtc
    <3>1. pc' = "open" /\ loc' = [rtc |-> OpenRet(<<"rtc">>), fds |-> <<>>] /\ out' = <<>>
      BY <2>3, Zenon DEF FishOpenRtc, Goto, MergeInv, At
    <3>2. 1 .. Len(loc'.fds) = {}
      BY <3>1
    <3> QED  BY <3>1, <3>2 DEF MergeInv, At
  <2>4. CASE FishClock
    <3>1. At(<<"fish">>, "clock") /\ out' = out /\ pc' \in {"clock", "exit"}
      BY <2>4, Zenon DEF FishClock, Goto, Exit
    <3> QED  BY <3>1 DEF MergeInv, At
  <2> QED  BY <2>2, <2>3, <2>4, FishOpenMerges, FishReadMerges, FishBlinkMerges, FishRowMerges
<1>3. CASE Halt \/ ShellRead
  <2>1. prog' = ShellName
    BY <1>3 DEF Halt, ShellRead, BackToShell
  <2> QED  BY <1>1, <2>1 DEF ShellName
<1>4. CASE HaltLost
  BY <1>4 DEF HaltLost, MergeInv, At
<1>5. CASE Execute
  <2>1. pc' = "prompt" \/ (pc' = "start" /\ out' = <<>>)
    BY <1>5 DEF Execute, BackToShell
  <2> QED  BY <2>1 DEF MergeInv, At
<1>6. CASE ClientCall \/ ClientExit
  <2>1. prog' = <<"client">>
    BY <1>6 DEF ClientCall, ClientExit, At, Fault, Exit, programVars, shellVars
  <2> QED  BY <1>1, <2>1
<1>7. CASE UNCHANGED vars
  <2>1. UNCHANGED <<prog, pc, loc, out, fd_array>>
    BY <1>7 DEF vars, fileVars, shellVars
  <2> QED  BY <2>1, Zenon DEF MergeInv, At
<1> QED  BY <1>1, <1>2, <1>3, <1>4, <1>5, <1>6, <1>7 DEF ProgramsNext

\* Over an image that has both frames as files with sound blocks, fish has laid
\* the one over the other at every place where either has a character, and at
\* no other, when it begins to wait for the clock.
THEOREM FishMergesFrames == FramesImage => (ProgramsSpec => []FramesMerged)
<1> SUFFICES ASSUME FramesImage PROVE ProgramsSpec => []FramesMerged
  OBVIOUS
<1>1. Init => PlaceInv /\ MergeInv
  BY DEF Init, ShellInit, PlaceInv, FishInv, SyserrPlace, MergeInv, At, ShellName
<1>2. CallInv /\ PlaceInv /\ MergeInv /\ [ProgramsNext]_vars => (PlaceInv /\ MergeInv)'
  BY PlaceKept, MergeKept DEF PlaceInv
<1>3. MergeInv => FramesMerged
  BY MergedFrames DEF MergeInv, FramesMerged
<1> QED  BY <1>1, <1>2, <1>3, AlwaysCallInv, PTL DEF ProgramsSpec

-----------------------------------------------------------------------------
(* Sequences one after the other                                           *)

LEMMA IsItsElements ==
  ASSUME NEW S, NEW s \in Seq(S), NEW n, Len(s) = n
  PROVE  s = [i \in 1 .. n |-> s[i]]
OBVIOUS

Then(x, y) == x \o y

LEMMA ThenThen ==
  ASSUME NEW S, NEW x \in Seq(S), NEW y \in Seq(S), NEW z \in Seq(S)
  PROVE  Then(Then(x, y), z) = Then(x, Then(y, z))
BY DEF Then

LEMMA FlattenConcat ==
  ASSUME NEW S, NEW s \in Seq(Seq(S)), NEW t \in Seq(Seq(S))
  PROVE  /\ FlattenSeq(s) \in Seq(S) /\ FlattenSeq(t) \in Seq(S)
         /\ FlattenSeq(s \o t) = FlattenSeq(s) \o FlattenSeq(t)
<1> DEFINE n == Len(s)
           m == Len(t)
           w == s \o t
<1>1. /\ n \in Nat /\ m \in Nat /\ w \in Seq(Seq(S)) /\ Len(w) = n + m
      /\ \A i \in 1 .. n : w[i] = s[i]
      /\ \A i \in 1 .. m : w[n + i] = t[i]
  <2>1. w \in Seq(Seq(S)) /\ Len(w) = Len(s) + Len(t)
        /\ \A i \in 1 .. Len(s) + Len(t) : w[i] = IF i <= Len(s) THEN s[i] ELSE t[i - Len(s)]
    BY ConcatProperties
  <2>2. n \in Nat /\ m \in Nat
    BY LenProperties
  <2> HIDE DEF w, n, m
  <2>3. ASSUME NEW i \in 1 .. n PROVE w[i] = s[i]
    BY <2>1, <2>2 DEF n, m
  <2>4. ASSUME NEW i \in 1 .. m PROVE w[n + i] = t[i]
    <3>1. n + i \in 1 .. n + m /\ ~(n + i <= n) /\ (n + i) - n = i
      BY <2>2
    <3> QED  BY <2>1, <3>1 DEF n, m
  <2> QED  BY <2>1, <2>2, <2>3, <2>4 DEF n, m
<1> HIDE DEF w
<1>2. PICK f \in [0 .. n -> Seq(S)] : Joined(f, s) /\ FlattenSeq(s) = f[n]
  BY Flattened
<1>3. PICK h \in [0 .. m -> Seq(S)] : Joined(h, t) /\ FlattenSeq(t) = h[m]
  BY Flattened
<1>4. PICK g \in [0 .. n + m -> Seq(S)] : Joined(g, w) /\ FlattenSeq(w) = g[n + m]
  <2>1. \E g \in [0 .. Len(w) -> Seq(S)] : Joined(g, w) /\ FlattenSeq(w) = g[Len(w)]
    BY <1>1, Flattened
  <2> HIDE DEF n, m
  <2> QED  BY <1>1, <2>1
<1>5. n \in 0 .. n /\ m \in 0 .. m
  BY <1>1
<1> HIDE DEF n, m
<1>6. f[n] \in Seq(S) /\ h[m] \in Seq(S)
  BY <1>5
<1>7. g[n] = f[n]
  <2> DEFINE R == {i \in 0 .. n : g[i] = f[i]}
  <2>1. 0 \in R
    BY <1>1, <1>2, <1>4 DEF Joined
  <2>2. ASSUME NEW i \in 1 .. n, i - 1 \in R PROVE i \in R
    <3>1. i \in 1 .. n + m /\ i \in 0 .. n
      BY <1>1
    <3>2. f[i] = f[i - 1] \o s[i]
      BY <1>2 DEF Joined, n
    <3>3. g[i] = g[i - 1] \o w[i]
      BY <1>1, <1>4, <3>1 DEF Joined
    <3> QED  BY <1>1, <2>2, <3>1, <3>2, <3>3
  <2>3. n \in R
    <3> HIDE DEF R
    <3> QED  BY <1>1, <1>5, <2>1, <2>2, BoundedInduction
  <2> QED  BY <2>3
<1>8. g[n + m] = f[n] \o h[m]
  <2> DEFINE R == {i \in 0 .. m : g[n + i] = f[n] \o h[i]}
  <2>1. 0 \in R
    <3>1. h[0] = <<>> /\ n + 0 = n
      BY <1>1, <1>3 DEF Joined
    <3>2. f[n] \o <<>> = f[n]
      BY <1>6, ConcatEmptySeq
    <3> QED  BY <1>1, <1>7, <3>1, <3>2
  <2>2. ASSUME NEW i \in 1 .. m, i - 1 \in R PROVE i \in R
    <3>1. n + i \in 1 .. n + m /\ i \in 0 .. m /\ i - 1 \in 0 .. m /\ (n + i) - 1 = n + (i - 1)
      BY <1>1
    <3>2. h[i] = h[i - 1] \o t[i]
      BY <1>3 DEF Joined, m
    <3>3. g[n + i] = g[(n + i) - 1] \o w[n + i]
      BY <1>1, <1>4, <3>1 DEF Joined
    <3>4. g[n + (i - 1)] = f[n] \o h[i - 1]
      BY <2>2
    <3>5. w[n + i] = t[i] /\ t[i] \in Seq(S)
      <4>1. i \in 1 .. Len(t)
        BY DEF m
      <4> QED  BY <1>1, <4>1, ElementOfSeq
    <3>6. h[i - 1] \in Seq(S)
      BY <3>1
    <3>7. (f[n] \o h[i - 1]) \o t[i] = f[n] \o (h[i - 1] \o t[i])
      <4>1. PICK x \in Seq(S), y \in Seq(S), z \in Seq(S) : x = f[n] /\ y = h[i - 1] /\ z = t[i]
        BY <1>6, <3>5, <3>6, Zenon
      <4>2. Then(Then(x, y), z) = Then(x, Then(y, z))
        BY ThenThen
      <4> QED  BY <4>1, <4>2, Zenon DEF Then
    <3>8. g[n + i] = f[n] \o h[i]
      BY <3>1, <3>2, <3>3, <3>4, <3>5, <3>7
    <3> QED  BY <3>1, <3>8
  <2>3. m \in R
    <3> HIDE DEF R
    <3> QED  BY <1>1, <1>5, <2>1, <2>2, BoundedInduction
  <2> QED  BY <2>3
<1> QED  BY <1>2, <1>3, <1>4, <1>6, <1>8 DEF w

LEMMA FlattenSingles ==
  ASSUME NEW S, NEW s \in Seq(S)
  PROVE  FlattenSeq([i \in 1 .. Len(s) |-> <<s[i]>>]) = s
<1> DEFINE n == Len(s)
           t == [i \in 1 .. n |-> <<s[i]>>]
<1>1. n \in Nat /\ \A i \in 1 .. n : s[i] \in S
  BY LenProperties, ElementOfSeq
<1>2. t \in Seq(Seq(S)) /\ Len(t) = n /\ \A i \in 1 .. n : t[i] = <<s[i]>>
  <2>1. \A i \in 1 .. n : <<s[i]>> \in Seq(S)
    BY <1>1
  <2> HIDE DEF n
  <2> QED  BY <1>1, <2>1
<1> HIDE DEF t
<1>3. PICK f \in [0 .. n -> Seq(S)] : Joined(f, t) /\ FlattenSeq(t) = f[n]
  BY <1>2, Flattened
<1> DEFINE R == {i \in 0 .. n : Len(f[i]) = i /\ \A j \in 1 .. i : f[i][j] = s[j]}
<1>4. 0 \in R
  BY <1>1, <1>3 DEF Joined
<1>5. ASSUME NEW i \in 1 .. n, i - 1 \in R PROVE i \in R
  <2>1. i \in 0 .. n /\ i - 1 \in 0 .. n /\ i \in Nat
    BY <1>1
  <2>2. f[i] = f[i - 1] \o <<s[i]>>
    BY <1>2, <1>3 DEF Joined
  <2> DEFINE p == f[i - 1]
             x == s[i]
  <2>3. p \in Seq(S) /\ x \in S /\ Len(p) = i - 1 /\ \A j \in 1 .. i - 1 : p[j] = s[j]
    BY <1>1, <1>5, <2>1
  <2> HIDE DEF p, x
  <2>4. /\ Len(p \o <<x>>) = i
        /\ \A j \in 1 .. i : (p \o <<x>>)[j] = IF j <= i - 1 THEN p[j] ELSE x
    BY <2>1, <2>3
  <2>5. \A j \in 1 .. i : (p \o <<x>>)[j] = s[j]
    BY <2>1, <2>3, <2>4 DEF x
  <2> QED  BY <2>1, <2>2, <2>4, <2>5 DEF p, x
<1>6. n \in R
  <2>1. n \in 0 .. n
    BY <1>1
  <2> HIDE DEF R, n
  <2> QED  BY <1>1, <1>4, <1>5, <2>1, BoundedInduction
<1>7. f[n] = s
  <2>1. f[n] \in Seq(S) /\ Len(f[n]) = Len(s) /\ \A j \in 1 .. Len(s) : f[n][j] = s[j]
    <3>1. n \in 0 .. n
      BY <1>1
    <3> QED  BY <1>6, <3>1
  <2> QED  BY <2>1, SeqEqual
<1> QED  BY <1>3, <1>7 DEF t

LEMMA FlattenNothing ==
  ASSUME NEW n \in Nat
  PROVE  FlattenSeq([i \in 1 .. n |-> <<>>]) = <<>>
<1> DEFINE t == [i \in 1 .. n |-> <<>>]
           s == <<>>
           S == {}
<1>1. s \in Seq(Seq(S)) /\ Len(s) = 0
  OBVIOUS
<1>2. t \in Seq(Seq(S)) /\ Len(t) = n /\ \A i \in 1 .. n : t[i] = <<>>
  <2>1. <<>> \in Seq(S)
    OBVIOUS
  <2> HIDE DEF S
  <2> QED  BY <2>1
<1> HIDE DEF S, s, t
<1>3. \A i \in 1 .. Len(t) : t[i] = IF i <= Len(s) THEN s[i] ELSE <<>>
  BY <1>1, <1>2
<1>4. FlattenSeq(t) = FlattenSeq(s)
  <2>1. Len(s) <= Len(t)
    BY <1>1, <1>2
  <2> QED  BY <1>1, <1>2, <1>3, <2>1, FlattenPadded
<1>5. FlattenSeq(s) = <<>>
  BY DEF FlattenSeq, s
<1> QED  BY <1>4, <1>5 DEF t

\* Lines found in a file as grep writes them
HitsOf(fname, found) == [i \in DOMAIN found |-> <<fname, found[i]>>]

\* What a search of file fname adds to hits
Adds(more, hits, fname, found) ==
    /\ more = hits \o HitsOf(fname, found)
    /\ \E H : hits \in Seq(H)
    /\ \E V : found \in Seq(V)

Added(name, more, hits, fname, found) ==
    HitsIn(name, more) = IF name = fname THEN Then(HitsIn(name, hits), found) ELSE HitsIn(name, hits)

LEMMA HitsAdded ==
  ASSUME NEW hits, NEW found, NEW fname, NEW name, NEW more, Adds(more, hits, fname, found)
  PROVE  (\E K : more \in Seq(K)) /\ Added(name, more, hits, fname, found)
<1>a. PICK H : hits \in Seq(H)
  BY DEF Adds
<1>b. PICK V : found \in Seq(V)
  BY DEF Adds
<1> DEFINE new == [i \in DOMAIN found |-> <<fname, found[i]>>]
           all == hits \o new
           n == Len(hits)
           m == Len(found)
           S == {hits[i][2] : i \in 1 .. n} \cup V
           Pick(x) == IF x[1] = name THEN <<x[2]>> ELSE <<>>
           s == [i \in 1 .. n |-> Pick(hits[i])]
           t == [i \in 1 .. m |-> Pick(<<fname, found[i]>>)]
           u == [i \in 1 .. n + m |-> Pick(all[i])]
<1>1. n \in Nat /\ m \in Nat /\ DOMAIN hits = 1 .. n /\ DOMAIN found = 1 .. m /\ \A i \in 1 .. m : found[i] \in V
  BY <1>a, <1>b, LenProperties, ElementOfSeq
<1>2. new \in Seq({<<fname, v>> : v \in V}) /\ Len(new) = m /\ \A i \in 1 .. m : new[i] = <<fname, found[i]>>
  <2> HIDE DEF n, m
  <2> QED  BY <1>1
<1> HIDE DEF new
<1>3. /\ all \in Seq(H \cup {<<fname, v>> : v \in V}) /\ Len(all) = n + m /\ DOMAIN all = 1 .. n + m
      /\ \A i \in 1 .. n + m : all[i] = IF i <= n THEN hits[i] ELSE new[i - n]
  <2> DEFINE U == H \cup {<<fname, v>> : v \in V}
  <2>1. hits \in Seq(U) /\ new \in Seq(U)
    BY <1>2, <1>a
  <2> HIDE DEF U
  <2>2. /\ all \in Seq(U) /\ Len(all) = Len(hits) + Len(new)
        /\ \A i \in 1 .. Len(hits) + Len(new) : all[i] = IF i <= Len(hits) THEN hits[i] ELSE new[i - Len(hits)]
    BY <2>1, ConcatProperties
  <2>3. DOMAIN all = 1 .. Len(all)
    BY <2>2, LenProperties
  <2> QED  BY <1>2, <2>2, <2>3 DEF U
<1> HIDE DEF all
<1>4. s \in Seq(Seq(S)) /\ Len(s) = n /\ \A i \in 1 .. n : s[i] = Pick(hits[i])
  <2>1. ASSUME NEW i \in 1 .. n PROVE Pick(hits[i]) \in Seq(S)
    <3>1. hits[i][2] \in S
      OBVIOUS
    <3> HIDE DEF S
    <3>2. <<hits[i][2]>> \in Seq(S) /\ <<>> \in Seq(S)
      BY <3>1
    <3> QED  BY <3>2
  <2> HIDE DEF S, Pick, n
  <2> QED  BY <1>1, <2>1
<1>5. t \in Seq(Seq(S)) /\ Len(t) = m /\ \A i \in 1 .. m : t[i] = Pick(<<fname, found[i]>>)
  <2>1. ASSUME NEW i \in 1 .. m PROVE Pick(<<fname, found[i]>>) \in Seq(S)
    <3>1. found[i] \in S
      BY <1>1
    <3> HIDE DEF S
    <3>2. <<found[i]>> \in Seq(S) /\ <<>> \in Seq(S)
      BY <3>1
    <3>3. Pick(<<fname, found[i]>>) = IF fname = name THEN <<found[i]>> ELSE <<>>
      OBVIOUS
    <3> HIDE DEF Pick
    <3> QED  BY <3>2, <3>3
  <2> HIDE DEF S, Pick, m
  <2> QED  BY <1>1, <2>1
<1>6. u = s \o t
  <2>1. /\ s \o t \in Seq(Seq(S)) /\ Len(s \o t) = n + m
        /\ \A i \in 1 .. n + m : (s \o t)[i] = IF i <= n THEN s[i] ELSE t[i - n]
    <3> HIDE DEF S, s, t, n, m, Pick
    <3>1. /\ s \o t \in Seq(Seq(S)) /\ Len(s \o t) = Len(s) + Len(t)
          /\ \A i \in 1 .. Len(s) + Len(t) : (s \o t)[i] = IF i <= Len(s) THEN s[i] ELSE t[i - Len(s)]
      BY <1>4, <1>5, ConcatProperties
    <3> QED  BY <1>4, <1>5, <3>1
  <2>2. s \o t = [i \in 1 .. n + m |-> (s \o t)[i]]
    <3> DEFINE w == s \o t
               k == n + m
               W == Seq(S)
    <3>1. w \in Seq(W) /\ Len(w) = k
      BY <2>1
    <3> HIDE DEF w, k, W
    <3>2. w = [i \in 1 .. k |-> w[i]]
      BY <3>1, IsItsElements
    <3> QED  BY <3>2 DEF w, k
  <2>3. ASSUME NEW i \in 1 .. n + m PROVE (s \o t)[i] = Pick(all[i])
    <3>1. CASE i <= n
      <4>1. i \in 1 .. n
        BY <1>1, <3>1
      <4> HIDE DEF Pick, s, t, n, m
      <4> QED  BY <1>3, <1>4, <2>1, <3>1, <4>1
    <3>2. CASE ~(i <= n)
      <4>1. i - n \in 1 .. m
        BY <1>1, <3>2
      <4>2. all[i] = <<fname, found[i - n]>>
        BY <1>2, <1>3, <3>2, <4>1
      <4> HIDE DEF Pick, s, t, n, m
      <4> QED  BY <1>5, <2>1, <3>2, <4>1, <4>2
    <3> QED  BY <3>1, <3>2
  <2> HIDE DEF Pick, s, t, n, m
  <2> QED  BY <2>2, <2>3
<1>7. FlattenSeq(u) = FlattenSeq(s) \o FlattenSeq(t) /\ FlattenSeq(s) \in Seq(S)
  <2> HIDE DEF s, t, u, S
  <2> QED  BY <1>4, <1>5, <1>6, FlattenConcat
<1>8. FlattenSeq(t) = IF name = fname THEN found ELSE <<>>
  <2>1. CASE name = fname
    <3>1. t = [i \in 1 .. m |-> <<found[i]>>]
      BY <2>1
    <3> HIDE DEF t
    <3> QED  BY <1>b, <2>1, <3>1, FlattenSingles
  <2>2. CASE name # fname
    <3>1. t = [i \in 1 .. m |-> <<>>]
      BY <2>2
    <3> HIDE DEF t
    <3> QED  BY <1>1, <2>2, <3>1, FlattenNothing
  <2> QED  BY <2>1, <2>2
<1>9. HitsIn(name, hits) = FlattenSeq(s)
  BY <1>1 DEF HitsIn
<1>10. HitsIn(name, all) = FlattenSeq(u)
  <2> HIDE DEF n, m
  <2> QED  BY <1>3 DEF HitsIn
<1>11. FlattenSeq(s) \o <<>> = FlattenSeq(s)
  <2> HIDE DEF s, S
  <2> QED  BY <1>7, ConcatEmptySeq
<1> HIDE DEF s, t, u, n, m, S
<1>12. HitsIn(name, all) = IF name = fname THEN HitsIn(name, hits) \o found ELSE HitsIn(name, hits)
  BY <1>7, <1>8, <1>9, <1>10, <1>11
<1>13. more = all
  BY DEF all, new, HitsOf, Adds
<1> QED  BY <1>3, <1>12, <1>13 DEF Then, Added

-----------------------------------------------------------------------------
(* Lines of a text in a buffer, and what a search finds of them            *)

\* A line that ends before the text does is followed by another.
LEMMA NextLine ==
  ASSUME NEW s, Len(s) \in Nat, NEW b, NEW e, NEW r, LineIn(s, b, e, r), e < Len(s)
  PROVE  LineFrom(s, e + 2, r + 1)
<1>1. b \in 1 .. Len(s) + 1 /\ e \in b - 1 .. Len(s) /\ RowOf(s, b) = r /\ s[e + 1] = "\n"
  BY DEF LineIn, LineFrom
<1>2. Newlines(s, e + 1) = Newlines(s, b)
  BY <1>1 DEF Newlines, LineIn
<1>3. RowOf(s, e + 1) = r
  BY <1>1, <1>2 DEF RowOf, Newlines
<1>4. e + 1 \in Nat \ {0} /\ (e + 1) + 1 = e + 2 /\ (e + 2) - 1 = e + 1 /\ e + 2 \in 1 .. Len(s) + 1
  BY <1>1
<1>5. RowOf(s, e + 2) = r + 1
  BY <1>1, <1>3, <1>4, RowOfStep
<1> QED  BY <1>1, <1>4, <1>5 DEF LineFrom

\* The text's characters behind off are in the buffer; cnt of them were read
\* last.
Buffered(s, off, data, last, cnt) ==
    /\ off \in Nat /\ last \in Nat /\ cnt \in Nat /\ off + last <= Len(s)
    /\ \A j \in 0 .. last - 1 : data[j] = s[off + j + 1]
    /\ data[last] # "\n"
    /\ cnt = 0 => off + last = Len(s)
    /\ off + last < Len(s) => last = BufSize

RowsFit(s) == \A k \in DOMAIN Rows(s) : Len(Rows(s)[k]) <= BufSize

LEMMA RowInBuffer ==
  ASSUME NEW S, NEW s \in Seq(S), NEW off, NEW data, NEW last, NEW cnt, Buffered(s, off, data, last, cnt),
         NEW start \in 0 .. last, NEW end \in start .. last, NEW r, LineIn(s, off + start + 1, off + end, r)
  PROVE  Row(s, r) = [i \in 1 .. end - start |-> data[start + i - 1]] /\ r \in Nat
<1> DEFINE b == off + start + 1
           e == off + end
           line == [i \in 1 .. end - start |-> data[start + i - 1]]
<1>1. off \in Nat /\ last \in Nat /\ off + last <= Len(s) /\ Len(s) \in Nat
  BY LenProperties DEF Buffered
<1>2. b \in Int /\ e \in Int
  BY <1>1
<1> HIDE DEF b, e
<1>3. LineIn(s, b, e, r)
  BY DEF b, e
<1>4. PlacesOf(s, r) = b .. e /\ r \in Nat
  BY <1>1, <1>3, PlacesOfLine
<1>5. Row(s, r) = IF b > e THEN <<>> ELSE SubSeq(s, b, e)
  BY <1>2, <1>4, RowOfPlaces
<1>6. CASE end = start
  <2>1. b > e
    BY <1>1, <1>6 DEF b, e
  <2>2. line = <<>>
    BY <1>1, <1>6
  <2> QED  BY <1>4, <1>5, <2>1, <2>2
<1>7. CASE end # start
  <2>1. ~(b > e) /\ 1 <= b /\ b <= e /\ e <= Len(s) /\ e - b + 1 = end - start
    BY <1>1, <1>7 DEF b, e
  <2> DEFINE w == SubSeq(s, b, e)
  <2>2. w \in Seq(S) /\ Len(w) = end - start /\ \A i \in 1 .. end - start : w[i] = s[b + i - 1]
    BY <1>1, <1>2, <2>1, SubSeqProperties
  <2>3. Row(s, r) = w
    BY <1>5, <2>1
  <2> HIDE DEF w
  <2>4. ASSUME NEW i \in 1 .. end - start PROVE w[i] = data[start + i - 1]
    <3>1. start + i - 1 \in 0 .. last - 1 /\ off + (start + i - 1) + 1 = b + i - 1
      BY <1>1 DEF b
    <3>2. data[start + i - 1] = s[off + (start + i - 1) + 1]
      BY <3>1 DEF Buffered
    <3> QED  BY <2>2, <3>1, <3>2
  <2>5. w = [i \in 1 .. end - start |-> w[i]]
    BY <2>2, IsItsElements
  <2> QED  BY <1>4, <2>3, <2>4, <2>5
<1> QED  BY <1>6, <1>7

\* The lines with the pattern of the first r
Selected(s, pattern, r) == WithPattern([k \in 1 .. r |-> Row(s, k - 1)], pattern)
IfMatches(line, pattern) == IF Matches(line, pattern) THEN <<line>> ELSE <<>>

LEMMA SelectedNext ==
  ASSUME NEW s, NEW pattern, NEW r \in Nat
  PROVE  /\ Selected(s, pattern, 0) = <<>>
         /\ Selected(s, pattern, r) \in Seq({Row(s, k) : k \in Nat})
         /\ Selected(s, pattern, r + 1) = Selected(s, pattern, r) \o IfMatches(Row(s, r), pattern)
<1> DEFINE S == {Row(s, k) : k \in Nat}
           Pick(k) == IfMatches(Row(s, k), pattern)
           t == [k \in 1 .. r |-> Pick(k - 1)]
           u == [k \in 1 .. r + 1 |-> Pick(k - 1)]
           x == Pick(r)
<1>1. ASSUME NEW k \in Nat PROVE Pick(k) \in Seq(S)
  <2>1. Row(s, k) \in S
    OBVIOUS
  <2> HIDE DEF S
  <2>2. <<Row(s, k)>> \in Seq(S) /\ <<>> \in Seq(S)
    BY <2>1
  <2> QED  BY <2>2 DEF IfMatches
<1> HIDE DEF S, Pick
<1>2. t \in Seq(Seq(S)) /\ Len(t) = r /\ u \in Seq(Seq(S)) /\ Len(u) = r + 1 /\ x \in Seq(S)
  BY <1>1
<1>3. u = Append(t, x)
  <2> DEFINE W == Seq(S)
             v == Append(t, x)
  <2>1. t \in Seq(W) /\ x \in W
    BY <1>2
  <2> HIDE DEF W
  <2>2. /\ v \in Seq(W) /\ Len(v) = Len(t) + 1
        /\ \A i \in 1 .. Len(t) : v[i] = t[i]
        /\ v[Len(t) + 1] = x
    BY <2>1, AppendProperties
  <2>3. Len(v) = r + 1 /\ \A i \in 1 .. r : v[i] = Pick(i - 1)
    BY <1>2, <2>2
  <2>4. v[r + 1] = Pick((r + 1) - 1)
    BY <1>2, <2>2
  <2> HIDE DEF v
  <2>5. v = [i \in 1 .. r + 1 |-> v[i]]
    BY <2>2, <2>3, IsItsElements
  <2>6. ASSUME NEW i \in 1 .. r + 1 PROVE v[i] = Pick(i - 1)
    <3>1. i = r + 1 \/ i \in 1 .. r
      OBVIOUS
    <3> QED  BY <2>3, <2>4, <3>1
  <2> QED  BY <2>5, <2>6 DEF v
<1> HIDE DEF x
<1>4. Selected(s, pattern, r) = FlattenSeq(t)
  BY DEF Selected, WithPattern, IfMatches, Pick
<1>5. Selected(s, pattern, r + 1) = FlattenSeq(u)
  BY DEF Selected, WithPattern, IfMatches, Pick
<1>6. Selected(s, pattern, 0) = <<>>
  <2>1. [k \in 1 .. 0 |-> Row(s, k - 1)] = <<>>
    OBVIOUS
  <2>2. WithPattern(<<>>, pattern) = <<>>
    BY DEF WithPattern, FlattenSeq
  <2> QED  BY <2>1, <2>2 DEF Selected
<1> HIDE DEF t, u
<1>7. FlattenSeq(t) \in Seq(S) /\ FlattenSeq(Append(t, x)) = FlattenSeq(t) \o x
  BY <1>2, FlattenAppend
<1> QED  BY <1>3, <1>4, <1>5, <1>6, <1>7 DEF S, x, Pick

-----------------------------------------------------------------------------
\* A line in the buffer ends at a newline, or with the text or the buffer.
LEMMA LineToNewline ==
  ASSUME NEW S, NEW s \in Seq(S), NEW off, NEW data, NEW last, NEW cnt, Buffered(s, off, data, last, cnt),
         NEW start \in 0 .. last, NEW r, LineFrom(s, off + start + 1, r),
         NEW end \in start .. last - 1, data[end] = "\n", \A i \in start .. end - 1 : data[i] # "\n"
  PROVE  LineIn(s, off + start + 1, off + end, r)
<1>1. off \in Nat /\ last \in Nat /\ off + last <= Len(s) /\ Len(s) \in Nat
  BY LenProperties DEF Buffered
<1>2. \A j \in 0 .. last - 1 : data[j] = s[off + j + 1]
  BY DEF Buffered
<1>3. ASSUME NEW j \in off + start + 1 .. off + end PROVE s[j] # "\n"
  <2>1. j - off - 1 \in start .. end - 1 /\ j - off - 1 \in 0 .. last - 1 /\ off + (j - off - 1) + 1 = j
    BY <1>1
  <2> QED  BY <1>2, <2>1
<1>4. s[off + end + 1] = "\n"
  BY <1>2
<1>5. off + end \in (off + start + 1) - 1 .. Len(s)
  BY <1>1
<1> QED  BY <1>3, <1>4, <1>5 DEF LineIn

LEMMA LineToEnd ==
  ASSUME NEW S, NEW s \in Seq(S), NEW off, NEW data, NEW last, NEW cnt, Buffered(s, off, data, last, cnt),
         NEW start \in 0 .. last, NEW r \in Nat, LineFrom(s, off + start + 1, r), RowsFit(s),
         cnt = 0 \/ start = 0, \A i \in start .. last - 1 : data[i] # "\n"
  PROVE  LineIn(s, off + start + 1, off + last, r)
<1> DEFINE b == off + start + 1
           p == off + last
<1>1. off \in Nat /\ last \in Nat /\ off + last <= Len(s) /\ Len(s) \in Nat
  BY LenProperties DEF Buffered
<1>2. ASSUME NEW j \in b .. p PROVE s[j] # "\n"
  <2>1. j - off - 1 \in start .. last - 1 /\ j - off - 1 \in 0 .. last - 1 /\ off + (j - off - 1) + 1 = j
    BY <1>1
  <2>2. \A i \in 0 .. last - 1 : data[i] = s[off + i + 1]
    BY DEF Buffered
  <2> QED  BY <2>1, <2>2
<1>3. p \in b - 1 .. Len(s) /\ b \in Int
  BY <1>1
<1>4. PICK e \in p .. Len(s) : LineIn(s, b, e, r)
  <2> HIDE DEF b, p
  <2>1. LineFrom(s, b, r)
    BY DEF b
  <2> QED  BY <1>1, <1>2, <1>3, <2>1, LineEnds
<1>5. e = p
  <2>1. CASE off + last = Len(s)
    BY <1>1, <2>1
  <2>2. CASE off + last # Len(s)
    <3>1. start = 0 /\ last = BufSize
      BY <1>1, <2>2 DEF Buffered
    <3>2. PlacesOf(s, r) = b .. e /\ r <= RowOf(s, Len(s) + 1)
      <4> HIDE DEF b, p
      <4> QED  BY <1>1, <1>4, PlacesOfLine
    <3>3. RowOf(s, Len(s) + 1) \in Nat
      <4>1. Len(s) + 1 \in Nat \ {0}
        BY <1>1
      <4> QED  BY <4>1, RowOfStep
    <3>4. r + 1 \in DOMAIN Rows(s) /\ Rows(s)[r + 1] = Row(s, r)
      <4>1. r + 1 \in 1 .. RowOf(s, Len(s) + 1) + 1 /\ (r + 1) - 1 = r
        BY <3>2, <3>3
      <4> QED  BY <4>1 DEF Rows
    <3>5. Len(Row(s, r)) <= BufSize
      BY <3>4 DEF RowsFit
    <3>6. CASE b > e
      BY <1>1, <3>6
    <3>7. CASE ~(b > e)
      <4>1. Row(s, r) = SubSeq(s, b, e)
        <5>1. e \in Int
          BY <1>1
        <5> HIDE DEF b, p
        <5> QED  BY <1>3, <3>2, <3>7, <5>1, RowOfPlaces
      <4>2. 1 <= b /\ e <= Len(s) /\ b <= e /\ e \in Int
        BY <1>1, <3>7
      <4>3. Len(SubSeq(s, b, e)) = e - b + 1
        <5> HIDE DEF b, p
        <5> QED  BY <1>1, <1>3, <4>2, SubSeqProperties
      <4>4. e - b + 1 <= last
        BY <3>1, <3>5, <4>1, <4>3
      <4> QED  BY <1>1, <3>1, <4>2, <4>4
    <3> QED  BY <3>6, <3>7
  <2> QED  BY <2>1, <2>2
<1> QED  BY <1>4, <1>5

-----------------------------------------------------------------------------
\* h are the lines found up to place b of the text, where a line begins, or
\* where a line ends whose end is not yet read
Upto(s, pattern, b, h) == \E r \in Nat : LineFrom(s, b, r) /\ h = Selected(s, pattern, r)
Over(s, pattern, b, h) == \E r \in Nat, x \in Nat : LineIn(s, x, b - 1, r) /\ h = Selected(s, pattern, r + 1)

\* What a search leaves, with the lines found before it and in it
Searched(s, pattern, off, data, last, cnt, kept, h) ==
    /\ Upto(s, pattern, off + kept + 1, h) \/ (kept = last /\ Over(s, pattern, off + kept + 1, h))
    /\ kept # last => cnt # 0 /\ kept >= 1 /\ \A j \in kept .. last - 1 : data[j] # "\n"

LEMMA FoundStep ==
  ASSUME NEW S, NEW s \in Seq(S), NEW off, NEW data, NEW last, NEW cnt, Buffered(s, off, data, last, cnt),
         RowsFit(s), NEW f, NEW pattern, Searches(f, data, last, cnt, pattern),
         NEW start \in 0 .. last, start < last \/ start = 0, NEW r \in Nat, LineFrom(s, off + start + 1, r),
         \A i \in start + 1 .. last - 1, q \in Nat : LineFrom(s, off + i + 1, q) =>
            Searched(s, pattern, off, data, last, cnt, f[i].kept, Then(Selected(s, pattern, q), f[i].found))
  PROVE  Searched(s, pattern, off, data, last, cnt, f[start].kept, Then(Selected(s, pattern, r), f[start].found))
<1> DEFINE e == LineEnd(data, start, last)
           V == {Row(s, k) : k \in Nat} \cup {LineOf(data, i, last) : i \in 0 .. last}
           found == FoundAt(data, start, last, pattern)
           b == off + start + 1
<1>1. off \in Nat /\ last \in Nat /\ off + last <= Len(s) /\ Len(s) \in Nat /\ data[last] # "\n"
  BY LenProperties DEF Buffered
<1>2. e \in start .. last /\ (e = last \/ data[e] = "\n") /\ \A i \in start .. e - 1 : data[i] # "\n"
  BY <1>1, LineEndIs
<1>3. f[start] = IF data[e] # "\n" /\ cnt # 0 /\ start # 0 THEN [found |-> <<>>, kept |-> start]
                 ELSE IF e + 1 >= last THEN [found |-> found, kept |-> last]
                 ELSE [found |-> found \o f[e + 1].found, kept |-> f[e + 1].kept]
  BY DEF Searches
<1>4. Selected(s, pattern, r) \in Seq(V)
  <2>1. Selected(s, pattern, r) \in Seq({Row(s, k) : k \in Nat})
    BY SelectedNext
  <2> QED  BY <2>1
<1> HIDE DEF V, e, found, b
<1>5. CASE data[e] # "\n" /\ cnt # 0 /\ start # 0
  <2>1. f[start].found = <<>> /\ f[start].kept = start
    BY <1>3, <1>5
  <2>2. Then(Selected(s, pattern, r), <<>>) = Selected(s, pattern, r)
    BY <1>4, ConcatEmptySeq DEF Then
  <2>3. Upto(s, pattern, off + start + 1, Selected(s, pattern, r))
    BY DEF Upto
  <2>4. start >= 1 /\ \A j \in start .. last - 1 : data[j] # "\n"
    BY <1>1, <1>2, <1>5
  <2> QED  BY <1>5, <2>1, <2>2, <2>3, <2>4 DEF Searched
<1>6. CASE ~(data[e] # "\n" /\ cnt # 0 /\ start # 0)
  <2>1. LineIn(s, b, off + e, r)
    <3>1. CASE data[e] = "\n"
      <4>1. e \in start .. last - 1
        BY <1>1, <1>2, <3>1
      <4> QED  BY <1>2, <3>1, <4>1, LineToNewline DEF b
    <3>2. CASE data[e] # "\n"
      <4>1. e = last /\ (cnt = 0 \/ start = 0)
        BY <1>2, <1>6, <3>2
      <4>2. \A i \in start .. last - 1 : data[i] # "\n"
        BY <1>2, <4>1
      <4> QED  BY <4>1, <4>2, LineToEnd DEF b
    <3> QED  BY <3>1, <3>2
  <2>2. Row(s, r) = LineOf(data, start, last)
    <3>1. Row(s, r) = [i \in 1 .. e - start |-> data[start + i - 1]]
      BY <1>2, <2>1, RowInBuffer DEF b
    <3> QED  BY <3>1 DEF LineOf, e
  <2>3. found = IfMatches(Row(s, r), pattern)
    BY <2>2, Zenon DEF found, FoundAt, IfMatches
  <2>4. Selected(s, pattern, r + 1) = Then(Selected(s, pattern, r), found)
    BY <2>3, SelectedNext, Zenon DEF Then
  <2>5. data[e] = "\n" => LineFrom(s, off + e + 2, r + 1)
    <3> SUFFICES ASSUME data[e] = "\n" PROVE LineFrom(s, off + e + 2, r + 1)
      OBVIOUS
    <3>1. off + e < Len(s)
      BY <1>1, <1>2
    <3> QED  BY <1>1, <2>1, <3>1, NextLine
  <2>6. CASE e + 1 >= last
    <3>1. f[start].found = found /\ f[start].kept = last
      BY <1>3, <1>6, <2>6
    <3>2. CASE data[e] = "\n"
      <4>1. off + e + 2 = off + last + 1 /\ r + 1 \in Nat
        BY <1>1, <1>2, <2>6, <3>2
      <4>2. Upto(s, pattern, off + last + 1, Selected(s, pattern, r + 1))
        BY <2>5, <3>2, <4>1 DEF Upto
      <4> QED  BY <2>4, <3>1, <4>2 DEF Searched
    <3>3. CASE data[e] # "\n"
      <4>1. (off + last + 1) - 1 = off + e /\ b \in Nat
        BY <1>1, <1>2, <3>3 DEF b
      <4>2. Over(s, pattern, off + last + 1, Selected(s, pattern, r + 1))
        BY <2>1, <4>1 DEF Over
      <4> QED  BY <2>4, <3>1, <4>2 DEF Searched
    <3> QED  BY <3>2, <3>3
  <2>7. CASE ~(e + 1 >= last)
    <3> DEFINE i == e + 1
               more == f[i].found
    <3>1. data[e] = "\n" /\ i \in start + 1 .. last - 1 /\ i \in 0 .. last /\ off + i + 1 = off + e + 2 /\ r + 1 \in Nat
      BY <1>1, <1>2, <2>7
    <3>2. f[start].found = found \o more /\ f[start].kept = f[i].kept
      BY <1>3, <1>6, <2>7
    <3>3. Searched(s, pattern, off, data, last, cnt, f[i].kept, Then(Selected(s, pattern, r + 1), more))
      BY <2>5, <3>1
    <3>4. more \in Seq(V) /\ found \in Seq(V)
      <4>1. f[i] \in Results(data, last)
        BY <3>1 DEF Searches
      <4>2. more \in Seq({LineOf(data, k, last) : k \in 0 .. last})
        BY <4>1 DEF Results
      <4>3. LineOf(data, start, last) \in V
        BY DEF V
      <4>4. <<LineOf(data, start, last)>> \in Seq(V) /\ <<>> \in Seq(V)
        BY <4>3
      <4>5. found \in Seq(V)
        BY <4>4, Zenon DEF found, FoundAt
      <4> QED  BY <4>2, <4>5 DEF V
    <3> HIDE DEF i, more
    <3>5. Then(Then(Selected(s, pattern, r), found), more) = Then(Selected(s, pattern, r), Then(found, more))
      BY <1>4, <3>4, ThenThen
    <3>6. Then(Selected(s, pattern, r), f[start].found) = Then(Selected(s, pattern, r + 1), more)
      <4>1. f[start].found = Then(found, more)
        BY <3>2, Zenon DEF Then
      <4> QED  BY <2>4, <3>5, <4>1, Zenon
    <3> QED  BY <3>2, <3>3, <3>6
  <2> QED  BY <2>6, <2>7
<1> QED  BY <1>5, <1>6

\* A search from a place where a line begins
LEMMA FoundFrom ==
  ASSUME NEW S, NEW s \in Seq(S), NEW off, NEW data, NEW last, NEW cnt, Buffered(s, off, data, last, cnt),
         RowsFit(s), NEW f, NEW pattern, Searches(f, data, last, cnt, pattern),
         NEW start \in 0 .. last, start < last \/ start = 0, NEW r \in Nat, LineFrom(s, off + start + 1, r)
  PROVE  Searched(s, pattern, off, data, last, cnt, f[start].kept, Then(Selected(s, pattern, r), f[start].found))
<1> DEFINE Good(i) == \A q \in Nat : LineFrom(s, off + i + 1, q) =>
               Searched(s, pattern, off, data, last, cnt, f[i].kept, Then(Selected(s, pattern, q), f[i].found))
           R == {n \in 0 .. last : \A i \in last - n .. last : i < last \/ i = 0 => Good(i)}
<1>1. last \in Nat
  BY DEF Buffered
<1>2. ASSUME NEW i \in 0 .. last, i < last \/ i = 0, \A j \in i + 1 .. last - 1 : Good(j) PROVE Good(i)
  BY <1>2, FoundStep
<1> HIDE DEF Good
<1>3. 0 \in R
  <2>1. ASSUME NEW i \in last - 0 .. last, i < last \/ i = 0 PROVE Good(i)
    <3>1. i \in 0 .. last /\ \A j \in i + 1 .. last - 1 : FALSE
      BY <1>1, <2>1
    <3> QED  BY <1>2, <2>1, <3>1
  <2> QED  BY <1>1, <2>1
<1>4. ASSUME NEW n \in 1 .. last, n - 1 \in R PROVE n \in R
  <2>1. ASSUME NEW i \in last - n .. last, i < last \/ i = 0 PROVE Good(i)
    <3>1. i \in 0 .. last
      BY <1>1
    <3>2. ASSUME NEW j \in i + 1 .. last - 1 PROVE Good(j)
      <4>1. j \in last - (n - 1) .. last /\ j < last
        BY <1>1
      <4> QED  BY <1>4, <4>1
    <3> QED  BY <1>2, <2>1, <3>1, <3>2
  <2> QED  BY <1>1, <2>1
<1>5. last \in 0 .. last
  BY <1>1
<1>6. last \in R
  <2> HIDE DEF R
  <2> QED  BY <1>1, <1>3, <1>4, <1>5, BoundedInduction
<1>7. start \in last - last .. last
  BY <1>1
<1>8. Good(start)
  BY <1>6, <1>7
<1> QED  BY <1>8 DEF Good

-----------------------------------------------------------------------------
\* The empty line has no pattern in it.
LEMMA NothingMatches == ASSUME NEW pattern, Len(pattern) \in Nat \ {0} PROVE ~Matches(<<>>, pattern)
<1>1. Len(<<>>) = 0
  OBVIOUS
<1>2. ~\E i \in 1 .. 0 - Len(pattern) + 1 : TRUE
  OBVIOUS
<1> QED  BY <1>1, <1>2, Zenon DEF Matches

\* A search after an ended line whose newline is read now
LEMMA FoundOver ==
  ASSUME NEW S, NEW s \in Seq(S), NEW off, NEW data, NEW last, NEW cnt, Buffered(s, off, data, last, cnt),
         RowsFit(s), NEW f, NEW pattern, Searches(f, data, last, cnt, pattern), Len(pattern) \in Nat \ {0},
         NEW h, Over(s, pattern, off + 1, h), cnt = last
  PROVE  Searched(s, pattern, off, data, last, cnt, f[0].kept, Then(h, f[0].found))
<1> DEFINE e == LineEnd(data, 0, last)
           found == FoundAt(data, 0, last, pattern)
<1>1. off \in Nat /\ last \in Nat /\ off + last <= Len(s) /\ Len(s) \in Nat /\ data[last] # "\n" /\ 0 \in 0 .. last
  BY LenProperties DEF Buffered
<1>2. e \in 0 .. last /\ (e = last \/ data[e] = "\n") /\ \A i \in 0 .. e - 1 : data[i] # "\n"
  BY <1>1, LineEndIs
<1>3. f[0] = IF data[e] # "\n" /\ cnt # 0 /\ 0 # 0 THEN [found |-> <<>>, kept |-> 0]
             ELSE IF e + 1 >= last THEN [found |-> found, kept |-> last]
             ELSE [found |-> found \o f[e + 1].found, kept |-> f[e + 1].kept]
  BY <1>1 DEF Searches
<1>4. PICK r \in Nat, x \in Nat : LineIn(s, x, (off + 1) - 1, r) /\ h = Selected(s, pattern, r + 1)
  BY DEF Over
<1>5. (off + 1) - 1 = off
  BY <1>1
<1>6. LineIn(s, x, off, r)
  BY <1>4, <1>5
<1>7. h \in Seq({Row(s, k) : k \in Nat})
  BY <1>4, SelectedNext
<1>8. Then(h, <<>>) = h
  BY <1>7, ConcatEmptySeq DEF Then
<1>9. e = 0 => found = <<>>
  <2>1. ASSUME e = 0 PROVE LineOf(data, 0, last) = <<>>
    BY <2>1 DEF LineOf
  <2>2. ~Matches(<<>>, pattern)
    BY NothingMatches
  <2> HIDE DEF e
  <2> QED  BY <2>1, <2>2 DEF FoundAt
<1> HIDE DEF e, found
<1>10. CASE last = 0
  <2>1. e = 0 /\ f[0].found = found /\ f[0].kept = last
    BY <1>2, <1>3, <1>10
  <2>2. Over(s, pattern, off + last + 1, h)
    <3>1. off + last + 1 = off + 1
      BY <1>1, <1>10
    <3> QED  BY <3>1
  <2> QED  BY <1>8, <1>9, <2>1, <2>2 DEF Searched
<1>11. CASE last # 0
  <2>1. off < Len(s) /\ 0 \in 0 .. last - 1
    BY <1>1, <1>11
  <2>2. s[off + 1] = "\n"
    BY <1>6, <2>1 DEF LineIn
  <2>3. data[0] = s[off + 0 + 1] /\ off + 0 + 1 = off + 1
    BY <1>1, <2>1 DEF Buffered
  <2>4. e = 0 /\ data[e] = "\n"
    <3>1. data[0] = "\n"
      BY <2>2, <2>3
    <3>2. ~(e >= 1)
      BY <1>2, <3>1
    <3> QED  BY <1>2, <3>1, <3>2
  <2>5. LineFrom(s, off + 2, r + 1)
    BY <1>1, <1>6, <2>1, NextLine
  <2>6. CASE last = 1
    <3>1. f[0].found = <<>> /\ f[0].kept = 1
      BY <1>3, <1>9, <2>4, <2>6
    <3>2. off + 1 + 1 = off + 2 /\ r + 1 \in Nat
      BY <1>1
    <3>3. Upto(s, pattern, off + 1 + 1, h)
      BY <1>4, <2>5, <3>2 DEF Upto
    <3> QED  BY <1>8, <2>6, <3>1, <3>3 DEF Searched
  <2>7. CASE last # 1
    <3> DEFINE more == f[1].found
    <3>1. 1 \in 0 .. last /\ 1 < last /\ off + 1 + 1 = off + 2 /\ r + 1 \in Nat
      BY <1>1, <1>11, <2>7
    <3>2. f[0].found = <<>> \o more /\ f[0].kept = f[1].kept
      <4>1. found = <<>> /\ data[e] = "\n" /\ e + 1 = 1 /\ ~(e + 1 >= last)
        BY <1>1, <1>9, <2>4, <3>1
      <4>2. f[0] = [found |-> found \o f[e + 1].found, kept |-> f[e + 1].kept]
        BY <1>3, <4>1, Zenon
      <4>3. f[0] = [found |-> <<>> \o f[1].found, kept |-> f[1].kept]
        BY <4>1, <4>2
      <4> QED  BY <4>3
    <3>3. <<>> \o more = more
      <4>1. f[1] \in Results(data, last)
        BY <3>1 DEF Searches
      <4>2. more \in Seq({LineOf(data, k, last) : k \in 0 .. last})
        BY <4>1 DEF Results
      <4> HIDE DEF more
      <4> QED  BY <4>2, ConcatEmptySeq
    <3>4. Searched(s, pattern, off, data, last, cnt, f[1].kept, Then(Selected(s, pattern, r + 1), more))
      <4>1. LineFrom(s, off + 1 + 1, r + 1)
        BY <2>5, <3>1
      <4> QED  BY <3>1, <4>1, FoundFrom
    <3> HIDE DEF more
    <3>5. f[0].found = more
      BY <3>2, <3>3
    <3>6. Searched(s, pattern, off, data, last, cnt, f[0].kept, Then(h, more))
      BY <1>4, <3>2, <3>4
    <3> QED  BY <3>5, <3>6
  <2> QED  BY <2>6, <2>7
<1> QED  BY <1>10, <1>11

\* ... and from any place where grep reads on
LEMMA SearchFinds ==
  ASSUME NEW S, NEW s \in Seq(S), NEW off, NEW data, NEW last, NEW cnt, Buffered(s, off, data, last, cnt),
         RowsFit(s), NEW pattern, Len(pattern) \in Nat \ {0},
         NEW h, Upto(s, pattern, off + 1, h) \/ (cnt = last /\ Over(s, pattern, off + 1, h)),
         NEW result, result = Search(data, last, cnt, pattern)
  PROVE  /\ Searched(s, pattern, off, data, last, cnt, result.kept, Then(h, result.found))
         /\ result.kept \in 0 .. last
         /\ \E V : result.found \in Seq(V)
<1>1. last \in Nat /\ off \in Nat /\ 0 \in 0 .. last
  BY DEF Buffered
<1>2. PICK f : result = f[0] /\ Searches(f, data, last, cnt, pattern)
  BY <1>1, SearchIs
<1>3. f[0] \in Results(data, last)
  BY <1>1, <1>2 DEF Searches
<1>4. result.kept \in 0 .. last /\ result.found \in Seq({LineOf(data, k, last) : k \in 0 .. last})
  BY <1>2, <1>3 DEF Results
<1>5. Searched(s, pattern, off, data, last, cnt, f[0].kept, Then(h, f[0].found))
  <2>1. CASE Upto(s, pattern, off + 1, h)
    <3>1. PICK r \in Nat : LineFrom(s, off + 1, r) /\ h = Selected(s, pattern, r)
      BY <2>1 DEF Upto
    <3>2. off + 0 + 1 = off + 1
      BY <1>1
    <3>3. LineFrom(s, off + 0 + 1, r)
      BY <3>1, <3>2
    <3>4. Searched(s, pattern, off, data, last, cnt, f[0].kept, Then(Selected(s, pattern, r), f[0].found))
      BY <1>1, <1>2, <3>3, FoundFrom
    <3> QED  BY <3>1, <3>4
  <2>2. CASE cnt = last /\ Over(s, pattern, off + 1, h)
    BY <1>2, <2>2, FoundOver
  <2> QED  BY <2>1, <2>2
<1> QED  BY <1>2, <1>4, <1>5

\* At the end of the text all its lines are searched.
LEMMA AllFound ==
  ASSUME NEW S, NEW s \in Seq(S), NEW pattern, Len(pattern) \in Nat \ {0}, NEW h,
         Upto(s, pattern, Len(s) + 1, h) \/ Over(s, pattern, Len(s) + 1, h)
  PROVE  h = WithPattern(Rows(s), pattern)
<1> DEFINE n == Len(s)
           rows == RowOf(s, n + 1)
<1>1. n \in Nat /\ n + 1 \in Nat \ {0} /\ (n + 1) - 1 = n
  BY LenProperties
<1>2. WithPattern(Rows(s), pattern) = Selected(s, pattern, rows + 1)
  BY Zenon DEF Selected, Rows
<1> HIDE DEF n
<1>3. CASE Upto(s, pattern, n + 1, h)
  <2>1. PICK r \in Nat : LineFrom(s, n + 1, r) /\ h = Selected(s, pattern, r)
    BY <1>3 DEF Upto
  <2>2. rows = r
    BY <2>1 DEF LineFrom
  <2>3. LineIn(s, n + 1, n, r)
    BY <1>1, <2>1 DEF LineIn, n
  <2>4. PlacesOf(s, r) = n + 1 .. n
    BY <1>1, <2>3, PlacesOfLine DEF n
  <2>5. Row(s, r) = <<>>
    <3>1. n + 1 \in Int /\ n \in Int /\ n + 1 > n
      BY <1>1
    <3> QED  BY <2>4, <3>1, RowOfPlaces
  <2>6. IfMatches(Row(s, r), pattern) = <<>>
    <3>1. ~Matches(<<>>, pattern)
      BY NothingMatches
    <3> QED  BY <2>5, <3>1, Zenon DEF IfMatches
  <2>7. Selected(s, pattern, r + 1) = Selected(s, pattern, r) \o <<>>
    BY <2>6, SelectedNext
  <2>8. Selected(s, pattern, r) \o <<>> = Selected(s, pattern, r)
    BY SelectedNext, ConcatEmptySeq
  <2> QED  BY <1>2, <2>1, <2>2, <2>7, <2>8
<1>4. CASE Over(s, pattern, n + 1, h)
  <2>1. PICK r \in Nat, x \in Nat : LineIn(s, x, (n + 1) - 1, r) /\ h = Selected(s, pattern, r + 1)
    BY <1>4 DEF Over
  <2>2. LineIn(s, x, n, r)
    BY <1>1, <2>1
  <2>3. x \in 1 .. n + 1 /\ RowOf(s, x) = r /\ \A j \in x .. n : s[j] # "\n"
    BY <2>2 DEF LineIn, LineFrom, n
  <2>4. Newlines(s, n + 1) = Newlines(s, x)
    BY <1>1, <2>3 DEF Newlines
  <2>5. rows = r
    BY <1>1, <2>3, <2>4 DEF RowOf, Newlines
  <2> QED  BY <1>2, <2>1, <2>5
<1> QED  BY <1>3, <1>4 DEF n

-----------------------------------------------------------------------------
(* What a read and a search make of the buffer                             *)

NoNewline(data, A) == \A i \in A : data[i] # "\n"

\* The buffer has the text behind off, cnt bytes come after its last, as many as
\* it takes or there are.
Fills(s, off, data, last, bytes, cnt) ==
    /\ Len(s) \in Nat /\ off \in Nat /\ last \in Nat /\ cnt \in Nat /\ cnt = Len(bytes)
    /\ DOMAIN data = 0 .. BufSize /\ NoNewline(data, 0 .. BufSize)
    /\ last + cnt <= BufSize /\ off + last + cnt <= Len(s)
    /\ \A j \in 0 .. last - 1 : data[j] = s[off + j + 1]
    /\ \A i \in 1 .. cnt : bytes[i] = s[off + last + i]
    /\ cnt = 0 => off + last = Len(s)
    /\ off + last + cnt < Len(s) => last + cnt = BufSize

LEMMA BufferFilled ==
  ASSUME NEW s, NEW off, NEW data, NEW last, NEW bytes, NEW cnt, Fills(s, off, data, last, bytes, cnt),
         NEW d, d = Filled(data, last, bytes)
  PROVE  /\ Buffered(s, off, d, last + cnt, cnt)
         /\ DOMAIN d = 0 .. BufSize /\ NoNewline(d, last + cnt .. BufSize)
<1>0. /\ Len(s) \in Nat /\ off \in Nat /\ last \in Nat /\ cnt \in Nat /\ cnt = Len(bytes)
      /\ DOMAIN data = 0 .. BufSize /\ NoNewline(data, 0 .. BufSize)
      /\ last + cnt <= BufSize /\ off + last + cnt <= Len(s)
      /\ \A j \in 0 .. last - 1 : data[j] = s[off + j + 1]
      /\ \A i \in 1 .. cnt : bytes[i] = s[off + last + i]
      /\ cnt = 0 => off + last = Len(s)
      /\ off + last + cnt < Len(s) => last + cnt = BufSize
      /\ BufSize \in Nat
  BY ProgramsAssumption DEF Fills
<1>1. cnt \in Nat /\ Len(s) \in Nat
  BY <1>0
<1>2. DOMAIN d = 0 .. BufSize
  BY <1>0 DEF Filled
<1>3. \A i \in 0 .. BufSize : d[i] = IF i \in last .. last + cnt - 1 THEN bytes[i - last + 1] ELSE data[i]
  BY <1>0 DEF Filled
<1>4. NoNewline(d, last + cnt .. BufSize)
  <2>1. ASSUME NEW i \in last + cnt .. BufSize PROVE d[i] # "\n"
    <3>1. i \in 0 .. BufSize /\ i \notin last .. last + cnt - 1
      BY <1>0, <1>1
    <3> QED  BY <1>0, <1>3, <3>1 DEF NoNewline
  <2> QED  BY <2>1 DEF NoNewline
<1>5. ASSUME NEW j \in 0 .. last + cnt - 1 PROVE d[j] = s[off + j + 1]
  <2>1. j \in 0 .. BufSize
    BY <1>0, <1>1
  <2>2. CASE j \in last .. last + cnt - 1
    <3>1. j - last + 1 \in 1 .. cnt /\ off + last + (j - last + 1) = off + j + 1
      BY <1>0, <1>1, <2>2
    <3>2. d[j] = bytes[j - last + 1]
      BY <1>0, <1>3, <2>1, <2>2
    <3> QED  BY <1>0, <3>1, <3>2
  <2>3. CASE j \notin last .. last + cnt - 1
    <3>1. j \in 0 .. last - 1
      BY <1>0, <1>1, <2>3
    <3> QED  BY <1>0, <1>3, <2>1, <2>3, <3>1
  <2> QED  BY <2>2, <2>3
<1>6. d[last + cnt] # "\n"
  <2>1. last + cnt \in last + cnt .. BufSize
    BY <1>0, <1>1
  <2> QED  BY <1>4, <2>1 DEF NoNewline
<1>7. off + (last + cnt) = off + last + cnt /\ last + cnt \in Nat /\ (cnt = 0 => last + cnt = last)
  BY <1>0, <1>1
<1> QED  BY <1>0, <1>1, <1>2, <1>4, <1>5, <1>6, <1>7 DEF Buffered

LEMMA BufferShifted ==
  ASSUME BufSize \in Nat, NEW data, DOMAIN data = 0 .. BufSize, NEW last \in 0 .. BufSize,
         NoNewline(data, last .. BufSize), NEW kept \in 0 .. last, NoNewline(data, kept .. last - 1) \/ kept = last,
         NEW d, d = Shifted(data, last, kept)
  PROVE  /\ DOMAIN d = 0 .. BufSize /\ NoNewline(d, 0 .. BufSize)
         /\ \A j \in 0 .. last - kept - 1 : d[j] = data[kept + j]
<1> DEFINE ended == kept < last \/ last = 0 \/ data[last - 1] # "\n"
           Gone(i) == (i < last /\ data[i] = "\n") \/ (i = last /\ ended)
           cleared == [i \in 0 .. BufSize |-> IF Gone(i) THEN "NUL" ELSE data[i]]
<1>1. d = [i \in 0 .. BufSize |-> IF kept < last /\ i <= last - kept THEN cleared[kept + i] ELSE cleared[i]]
  BY DEF Shifted
<1>2. ASSUME NEW i \in 0 .. BufSize PROVE cleared[i] # "\n"
  <2>1. CASE Gone(i)
    <3>1. cleared[i] = "NUL"
      BY <2>1
    <3> HIDE DEF cleared
    <3> QED  BY <3>1
  <2>2. CASE ~Gone(i)
    <3>1. cleared[i] = data[i]
      BY <2>2
    <3>2. i \in last .. BufSize \/ (i < last /\ data[i] # "\n")
      BY <2>2
    <3> HIDE DEF cleared, Gone
    <3> QED  BY <3>1, <3>2 DEF NoNewline
  <2> QED  BY <2>1, <2>2
<1>3. ASSUME NEW j \in 0 .. last - kept - 1 PROVE cleared[kept + j] = data[kept + j]
  <2>1. kept + j \in kept .. last - 1 /\ kept # last /\ kept + j \in 0 .. BufSize /\ kept + j < last
    OBVIOUS
  <2>2. data[kept + j] # "\n"
    BY <2>1 DEF NoNewline
  <2>3. ~Gone(kept + j)
    BY <2>1, <2>2
  <2> HIDE DEF Gone
  <2> QED  BY <2>1, <2>3
<1> HIDE DEF cleared
<1>4. DOMAIN d = 0 .. BufSize
  BY <1>1
<1>5. ASSUME NEW i \in 0 .. BufSize PROVE d[i] # "\n"
  <2>1. CASE kept < last /\ i <= last - kept
    <3>1. kept + i \in 0 .. BufSize
      BY <2>1
    <3> QED  BY <1>1, <1>2, <2>1, <3>1
  <2>2. CASE ~(kept < last /\ i <= last - kept)
    BY <1>1, <1>2, <2>2
  <2> QED  BY <2>1, <2>2
<1>6. ASSUME NEW j \in 0 .. last - kept - 1 PROVE d[j] = data[kept + j]
  <2>1. j \in 0 .. BufSize /\ kept < last /\ j <= last - kept
    OBVIOUS
  <2>2. d[j] = cleared[kept + j]
    BY <1>1, <2>1
  <2> QED  BY <1>3, <2>2
<1> QED  BY <1>4, <1>5, <1>6 DEF NoNewline

-----------------------------------------------------------------------------
\* The arguments of any line are a part of it, or none.
LEMMA ArgumentsType == ASSUME NEW line \in Lines PROVE Arguments(line) \in Seq(STRING)
<1> DEFINE k == LeadingSpaces(line)
           n == NameLength(line)
           S == {i \in 0 .. Len(line) : Char(line, i) # Space}
           T == {i \in 0 .. Len(line) : Char(line, i + k) \in {Space, "NUL"} \/ i - k >= NameSize}
<1>1. line \in Seq(STRING) /\ Len(line) \in Nat
  BY LineFacts
<1>2. k \in 0 .. Len(line)
  <2>1. S \subseteq Nat /\ Len(line) \in S
    BY <1>1, SpaceIsUnit DEF Char
  <2>2. \E i \in S : \A j \in S : i <= j
    <3> HIDE DEF S
    <3> QED  BY <2>1, LeastElement
  <2>3. \E i \in 0 .. Len(line) : Char(line, i) # Space /\ \A j \in 0 .. Len(line) : Char(line, j) # Space => i <= j
    BY <2>2
  <2> QED  BY <2>3 DEF LeadingSpaces, First
<1> HIDE DEF k
<1>3. n \in 0 .. Len(line)
  <2>1. T \subseteq Nat /\ Len(line) \in T
    BY <1>1, <1>2 DEF Char
  <2>2. \E i \in T : \A j \in T : i <= j
    <3> HIDE DEF T
    <3> QED  BY <2>1, LeastElement
  <2>3. \E i \in 0 .. Len(line) :
          /\ Char(line, i + k) \in {Space, "NUL"} \/ i - k >= NameSize
          /\ \A j \in 0 .. Len(line) : Char(line, j + k) \in {Space, "NUL"} \/ j - k >= NameSize => i <= j
    BY <2>2
  <2> QED  BY <2>3 DEF NameLength, First, k
<1>4. Arguments(line) = IF n < Len(line) /\ line[n + 1] = Space THEN SubSeq(line, n + 2, Len(line)) ELSE <<>>
  BY <1>1, <1>3, SpaceIsUnit DEF Arguments, Char
<1> HIDE DEF n
<1>5. n < Len(line) => SubSeq(line, n + 2, Len(line)) \in Seq(STRING)
  <2> SUFFICES ASSUME n < Len(line) PROVE SubSeq(line, n + 2, Len(line)) \in Seq(STRING)
    OBVIOUS
  <2>1. n + 2 \in 1 .. Len(line) + 1 /\ Len(line) \in Nat
    BY <1>1, <1>3
  <2>2. PICK m \in 1 .. Len(line) + 1 : m = n + 2
    BY <2>1
  <2>3. SubSeq(line, m, Len(line)) \in Seq(STRING)
    BY <1>1, <2>1
  <2> QED  BY <2>2, <2>3
<1>6. <<>> \in Seq(STRING)
  OBVIOUS
<1> QED  BY <1>4, <1>5, <1>6

-----------------------------------------------------------------------------
(* grep within a file                                                      *)

\* Before a read at pos, last characters of the text are in the buffer and h
\* are the lines found in those before them.
Seeking(s, pattern, data, last, pos, h) ==
    /\ DOMAIN data = 0 .. BufSize /\ NoNewline(data, 0 .. BufSize)
    /\ last \in 0 .. BufSize - 1 /\ pos \in last .. Len(s)
    /\ \A j \in 0 .. last - 1 : data[j] = s[pos - last + j + 1]
    /\ Upto(s, pattern, pos - last + 1, h) \/ (last = 0 /\ Over(s, pattern, pos - last + 1, h))

LEMMA SeekingBegins ==
  ASSUME NEW S, NEW s \in Seq(S), NEW pattern, NEW junk, junk # "\n"
  PROVE  Seeking(s, pattern, [i \in 0 .. BufSize |-> junk], 0, 0, <<>>)
<1> DEFINE data == [i \in 0 .. BufSize |-> junk]
<1>1. DOMAIN data = 0 .. BufSize /\ NoNewline(data, 0 .. BufSize)
  BY DEF NoNewline
<1> HIDE DEF data
<1>2. BufSize \in Nat \ {0} /\ Len(s) \in Nat
  BY ProgramsAssumption, LenProperties
<1>3. RowOf(s, 1) = 0
  BY RowOfStep
<1>4. LineFrom(s, 1, 0)
  BY <1>2, <1>3 DEF LineFrom
<1>5. Selected(s, pattern, 0) = <<>>
  BY SelectedNext
<1>6. Upto(s, pattern, 0 - 0 + 1, <<>>)
  <2>1. 0 - 0 + 1 = 1 /\ 0 \in Nat
    OBVIOUS
  <2> QED  BY <1>4, <1>5, <2>1 DEF Upto
<1>7. 0 \in 0 .. BufSize - 1 /\ 0 \in 0 .. Len(s) /\ \A j \in 0 .. 0 - 1 : FALSE
  BY <1>2
<1>8. Seeking(s, pattern, data, 0, 0, <<>>)
  BY <1>1, <1>6, <1>7 DEF Seeking
<1> QED  BY <1>8 DEF data

\* A read of as much as the buffer takes, or as there is
Piece(s, pos, last, bytes, cnt) ==
    /\ \E T : bytes \in Seq(T)
    /\ cnt = Len(bytes) /\ cnt = IF pos + (BufSize - last) <= Len(s) THEN BufSize - last ELSE Len(s) - pos
    /\ \A i \in 1 .. cnt : bytes[i] = s[pos + i]

\* and the search of it
LEMMA SeekingGoesOn ==
  ASSUME NEW S, NEW s \in Seq(S), RowsFit(s), NEW pattern, Len(pattern) \in Nat \ {0},
         NEW data, NEW last, NEW pos, NEW h, Seeking(s, pattern, data, last, pos, h),
         NEW bytes, NEW cnt, Piece(s, pos, last, bytes, cnt),
         NEW d, d = Filled(data, last, bytes),
         NEW result, result = Search(d, last + cnt, cnt, pattern)
  PROVE  /\ Seeking(s, pattern, Shifted(d, last + cnt, result.kept), last + cnt - result.kept, pos + cnt,
                    Then(h, result.found))
         /\ cnt = 0 => Then(h, result.found) = WithPattern(Rows(s), pattern)
         /\ \E V : result.found \in Seq(V)
<1> DEFINE off == pos - last
           all == last + cnt
           kept == result.kept
           new == Shifted(d, all, kept)
           found == Then(h, result.found)
<1>a. PICK T : bytes \in Seq(T)
  BY DEF Piece
<1>b. /\ cnt = Len(bytes) /\ cnt = IF pos + (BufSize - last) <= Len(s) THEN BufSize - last ELSE Len(s) - pos
      /\ \A i \in 1 .. cnt : bytes[i] = s[pos + i]
  BY DEF Piece
<1>1. BufSize \in Nat \ {0} /\ Len(s) \in Nat /\ cnt \in Nat
  BY <1>a, <1>b, ProgramsAssumption, LenProperties
<1>2. /\ DOMAIN data = 0 .. BufSize /\ NoNewline(data, 0 .. BufSize)
      /\ last \in 0 .. BufSize - 1 /\ pos \in last .. Len(s)
      /\ \A j \in 0 .. last - 1 : data[j] = s[off + j + 1]
      /\ Upto(s, pattern, off + 1, h) \/ (last = 0 /\ Over(s, pattern, off + 1, h))
  BY DEF Seeking
<1>0. last \in Nat /\ pos \in Nat /\ last <= BufSize - 1 /\ last <= pos /\ pos <= Len(s)
  BY <1>1, <1>2
<1>3. /\ off \in Nat /\ all \in Nat /\ all <= BufSize /\ off + all = pos + cnt
      /\ off + last + cnt <= Len(s) /\ off + last = pos
  <2> DEFINE n == Len(s)
  <2>1. n \in Nat /\ cnt = IF pos + (BufSize - last) <= n THEN BufSize - last ELSE n - pos
    BY <1>1, <1>b
  <2>2. BufSize \in Nat /\ pos <= n /\ cnt \in Nat /\ last \in Nat /\ pos \in Nat /\ last <= BufSize - 1 /\ last <= pos
    BY <1>0, <1>1
  <2> HIDE DEF n
  <2>3. off \in Nat
    BY <2>2
  <2>4. all \in Nat
    BY <2>2
  <2>5. all <= BufSize
    BY <2>1, <2>2
  <2>6. off + all = pos + cnt
    BY <2>2
  <2>7. off + last + cnt <= n /\ off + last = pos
    BY <2>1, <2>2
  <2> QED  BY <2>3, <2>4, <2>5, <2>6, <2>7 DEF n
<1>4. /\ cnt = 0 => off + last = Len(s)
      /\ off + last + cnt < Len(s) => last + cnt = BufSize
  BY <1>0, <1>1, <1>b
<1>5. /\ Buffered(s, off, d, all, cnt)
      /\ DOMAIN d = 0 .. BufSize /\ NoNewline(d, all .. BufSize)
  <2>1. last + cnt <= BufSize
    BY <1>3
  <2>2. \A i \in 1 .. cnt : bytes[i] = s[off + last + i]
    BY <1>3, <1>b
  <2>3. \A j \in 0 .. last - 1 : data[j] = s[off + j + 1]
    BY <1>2
  <2>4. DOMAIN data = 0 .. BufSize /\ NoNewline(data, 0 .. BufSize)
    BY <1>2
  <2> HIDE DEF off
  <2>5. BufSize \in Nat /\ last \in Nat /\ off \in Nat /\ off + last + cnt <= Len(s)
    BY <1>0, <1>1, <1>3
  <2>6. cnt = 0 => off + last = Len(s)
    BY <1>4
  <2>7. off + last + cnt < Len(s) => last + cnt = BufSize
    BY <1>4
  <2>8. Fills(s, off, data, last, bytes, cnt)
    BY <1>1, <1>a, <1>b, <2>1, <2>2, <2>3, <2>4, <2>5, <2>6, <2>7, Zenon DEF Fills
  <2>9. Buffered(s, off, d, last + cnt, cnt) /\ DOMAIN d = 0 .. BufSize /\ NoNewline(d, last + cnt .. BufSize)
    BY <2>8, BufferFilled
  <2> QED  BY <2>9
<1> HIDE DEF off, all, found
<1>6. /\ Searched(s, pattern, off, d, all, cnt, kept, found)
      /\ kept \in 0 .. all
      /\ \E V : result.found \in Seq(V)
  <2>1. Upto(s, pattern, off + 1, h) \/ (cnt = all /\ Over(s, pattern, off + 1, h))
    BY <1>1, <1>2 DEF all
  <2>2. result = Search(d, all, cnt, pattern)
    BY DEF all
  <2> QED  BY <1>5, <2>1, <2>2, SearchFinds DEF found
<1> HIDE DEF kept
<1>7. kept # all => cnt # 0 /\ kept >= 1 /\ NoNewline(d, kept .. all - 1)
  BY <1>6 DEF Searched, NoNewline
<1>8. /\ DOMAIN new = 0 .. BufSize /\ NoNewline(new, 0 .. BufSize)
      /\ \A j \in 0 .. all - kept - 1 : new[j] = d[kept + j]
  <2>1. NoNewline(d, kept .. all - 1) \/ kept = all
    BY <1>7
  <2>2. BufSize \in Nat /\ all \in 0 .. BufSize
    BY <1>1, <1>3
  <2> QED  BY <1>5, <1>6, <2>1, <2>2, BufferShifted
<1> HIDE DEF new
<1> DEFINE left == all - kept
<1>9. /\ kept \in Nat /\ kept <= all /\ left \in Nat /\ left <= BufSize - 1 /\ left <= pos + cnt
      /\ pos + cnt <= Len(s) /\ off + kept = (pos + cnt) - left /\ pos + cnt \in Nat
  <2>1. kept \in Nat /\ kept <= all
    BY <1>3, <1>6
  <2>2. left \in Nat /\ left <= BufSize - 1
    BY <1>1, <1>3, <1>7, <2>1
  <2>3. pos + cnt <= Len(s)
    BY <1>0, <1>1, <1>3
  <2>4. all \in Nat /\ off \in Nat /\ pos + cnt \in Nat /\ off + all = pos + cnt
    BY <1>0, <1>1, <1>3
  <2>5. left <= pos + cnt
    BY <2>1, <2>4
  <2>6. off + kept = (pos + cnt) - left
    BY <2>1, <2>4
  <2> QED  BY <2>1, <2>2, <2>3, <2>4, <2>5, <2>6
<1>10. ASSUME NEW j \in 0 .. left - 1 PROVE new[j] = s[(pos + cnt) - left + j + 1]
  <2>1. kept + j \in 0 .. all - 1 /\ off + (kept + j) + 1 = (pos + cnt) - left + j + 1
    BY <1>3, <1>9
  <2>2. d[kept + j] = s[off + (kept + j) + 1]
    BY <1>5, <2>1 DEF Buffered
  <2> QED  BY <1>8, <2>1, <2>2
<1>11. Upto(s, pattern, (pos + cnt) - left + 1, found) \/ (left = 0 /\ Over(s, pattern, (pos + cnt) - left + 1, found))
  <2>1. left = 0 <=> kept = all
    BY <1>3, <1>9
  <2>2. Upto(s, pattern, off + kept + 1, found) \/ (kept = all /\ Over(s, pattern, off + kept + 1, found))
    BY <1>6 DEF Searched
  <2> QED  BY <1>9, <2>1, <2>2
<1>12. cnt = 0 => found = WithPattern(Rows(s), pattern)
  <2> SUFFICES ASSUME cnt = 0 PROVE found = WithPattern(Rows(s), pattern)
    OBVIOUS
  <2>1. kept = all /\ left = 0 /\ (pos + cnt) - left + 1 = Len(s) + 1
    BY <1>0, <1>1, <1>3, <1>4, <1>7, <1>9
  <2> HIDE DEF left
  <2> QED  BY <1>11, <2>1, AllFound
<1>13. left = last + cnt - result.kept
  BY <1>0, <1>1, <1>9 DEF all, kept
<1> HIDE DEF left
<1>14. Seeking(s, pattern, new, left, pos + cnt, found)
  <2>1. left \in 0 .. BufSize - 1 /\ pos + cnt \in left .. Len(s)
    BY <1>1, <1>9
  <2> QED  BY <1>8, <1>10, <1>11, <2>1 DEF Seeking
<1> QED  BY <1>6, <1>12, <1>13, <1>14 DEF new, found, all, kept

-----------------------------------------------------------------------------
(* The files grep searches                                                 *)

NameOf(i) == Dentries[i].name
TextOf(name) == Content(InodeOf(name))
Greppable(name) == IsFile(name) /\ Sound(InodeOf(name)) /\ RowsFit(TextOf(name))

\* The directory can be listed; its files have names of their own, that do not
\* begin with a point, and no directory has; the buffer does not begin with
\* newlines.
GrepImage ==
    /\ ListableImage
    /\ \A i \in 1 .. DentryNums :
        IF NameOf(i) = <<>> \/ NameOf(i)[1] = "." THEN Dentries[i].file_type # RegularFile
        ELSE Dentries[i].file_type # Directory /\ Entries(NameOf(i)) = {i}
    /\ "\n" \notin Junk

LEMMA EntriesOfName ==
  ASSUME NEW i \in 1 .. DentryNums
  PROVE  Entries(NameOf(i)) = {j \in 1 .. DentryNums : NameOf(j) = NameOf(i)}
<1> DEFINE name == NameOf(i)
<1>1. name \in Seq(STRING)
  BY NamesType DEF NameOf
<1>2. Len(name) <= NameSize /\ NameSize \in Nat
  <2>1. i \in DOMAIN Dentries
    BY ConstantsAssumption, LenProperties DEF DentryNums
  <2> QED  BY <2>1, ConstantsAssumption DEF NameOf
<1> HIDE DEF name
<1>3. SubSeq(name, 1, Len(name)) = name
  BY <1>1
<1>4. SubSeq(name, 1, IF Len(name) < NameSize THEN Len(name) ELSE NameSize) = name
  <2>1. (IF Len(name) < NameSize THEN Len(name) ELSE NameSize) = Len(name)
    <3> DEFINE n == Len(name)
    <3>1. n \in Nat
      BY <1>1, LenProperties
    <3> HIDE DEF n
    <3>2. n <= NameSize
      BY <1>2 DEF n
    <3> QED  BY <1>2, <3>1, <3>2 DEF n
  <2> QED  BY <1>3, <2>1
<1>5. Entries(name) = {j \in 1 .. DentryNums : NameOf(j) = name}
  BY <1>4, Zenon DEF Entries, NameOf
<1> QED  BY <1>5 DEF name

LEMMA FileOfName ==
  ASSUME GrepImage, NEW i \in 1 .. DentryNums, Greppable(NameOf(i))
  PROVE  /\ NameOf(i) # <<>> /\ NameOf(i)[1] # "." /\ Entries(NameOf(i)) = {i} /\ Lookup(NameOf(i)) = i
         /\ Dentries[i].file_type = RegularFile /\ InodeOf(NameOf(i)) = Dentries[i].inode_count
         /\ InodeOf(NameOf(i)) \in InodeNums
         /\ TextOf(NameOf(i)) \in Seq(Bytes) /\ Len(TextOf(NameOf(i))) = Inodes[InodeOf(NameOf(i))].data_len
<1> DEFINE name == NameOf(i)
           j == Lookup(name)
<1>1. Entries(name) # {} /\ Dentries[j].file_type = RegularFile /\ Sound(InodeOf(name))
  BY DEF Greppable, IsFile
<1>2. j \in Entries(name) /\ InodeOf(name) \in InodeNums
  BY <1>1, LookupIsEntry DEF InodeOf
<1>3. j \in 1 .. DentryNums /\ NameOf(j) = name
  BY <1>2, EntriesOfName
<1> HIDE DEF name, j
<1>4. name # <<>> /\ name[1] # "." /\ Entries(NameOf(j)) = {j}
  BY <1>1, <1>3 DEF GrepImage
<1>5. Entries(name) = {i}
  <2>1. NameOf(i) = name
    BY DEF name
  <2> QED  BY <1>4, <2>1 DEF GrepImage
<1>6. j = i
  BY <1>2, <1>5
<1>7. TextOf(name) \in Seq(Bytes) /\ Len(TextOf(name)) = Inodes[InodeOf(name)].data_len
  BY <1>1, <1>2, SoundText DEF TextOf
<1>8. InodeOf(name) = Dentries[i].inode_count
  BY <1>6 DEF InodeOf, j
<1> QED  BY <1>1, <1>2, <1>4, <1>5, <1>6, <1>7, <1>8 DEF name, j

\* Of the files of entries up to c all lines with the pattern are in hits, of
\* the others none, but for entries not in A.
FoundUpto(hits, pattern, c, A) ==
    \A i \in A : Greppable(NameOf(i)) =>
        HitsIn(NameOf(i), hits) = IF i <= c THEN WithPattern(Rows(TextOf(NameOf(i))), pattern) ELSE <<>>

LEMMA FoundInNone == ASSUME NEW pattern PROVE FoundUpto(<<>>, pattern, 0, 1 .. DentryNums)
<1>1. ASSUME NEW name PROVE HitsIn(name, <<>>) = <<>>
  BY DEF HitsIn, FlattenSeq
<1>2. \A i \in 1 .. DentryNums : ~(i <= 0)
  BY Numbers
<1> QED  BY <1>1, <1>2 DEF FoundUpto

\* Lines of the file of entry c do not change those of others.
LEMMA FoundMore ==
  ASSUME GrepImage, NEW hits, NEW found, NEW pattern, NEW c \in 1 .. DentryNums,
         FoundUpto(hits, pattern, c, (1 .. DentryNums) \ {c}),
         NEW new, Adds(new, hits, NameOf(c), found)
  PROVE  /\ \E K : new \in Seq(K)
         /\ FoundUpto(new, pattern, c, (1 .. DentryNums) \ {c})
         /\ HitsIn(NameOf(c), new) = Then(HitsIn(NameOf(c), hits), found)
<1>1. PICK fname : fname = NameOf(c) /\ Adds(new, hits, fname, found)
  OBVIOUS
<1>a. \E K : new \in Seq(K)
  BY <1>1, HitsAdded
<1>b. ASSUME NEW name PROVE Added(name, new, hits, fname, found)
  BY <1>1, HitsAdded
<1>2. ASSUME NEW i \in (1 .. DentryNums) \ {c}, Greppable(NameOf(i)) PROVE NameOf(i) # NameOf(c)
  <2>1. Entries(NameOf(i)) = {i}
    BY <1>2, FileOfName
  <2>2. Entries(NameOf(i)) = {j \in 1 .. DentryNums : NameOf(j) = NameOf(i)}
    BY <1>2, EntriesOfName
  <2> QED  BY <2>1, <2>2
<1>3. FoundUpto(new, pattern, c, (1 .. DentryNums) \ {c})
  <2>1. ASSUME NEW i \in (1 .. DentryNums) \ {c}, Greppable(NameOf(i))
        PROVE  HitsIn(NameOf(i), new) = IF i <= c THEN WithPattern(Rows(TextOf(NameOf(i))), pattern) ELSE <<>>
    <3>1. HitsIn(NameOf(i), new) = HitsIn(NameOf(i), hits)
      BY <1>1, <1>b, <1>2, <2>1 DEF Added
    <3> QED  BY <2>1, <3>1 DEF FoundUpto
  <2> QED  BY <2>1 DEF FoundUpto
<1>4. HitsIn(NameOf(c), new) = Then(HitsIn(NameOf(c), hits), found)
  BY <1>1, <1>b DEF Added
<1> QED  BY <1>a, <1>3, <1>4

\* At the end of the directory all files are searched.
LEMMA FoundEverywhere ==
  ASSUME GrepImage, NEW hits, NEW pattern, NEW c, FoundUpto(hits, pattern, c, 1 .. DentryNums),
         \A i \in 1 .. DentryNums : Dentries[i].name # <<>> <=> i <= c
  PROVE  \A name \in {Dentries[i].name : i \in DOMAIN Dentries} :
            LET lines == Rows(Content(InodeOf(name))) IN
            IsFile(name) /\ Sound(InodeOf(name)) /\ (\A k \in DOMAIN lines : Len(lines[k]) <= BufSize) =>
                HitsIn(name, hits) = WithPattern(lines, pattern)
<1> SUFFICES ASSUME NEW i \in DOMAIN Dentries, Greppable(NameOf(i))
             PROVE  HitsIn(NameOf(i), hits) = WithPattern(Rows(TextOf(NameOf(i))), pattern)
  BY Zenon DEF NameOf, Greppable, TextOf, RowsFit
<1>1. i \in 1 .. DentryNums
  BY ConstantsAssumption, LenProperties DEF DentryNums
<1>2. NameOf(i) # <<>>
  BY <1>1, FileOfName
<1>3. i <= c
  BY <1>1, <1>2 DEF NameOf
<1> QED  BY <1>1, <1>3 DEF FoundUpto

-----------------------------------------------------------------------------
(* Where grep is in the directory and in a file                            *)

\* d is the directory, open, and the entries passed have names.
GrepDir(fds, d) ==
    /\ d \in Fds \ {0, 1} /\ fds[d].flags /\ fds[d].table_ptr = "dir_ops"
    /\ fds[0].file_position \in 0 .. DentryNums
    /\ \A i \in 1 .. fds[0].file_position : NameOf(i) # <<>>

\* Before the next entry of the directory
ListPlace(fds, l, hits, pattern) ==
    GrepDir(fds, l.dir) /\ FoundUpto(hits, pattern, fds[0].file_position, 1 .. DentryNums)

\* Before the file of entry c is opened
OpenPlace(fds, l, hits, pattern) ==
    LET c == fds[0].file_position IN
    /\ GrepDir(fds, l.dir) /\ c \in 1 .. DentryNums
    /\ l.fname = NameOf(c) /\ l.fname # <<>> /\ l.fname[1] # "."
    /\ FoundUpto(hits, pattern, c - 1, 1 .. DentryNums)

\* In the file of entry c
SearchPlace(fds, l, hits, pattern) ==
    LET c == fds[0].file_position IN
    /\ GrepDir(fds, l.dir) /\ c \in 1 .. DentryNums
    /\ l.fname = NameOf(c)
    /\ l.fd \in Fds \ {0, 1} /\ l.fd # l.dir /\ fds[l.fd].flags /\ fds[l.fd].table_ptr # "dir_ops"
    /\ FoundUpto(hits, pattern, c, (1 .. DentryNums) \ {c})
    /\ Greppable(l.fname) =>
        /\ fds[l.fd].table_ptr = "fs_ops" /\ fds[l.fd].inode = InodeOf(l.fname)
        /\ Seeking(TextOf(l.fname), pattern, l.data, l.last, fds[l.fd].file_position, HitsIn(l.fname, hits))

\* At the end of the file
ClosePlace(fds, l, hits, pattern) == ListPlace(fds, l, hits, pattern) /\ l.fd # l.dir

\* What grep has written are all lines it had to find where it has been, and
\* what is in its buffer is the text before the place it reads.
FindInv ==
    /\ At(<<"grep">>, "start") => out = <<>> /\ fd_array = InitFds /\ args \in Seq(STRING)
    /\ prog = <<"grep">> /\ pc \in {"list", "open", "search", "close"} =>
        args \in Seq(STRING) /\ args # <<>> /\ \E H : out \in Seq(H)
    /\ At(<<"grep">>, "list") => ListPlace(fd_array, loc, out, args)
    /\ At(<<"grep">>, "open") => OpenPlace(fd_array, loc, out, args)
    /\ At(<<"grep">>, "search") => SearchPlace(fd_array, loc, out, args)
    /\ At(<<"grep">>, "close") => ClosePlace(fd_array, loc, out, args)

LEMMA GrepOpenDirFinds ==
  ASSUME GrepImage, CallInv, FindInv, GrepOpenDir
  PROVE  FindInv' /\ GrepFindsLines'
<1>1. /\ At(<<"grep">>, "start") /\ prog' = prog /\ args' = args /\ out' = out
      /\ out = <<>> /\ fd_array = InitFds /\ args \in Seq(STRING)
  BY Zenon DEF GrepOpenDir, FindInv, Exit, Goto, programVars
<1>2. CASE args = <<>>
  <2>1. pc' = "exit" /\ loc' = [status |-> 3]
    BY <1>2 DEF GrepOpenDir, Exit
  <2>2. loc'.status # 0
    BY <2>1
  <2> QED  BY <2>1, <2>2 DEF FindInv, GrepFindsLines, Ended, At
<1>3. CASE args # <<>>
  <2>1. ListableImage /\ FileInv /\ open(<<".">>)
    BY <1>3 DEF GrepOpenDir, GrepImage, CallInv
  <2>2. /\ OpenRet(<<".">>) # -1 /\ OpenRet(<<".">>) \in Fds \ {0, 1}
        /\ fd_array'[OpenRet(<<".">>)].flags /\ fd_array'[OpenRet(<<".">>)].table_ptr = "dir_ops"
        /\ Cursor' = 0
    BY <1>1, <2>1, DirectoryOpens
  <2>3. PICK d : d = OpenRet(<<".">>)
    OBVIOUS
  <2>4. pc' = "list" /\ loc' = [dir |-> d]
    BY <1>3, <2>2, <2>3 DEF GrepOpenDir, Goto
  <2>5. loc'.dir = d /\ fd_array'[0].file_position = 0
    BY <2>2, <2>4 DEF Cursor
  <2>6. GrepDir(fd_array', loc'.dir)
    <3>1. 0 \in 0 .. DentryNums /\ \A i \in 1 .. 0 : FALSE
      BY Numbers
    <3> QED  BY <2>2, <2>3, <2>5, <3>1 DEF GrepDir
  <2>7. FoundUpto(out', args', 0, 1 .. DentryNums)
    <3>1. PICK pattern : pattern = args'
      OBVIOUS
    <3> QED  BY <1>1, <3>1, FoundInNone
  <2>8. ListPlace(fd_array', loc', out', args')
    BY <2>5, <2>6, <2>7 DEF ListPlace
  <2>9. \E H : out' \in Seq(H)
    BY <1>1
  <2>10. pc' = "list" /\ args' \in Seq(STRING) /\ args' # <<>>
    BY <1>1, <1>3, <2>4
  <2> QED  BY <2>8, <2>9, <2>10 DEF FindInv, GrepFindsLines, Ended, At
<1> QED  BY <1>2, <1>3

LEMMA GrepListFinds ==
  ASSUME GrepImage, CallInv, FindInv, GrepList
  PROVE  FindInv' /\ GrepFindsLines'
<1>1. /\ At(<<"grep">>, "list") /\ prog' = prog /\ args' = args /\ out' = out
      /\ args \in Seq(STRING) /\ args # <<>> /\ ListPlace(fd_array, loc, out, args) /\ read(loc.dir, NameSize)
  BY Zenon DEF GrepList, FindInv, At, Exit, Goto, programVars
<1>2. \E H : out' \in Seq(H)
  BY <1>1 DEF FindInv, At
<1>3. /\ loc.dir \in Fds \ {0, 1} /\ IsOpen(loc.dir, "dir_ops")
      /\ \A i \in 1 .. Cursor : Dentries[i].name # <<>>
      /\ FoundUpto(out, args, Cursor, 1 .. DentryNums)
  BY <1>1 DEF ListPlace, GrepDir, IsOpen, Cursor, NameOf
<1>4. PICK d \in Fds \ {0, 1} : d = loc.dir
  BY <1>3
<1>5. /\ ListedName \in Seq(STRING) /\ Len(ListedName) \in Nat
      /\ ReadRet(d, NameSize) = Len(ListedName)
      /\ Cursor \in Nat /\ Cursor + 1 \in 1 .. DentryNums /\ Cursor' = Cursor + 1
      /\ \A g \in Fds \ {0} : fd_array'[g] = fd_array[g]
      /\ ListedName = <<>> => \A i \in 1 .. DentryNums : Dentries[i].name # <<>> <=> i <= Cursor
  <2>1. IsOpen(d, "dir_ops") /\ read(d, NameSize)
    BY <1>1, <1>3, <1>4
  <2>2. ListableImage /\ FileInv
    BY DEF GrepImage, CallInv
  <2> QED  BY <1>3, <2>1, <2>2, DirectoryReads
<1>6. PICK cnt : cnt = ReadRet(loc.dir, NameSize)
  OBVIOUS
<1>7. cnt = Len(ListedName) /\ cnt \in Nat
  BY <1>4, <1>5, <1>6
<1>8. CASE cnt = 0
  <2>1. pc' = "exit" /\ loc' = [status |-> 0]
    BY <1>6, <1>8 DEF GrepList, Exit
  <2>2. \A i \in 1 .. DentryNums : Dentries[i].name # <<>> <=> i <= Cursor
    BY <1>5, <1>7, <1>8, EmptySeq
  <2>3. PICK hits, pattern, c : hits = out /\ pattern = args /\ c = Cursor
    OBVIOUS
  <2>4. \A name \in {Dentries[i].name : i \in DOMAIN Dentries} :
            LET lines == Rows(Content(InodeOf(name))) IN
            IsFile(name) /\ Sound(InodeOf(name)) /\ (\A k \in DOMAIN lines : Len(lines[k]) <= BufSize) =>
                HitsIn(name, hits) = WithPattern(lines, pattern)
    <3>1. FoundUpto(hits, pattern, c, 1 .. DentryNums)
      BY <1>3, <2>3
    <3>2. \A i \in 1 .. DentryNums : Dentries[i].name # <<>> <=> i <= c
      BY <2>2, <2>3
    <3> QED  BY <3>1, <3>2, FoundEverywhere
  <2>5. hits = out' /\ pattern = args'
    BY <1>1, <2>3
  <2>6. GrepFindsLines'
    BY <2>4, <2>5, Zenon DEF GrepFindsLines
  <2> QED  BY <2>1, <2>6 DEF FindInv, At
<1>9. CASE cnt # 0
  <2>1. ListedName # <<>> /\ cnt > 0 /\ cnt # -1
    BY <1>7, <1>9
  <2>2. \/ ListedName[1] = "." /\ Goto("list", loc)
        \/ ListedName[1] # "." /\ Goto("open", [dir |-> loc.dir, fname |-> ListedName])
    BY <1>6, <1>9, <2>1 DEF GrepList
  <2>3. PICK c : c = Cursor + 1
    OBVIOUS
  <2>4. c \in 1 .. DentryNums /\ NameOf(c) = ListedName /\ fd_array'[0].file_position = c /\ c - 1 = Cursor
    BY <1>5, <2>3 DEF NameOf, ListedName, Cursor
  <2>5. GrepDir(fd_array', loc.dir)
    <3>1. fd_array'[loc.dir] = fd_array[loc.dir]
      BY <1>3, <1>5
    <3>2. \A i \in 1 .. c : NameOf(i) # <<>>
      BY <1>3, <1>5, <2>1, <2>3, <2>4 DEF NameOf
    <3>3. c \in 0 .. DentryNums
      BY <2>4
    <3> QED  BY <1>3, <2>4, <3>1, <3>2, <3>3 DEF GrepDir, IsOpen
  <2>6. FoundUpto(out', args', c - 1, 1 .. DentryNums)
    BY <1>1, <1>3, <2>4
  <2>7. CASE ListedName[1] = "."
    <3>1. pc' = "list" /\ loc' = loc
      BY <2>2, <2>7 DEF Goto
    <3>2. FoundUpto(out', args', c, 1 .. DentryNums)
      <4>1. ASSUME NEW i \in 1 .. DentryNums, Greppable(NameOf(i)) PROVE i <= c <=> i <= c - 1
        <5>1. i # c
          BY <2>4, <2>7, <4>1, FileOfName
        <5> QED  BY <2>4, <5>1
      <4> QED  BY <2>6, <4>1 DEF FoundUpto
    <3>3. ListPlace(fd_array', loc', out', args')
      BY <2>4, <2>5, <3>1, <3>2 DEF ListPlace
    <3> QED  BY <1>1, <1>2, <3>1, <3>3 DEF FindInv, GrepFindsLines, Ended, At
  <2>8. CASE ListedName[1] # "."
    <3>1. pc' = "open" /\ loc' = [dir |-> loc.dir, fname |-> NameOf(c)]
      BY <2>2, <2>4, <2>8 DEF Goto
    <3>2. loc'.dir = loc.dir /\ loc'.fname = NameOf(c)
      BY <3>1
    <3>3. OpenPlace(fd_array', loc', out', args')
      BY <2>1, <2>4, <2>5, <2>6, <2>8, <3>2 DEF OpenPlace
    <3> QED  BY <1>1, <1>2, <3>1, <3>3 DEF FindInv, GrepFindsLines, Ended, At
  <2> QED  BY <2>7, <2>8
<1> QED  BY <1>8, <1>9

-----------------------------------------------------------------------------
LEMMA GrepOpenFinds ==
  ASSUME GrepImage, CallInv, FindInv, GrepOpen
  PROVE  FindInv' /\ GrepFindsLines'
<1>1. /\ At(<<"grep">>, "open") /\ prog' = prog /\ args' = args /\ out' = out
      /\ args \in Seq(STRING) /\ args # <<>> /\ OpenPlace(fd_array, loc, out, args) /\ open(loc.fname)
  BY Zenon DEF GrepOpen, FindInv, At, Exit, Goto, programVars
<1>2. \E H : out' \in Seq(H)
  BY <1>1 DEF FindInv, At
<1>3. PICK junk \in Junk :
        IF OpenRet(loc.fname) = -1 THEN Exit(3)
        ELSE Goto("search", [dir |-> loc.dir, fname |-> loc.fname, fd |-> OpenRet(loc.fname),
                             data |-> [i \in 0 .. BufSize |-> junk], last |-> 0])
  BY DEF GrepOpen
<1>4. CASE OpenRet(loc.fname) = -1
  <2>1. pc' = "exit" /\ loc' = [status |-> 3]
    BY <1>3, <1>4 DEF Exit
  <2>2. loc'.status # 0
    BY <2>1
  <2> QED  BY <2>1, <2>2 DEF FindInv, GrepFindsLines, Ended, At
<1>5. CASE OpenRet(loc.fname) # -1
  <2>1. PICK name, c, f, hits, pattern, data :
          /\ name = loc.fname /\ c = Cursor /\ f = OpenRet(loc.fname) /\ hits = out /\ pattern = args
          /\ data = [i \in 0 .. BufSize |-> junk]
    OBVIOUS
  <2>2. /\ GrepDir(fd_array, loc.dir) /\ c \in 1 .. DentryNums
        /\ name = NameOf(c) /\ name # <<>> /\ name[1] # "."
        /\ FoundUpto(hits, pattern, c - 1, 1 .. DentryNums)
    BY <1>1, <2>1 DEF OpenPlace, Cursor
  <2>3. f = VacantFd /\ f \in Fds \ {0, 1} /\ ~fd_array[f].flags /\ Entries(name) # {}
    BY <1>5, <2>1, OpenRetType DEF CallInv
  <2>4. Lookup(name) = c /\ Dentries[c].file_type # Directory
    <3>1. Lookup(name) \in Entries(name)
      BY <2>3, LookupIsEntry
    <3>2. Entries(NameOf(c)) = {c} /\ Dentries[c].file_type # Directory
      BY <2>2 DEF GrepImage
    <3> QED  BY <2>2, <3>1, <3>2
  <2> DEFINE d == Opened(Dentries[c])
  <2>5. fd_array' = [fd_array EXCEPT ![f] = d]
    BY <1>1, <1>5, <2>1, <2>3, <2>4 DEF open
  <2>6. d.flags /\ d.table_ptr # "dir_ops" /\ d.file_position = 0
    <3>1. Dentries[c] \in [name : Seq(STRING), file_type : {Rtc, Directory, RegularFile}, inode_count : InodeNums]
      BY <2>2, ConstantsAssumption, ElementOfSeq DEF DentryNums
    <3>2. Dentries[c].file_type \in {Rtc, RegularFile}
      BY <2>4, <3>1
    <3> QED  BY <3>2 DEF Opened, Rtc, Directory, RegularFile
  <2>7. Greppable(name) => d.table_ptr = "fs_ops" /\ d.inode = InodeOf(name)
    <3> SUFFICES ASSUME Greppable(name) PROVE d.table_ptr = "fs_ops" /\ d.inode = InodeOf(name)
      OBVIOUS
    <3>1. Dentries[c].file_type = RegularFile /\ InodeOf(name) = Dentries[c].inode_count
      BY <2>2, FileOfName
    <3> QED  BY <3>1 DEF Opened, Rtc, Directory, RegularFile
  <2> HIDE DEF d
  <2>8. fd_array'[f] = d /\ \A g \in Fds \ {f} : fd_array'[g] = fd_array[g]
    <3>1. DOMAIN fd_array = Fds
      BY DEF CallInv, FileInv, TypeOK
    <3> QED  BY <2>3, <2>5, <3>1, Zenon
  <2>9. GrepDir(fd_array', loc.dir) /\ f # loc.dir /\ fd_array'[0].file_position = c
    <3>1. 0 \in Fds \ {f}
      BY <2>3, ConstantsAssumption DEF Fds
    <3>2. loc.dir \in Fds \ {f}
      BY <2>2, <2>3 DEF GrepDir
    <3>3. fd_array'[0] = fd_array[0] /\ fd_array'[loc.dir] = fd_array[loc.dir]
      BY <2>8, <3>1, <3>2
    <3>4. fd_array'[0].file_position = c
      BY <2>1, <3>3 DEF Cursor
    <3>5. GrepDir(fd_array', loc.dir)
      BY <2>2, <3>3, Zenon DEF GrepDir
    <3> QED  BY <3>2, <3>4, <3>5
  <2>10. pc' = "search" /\ loc' = [dir |-> loc.dir, fname |-> name, fd |-> f, data |-> data, last |-> 0]
    BY <1>3, <1>5, <2>1 DEF Goto
  <2>11. loc'.dir = loc.dir /\ loc'.fname = name /\ loc'.fd = f /\ loc'.data = data /\ loc'.last = 0
    BY <2>10
  <2>12. FoundUpto(hits, pattern, c, (1 .. DentryNums) \ {c})
    <3>1. \A i \in (1 .. DentryNums) \ {c} : i <= c <=> i <= c - 1
      BY <2>2
    <3> QED  BY <2>2, <3>1 DEF FoundUpto
  <2>13. ASSUME Greppable(name) PROVE Seeking(TextOf(name), pattern, data, 0, 0, HitsIn(name, hits))
    <3>1. HitsIn(name, hits) = <<>>
      <4>1. ~(c <= c - 1)
        BY <2>2
      <4> QED  BY <2>2, <2>13, <4>1 DEF FoundUpto
    <3>2. TextOf(name) \in Seq(Bytes)
      BY <2>2, <2>13, FileOfName
    <3>3. junk # "\n"
      BY DEF GrepImage
    <3>4. Seeking(TextOf(name), pattern, [i \in 0 .. BufSize |-> junk], 0, 0, <<>>)
      BY <3>2, <3>3, SeekingBegins
    <3> QED  BY <2>1, <3>1, <3>4
  <2>14. SearchPlace(fd_array', loc', hits, pattern)
    BY <2>2, <2>3, <2>6, <2>7, <2>8, <2>9, <2>11, <2>12, <2>13 DEF SearchPlace
  <2>15. hits = out' /\ pattern = args'
    BY <1>1, <2>1
  <2> QED  BY <1>1, <1>2, <2>10, <2>14, <2>15 DEF FindInv, GrepFindsLines, Ended, At
<1> QED  BY <1>4, <1>5

LEMMA GrepCloseFinds ==
  ASSUME GrepImage, CallInv, FindInv, GrepClose
  PROVE  FindInv' /\ GrepFindsLines'
<1>1. /\ At(<<"grep">>, "close") /\ prog' = prog /\ args' = args /\ out' = out
      /\ args \in Seq(STRING) /\ args # <<>> /\ ClosePlace(fd_array, loc, out, args) /\ close(loc.fd)
  BY Zenon DEF GrepClose, FindInv, At, Exit, Goto, programVars
<1>2. \E H : out' \in Seq(H)
  BY <1>1 DEF FindInv, At
<1>3. loc.fd \in Fds \ {0, 1}
  BY <1>1 DEF CallInv, GrepInv
<1>4. CASE CloseRet(loc.fd) = -1
  <2>1. pc' = "exit" /\ loc' = [status |-> 3]
    BY <1>4 DEF GrepClose, Exit
  <2>2. loc'.status # 0
    BY <2>1
  <2> QED  BY <2>1, <2>2 DEF FindInv, GrepFindsLines, Ended, At
<1>5. CASE CloseRet(loc.fd) # -1
  <2>1. pc' = "list" /\ loc' = [dir |-> loc.dir]
    BY <1>5 DEF GrepClose, Goto
  <2>2. loc'.dir = loc.dir
    BY <2>1
  <2>3. GrepDir(fd_array, loc.dir) /\ FoundUpto(out, args, fd_array[0].file_position, 1 .. DentryNums) /\ loc.fd # loc.dir
    BY <1>1 DEF ClosePlace, ListPlace
  <2>4. \A g \in Fds \ {loc.fd} : fd_array'[g] = fd_array[g]
    <3>1. fd_array' = [fd_array EXCEPT ![loc.fd].flags = FALSE] \/ fd_array' = fd_array
      BY <1>1 DEF close
    <3>2. DOMAIN fd_array = Fds
      BY DEF CallInv, FileInv, TypeOK
    <3> QED  BY <3>1, <3>2, Zenon
  <2>5. fd_array'[0] = fd_array[0] /\ fd_array'[loc.dir] = fd_array[loc.dir]
    <3>1. 0 \in Fds \ {loc.fd}
      BY <1>3, ConstantsAssumption DEF Fds
    <3>2. loc.dir \in Fds \ {loc.fd}
      BY <2>3 DEF GrepDir
    <3> QED  BY <2>4, <3>1, <3>2
  <2>6. ListPlace(fd_array', loc', out', args')
    BY <1>1, <2>2, <2>3, <2>5, Zenon DEF ListPlace, GrepDir
  <2> QED  BY <1>1, <1>2, <2>1, <2>6 DEF FindInv, GrepFindsLines, Ended, At
<1> QED  BY <1>4, <1>5

-----------------------------------------------------------------------------
\* What a read of a file gives, from where it is, and where it is then.
LEMMA TextRead ==
  ASSUME FileInv, NEW f \in Fds \ {0, 1}, IsOpen(f, "fs_ops"), Sound(fd_array[f].inode),
         NEW s, s = Content(fd_array[f].inode), NEW p, p = fd_array[f].file_position, p <= Len(s),
         NEW n \in Nat \ {0}, read(f, n), NEW bytes, bytes = ReadData(f, n), NEW cnt, cnt = ReadRet(f, n)
  PROVE  /\ bytes \in Seq(Bytes) /\ cnt = Len(bytes)
         /\ cnt = IF p + n <= Len(s) THEN n ELSE Len(s) - p
         /\ \A i \in 1 .. cnt : bytes[i] = s[p + i]
         /\ fd_array'[f].flags /\ fd_array'[f].table_ptr = "fs_ops"
         /\ fd_array'[f].inode = fd_array[f].inode /\ fd_array'[f].file_position = p + cnt
         /\ \A g \in Fds \ {f} : fd_array'[g] = fd_array[g]
<1>1. CanRead(f, n)
  BY DEF CanRead, IsOpen
<1>2. f_read(f, n)
  BY <1>1 DEF read, IsOpen
<1>3. cnt = Len(bytes) /\ bytes = FileRead(f, n)
  BY <1>1 DEF ReadRet, ReadData, IsOpen, Advance
<1>4. p \in Nat /\ ShapeOK /\ fd_array[f].inode \in InodeNums
  BY DEF FileInv, TypeOK, ShapeOK
<1>5. s \in Seq(Bytes) /\ Len(s) \in Nat /\ Len(s) = Inodes[fd_array[f].inode].data_len
  BY <1>4, SoundText
<1>6. bytes \in Seq(Bytes)
  BY <1>3, <1>4, FileReadType
<1>7. /\ cnt = IF p >= Len(s) THEN 0 ELSE Portion(fd_array[f].inode, p, n)
      /\ \A i \in 1 .. cnt : bytes[i] = s[p + i]
  BY <1>3, <1>4, <1>5, FileReadGives
<1>8. cnt = IF p + n <= Len(s) THEN n ELSE Len(s) - p
  <2> DEFINE k == Len(s)
  <2>1. k \in Nat /\ p \in Nat /\ p <= k /\ n \in Nat \ {0}
    BY <1>4, <1>5
  <2>2. cnt = IF p >= k THEN 0 ELSE IF p + n <= k THEN n ELSE k - p
    BY <1>5, <1>7 DEF Portion
  <2> HIDE DEF k
  <2>3. cnt = IF p + n <= k THEN n ELSE k - p
    BY <2>1, <2>2
  <2> QED  BY <2>3 DEF k
<1>9. fd_array' = [fd_array EXCEPT ![f].file_position = @ + cnt]
  BY <1>2, <1>3 DEF f_read, Advance
<1>10. /\ fd_array'[f].flags = fd_array[f].flags /\ fd_array'[f].table_ptr = fd_array[f].table_ptr
       /\ fd_array'[f].inode = fd_array[f].inode /\ fd_array'[f].file_position = p + cnt
  BY <1>9 DEF FileInv, TypeOK
<1>11. \A g \in Fds \ {f} : fd_array'[g] = fd_array[g]
  <2>1. DOMAIN fd_array = Fds
    BY DEF FileInv, TypeOK
  <2> QED  BY <1>9, <2>1, Zenon
<1> QED  BY <1>3, <1>6, <1>7, <1>8, <1>10, <1>11 DEF IsOpen

\* Whatever else is read, other descriptors keep their places.
LEMMA OthersStay ==
  ASSUME FileInv, NEW f \in Fds \ {0, 1}, fd_array[f].flags, fd_array[f].table_ptr # "dir_ops", NEW n, read(f, n)
  PROVE  /\ \A g \in Fds \ {f} : fd_array'[g] = fd_array[g]
         /\ fd_array'[f].flags /\ fd_array'[f].table_ptr # "dir_ops"
<1>1. fd_array' = [fd_array EXCEPT ![f].file_position = @ + Advance(f, n)] \/ fd_array' = fd_array
  BY DEF read, f_read, IsOpen, fileVars
<1>2. DOMAIN fd_array = Fds
  BY DEF FileInv, TypeOK
<1>3. \A g \in Fds \ {f} : fd_array'[g] = fd_array[g]
  BY <1>1, <1>2, Zenon
<1>4. fd_array'[f].flags /\ fd_array'[f].table_ptr # "dir_ops"
  BY <1>1 DEF FileInv, TypeOK
<1> QED  BY <1>3, <1>4

LEMMA SearchFound ==
  ASSUME NEW data, NEW last \in Nat, NEW cnt, NEW s
  PROVE  \E V : Search(data, last, cnt, s).found \in Seq(V)
<1>1. PICK f : Search(data, last, cnt, s) = f[0] /\ Searches(f, data, last, cnt, s)
  BY SearchIs
<1>2. f[0] \in Results(data, last)
  <2>1. 0 \in 0 .. last
    OBVIOUS
  <2> QED  BY <1>1, <2>1, Zenon DEF Searches
<1> QED  BY <1>1, <1>2 DEF Results

\* A piece of the file of entry c is read and searched.
LEMMA GrepSearchFinds ==
  ASSUME GrepImage, CallInv, FindInv, GrepSearch
  PROVE  FindInv' /\ GrepFindsLines'
<1>1. /\ At(<<"grep">>, "search") /\ prog' = prog /\ args' = args
      /\ args \in Seq(STRING) /\ args # <<>> /\ SearchPlace(fd_array, loc, out, args) /\ GrepLocals(loc)
      /\ read(loc.fd, BufSize - loc.last)
  BY Zenon DEF GrepSearch, FindInv, CallInv, GrepInv, At, Exit, Goto, programVars
<1>2. PICK H : out \in Seq(H)
  BY <1>1 DEF FindInv, At
<1>3. PICK name, c, dir, f, buffer, last, n, p, cnt, bytes, hits, pattern :
        /\ name = loc.fname /\ c = Cursor /\ dir = loc.dir /\ f = loc.fd /\ buffer = loc.data /\ last = loc.last
        /\ n = BufSize - loc.last /\ p = fd_array[loc.fd].file_position
        /\ cnt = ReadRet(loc.fd, BufSize - loc.last) /\ bytes = ReadData(loc.fd, BufSize - loc.last)
        /\ hits = out /\ pattern = args
  OBVIOUS
<1>4. /\ GrepDir(fd_array, dir) /\ c \in 1 .. DentryNums /\ name = NameOf(c)
      /\ f \in Fds \ {0, 1} /\ f # dir /\ fd_array[f].flags /\ fd_array[f].table_ptr # "dir_ops"
      /\ FoundUpto(hits, pattern, c, (1 .. DentryNums) \ {c})
      /\ Greppable(name) =>
          /\ fd_array[f].table_ptr = "fs_ops" /\ fd_array[f].inode = InodeOf(name)
          /\ Seeking(TextOf(name), pattern, buffer, last, p, HitsIn(name, hits))
  BY <1>1, <1>3 DEF SearchPlace, Cursor
<1>5. last \in Nat /\ n \in Int /\ cnt \in Nat \cup {-1}
  <2>1. last \in Nat /\ n \in Int
    BY <1>1, <1>3, ProgramsAssumption DEF GrepLocals
  <2>2. f # 0
    BY <1>4
  <2>3. ReadRet(f, n) \in Nat \cup {-1}
    BY <2>1, <2>2, ReadRetType DEF CallInv
  <2> QED  BY <1>3, <2>1, <2>3
<1>6. CASE cnt = -1
  <2>1. pc' = "exit" /\ loc' = [status |-> 3]
    BY <1>3, <1>6, Zenon DEF GrepSearch, Exit
  <2>2. loc'.status # 0
    BY <2>1
  <2> QED  BY <2>1, <2>2 DEF FindInv, GrepFindsLines, Ended, At
<1>7. CASE cnt # -1
  <2>1. PICK data, result :
          /\ data = Filled(buffer, last, bytes)
          /\ result = Search(data, last + cnt, cnt, pattern)
          /\ out' = hits \o [i \in DOMAIN result.found |-> <<name, result.found[i]>>]
          /\ Goto(IF cnt = 0 THEN "close" ELSE "search",
                  [loc EXCEPT !.data = Shifted(data, last + cnt, result.kept), !.last = last + cnt - result.kept])
    BY <1>3, <1>7, Zenon DEF GrepSearch
  <2>2. PICK new, left, found, more :
          /\ new = Shifted(data, last + cnt, result.kept) /\ left = last + cnt - result.kept
          /\ found = result.found /\ more = hits \o HitsOf(name, found)
    OBVIOUS
  <2>3. out' = more
    BY <2>1, <2>2 DEF HitsOf
  <2>4. cnt \in Nat /\ last + cnt \in Nat
    BY <1>5, <1>7
  <2>5. PICK V : found \in Seq(V)
    <3>1. \E V : Search(data, last + cnt, cnt, pattern).found \in Seq(V)
      BY <2>4, SearchFound
    <3> QED  BY <2>1, <2>2, <3>1
  <2>6. /\ \E K : more \in Seq(K)
        /\ FoundUpto(more, pattern, c, (1 .. DentryNums) \ {c})
        /\ HitsIn(NameOf(c), more) = Then(HitsIn(NameOf(c), hits), found)
    <3>1. Adds(more, hits, NameOf(c), found)
      BY <1>2, <1>3, <1>4, <2>2, <2>5 DEF Adds
    <3> QED  BY <1>4, <3>1, FoundMore
  <2>7. /\ loc'.dir = dir /\ loc'.fname = name /\ loc'.fd = f /\ loc'.data = new /\ loc'.last = left
        /\ pc' = IF cnt = 0 THEN "close" ELSE "search"
    <3>1. loc' = [loc EXCEPT !.data = new, !.last = left]
      BY <2>1, <2>2 DEF Goto
    <3>2. loc' = [dir |-> loc.dir, fname |-> loc.fname, fd |-> loc.fd, data |-> new, last |-> left]
      BY <1>1, <3>1 DEF GrepLocals
    <3>3. pc' = IF cnt = 0 THEN "close" ELSE "search"
      BY <2>1 DEF Goto
    <3> QED  BY <1>3, <3>2, <3>3
  <2>8. /\ \A g \in Fds \ {f} : fd_array'[g] = fd_array[g]
        /\ fd_array'[f].flags /\ fd_array'[f].table_ptr # "dir_ops"
    <3>1. read(f, n)
      BY <1>1, <1>3
    <3> QED  BY <1>4, <3>1, OthersStay DEF CallInv
  <2>9. GrepDir(fd_array', dir) /\ fd_array'[0].file_position = c
    <3>1. 0 \in Fds \ {f} /\ dir \in Fds \ {f}
      BY <1>4, ConstantsAssumption DEF Fds, GrepDir
    <3>2. fd_array'[0] = fd_array[0] /\ fd_array'[dir] = fd_array[dir]
      BY <2>8, <3>1
    <3> QED  BY <1>3, <1>4, <3>2, Zenon DEF GrepDir, Cursor
  <2>10. ASSUME Greppable(name)
         PROVE  /\ fd_array'[f].table_ptr = "fs_ops" /\ fd_array'[f].inode = InodeOf(name)
                /\ Seeking(TextOf(name), pattern, new, left, fd_array'[f].file_position, HitsIn(name, more))
                /\ cnt = 0 => HitsIn(name, more) = WithPattern(Rows(TextOf(name)), pattern)
    <3>1. /\ fd_array[f].table_ptr = "fs_ops" /\ fd_array[f].inode = InodeOf(name)
          /\ Seeking(TextOf(name), pattern, buffer, last, p, HitsIn(name, hits))
      BY <1>4, <2>10
    <3>2. PICK s : s = TextOf(name)
      OBVIOUS
    <3>3. s \in Seq(Bytes) /\ RowsFit(s) /\ Sound(InodeOf(name)) /\ s = Content(fd_array[f].inode)
      BY <1>4, <2>10, <3>1, <3>2, FileOfName DEF Greppable, TextOf
    <3>4. last \in 0 .. BufSize - 1 /\ p \in last .. Len(s)
      BY <3>1, <3>2 DEF Seeking
    <3>5. n \in Nat \ {0} /\ p <= Len(s)
      <4>1. n = BufSize - last
        BY <1>3
      <4>2. Len(s) \in Nat
        BY <3>3, LenProperties
      <4> QED  BY <3>4, <4>1, <4>2, ProgramsAssumption
    <3>6. /\ bytes \in Seq(Bytes) /\ cnt = Len(bytes)
          /\ cnt = IF p + n <= Len(s) THEN n ELSE Len(s) - p
          /\ \A i \in 1 .. cnt : bytes[i] = s[p + i]
          /\ fd_array'[f].table_ptr = "fs_ops"
          /\ fd_array'[f].inode = fd_array[f].inode /\ fd_array'[f].file_position = p + cnt
      <4>1. IsOpen(f, "fs_ops") /\ Sound(fd_array[f].inode)
        BY <1>4, <3>1, <3>3 DEF IsOpen
      <4>2. read(f, n) /\ bytes = ReadData(f, n) /\ cnt = ReadRet(f, n) /\ p = fd_array[f].file_position
        BY <1>1, <1>3
      <4>3. FileInv
        BY DEF CallInv
      <4> QED  BY <1>4, <3>3, <3>5, <4>1, <4>2, <4>3, TextRead
    <3>7. PICK h : h = HitsIn(name, hits)
      OBVIOUS
    <3>8. /\ Seeking(s, pattern, Shifted(data, last + cnt, result.kept), last + cnt - result.kept, p + cnt,
                     Then(h, result.found))
          /\ cnt = 0 => Then(h, result.found) = WithPattern(Rows(s), pattern)
      <4>1. Seeking(s, pattern, buffer, last, p, h)
        BY <3>1, <3>2, <3>7
      <4>2. Len(pattern) \in Nat \ {0}
        <5>1. pattern \in Seq(STRING) /\ pattern # <<>>
          BY <1>1, <1>3
        <5> QED  BY <5>1, LenProperties, EmptySeq
      <4>3. n = BufSize - last
        BY <1>3
      <4>4. cnt = IF p + (BufSize - last) <= Len(s) THEN BufSize - last ELSE Len(s) - p
        BY <3>6, <4>3
      <4>5. Piece(s, p, last, bytes, cnt)
        BY <3>6, <4>4 DEF Piece
      <4> QED  BY <2>1, <3>3, <4>1, <4>2, <4>5, SeekingGoesOn
    <3>9. HitsIn(name, more) = Then(h, result.found)
      BY <1>4, <2>2, <2>6, <3>7
    <3> QED  BY <2>2, <3>1, <3>2, <3>6, <3>8, <3>9
  <2>11. hits = out /\ pattern = args'
    BY <1>1, <1>3
  <2>12. \E K : out' \in Seq(K)
    BY <2>3, <2>6
  <2>13. CASE cnt # 0
    <3>1. SearchPlace(fd_array', loc', more, pattern)
      BY <1>4, <2>6, <2>7, <2>8, <2>9, <2>10 DEF SearchPlace
    <3>2. pc' = "search"
      BY <2>7, <2>13
    <3> QED  BY <1>1, <2>3, <2>11, <2>12, <3>1, <3>2 DEF FindInv, GrepFindsLines, Ended, At
  <2>14. CASE cnt = 0
    <3>1. FoundUpto(more, pattern, c, 1 .. DentryNums)
      BY <1>4, <2>6, <2>10, <2>14 DEF FoundUpto
    <3>2. ClosePlace(fd_array', loc', more, pattern)
      BY <1>4, <2>7, <2>9, <3>1 DEF ClosePlace, ListPlace
    <3>3. pc' = "close"
      BY <2>7, <2>14
    <3> QED  BY <1>1, <2>3, <2>11, <2>12, <3>2, <3>3 DEF FindInv, GrepFindsLines, Ended, At
  <2> QED  BY <2>13, <2>14
<1> QED  BY <1>6, <1>7

LEMMA FindKept ==
  ASSUME GrepImage, CallInv, LineRead, FindInv, GrepFindsLines, [ProgramsNext]_vars
  PROVE  FindInv' /\ GrepFindsLines'
<1>1. CASE prog' # <<"grep">>
  BY <1>1 DEF FindInv, GrepFindsLines, Ended, At
<1>2. CASE ProgramNext /\ ~Halt /\ ~HaltLost /\ prog' = <<"grep">>
  <2>1. prog = <<"grep">>
    BY <1>2, ProgramGoesOn DEF GoesOn
  <2>2. GrepOpenDir \/ GrepList \/ GrepOpen \/ GrepSearch \/ GrepClose
    BY <1>2, <2>1, StepOfProgram
  <2> QED  BY <2>2, GrepOpenDirFinds, GrepListFinds, GrepOpenFinds, GrepSearchFinds, GrepCloseFinds
<1>3. CASE Halt \/ ShellRead
  <2>1. prog' = ShellName
    BY <1>3 DEF Halt, ShellRead, BackToShell
  <2> QED  BY <1>1, <2>1 DEF ShellName
<1>4. CASE HaltLost
  BY <1>4 DEF HaltLost, FindInv, GrepFindsLines, Ended, At
<1>5. CASE Execute
  <2>1. \/ pc' = "prompt"
        \/ pc' = "start" /\ out' = <<>> /\ NewProcess /\ args' = Arguments(command)
    BY <1>5 DEF Execute, BackToShell
  <2>2. command \in Lines
    BY <1>5 DEF Execute, LineRead
  <2>3. Arguments(command) \in Seq(STRING)
    BY <2>2, ArgumentsType
  <2> QED  BY <2>1, <2>3 DEF FindInv, GrepFindsLines, Ended, At, NewProcess
<1>6. CASE ClientCall \/ ClientExit
  <2>1. prog' = <<"client">>
    BY <1>6 DEF ClientCall, ClientExit, At, Fault, Exit, programVars, shellVars
  <2> QED  BY <1>1, <2>1
<1>7. CASE UNCHANGED vars
  <2>1. UNCHANGED <<prog, pc, loc, args, out, fd_array>>
    BY <1>7 DEF vars, fileVars, shellVars
  <2>2. GrepFindsLines'
    BY <2>1, Zenon DEF GrepFindsLines, Ended
  <2>3. FindInv'
    BY <2>1, Zenon DEF FindInv, At
  <2> QED  BY <2>2, <2>3
<1> QED  BY <1>1, <1>2, <1>3, <1>4, <1>5, <1>6, <1>7 DEF ProgramsNext

\* Over an image that lists itself and whose files have names of their own,
\* grep has written exactly the lines with the pattern, in whatever pieces the
\* reads gave them, when it ends well.
THEOREM GrepFindsAll == GrepImage => (ProgramsSpec => []GrepFindsLines)
<1> SUFFICES ASSUME GrepImage PROVE ProgramsSpec => []GrepFindsLines
  OBVIOUS
<1>1. Init => LineRead /\ CommandParsed /\ FindInv /\ GrepFindsLines
  BY DEF Init, ShellInit, LineRead, CommandParsed, FindInv, GrepFindsLines, Ended, At, ShellName
<1>2. CallInv /\ LineRead /\ CommandParsed /\ FindInv /\ GrepFindsLines /\ [ProgramsNext]_vars
        => (LineRead /\ CommandParsed /\ FindInv /\ GrepFindsLines)'
  BY ParsedKept, FindKept
<1> QED  BY <1>1, <1>2, AlwaysCallInv, PTL DEF ProgramsSpec

=============================================================================
