----------------------------- MODULE MCPrograms -----------------------------
(***************************************************************************)
(* A small file system image for TLC.  Blocks have four bytes and buffers  *)
(* three: the text ends within a block and has lines that blocks and reads *)
(* cut; the frames differ in the number and in the lengths of their lines, *)
(* and one ends with a block; "bad" has a bad block number, and an unused  *)
(* entry follows.                                                          *)
(***************************************************************************)
EXTENDS Programs, TLC

Executables == << <<"shel", "l">>, <<"cat">>, <<"ls">>, <<"grep">>, <<"fish">>, <<"syserr">>,
                  <<"count", "e", "r">>, <<"hell", "o">>, <<"sigtest">>, <<"client">> >>

Texts == [frame0 |-> <<"a", " ", "\n", "\n", "b">>,
          frame1 |-> <<" ", "c", "d", "\n", "e", "\n", "f", "\n">>,
          text   |-> <<"x", "\n", "x", "y", "z", "\n", "\n", "z", "x", "y">>]

Entry(name, type, inode) == [name |-> name, file_type |-> type, inode_count |-> inode]

MCDentries ==
    << Entry(<<".">>, Directory, 0), Entry(<<"rtc">>, Rtc, 0) >>
    \o [i \in DOMAIN Executables |-> Entry(Executables[i], RegularFile, 1)]
    \o << Entry(<<"frame0">>, RegularFile, 2), Entry(<<"frame1">>, RegularFile, 3),
          Entry(<<"text">>, RegularFile, 4), Entry(<<"bad">>, RegularFile, 5),
          Entry(<<>>, Rtc, 0) >>

\* Every text has its blocks from the last to the first.
Blocks(s) == (Len(s) + 3) \div 4
BlockOf(s, first, b) == [i \in 0 .. 3 |->
    LET k == 4 * (first + Blocks(s) - 1 - b) + i + 1 IN IF k <= Len(s) THEN s[k] ELSE "?"]
Placed(s, first) == [data_len |-> Len(s),
                     data_inode_block_nums |-> [n \in 1 .. Blocks(s) |-> first + Blocks(s) - n]]

MCInodes ==
    0 :> [data_len |-> 0, data_inode_block_nums |-> <<0>>]
    @@ 1 :> Placed(Magic, 0) @@ 2 :> Placed(Texts.frame0, 1) @@ 3 :> Placed(Texts.frame1, 3)
    @@ 4 :> Placed(Texts.text, 5)
    @@ 5 :> [data_len |-> 6, data_inode_block_nums |-> <<1, 99>>]

MCData == [b \in 0 .. 7 |->
    CASE b = 0 -> BlockOf(Magic, 0, b)
      [] b \in 1 .. 2 -> BlockOf(Texts.frame0, 1, b)
      [] b \in 3 .. 4 -> BlockOf(Texts.frame1, 3, b)
      [] OTHER -> BlockOf(Texts.text, 5, b)]

MCNames == { <<>>, <<".">>, <<"frame0">>, <<"bad">>, <<"none">> }
MCRequests == {-1, 0, 3}

\* What the user types: commands of every program, the digits the programs
\* ask for, and every short line of a name and spaces.
Words == {<<"cat">>, <<"ls">>, <<" ">>}
MCLines ==
    { <<>>, <<"exit">>, <<"shel", "l">>, <<"client">>, <<"fish">>, <<"syserr">>, <<"count", "e", "r">>, <<"count", "e", "r", "s">>,
      <<"hell", "o">>, <<"hell", "o", "o">>, <<"sigtest">>, <<"sigtest", " ", "1">>, <<"rtc">>, <<"bad">>,
      <<"grep">>, <<"grep", " ", "x">>, <<"grep", " ", "x", "y">>, <<"cat", " ", "text">>, <<"cat", " ", "bad">>,
      <<"cat", " ", "frame1">>, <<"cat", " ", "none">>, <<"cat", " ", ".">>, <<"cat", " ", "rtc">> }
    \cup { <<ToString(n)>> : n \in 0 .. 9 }
    \cup { u \o v \o w : u, v, w \in Words \cup {<<>>} }

MCCounts == [d \in {"0", "1", "2"} |-> CASE d = "0" -> 2 [] d = "1" -> 3 [] d = "2" -> 5]
=============================================================================
