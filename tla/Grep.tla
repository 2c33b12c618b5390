-------------------------------- MODULE Grep --------------------------------
(***************************************************************************)
(* The lines grep searches in its buffer (do_one_file of ece391grep.c):    *)
(* data[0 .. last - 1] is what it has read and not searched, data[last]    *)
(* whatever was there before.                                              *)
(***************************************************************************)
EXTENDS Integers, Sequences

\* strncmp() at every position: the line has s in it
Matches(line, s) ==
    \E i \in 1 .. Len(line) - Len(s) + 1 : SubSeq(line, i, i + Len(s) - 1) = s

LineEnd(data, start, last) ==
    CHOOSE e \in start .. last :
        /\ e = last \/ data[e] = "\n"
        /\ \A i \in start .. e - 1 : data[i] # "\n"

\* The lines found from line_start on, and from where on the buffer is kept
\* for the next read: a line that does not end in it, unless it is the first
\* or the file ended.
Mutant_Search(data, last, cnt, s) ==
    LET line == [i \in 1 .. last |-> data[i - 1]] IN
    [found |-> IF Matches(line, s) THEN <<line>> ELSE <<>>, kept |-> last]
Search(data, last, cnt, s) ==
    LET from[start \in 0 .. last] ==
            LET end == LineEnd(data, start, last)
                line == [i \in 1 .. end - start |-> data[start + i - 1]]
                found == IF Matches(line, s) THEN <<line>> ELSE <<>>
            IN  IF data[end] # "\n" /\ cnt # 0 /\ start # 0
                THEN [found |-> <<>>, kept |-> start]
                ELSE IF end + 1 >= last THEN [found |-> found, kept |-> last]
                ELSE [from[end + 1] EXCEPT !.found = found \o @]
    IN  from[0]

\* The buffer after it: ends of lines are cleared, then strcpy() moves down
\* what is kept.
Shifted(data, last, kept) ==
    LET ended == kept < last \/ last = 0 \/ data[last - 1] # "\n"
        cleared == [i \in DOMAIN data |->
                       IF (i < last /\ data[i] = "\n") \/ (i = last /\ ended) THEN "NUL" ELSE data[i]]
    IN  [i \in DOMAIN data |->
            IF kept < last /\ i <= last - kept THEN cleared[kept + i] ELSE cleared[i]]

Filled(data, last, bytes) ==
    [i \in DOMAIN data |-> IF i \in last .. last + Len(bytes) - 1 THEN bytes[i - last + 1] ELSE data[i]]
=============================================================================
