----------------------------- MODULE Induction -----------------------------
(***************************************************************************)
(* Induction over the numbers, stated for sets instead of predicates, and  *)
(* the functions that the models define by recursion over a count.         *)
(***************************************************************************)
EXTENDS Integers, WellFoundedInduction, TLAPS

LEMMA NatOrder ==
    \E R : IsWellFoundedOn(R, Nat) /\ \A x, y \in Nat : y < x => <<y, x>> \in R
<1>1. \A x, y \in Nat : y < x => <<y, x>> \in OpToRel(<, Nat)
    BY Zenon DEF OpToRel
<1> QED BY <1>1, NatLessThanWellFounded, Zenon

\* A set of numbers that is not empty has a least element.
LEMMA LeastElement ==
    ASSUME NEW T, T \subseteq Nat, T # {}
    PROVE  \E x \in T : \A y \in T : x <= y
<1>1. PICK R : IsWellFoundedOn(R, Nat) /\ \A x, y \in Nat : y < x => <<y, x>> \in R
    BY NatOrder
<1>2. PICK x \in T : \A y \in T : ~ (<<y, x>> \in R)
    BY <1>1, WFMin
<1>3. ASSUME NEW y \in T PROVE x <= y
    <2>1. x \in Nat /\ y \in Nat
        OBVIOUS
    <2>2. ~(y < x)
        BY <1>1, <1>2, <2>1
    <2> QED BY <2>1, <2>2
<1> QED BY <1>3

\* A set that holds 0, and with a number the next, holds them all.
LEMMA SetInduction ==
    ASSUME NEW S, 0 \in S, \A n \in Nat : n \in S => n + 1 \in S
    PROVE  \A n \in Nat : n \in S
<1> SUFFICES ASSUME NEW m \in Nat, m \notin S PROVE FALSE
    OBVIOUS
<1> DEFINE T == Nat \ S
<1>1. T \subseteq Nat /\ T # {}
    OBVIOUS
<1>2. PICK x \in T : \A y \in T : x <= y
    BY <1>1, LeastElement
<1>3. x \in Nat /\ x # 0 /\ x - 1 \in Nat
    OBVIOUS
<1>4. x - 1 \in S
    BY <1>2, <1>3
<1>5. (x - 1) + 1 = x
    BY <1>3
<1> QED BY <1>3, <1>4, <1>5

\* The same up to a limit
LEMMA BoundedInduction ==
    ASSUME NEW m \in Nat, NEW S, 0 \in S, \A n \in 1 .. m : n - 1 \in S => n \in S
    PROVE  \A n \in 0 .. m : n \in S
<1> DEFINE T == {n \in Nat : n <= m => n \in S}
<1>1. 0 \in T
    OBVIOUS
<1>2. ASSUME NEW n \in Nat, n \in T PROVE n + 1 \in T
    <2>1. CASE n + 1 <= m
        <3>1. n \in S /\ n + 1 \in 1 .. m /\ (n + 1) - 1 = n
            BY <1>2, <2>1
        <3> QED BY <3>1
    <2>2. CASE ~(n + 1 <= m)
        BY <2>2
    <2> QED BY <2>1, <2>2
<1> HIDE DEF T
<1>3. \A n \in Nat : n \in T
    BY <1>1, <1>2, SetInduction
<1> QED BY <1>3 DEF T

\* Steps G[1], G[2], ... taken one after the other from k have results.
Iteration(f, k, G, m) == f[0] = k /\ \A i \in 1 .. m : f[i] = G[i][f[i - 1]]

LEMMA Iterates ==
    ASSUME NEW K, NEW k \in K, NEW G \in [Nat -> [K -> K]], NEW m \in Nat
    PROVE  \E f \in [0 .. m -> K] : Iteration(f, k, G, m)
<1> DEFINE Taken(n, f) == f[0] = k /\ \A i \in 1 .. n : f[i] = G[i][f[i - 1]]
           S == {n \in Nat : \E f \in [0 .. n -> K] : Taken(n, f)}
<1>1. 0 \in S
    <2>1. [i \in 0 .. 0 |-> k] \in [0 .. 0 -> K] /\ Taken(0, [i \in 0 .. 0 |-> k])
        OBVIOUS
    <2> QED BY <2>1
<1>2. ASSUME NEW n \in Nat, n \in S PROVE n + 1 \in S
    <2>1. PICK f \in [0 .. n -> K] : Taken(n, f)
        BY <1>2
    <2> DEFINE g == [i \in 0 .. n + 1 |-> IF i <= n THEN f[i] ELSE G[n + 1][f[n]]]
    <2>2. f[n] \in K /\ n + 1 \in Nat
        OBVIOUS
    <2>3. G[n + 1][f[n]] \in K
        BY <2>2
    <2>4. g \in [0 .. n + 1 -> K]
        BY <2>3
    <2>5. g[0] = k
        BY <2>1
    <2>6. ASSUME NEW i \in 1 .. n + 1 PROVE g[i] = G[i][g[i - 1]]
        <3>1. i - 1 \in 0 .. n /\ g[i - 1] = f[i - 1]
            OBVIOUS
        <3>2. CASE i <= n
            BY <2>1, <3>1, <3>2
        <3>3. CASE i = n + 1
            BY <3>1, <3>3
        <3> QED BY <3>2, <3>3
    <2>7. Taken(n + 1, g)
        BY <2>5, <2>6
    <2> HIDE DEF Taken, g
    <2>8. \E h \in [0 .. n + 1 -> K] : Taken(n + 1, h)
        BY <2>4, <2>7
    <2> QED BY <2>8
<1> HIDE DEF S
<1>3. m \in S
    BY <1>1, <1>2, SetInduction
<1> QED BY <1>3 DEF S, Iteration

\* A function whose value at i is given, or follows from that at a greater
\* number, up to m.
Descent(f, m, Stop, Base, Step, Jump) ==
    \A i \in 0 .. m : f[i] = IF i \in Stop THEN Base[i] ELSE Step[i][f[Jump[i]]]

LEMMA Descends ==
    ASSUME NEW K, NEW m \in Nat, NEW Stop, NEW Base \in [0 .. m -> K],
           NEW Step \in [0 .. m -> [K -> K]], NEW Jump,
           \A i \in (0 .. m) \ Stop : Jump[i] \in i + 1 .. m
    PROVE  \E f \in [0 .. m -> K] : Descent(f, m, Stop, Base, Step, Jump)
<1> DEFINE Taken(i, f) == f[i] = IF i \in Stop THEN Base[i] ELSE Step[i][f[Jump[i]]]
           From(n, f) == \A i \in m - n .. m : Taken(i, f)
           S == {n \in 0 .. m : \E f \in [0 .. m -> K] : From(n, f)}
<1>1. 0 \in S
    <2>1. m \in Stop
        OBVIOUS
    <2>2. From(0, Base)
        BY <2>1
    <2> QED BY <2>2
<1>2. ASSUME NEW n \in 1 .. m, n - 1 \in S PROVE n \in S
    <2>1. PICK f \in [0 .. m -> K] : From(n - 1, f)
        BY <1>2
    <2> DEFINE j == m - n
               x == IF j \in Stop THEN Base[j] ELSE Step[j][f[Jump[j]]]
               g == [f EXCEPT ![j] = x]
    <2>2. j \in 0 .. m /\ j < m
        OBVIOUS
    <2>3. x \in K
        <3>1. CASE j \in Stop
            BY <2>2, <3>1
        <3>2. CASE j \notin Stop
            <4>1. Jump[j] \in 0 .. m
                BY <2>2, <3>2
            <4>2. f[Jump[j]] \in K
                BY <4>1
            <4> QED BY <2>2, <3>2, <4>2
        <3> QED BY <3>1, <3>2
    <2>4. g \in [0 .. m -> K] /\ \A i \in 0 .. m : g[i] = IF i = j THEN x ELSE f[i]
        BY <2>2, <2>3
    <2>5. ASSUME NEW i \in m - n .. m PROVE Taken(i, g)
        <3>1. i \in 0 .. m /\ i >= j
            OBVIOUS
        <3>2. i \notin Stop => Jump[i] \in 0 .. m /\ Jump[i] > j
            BY <3>1
        <3>3. i \notin Stop => g[Jump[i]] = f[Jump[i]]
            BY <2>4, <3>2
        <3> HIDE DEF g
        <3>4. CASE i = j
            <4>1. g[i] = x
                BY <2>4, <3>1, <3>4
            <4> QED BY <3>3, <3>4, <4>1
        <3>5. CASE i # j
            <4>1. i \in m - (n - 1) .. m
                BY <3>1, <3>5
            <4>2. Taken(i, f)
                BY <2>1, <4>1
            <4> QED BY <2>4, <3>1, <3>3, <3>5, <4>2
        <3> QED BY <3>4, <3>5
    <2>6. From(n, g)
        BY <2>5
    <2> HIDE DEF From, g
    <2>7. \E h \in [0 .. m -> K] : From(n, h)
        BY <2>4, <2>6
    <2> QED BY <2>7
<1> HIDE DEF S
<1>3. m \in S
    <2>1. \A n \in 0 .. m : n \in S
        BY <1>1, <1>2, BoundedInduction
    <2> QED BY <2>1
<1>4. PICK f \in [0 .. m -> K] : From(m, f)
    BY <1>3 DEF S
<1>5. \A i \in 0 .. m : Taken(i, f)
    BY <1>4
<1>6. Descent(f, m, Stop, Base, Step, Jump)
    BY <1>5 DEF Descent
<1> QED BY <1>6
=============================================================================
