---------------------------- MODULE CommonLemmas ----------------------------
(***************************************************************************)
(* Facts that the proofs about several modules rest on: induction and      *)
(* recursion over the natural numbers, and queues as sequences.            *)
(*                                                                         *)
(* Induction is used in the form of sets: the set of the numbers with a    *)
(* property has 0 and is closed under successor, so it is Nat.             *)
(***************************************************************************)
EXTENDS Integers, Sequences, SequenceTheorems, WellFoundedInduction, TLAPS

(***************************************************************************)
(* Induction and recursion                                                 *)
(***************************************************************************)

\* A set of numbers that is not empty has a least element.
LEMMA NatLeast ==
    ASSUME NEW T, T \subseteq Nat, T # {}
    PROVE  \E x \in T : \A y \in T : x <= y
<1>1. PICK R : R = OpToRel(<, Nat)
    OBVIOUS
<1>2. IsWellFoundedOn(R, Nat)
    BY <1>1, NatLessThanWellFounded
<1>3. PICK x \in T : \A y \in T : ~(<<y, x>> \in R)
    BY <1>2, WFMin
<1>4. R = {ss \in Nat \X Nat : ss[1] < ss[2]}
    BY <1>1 DEF OpToRel
<1>5. \A y \in T : ~(y < x)
    BY <1>3, <1>4
<1> QED BY <1>3, <1>5

\* Induction: a set with 0 that is closed under successor is Nat.
LEMMA NatClosed ==
    ASSUME NEW T, 0 \in T, \A n \in Nat : n \in T => n + 1 \in T
    PROVE  \A n \in Nat : n \in T
<1> SUFFICES ASSUME Nat \ T # {} PROVE FALSE
    OBVIOUS
<1>1. PICK n \in Nat \ T : \A m \in Nat \ T : n <= m
    <2>1. Nat \ T \subseteq Nat
        OBVIOUS
    <2> QED  BY <2>1, NatLeast
<1>2. n # 0
    BY <1>1
<1>3. n - 1 \in Nat /\ n - 1 \notin Nat \ T
    BY <1>1, <1>2
<1>4. (n - 1) + 1 = n
    BY <1>1
<1> QED  BY <1>1, <1>3, <1>4

\* A set is Nat if it has every number below which it has all.
LEMMA NatStrong ==
    ASSUME NEW T, \A n \in Nat : (\A m \in Nat : m < n => m \in T) => n \in T
    PROVE  \A n \in Nat : n \in T
<1> SUFFICES ASSUME Nat \ T # {} PROVE FALSE
    OBVIOUS
<1>1. PICK n \in Nat \ T : \A m \in Nat \ T : n <= m
    <2>1. Nat \ T \subseteq Nat
        OBVIOUS
    <2> QED  BY <2>1, NatLeast
<1>2. \A m \in Nat : m < n => m \in T
    BY <1>1
<1> QED  BY <1>1, <1>2

\* The first n + 1 values of the function that starts with a and goes on by F.
FirstValues(S, a, F, n) ==
    {h \in [0 .. n -> S] : h[0] = a /\ \A i \in 0 .. n - 1 : h[i + 1] = F[i][h[i]]}

LEMMA FirstValuesExist ==
    ASSUME NEW S, NEW a \in S, NEW F \in [Nat -> [S -> S]], NEW n \in Nat
    PROVE  FirstValues(S, a, F, n) # {}
<1> DEFINE T == {m \in Nat : FirstValues(S, a, F, m) # {}}
<1>1. 0 \in T
    <2>1. PICK h : h = [i \in 0 .. 0 |-> a]
        OBVIOUS
    <2>2. h \in [0 .. 0 -> S] /\ h[0] = a
        BY <2>1
    <2>3. 0 .. 0 - 1 = {}
        OBVIOUS
    <2>4. h \in FirstValues(S, a, F, 0)
        BY <2>2, <2>3 DEF FirstValues
    <2> QED  BY <2>4
<1>2. ASSUME NEW m \in Nat, m \in T PROVE m + 1 \in T
    <2>1. PICK h \in [0 .. m -> S] : h[0] = a /\ \A i \in 0 .. m - 1 : h[i + 1] = F[i][h[i]]
        BY <1>2 DEF FirstValues
    <2>2. PICK D : D = 0 .. m + 1
        OBVIOUS
    <2>3. PICK b \in S : b = F[m][h[m]]
        <3>1. m \in 0 .. m
            OBVIOUS
        <3>2. h[m] \in S
            BY <2>1, <3>1
        <3> QED  BY <3>2
    <2>4. PICK k : k = [i \in D |-> IF i \in 0 .. m THEN h[i] ELSE b]
        OBVIOUS
    <2>5. k \in [D -> S] /\ \A i \in 0 .. m : k[i] = h[i]
        <3>1. \A i \in 0 .. m : i \in D
            BY <2>2
        <3> QED  BY <2>1, <2>4, <3>1
    <2>6. k[m + 1] = b
        <3>1. m + 1 \in D /\ m + 1 \notin 0 .. m
            BY <2>2
        <3> QED  BY <2>4, <3>1
    <2>7. ASSUME NEW i \in 0 .. (m + 1) - 1 PROVE k[i + 1] = F[i][k[i]]
        <3>1. CASE i = m
            <4>1. m \in 0 .. m
                OBVIOUS
            <4> QED  BY <2>3, <2>5, <2>6, <3>1, <4>1
        <3>2. CASE i # m
            <4>1. i \in 0 .. m - 1 /\ i \in 0 .. m /\ i + 1 \in 0 .. m
                BY <3>2
            <4> QED  BY <2>1, <2>5, <4>1
        <3> QED  BY <3>1, <3>2
    <2>8. k[0] = a
        <3>1. 0 \in 0 .. m
            OBVIOUS
        <3> QED  BY <2>1, <2>5, <3>1
    <2>9. k \in FirstValues(S, a, F, m + 1)
        BY <2>2, <2>5, <2>7, <2>8 DEF FirstValues
    <2> QED  BY <2>9
<1>3. \A m \in Nat : m \in T
    <2> HIDE DEF T
    <2> QED  BY <1>1, <1>2, NatClosed
<1> QED  BY <1>3

\* g starts with a and goes on by F.
Follows(g, a, F) == g[0] = a /\ \A n \in Nat : g[n + 1] = F[n][g[n]]

\* Recursion: there is a function that starts with a and goes on by F.
LEMMA Recursion ==
    ASSUME NEW S, NEW a \in S, NEW F \in [Nat -> [S -> S]]
    PROVE  \E g \in [Nat -> S] : Follows(g, a, F)
<1>1. ASSUME NEW n \in Nat, NEW h \in FirstValues(S, a, F, n), NEW k \in FirstValues(S, a, F, n + 1)
      PROVE  k[n] = h[n]
    <2> DEFINE T == {i \in Nat : i <= n => k[i] = h[i]}
    <2>1. h[0] = a /\ \A i \in 0 .. n - 1 : h[i + 1] = F[i][h[i]]
        BY DEF FirstValues
    <2>2. k[0] = a /\ \A i \in 0 .. (n + 1) - 1 : k[i + 1] = F[i][k[i]]
        BY DEF FirstValues
    <2>3. 0 \in T
        BY <2>1, <2>2
    <2>4. ASSUME NEW i \in Nat, i \in T PROVE i + 1 \in T
        <3> SUFFICES ASSUME i + 1 <= n PROVE k[i + 1] = h[i + 1]
            OBVIOUS
        <3>1. i \in 0 .. n - 1 /\ i \in 0 .. (n + 1) - 1 /\ i <= n
            OBVIOUS
        <3>2. k[i] = h[i]
            BY <2>4, <3>1
        <3> QED  BY <2>1, <2>2, <3>1, <3>2
    <2>5. \A i \in Nat : i \in T
        <3> HIDE DEF T
        <3> QED  BY <2>3, <2>4, NatClosed
    <2> QED  BY <2>5
<1>2. PICK c : c = [n \in Nat |-> CHOOSE h \in FirstValues(S, a, F, n) : TRUE]
    OBVIOUS
<1>3. ASSUME NEW n \in Nat PROVE c[n] \in FirstValues(S, a, F, n)
    BY <1>2, FirstValuesExist
<1>4. PICK g : g = [n \in Nat |-> c[n][n]]
    OBVIOUS
<1>5. ASSUME NEW n \in Nat PROVE g[n] \in S /\ g[n] = c[n][n]
    <2>1. PICK h : h = c[n] /\ h \in FirstValues(S, a, F, n)
        BY <1>3
    <2>2. h \in [0 .. n -> S] /\ n \in 0 .. n
        BY <2>1 DEF FirstValues
    <2> QED  BY <1>4, <2>1, <2>2
<1>6. g[0] = a
    <2>1. c[0][0] = a
        BY <1>3 DEF FirstValues
    <2> QED  BY <1>5, <2>1
<1>7. ASSUME NEW n \in Nat PROVE g[n + 1] = F[n][g[n]]
    <2>1. n + 1 \in Nat /\ n \in 0 .. (n + 1) - 1
        OBVIOUS
    <2>2. c[n + 1][n + 1] = F[n][c[n + 1][n]]
        BY <1>3, <2>1 DEF FirstValues
    <2>3. c[n + 1][n] = c[n][n]
        BY <1>1, <1>3, <2>1
    <2> QED  BY <1>5, <2>1, <2>2, <2>3
<1>8. g \in [Nat -> S]
    BY <1>4, <1>5
<1> QED  BY <1>6, <1>7, <1>8 DEF Follows

(***************************************************************************)
(* Queues: schedule() takes the thread at the front and appends the one    *)
(* that ran                                                                *)
(***************************************************************************)

\* No element occurs twice in s, and x does not occur in it.
Distinct(s)  == \A i, j \in 1 .. Len(s) : s[i] = s[j] => i = j
Absent(s, x) == \A i \in 1 .. Len(s) : s[i] # x

\* The elements of the queue after schedule() are the old ones, moved up by
\* one place, and the thread that ran, at the end.
LEMMA RotateElements ==
    ASSUME NEW S, NEW s \in Seq(S), NEW c \in S, s # <<>>
    PROVE  /\ Append(Tail(s), c) \in Seq(S)
           /\ Len(Append(Tail(s), c)) = Len(s)
           /\ \A i \in 1 .. Len(s) - 1 : Append(Tail(s), c)[i] = s[i + 1]
           /\ Append(Tail(s), c)[Len(s)] = c
<1>1. /\ Tail(s) \in Seq(S) /\ Len(s) \in Nat \ {0} /\ Len(Tail(s)) = Len(s) - 1
      /\ \A i \in 1 .. Len(s) - 1 : Tail(s)[i] = s[i + 1]
  OBVIOUS
<1> QED BY <1>1

\* Rotating a queue without repetitions that does not hold the running
\* thread gives such a queue again, for the thread that was at the front.
LEMMA RotateDistinct ==
    ASSUME NEW S, NEW s \in Seq(S), NEW c \in S, s # <<>>,
           Distinct(s), Absent(s, c)
    PROVE  Distinct(Append(Tail(s), c)) /\ Absent(Append(Tail(s), c), Head(s))
<1> DEFINE t == Append(Tail(s), c)
<1>1. Len(s) \in Nat \ {0} /\ Head(s) = s[1]
  OBVIOUS
<1>2. /\ Len(t) = Len(s)
      /\ \A i \in 1 .. Len(s) - 1 : t[i] = s[i + 1]
      /\ t[Len(s)] = c
  BY RotateElements
<1> HIDE DEF t
<1>3. Distinct(t)
  BY <1>1, <1>2 DEF Distinct, Absent
<1>4. Absent(t, Head(s))
  BY <1>1, <1>2 DEF Distinct, Absent
<1> QED BY <1>3, <1>4 DEF t

\* One element put in front of a sequence.
LEMMA PushOne ==
    ASSUME NEW S, NEW a \in S, NEW t \in Seq(S)
    PROVE  /\ <<a>> \o t \in Seq(S)
           /\ Len(<<a>> \o t) = Len(t) + 1 /\ Len(t) \in Nat
           /\ (<<a>> \o t)[1] = a
           /\ \A i \in 2 .. Len(t) + 1 : (<<a>> \o t)[i] = t[i - 1]
  OBVIOUS

\* Two elements put in front of a sequence.
LEMMA PushTwo ==
    ASSUME NEW S, NEW a \in S, NEW b \in S, NEW t \in Seq(S)
    PROVE  /\ <<a, b>> \o t \in Seq(S)
           /\ Len(<<a, b>> \o t) = Len(t) + 2 /\ Len(t) \in Nat
           /\ (<<a, b>> \o t)[1] = a /\ (<<a, b>> \o t)[2] = b
           /\ \A i \in 3 .. Len(t) + 2 : (<<a, b>> \o t)[i] = t[i - 2]
  OBVIOUS
=============================================================================
