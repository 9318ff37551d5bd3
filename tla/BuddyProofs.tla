---------------------------- MODULE BuddyProofs ----------------------------
(***************************************************************************)
(* The page allocator, for every number of pages, every first frame and    *)
(* every size of buddy_table that the machine's memory fits in, and the    *)
(* faults, evictions and slabs of module Paging on top of it, for every    *)
(* number of threads, pages and page tables.                               *)
(***************************************************************************)
EXTENDS Paging, CommonLemmas, FiniteSetTheorems

(***************************************************************************)
(* pow2                                                                    *)
(***************************************************************************)
LEMMA PowerIs ==
    power = [x \in Nat |-> IF x = 0 THEN 1 ELSE 2 * power[x - 1]]
<1>1. PICK F : F = [n \in Nat |-> [x \in Nat |-> 2 * x]]
    OBVIOUS
<1>2. F \in [Nat -> [Nat -> Nat]]
    BY <1>1
<1>3. PICK g \in [Nat -> Nat] : g[0] = 1 /\ \A n \in Nat : g[n + 1] = F[n][g[n]]
    <2>1. PICK S : S = Nat
        OBVIOUS
    <2>2. PICK a : a \in S /\ a = 1
        BY <2>1
    <2>3. F \in [Nat -> [S -> S]] /\ a \in S
        BY <1>2, <2>1, <2>2
    <2>4. \E g \in [Nat -> S] : Follows(g, a, F)
        BY <2>3, Recursion
    <2> QED  BY <2>1, <2>2, <2>4 DEF Follows
<1>4. \A n \in Nat : g[n + 1] = 2 * g[n]
    BY <1>1, <1>3
<1>5. ASSUME NEW x \in Nat PROVE g[x] = IF x = 0 THEN 1 ELSE 2 * g[x - 1]
    <2>1. CASE x = 0
        BY <1>3, <2>1
    <2>2. CASE x # 0
        <3>1. x - 1 \in Nat /\ (x - 1) + 1 = x
            BY <2>2
        <3> QED  BY <1>4, <2>2, <3>1
    <2> QED  BY <2>1, <2>2
<1>6. g = [x \in Nat |-> IF x = 0 THEN 1 ELSE 2 * g[x - 1]]
    BY <1>3, <1>5
<1> QED  BY <1>6 DEF power

LEMMA PowStep ==
    pow2(0) = 1 /\ \A k \in Nat : pow2(k + 1) = 2 * pow2(k)
<1>1. pow2(0) = 1
    BY PowerIs DEF pow2
<1>2. ASSUME NEW k \in Nat PROVE pow2(k + 1) = 2 * pow2(k)
    <2>1. k + 1 \in Nat /\ k + 1 # 0 /\ (k + 1) - 1 = k
        OBVIOUS
    <2> QED  BY <2>1, PowerIs DEF pow2
<1> QED  BY <1>1, <1>2

LEMMA PowNat == \A k \in Nat : pow2(k) \in Nat \ {0}
<1> DEFINE T == {k \in Nat : pow2(k) \in Nat \ {0}}
<1>1. 0 \in T
    BY PowStep
<1>2. ASSUME NEW k \in Nat, k \in T PROVE k + 1 \in T
    BY <1>2, PowStep
<1>3. \A k \in Nat : k \in T
    <2> HIDE DEF T
    <2> QED  BY <1>1, <1>2, NatClosed
<1> QED  BY <1>3

LEMMA PowSucc ==
    ASSUME NEW k \in Nat
    PROVE  /\ pow2(k) \in Nat \ {0} /\ pow2(k + 1) \in Nat \ {0}
           /\ pow2(k + 1) = 2 * pow2(k)
<1>1. k + 1 \in Nat
    OBVIOUS
<1> QED  BY <1>1, PowNat, PowStep

\* A larger exponent, a larger power.
LEMMA PowMono == ASSUME NEW j \in Nat, NEW k \in Nat, j <= k PROVE pow2(j) <= pow2(k)
<1> DEFINE T == {d \in Nat : pow2(j) <= pow2(j + d)}
<1>1. 0 \in T
    BY PowNat
<1>2. ASSUME NEW d \in Nat, d \in T PROVE d + 1 \in T
    <2>1. j + d \in Nat /\ j + (d + 1) = (j + d) + 1
        OBVIOUS
    <2>2. pow2(j + (d + 1)) = 2 * pow2(j + d)
        BY <2>1, PowStep
    <2>3. pow2(j) \in Nat /\ pow2(j + d) \in Nat
        BY <2>1, PowNat
    <2> QED  BY <1>2, <2>2, <2>3
<1>3. \A d \in Nat : d \in T
    <2> HIDE DEF T
    <2> QED  BY <1>1, <1>2, NatClosed
<1>4. k - j \in Nat /\ j + (k - j) = k
    OBVIOUS
<1> QED  BY <1>3, <1>4

LEMMA PowLess == ASSUME NEW j \in Nat, NEW k \in Nat, pow2(j) < pow2(k + 1) PROVE j <= k
<1> SUFFICES ASSUME ~(j <= k) PROVE FALSE
    OBVIOUS
<1>1. k + 1 \in Nat /\ k + 1 <= j
    OBVIOUS
<1>2. pow2(k + 1) <= pow2(j) /\ pow2(k + 1) \in Nat /\ pow2(j) \in Nat
    BY <1>1, PowMono, PowNat
<1> QED  BY <1>2

(***************************************************************************)
(* log2: the loop counts the doublings of v                                *)
(***************************************************************************)
LEMMA DoublingsExist ==
    ASSUME NEW x \in Nat
    PROVE  \E c \in [1 .. x + 1 -> Nat] :
               c = [v \in 1 .. x + 1 |-> IF v * 2 <= x THEN 1 + c[v * 2] ELSE 0]
<1> DEFINE Good(c, d) == \A v \in d .. x + 1 : c[v] = IF v * 2 <= x THEN 1 + c[v * 2] ELSE 0
           T == {n \in Nat : n <= x => \E c \in [1 .. x + 1 -> Nat] : Good(c, (x + 1) - n)}
<1>1. 0 \in T
    <2>1. PICK c : c = [v \in 1 .. x + 1 |-> 0]
        OBVIOUS
    <2>2. c \in [1 .. x + 1 -> Nat]
        BY <2>1
    <2>3. ASSUME NEW v \in (x + 1) - 0 .. x + 1 PROVE c[v] = 0 /\ ~(v * 2 <= x)
        <3>1. v = x + 1 /\ v \in 1 .. x + 1
            OBVIOUS
        <3> QED  BY <2>1, <3>1
    <2> QED  BY <2>2, <2>3
<1>2. ASSUME NEW n \in Nat, n \in T PROVE n + 1 \in T
    <2> SUFFICES ASSUME n + 1 <= x
                 PROVE  \E c \in [1 .. x + 1 -> Nat] : Good(c, (x + 1) - (n + 1))
        OBVIOUS
    <2>1. PICK c \in [1 .. x + 1 -> Nat] : Good(c, (x + 1) - n)
        BY <1>2
    <2>2. PICK d \in 1 .. x : d = x - n
        OBVIOUS
    <2>3. PICK e : e = IF d * 2 <= x THEN 1 + c[d * 2] ELSE 0
        OBVIOUS
    <2>4. e \in Nat
        <3>1. d * 2 <= x => d * 2 \in 1 .. x + 1
            BY <2>2
        <3> QED  BY <2>1, <2>3, <3>1
    <2>5. PICK b : b = [v \in 1 .. x + 1 |-> IF v = d THEN e ELSE c[v]]
        OBVIOUS
    <2>6. b \in [1 .. x + 1 -> Nat]
        BY <2>1, <2>4, <2>5
    <2>7. ASSUME NEW v \in d .. x + 1 PROVE b[v] = IF v * 2 <= x THEN 1 + b[v * 2] ELSE 0
        <3>1. v * 2 <= x => v * 2 \in 1 .. x + 1 /\ v * 2 # d
            BY <2>2
        <3>2. v * 2 <= x => b[v * 2] = c[v * 2]
            BY <2>5, <3>1
        <3>3. v \in 1 .. x + 1
            BY <2>2
        <3>4. CASE v = d
            BY <2>3, <2>5, <3>2, <3>3, <3>4
        <3>5. CASE v # d
            <4>1. v \in (x + 1) - n .. x + 1
                BY <2>2, <3>5
            <4>2. c[v] = IF v * 2 <= x THEN 1 + c[v * 2] ELSE 0
                BY <2>1, <4>1
            <4>3. b[v] = c[v]
                BY <2>5, <3>3, <3>5
            <4> QED  BY <3>2, <4>2, <4>3
        <3> QED  BY <3>4, <3>5
    <2>8. d = (x + 1) - (n + 1)
        BY <2>2
    <2> QED  BY <2>6, <2>7, <2>8
<1>3. \A n \in Nat : n \in T
    <2> HIDE DEF T
    <2> QED  BY <1>1, <1>2, NatClosed
<1>4. PICK c \in [1 .. x + 1 -> Nat] : Good(c, 1)
    <2>1. x \in T /\ (x + 1) - x = 1
        BY <1>3
    <2> QED  BY <2>1
<1> QED  BY <1>4

\* The doublings counted from v, for a v in reach.
LEMMA Log2Is ==
    ASSUME NEW x \in Nat
    PROVE  \E c \in [1 .. x + 1 -> Nat] :
               /\ log2(x) = c[1]
               /\ \A v \in 1 .. x + 1 : c[v] = IF v * 2 <= x THEN 1 + c[v * 2] ELSE 0
<1>1. PICK f : f = CHOOSE c : c = [v \in 1 .. x + 1 |-> IF v * 2 <= x THEN 1 + c[v * 2] ELSE 0]
    OBVIOUS
<1>2. f = [v \in 1 .. x + 1 |-> IF v * 2 <= x THEN 1 + f[v * 2] ELSE 0]
    BY <1>1, DoublingsExist
<1>3. log2(x) = f[1]
    BY <1>1 DEF log2
<1>4. \A v \in 1 .. x + 1 : f[v] = IF v * 2 <= x THEN 1 + f[v * 2] ELSE 0
    BY <1>2
<1> DEFINE T == {n \in Nat : \A v \in 1 .. x + 1 : (x + 1) - n <= v => f[v] \in Nat}
<1>5. 0 \in T
    BY <1>4
<1>6. ASSUME NEW n \in Nat, n \in T PROVE n + 1 \in T
    <2> SUFFICES ASSUME NEW v \in 1 .. x + 1, (x + 1) - (n + 1) <= v PROVE f[v] \in Nat
        OBVIOUS
    <2>1. CASE v * 2 <= x
        <3>1. v * 2 \in 1 .. x + 1 /\ (x + 1) - n <= v * 2
            BY <2>1
        <3>2. f[v * 2] \in Nat
            BY <1>6, <3>1
        <3> QED  BY <1>4, <2>1, <3>2
    <2>2. CASE ~(v * 2 <= x)
        BY <1>4, <2>2
    <2> QED  BY <2>1, <2>2
<1>7. \A n \in Nat : n \in T
    <2> HIDE DEF T
    <2> QED  BY <1>5, <1>6, NatClosed
<1>8. \A v \in 1 .. x + 1 : f[v] \in Nat
    <2>1. x \in T
        BY <1>7
    <2> QED  BY <2>1
<1>9. f \in [1 .. x + 1 -> Nat]
    BY <1>2, <1>8
<1> QED  BY <1>3, <1>4, <1>9

\* log2 rounds down: 2^log2(x) is the largest power of two up to x.
LEMMA Log2Range ==
    ASSUME NEW x \in Nat \ {0}
    PROVE  /\ log2(x) \in Nat
           /\ pow2(log2(x)) <= x /\ x < pow2(log2(x) + 1)
<1>1. PICK c \in [1 .. x + 1 -> Nat] :
          /\ log2(x) = c[1]
          /\ \A v \in 1 .. x + 1 : c[v] = IF v * 2 <= x THEN 1 + c[v * 2] ELSE 0
    BY Log2Is
<1> DEFINE Fits(v) == v * pow2(c[v]) <= x /\ x < v * pow2(c[v] + 1)
           T == {n \in Nat : \A v \in 1 .. x : x - n <= v => Fits(v)}
<1>2. ASSUME NEW v \in 1 .. x, ~(v * 2 <= x) PROVE Fits(v)
    <2>1. c[v] = 0
        BY <1>1, <1>2
    <2>2. pow2(0) = 1 /\ pow2(0 + 1) = 2
        BY PowStep
    <2> QED  BY <1>2, <2>1, <2>2
<1>3. 0 \in T
    <2>1. ASSUME NEW v \in 1 .. x, x - 0 <= v PROVE ~(v * 2 <= x)
        BY <2>1
    <2> QED  BY <1>2, <2>1
<1>4. ASSUME NEW n \in Nat, n \in T PROVE n + 1 \in T
    <2> SUFFICES ASSUME NEW v \in 1 .. x, x - (n + 1) <= v, v * 2 <= x PROVE Fits(v)
        BY <1>2
    <2>1. PICK w \in 1 .. x : w = v * 2
        OBVIOUS
    <2>2. x - n <= w
        BY <2>1
    <2>3. Fits(w)
        BY <1>4, <2>2
    <2>4. c[w] \in Nat /\ c[v] = c[w] + 1
        BY <1>1, <2>1
    <2>5. pow2(c[v]) = 2 * pow2(c[w]) /\ pow2(c[v] + 1) = 2 * pow2(c[w] + 1)
        <3>1. PICK l \in Nat : l = c[w]
            BY <2>4
        <3>2. l + 1 \in Nat
            BY <3>1
        <3>3. pow2(l + 1) = 2 * pow2(l) /\ pow2((l + 1) + 1) = 2 * pow2(l + 1)
            BY <3>2, PowSucc
        <3> QED  BY <2>4, <3>1, <3>3
    <2>6. PICK p \in Nat : p = pow2(c[w])
        BY <2>4, PowNat
    <2>7. PICK q \in Nat : q = pow2(c[w] + 1)
        BY <2>4, PowNat
    <2>8. w * p <= x /\ x < w * q
        BY <2>3, <2>6, <2>7
    <2>9. v * (2 * p) = w * p /\ v * (2 * q) = w * q
        BY <2>1
    <2> QED  BY <2>5, <2>6, <2>7, <2>8, <2>9
<1>5. \A n \in Nat : n \in T
    <2> HIDE DEF T
    <2> QED  BY <1>3, <1>4, NatClosed
<1>6. Fits(1)
    <2>1. PICK n \in Nat : n = x - 1
        OBVIOUS
    <2>2. n \in T
        BY <1>5
    <2>3. 1 \in 1 .. x /\ x - n <= 1
        BY <2>1
    <2> QED  BY <2>2, <2>3
<1>7. PICK l \in Nat : l = c[1]
    BY <1>1
<1>8. pow2(l) \in Nat /\ pow2(l + 1) \in Nat
    BY PowSucc
<1> QED  BY <1>1, <1>6, <1>7, <1>8

\* log2 of 0 and of 1 is 0, and of nothing else.
LEMMA Log2Zero == \A x \in Nat : log2(x) = 0 <=> x <= 1
<1> SUFFICES ASSUME NEW x \in Nat PROVE log2(x) = 0 <=> x <= 1
    OBVIOUS
<1>1. PICK c \in [1 .. x + 1 -> Nat] :
          /\ log2(x) = c[1]
          /\ \A v \in 1 .. x + 1 : c[v] = IF v * 2 <= x THEN 1 + c[v * 2] ELSE 0
    BY Log2Is
<1>2. 1 \in 1 .. x + 1
    OBVIOUS
<1>3. CASE x <= 1
    BY <1>1, <1>2, <1>3
<1>4. CASE ~(x <= 1)
    <2>1. 1 * 2 <= x /\ 1 * 2 \in 1 .. x + 1
        BY <1>4
    <2>2. c[1 * 2] \in Nat
        BY <1>1, <2>1
    <2> QED  BY <1>1, <1>2, <1>4, <2>1, <2>2
<1> QED  BY <1>3, <1>4

\* log2 of a power of two is its exponent.
LEMMA Log2Pow == \A k \in Nat : log2(pow2(k)) = k
<1> SUFFICES ASSUME NEW k \in Nat PROVE log2(pow2(k)) = k
    OBVIOUS
<1>1. PICK x \in Nat \ {0} : x = pow2(k)
    BY PowNat
<1>2. PICK l \in Nat : l = log2(x) /\ pow2(l) <= x /\ x < pow2(l + 1)
    BY Log2Range
<1>3. k <= l
    BY <1>1, <1>2, PowLess
<1>4. pow2(l) < pow2(k + 1)
    <2>1. pow2(k + 1) = 2 * x
        BY <1>1, PowStep
    <2>2. pow2(l) \in Nat
        BY <1>2, PowNat
    <2> QED  BY <1>2, <2>1, <2>2
<1>5. l <= k
    BY <1>4, PowLess
<1> QED  BY <1>1, <1>2, <1>3, <1>5

\* alloc_buddy's index is the smallest with enough pages for the request.
LEMMA IndexRange ==
    ASSUME NEW n \in Nat \ {0}
    PROVE  IndexFor(n) \in Nat /\ n <= pow2(IndexFor(n))
<1>1. PICK l \in Nat : l = log2(n) /\ pow2(l) <= n /\ n < pow2(l + 1)
    BY Log2Range
<1>2. pow2(l) \in Nat /\ pow2(l + 1) \in Nat
    BY PowNat
<1>3. IndexFor(n) = IF pow2(l) < n THEN l + 1 ELSE l
    BY <1>1 DEF IndexFor
<1>4. CASE pow2(l) < n
    BY <1>1, <1>2, <1>3, <1>4
<1>5. CASE ~(pow2(l) < n)
    <2>1. IndexFor(n) = l
        BY <1>3, <1>5
    <2> QED  BY <1>2, <1>5, <2>1
<1> QED  BY <1>4, <1>5

(***************************************************************************)
(* The invariant                                                           *)
(***************************************************************************)

\* s is a block of level i: 2^i pages, no page twice.
Block(s, i) == s \in Seq(Pages) /\ Len(s) = pow2(i) /\ Distinct(s)

\* Two chains have no page in common.
Apart(s, t) == ToSet(s) \cap ToSet(t) = {}

\* The page numbers rise along a chain; the number r falls along it.
Rising(s)   == \A k \in 1 .. Len(s) - 1 : s[k + 1] = s[k] + 1
Falls(r, s) == \A k \in 1 .. Len(s) - 1 : r[s[k + 1]] < r[s[k]]

\* A level has one block or none, and its count says which.
LevelsInv ==
    /\ list = [i \in Levels |-> list[i]] /\ blk_num = [i \in Levels |-> blk_num[i]]
    /\ \A i \in Levels : \/ list[i] = <<>> /\ blk_num[i] = 0
                         \/ Block(list[i], i) /\ blk_num[i] = 1
    /\ \A i, j \in Levels : i # j => Apart(list[i], list[j])

\* A caller holds a block of some level,
\* and shares it neither with another caller nor with the table.
HeldInv ==
    /\ \A b \in held : /\ \E j \in Levels : Block(b.pages, j)
                       /\ \A i \in Levels : Apart(list[i], b.pages)
    /\ \A b, c \in held : b # c => Apart(b.pages, c.pages)

\* The marks of the pages; any page may be mapped.
MarksInv ==
    /\ flags \in [Pages -> {"FREE", "BUSY"}] /\ ref \in [Pages -> Nat]
    /\ \A p \in Pages : flags[p] = "BUSY" <=> p \in InHands

BInv == LevelsInv /\ HeldInv /\ MarksInv

(***************************************************************************)
(* Blocks                                                                  *)
(***************************************************************************)
LEMMA PagesOf ==
    ASSUME NEW s \in Seq(Pages)
    PROVE  /\ ToSet(s) = {s[k] : k \in 1 .. Len(s)} /\ ToSet(s) \subseteq Pages
           /\ \A p : Contains(s, p) <=> p \in ToSet(s)
           /\ ToSet(s) = {} <=> s = <<>>
<1>1. DOMAIN s = 1 .. Len(s) /\ Len(s) \in Nat /\ \A k \in 1 .. Len(s) : s[k] \in Pages
    BY LenProperties, ElementOfSeq
<1>2. ToSet(s) = {s[k] : k \in 1 .. Len(s)}
    BY <1>1 DEF ToSet
<1>3. ToSet(s) \subseteq Pages
    BY <1>1, <1>2
<1>4. \A p : Contains(s, p) <=> p \in ToSet(s)
    BY <1>2 DEF Contains
<1>5. ToSet(s) = {} <=> s = <<>>
    <2>1. CASE s = <<>>
        <3>1. Len(s) = 0
            BY <2>1
        <3> QED  BY <1>2, <2>1, <3>1
    <2>2. CASE s # <<>>
        <3>1. 1 \in 1 .. Len(s)
            BY <1>1, <2>2
        <3> QED  BY <1>2, <2>2, <3>1
    <2> QED  BY <2>1, <2>2
<1> QED  BY <1>2, <1>3, <1>4, <1>5

LEMMA EmptyChain == ToSet(<<>>) = {} /\ \A s : Apart(s, <<>>) /\ Apart(<<>>, s)
<1>1. DOMAIN <<>> = {}
    OBVIOUS
<1>2. ToSet(<<>>) = {}
    BY <1>1 DEF ToSet
<1> QED  BY <1>2 DEF Apart

\* A block has as many pages as its length says.
LEMMA BlockSize ==
    ASSUME NEW i \in Nat, NEW s, Block(s, i)
    PROVE  /\ s \in Seq(Pages) /\ s # <<>> /\ ToSet(s) \in SUBSET Pages /\ ToSet(s) # {}
           /\ IsFiniteSet(ToSet(s)) /\ Cardinality(ToSet(s)) = pow2(i)
<1>1. s \in Seq(Pages) /\ Len(s) = pow2(i) /\ Distinct(s)
    BY DEF Block
<1>2. PICK n \in Nat \ {0} : n = pow2(i)
    BY PowNat
<1>3. s # <<>>
    <2>1. Len(s) # 0
        BY <1>1, <1>2
    <2>2. Len(<<>>) = 0
        OBVIOUS
    <2> QED  BY <2>1, <2>2
<1>4. PICK S : S = ToSet(s)
    OBVIOUS
<1>5. S = {s[k] : k \in 1 .. n} /\ S \subseteq Pages /\ S # {}
    BY <1>1, <1>2, <1>3, <1>4, PagesOf
<1>6. s \in [1 .. n -> S]
    <2>1. s = [k \in 1 .. n |-> s[k]]
        BY <1>1, <1>2, LenProperties
    <2>2. \A k \in 1 .. n : s[k] \in S
        BY <1>5
    <2> QED  BY <2>1, <2>2
<1>7. s \in Bijection(1 .. n, S)
    <2>1. \A j, k \in 1 .. n : s[j] = s[k] => j = k
        BY <1>1, <1>2 DEF Distinct
    <2>2. DOMAIN s = 1 .. n
        BY <1>6
    <2>3. IsInjective(s)
        BY <2>1, <2>2 DEF IsInjective
    <2>4. s \in Injection(1 .. n, S)
        BY <1>6, <2>3 DEF Injection
    <2>5. s \in Surjection(1 .. n, S)
        BY <1>5, <1>6 DEF Surjection
    <2> QED  BY <2>4, <2>5 DEF Bijection
<1>8. ExistsBijection(1 .. n, S)
    BY <1>7 DEF ExistsBijection
<1>9. Cardinality(S) = n
    BY <1>8, FS_CountingElements
<1>10. IsFiniteSet(S)
    BY <1>8, FS_NatBijection
<1> QED  BY <1>1, <1>2, <1>3, <1>4, <1>5, <1>9, <1>10

\* BlendBlk's two blocks, one behind the other, are a block of the next level.
LEMMA JoinBlocks ==
    ASSUME NEW i \in Nat, NEW s, NEW t, Block(s, i), Block(t, i), Apart(s, t)
    PROVE  Block(s \o t, i + 1) /\ ToSet(s \o t) = ToSet(s) \cup ToSet(t)
<1>1. /\ s \in Seq(Pages) /\ Len(s) = pow2(i) /\ Distinct(s)
      /\ t \in Seq(Pages) /\ Len(t) = pow2(i) /\ Distinct(t)
    BY DEF Block
<1>2. PICK n \in Nat : n = pow2(i)
    BY PowNat
<1>3. PICK u \in Seq(Pages) : u = s \o t
    <2>1. s \o t \in Seq(Pages)
        BY <1>1, ConcatProperties
    <2> QED  BY <2>1
<1>4. /\ Len(u) = n + n
      /\ \A k \in 1 .. n : u[k] = s[k]
      /\ \A k \in 1 .. n : u[n + k] = t[k]
    <2>1. Len(s) = n /\ Len(t) = n
        BY <1>1, <1>2
    <2>2. Len(u) = n + n
        BY <1>1, <1>3, <2>1
    <2>3. ASSUME NEW k \in 1 .. n PROVE u[k] = s[k]
        BY <1>1, <1>3, <2>1
    <2>4. ASSUME NEW k \in 1 .. n PROVE u[n + k] = t[k]
        <3>1. n + k \in n + 1 .. n + n /\ (n + k) - n = k
            OBVIOUS
        <3>2. \A j \in n + 1 .. n + n : (s \o t)[j] = t[j - n]
            BY <1>1, <2>1, ConcatProperties
        <3> QED  BY <1>3, <3>1, <3>2
    <2> QED  BY <2>2, <2>3, <2>4
<1>5. pow2(i + 1) = n + n
    BY <1>2, PowSucc
<1>6. ToSet(s) = {s[k] : k \in 1 .. n} /\ ToSet(t) = {t[k] : k \in 1 .. n}
    BY <1>1, <1>2, PagesOf
<1>7. ToSet(u) = {u[k] : k \in 1 .. n + n}
    BY <1>3, <1>4, PagesOf
<1>8. \A k \in 1 .. n + n : k \in 1 .. n \/ \E m \in 1 .. n : k = n + m
    <2> TAKE k \in 1 .. n + n
    <2>1. CASE k <= n
        BY <2>1
    <2>2. CASE k > n
        <3>1. k - n \in 1 .. n /\ k = n + (k - n)
            BY <2>2
        <3> QED  BY <3>1
    <2> QED  BY <2>1, <2>2
<1>9. ToSet(u) = ToSet(s) \cup ToSet(t)
    <2>1. ASSUME NEW p \in ToSet(u) PROVE p \in ToSet(s) \cup ToSet(t)
        <3>1. PICK k \in 1 .. n + n : p = u[k]
            BY <1>7, <2>1
        <3>2. CASE k \in 1 .. n
            BY <1>4, <1>6, <3>1, <3>2
        <3>3. CASE \E m \in 1 .. n : k = n + m
            BY <1>4, <1>6, <3>1, <3>3
        <3> QED  BY <1>8, <3>2, <3>3
    <2>2. ASSUME NEW p \in ToSet(s) PROVE p \in ToSet(u)
        <3>1. PICK k \in 1 .. n : p = s[k]
            BY <1>6
        <3>2. k \in 1 .. n + n /\ u[k] = p
            BY <1>4, <3>1
        <3> QED  BY <1>7, <3>2
    <2>3. ASSUME NEW p \in ToSet(t) PROVE p \in ToSet(u)
        <3>1. PICK k \in 1 .. n : p = t[k]
            BY <1>6
        <3>2. n + k \in 1 .. n + n /\ u[n + k] = p
            BY <1>4, <3>1
        <3> QED  BY <1>7, <3>2
    <2> QED  BY <2>1, <2>2, <2>3
<1>10. Distinct(u)
    <2> SUFFICES ASSUME NEW j \in 1 .. n + n, NEW k \in 1 .. n + n, u[j] = u[k] PROVE j = k
        BY <1>4 DEF Distinct
    <2>1. \A a, c \in 1 .. n : s[a] # t[c]
        BY <1>6 DEF Apart
    <2>2. \A a, c \in 1 .. n : (s[a] = s[c] => a = c) /\ (t[a] = t[c] => a = c)
        BY <1>1, <1>2 DEF Distinct
    <2>3. CASE j \in 1 .. n /\ k \in 1 .. n
        BY <1>4, <2>2, <2>3
    <2>4. CASE j \in 1 .. n /\ k \notin 1 .. n
        <3>1. PICK m \in 1 .. n : k = n + m
            BY <1>8, <2>4
        <3> QED  BY <1>4, <2>1, <2>4, <3>1
    <2>5. CASE j \notin 1 .. n /\ k \in 1 .. n
        <3>1. PICK m \in 1 .. n : j = n + m
            BY <1>8, <2>5
        <3> QED  BY <1>4, <2>1, <2>5, <3>1
    <2>6. CASE j \notin 1 .. n /\ k \notin 1 .. n
        <3>1. PICK m \in 1 .. n : j = n + m
            BY <1>8, <2>6
        <3>2. PICK q \in 1 .. n : k = n + q
            BY <1>8, <2>6
        <3>3. u[n + m] = t[m] /\ u[n + q] = t[q]
            BY <1>4, <3>1, <3>2
        <3>4. t[m] = t[q]
            BY <3>1, <3>2, <3>3
        <3>5. m = q
            BY <2>2, <3>4
        <3> QED  BY <3>1, <3>2, <3>5
    <2> QED  BY <2>3, <2>4, <2>5, <2>6
<1> QED  BY <1>3, <1>4, <1>5, <1>9, <1>10 DEF Block

\* SplitBlock's halves of a block are blocks of the level below.
LEMMA HalveBlock ==
    ASSUME NEW i \in Nat, NEW s, Block(s, i + 1)
    PROVE  LET s1 == SubSeq(s, 1, pow2(i))
               s2 == SubSeq(s, pow2(i) + 1, pow2(i + 1))
           IN  /\ Block(s1, i) /\ Block(s2, i) /\ Apart(s1, s2)
               /\ ToSet(s) = ToSet(s1) \cup ToSet(s2)
<1>1. s \in Seq(Pages) /\ Len(s) = pow2(i + 1) /\ Distinct(s)
    BY DEF Block
<1>2. PICK n \in Nat \ {0} : n = pow2(i) /\ pow2(i + 1) = n + n
    BY PowSucc
<1>3. PICK s1 : s1 = SubSeq(s, 1, n)
    OBVIOUS
<1>4. PICK s2 : s2 = SubSeq(s, n + 1, n + n)
    OBVIOUS
<1>5. s1 \in Seq(Pages) /\ Len(s1) = n /\ \A k \in 1 .. n : s1[k] = s[k]
    BY <1>1, <1>2, <1>3, SubSeqProperties
<1>6. s2 \in Seq(Pages) /\ Len(s2) = n /\ \A k \in 1 .. n : s2[k] = s[n + k]
    <2>1. PICK a \in Int : a = n + 1
        OBVIOUS
    <2>2. PICK e \in Int : e = n + n
        OBVIOUS
    <2>3. \A k \in a .. e : s[k] \in Pages
        <3>1. \A k \in 1 .. Len(s) : s[k] \in Pages
            BY <1>1, ElementOfSeq
        <3> QED  BY <1>1, <1>2, <2>1, <2>2, <3>1
    <2>4. s2 = SubSeq(s, a, e)
        BY <1>4, <2>1, <2>2
    <2>5. /\ s2 \in Seq(Pages) /\ Len(s2) = IF a <= e THEN e - a + 1 ELSE 0
          /\ \A k \in 1 .. e - a + 1 : s2[k] = s[a + k - 1]
        BY <2>3, <2>4, SubSeqProperties
    <2>6. e - a + 1 = n /\ a <= e
        BY <2>1, <2>2
    <2>7. \A k \in 1 .. n : a + k - 1 = n + k
        BY <2>1
    <2> QED  BY <2>5, <2>6, <2>7
<1>7. \A j, k \in 1 .. n + n : s[j] = s[k] => j = k
    BY <1>1, <1>2 DEF Distinct
<1>8. Distinct(s1) /\ Distinct(s2)
    <2>1. ASSUME NEW j \in 1 .. n, NEW k \in 1 .. n, s1[j] = s1[k] PROVE j = k
        BY <1>5, <1>7, <2>1
    <2>2. ASSUME NEW j \in 1 .. n, NEW k \in 1 .. n, s2[j] = s2[k] PROVE j = k
        <3>1. n + j \in 1 .. n + n /\ n + k \in 1 .. n + n /\ s[n + j] = s[n + k]
            BY <1>6, <2>2
        <3>2. n + j = n + k
            BY <1>7, <3>1
        <3> QED  BY <3>2
    <2> QED  BY <1>5, <1>6, <2>1, <2>2 DEF Distinct
<1>9. ToSet(s1) = {s1[k] : k \in 1 .. n} /\ ToSet(s2) = {s2[k] : k \in 1 .. n}
    BY <1>5, <1>6, PagesOf
<1>10. ToSet(s) = {s[k] : k \in 1 .. n + n}
    BY <1>1, <1>2, PagesOf
<1>11. Apart(s1, s2)
    <2>1. ASSUME NEW j \in 1 .. n, NEW k \in 1 .. n PROVE s1[j] # s2[k]
        <3>1. j \in 1 .. n + n /\ n + k \in 1 .. n + n /\ j # n + k
            OBVIOUS
        <3>2. s[j] # s[n + k]
            BY <1>7, <3>1
        <3> QED  BY <1>5, <1>6, <3>2
    <2> QED  BY <1>9, <2>1 DEF Apart
<1>12. ToSet(s) = ToSet(s1) \cup ToSet(s2)
    <2>1. ASSUME NEW p \in ToSet(s) PROVE p \in ToSet(s1) \cup ToSet(s2)
        <3>1. PICK k \in 1 .. n + n : p = s[k]
            BY <1>10
        <3>2. CASE k <= n
            BY <1>5, <1>9, <3>1, <3>2
        <3>3. CASE k > n
            <4>1. k - n \in 1 .. n /\ n + (k - n) = k
                BY <3>3
            <4>2. s2[k - n] = p
                BY <1>6, <3>1, <4>1
            <4> QED  BY <1>9, <4>1, <4>2
        <3> QED  BY <3>2, <3>3
    <2>2. ASSUME NEW p \in ToSet(s1) PROVE p \in ToSet(s)
        <3>1. PICK k \in 1 .. n : p = s1[k]
            BY <1>9
        <3>2. k \in 1 .. n + n /\ s[k] = p
            BY <1>5, <3>1
        <3> QED  BY <1>10, <3>2
    <2>3. ASSUME NEW p \in ToSet(s2) PROVE p \in ToSet(s)
        <3>1. PICK k \in 1 .. n : p = s2[k]
            BY <1>9
        <3>2. n + k \in 1 .. n + n /\ s[n + k] = p
            BY <1>6, <3>1
        <3> QED  BY <1>10, <3>2
    <2> QED  BY <2>1, <2>2, <2>3
<1>13. s1 = SubSeq(s, 1, pow2(i)) /\ s2 = SubSeq(s, pow2(i) + 1, pow2(i + 1))
    BY <1>2, <1>3, <1>4
<1>14. Block(s1, i) /\ Block(s2, i)
    BY <1>2, <1>5, <1>6, <1>8 DEF Block
<1> QED  BY <1>11, <1>12, <1>13, <1>14

\* The first block of a level is all there is, and leaves nothing behind.
LEMMA WholeLevel ==
    ASSUME NEW i \in Nat, Block(list[i], i)
    PROVE  FirstBlock(i) = list[i] /\ Rest(i) = <<>>
<1>1. PICK s : s = list[i]
    OBVIOUS
<1>2. PICK n \in Nat : n = pow2(i)
    BY PowNat
<1>3. s \in Seq(Pages) /\ Len(s) = n
    BY <1>1, <1>2 DEF Block
<1>4. SubSeq(s, 1, n) = s
    BY <1>3, SubSeqFull
<1>5. SubSeq(s, n + 1, n) = <<>>
    <2>1. n + 1 > n /\ n + 1 \in Int /\ n \in Int
        BY <1>2
    <2> QED  BY <1>3, <2>1, SubSeqEmpty
<1> QED  BY <1>1, <1>2, <1>3, <1>4, <1>5 DEF FirstBlock, Rest

(***************************************************************************)
(* What the invariant says of the whole table                              *)
(***************************************************************************)

LEMMA LevelNat == \A i \in Levels : i \in Nat
    BY BuddyAssumption DEF Levels

\* What the table holds, page by page.
LEMMA TableHas == \A p : p \in InTable <=> \E i \in Levels : p \in ToSet(list[i])
    BY DEF InTable

LEMMA HandsHave == \A p : p \in InHands <=> \E b \in held : p \in ToSet(b.pages)
    BY DEF InHands

LEMMA PagesFinite == IsFiniteSet(Pages) /\ Cardinality(Pages) = NPages /\ NPages \in Nat
<1>1. 0 \in Int /\ NPages - 1 \in Int /\ ~(0 > NPages - 1) /\ NPages \in Nat
    BY BuddyAssumption
<1>2. (NPages - 1) - 0 + 1 = NPages
    BY <1>1
<1> QED  BY <1>1, <1>2, FS_Interval DEF Pages

\* Every chain of the table is a sequence of pages, empty or a block.
LEMMA ChainOf ==
    ASSUME LevelsInv, NEW i \in Levels
    PROVE  /\ list[i] \in Seq(Pages) /\ ToSet(list[i]) \in SUBSET Pages
           /\ IsFiniteSet(ToSet(list[i]))
           /\ list[i] # <<>> => /\ Block(list[i], i) /\ blk_num[i] = 1
                                /\ Cardinality(ToSet(list[i])) = pow2(i)
           /\ list[i] = <<>> => ToSet(list[i]) = {} /\ blk_num[i] = 0
<1>1. i \in Nat
    BY LevelNat
<1>2. CASE list[i] = <<>> /\ blk_num[i] = 0
    <2>1. ToSet(list[i]) = {}
        BY <1>2, EmptyChain
    <2>2. list[i] \in Seq(Pages)
        BY <1>2
    <2> QED  BY <1>2, <2>1, <2>2, FS_EmptySet
<1>3. CASE Block(list[i], i) /\ blk_num[i] = 1
    BY <1>1, <1>3, BlockSize
<1> QED  BY <1>2, <1>3 DEF LevelsInv

\* The pages of the levels below l.
Below(l) == UNION {ToSet(list[i]) : i \in {j \in Levels : j < l}}

\* With at most one block on each, they are fewer than 2^l.
LEMMA FewBelow ==
    ASSUME LevelsInv, NEW l \in Nat
    PROVE  IsFiniteSet(Below(l)) /\ Cardinality(Below(l)) < pow2(l)
<1> DEFINE T == {n \in Nat : IsFiniteSet(Below(n)) /\ Cardinality(Below(n)) < pow2(n)}
<1>1. 0 \in T
    <2>1. Below(0) = {}
        BY LevelNat DEF Below
    <2> QED  BY <2>1, FS_EmptySet, PowStep
<1>2. ASSUME NEW n \in Nat, n \in T PROVE n + 1 \in T
    <2>1. pow2(n) \in Nat \ {0} /\ pow2(n + 1) = pow2(n) + pow2(n)
        BY PowSucc
    <2>2. IsFiniteSet(Below(n)) /\ Cardinality(Below(n)) < pow2(n)
        BY <1>2
    <2>3. Cardinality(Below(n)) \in Nat
        BY <2>2, FS_CardinalityType
    <2>4. CASE n \in Levels
        <3>1. Below(n + 1) = Below(n) \cup ToSet(list[n])
            <4>1. \A j \in Levels : j < n + 1 <=> (j < n \/ j = n)
                BY LevelNat
            <4> QED  BY <2>4, <4>1 DEF Below
        <3>2. PICK S : S = ToSet(list[n])
            OBVIOUS
        <3>3. IsFiniteSet(S) /\ Cardinality(S) <= pow2(n)
            <4>1. CASE list[n] = <<>>
                <5>1. S = {}
                    BY <2>4, <3>2, <4>1, ChainOf
                <5> QED  BY <2>1, <5>1, FS_EmptySet
            <4>2. CASE list[n] # <<>>
                <5>1. IsFiniteSet(S) /\ Cardinality(S) = pow2(n)
                    BY <2>4, <3>2, <4>2, ChainOf
                <5> QED  BY <2>1, <5>1
            <4> QED  BY <4>1, <4>2
        <3>4. PICK B : B = Below(n)
            OBVIOUS
        <3>5. /\ IsFiniteSet(B \cup S)
              /\ Cardinality(B \cup S) = Cardinality(B) + Cardinality(S) - Cardinality(B \cap S)
            BY <2>2, <3>3, <3>4, FS_Union
        <3>6. Cardinality(B \cap S) \in Nat /\ Cardinality(S) \in Nat
            <4>1. B \cap S \in SUBSET S
                OBVIOUS
            <4>2. IsFiniteSet(B \cap S)
                BY <3>3, <4>1, FS_Subset
            <4> QED  BY <3>3, <4>2, FS_CardinalityType
        <3>7. Cardinality(B \cup S) < pow2(n + 1)
            BY <2>1, <2>2, <2>3, <3>3, <3>4, <3>5, <3>6
        <3> QED  BY <3>1, <3>2, <3>4, <3>5, <3>7
    <2>5. CASE n \notin Levels
        <3>1. Below(n + 1) = Below(n)
            <4>1. \A j \in Levels : j < n + 1 <=> j < n
                BY <2>5, LevelNat
            <4> QED  BY <4>1 DEF Below
        <3>2. Cardinality(Below(n)) < pow2(n + 1)
            BY <2>1, <2>2, <2>3
        <3> QED  BY <2>2, <3>1, <3>2
    <2> QED  BY <2>4, <2>5
<1>3. \A n \in Nat : n \in T
    <2> HIDE DEF T
    <2> QED  BY <1>1, <1>2, NatClosed
<1> QED  BY <1>3

LEMMA TableFinite == ASSUME LevelsInv PROVE IsFiniteSet(InTable) /\ InTable \in SUBSET Pages
<1>1. InTable \in SUBSET Pages
    BY ChainOf, TableHas
<1> QED  BY <1>1, PagesFinite, FS_Subset

\* Enough pages for a request are one block that is large enough.
LEMMA NoFragmentationInv == ASSUME LevelsInv PROVE NoFragmentation
<1> SUFFICES ASSUME NEW n \in 1 .. MaxRequest
             PROVE  Fitting(n) # {} <=> Cardinality(InTable) >= pow2(IndexFor(n))
    BY DEF NoFragmentation
<1>1. n \in Nat \ {0}
    BY BuddyAssumption
<1>2. PICK l \in Nat : l = IndexFor(n)
    BY <1>1, IndexRange
<1>3. pow2(l) \in Nat
    BY PowNat
<1>4. PICK A : A = InTable
    OBVIOUS
<1>5. IsFiniteSet(A) /\ Cardinality(A) \in Nat
    BY <1>4, TableFinite, FS_CardinalityType
<1>6. CASE Fitting(n) # {}
    <2>1. PICK i \in Levels : i >= l /\ list[i] # <<>>
        <3>1. \A i \in l .. MaxLevel : i \in Levels /\ i >= l
            BY <1>2, BuddyAssumption DEF Levels
        <3> QED  BY <1>2, <1>6, <3>1 DEF Fitting
    <2>2. i \in Nat
        BY <2>1, LevelNat
    <2>3. pow2(l) <= pow2(i) /\ pow2(i) \in Nat
        BY <1>2, <2>1, <2>2, PowMono, PowNat
    <2>4. PICK S : S = ToSet(list[i])
        OBVIOUS
    <2>5. Cardinality(S) = pow2(i)
        BY <2>1, <2>4, ChainOf
    <2>6. S \in SUBSET A
        BY <1>4, <2>1, <2>4, TableHas
    <2>7. Cardinality(S) <= Cardinality(A)
        BY <1>5, <2>6, FS_Subset
    <2>8. Cardinality(A) >= pow2(l)
        BY <1>3, <1>5, <2>3, <2>5, <2>7
    <2> QED  BY <1>2, <1>4, <1>6, <2>8
<1>7. CASE Fitting(n) = {}
    <2>1. \A i \in Levels : i >= l => list[i] = <<>>
        <3>1. \A i \in Levels : i >= l => i \in l .. MaxLevel
            BY <1>2, BuddyAssumption DEF Levels
        <3> QED  BY <1>2, <1>7, <3>1 DEF Fitting
    <2>2. A \subseteq Below(l)
        <3> SUFFICES ASSUME NEW p \in A PROVE p \in Below(l)
            OBVIOUS
        <3>1. PICK i \in Levels : p \in ToSet(list[i])
            BY <1>4, TableHas
        <3>2. list[i] # <<>>
            BY <3>1, EmptyChain
        <3>3. i < l
            BY <1>2, <2>1, <3>1, <3>2, LevelNat
        <3> QED  BY <3>1, <3>3 DEF Below
    <2>3. PICK B : B = Below(l)
        OBVIOUS
    <2>4. IsFiniteSet(B) /\ Cardinality(B) < pow2(l)
        BY <1>2, <2>3, FewBelow
    <2>5. Cardinality(A) <= Cardinality(B) /\ Cardinality(B) \in Nat
        BY <2>2, <2>3, <2>4, FS_Subset, FS_CardinalityType
    <2>6. ~(Cardinality(A) >= pow2(l))
        BY <1>3, <1>5, <2>4, <2>5
    <2> QED  BY <1>2, <1>4, <1>7, <2>6
<1> QED  BY <1>6, <1>7

(***************************************************************************)
(* free_buddy: merging                                                     *)
(***************************************************************************)
LEMMA MinIs ==
    ASSUME NEW S, S \subseteq Nat, S # {}
    PROVE  Min(S) \in S /\ \A y \in S : Min(S) <= y
<1>1. PICK x \in S : \A y \in S : x <= y
    BY NatLeast
<1> QED  BY <1>1 DEF Min

\* Merging ends at the first level without a block.
LEMMA TopIs ==
    ASSUME NEW j \in Levels
    PROVE  /\ Top(j) \in j .. MaxLevel + 1 /\ Top(j) \in Nat /\ j \in Nat
           /\ Top(j) <= MaxLevel => Top(j) \in Levels /\ list[Top(j)] = <<>>
           /\ \A l \in j .. Top(j) - 1 : l \in Levels /\ list[l] # <<>>
<1>1. PICK S : S = {l \in j .. MaxLevel + 1 : l > MaxLevel \/ list[l] = <<>>}
    OBVIOUS
<1>2. j \in Nat /\ j <= MaxLevel /\ MaxLevel \in Nat
    BY BuddyAssumption DEF Levels
<1>3. S \subseteq Nat /\ MaxLevel + 1 \in S
    BY <1>1, <1>2
<1>4. PICK t : t = Top(j)
    OBVIOUS
<1>5. t \in S /\ \A y \in S : t <= y
    BY <1>1, <1>3, <1>4, MinIs DEF Top
<1>6. t \in j .. MaxLevel + 1 /\ t \in Nat
    BY <1>1, <1>2, <1>5
<1>7. t <= MaxLevel => t \in Levels /\ list[t] = <<>>
    BY <1>1, <1>2, <1>5, <1>6 DEF Levels
<1>8. ASSUME NEW l \in j .. t - 1 PROVE l \in Levels /\ list[l] # <<>>
    <2>1. l \in j .. MaxLevel + 1 /\ ~(t <= l) /\ l \in Levels
        BY <1>2, <1>6 DEF Levels
    <2>2. l \notin S
        BY <1>5, <2>1
    <2> QED  BY <1>1, <2>1, <2>2
<1> QED  BY <1>2, <1>4, <1>6, <1>7, <1>8

\* A chain of level j that shares no page with the table.
Loose(s, j) == Block(s, j) /\ \A i \in Levels : Apart(list[i], s)

\* The pages of the chain and of the levels from j up to l - 1.
Collected(s, j, l) == ToSet(s) \cup UNION {ToSet(list[i]) : i \in j .. l - 1}

LEMMA CollectNext ==
    ASSUME LevelsInv, NEW j \in Levels, NEW s, Loose(s, j),
           NEW l \in Nat, j <= l, l < Top(j)
    PROVE  /\ Block(list[l], l) /\ l \in Levels
           /\ Collected(s, j, l + 1) = Collected(s, j, l) \cup ToSet(list[l])
           /\ Collected(s, j, l) \cap ToSet(list[l]) = {}
<1>1. l \in j .. Top(j) - 1 /\ l \in Levels /\ list[l] # <<>>
    <2>1. l \in j .. Top(j) - 1
        BY TopIs
    <2> QED  BY <2>1, TopIs
<1>2. Block(list[l], l)
    BY <1>1, ChainOf
<1>3. \A i : i \in j .. (l + 1) - 1 <=> (i \in j .. l - 1 \/ i = l)
    BY TopIs
<1>4. Collected(s, j, l + 1) = Collected(s, j, l) \cup ToSet(list[l])
    BY <1>3 DEF Collected
<1>5. ASSUME NEW p \in Collected(s, j, l), p \in ToSet(list[l]) PROVE FALSE
    <2>1. p \notin ToSet(s)
        BY <1>1, <1>5 DEF Loose, Apart
    <2>2. PICK i \in j .. l - 1 : p \in ToSet(list[i])
        BY <1>5, <2>1 DEF Collected
    <2>3. i \in Levels /\ i # l
        BY <2>2, TopIs, <1>1 DEF Levels
    <2> QED  BY <1>1, <1>5, <2>2, <2>3 DEF LevelsInv, Apart
<1> QED  BY <1>1, <1>2, <1>4, <1>5

\* The chain and the blocks it merges with double in size at every level.
LEMMA CollectedSize ==
    ASSUME LevelsInv, NEW j \in Levels, NEW s, Loose(s, j),
           NEW l \in j .. Top(j)
    PROVE  /\ IsFiniteSet(Collected(s, j, l)) /\ Collected(s, j, l) \subseteq Pages
           /\ Cardinality(Collected(s, j, l)) = pow2(l)
<1> DEFINE Sized(k) == /\ IsFiniteSet(Collected(s, j, k)) /\ Collected(s, j, k) \subseteq Pages
                       /\ Cardinality(Collected(s, j, k)) = pow2(k)
           T == {d \in Nat : j + d <= Top(j) => Sized(j + d)}
<1>1. j \in Nat /\ Top(j) \in Nat
    BY TopIs
<1>2. 0 \in T
    <2>1. Collected(s, j, j) = ToSet(s)
        <3>1. j .. j - 1 = {}
            BY <1>1
        <3> QED  BY <3>1 DEF Collected
    <2>2. Sized(j)
        BY <1>1, <2>1, BlockSize DEF Loose
    <2>3. j + 0 = j
        BY <1>1
    <2> QED  BY <2>2, <2>3
<1>3. ASSUME NEW d \in Nat, d \in T PROVE d + 1 \in T
    <2> SUFFICES ASSUME j + (d + 1) <= Top(j) PROVE Sized(j + (d + 1))
        OBVIOUS
    <2>1. PICK k \in Nat : k = j + d /\ j <= k /\ k < Top(j) /\ j + (d + 1) = k + 1
        BY <1>1
    <2>2. Sized(k)
        BY <1>1, <1>3, <2>1
    <2>3. PICK S : S = ToSet(list[k])
        OBVIOUS
    <2>4. PICK C : C = Collected(s, j, k)
        OBVIOUS
    <2>5. Block(list[k], k) /\ Collected(s, j, k + 1) = C \cup S /\ C \cap S = {}
        BY <2>1, <2>3, <2>4, CollectNext
    <2>6. IsFiniteSet(S) /\ Cardinality(S) = pow2(k) /\ S \subseteq Pages
        BY <2>1, <2>3, <2>5, BlockSize
    <2>7. IsFiniteSet(C) /\ Cardinality(C) = pow2(k) /\ C \subseteq Pages
        BY <2>2, <2>4
    <2>8. IsFiniteSet(C \cup S) /\ Cardinality(C \cup S) = pow2(k) + pow2(k) - Cardinality(C \cap S)
        BY <2>6, <2>7, FS_Union
    <2>9. Cardinality(C \cap S) = 0
        BY <2>5, FS_EmptySet
    <2>10. pow2(k) \in Nat /\ pow2(k + 1) = pow2(k) + pow2(k)
        BY <2>1, PowSucc
    <2>11. Sized(k + 1)
        <3>1. Cardinality(C \cup S) = pow2(k + 1)
            BY <2>8, <2>9, <2>10
        <3>2. C \cup S \subseteq Pages
            BY <2>6, <2>7
        <3> QED  BY <2>5, <2>8, <3>1, <3>2
    <2> QED  BY <2>1, <2>11
<1>4. \A d \in Nat : d \in T
    <2> HIDE DEF T
    <2> QED  BY <1>2, <1>3, NatClosed
<1>5. PICK d \in Nat : d = l - j
    BY <1>1
<1>6. j + d = l /\ l <= Top(j)
    BY <1>1, <1>5
<1>7. d \in T
    BY <1>4
<1>8. Sized(l)
    BY <1>6, <1>7
<1> QED  BY <1>8

\* The machine has fewer pages than a block above the last level would have,
\* so merging ends in the table.
LEMMA TopInTable ==
    ASSUME LevelsInv, NEW j \in Levels, NEW s, Loose(s, j)
    PROVE  Top(j) \in Levels
<1>1. Top(j) \in j .. MaxLevel + 1 /\ Top(j) \in Nat /\ j \in Nat
    BY TopIs
<1>2. CASE Top(j) <= MaxLevel
    BY <1>2, TopIs
<1>3. CASE ~(Top(j) <= MaxLevel)
    <2>1. Top(j) = MaxLevel + 1 /\ Top(j) \in j .. Top(j)
        BY <1>1, <1>3, BuddyAssumption
    <2>2. PICK C : C = Collected(s, j, MaxLevel + 1)
        OBVIOUS
    <2>3. C \in SUBSET Pages /\ Cardinality(C) = pow2(MaxLevel + 1)
        BY <2>1, <2>2, CollectedSize
    <2>4. Cardinality(C) <= NPages
        BY <2>3, PagesFinite, FS_Subset
    <2>5. NPages < pow2(MaxLevel + 1) /\ pow2(MaxLevel + 1) \in Nat /\ NPages \in Nat
        BY BuddyAssumption, PowSucc
    <2> QED  BY <2>3, <2>4, <2>5
<1> QED  BY <1>2, <1>3

\* One more level merged: g goes on from l to l + 1.
Step(g, l) == BlendBlk(FindBuddy(g, l), g, l + 1)

LEMMA StepIs ==
    ASSUME LevelsInv, NEW j \in Levels, NEW s, Loose(s, j),
           NEW l \in Nat, j <= l, l < Top(j),
           NEW m, Block(m, l), ToSet(m) = Collected(s, j, l)
    PROVE  Block(Step(m, l), l + 1) /\ ToSet(Step(m, l)) = Collected(s, j, l + 1)
<1>1. PICK b : b = list[l]
    OBVIOUS
<1>2. /\ Block(b, l) /\ Collected(s, j, l + 1) = Collected(s, j, l) \cup ToSet(b)
      /\ Collected(s, j, l) \cap ToSet(b) = {}
    BY <1>1, CollectNext
<1>3. FindBuddy(m, l) = b
    BY <1>1, <1>2, WholeLevel DEF FindBuddy
<1>4. Apart(m, b) /\ Apart(b, m)
    BY <1>2 DEF Apart
<1>5. Step(m, l) = b \o m \/ Step(m, l) = m \o b
    BY <1>3 DEF Step, BlendBlk
<1>6. /\ Block(b \o m, l + 1) /\ ToSet(b \o m) = ToSet(b) \cup ToSet(m)
      /\ Block(m \o b, l + 1) /\ ToSet(m \o b) = ToSet(m) \cup ToSet(b)
    BY <1>2, <1>4, JoinBlocks
<1> QED  BY <1>2, <1>5, <1>6

\* The blocks that free_buddy makes of a chain, level by level.
IsMerging(f, s, j) ==
    f = [l \in j .. Top(j) |-> IF l = j THEN s ELSE BlendBlk(FindBuddy(f[l - 1], l - 1), f[l - 1], l)]

LEMMA MergingExists ==
    ASSUME LevelsInv, NEW j \in Levels, NEW s, Loose(s, j)
    PROVE  \E f : IsMerging(f, s, j)
<1>1. PICK t \in Nat : t = Top(j) /\ j \in Nat /\ j <= t
    BY TopIs
<1>2. PICK F : F = [d \in Nat |-> [m \in Seq(Pages) |-> IF j + d < t THEN Step(m, j + d) ELSE m]]
    OBVIOUS
<1>3. F \in [Nat -> [Seq(Pages) -> Seq(Pages)]]
    <2> SUFFICES ASSUME NEW d \in Nat, NEW m \in Seq(Pages), j + d < t PROVE Step(m, j + d) \in Seq(Pages)
        BY <1>2
    <2>1. PICK l \in Nat : l = j + d
        BY <1>1
    <2>2. Block(list[l], l)
        BY <1>1, <2>1, CollectNext
    <2>3. FindBuddy(m, l) = list[l] /\ list[l] \in Seq(Pages)
        BY <2>1, <2>2, WholeLevel DEF FindBuddy, Block
    <2>4. PICK b \in Seq(Pages) : b = list[l]
        BY <2>3
    <2>5. b \o m \in Seq(Pages) /\ m \o b \in Seq(Pages)
        BY <2>4, ConcatProperties
    <2>6. Step(m, l) = b \o m \/ Step(m, l) = m \o b
        BY <2>3, <2>4 DEF Step, BlendBlk
    <2> QED  BY <2>1, <2>5, <2>6
<1>4. s \in Seq(Pages)
    BY DEF Loose, Block
<1>5. PICK g \in [Nat -> Seq(Pages)] : Follows(g, s, F)
    BY <1>3, <1>4, Recursion
<1>6. g[0] = s /\ \A d \in Nat : g[d + 1] = F[d][g[d]]
    BY <1>5 DEF Follows
<1>7. ASSUME NEW d \in Nat, j + d < t PROVE g[d + 1] = Step(g[d], j + d)
    <2>1. g[d] \in Seq(Pages)
        BY <1>5
    <2> QED  BY <1>2, <1>6, <1>7, <2>1
<1>8. PICK f : f = [l \in j .. t |-> g[l - j]]
    OBVIOUS
<1>9. ASSUME NEW l \in j .. t
      PROVE  f[l] = IF l = j THEN s ELSE BlendBlk(FindBuddy(f[l - 1], l - 1), f[l - 1], l)
    <2>1. CASE l = j
        <3>1. l - j = 0
            BY <1>1, <2>1
        <3> QED  BY <1>6, <1>8, <2>1, <3>1
    <2>2. CASE l # j
        <3>1. PICK d \in Nat : d = (l - 1) - j
            BY <1>1, <2>2
        <3>2. l - 1 \in j .. t /\ j + d < t /\ j + d = l - 1 /\ (l - 1) + 1 = l /\ l - j = d + 1
            BY <1>1, <2>2, <3>1
        <3>3. f[l - 1] = g[d] /\ f[l] = g[d + 1]
            BY <1>8, <3>1, <3>2
        <3>4. g[d + 1] = Step(g[d], l - 1)
            BY <1>7, <3>2
        <3> QED  BY <2>2, <3>2, <3>3, <3>4 DEF Step
    <2> QED  BY <2>1, <2>2
<1>10. f = [l \in j .. t |-> IF l = j THEN s ELSE BlendBlk(FindBuddy(f[l - 1], l - 1), f[l - 1], l)]
    BY <1>8, <1>9
<1> QED  BY <1>1, <1>10 DEF IsMerging

\* The merged block has the chain's pages and those of the levels it emptied.
LEMMA MergingIs ==
    ASSUME LevelsInv, NEW j \in Levels, NEW s, Loose(s, j), NEW f, IsMerging(f, s, j)
    PROVE  Block(f[Top(j)], Top(j)) /\ ToSet(f[Top(j)]) = Collected(s, j, Top(j))
<1>1. PICK t \in Nat : t = Top(j) /\ j \in Nat /\ j <= t
    BY TopIs
<1>2. \A l \in j .. t : f[l] = IF l = j THEN s ELSE BlendBlk(FindBuddy(f[l - 1], l - 1), f[l - 1], l)
    BY <1>1 DEF IsMerging
<1> DEFINE Made(l) == Block(f[l], l) /\ ToSet(f[l]) = Collected(s, j, l)
           T == {d \in Nat : j + d <= t => Made(j + d)}
<1>3. 0 \in T
    <2>1. Collected(s, j, j) = ToSet(s)
        <3>1. j .. j - 1 = {}
            BY <1>1
        <3> QED  BY <3>1 DEF Collected
    <2>2. f[j] = s /\ j + 0 = j
        BY <1>1, <1>2
    <2>3. Made(j)
        BY <2>1, <2>2 DEF Loose
    <2> QED  BY <2>2, <2>3
<1>4. ASSUME NEW d \in Nat, d \in T PROVE d + 1 \in T
    <2> SUFFICES ASSUME j + (d + 1) <= t PROVE Made(j + (d + 1))
        OBVIOUS
    <2>1. PICK l \in Nat : l = j + d /\ j <= l /\ l < t /\ j + (d + 1) = l + 1
        BY <1>1
    <2>2. Made(l)
        BY <1>1, <1>4, <2>1
    <2>3. f[l + 1] = Step(f[l], l)
        <3>1. l + 1 \in j .. t /\ l + 1 # j /\ (l + 1) - 1 = l
            BY <1>1, <2>1
        <3> QED  BY <1>2, <3>1 DEF Step
    <2>4. PICK m : m = f[l]
        OBVIOUS
    <2>5. Block(Step(m, l), l + 1) /\ ToSet(Step(m, l)) = Collected(s, j, l + 1)
        BY <1>1, <2>1, <2>2, <2>4, StepIs
    <2>6. Made(l + 1)
        BY <2>3, <2>4, <2>5
    <2> QED  BY <2>1, <2>6
<1>5. \A d \in Nat : d \in T
    <2> HIDE DEF T
    <2> QED  BY <1>3, <1>4, NatClosed
<1>6. PICK d \in Nat : d = t - j
    BY <1>1
<1>7. d \in T /\ j + d = t /\ j + d <= t
    BY <1>1, <1>5, <1>6
<1>8. Made(t)
    BY <1>7
<1> QED  BY <1>1, <1>8

\* free_buddy's effect on the table.
LEMMA FreeChainIs ==
    ASSUME LevelsInv, NEW j \in Levels, NEW s, Loose(s, j), FreeChain(s)
    PROVE  /\ Top(j) \in Levels /\ list[Top(j)] = <<>> /\ blk_num[Top(j)] = 0
           /\ \E m : /\ Block(m, Top(j)) /\ ToSet(m) = Collected(s, j, Top(j))
                     /\ list' = [l \in Levels |-> IF l \in j .. Top(j) - 1 THEN <<>>
                                                  ELSE IF l = Top(j) THEN m ELSE list[l]]
                     /\ blk_num' = [l \in Levels |-> IF l \in j .. Top(j) - 1 THEN 0
                                                  ELSE IF l = Top(j) THEN 1 ELSE blk_num[l]]
           /\ SetFlags(s, "FREE")
<1>1. PICK f : f = CHOOSE g : IsMerging(g, s, log2(Len(s)))
    OBVIOUS
<1>2. /\ list' = [l \in Levels |-> IF l \in log2(Len(s)) .. Top(log2(Len(s))) - 1 THEN Rest(l)
                                   ELSE IF l = Top(log2(Len(s))) THEN f[Top(log2(Len(s)))] ELSE list[l]]
      /\ blk_num' = [l \in Levels |->
                       IF l \in log2(Len(s)) .. Top(log2(Len(s))) - 1 THEN blk_num[l] - 1
                       ELSE IF l = Top(log2(Len(s))) THEN blk_num[l] + 1 ELSE blk_num[l]]
      /\ SetFlags(s, "FREE")
    BY <1>1 DEF FreeChain, IsMerging
<1>3. log2(Len(s)) = j /\ j \in Nat
    BY Log2Pow, LevelNat DEF Loose, Block
<1>4. IsMerging(f, s, j)
    <2>1. \E g : IsMerging(g, s, log2(Len(s)))
        BY <1>3, MergingExists
    <2>2. IsMerging(f, s, log2(Len(s)))
        BY <1>1, <2>1
    <2> QED  BY <1>3, <2>2
<1>5. PICK t \in Levels : t = Top(j)
    BY TopInTable
<1>6. t <= MaxLevel /\ t \in Nat /\ MaxLevel \in Nat
    BY <1>5, BuddyAssumption DEF Levels
<1>7. list[t] = <<>> /\ blk_num[t] = 0
    BY <1>5, <1>6, TopIs, ChainOf
<1>8. PICK m : m = f[t] /\ Block(m, t) /\ ToSet(m) = Collected(s, j, t)
    BY <1>4, <1>5, MergingIs
<1>9. ASSUME NEW l \in j .. t - 1 PROVE Rest(l) = <<>> /\ blk_num[l] - 1 = 0
    <2>1. l \in Levels /\ list[l] # <<>>
        BY <1>5, TopIs
    <2>2. Block(list[l], l) /\ blk_num[l] = 1 /\ l \in Nat
        BY <2>1, ChainOf, LevelNat
    <2> QED  BY <2>2, WholeLevel
<1>10. list' = [l \in Levels |-> IF l \in j .. t - 1 THEN <<>> ELSE IF l = t THEN m ELSE list[l]]
    <2>1. list' = [l \in Levels |-> IF l \in j .. t - 1 THEN Rest(l) ELSE IF l = t THEN m ELSE list[l]]
        BY <1>2, <1>3, <1>5, <1>8
    <2> QED  BY <1>9, <2>1
<1>11. blk_num' = [l \in Levels |-> IF l \in j .. t - 1 THEN 0 ELSE IF l = t THEN 1 ELSE blk_num[l]]
    <2>1. blk_num' = [l \in Levels |-> IF l \in j .. t - 1 THEN blk_num[l] - 1
                                       ELSE IF l = t THEN blk_num[l] + 1 ELSE blk_num[l]]
        BY <1>2, <1>3, <1>5
    <2>2. blk_num[t] + 1 = 1
        BY <1>7
    <2> QED  BY <1>9, <2>1, <2>2
<1> QED  BY <1>2, <1>5, <1>7, <1>8, <1>10, <1>11

(***************************************************************************)
(* init_buddy                                                              *)
(***************************************************************************)

\* What is left of n pages once the largest block is cut off.
Left(n) == n - pow2(log2(n))

LEMMA LeftIs ==
    ASSUME NEW n \in Nat \ {0}
    PROVE  /\ Left(n) \in Nat /\ Left(n) < n /\ pow2(log2(n)) + Left(n) = n
           /\ log2(n) \in Nat /\ pow2(log2(n)) \in Nat \ {0} /\ pow2(log2(n)) <= n
           /\ log2(Left(n)) # 0 => Left(n) \in 1 .. n - 1
<1>1. PICK l \in Nat : l = log2(n) /\ pow2(l) <= n
    BY Log2Range
<1>2. PICK w \in Nat \ {0} : w = pow2(l)
    BY <1>1, PowNat
<1>3. PICK r : r = Left(n)
    OBVIOUS
<1>4. r = n - w
    BY <1>1, <1>2, <1>3 DEF Left
<1>5. r \in Nat /\ r < n /\ w + r = n /\ w <= n
    BY <1>1, <1>2, <1>4
<1>6. log2(r) # 0 => r \in 1 .. n - 1
    BY <1>5, Log2Zero
<1> QED  BY <1>1, <1>2, <1>3, <1>5, <1>6

\* One round of the loop, when n pages are left: the largest block that they
\* allow, and what the rounds after it do.
First(n) == [k \in 1 .. pow2(log2(n)) |-> NPages - n + k - 1]
Round(f, n) ==
    [i \in Levels |-> IF i = log2(n) THEN First(n)
                      ELSE IF log2(Left(n)) = 0 THEN <<>> ELSE f[Left(n)][i]]

IsBuild(f) == f = [n \in 1 .. NPages |-> Round(f, n)]

LEMMA InitBlocksIs == InitBlocks = (CHOOSE f : IsBuild(f))[NPages]
    BY DEF InitBlocks, IsBuild, Round, First, Left

LEMMA BuildExists == \E f : IsBuild(f)
<1> DEFINE Good(f, n) == /\ f = [v \in 1 .. NPages |-> f[v]]
                         /\ \A v \in 1 .. n : f[v] = Round(f, v)
           T == {n \in Nat : n <= NPages => \E f : Good(f, n)}
<1>1. 0 \in T
    <2>1. PICK f : f = [v \in 1 .. NPages |-> 0]
        OBVIOUS
    <2>2. Good(f, 0)
        BY <2>1
    <2> QED  BY <2>2
<1>2. ASSUME NEW n \in Nat, n \in T PROVE n + 1 \in T
    <2> SUFFICES ASSUME n + 1 <= NPages PROVE \E f : Good(f, n + 1)
        OBVIOUS
    <2>1. NPages \in Nat /\ n <= NPages
        BY BuddyAssumption
    <2>2. PICK f : Good(f, n)
        BY <1>2, <2>1
    <2>3. PICK t : t = Round(f, n + 1)
        OBVIOUS
    <2>4. PICK g : g = [v \in 1 .. NPages |-> IF v = n + 1 THEN t ELSE f[v]]
        OBVIOUS
    <2>5. ASSUME NEW v \in 1 .. n + 1 PROVE Round(g, v) = Round(f, v)
        <3>1. v \in Nat \ {0}
            OBVIOUS
        <3>2. CASE log2(Left(v)) = 0
            BY <3>2 DEF Round
        <3>3. CASE log2(Left(v)) # 0
            <4>1. PICK r : r = Left(v)
                OBVIOUS
            <4>2. r \in 1 .. v - 1
                BY <3>1, <3>3, <4>1, LeftIs
            <4>3. r \in 1 .. NPages /\ r # n + 1
                BY <2>1, <4>2
            <4>4. g[r] = f[r]
                BY <2>4, <4>3
            <4> QED  BY <4>1, <4>4 DEF Round
        <3> QED  BY <3>2, <3>3
    <2>6. ASSUME NEW v \in 1 .. n + 1 PROVE g[v] = Round(g, v)
        <3>1. v \in 1 .. NPages
            BY <2>1
        <3>2. CASE v = n + 1
            <4>1. g[v] = t
                BY <2>4, <3>1, <3>2
            <4> QED  BY <2>3, <2>5, <3>2, <4>1
        <3>3. CASE v # n + 1
            <4>1. v \in 1 .. n
                BY <3>3
            <4>2. g[v] = f[v] /\ f[v] = Round(f, v)
                BY <2>2, <2>4, <3>1, <3>3, <4>1
            <4> QED  BY <2>5, <4>2
        <3> QED  BY <3>2, <3>3
    <2>7. g = [v \in 1 .. NPages |-> g[v]]
        BY <2>4
    <2>8. Good(g, n + 1)
        BY <2>6, <2>7
    <2> QED  BY <2>8
<1>3. \A n \in Nat : n \in T
    <2> HIDE DEF T
    <2> QED  BY <1>1, <1>2, NatClosed
<1>4. PICK f : Good(f, NPages)
    <2>1. NPages \in Nat /\ NPages <= NPages
        BY BuddyAssumption
    <2>2. NPages \in T
        BY <1>3, <2>1
    <2> QED  BY <2>1, <2>2
<1>5. f = [v \in 1 .. NPages |-> Round(f, v)]
    BY <1>4
<1> QED  BY <1>5 DEF IsBuild

\* The block cut off first is one, and lies before the rest.
LEMMA FirstIs ==
    ASSUME NEW n \in 1 .. NPages
    PROVE  /\ Block(First(n), log2(n))
           /\ ToSet(First(n)) \subseteq NPages - n .. NPages - Left(n) - 1
           /\ Rising(First(n))
<1>1. n \in Nat \ {0} /\ NPages \in Nat /\ n <= NPages
    BY BuddyAssumption
<1>2. PICK w \in Nat \ {0} : w = pow2(log2(n)) /\ w <= n
    BY <1>1, LeftIs
<1>3. PICK r \in Nat : r = Left(n) /\ w + r = n
    BY <1>1, <1>2, LeftIs
<1>4. PICK s : s = [k \in 1 .. w |-> NPages - n + k - 1]
    OBVIOUS
<1>5. \A k \in 1 .. w : s[k] = NPages - n + k - 1
    BY <1>4
<1>6. \A k \in 1 .. w : NPages - n + k - 1 \in Pages
    BY <1>1, <1>2 DEF Pages
<1>7. s \in Seq(Pages) /\ Len(s) = w
    <2>1. s \in [1 .. w -> Pages]
        BY <1>4, <1>6
    <2>2. s \in Seq(Pages)
        BY <1>2, <2>1
    <2>3. DOMAIN s = 1 .. w
        BY <2>1
    <2> QED  BY <1>2, <2>2, <2>3, LenProperties
<1>8. Distinct(s)
    <2> SUFFICES ASSUME NEW j \in 1 .. w, NEW k \in 1 .. w, s[j] = s[k] PROVE j = k
        BY <1>7 DEF Distinct
    <2>1. NPages - n + j - 1 = NPages - n + k - 1
        BY <1>5
    <2> QED  BY <1>1, <2>1
<1>9. ToSet(s) = {s[k] : k \in 1 .. w}
    BY <1>7, PagesOf
<1>10. ASSUME NEW p \in ToSet(s) PROVE p \in NPages - n .. NPages - r - 1
    <2>1. PICK k \in 1 .. w : p = NPages - n + k - 1
        BY <1>5, <1>9
    <2> QED  BY <1>1, <1>3, <2>1
<1>11. First(n) = s
    BY <1>2, <1>4 DEF First
<1>12. Rising(s)
    <2>1. ASSUME NEW k \in 1 .. w - 1 PROVE s[k + 1] = s[k] + 1
        <3>1. k \in 1 .. w /\ k + 1 \in 1 .. w
            BY <1>2
        <3> QED  BY <1>1, <1>5, <3>1
    <2> QED  BY <1>7, <2>1 DEF Rising
<1> QED  BY <1>2, <1>3, <1>7, <1>8, <1>10, <1>11, <1>12 DEF Block

\* t is a table with at most one block on each level, all of them among the
\* last n pages.
Laid(t, n) ==
    /\ t = [i \in Levels |-> t[i]]
    /\ \A i \in Levels : \/ t[i] = <<>>
                         \/ Block(t[i], i) /\ ToSet(t[i]) \subseteq NPages - n .. NPages - 1
    /\ \A i, j \in Levels : i # j => Apart(t[i], t[j])
    /\ \A i \in Levels : Rising(t[i])

LEMMA BuildIs ==
    ASSUME NEW f, IsBuild(f)
    PROVE  \A n \in 1 .. NPages : Laid(f[n], n)
<1> DEFINE T == {n \in Nat : n \in 1 .. NPages => Laid(f[n], n)}
<1>1. ASSUME NEW n \in Nat, \A m \in Nat : m < n => m \in T PROVE n \in T
    <2> SUFFICES ASSUME n \in 1 .. NPages PROVE Laid(f[n], n)
        OBVIOUS
    <2>1. NPages \in Nat /\ n \in Nat \ {0} /\ n <= NPages
        BY BuddyAssumption
    <2>2. PICK x : x = log2(n)
        OBVIOUS
    <2>3. PICK s : s = First(n)
        OBVIOUS
    <2>4. PICK r \in Nat : r = Left(n) /\ r < n
        BY <2>1, LeftIs
    <2>5. Block(s, x) /\ ToSet(s) \subseteq NPages - n .. NPages - r - 1 /\ Rising(s)
        BY <2>2, <2>3, <2>4, FirstIs
    <2>6. PICK t : t = f[n]
        OBVIOUS
    <2>7. t = [i \in Levels |-> IF i = x THEN s ELSE IF log2(r) = 0 THEN <<>> ELSE f[r][i]]
        BY <2>2, <2>3, <2>4, <2>6 DEF IsBuild, Round
    <2>8. log2(r) # 0 => Laid(f[r], r)
        <3> SUFFICES ASSUME log2(r) # 0 PROVE Laid(f[r], r)
            OBVIOUS
        <3>1. r \in 1 .. n - 1
            BY <2>1, <2>4, LeftIs
        <3>2. r < n /\ r \in 1 .. NPages
            BY <2>1, <2>4, <3>1
        <3> QED  BY <1>1, <3>2
    <2>9. ASSUME NEW i \in Levels, i # x
          PROVE  t[i] = <<>> \/ (Block(t[i], i) /\ ToSet(t[i]) \subseteq NPages - r .. NPages - 1)
        <3>1. CASE log2(r) = 0
            BY <2>7, <2>9, <3>1
        <3>2. CASE log2(r) # 0
            <4>1. t[i] = f[r][i]
                BY <2>7, <2>9, <3>2
            <4> QED  BY <2>8, <3>2, <4>1 DEF Laid
        <3> QED  BY <3>1, <3>2
    <2>10. ASSUME NEW i \in Levels
           PROVE  t[i] = <<>> \/ (Block(t[i], i) /\ ToSet(t[i]) \subseteq NPages - n .. NPages - 1)
        <3>1. /\ NPages - n .. NPages - r - 1 \subseteq NPages - n .. NPages - 1
              /\ NPages - r .. NPages - 1 \subseteq NPages - n .. NPages - 1
            BY <2>1, <2>4
        <3>2. CASE i = x
            <4>1. t[i] = s
                BY <2>7, <3>2
            <4> QED  BY <2>5, <3>1, <3>2, <4>1
        <3>3. CASE i # x
            BY <2>9, <3>1, <3>3
        <3> QED  BY <3>2, <3>3
    <2>11. ASSUME NEW i \in Levels, i # x PROVE Apart(s, t[i]) /\ Apart(t[i], s)
        <3>1. CASE t[i] = <<>>
            BY <3>1, EmptyChain
        <3>2. CASE t[i] # <<>>
            <4>1. ToSet(t[i]) \subseteq NPages - r .. NPages - 1
                BY <2>9, <2>11, <3>2
            <4>2. (NPages - n .. NPages - r - 1) \cap (NPages - r .. NPages - 1) = {}
                BY <2>1, <2>4
            <4> QED  BY <2>5, <4>1, <4>2 DEF Apart
        <3> QED  BY <3>1, <3>2
    <2>12. ASSUME NEW i \in Levels, NEW j \in Levels, i # j PROVE Apart(t[i], t[j])
        <3>1. CASE i = x
            <4>1. t[i] = s
                BY <2>7, <3>1
            <4> QED  BY <2>11, <2>12, <3>1, <4>1
        <3>2. CASE j = x
            <4>1. t[j] = s
                BY <2>7, <3>2
            <4> QED  BY <2>11, <2>12, <3>2, <4>1
        <3>3. CASE i # x /\ j # x
            <4>1. CASE log2(r) = 0
                <5>1. t[i] = <<>>
                    BY <2>7, <3>3, <4>1
                <5> QED  BY <5>1, EmptyChain
            <4>2. CASE log2(r) # 0
                <5>1. t[i] = f[r][i] /\ t[j] = f[r][j]
                    BY <2>7, <3>3, <4>2
                <5> QED  BY <2>8, <2>12, <4>2, <5>1 DEF Laid
            <4> QED  BY <4>1, <4>2
        <3> QED  BY <3>1, <3>2, <3>3
    <2>13. t = [i \in Levels |-> t[i]]
        BY <2>7
    <2>14. ASSUME NEW i \in Levels PROVE Rising(t[i])
        <3>1. Rising(<<>>)
            <4>1. Len(<<>>) = 0 /\ 1 .. 0 - 1 = {}
                OBVIOUS
            <4> QED  BY <4>1 DEF Rising
        <3>2. t[i] = s \/ t[i] = <<>> \/ (log2(r) # 0 /\ t[i] = f[r][i])
            BY <2>7
        <3> QED  BY <2>5, <2>8, <3>1, <3>2 DEF Laid
    <2> QED  BY <2>6, <2>10, <2>12, <2>13, <2>14 DEF Laid
<1>2. \A n \in Nat : n \in T
    <2> HIDE DEF T
    <2> QED  BY <1>1, NatStrong
<1> QED  BY <1>2

LEMMA InitLaid == ASSUME Init PROVE Laid(list, NPages)
<1>1. PICK f : f = CHOOSE g : IsBuild(g)
    OBVIOUS
<1>2. IsBuild(f)
    BY <1>1, BuildExists
<1>3. list = f[NPages]
    BY <1>1, InitBlocksIs DEF Init
<1>4. NPages \in 1 .. NPages
    BY BuddyAssumption
<1> QED  BY <1>2, <1>3, <1>4, BuildIs

LEMMA InitBInv == ASSUME Init PROVE BInv
<1>1. Laid(list, NPages)
    BY InitLaid
<1>2. blk_num = [i \in Levels |-> IF list[i] = <<>> THEN 0 ELSE 1]
    BY DEF Init
<1>3. LevelsInv
    BY <1>1, <1>2 DEF LevelsInv, Laid
<1>4. held = {} /\ InHands = {}
    BY HandsHave DEF Init
<1>5. HeldInv
    BY <1>4 DEF HeldInv
<1>6. flags = [p \in Pages |-> "FREE"] /\ ref = [p \in Pages |-> 0]
    BY DEF Init
<1>7. MarksInv
    BY <1>4, <1>6 DEF MarksInv
<1> QED  BY <1>3, <1>5, <1>7 DEF BInv

(***************************************************************************)
(* alloc_pages                                                             *)
(***************************************************************************)

\* The level that a request is served from.
LEMMA FittingIs ==
    ASSUME NEW n \in Nat \ {0}
    PROVE  /\ IndexFor(n) \in Nat /\ n <= pow2(IndexFor(n))
           /\ \A i : i \in Fitting(n) <=> i \in Levels /\ IndexFor(n) <= i /\ list[i] # <<>>
<1>1. n \in Nat \ {0} /\ MaxLevel \in Nat
    BY BuddyAssumption
<1>2. IndexFor(n) \in Nat /\ n <= pow2(IndexFor(n))
    BY <1>1, IndexRange
<1>3. PICK x \in Nat : x = IndexFor(n)
    BY <1>2
<1>4. \A i : i \in x .. MaxLevel <=> i \in 0 .. MaxLevel /\ x <= i
    BY <1>1, <1>3
<1>5. \A i : i \in Fitting(n) <=> i \in Levels /\ x <= i /\ list[i] # <<>>
    BY <1>3, <1>4 DEF Fitting, Levels
<1> QED  BY <1>1, <1>2, <1>3, <1>5

\* No page gets a new one behind it: what falls along the chains of the table
\* falls along blk and along those that are left.
InOrder(blk) ==
    \A r : (\A l \in Levels : Falls(r, list[l]))
              => Falls(r, blk) /\ \A l \in Levels : Falls(r, list'[l])

LEMMA FallsPart ==
    ASSUME NEW r, NEW s \in Seq(Pages), Falls(r, s), NEW m \in Nat, NEW n \in Nat,
           1 <= m, m <= n, n <= Len(s)
    PROVE  Falls(r, SubSeq(s, m, n))
<1>1. PICK z : z = SubSeq(s, m, n)
    OBVIOUS
<1>2. PICK w : w = n - m + 1 /\ w \in Nat
    OBVIOUS
<1>3. Len(z) = w /\ \A k \in 1 .. w : z[k] = s[m + k - 1]
    BY <1>1, <1>2
<1>4. ASSUME NEW k \in 1 .. w - 1 PROVE r[z[k + 1]] < r[z[k]]
    <2>1. PICK j \in Nat : j = m + k - 1 /\ j + 1 = m + (k + 1) - 1 /\ j \in 1 .. Len(s) - 1
        BY <1>2
    <2>2. k \in 1 .. w /\ k + 1 \in 1 .. w
        BY <1>2
    <2>3. z[k] = s[j] /\ z[k + 1] = s[j + 1]
        BY <1>3, <2>1, <2>2
    <2> QED  BY <2>1, <2>3 DEF Falls
<1> QED  BY <1>1, <1>3, <1>4 DEF Falls

LEMMA FallsEmpty == \A r : Falls(r, <<>>)
<1>1. Len(<<>>) = 0 /\ 1 .. 0 - 1 = {}
    OBVIOUS
<1> QED  BY <1>1 DEF Falls

\* The step takes the block blk of level k, large enough for n pages, out of
\* the table and hands it out.
Taken(blk, k, n) ==
    /\ k \in Levels /\ Block(blk, k) /\ n <= pow2(k)
    /\ LevelsInv' /\ Hand(blk, n)
    /\ ToSet(blk) \subseteq InTable /\ InTable' = InTable \ ToSet(blk)
    /\ InOrder(blk)

LEMMA ExactTakes ==
    ASSUME LevelsInv, NEW n \in Nat \ {0}, AllocExact(n)
    PROVE  \E blk, k : Taken(blk, k, n)
<1>1. PICK i : i = IndexFor(n)
    OBVIOUS
<1>2. /\ i \in Fitting(n)
      /\ list' = [list EXCEPT ![i] = Rest(i)]
      /\ blk_num' = [blk_num EXCEPT ![i] = @ - 1]
      /\ Hand(FirstBlock(i), n)
    BY <1>1 DEF AllocExact
<1>3. i \in Levels /\ i \in Nat /\ list[i] # <<>> /\ n <= pow2(i)
    BY <1>1, <1>2, FittingIs
<1>4. PICK s : s = list[i]
    OBVIOUS
<1>5. Block(s, i) /\ FirstBlock(i) = s /\ Rest(i) = <<>> /\ blk_num[i] = 1
    BY <1>3, <1>4, ChainOf, WholeLevel
<1>6. list' = [l \in Levels |-> IF l = i THEN <<>> ELSE list[l]]
    BY <1>2, <1>3, <1>5 DEF LevelsInv
<1>7. blk_num' = [l \in Levels |-> IF l = i THEN 0 ELSE blk_num[l]]
    <2>1. blk_num' = [blk_num EXCEPT ![i] = blk_num[i] - 1] /\ blk_num[i] - 1 = 0
        BY <1>2, <1>5
    <2> QED  BY <1>3, <2>1 DEF LevelsInv
<1>8. LevelsInv'
    <2>1. list' = [l \in Levels |-> list'[l]] /\ blk_num' = [l \in Levels |-> blk_num'[l]]
        BY <1>6, <1>7
    <2>2. ASSUME NEW l \in Levels
          PROVE  \/ list'[l] = <<>> /\ blk_num'[l] = 0
                 \/ Block(list'[l], l) /\ blk_num'[l] = 1
        BY <1>6, <1>7 DEF LevelsInv
    <2>3. ASSUME NEW l \in Levels, NEW k \in Levels, l # k PROVE Apart(list'[l], list'[k])
        BY <1>6, <2>3, EmptyChain DEF LevelsInv
    <2> QED  BY <2>1, <2>2, <2>3 DEF LevelsInv, Block, Apart, Distinct, Pages, Levels, ToSet
<1>9. ToSet(s) \subseteq InTable
    BY <1>3, <1>4, TableHas
<1>10. InTable' = InTable \ ToSet(s)
    <2>1. ASSUME NEW p PROVE p \in InTable' <=> p \in InTable \ ToSet(s)
        <3>1. p \in InTable' <=> \E l \in Levels : p \in ToSet(list'[l])
            BY DEF InTable
        <3>2. \A l \in Levels : p \in ToSet(list'[l]) <=> l # i /\ p \in ToSet(list[l])
            BY <1>6, EmptyChain
        <3>3. \A l \in Levels : l # i => ~(p \in ToSet(list[l]) /\ p \in ToSet(s))
            BY <1>3, <1>4 DEF LevelsInv, Apart
        <3>4. p \in InTable <=> \E l \in Levels : p \in ToSet(list[l])
            BY TableHas
        <3> QED  BY <1>3, <1>4, <3>1, <3>2, <3>3, <3>4
    <2> QED  BY <2>1
<1>11. InOrder(s)
    <2>1. ASSUME NEW r, \A l \in Levels : Falls(r, list[l])
          PROVE  Falls(r, s) /\ \A l \in Levels : Falls(r, list'[l])
        BY <1>3, <1>4, <1>6, <2>1, FallsEmpty
    <2> QED  BY <2>1 DEF InOrder
<1>12. Taken(s, i, n)
    BY <1>2, <1>3, <1>5, <1>8, <1>9, <1>10, <1>11 DEF Taken
<1> QED  BY <1>12

LEMMA SplitTakes ==
    ASSUME LevelsInv, NEW n \in Nat \ {0}, AllocSplit(n)
    PROVE  \E blk, k : Taken(blk, k, n)
<1>1. PICK i : i = Min(Fitting(n))
    OBVIOUS
<1>2. /\ Fitting(n) # {} /\ IndexFor(n) \notin Fitting(n)
      /\ list' = [list EXCEPT ![i] = IF blk_num[i] > 1 THEN Rest(i) ELSE <<>>,
                              ![i - 1] = @ \o SubSeq(FirstBlock(i), 1, pow2(i - 1))]
      /\ blk_num' = [blk_num EXCEPT ![i] = @ - 1, ![i - 1] = @ + 1]
      /\ Hand(SubSeq(FirstBlock(i), pow2(i - 1) + 1, pow2(i)), n)
    BY <1>1 DEF AllocSplit
<1>3. i \in Fitting(n) /\ \A l \in Fitting(n) : i <= l
    <2>1. Fitting(n) \subseteq Nat
        BY FittingIs, LevelNat
    <2> QED  BY <1>1, <1>2, <2>1, MinIs
<1>4. /\ i \in Levels /\ i \in Nat /\ IndexFor(n) <= i /\ IndexFor(n) # i
      /\ list[i] # <<>> /\ IndexFor(n) \in Nat /\ n <= pow2(IndexFor(n)) /\ n \in Nat
    BY <1>2, <1>3, FittingIs, LevelNat
<1>5. PICK k \in Nat : k = i - 1 /\ i = k + 1 /\ i # k /\ IndexFor(n) <= k
    BY <1>4
<1>6. k \in Levels
    BY <1>4, <1>5, BuddyAssumption DEF Levels
<1>7. list[k] = <<>> /\ blk_num[k] = 0
    <2>1. ~(i <= k)
        BY <1>4, <1>5
    <2>2. list[k] = <<>>
        BY <1>3, <1>5, <1>6, <2>1, FittingIs
    <2> QED  BY <1>6, <2>2, ChainOf
<1>8. PICK s : s = list[i]
    OBVIOUS
<1>9. Block(s, i) /\ FirstBlock(i) = s /\ blk_num[i] = 1
    BY <1>4, <1>8, ChainOf, WholeLevel
<1>10. PICK s1 : s1 = SubSeq(s, 1, pow2(k))
    OBVIOUS
<1>11. PICK s2 : s2 = SubSeq(s, pow2(k) + 1, pow2(k + 1))
    OBVIOUS
<1>12. Block(s1, k) /\ Block(s2, k) /\ Apart(s1, s2) /\ ToSet(s) = ToSet(s1) \cup ToSet(s2)
    BY <1>5, <1>9, <1>10, <1>11, HalveBlock
<1>13. list' = [l \in Levels |-> IF l = i THEN <<>> ELSE IF l = k THEN s1 ELSE list[l]]
    <2>1. <<>> \o s1 = s1
        BY <1>12 DEF Block
    <2>2. list' = [list EXCEPT ![i] = <<>>, ![k] = @ \o s1]
        BY <1>2, <1>5, <1>9, <1>10
    <2>3. list' = [list EXCEPT ![i] = <<>>, ![k] = s1]
        BY <1>5, <1>6, <1>7, <2>1, <2>2 DEF LevelsInv
    <2> QED  BY <1>4, <1>5, <1>6, <2>3 DEF LevelsInv
<1>14. blk_num' = [l \in Levels |-> IF l = i THEN 0 ELSE IF l = k THEN 1 ELSE blk_num[l]]
    <2>1. blk_num' = [blk_num EXCEPT ![i] = @ - 1, ![k] = @ + 1]
        BY <1>2, <1>5
    <2>2. blk_num' = [l \in Levels |-> IF l = i THEN blk_num[i] - 1
                                       ELSE IF l = k THEN blk_num[k] + 1 ELSE blk_num[l]]
        BY <1>4, <1>5, <1>6, <2>1 DEF LevelsInv
    <2>3. blk_num[i] - 1 = 0 /\ blk_num[k] + 1 = 1
        BY <1>7, <1>9
    <2> QED  BY <2>2, <2>3
<1>15. ASSUME NEW l \in Levels, l # i
       PROVE  ToSet(list[l]) \cap ToSet(s1) = {} /\ ToSet(list[l]) \cap ToSet(s2) = {}
    <2>1. ToSet(list[l]) \cap ToSet(s) = {}
        BY <1>4, <1>8, <1>15 DEF LevelsInv, Apart
    <2> QED  BY <1>12, <2>1
<1>16. LevelsInv'
    <2>1. list' = [l \in Levels |-> list'[l]] /\ blk_num' = [l \in Levels |-> blk_num'[l]]
        BY <1>13, <1>14
    <2>2. ASSUME NEW l \in Levels
          PROVE  \/ list'[l] = <<>> /\ blk_num'[l] = 0
                 \/ Block(list'[l], l) /\ blk_num'[l] = 1
        BY <1>5, <1>12, <1>13, <1>14 DEF LevelsInv
    <2>3. ASSUME NEW l \in Levels, NEW m \in Levels, l # m PROVE Apart(list'[l], list'[m])
        <3>1. CASE l = i \/ m = i
            BY <1>13, <3>1, EmptyChain
        <3>2. CASE l # i /\ m # i /\ l = k
            BY <1>13, <1>15, <2>3, <3>2 DEF Apart
        <3>3. CASE l # i /\ m # i /\ m = k
            BY <1>13, <1>15, <2>3, <3>3 DEF Apart
        <3>4. CASE l # i /\ m # i /\ l # k /\ m # k
            BY <1>13, <2>3, <3>4 DEF LevelsInv
        <3> QED  BY <3>1, <3>2, <3>3, <3>4
    <2> QED  BY <2>1, <2>2, <2>3 DEF LevelsInv, Block, Apart, Distinct, Pages, Levels, ToSet
<1>17. ToSet(s2) \subseteq InTable
    BY <1>4, <1>8, <1>12, TableHas
<1>18. InTable' = InTable \ ToSet(s2)
    <2>1. ASSUME NEW p PROVE p \in InTable' <=> p \in InTable \ ToSet(s2)
        <3>1. p \in InTable' <=> \E l \in Levels : p \in ToSet(list'[l])
            BY DEF InTable
        <3>2. /\ list'[i] = <<>> /\ list'[k] = s1
              /\ \A l \in Levels : l # i /\ l # k => list'[l] = list[l]
            BY <1>4, <1>5, <1>6, <1>13
        <3>3. p \in InTable <=> \E l \in Levels : p \in ToSet(list[l])
            BY TableHas
        <3>4. p \in ToSet(s1) => p \notin ToSet(s2)
            BY <1>12 DEF Apart
        <3>5. CASE p \in ToSet(s)
            <4>1. \A l \in Levels : l # i => p \notin ToSet(list[l])
                BY <1>4, <1>8, <3>5 DEF LevelsInv, Apart
            <4>2. p \in InTable
                BY <1>4, <1>8, <3>3, <3>5
            <4>3. \A l \in Levels : l # k => p \notin ToSet(list'[l])
                BY <3>2, <4>1, EmptyChain
            <4>4. p \in InTable' <=> p \in ToSet(s1)
                BY <1>6, <3>1, <3>2, <4>3
            <4> QED  BY <1>12, <3>4, <3>5, <4>2, <4>4
        <3>6. CASE p \notin ToSet(s)
            <4>1. p \notin ToSet(s1) /\ p \notin ToSet(s2)
                BY <1>12, <3>6
            <4>2. p \notin ToSet(list[i]) /\ p \notin ToSet(list[k])
                BY <1>7, <1>8, <3>6, EmptyChain
            <4>3. \A l \in Levels : p \in ToSet(list'[l]) <=> p \in ToSet(list[l])
                BY <3>2, <4>1, <4>2, EmptyChain
            <4> QED  BY <3>1, <3>3, <4>1, <4>3
        <3> QED  BY <3>5, <3>6
    <2> QED  BY <2>1
<1>19. n <= pow2(k)
    <2>1. PICK x \in Nat : x = IndexFor(n) /\ x <= k
        BY <1>4, <1>5
    <2>2. pow2(x) <= pow2(k) /\ pow2(x) \in Nat /\ pow2(k) \in Nat
        BY <1>5, <2>1, PowMono, PowNat
    <2> QED  BY <1>4, <2>1, <2>2
<1>20. Hand(s2, n)
    <2>1. SubSeq(FirstBlock(i), pow2(i - 1) + 1, pow2(i)) = s2
        BY <1>5, <1>9, <1>11
    <2> QED  BY <1>2, <2>1
<1>21. InOrder(s2)
    <2>1. ASSUME NEW r, Falls(r, s) PROVE Falls(r, s1) /\ Falls(r, s2)
        <3>1. PICK a \in Nat, c \in Nat : a = pow2(k) /\ c = pow2(k + 1) /\ 1 <= a /\ a + 1 <= c
            <4>1. pow2(k) \in Nat \ {0} /\ pow2(k + 1) = 2 * pow2(k)
                BY <1>5, PowSucc
            <4>2. PICK a \in Nat \ {0} : a = pow2(k)
                BY <4>1
            <4>3. 2 * a \in Nat /\ a + 1 <= 2 * a
                BY <4>2
            <4> QED  BY <4>1, <4>2, <4>3
        <3>2. s \in Seq(Pages) /\ Len(s) = c
            BY <1>5, <1>9, <3>1 DEF Block
        <3>3. a + 1 \in Nat
            BY <3>1
        <3> QED  BY <1>10, <1>11, <2>1, <3>1, <3>2, <3>3, FallsPart
    <2>2. ASSUME NEW r, \A l \in Levels : Falls(r, list[l])
          PROVE  Falls(r, s2) /\ \A l \in Levels : Falls(r, list'[l])
        BY <1>4, <1>8, <1>13, <2>1, <2>2, FallsEmpty
    <2> QED  BY <2>2 DEF InOrder
<1>22. Taken(s2, k, n)
    BY <1>6, <1>12, <1>16, <1>17, <1>18, <1>19, <1>20, <1>21 DEF Taken
<1> QED  BY <1>22

\* alloc_pages answers with a block that nobody else has, or panics and
\* changes nothing.
LEMMA AllocTakes ==
    ASSUME LevelsInv, NEW n \in Nat \ {0}, alloc_pages(n)
    PROVE  \/ UNCHANGED <<list, blk_num, flags, ref, held>>
           \/ \E blk, k : Taken(blk, k, n) /\ UNCHANGED ref
<1>1. CASE AllocFails(n)
    BY <1>1 DEF AllocFails
<1>2. CASE alloc_buddy(n) /\ UNCHANGED <<ref, panicked>>
    <2>1. \E blk, k : Taken(blk, k, n)
        BY <1>2, ExactTakes, SplitTakes DEF alloc_buddy
    <2> QED  BY <1>2, <2>1
<1> QED  BY <1>1, <1>2 DEF alloc_pages

LEMMA TakenBInv ==
    ASSUME BInv, NEW n, NEW blk, NEW k, Taken(blk, k, n), ref' \in [Pages -> Nat]
    PROVE  BInv' /\ InHands' = InHands \cup ToSet(blk)
<1>1. /\ k \in Levels /\ Block(blk, k) /\ k \in Nat /\ Hand(blk, n)
      /\ ToSet(blk) \subseteq InTable /\ InTable' = InTable \ ToSet(blk) /\ LevelsInv'
    BY LevelNat DEF Taken
<1>2. PICK r : r = [pages |-> blk, asked |-> n]
    OBVIOUS
<1>3. r.pages = blk /\ held' = held \cup {r}
    BY <1>1, <1>2 DEF Hand
<1>4. \A p : p \in InTable' <=> \E i \in Levels : p \in ToSet(list'[i])
    BY DEF InTable
<1>5. \A p : p \in InHands' <=> \E b \in held' : p \in ToSet(b.pages)
    BY DEF InHands
<1>6. InHands' = InHands \cup ToSet(blk)
    <2>1. ASSUME NEW p PROVE p \in InHands' <=> p \in InHands \/ p \in ToSet(blk)
        BY <1>3, <1>5, HandsHave
    <2> QED  BY <2>1
<1>7. ASSUME NEW b \in held, NEW p \in InTable PROVE p \notin ToSet(b.pages)
    BY TableHas DEF BInv, HeldInv, Apart
<1>8. HeldInv'
    <2>1. ASSUME NEW b \in held' PROVE \E j \in Levels : Block(b.pages, j)
        BY <1>1, <1>3 DEF BInv, HeldInv
    <2>2. ASSUME NEW b \in held', NEW i \in Levels PROVE Apart(list'[i], b.pages)
        <3>1. \A p \in ToSet(list'[i]) : p \in InTable /\ p \notin ToSet(blk)
            BY <1>1, <1>4
        <3>2. CASE b = r
            BY <1>3, <3>1, <3>2 DEF Apart
        <3>3. CASE b \in held
            BY <1>7, <3>1, <3>3 DEF Apart
        <3> QED  BY <1>3, <3>2, <3>3
    <2>3. ASSUME NEW b \in held', NEW c \in held', b # c PROVE Apart(b.pages, c.pages)
        <3>1. CASE b \in held /\ c \in held
            BY <2>3, <3>1 DEF BInv, HeldInv
        <3>2. CASE b = r /\ c \in held
            BY <1>1, <1>3, <1>7, <3>2 DEF Apart
        <3>3. CASE c = r /\ b \in held
            BY <1>1, <1>3, <1>7, <3>3 DEF Apart
        <3> QED  BY <1>3, <2>3, <3>1, <3>2, <3>3
    <2> QED  BY <2>1, <2>2, <2>3 DEF HeldInv, Block, Apart, Distinct, Pages, Levels, ToSet
<1>9. MarksInv'
    <2>1. flags' = [p \in Pages |-> IF Contains(blk, p) THEN "BUSY" ELSE flags[p]]
        BY <1>1 DEF Hand, SetFlags
    <2>2. blk \in Seq(Pages)
        BY <1>1, BlockSize
    <2>3. \A p : Contains(blk, p) <=> p \in ToSet(blk)
        BY <2>2, PagesOf
    <2>4. flags' \in [Pages -> {"FREE", "BUSY"}]
        BY <2>1 DEF BInv, MarksInv
    <2>5. ASSUME NEW p \in Pages PROVE flags'[p] = "BUSY" <=> p \in InHands'
        BY <1>6, <2>1, <2>3 DEF BInv, MarksInv
    <2> QED  BY <2>4, <2>5 DEF MarksInv, Pages
<1> QED  BY <1>1, <1>6, <1>8, <1>9 DEF BInv

(***************************************************************************)
(* free_buddy, map and unmap                                               *)
(***************************************************************************)

\* A block that a caller holds is a chain that the table can take back.
LEMMA HeldLoose ==
    ASSUME BInv, NEW b \in held
    PROVE  \E j \in Levels : j \in Nat /\ Loose(b.pages, j) /\ log2(Len(b.pages)) = j
<1>1. PICK j \in Levels : Block(b.pages, j)
    BY DEF BInv, HeldInv
<1>2. j \in Nat /\ Len(b.pages) = pow2(j)
    BY <1>1, LevelNat DEF Block
<1>3. log2(Len(b.pages)) = j
    BY <1>2, Log2Pow
<1> QED  BY <1>1, <1>2, <1>3 DEF BInv, HeldInv, Loose

LEMMA MergeStaysInv == ASSUME BInv PROVE MergeStaysInTable
<1> SUFFICES ASSUME NEW b \in held PROVE Top(log2(Len(b.pages))) <= MaxLevel
    BY DEF MergeStaysInTable
<1>1. PICK j \in Levels : Loose(b.pages, j) /\ log2(Len(b.pages)) = j
    BY HeldLoose
<1>2. Top(j) \in Levels
    BY <1>1, TopInTable DEF BInv
<1> QED  BY <1>1, <1>2, BuddyAssumption DEF Levels

\* A chain that goes back leaves a table with one block or none on each level,
\* which has the pages of the chain and no other new ones.
LEMMA FreeTable ==
    ASSUME LevelsInv, NEW j \in Levels, NEW s, Loose(s, j), FreeChain(s)
    PROVE  LevelsInv' /\ InTable' = InTable \cup ToSet(s)
<1>1. PICK t \in Levels : t = Top(j) /\ t \in Nat /\ j \in Nat /\ j <= t
    BY FreeChainIs, TopIs
<1>2. list[t] = <<>>
    BY <1>1, FreeChainIs
<1>3. PICK m : /\ Block(m, t) /\ ToSet(m) = Collected(s, j, t)
               /\ list' = [l \in Levels |-> IF l \in j .. t - 1 THEN <<>>
                                            ELSE IF l = t THEN m ELSE list[l]]
               /\ blk_num' = [l \in Levels |-> IF l \in j .. t - 1 THEN 0
                                            ELSE IF l = t THEN 1 ELSE blk_num[l]]
    BY <1>1, FreeChainIs
<1>4. t \notin j .. t - 1 /\ \A l \in j .. t - 1 : l \in Levels
    BY <1>1, TopIs
<1>5. /\ list'[t] = m /\ \A l \in j .. t - 1 : list'[l] = <<>>
      /\ \A l \in Levels : l \notin j .. t - 1 /\ l # t => list'[l] = list[l]
    BY <1>1, <1>3, <1>4
<1>6. \A p : p \in ToSet(m) <=> p \in ToSet(s) \/ \E l \in j .. t - 1 : p \in ToSet(list[l])
    BY <1>3 DEF Collected
<1>7. ASSUME NEW l \in Levels, l \notin j .. t - 1 PROVE ToSet(list[l]) \cap ToSet(m) = {}
    <2>1. ASSUME NEW p \in ToSet(list[l]), p \in ToSet(m) PROVE FALSE
        <3>1. p \notin ToSet(s)
            BY <1>7, <2>1 DEF Loose, Apart
        <3>2. PICK k \in j .. t - 1 : p \in ToSet(list[k])
            BY <1>6, <2>1, <3>1
        <3>3. k \in Levels /\ k # l
            BY <1>4, <1>7, <3>2
        <3> QED  BY <2>1, <3>2, <3>3 DEF LevelsInv, Apart
    <2> QED  BY <2>1
<1>8. LevelsInv'
    <2>1. list' = [l \in Levels |-> list'[l]] /\ blk_num' = [l \in Levels |-> blk_num'[l]]
        BY <1>3
    <2>2. ASSUME NEW l \in Levels
          PROVE  \/ list'[l] = <<>> /\ blk_num'[l] = 0
                 \/ Block(list'[l], l) /\ blk_num'[l] = 1
        BY <1>3 DEF LevelsInv
    <2>3. ASSUME NEW l \in Levels, NEW k \in Levels, l # k PROVE Apart(list'[l], list'[k])
        <3>1. CASE l \in j .. t - 1 \/ k \in j .. t - 1
            BY <1>5, <3>1, EmptyChain
        <3>2. CASE l \notin j .. t - 1 /\ k \notin j .. t - 1 /\ l = t
            BY <1>5, <1>7, <2>3, <3>2 DEF Apart
        <3>3. CASE l \notin j .. t - 1 /\ k \notin j .. t - 1 /\ k = t
            BY <1>5, <1>7, <2>3, <3>3 DEF Apart
        <3>4. CASE l \notin j .. t - 1 /\ k \notin j .. t - 1 /\ l # t /\ k # t
            BY <1>5, <2>3, <3>4 DEF LevelsInv
        <3> QED  BY <3>1, <3>2, <3>3, <3>4
    <2> QED  BY <2>1, <2>2, <2>3 DEF LevelsInv, Block, Apart, Distinct, Pages, Levels, ToSet
<1>9. InTable' = InTable \cup ToSet(s)
    <2>1. ASSUME NEW p PROVE p \in InTable' <=> p \in InTable \/ p \in ToSet(s)
        <3>1. p \in InTable' <=> \E l \in Levels : p \in ToSet(list'[l])
            BY DEF InTable
        <3>2. p \in InTable <=> \E l \in Levels : p \in ToSet(list[l])
            BY TableHas
        <3>3. ASSUME p \in InTable' PROVE p \in InTable \/ p \in ToSet(s)
            <4>1. PICK l \in Levels : p \in ToSet(list'[l])
                BY <3>1, <3>3
            <4>2. CASE l = t
                BY <1>4, <1>5, <1>6, <3>2, <4>1, <4>2
            <4>3. CASE l \in j .. t - 1
                BY <1>5, <4>1, <4>3, EmptyChain
            <4>4. CASE l \notin j .. t - 1 /\ l # t
                BY <1>5, <3>2, <4>1, <4>4
            <4> QED  BY <4>2, <4>3, <4>4
        <3>4. ASSUME p \in ToSet(s) PROVE p \in InTable'
            BY <1>1, <1>5, <1>6, <3>1, <3>4
        <3>5. ASSUME p \in InTable PROVE p \in InTable'
            <4>1. PICK l \in Levels : p \in ToSet(list[l])
                BY <3>2, <3>5
            <4>2. CASE l = t
                BY <1>2, <4>1, <4>2, EmptyChain
            <4>3. CASE l \in j .. t - 1
                BY <1>1, <1>5, <1>6, <3>1, <4>1, <4>3
            <4>4. CASE l \notin j .. t - 1 /\ l # t
                BY <1>5, <3>1, <4>1, <4>4
            <4> QED  BY <4>2, <4>3, <4>4
        <3> QED  BY <3>3, <3>4, <3>5
    <2> QED  BY <2>1
<1> QED  BY <1>8, <1>9

LEMMA FreeBInv ==
    ASSUME BInv, NEW b \in held, FreeChain(b.pages), held' = held \ {b},
           ref' \in [Pages -> Nat]
    PROVE  /\ BInv' /\ InTable' = InTable \cup ToSet(b.pages)
           /\ InHands' = InHands \ ToSet(b.pages)
<1>1. PICK s : s = b.pages
    OBVIOUS
<1>2. PICK j \in Levels : j \in Nat /\ Loose(s, j)
    BY <1>1, HeldLoose
<1>3. LevelsInv' /\ InTable' = InTable \cup ToSet(s)
    BY <1>1, <1>2, FreeTable DEF BInv
<1>4. s \in Seq(Pages)
    BY <1>2, BlockSize DEF Loose
<1>5. \A p : p \in InTable' <=> \E i \in Levels : p \in ToSet(list'[i])
    BY DEF InTable
<1>6. \A c \in held : c # b => ToSet(s) \cap ToSet(c.pages) = {}
    BY <1>1 DEF BInv, HeldInv, Apart
<1>7. InHands' = InHands \ ToSet(s)
    <2>1. ASSUME NEW p PROVE p \in InHands' <=> p \in InHands /\ p \notin ToSet(s)
        <3>1. p \in InHands' <=> \E c \in held' : p \in ToSet(c.pages)
            BY DEF InHands
        <3>2. p \in InHands <=> \E c \in held : p \in ToSet(c.pages)
            BY HandsHave
        <3> QED  BY <1>1, <1>6, <3>1, <3>2
    <2> QED  BY <2>1
<1>8. ASSUME NEW c \in held, NEW p \in InTable PROVE p \notin ToSet(c.pages)
    BY TableHas DEF BInv, HeldInv, Apart
<1>9. HeldInv'
    <2>1. ASSUME NEW c \in held' PROVE \E i \in Levels : Block(c.pages, i)
        BY DEF BInv, HeldInv
    <2>2. ASSUME NEW c \in held', NEW i \in Levels PROVE Apart(list'[i], c.pages)
        <3>1. \A p \in ToSet(list'[i]) : p \in InTable \/ p \in ToSet(s)
            BY <1>3, <1>5
        <3>2. c \in held /\ ToSet(s) \cap ToSet(c.pages) = {}
            BY <1>6
        <3> QED  BY <1>8, <3>1, <3>2 DEF Apart
    <2>3. ASSUME NEW c \in held', NEW d \in held', c # d PROVE Apart(c.pages, d.pages)
        BY <2>3 DEF BInv, HeldInv
    <2> QED  BY <2>1, <2>2, <2>3 DEF HeldInv, Block, Apart, Distinct, Pages, Levels, ToSet
<1>10. MarksInv'
    <2>1. flags' = [p \in Pages |-> IF Contains(s, p) THEN "FREE" ELSE flags[p]]
        BY <1>1, <1>2, FreeChainIs DEF BInv, SetFlags
    <2>2. \A p : Contains(s, p) <=> p \in ToSet(s)
        BY <1>4, PagesOf
    <2>3. flags' \in [Pages -> {"FREE", "BUSY"}]
        BY <2>1 DEF BInv, MarksInv
    <2>4. ASSUME NEW p \in Pages PROVE flags'[p] = "BUSY" <=> p \in InHands'
        BY <1>7, <2>1, <2>2 DEF BInv, MarksInv
    <2> QED  BY <2>3, <2>4 DEF MarksInv, Pages
<1> QED  BY <1>1, <1>3, <1>7, <1>9, <1>10 DEF BInv

\* The parts of the invariant that do not depend on the marks.
LEMMA SameTable ==
    ASSUME LevelsInv, HeldInv, list' = list, blk_num' = blk_num, held' = held
    PROVE  LevelsInv' /\ HeldInv' /\ InHands' = InHands
<1>1. LevelsInv'
    <2>1. list' = [l \in Levels |-> list'[l]] /\ blk_num' = [l \in Levels |-> blk_num'[l]]
        BY DEF LevelsInv
    <2>2. ASSUME NEW l \in Levels
          PROVE  \/ list'[l] = <<>> /\ blk_num'[l] = 0
                 \/ Block(list'[l], l) /\ blk_num'[l] = 1
        BY DEF LevelsInv
    <2>3. ASSUME NEW l \in Levels, NEW k \in Levels, l # k PROVE Apart(list'[l], list'[k])
        BY <2>3 DEF LevelsInv
    <2> QED  BY <2>1, <2>2, <2>3 DEF LevelsInv, Block, Apart, Distinct, Pages, Levels, ToSet
<1>2. HeldInv'
    <2>1. ASSUME NEW b \in held' PROVE \E j \in Levels : Block(b.pages, j)
        BY DEF HeldInv
    <2>2. ASSUME NEW b \in held', NEW i \in Levels PROVE Apart(list'[i], b.pages)
        BY DEF HeldInv
    <2>3. ASSUME NEW b \in held', NEW c \in held', b # c PROVE Apart(b.pages, c.pages)
        BY <2>3 DEF HeldInv
    <2> QED  BY <2>1, <2>2, <2>3 DEF HeldInv, Block, Apart, Distinct, Pages, Levels, ToSet
<1>3. InHands' = InHands
    BY DEF InHands, ToSet
<1> QED  BY <1>1, <1>2, <1>3

\* Mapping and unmapping leave the table and the marks alone.
LEMMA RefBInv ==
    ASSUME BInv, UNCHANGED <<list, blk_num, flags, held>>, ref' \in [Pages -> Nat]
    PROVE  BInv' /\ InHands' = InHands
<1>1. LevelsInv' /\ HeldInv' /\ InHands' = InHands
    BY SameTable DEF BInv
<1>2. flags' \in [Pages -> {"FREE", "BUSY"}] /\ \A p \in Pages : flags'[p] = "BUSY" <=> p \in InHands'
    BY <1>1 DEF BInv, MarksInv
<1> QED  BY <1>1, <1>2 DEF BInv, MarksInv, Pages

LEMMA SameBInv ==
    ASSUME BInv, UNCHANGED <<list, blk_num, flags, ref, held>>
    PROVE  BInv'
<1>1. LevelsInv' /\ HeldInv' /\ InHands' = InHands
    BY SameTable DEF BInv
<1>2. MarksInv'
    BY <1>1 DEF BInv, MarksInv, Pages
<1> QED  BY <1>1, <1>2 DEF BInv

\* What the callers see of the allocator.
Owned == {ToSet(b.pages) : b \in held}
Seen  == <<InTable, Owned>>

LEMMA SameSeen ==
    ASSUME UNCHANGED <<list, held>>
    PROVE  UNCHANGED Seen
BY DEF Seen, Owned, InTable, Levels, ToSet

\* The request is answered with at least n pages that were free.
LEMMA TakenSeen ==
    ASSUME BInv, NEW n \in Nat, NEW blk, NEW k, Taken(blk, k, n)
    PROVE  \E S \in SUBSET InTable : /\ Cardinality(S) >= n
                                     /\ InTable' = InTable \ S
                                     /\ Owned' = Owned \cup {S}
<1>1. PICK S : S = ToSet(blk)
    OBVIOUS
<1>2. S \in SUBSET InTable /\ InTable' = InTable \ S
    BY <1>1 DEF Taken
<1>3. Cardinality(S) = pow2(k) /\ n <= pow2(k) /\ pow2(k) \in Nat
    BY <1>1, BlockSize, LevelNat, PowNat DEF Taken
<1>4. PICK r : r = [pages |-> blk, asked |-> n]
    OBVIOUS
<1>5. r.pages = blk /\ held' = held \cup {r}
    BY <1>4 DEF Taken, Hand
<1>6. Owned' = Owned \cup {S}
    <2>1. Owned' = {ToSet(b.pages) : b \in held'}
        BY DEF Owned, ToSet
    <2> QED  BY <1>1, <1>5, <2>1 DEF Owned
<1>7. Cardinality(S) >= n
    BY <1>3
<1> QED  BY <1>2, <1>6, <1>7

\* A block that is freed was owned, and only its pages come back.
LEMMA FreeSeen ==
    ASSUME BInv, NEW b \in held, held' = held \ {b}, InTable' = InTable \cup ToSet(b.pages)
    PROVE  \E S \in Owned : Owned' = Owned \ {S} /\ InTable' = InTable \cup S
<1>1. PICK S : S = ToSet(b.pages)
    OBVIOUS
<1>2. S # {}
    <2>1. PICK j \in Levels : j \in Nat /\ Loose(b.pages, j)
        BY HeldLoose
    <2> QED  BY <1>1, <2>1, BlockSize DEF Loose
<1>3. \A c \in held : c # b => ToSet(c.pages) # S
    BY <1>1, <1>2 DEF BInv, HeldInv, Apart
<1>4. Owned' = {ToSet(c.pages) : c \in held'}
    BY DEF Owned, ToSet
<1>5. Owned' = Owned \ {S} /\ S \in Owned
    BY <1>1, <1>3, <1>4 DEF Owned
<1> QED  BY <1>1, <1>5

(***************************************************************************)
(* Every step                                                              *)
(***************************************************************************)

\* free_buddy merges a block that is held, or refuses it.
LEMMA FreeStep ==
    ASSUME BInv, NEW b \in held, free_buddy(b)
    PROVE  /\ BInv'
           /\ \/ UNCHANGED Seen
              \/ \E S \in Owned : Owned' = Owned \ {S} /\ InTable' = InTable \cup S
<1>1. CASE Mapped(b.pages)
    <2>1. UNCHANGED <<list, blk_num, flags, ref, held>>
        BY <1>1 DEF free_buddy, vars
    <2> QED  BY <2>1, SameBInv, SameSeen
<1>2. CASE ~Mapped(b.pages)
    <2>1. FreeChain(b.pages) /\ held' = held \ {b} /\ UNCHANGED ref
        BY <1>2 DEF free_buddy
    <2>2. ref' \in [Pages -> Nat]
        BY <2>1 DEF BInv, MarksInv
    <2>3. BInv' /\ InTable' = InTable \cup ToSet(b.pages)
        BY <2>1, <2>2, FreeBInv
    <2> QED  BY <2>1, <2>3, FreeSeen
<1> QED  BY <1>1, <1>2

\* map and unmap count.
LEMMA CountStep ==
    ASSUME BInv, NEW p \in Pages, map_page(p) \/ unmap_page(p)
    PROVE  BInv' /\ UNCHANGED Seen
<1>1. UNCHANGED <<list, blk_num, flags, held>>
    BY DEF map_page, unmap_page
<1>2. ref \in [Pages -> Nat]
    BY DEF BInv, MarksInv
<1>3. PICK n \in Nat : n = ref[p]
    BY <1>2
<1>4. PICK m \in Nat : ref' = [ref EXCEPT ![p] = m]
    <2>1. CASE map_page(p)
        BY <2>1 DEF map_page
    <2>2. CASE unmap_page(p)
        <3>1. n - 1 \in Nat /\ ref' = [ref EXCEPT ![p] = n - 1]
            BY <1>3, <2>2 DEF unmap_page
        <3> QED  BY <3>1
    <2> QED  BY <2>1, <2>2
<1>5. ref' \in [Pages -> Nat]
    BY <1>2, <1>4
<1> QED  BY <1>1, <1>5, RefBInv, SameSeen

LEMMA EveryStep ==
    ASSUME BInv, [Next]_vars
    PROVE  /\ BInv'
           /\ \/ UNCHANGED Seen
              \/ \E n \in 1 .. MaxRequest : \E S \in SUBSET InTable :
                     Cardinality(S) >= n /\ InTable' = InTable \ S /\ Owned' = Owned \cup {S}
              \/ \E S \in Owned : Owned' = Owned \ {S} /\ InTable' = InTable \cup S
<1>1. CASE UNCHANGED vars
    <2>1. UNCHANGED <<list, blk_num, flags, ref, held>>
        BY <1>1 DEF vars
    <2> QED  BY <2>1, SameBInv, SameSeen
<1>2. ASSUME NEW n \in 1 .. MaxRequest, alloc_pages(n)
      PROVE  /\ BInv'
             /\ \/ UNCHANGED Seen
                \/ \E S \in SUBSET InTable :
                       Cardinality(S) >= n /\ InTable' = InTable \ S /\ Owned' = Owned \cup {S}
    <2>1. CASE UNCHANGED <<list, blk_num, flags, ref, held>>
        BY <2>1, SameBInv, SameSeen
    <2>2. CASE \E blk, k : Taken(blk, k, n) /\ UNCHANGED ref
        <3>1. PICK blk, k : Taken(blk, k, n) /\ UNCHANGED ref
            BY <2>2
        <3>2. n \in Nat /\ ref' \in [Pages -> Nat]
            BY <3>1, BuddyAssumption DEF BInv, MarksInv
        <3> QED  BY <3>1, <3>2, TakenBInv, TakenSeen
    <2>3. n \in Nat \ {0}
        BY BuddyAssumption
    <2> QED  BY <1>2, <2>1, <2>2, <2>3, AllocTakes DEF BInv
<1>3. ASSUME NEW b \in held, free_buddy(b)
      PROVE  /\ BInv'
             /\ \/ UNCHANGED Seen
                \/ \E S \in Owned : Owned' = Owned \ {S} /\ InTable' = InTable \cup S
    BY <1>3, FreeStep
<1>4. ASSUME NEW p \in Pages, map_page(p) \/ unmap_page(p)
      PROVE  BInv' /\ UNCHANGED Seen
    BY <1>4, CountStep
<1>5. CASE Next
    BY <1>2, <1>3, <1>4, <1>5 DEF Next
<1> QED  BY <1>1, <1>5

LEMMA BInvAlways == Spec => []BInv
<1>1. Init => BInv
    BY InitBInv
<1>2. BInv /\ [Next]_vars => BInv'
    BY EveryStep
<1> QED  BY <1>1, <1>2, PTL DEF Spec

(***************************************************************************)
(* The theorems                                                            *)
(***************************************************************************)

LEMMA PartitionInv == ASSUME BInv PROVE PagesPartitioned
<1>1. ASSUME NEW i \in Levels PROVE IsInjective(list[i])
    <2>1. CASE list[i] = <<>>
        BY <2>1 DEF IsInjective
    <2>2. CASE list[i] # <<>>
        <3>1. PICK s : s = list[i]
            OBVIOUS
        <3>2. s \in Seq(Pages) /\ Distinct(s)
            BY <2>2, <3>1, ChainOf DEF BInv, Block
        <3>3. DOMAIN s = 1 .. Len(s)
            BY <3>2, LenProperties
        <3> QED  BY <3>1, <3>2, <3>3 DEF IsInjective, Distinct
    <2> QED  BY <2>1, <2>2
<1>2. InTable \cap InHands = {}
    BY TableHas, HandsHave DEF BInv, HeldInv, Apart
<1> QED  BY <1>1, <1>2 DEF BInv, LevelsInv, HeldInv, Apart, PagesPartitioned

LEMMA ExactInv == ASSUME BInv PROVE LevelsExact
<1> SUFFICES ASSUME NEW i \in Levels
             PROVE  Len(list[i]) = blk_num[i] * pow2(i) /\ blk_num[i] <= 1
    BY DEF LevelsExact
<1>1. PICK w \in Nat : w = pow2(i)
    BY LevelNat, PowNat
<1>2. CASE list[i] = <<>>
    <2>1. blk_num[i] = 0 /\ Len(list[i]) = 0
        BY <1>2, ChainOf DEF BInv
    <2> QED  BY <1>1, <2>1
<1>3. CASE list[i] # <<>>
    <2>1. blk_num[i] = 1 /\ Len(list[i]) = w
        BY <1>1, <1>3, ChainOf DEF BInv, Block
    <2> QED  BY <1>1, <2>1
<1> QED  BY <1>2, <1>3

\* No page is in two places, however alloc_pages splits blocks and free_buddy
\* merges them: not in two blocks that callers hold, not twice in the table,
\* not in the table while a caller holds it.
THEOREM PagesPartitionedCorrect == Spec => []PagesPartitioned
BY BInvAlways, PartitionInv, PTL

\* buddy_table[i].blk_num counts the blocks of level i exactly, and is 0 or 1:
\* SplitBlock and FindBuddy cut the chains where blocks begin.
THEOREM LevelsExactCorrect == Spec => []LevelsExact
BY BInvAlways, ExactInv, PTL

\* A page is marked busy exactly while a caller holds it, whatever callers map
\* and whatever free_buddy refuses.
THEOREM BusyIffHeldCorrect == Spec => []BusyIffHeld
<1>1. BInv => BusyIffHeld
    BY DEF BInv, MarksInv, BusyIffHeld
<1> QED  BY <1>1, BInvAlways, PTL

\* alloc_buddy finds a block whenever enough pages are free for the power of
\* two that it rounds the request up to.
THEOREM NoFragmentationCorrect == Spec => []NoFragmentation
<1>1. BInv => NoFragmentation
    BY NoFragmentationInv DEF BInv
<1> QED  BY <1>1, BInvAlways, PTL

\* free_buddy never merges past the end of buddy_table: the blocks it merges
\* double from level to level, and there are fewer pages than two blocks of
\* the last level.
THEOREM MergeStaysCorrect == Spec => []MergeStaysInTable
BY BInvAlways, MergeStaysInv, PTL

\* Buddy implements PageAllocator: alloc_pages answers with pages that nobody
\* has, at least as many as asked for, and only free_buddy brings pages back,
\* all those of one block.
THEOREM PageAllocatorCorrect == Spec => ImplementsPageAllocator
<1>1. Init => Owned = {}
    BY DEF Init, Owned
<1>2. BInv /\ [Next]_vars => [PA!PANext]_(PA!paVars)
    <2> SUFFICES ASSUME BInv, [Next]_vars PROVE PA!PANext \/ UNCHANGED PA!paVars
        OBVIOUS
    <2>1. CASE UNCHANGED Seen
        BY <2>1 DEF Seen, Owned, PA!paVars
    <2>2. CASE \E n \in 1 .. MaxRequest : \E S \in SUBSET InTable :
                   Cardinality(S) >= n /\ InTable' = InTable \ S /\ Owned' = Owned \cup {S}
        <3>1. \A S : PA!Cardinality(S) = Cardinality(S)
            BY DEF PA!Cardinality, Cardinality
        <3>2. \E n \in 1 .. MaxRequest : PA!Alloc(n)
            BY <2>2, <3>1 DEF Owned, PA!Alloc
        <3> QED  BY <3>2 DEF PA!PANext
    <2>3. CASE \E S \in Owned : Owned' = Owned \ {S} /\ InTable' = InTable \cup S
        <3>1. \E S \in Owned : PA!Free(S)
            BY <2>3 DEF Owned, PA!Free
        <3> QED  BY <3>1 DEF Owned, PA!PANext
    <2> QED  BY <2>1, <2>2, <2>3, EveryStep
<1> QED  BY <1>1, <1>2, BInvAlways, PTL DEF Spec, ImplementsPageAllocator, PA!PASpec, Owned

(***************************************************************************)
(* Demand paging (module Paging)                                           *)
(*                                                                         *)
(* A frame that alloc_pages has handed out is fresh until its thread has   *)
(* stored the entry: it counts as unmapped, no entry has it, and nobody    *)
(* else has it.  So map never takes a frame that an entry already maps,    *)
(* and free_buddy, which refuses a chain with a page that counts as        *)
(* mapped, frees none unless map has not come to the count yet.  swap_out  *)
(* may find such a frame on its list, but only while another thread is in  *)
(* a fault; the heap may have one as its last slab, which is a race.       *)
(***************************************************************************)

SlabPlaces == {"slab", "slab count", "slab address"}

\* Only the boot thread comes here.
HeapPlaces == {"slab", "slab count", "slab address", "out", "unmap"}

\* Places at which a thread has an address.
Faulting ==
    {"fault", "new", "swap_in", "nested", "map", "count", "address", "swappable", "access"}

Places == {"run"} \cup Faulting \cup HeapPlaces

Entries == [frame : Pages \cup {None}, p : BOOLEAN]

PTypes ==
    /\ pte \in [VPages -> Entries] /\ va \in [Pages -> VPages \cup {None}]
    /\ pc \in [Threads -> Places] /\ at \in [Threads -> VPages \cup {None}]
    /\ DOMAIN frm = Threads /\ slabs \in Seq(Pages) /\ heap_top <= MaxSlabs
    /\ \A t \in Threads : /\ pc[t] \in Faulting => at[t] \in VPages
                          /\ pc[t] \in HeapPlaces => t = Boot
                          /\ pc[t] \in SlabPlaces => heap_top < MaxSlabs

\* The thread has a frame of which map has stored nothing; the entry; the count.
Fresh(t)   == pc[t] \in {"map", "slab"}
Storing(t) == pc[t] \in {"count", "address", "slab count", "slab address"}
Counted(t) == pc[t] \in {"address", "slab address"}
Having(t)  == Fresh(t) \/ Storing(t)

\* The address that it maps.
Target(t) == IF pc[t] \in SlabPlaces THEN heap_top ELSE at[t]

Maps(v, f) == pte[v].p /\ pte[v].frame = f

\* An entry that is present.
EntryOK(v) ==
    /\ pte[v].frame \in InHands
    /\ pte[v].frame \notin Mapping => ref[pte[v].frame] = 1 /\ va[pte[v].frame] = v

EntriesOK == \A v \in VPages : pte[v].p => EntryOK(v)

FrameOK(t) ==
    /\ Having(t) => frm[t] \in InHands
    /\ Having(t) /\ ~Counted(t) => ref[frm[t]] = 0
    /\ Fresh(t) => \A v \in VPages : ~Maps(v, frm[t])
    /\ Storing(t) => \A v \in VPages : Maps(v, frm[t]) =>
                        v = Target(t) /\ (Counted(t) => ref[frm[t]] = 1)

FreshOK ==
    /\ \A t \in Threads : FrameOK(t)
    /\ \A t, u \in Threads : Having(t) /\ Having(u) /\ frm[t] = frm[u] => t = u

MappedHeld == \A p \in Pages : ref[p] > 0 => p \in InHands

\* Between free_buddy and unmap the last slab's page stays present.
UnmapOK == \A t \in Threads : pc[t] = "unmap" => slabs # <<>> /\ pte[heap_top - 1].p

FState == BInv /\ MappedHeld /\ PTypes /\ EntriesOK /\ FreshOK /\ UnmapOK

\* It holds as long as no two calls have raced and nobody has evicted a frame
\* over another thread's fault.
Undisturbed == "raced" \notin past /\ ("crossed" \notin past \/ past \subseteq {"crossed"})

FramesInv == Undisturbed => FState

(***************************************************************************)
(* Frames                                                                  *)
(***************************************************************************)

LEMMA HandsPages == ASSUME BInv PROVE InHands \subseteq Pages /\ ref \in [Pages -> Nat]
<1>1. ASSUME NEW b \in held PROVE ToSet(b.pages) \subseteq Pages
    <2>1. PICK j \in Levels : Block(b.pages, j) /\ j \in Nat
        BY LevelNat DEF BInv, HeldInv
    <2> QED  BY <2>1, BlockSize
<1> QED  BY <1>1, HandsHave DEF BInv, MarksInv

LEMMA TableApart == ASSUME BInv PROVE InTable \cap InHands = {}
<1>1. ASSUME NEW c \in held, NEW p \in InTable PROVE p \notin ToSet(c.pages)
    BY TableHas DEF BInv, HeldInv, Apart
<1> QED  BY <1>1, HandsHave

\* The first page of a block is one of its pages.
LEMMA HeadIn ==
    ASSUME NEW j \in Nat, NEW s, Block(s, j)
    PROVE  Head(s) \in ToSet(s) /\ Head(s) \in Pages /\ Head(s) = s[1] /\ 1 \in DOMAIN s
<1>1. s \in Seq(Pages) /\ s # <<>> /\ ToSet(s) \subseteq Pages
    BY BlockSize
<1>2. ToSet(s) = {s[k] : k \in 1 .. Len(s)}
    BY <1>1, PagesOf
<1>3. Head(s) = s[1] /\ 1 \in 1 .. Len(s) /\ DOMAIN s = 1 .. Len(s)
    BY <1>1
<1>4. s[1] \in ToSet(s)
    BY <1>2, <1>3
<1> QED  BY <1>1, <1>3, <1>4

LEMMA HeadHeld ==
    ASSUME BInv, NEW b \in held
    PROVE  Head(b.pages) \in ToSet(b.pages) /\ Head(b.pages) \in InHands /\ Head(b.pages) \in Pages
           /\ Head(b.pages) = b.pages[1] /\ 1 \in DOMAIN b.pages
<1>1. PICK j \in Levels : Block(b.pages, j) /\ j \in Nat
    BY LevelNat DEF BInv, HeldInv
<1> QED  BY <1>1, HeadIn, HandsHave

\* What alloc_pages(1) answers is the first page of a block from the table.
LEMMA AllocGives ==
    ASSUME BInv, alloc_buddy(1)
    PROVE  \E blk, k : /\ Taken(blk, k, 1)
                       /\ Got = Head(blk) /\ Got \in ToSet(blk) /\ Got \in Pages
                       /\ Got \notin InHands
                       /\ ToSet(blk) \cap InHands = {}
                       /\ \E r : r.pages = blk /\ held' = held \cup {r} /\ r \notin held
<1>1. PICK n : n = 1 /\ n \in Nat \ {0}
    OBVIOUS
<1>2. PICK blk, k : Taken(blk, k, n)
    <2>1. alloc_buddy(n)
        BY <1>1
    <2> QED  BY <1>1, <2>1, ExactTakes, SplitTakes DEF alloc_buddy, BInv
<1>3. k \in Levels /\ k \in Nat /\ Block(blk, k) /\ Hand(blk, n) /\ ToSet(blk) \subseteq InTable
    BY <1>2, LevelNat DEF Taken
<1>4. Head(blk) \in ToSet(blk) /\ Head(blk) \in Pages
    BY <1>3, HeadIn
<1>5. ToSet(blk) \cap InHands = {}
    BY <1>3, TableApart
<1>6. PICK r : r = [pages |-> blk, asked |-> n]
    OBVIOUS
<1>7. r.pages = blk /\ held' = held \cup {r}
    BY <1>3, <1>6 DEF Hand
<1>8. r \notin held
    BY <1>4, <1>5, <1>7, HandsHave
<1>9. held' \ held = {r}
    BY <1>7, <1>8
<1>10. (CHOOSE b \in held' \ held : TRUE) = r
    BY <1>9
<1>11. Got = Head(blk)
    BY <1>7, <1>10 DEF Got
<1> QED  BY <1>1, <1>2, <1>4, <1>5, <1>7, <1>8, <1>11

(***************************************************************************)
(* Steps                                                                   *)
(***************************************************************************)

LEMMA MappingHas == \A f : f \in Mapping <=> \E t \in Threads : Storing(t) /\ frm[t] = f
BY DEF Mapping, Storing

\* The kinds of places.
LEMMA PlaceKinds ==
    ASSUME NEW t
    PROVE  /\ Having(t) => pc[t] \notin {"run", "out", "unmap", "access", "fault", "swappable"}
           /\ Counted(t) => Storing(t) /\ (Fresh(t) => ~Storing(t))
           /\ pc[t] \in SlabPlaces => Having(t) /\ pc[t] \in HeapPlaces
BY DEF Having, Fresh, Storing, Counted, SlabPlaces, HeapPlaces

\* The thread t goes to place l.
LEMMA MoveTypes ==
    ASSUME PTypes, NEW t \in Threads, NEW l \in Places, Goto(t, l),
           pte' \in [VPages -> Entries], va' \in [Pages -> VPages \cup {None}],
           slabs' \in Seq(Pages), at' \in [Threads -> VPages \cup {None}],
           \A u \in Threads \ {t} : at'[u] = at[u], DOMAIN frm' = Threads,
           l \in Faulting => at'[t] \in VPages, l \in HeapPlaces => t = Boot,
           l \in SlabPlaces => heap_top' < MaxSlabs, heap_top' = heap_top \/ t = Boot,
           heap_top' <= MaxSlabs
    PROVE  PTypes'
<1>1. /\ pc' \in [Threads -> Places] /\ pc'[t] = l /\ \A u \in Threads \ {t} : pc'[u] = pc[u]
    BY DEF PTypes, Goto
<1>2. ASSUME NEW u \in Threads
      PROVE  /\ pc'[u] \in Faulting => at'[u] \in VPages
             /\ pc'[u] \in HeapPlaces => u = Boot
             /\ pc'[u] \in SlabPlaces => heap_top' < MaxSlabs
    <2>1. CASE u = t
        BY <1>1, <2>1
    <2>2. CASE u # t
        <3>1. pc'[u] = pc[u] /\ at'[u] = at[u]
            BY <1>1, <2>2
        <3>2. pc[u] \in SlabPlaces => pc[u] \in HeapPlaces
            BY DEF SlabPlaces, HeapPlaces
        <3> QED  BY <2>2, <3>1, <3>2 DEF PTypes
    <2> QED  BY <2>1, <2>2
<1> QED  BY <1>1, <1>2 DEF PTypes, VPages, Pages, Entries

\* The thread keeps its place, its frame and its address.
Stays(u) == pc'[u] = pc[u] /\ frm'[u] = frm[u] /\ Target(u)' = Target(u)

LEMMA StaysSame ==
    ASSUME NEW u \in Threads, Stays(u)
    PROVE  /\ Having(u)' = Having(u) /\ Fresh(u)' = Fresh(u)
           /\ Storing(u)' = Storing(u) /\ Counted(u)' = Counted(u)
BY DEF Stays, Having, Fresh, Storing, Counted

\* A frame's thread stays, and nothing of the frame has changed.
LEMMA FrameStays ==
    ASSUME NEW u \in Threads, Stays(u), FrameOK(u), InHands \subseteq InHands',
           \/ ~Having(u)
           \/ /\ ref'[frm[u]] = ref[frm[u]]
              /\ \A v \in VPages : Maps(v, frm[u])' => Maps(v, frm[u])
    PROVE  FrameOK(u)'
<1>1. CASE ~Having(u)
    BY <1>1, StaysSame DEF FrameOK, Having
<1>2. CASE Having(u) /\ ref'[frm[u]] = ref[frm[u]]
           /\ \A v \in VPages : Maps(v, frm[u])' => Maps(v, frm[u])
    <2>1. frm'[u] = frm[u] /\ Target(u)' = Target(u)
        BY DEF Stays
    <2>2. ASSUME NEW v PROVE Maps(v, frm[u])' <=> (pte'[v].p /\ pte'[v].frame = frm'[u])
        BY DEF Maps
    <2>3. frm'[u] \in InHands' /\ (~Counted(u)' => ref'[frm'[u]] = 0)
        BY <1>2, <2>1, StaysSame DEF FrameOK
    <2>4. Fresh(u)' => \A v \in VPages : ~Maps(v, frm[u])'
        BY <1>2, StaysSame DEF FrameOK
    <2>5. ASSUME Storing(u)', NEW v \in VPages, Maps(v, frm[u])'
          PROVE  v = Target(u)' /\ (Counted(u)' => ref'[frm'[u]] = 1)
        BY <1>2, <2>1, <2>5, StaysSame DEF FrameOK
    <2> QED  BY <2>3, <2>4, <2>5 DEF FrameOK
<1> QED  BY <1>1, <1>2

\* A thread that has no frame, before and after, has nothing to say.
LEMMA FrameNone ==
    ASSUME NEW u \in Threads, ~Having(u)'
    PROVE  FrameOK(u)'
BY DEF FrameOK, Having

\* A step that changes neither frames nor entries and in which nobody takes or
\* gives up a frame.
LEMMA QuietFrames ==
    ASSUME FState, UNCHANGED <<list, blk_num, flags, ref, held, pte, va>>, PTypes', UnmapOK',
           \A u \in Threads : Stays(u) \/ (~Having(u) /\ ~Having(u)')
    PROVE  FState'
<1>1. BInv' /\ InHands' = InHands
    BY SameBInv, SameTable DEF FState, BInv
<1>2. \A u \in Threads : /\ (Having(u)' <=> Having(u)) /\ (Storing(u)' <=> Storing(u))
                         /\ (Having(u) => frm'[u] = frm[u])
    <2>1. ASSUME NEW u \in Threads
          PROVE  /\ (Having(u)' <=> Having(u)) /\ (Storing(u)' <=> Storing(u))
                 /\ (Having(u) => frm'[u] = frm[u])
        <3>1. CASE Stays(u)
            BY <3>1, StaysSame DEF Stays
        <3>2. CASE ~Having(u) /\ ~Having(u)'
            <4>1. ~Storing(u) /\ ~Storing(u)'
                BY <3>2 DEF Having
            <4> QED  BY <3>2, <4>1
        <3> QED  BY <3>1, <3>2
    <2> QED  BY <2>1
<1>3. Mapping' = Mapping
    <2>1. \A f : f \in Mapping' <=> \E u \in Threads : Storing(u)' /\ frm'[u] = f
        BY DEF Mapping, Storing
    <2>2. ASSUME NEW f PROVE f \in Mapping' <=> f \in Mapping
        BY <1>2, <2>1, MappingHas DEF Having
    <2> QED  BY <2>2
<1>4. EntriesOK'
    BY <1>1, <1>3 DEF FState, EntriesOK, EntryOK, VPages
<1>5. FreshOK'
    <2>1. ASSUME NEW u \in Threads PROVE FrameOK(u)'
        <3>1. FrameOK(u)
            BY DEF FState, FreshOK
        <3>2. CASE ~Having(u)'
            BY <3>2, FrameNone
        <3>3. CASE Stays(u)
            <4>1. \A v \in VPages : Maps(v, frm[u])' => Maps(v, frm[u])
                BY <3>3 DEF Maps, Stays
            <4>2. ref'[frm[u]] = ref[frm[u]]
                OBVIOUS
            <4> QED  BY <1>1, <3>1, <3>3, <4>1, <4>2, FrameStays
        <3> QED  BY <3>2, <3>3
    <2>2. ASSUME NEW u \in Threads, NEW w \in Threads, Having(u)', Having(w)', frm'[u] = frm'[w]
          PROVE  u = w
        BY <1>2, <2>2 DEF FState, FreshOK
    <2> QED  BY <2>1, <2>2 DEF FreshOK
<1>6. MappedHeld'
    BY <1>1 DEF FState, MappedHeld, Pages
<1> QED  BY <1>1, <1>4, <1>5, <1>6 DEF FState

\* Only the boot thread changes the heap, and only the heap's places depend on it.
LEMMA OthersStay ==
    ASSUME PTypes, NEW t \in Threads, NEW l \in Places, Goto(t, l), heap_top' = heap_top \/ t = Boot,
           \A u \in Threads \ {t} : at'[u] = at[u] /\ frm'[u] = frm[u]
    PROVE  pc'[t] = l /\ \A u \in Threads \ {t} : Stays(u)
<1>1. pc'[t] = l /\ \A u \in Threads \ {t} : pc'[u] = pc[u]
    BY DEF PTypes, Goto
<1>2. ASSUME NEW u \in Threads \ {t} PROVE Target(u)' = Target(u)
    <2>1. CASE pc[u] \in SlabPlaces
        <3>1. u = Boot
            BY <2>1 DEF PTypes, SlabPlaces, HeapPlaces
        <3> QED  BY <1>1, <2>1, <3>1 DEF Target
    <2>2. CASE pc[u] \notin SlabPlaces
        BY <1>1, <2>2 DEF Target
    <2> QED  BY <2>1, <2>2
<1> QED  BY <1>1, <1>2 DEF Stays

\* Places at which a thread has no frame.
Empty == Places \ {"map", "count", "address", "slab", "slab count", "slab address"}

\* A thread without a frame moves on without one.
LEMMA QuietMoves ==
    ASSUME FState, NEW t \in Threads, ~Having(t), NEW l \in Empty, Goto(t, l),
           UNCHANGED <<list, blk_num, flags, ref, held, pte, va, slabs>>,
           at' \in [Threads -> VPages \cup {None}],
           \A u \in Threads \ {t} : at'[u] = at[u] /\ frm'[u] = frm[u], DOMAIN frm' = Threads,
           l \in Faulting => at'[t] \in VPages, l \in HeapPlaces => t = Boot,
           l = "unmap" => slabs # <<>> /\ pte[heap_top - 1].p
    PROVE  FState'
<1>1. heap_top' = heap_top
    BY DEF heap_top
<1>2. l \in Places /\ l \notin SlabPlaces
    BY DEF Empty, SlabPlaces
<1>3. PTypes'
    BY <1>1, <1>2, MoveTypes DEF FState, PTypes
<1>4. pc'[t] = l /\ \A u \in Threads \ {t} : Stays(u)
    BY <1>1, <1>2, OthersStay DEF FState
<1>5. ~Having(t)'
    BY <1>4 DEF Empty, Having, Fresh, Storing
<1>6. UnmapOK'
    BY <1>1, <1>4 DEF FState, UnmapOK, Stays
<1> QED  BY <1>3, <1>4, <1>5, <1>6, QuietFrames

\* The page of the last slab.
LEMMA LastPage ==
    ASSUME FState, slabs # <<>>
    PROVE  heap_top - 1 \in VPages /\ heap_top \in Nat /\ heap_top > 0
<1>1. slabs \in Seq(Pages) /\ heap_top <= MaxSlabs
    BY DEF FState, PTypes
<1>2. PICK n : n = Len(slabs) /\ n \in Nat /\ n > 0
    BY <1>1, LenProperties, EmptySeq
<1>3. MaxSlabs \in Nat /\ NV \in Nat /\ MaxSlabs <= NV /\ n <= MaxSlabs
    BY <1>1, <1>2, PagingAssumption DEF heap_top
<1> QED  BY <1>2, <1>3 DEF VPages, heap_top

\* The frames that other threads have.
LEMMA OtherFrames ==
    ASSUME FState, NEW t \in Threads, Having(t), NEW u \in Threads \ {t}, Having(u)
    PROVE  frm[u] # frm[t] /\ frm[u] \in Pages
BY HandsPages DEF FState, FreshOK, FrameOK

\* map stores the entry.
LEMMA EntryStep ==
    ASSUME FState, NEW t \in Threads, Fresh(t), NEW v \in VPages, v = Target(t),
           NEW l \in {"count", "slab count"}, l = "slab count" <=> pc[t] = "slab",
           StoreEntry(t, v, l)
    PROVE  FState'
<1>1. PICK f : f = frm[t]
    OBVIOUS
<1>2. /\ Having(t) /\ ~Storing(t) /\ ~Counted(t) /\ f \in InHands /\ f \in Pages
      /\ ref[f] = 0 /\ \A w \in VPages : ~Maps(w, f)
    <2>1. Having(t) /\ ~Storing(t) /\ ~Counted(t)
        BY DEF Having, Fresh, Storing, Counted
    <2> QED  BY <1>1, <2>1, HandsPages DEF FState, FreshOK, FrameOK
<1>3. /\ UNCHANGED <<list, blk_num, flags, ref, held, va, slabs, at, frm>> /\ Goto(t, l)
      /\ pte' = [pte EXCEPT ![v] = [frame |-> f, p |-> TRUE]]
    BY <1>1 DEF StoreEntry, vars
<1>4. /\ pte'[v].p = TRUE /\ pte'[v].frame = f /\ pte' \in [VPages -> Entries]
      /\ \A w \in VPages \ {v} : pte'[w] = pte[w]
    <2>1. [frame |-> f, p |-> TRUE] \in Entries
        BY <1>2 DEF Entries
    <2> QED  BY <1>3, <2>1 DEF FState, PTypes
<1>5. heap_top' = heap_top /\ l \in Places
    BY <1>3 DEF heap_top, Places, Faulting, HeapPlaces
<1>6. pc'[t] = l /\ \A u \in Threads \ {t} : Stays(u)
    BY <1>3, <1>5, OthersStay DEF FState
<1>7. PTypes'
    <2>1. l \in Faulting => at[t] \in VPages
        <3>1. l \in Faulting => pc[t] = "map"
            BY DEF Faulting, Fresh
        <3> QED  BY <3>1 DEF FState, PTypes, Faulting
    <2>2. l \in HeapPlaces \/ l \in SlabPlaces => t = Boot /\ heap_top < MaxSlabs
        <3>1. l \in HeapPlaces \/ l \in SlabPlaces => pc[t] = "slab"
            BY DEF HeapPlaces, SlabPlaces
        <3> QED  BY <3>1 DEF FState, PTypes, SlabPlaces, HeapPlaces
    <2>3. heap_top <= MaxSlabs
        BY DEF FState, PTypes
    <2> QED  BY <1>3, <1>4, <1>5, <2>1, <2>2, <2>3, MoveTypes DEF FState, PTypes
<1>8. BInv' /\ InHands' = InHands
    BY <1>3, SameBInv, SameTable DEF FState, BInv
<1>9. /\ Storing(t)' /\ ~Fresh(t)' /\ ~Counted(t)' /\ Having(t)'
      /\ Target(t)' = v /\ frm'[t] = f
    <2>1. Storing(t)' /\ ~Fresh(t)' /\ ~Counted(t)' /\ Having(t)'
        BY <1>6 DEF Storing, Fresh, Counted, Having
    <2>2. pc[t] \in SlabPlaces <=> l \in SlabPlaces
        BY DEF SlabPlaces, Fresh
    <2> QED  BY <1>1, <1>3, <1>5, <1>6, <2>1, <2>2 DEF Target
<1>10. \A g : g \in Mapping' <=> g \in Mapping \/ g = f
    <2>1. \A g : g \in Mapping' <=> \E u \in Threads : Storing(u)' /\ frm'[u] = g
        BY DEF Mapping, Storing
    <2>2. ASSUME NEW g PROVE g \in Mapping' <=> g \in Mapping \/ g = f
        <3>1. ASSUME g \in Mapping' PROVE g \in Mapping \/ g = f
            BY <1>6, <1>9, <2>1, <3>1, StaysSame, MappingHas DEF Stays
        <3>2. ASSUME g \in Mapping PROVE g \in Mapping'
            <4>1. PICK u \in Threads : Storing(u) /\ frm[u] = g
                BY <3>2, MappingHas
            <4>2. u # t
                BY <1>2, <4>1
            <4> QED  BY <1>6, <2>1, <4>1, <4>2, StaysSame DEF Stays
        <3>3. f \in Mapping'
            BY <1>9, <2>1
        <3> QED  BY <3>1, <3>2, <3>3
    <2> QED  BY <2>2
<1>11. ASSUME NEW w \in VPages, pte'[w].p PROVE EntryOK(w)'
    <2>1. CASE w = v
        BY <1>2, <1>4, <1>8, <1>10, <2>1 DEF EntryOK
    <2>2. CASE w # v
        <3>1. EntryOK(w) /\ pte'[w] = pte[w]
            BY <1>4, <1>11, <2>2 DEF FState, EntriesOK
        <3>2. PICK g : g = pte[w].frame
            OBVIOUS
        <3>3. g \in InHands /\ (g \notin Mapping => ref[g] = 1 /\ va[g] = w)
            BY <3>1, <3>2 DEF EntryOK
        <3>4. g \in InHands' /\ (g \notin Mapping' => ref'[g] = 1 /\ va'[g] = w)
            BY <1>3, <1>8, <1>10, <3>3
        <3>5. pte'[w].frame = g
            BY <3>1, <3>2
        <3> QED  BY <3>4, <3>5 DEF EntryOK
    <2> QED  BY <2>1, <2>2
<1>12. EntriesOK'
    BY <1>11 DEF EntriesOK, VPages
<1>13. ASSUME NEW u \in Threads \ {t} PROVE FrameOK(u)'
    <2>1. FrameOK(u) /\ Stays(u)
        BY <1>6 DEF FState, FreshOK
    <2>2. ASSUME Having(u), NEW w \in VPages, Maps(w, frm[u])' PROVE Maps(w, frm[u])
        <3>1. frm[u] # f /\ frm'[u] = frm[u]
            BY <1>1, <1>2, <2>1, <2>2, OtherFrames DEF Stays
        <3> QED  BY <1>4, <2>2, <3>1 DEF Maps
    <2> QED  BY <1>3, <1>8, <2>1, <2>2, FrameStays
<1>14. FrameOK(t)'
    <2>1. ASSUME NEW w \in VPages, Maps(w, frm[t])' PROVE w = v
        <3>1. pte'[w].p /\ pte'[w].frame = f
            BY <1>9, <2>1 DEF Maps
        <3> QED  BY <1>2, <1>4, <3>1 DEF Maps
    <2> QED  BY <1>1, <1>2, <1>3, <1>8, <1>9, <2>1 DEF FrameOK
<1>15. FreshOK'
    <2>1. ASSUME NEW u \in Threads PROVE Having(u)' = Having(u)
        BY <1>2, <1>6, <1>9, StaysSame DEF Having
    <2>2. ASSUME NEW u \in Threads, NEW w \in Threads, Having(u)', Having(w)', frm'[u] = frm'[w]
          PROVE  u = w
        BY <1>3, <2>1, <2>2 DEF FState, FreshOK
    <2> QED  BY <1>13, <1>14, <2>2 DEF FreshOK
<1>16. UnmapOK'
    <2>1. ASSUME NEW u \in Threads, pc'[u] = "unmap" PROVE slabs' # <<>> /\ pte'[heap_top' - 1].p
        <3>1. u # t /\ pc[u] = "unmap"
            BY <1>6, <2>1 DEF Stays
        <3>2. slabs # <<>> /\ pte[heap_top - 1].p
            BY <3>1 DEF FState, UnmapOK
        <3>3. pte'[heap_top - 1].p
            <4>1. CASE heap_top - 1 = v
                BY <1>4, <4>1
            <4>2. CASE heap_top - 1 # v
                <5>1. pte'[heap_top - 1] = pte[heap_top - 1]
                    BY <1>4, <3>2, <4>2, LastPage
                <5> QED  BY <3>2, <5>1
            <4> QED  BY <4>1, <4>2
        <3> QED  BY <1>3, <1>5, <3>2, <3>3
    <2> QED  BY <2>1 DEF UnmapOK
<1>17. MappedHeld'
    BY <1>3, <1>8 DEF FState, MappedHeld, Pages
<1> QED  BY <1>7, <1>8, <1>12, <1>15, <1>16, <1>17 DEF FState

\* The count of an unmapped frame goes up.
LEMMA CountUp ==
    ASSUME ref \in [Pages -> Nat], NEW f \in Pages, ref[f] = 0, ref' = [ref EXCEPT ![f] = @ + 1]
    PROVE  ref' \in [Pages -> Nat] /\ ref'[f] = 1 /\ \A p \in Pages \ {f} : ref'[p] = ref[p]
<1>1. ref[f] + 1 = 1
    OBVIOUS
<1>2. ref' = [ref EXCEPT ![f] = 1]
    BY <1>1
<1> QED  BY <1>2

\* map counts the frame.
LEMMA StoreCountFrames ==
    ASSUME FState, NEW t \in Threads, pc[t] \in {"count", "slab count"},
           NEW l \in {"address", "slab address"}, l = "slab address" <=> pc[t] = "slab count",
           StoreCount(t, l)
    PROVE  FState'
<1>1. PICK f : f = frm[t]
    OBVIOUS
<1>2. /\ Having(t) /\ Storing(t) /\ ~Fresh(t) /\ ~Counted(t) /\ f \in InHands /\ f \in Pages
      /\ ref[f] = 0 /\ ref \in [Pages -> Nat] /\ \A w \in VPages : Maps(w, f) => w = Target(t)
    <2>1. Having(t) /\ Storing(t) /\ ~Fresh(t) /\ ~Counted(t)
        BY DEF Having, Fresh, Storing, Counted
    <2> QED  BY <1>1, <2>1, HandsPages DEF FState, FreshOK, FrameOK
<1>3. /\ UNCHANGED <<list, blk_num, flags, held, pte, va, slabs, at, frm>> /\ Goto(t, l)
      /\ ref' = [ref EXCEPT ![f] = @ + 1]
    BY <1>1 DEF StoreCount, mmVars
<1>4. ref' \in [Pages -> Nat] /\ ref'[f] = 1 /\ \A p \in Pages \ {f} : ref'[p] = ref[p]
    BY <1>2, <1>3, CountUp
<1>5. heap_top' = heap_top /\ l \in Places
    BY <1>3 DEF heap_top, Places, Faulting, HeapPlaces
<1>6. pc'[t] = l /\ \A u \in Threads \ {t} : Stays(u)
    BY <1>3, <1>5, OthersStay DEF FState
<1>7. PTypes'
    <2>1. l \in Faulting => at[t] \in VPages
        <3>1. l \in Faulting => pc[t] = "count"
            BY DEF Faulting
        <3> QED  BY <3>1 DEF FState, PTypes, Faulting
    <2>2. l \in HeapPlaces \/ l \in SlabPlaces => t = Boot /\ heap_top < MaxSlabs
        <3>1. l \in HeapPlaces \/ l \in SlabPlaces => pc[t] = "slab count"
            BY DEF HeapPlaces, SlabPlaces
        <3> QED  BY <3>1 DEF FState, PTypes, SlabPlaces, HeapPlaces
    <2>3. heap_top <= MaxSlabs
        BY DEF FState, PTypes
    <2> QED  BY <1>3, <1>5, <2>1, <2>2, <2>3, MoveTypes DEF FState, PTypes
<1>8. BInv' /\ InHands' = InHands
    BY <1>3, <1>4, RefBInv DEF FState
<1>9. /\ Storing(t)' /\ ~Fresh(t)' /\ Counted(t)' /\ Having(t)'
      /\ Target(t)' = Target(t) /\ frm'[t] = f
    <2>1. Storing(t)' /\ ~Fresh(t)' /\ Counted(t)' /\ Having(t)'
        BY <1>6 DEF Storing, Fresh, Counted, Having
    <2>2. pc[t] \in SlabPlaces <=> l \in SlabPlaces
        BY DEF SlabPlaces
    <2> QED  BY <1>1, <1>3, <1>5, <1>6, <2>1, <2>2 DEF Target
<1>10. ASSUME NEW u \in Threads PROVE (Having(u)' <=> Having(u)) /\ (Storing(u)' <=> Storing(u))
    BY <1>2, <1>6, <1>9, StaysSame
<1>11. Mapping' = Mapping /\ f \in Mapping
    <2>1. \A g : g \in Mapping' <=> \E u \in Threads : Storing(u)' /\ frm'[u] = g
        BY DEF Mapping, Storing
    <2>2. ASSUME NEW g PROVE g \in Mapping' <=> g \in Mapping
        BY <1>3, <1>10, <2>1, MappingHas
    <2> QED  BY <1>1, <1>2, <2>2, MappingHas
<1>12. ASSUME NEW w \in VPages, pte'[w].p PROVE EntryOK(w)'
    <2>1. PICK g : g = pte[w].frame
        OBVIOUS
    <2>2. g \in InHands /\ g \in Pages /\ (g \notin Mapping => ref[g] = 1 /\ va[g] = w)
        BY <1>3, <1>12, <2>1, HandsPages DEF FState, EntriesOK, EntryOK
    <2>3. g \in InHands' /\ (g \notin Mapping' => ref'[g] = 1 /\ va'[g] = w)
        BY <1>3, <1>4, <1>8, <1>11, <2>2
    <2>4. pte'[w].frame = g
        BY <1>3, <2>1
    <2> QED  BY <2>3, <2>4 DEF EntryOK
<1>13. EntriesOK'
    BY <1>12 DEF EntriesOK, VPages
<1>14. ASSUME NEW u \in Threads \ {t} PROVE FrameOK(u)'
    <2>1. FrameOK(u) /\ Stays(u)
        BY <1>6 DEF FState, FreshOK
    <2>2. ASSUME Having(u), NEW w \in VPages, Maps(w, frm[u])' PROVE Maps(w, frm[u])
        BY <1>3, <2>2 DEF Maps
    <2>3. Having(u) => ref'[frm[u]] = ref[frm[u]]
        BY <1>1, <1>2, <1>4, OtherFrames
    <2> QED  BY <1>8, <2>1, <2>2, <2>3, FrameStays
<1>15. FrameOK(t)'
    <2>1. ASSUME NEW w \in VPages, Maps(w, frm[t])' PROVE w = Target(t)
        BY <1>1, <1>2, <1>3, <2>1 DEF Maps
    <2> QED  BY <1>4, <1>2, <1>8, <1>9, <2>1 DEF FrameOK
<1>16. FreshOK'
    <2>1. ASSUME NEW u \in Threads, NEW w \in Threads, Having(u)', Having(w)', frm'[u] = frm'[w]
          PROVE  u = w
        BY <1>3, <1>10, <2>1 DEF FState, FreshOK
    <2> QED  BY <1>14, <1>15, <2>1 DEF FreshOK
<1>17. UnmapOK'
    BY <1>3, <1>5, <1>6 DEF FState, UnmapOK, Stays
<1>18. MappedHeld'
    BY <1>2, <1>4, <1>8 DEF FState, MappedHeld, Pages
<1> QED  BY <1>7, <1>8, <1>13, <1>16, <1>17, <1>18 DEF FState

\* map stores the address, and the thread's frame is an entry's.
LEMMA AddressFrames ==
    ASSUME FState, NEW t \in Threads, Counted(t), NEW v \in VPages, v = Target(t),
           StoreAddress(t, v), PTypes', UnmapOK', ~Having(t)',
           \A u \in Threads \ {t} : Stays(u)
    PROVE  FState'
<1>1. PICK f : f = frm[t]
    OBVIOUS
<1>2. /\ Having(t) /\ Storing(t) /\ f \in InHands /\ f \in Pages
      /\ \A w \in VPages : Maps(w, f) => w = v /\ ref[f] = 1
    <2>1. Having(t) /\ Storing(t)
        BY DEF Having, Storing, Counted
    <2> QED  BY <1>1, <2>1, HandsPages DEF FState, FreshOK, FrameOK
<1>3. UNCHANGED <<list, blk_num, flags, ref, held, pte>> /\ va' = [va EXCEPT ![f] = v]
    BY <1>1 DEF StoreAddress, vars
<1>4. va'[f] = v /\ \A p \in Pages \ {f} : va'[p] = va[p]
    BY <1>2, <1>3 DEF FState, PTypes
<1>5. BInv' /\ InHands' = InHands
    BY <1>3, SameBInv, SameTable DEF FState, BInv
<1>6. \A g : g # f /\ g \in Mapping => g \in Mapping'
    <2>1. \A g : g \in Mapping' <=> \E u \in Threads : Storing(u)' /\ frm'[u] = g
        BY DEF Mapping, Storing
    <2>2. ASSUME NEW g, g # f, g \in Mapping PROVE g \in Mapping'
        <3>1. PICK u \in Threads : Storing(u) /\ frm[u] = g
            BY <2>2, MappingHas
        <3>2. u # t
            BY <1>1, <2>2, <3>1
        <3> QED  BY <2>1, <3>1, <3>2, StaysSame DEF Stays
    <2> QED  BY <2>2
<1>7. ASSUME NEW w \in VPages, pte'[w].p PROVE EntryOK(w)'
    <2>1. PICK g : g = pte[w].frame
        OBVIOUS
    <2>2. g \in InHands /\ g \in Pages /\ (g \notin Mapping => ref[g] = 1 /\ va[g] = w)
        BY <1>3, <1>7, <2>1, HandsPages DEF FState, EntriesOK, EntryOK
    <2>3. g = f => w = v /\ ref[f] = 1
        BY <1>2, <1>3, <1>7, <2>1 DEF Maps
    <2>4. g \in InHands' /\ (g \notin Mapping' => ref'[g] = 1 /\ va'[g] = w)
        <3>1. CASE g = f
            BY <1>3, <1>4, <1>5, <2>2, <2>3, <3>1
        <3>2. CASE g # f
            BY <1>3, <1>4, <1>5, <1>6, <2>2, <3>2
        <3> QED  BY <3>1, <3>2
    <2>5. pte'[w].frame = g
        BY <1>3, <2>1
    <2> QED  BY <2>4, <2>5 DEF EntryOK
<1>8. EntriesOK'
    BY <1>7 DEF EntriesOK, VPages
<1>9. ASSUME NEW u \in Threads PROVE FrameOK(u)'
    <2>1. CASE u = t
        BY <2>1, FrameNone
    <2>2. CASE u # t
        <3>1. FrameOK(u) /\ Stays(u)
            BY <2>2 DEF FState, FreshOK
        <3>2. ASSUME NEW w \in VPages, Maps(w, frm[u])' PROVE Maps(w, frm[u])
            BY <1>3, <3>1, <3>2 DEF Maps, Stays
        <3> QED  BY <1>3, <1>5, <3>1, <3>2, FrameStays
    <2> QED  BY <2>1, <2>2
<1>10. FreshOK'
    <2>1. ASSUME NEW u \in Threads, NEW w \in Threads, Having(u)', Having(w)', frm'[u] = frm'[w]
          PROVE  u = w
        <3>1. u # t /\ w # t
            BY <2>1
        <3>2. Having(u) /\ Having(w) /\ frm[u] = frm[w]
            BY <2>1, <3>1, StaysSame DEF Stays
        <3> QED  BY <3>2 DEF FState, FreshOK
    <2> QED  BY <1>9, <2>1 DEF FreshOK
<1>11. MappedHeld'
    BY <1>3, <1>5 DEF FState, MappedHeld, Pages
<1> QED  BY <1>5, <1>8, <1>10, <1>11 DEF FState

\* A block is handed out: its pages were in the table.
LEMMA AllocFrames ==
    ASSUME FState, alloc_buddy(1), ref' \in [Pages -> Nat],
           \A p \in Pages : p # Got => ref'[p] = ref[p] /\ va'[p] = va[p]
    PROVE  /\ BInv' /\ MappedHeld' /\ InHands \subseteq InHands'
           /\ Got \in InHands' /\ Got \in Pages /\ Got \notin InHands /\ ref[Got] = 0
           /\ \A v \in VPages : ~Maps(v, Got)
           /\ \A p \in InHands : p \in Pages /\ ref'[p] = ref[p] /\ va'[p] = va[p]
<1>1. PICK g : g = Got
    OBVIOUS
<1>2. PICK blk, k : Taken(blk, k, 1) /\ g \in ToSet(blk) /\ g \in Pages /\ g \notin InHands
    BY <1>1, AllocGives DEF FState
<1>3. BInv' /\ InHands' = InHands \cup ToSet(blk)
    BY <1>2, TakenBInv DEF FState
<1>4. \A p \in Pages : p # g => ref'[p] = ref[p] /\ va'[p] = va[p]
    BY <1>1
<1>5. MappedHeld'
    <2>1. \A p \in Pages : ref'[p] > 0 => p \in InHands'
        BY <1>2, <1>3, <1>4 DEF FState, MappedHeld
    <2> QED  BY <2>1 DEF MappedHeld, Pages
<1>6. ref[g] = 0
    BY <1>2, HandsPages DEF FState, MappedHeld
<1>7. \A v \in VPages : ~Maps(v, g)
    BY <1>2 DEF FState, EntriesOK, EntryOK, Maps
<1>8. \A p \in InHands : p \in Pages /\ ref'[p] = ref[p] /\ va'[p] = va[p]
    BY <1>2, <1>4, HandsPages DEF FState
<1> QED  BY <1>1, <1>2, <1>3, <1>5, <1>6, <1>7, <1>8

\* Entries whose frames keep their counts and addresses.
LEMMA EntriesStay ==
    ASSUME FState, pte' = pte, InHands \subseteq InHands', \A g \in Mapping : g \in Mapping',
           \A p \in InHands : ref'[p] = ref[p] /\ va'[p] = va[p]
    PROVE  EntriesOK'
<1>1. ASSUME NEW w \in VPages, pte'[w].p PROVE EntryOK(w)'
    <2>1. PICK g : g = pte[w].frame
        OBVIOUS
    <2>2. g \in InHands /\ (g \notin Mapping => ref[g] = 1 /\ va[g] = w)
        BY <1>1, <2>1 DEF FState, EntriesOK, EntryOK
    <2>3. g \in InHands' /\ (g \notin Mapping' => ref'[g] = 1 /\ va'[g] = w)
        BY <2>2
    <2>4. pte'[w].frame = g
        BY <2>1
    <2> QED  BY <2>3, <2>4 DEF EntryOK
<1> QED  BY <1>1 DEF EntriesOK, VPages

\* alloc_pages(1) for a thread that has no frame.
LEMMA GetFrames ==
    ASSUME FState, NEW t \in Threads, ~Having(t), alloc_buddy(1), UNCHANGED <<ref, pte, va>>, PTypes',
           UnmapOK', frm'[t] = Got, Fresh(t)', \A u \in Threads \ {t} : Stays(u)
    PROVE  FState'
<1>1. PICK g : g = Got
    OBVIOUS
<1>2. /\ BInv' /\ MappedHeld' /\ InHands \subseteq InHands'
      /\ g \in InHands' /\ g \in Pages /\ g \notin InHands /\ ref[g] = 0
      /\ \A v \in VPages : ~Maps(v, g)
    BY <1>1, AllocFrames, HandsPages DEF FState
<1>3. \A f \in Mapping : f \in Mapping'
    <2>1. \A f : f \in Mapping' <=> \E u \in Threads : Storing(u)' /\ frm'[u] = f
        BY DEF Mapping, Storing
    <2>2. ASSUME NEW f \in Mapping PROVE f \in Mapping'
        <3>1. PICK u \in Threads : Storing(u) /\ frm[u] = f
            BY MappingHas
        <3>2. u # t
            BY <3>1 DEF Having
        <3> QED  BY <2>1, <3>1, <3>2, StaysSame DEF Stays
    <2> QED  BY <2>2
<1>4. EntriesOK'
    BY <1>2, <1>3, EntriesStay
<1>5. Having(t)' /\ ~Storing(t)' /\ ~Counted(t)' /\ frm'[t] = g
    BY <1>1 DEF Having, Fresh, Storing, Counted
<1>6. FrameOK(t)'
    <2>1. ASSUME NEW w \in VPages PROVE ~Maps(w, frm[t])'
        BY <1>2, <1>5 DEF Maps
    <2> QED  BY <1>2, <1>5, <2>1 DEF FrameOK
<1>7. ASSUME NEW u \in Threads \ {t} PROVE FrameOK(u)'
    <2>1. FrameOK(u) /\ Stays(u)
        BY DEF FState, FreshOK
    <2>2. ASSUME NEW w \in VPages, Maps(w, frm[u])' PROVE Maps(w, frm[u])
        BY <2>1, <2>2 DEF Maps, Stays
    <2> QED  BY <1>2, <2>1, <2>2, FrameStays
<1>8. ASSUME NEW u \in Threads, NEW w \in Threads, Having(u)', Having(w)', frm'[u] = frm'[w]
      PROVE  u = w
    <2>1. ASSUME NEW x \in Threads \ {t}, Having(x)' PROVE frm'[x] = frm[x] /\ frm[x] # g /\ Having(x)
        <3>1. Having(x) /\ frm'[x] = frm[x]
            BY <2>1, StaysSame DEF Stays
        <3> QED  BY <1>2, <3>1 DEF FState, FreshOK, FrameOK
    <2>2. CASE u = t \/ w = t
        BY <1>5, <1>8, <2>1, <2>2
    <2>3. CASE u # t /\ w # t
        BY <1>8, <2>1, <2>3 DEF FState, FreshOK
    <2> QED  BY <2>2, <2>3
<1>9. FreshOK'
    BY <1>6, <1>7, <1>8 DEF FreshOK
<1> QED  BY <1>2, <1>4, <1>9 DEF FState

\* map allocates a page table and counts its frame as mapped.
LEMMA TableFrames ==
    ASSUME FState, alloc_buddy(1), ref' = [ref EXCEPT ![Got] = @ + 1],
           va' = [va EXCEPT ![Got] = None], UNCHANGED <<pte, pc, frm, at, slabs>>, PTypes'
    PROVE  FState'
<1>1. PICK g : g = Got /\ g \in Pages
    BY AllocGives DEF FState
<1>2. ref \in [Pages -> Nat] /\ ref' = [ref EXCEPT ![g] = @ + 1] /\ va' = [va EXCEPT ![g] = None]
    BY <1>1, HandsPages DEF FState
<1>3. ref' \in [Pages -> Nat] /\ \A p \in Pages : p # g => ref'[p] = ref[p] /\ va'[p] = va[p]
    BY <1>1, <1>2 DEF FState, PTypes
<1>4. /\ BInv' /\ MappedHeld' /\ InHands \subseteq InHands'
      /\ \A p \in InHands : p \in Pages /\ ref'[p] = ref[p] /\ va'[p] = va[p]
    BY <1>1, <1>3, AllocFrames
<1>5. heap_top' = heap_top
    BY DEF heap_top
<1>6. \A u \in Threads : Stays(u)
    BY <1>5 DEF Stays, Target
<1>7. Mapping' = Mapping
    BY DEF Mapping
<1>8. EntriesOK'
    BY <1>4, <1>7, EntriesStay
<1>9. ASSUME NEW u \in Threads PROVE FrameOK(u)'
    <2>1. FrameOK(u) /\ Stays(u)
        BY <1>6 DEF FState, FreshOK
    <2>2. ASSUME NEW w \in VPages, Maps(w, frm[u])' PROVE Maps(w, frm[u])
        BY <2>2 DEF Maps
    <2>3. Having(u) => ref'[frm[u]] = ref[frm[u]]
        BY <1>4, <2>1 DEF FrameOK
    <2> QED  BY <1>4, <2>1, <2>2, <2>3, FrameStays
<1>10. FreshOK'
    <2>1. ASSUME NEW u \in Threads, NEW w \in Threads, Having(u)', Having(w)', frm'[u] = frm'[w]
          PROVE  u = w
        BY <1>6, <2>1, StaysSame DEF FState, FreshOK
    <2> QED  BY <1>9, <2>1 DEF FreshOK
<1>11. UnmapOK'
    BY <1>5 DEF FState, UnmapOK
<1> QED  BY <1>4, <1>8, <1>10, <1>11 DEF FState

\* What free_pages does: nothing, or one block goes back that begins with f
\* and of which no page counts as mapped.
LEMMA FreePages ==
    ASSUME BInv, NEW f, NEW refs, free_pages(f, refs)
    PROVE  \/ UNCHANGED <<list, blk_num, flags, held>>
           \/ \E b \in held : /\ FreeChain(b.pages) /\ held' = held \ {b} /\ Head(b.pages) = f
                              /\ \A k \in DOMAIN b.pages : ~ (refs[b.pages[k]] > 0)
<1>1. PICK chain : chain = Chain(f)
    OBVIOUS
<1>2. PICK block : block = {b \in held : b.pages = chain /\ Head(b.pages) = f}
    OBVIOUS
<1>3. CASE UNCHANGED <<list, blk_num, flags, held>>
    BY <1>3
<1>4. CASE ~ UNCHANGED <<list, blk_num, flags, held>>
    <2>1. /\ ~ \E k \in DOMAIN chain : refs[chain[k]] > 0
          /\ block # {} /\ FreeChain(chain) /\ held' = held \ block
        BY <1>1, <1>2, <1>4 DEF free_pages
    <2>2. PICK b \in held : b \in block /\ b.pages = chain /\ Head(b.pages) = f
        BY <1>2, <2>1
    <2>3. ASSUME NEW c \in block PROVE c = b
        <3>1. c \in held /\ c.pages = b.pages
            BY <1>2, <2>2
        <3>2. Head(b.pages) \in ToSet(b.pages)
            BY HeadHeld
        <3> QED  BY <3>1, <3>2 DEF BInv, HeldInv, Apart
    <2>4. block = {b}
        BY <2>2, <2>3
    <2> QED  BY <2>1, <2>2, <2>4
<1> QED  BY <1>3, <1>4


\* A block goes back: no page that counts as mapped.
LEMMA FreedFrames ==
    ASSUME BInv, MappedHeld, NEW f, free_pages(f, ref'), ref' \in [Pages -> Nat],
           \A p \in Pages : ref'[p] > 0 => ref[p] > 0
    PROVE  /\ BInv' /\ MappedHeld' /\ InHands' \subseteq InHands
           /\ \A p \in InHands : ref'[p] > 0 => p \in InHands'
<1>1. CASE UNCHANGED <<list, blk_num, flags, held>>
    <2>1. BInv' /\ InHands' = InHands
        BY <1>1, RefBInv
    <2>2. MappedHeld'
        BY <2>1 DEF MappedHeld, Pages
    <2> QED  BY <2>1, <2>2
<1>2. ASSUME NEW b \in held, FreeChain(b.pages), held' = held \ {b},
             \A k \in DOMAIN b.pages : ~ (ref'[b.pages[k]] > 0)
      PROVE  /\ BInv' /\ MappedHeld' /\ InHands' \subseteq InHands
             /\ \A p \in InHands : ref'[p] > 0 => p \in InHands'
    <2>1. PICK s : s = b.pages /\ s \in Seq(Pages)
        <3>1. PICK j \in Levels : Block(b.pages, j) /\ j \in Nat
            BY LevelNat DEF BInv, HeldInv
        <3> QED  BY <3>1, BlockSize
    <2>2. ToSet(s) = {s[k] : k \in 1 .. Len(s)} /\ DOMAIN s = 1 .. Len(s)
        BY <2>1, PagesOf
    <2>3. \A p \in ToSet(s) : ~ (ref'[p] > 0)
        BY <1>2, <2>1, <2>2
    <2>4. BInv' /\ InHands' = InHands \ ToSet(s)
        BY <1>2, <2>1, FreeBInv
    <2>5. \A p \in InHands : ref'[p] > 0 => p \in InHands'
        BY <2>3, <2>4
    <2>6. MappedHeld'
        BY <2>5 DEF MappedHeld, Pages
    <2> QED  BY <2>4, <2>5, <2>6
<1> QED  BY <1>1, <1>2, FreePages

\* Nobody has a frame that map is storing.
LEMMA NobodyMaps ==
    ASSUME \A u \in Threads : ~Having(u)
    PROVE  Mapping = {} /\ \A u \in Threads : FrameOK(u)
<1>1. \A u \in Threads : ~Storing(u)
    BY DEF Having
<1>2. \A f : f \notin Mapping
    BY <1>1, MappingHas
<1>3. Mapping = {}
    BY <1>2
<1> QED  BY <1>3 DEF FrameOK, Having

\* The count of one frame goes down, unless it is 0.
LEMMA CountDown ==
    ASSUME ref \in [Pages -> Nat], NEW f, ref' = [ref EXCEPT ![f] = IF @ > 0 THEN @ - 1 ELSE @]
    PROVE  /\ ref' \in [Pages -> Nat] /\ \A p \in Pages \ {f} : ref'[p] = ref[p]
           /\ \A p \in Pages : ref'[p] > 0 => ref[p] > 0
           /\ f \in Pages /\ ref[f] \in {0, 1} => ref'[f] = 0
<1>1. CASE f \in Pages
    <2>1. PICK n \in Nat : n = ref[f]
        BY <1>1
    <2>2. PICK m \in Nat : m = (IF n > 0 THEN n - 1 ELSE n) /\ (m > 0 => n > 0) /\ (n \in {0, 1} => m = 0)
        BY <2>1
    <2>3. ref' = [ref EXCEPT ![f] = m]
        BY <2>1, <2>2
    <2>4. ref' \in [Pages -> Nat] /\ ref'[f] = m /\ \A p \in Pages \ {f} : ref'[p] = ref[p]
        BY <1>1, <2>3
    <2> QED  BY <2>1, <2>2, <2>4
<1>2. CASE f \notin Pages
    <2>1. ref' = ref
        BY <1>2
    <2> QED  BY <1>2, <2>1
<1> QED  BY <1>1, <1>2

\* swap_out of a frame, and nobody has one.
LEMMA OutFrames ==
    ASSUME FState, NEW f, NEW v, v = va[f], pte' = [pte EXCEPT ![v].p = FALSE],
           ref' = [ref EXCEPT ![f] = IF @ > 0 THEN @ - 1 ELSE @],
           free_pages(f, ref'), va' = va, PTypes',
           \A u \in Threads : ~Having(u) /\ ~Having(u)' /\ pc'[u] # "unmap"
    PROVE  FState'
<1>1. ref \in [Pages -> Nat] /\ InHands \subseteq Pages
    BY HandsPages DEF FState
<1>2. /\ ref' \in [Pages -> Nat] /\ \A p \in Pages \ {f} : ref'[p] = ref[p]
      /\ \A p \in Pages : ref'[p] > 0 => ref[p] > 0
    BY <1>1, CountDown
<1>3. /\ BInv' /\ MappedHeld' /\ InHands' \subseteq InHands
      /\ \A p \in InHands : ref'[p] > 0 => p \in InHands'
    BY <1>2, FreedFrames DEF FState
<1>4. ASSUME NEW w \in VPages, pte'[w].p PROVE EntryOK(w)'
    <2>1. w # v /\ pte'[w] = pte[w]
        BY <1>4 DEF FState, PTypes, Entries
    <2>2. EntryOK(w)
        BY <1>4, <2>1 DEF FState, EntriesOK
    <2>3. PICK g : g = pte[w].frame
        OBVIOUS
    <2>4. g \in InHands /\ g \in Pages /\ ref[g] = 1 /\ va[g] = w
        BY <1>1, <2>2, <2>3, NobodyMaps DEF EntryOK
    <2>5. g # f
        BY <2>1, <2>4
    <2>6. ref'[g] = 1 /\ g \in InHands'
        BY <1>2, <1>3, <2>4, <2>5
    <2> QED  BY <2>1, <2>3, <2>4, <2>6 DEF EntryOK
<1>5. EntriesOK'
    BY <1>4 DEF EntriesOK, VPages
<1>6. FreshOK'
    <2>1. ASSUME NEW u \in Threads PROVE FrameOK(u)'
        BY FrameNone
    <2> QED  BY <2>1 DEF FreshOK
<1>7. UnmapOK'
    BY DEF UnmapOK
<1> QED  BY <1>3, <1>5, <1>6, <1>7 DEF FState

\* unmap of a page that is present: its frame is not another entry's.
LEMMA UnmapFrames ==
    ASSUME FState, NEW v \in VPages, pte[v].p, unmap(v), PTypes',
           UNCHANGED <<list, blk_num, flags, held>>,
           \A u \in Threads : /\ Stays(u) \/ (~Having(u) /\ ~Having(u)')
                              /\ pc'[u] # "unmap"
    PROVE  FState'
<1>1. PICK f : f = pte[v].frame
    OBVIOUS
<1>2. /\ ref \in [Pages -> Nat] /\ InHands \subseteq Pages /\ f \in InHands /\ f \in Pages
      /\ (f \notin Mapping => ref[f] = 1 /\ va[f] = v)
    BY <1>1, HandsPages DEF FState, EntriesOK, EntryOK
<1>3. /\ pte' = [pte EXCEPT ![v] = Zero] /\ va' = [va EXCEPT ![f] = None]
      /\ ref' = [ref EXCEPT ![f] = IF @ > 0 THEN @ - 1 ELSE @]
    BY <1>1 DEF unmap
<1>4. /\ ref' \in [Pages -> Nat] /\ \A p \in Pages \ {f} : ref'[p] = ref[p]
      /\ \A p \in Pages : ref'[p] > 0 => ref[p] > 0
      /\ ref[f] \in {0, 1} => ref'[f] = 0
    BY <1>2, <1>3, CountDown
<1>5. /\ \A p \in Pages \ {f} : va'[p] = va[p]
      /\ pte'[v] = Zero /\ \A w \in VPages \ {v} : pte'[w] = pte[w]
    BY <1>2, <1>3 DEF FState, PTypes
<1>6. BInv' /\ InHands' = InHands /\ MappedHeld'
    <2>1. BInv' /\ InHands' = InHands
        BY <1>4, RefBInv DEF FState
    <2>2. MappedHeld'
        BY <1>4, <2>1 DEF FState, MappedHeld, Pages
    <2> QED  BY <2>1, <2>2
<1>7. ASSUME NEW u \in Threads
      PROVE  (Having(u)' => Stays(u)) /\ (Having(u) => Stays(u))
    OBVIOUS
<1>8. \A g \in Mapping : g \in Mapping'
    <2>1. \A g : g \in Mapping' <=> \E u \in Threads : Storing(u)' /\ frm'[u] = g
        BY DEF Mapping, Storing
    <2>2. ASSUME NEW g \in Mapping PROVE g \in Mapping'
        <3>1. PICK u \in Threads : Storing(u) /\ frm[u] = g
            BY MappingHas
        <3>2. Stays(u)
            BY <1>7, <3>1 DEF Having
        <3> QED  BY <2>1, <3>1, <3>2, StaysSame DEF Stays
    <2> QED  BY <2>2
<1>9. ASSUME NEW w \in VPages, pte'[w].p
      PROVE  w # v /\ pte'[w] = pte[w] /\ pte[w].frame # f
    <2>1. w # v
        BY <1>5, <1>9 DEF Zero
    <2>2. pte'[w] = pte[w]
        BY <1>5, <2>1
    <2>3. ASSUME pte[w].frame = f PROVE FALSE
        <3>1. CASE f \in Mapping
            <4>1. PICK u \in Threads : Storing(u) /\ frm[u] = f
                BY <3>1, MappingHas
            <4>2. Maps(v, f) /\ Maps(w, f)
                BY <1>1, <1>9, <2>2, <2>3 DEF Maps
            <4> QED  BY <2>1, <4>1, <4>2 DEF FState, FreshOK, FrameOK
        <3>2. CASE f \notin Mapping
            <4>1. EntryOK(w)
                BY <1>9, <2>2 DEF FState, EntriesOK
            <4> QED  BY <1>2, <2>1, <2>3, <3>2, <4>1 DEF EntryOK
        <3> QED  BY <3>1, <3>2
    <2> QED  BY <2>1, <2>2, <2>3
<1>10. ASSUME NEW w \in VPages, pte'[w].p PROVE EntryOK(w)'
    <2>1. PICK g : g = pte[w].frame
        OBVIOUS
    <2>2. g # f /\ pte[w].p /\ pte'[w].frame = g
        BY <1>9, <1>10, <2>1
    <2>3. g \in InHands /\ g \in Pages /\ (g \notin Mapping => ref[g] = 1 /\ va[g] = w)
        BY <1>2, <2>1, <2>2 DEF FState, EntriesOK, EntryOK
    <2>4. g \in InHands' /\ (g \notin Mapping' => ref'[g] = 1 /\ va'[g] = w)
        BY <1>4, <1>5, <1>6, <1>8, <2>2, <2>3
    <2> QED  BY <2>2, <2>4 DEF EntryOK
<1>11. EntriesOK'
    BY <1>10 DEF EntriesOK, VPages
<1>12. ASSUME NEW u \in Threads PROVE FrameOK(u)'
    <2>1. CASE ~Having(u)'
        BY <2>1, FrameNone
    <2>2. CASE Having(u)'
        <3>1. Stays(u) /\ FrameOK(u)
            BY <1>7, <2>2 DEF FState, FreshOK
        <3>2. PICK g : g = frm[u]
            OBVIOUS
        <3>3. /\ Having(u) /\ g \in InHands /\ g \in Pages /\ frm'[u] = g
              /\ (~Counted(u) => ref[g] = 0)
            BY <1>2, <2>2, <3>1, <3>2, StaysSame DEF Stays, FrameOK
        <3>4. ASSUME NEW w \in VPages, Maps(w, frm[u])' PROVE Maps(w, frm[u]) /\ g # f
            BY <1>9, <3>2, <3>3, <3>4 DEF Maps
        <3>5. CASE g = f
            <4>1. ~Counted(u)' => ref'[g] = 0
                BY <1>4, <3>1, <3>3, <3>5, StaysSame
            <4>2. \A w \in VPages : ~Maps(w, frm[u])'
                BY <3>4, <3>5
            <4> QED  BY <1>6, <3>3, <4>1, <4>2 DEF FrameOK
        <3>6. CASE g # f
            <4>1. ref'[frm[u]] = ref[frm[u]]
                BY <1>4, <3>2, <3>3, <3>6
            <4> QED  BY <1>6, <3>1, <3>4, <4>1, FrameStays
        <3> QED  BY <3>5, <3>6
    <2> QED  BY <2>1, <2>2
<1>13. FreshOK'
    <2>1. ASSUME NEW u \in Threads, NEW w \in Threads, Having(u)', Having(w)', frm'[u] = frm'[w]
          PROVE  u = w
        BY <1>7, <2>1, StaysSame DEF FState, FreshOK, Stays
    <2> QED  BY <1>12, <2>1 DEF FreshOK
<1>14. UnmapOK'
    BY DEF UnmapOK
<1> QED  BY <1>6, <1>11, <1>13, <1>14 DEF FState

\* Nothing that threads or frames depend on has changed.
LEMMA StillFrames ==
    ASSUME FState, UNCHANGED <<list, blk_num, flags, ref, held, pte, va, slabs, pc, at, frm>>
    PROVE  FState'
<1>1. heap_top' = heap_top
    BY DEF heap_top
<1>2. PTypes'
    BY <1>1 DEF FState, PTypes, VPages, Pages
<1>3. UnmapOK'
    BY <1>1 DEF FState, UnmapOK
<1>4. \A u \in Threads : Stays(u)
    BY <1>1 DEF Stays, Target
<1> QED  BY <1>2, <1>3, <1>4, QuietFrames

\* A thread comes to a fault, leaves it, or goes on in it without a frame.
LEMMA WalkFrames ==
    ASSUME FState, NEW t \in Threads,
           \/ \E v \in VPages : Touch(t, v)
           \/ Access(t) \/ do_pgfault(t) \/ map_swappable(t)
           \/ swap_out_victim(t) /\ t = Boot
    PROVE  FState'
<1>1. /\ at \in [Threads -> VPages \cup {None}] /\ DOMAIN frm = Threads
      /\ pc[t] \in Faulting => at[t] \in VPages
    BY DEF FState, PTypes
<1>2. ASSUME NEW v \in VPages, Touch(t, v) PROVE FState'
    <2>1. /\ Goto(t, "fault") /\ UNCHANGED <<list, blk_num, flags, ref, held, pte, va, slabs, frm>>
          /\ at' = [at EXCEPT ![t] = v] /\ pc[t] = "run"
        BY <1>2 DEF Touch, vars, mmVars
    <2>2. /\ at' \in [Threads -> VPages \cup {None}] /\ at'[t] = v
          /\ \A u \in Threads \ {t} : at'[u] = at[u]
        BY <1>1, <2>1
    <2>3. "fault" \in Empty /\ "fault" \notin HeapPlaces /\ "fault" # "unmap"
        BY DEF Places, Empty, Faulting, HeapPlaces
    <2>4. ~Having(t)
        BY <2>1, PlaceKinds
    <2> QED  BY <1>1, <2>1, <2>2, <2>3, <2>4, QuietMoves
<1>3. CASE Access(t)
    <2>1. UNCHANGED <<list, blk_num, flags, ref, held, pte, va, slabs>> /\ pc[t] = "access"
        BY <1>3 DEF Access, vars, mmVars
    <2>2. at[t] \in VPages /\ ~Having(t)
        BY <1>1, <2>1, PlaceKinds DEF Faulting
    <2>3. CASE Done(t)
        <3>1. /\ Goto(t, "run") /\ at' = [at EXCEPT ![t] = None] /\ frm' = [frm EXCEPT ![t] = None]
            BY <2>3 DEF Done
        <3>2. /\ at' \in [Threads -> VPages \cup {None}] /\ DOMAIN frm' = Threads
              /\ \A u \in Threads \ {t} : at'[u] = at[u] /\ frm'[u] = frm[u]
            BY <1>1, <3>1
        <3>3. "run" \in Empty /\ "run" \notin Faulting /\ "run" \notin HeapPlaces /\ "run" # "unmap"
            BY DEF Places, Faulting, Empty, HeapPlaces
        <3> QED  BY <2>1, <2>2, <3>1, <3>2, <3>3, QuietMoves
    <2>4. CASE Goto(t, "fault") /\ UNCHANGED <<at, frm>>
        <3>1. "fault" \in Empty /\ "fault" \notin HeapPlaces /\ "fault" # "unmap"
            BY DEF Places, Empty, Faulting, HeapPlaces
        <3> QED  BY <1>1, <2>1, <2>2, <2>4, <3>1, QuietMoves
    <2> QED  BY <1>3, <2>3, <2>4 DEF Access
<1>4. CASE do_pgfault(t)
    <2>1. /\ UNCHANGED <<list, blk_num, flags, ref, held, pte, va, slabs, at, frm>>
          /\ pc[t] = "fault"
        BY <1>4 DEF do_pgfault, vars
    <2>2. at[t] \in VPages /\ ~Having(t)
        BY <1>1, <2>1, PlaceKinds DEF Faulting
    <2>3. PICK l \in {"nested", "new", "swap_in", "access"} : Goto(t, l)
        <3>1. Branch(getpte(at[t])) \in {"nested", "new", "swap_in"}
            BY DEF Branch
        <3> QED  BY <1>4, <3>1 DEF do_pgfault
    <2>4. l \in Empty /\ l \notin HeapPlaces /\ l # "unmap"
        BY <2>3 DEF Places, Empty, Faulting, HeapPlaces
    <2> QED  BY <1>1, <2>1, <2>2, <2>3, <2>4, QuietMoves
<1>5. CASE map_swappable(t)
    <2>1. /\ UNCHANGED <<list, blk_num, flags, ref, held, pte, va, slabs, at, frm>>
          /\ pc[t] = "swappable" /\ Goto(t, "access")
        BY <1>5 DEF map_swappable, vars
    <2>2. at[t] \in VPages /\ ~Having(t)
        BY <1>1, <2>1, PlaceKinds DEF Faulting
    <2>3. "access" \in Empty /\ "access" \notin HeapPlaces /\ "access" # "unmap"
        BY DEF Places, Empty, Faulting, HeapPlaces
    <2> QED  BY <1>1, <2>1, <2>2, <2>3, QuietMoves
<1>6. CASE swap_out_victim(t) /\ t = Boot
    <2>1. /\ UNCHANGED <<list, blk_num, flags, ref, held, pte, va, slabs, at>> /\ pc[t] = "run"
        BY <1>6 DEF swap_out_victim, vars
    <2>2. ~Having(t)
        BY <2>1, PlaceKinds
    <2>3. CASE UNCHANGED <<pc, frm>>
        BY <2>1, <2>3, StillFrames
    <2>4. ASSUME NEW g, frm' = [frm EXCEPT ![t] = g], Goto(t, "out") PROVE FState'
        <3>1. DOMAIN frm' = Threads /\ \A u \in Threads \ {t} : frm'[u] = frm[u]
            BY <1>1, <2>4
        <3>2. "out" \in Empty /\ "out" \notin Faulting /\ "out" # "unmap"
            BY DEF Places, Faulting, Empty, HeapPlaces
        <3> QED  BY <1>1, <1>6, <2>1, <2>2, <2>4, <3>1, <3>2, QuietMoves
    <2>5. UNCHANGED <<pc, frm>> \/ \E g : frm' = [frm EXCEPT ![t] = g] /\ Goto(t, "out")
        BY <1>6 DEF swap_out_victim
    <2> QED  BY <2>3, <2>4, <2>5
<1> QED  BY <1>2, <1>3, <1>4, <1>5, <1>6

\* alloc_pages(1) of do_pgfault, of swap_in and of apply_slab.
LEMMA GetFrameFrames ==
    ASSUME FState, NEW t \in Threads, NEW from \in {"new", "swap_in", "run"}, NEW to \in {"map", "slab"},
           GetFrame(t, from, to), to = "slab" => t = Boot /\ heap_top < MaxSlabs,
           to = "map" => from # "run"
    PROVE  FState'
<1>1. UNCHANGED <<pte, va, slabs, at>> /\ pc[t] = from
    BY DEF GetFrame, mmVars
<1>2. heap_top' = heap_top /\ heap_top <= MaxSlabs
    BY <1>1 DEF heap_top, FState, PTypes
<1>3. CASE OutOfMemory /\ UNCHANGED <<pc, frm>>
    <2>1. UNCHANGED <<list, blk_num, flags, ref, held>>
        BY <1>3 DEF OutOfMemory, AllocFails
    <2> QED  BY <1>1, <1>3, <2>1, StillFrames
<1>4. CASE alloc_buddy(1) /\ frm' = [frm EXCEPT ![t] = Got] /\ Goto(t, to) /\ UNCHANGED ref
    <2>1. /\ DOMAIN frm' = Threads /\ to \in Places /\ frm'[t] = Got
          /\ \A u \in Threads \ {t} : frm'[u] = frm[u]
        BY <1>4 DEF FState, PTypes, Places, Faulting, HeapPlaces
    <2>2. to \in Faulting => at'[t] \in VPages
        BY <1>1 DEF FState, PTypes, Faulting
    <2>3. to \in HeapPlaces \/ to \in SlabPlaces => t = Boot /\ heap_top < MaxSlabs
        BY DEF HeapPlaces, SlabPlaces
    <2>4. PTypes'
        <3>1. /\ pte' \in [VPages -> Entries] /\ va' \in [Pages -> VPages \cup {None}]
              /\ slabs' \in Seq(Pages) /\ at' \in [Threads -> VPages \cup {None}]
              /\ \A u \in Threads \ {t} : at'[u] = at[u]
            BY <1>1 DEF FState, PTypes
        <3> QED  BY <1>2, <1>4, <2>1, <2>2, <2>3, <3>1, MoveTypes DEF FState
    <2>5. pc'[t] = to /\ \A u \in Threads \ {t} : Stays(u)
        BY <1>1, <1>2, <1>4, <2>1, OthersStay DEF FState
    <2>6. Fresh(t)' /\ ~Having(t)
        BY <1>1, <2>5 DEF Fresh, Having, Storing
    <2>7. UnmapOK'
        BY <1>1, <1>2, <2>5 DEF FState, UnmapOK, Stays
    <2> QED  BY <1>1, <1>4, <2>1, <2>4, <2>5, <2>6, <2>7, GetFrames
<1> QED  BY <1>3, <1>4 DEF GetFrame

\* The thread's last store of map, and it goes to l.
LEMMA MapDone ==
    ASSUME FState, NEW t \in Threads, Counted(t), StoreAddress(t, Target(t)), Target(t) \in VPages,
           NEW l \in {"swappable", "run"}, Goto(t, l), slabs' \in Seq(Pages),
           heap_top' = heap_top \/ t = Boot, heap_top' <= MaxSlabs,
           at' \in [Threads -> VPages \cup {None}], DOMAIN frm' = Threads,
           l = "swappable" => at'[t] \in VPages,
           \A u \in Threads \ {t} : at'[u] = at[u] /\ frm'[u] = frm[u],
           slabs' = slabs \/ \A u \in Threads : pc[u] # "unmap"
    PROVE  FState'
<1>1. l \in Places /\ l \notin HeapPlaces /\ l \notin SlabPlaces /\ (l \in Faulting => l = "swappable")
    BY DEF Places, Faulting, HeapPlaces, SlabPlaces
<1>2. pte' = pte /\ va' \in [Pages -> VPages \cup {None}] /\ pte' \in [VPages -> Entries]
    BY DEF StoreAddress, FState, PTypes
<1>3. PTypes'
    BY <1>1, <1>2, MoveTypes DEF FState
<1>4. pc'[t] = l /\ \A u \in Threads \ {t} : Stays(u)
    BY <1>1, OthersStay DEF FState
<1>5. ~Having(t)'
    BY <1>4 DEF Having, Fresh, Storing
<1>6. UnmapOK'
    <2>1. \A u \in Threads : pc'[u] = "unmap" => pc[u] = "unmap"
        BY <1>4 DEF Stays
    <2>2. CASE slabs' = slabs
        <3>1. heap_top' = heap_top
            BY <2>2 DEF heap_top
        <3> QED  BY <1>2, <2>1, <2>2, <3>1 DEF FState, UnmapOK
    <2>3. CASE \A u \in Threads : pc[u] # "unmap"
        BY <2>1, <2>3 DEF UnmapOK
    <2> QED  BY <2>2, <2>3
<1>7. PICK v \in VPages : v = Target(t) /\ StoreAddress(t, v)
    OBVIOUS
<1> QED  BY <1>3, <1>4, <1>5, <1>6, <1>7, AddressFrames

\* map of do_pgfault and of swap_in.
LEMMA MapStep ==
    ASSUME FState, NEW t \in Threads, map(t)
    PROVE  FState'
<1>1. pc[t] \in {"map", "count", "address"}
    BY DEF map
<1>2. at[t] \in VPages /\ Target(t) = at[t]
    BY <1>1 DEF FState, PTypes, Faulting, Target, SlabPlaces
<1>3. CASE pc[t] = "map" /\ StoreEntry(t, at[t], "count")
    <2>1. PICK v \in VPages : v = Target(t) /\ StoreEntry(t, v, "count")
        BY <1>2, <1>3
    <2>2. Fresh(t)
        BY <1>3 DEF Fresh
    <2>3. PICK l \in {"count", "slab count"} : l = "count"
        OBVIOUS
    <2>4. (l = "slab count" <=> pc[t] = "slab") /\ StoreEntry(t, v, l)
        BY <1>3, <2>1, <2>3
    <2> QED  BY <2>1, <2>2, <2>4, EntryStep
<1>4. CASE pc[t] = "count" /\ StoreCount(t, "address")
    <2>1. PICK l \in {"address", "slab address"} : l = "address"
        OBVIOUS
    <2>2. /\ l = "slab address" <=> pc[t] = "slab count"
          /\ StoreCount(t, l) /\ pc[t] \in {"count", "slab count"}
        BY <1>4, <2>1
    <2> QED  BY <2>2, StoreCountFrames
<1>5. CASE /\ pc[t] = "address" /\ StoreAddress(t, at[t])
           /\ Goto(t, "swappable") /\ UNCHANGED <<slabs, at, frm>>
    <2>1. Counted(t) /\ StoreAddress(t, Target(t)) /\ heap_top' = heap_top
        BY <1>2, <1>5 DEF Counted, heap_top
    <2>2. /\ slabs' \in Seq(Pages) /\ heap_top <= MaxSlabs /\ DOMAIN frm' = Threads
          /\ at' \in [Threads -> VPages \cup {None}]
        BY <1>5 DEF FState, PTypes
    <2>3. "swappable" \in {"swappable", "run"}
        OBVIOUS
    <2> QED  BY <1>2, <1>5, <2>1, <2>2, <2>3, MapDone
<1> QED  BY <1>3, <1>4, <1>5 DEF map

LEMMA DoneMoves ==
    ASSUME PTypes, NEW t \in Threads, Done(t)
    PROVE  /\ Goto(t, "run") /\ at' \in [Threads -> VPages \cup {None}] /\ DOMAIN frm' = Threads
           /\ \A u \in Threads \ {t} : at'[u] = at[u] /\ frm'[u] = frm[u]
BY DEF PTypes, Done

\* map of apply_slab.
LEMMA SlabStep ==
    ASSUME FState, NEW t \in Threads, map_slab(t), Undisturbed'
    PROVE  FState'
<1>1. PICK v : v = heap_top /\ map_slab_at(t, v)
    BY DEF map_slab
<1>2. pc[t] \in SlabPlaces
    BY <1>1 DEF map_slab_at, SlabPlaces
<1>3. /\ t = Boot /\ v < MaxSlabs /\ v \in Nat /\ slabs \in Seq(Pages) /\ heap_top \in Nat
      /\ Having(t) /\ frm[t] \in Pages /\ Target(t) = v
    <2>1. t = Boot /\ v < MaxSlabs /\ slabs \in Seq(Pages) /\ Having(t)
        BY <1>1, <1>2, PlaceKinds DEF FState, PTypes
    <2>2. frm[t] \in Pages
        BY <2>1, HandsPages DEF FState, FreshOK, FrameOK
    <2>3. v \in Nat
        BY <1>1, <2>1, LenProperties DEF heap_top
    <2> QED  BY <1>1, <1>2, <2>1, <2>2, <2>3 DEF Target
<1>4. v \in VPages /\ MaxSlabs \in Nat
    BY <1>3, PagingAssumption DEF VPages
<1>5. CASE pc[t] = "slab" /\ StoreEntry(t, v, "slab count")
    <2>1. PICK l \in {"count", "slab count"} : l = "slab count"
        OBVIOUS
    <2>2. (l = "slab count" <=> pc[t] = "slab") /\ StoreEntry(t, v, l) /\ Fresh(t)
        BY <1>5, <2>1 DEF Fresh
    <2> QED  BY <1>3, <1>4, <2>2, EntryStep
<1>6. CASE pc[t] = "slab count" /\ StoreCount(t, "slab address")
    <2>1. PICK l \in {"address", "slab address"} : l = "slab address"
        OBVIOUS
    <2>2. /\ l = "slab address" <=> pc[t] = "slab count"
          /\ StoreCount(t, l) /\ pc[t] \in {"count", "slab count"}
        BY <1>6, <2>1
    <2> QED  BY <2>2, StoreCountFrames
<1>7. CASE /\ pc[t] = "slab address" /\ StoreAddress(t, v) /\ Done(t)
           /\ slabs' = Append(slabs, frm[t])
    <2>1. slabs' \in Seq(Pages) /\ heap_top' = heap_top + 1
        BY <1>3, <1>7, AppendProperties DEF heap_top
    <2>2. heap_top' <= MaxSlabs
        BY <1>1, <1>3, <1>4, <2>1
    <2>3. Counted(t) /\ StoreAddress(t, Target(t)) /\ Target(t) \in VPages
        BY <1>3, <1>4, <1>7 DEF Counted
    <2>4. \A u \in Threads : pc[u] # "unmap"
        BY <1>3, <1>7 DEF FState, PTypes, HeapPlaces
    <2>5. /\ Goto(t, "run") /\ at' \in [Threads -> VPages \cup {None}] /\ DOMAIN frm' = Threads
          /\ \A u \in Threads \ {t} : at'[u] = at[u] /\ frm'[u] = frm[u]
        BY <1>7, DoneMoves DEF FState
    <2>6. PICK l \in {"swappable", "run"} : l = "run" /\ Goto(t, l) /\ l # "swappable"
        BY <2>5
    <2> QED  BY <1>3, <2>1, <2>2, <2>3, <2>4, <2>5, <2>6, MapDone
<1>8. CASE /\ UNCHANGED <<pte, slabs, at, link, clock, cached>>
           /\ NewTable(v) /\ UNCHANGED <<pc, frm, past>>
    <2>1. /\ alloc_buddy(1) /\ ref' = [ref EXCEPT ![Got] = @ + 1]
          /\ va' = [va EXCEPT ![Got] = None]
        BY <1>8 DEF NewTable
    <2>2. heap_top' = heap_top /\ va' \in [Pages -> VPages \cup {None}]
        BY <1>8, <2>1 DEF heap_top, FState, PTypes
    <2>3. PTypes'
        BY <1>8, <2>2 DEF FState, PTypes, VPages, Pages
    <2> QED  BY <1>8, <2>1, <2>3, TableFrames
<1>9. CASE /\ UNCHANGED <<pte, slabs, at, link, clock, cached>>
           /\ OutOfMemory /\ UNCHANGED <<tables, va, pc, frm, past>>
    <2>1. UNCHANGED <<list, blk_num, flags, ref, held>>
        BY <1>9 DEF OutOfMemory, AllocFails
    <2> QED  BY <1>9, <2>1, StillFrames
<1>10. "raced" \notin past'
    BY DEF Undisturbed
<1> QED  BY <1>1, <1>5, <1>6, <1>7, <1>8, <1>9, <1>10 DEF map_slab_at

\* swap_out lets an entry go.
LEMMA OutStep ==
    ASSUME FState, NEW t \in Threads, swap_out(t), Undisturbed'
    PROVE  FState'
<1>1. /\ pc[t] = "out" /\ Done(t) /\ UNCHANGED <<va, slabs>> /\ swap_out_as(t, FALSE)
    BY DEF swap_out, swap_out_as
<1>2. t = Boot /\ ~Having(t)
    BY <1>1, PlaceKinds DEF FState, PTypes, HeapPlaces
<1>3. /\ Goto(t, "run") /\ at' \in [Threads -> VPages \cup {None}] /\ DOMAIN frm' = Threads
      /\ \A u \in Threads \ {t} : at'[u] = at[u] /\ frm'[u] = frm[u]
    BY <1>1, DoneMoves DEF FState
<1>4. "run" \in Empty /\ "run" \notin Faulting /\ "run" \notin HeapPlaces /\ "run" # "unmap"
      /\ "run" \in Places /\ "run" \notin SlabPlaces
    BY DEF Places, Faulting, Empty, HeapPlaces, SlabPlaces
<1>5. CASE UNCHANGED <<vars, pte>>
    BY <1>1, <1>2, <1>3, <1>4, <1>5, QuietMoves DEF vars
<1>6. ASSUME NEW f, NEW v, v = va[f], pte' = [pte EXCEPT ![v].p = FALSE],
             ref' = [ref EXCEPT ![f] = IF @ > 0 THEN @ - 1 ELSE @],
             free_pages(f, ref'), NEW e \in {"evicted", "refused"}, past' = past \cup Crossing(t) \cup {e}
      PROVE  FState'
    <2>1. "crossed" \notin past'
        BY <1>6 DEF Undisturbed
    <2>2. \A u \in Threads \ {t} : pc[u] = "run"
        BY <1>6, <2>1 DEF Crossing
    <2>3. pc'[t] = "run" /\ \A u \in Threads \ {t} : pc'[u] = "run"
        BY <1>3, <2>2 DEF FState, PTypes, Goto
    <2>4. \A u \in Threads : ~Having(u)
        BY <1>2, <2>2, PlaceKinds
    <2>5. \A u \in Threads : ~Having(u)' /\ pc'[u] # "unmap"
        BY <2>3 DEF Having, Fresh, Storing
    <2>6. pte' \in [VPages -> Entries]
        <3>1. ASSUME NEW e1 \in Entries PROVE [e1 EXCEPT !.p = FALSE] \in Entries
            BY DEF Entries
        <3>2. pte' = [pte EXCEPT ![v] = [pte[v] EXCEPT !.p = FALSE]] /\ pte \in [VPages -> Entries]
            BY <1>6 DEF FState, PTypes
        <3>3. \A w \in VPages : pte[w] \in Entries
            BY <3>2
        <3>4. CASE v \in VPages
            <4>1. [pte[v] EXCEPT !.p = FALSE] \in Entries
                BY <3>1, <3>3, <3>4
            <4> HIDE DEF Entries, VPages
            <4>2. PICK x : x = [pte[v] EXCEPT !.p = FALSE]
                OBVIOUS
            <4> QED  BY <3>2, <4>1, <4>2
        <3>5. CASE v \notin VPages
            <4>1. PICK x : x = [pte[v] EXCEPT !.p = FALSE]
                OBVIOUS
            <4> QED  BY <3>2, <3>5, <4>1
        <3> QED  BY <3>4, <3>5
    <2>7. heap_top' = heap_top /\ heap_top <= MaxSlabs /\ slabs' \in Seq(Pages)
          /\ va' \in [Pages -> VPages \cup {None}]
        BY <1>1 DEF heap_top, FState, PTypes
    <2>8. PTypes'
        BY <1>2, <1>3, <1>4, <2>6, <2>7, MoveTypes DEF FState
    <2> QED  BY <1>1, <1>6, <2>4, <2>5, <2>8, OutFrames
<1>7. \/ UNCHANGED <<vars, pte>>
      \/ \E f, v : \E e \in {"evicted", "refused"} :
            /\ v = va[f] /\ pte' = [pte EXCEPT ![v].p = FALSE]
            /\ ref' = [ref EXCEPT ![f] = IF @ > 0 THEN @ - 1 ELSE @]
            /\ free_pages(f, ref') /\ past' = past \cup Crossing(t) \cup {e}
    <2>1. PICK e \in {"evicted", "refused"} : e = IF held' = held THEN "refused" ELSE "evicted"
        OBVIOUS
    <2>2. PICK f, v : f = frm[t] /\ v = va[f]
        OBVIOUS
    <2>3. \/ UNCHANGED <<vars, pte>>
          \/ /\ v = va[f] /\ pte' = [pte EXCEPT ![v].p = FALSE]
             /\ ref' = [ref EXCEPT ![f] = IF @ > 0 THEN @ - 1 ELSE @]
             /\ free_pages(f, ref') /\ past' = past \cup Crossing(t) \cup {e}
        BY <1>1, <2>1, <2>2 DEF swap_out_as
    <2> QED  BY <2>1, <2>2, <2>3
<1> QED  BY <1>5, <1>6, <1>7

\* The last slab's frame counts as mapped: free_buddy refuses it.
LEMMA FreeSlabStep ==
    ASSUME FState, NEW t \in Threads, t = Boot, _check_free_buddy(t), Undisturbed'
    PROVE  FState'
<1>1. PICK f : f = Last(slabs)
    OBVIOUS
<1>2. /\ pc[t] = "run" /\ slabs # <<>> /\ free_pages(f, ref) /\ Goto(t, "unmap")
      /\ pte[heap_top - 1] = [frame |-> f, p |-> TRUE]
      /\ UNCHANGED <<ref, pte, va, slabs, at, frm>>
    BY <1>1 DEF _check_free_buddy, mmVars
<1>3. f \notin Mapping
    BY <1>1 DEF _check_free_buddy, Undisturbed
<1>4. PICK v \in VPages : v = heap_top - 1
    BY <1>2, LastPage
<1>5. pte[v].p /\ pte[v].frame = f
    BY <1>2, <1>4
<1>6. ref[f] = 1
    BY <1>3, <1>5 DEF FState, EntriesOK, EntryOK
<1>7. UNCHANGED <<list, blk_num, flags, held>>
    <2>1. ASSUME NEW b \in held, Head(b.pages) = f, \A k \in DOMAIN b.pages : ~ (ref[b.pages[k]] > 0)
          PROVE  FALSE
        <3>1. b.pages[1] = f /\ 1 \in DOMAIN b.pages
            BY <2>1, HeadHeld DEF FState
        <3> QED  BY <1>6, <2>1, <3>1
    <2> QED  BY <1>2, <2>1, FreePages DEF FState
<1>8. ~Having(t)
    BY <1>2, PlaceKinds
<1>9. "unmap" \in Empty /\ "unmap" \notin Faulting
    BY DEF Places, Empty, Faulting, HeapPlaces
<1>10. at' \in [Threads -> VPages \cup {None}] /\ DOMAIN frm' = Threads
       /\ \A u \in Threads \ {t} : at'[u] = at[u] /\ frm'[u] = frm[u]
    BY <1>2 DEF FState, PTypes
<1> QED  BY <1>2, <1>4, <1>5, <1>7, <1>8, <1>9, <1>10, QuietMoves

\* unmap takes the last slab's entry away.
LEMMA UnmapSlabStep ==
    ASSUME FState, NEW t \in Threads, unmap_slab(t)
    PROVE  FState'
<1>1. /\ pc[t] = "unmap" /\ unmap(heap_top - 1) /\ slabs' = Front(slabs) /\ Goto(t, "run")
      /\ UNCHANGED <<list, blk_num, flags, held, at, frm>>
    BY DEF unmap_slab
<1>2. t = Boot /\ ~Having(t) /\ slabs # <<>> /\ pte[heap_top - 1].p
    BY <1>1, PlaceKinds DEF FState, PTypes, HeapPlaces, UnmapOK
<1>3. PICK v \in VPages : v = heap_top - 1
    BY <1>2, LastPage
<1>4. slabs' \in Seq(Pages) /\ heap_top' <= MaxSlabs
    <2>1. slabs \in Seq(Pages) /\ heap_top <= MaxSlabs
        BY DEF FState, PTypes
    <2>2. PICK n : n = Len(slabs) /\ n \in Nat /\ n > 0
        BY <1>2, LastPage DEF heap_top
    <2>3. Front(slabs) \in Seq(Pages) /\ Len(Front(slabs)) = n - 1
        BY <1>2, <2>1, <2>2 DEF Front
    <2>4. MaxSlabs \in Nat
        BY PagingAssumption
    <2> QED  BY <1>1, <2>1, <2>2, <2>3, <2>4 DEF heap_top
<1>5. /\ pte' = [pte EXCEPT ![v] = Zero] /\ va' = [va EXCEPT ![pte[v].frame] = None]
    BY <1>1, <1>3 DEF unmap
<1>6. pte' \in [VPages -> Entries] /\ va' \in [Pages -> VPages \cup {None}]
    <2>1. Zero \in Entries
        BY DEF Zero, Entries
    <2>2. pte \in [VPages -> Entries] /\ va \in [Pages -> VPages \cup {None}]
        BY DEF FState, PTypes
    <2>3. PICK z : z = Zero
        OBVIOUS
    <2>4. PICK g : g = pte[v].frame
        OBVIOUS
    <2>5. z \in Entries /\ pte' = [pte EXCEPT ![v] = z] /\ va' = [va EXCEPT ![g] = None]
        BY <1>5, <2>1, <2>3, <2>4
    <2> HIDE DEF Entries, VPages
    <2>6. pte' \in [VPages -> Entries]
        BY <2>2, <2>5
    <2>7. va' \in [Pages -> VPages \cup {None}]
        BY <2>2, <2>5
    <2> QED  BY <2>6, <2>7
<1>7. "run" \in Places /\ "run" \notin Faulting /\ "run" \notin HeapPlaces /\ "run" \notin SlabPlaces
    BY DEF Places, Faulting, HeapPlaces, SlabPlaces
<1>8. at' \in [Threads -> VPages \cup {None}] /\ DOMAIN frm' = Threads
      /\ \A u \in Threads \ {t} : at'[u] = at[u] /\ frm'[u] = frm[u]
    BY <1>1 DEF FState, PTypes
<1>9. PTypes'
    BY <1>1, <1>2, <1>4, <1>6, <1>7, <1>8, MoveTypes DEF FState
<1>10. pc'[t] = "run" /\ \A u \in Threads \ {t} : Stays(u)
    BY <1>1, <1>2, <1>7, <1>8, OthersStay DEF FState
<1>11. ASSUME NEW u \in Threads
       PROVE  (Stays(u) \/ (~Having(u) /\ ~Having(u)')) /\ pc'[u] # "unmap"
    <2>1. CASE u = t
        BY <1>2, <1>10, <2>1 DEF Having, Fresh, Storing
    <2>2. CASE u # t
        BY <1>2, <1>10, <2>2 DEF Stays, FState, PTypes, HeapPlaces
    <2> QED  BY <2>1, <2>2
<1>12. unmap(v) /\ pte[v].p
    BY <1>1, <1>2, <1>3
<1> QED  BY <1>1, <1>9, <1>11, <1>12, UnmapFrames
(***************************************************************************)
(* Every step                                                              *)
(***************************************************************************)

\* The history only grows.
LEMMA PastGrows == ASSUME PNext PROVE past \subseteq past'
<1>1. ASSUME NEW t \in Threads, Handle(t) PROVE past \subseteq past'
    <2>1. CASE Access(t) \/ do_pgfault(t) \/ map_swappable(t) \/ unmap_slab(t)
        BY <2>1 DEF Access, do_pgfault, map_swappable, unmap_slab, hist
    <2>2. ASSUME NEW from, GetFrame(t, from, "map") PROVE past \subseteq past'
        BY <2>2 DEF GetFrame
    <2>3. ASSUME NEW from, NEW u, SameFrame(t, u, from, "map") PROVE past \subseteq past'
        BY <2>3 DEF SameFrame
    <2>4. CASE map(t)
        BY <2>4 DEF map, StoreEntry, StoreCount, StoreAddress, hist
    <2>5. ASSUME NEW u, SameTail(t, u) PROVE past \subseteq past'
        BY <2>5 DEF SameTail
    <2>6. CASE swap_out(t)
        BY <2>6 DEF swap_out, swap_out_as
    <2>7. CASE map_slab(t)
        BY <2>7 DEF map_slab, map_slab_at, StoreEntry, StoreCount, StoreAddress, hist
    <2> QED  BY <1>1, <2>1, <2>2, <2>3, <2>4, <2>5, <2>6, <2>7 DEF Handle
<1>2. ASSUME NEW t \in Threads, Start(t) PROVE past \subseteq past'
    <2>1. ASSUME NEW v, Touch(t, v) PROVE past \subseteq past'
        BY <2>1 DEF Touch, hist
    <2>2. CASE swap_out_victim(t) \/ _check_free_buddy(t)
        BY <2>2 DEF swap_out_victim, _check_free_buddy
    <2>3. CASE GetFrame(t, "run", "slab")
        BY <2>3 DEF GetFrame
    <2>4. ASSUME NEW u, SameFrame(t, u, "run", "slab") PROVE past \subseteq past'
        BY <2>4 DEF SameFrame
    <2> QED  BY <1>2, <2>1, <2>2, <2>3, <2>4 DEF Start
<1>3. CASE printk_fails
    BY <1>3 DEF printk_fails
<1>4. CASE lists_torn
    BY <1>4 DEF lists_torn
<1> QED  BY <1>1, <1>2, <1>3, <1>4 DEF PNext

LEMMA HandleFrames ==
    ASSUME FState, NEW t \in Threads, Handle(t), Undisturbed'
    PROVE  FState'
<1>1. ASSUME NEW from \in {"new", "swap_in"}, GetFrame(t, from, "map") PROVE FState'
    <2>1. PICK a \in {"new", "swap_in", "run"} : a = from /\ a # "run"
        BY <1>1
    <2>2. PICK b \in {"map", "slab"} : b = "map" /\ b # "slab"
        OBVIOUS
    <2> QED  BY <1>1, <2>1, <2>2, GetFrameFrames
<1>2. ASSUME NEW from, NEW u, SameFrame(t, u, from, "map") PROVE FALSE
    BY <1>2 DEF SameFrame, Undisturbed
<1>3. ASSUME NEW u, SameTail(t, u) PROVE FALSE
    BY <1>3 DEF SameTail, Undisturbed
<1>4. CASE Access(t) \/ do_pgfault(t) \/ map_swappable(t)
    BY <1>4, WalkFrames
<1> QED  BY <1>1, <1>2, <1>3, <1>4, MapStep, OutStep, SlabStep, UnmapSlabStep DEF Handle

LEMMA StartFrames ==
    ASSUME FState, NEW t \in Threads, Start(t), Undisturbed'
    PROVE  FState'
<1>1. ASSUME NEW v \in VPages, Touch(t, v) PROVE FState'
    BY <1>1, WalkFrames
<1>2. ASSUME t = Boot, heap_top < MaxSlabs, GetFrame(t, "run", "slab") PROVE FState'
    <2>1. PICK a \in {"new", "swap_in", "run"} : a = "run"
        OBVIOUS
    <2>2. PICK b \in {"map", "slab"} : b = "slab" /\ b # "map"
        OBVIOUS
    <2> QED  BY <1>2, <2>1, <2>2, GetFrameFrames
<1>3. ASSUME NEW u, SameFrame(t, u, "run", "slab") PROVE FALSE
    BY <1>3 DEF SameFrame, Undisturbed
<1>4. CASE t = Boot /\ swap_out_victim(t)
    BY <1>4, WalkFrames
<1>5. CASE t = Boot /\ _check_free_buddy(t)
    BY <1>5, FreeSlabStep
<1> QED  BY <1>1, <1>2, <1>3, <1>4, <1>5 DEF Start

LEMMA FramesInit == ASSUME PInit PROVE FramesInv
<1>1. BInv /\ ref = [p \in Pages |-> 0]
    BY InitBInv DEF PInit, Init
<1>2. /\ \A v \in VPages : pte[v] = Zero
      /\ pte \in [VPages -> Entries] /\ va \in [Pages -> VPages \cup {None}]
      /\ pc = [t \in Threads |-> "run"] /\ at \in [Threads -> VPages \cup {None}]
      /\ DOMAIN frm = Threads /\ slabs = <<>>
    BY DEF PInit, Zero, Entries
<1>3. PTypes
    <2>1. "run" \in Places /\ "run" \notin Faulting /\ "run" \notin HeapPlaces /\ "run" \notin SlabPlaces
        BY DEF Places, Faulting, HeapPlaces, SlabPlaces
    <2>2. heap_top = 0 /\ slabs \in Seq(Pages)
        BY <1>2 DEF heap_top
    <2>3. heap_top <= MaxSlabs
        <3>1. MaxSlabs \in Nat
            BY PagingAssumption
        <3> QED  BY <2>2, <3>1
    <2>4. pc \in [Threads -> Places] /\ \A t \in Threads : pc[t] = "run"
        BY <1>2, <2>1
    <2> QED  BY <1>2, <2>1, <2>2, <2>3, <2>4 DEF PTypes
<1>4. \A v \in VPages : ~pte[v].p
    BY <1>2 DEF Zero
<1>5. \A t \in Threads : ~Having(t) /\ pc[t] # "unmap"
    BY <1>2 DEF Having, Fresh, Storing
<1>6. FreshOK
    BY <1>5, NobodyMaps DEF FreshOK
<1>7. MappedHeld
    BY <1>1 DEF MappedHeld, Pages
<1> QED  BY <1>1, <1>3, <1>4, <1>5, <1>6, <1>7 DEF FramesInv, FState, EntriesOK, UnmapOK

LEMMA FramesNext == ASSUME FramesInv, [PNext]_pgVars PROVE FramesInv'
<1>1. SUFFICES ASSUME Undisturbed' PROVE FState'
    BY DEF FramesInv
<1>2. CASE UNCHANGED pgVars
    <2>1. FState
        BY <1>1, <1>2 DEF FramesInv, Undisturbed, pgVars, hist
    <2> QED  BY <1>2, <2>1, StillFrames DEF pgVars, vars, mmVars
<1>3. CASE PNext
    <2>1. past \subseteq past'
        BY <1>3, PastGrows
    <2>2. FState
        BY <1>1, <2>1 DEF FramesInv, Undisturbed
    <2>3. CASE printk_fails
        BY <2>2, <2>3, StillFrames DEF printk_fails, vars, mmVars
    <2>4. CASE lists_torn
        BY <1>1, <2>4 DEF lists_torn, Undisturbed
    <2> QED  BY <1>1, <1>3, <2>2, <2>3, <2>4, HandleFrames, StartFrames DEF PNext
<1> QED  BY <1>2, <1>3

LEMMA FramesAlways == PSpec => []FramesInv
<1> QED  BY FramesInit, FramesNext, PTL DEF PSpec

\* An entry's frame is no other entry's.
LEMMA FramesApart ==
    ASSUME FState, NEW v \in VPages, NEW w \in VPages, NEW f, Maps(v, f), Maps(w, f)
    PROVE  v = w
<1>1. CASE f \notin Mapping
    BY <1>1 DEF FState, EntriesOK, EntryOK, Maps
<1>2. CASE f \in Mapping
    <2>1. PICK t \in Threads : Storing(t) /\ frm[t] = f
        BY <1>2, MappingHas
    <2>2. v = Target(t) /\ w = Target(t)
        BY <2>1 DEF FState, FreshOK, FrameOK
    <2> QED  BY <2>2
<1> QED  BY <1>1, <1>2

LEMMA FramesInUseInv == FramesInv => FramesInUse
<1>1. ASSUME FramesInv, past \cap {"crossed", "raced"} = {}, NEW v \in VPages, pte[v].p
      PROVE  /\ pte[v].frame \notin InTable
             /\ \A w \in VPages : pte[w].p /\ pte[w].frame = pte[v].frame => w = v
             /\ pte[v].frame \notin Mapping => ref[pte[v].frame] = 1 /\ va[pte[v].frame] = v
    <2>1. FState
        BY <1>1 DEF FramesInv, Undisturbed
    <2>2. EntryOK(v) /\ InTable \cap InHands = {}
        BY <1>1, <2>1, TableApart DEF FState, EntriesOK
    <2>3. \A w \in VPages : pte[w].p /\ pte[w].frame = pte[v].frame => w = v
        BY <1>1, <2>1, FramesApart DEF Maps
    <2> QED  BY <2>2, <2>3 DEF EntryOK
<1> QED  BY <1>1 DEF FramesInUse

\* The frame of a present entry is out of the table of free pages, is no other
\* entry's and, once map is done, counts one mapping and knows its address,
\* over every interleaving of faults, slabs and evictions that neither races
\* nor evicts in the middle of a fault (vmm.c, swapmm.c, slab.c, buddy.c).
THEOREM FramesInUseCorrect == PSpec => []FramesInUse
<1> QED  BY FramesAlways, FramesInUseInv, PTL
(***************************************************************************)
(* Entries                                                                 *)
(*                                                                         *)
(* What a frame's count and address say of the entries.  A block's first   *)
(* page that counts as unmapped but has an address is the frame of a       *)
(* thread that has not come to the count; so a victim of swap_out, when    *)
(* nobody else is in a fault, counts as mapped, and its address names the  *)
(* entry that maps it.                                                     *)
(***************************************************************************)
NoLeak ==
    \A f \in Pages \ Mapping :
        ref[f] > 0 /\ va[f] # None => pte[va[f]] = [frame |-> f, p |-> TRUE]

HeadsOK ==
    \A b \in held : LET h == Head(b.pages) IN
        ref[h] = 0 /\ va[h] # None => \E t \in Threads : Having(t) /\ frm[t] = h

\* Nobody takes the entry away that map has stored.
StoringKept == \A t \in Threads : Storing(t) => Maps(Target(t), frm[t])

\* unmap takes no entry away that map has just stored.
UnmapKept == \A t \in Threads : pc[t] = "unmap" => pte[heap_top - 1].frame \notin Mapping

NotLost == NoLeak /\ HeadsOK /\ StoringKept /\ UnmapKept

LeakInv == past \subseteq {"evicted"} => NotLost

\* An entry is what its frame and PTE_P are.
LEMMA MapsIs ==
    ASSUME PTypes, NEW v, NEW g
    PROVE  /\ pte[v] = [frame |-> g, p |-> TRUE] => Maps(v, g)
           /\ v \in VPages /\ Maps(v, g) => pte[v] = [frame |-> g, p |-> TRUE]
<1>1. pte[v] = [frame |-> g, p |-> TRUE] => Maps(v, g)
    BY DEF Maps
<1>2. ASSUME v \in VPages, Maps(v, g) PROVE pte[v] = [frame |-> g, p |-> TRUE]
    <2>1. PICK e \in Entries : e = pte[v]
        BY <1>2 DEF PTypes
    <2>2. e.p = TRUE /\ e.frame = g
        BY <1>2, <2>1 DEF Maps, Entries
    <2>3. e = [frame |-> g, p |-> TRUE]
        BY <2>1, <2>2 DEF Entries
    <2> QED  BY <2>1, <2>3
<1> QED  BY <1>1, <1>2

\* NoLeak, one frame at a time.
LEMMA Kept ==
    ASSUME FState, NoLeak, NEW g \in Pages, g \notin Mapping, ref[g] > 0, va[g] # None
    PROVE  va[g] \in VPages /\ Maps(va[g], g)
<1>1. va[g] \in VPages
    BY DEF FState, PTypes
<1>2. pte[va[g]] = [frame |-> g, p |-> TRUE]
    BY DEF NoLeak
<1> QED  BY <1>1, <1>2 DEF Maps

\* ... and the other way round after a step.
LEMMA NoLeakNext ==
    ASSUME PTypes',
           \A g \in Pages : g \notin Mapping' /\ ref'[g] > 0 /\ va'[g] # None => Maps(va[g], g)'
    PROVE  NoLeak'
<1>1. ASSUME NEW g \in Pages, g \notin Mapping', ref'[g] > 0, va'[g] # None
      PROVE  pte'[va'[g]] = [frame |-> g, p |-> TRUE]
    <2>1. PICK v : v = va'[g]
        OBVIOUS
    <2>2. v \in VPages
        BY <1>1, <2>1 DEF PTypes, VPages
    <2>3. pte'[v].p /\ pte'[v].frame = g
        BY <1>1, <2>1 DEF Maps
    <2>4. PICK e \in Entries : e = pte'[v]
        BY <2>2 DEF PTypes, VPages, Entries, Pages
    <2>5. e = [frame |-> g, p |-> TRUE]
        BY <2>3, <2>4 DEF Entries
    <2> QED  BY <2>1, <2>4, <2>5
<1> QED  BY <1>1 DEF NoLeak, Pages

LEMMA MappingStays ==
    ASSUME \A u \in Threads : Stays(u) \/ (~Having(u) /\ ~Having(u)')
    PROVE  /\ \A f : f \in Mapping' <=> f \in Mapping
           /\ \A u \in Threads : /\ Storing(u)' <=> Storing(u)
                                 /\ Having(u)' <=> Having(u)
                                 /\ Having(u) => Stays(u)
<1>1. ASSUME NEW u \in Threads
      PROVE  /\ Storing(u)' <=> Storing(u)
             /\ Having(u)' <=> Having(u)
             /\ Having(u) => Stays(u)
    <2>1. CASE Stays(u)
        BY <2>1, StaysSame
    <2>2. CASE ~Having(u) /\ ~Having(u)'
        BY <2>2 DEF Having
    <2> QED  BY <2>1, <2>2
<1>2. \A f : f \in Mapping' <=> \E u \in Threads : Storing(u)' /\ frm'[u] = f
    BY DEF Mapping, Storing
<1>3. ASSUME NEW u \in Threads, Storing(u) PROVE frm'[u] = frm[u]
    BY <1>1, <1>3 DEF Having, Stays
<1>4. ASSUME NEW f PROVE f \in Mapping' <=> f \in Mapping
    BY <1>1, <1>2, <1>3, MappingHas
<1> QED  BY <1>1, <1>4

\* StoringKept, when every thread stays that stores.
LEMMA StoringStays ==
    ASSUME NotLost, \A u \in Threads : Stays(u) \/ (~Having(u) /\ ~Having(u)'),
           \A u \in Threads : Storing(u) => pte'[Target(u)] = pte[Target(u)]
    PROVE  StoringKept'
<1>1. ASSUME NEW u \in Threads, Storing(u)'
      PROVE  Maps(Target(u), frm[u])'
    <2>1. Storing(u) /\ Stays(u)
        BY <1>1, MappingStays DEF Having
    <2>2. Target(u)' = Target(u) /\ frm'[u] = frm[u] /\ pte'[Target(u)] = pte[Target(u)]
        BY <2>1 DEF Stays
    <2>3. Maps(Target(u), frm[u])
        BY <2>1 DEF NotLost, StoringKept
    <2>4. Maps(Target(u), frm[u])' <=> pte'[Target(u)'].p /\ pte'[Target(u)'].frame = frm'[u]
        BY DEF Maps
    <2> QED  BY <2>2, <2>3, <2>4 DEF Maps
<1> QED  BY <1>1 DEF StoringKept

\* Steps that change no frame and no entry.
LEMMA QuietKept ==
    ASSUME NotLost, UNCHANGED <<ref, held, pte, va>>, UnmapKept',
           \A u \in Threads : Stays(u) \/ (~Having(u) /\ ~Having(u)')
    PROVE  NotLost'
<1>1. /\ \A f : f \in Mapping' <=> f \in Mapping
      /\ \A u \in Threads : /\ Having(u)' <=> Having(u)
                            /\ Having(u) => frm'[u] = frm[u]
    BY MappingStays DEF Stays
<1>2. NoLeak'
    BY <1>1 DEF NotLost, NoLeak, Pages
<1>3. HeadsOK'
    BY <1>1 DEF NotLost, HeadsOK
<1>4. StoringKept'
    BY StoringStays
<1> QED  BY <1>2, <1>3, <1>4 DEF NotLost

\* A thread without a frame moves; if it goes to unmap it is for a slab whose
\* frame no other thread is storing.
LEMMA MovesKept ==
    ASSUME FState, NotLost, NEW t \in Threads, ~Having(t), NEW l \in Empty, Goto(t, l),
           UNCHANGED <<ref, held, pte, va, slabs>>,
           \A u \in Threads \ {t} : at'[u] = at[u] /\ frm'[u] = frm[u],
           l = "unmap" => pte[heap_top - 1].frame \notin Mapping
    PROVE  NotLost'
<1>1. heap_top' = heap_top /\ l \in Places
    BY DEF heap_top, Empty
<1>2. pc'[t] = l /\ \A u \in Threads \ {t} : Stays(u)
    BY <1>1, OthersStay DEF FState
<1>3. ~Having(t)'
    BY <1>2 DEF Having, Fresh, Storing, Empty
<1>4. \A u \in Threads : Stays(u) \/ (~Having(u) /\ ~Having(u)')
    BY <1>2, <1>3
<1>5. \A f : f \in Mapping' <=> f \in Mapping
    BY <1>4, MappingStays
<1>6. UnmapKept'
    BY <1>1, <1>2, <1>5 DEF NotLost, UnmapKept, Stays
<1> QED  BY <1>4, <1>6, QuietKept

LEMMA StillKept ==
    ASSUME NotLost, UNCHANGED <<ref, held, pte, va, slabs, pc, at, frm>>
    PROVE  NotLost'
<1>1. heap_top' = heap_top
    BY DEF heap_top
<1>2. \A u \in Threads : Stays(u)
    BY <1>1 DEF Stays, Target
<1>3. \A f : f \in Mapping' <=> f \in Mapping
    BY <1>2, MappingStays
<1>4. UnmapKept'
    BY <1>1, <1>3 DEF NotLost, UnmapKept
<1> QED  BY <1>2, <1>4, QuietKept
LEMMA WalkKept ==
    ASSUME FState, NotLost, NEW t \in Threads,
           \/ \E v \in VPages : Touch(t, v)
           \/ Access(t) \/ do_pgfault(t) \/ map_swappable(t)
           \/ swap_out_victim(t) /\ t = Boot
    PROVE  NotLost'
<1>1. UNCHANGED <<ref, held, pte, va, slabs>> /\ pc[t] \in {"run", "access", "fault", "swappable"}
    BY DEF Touch, Access, do_pgfault, map_swappable, swap_out_victim, vars, mmVars
<1>2. UNCHANGED <<pc, at, frm>> \/ \E l \in {"run", "fault", "nested", "new", "swap_in", "access", "out"} : Goto(t, l)
    <2>1. Branch(getpte(at[t])) \in {"nested", "new", "swap_in"}
        BY DEF Branch
    <2> QED  BY <2>1 DEF Touch, Access, do_pgfault, map_swappable, swap_out_victim, Done
<1>3. /\ frm' = frm \/ \E g : frm' = [frm EXCEPT ![t] = g]
      /\ at' = at \/ \E g : at' = [at EXCEPT ![t] = g]
    BY DEF Touch, Access, do_pgfault, map_swappable, swap_out_victim, Done
<1>4. \A u \in Threads \ {t} : at'[u] = at[u] /\ frm'[u] = frm[u]
    BY <1>3 DEF FState, PTypes
<1>5. ~Having(t)
    BY <1>1, PlaceKinds
<1>6. CASE UNCHANGED <<pc, at, frm>>
    BY <1>1, <1>6, StillKept
<1>7. ASSUME NEW l \in {"run", "fault", "nested", "new", "swap_in", "access", "out"}, Goto(t, l)
      PROVE  NotLost'
    <2>1. l \in Empty /\ l # "unmap"
        BY DEF Empty, Places, Faulting, HeapPlaces
    <2> QED  BY <1>1, <1>4, <1>5, <1>7, <2>1, MovesKept
<1> QED  BY <1>2, <1>6, <1>7

LEMMA GetFrameKept ==
    ASSUME FState, NotLost, NEW t \in Threads, NEW from \in {"new", "swap_in", "run"},
           NEW to \in {"map", "slab"}, GetFrame(t, from, to), to = "slab" => t = Boot
    PROVE  NotLost'
<1>1. UNCHANGED <<pte, va, slabs, at>> /\ pc[t] = from /\ ~Having(t)
    BY PlaceKinds DEF GetFrame, mmVars, Having, Fresh, Storing
<1>2. CASE OutOfMemory /\ UNCHANGED <<pc, frm>>
    BY <1>1, <1>2, StillKept DEF OutOfMemory, AllocFails
<1>3. CASE alloc_buddy(1) /\ frm' = [frm EXCEPT ![t] = Got] /\ Goto(t, to) /\ UNCHANGED ref
    <2>1. PICK r : held' = held \cup {r} /\ Got = Head(r.pages)
        BY <1>3, AllocGives DEF FState
    <2>2. heap_top' = heap_top /\ to \in Places
        BY <1>1 DEF heap_top, Places, Faulting, HeapPlaces
    <2>3. frm'[t] = Got /\ \A u \in Threads \ {t} : at'[u] = at[u] /\ frm'[u] = frm[u]
        BY <1>1, <1>3 DEF FState, PTypes
    <2>4. pc'[t] = to /\ \A u \in Threads \ {t} : Stays(u)
        BY <1>3, <2>2, <2>3, OthersStay DEF FState
    <2>5. Having(t)' /\ ~Storing(t)' /\ ~Storing(t)
        BY <1>1, <2>4 DEF Having, Fresh, Storing
    <2>6. \A u \in Threads : /\ Storing(u)' => Storing(u) /\ Stays(u)
                             /\ Storing(u) => Storing(u)' /\ Stays(u)
                             /\ Having(u) => u # t /\ Having(u)' /\ frm'[u] = frm[u]
        <3>1. ASSUME NEW u \in Threads \ {t}
              PROVE  (Storing(u)' <=> Storing(u)) /\ (Having(u)' <=> Having(u)) /\ frm'[u] = frm[u]
            BY <2>4, StaysSame DEF Stays
        <3> QED  BY <1>1, <2>4, <2>5, <3>1
    <2>7. \A f : f \in Mapping' <=> f \in Mapping
        <3>1. \A f : f \in Mapping' <=> \E u \in Threads : Storing(u)' /\ frm'[u] = f
            BY DEF Mapping, Storing
        <3> QED  BY <2>6, <3>1, MappingHas DEF Stays
    <2>8. NoLeak'
        BY <1>1, <1>3, <2>7 DEF NotLost, NoLeak, Pages
    <2>9. ASSUME NEW b \in held', ref'[Head(b.pages)] = 0 /\ va'[Head(b.pages)] # None
          PROVE  \E u \in Threads : Having(u)' /\ frm'[u] = Head(b.pages)
        <3>1. CASE b = r
            BY <2>1, <2>3, <2>5, <3>1
        <3>2. CASE b # r
            <4>1. PICK u \in Threads : Having(u) /\ frm[u] = Head(b.pages)
                BY <1>1, <1>3, <2>1, <2>9, <3>2 DEF NotLost, HeadsOK
            <4> QED  BY <2>6, <4>1
        <3> QED  BY <3>1, <3>2
    <2>10. HeadsOK'
        BY <2>9 DEF HeadsOK
    <2>11. StoringKept'
        <3>1. ASSUME NEW u \in Threads, Storing(u)' PROVE Maps(Target(u), frm[u])'
            <4>1. Maps(Target(u), frm[u]) /\ Target(u)' = Target(u) /\ frm'[u] = frm[u]
                BY <2>6, <3>1 DEF NotLost, StoringKept, Stays
            <4>2. Maps(Target(u), frm[u])' <=> pte'[Target(u)'].p /\ pte'[Target(u)'].frame = frm'[u]
                BY DEF Maps
            <4> QED  BY <1>1, <4>1, <4>2 DEF Maps
        <3> QED  BY <3>1 DEF StoringKept
    <2>12. UnmapKept'
        <3>1. \A u \in Threads : pc'[u] = "unmap" => pc[u] = "unmap"
            BY <2>4 DEF Stays
        <3> QED  BY <1>1, <2>2, <2>7, <3>1 DEF NotLost, UnmapKept
    <2> QED  BY <2>8, <2>10, <2>11, <2>12 DEF NotLost
<1> QED  BY <1>2, <1>3 DEF GetFrame

LEMMA Stored == ASSUME NEW u, Storing(u) PROVE Having(u)
BY DEF Having

\* Where a thread maps its frame.
LEMMA TargetIn ==
    ASSUME FState, NEW u \in Threads, Having(u)
    PROVE  Target(u) \in VPages
<1>1. CASE pc[u] \in SlabPlaces
    <2>1. slabs \in Seq(Pages) /\ heap_top < MaxSlabs
        BY <1>1 DEF FState, PTypes
    <2>2. PICK n : n = Len(slabs) /\ n \in Nat
        BY <2>1, LenProperties
    <2>3. MaxSlabs \in Nat /\ NV \in Nat /\ MaxSlabs <= NV /\ n < MaxSlabs
        BY <2>1, <2>2, PagingAssumption DEF heap_top
    <2>4. n \in 0 .. NV - 1
        BY <2>2, <2>3
    <2> QED  BY <1>1, <2>2, <2>4 DEF Target, VPages, heap_top
<1>2. CASE pc[u] \notin SlabPlaces
    <2>1. pc[u] \in Faulting
        BY <1>2 DEF Having, Fresh, Storing, SlabPlaces, Faulting
    <2> QED  BY <1>2, <2>1 DEF FState, PTypes, Target
<1> QED  BY <1>1, <1>2

\* map stores the entry, and the page was not present.
LEMMA EntryKept ==
    ASSUME FState, NotLost, NEW t \in Threads, Fresh(t), NEW v \in VPages, v = Target(t),
           NEW l \in {"count", "slab count"}, l = "slab count" <=> pc[t] = "slab",
           StoreEntry(t, v, l), "over" \notin past'
    PROVE  NotLost'
<1>1. PICK f : f = frm[t]
    OBVIOUS
<1>2. /\ Having(t) /\ ~Storing(t) /\ f \in InHands /\ f \in Pages
      /\ ref[f] = 0 /\ \A w \in VPages : ~Maps(w, f)
    <2>1. Having(t) /\ ~Storing(t) /\ ~Counted(t)
        BY DEF Having, Fresh, Storing, Counted
    <2> QED  BY <1>1, <2>1, HandsPages DEF FState, FreshOK, FrameOK
<1>3. /\ UNCHANGED <<ref, held, va, slabs, at, frm>> /\ Goto(t, l) /\ ~pte[v].p
      /\ pte' = [pte EXCEPT ![v] = [frame |-> f, p |-> TRUE]]
    BY <1>1 DEF StoreEntry, vars
<1>4. /\ pte'[v] = [frame |-> f, p |-> TRUE] /\ \A w \in VPages \ {v} : pte'[w] = pte[w]
      /\ DOMAIN pte = VPages
    BY <1>3 DEF FState, PTypes
<1>5. heap_top' = heap_top /\ l \in Places
    BY <1>3 DEF heap_top, Places, Faulting, HeapPlaces
<1>6. pc'[t] = l /\ \A u \in Threads \ {t} : Stays(u)
    BY <1>3, <1>5, OthersStay DEF FState
<1>7. Having(t)' /\ Storing(t)' /\ Target(t)' = v
    <2>1. Having(t)' /\ Storing(t)'
        BY <1>6 DEF Having, Storing
    <2>2. pc'[t] \in SlabPlaces <=> pc[t] \in SlabPlaces
        BY <1>6 DEF Fresh, SlabPlaces
    <2> QED  BY <1>3, <1>5, <2>1, <2>2 DEF Target
<1>8. \A u \in Threads \ {t} : (Storing(u)' <=> Storing(u)) /\ (Having(u)' <=> Having(u)) /\ frm'[u] = frm[u]
    BY <1>6, StaysSame DEF Stays
<1>9. \A g : g \in Mapping' <=> g \in Mapping \/ g = f
    <2>1. \A g : g \in Mapping' <=> \E u \in Threads : Storing(u)' /\ frm'[u] = g
        BY DEF Mapping, Storing
    <2> QED  BY <1>1, <1>2, <1>3, <1>7, <1>8, <2>1, MappingHas
<1>10. NoLeak'
    <2>1. ASSUME NEW g \in Pages, g \notin Mapping', ref'[g] > 0, va'[g] # None
          PROVE  Maps(va[g], g)'
        <3>1. va[g] \in VPages /\ Maps(va[g], g)
            BY <1>3, <1>9, <2>1, Kept DEF NotLost
        <3>2. va[g] # v
            BY <1>3, <3>1 DEF Maps
        <3>3. pte'[va'[g]] = pte[va[g]]
            BY <1>3, <1>4, <3>1, <3>2
        <3> QED  BY <3>1, <3>3 DEF Maps
    <2>2. PTypes'
        BY EntryStep DEF FState
    <2> QED  BY <2>1, <2>2, NoLeakNext
<1>11. HeadsOK'
    <2>1. ASSUME NEW b \in held', ref'[Head(b.pages)] = 0, va'[Head(b.pages)] # None
          PROVE  \E u \in Threads : Having(u)' /\ frm'[u] = Head(b.pages)
        <3>1. PICK u \in Threads : Having(u) /\ frm[u] = Head(b.pages)
            BY <1>3, <2>1 DEF NotLost, HeadsOK
        <3> QED  BY <1>3, <1>7, <1>8, <3>1
    <2> QED  BY <2>1 DEF HeadsOK
<1>12. StoringKept'
    <2>1. ASSUME NEW u \in Threads, Storing(u)' PROVE Maps(Target(u), frm[u])'
        <3>1. CASE u = t
            BY <1>1, <1>3, <1>4, <1>7, <3>1 DEF Maps
        <3>2. CASE u # t
            <4>1. Maps(Target(u), frm[u]) /\ Target(u)' = Target(u) /\ frm'[u] = frm[u] /\ Storing(u)
                BY <1>6, <1>8, <2>1, <3>2 DEF NotLost, StoringKept, Stays
            <4>2. pte'[Target(u)] = pte[Target(u)]
                <5>1. Target(u) \in VPages
                    BY <4>1, TargetIn, Stored
                <5>2. Target(u) # v
                    BY <1>3, <4>1 DEF Maps
                <5> QED  BY <1>4, <5>1, <5>2
            <4>3. Maps(Target(u), frm[u])' <=> pte'[Target(u)'].p /\ pte'[Target(u)'].frame = frm'[u]
                BY DEF Maps
            <4> QED  BY <4>1, <4>2, <4>3 DEF Maps
        <3> QED  BY <3>1, <3>2
    <2> QED  BY <2>1 DEF StoringKept
<1>13. UnmapKept'
    <2>1. ASSUME NEW u \in Threads, pc'[u] = "unmap"
          PROVE  pte'[heap_top'- 1].frame \notin Mapping'
        <3>1. pc[u] = "unmap"
            BY <1>6, <2>1 DEF Stays
        <3>2. PICK w : w = heap_top - 1 /\ w \in VPages
            BY <3>1, LastPage DEF FState, UnmapOK
        <3>3. pte[w].p /\ pte[w].frame \notin Mapping
            BY <3>1, <3>2 DEF FState, UnmapOK, NotLost, UnmapKept
        <3>4. pte'[w] = pte[w] /\ pte[w].frame # f
            BY <1>2, <1>3, <1>4, <3>2, <3>3 DEF Maps
        <3> QED  BY <1>5, <1>9, <3>2, <3>3, <3>4
    <2> QED  BY <2>1 DEF UnmapKept
<1> QED  BY <1>10, <1>11, <1>12, <1>13 DEF NotLost
\* map counts the frame.
LEMMA CountKept ==
    ASSUME FState, NotLost, NEW t \in Threads, pc[t] \in {"count", "slab count"},
           NEW l \in {"address", "slab address"}, l = "slab address" <=> pc[t] = "slab count",
           StoreCount(t, l)
    PROVE  NotLost'
<1>1. PICK f : f = frm[t]
    OBVIOUS
<1>2. /\ Having(t) /\ Storing(t) /\ f \in Pages /\ ref[f] = 0 /\ ref \in [Pages -> Nat]
    <2>1. Having(t) /\ Storing(t) /\ ~Counted(t)
        BY DEF Having, Storing, Counted
    <2> QED  BY <1>1, <2>1, HandsPages DEF FState, FreshOK, FrameOK
<1>3. /\ UNCHANGED <<held, pte, va, slabs, at, frm>> /\ Goto(t, l)
      /\ ref' = [ref EXCEPT ![f] = @ + 1]
    BY <1>1 DEF StoreCount, mmVars
<1>4. \A p \in Pages \ {f} : ref'[p] = ref[p]
    BY <1>2, <1>3, CountUp
<1>5. heap_top' = heap_top /\ l \in Places
    BY <1>3 DEF heap_top, Places, Faulting, HeapPlaces
<1>6. pc'[t] = l /\ \A u \in Threads \ {t} : Stays(u)
    BY <1>3, <1>5, OthersStay DEF FState
<1>7. Having(t)' /\ Storing(t)' /\ Target(t)' = Target(t)
    <2>1. Having(t)' /\ Storing(t)'
        BY <1>6 DEF Having, Storing
    <2>2. pc'[t] \in SlabPlaces <=> pc[t] \in SlabPlaces
        BY <1>6 DEF SlabPlaces
    <2> QED  BY <1>3, <1>5, <2>1, <2>2 DEF Target
<1>8. \A u \in Threads : (Storing(u)' <=> Storing(u)) /\ (Having(u)' <=> Having(u))
                         /\ frm'[u] = frm[u] /\ Target(u)' = Target(u)
    BY <1>2, <1>3, <1>6, <1>7, StaysSame DEF Stays
<1>9. \A g : g \in Mapping' <=> g \in Mapping
    <2>1. \A g : g \in Mapping' <=> \E u \in Threads : Storing(u)' /\ frm'[u] = g
        BY DEF Mapping, Storing
    <2> QED  BY <1>8, <2>1, MappingHas
<1>10. NoLeak'
    <2>1. ASSUME NEW g \in Pages, g \notin Mapping', ref'[g] > 0, va'[g] # None
          PROVE  Maps(va[g], g)'
        <3>1. g # f
            BY <1>1, <1>2, <1>9, <2>1, MappingHas
        <3>2. Maps(va[g], g)
            BY <1>3, <1>4, <1>9, <2>1, <3>1, Kept DEF NotLost
        <3> QED  BY <1>3, <3>2 DEF Maps
    <2>2. PTypes'
        BY StoreCountFrames DEF FState
    <2> QED  BY <2>1, <2>2, NoLeakNext
<1>11. HeadsOK'
    <2>1. ASSUME NEW b \in held', ref'[Head(b.pages)] = 0, va'[Head(b.pages)] # None
          PROVE  \E u \in Threads : Having(u)' /\ frm'[u] = Head(b.pages)
        <3>1. CASE Head(b.pages) = f
            BY <1>1, <1>3, <1>7, <3>1
        <3>2. CASE Head(b.pages) # f
            <4>1. Head(b.pages) \in Pages
                BY <1>3, <2>1, HeadHeld DEF FState
            <4>2. PICK u \in Threads : Having(u) /\ frm[u] = Head(b.pages)
                BY <1>3, <1>4, <2>1, <3>2, <4>1 DEF NotLost, HeadsOK
            <4> QED  BY <1>8, <4>2
        <3> QED  BY <3>1, <3>2
    <2> QED  BY <2>1 DEF HeadsOK
<1>12. StoringKept'
    <2>1. ASSUME NEW u \in Threads, Storing(u)' PROVE Maps(Target(u), frm[u])'
        <3>1. Maps(Target(u), frm[u])
            BY <1>8, <2>1 DEF NotLost, StoringKept
        <3>2. Maps(Target(u), frm[u])' <=> pte'[Target(u)'].p /\ pte'[Target(u)'].frame = frm'[u]
            BY DEF Maps
        <3> QED  BY <1>3, <1>8, <3>1, <3>2 DEF Maps
    <2> QED  BY <2>1 DEF StoringKept
<1>13. UnmapKept'
    <2>1. \A u \in Threads : pc'[u] = "unmap" => pc[u] = "unmap"
        BY <1>6 DEF Stays
    <2> QED  BY <1>3, <1>5, <1>9, <2>1 DEF NotLost, UnmapKept
<1> QED  BY <1>10, <1>11, <1>12, <1>13 DEF NotLost

\* The last store of map: the frame knows the address at which it is mapped.
LEMMA AddressKept ==
    ASSUME FState, NotLost, NEW t \in Threads, Counted(t), NEW v \in VPages, v = Target(t),
           StoreAddress(t, v), PTypes', ~Having(t)', pc'[t] # "unmap",
           \A u \in Threads \ {t} : Stays(u),
           slabs' = slabs \/ \A u \in Threads : pc[u] # "unmap"
    PROVE  NotLost'
<1>1. PICK f : f = frm[t]
    OBVIOUS
<1>2. Having(t) /\ Storing(t) /\ f \in Pages /\ Maps(v, f)
    <2>1. Having(t) /\ Storing(t)
        BY DEF Having, Storing, Counted
    <2> QED  BY <1>1, <2>1, HandsPages DEF FState, FreshOK, FrameOK, NotLost, StoringKept
<1>3. ref[f] = 1
    BY <1>1, <1>2 DEF FState, FreshOK, FrameOK
<1>4. UNCHANGED <<ref, held, pte>> /\ va' = [va EXCEPT ![f] = v]
    BY <1>1 DEF StoreAddress, vars
<1>5. va'[f] = v /\ \A p \in Pages \ {f} : va'[p] = va[p]
    BY <1>2, <1>4 DEF FState, PTypes
<1>6. ~Storing(t)'
    BY DEF Having
<1>7. \A u \in Threads \ {t} : (Storing(u)' <=> Storing(u)) /\ (Having(u)' <=> Having(u))
                               /\ frm'[u] = frm[u] /\ Target(u)' = Target(u) /\ pc'[u] = pc[u]
    BY StaysSame DEF Stays
<1>8. \A g : g \in Mapping' => g \in Mapping
    <2>1. \A g : g \in Mapping' => \E u \in Threads : Storing(u)' /\ frm'[u] = g
        BY DEF Mapping, Storing
    <2> QED  BY <1>6, <1>7, <2>1, MappingHas
<1>9. \A g : g \in Mapping => g = f \/ g \in Mapping'
    <2>1. \A g : g \in Mapping' <=> \E u \in Threads : Storing(u)' /\ frm'[u] = g
        BY DEF Mapping, Storing
    <2> QED  BY <1>1, <1>7, <2>1, MappingHas
<1>10. NoLeak'
    <2>1. ASSUME NEW g \in Pages, g \notin Mapping', ref'[g] > 0, va'[g] # None
          PROVE  Maps(va[g], g)'
        <3>1. CASE g = f
            BY <1>2, <1>4, <1>5, <3>1 DEF Maps
        <3>2. CASE g # f
            <4>1. Maps(va[g], g)
                BY <1>4, <1>5, <1>9, <2>1, <3>2, Kept DEF NotLost
            <4> QED  BY <1>4, <1>5, <3>2, <4>1 DEF Maps
        <3> QED  BY <3>1, <3>2
    <2> QED  BY <2>1, NoLeakNext
<1>11. HeadsOK'
    <2>1. ASSUME NEW b \in held', ref'[Head(b.pages)] = 0, va'[Head(b.pages)] # None
          PROVE  \E u \in Threads : Having(u)' /\ frm'[u] = Head(b.pages)
        <3>1. Head(b.pages) \in Pages /\ Head(b.pages) # f
            BY <1>3, <1>4, <2>1, HeadHeld DEF FState
        <3>2. PICK u \in Threads : Having(u) /\ frm[u] = Head(b.pages)
            BY <1>4, <1>5, <2>1, <3>1 DEF NotLost, HeadsOK
        <3> QED  BY <1>1, <1>7, <3>1, <3>2
    <2> QED  BY <2>1 DEF HeadsOK
<1>12. StoringKept'
    <2>1. ASSUME NEW u \in Threads, Storing(u)' PROVE Maps(Target(u), frm[u])'
        <3>1. Maps(Target(u), frm[u]) /\ frm'[u] = frm[u] /\ Target(u)' = Target(u)
            BY <1>6, <1>7, <2>1 DEF NotLost, StoringKept
        <3>2. Maps(Target(u), frm[u])' <=> pte'[Target(u)'].p /\ pte'[Target(u)'].frame = frm'[u]
            BY DEF Maps
        <3> QED  BY <1>4, <3>1, <3>2 DEF Maps
    <2> QED  BY <2>1 DEF StoringKept
<1>13. UnmapKept'
    <2>1. \A u \in Threads : pc'[u] = "unmap" => pc[u] = "unmap"
        BY <1>7
    <2>2. CASE slabs' = slabs
        <3>1. heap_top' = heap_top
            BY <2>2 DEF heap_top
        <3> QED  BY <1>4, <1>8, <2>1, <3>1 DEF NotLost, UnmapKept
    <2>3. CASE \A u \in Threads : pc[u] # "unmap"
        BY <2>1, <2>3 DEF UnmapKept
    <2> QED  BY <2>2, <2>3
<1> QED  BY <1>10, <1>11, <1>12, <1>13 DEF NotLost
LEMMA MapKept ==
    ASSUME FState, FState', NotLost, NEW t \in Threads, map(t), "over" \notin past'
    PROVE  NotLost'
<1>1. pc[t] \in {"map", "count", "address"}
    BY DEF map
<1>2. PICK v \in VPages : v = at[t] /\ Target(t) = v
    BY <1>1 DEF FState, PTypes, Faulting, Target, SlabPlaces
<1>3. CASE pc[t] = "map" /\ StoreEntry(t, at[t], "count")
    <2>1. PICK l \in {"count", "slab count"} : l = "count"
        OBVIOUS
    <2>2. (l = "slab count" <=> pc[t] = "slab") /\ StoreEntry(t, v, l) /\ Fresh(t)
        BY <1>2, <1>3, <2>1 DEF Fresh
    <2> QED  BY <1>2, <2>2, EntryKept
<1>4. CASE pc[t] = "count" /\ StoreCount(t, "address")
    <2>1. PICK l \in {"address", "slab address"} : l = "address"
        OBVIOUS
    <2>2. /\ l = "slab address" <=> pc[t] = "slab count"
          /\ StoreCount(t, l) /\ pc[t] \in {"count", "slab count"}
        BY <1>4, <2>1
    <2> QED  BY <2>2, CountKept
<1>5. CASE /\ pc[t] = "address" /\ StoreAddress(t, at[t])
           /\ Goto(t, "swappable") /\ UNCHANGED <<slabs, at, frm>>
    <2>1. Counted(t) /\ StoreAddress(t, v) /\ heap_top' = heap_top
        BY <1>2, <1>5 DEF Counted, heap_top
    <2>2. pc'[t] = "swappable" /\ \A u \in Threads \ {t} : Stays(u)
        <3>1. "swappable" \in Places
            BY DEF Places, Faulting
        <3> QED  BY <1>5, <2>1, <3>1, OthersStay DEF FState
    <2>3. ~Having(t)' /\ pc'[t] # "unmap"
        BY <2>2 DEF Having, Fresh, Storing
    <2> QED  BY <1>2, <1>5, <2>1, <2>2, <2>3, AddressKept DEF FState
<1> QED  BY <1>3, <1>4, <1>5 DEF map

\* A page table is a block of its own, without an address.
LEMMA TableKept ==
    ASSUME FState, NotLost, alloc_buddy(1), ref' = [ref EXCEPT ![Got] = @ + 1],
           va' = [va EXCEPT ![Got] = None], UNCHANGED <<pte, pc, frm, at, slabs>>
    PROVE  NotLost'
<1>1. PICK g, r : g = Got /\ held' = held \cup {r} /\ g = Head(r.pages) /\ g \in Pages
                  /\ g \notin InHands
    BY AllocGives DEF FState
<1>2. ref \in [Pages -> Nat] /\ InHands \subseteq Pages /\ ref[g] = 0
    BY <1>1, HandsPages DEF FState, MappedHeld
<1>3. ref' = [ref EXCEPT ![g] = @ + 1] /\ va' = [va EXCEPT ![g] = None]
    BY <1>1
<1>4. va'[g] = None /\ \A p \in Pages \ {g} : ref'[p] = ref[p] /\ va'[p] = va[p]
    BY <1>1, <1>2, <1>3, CountUp DEF FState, PTypes
<1>5. ref'[g] = 1
    BY <1>1, <1>2, <1>3, CountUp
<1>6. heap_top' = heap_top
    BY DEF heap_top
<1>7. \A u \in Threads : Stays(u)
    BY <1>6 DEF Stays, Target
<1>8. \A f : f \in Mapping' <=> f \in Mapping
    BY <1>7, MappingStays
<1>9. NoLeak'
    BY <1>4, <1>8 DEF NotLost, NoLeak, Pages
<1>10. HeadsOK'
    <2>1. ASSUME NEW b \in held', ref'[Head(b.pages)] = 0, va'[Head(b.pages)] # None
          PROVE  \E u \in Threads : Having(u)' /\ frm'[u] = Head(b.pages)
        <3>1. b \in held
            BY <1>1, <1>5, <2>1
        <3>2. Head(b.pages) \in InHands /\ Head(b.pages) \in Pages /\ Head(b.pages) # g
            BY <1>1, <3>1, HeadHeld DEF FState
        <3>3. PICK u \in Threads : Having(u) /\ frm[u] = Head(b.pages)
            BY <1>4, <2>1, <3>1, <3>2 DEF NotLost, HeadsOK
        <3> QED  BY <3>3, <1>7, StaysSame
    <2> QED  BY <2>1 DEF HeadsOK
<1>11. StoringKept'
    BY <1>7, StoringStays
<1>12. UnmapKept'
    BY <1>6, <1>8 DEF NotLost, UnmapKept
<1> QED  BY <1>9, <1>10, <1>11, <1>12 DEF NotLost

LEMMA SlabKept ==
    ASSUME FState, FState', NotLost, NEW t \in Threads, map_slab(t),
           "over" \notin past', "raced" \notin past'
    PROVE  NotLost'
<1>1. PICK v : v = heap_top /\ map_slab_at(t, v)
    BY DEF map_slab
<1>2. pc[t] \in SlabPlaces
    BY <1>1 DEF map_slab_at, SlabPlaces
<1>3. t = Boot /\ Having(t) /\ Target(t) = v
    BY <1>1, <1>2, PlaceKinds DEF FState, PTypes, Target
<1>4. v \in VPages
    BY <1>3, TargetIn
<1>5. CASE pc[t] = "slab" /\ StoreEntry(t, v, "slab count")
    <2>1. PICK l \in {"count", "slab count"} : l = "slab count"
        OBVIOUS
    <2>2. (l = "slab count" <=> pc[t] = "slab") /\ StoreEntry(t, v, l) /\ Fresh(t)
        BY <1>5, <2>1 DEF Fresh
    <2> QED  BY <1>3, <1>4, <2>2, EntryKept
<1>6. CASE pc[t] = "slab count" /\ StoreCount(t, "slab address")
    <2>1. PICK l \in {"address", "slab address"} : l = "slab address"
        OBVIOUS
    <2>2. /\ l = "slab address" <=> pc[t] = "slab count"
          /\ StoreCount(t, l) /\ pc[t] \in {"count", "slab count"}
        BY <1>6, <2>1
    <2> QED  BY <2>2, CountKept
<1>7. CASE /\ pc[t] = "slab address" /\ StoreAddress(t, v) /\ Done(t)
           /\ slabs' = Append(slabs, frm[t])
    <2>1. Counted(t)
        BY <1>7 DEF Counted
    <2>2. \A u \in Threads : pc[u] # "unmap"
        BY <1>3, <1>7 DEF FState, PTypes, HeapPlaces
    <2>3. /\ Goto(t, "run") /\ \A u \in Threads \ {t} : at'[u] = at[u] /\ frm'[u] = frm[u]
        BY <1>7, DoneMoves DEF FState
    <2>4. pc'[t] = "run" /\ \A u \in Threads \ {t} : Stays(u)
        <3>1. "run" \in Places
            BY DEF Places
        <3> QED  BY <1>3, <2>3, <3>1, OthersStay DEF FState
    <2>5. ~Having(t)' /\ pc'[t] # "unmap"
        BY <2>4 DEF Having, Fresh, Storing
    <2> QED  BY <1>3, <1>4, <1>7, <2>1, <2>2, <2>4, <2>5, AddressKept DEF FState
<1>8. CASE /\ UNCHANGED <<pte, slabs, at, link, clock, cached>>
           /\ NewTable(v) /\ UNCHANGED <<pc, frm, past>>
    <2>1. /\ alloc_buddy(1) /\ ref' = [ref EXCEPT ![Got] = @ + 1]
          /\ va' = [va EXCEPT ![Got] = None]
        BY <1>8 DEF NewTable
    <2> QED  BY <1>8, <2>1, TableKept
<1>9. CASE /\ UNCHANGED <<pte, slabs, at, link, clock, cached>>
           /\ OutOfMemory /\ UNCHANGED <<tables, va, pc, frm, past>>
    <2>1. UNCHANGED <<ref, held>>
        BY <1>9 DEF OutOfMemory, AllocFails
    <2> QED  BY <1>9, <2>1, StillKept
<1> QED  BY <1>1, <1>5, <1>6, <1>7, <1>8, <1>9 DEF map_slab_at
\* swap_out gives its victim back, and nobody else is in a fault: the victim's
\* address is the one that maps it.
LEMMA OutKept ==
    ASSUME FState, FState', NotLost, NEW t \in Threads, swap_out(t), past' \subseteq {"evicted"}
    PROVE  NotLost'
<1>1. PICK f, v : f = frm[t] /\ v = va[f]
    OBVIOUS
<1>2. pc[t] = "out" /\ Done(t) /\ UNCHANGED <<va, slabs>>
    BY DEF swap_out, swap_out_as
<1>3. /\ Goto(t, "run") /\ \A u \in Threads \ {t} : at'[u] = at[u] /\ frm'[u] = frm[u]
    BY <1>2, DoneMoves DEF FState
<1>4. ~Having(t) /\ "run" \in Empty
    BY <1>2, PlaceKinds DEF Empty, Places
<1>5. CASE UNCHANGED <<vars, pte>>
    BY <1>2, <1>3, <1>4, <1>5, MovesKept DEF vars
<1>6. CASE ~ UNCHANGED <<vars, pte>>
    <2>1. /\ v # None /\ pte' = [pte EXCEPT ![v].p = FALSE]
          /\ ref' = [ref EXCEPT ![f] = IF @ > 0 THEN @ - 1 ELSE @]
          /\ free_pages(f, ref')
          /\ past' = past \cup Crossing(t) \cup {IF held' = held THEN "refused" ELSE "evicted"}
        BY <1>1, <1>6 DEF swap_out, swap_out_as
    <2>2. Crossing(t) = {} /\ held' # held
        BY <2>1 DEF Crossing
    <2>3. \A u \in Threads \ {t} : pc[u] = "run"
        BY <2>2 DEF Crossing
    <2>4. \A u \in Threads : ~Having(u)
        BY <1>4, <2>3, PlaceKinds
    <2>5. pc'[t] = "run" /\ \A u \in Threads \ {t} : pc'[u] = "run"
        BY <1>3, <2>3 DEF FState, PTypes, Goto
    <2>6. \A u \in Threads : ~Having(u)' /\ ~Storing(u)' /\ pc'[u] # "unmap"
        BY <2>5 DEF Having, Fresh, Storing
    <2>7. PICK b \in held : held' = held \ {b} /\ Head(b.pages) = f
                            /\ \A k \in DOMAIN b.pages : ~ (ref'[b.pages[k]] > 0)
        BY <2>1, <2>2, FreePages DEF FState
    <2>8. /\ f \in Pages /\ ref \in [Pages -> Nat] /\ ~ (ref'[f] > 0) /\ f \in ToSet(b.pages)
          /\ \A p \in Pages \ {f} : ref'[p] = ref[p]
        <3>1. b.pages[1] = f /\ 1 \in DOMAIN b.pages /\ f \in Pages /\ f \in ToSet(b.pages)
            BY <2>7, HeadHeld DEF FState
        <3> QED  BY <2>1, <2>7, <3>1, HandsPages, CountDown DEF FState
    <2>9. ref[f] > 0
        <3>1. ref[f] # 0
            BY <1>1, <2>1, <2>4, <2>7 DEF NotLost, HeadsOK
        <3> QED  BY <2>8, <3>1
    <2>10. \A g : g \notin Mapping
        BY <2>4, NobodyMaps
    <2>11. v \in VPages /\ Maps(v, f)
        BY <1>1, <2>1, <2>8, <2>9, <2>10, Kept DEF NotLost
    <2>12. NoLeak'
        <3>1. ASSUME NEW g \in Pages, g \notin Mapping', ref'[g] > 0, va'[g] # None
              PROVE  Maps(va[g], g)'
            <4>1. g # f /\ ref[g] > 0 /\ va'[g] = va[g]
                BY <1>2, <2>8, <3>1
            <4>2. va[g] \in VPages /\ Maps(va[g], g)
                BY <2>10, <3>1, <4>1, Kept DEF NotLost
            <4>3. va[g] # v
                BY <2>11, <4>1, <4>2 DEF Maps
            <4>4. pte'[va[g]] = pte[va[g]]
                BY <2>1, <4>2, <4>3 DEF FState, PTypes
            <4>5. Maps(va[g], g)' <=> pte'[va'[g]].p /\ pte'[va'[g]].frame = g
                BY DEF Maps
            <4> QED  BY <4>1, <4>2, <4>4, <4>5 DEF Maps
        <3> QED  BY <3>1, NoLeakNext DEF FState
    <2>13. HeadsOK'
        <3>1. ASSUME NEW c \in held', ref'[Head(c.pages)] = 0, va'[Head(c.pages)] # None
              PROVE  FALSE
            <4>1. c \in held /\ c # b
                BY <2>7, <3>1
            <4>2. Head(c.pages) \in ToSet(c.pages) /\ Head(c.pages) \in Pages
                BY <4>1, HeadHeld DEF FState
            <4>3. Head(c.pages) # f
                BY <2>8, <4>1, <4>2 DEF FState, BInv, HeldInv, Apart
            <4>4. ref[Head(c.pages)] = 0 /\ va[Head(c.pages)] # None
                BY <1>2, <2>8, <3>1, <4>2, <4>3
            <4> QED  BY <2>4, <4>1, <4>4 DEF NotLost, HeadsOK
        <3> QED  BY <3>1 DEF HeadsOK
    <2>14. StoringKept' /\ UnmapKept'
        BY <2>6 DEF StoringKept, UnmapKept
    <2> QED  BY <2>12, <2>13, <2>14 DEF NotLost
<1> QED  BY <1>5, <1>6

\* free_buddy refuses the frame of the last slab.
LEMMA FreeSlabKept ==
    ASSUME FState, FState', NotLost, NEW t \in Threads, t = Boot, _check_free_buddy(t), Undisturbed'
    PROVE  NotLost'
<1>1. PICK f : f = Last(slabs)
    OBVIOUS
<1>2. /\ pc[t] = "run" /\ slabs # <<>> /\ free_pages(f, ref) /\ Goto(t, "unmap")
      /\ pte[heap_top - 1] = [frame |-> f, p |-> TRUE]
      /\ UNCHANGED <<ref, pte, va, slabs, at, frm>>
    BY <1>1 DEF _check_free_buddy, mmVars
<1>3. f \notin Mapping
    BY <1>1 DEF _check_free_buddy, Undisturbed
<1>4. held' = held
    <2>1. PICK v \in VPages : v = heap_top - 1
        BY <1>2, LastPage
    <2>2. pte[v].p /\ pte[v].frame = f
        BY <1>2, <2>1
    <2>3. ref[f] = 1
        BY <1>3, <2>2 DEF FState, EntriesOK, EntryOK
    <2>4. ASSUME NEW b \in held, Head(b.pages) = f, \A k \in DOMAIN b.pages : ~ (ref[b.pages[k]] > 0)
          PROVE  FALSE
        <3>1. b.pages[1] = f /\ 1 \in DOMAIN b.pages
            BY <2>4, HeadHeld DEF FState
        <3> QED  BY <2>3, <2>4, <3>1
    <2> QED  BY <1>2, <2>4, FreePages DEF FState
<1>5. pte[heap_top - 1].frame \notin Mapping
    BY <1>2, <1>3
<1>6. ~Having(t) /\ "unmap" \in Empty
    BY <1>2, PlaceKinds DEF Empty, Places, HeapPlaces
<1> QED  BY <1>2, <1>4, <1>5, <1>6, MovesKept

\* unmap takes the entry, the count and the address of a slab's frame together.
LEMMA UnmapSlabKept ==
    ASSUME FState, FState', NotLost, NEW t \in Threads, unmap_slab(t)
    PROVE  NotLost'
<1>1. /\ pc[t] = "unmap" /\ unmap(heap_top - 1) /\ Goto(t, "run")
      /\ UNCHANGED <<held, at, frm>>
    BY DEF unmap_slab
<1>2. t = Boot /\ ~Having(t) /\ slabs # <<>> /\ pte[heap_top - 1].p
    BY <1>1, PlaceKinds DEF FState, PTypes, HeapPlaces, UnmapOK
<1>3. PICK v \in VPages : v = heap_top - 1
    BY <1>2, LastPage
<1>4. PICK f : f = pte[v].frame
    OBVIOUS
<1>5. /\ pte' = [pte EXCEPT ![v] = Zero] /\ va' = [va EXCEPT ![f] = None]
      /\ ref' = [ref EXCEPT ![f] = IF @ > 0 THEN @ - 1 ELSE @]
    BY <1>1, <1>3, <1>4 DEF unmap
<1>6. f \in Pages /\ f \notin Mapping /\ Maps(v, f) /\ ref \in [Pages -> Nat]
    <2>1. f \in Pages /\ ref \in [Pages -> Nat]
        BY <1>2, <1>3, <1>4, HandsPages DEF FState, EntriesOK, EntryOK
    <2> QED  BY <1>1, <1>2, <1>3, <1>4, <2>1 DEF NotLost, UnmapKept, Maps
<1>7. /\ va'[f] = None
      /\ \A p \in Pages \ {f} : ref'[p] = ref[p] /\ va'[p] = va[p]
      /\ \A w \in VPages \ {v} : pte'[w] = pte[w]
    BY <1>5, <1>6, CountDown DEF FState, PTypes
<1>8. pc'[t] = "run" /\ \A u \in Threads \ {t} : Stays(u)
    <2>1. "run" \in Places /\ (heap_top' = heap_top \/ t = Boot)
        BY <1>2 DEF Places
    <2> QED  BY <1>1, <2>1, OthersStay DEF FState
<1>9. ~Having(t)'
    BY <1>8 DEF Having, Fresh, Storing
<1>10. \A u \in Threads : Stays(u) \/ (~Having(u) /\ ~Having(u)')
    BY <1>2, <1>8, <1>9
<1>11. /\ \A g : g \in Mapping' <=> g \in Mapping
       /\ \A u \in Threads : Having(u) => Having(u)' /\ frm'[u] = frm[u]
    BY <1>10, MappingStays DEF Stays
<1>12. NoLeak'
    <2>1. ASSUME NEW g \in Pages, g \notin Mapping', ref'[g] > 0, va'[g] # None
          PROVE  Maps(va[g], g)'
        <3>1. g # f /\ ref[g] > 0 /\ va'[g] = va[g]
            BY <1>7, <2>1
        <3>2. va[g] \in VPages /\ Maps(va[g], g)
            BY <1>11, <2>1, <3>1, Kept DEF NotLost
        <3>3. va[g] # v
            BY <1>6, <3>1, <3>2 DEF Maps
        <3>4. pte'[va[g]] = pte[va[g]]
            BY <1>7, <3>2, <3>3
        <3>5. Maps(va[g], g)' <=> pte'[va'[g]].p /\ pte'[va'[g]].frame = g
            BY DEF Maps
        <3> QED  BY <3>1, <3>2, <3>4, <3>5 DEF Maps
    <2> QED  BY <2>1, NoLeakNext DEF FState
<1>13. HeadsOK'
    <2>1. ASSUME NEW b \in held', ref'[Head(b.pages)] = 0, va'[Head(b.pages)] # None
          PROVE  \E u \in Threads : Having(u)' /\ frm'[u] = Head(b.pages)
        <3>1. b \in held /\ Head(b.pages) \in Pages /\ Head(b.pages) # f
            BY <1>1, <1>7, <2>1, HeadHeld DEF FState
        <3>2. ref[Head(b.pages)] = 0 /\ va[Head(b.pages)] # None
            BY <1>7, <2>1, <3>1
        <3> QED  BY <1>11, <3>1, <3>2 DEF NotLost, HeadsOK
    <2> QED  BY <2>1 DEF HeadsOK
<1>14. StoringKept'
    <2>1. ASSUME NEW u \in Threads, Storing(u) PROVE pte'[Target(u)] = pte[Target(u)]
        <3>1. Target(u) \in VPages
            BY <2>1, TargetIn, Stored
        <3>2. Maps(Target(u), frm[u]) /\ frm[u] # f
            BY <1>6, <2>1, MappingHas DEF NotLost, StoringKept
        <3>3. Target(u) # v
            BY <1>4, <3>2 DEF Maps
        <3> QED  BY <1>7, <3>1, <3>3
    <2> QED  BY <1>10, <2>1, StoringStays
<1>15. UnmapKept'
    <2>1. \A u \in Threads : pc'[u] # "unmap"
        BY <1>2, <1>8 DEF Stays, FState, PTypes, HeapPlaces
    <2> QED  BY <2>1 DEF UnmapKept
<1> QED  BY <1>12, <1>13, <1>14, <1>15 DEF NotLost

LEMMA LeakHandle ==
    ASSUME FState, FState', NotLost, NEW t \in Threads, Handle(t), past' \subseteq {"evicted"}
    PROVE  NotLost'
<1>1. ASSUME NEW from \in {"new", "swap_in"}, GetFrame(t, from, "map") PROVE NotLost'
    <2>1. PICK a \in {"new", "swap_in", "run"} : a = from
        BY <1>1
    <2>2. PICK b \in {"map", "slab"} : b = "map" /\ b # "slab"
        OBVIOUS
    <2> QED  BY <1>1, <2>1, <2>2, GetFrameKept
<1>2. ASSUME NEW from, NEW u, SameFrame(t, u, from, "map") PROVE FALSE
    BY <1>2 DEF SameFrame
<1>3. ASSUME NEW u, SameTail(t, u) PROVE FALSE
    BY <1>3 DEF SameTail
<1>4. CASE Access(t) \/ do_pgfault(t) \/ map_swappable(t)
    BY <1>4, WalkKept
<1>5. "over" \notin past' /\ "raced" \notin past'
    OBVIOUS
<1> QED  BY <1>1, <1>2, <1>3, <1>4, <1>5, MapKept, OutKept, SlabKept, UnmapSlabKept DEF Handle

LEMMA LeakStart ==
    ASSUME FState, FState', NotLost, NEW t \in Threads, Start(t), past' \subseteq {"evicted"}
    PROVE  NotLost'
<1>1. ASSUME NEW v \in VPages, Touch(t, v) PROVE NotLost'
    BY <1>1, WalkKept
<1>2. ASSUME t = Boot, GetFrame(t, "run", "slab") PROVE NotLost'
    <2>1. PICK a \in {"new", "swap_in", "run"} : a = "run"
        OBVIOUS
    <2>2. PICK b \in {"map", "slab"} : b = "slab"
        OBVIOUS
    <2> QED  BY <1>2, <2>1, <2>2, GetFrameKept
<1>3. ASSUME NEW u, SameFrame(t, u, "run", "slab") PROVE FALSE
    BY <1>3 DEF SameFrame
<1>4. CASE t = Boot /\ swap_out_victim(t)
    BY <1>4, WalkKept
<1>5. CASE t = Boot /\ _check_free_buddy(t)
    <2>1. Undisturbed'
        BY DEF Undisturbed
    <2> QED  BY <1>5, <2>1, FreeSlabKept
<1> QED  BY <1>1, <1>2, <1>3, <1>4, <1>5 DEF Start

LEMMA LeakNext ==
    ASSUME FramesInv, FramesInv', LeakInv, [PNext]_pgVars
    PROVE  LeakInv'
<1>1. CASE UNCHANGED pgVars
    <2>1. UNCHANGED <<ref, held, pte, va, slabs, pc, at, frm, past>>
        BY <1>1 DEF pgVars, vars, mmVars, hist
    <2>2. NotLost => NotLost'
        BY <2>1, StillKept
    <2> QED  BY <2>1, <2>2 DEF LeakInv
<1>2. CASE PNext
    <2>1. SUFFICES ASSUME past' \subseteq {"evicted"} PROVE NotLost'
        BY DEF LeakInv
    <2>2. past \subseteq past'
        BY <1>2, PastGrows
    <2>3. FState /\ NotLost /\ FState'
        BY <2>1, <2>2 DEF FramesInv, Undisturbed, LeakInv
    <2>4. CASE printk_fails
        BY <2>3, <2>4, StillKept DEF printk_fails, vars, mmVars
    <2>5. CASE lists_torn
        BY <2>1, <2>5 DEF lists_torn
    <2> QED  BY <1>2, <2>1, <2>3, <2>4, <2>5, LeakHandle, LeakStart DEF PNext
<1> QED  BY <1>1, <1>2

LEMMA LeakInit == ASSUME PInit PROVE LeakInv
<1>1. \A t \in Threads : pc[t] = "run"
    BY DEF PInit
<1>2. (\A f \in Pages : va[f] = None) /\ held = {}
    BY DEF PInit, Init
<1>3. NoLeak /\ HeadsOK
    BY <1>2 DEF NoLeak, HeadsOK
<1>4. StoringKept /\ UnmapKept
    BY <1>1 DEF StoringKept, UnmapKept, Storing
<1> QED  BY <1>3, <1>4 DEF LeakInv, NotLost

LEMMA MappedByEntryInv == LeakInv => MappedByEntry
BY DEF LeakInv, NotLost, NoLeak, MappedByEntry

\* A frame that counts as mapped, and whose map is done, is the one its address
\* maps (vmm.c, swapmm.c, slab.c), as long as map overwrites no entry, swap_out
\* empties its victim, and no two calls race.  It says nothing of a frame that
\* counts as unmapped: a freed slab's is lost.
THEOREM MappedByEntryCorrect == PSpec => []MappedByEntry
<1> QED  BY FramesInit, FramesNext, LeakInit, LeakNext, MappedByEntryInv, PTL DEF PSpec
(***************************************************************************)
(* The heap and the clock list                                             *)
(*                                                                         *)
(* Until an eviction ends or map overwrites an entry, the clock list is a  *)
(* chain of whole blocks whose first pages are mapped and not the heap's.  *)
(* A walk over next ends because some number falls from page to page (r).  *)
(* A frame that a thread maps, or is about to append, is in no list yet,   *)
(* so the walk neither leaves the blocks in use nor comes to the new one.  *)
(***************************************************************************)

\* The number r falls from each page to the one behind it.
Ranked(r) ==
    /\ \A l \in Levels : Falls(r, list[l])
    /\ \A b \in held : Falls(r, b.pages)
    /\ \A p \in Pages : link[p] # None => r[link[p]] < r[p]

Acyclic == \E m \in Nat : \E r \in [Pages -> 0 .. m] : Ranked(r)

\* The first page of a block in use.
IsHead(h) == \E b \in held : Head(b.pages) = h

\* The frames that map_swappable has put on the clock list, and their blocks.
Linked == ({clock} \cup {link[p] : p \in Pages}) \ {None}
Listed == {b \in held : Head(b.pages) \in Linked}

LinksOK ==
    /\ link \in [Pages -> Pages \cup {None}]
    /\ \A h \in Linked : IsHead(h)
    /\ \A p \in Pages : link[p] # None => \E b \in Listed : p \in ToSet(b.pages)

\* A frame that an entry maps.
Present(h) == \E v \in VPages : Maps(v, h)

\* The thread's frame is not on the list yet.
Waiting(t) == pc[t] = "swappable"
Busy(t) == Having(t) \/ Waiting(t)

BusyOK(t) ==
    /\ Busy(t) => frm[t] \notin Linked /\ frm[t] \notin ToSet(slabs) /\ IsHead(frm[t])
    /\ Storing(t) \/ Waiting(t) => Present(frm[t])
    /\ pc[t] = "out" => frm[t] \in Linked

HandsOK ==
    /\ \A h \in Linked : Present(h) /\ h \notin ToSet(slabs)
    /\ \A t \in Threads : BusyOK(t)
    /\ \A t, u \in Threads : Busy(t) /\ Busy(u) /\ frm[t] = frm[u] => t = u

SlabsOK == \A i \in DOMAIN slabs : Maps(i - 1, slabs[i])

StopOK == stop \in {"no", "no pages can be swap out", "out of memory", "console lock"}

HeapState == Acyclic /\ LinksOK /\ HandsOK /\ SlabsOK /\ StopOK

HeapInv == past \subseteq {"crossed"} => HeapState

(***************************************************************************)
(* Walks over next                                                         *)
(***************************************************************************)

IsChain(s) == (\E l \in Levels : s = list[l]) \/ (\E b \in held : s = b.pages)

\* s has f at place k, and g behind it.
Behind(s, k, f, g) == k \in 1 .. Len(s) - 1 /\ s[k] = f /\ s[k + 1] = g

LEMMA ChainsTyped == ASSUME BInv PROVE \A s : IsChain(s) => s \in Seq(Pages)
<1>1. ASSUME NEW l \in Levels PROVE list[l] \in Seq(Pages)
    <2>1. CASE list[l] = <<>>
        BY <2>1
    <2>2. CASE list[l] # <<>>
        BY <2>2 DEF BInv, LevelsInv, Block
    <2> QED  BY <2>1, <2>2
<1>2. ASSUME NEW b \in held PROVE b.pages \in Seq(Pages)
    BY DEF BInv, HeldInv, Block
<1> QED  BY <1>1, <1>2 DEF IsChain

LEMMA NextCases ==
    ASSUME BInv, NEW f
    PROVE  \/ next(f) = link[f]
           \/ \E s, k : IsChain(s) /\ Behind(s, k, f, next(f)) /\ next(f) \in Pages
<1>1. PICK blocks : blocks = {list[l] : l \in Levels} \cup {b.pages : b \in held}
    OBVIOUS
<1>2. PICK behind : behind = UNION {{blk[i] : i \in {k \in 2 .. Len(blk) : blk[k - 1] = f}} : blk \in blocks}
    OBVIOUS
<1>3. next(f) = IF behind = {} THEN link[f] ELSE CHOOSE g \in behind : TRUE
    BY <1>1, <1>2 DEF next
<1>4. CASE behind = {}
    BY <1>3, <1>4
<1>5. CASE behind # {}
    <2>1. PICK g : g \in behind /\ next(f) = g
        BY <1>3, <1>5
    <2>2. PICK s \in blocks : g \in {s[i] : i \in {k \in 2 .. Len(s) : s[k - 1] = f}}
        BY <1>2, <2>1
    <2>3. PICK i \in {k \in 2 .. Len(s) : s[k - 1] = f} : g = s[i]
        BY <2>2
    <2>4. IsChain(s)
        BY <1>1, <2>2 DEF IsChain
    <2>5. s \in Seq(Pages) /\ Len(s) \in Nat
        BY <2>4, ChainsTyped, LenProperties
    <2>6. PICK k \in 1 .. Len(s) - 1 : k = i - 1 /\ k + 1 = i /\ s[i - 1] = f
        BY <2>3, <2>5
    <2>7. i \in 1 .. Len(s)
        BY <2>3, <2>5
    <2>8. Behind(s, k, f, g) /\ g \in Pages
        BY <2>3, <2>5, <2>6, <2>7, ElementOfSeq DEF Behind
    <2> QED  BY <2>1, <2>4, <2>8
<1> QED  BY <1>4, <1>5

\* The number r falls along next.
Descends(r) == \A f \in Pages : next(f) = None \/ (next(f) \in Pages /\ r[next(f)] < r[f])

LEMMA RankDescends ==
    ASSUME BInv, link \in [Pages -> Pages \cup {None}], NEW r, Ranked(r)
    PROVE  Descends(r)
<1> SUFFICES ASSUME NEW f \in Pages, next(f) # None PROVE next(f) \in Pages /\ r[next(f)] < r[f]
    BY DEF Descends
<1>1. CASE next(f) = link[f]
    BY <1>1 DEF Ranked
<1>2. ASSUME NEW s, NEW k, IsChain(s), Behind(s, k, f, next(f)), next(f) \in Pages
      PROVE  r[next(f)] < r[f]
    <2>1. Falls(r, s)
        BY <1>2 DEF Ranked, IsChain
    <2> QED  BY <1>2, <2>1 DEF Falls, Behind
<1> QED  BY <1>1, <1>2, NextCases

\* Nothing behind a page of S is outside of S.
Closed(S) ==
    /\ \A s, k, f, g : IsChain(s) /\ Behind(s, k, f, g) /\ f \in S => g \in S
    /\ \A f \in S : link[f] # None => link[f] \in S

LEMMA ClosedNext ==
    ASSUME BInv, NEW S, Closed(S), NEW f \in S
    PROVE  next(f) = None \/ next(f) \in S
BY NextCases DEF Closed

Onward(w, f) == IF next(f) = None THEN <<f>> ELSE <<f>> \o w[next(f)]

IsWalk(w) == w = [f \in Pages |-> Onward(w, f)]

LEMMA ChainWalks == \A f : Chain(f) = (CHOOSE w : IsWalk(w))[f]
    BY DEF Chain, IsWalk, Onward

LEMMA WalkExists ==
    ASSUME NEW m \in Nat, NEW r \in [Pages -> 0 .. m], Descends(r)
    PROVE  \E w : IsWalk(w)
<1> DEFINE Good(w, n) == /\ w = [f \in Pages |-> w[f]]
                         /\ \A f \in Pages : r[f] < n => w[f] = Onward(w, f)
           T == {n \in Nat : \E w : Good(w, n)}
<1>1. 0 \in T
    <2>1. PICK w : w = [f \in Pages |-> 0]
        OBVIOUS
    <2>2. \A f \in Pages : ~(r[f] < 0)
        OBVIOUS
    <2>3. Good(w, 0)
        BY <2>1, <2>2
    <2> QED  BY <2>3
<1>2. ASSUME NEW n \in Nat, n \in T PROVE n + 1 \in T
    <2>1. PICK w : Good(w, n)
        BY <1>2
    <2>2. PICK x : x = [f \in Pages |-> IF r[f] = n THEN Onward(w, f) ELSE w[f]]
        OBVIOUS
    <2>3. ASSUME NEW f \in Pages, r[f] < n + 1 PROVE x[f] = Onward(x, f)
        <3>1. Onward(x, f) = Onward(w, f)
            <4>1. CASE next(f) = None
                BY <4>1 DEF Onward
            <4>2. CASE next(f) # None
                <5>1. PICK g \in Pages : g = next(f) /\ r[g] < r[f]
                    BY <4>2 DEF Descends
                <5>2. r[g] # n
                    <6>1. r[g] \in Nat /\ r[f] \in Nat
                        BY <5>1
                    <6> QED  BY <2>3, <5>1, <6>1
                <5>3. x[g] = w[g]
                    BY <2>2, <5>2
                <5> QED  BY <5>1, <5>3 DEF Onward
            <4> QED  BY <4>1, <4>2
        <3>2. CASE r[f] = n
            BY <2>2, <3>1, <3>2
        <3>3. CASE r[f] # n
            <4>1. r[f] < n
                <5>1. r[f] \in Nat
                    OBVIOUS
                <5> QED  BY <2>3, <3>3, <5>1
            <4>2. x[f] = w[f] /\ w[f] = Onward(w, f)
                BY <2>1, <2>2, <3>3, <4>1
            <4> QED  BY <3>1, <4>2
        <3> QED  BY <3>2, <3>3
    <2>4. x = [f \in Pages |-> x[f]]
        BY <2>2
    <2>5. Good(x, n + 1)
        BY <2>3, <2>4
    <2> QED  BY <2>5
<1>3. \A n \in Nat : n \in T
    <2> HIDE DEF T
    <2> QED  BY <1>1, <1>2, NatClosed
<1>4. PICK w : Good(w, m + 1)
    <2>1. m + 1 \in T
        BY <1>3
    <2> QED  BY <2>1
<1>5. ASSUME NEW f \in Pages PROVE w[f] = Onward(w, f)
    <2>1. r[f] < m + 1
        OBVIOUS
    <2> QED  BY <1>4, <2>1
<1>6. IsWalk(w)
    BY <1>4, <1>5 DEF IsWalk
<1> QED  BY <1>6

\* A walk within S from f.
Walks(S, f, s) ==
    /\ s \in Seq(S) /\ Len(s) \in Nat \ {0} /\ s[1] = f
    /\ next(s[Len(s)]) = None

LEMMA WalkIs ==
    ASSUME BInv, NEW w, IsWalk(w), NEW m \in Nat, NEW r \in [Pages -> 0 .. m], Descends(r),
           NEW S, S \subseteq Pages, Closed(S)
    PROVE  \A f \in S : Walks(S, f, w[f])
<1> DEFINE T == {n \in Nat : \A f \in S : r[f] = n => Walks(S, f, w[f])}
<1>1. ASSUME NEW n \in Nat, \A k \in Nat : k < n => k \in T PROVE n \in T
    <2> SUFFICES ASSUME NEW f \in S, r[f] = n PROVE Walks(S, f, w[f])
        OBVIOUS
    <2>1. f \in Pages /\ w[f] = Onward(w, f)
        BY DEF IsWalk
    <2>2. CASE next(f) = None
        <3>1. PICK s : s = <<f>>
            OBVIOUS
        <3>2. s \in Seq(S) /\ Len(s) = 1 /\ s[1] = f
            BY <3>1
        <3>3. w[f] = s
            BY <2>1, <2>2, <3>1 DEF Onward
        <3>4. Walks(S, f, s)
            BY <2>2, <3>2 DEF Walks
        <3> QED  BY <3>3, <3>4
    <2>3. CASE next(f) # None
        <3>1. PICK g \in S : g = next(f) /\ r[g] < r[f] /\ g \in Pages
            BY <2>1, <2>3, ClosedNext DEF Descends
        <3>2. r[g] \in Nat /\ r[g] < n
            BY <3>1
        <3>3. Walks(S, g, w[g])
            BY <1>1, <3>1, <3>2
        <3>4. PICK s : s = w[g]
            OBVIOUS
        <3>5. PICK l \in Nat \ {0} : l = Len(s)
            BY <3>3, <3>4 DEF Walks
        <3>6. s \in Seq(S) /\ next(s[l]) = None
            BY <3>3, <3>4, <3>5 DEF Walks
        <3>7. PICK z : z = <<f>> \o s
            OBVIOUS
        <3>8. /\ z \in Seq(S) /\ Len(z) = l + 1 /\ z[1] = f /\ z[l + 1] = s[l]
            BY <3>5, <3>6, <3>7
        <3>9. w[f] = z
            BY <2>1, <2>3, <3>1, <3>4, <3>7 DEF Onward
        <3>10. Walks(S, f, z)
            BY <3>5, <3>6, <3>8 DEF Walks
        <3> QED  BY <3>9, <3>10
    <2> QED  BY <2>2, <2>3
<1>2. \A n \in Nat : n \in T
    <2> HIDE DEF T
    <2> QED  BY <1>1, NatStrong
<1>3. ASSUME NEW f \in S PROVE Walks(S, f, w[f])
    <2>1. PICK n \in Nat : n = r[f]
        BY DEF Pages
    <2>2. n \in T
        BY <1>2
    <2> QED  BY <2>1, <2>2
<1> QED  BY <1>3

\* What free_buddy and the clock see from a page of S.
LEMMA ChainIs ==
    ASSUME BInv, Acyclic, link \in [Pages -> Pages \cup {None}],
           NEW S, S \subseteq Pages, Closed(S), NEW f \in S
    PROVE  /\ Chain(f) \in Seq(S) /\ Chain(f)[1] = f /\ 1 \in DOMAIN Chain(f)
           /\ Last(Chain(f)) \in S /\ next(Last(Chain(f))) = None
           /\ \A p : Contains(Chain(f), p) => p \in S
<1>1. PICK m \in Nat : \E r \in [Pages -> 0 .. m] : Ranked(r)
    BY DEF Acyclic
<1>2. PICK r \in [Pages -> 0 .. m] : Descends(r)
    BY <1>1, RankDescends
<1>3. PICK w : w = CHOOSE x : IsWalk(x)
    OBVIOUS
<1>4. IsWalk(w)
    BY <1>1, <1>2, <1>3, WalkExists
<1>5. PICK s : s = Chain(f) /\ s = w[f]
    BY <1>3, ChainWalks
<1>6. Walks(S, f, s)
    BY <1>1, <1>2, <1>4, <1>5, WalkIs
<1>7. PICK l \in Nat \ {0} : l = Len(s)
    BY <1>6 DEF Walks
<1>8. s \in Seq(S) /\ s[1] = f /\ next(s[l]) = None
    BY <1>6, <1>7 DEF Walks
<1>9. DOMAIN s = 1 .. l /\ 1 \in 1 .. l /\ l \in 1 .. l
    BY <1>7, <1>8
<1>10. \A i \in 1 .. l : s[i] \in S
    BY <1>7, <1>8, ElementOfSeq
<1>11. Last(s) = s[l]
    BY <1>7 DEF Last
<1>12. \A p : Contains(s, p) => p \in S
    BY <1>7, <1>10 DEF Contains
<1> QED  BY <1>5, <1>8, <1>9, <1>10, <1>11, <1>12

(***************************************************************************)
(* Steps and the clock list                                                *)
(***************************************************************************)

\* The list, the table and the blocks in use stay.
LEMMA SameLinks ==
    ASSUME Acyclic, LinksOK, UNCHANGED <<list, held, link, clock>>
    PROVE  Acyclic' /\ LinksOK' /\ Linked' = Linked /\ \A h : IsHead(h)' <=> IsHead(h)
<1>1. Linked' = Linked /\ \A h : IsHead(h)' <=> IsHead(h)
    BY DEF Linked, IsHead, Pages
<1>2. Acyclic'
    BY DEF Acyclic, Ranked, Pages, Levels
<1>3. Listed' = Listed
    BY <1>1 DEF Listed
<1>4. link' \in [Pages -> Pages \cup {None}] /\ \A h \in Linked' : IsHead(h)'
    BY <1>1 DEF LinksOK
<1>5. \A p \in Pages : link'[p] # None => \E b \in Listed' : p \in ToSet(b.pages)
    BY <1>3 DEF LinksOK
<1> QED  BY <1>1, <1>2, <1>4, <1>5 DEF LinksOK, Pages

LEMMA OneHead ==
    ASSUME BInv, NEW b \in held, NEW c \in held, NEW p, p \in ToSet(b.pages), p \in ToSet(c.pages)
    PROVE  b = c
BY DEF BInv, HeldInv, Apart

\* A chain that has a page of a block in use is that block.
LEMMA ChainOfBlock ==
    ASSUME BInv, NEW b \in held, NEW s, IsChain(s), NEW p, p \in ToSet(b.pages), p \in ToSet(s)
    PROVE  s = b.pages
<1>1. ASSUME NEW l \in Levels, s = list[l] PROVE FALSE
    BY <1>1 DEF BInv, HeldInv, Apart
<1> QED  BY <1>1, OneHead DEF IsChain

LEMMA BehindIn ==
    ASSUME BInv, NEW s, NEW k, NEW f, NEW g, IsChain(s), Behind(s, k, f, g)
    PROVE  f \in ToSet(s) /\ g \in ToSet(s)
<1>1. s \in Seq(Pages) /\ Len(s) \in Nat
    BY ChainsTyped, LenProperties
<1>2. k \in 1 .. Len(s) /\ k + 1 \in 1 .. Len(s) /\ f = s[k] /\ g = s[k + 1]
    BY <1>1 DEF Behind
<1>3. ToSet(s) = {s[i] : i \in 1 .. Len(s)}
    BY <1>1, PagesOf
<1> QED  BY <1>2, <1>3

\* The pages of the blocks on the list are closed under next.
LEMMA ListClosed ==
    ASSUME BInv, LinksOK, NEW S, S = UNION {ToSet(b.pages) : b \in Listed}
    PROVE  Closed(S) /\ Linked \subseteq S /\ S \subseteq InHands
<1>1. \A p : p \in S <=> \E b \in Listed : p \in ToSet(b.pages)
    OBVIOUS
<1>2. Listed \subseteq held
    BY DEF Listed
<1>3. ASSUME NEW h \in Linked PROVE h \in S
    <2>1. PICK b \in held : Head(b.pages) = h
        BY DEF LinksOK, IsHead
    <2>2. b \in Listed /\ h \in ToSet(b.pages)
        BY <2>1, HeadHeld DEF Listed
    <2> QED  BY <1>1, <2>2
<1>4. ASSUME NEW s, NEW k, NEW f, NEW g, IsChain(s), Behind(s, k, f, g), f \in S PROVE g \in S
    <2>1. PICK b \in Listed : f \in ToSet(b.pages)
        BY <1>1, <1>4
    <2>2. f \in ToSet(s) /\ g \in ToSet(s)
        BY <1>4, BehindIn
    <2>3. s = b.pages
        BY <1>2, <1>4, <2>1, <2>2, ChainOfBlock
    <2> QED  BY <1>1, <2>1, <2>2, <2>3
<1>5. S \subseteq InHands
    BY <1>1, <1>2, HandsHave
<1>6. ASSUME NEW f \in S, link[f] # None PROVE link[f] \in S
    <2>1. f \in Pages
        BY <1>5, HandsPages
    <2>2. link[f] \in Linked
        BY <1>6, <2>1 DEF Linked
    <2> QED  BY <1>3, <2>2
<1> QED  BY <1>3, <1>4, <1>5, <1>6 DEF Closed

\* So are those of a block that is not on it.
LEMMA LooseClosed ==
    ASSUME BInv, LinksOK, NEW b \in held, Head(b.pages) \notin Linked
    PROVE  Closed(ToSet(b.pages))
<1>1. ASSUME NEW s, NEW k, NEW f, NEW g, IsChain(s), Behind(s, k, f, g), f \in ToSet(b.pages)
      PROVE  g \in ToSet(b.pages)
    BY <1>1, BehindIn, ChainOfBlock
<1>2. ASSUME NEW f \in ToSet(b.pages) PROVE link[f] = None
    <2>1. f \in Pages
        BY HandsHave, HandsPages
    <2>2. ASSUME link[f] # None PROVE FALSE
        <3>1. PICK c \in Listed : f \in ToSet(c.pages)
            BY <2>1, <2>2 DEF LinksOK
        <3>2. c \in held /\ Head(c.pages) \in Linked
            BY DEF Listed
        <3> QED  BY <3>1, <3>2, OneHead
    <2> QED  BY <2>2
<1> QED  BY <1>1, <1>2 DEF Closed

\* Linking a page of the list to a block outside of it: the numbers of the
\* other pages are raised above that block's.
LEMMA LinkAcyclic ==
    ASSUME BInv, Acyclic, LinksOK, NEW b \in held, NEW f, f = Head(b.pages), f \notin Linked,
           NEW tail \in Pages, tail \notin ToSet(b.pages), UNCHANGED <<list, held>>,
           link' = [link EXCEPT ![tail] = f]
    PROVE  Acyclic'
<1>1. PICK m \in Nat : \E r \in [Pages -> 0 .. m] : Ranked(r)
    BY DEF Acyclic
<1>2. PICK r \in [Pages -> 0 .. m] : Ranked(r)
    BY <1>1
<1>3. PICK B : B = ToSet(b.pages)
    OBVIOUS
<1>4. f \in B /\ f \in Pages /\ B \subseteq Pages
    BY <1>3, HeadHeld, HandsHave, HandsPages
<1>5. PICK a \in Nat : a = r[f] /\ a <= m
    BY <1>4
<1>6. PICK x : x = [p \in Pages |-> IF p \in B THEN r[p] ELSE r[p] + a + 1]
    OBVIOUS
<1>7. \A p \in Pages : (p \in B => x[p] = r[p]) /\ (p \notin B => x[p] = r[p] + a + 1)
    BY <1>6
<1>8. x \in [Pages -> 0 .. m + m + 1]
    <2>1. \A p \in Pages : x[p] \in 0 .. m + m + 1
        BY <1>5, <1>7
    <2> QED  BY <1>6, <2>1
<1>9. ASSUME NEW p \in Pages, NEW q \in Pages, r[q] < r[p], p \in B <=> q \in B PROVE x[q] < x[p]
    <2>1. r[p] \in Nat /\ r[q] \in Nat
        OBVIOUS
    <2> QED  BY <1>5, <1>7, <1>9, <2>1
<1>10. ASSUME NEW s, IsChain(s) PROVE Falls(x, s)
    <2>1. s \in Seq(Pages) /\ Len(s) \in Nat /\ Falls(r, s)
        BY <1>2, <1>10, ChainsTyped, LenProperties DEF Ranked, IsChain
    <2>2. ASSUME NEW k \in 1 .. Len(s) - 1 PROVE x[s[k + 1]] < x[s[k]]
        <3>1. PICK p, q : p = s[k] /\ q = s[k + 1]
            OBVIOUS
        <3>2. Behind(s, k, p, q)
            BY <3>1 DEF Behind
        <3>3. p \in ToSet(s) /\ q \in ToSet(s)
            BY <1>10, <3>2, BehindIn
        <3>4. p \in Pages /\ q \in Pages
            BY <2>1, <3>3, PagesOf
        <3>5. r[q] < r[p]
            BY <2>1, <3>1 DEF Falls
        <3>6. p \in B <=> q \in B
            BY <1>3, <1>10, <3>3, ChainOfBlock
        <3> QED  BY <1>9, <3>1, <3>4, <3>5, <3>6
    <2> QED  BY <2>2 DEF Falls
<1>11. ASSUME NEW p \in Pages, link'[p] # None PROVE x[link'[p]] < x[p]
    <2>1. CASE p = tail
        <3>1. link'[p] = f
            BY <2>1 DEF LinksOK
        <3>2. x[f] = a /\ x[p] = r[p] + a + 1 /\ r[p] \in Nat
            BY <1>3, <1>4, <1>5, <1>7, <2>1
        <3> QED  BY <1>5, <3>1, <3>2
    <2>2. CASE p # tail
        <3>1. PICK g \in Pages : g = link[p] /\ g = link'[p]
            BY <1>11, <2>2 DEF LinksOK
        <3>2. r[g] < r[p]
            BY <1>2, <1>11, <3>1 DEF Ranked
        <3>3. p \notin B
            <4>1. PICK c \in Listed : p \in ToSet(c.pages)
                BY <1>11, <3>1 DEF LinksOK
            <4>2. c \in held /\ Head(c.pages) \in Linked
                BY DEF Listed
            <4> QED  BY <1>3, <4>1, <4>2, OneHead
        <3>4. g \notin B
            <4>1. g \in Linked
                BY <1>11, <3>1 DEF Linked
            <4>2. PICK c \in held : Head(c.pages) = g
                BY <4>1 DEF LinksOK, IsHead
            <4>3. g \in ToSet(c.pages)
                BY <4>2, HeadHeld
            <4> QED  BY <1>3, <4>1, <4>2, <4>3, OneHead
        <3> QED  BY <1>9, <3>1, <3>2, <3>3, <3>4
    <2> QED  BY <2>1, <2>2
<1>12. Ranked(x)'
    <2>1. (\A l \in Levels : Falls(x, list[l])) /\ \A c \in held : Falls(x, c.pages)
        BY <1>10 DEF IsChain
    <2> QED  BY <1>11, <2>1 DEF Ranked, Pages, Levels
<1>13. m + m + 1 \in Nat
    OBVIOUS
<1> QED  BY <1>8, <1>12, <1>13 DEF Acyclic, Pages

(***************************************************************************)
(* Steps and the clock list                                                *)
(***************************************************************************)

\* A frame whose map is done counts one mapping, at the address it knows.
LEMMA PresentFrame ==
    ASSUME FState, NEW h, NEW v \in VPages, Maps(v, h)
    PROVE  h \in InHands /\ h \in Pages /\ (h \notin Mapping => ref[h] = 1 /\ va[h] = v)
BY HandsPages DEF FState, EntriesOK, EntryOK, Maps

LEMMA BusyPlaces ==
    ASSUME NEW u \in Threads
    PROVE  /\ Busy(u) <=> pc[u] \in {"map", "count", "address", "slab", "slab count", "slab address", "swappable"}
           /\ Storing(u) \/ Waiting(u) => Busy(u)
           /\ Busy(u) => pc[u] # "out"
BY DEF Busy, Waiting, Having, Fresh, Storing

\* Frames of the list and of the heap are no thread's.
LEMMA NotMapping ==
    ASSUME HandsOK, NEW h, h \in Linked \/ h \in ToSet(slabs)
    PROVE  h \notin Mapping
<1>1. ASSUME NEW t \in Threads, Storing(t), frm[t] = h PROVE FALSE
    BY <1>1, BusyPlaces DEF HandsOK, BusyOK
<1> QED  BY <1>1, MappingHas

\* Nothing that the list depends on has changed, and no thread has come by a
\* frame.
LEMMA QuietHeap ==
    ASSUME HeapState, UNCHANGED <<list, held, link, clock, pte, slabs>>, StopOK',
           \A u \in Threads : Busy(u)' => Busy(u) /\ frm'[u] = frm[u],
           \A u \in Threads : Storing(u)' \/ Waiting(u)' => Storing(u) \/ Waiting(u),
           \A u \in Threads : pc'[u] = "out" => frm'[u] \in Linked
    PROVE  HeapState'
<1>1. Acyclic' /\ LinksOK' /\ Linked' = Linked /\ \A h : IsHead(h)' <=> IsHead(h)
    BY SameLinks DEF HeapState
<1>2. \A h : Present(h)' <=> Present(h)
    BY DEF Present, Maps, VPages
<1>3. SlabsOK'
    BY DEF HeapState, SlabsOK, Maps
<1>4. ASSUME NEW t \in Threads PROVE BusyOK(t)'
    <2>1. PICK h : h = frm'[t]
        OBVIOUS
    <2>2. Busy(t)' => h \notin Linked' /\ h \notin ToSet(slabs') /\ IsHead(h)'
        BY <1>1, <2>1 DEF HeapState, HandsOK, BusyOK
    <2>3. Storing(t)' \/ Waiting(t)' => Present(h)'
        <3>1. Storing(t)' \/ Waiting(t)' => Busy(t)'
            BY DEF Busy, Having
        <3> QED  BY <1>2, <2>1, <3>1 DEF HeapState, HandsOK, BusyOK
    <2> QED  BY <1>1, <2>1, <2>2, <2>3 DEF BusyOK, Present, Maps, IsHead
<1>5. HandsOK'
    <2>1. \A h \in Linked' : Present(h)' /\ h \notin ToSet(slabs')
        BY <1>1, <1>2 DEF HeapState, HandsOK
    <2>2. \A t, u \in Threads : Busy(t)' /\ Busy(u)' /\ frm'[t] = frm'[u] => t = u
        BY DEF HeapState, HandsOK
    <2> QED  BY <1>4, <2>1, <2>2 DEF HandsOK, Present, Maps
<1> QED  BY <1>1, <1>3, <1>5 DEF HeapState

LEMMA SlabEntry ==
    ASSUME FState, SlabsOK, NEW i \in DOMAIN slabs
    PROVE  /\ i \in 1 .. Len(slabs) /\ Len(slabs) \in Nat /\ i - 1 \in VPages
           /\ slabs[i] \in Pages /\ slabs[i] \in InHands /\ Maps(i - 1, slabs[i])
<1>1. PICK n : n = Len(slabs)
    OBVIOUS
<1>2. slabs \in Seq(Pages) /\ n \in Nat /\ i \in 1 .. n /\ n <= MaxSlabs
    BY <1>1, LenProperties DEF FState, PTypes, heap_top
<1>3. i - 1 \in VPages
    BY <1>2, PagingAssumption DEF VPages
<1>4. Maps(i - 1, slabs[i])
    BY DEF SlabsOK
<1>5. slabs[i] \in InHands /\ slabs[i] \in Pages
    <2>1. PICK w, g : w = i - 1 /\ g = slabs[i]
        OBVIOUS
    <2>2. g \in InHands /\ g \in Pages
        BY <1>3, <1>4, <2>1, PresentFrame
    <2> QED  BY <2>1, <2>2
<1> QED  BY <1>1, <1>2, <1>3, <1>4, <1>5

\* alloc_pages hands out a block that is on no list.
LEMMA AllocHeap ==
    ASSUME FState, HeapState, alloc_buddy(1), UNCHANGED <<link, clock, pte, slabs, stop>>,
           NEW t \in Threads, frm'[t] = Got \/ (frm'[t] = frm[t] /\ pc'[t] = pc[t]),
           pc'[t] = "out" => frm'[t] \in Linked,
           \A u \in Threads \ {t} : pc'[u] = pc[u] /\ frm'[u] = frm[u],
           Storing(t)' \/ Waiting(t)' => pc'[t] = pc[t] /\ frm'[t] = frm[t]
    PROVE  HeapState'
<1>1. PICK blk, k, x : /\ Taken(blk, k, 1) /\ Got = Head(blk) /\ Got \notin InHands
                       /\ x.pages = blk /\ held' = held \cup {x} /\ x \notin held
    BY AllocGives DEF FState
<1>2. Acyclic'
    <2>1. PICK m \in Nat : \E r \in [Pages -> 0 .. m] : Ranked(r)
        BY DEF HeapState, Acyclic
    <2>2. PICK r \in [Pages -> 0 .. m] : Ranked(r)
        BY <2>1
    <2>3. Falls(r, blk) /\ \A l \in Levels : Falls(r, list'[l])
        BY <1>1, <2>2 DEF Taken, InOrder, Ranked
    <2>4. \A b \in held' : Falls(r, b.pages)
        BY <1>1, <2>2, <2>3 DEF Ranked
    <2>5. Ranked(r)'
        BY <2>2, <2>3, <2>4 DEF Ranked, Pages, Levels
    <2> QED  BY <2>5 DEF Acyclic, Pages
<1>3. Linked' = Linked /\ (\A h : IsHead(h) => IsHead(h)') /\ \A h : h = Got => IsHead(h)'
    <2>1. Linked' = Linked
        BY DEF Linked, Pages
    <2>2. ASSUME NEW h, IsHead(h) PROVE IsHead(h)'
        BY <1>1, <2>2 DEF IsHead
    <2>3. \E b \in held' : Head(b.pages) = Got
        BY <1>1
    <2>4. ASSUME NEW h, h = Got PROVE IsHead(h)'
        BY <2>3, <2>4 DEF IsHead
    <2> QED  BY <2>1, <2>2, <2>4
<1>4. LinksOK'
    <2>1. link' \in [Pages -> Pages \cup {None}] /\ \A h \in Linked' : IsHead(h)'
        BY <1>3 DEF HeapState, LinksOK
    <2>2. \A b \in Listed : b \in Listed'
        BY <1>1, <1>3 DEF Listed
    <2>3. \A p \in Pages : link'[p] # None => \E b \in Listed' : p \in ToSet(b.pages)
        BY <2>2 DEF HeapState, LinksOK
    <2> QED  BY <2>1, <2>3 DEF LinksOK, Pages
<1>5. \A h : Present(h)' <=> Present(h)
    BY DEF Present, Maps, VPages
<1>6. SlabsOK' /\ StopOK'
    BY DEF HeapState, SlabsOK, StopOK, Maps
<1>7. \A h : IsHead(h) => h # Got
    <2>1. ASSUME NEW b \in held PROVE Head(b.pages) # Got
        BY <1>1, HeadHeld DEF FState
    <2> QED  BY <2>1 DEF IsHead
<1>8. Got \notin Linked /\ Got \notin ToSet(slabs)
    <2>1. Got \notin Linked
        BY <1>7 DEF HeapState, LinksOK
    <2>2. ASSUME NEW i \in DOMAIN slabs PROVE slabs[i] # Got
        BY <1>1, SlabEntry DEF HeapState
    <2> QED  BY <2>1, <2>2 DEF ToSet
<1>9. \A u \in Threads \ {t} : /\ Busy(u)' <=> Busy(u)
                               /\ Storing(u)' \/ Waiting(u)' <=> Storing(u) \/ Waiting(u)
                               /\ pc'[u] = pc[u] /\ frm'[u] = frm[u]
    BY DEF Busy, Having, Fresh, Storing, Waiting
<1>10. \/ frm'[t] = frm[t] /\ (Busy(t)' <=> Busy(t))
          /\ (Storing(t)' \/ Waiting(t)' <=> Storing(t) \/ Waiting(t))
       \/ frm'[t] = Got /\ (Storing(t)' \/ Waiting(t)' => Storing(t) \/ Waiting(t))
    BY DEF Busy, Having, Fresh, Storing, Waiting
<1>11. ASSUME NEW u \in Threads PROVE BusyOK(u)'
    <2>1. PICK h : h = frm'[u]
        OBVIOUS
    <2>2. Busy(u)' => h \notin Linked' /\ h \notin ToSet(slabs') /\ IsHead(h)'
        <3>1. CASE u = t /\ h = Got
            BY <1>3, <1>8, <3>1
        <3>2. CASE u # t \/ (frm'[t] = frm[t] /\ (Busy(t)' <=> Busy(t)))
            BY <1>3, <1>9, <2>1, <3>2 DEF HeapState, HandsOK, BusyOK
        <3> QED  BY <1>10, <2>1, <3>1, <3>2
    <2>3. Storing(u)' \/ Waiting(u)' => Present(h)'
        <3>1. Storing(u)' \/ Waiting(u)' => (Storing(u) \/ Waiting(u)) /\ frm'[u] = frm[u]
            BY <1>9, <1>10
        <3> QED  BY <1>5, <2>1, <3>1 DEF HeapState, HandsOK, BusyOK
    <2>4. pc'[u] = "out" => h \in Linked'
        BY <1>3, <1>9, <2>1 DEF HeapState, HandsOK, BusyOK
    <2> QED  BY <2>1, <2>2, <2>3, <2>4 DEF BusyOK, Present, Maps, IsHead
<1>12. HandsOK'
    <2>1. \A h \in Linked' : Present(h)' /\ h \notin ToSet(slabs')
        BY <1>3, <1>5 DEF HeapState, HandsOK
    <2>2. ASSUME NEW u \in Threads, NEW w \in Threads, Busy(u)', Busy(w)', frm'[u] = frm'[w], u # w
          PROVE  FALSE
        <3>1. \A y \in Threads \ {t} : Busy(y)' => frm'[y] # Got
            BY <1>7, <1>9 DEF HeapState, HandsOK, BusyOK
        <3> QED  BY <1>9, <1>10, <2>2, <3>1 DEF HeapState, HandsOK
    <2> QED  BY <1>11, <2>1, <2>2 DEF HandsOK, Present, Maps
<1> QED  BY <1>2, <1>4, <1>6, <1>12 DEF HeapState

\* map stores the entry, and the page was not present.
LEMMA EntryHeap ==
    ASSUME FState, HeapState, NEW t \in Threads, Fresh(t), NEW v \in VPages,
           NEW l \in {"count", "slab count"}, StoreEntry(t, v, l), "over" \notin past'
    PROVE  HeapState'
<1>1. PICK f : f = frm[t]
    OBVIOUS
<1>2. /\ UNCHANGED <<list, held, link, clock, slabs, frm, stop>> /\ Goto(t, l) /\ ~pte[v].p
      /\ pte' = [pte EXCEPT ![v] = [frame |-> f, p |-> TRUE]]
    BY <1>1 DEF StoreEntry, vars
<1>3. /\ pte'[v] = [frame |-> f, p |-> TRUE] /\ \A w \in VPages \ {v} : pte'[w] = pte[w]
    BY <1>2 DEF FState, PTypes
<1>4. Acyclic' /\ LinksOK' /\ Linked' = Linked /\ \A h : IsHead(h)' <=> IsHead(h)
    BY <1>2, SameLinks DEF HeapState
<1>5. ASSUME NEW w \in VPages, NEW h, Maps(w, h) PROVE Maps(w, h)'
    <2>1. w # v
        BY <1>2, <1>5 DEF Maps
    <2> QED  BY <1>3, <1>5, <2>1 DEF Maps
<1>6. (\A h : Present(h) => Present(h)') /\ (\A h : h = f => Present(h)')
    <2>1. ASSUME NEW h, Present(h) PROVE Present(h)'
        BY <1>5, <2>1 DEF Present, VPages
    <2>2. ASSUME NEW h, h = f PROVE Present(h)'
        <3>1. PICK e : e = [frame |-> f, p |-> TRUE]
            OBVIOUS
        <3>2. e.p /\ e.frame = f /\ pte'[v] = e
            BY <1>3, <3>1
        <3>3. Maps(v, h)'
            BY <2>2, <3>2 DEF Maps
        <3> QED  BY <3>3 DEF Present, VPages
    <2> QED  BY <2>1, <2>2
<1>7. pc'[t] = l /\ \A u \in Threads \ {t} : pc'[u] = pc[u]
    BY <1>2 DEF FState, PTypes, Goto
<1>8. \A u \in Threads : /\ Busy(u)' <=> Busy(u)
                         /\ u = t \/ (Storing(u)' \/ Waiting(u)' <=> Storing(u) \/ Waiting(u))
                         /\ pc'[u] = "out" => pc[u] = "out"
    BY <1>7 DEF Busy, Having, Fresh, Storing, Waiting
<1>9. ASSUME NEW u \in Threads PROVE BusyOK(u)'
    <2>1. PICK h : h = frm'[u] /\ h = frm[u]
        BY <1>2
    <2>2. Busy(u)' => h \notin Linked' /\ h \notin ToSet(slabs') /\ IsHead(h)'
        BY <1>2, <1>4, <1>8, <2>1 DEF HeapState, HandsOK, BusyOK
    <2>3. Storing(u)' \/ Waiting(u)' => Present(h)'
        <3>1. CASE u = t
            BY <1>1, <1>6, <2>1, <3>1
        <3>2. CASE u # t
            <4>1. Storing(u)' \/ Waiting(u)' => Present(h)
                BY <1>8, <2>1, <3>2 DEF HeapState, HandsOK, BusyOK
            <4> QED  BY <1>6, <4>1
        <3> QED  BY <3>1, <3>2
    <2>4. pc'[u] = "out" => h \in Linked'
        BY <1>4, <1>8, <2>1 DEF HeapState, HandsOK, BusyOK
    <2> QED  BY <2>1, <2>2, <2>3, <2>4 DEF BusyOK, Present, Maps, IsHead
<1>10. HandsOK'
    <2>1. \A h \in Linked' : Present(h)' /\ h \notin ToSet(slabs')
        BY <1>2, <1>4, <1>6 DEF HeapState, HandsOK
    <2>2. \A u, w \in Threads : Busy(u)' /\ Busy(w)' /\ frm'[u] = frm'[w] => u = w
        BY <1>2, <1>8 DEF HeapState, HandsOK
    <2> QED  BY <1>9, <2>1, <2>2 DEF HandsOK, Present, Maps
<1>11. SlabsOK'
    <2>1. ASSUME NEW i \in DOMAIN slabs PROVE Maps(i - 1, slabs[i])'
        <3>1. PICK w, g : w = i - 1 /\ g = slabs[i] /\ w \in VPages /\ Maps(w, g)
            BY SlabEntry DEF HeapState
        <3>2. Maps(w, g)'
            BY <1>5, <3>1
        <3>3. pte'[w].p /\ pte'[w].frame = g /\ slabs'[i] = g
            BY <1>2, <3>1, <3>2 DEF Maps
        <3> QED  BY <3>1, <3>3 DEF Maps
    <2> QED  BY <1>2, <2>1 DEF SlabsOK
<1> QED  BY <1>2, <1>4, <1>10, <1>11 DEF HeapState, StopOK

\* The sequence of slabs grows by one.
LEMMA GrowSlabs ==
    ASSUME slabs \in Seq(Pages), NEW f \in Pages, slabs' = Append(slabs, f), NEW n, n = Len(slabs)
    PROVE  /\ DOMAIN slabs = 1 .. n /\ DOMAIN slabs' = 1 .. n + 1 /\ slabs'[n + 1] = f
           /\ \A i \in 1 .. n : slabs'[i] = slabs[i]
           /\ \A i \in 1 .. n + 1 : (i = n + 1 /\ i - 1 = n) \/ i \in 1 .. n
           /\ \A h : h \in ToSet(slabs') => h \in ToSet(slabs) \/ h = f
<1>1. n \in Nat /\ DOMAIN slabs = 1 .. n
    BY LenProperties
<1>2. /\ slabs' \in Seq(Pages) /\ Len(slabs') = n + 1 /\ slabs'[n + 1] = f
      /\ \A i \in 1 .. n : slabs'[i] = slabs[i]
    BY <1>1, AppendProperties
<1>3. DOMAIN slabs' = 1 .. n + 1
    BY <1>2, LenProperties
<1>4. \A i \in 1 .. n + 1 : (i = n + 1 /\ i - 1 = n) \/ i \in 1 .. n
    BY <1>1
<1>5. ToSet(slabs) = {slabs[i] : i \in 1 .. n} /\ ToSet(slabs') = {slabs'[i] : i \in 1 .. n + 1}
    BY <1>1, <1>2, PagesOf
<1>6. \A i \in 1 .. n + 1 : slabs'[i] = f \/ slabs'[i] \in ToSet(slabs)
    BY <1>2, <1>4, <1>5
<1> QED  BY <1>1, <1>2, <1>3, <1>4, <1>5, <1>6

\* The heap grows by the page that map has just stored.
LEMMA GrowHeap ==
    ASSUME FState, HeapState, NEW t \in Threads, pc[t] = "slab address",
           StoreAddress(t, heap_top), slabs' = Append(slabs, frm[t]), Done(t)
    PROVE  HeapState'
<1>1. PICK f : f = frm[t]
    OBVIOUS
<1>2. UNCHANGED <<list, held, link, clock, pte, stop>> /\ Goto(t, "run")
      /\ \A u \in Threads \ {t} : frm'[u] = frm[u]
    BY DoneMoves DEF StoreAddress, vars, hist, FState
<1>3. Busy(t) /\ Having(t) /\ Storing(t) /\ Target(t) = heap_top
    BY DEF Busy, Having, Storing, Target, SlabPlaces
<1>4. f \notin Linked /\ f \notin ToSet(slabs)
    BY <1>1, <1>3 DEF HeapState, HandsOK, BusyOK
<1>5. f \in Pages
    BY <1>1, <1>3, HandsPages DEF FState, FreshOK, FrameOK
<1>6. Maps(heap_top, f)
    <2>1. PICK v \in VPages : Maps(v, f)
        BY <1>1, <1>3 DEF HeapState, HandsOK, BusyOK, Present
    <2>2. v = heap_top
        BY <1>1, <1>3, <2>1 DEF FState, FreshOK, FrameOK
    <2> QED  BY <2>1, <2>2
<1>7. PICK n : n = Len(slabs) /\ n = heap_top
    BY DEF heap_top
<1>8. /\ DOMAIN slabs = 1 .. n /\ DOMAIN slabs' = 1 .. n + 1 /\ slabs'[n + 1] = f
      /\ \A i \in 1 .. n : slabs'[i] = slabs[i]
      /\ \A i \in 1 .. n + 1 : (i = n + 1 /\ i - 1 = n) \/ i \in 1 .. n
      /\ \A h : h \in ToSet(slabs') => h \in ToSet(slabs) \/ h = f
    <2>1. slabs \in Seq(Pages) /\ slabs' = Append(slabs, f)
        BY <1>1 DEF FState, PTypes
    <2> QED  BY <1>5, <1>7, <2>1, GrowSlabs
<1>9. \A h : h \in ToSet(slabs') => h \in ToSet(slabs) \/ h = f
    BY <1>8
<1>10. Acyclic' /\ LinksOK' /\ Linked' = Linked /\ \A h : IsHead(h)' <=> IsHead(h)
    BY <1>2, SameLinks DEF HeapState
<1>11. \A h : Present(h)' <=> Present(h)
    BY <1>2 DEF Present, Maps, VPages
<1>12. pc'[t] = "run" /\ \A u \in Threads \ {t} : pc'[u] = pc[u]
    BY <1>2 DEF FState, PTypes, Goto
<1>13. \A u \in Threads : Busy(u)' \/ pc'[u] = "out" => u # t /\ frm'[u] = frm[u] /\ (Busy(u)' <=> Busy(u))
                          /\ (Storing(u)' \/ Waiting(u)' <=> Storing(u) \/ Waiting(u)) /\ pc'[u] = pc[u]
    BY <1>2, <1>12 DEF Busy, Having, Fresh, Storing, Waiting
<1>14. ASSUME NEW u \in Threads PROVE BusyOK(u)'
    <2>1. PICK h : h = frm'[u]
        OBVIOUS
    <2>2. ASSUME Busy(u)' PROVE h \notin Linked' /\ h \notin ToSet(slabs') /\ IsHead(h)'
        <3>1. u # t /\ h = frm[u] /\ Busy(u)
            BY <1>13, <2>1, <2>2
        <3>2. h \notin Linked /\ h \notin ToSet(slabs) /\ IsHead(h) /\ h # f
            BY <1>1, <1>3, <3>1 DEF HeapState, HandsOK, BusyOK
        <3> QED  BY <1>9, <1>10, <3>2
    <2>3. Storing(u)' \/ Waiting(u)' => Present(h)'
        <3>1. Storing(u)' \/ Waiting(u)' => Busy(u)'
            BY DEF Busy, Having
        <3> QED  BY <1>11, <1>13, <2>1, <3>1 DEF HeapState, HandsOK, BusyOK
    <2>4. pc'[u] = "out" => h \in Linked'
        BY <1>10, <1>13, <2>1 DEF HeapState, HandsOK, BusyOK
    <2> QED  BY <2>1, <2>2, <2>3, <2>4 DEF BusyOK, Present, Maps, IsHead
<1>15. HandsOK'
    <2>1. \A h \in Linked' : Present(h)' /\ h \notin ToSet(slabs')
        BY <1>4, <1>9, <1>10, <1>11 DEF HeapState, HandsOK
    <2>2. \A u, w \in Threads : Busy(u)' /\ Busy(w)' /\ frm'[u] = frm'[w] => u = w
        BY <1>13 DEF HeapState, HandsOK
    <2> QED  BY <1>14, <2>1, <2>2 DEF HandsOK, Present, Maps
<1>16. SlabsOK'
    <2>1. ASSUME NEW i \in 1 .. n + 1 PROVE Maps(i - 1, slabs'[i])
        <3>1. CASE i = n + 1 /\ i - 1 = n
            BY <1>6, <1>7, <1>8, <3>1
        <3>2. CASE i \in 1 .. n
            BY <1>8, <3>2 DEF HeapState, SlabsOK
        <3> QED  BY <1>8, <3>1, <3>2
    <2> QED  BY <1>2, <1>8, <2>1 DEF SlabsOK, Maps
<1> QED  BY <1>2, <1>10, <1>15, <1>16 DEF HeapState, StopOK

\* The last slab's frame is the heap's, and no thread's.
LEMMA LastSlab ==
    ASSUME FState, HeapState, slabs # <<>>
    PROVE  /\ heap_top - 1 \in VPages /\ Maps(heap_top - 1, Last(slabs))
           /\ Last(slabs) \in ToSet(slabs) /\ Last(slabs) \in Pages /\ Last(slabs) \notin Mapping
           /\ ref[Last(slabs)] = 1
<1>1. PICK n \in Nat : n = Len(slabs) /\ n > 0 /\ slabs \in Seq(Pages)
    BY LenProperties, EmptySeq DEF FState, PTypes
<1>2. DOMAIN slabs = 1 .. n /\ n \in 1 .. n /\ Last(slabs) = slabs[n] /\ heap_top = n
    BY <1>1 DEF Last, heap_top
<1>3. PICK w, g : w = n - 1 /\ g = slabs[n] /\ w \in VPages /\ Maps(w, g) /\ g \in Pages
    BY <1>2, SlabEntry DEF HeapState
<1>4. ToSet(slabs) = {slabs[i] : i \in 1 .. n}
    BY <1>1, PagesOf
<1>5. g \in ToSet(slabs)
    BY <1>2, <1>3, <1>4
<1>6. g \notin Mapping
    BY <1>5, NotMapping DEF HeapState
<1>7. ref[g] = 1
    BY <1>3, <1>6, PresentFrame
<1> QED  BY <1>1, <1>2, <1>3, <1>5, <1>6, <1>7

\* free_buddy refuses its frame.
LEMMA FreeSlabHeap ==
    ASSUME FState, HeapState, NEW t \in Threads, _check_free_buddy(t)
    PROVE  HeapState'
<1>1. PICK f : f = Last(slabs)
    OBVIOUS
<1>2. /\ UNCHANGED <<pte, link, clock, slabs, frm>> /\ free_pages(f, ref) /\ slabs # <<>>
      /\ Goto(t, "unmap")
    BY <1>1 DEF _check_free_buddy, mmVars
<1>3. f \in Pages /\ ref[f] = 1
    BY <1>1, <1>2, LastSlab
<1>4. UNCHANGED <<list, held, stop>>
    <2>1. Closed(Pages)
        <3>1. ASSUME NEW s, NEW k, NEW g, NEW h, IsChain(s), Behind(s, k, g, h) PROVE h \in Pages
            <4>1. s \in Seq(Pages) /\ Len(s) \in Nat
                BY <3>1, ChainsTyped, LenProperties DEF FState
            <4>2. k + 1 \in 1 .. Len(s) /\ h = s[k + 1]
                BY <3>1, <4>1 DEF Behind
            <4> QED  BY <4>1, <4>2, ElementOfSeq
        <3>2. \A g \in Pages : link[g] # None => link[g] \in Pages
            BY DEF HeapState, LinksOK
        <3> QED  BY <3>1, <3>2 DEF Closed
    <2>2. Chain(f)[1] = f /\ 1 \in DOMAIN Chain(f)
        BY <1>3, <2>1, ChainIs DEF FState, HeapState, LinksOK
    <2>3. ref[f] > 0
        BY <1>3
    <2>4. \E k \in DOMAIN Chain(f) : ref[Chain(f)[k]] > 0
        BY <2>2, <2>3
    <2> QED  BY <1>2, <2>4 DEF free_pages
<1>5. pc'[t] = "unmap" /\ \A u \in Threads \ {t} : pc'[u] = pc[u]
    BY <1>2 DEF FState, PTypes, Goto
<1>6. \A u \in Threads : /\ Busy(u)' => Busy(u)
                         /\ Storing(u)' \/ Waiting(u)' => Storing(u) \/ Waiting(u)
                         /\ pc'[u] = "out" => pc[u] = "out"
    BY <1>5 DEF Busy, Having, Fresh, Storing, Waiting
<1> QED  BY <1>2, <1>4, <1>6, QuietHeap DEF HeapState, StopOK, HandsOK, BusyOK

\* The sequence of slabs loses its last.
LEMMA ShrinkSlabs ==
    ASSUME slabs \in Seq(Pages), slabs # <<>>, slabs' = Front(slabs), NEW n, n = Len(slabs)
    PROVE  /\ DOMAIN slabs = 1 .. n /\ DOMAIN slabs' = 1 .. n - 1 /\ Last(slabs) = slabs[n]
           /\ \A i \in 1 .. n - 1 : slabs'[i] = slabs[i] /\ i \in 1 .. n /\ i - 1 # n - 1
           /\ ToSet(slabs') \subseteq ToSet(slabs)
<1>1. n \in Nat /\ n > 0 /\ DOMAIN slabs = 1 .. n
    BY LenProperties, EmptySeq
<1>2. slabs' = SubSeq(slabs, 1, n - 1) /\ Last(slabs) = slabs[n]
    BY <1>1 DEF Front, Last
<1>3. slabs' \in Seq(Pages) /\ Len(slabs') = n - 1 /\ \A i \in 1 .. n - 1 : slabs'[i] = slabs[i]
    <2>1. \A k \in 1 .. n - 1 : slabs[k] \in Pages
        BY <1>1, ElementOfSeq
    <2> QED  BY <1>1, <1>2, <2>1
<1>4. \A i \in 1 .. n - 1 : i \in 1 .. n /\ i - 1 # n - 1
    BY <1>1
<1>5. DOMAIN slabs' = 1 .. n - 1
    BY <1>1, <1>3
<1>6. ToSet(slabs) = {slabs[i] : i \in 1 .. n} /\ ToSet(slabs') = {slabs'[i] : i \in 1 .. n - 1}
    BY <1>1, <1>3, PagesOf
<1> QED  BY <1>1, <1>2, <1>3, <1>4, <1>5, <1>6

\* The last slab goes.
LEMMA UnmapSlabHeap ==
    ASSUME FState, HeapState, NEW t \in Threads, unmap_slab(t)
    PROVE  HeapState'
<1>1. /\ pc[t] = "unmap" /\ unmap(heap_top - 1) /\ slabs' = Front(slabs) /\ Goto(t, "run")
      /\ UNCHANGED <<list, held, link, clock, frm, stop>>
    BY DEF unmap_slab, hist
<1>2. slabs # <<>> /\ slabs \in Seq(Pages)
    BY <1>1 DEF FState, UnmapOK, PTypes
<1>3. PICK v, f : v = heap_top - 1 /\ f = Last(slabs)
    OBVIOUS
<1>4. v \in VPages /\ Maps(v, f) /\ f \in ToSet(slabs)
    BY <1>2, <1>3, LastSlab
<1>5. pte' = [pte EXCEPT ![v] = Zero]
    BY <1>1, <1>3 DEF unmap
<1>6. \A w \in VPages \ {v} : pte'[w] = pte[w]
    BY <1>5 DEF FState, PTypes
<1>7. PICK n : n = Len(slabs) /\ v = n - 1
    BY <1>3 DEF heap_top
<1>8. /\ DOMAIN slabs = 1 .. n /\ DOMAIN slabs' = 1 .. n - 1
      /\ \A i \in 1 .. n - 1 : slabs'[i] = slabs[i] /\ i \in 1 .. n /\ i - 1 # n - 1
      /\ ToSet(slabs') \subseteq ToSet(slabs)
    BY <1>1, <1>2, <1>7, ShrinkSlabs
<1>9. ASSUME NEW h, Present(h), h \notin ToSet(slabs) PROVE Present(h)'
    <2>1. PICK w \in VPages : Maps(w, h)
        BY <1>9 DEF Present
    <2>2. w # v
        BY <1>4, <1>9, <2>1 DEF Maps
    <2>3. Maps(w, h)'
        BY <1>6, <2>1, <2>2 DEF Maps
    <2> QED  BY <2>3 DEF Present, VPages
<1>10. Acyclic' /\ LinksOK' /\ Linked' = Linked /\ \A h : IsHead(h)' <=> IsHead(h)
    BY <1>1, SameLinks DEF HeapState
<1>11. pc'[t] = "run" /\ \A u \in Threads \ {t} : pc'[u] = pc[u]
    BY <1>1 DEF FState, PTypes, Goto
<1>12. \A u \in Threads : /\ Busy(u)' => Busy(u)
                          /\ Storing(u)' \/ Waiting(u)' => Storing(u) \/ Waiting(u)
                          /\ pc'[u] = "out" => pc[u] = "out"
    BY <1>11 DEF Busy, Having, Fresh, Storing, Waiting
<1>13. ASSUME NEW u \in Threads PROVE BusyOK(u)'
    <2>1. PICK h : h = frm'[u] /\ h = frm[u]
        BY <1>1
    <2>2. Busy(u)' => h \notin Linked' /\ h \notin ToSet(slabs) /\ h \notin ToSet(slabs') /\ IsHead(h)'
        BY <1>8, <1>10, <1>12, <2>1 DEF HeapState, HandsOK, BusyOK
    <2>3. Storing(u)' \/ Waiting(u)' => Present(h)'
        <3>1. Storing(u)' \/ Waiting(u)' => Busy(u)'
            BY DEF Busy, Having
        <3>2. Storing(u)' \/ Waiting(u)' => Present(h)
            BY <1>12, <2>1 DEF HeapState, HandsOK, BusyOK
        <3> QED  BY <1>9, <2>2, <3>1, <3>2
    <2>4. pc'[u] = "out" => h \in Linked'
        BY <1>10, <1>12, <2>1 DEF HeapState, HandsOK, BusyOK
    <2> QED  BY <2>1, <2>2, <2>3, <2>4 DEF BusyOK, Present, Maps, IsHead
<1>14. HandsOK'
    <2>1. \A h \in Linked' : Present(h)' /\ h \notin ToSet(slabs')
        BY <1>8, <1>9, <1>10 DEF HeapState, HandsOK
    <2>2. \A u, w \in Threads : Busy(u)' /\ Busy(w)' /\ frm'[u] = frm'[w] => u = w
        BY <1>1, <1>12 DEF HeapState, HandsOK
    <2> QED  BY <1>13, <2>1, <2>2 DEF HandsOK, Present, Maps
<1>15. SlabsOK'
    <2>1. ASSUME NEW i \in 1 .. n - 1 PROVE Maps(i - 1, slabs[i])' /\ slabs'[i] = slabs[i]
        <3>1. i \in DOMAIN slabs
            BY <1>8
        <3>2. PICK w, g : w = i - 1 /\ g = slabs[i] /\ w \in VPages /\ Maps(w, g)
            BY <3>1, SlabEntry DEF HeapState
        <3>3. w # v /\ slabs'[i] = g
            BY <1>7, <1>8, <3>2
        <3>4. pte'[w].p /\ pte'[w].frame = g
            BY <1>6, <3>2, <3>3 DEF Maps
        <3> QED  BY <3>2, <3>3, <3>4 DEF Maps
    <2> QED  BY <1>8, <2>1 DEF SlabsOK
<1> QED  BY <1>1, <1>10, <1>14, <1>15 DEF HeapState, StopOK

\* The frame of a thread joins the list.
LEMMA JoinHeap ==
    ASSUME FState, HeapState, NEW t \in Threads, Waiting(t), Acyclic',
           link' \in [Pages -> Pages \cup {None}], Linked' = Linked \cup {frm[t]},
           \A p \in Pages : link'[p] # None => \E b \in Listed : p \in ToSet(b.pages),
           UNCHANGED <<list, held, pte, slabs, frm, stop>>, Goto(t, "access")
    PROVE  HeapState'
<1>1. PICK f : f = frm[t]
    OBVIOUS
<1>2. Busy(t) /\ f \notin Linked /\ f \notin ToSet(slabs) /\ Present(f) /\ IsHead(f)
    BY <1>1 DEF HeapState, HandsOK, BusyOK, Busy
<1>3. pc'[t] = "access" /\ \A u \in Threads \ {t} : pc'[u] = pc[u]
    BY DEF FState, PTypes, Goto
<1>4. \A h : (Present(h)' <=> Present(h)) /\ (IsHead(h)' <=> IsHead(h))
    BY DEF Present, Maps, VPages, IsHead
<1>5. LinksOK'
    <2>1. \A h \in Linked' : IsHead(h)'
        BY <1>1, <1>2, <1>4 DEF HeapState, LinksOK
    <2>2. \A b \in Listed : b \in Listed'
        BY DEF Listed
    <2>3. \A p \in Pages : link'[p] # None => \E b \in Listed' : p \in ToSet(b.pages)
        BY <2>2
    <2> QED  BY <2>1, <2>3 DEF LinksOK, Pages
<1>6. \A u \in Threads : /\ Busy(u)' => u # t /\ Busy(u)
                         /\ Storing(u)' \/ Waiting(u)' => Storing(u) \/ Waiting(u)
                         /\ pc'[u] = "out" => pc[u] = "out"
    BY <1>3 DEF Busy, Having, Fresh, Storing, Waiting
<1>7. ASSUME NEW u \in Threads PROVE BusyOK(u)'
    <2>1. PICK h : h = frm'[u] /\ h = frm[u]
        OBVIOUS
    <2>2. Busy(u)' => h \notin Linked' /\ h \notin ToSet(slabs') /\ IsHead(h)'
        <3>1. Busy(u)' => h # f
            BY <1>1, <1>2, <1>6, <2>1 DEF HeapState, HandsOK
        <3> QED  BY <1>1, <1>4, <1>6, <2>1, <3>1 DEF HeapState, HandsOK, BusyOK
    <2>3. Storing(u)' \/ Waiting(u)' => Present(h)'
        BY <1>4, <1>6, <2>1 DEF HeapState, HandsOK, BusyOK
    <2>4. pc'[u] = "out" => h \in Linked'
        BY <1>6, <2>1 DEF HeapState, HandsOK, BusyOK
    <2> QED  BY <2>1, <2>2, <2>3, <2>4 DEF BusyOK, Present, Maps, IsHead
<1>8. HandsOK'
    <2>1. \A h \in Linked' : Present(h)' /\ h \notin ToSet(slabs')
        BY <1>1, <1>2, <1>4 DEF HeapState, HandsOK
    <2>2. \A u, w \in Threads : Busy(u)' /\ Busy(w)' /\ frm'[u] = frm'[w] => u = w
        BY <1>6 DEF HeapState, HandsOK
    <2> QED  BY <1>7, <2>1, <2>2 DEF HandsOK, Present, Maps
<1>9. SlabsOK' /\ StopOK'
    BY DEF HeapState, SlabsOK, StopOK, Maps
<1> QED  BY <1>5, <1>8, <1>9 DEF HeapState

\* map_swappable finds the end of the list in a block in use that is not the
\* new one.
LEMMA SwappableHeap ==
    ASSUME FState, HeapState, NEW t \in Threads, map_swappable(t)
    PROVE  HeapState'
<1>1. PICK f : f = frm[t]
    OBVIOUS
<1>2. Waiting(t) /\ Goto(t, "access") /\ UNCHANGED <<list, held, pte, slabs, frm>>
    BY DEF map_swappable, Waiting, vars
<1>3. f \notin Linked /\ Present(f) /\ IsHead(f)
    BY <1>1, <1>2 DEF HeapState, HandsOK, BusyOK, Busy
<1>4. f \in Pages /\ f # None
    BY <1>3, PresentFrame, PagingAssumption DEF Present
<1>5. BInv /\ Acyclic /\ LinksOK /\ link \in [Pages -> Pages \cup {None}]
    BY DEF FState, HeapState, LinksOK
<1>6. CASE clock = None
    <2>1. clock' = f /\ UNCHANGED <<link, stop>>
        BY <1>1, <1>6 DEF map_swappable, AppendClock
    <2>2. Linked' = Linked \cup {f}
        BY <1>4, <1>6, <2>1 DEF Linked, Pages
    <2>3. Acyclic'
        BY <1>2, <1>5, <2>1 DEF Acyclic, Ranked, Pages, Levels
    <2>4. \A p \in Pages : link'[p] # None => \E b \in Listed : p \in ToSet(b.pages)
        BY <1>5, <2>1 DEF LinksOK
    <2> QED  BY <1>1, <1>2, <1>5, <2>1, <2>2, <2>3, <2>4, JoinHeap
<1>7. CASE clock # None
    <2>1. PICK tail : tail = Last(Chain(clock))
        OBVIOUS
    <2>2. PICK S : S = UNION {ToSet(b.pages) : b \in Listed}
        OBVIOUS
    <2>3. Closed(S) /\ Linked \subseteq S /\ S \subseteq InHands /\ S \subseteq Pages
        BY <1>5, <2>2, ListClosed, HandsPages
    <2>4. clock \in S
        BY <1>7, <2>3 DEF Linked
    <2>5. tail \in S /\ next(tail) = None
        BY <1>5, <2>1, <2>3, <2>4, ChainIs
    <2>6. tail \in Pages /\ tail \notin InTable
        BY <1>5, <2>3, <2>5, TableApart
    <2>7. link[tail] = None
        <3>1. ASSUME next(tail) \in Pages PROVE FALSE
            BY <2>5, <3>1, PagingAssumption
        <3> QED  BY <1>5, <2>5, <3>1, NextCases
    <2>8. PICK b \in held : Head(b.pages) = f
        BY <1>3 DEF IsHead
    <2>9. Closed(ToSet(b.pages)) /\ f \in ToSet(b.pages) /\ ToSet(b.pages) \subseteq Pages
        BY <1>3, <1>5, <2>8, LooseClosed, HeadHeld, HandsHave, HandsPages
    <2>10. \A p : Contains(Chain(f), p) => p \in ToSet(b.pages)
        BY <1>5, <2>9, ChainIs
    <2>11. PICK c \in Listed : tail \in ToSet(c.pages)
        BY <2>2, <2>5
    <2>12. tail \notin ToSet(b.pages)
        <3>1. c \in held /\ Head(c.pages) \in Linked
            BY DEF Listed
        <3> QED  BY <1>3, <1>5, <2>8, <2>11, <3>1, OneHead
    <2>13. ~ Contains(Chain(f), tail)
        BY <2>10, <2>12
    <2>14. link' = [link EXCEPT ![tail] = f] /\ UNCHANGED <<clock, stop>>
        BY <1>1, <1>7, <2>1, <2>6, <2>13 DEF map_swappable, AppendClock
    <2>15. link'[tail] = f /\ \A p \in Pages \ {tail} : link'[p] = link[p]
        BY <1>5, <2>6, <2>14
    <2>16. link' \in [Pages -> Pages \cup {None}]
        BY <1>4, <1>5, <2>14
    <2>17. Linked' = Linked \cup {f}
        <3>1. {link'[p] : p \in Pages} \cup {None} = {link[p] : p \in Pages} \cup {f, None}
            BY <2>6, <2>7, <2>15
        <3>2. Linked' = ({clock'} \cup {link'[p] : p \in Pages}) \ {None}
            BY DEF Linked, Pages
        <3> QED  BY <1>4, <2>14, <3>1, <3>2 DEF Linked
    <2>18. Acyclic'
        BY <1>2, <1>3, <1>5, <2>6, <2>8, <2>12, <2>14, LinkAcyclic
    <2>19. \A p \in Pages : link'[p] # None => \E d \in Listed : p \in ToSet(d.pages)
        BY <1>5, <2>11, <2>15 DEF LinksOK
    <2> QED  BY <1>1, <1>2, <2>14, <2>16, <2>17, <2>18, <2>19, JoinHeap
<1> QED  BY <1>6, <1>7

\* The hand of the clock stays where it is: the first page that it looks at is
\* busy.
LEMMA VictimHeap ==
    ASSUME FState, HeapState, NEW t \in Threads, swap_out_victim(t), stop = "no"
    PROVE  HeapState'
<1>1. pc[t] = "run" /\ UNCHANGED <<list, held, link, pte, slabs>>
    BY DEF swap_out_victim, vars
<1>2. BInv /\ Acyclic /\ LinksOK /\ link \in [Pages -> Pages \cup {None}]
    BY DEF FState, HeapState, LinksOK
<1>3. CASE clock = None
    <2>1. clock' = None /\ stop' = "no pages can be swap out" /\ UNCHANGED <<pc, frm>>
        <3>1. ASSUME NEW seen, seen = <<>>
              PROVE  {i \in DOMAIN seen : flags[seen[i]] = "BUSY"} = {}
            BY <3>1
        <3> QED  BY <1>3, <3>1 DEF swap_out_victim
    <2> QED  BY <1>1, <1>3, <2>1, QuietHeap DEF StopOK, Busy, Having, Waiting, Fresh, Storing, HeapState, HandsOK, BusyOK
<1>4. CASE clock # None
    <2>1. PICK seen, busy : seen = Chain(clock) /\ busy = {i \in DOMAIN seen : flags[seen[i]] = "BUSY"}
        OBVIOUS
    <2>2. PICK S : S = UNION {ToSet(b.pages) : b \in Listed}
        OBVIOUS
    <2>3. Closed(S) /\ Linked \subseteq S /\ S \subseteq InHands /\ S \subseteq Pages /\ clock \in Linked
        BY <1>2, <1>4, <2>2, ListClosed, HandsPages DEF Linked
    <2>4. seen \in Seq(S) /\ seen[1] = clock /\ 1 \in DOMAIN seen
        BY <1>2, <2>1, <2>3, ChainIs
    <2>5. flags[clock] = "BUSY"
        BY <1>2, <2>3 DEF BInv, MarksInv
    <2>6. 1 \in busy /\ busy \subseteq Nat /\ \A i \in busy : 1 <= i
        BY <2>1, <2>4, <2>5
    <2>7. Min(busy) = 1
        <3>1. PICK x : x = Min(busy)
            OBVIOUS
        <3>2. x \in busy /\ \A y \in busy : x <= y
            BY <2>6, <3>1, MinIs
        <3>3. x \in Nat /\ x <= 1 /\ 1 <= x
            BY <2>6, <3>2
        <3> QED  BY <3>1, <3>3
    <2>8. busy # {}
        BY <2>6
    <2>9. /\ clock' = seen[Min(busy)] /\ frm' = [frm EXCEPT ![t] = seen[Min(busy)]]
          /\ Goto(t, "out") /\ UNCHANGED stop
        BY <1>4, <2>1, <2>8 DEF swap_out_victim
    <2>10. clock' = clock /\ frm' = [frm EXCEPT ![t] = clock]
        BY <2>4, <2>7, <2>9
    <2>11. /\ pc'[t] = "out" /\ frm'[t] = clock
           /\ \A u \in Threads \ {t} : pc'[u] = pc[u] /\ frm'[u] = frm[u]
        BY <2>9, <2>10 DEF FState, PTypes, Goto
    <2>12. \A u \in Threads : /\ Busy(u)' => Busy(u) /\ frm'[u] = frm[u]
                              /\ Storing(u)' \/ Waiting(u)' => Storing(u) \/ Waiting(u)
        BY <2>11 DEF Busy, Having, Fresh, Storing, Waiting
    <2>13. \A u \in Threads : pc'[u] = "out" => frm'[u] \in Linked
        BY <2>3, <2>11 DEF HeapState, HandsOK, BusyOK
    <2> QED  BY <1>1, <2>9, <2>10, <2>12, <2>13, QuietHeap DEF StopOK, HeapState
<1> QED  BY <1>3, <1>4

\* swap_out finds its victim mapped, so it frees it or is refused.
LEMMA OutHeap ==
    ASSUME FState, HeapState, NEW t \in Threads, swap_out(t), past' \subseteq {"crossed"}
    PROVE  FALSE
<1>1. PICK f, v : f = frm[t] /\ v = va[f]
    OBVIOUS
<1>2. f \in Linked
    BY <1>1 DEF swap_out, swap_out_as, HeapState, HandsOK, BusyOK
<1>3. PICK w \in VPages : Maps(w, f)
    BY <1>2 DEF HeapState, HandsOK, Present
<1>4. f \notin Mapping
    BY <1>2, NotMapping DEF HeapState
<1>5. v = w
    BY <1>1, <1>3, <1>4, PresentFrame
<1>6. v # None /\ pte[v].p
    BY <1>3, <1>5, PagingAssumption DEF Maps
<1>7. past' = past \cup Crossing(t) \cup {IF held' = held THEN "refused" ELSE "evicted"}
    BY <1>1, <1>6 DEF swap_out, swap_out_as
<1> QED  BY <1>7

\* A thread comes to a fault, leaves it or looks up the entry.
LEMMA WalkHeap ==
    ASSUME FState, HeapState, NEW t \in Threads,
           (\E v \in VPages : Touch(t, v)) \/ Access(t) \/ do_pgfault(t)
    PROVE  HeapState'
<1>1. UNCHANGED <<list, held, link, clock, pte, slabs, stop>>
    BY DEF Touch, Access, do_pgfault, vars, mmVars, hist
<1>2. PICK l \in {"run", "fault", "access", "nested", "new", "swap_in"} : Goto(t, l)
    <2>1. Branch(getpte(at[t])) \in {"nested", "new", "swap_in"}
        BY DEF Branch
    <2> QED  BY <2>1 DEF Touch, Access, do_pgfault, Done
<1>3. pc'[t] = l /\ \A u \in Threads \ {t} : pc'[u] = pc[u]
    BY <1>2 DEF FState, PTypes, Goto
<1>4. frm' = frm \/ frm' = [frm EXCEPT ![t] = None]
    BY DEF Touch, Access, do_pgfault, Done
<1>5. \A u \in Threads \ {t} : frm'[u] = frm[u]
    BY <1>4 DEF FState, PTypes
<1>6. \A u \in Threads : /\ Busy(u)' => Busy(u) /\ frm'[u] = frm[u]
                         /\ Storing(u)' \/ Waiting(u)' => Storing(u) \/ Waiting(u)
    BY <1>3, <1>5 DEF Busy, Having, Fresh, Storing, Waiting
<1>7. \A u \in Threads : pc'[u] = "out" => frm'[u] \in Linked
    BY <1>3, <1>5 DEF HeapState, HandsOK, BusyOK
<1> QED  BY <1>1, <1>6, <1>7, QuietHeap DEF HeapState, StopOK

\* map counts the frame, or stores its address before map_swappable.
LEMMA StoreHeap ==
    ASSUME FState, HeapState, NEW t \in Threads, Storing(t), NEW l \in {"address", "slab address", "swappable"},
           Goto(t, l), UNCHANGED <<list, held, link, clock, pte, slabs, frm, stop>>
    PROVE  HeapState'
<1>1. pc'[t] = l /\ \A u \in Threads \ {t} : pc'[u] = pc[u]
    BY DEF FState, PTypes, Goto
<1>2. \A u \in Threads : /\ Busy(u)' => Busy(u)
                         /\ Storing(u)' \/ Waiting(u)' => Storing(u) \/ Waiting(u)
                         /\ pc'[u] = "out" => pc[u] = "out"
    BY <1>1 DEF Busy, Having, Fresh, Storing, Waiting
<1> QED  BY <1>2, QuietHeap DEF HeapState, StopOK, HandsOK, BusyOK

LEMMA StillHeap ==
    ASSUME HeapState, UNCHANGED <<list, held, link, clock, pte, slabs, pc, frm>>, StopOK'
    PROVE  HeapState'
<1>1. \A u \in Threads : (Busy(u)' <=> Busy(u)) /\ (Storing(u)' <=> Storing(u)) /\ (Waiting(u)' <=> Waiting(u))
    BY DEF Busy, Having, Fresh, Storing, Waiting
<1>2. \A u \in Threads : pc'[u] = "out" => frm'[u] \in Linked
    BY DEF HeapState, HandsOK, BusyOK
<1> QED  BY <1>1, <1>2, QuietHeap

LEMMA MemoryHeap ==
    ASSUME HeapState, OutOfMemory, UNCHANGED <<link, clock, pte, slabs, pc, frm>>
    PROVE  HeapState'
<1>1. UNCHANGED <<list, held>> /\ StopOK'
    BY DEF OutOfMemory, AllocFails, StopOK
<1> QED  BY <1>1, StillHeap

LEMMA GetFrameHeap ==
    ASSUME FState, HeapState, NEW t \in Threads, NEW from \in {"new", "swap_in", "run"},
           NEW to \in {"map", "slab"}, GetFrame(t, from, to)
    PROVE  HeapState'
<1>1. UNCHANGED <<link, clock, pte, slabs>>
    BY DEF GetFrame, mmVars
<1>2. CASE OutOfMemory /\ UNCHANGED <<pc, frm>>
    BY <1>1, <1>2, MemoryHeap
<1>3. CASE /\ alloc_buddy(1) /\ frm' = [frm EXCEPT ![t] = Got] /\ Goto(t, to) /\ UNCHANGED stop
    <2>1. /\ pc'[t] = to /\ frm'[t] = Got
          /\ \A u \in Threads \ {t} : pc'[u] = pc[u] /\ frm'[u] = frm[u]
        BY <1>3 DEF FState, PTypes, Goto
    <2>2. ~Storing(t)' /\ ~Waiting(t)' /\ pc'[t] # "out"
        BY <2>1 DEF Storing, Waiting
    <2> QED  BY <1>1, <1>3, <2>1, <2>2, AllocHeap
<1> QED  BY <1>2, <1>3 DEF GetFrame

LEMMA MapHeap ==
    ASSUME FState, HeapState, NEW t \in Threads, map(t), "over" \notin past'
    PROVE  HeapState'
<1>1. CASE pc[t] = "map" /\ StoreEntry(t, at[t], "count")
    <2>1. PICK v \in VPages : v = at[t]
        BY <1>1 DEF FState, PTypes, Faulting
    <2>2. Fresh(t) /\ StoreEntry(t, v, "count")
        BY <1>1, <2>1 DEF Fresh
    <2>3. PICK l \in {"count", "slab count"} : l = "count"
        OBVIOUS
    <2>4. StoreEntry(t, v, l)
        BY <2>2, <2>3
    <2> QED  BY <2>2, <2>4, EntryHeap
<1>2. CASE pc[t] = "count" /\ StoreCount(t, "address")
    <2>1. Storing(t) /\ Goto(t, "address") /\ UNCHANGED <<list, held, link, clock, pte, slabs, frm, stop>>
        BY <1>2 DEF StoreCount, mmVars, hist, Storing
    <2> QED  BY <2>1, StoreHeap
<1>3. CASE /\ pc[t] = "address" /\ StoreAddress(t, at[t])
           /\ Goto(t, "swappable") /\ UNCHANGED <<slabs, at, frm>>
    <2>1. Storing(t) /\ Goto(t, "swappable") /\ UNCHANGED <<list, held, link, clock, pte, slabs, frm, stop>>
        BY <1>3 DEF StoreAddress, vars, hist, Storing
    <2> QED  BY <2>1, StoreHeap
<1> QED  BY <1>1, <1>2, <1>3 DEF map

LEMMA SlabHeap ==
    ASSUME FState, HeapState, NEW t \in Threads, map_slab(t), "over" \notin past', "raced" \notin past'
    PROVE  HeapState'
<1>1. PICK v : v = heap_top /\ map_slab_at(t, v)
    BY DEF map_slab
<1>2. CASE pc[t] = "slab" /\ StoreEntry(t, v, "slab count")
    <2>1. Fresh(t) /\ Having(t) /\ Target(t) = v
        BY <1>1, <1>2 DEF Fresh, Having, Target, SlabPlaces
    <2>2. v \in VPages
        BY <2>1, TargetIn
    <2>3. PICK l \in {"count", "slab count"} : l = "slab count"
        OBVIOUS
    <2>4. StoreEntry(t, v, l)
        BY <1>2, <2>3
    <2> QED  BY <2>1, <2>2, <2>4, EntryHeap
<1>3. CASE pc[t] = "slab count" /\ StoreCount(t, "slab address")
    <2>1. Storing(t) /\ Goto(t, "slab address") /\ UNCHANGED <<list, held, link, clock, pte, slabs, frm, stop>>
        BY <1>3 DEF StoreCount, mmVars, hist, Storing
    <2> QED  BY <2>1, StoreHeap
<1>4. CASE /\ pc[t] = "slab address" /\ StoreAddress(t, v) /\ Done(t)
           /\ slabs' = Append(slabs, frm[t])
    BY <1>1, <1>4, GrowHeap
<1>5. CASE /\ UNCHANGED <<pte, slabs, at, link, clock, cached>> /\ pc[t] = "slab"
           /\ NewTable(v) /\ UNCHANGED <<pc, frm, past>>
    <2>1. alloc_buddy(1) /\ UNCHANGED stop
        BY <1>5 DEF NewTable
    <2> QED  BY <1>5, <2>1, AllocHeap
<1>6. CASE /\ UNCHANGED <<pte, slabs, at, link, clock, cached>>
           /\ OutOfMemory /\ UNCHANGED <<tables, va, pc, frm, past>>
    BY <1>6, MemoryHeap
<1> QED  BY <1>1, <1>2, <1>3, <1>4, <1>5, <1>6 DEF map_slab_at

LEMMA HeapHandle ==
    ASSUME FState, HeapState, NEW t \in Threads, Handle(t), past' \subseteq {"crossed"}
    PROVE  HeapState'
<1>1. ASSUME NEW from \in {"new", "swap_in"}, GetFrame(t, from, "map") PROVE HeapState'
    <2>1. PICK a \in {"new", "swap_in", "run"} : a = from
        BY <1>1
    <2>2. PICK b \in {"map", "slab"} : b = "map"
        OBVIOUS
    <2> QED  BY <1>1, <2>1, <2>2, GetFrameHeap
<1>2. ASSUME NEW from, NEW u, SameFrame(t, u, from, "map") PROVE FALSE
    BY <1>2 DEF SameFrame
<1>3. ASSUME NEW u, SameTail(t, u) PROVE FALSE
    BY <1>3 DEF SameTail
<1>4. "over" \notin past' /\ "raced" \notin past'
    OBVIOUS
<1> QED  BY <1>1, <1>2, <1>3, <1>4, WalkHeap, MapHeap, SwappableHeap, OutHeap, SlabHeap, UnmapSlabHeap
         DEF Handle

LEMMA HeapStart ==
    ASSUME FState, HeapState, NEW t \in Threads, Start(t), stop = "no", past' \subseteq {"crossed"}
    PROVE  HeapState'
<1>1. ASSUME NEW v \in VPages, Touch(t, v) PROVE HeapState'
    BY <1>1, WalkHeap
<1>2. ASSUME GetFrame(t, "run", "slab") PROVE HeapState'
    <2>1. PICK a \in {"new", "swap_in", "run"} : a = "run"
        OBVIOUS
    <2>2. PICK b \in {"map", "slab"} : b = "slab"
        OBVIOUS
    <2> QED  BY <1>2, <2>1, <2>2, GetFrameHeap
<1>3. ASSUME NEW u, SameFrame(t, u, "run", "slab") PROVE FALSE
    BY <1>3 DEF SameFrame
<1> QED  BY <1>1, <1>2, <1>3, VictimHeap, FreeSlabHeap DEF Start

LEMMA HeapNext ==
    ASSUME FramesInv, HeapInv, [PNext]_pgVars
    PROVE  HeapInv'
<1>1. CASE UNCHANGED pgVars
    <2>1. UNCHANGED <<list, held, link, clock, pte, slabs, pc, frm, past, stop>>
        BY <1>1 DEF pgVars, vars, mmVars, hist
    <2>2. HeapState => HeapState'
        BY <2>1, StillHeap DEF HeapState, StopOK
    <2> QED  BY <2>1, <2>2 DEF HeapInv
<1>2. CASE PNext
    <2>1. SUFFICES ASSUME past' \subseteq {"crossed"} PROVE HeapState'
        BY DEF HeapInv
    <2>2. past \subseteq {"crossed"} /\ stop = "no"
        BY <1>2, <2>1, PastGrows DEF PNext
    <2>3. FState /\ HeapState
        BY <2>2 DEF FramesInv, Undisturbed, HeapInv
    <2>4. CASE printk_fails
        BY <2>3, <2>4, StillHeap DEF printk_fails, vars, mmVars, StopOK
    <2>5. CASE lists_torn
        BY <2>1, <2>5 DEF lists_torn
    <2> QED  BY <1>2, <2>1, <2>2, <2>3, <2>4, <2>5, HeapHandle, HeapStart DEF PNext
<1> QED  BY <1>1, <1>2

LEMMA HeapInit == ASSUME PInit PROVE HeapState
<1>1. /\ link = [p \in Pages |-> None] /\ clock = None /\ slabs = <<>> /\ stop = "no" /\ held = {}
      /\ \A t \in Threads : pc[t] = "run"
    BY DEF PInit, Init
<1>2. Linked = {}
    BY <1>1 DEF Linked
<1>3. LinksOK /\ SlabsOK /\ StopOK
    BY <1>1, <1>2 DEF LinksOK, SlabsOK, StopOK
<1>4. HandsOK
    BY <1>1, <1>2 DEF HandsOK, BusyOK, Busy, Having, Storing, Waiting, Fresh
<1>5. Acyclic
    <2>1. NPages \in Nat
        BY BuddyAssumption
    <2>2. PICK r : r = [p \in Pages |-> NPages - p]
        OBVIOUS
    <2>3. r \in [Pages -> 0 .. NPages]
        <3>1. \A p \in Pages : NPages - p \in 0 .. NPages
            BY <2>1 DEF Pages
        <3> QED  BY <2>2, <3>1
    <2>4. Laid(list, NPages)
        BY InitLaid DEF PInit
    <2>5. ASSUME NEW l \in Levels PROVE Falls(r, list[l])
        <3>1. PICK s : s = list[l]
            OBVIOUS
        <3>2. Rising(s) /\ s \in Seq(Pages)
            <4>1. CASE s = <<>>
                BY <2>4, <3>1, <4>1 DEF Laid
            <4>2. CASE s # <<>>
                BY <2>4, <3>1, <4>2 DEF Laid, Block
            <4> QED  BY <4>1, <4>2
        <3>3. ASSUME NEW k \in 1 .. Len(s) - 1 PROVE r[s[k + 1]] < r[s[k]]
            <4>1. PICK p, q : p = s[k] /\ q = s[k + 1] /\ q = p + 1
                BY <3>2 DEF Rising
            <4>2. p \in Pages /\ q \in Pages
                <5>1. Len(s) \in Nat
                    BY <3>2, LenProperties
                <5>2. k \in 1 .. Len(s) /\ k + 1 \in 1 .. Len(s)
                    BY <5>1
                <5> QED  BY <3>2, <4>1, <5>2, ElementOfSeq
            <4>3. r[p] = NPages - p /\ r[q] = NPages - q /\ p \in Nat
                BY <2>2, <4>2 DEF Pages
            <4> QED  BY <2>1, <4>1, <4>3
        <3> QED  BY <3>1, <3>3 DEF Falls
    <2>6. Ranked(r)
        BY <1>1, <2>5 DEF Ranked
    <2> QED  BY <2>1, <2>3, <2>6 DEF Acyclic
<1> QED  BY <1>3, <1>4, <1>5 DEF HeapState

LEMMA HeapStaysInv == FramesInv /\ HeapInv => HeapStays
<1> SUFFICES ASSUME FramesInv, HeapInv, past \subseteq {"crossed"}
             PROVE  /\ StopOK
                    /\ \A i \in DOMAIN slabs : pte[i - 1] = [frame |-> slabs[i], p |-> TRUE]
    BY DEF HeapStays, StopOK
<1>1. FState /\ HeapState
    BY DEF FramesInv, Undisturbed, HeapInv
<1>2. ASSUME NEW i \in DOMAIN slabs PROVE pte[i - 1] = [frame |-> slabs[i], p |-> TRUE]
    <2>1. PICK w, g : w = i - 1 /\ g = slabs[i] /\ w \in VPages /\ Maps(w, g)
        BY <1>1, SlabEntry DEF HeapState
    <2>2. pte[w] = [frame |-> g, p |-> TRUE]
        BY <1>1, <2>1, MapsIs DEF FState
    <2> QED  BY <2>1, <2>2
<1> QED  BY <1>1, <1>2 DEF HeapState

\* Until a page has been swapped out or mapped over, or two calls have raced,
\* the heap's pages stay mapped where apply_slab put them, no walk over the
\* clock list goes wrong, and the kernel stops only for lack of memory, for lack
\* of a page to swap out or for the console lock (slab.c, swapmm.c, vmm.c).
THEOREM HeapStaysCorrect == PSpec => []HeapStays
<1>1. PInit => HeapInv
    BY HeapInit DEF HeapInv
<1>2. FramesInv /\ HeapInv /\ [PNext]_pgVars => HeapInv'
    BY HeapNext
<1> QED  BY <1>1, <1>2, HeapStaysInv, FramesAlways, PTL DEF PSpec
=============================================================================
