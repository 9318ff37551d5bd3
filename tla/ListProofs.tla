----------------------------- MODULE ListProofs -----------------------------
(***************************************************************************)
(* libs/list.h, for every set of nodes and every set of lists: the         *)
(* pointers of a list spell a sequence, and each operation does to the     *)
(* pointers what its name says of the sequence.                            *)
(*                                                                         *)
(* Then the ready list, for every number of threads: the timer interrupts  *)
(* the four stores with which kthread_create appends a thread, and neither *)
(* loses a thread nor finds the list in a state that RoundRobin has not.   *)
(***************************************************************************)
EXTENDS KListRef, ReadyList, CommonLemmas, FiniteSetTheorems

(***************************************************************************)
(* A list is a ring                                                        *)
(***************************************************************************)

\* The nodes of a list in order, the head at both ends: position 0 and the one
\* behind the last.
Ring(l, s, i) == IF i \in 1 .. Len(s) THEN s[i] ELSE l

\* The pointers spell s: each node points to the next and back.
Spells(h, l, s) ==
    \A i \in 0 .. Len(s) : /\ h.next[Ring(l, s, i)] = Ring(l, s, i + 1)
                           /\ h.prev[Ring(l, s, i + 1)] = Ring(l, s, i)

\* Two pointer fields for every node.
Pointers(h) ==
    /\ h = [next |-> h.next, prev |-> h.prev]
    /\ h.next \in [AllNodes -> AllNodes] /\ h.prev \in [AllNodes -> AllNodes]

\* Every list is spelled, has no node twice, and shares none with another.
RingInv ==
    /\ Pointers(heap)
    /\ seq \in [Heads -> Seq(Nodes)]
    /\ \A l \in Heads : Distinct(seq[l]) /\ Spells(heap, l, seq[l])
    /\ \A l, m \in Heads : l # m => \A i \in 1 .. Len(seq[l]) : Absent(seq[m], seq[l][i])

LEMMA RingIs ==
    ASSUME NEW l \in Heads, NEW s \in Seq(Nodes)
    PROVE  /\ Len(s) \in Nat
           /\ \A i \in 1 .. Len(s) : s[i] \in Nodes /\ s[i] # l /\ s[i] # NULL
           /\ \A i \in 1 .. Len(s) : Ring(l, s, i) = s[i]
           /\ Ring(l, s, 0) = l /\ Ring(l, s, Len(s) + 1) = l
           /\ \A i \in 0 .. Len(s) + 1 : Ring(l, s, i) \in AllNodes \ {NULL}
<1>1. Len(s) \in Nat /\ \A i \in 1 .. Len(s) : s[i] \in Nodes
    BY ElementOfSeq
<1>2. \A i \in 1 .. Len(s) : s[i] # l /\ s[i] # NULL
    BY <1>1, NodeAssumption
<1>3. 0 \notin 1 .. Len(s) /\ Len(s) + 1 \notin 1 .. Len(s)
    BY <1>1
<1>4. l \in AllNodes \ {NULL} /\ Nodes \subseteq AllNodes \ {NULL}
    BY NodeAssumption DEF AllNodes
<1> QED  BY <1>1, <1>2, <1>3, <1>4 DEF Ring

\* Positions before the end name different nodes, and so do those after the
\* beginning.
LEMMA RingDistinct ==
    ASSUME NEW l \in Heads, NEW s \in Seq(Nodes), Distinct(s),
           NEW i \in 0 .. Len(s), NEW j \in 0 .. Len(s)
    PROVE  /\ Ring(l, s, i) = Ring(l, s, j) => i = j
           /\ Ring(l, s, i + 1) = Ring(l, s, j + 1) => i = j
<1>1. PICK n \in Nat : n = Len(s)
    BY RingIs
<1>2. \A k, m \in 1 .. n : s[k] = s[m] => k = m
    BY <1>1 DEF Distinct
<1>3. \A k \in 1 .. n : s[k] # l /\ Ring(l, s, k) = s[k]
    BY <1>1, RingIs
<1>4. Ring(l, s, 0) = l /\ Ring(l, s, n + 1) = l
    BY <1>1, RingIs
<1>5. ASSUME Ring(l, s, i) = Ring(l, s, j) PROVE i = j
    <2>1. (i = 0 \/ i \in 1 .. n) /\ (j = 0 \/ j \in 1 .. n)
        BY <1>1
    <2> QED  BY <1>2, <1>3, <1>4, <1>5, <2>1
<1>6. ASSUME Ring(l, s, i + 1) = Ring(l, s, j + 1) PROVE i = j
    <2>1. PICK a, b : a = i + 1 /\ b = j + 1
        OBVIOUS
    <2>2. (a = n + 1 \/ a \in 1 .. n) /\ (b = n + 1 \/ b \in 1 .. n)
        BY <1>1, <2>1
    <2>3. a = b
        BY <1>2, <1>3, <1>4, <1>6, <2>1, <2>2
    <2> QED  BY <2>1, <2>3
<1> QED  BY <1>5, <1>6

(***************************************************************************)
(* What the stores of an operation leave                                   *)
(***************************************************************************)

\* e between x and y.
Linked(h, x, e, y) ==
    [next |-> [z \in AllNodes |-> IF z = x THEN e ELSE IF z = e THEN y ELSE h.next[z]],
     prev |-> [z \in AllNodes |-> IF z = y THEN e ELSE IF z = e THEN x ELSE h.prev[z]]]

\* x and y joined, and e cleared.
Unlinked(h, x, e, y) ==
    [next |-> [z \in AllNodes |-> IF z = e THEN NULL ELSE IF z = x THEN y ELSE h.next[z]],
     prev |-> [z \in AllNodes |-> IF z = e THEN NULL ELSE IF z = y THEN x ELSE h.prev[z]]]

\* k is h after the one store x->next = v or x->prev = v.
NextStored(k, h, x, v) == Pointers(k) /\ k.next = [h.next EXCEPT ![x] = v] /\ k.prev = h.prev
PrevStored(k, h, x, v) == Pointers(k) /\ k.prev = [h.prev EXCEPT ![x] = v] /\ k.next = h.next

LEMMA OneStore ==
    ASSUME NEW h, Pointers(h), NEW x \in AllNodes, NEW v \in AllNodes
    PROVE  NextStored(SetNext(h, x, v), h, x, v) /\ PrevStored(SetPrev(h, x, v), h, x, v)
<1>1. PICK f \in [AllNodes -> AllNodes] : f = h.next
    BY DEF Pointers
<1>2. PICK g \in [AllNodes -> AllNodes] : g = h.prev
    BY DEF Pointers
<1>3. h = [next |-> f, prev |-> g]
    BY <1>1, <1>2 DEF Pointers
<1>4. SetNext(h, x, v) = [next |-> [f EXCEPT ![x] = v], prev |-> g]
    BY <1>3 DEF SetNext
<1>5. SetPrev(h, x, v) = [next |-> f, prev |-> [g EXCEPT ![x] = v]]
    BY <1>3 DEF SetPrev
<1>6. [f EXCEPT ![x] = v] \in [AllNodes -> AllNodes] /\ [g EXCEPT ![x] = v] \in [AllNodes -> AllNodes]
    BY <1>1, <1>2
<1> QED  BY <1>1, <1>2, <1>4, <1>5, <1>6 DEF Pointers, NextStored, PrevStored

LEMMA LinkedIs ==
    ASSUME NEW h, Pointers(h), NEW x \in AllNodes, NEW e \in AllNodes, NEW y \in AllNodes
    PROVE  Pointers(Linked(h, x, e, y)) /\ Pointers(Unlinked(h, x, e, y))
<1>1. h.next \in [AllNodes -> AllNodes] /\ h.prev \in [AllNodes -> AllNodes] /\ NULL \in AllNodes
    BY DEF Pointers, AllNodes
<1>2. PICK a : a = [z \in AllNodes |-> IF z = x THEN e ELSE IF z = e THEN y ELSE h.next[z]]
    OBVIOUS
<1>3. PICK b : b = [z \in AllNodes |-> IF z = y THEN e ELSE IF z = e THEN x ELSE h.prev[z]]
    OBVIOUS
<1>4. PICK c : c = [z \in AllNodes |-> IF z = e THEN NULL ELSE IF z = x THEN y ELSE h.next[z]]
    OBVIOUS
<1>5. PICK d : d = [z \in AllNodes |-> IF z = e THEN NULL ELSE IF z = y THEN x ELSE h.prev[z]]
    OBVIOUS
<1>6. a \in [AllNodes -> AllNodes] /\ b \in [AllNodes -> AllNodes]
    BY <1>1, <1>2, <1>3
<1>7. c \in [AllNodes -> AllNodes] /\ d \in [AllNodes -> AllNodes]
    BY <1>1, <1>4, <1>5
<1>8. Linked(h, x, e, y) = [next |-> a, prev |-> b] /\ Unlinked(h, x, e, y) = [next |-> c, prev |-> d]
    BY <1>2, <1>3, <1>4, <1>5 DEF Linked, Unlinked
<1> QED  BY <1>6, <1>7, <1>8 DEF Pointers

\* list_add_after puts e between x and the node behind it.
LEMMA AddAfterLinks ==
    ASSUME NEW h, Pointers(h), NEW x \in AllNodes, NEW e \in AllNodes, NEW y \in AllNodes,
           h.next[x] = y, e # x, e # y
    PROVE  list_add_after(h, x, e) = Linked(h, x, e, y)
<1>1. PICK h1 : h1 = SetPrev(h, y, e)
    OBVIOUS
<1>2. Pointers(h1) /\ h1.next = h.next /\ h1.prev = [h.prev EXCEPT ![y] = e]
    <2>1. PrevStored(h1, h, y, e)
        BY <1>1, OneStore
    <2> QED  BY <2>1, <1>1 DEF NextStored, PrevStored
<1>3. PICK h2 : h2 = SetNext(h1, e, y)
    OBVIOUS
<1>4. Pointers(h2) /\ h2.next = [h.next EXCEPT ![e] = y] /\ h2.prev = h1.prev
    <2>1. NextStored(h2, h1, e, y)
        BY <1>2, <1>3, OneStore
    <2> QED  BY <2>1, <1>2, <1>3 DEF NextStored, PrevStored
<1>5. PICK h3 : h3 = SetNext(h2, x, e)
    OBVIOUS
<1>6. Pointers(h3) /\ h3.next = [h2.next EXCEPT ![x] = e] /\ h3.prev = h1.prev
    <2>1. NextStored(h3, h2, x, e)
        BY <1>4, <1>5, OneStore
    <2> QED  BY <2>1, <1>4, <1>5 DEF NextStored, PrevStored
<1>7. PICK h4 : h4 = SetPrev(h3, e, x)
    OBVIOUS
<1>8. Pointers(h4) /\ h4.next = h3.next /\ h4.prev = [h1.prev EXCEPT ![e] = x]
    <2>1. PrevStored(h4, h3, e, x)
        BY <1>6, <1>7, OneStore
    <2> QED  BY <2>1, <1>6, <1>7 DEF NextStored, PrevStored
<1>9. list_add_after(h, x, e) = h4
    <2>1. h1.next[x] = y
        BY <1>2
    <2> QED  BY <1>1, <1>3, <1>5, <1>7, <2>1 DEF list_add_after
<1>10. h4.next = [z \in AllNodes |-> IF z = x THEN e ELSE IF z = e THEN y ELSE h.next[z]]
    BY <1>4, <1>6, <1>8 DEF Pointers
<1>11. h4.prev = [z \in AllNodes |-> IF z = y THEN e ELSE IF z = e THEN x ELSE h.prev[z]]
    BY <1>2, <1>8 DEF Pointers
<1> QED  BY <1>8, <1>9, <1>10, <1>11 DEF Pointers, Linked

\* list_add_tail puts e between y and the node before it.
LEMMA AddTailLinks ==
    ASSUME NEW h, Pointers(h), NEW x \in AllNodes, NEW e \in AllNodes, NEW y \in AllNodes,
           h.prev[y] = x, e # x, e # y
    PROVE  list_add_tail(h, y, e) = Linked(h, x, e, y)
<1>1. PICK h1 : h1 = SetNext(h, x, e)
    OBVIOUS
<1>2. Pointers(h1) /\ h1.next = [h.next EXCEPT ![x] = e] /\ h1.prev = h.prev
    <2>1. NextStored(h1, h, x, e)
        BY <1>1, OneStore
    <2> QED  BY <2>1, <1>1 DEF NextStored, PrevStored
<1>3. PICK h2 : h2 = SetNext(h1, e, y)
    OBVIOUS
<1>4. Pointers(h2) /\ h2.next = [h1.next EXCEPT ![e] = y] /\ h2.prev = h.prev
    <2>1. NextStored(h2, h1, e, y)
        BY <1>2, <1>3, OneStore
    <2> QED  BY <2>1, <1>2, <1>3 DEF NextStored, PrevStored
<1>5. PICK h3 : h3 = SetPrev(h2, e, x)
    OBVIOUS
<1>6. Pointers(h3) /\ h3.next = h2.next /\ h3.prev = [h.prev EXCEPT ![e] = x]
    <2>1. PrevStored(h3, h2, e, x)
        BY <1>4, <1>5, OneStore
    <2> QED  BY <2>1, <1>4, <1>5 DEF NextStored, PrevStored
<1>7. PICK h4 : h4 = SetPrev(h3, y, e)
    OBVIOUS
<1>8. Pointers(h4) /\ h4.next = h2.next /\ h4.prev = [h3.prev EXCEPT ![y] = e]
    <2>1. PrevStored(h4, h3, y, e)
        BY <1>6, <1>7, OneStore
    <2> QED  BY <2>1, <1>6, <1>7 DEF NextStored, PrevStored
<1>9. list_add_tail(h, y, e) = h4
    <2>1. AddTailStore(1, h, y, e) = h1
        BY <1>1 DEF AddTailStore
    <2>2. AddTailStore(2, h1, y, e) = h2
        BY <1>3 DEF AddTailStore
    <2>3. AddTailStore(3, h2, y, e) = h3
        BY <1>4, <1>5 DEF AddTailStore
    <2>4. AddTailStore(4, h3, y, e) = h4
        BY <1>7 DEF AddTailStore
    <2> QED  BY <2>1, <2>2, <2>3, <2>4 DEF list_add_tail
<1>10. h4.next = [z \in AllNodes |-> IF z = x THEN e ELSE IF z = e THEN y ELSE h.next[z]]
    BY <1>2, <1>4, <1>8 DEF Pointers
<1>11. h4.prev = [z \in AllNodes |-> IF z = y THEN e ELSE IF z = e THEN x ELSE h.prev[z]]
    BY <1>6, <1>8 DEF Pointers
<1> QED  BY <1>8, <1>9, <1>10, <1>11 DEF Pointers, Linked

\* list_remove joins the neighbours of e.
LEMMA RemoveUnlinks ==
    ASSUME NEW h, Pointers(h), NEW x \in AllNodes, NEW e \in AllNodes, NEW y \in AllNodes,
           h.prev[e] = x, h.next[e] = y, e # x, e # y
    PROVE  list_remove(h, e) = Unlinked(h, x, e, y)
<1>1. PICK h1 : h1 = SetNext(h, x, y)
    OBVIOUS
<1>2. Pointers(h1) /\ h1.next = [h.next EXCEPT ![x] = y] /\ h1.prev = h.prev
    <2>1. NextStored(h1, h, x, y)
        BY <1>1, OneStore
    <2> QED  BY <2>1, <1>1 DEF NextStored, PrevStored
<1>3. PICK h2 : h2 = SetPrev(h1, y, x)
    OBVIOUS
<1>4. Pointers(h2) /\ h2.prev = [h.prev EXCEPT ![y] = x] /\ h2.next = h1.next
    <2>1. PrevStored(h2, h1, y, x)
        BY <1>2, <1>3, OneStore
    <2> QED  BY <2>1, <1>2, <1>3 DEF NextStored, PrevStored
<1>5. PICK h3 : h3 = SetPrev(h2, e, NULL)
    OBVIOUS
<1>6. NULL \in AllNodes
    BY DEF AllNodes
<1>7. Pointers(h3) /\ h3.prev = [h2.prev EXCEPT ![e] = NULL] /\ h3.next = h1.next
    <2>1. PrevStored(h3, h2, e, NULL)
        BY <1>4, <1>5, <1>6, OneStore
    <2> QED  BY <2>1, <1>4, <1>5, <1>6 DEF NextStored, PrevStored
<1>8. PICK h4 : h4 = SetNext(h3, e, NULL)
    OBVIOUS
<1>9. Pointers(h4) /\ h4.next = [h1.next EXCEPT ![e] = NULL] /\ h4.prev = h3.prev
    <2>1. NextStored(h4, h3, e, NULL)
        BY <1>6, <1>7, <1>8, OneStore
    <2> QED  BY <2>1, <1>6, <1>7, <1>8 DEF NextStored, PrevStored
<1>10. list_remove(h, e) = h4
    <2>1. h1.next[e] = y /\ h1.prev[e] = x
        BY <1>2 DEF Pointers
    <2> QED  BY <1>1, <1>3, <1>5, <1>8, <2>1 DEF list_remove
<1>11. h4.next = [z \in AllNodes |-> IF z = e THEN NULL ELSE IF z = x THEN y ELSE h.next[z]]
    BY <1>2, <1>9 DEF Pointers
<1>12. h4.prev = [z \in AllNodes |-> IF z = e THEN NULL ELSE IF z = y THEN x ELSE h.prev[z]]
    BY <1>4, <1>7, <1>9 DEF Pointers
<1> QED  BY <1>9, <1>10, <1>11, <1>12 DEF Pointers, Unlinked

(***************************************************************************)
(* Sequences with one element more or less                                 *)
(***************************************************************************)

\* t is s with e behind position i.
Inserted(t, s, i, e) ==
    /\ t \in Seq(Nodes) /\ Len(t) = Len(s) + 1
    /\ \A k \in 1 .. i : t[k] = s[k]
    /\ t[i + 1] = e
    /\ \A k \in i + 1 .. Len(s) : t[k + 1] = s[k]

\* t is s without position i.
Removed(t, s, i) ==
    /\ t \in Seq(Nodes) /\ Len(t) = Len(s) - 1
    /\ \A k \in 1 .. i - 1 : t[k] = s[k]
    /\ \A k \in i .. Len(s) - 1 : t[k] = s[k + 1]

LEMMA PartIs ==
    ASSUME NEW s \in Seq(Nodes), NEW a \in 1 .. Len(s) + 1, NEW b \in 0 .. Len(s), a <= b + 1
    PROVE  /\ SubSeq(s, a, b) \in Seq(Nodes) /\ Len(SubSeq(s, a, b)) = b - a + 1
           /\ \A k \in 1 .. b - a + 1 : SubSeq(s, a, b)[k] = s[a + k - 1]
<1>1. Len(s) \in Nat /\ \A k \in 1 .. Len(s) : s[k] \in Nodes
    BY ElementOfSeq
<1>2. a \in Int /\ b \in Int /\ \A k \in a .. b : s[k] \in Nodes
    BY <1>1
<1>3. PICK t : t = SubSeq(s, a, b)
    OBVIOUS
<1>4. /\ t \in Seq(Nodes) /\ Len(t) = IF a <= b THEN b - a + 1 ELSE 0
      /\ \A k \in 1 .. b - a + 1 : t[k] = s[a + k - 1]
    BY <1>2, <1>3, SubSeqProperties
<1>5. Len(t) = b - a + 1
    BY <1>2, <1>4
<1> QED  BY <1>3, <1>4, <1>5

LEMMA AppendInserts ==
    ASSUME NEW s \in Seq(Nodes), NEW e \in Nodes
    PROVE  Inserted(Append(s, e), s, Len(s), e)
<1>1. Len(s) \in Nat
    OBVIOUS
<1>2. Len(s) + 1 .. Len(s) = {}
    BY <1>1
<1> QED  BY <1>1, <1>2, AppendProperties DEF Inserted

LEMMA FrontInserts ==
    ASSUME NEW s \in Seq(Nodes), NEW e \in Nodes
    PROVE  Inserted(<<e>> \o s, s, 0, e)
<1>1. Len(s) \in Nat
    OBVIOUS
<1>2. <<e>> \in Seq(Nodes) /\ Len(<<e>>) = 1 /\ <<e>>[1] = e
    OBVIOUS
<1>3. PICK u \in Seq(Nodes) : u = <<e>>
    BY <1>2
<1>4. PICK t : t = u \o s
    OBVIOUS
<1>5. t \in Seq(Nodes) /\ Len(t) = 1 + Len(s)
    BY <1>2, <1>3, <1>4, ConcatProperties
<1>6. t[1] = e
    BY <1>2, <1>3, <1>4, ConcatProperties
<1>7. \A k \in 1 .. Len(s) : t[k + 1] = s[k]
    BY <1>1, <1>2, <1>3, <1>4, ConcatProperties
<1> QED  BY <1>1, <1>3, <1>4, <1>5, <1>6, <1>7 DEF Inserted

LEMMA InsertAtInserts ==
    ASSUME NEW s \in Seq(Nodes), NEW i \in 0 .. Len(s), NEW e \in Nodes
    PROVE  Inserted(InsertAt(s, i + 1, e), s, i, e)
<1>1. PICK n \in Nat : n = Len(s)
    OBVIOUS
<1>2. PICK a : a = SubSeq(s, 1, (i + 1) - 1)
    OBVIOUS
<1>3. a \in Seq(Nodes) /\ Len(a) = i /\ \A k \in 1 .. i : a[k] = s[k]
    <2>1. (i + 1) - 1 = i /\ 1 \in 1 .. Len(s) + 1 /\ i \in 0 .. Len(s) /\ 1 <= i + 1
        BY <1>1
    <2>2. /\ SubSeq(s, 1, i) \in Seq(Nodes) /\ Len(SubSeq(s, 1, i)) = i - 1 + 1
          /\ \A k \in 1 .. i - 1 + 1 : SubSeq(s, 1, i)[k] = s[1 + k - 1]
        BY <2>1, PartIs
    <2>3. i - 1 + 1 = i /\ \A k \in 1 .. i : 1 + k - 1 = k
        BY <1>1
    <2> QED  BY <1>2, <2>1, <2>2, <2>3
<1>4. PICK c : c = SubSeq(s, i + 1, n)
    OBVIOUS
<1>5. c \in Seq(Nodes) /\ Len(c) = n - i /\ \A k \in 1 .. n - i : c[k] = s[i + k]
    <2>1. PICK j \in 1 .. Len(s) + 1 : j = i + 1
        BY <1>1
    <2>2. n \in 0 .. Len(s) /\ j <= n + 1
        BY <1>1, <2>1
    <2>3. /\ c \in Seq(Nodes) /\ Len(c) = n - j + 1
          /\ \A k \in 1 .. n - j + 1 : c[k] = s[j + k - 1]
        BY <1>4, <2>1, <2>2, PartIs
    <2>4. n - j + 1 = n - i /\ \A k \in 1 .. n - i : j + k - 1 = i + k
        BY <1>1, <2>1
    <2> QED  BY <2>3, <2>4
<1>6. PICK d : d = a \o <<e>>
    OBVIOUS
<1>7. d \in Seq(Nodes) /\ Len(d) = i + 1 /\ d[i + 1] = e /\ \A k \in 1 .. i : d[k] = s[k]
    <2>1. d = Append(a, e)
        BY <1>3, <1>6, AppendIsConcat
    <2> QED  BY <1>3, <2>1, AppendProperties
<1>8. PICK t : t = d \o c
    OBVIOUS
<1>9. t \in Seq(Nodes) /\ Len(t) = n + 1
    <2>1. t \in Seq(Nodes) /\ Len(t) = Len(d) + Len(c)
        BY <1>5, <1>7, <1>8, ConcatProperties
    <2>2. (i + 1) + (n - i) = n + 1
        BY <1>1
    <2> QED  BY <1>5, <1>7, <2>1, <2>2
<1>10. \A k \in 1 .. i + 1 : t[k] = d[k]
    BY <1>5, <1>7, <1>8, ConcatProperties
<1>11. \A k \in 1 .. n - i : t[(i + 1) + k] = c[k]
    BY <1>5, <1>7, <1>8, ConcatProperties
<1>12. ASSUME NEW k \in i + 1 .. n PROVE t[k + 1] = s[k]
    <2>1. k - i \in 1 .. n - i /\ (i + 1) + (k - i) = k + 1 /\ i + (k - i) = k
        BY <1>1
    <2> QED  BY <1>5, <1>11, <2>1
<1>13. t[i + 1] = e /\ \A k \in 1 .. i : t[k] = s[k]
    BY <1>1, <1>7, <1>10
<1>14. InsertAt(s, i + 1, e) = t
    BY <1>1, <1>2, <1>4, <1>6, <1>8 DEF InsertAt
<1> QED  BY <1>1, <1>9, <1>12, <1>13, <1>14 DEF Inserted

LEMMA RemoveAtRemoves ==
    ASSUME NEW s \in Seq(Nodes), NEW i \in 1 .. Len(s)
    PROVE  Removed(RemoveAt(s, i), s, i)
<1>1. PICK n \in Nat : n = Len(s)
    OBVIOUS
<1>2. PICK a : a = SubSeq(s, 1, i - 1)
    OBVIOUS
<1>3. a \in Seq(Nodes) /\ Len(a) = i - 1 /\ \A k \in 1 .. i - 1 : a[k] = s[k]
    <2>1. PICK j \in 0 .. Len(s) : j = i - 1
        BY <1>1
    <2>2. /\ SubSeq(s, 1, j) \in Seq(Nodes) /\ Len(SubSeq(s, 1, j)) = j - 1 + 1
          /\ \A k \in 1 .. j - 1 + 1 : SubSeq(s, 1, j)[k] = s[1 + k - 1]
        <3>1. 1 \in 1 .. Len(s) + 1 /\ 1 <= j + 1
            BY <1>1, <2>1
        <3> QED  BY <3>1, PartIs
    <2>3. j - 1 + 1 = j /\ \A k \in 1 .. j : 1 + k - 1 = k
        BY <2>1
    <2> QED  BY <1>2, <2>1, <2>2, <2>3
<1>4. PICK c : c = SubSeq(s, i + 1, n)
    OBVIOUS
<1>5. c \in Seq(Nodes) /\ Len(c) = n - i /\ \A k \in 1 .. n - i : c[k] = s[i + k]
    <2>1. PICK j \in 1 .. Len(s) + 1 : j = i + 1
        BY <1>1
    <2>2. n \in 0 .. Len(s) /\ j <= n + 1
        BY <1>1, <2>1
    <2>3. /\ c \in Seq(Nodes) /\ Len(c) = n - j + 1
          /\ \A k \in 1 .. n - j + 1 : c[k] = s[j + k - 1]
        BY <1>4, <2>1, <2>2, PartIs
    <2>4. n - j + 1 = n - i /\ \A k \in 1 .. n - i : j + k - 1 = i + k
        BY <1>1, <2>1
    <2> QED  BY <2>3, <2>4
<1>6. PICK t : t = a \o c
    OBVIOUS
<1>7. t \in Seq(Nodes) /\ Len(t) = n - 1
    <2>1. t \in Seq(Nodes) /\ Len(t) = Len(a) + Len(c)
        BY <1>3, <1>5, <1>6, ConcatProperties
    <2>2. (i - 1) + (n - i) = n - 1
        BY <1>1
    <2> QED  BY <1>3, <1>5, <2>1, <2>2
<1>8. \A k \in 1 .. i - 1 : t[k] = s[k]
    BY <1>3, <1>5, <1>6, ConcatProperties
<1>9. \A k \in 1 .. n - i : t[(i - 1) + k] = c[k]
    BY <1>3, <1>5, <1>6, ConcatProperties
<1>10. ASSUME NEW k \in i .. n - 1 PROVE t[k] = s[k + 1]
    <2>1. k - i + 1 \in 1 .. n - i /\ (i - 1) + (k - i + 1) = k /\ i + (k - i + 1) = k + 1
        BY <1>1
    <2> QED  BY <1>5, <1>9, <2>1
<1>11. RemoveAt(s, i) = t
    BY <1>1, <1>2, <1>4, <1>6 DEF RemoveAt
<1> QED  BY <1>1, <1>7, <1>8, <1>10, <1>11 DEF Removed

LEMMA TailRemoves ==
    ASSUME NEW s \in Seq(Nodes), s # <<>>
    PROVE  Removed(Tail(s), s, 1) /\ 1 \in 1 .. Len(s) /\ Head(s) = s[1]
<1>1. Len(s) \in Nat /\ 1 \in 1 .. Len(s) /\ Head(s) = s[1]
    OBVIOUS
<1>2. /\ Tail(s) \in Seq(Nodes) /\ Len(Tail(s)) = Len(s) - 1
      /\ \A k \in 1 .. Len(s) - 1 : Tail(s)[k] = s[k + 1]
    BY <1>1, HeadTailProperties
<1>3. 1 .. 1 - 1 = {}
    OBVIOUS
<1> QED  BY <1>1, <1>2, <1>3 DEF Removed

(***************************************************************************)
(* What an operation does to the rings                                     *)
(***************************************************************************)

LEMMA InsertedRing ==
    ASSUME NEW l \in Heads, NEW s \in Seq(Nodes), NEW i \in 0 .. Len(s), NEW e \in Nodes,
           NEW t, Inserted(t, s, i, e)
    PROVE  /\ \A k \in 0 .. i : Ring(l, t, k) = Ring(l, s, k)
           /\ Ring(l, t, i + 1) = e
           /\ \A k \in i + 1 .. Len(s) + 1 : Ring(l, t, k + 1) = Ring(l, s, k)
<1>1. PICK n \in Nat : n = Len(s)
    OBVIOUS
<1>2. /\ Len(t) = n + 1 /\ t[i + 1] = e
      /\ \A k \in 1 .. i : t[k] = s[k]
      /\ \A k \in i + 1 .. n : t[k + 1] = s[k]
    BY <1>1 DEF Inserted
<1>3. ASSUME NEW k \in 0 .. i PROVE Ring(l, t, k) = Ring(l, s, k)
    BY <1>1, <1>2 DEF Ring
<1>4. Ring(l, t, i + 1) = e
    BY <1>1, <1>2 DEF Ring
<1>5. ASSUME NEW k \in i + 1 .. n + 1 PROVE Ring(l, t, k + 1) = Ring(l, s, k)
    BY <1>1, <1>2 DEF Ring
<1> QED  BY <1>1, <1>3, <1>4, <1>5

LEMMA InsertSpells ==
    ASSUME NEW h, Pointers(h), NEW l \in Heads, NEW s \in Seq(Nodes), Distinct(s), Spells(h, l, s),
           NEW i \in 0 .. Len(s), NEW e \in Nodes, Absent(s, e), NEW t, Inserted(t, s, i, e)
    PROVE  /\ Spells(Linked(h, Ring(l, s, i), e, Ring(l, s, i + 1)), l, t)
           /\ Distinct(t)
<1>1. PICK n \in Nat : n = Len(s)
    OBVIOUS
<1>2. PICK x : x = Ring(l, s, i)
    OBVIOUS
<1>3. PICK y : y = Ring(l, s, i + 1)
    OBVIOUS
<1>4. ASSUME NEW k \in 0 .. n + 1 PROVE Ring(l, s, k) # e /\ Ring(l, s, k) \in AllNodes
    <2>1. e # l
        BY NodeAssumption
    <2>2. Ring(l, s, k) # e
        BY <1>1, <2>1 DEF Ring, Absent
    <2> QED  BY <1>1, <1>4, <2>2, RingIs
<1>5. x \in AllNodes /\ y \in AllNodes /\ e \in AllNodes /\ x # e /\ y # e
    <2>1. i \in 0 .. n + 1 /\ i + 1 \in 0 .. n + 1 /\ e \in AllNodes
        BY <1>1 DEF AllNodes
    <2> QED  BY <1>2, <1>3, <1>4, <2>1
<1>6. PICK g : g = Linked(h, x, e, y)
    OBVIOUS
<1>7. /\ g.next = [z \in AllNodes |-> IF z = x THEN e ELSE IF z = e THEN y ELSE h.next[z]]
      /\ g.prev = [z \in AllNodes |-> IF z = y THEN e ELSE IF z = e THEN x ELSE h.prev[z]]
    BY <1>6 DEF Linked
<1>8. Len(t) = n + 1
    BY <1>1 DEF Inserted
<1>9. ASSUME NEW k \in 0 .. n, k # i
      PROVE  g.next[Ring(l, s, k)] = Ring(l, s, k + 1) /\ g.prev[Ring(l, s, k + 1)] = Ring(l, s, k)
    <2>1. Ring(l, s, k) # x /\ Ring(l, s, k + 1) # y
        BY <1>1, <1>2, <1>3, <1>9, RingDistinct
    <2>2. k \in 0 .. n + 1 /\ k + 1 \in 0 .. n + 1
        BY <1>1
    <2>3. h.next[Ring(l, s, k)] = Ring(l, s, k + 1) /\ h.prev[Ring(l, s, k + 1)] = Ring(l, s, k)
        BY <1>1 DEF Spells
    <2> QED  BY <1>4, <1>7, <2>1, <2>2, <2>3
<1>10. /\ \A k \in 0 .. i : Ring(l, t, k) = Ring(l, s, k)
       /\ Ring(l, t, i + 1) = e
       /\ \A k \in i + 1 .. n + 1 : Ring(l, t, k + 1) = Ring(l, s, k)
    BY <1>1, InsertedRing
<1>11. ASSUME NEW k \in 0 .. n + 1
       PROVE  g.next[Ring(l, t, k)] = Ring(l, t, k + 1) /\ g.prev[Ring(l, t, k + 1)] = Ring(l, t, k)
    <2>1. CASE k < i
        <3>1. k \in 0 .. i /\ k + 1 \in 0 .. i /\ k \in 0 .. n /\ k # i
            BY <1>1, <2>1
        <3> QED  BY <1>9, <1>10, <3>1
    <2>2. CASE k = i
        <3>1. i \in 0 .. i
            BY <1>1
        <3>2. Ring(l, t, k) = x /\ Ring(l, t, k + 1) = e
            BY <1>2, <1>10, <2>2, <3>1
        <3> QED  BY <1>5, <1>7, <3>2
    <2>3. CASE k = i + 1
        <3>1. i + 1 \in i + 1 .. n + 1
            BY <1>1
        <3>2. Ring(l, t, k) = e /\ Ring(l, t, k + 1) = y
            BY <1>3, <1>10, <2>3, <3>1
        <3> QED  BY <1>5, <1>7, <3>2
    <2>4. CASE k > i + 1
        <3>1. PICK j \in i + 1 .. n : j = k - 1
            BY <1>1, <2>4
        <3>2. /\ j \in i + 1 .. n + 1 /\ j + 1 \in i + 1 .. n + 1 /\ j \in 0 .. n
              /\ j # i /\ j + 1 = k
            BY <1>1, <3>1
        <3>3. Ring(l, t, k) = Ring(l, s, j) /\ Ring(l, t, k + 1) = Ring(l, s, j + 1)
            BY <1>10, <3>2
        <3> QED  BY <1>9, <3>2, <3>3
    <2> QED  BY <1>1, <2>1, <2>2, <2>3, <2>4
<1>12. Spells(g, l, t)
    BY <1>8, <1>11 DEF Spells
<1>13. Distinct(t)
    <2> SUFFICES ASSUME NEW a \in 1 .. n + 1, NEW b \in 1 .. n + 1, t[a] = t[b] PROVE a = b
        BY <1>8 DEF Distinct
    <2>1. /\ t[i + 1] = e /\ \A k \in 1 .. i : t[k] = s[k]
          /\ \A k \in i + 1 .. n : t[k + 1] = s[k]
        BY <1>1 DEF Inserted
    <2>2. /\ \A k, m \in 1 .. n : s[k] = s[m] => k = m
          /\ \A k \in 1 .. n : s[k] # e
        BY <1>1 DEF Distinct, Absent
    <2>3. ASSUME NEW c \in 1 .. n + 1
          PROVE  c = i + 1 \/ (c \in 1 .. i /\ c \in 1 .. n) \/ \E d \in i + 1 .. n : c = d + 1 /\ d \in 1 .. n
        <3>1. CASE c <= i
            BY <1>1, <3>1
        <3>2. CASE c > i + 1
            <4>1. c - 1 \in i + 1 .. n /\ c = (c - 1) + 1 /\ c - 1 \in 1 .. n
                BY <1>1, <3>2
            <4> QED  BY <4>1
        <3> QED  BY <1>1, <3>1, <3>2
    <2>4. CASE a = i + 1 \/ b = i + 1
        <3>1. ASSUME NEW c \in 1 .. n + 1, c # i + 1 PROVE t[c] # e
            <4>1. CASE c \in 1 .. i /\ c \in 1 .. n
                BY <2>1, <2>2, <4>1
            <4>2. CASE \E d \in i + 1 .. n : c = d + 1 /\ d \in 1 .. n
                BY <2>1, <2>2, <4>2
            <4> QED  BY <2>3, <3>1, <4>1, <4>2
        <3> QED  BY <2>1, <2>4, <3>1
    <2>5. CASE a # i + 1 /\ b # i + 1
        <3>1. CASE a \in 1 .. i /\ b \in 1 .. i
            <4>1. a \in 1 .. n /\ b \in 1 .. n
                BY <1>1, <3>1
            <4> QED  BY <2>1, <2>2, <3>1, <4>1
        <3>2. CASE a \in 1 .. i /\ b \notin 1 .. i
            <4>1. PICK d \in i + 1 .. n : b = d + 1 /\ d \in 1 .. n
                BY <2>3, <2>5, <3>2
            <4>2. a \in 1 .. n /\ a # d
                BY <1>1, <3>2, <4>1
            <4> QED  BY <2>1, <2>2, <3>2, <4>1, <4>2
        <3>3. CASE a \notin 1 .. i /\ b \in 1 .. i
            <4>1. PICK d \in i + 1 .. n : a = d + 1 /\ d \in 1 .. n
                BY <2>3, <2>5, <3>3
            <4>2. b \in 1 .. n /\ b # d
                BY <1>1, <3>3, <4>1
            <4> QED  BY <2>1, <2>2, <3>3, <4>1, <4>2
        <3>4. CASE a \notin 1 .. i /\ b \notin 1 .. i
            <4>1. PICK c \in i + 1 .. n : a = c + 1 /\ c \in 1 .. n
                BY <2>3, <2>5, <3>4
            <4>2. PICK d \in i + 1 .. n : b = d + 1 /\ d \in 1 .. n
                BY <2>3, <2>5, <3>4
            <4>3. s[c] = s[d]
                BY <2>1, <4>1, <4>2
            <4>4. c = d
                BY <2>2, <4>1, <4>2, <4>3
            <4> QED  BY <4>1, <4>2, <4>4
        <3> QED  BY <3>1, <3>2, <3>3, <3>4
    <2> QED  BY <2>4, <2>5
<1> QED  BY <1>2, <1>3, <1>6, <1>12, <1>13

LEMMA RemovedRing ==
    ASSUME NEW l \in Heads, NEW s \in Seq(Nodes), NEW i \in 1 .. Len(s), NEW t, Removed(t, s, i)
    PROVE  /\ \A k \in 0 .. i - 1 : Ring(l, t, k) = Ring(l, s, k)
           /\ \A k \in i .. Len(s) : Ring(l, t, k) = Ring(l, s, k + 1)
<1>1. PICK n \in Nat : n = Len(s)
    OBVIOUS
<1>2. /\ Len(t) = n - 1
      /\ \A k \in 1 .. i - 1 : t[k] = s[k]
      /\ \A k \in i .. n - 1 : t[k] = s[k + 1]
    BY <1>1 DEF Removed
<1>3. ASSUME NEW k \in 0 .. i - 1 PROVE Ring(l, t, k) = Ring(l, s, k)
    BY <1>1, <1>2 DEF Ring
<1>4. ASSUME NEW k \in i .. n PROVE Ring(l, t, k) = Ring(l, s, k + 1)
    BY <1>1, <1>2 DEF Ring
<1> QED  BY <1>1, <1>3, <1>4

LEMMA RemoveSpells ==
    ASSUME NEW h, Pointers(h), NEW l \in Heads, NEW s \in Seq(Nodes), Distinct(s), Spells(h, l, s),
           NEW i \in 1 .. Len(s), NEW t, Removed(t, s, i)
    PROVE  /\ Spells(Unlinked(h, Ring(l, s, i - 1), s[i], Ring(l, s, i + 1)), l, t)
           /\ Distinct(t)
<1>1. PICK n \in Nat : n = Len(s)
    OBVIOUS
<1>2. PICK x : x = Ring(l, s, i - 1)
    OBVIOUS
<1>3. PICK y : y = Ring(l, s, i + 1)
    OBVIOUS
<1>4. PICK e : e = s[i] /\ e = Ring(l, s, i)
    BY RingIs
<1>5. \A k \in 0 .. n + 1 : Ring(l, s, k) \in AllNodes
    BY <1>1, RingIs
<1>6. PICK a \in 0 .. n : a = i - 1 /\ a + 1 = i
    BY <1>1
<1>7. i \in 0 .. n /\ i # a
    BY <1>1, <1>6
<1>8. x # e /\ y # e
    <2>1. Ring(l, s, a) # Ring(l, s, i) /\ Ring(l, s, a + 1) # Ring(l, s, i + 1)
        BY <1>1, <1>6, <1>7, RingDistinct
    <2> QED  BY <1>2, <1>3, <1>4, <1>6, <2>1
<1>9. PICK g : g = Unlinked(h, x, e, y)
    OBVIOUS
<1>10. /\ g.next = [z \in AllNodes |-> IF z = e THEN NULL ELSE IF z = x THEN y ELSE h.next[z]]
       /\ g.prev = [z \in AllNodes |-> IF z = e THEN NULL ELSE IF z = y THEN x ELSE h.prev[z]]
    BY <1>9 DEF Unlinked
<1>11. ASSUME NEW k \in 0 .. n, k # i, k # a
       PROVE  g.next[Ring(l, s, k)] = Ring(l, s, k + 1) /\ g.prev[Ring(l, s, k + 1)] = Ring(l, s, k)
    <2>1. Ring(l, s, k) # e /\ Ring(l, s, k + 1) # y
        BY <1>1, <1>3, <1>4, <1>7, <1>11, RingDistinct
    <2>2. Ring(l, s, k) # x /\ Ring(l, s, k + 1) # e
        BY <1>1, <1>2, <1>4, <1>6, <1>11, RingDistinct
    <2>3. k \in 0 .. n + 1 /\ k + 1 \in 0 .. n + 1
        BY <1>1
    <2>4. h.next[Ring(l, s, k)] = Ring(l, s, k + 1) /\ h.prev[Ring(l, s, k + 1)] = Ring(l, s, k)
        BY <1>1 DEF Spells
    <2> QED  BY <1>5, <1>10, <2>1, <2>2, <2>3, <2>4
<1>12. /\ \A k \in 0 .. a : Ring(l, t, k) = Ring(l, s, k)
       /\ \A k \in i .. n : Ring(l, t, k) = Ring(l, s, k + 1)
    BY <1>1, <1>6, RemovedRing
<1>13. PICK m \in Nat : m = n - 1 /\ Len(t) = m
    BY <1>1 DEF Removed
<1>14. ASSUME NEW k \in 0 .. m
       PROVE  g.next[Ring(l, t, k)] = Ring(l, t, k + 1) /\ g.prev[Ring(l, t, k + 1)] = Ring(l, t, k)
    <2>1. CASE k < a
        <3>1. k \in 0 .. a /\ k + 1 \in 0 .. a /\ k \in 0 .. n /\ k # i /\ k # a
            BY <1>1, <1>6, <2>1
        <3> QED  BY <1>11, <1>12, <3>1
    <2>2. CASE k = a
        <3>1. a \in 0 .. a /\ a + 1 \in i .. n /\ (a + 1) + 1 = i + 1
            BY <1>1, <1>6
        <3>2. Ring(l, t, k) = x /\ Ring(l, t, k + 1) = y
            BY <1>2, <1>3, <1>6, <1>12, <2>2, <3>1
        <3>3. x \in AllNodes /\ y \in AllNodes
            <4>1. a \in 0 .. n + 1 /\ i + 1 \in 0 .. n + 1
                BY <1>1, <1>6
            <4> QED  BY <1>2, <1>3, <1>5, <1>6, <4>1
        <3> QED  BY <1>8, <1>10, <3>2, <3>3
    <2>3. CASE k > a
        <3>1. PICK j \in 0 .. n : j = k + 1
            BY <1>1, <1>13
        <3>2. k \in i .. n /\ j \in i .. n /\ j # i /\ j # a
            BY <1>1, <1>6, <1>13, <2>3, <3>1
        <3>3. Ring(l, t, k) = Ring(l, s, j) /\ Ring(l, t, k + 1) = Ring(l, s, j + 1)
            BY <1>12, <3>1, <3>2
        <3> QED  BY <1>11, <3>2, <3>3
    <2> QED  BY <1>6, <1>13, <2>1, <2>2, <2>3
<1>15. Spells(g, l, t)
    BY <1>13, <1>14 DEF Spells
<1>16. Distinct(t)
    <2> SUFFICES ASSUME NEW c \in 1 .. m, NEW d \in 1 .. m, t[c] = t[d] PROVE c = d
        BY <1>13 DEF Distinct
    <2>1. /\ \A k \in 1 .. a : t[k] = s[k]
          /\ \A k \in i .. m : t[k] = s[k + 1]
        BY <1>1, <1>6, <1>13 DEF Removed
    <2>2. \A k, j \in 1 .. n : s[k] = s[j] => k = j
        BY <1>1 DEF Distinct
    <2>3. ASSUME NEW k \in 1 .. m
          PROVE  /\ k \in 1 .. n /\ k + 1 \in 1 .. n
                 /\ k \in 1 .. a \/ k \in i .. m
        BY <1>1, <1>6, <1>13
    <2>4. CASE c \in 1 .. a /\ d \in 1 .. a
        BY <2>1, <2>2, <2>3, <2>4
    <2>5. CASE c \in 1 .. a /\ d \in i .. m
        <3>1. c = d + 1
            BY <2>1, <2>2, <2>3, <2>5
        <3> QED  BY <1>6, <2>5, <3>1
    <2>6. CASE c \in i .. m /\ d \in 1 .. a
        <3>1. s[c + 1] = s[d]
            BY <2>1, <2>6
        <3>2. c + 1 = d
            BY <2>2, <2>3, <3>1
        <3> QED  BY <1>6, <2>6, <3>2
    <2>7. CASE c \in i .. m /\ d \in i .. m
        <3>1. c + 1 = d + 1
            BY <2>1, <2>2, <2>3, <2>7
        <3> QED  BY <3>1
    <2> QED  BY <2>3, <2>4, <2>5, <2>6, <2>7
<1> QED  BY <1>2, <1>3, <1>4, <1>9, <1>15, <1>16

\* A list without the three nodes that are written keeps its spelling.
LEMMA OtherSpells ==
    ASSUME NEW h, NEW g, NEW m \in Heads, NEW u \in Seq(Nodes), Spells(h, m, u),
           NEW x, NEW e, NEW y, g = Linked(h, x, e, y) \/ g = Unlinked(h, x, e, y),
           \A i \in 0 .. Len(u) + 1 : Ring(m, u, i) \notin {x, e, y}
    PROVE  Spells(g, m, u)
<1>1. PICK n \in Nat : n = Len(u)
    OBVIOUS
<1>2. ASSUME NEW z \in AllNodes, z \notin {x, e, y} PROVE g.next[z] = h.next[z] /\ g.prev[z] = h.prev[z]
    <2>1. CASE g = Linked(h, x, e, y)
        BY <1>2, <2>1 DEF Linked
    <2>2. CASE g = Unlinked(h, x, e, y)
        BY <1>2, <2>2 DEF Unlinked
    <2> QED  BY <2>1, <2>2
<1>3. ASSUME NEW i \in 0 .. n
      PROVE  g.next[Ring(m, u, i)] = Ring(m, u, i + 1) /\ g.prev[Ring(m, u, i + 1)] = Ring(m, u, i)
    <2>1. i \in 0 .. Len(u) + 1 /\ i + 1 \in 0 .. Len(u) + 1
        BY <1>1
    <2>2. /\ Ring(m, u, i) \in AllNodes /\ Ring(m, u, i + 1) \in AllNodes
          /\ Ring(m, u, i) \notin {x, e, y} /\ Ring(m, u, i + 1) \notin {x, e, y}
        BY <2>1, RingIs
    <2>3. h.next[Ring(m, u, i)] = Ring(m, u, i + 1) /\ h.prev[Ring(m, u, i + 1)] = Ring(m, u, i)
        BY <1>1 DEF Spells
    <2> QED  BY <1>2, <2>2, <2>3
<1> QED  BY <1>1, <1>3 DEF Spells

(***************************************************************************)
(* What a walk along the pointers sees                                     *)
(***************************************************************************)

\* f leads from the head through s to end.
Walk(f, head, s, end) ==
    \A i \in 0 .. Len(s) : f[IF i = 0 THEN head ELSE s[i]] = IF i = Len(s) THEN end ELSE s[i + 1]

\* One more node of the walk, if there is one.
Onward(f, head, s) ==
    IF f[IF s = <<>> THEN head ELSE s[Len(s)]] \in {head, NULL} THEN s
    ELSE Append(s, f[IF s = <<>> THEN head ELSE s[Len(s)]])

IsChain(c, f, head) ==
    c = [n \in 0 .. Cardinality(DOMAIN f) |-> IF n = 0 THEN <<>> ELSE Onward(f, head, c[n - 1])]

LEMMA ChainDef == \A f, head : Chain(f, head) = (CHOOSE c : IsChain(c, f, head))[Cardinality(DOMAIN f)]
    BY DEF Chain, IsChain, Onward

\* The first k nodes of s.
Prefix(s, k) == SubSeq(s, 1, IF k <= Len(s) THEN k ELSE Len(s))

LEMMA PrefixNext ==
    ASSUME NEW S, NEW s \in Seq(S), NEW f, NEW head, NEW end \in {head, NULL},
           Walk(f, head, s, end), NEW k \in Nat,
           \A i \in 1 .. Len(s) : s[i] \notin {head, NULL}
    PROVE  Prefix(s, 0) = <<>> /\ Onward(f, head, Prefix(s, k)) = Prefix(s, k + 1)
<1>1. PICK n \in Nat : n = Len(s)
    OBVIOUS
<1>2. \A i \in 1 .. n : s[i] \in S
    BY <1>1, ElementOfSeq
<1>3. Prefix(s, 0) = <<>>
    <2>1. 0 <= n
        BY <1>1
    <2> QED  BY <1>1, <2>1, SubSeqEmpty DEF Prefix
<1>4. CASE k < n
    <2>1. PICK p : p = SubSeq(s, 1, k)
        OBVIOUS
    <2>2. p = Prefix(s, k)
        BY <1>1, <1>4, <2>1 DEF Prefix
    <2>3. PICK q : q = SubSeq(s, 1, k + 1)
        OBVIOUS
    <2>4. q = Prefix(s, k + 1)
        <3>1. k + 1 <= n
            BY <1>1, <1>4
        <3> QED  BY <1>1, <2>3, <3>1 DEF Prefix
    <2>5. p \in Seq(S) /\ Len(p) = k /\ \A i \in 1 .. k : p[i] = s[i]
        BY <1>1, <1>2, <1>4, <2>1, SubSeqProperties
    <2>6. q \in Seq(S) /\ Len(q) = k + 1 /\ \A i \in 1 .. k + 1 : q[i] = s[i]
        BY <1>1, <1>2, <1>4, <2>3, SubSeqProperties
    <2>7. PICK v \in S : v = s[k + 1] /\ v \notin {head, NULL}
        <3>1. k + 1 \in 1 .. n
            BY <1>1, <1>4
        <3> QED  BY <1>1, <1>2, <3>1
    <2>8. f[IF p = <<>> THEN head ELSE p[Len(p)]] = v
        <3>1. f[IF k = 0 THEN head ELSE s[k]] = v
            <4>1. k \in 0 .. Len(s) /\ k # Len(s)
                BY <1>1, <1>4
            <4> QED  BY <2>7, <4>1 DEF Walk
        <3>2. CASE k = 0
            <4>1. p = <<>>
                BY <2>5, <3>2
            <4> QED  BY <3>1, <3>2, <4>1
        <3>3. CASE k # 0
            <4>1. p # <<>> /\ p[Len(p)] = s[k]
                BY <2>5, <3>3
            <4> QED  BY <3>1, <3>3, <4>1
        <3> QED  BY <3>2, <3>3
    <2>9. Onward(f, head, p) = Append(p, v)
        BY <2>7, <2>8 DEF Onward
    <2>10. Append(p, v) = q
        <3>1. PICK r : r = Append(p, v)
            OBVIOUS
        <3>2. r \in Seq(S) /\ Len(r) = k + 1 /\ \A i \in 1 .. k : r[i] = p[i]
            BY <2>5, <2>7, <3>1, AppendProperties
        <3>3. r[k + 1] = v
            BY <2>5, <2>7, <3>1, AppendProperties
        <3>4. ASSUME NEW i \in 1 .. k + 1 PROVE r[i] = q[i]
            <4>1. CASE i = k + 1
                BY <2>6, <2>7, <3>3, <4>1
            <4>2. CASE i # k + 1
                <5>1. i \in 1 .. k
                    BY <4>2
                <5> QED  BY <2>5, <2>6, <3>2, <5>1
            <4> QED  BY <4>1, <4>2
        <3>5. r = q
            BY <2>6, <3>2, <3>4, SeqEqual
        <3> QED  BY <3>1, <3>5
    <2> QED  BY <1>3, <2>2, <2>4, <2>9, <2>10
<1>5. CASE ~(k < n)
    <2>1. Prefix(s, k) = s /\ Prefix(s, k + 1) = s
        <3>1. SubSeq(s, 1, n) = s
            BY <1>1, SubSeqFull
        <3>2. (IF k <= n THEN k ELSE n) = n /\ (IF k + 1 <= n THEN k + 1 ELSE n) = n
            BY <1>1, <1>5
        <3> QED  BY <1>1, <3>1, <3>2 DEF Prefix
    <2>2. f[IF s = <<>> THEN head ELSE s[Len(s)]] = end
        <3>1. f[IF n = 0 THEN head ELSE s[n]] = end
            <4>1. n \in 0 .. n
                BY <1>1
            <4> QED  BY <1>1, <4>1 DEF Walk
        <3>2. s = <<>> <=> n = 0
            BY <1>1
        <3> QED  BY <1>1, <3>1, <3>2
    <2>3. Onward(f, head, s) = s
        BY <2>2 DEF Onward
    <2> QED  BY <1>3, <2>1, <2>3
<1> QED  BY <1>4, <1>5

\* A walk that is long enough for s and no longer finds s.
LEMMA ChainIs ==
    ASSUME NEW S, NEW s \in Seq(S), NEW f, NEW head, NEW end \in {head, NULL}, Walk(f, head, s, end),
           \A i \in 1 .. Len(s) : s[i] \notin {head, NULL},
           Cardinality(DOMAIN f) \in Nat, Len(s) <= Cardinality(DOMAIN f)
    PROVE  Chain(f, head) = s
<1>1. PICK n \in Nat : n = Cardinality(DOMAIN f)
    OBVIOUS
<1>2. PICK d : d = [k \in 0 .. n |-> Prefix(s, k)]
    OBVIOUS
<1>3. ASSUME NEW k \in 0 .. n PROVE d[k] = IF k = 0 THEN <<>> ELSE Onward(f, head, d[k - 1])
    <2>1. CASE k = 0
        <3>1. Prefix(s, 0) = <<>>
            BY PrefixNext
        <3> QED  BY <1>2, <2>1, <3>1
    <2>2. CASE k # 0
        <3>1. PICK j \in Nat : j = k - 1 /\ j + 1 = k /\ j \in 0 .. n
            BY <1>1, <2>2
        <3>2. Onward(f, head, Prefix(s, j)) = Prefix(s, j + 1)
            BY <3>1, PrefixNext
        <3> QED  BY <1>2, <2>2, <3>1, <3>2
    <2> QED  BY <2>1, <2>2
<1>4. IsChain(d, f, head)
    <2>1. d = [k \in 0 .. n |-> IF k = 0 THEN <<>> ELSE Onward(f, head, d[k - 1])]
        BY <1>2, <1>3
    <2> QED  BY <1>1, <2>1 DEF IsChain
<1>5. PICK c : c = CHOOSE b : IsChain(b, f, head)
    OBVIOUS
<1>6. IsChain(c, f, head)
    BY <1>4, <1>5
<1>7. \A k \in 0 .. n : c[k] = IF k = 0 THEN <<>> ELSE Onward(f, head, c[k - 1])
    BY <1>1, <1>6 DEF IsChain
<1> DEFINE T == {k \in Nat : k <= n => c[k] = Prefix(s, k)}
<1>8. 0 \in T
    <2>1. Prefix(s, 0) = <<>> /\ 0 \in 0 .. n
        BY <1>1, PrefixNext
    <2> QED  BY <1>7, <2>1
<1>9. ASSUME NEW k \in Nat, k \in T PROVE k + 1 \in T
    <2> SUFFICES ASSUME k + 1 <= n PROVE c[k + 1] = Prefix(s, k + 1)
        OBVIOUS
    <2>1. k <= n /\ k + 1 \in 0 .. n /\ k + 1 # 0 /\ (k + 1) - 1 = k
        BY <1>1
    <2>2. c[k] = Prefix(s, k)
        BY <1>9, <2>1
    <2>3. c[k + 1] = Onward(f, head, c[k])
        BY <1>7, <2>1
    <2> QED  BY <2>2, <2>3, PrefixNext
<1>10. \A k \in Nat : k \in T
    <2> HIDE DEF T
    <2> QED  BY <1>8, <1>9, NatClosed
<1>11. c[n] = Prefix(s, n)
    <2>1. n \in T /\ n <= n
        BY <1>1, <1>10
    <2> QED  BY <2>1
<1>12. Prefix(s, n) = s
    <2>1. PICK m \in Nat : m = Len(s)
        OBVIOUS
    <2>2. (IF n <= m THEN n ELSE m) = m
        BY <1>1, <2>1
    <2>3. SubSeq(s, 1, m) = s
        BY <2>1, SubSeqFull
    <2> QED  BY <2>1, <2>2, <2>3 DEF Prefix
<1> QED  BY <1>1, <1>5, <1>11, <1>12, ChainDef

(***************************************************************************)
(* Initialised heads                                                       *)
(***************************************************************************)

\* The heads in S point to themselves and nothing else points anywhere.
SelfLinked(S) == [next |-> [x \in AllNodes |-> IF x \in S THEN x ELSE NULL],
                  prev |-> [x \in AllNodes |-> IF x \in S THEN x ELSE NULL]]

Zero == [next |-> [x \in AllNodes |-> NULL], prev |-> [x \in AllNodes |-> NULL]]

\* The heap after the heads of S were initialised, one chosen after the other.
OneMore(c, S) ==
    IF S = {} THEN Zero ELSE list_init(c[S \ {CHOOSE l \in S : TRUE}], CHOOSE l \in S : TRUE)

IsInitAll(c) == c = [S \in SUBSET Heads |-> OneMore(c, S)]

LEMMA InitDef == Init => heap = (CHOOSE c : IsInitAll(c))[Heads] /\ seq = [l \in Heads |-> <<>>]
    BY DEF Init, IsInitAll, OneMore, Zero

LEMMA InitOne ==
    ASSUME NEW S \in SUBSET Heads, NEW l \in S
    PROVE  list_init(SelfLinked(S \ {l}), l) = SelfLinked(S)
<1>1. PICK f : f = [x \in AllNodes |-> IF x \in S \ {l} THEN x ELSE NULL]
    OBVIOUS
<1>2. PICK g : g = [x \in AllNodes |-> IF x \in S THEN x ELSE NULL]
    OBVIOUS
<1>3. l \in AllNodes /\ S \subseteq AllNodes /\ NULL \in AllNodes
    BY DEF AllNodes
<1>4. f \in [AllNodes -> AllNodes] /\ g \in [AllNodes -> AllNodes] /\ [f EXCEPT ![l] = l] = g
    BY <1>1, <1>2, <1>3
<1>5. PICK h : h = SelfLinked(S \ {l})
    OBVIOUS
<1>6. Pointers(h) /\ h.next = f /\ h.prev = f
    BY <1>1, <1>4, <1>5 DEF Pointers, SelfLinked
<1>7. PICK h1 : h1 = SetNext(h, l, l)
    OBVIOUS
<1>8. Pointers(h1) /\ h1.next = g /\ h1.prev = f
    <2>1. NextStored(h1, h, l, l)
        BY <1>3, <1>6, <1>7, OneStore
    <2> QED  BY <1>4, <1>6, <2>1 DEF NextStored
<1>9. PICK h2 : h2 = SetPrev(h1, l, l)
    OBVIOUS
<1>10. Pointers(h2) /\ h2.next = g /\ h2.prev = g
    <2>1. PrevStored(h2, h1, l, l)
        BY <1>3, <1>8, <1>9, OneStore
    <2> QED  BY <1>4, <1>8, <2>1 DEF PrevStored
<1>11. h2 = SelfLinked(S)
    BY <1>2, <1>10 DEF Pointers, SelfLinked
<1> QED  BY <1>5, <1>7, <1>9, <1>11 DEF list_init

LEMMA InitAllIs == (CHOOSE c : IsInitAll(c))[Heads] = SelfLinked(Heads)
<1>1. PICK d : d = [S \in SUBSET Heads |-> SelfLinked(S)]
    OBVIOUS
<1>2. SelfLinked({}) = Zero
    BY DEF SelfLinked, Zero
<1>3. ASSUME NEW S \in SUBSET Heads, S # {}, NEW c, c[S \ {CHOOSE l \in S : TRUE}] = SelfLinked(S \ {CHOOSE l \in S : TRUE})
      PROVE  OneMore(c, S) = SelfLinked(S)
    <2>1. PICK l \in S : l = CHOOSE x \in S : TRUE
        BY <1>3
    <2>2. OneMore(c, S) = list_init(c[S \ {l}], l)
        BY <1>3, <2>1 DEF OneMore
    <2>3. c[S \ {l}] = SelfLinked(S \ {l})
        BY <1>3, <2>1
    <2> QED  BY <2>1, <2>2, <2>3, InitOne
<1>4. ASSUME NEW S \in SUBSET Heads PROVE d[S] = OneMore(d, S)
    <2>1. CASE S = {}
        BY <1>1, <1>2, <2>1 DEF OneMore
    <2>2. CASE S # {}
        <3>1. S \ {CHOOSE l \in S : TRUE} \in SUBSET Heads
            OBVIOUS
        <3>2. d[S \ {CHOOSE l \in S : TRUE}] = SelfLinked(S \ {CHOOSE l \in S : TRUE})
            BY <1>1, <3>1
        <3> QED  BY <1>1, <1>3, <2>2, <3>2
    <2> QED  BY <2>1, <2>2
<1>5. IsInitAll(d)
    <2>1. d = [S \in SUBSET Heads |-> OneMore(d, S)]
        BY <1>1, <1>4
    <2> QED  BY <2>1 DEF IsInitAll
<1>6. PICK c : c = CHOOSE b : IsInitAll(b)
    OBVIOUS
<1>7. IsInitAll(c)
    BY <1>5, <1>6
<1>8. \A S \in SUBSET Heads : c[S] = OneMore(c, S)
    BY <1>7 DEF IsInitAll
<1> DEFINE T == {n \in Nat : \A S \in SUBSET Heads : Cardinality(S) = n => c[S] = SelfLinked(S)}
<1>9. IsFiniteSet(Heads) /\ \A S \in SUBSET Heads : IsFiniteSet(S) /\ Cardinality(S) \in Nat
    <2>1. Heads \in SUBSET (Heads \cup Nodes)
        OBVIOUS
    <2>2. IsFiniteSet(Heads)
        BY <2>1, NodeAssumption, FS_Subset
    <2>3. \A S \in SUBSET Heads : IsFiniteSet(S)
        BY <2>2, FS_Subset
    <2> QED  BY <2>2, <2>3, FS_CardinalityType
<1>10. 0 \in T
    <2>1. ASSUME NEW S \in SUBSET Heads, Cardinality(S) = 0 PROVE c[S] = SelfLinked(S)
        <3>1. S = {}
            BY <1>9, <2>1, FS_EmptySet
        <3> QED  BY <1>2, <1>8, <3>1 DEF OneMore
    <2> QED  BY <2>1
<1>11. ASSUME NEW n \in Nat, n \in T PROVE n + 1 \in T
    <2>1. ASSUME NEW S \in SUBSET Heads, Cardinality(S) = n + 1 PROVE c[S] = SelfLinked(S)
        <3>1. S # {}
            BY <2>1, FS_EmptySet
        <3>2. PICK l \in S : l = CHOOSE x \in S : TRUE
            BY <3>1
        <3>3. S \ {l} \in SUBSET Heads /\ Cardinality(S \ {l}) = n
            <4>1. S \ {l} \in SUBSET Heads /\ (n + 1) - 1 = n
                OBVIOUS
            <4>2. Cardinality(S \ {l}) = Cardinality(S) - 1
                BY <1>9, <3>2, FS_RemoveElement
            <4> QED  BY <2>1, <4>1, <4>2
        <3>4. c[S \ {l}] = SelfLinked(S \ {l})
            BY <1>11, <3>3
        <3> QED  BY <1>3, <1>8, <3>1, <3>2, <3>4
    <2> QED  BY <2>1
<1>12. \A n \in Nat : n \in T
    <2> HIDE DEF T
    <2> QED  BY <1>10, <1>11, NatClosed
<1>13. c[Heads] = SelfLinked(Heads)
    <2>1. Heads \in SUBSET Heads /\ Cardinality(Heads) \in T
        BY <1>9, <1>12
    <2> QED  BY <2>1
<1> QED  BY <1>6, <1>13

LEMMA InitRing == Init => RingInv
<1> SUFFICES ASSUME Init PROVE RingInv
    OBVIOUS
<1>1. heap = SelfLinked(Heads) /\ seq = [l \in Heads |-> <<>>]
    BY InitDef, InitAllIs
<1>2. PICK f : f = [x \in AllNodes |-> IF x \in Heads THEN x ELSE NULL]
    OBVIOUS
<1>3. f \in [AllNodes -> AllNodes] /\ heap = [next |-> f, prev |-> f]
    BY <1>1, <1>2 DEF SelfLinked, AllNodes
<1>4. heap.next = f /\ heap.prev = f
    BY <1>3
<1>5. Pointers(heap)
    BY <1>3, <1>4 DEF Pointers
<1>6. Len(<<>>) = 0 /\ <<>> \in Seq(Nodes)
    OBVIOUS
<1>7. seq \in [Heads -> Seq(Nodes)] /\ \A l \in Heads : seq[l] = <<>>
    BY <1>1, <1>6
<1>8. ASSUME NEW l \in Heads PROVE Spells(heap, l, <<>>) /\ Distinct(<<>>) /\ \A x : Absent(<<>>, x)
    <2>1. Ring(l, <<>>, 0) = l /\ Ring(l, <<>>, 0 + 1) = l
        BY <1>6 DEF Ring
    <2>2. f[l] = l
        BY <1>2 DEF AllNodes
    <2>3. \A i \in 0 .. 0 : i = 0
        OBVIOUS
    <2> QED  BY <1>4, <1>6, <2>1, <2>2, <2>3 DEF Spells, Distinct, Absent
<1>9. \A l, m \in Heads : \A i \in 1 .. Len(seq[l]) : Absent(seq[m], seq[l][i])
    BY <1>7, <1>8
<1> QED  BY <1>5, <1>7, <1>8, <1>9 DEF RingInv

(***************************************************************************)
(* Each operation keeps the rings                                          *)
(***************************************************************************)

\* z belongs to no list but l.
Foreign(l, z) == \A m \in Heads : m # l => z # m /\ Absent(seq[m], z)

LEMMA RingForeign ==
    ASSUME RingInv, NEW l \in Heads, NEW i \in 0 .. Len(seq[l]) + 1
    PROVE  Foreign(l, Ring(l, seq[l], i))
<1>1. PICK s \in Seq(Nodes) : s = seq[l]
    BY DEF RingInv
<1>2. CASE i \in 1 .. Len(s)
    <2>1. Ring(l, s, i) = s[i] /\ s[i] \in Nodes
        BY <1>1, <1>2, RingIs
    <2>2. \A m \in Heads : s[i] # m
        BY <2>1, NodeAssumption
    <2>3. \A m \in Heads : m # l => Absent(seq[m], s[i])
        BY <1>1, <1>2 DEF RingInv
    <2> QED  BY <1>1, <2>1, <2>2, <2>3 DEF Foreign
<1>3. CASE i \notin 1 .. Len(s)
    <2>1. Ring(l, s, i) = l
        BY <1>3 DEF Ring
    <2>2. ASSUME NEW m \in Heads PROVE Absent(seq[m], l)
        <3>1. PICK u \in Seq(Nodes) : u = seq[m]
            BY DEF RingInv
        <3>2. \A k \in 1 .. Len(u) : u[k] # l
            BY RingIs
        <3> QED  BY <3>1, <3>2 DEF Absent
    <2> QED  BY <1>1, <2>1, <2>2 DEF Foreign
<1> QED  BY <1>2, <1>3

\* A step that rewrites one list and writes only nodes of that list, or free
\* ones, keeps the invariant.
LEMMA OneListStep ==
    ASSUME RingInv, NEW l \in Heads, NEW t \in Seq(Nodes), seq' = [seq EXCEPT ![l] = t],
           NEW x \in AllNodes, NEW e \in AllNodes, NEW y \in AllNodes,
           heap' = Linked(heap, x, e, y) \/ heap' = Unlinked(heap, x, e, y),
           Spells(heap', l, t), Distinct(t),
           Foreign(l, x), Foreign(l, e), Foreign(l, y),
           \A i \in 1 .. Len(t) : Foreign(l, t[i])
    PROVE  RingInv'
<1>1. Pointers(heap')
    BY LinkedIs DEF RingInv
<1>2. /\ seq \in [Heads -> Seq(Nodes)] /\ seq' \in [Heads -> Seq(Nodes)] /\ seq'[l] = t
      /\ \A m \in Heads : m # l => seq'[m] = seq[m]
    BY DEF RingInv
<1>3. ASSUME NEW m \in Heads PROVE Distinct(seq'[m]) /\ Spells(heap', m, seq'[m])
    <2>1. CASE m = l
        BY <1>2, <2>1
    <2>2. CASE m # l
        <3>1. PICK u \in Seq(Nodes) : u = seq[m] /\ seq'[m] = u
            BY <1>2, <2>2
        <3>2. Distinct(u) /\ Spells(heap, m, u)
            BY <3>1 DEF RingInv
        <3>3. ASSUME NEW i \in 0 .. Len(u) + 1 PROVE Ring(m, u, i) \notin {x, e, y}
            <4>1. \A k \in 1 .. Len(u) : u[k] \notin {x, e, y}
                BY <2>2, <3>1 DEF Foreign, Absent
            <4>2. m \notin {x, e, y}
                BY <2>2 DEF Foreign
            <4> QED  BY <4>1, <4>2 DEF Ring
        <3>4. Spells(heap', m, u)
            BY <3>2, <3>3, OtherSpells
        <3> QED  BY <3>1, <3>2, <3>4
    <2> QED  BY <2>1, <2>2
<1>4. ASSUME NEW a \in Heads, NEW b \in Heads, a # b, NEW i \in 1 .. Len(seq'[a])
      PROVE  Absent(seq'[b], seq'[a][i])
    <2>1. CASE a = l
        BY <1>2, <1>4, <2>1 DEF Foreign
    <2>2. CASE b = l
        <3>1. seq'[a] = seq[a] /\ seq'[b] = t
            BY <1>2, <1>4, <2>2
        <3>2. \A k \in 1 .. Len(t) : Absent(seq[a], t[k])
            BY <1>4, <2>2 DEF Foreign
        <3>3. i \in 1 .. Len(seq[a])
            BY <3>1
        <3>4. \A k \in 1 .. Len(t) : t[k] # seq[a][i]
            BY <3>2, <3>3 DEF Absent
        <3> QED  BY <3>1, <3>4 DEF Absent
    <2>3. CASE a # l /\ b # l
        BY <1>2, <1>4, <2>3 DEF RingInv
    <2> QED  BY <2>1, <2>2, <2>3
<1> QED  BY <1>1, <1>2, <1>3, <1>4 DEF RingInv, Pointers, Spells, Ring, Distinct, Absent, AllNodes

\* Inserting a free node behind position i.
LEMMA InsertStep ==
    ASSUME RingInv, NEW l \in Heads, NEW e \in Free, NEW i \in 0 .. Len(seq[l]),
           NEW t, Inserted(t, seq[l], i, e), seq' = [seq EXCEPT ![l] = t],
           heap' = Linked(heap, Ring(l, seq[l], i), e, Ring(l, seq[l], i + 1))
    PROVE  RingInv'
<1>1. PICK s \in Seq(Nodes) : s = seq[l]
    BY DEF RingInv
<1>2. PICK n \in Nat : n = Len(s)
    OBVIOUS
<1>3. i \in 0 .. n /\ i \in 0 .. n + 1 /\ i + 1 \in 0 .. n + 1
    BY <1>1, <1>2
<1>4. PICK x \in AllNodes : x = Ring(l, s, i)
    BY <1>2, <1>3, RingIs
<1>5. PICK y \in AllNodes : y = Ring(l, s, i + 1)
    BY <1>2, <1>3, RingIs
<1>6. e \in Nodes /\ \A m \in Heads : Absent(seq[m], e) /\ m # e
    <2>1. e \in Nodes /\ \A m \in Heads : ~Contains(seq[m], e)
        BY DEF Free
    <2>2. ASSUME NEW m \in Heads PROVE Absent(seq[m], e)
        <3>1. \A k \in 1 .. Len(seq[m]) : seq[m][k] # e
            BY <2>1 DEF Contains
        <3> QED  BY <3>1 DEF Absent
    <2> QED  BY <2>1, <2>2, NodeAssumption
<1>7. Foreign(l, e) /\ Foreign(l, x) /\ Foreign(l, y)
    <2>1. Foreign(l, e)
        BY <1>6 DEF Foreign
    <2> QED  BY <1>1, <1>2, <1>3, <1>4, <1>5, <2>1, RingForeign
<1>8. Distinct(s) /\ Spells(heap, l, s) /\ Pointers(heap) /\ Absent(s, e) /\ Inserted(t, s, i, e)
    BY <1>1, <1>6 DEF RingInv
<1>9. Spells(heap', l, t) /\ Distinct(t)
    BY <1>1, <1>2, <1>3, <1>6, <1>8, InsertSpells
<1>10. t \in Seq(Nodes) /\ Len(t) = n + 1
    BY <1>2, <1>8 DEF Inserted
<1>11. ASSUME NEW k \in 1 .. Len(t) PROVE Foreign(l, t[k])
    <2>1. k \in 1 .. n + 1
        BY <1>10
    <2>2. \A j \in 1 .. n : Foreign(l, s[j])
        <3>1. \A j \in 1 .. n : j \in 0 .. n + 1 /\ s[j] = Ring(l, s, j)
            BY <1>2, RingIs
        <3> QED  BY <1>1, <1>2, <3>1, RingForeign
    <2>3. /\ \A j \in 1 .. i : t[j] = s[j]
          /\ t[i + 1] = e
          /\ \A j \in i + 1 .. n : t[j + 1] = s[j]
        BY <1>2, <1>8 DEF Inserted
    <2>4. CASE k <= i
        <3>1. k \in 1 .. i /\ k \in 1 .. n
            BY <1>3, <2>1, <2>4
        <3> QED  BY <2>2, <2>3, <3>1
    <2>5. CASE k = i + 1
        BY <1>7, <2>3, <2>5
    <2>6. CASE k > i + 1
        <3>1. PICK j \in i + 1 .. n : j + 1 = k /\ j \in 1 .. n
            <4>1. k - 1 \in i + 1 .. n /\ (k - 1) + 1 = k /\ k - 1 \in 1 .. n
                BY <1>2, <1>3, <2>1, <2>6
            <4> QED  BY <4>1
        <3>2. t[k] = s[j]
            BY <2>3, <3>1
        <3> QED  BY <2>2, <3>1, <3>2
    <2> QED  BY <1>3, <2>1, <2>4, <2>5, <2>6
<1>12. heap' = Linked(heap, x, e, y) /\ e \in AllNodes
    BY <1>1, <1>4, <1>5, <1>6 DEF AllNodes
<1> QED  BY <1>7, <1>9, <1>10, <1>11, <1>12, OneListStep

\* Removing position i.
LEMMA RemoveStep ==
    ASSUME RingInv, NEW l \in Heads, NEW i \in 1 .. Len(seq[l]),
           NEW t, Removed(t, seq[l], i), seq' = [seq EXCEPT ![l] = t],
           heap' = Unlinked(heap, Ring(l, seq[l], i - 1), seq[l][i], Ring(l, seq[l], i + 1))
    PROVE  RingInv'
<1>1. PICK s \in Seq(Nodes) : s = seq[l]
    BY DEF RingInv
<1>2. PICK n \in Nat : n = Len(s)
    OBVIOUS
<1>3. i \in 1 .. n /\ i \in 0 .. n + 1 /\ i + 1 \in 0 .. n + 1 /\ i - 1 \in 0 .. n + 1
    BY <1>1, <1>2
<1>4. PICK x \in AllNodes : x = Ring(l, s, i - 1)
    BY <1>2, <1>3, RingIs
<1>5. PICK y \in AllNodes : y = Ring(l, s, i + 1)
    BY <1>2, <1>3, RingIs
<1>6. PICK e \in AllNodes : e = s[i] /\ e = Ring(l, s, i)
    BY <1>2, <1>3, RingIs
<1>7. Foreign(l, e) /\ Foreign(l, x) /\ Foreign(l, y)
    BY <1>1, <1>2, <1>3, <1>4, <1>5, <1>6, RingForeign
<1>8. Distinct(s) /\ Spells(heap, l, s) /\ Pointers(heap) /\ Removed(t, s, i)
    BY <1>1 DEF RingInv
<1>9. Spells(heap', l, t) /\ Distinct(t)
    BY <1>1, <1>2, <1>3, <1>8, RemoveSpells
<1>10. t \in Seq(Nodes) /\ Len(t) = n - 1
    BY <1>2, <1>8 DEF Removed
<1>11. ASSUME NEW k \in 1 .. Len(t) PROVE Foreign(l, t[k])
    <2>1. k \in 1 .. n - 1
        BY <1>10
    <2>2. \A j \in 1 .. n : Foreign(l, s[j])
        <3>1. \A j \in 1 .. n : j \in 0 .. n + 1 /\ s[j] = Ring(l, s, j)
            BY <1>2, RingIs
        <3> QED  BY <1>1, <1>2, <3>1, RingForeign
    <2>3. /\ \A j \in 1 .. i - 1 : t[j] = s[j]
          /\ \A j \in i .. n - 1 : t[j] = s[j + 1]
        BY <1>2, <1>8 DEF Removed
    <2>4. CASE k < i
        <3>1. k \in 1 .. i - 1 /\ k \in 1 .. n
            BY <1>2, <1>3, <2>1, <2>4
        <3> QED  BY <2>2, <2>3, <3>1
    <2>5. CASE k >= i
        <3>1. k \in i .. n - 1 /\ k + 1 \in 1 .. n
            BY <1>2, <1>3, <2>1, <2>5
        <3> QED  BY <2>2, <2>3, <3>1
    <2> QED  BY <1>3, <2>1, <2>4, <2>5
<1>12. heap' = Unlinked(heap, x, e, y)
    BY <1>1, <1>4, <1>5, <1>6
<1> QED  BY <1>7, <1>9, <1>10, <1>11, <1>12, OneListStep

\* What the proofs of the actions need of the list they work on.
LEMMA ListIs ==
    ASSUME RingInv, NEW l \in Heads
    PROVE  /\ seq[l] \in Seq(Nodes) /\ Len(seq[l]) \in Nat /\ Distinct(seq[l])
           /\ Pointers(heap) /\ Spells(heap, l, seq[l])
           /\ \A i \in 0 .. Len(seq[l]) :
                 /\ heap.next[Ring(l, seq[l], i)] = Ring(l, seq[l], i + 1)
                 /\ heap.prev[Ring(l, seq[l], i + 1)] = Ring(l, seq[l], i)
           /\ \A i \in 0 .. Len(seq[l]) + 1 : Ring(l, seq[l], i) \in AllNodes
           /\ Ring(l, seq[l], 0) = l /\ Ring(l, seq[l], Len(seq[l]) + 1) = l
           /\ \A i \in 1 .. Len(seq[l]) : Ring(l, seq[l], i) = seq[l][i]
<1>1. PICK s \in Seq(Nodes) : s = seq[l]
    BY DEF RingInv
<1>2. Distinct(s) /\ Pointers(heap) /\ Spells(heap, l, s)
    BY <1>1 DEF RingInv
<1>3. \A i \in 0 .. Len(s) : /\ heap.next[Ring(l, s, i)] = Ring(l, s, i + 1)
                             /\ heap.prev[Ring(l, s, i + 1)] = Ring(l, s, i)
    BY <1>2 DEF Spells
<1>4. /\ \A i \in 0 .. Len(s) + 1 : Ring(l, s, i) \in AllNodes
      /\ Ring(l, s, 0) = l /\ Ring(l, s, Len(s) + 1) = l
      /\ \A i \in 1 .. Len(s) : Ring(l, s, i) = s[i]
    BY RingIs
<1> QED  BY <1>1, <1>2, <1>3, <1>4

\* A free node is in no list.
LEMMA FreeApart ==
    ASSUME RingInv, NEW l \in Heads, NEW e \in Free, NEW i \in 0 .. Len(seq[l]) + 1
    PROVE  e \in Nodes /\ e \in AllNodes /\ e # Ring(l, seq[l], i)
<1>1. e \in Nodes /\ \A k \in 1 .. Len(seq[l]) : seq[l][k] # e
    BY DEF Free, Contains
<1>2. e # l /\ e \in AllNodes
    BY <1>1, NodeAssumption DEF AllNodes
<1> QED  BY <1>1, <1>2 DEF Ring

\* list_add_after and list_add_tail, at position i of a list.
LEMMA AfterLinks ==
    ASSUME RingInv, NEW l \in Heads, NEW e \in Free, NEW i \in 0 .. Len(seq[l])
    PROVE  /\ list_add_after(heap, Ring(l, seq[l], i), e)
                = Linked(heap, Ring(l, seq[l], i), e, Ring(l, seq[l], i + 1))
           /\ list_add_tail(heap, Ring(l, seq[l], i + 1), e)
                = Linked(heap, Ring(l, seq[l], i), e, Ring(l, seq[l], i + 1))
<1>1. PICK n \in Nat : n = Len(seq[l])
    BY ListIs
<1>2. i \in 0 .. n + 1 /\ i + 1 \in 0 .. n + 1
    BY <1>1
<1>3. PICK x \in AllNodes : x = Ring(l, seq[l], i)
    BY <1>1, <1>2, ListIs
<1>4. PICK y \in AllNodes : y = Ring(l, seq[l], i + 1)
    BY <1>1, <1>2, ListIs
<1>5. heap.next[x] = y /\ heap.prev[y] = x /\ Pointers(heap)
    BY <1>3, <1>4, ListIs
<1>6. e \in AllNodes /\ e # x /\ e # y
    BY <1>1, <1>2, <1>3, <1>4, FreeApart
<1>7. list_add_after(heap, x, e) = Linked(heap, x, e, y)
    BY <1>5, <1>6, AddAfterLinks
<1>8. list_add_tail(heap, y, e) = Linked(heap, x, e, y)
    BY <1>5, <1>6, AddTailLinks
<1> QED  BY <1>3, <1>4, <1>7, <1>8

\* list_remove, at position i of a list.
LEMMA AtUnlinks ==
    ASSUME RingInv, NEW l \in Heads, NEW i \in 1 .. Len(seq[l])
    PROVE  list_remove(heap, seq[l][i])
             = Unlinked(heap, Ring(l, seq[l], i - 1), seq[l][i], Ring(l, seq[l], i + 1))
<1>1. PICK n \in Nat : n = Len(seq[l])
    BY ListIs
<1>2. PICK j \in 0 .. n : j = i - 1 /\ j + 1 = i
    BY <1>1
<1>3. i \in 0 .. n /\ i \in 0 .. n + 1 /\ j \in 0 .. n + 1 /\ i + 1 \in 0 .. n + 1 /\ i # j
    BY <1>1, <1>2
<1>4. PICK x \in AllNodes : x = Ring(l, seq[l], j)
    BY <1>1, <1>3, ListIs
<1>5. PICK y \in AllNodes : y = Ring(l, seq[l], i + 1)
    BY <1>1, <1>3, ListIs
<1>6. PICK e \in AllNodes : e = Ring(l, seq[l], i) /\ e = seq[l][i]
    BY <1>1, <1>3, ListIs
<1>7. heap.prev[e] = x /\ heap.next[e] = y /\ Pointers(heap)
    BY <1>1, <1>2, <1>3, <1>4, <1>5, <1>6, ListIs
<1>8. e # x /\ e # y
    <2>1. PICK s \in Seq(Nodes) : s = seq[l] /\ Distinct(s)
        BY ListIs
    <2>2. Ring(l, s, i) # Ring(l, s, j) /\ Ring(l, s, j + 1) # Ring(l, s, i + 1)
        BY <1>1, <1>3, <2>1, RingDistinct
    <2> QED  BY <1>2, <1>4, <1>5, <1>6, <2>1, <2>2
<1> QED  BY <1>2, <1>4, <1>5, <1>6, <1>7, <1>8, RemoveUnlinks

LEMMA StepRing == RingInv /\ [Next]_vars => RingInv'
<1> SUFFICES ASSUME RingInv, [Next]_vars PROVE RingInv'
    OBVIOUS
<1>1. ASSUME NEW l \in Heads, NEW e \in Free, AddTail(l, e) PROVE RingInv'
    <2>1. PICK n \in Nat : n = Len(seq[l])
        BY ListIs
    <2>2. n \in 0 .. Len(seq[l]) /\ Ring(l, seq[l], n + 1) = l
        BY <2>1, ListIs
    <2>3. heap' = Linked(heap, Ring(l, seq[l], n), e, Ring(l, seq[l], n + 1))
        <3>1. heap' = list_add_tail(heap, l, e)
            BY <1>1 DEF AddTail
        <3> QED  BY <2>2, <3>1, AfterLinks
    <2>4. PICK t : t = Append(seq[l], e)
        OBVIOUS
    <2>5. Inserted(t, seq[l], n, e)
        BY <2>1, <2>4, AppendInserts, ListIs DEF Free
    <2>6. seq' = [seq EXCEPT ![l] = t]
        BY <1>1, <2>4 DEF AddTail
    <2> QED  BY <2>2, <2>3, <2>5, <2>6, InsertStep
<1>2. ASSUME NEW l \in Heads, NEW e \in Free, AddHead(l, e) PROVE RingInv'
    <2>1. 0 \in 0 .. Len(seq[l]) /\ Ring(l, seq[l], 0) = l
        BY ListIs
    <2>2. heap' = Linked(heap, Ring(l, seq[l], 0), e, Ring(l, seq[l], 0 + 1))
        <3>1. heap' = list_add_after(heap, l, e)
            BY <1>2 DEF AddHead, list_add_head
        <3> QED  BY <2>1, <3>1, AfterLinks
    <2>3. PICK t : t = <<e>> \o seq[l]
        OBVIOUS
    <2>4. Inserted(t, seq[l], 0, e)
        BY <2>3, FrontInserts, ListIs DEF Free
    <2>5. seq' = [seq EXCEPT ![l] = t]
        BY <1>2, <2>3 DEF AddHead
    <2> QED  BY <2>1, <2>2, <2>4, <2>5, InsertStep
<1>3. ASSUME NEW l \in Heads, NEW e \in Free, NEW i \in DOMAIN seq[l], AddAfter(l, i, e) PROVE RingInv'
    <2>1. i \in 1 .. Len(seq[l]) /\ i \in 0 .. Len(seq[l]) /\ Ring(l, seq[l], i) = seq[l][i]
        BY ListIs
    <2>2. heap' = Linked(heap, Ring(l, seq[l], i), e, Ring(l, seq[l], i + 1))
        <3>1. heap' = list_add_after(heap, seq[l][i], e)
            BY <1>3 DEF AddAfter
        <3> QED  BY <2>1, <3>1, AfterLinks
    <2>3. PICK t : t = InsertAt(seq[l], i + 1, e)
        OBVIOUS
    <2>4. Inserted(t, seq[l], i, e)
        BY <2>1, <2>3, InsertAtInserts, ListIs DEF Free
    <2>5. seq' = [seq EXCEPT ![l] = t]
        BY <1>3, <2>3 DEF AddAfter
    <2> QED  BY <2>1, <2>2, <2>4, <2>5, InsertStep
<1>4. ASSUME NEW l \in Heads, NEW e \in Free, NEW i \in DOMAIN seq[l], AddBefore(l, i, e) PROVE RingInv'
    <2>1. i \in 1 .. Len(seq[l]) /\ Ring(l, seq[l], i) = seq[l][i]
        BY ListIs
    <2>2. PICK j \in 0 .. Len(seq[l]) : j + 1 = i
        <3>1. i - 1 \in 0 .. Len(seq[l]) /\ (i - 1) + 1 = i
            BY <2>1, ListIs
        <3> QED  BY <3>1
    <2>3. heap' = Linked(heap, Ring(l, seq[l], j), e, Ring(l, seq[l], j + 1))
        <3>1. heap' = list_add_tail(heap, seq[l][i], e)
            BY <1>4 DEF AddBefore, list_add_before
        <3> QED  BY <2>1, <2>2, <3>1, AfterLinks
    <2>4. PICK t : t = InsertAt(seq[l], j + 1, e)
        OBVIOUS
    <2>5. Inserted(t, seq[l], j, e)
        BY <2>2, <2>4, InsertAtInserts, ListIs DEF Free
    <2>6. seq' = [seq EXCEPT ![l] = t]
        BY <1>4, <2>2, <2>4 DEF AddBefore
    <2> QED  BY <2>2, <2>3, <2>5, <2>6, InsertStep
<1>5. ASSUME NEW l \in Heads, NEW i \in DOMAIN seq[l], RemoveNode(l, i) PROVE RingInv'
    <2>1. i \in 1 .. Len(seq[l])
        BY ListIs
    <2>2. heap' = Unlinked(heap, Ring(l, seq[l], i - 1), seq[l][i], Ring(l, seq[l], i + 1))
        BY <1>5, <2>1, AtUnlinks DEF RemoveNode
    <2>3. PICK t : t = RemoveAt(seq[l], i)
        OBVIOUS
    <2>4. Removed(t, seq[l], i)
        BY <2>1, <2>3, RemoveAtRemoves, ListIs
    <2>5. seq' = [seq EXCEPT ![l] = t]
        BY <1>5, <2>3 DEF RemoveNode
    <2> QED  BY <2>1, <2>2, <2>4, <2>5, RemoveStep
<1>6. ASSUME NEW l \in Heads, Pop(l) PROVE RingInv'
    <2>1. PICK s \in Seq(Nodes) : s = seq[l]
        BY ListIs
    <2>2. heap.next[l] = Ring(l, s, 1)
        <3>1. 0 \in 0 .. Len(s) /\ 0 + 1 = 1
            BY <2>1, ListIs
        <3> QED  BY <2>1, <3>1, ListIs
    <2>3. CASE s = <<>>
        <3>1. list_empty(heap, l)
            BY <2>1, <2>2, <2>3 DEF list_empty, Ring
        <3>2. heap' = heap
            BY <1>6, <3>1 DEF Pop, list_pop
        <3>3. seq' = seq
            <4>1. seq' = [seq EXCEPT ![l] = seq[l]]
                BY <1>6, <2>1, <2>3 DEF Pop
            <4> QED  BY <4>1 DEF RingInv
        <3> QED  BY <3>2, <3>3 DEF RingInv, Pointers
    <2>4. CASE s # <<>>
        <3>1. Removed(Tail(s), s, 1) /\ 1 \in 1 .. Len(s) /\ Head(s) = s[1]
            BY <2>4, TailRemoves
        <3>2. heap.next[l] = s[1] /\ s[1] # l
            BY <2>2, <3>1, RingIs
        <3>3. heap' = list_remove(heap, s[1])
            BY <1>6, <3>2 DEF Pop, list_pop, list_empty
        <3>4. heap' = Unlinked(heap, Ring(l, s, 1 - 1), s[1], Ring(l, s, 1 + 1))
            BY <2>1, <3>1, <3>3, AtUnlinks
        <3>5. PICK t : t = Tail(s)
            OBVIOUS
        <3>6. seq' = [seq EXCEPT ![l] = t]
            BY <1>6, <2>1, <2>4, <3>5 DEF Pop
        <3> QED  BY <2>1, <3>1, <3>4, <3>5, <3>6, RemoveStep
    <2> QED  BY <2>3, <2>4
<1>7. ASSUME UNCHANGED vars PROVE RingInv'
    <2>1. heap' = heap /\ seq' = seq
        BY <1>7 DEF vars
    <2> QED  BY <2>1 DEF RingInv, Pointers
<1> QED  BY <1>1, <1>2, <1>3, <1>4, <1>5, <1>6, <1>7 DEF Next

\* The pointers of every list always form a ring through the nodes of its
\* reference sequence.
THEOREM RingInvAlways == Spec => []RingInv
<1>1. Init => RingInv
    BY InitRing
<1>2. RingInv /\ [Next]_vars => RingInv'
    BY StepRing
<1> QED  BY <1>1, <1>2, PTL DEF Spec

(***************************************************************************)
(* What the walks and queries find                                         *)
(***************************************************************************)

\* A list has no more nodes than there are.
LEMMA ListFits ==
    ASSUME NEW s \in Seq(Nodes), Distinct(s)
    PROVE  Cardinality(AllNodes) \in Nat /\ Len(s) <= Cardinality(AllNodes)
<1>1. IsFiniteSet(AllNodes)
    <2>1. AllNodes = (Heads \cup Nodes) \cup {NULL}
        BY DEF AllNodes
    <2> QED  BY <2>1, NodeAssumption, FS_AddElement
<1>2. PICK n \in Nat : n = Len(s)
    OBVIOUS
<1>3. PICK f : f = [i \in 1 .. n |-> s[i]]
    OBVIOUS
<1>4. f \in Injection(1 .. n, AllNodes)
    <2>1. \A i \in 1 .. n : s[i] \in AllNodes
        BY <1>2, ElementOfSeq DEF AllNodes
    <2>2. f \in [1 .. n -> AllNodes]
        BY <1>3, <2>1
    <2>3. \A i, j \in 1 .. n : f[i] = f[j] => i = j
        BY <1>2, <1>3 DEF Distinct
    <2> QED  BY <2>2, <2>3 DEF Injection, IsInjective
<1>5. Cardinality(1 .. n) = n
    <2>1. 1 \in Int /\ n \in Int /\ (IF 1 > n THEN 0 ELSE n - 1 + 1) = n
        BY <1>2
    <2> QED  BY <2>1, FS_Interval
<1>6. Cardinality(1 .. n) <= Cardinality(AllNodes)
    BY <1>1, <1>4, FS_Injection
<1> QED  BY <1>1, <1>2, <1>5, <1>6, FS_CardinalityType

\* Walking a ring forwards finds the sequence, walking it backwards finds it
\* in the opposite order.
LEMMA WalksFind ==
    ASSUME NEW h, Pointers(h), NEW l \in Heads, NEW s \in Seq(Nodes), Distinct(s), Spells(h, l, s)
    PROVE  /\ Chain(h.next, l) = s
           /\ Chain(h.prev, l) = [i \in 1 .. Len(s) |-> s[Len(s) + 1 - i]]
<1>1. PICK n \in Nat : n = Len(s)
    OBVIOUS
<1>2. /\ \A i \in 1 .. n : Ring(l, s, i) = s[i] /\ s[i] \in Nodes /\ s[i] \notin {l, NULL}
      /\ Ring(l, s, 0) = l /\ Ring(l, s, n + 1) = l
    BY <1>1, RingIs
<1>3. \A i \in 0 .. n : h.next[Ring(l, s, i)] = Ring(l, s, i + 1) /\ h.prev[Ring(l, s, i + 1)] = Ring(l, s, i)
    BY <1>1 DEF Spells
<1>4. PICK f : f = h.next
    OBVIOUS
<1>5. PICK g : g = h.prev
    OBVIOUS
<1>6. DOMAIN f = AllNodes /\ DOMAIN g = AllNodes
    BY <1>4, <1>5 DEF Pointers
<1>7. Cardinality(AllNodes) \in Nat /\ n <= Cardinality(AllNodes)
    BY <1>1, ListFits
<1>8. Walk(f, l, s, l)
    <2>1. ASSUME NEW i \in 0 .. n
          PROVE  f[IF i = 0 THEN l ELSE s[i]] = IF i = n THEN l ELSE s[i + 1]
        <3>1. Ring(l, s, i) = IF i = 0 THEN l ELSE s[i]
            <4>1. i = 0 \/ i \in 1 .. n
                BY <1>1
            <4> QED  BY <1>2, <4>1
        <3>2. Ring(l, s, i + 1) = IF i = n THEN l ELSE s[i + 1]
            <4>1. i = n \/ i + 1 \in 1 .. n
                BY <1>1
            <4> QED  BY <1>2, <4>1
        <3> QED  BY <1>3, <1>4, <3>1, <3>2
    <2> QED  BY <1>1, <2>1 DEF Walk
<1>9. Chain(f, l) = s
    BY <1>1, <1>2, <1>6, <1>7, <1>8, ChainIs
<1>10. PICK r : r = [i \in 1 .. n |-> s[n + 1 - i]]
    OBVIOUS
<1>11. ASSUME NEW i \in 1 .. n PROVE n + 1 - i \in 1 .. n /\ r[i] = s[n + 1 - i] /\ r[i] \in Nodes /\ r[i] \notin {l, NULL}
    <2>1. n + 1 - i \in 1 .. n
        BY <1>1
    <2> QED  BY <1>2, <1>10, <2>1
<1>12. r \in Seq(Nodes) /\ Len(r) = n
    <2>1. r \in [1 .. n -> Nodes]
        BY <1>10, <1>11
    <2> QED  BY <1>1, <2>1
<1>13. Walk(g, l, r, l)
    <2>1. ASSUME NEW i \in 0 .. n
          PROVE  g[IF i = 0 THEN l ELSE r[i]] = IF i = n THEN l ELSE r[i + 1]
        <3>1. PICK j \in 0 .. n : j = n - i
            BY <1>1
        <3>2. Ring(l, s, j + 1) = IF i = 0 THEN l ELSE r[i]
            <4>1. CASE i = 0
                BY <1>1, <1>2, <3>1, <4>1
            <4>2. CASE i # 0
                <5>1. i \in 1 .. n /\ j + 1 = n + 1 - i
                    BY <1>1, <3>1, <4>2
                <5> QED  BY <1>2, <1>11, <4>2, <5>1
            <4> QED  BY <4>1, <4>2
        <3>3. Ring(l, s, j) = IF i = n THEN l ELSE r[i + 1]
            <4>1. CASE i = n
                BY <1>1, <1>2, <3>1, <4>1
            <4>2. CASE i # n
                <5>1. i + 1 \in 1 .. n /\ j = n + 1 - (i + 1)
                    BY <1>1, <3>1, <4>2
                <5> QED  BY <1>2, <1>11, <4>2, <5>1
            <4> QED  BY <4>1, <4>2
        <3> QED  BY <1>3, <1>5, <3>1, <3>2, <3>3
    <2> QED  BY <1>12, <2>1 DEF Walk
<1>14. Chain(g, l) = r
    <2>1. \A i \in 1 .. Len(r) : r[i] \notin {l, NULL}
        BY <1>11, <1>12
    <2> QED  BY <1>6, <1>7, <1>12, <1>13, <2>1, ChainIs
<1> QED  BY <1>1, <1>4, <1>5, <1>9, <1>10, <1>14

\* A list whose pointers spell s is sound, and walking it gives s.
LEMMA SpelledSound ==
    ASSUME NEW h, Pointers(h), NEW l \in Heads, NEW s \in Seq(Nodes), Distinct(s), Spells(h, l, s)
    PROVE  Sound(h, l) /\ Elements(h, l) = s
<1>1. PICK n \in Nat : n = Len(s)
    OBVIOUS
<1>2. PICK r : r = [i \in 1 .. n |-> s[n + 1 - i]]
    OBVIOUS
<1>3. Chain(h.next, l) = s /\ Chain(h.prev, l) = r
    BY <1>1, <1>2, WalksFind
<1>4. ASSUME NEW i \in 1 .. n PROVE n + 1 - i \in 1 .. n /\ s[i] = r[n + 1 - i] /\ r[i] \in Nodes
    <2>1. PICK j \in 1 .. n : j = n + 1 - i /\ n + 1 - j = i
        <3>1. n + 1 - i \in 1 .. n /\ n + 1 - (n + 1 - i) = i
            BY <1>1
        <3> QED  BY <3>1
    <2>2. r[j] = s[i]
        BY <1>2, <2>1
    <2>3. s[j] \in Nodes /\ r[i] = s[j]
        BY <1>1, <1>2, <2>1, RingIs
    <2> QED  BY <2>1, <2>2, <2>3
<1>5. r \in Seq(Nodes) /\ Len(r) = n
    <2>1. r \in [1 .. n -> Nodes]
        BY <1>2, <1>4
    <2> QED  BY <1>1, <2>1
<1>6. h.next[IF s = <<>> THEN l ELSE s[Len(s)]] = l
    <2>1. n \in 0 .. n /\ h.next[Ring(l, s, n)] = Ring(l, s, n + 1)
        BY <1>1 DEF Spells
    <2>2. Ring(l, s, n + 1) = l
        BY <1>1, RingIs
    <2>3. Ring(l, s, n) = IF s = <<>> THEN l ELSE s[Len(s)]
        <3>1. s = <<>> <=> n = 0
            BY <1>1
        <3>2. n # 0 => n \in 1 .. n
            BY <1>1
        <3> QED  BY <1>1, <3>1, <3>2, RingIs
    <2> QED  BY <2>1, <2>2, <2>3
<1>7. h.prev[IF r = <<>> THEN l ELSE r[Len(r)]] = l
    <2>1. h.prev[Ring(l, s, 1)] = l
        <3>1. 0 \in 0 .. n /\ 0 + 1 = 1
            BY <1>1
        <3>2. h.prev[Ring(l, s, 0 + 1)] = Ring(l, s, 0)
            BY <1>1, <3>1 DEF Spells
        <3> QED  BY <3>1, <3>2, RingIs
    <2>2. Ring(l, s, 1) = IF r = <<>> THEN l ELSE r[Len(r)]
        <3>1. r = <<>> <=> n = 0
            BY <1>5
        <3>2. CASE n = 0
            <4>1. 1 \notin 1 .. n
                BY <3>2
            <4> QED  BY <1>1, <3>1, <3>2, <4>1 DEF Ring
        <3>3. CASE n # 0
            <4>1. 1 \in 1 .. n /\ n \in 1 .. n /\ n + 1 - n = 1
                BY <1>1, <3>3
            <4>2. r[n] = s[1]
                BY <1>2, <4>1
            <4> QED  BY <1>1, <1>5, <3>1, <3>3, <4>1, <4>2 DEF Ring
        <3> QED  BY <3>2, <3>3
    <2> QED  BY <2>1, <2>2
<1>8. Sound(h, l)
    <2>1. DOMAIN s = 1 .. n
        BY <1>1
    <2> QED  BY <1>1, <1>3, <1>4, <1>5, <1>6, <1>7, <2>1 DEF Sound
<1> QED  BY <1>3, <1>8 DEF Elements

LEMMA RingMatches == RingInv => ListMatchesSequence
<1> SUFFICES ASSUME RingInv, NEW l \in Heads PROVE Sound(heap, l) /\ Elements(heap, l) = seq[l]
    BY DEF ListMatchesSequence
<1>1. PICK s \in Seq(Nodes) : s = seq[l]
    BY ListIs
<1>2. Distinct(s) /\ Pointers(heap) /\ Spells(heap, l, s)
    BY <1>1, ListIs
<1> QED  BY <1>1, <1>2, SpelledSound

LEMMA RingQueries == RingInv => QueriesMatchSequence
<1> SUFFICES ASSUME RingInv, NEW l \in Heads
             PROVE  /\ list_empty(heap, l) <=> seq[l] = <<>>
                    /\ list_front(heap, l) = IF seq[l] = <<>> THEN NULL ELSE Head(seq[l])
                    /\ \A e \in Nodes : list_find(heap, l, e) <=> Contains(seq[l], e)
    BY DEF QueriesMatchSequence
<1>1. PICK s \in Seq(Nodes) : s = seq[l]
    BY ListIs
<1>2. heap.next[l] = Ring(l, s, 1)
    <2>1. 0 \in 0 .. Len(s) /\ 0 + 1 = 1
        BY <1>1, ListIs
    <2> QED  BY <1>1, <2>1, ListIs
<1>3. list_empty(heap, l) <=> s = <<>>
    <2>1. CASE s = <<>>
        BY <1>2, <2>1 DEF list_empty, Ring
    <2>2. CASE s # <<>>
        <3>1. 1 \in 1 .. Len(s)
            BY <2>2, TailRemoves
        <3>2. Ring(l, s, 1) # l
            BY <3>1, RingIs
        <3> QED  BY <1>2, <2>2, <3>2 DEF list_empty
    <2> QED  BY <2>1, <2>2
<1>4. list_front(heap, l) = IF s = <<>> THEN NULL ELSE Head(s)
    <2>1. CASE s = <<>>
        BY <1>3, <2>1 DEF list_front
    <2>2. CASE s # <<>>
        <3>1. 1 \in 1 .. Len(s) /\ Head(s) = s[1]
            BY <2>2, TailRemoves
        <3>2. Ring(l, s, 1) = Head(s)
            BY <3>1, RingIs
        <3> QED  BY <1>2, <1>3, <2>2, <3>2 DEF list_front
    <2> QED  BY <2>1, <2>2
<1>5. Elements(heap, l) = s
    BY <1>1, RingMatches DEF ListMatchesSequence
<1>6. ASSUME NEW e \in Nodes PROVE list_find(heap, l, e) <=> Contains(s, e)
    <2>1. DOMAIN s = 1 .. Len(s)
        OBVIOUS
    <2> QED  BY <1>5, <2>1 DEF list_find, Contains
<1> QED  BY <1>1, <1>3, <1>4, <1>6

\* For every set of nodes and every number of lists: whatever sequence of
\* list.h operations is performed on the pointers, following next from a head
\* gives the list as a sequence, following prev gives it backwards, and no
\* operation on one list disturbs another.
THEOREM ListMatchesCorrect == Spec => []ListMatchesSequence
<1>1. RingInv => ListMatchesSequence
    BY RingMatches
<1> QED  BY <1>1, RingInvAlways, PTL

\* list_empty, list_front and list_find answer what the sequence says, in
\* every state that operations on any number of nodes and lists lead to.
THEOREM QueriesMatchCorrect == Spec => []QueriesMatchSequence
<1>1. RingInv => QueriesMatchSequence
    BY RingQueries
<1> QED  BY <1>1, RingInvAlways, PTL

(***************************************************************************)
(* The ready list while threads are created                                *)
(***************************************************************************)

\* The pointers of the ready list spell s, and s has each member of Q once.
IsList(h, s, Q) ==
    /\ Pointers(h) /\ s \in Seq(Nodes) /\ Distinct(s) /\ Spells(h, ReadyHead, s)
    /\ \A i \in 1 .. Len(s) : s[i] \in Q
    /\ \A p \in Q : \E i \in 1 .. Len(s) : s[i] = p

\* The node before the head is the last one, or the head itself.
LEMMA LastBefore ==
    ASSUME NEW h, NEW s, NEW Q, IsList(h, s, Q)
    PROVE  /\ h.prev[ReadyHead] = Ring(ReadyHead, s, Len(s))
           /\ Ring(ReadyHead, s, Len(s)) \in AllNodes \ {NULL}
           /\ Ring(ReadyHead, s, Len(s)) \in Q \cup {ReadyHead}
<1>1. s \in Seq(Nodes) /\ ReadyHead \in Heads
    BY ReadyListAssumption DEF IsList
<1>2. PICK n \in Nat : n = Len(s)
    BY <1>1
<1>3. h.prev[Ring(ReadyHead, s, n + 1)] = Ring(ReadyHead, s, n)
    <2>1. n \in 0 .. n
        BY <1>2
    <2> QED  BY <1>2, <2>1 DEF IsList, Spells
<1>4. Ring(ReadyHead, s, n + 1) = ReadyHead /\ Ring(ReadyHead, s, n) \in AllNodes \ {NULL}
    <2>1. n \in 0 .. n + 1
        BY <1>2
    <2> QED  BY <1>1, <1>2, <2>1, RingIs
<1>5. Ring(ReadyHead, s, n) \in Q \cup {ReadyHead}
    BY <1>2 DEF Ring, IsList
<1> QED  BY <1>2, <1>3, <1>4, <1>5

\* list_add_tail puts a node that is not in the list at its end.
LEMMA ListAppend ==
    ASSUME NEW h, NEW s, NEW Q, IsList(h, s, Q), NEW e \in Nodes, e \notin Q
    PROVE  /\ IsList(list_add_tail(h, ReadyHead, e), Append(s, e), Q \cup {e})
           /\ \A p \in Nodes : p \notin Q \cup {e} =>
                 list_add_tail(h, ReadyHead, e).next[p] = h.next[p]
<1>1. s \in Seq(Nodes) /\ ReadyHead \in Heads /\ Pointers(h) /\ Distinct(s) /\ Spells(h, ReadyHead, s)
    BY ReadyListAssumption DEF IsList
<1>2. PICK n \in Nat : n = Len(s)
    BY <1>1
<1>3. PICK x \in AllNodes : x = Ring(ReadyHead, s, n) /\ h.prev[ReadyHead] = x /\ x \in Q \cup {ReadyHead}
    BY <1>2, LastBefore
<1>4. e \in AllNodes /\ ReadyHead \in AllNodes /\ e # ReadyHead /\ e # x
    BY <1>1, <1>3, NodeAssumption DEF AllNodes
<1>5. PICK g : g = list_add_tail(h, ReadyHead, e)
    OBVIOUS
<1>6. g = Linked(h, x, e, ReadyHead)
    BY <1>1, <1>3, <1>4, <1>5, AddTailLinks
<1>7. PICK t : t = Append(s, e)
    OBVIOUS
<1>8. Inserted(t, s, n, e)
    BY <1>1, <1>2, <1>7, AppendInserts
<1>9. Absent(s, e)
    BY DEF IsList, Absent
<1>10. Spells(g, ReadyHead, t) /\ Distinct(t)
    <2>1. n \in 0 .. Len(s) /\ Ring(ReadyHead, s, n + 1) = ReadyHead
        BY <1>1, <1>2, RingIs
    <2>2. /\ Spells(Linked(h, Ring(ReadyHead, s, n), e, Ring(ReadyHead, s, n + 1)), ReadyHead, t)
          /\ Distinct(t)
        BY <1>1, <1>8, <1>9, <2>1, InsertSpells
    <2> QED  BY <1>3, <1>6, <2>1, <2>2
<1>11. Pointers(g)
    BY <1>1, <1>4, <1>6, LinkedIs
<1>12. t \in Seq(Nodes) /\ Len(t) = n + 1 /\ t[n + 1] = e /\ \A i \in 1 .. n : t[i] = s[i]
    BY <1>2, <1>8 DEF Inserted
<1>13. \A i \in 1 .. n : s[i] \in Q
    BY <1>2 DEF IsList
<1>14. \A i \in 1 .. Len(t) : t[i] \in Q \cup {e}
    <2>1. \A i \in 1 .. n + 1 : i \in 1 .. n \/ i = n + 1
        BY <1>2
    <2> QED  BY <1>12, <1>13, <2>1
<1>15. \A p \in Q \cup {e} : \E i \in 1 .. Len(t) : t[i] = p
    <2>1. n + 1 \in 1 .. n + 1 /\ \A i \in 1 .. n : i \in 1 .. n + 1
        BY <1>2
    <2>2. \A p \in Q : \E i \in 1 .. n : s[i] = p
        BY <1>2 DEF IsList
    <2> QED  BY <1>12, <2>1, <2>2
<1>16. ASSUME NEW p \in Nodes, p \notin Q \cup {e} PROVE g.next[p] = h.next[p]
    <2>1. p \in AllNodes /\ p # ReadyHead
        BY <1>1, NodeAssumption DEF AllNodes
    <2>2. p # x /\ p # e
        BY <1>3, <1>16, <2>1
    <2> QED  BY <1>6, <2>1, <2>2 DEF Linked
<1>17. IsList(g, t, Q \cup {e})
    BY <1>10, <1>11, <1>12, <1>14, <1>15 DEF IsList
<1> QED  BY <1>5, <1>7, <1>16, <1>17

\* list_empty, list_front and list_pop on a list that spells s.
LEMMA ListFront ==
    ASSUME NEW h, NEW s, NEW Q, IsList(h, s, Q)
    PROVE  /\ list_empty(h, ReadyHead) <=> s = <<>>
           /\ s # <<>> => /\ list_front(h, ReadyHead) = Head(s) /\ Head(s) \in Q
                          /\ IsList(list_pop(h, ReadyHead), Tail(s), Q \ {Head(s)})
                          /\ \A p \in Nodes \ Q : list_pop(h, ReadyHead).next[p] = h.next[p]
<1>1. s \in Seq(Nodes) /\ ReadyHead \in Heads /\ Pointers(h) /\ Distinct(s) /\ Spells(h, ReadyHead, s)
    BY ReadyListAssumption DEF IsList
<1>2. PICK n \in Nat : n = Len(s)
    BY <1>1
<1>3. h.next[ReadyHead] = Ring(ReadyHead, s, 1)
    <2>1. 0 \in 0 .. n /\ 0 + 1 = 1
        BY <1>2
    <2>2. h.next[Ring(ReadyHead, s, 0)] = Ring(ReadyHead, s, 0 + 1)
        BY <1>1, <1>2, <2>1 DEF Spells
    <2> QED  BY <1>1, <2>1, <2>2, RingIs
<1>4. ASSUME s = <<>> PROVE list_empty(h, ReadyHead)
    <2>1. 1 \notin 1 .. Len(s)
        BY <1>4
    <2> QED  BY <1>3, <2>1 DEF Ring, list_empty
<1>5. ASSUME s # <<>>
      PROVE  /\ ~list_empty(h, ReadyHead)
             /\ list_front(h, ReadyHead) = Head(s) /\ Head(s) \in Q
             /\ IsList(list_pop(h, ReadyHead), Tail(s), Q \ {Head(s)})
             /\ \A p \in Nodes \ Q : list_pop(h, ReadyHead).next[p] = h.next[p]
    <2>1. PICK t : t = Tail(s)
        OBVIOUS
    <2>2. Removed(t, s, 1) /\ 1 \in 1 .. n /\ Head(s) = s[1]
        BY <1>1, <1>2, <1>5, <2>1, TailRemoves
    <2>3. PICK e \in AllNodes : e = s[1] /\ e = Ring(ReadyHead, s, 1) /\ e # ReadyHead
        <3>1. 1 \in 0 .. n + 1
            BY <1>2
        <3> QED  BY <1>1, <1>2, <2>2, <3>1, RingIs
    <2>4. ~list_empty(h, ReadyHead) /\ list_front(h, ReadyHead) = Head(s)
        BY <1>3, <2>2, <2>3 DEF list_empty, list_front
    <2>5. Head(s) \in Q
        BY <1>2, <2>2 DEF IsList
    <2>6. PICK y \in AllNodes : y = Ring(ReadyHead, s, 2) /\ y # e
        <3>1. 2 \in 0 .. n + 1 /\ 0 \in 0 .. n /\ 1 \in 0 .. n /\ 0 + 1 = 1 /\ 1 + 1 = 2
            BY <1>2, <2>2
        <3>2. Ring(ReadyHead, s, 0 + 1) # Ring(ReadyHead, s, 1 + 1)
            BY <1>1, <1>2, <3>1, RingDistinct
        <3> QED  BY <1>1, <1>2, <2>3, <3>1, <3>2, RingIs
    <2>7. h.prev[e] = ReadyHead /\ h.next[e] = y
        <3>1. 0 \in 0 .. n /\ 1 \in 0 .. n /\ 0 + 1 = 1 /\ 1 + 1 = 2
            BY <1>2, <2>2
        <3>2. /\ h.prev[Ring(ReadyHead, s, 0 + 1)] = Ring(ReadyHead, s, 0)
              /\ h.next[Ring(ReadyHead, s, 1)] = Ring(ReadyHead, s, 1 + 1)
            BY <1>1, <1>2, <3>1 DEF Spells
        <3> QED  BY <1>1, <2>3, <2>6, <3>1, <3>2, RingIs
    <2>8. PICK g : g = list_pop(h, ReadyHead)
        OBVIOUS
    <2>9. ReadyHead \in AllNodes /\ g = Unlinked(h, ReadyHead, e, y)
        <3>1. ReadyHead \in AllNodes
            BY <1>1 DEF AllNodes
        <3>2. g = list_remove(h, e)
            BY <1>3, <2>3, <2>4, <2>8 DEF list_pop
        <3> QED  BY <1>1, <2>3, <2>6, <2>7, <3>1, <3>2, RemoveUnlinks
    <2>10. Spells(g, ReadyHead, t) /\ Distinct(t)
        <3>1. 1 \in 1 .. Len(s) /\ 1 - 1 = 0 /\ 1 + 1 = 2 /\ Ring(ReadyHead, s, 0) = ReadyHead
            BY <1>1, <1>2, <2>2, RingIs
        <3>2. /\ Spells(Unlinked(h, Ring(ReadyHead, s, 1 - 1), s[1], Ring(ReadyHead, s, 1 + 1)), ReadyHead, t)
              /\ Distinct(t)
            BY <1>1, <2>2, <3>1, RemoveSpells
        <3> QED  BY <2>3, <2>6, <2>9, <3>1, <3>2
    <2>11. Pointers(g)
        BY <1>1, <2>3, <2>6, <2>9, LinkedIs
    <2>12. t \in Seq(Nodes) /\ Len(t) = n - 1 /\ \A k \in 1 .. n - 1 : t[k] = s[k + 1]
        BY <1>2, <2>2 DEF Removed
    <2>13. \A i \in 1 .. Len(t) : t[i] \in Q \ {Head(s)}
        <3>1. ASSUME NEW i \in 1 .. n - 1 PROVE t[i] \in Q \ {Head(s)}
            <4>1. i + 1 \in 1 .. n /\ i + 1 # 1
                BY <1>2
            <4>2. s[i + 1] \in Q /\ s[i + 1] # s[1]
                BY <1>1, <1>2, <2>2, <4>1 DEF IsList, Distinct
            <4> QED  BY <2>2, <2>12, <4>2
        <3> QED  BY <2>12, <3>1
    <2>14. \A p \in Q \ {Head(s)} : \E i \in 1 .. Len(t) : t[i] = p
        <3>1. ASSUME NEW p \in Q \ {Head(s)} PROVE \E i \in 1 .. n - 1 : t[i] = p
            <4>1. PICK k \in 1 .. n : s[k] = p
                BY <1>2 DEF IsList
            <4>2. k # 1
                BY <2>2, <4>1
            <4>3. PICK i \in 1 .. n - 1 : i = k - 1 /\ i + 1 = k
                BY <1>2, <4>2
            <4>4. t[i] = p
                BY <2>12, <4>1, <4>3
            <4> QED  BY <4>4
        <3> QED  BY <2>12, <3>1
    <2>15. ASSUME NEW p \in Nodes \ Q PROVE g.next[p] = h.next[p]
        <3>1. p \in AllNodes /\ p # ReadyHead
            BY <1>1, NodeAssumption DEF AllNodes
        <3>2. p # e
            BY <2>2, <2>3, <2>5, <2>15
        <3> QED  BY <2>9, <3>1, <3>2 DEF Unlinked
    <2>16. IsList(g, t, Q \ {Head(s)})
        BY <2>10, <2>11, <2>12, <2>13, <2>14 DEF IsList
    <2> QED  BY <2>1, <2>4, <2>5, <2>8, <2>15, <2>16
<1> QED  BY <1>4, <1>5

\* The pointers once the stores k..4 of list_add_tail are performed as well.
Rest(k, h, e) ==
    CASE k = 1 -> list_add_tail(h, ReadyHead, e)
      [] k = 2 -> AddTailStore(4, AddTailStore(3, AddTailStore(2, h, ReadyHead, e), ReadyHead, e),
                               ReadyHead, e)
      [] k = 3 -> AddTailStore(4, AddTailStore(3, h, ReadyHead, e), ReadyHead, e)
      [] k = 4 -> AddTailStore(4, h, ReadyHead, e)

\* The threads that wait for the CPU, and those that have a quantum.
Others == (created \cup {Idle}) \ {current}
Alive  == created \cup {Idle} \cup ({creating} \ {NULL})

\* No store of a list_add_tail has been performed without the others.
Plain == creating = NULL \/ store = 1

ReadyTypes ==
    /\ created \subseteq Threads /\ current \in created \cup {Idle}
    /\ creating \in (Threads \ created) \cup {NULL}
    /\ store \in 1 .. 4
    /\ ticks \in [Proc -> 0 .. 255]

\* Every thread has ticks left.
Quanta == \A p \in Alive : ticks[p] \in 1 .. Prio[p]

\* The ready list has everybody but the running thread, or will have once the
\* stores that are under way are done.
Listed ==
    /\ Plain => \E s : IsList(links, s, Others)
    /\ ~Plain => \E s : IsList(Rest(store, links, creating), s, Others \cup {creating})

ReadyInv == ReadyTypes /\ Quanta /\ Listed

\* The list of one head alone.
LEMMA OneHead ==
    ASSUME NEW h, h = list_init(Zero, ReadyHead)
    PROVE  IsList(h, <<>>, {}) /\ \A p \in Nodes : h.next[p] = NULL
<1>1. ReadyHead \in Heads
    BY ReadyListAssumption
<1>2. h = SelfLinked({ReadyHead})
    <2>1. {ReadyHead} \in SUBSET Heads /\ ReadyHead \in {ReadyHead} /\ {ReadyHead} \ {ReadyHead} = {}
        BY <1>1
    <2>2. SelfLinked({}) = Zero
        BY DEF SelfLinked, Zero
    <2> QED  BY <2>1, <2>2, InitOne
<1>3. PICK f : f = [x \in AllNodes |-> IF x \in {ReadyHead} THEN x ELSE NULL]
    OBVIOUS
<1>4. f \in [AllNodes -> AllNodes] /\ h = [next |-> f, prev |-> f] /\ h.next = f /\ h.prev = f
    BY <1>2, <1>3 DEF SelfLinked, AllNodes
<1>5. Pointers(h)
    BY <1>4 DEF Pointers
<1>6. Len(<<>>) = 0 /\ <<>> \in Seq(Nodes) /\ 1 .. 0 = {}
    OBVIOUS
<1>7. Spells(h, ReadyHead, <<>>)
    <2>1. Ring(ReadyHead, <<>>, 0) = ReadyHead /\ Ring(ReadyHead, <<>>, 0 + 1) = ReadyHead
        BY <1>6 DEF Ring
    <2>2. f[ReadyHead] = ReadyHead
        BY <1>1, <1>3 DEF AllNodes
    <2>3. \A i \in 0 .. 0 : i = 0
        OBVIOUS
    <2> QED  BY <1>4, <1>6, <2>1, <2>2, <2>3 DEF Spells
<1>8. \A p \in Nodes : h.next[p] = NULL
    BY <1>1, <1>3, <1>4, NodeAssumption DEF AllNodes
<1> QED  BY <1>5, <1>6, <1>7, <1>8 DEF IsList, Distinct

LEMMA ReadyAtStart == ReadyInit => ReadyInv
<1> SUFFICES ASSUME ReadyInit PROVE ReadyInv
    OBVIOUS
<1>1. /\ links = list_init(Zero, ReadyHead) /\ current = Idle /\ created = {} /\ creating = NULL
      /\ store = 1 /\ ticks = [p \in Proc |-> IF p = Idle THEN Prio[Idle] ELSE 0]
    BY DEF ReadyInit, Zero
<1>2. Idle \in Proc /\ Prio[Idle] \in 1 .. 255
    BY ReadyListAssumption DEF Proc
<1>3. PICK b \in 1 .. 255 : b = Prio[Idle]
    BY <1>2
<1>4. ticks \in [Proc -> 0 .. 255] /\ ticks[Idle] = b
    BY <1>1, <1>2, <1>3
<1>5. ReadyTypes
    BY <1>1, <1>2, <1>4 DEF ReadyTypes
<1>6. Quanta
    <2>1. Alive = {Idle}
        BY <1>1 DEF Alive
    <2>2. b \in 1 .. b
        BY <1>3
    <2> QED  BY <1>3, <1>4, <2>1, <2>2 DEF Quanta
<1>7. Listed
    <2>1. Plain /\ Others = {}
        BY <1>1 DEF Plain, Others
    <2>2. IsList(links, <<>>, {})
        BY <1>1, OneHead
    <2> QED  BY <2>1, <2>2 DEF Listed
<1> QED  BY <1>5, <1>6, <1>7 DEF ReadyInv

\* Asking for a thread: nothing is linked yet.
LEMMA CreateKeeps ==
    ASSUME ReadyInv, NEW t \in Threads, KthreadCreate(t)
    PROVE  ReadyInv'
<1>1. /\ current = Idle /\ creating = NULL /\ t \notin created /\ creating' = t /\ store' = 1
      /\ ticks' = [ticks EXCEPT ![t] = Prio[t]]
      /\ links' = links /\ current' = current /\ created' = created
    BY DEF KthreadCreate
<1>2. ReadyTypes /\ Quanta /\ Listed
    BY DEF ReadyInv
<1>3. t \in Proc /\ Idle \in Proc /\ Prio[t] \in 1 .. 255 /\ t # Idle /\ t # NULL
    BY ReadyListAssumption, NodeAssumption DEF Proc
<1>4. ticks \in [Proc -> 0 .. 255] /\ created \subseteq Proc
    BY <1>2 DEF ReadyTypes, Proc
<1>5. PICK b \in 1 .. 255 : b = Prio[t]
    BY <1>3
<1>6. /\ ticks' \in [Proc -> 0 .. 255] /\ ticks'[t] = b
      /\ \A p \in Proc : p # t => ticks'[p] = ticks[p]
    <2>1. b \in 0 .. 255
        OBVIOUS
    <2> QED  BY <1>1, <1>3, <1>4, <1>5, <2>1
<1>7. ReadyTypes'
    BY <1>1, <1>2, <1>6 DEF ReadyTypes
<1>8. Quanta'
    <2>1. Alive = created \cup {Idle} /\ Alive' = created \cup {Idle} \cup {t}
        BY <1>1, <1>3 DEF Alive
    <2>2. b \in 1 .. b
        BY <1>5
    <2>3. ASSUME NEW p \in Alive' PROVE ticks'[p] \in 1 .. Prio[p]
        <3>1. CASE p = t
            BY <1>5, <1>6, <2>2, <3>1
        <3>2. CASE p # t
            <4>1. p \in Alive /\ p \in Proc
                BY <1>3, <1>4, <2>1, <3>2
            <4> QED  BY <1>2, <1>6, <3>2, <4>1 DEF Quanta
        <3> QED  BY <3>1, <3>2
    <2> QED  BY <2>3 DEF Quanta
<1>9. Listed'
    <2>1. Plain /\ Plain' /\ Others' = Others
        BY <1>1 DEF Plain, Others
    <2> QED  BY <1>1, <1>2, <2>1 DEF Listed
<1> QED  BY <1>7, <1>8, <1>9 DEF ReadyInv

\* What is left to do after one of the stores.
LEMMA RestNext ==
    ASSUME NEW h, NEW e
    PROVE  /\ Rest(1, h, e) = list_add_tail(h, ReadyHead, e)
           /\ \A k \in 1 .. 3 : Rest(k + 1, AddTailStore(k, h, ReadyHead, e), e) = Rest(k, h, e)
           /\ Rest(4, h, e) = AddTailStore(4, h, ReadyHead, e)
<1>1. Rest(1, h, e) = list_add_tail(h, ReadyHead, e) /\ Rest(4, h, e) = AddTailStore(4, h, ReadyHead, e)
    BY DEF Rest
<1>2. Rest(2, AddTailStore(1, h, ReadyHead, e), e) = Rest(1, h, e)
    BY DEF Rest, list_add_tail
<1>3. Rest(3, AddTailStore(2, h, ReadyHead, e), e) = Rest(2, h, e)
    BY DEF Rest
<1>4. Rest(4, AddTailStore(3, h, ReadyHead, e), e) = Rest(3, h, e)
    BY DEF Rest
<1>5. 1 + 1 = 2 /\ 2 + 1 = 3 /\ 3 + 1 = 4 /\ \A k \in 1 .. 3 : k = 1 \/ k = 2 \/ k = 3
    OBVIOUS
<1> QED  BY <1>1, <1>2, <1>3, <1>4, <1>5

LEMMA StoreKeeps == ReadyInv /\ LinkStore => ReadyInv'
<1> SUFFICES ASSUME ReadyInv, LinkStore PROVE ReadyInv'
    OBVIOUS
<1>1. /\ current = Idle /\ creating # NULL /\ links' = AddTailStore(store, links, ReadyHead, creating)
      /\ current' = current /\ ticks' = ticks
    BY DEF LinkStore
<1>2. ReadyTypes /\ Quanta /\ Listed
    BY DEF ReadyInv
<1>3. PICK e \in Threads \ created : e = creating
    BY <1>1, <1>2 DEF ReadyTypes
<1>4. e \in Nodes /\ e # NULL /\ e # Idle /\ e \notin Others /\ NULL \notin Threads
    BY <1>3, ReadyListAssumption, NodeAssumption DEF Proc, Others
<1>5. PICK k \in 1 .. 4 : k = store
    BY <1>2 DEF ReadyTypes
<1>6. \E s : IsList(Rest(k, links, e), s, Others \cup {e})
    <2>1. CASE k = 1
        <3>1. PICK s : IsList(links, s, Others)
            BY <1>2, <1>5, <2>1 DEF Listed, Plain
        <3>2. IsList(list_add_tail(links, ReadyHead, e), Append(s, e), Others \cup {e})
            BY <1>4, <3>1, ListAppend
        <3>3. Rest(1, links, e) = list_add_tail(links, ReadyHead, e)
            BY RestNext
        <3> QED  BY <2>1, <3>2, <3>3
    <2>2. CASE k # 1
        BY <1>1, <1>2, <1>3, <1>5, <2>2 DEF Listed, Plain
    <2> QED  BY <2>1, <2>2
<1>7. CASE k < 4
    <2>1. store' = k + 1 /\ created' = created /\ creating' = e
        BY <1>3, <1>5, <1>7 DEF LinkStore
    <2>2. k \in 1 .. 3 /\ k + 1 \in 1 .. 4 /\ k + 1 # 1
        BY <1>7
    <2>3. ReadyTypes'
        BY <1>1, <1>2, <1>3, <2>1, <2>2 DEF ReadyTypes
    <2>4. Quanta'
        <3>1. Alive' = Alive
            BY <1>3, <2>1 DEF Alive
        <3> QED  BY <1>1, <1>2, <2>1, <3>1 DEF Quanta
    <2>5. Others' = Others /\ ~Plain'
        BY <1>1, <1>4, <2>1, <2>2 DEF Others, Plain
    <2>6. Rest(k + 1, links', e) = Rest(k, links, e)
        BY <1>1, <1>3, <1>5, <2>2, RestNext
    <2>7. Listed'
        <3>1. \E s : IsList(Rest(store', links', creating'), s, Others' \cup {creating'})
            BY <1>6, <2>1, <2>5, <2>6
        <3> QED  BY <2>5, <3>1 DEF Listed
    <2> QED  BY <2>3, <2>4, <2>7 DEF ReadyInv
<1>8. CASE k = 4
    <2>1. store' = 1 /\ created' = created \cup {e} /\ creating' = NULL
        BY <1>3, <1>5, <1>8 DEF LinkStore
    <2>2. ReadyTypes'
        BY <1>1, <1>2, <1>3, <1>4, <2>1 DEF ReadyTypes
    <2>3. Quanta'
        <3>1. Alive' = Alive
            BY <1>1, <1>3, <1>4, <2>1 DEF Alive
        <3> QED  BY <1>1, <1>2, <3>1 DEF Quanta
    <2>4. Others' = Others \cup {e} /\ Plain'
        BY <1>1, <1>4, <2>1 DEF Others, Plain
    <2>5. links' = Rest(4, links, e)
        BY <1>1, <1>3, <1>5, <1>8, RestNext
    <2>6. Listed'
        BY <1>6, <1>8, <2>4, <2>5 DEF Listed
    <2> QED  BY <2>2, <2>3, <2>6 DEF ReadyInv
<1> QED  BY <1>7, <1>8

\* schedule() on a list that spells s: the front runs, and the thread that ran
\* is at the back.
LEMMA ScheduleRotates ==
    ASSUME NEW s, IsList(links, s, Others), current \in Nodes, Schedule
    PROVE  \/ s = <<>> /\ links' = links /\ current' = current
           \/ /\ s # <<>> /\ current' = Head(s) /\ current' \in Others
              /\ IsList(links', Append(Tail(s), current), (Others \ {current'}) \cup {current})
              /\ \A p \in Nodes : p \notin Others \cup {current} => links'.next[p] = links.next[p]
<1>1. CASE s = <<>>
    <2>1. list_empty(links, ReadyHead)
        BY <1>1, ListFront
    <2> QED  BY <1>1, <2>1 DEF Schedule
<1>2. CASE s # <<>>
    <2>1. PICK h : h = list_pop(links, ReadyHead)
        OBVIOUS
    <2>2. /\ ~list_empty(links, ReadyHead) /\ list_front(links, ReadyHead) = Head(s) /\ Head(s) \in Others
          /\ IsList(h, Tail(s), Others \ {Head(s)})
          /\ \A p \in Nodes \ Others : h.next[p] = links.next[p]
        BY <1>2, <2>1, ListFront
    <2>3. current' = Head(s) /\ links' = list_add_tail(h, ReadyHead, current)
        BY <2>1, <2>2 DEF Schedule
    <2>4. current \notin Others \ {Head(s)}
        BY DEF Others
    <2>6. PICK g : g = list_add_tail(h, ReadyHead, current)
        OBVIOUS
    <2>7. /\ IsList(g, Append(Tail(s), current), (Others \ {Head(s)}) \cup {current})
          /\ \A p \in Nodes : p \notin (Others \ {Head(s)}) \cup {current} => g.next[p] = h.next[p]
        BY <2>2, <2>4, <2>6, ListAppend
    <2>8. \A p \in Nodes : p \notin Others \cup {current} => g.next[p] = links.next[p]
        BY <2>2, <2>7
    <2> QED  BY <1>2, <2>2, <2>3, <2>6, <2>7, <2>8
<1> QED  BY <1>1, <1>2

\* What a timer interrupt does: it counts, or it ends the quantum.
LEMMA TimerCases ==
    ASSUME ReadyInv, Timer, ~torn'
    PROVE  /\ created' = created /\ creating' = creating /\ store' = store
           /\ current \in Proc /\ current \in Alive /\ ticks[current] \in 1 .. 255
           /\ \/ /\ ticks[current] # 1 /\ ticks' = [ticks EXCEPT ![current] = ticks[current] - 1]
                 /\ links' = links /\ current' = current
              \/ /\ ticks' = [ticks EXCEPT ![current] = Prio[current]]
                 /\ Schedule /\ store = 1
<1>1. created' = created /\ creating' = creating /\ store' = store
    BY DEF Timer
<1>2. ReadyTypes /\ Quanta
    BY DEF ReadyInv
<1>3. Idle \in Proc /\ Threads \subseteq Proc
    BY ReadyListAssumption DEF Proc
<1>4. current \in Proc /\ current \in Alive
    BY <1>2, <1>3 DEF ReadyTypes, Alive
<1>5. PICK b \in 1 .. 255 : b = Prio[current]
    BY <1>4, ReadyListAssumption
<1>6. PICK c \in 1 .. b : c = ticks[current]
    BY <1>2, <1>4, <1>5 DEF Quanta
<1>7. c \in 1 .. 255 /\ (c - 1) % 256 = c - 1
    <2>1. c \in 1 .. 255
        BY <1>5, <1>6
    <2>2. c - 1 \in 0 .. 255
        BY <2>1
    <2> QED  BY <2>1, <2>2
<1>11. CASE c # 1
    <2>1. c - 1 # 0
        BY <1>6, <1>11
    <2>2. ticks' = [ticks EXCEPT ![current] = c - 1] /\ links' = links /\ current' = current
        BY <1>6, <1>7, <2>1 DEF Timer
    <2> QED  BY <1>1, <1>4, <1>6, <1>7, <1>11, <2>2
<1>12. CASE c = 1
    <2>1. (c - 1) % 256 = 0
        BY <1>7, <1>12
    <2>2. /\ ticks' = [ticks EXCEPT ![current] = Prio[current]] /\ Schedule
          /\ torn' = (torn \/ store > 1)
        BY <1>6, <2>1 DEF Timer
    <2>4. ~(store > 1)
        BY <2>2, Zenon
    <2>3. store = 1
        BY <1>2, <2>4 DEF ReadyTypes
    <2> QED  BY <1>1, <1>4, <1>6, <1>7, <2>2, <2>3
<1> QED  BY <1>11, <1>12

LEMMA TimerKeeps ==
    ASSUME ReadyInv, Timer, ~torn'
    PROVE  ReadyInv'
<1>1. ReadyTypes /\ Quanta /\ Listed
    BY DEF ReadyInv
<1>2. /\ created' = created /\ creating' = creating /\ store' = store
      /\ current \in Proc /\ current \in Alive /\ ticks[current] \in 1 .. 255
    BY TimerCases
<1>3. Alive' = Alive /\ (Plain' <=> Plain)
    BY <1>2 DEF Alive, Plain
<1>4. Alive \subseteq Proc /\ ticks \in [Proc -> 0 .. 255] /\ Idle \in Proc
    BY <1>1 DEF ReadyTypes, Alive, Proc
<1>5. PICK b \in 1 .. 255 : b = Prio[current]
    BY <1>2, ReadyListAssumption
<1>6. PICK c \in 1 .. b : c = ticks[current]
    BY <1>1, <1>2, <1>5 DEF Quanta
<1>7. ASSUME NEW v \in 1 .. b, ticks' = [ticks EXCEPT ![current] = v]
      PROVE  ticks' \in [Proc -> 0 .. 255] /\ \A p \in Alive : ticks'[p] \in 1 .. Prio[p]
    <2>1. v \in 0 .. 255
        BY <1>5
    <2>2. /\ ticks' \in [Proc -> 0 .. 255] /\ ticks'[current] = v
          /\ \A p \in Proc : p # current => ticks'[p] = ticks[p]
        BY <1>2, <1>4, <1>7, <2>1
    <2>3. ASSUME NEW p \in Alive PROVE ticks'[p] \in 1 .. Prio[p]
        <3>1. CASE p = current
            BY <1>5, <2>2, <3>1
        <3>2. CASE p # current
            <4>1. ticks'[p] = ticks[p]
                BY <1>4, <2>2, <3>2
            <4> QED  BY <1>1, <4>1 DEF Quanta
        <3> QED  BY <3>1, <3>2
    <2> QED  BY <2>2, <2>3
<1>8. CASE /\ ticks[current] # 1 /\ ticks' = [ticks EXCEPT ![current] = ticks[current] - 1]
           /\ links' = links /\ current' = current
    <2>1. PICK v \in 1 .. b : v = c - 1
        BY <1>5, <1>6, <1>8
    <2>2. ticks' = [ticks EXCEPT ![current] = v]
        BY <1>6, <1>8, <2>1
    <2>3. ticks' \in [Proc -> 0 .. 255] /\ \A p \in Alive : ticks'[p] \in 1 .. Prio[p]
        BY <1>7, <2>2
    <2>4. ReadyTypes'
        BY <1>1, <1>2, <1>8, <2>3 DEF ReadyTypes
    <2>6. Quanta'
        BY <1>3, <2>3 DEF Quanta
    <2>7. Listed'
        <3>1. Others' = Others
            BY <1>2, <1>8 DEF Others
        <3> QED  BY <1>1, <1>2, <1>3, <1>8, <3>1 DEF Listed
    <2> QED  BY <2>4, <2>6, <2>7 DEF ReadyInv
<1>9. CASE /\ ticks' = [ticks EXCEPT ![current] = Prio[current]]
           /\ Schedule /\ store = 1
    <2>1. b \in 1 .. b /\ ticks' = [ticks EXCEPT ![current] = b]
        BY <1>5, <1>9
    <2>2. ticks' \in [Proc -> 0 .. 255] /\ \A p \in Alive : ticks'[p] \in 1 .. Prio[p]
        BY <1>7, <2>1
    <2>3. Plain /\ current \in created \cup {Idle}
        BY <1>1, <1>9 DEF Plain, ReadyTypes
    <2>4. PICK s : IsList(links, s, Others)
        BY <1>1, <2>3 DEF Listed
    <2>5. current \in Nodes
        BY <1>2, ReadyListAssumption
    <2>6. \/ s = <<>> /\ links' = links /\ current' = current
          \/ /\ s # <<>> /\ current' = Head(s) /\ current' \in Others
             /\ IsList(links', Append(Tail(s), current), (Others \ {current'}) \cup {current})
        BY <1>9, <2>4, <2>5, ScheduleRotates
    <2>7. current' \in created \cup {Idle} /\ Others' = (created \cup {Idle}) \ {current'}
        BY <1>2, <2>3, <2>6 DEF Others
    <2>8. ReadyTypes'
        BY <1>1, <1>2, <2>2, <2>7 DEF ReadyTypes
    <2>9. Quanta'
        BY <1>3, <2>2 DEF Quanta
    <2>10. \E t : IsList(links', t, Others')
        <3>1. CASE links' = links /\ current' = current
            <4>1. Others' = Others
                BY <2>7, <3>1 DEF Others
            <4> QED  BY <2>4, <3>1, <4>1
        <3>2. CASE /\ current' \in Others
                   /\ IsList(links', Append(Tail(s), current), (Others \ {current'}) \cup {current})
            <4>1. (Others \ {current'}) \cup {current} = Others'
                BY <2>3, <2>7, <3>2 DEF Others
            <4> QED  BY <3>2, <4>1
        <3> QED  BY <2>6, <3>1, <3>2
    <2>11. Listed'
        BY <1>3, <2>3, <2>10 DEF Listed
    <2> QED  BY <2>8, <2>9, <2>11 DEF ReadyInv
<1> QED  BY <1>8, <1>9, TimerCases

\* torn never falls back.
LEMMA TornStays == [ReadyNext]_readyVars /\ ~torn' => ~torn
<1> SUFFICES ASSUME [ReadyNext]_readyVars, ~torn' PROVE ~torn
    OBVIOUS
<1>1. CASE Timer
    BY <1>1, Zenon DEF Timer
<1>2. CASE LinkStore \/ \E t \in Threads : KthreadCreate(t)
    BY <1>2, Zenon DEF LinkStore, KthreadCreate
<1>3. CASE UNCHANGED readyVars
    BY <1>3, Zenon DEF readyVars
<1> QED  BY <1>1, <1>2, <1>3 DEF ReadyNext, Boot

LEMMA ReadyStep == ReadyInv /\ [ReadyNext]_readyVars /\ ~torn' => ReadyInv'
<1> SUFFICES ASSUME ReadyInv, [ReadyNext]_readyVars, ~torn' PROVE ReadyInv'
    OBVIOUS
<1>1. CASE UNCHANGED readyVars
    <2>1. /\ links' = links /\ current' = current /\ ticks' = ticks /\ created' = created
          /\ creating' = creating /\ store' = store
        BY <1>1 DEF readyVars
    <2>2. Others' = Others /\ Alive' = Alive /\ (Plain' <=> Plain)
        BY <2>1 DEF Others, Alive, Plain
    <2> QED  BY <2>1, <2>2 DEF ReadyInv, ReadyTypes, Quanta, Listed
<1>2. CASE LinkStore
    BY <1>2, StoreKeeps
<1>3. CASE \E t \in Threads : KthreadCreate(t)
    BY <1>3, CreateKeeps
<1>4. CASE Timer
    BY <1>4, TimerKeeps
<1> QED  BY <1>1, <1>2, <1>3, <1>4 DEF ReadyNext, Boot

\* The invariant holds as long as no schedule() has met the stores.
Untorn == torn \/ ReadyInv

LEMMA ReadyAlways == ReadySpec => []Untorn
<1>1. ReadyInit => Untorn
    BY ReadyAtStart DEF Untorn
<1>2. Untorn /\ [ReadyNext]_readyVars => Untorn'
    <2>1. ASSUME Untorn, [ReadyNext]_readyVars, ~torn' PROVE ReadyInv'
        BY <2>1, TornStays, ReadyStep DEF Untorn
    <2> QED  BY <2>1 DEF Untorn
<1> QED  BY <1>1, <1>2, PTL DEF ReadySpec

LEMMA ReadyNotLost == Untorn => NoThreadLost
<1> SUFFICES ASSUME ReadyInv, creating = NULL
             PROVE  /\ Sound(links, ReadyHead) /\ IsInjective(Ready)
                    /\ ToSet(Ready) = (created \cup {Idle}) \ {current}
    BY DEF NoThreadLost, Untorn
<1>1. PICK s : IsList(links, s, Others)
    BY DEF ReadyInv, Listed, Plain
<1>2. Sound(links, ReadyHead) /\ Ready = s
    <2>1. ReadyHead \in Heads
        BY ReadyListAssumption
    <2> QED  BY <1>1, <2>1, SpelledSound DEF IsList, Ready
<1>3. s \in Seq(Nodes) /\ DOMAIN s = 1 .. Len(s)
    BY <1>1 DEF IsList
<1>4. IsInjective(s)
    BY <1>1, <1>3 DEF IsList, Distinct, IsInjective
<1>5. ToSet(s) = Others
    BY <1>1, <1>3 DEF IsList, ToSet
<1> QED  BY <1>2, <1>4, <1>5 DEF Others

\* For any number of threads and any quanta, however often the boot thread is
\* preempted: between two calls of kthread_create the ready list is sound and
\* holds every thread but the running one exactly once, unless schedule() has
\* run between the first and the last store of a list_add_tail, which
\* kthread_create performs with interrupts enabled.
THEOREM NoThreadLostCorrect == ReadySpec => []NoThreadLost
BY ReadyNotLost, ReadyAlways, PTL

(***************************************************************************)
(* The pointers implement the round robin queue                            *)
(***************************************************************************)

\* Following next from the head leads through distinct nodes to e and ends at
\* a NULL: the new node is reachable but does not yet lead back.
Reaching(h, e) ==
    \E t \in Seq(Nodes) : /\ Distinct(t) /\ t # <<>> /\ t[Len(t)] = e
                          /\ Walk(h.next, ReadyHead, t, NULL)

\* The PCBs that are not linked yet are zeroed memory.
Untouched ==
    \A p \in Threads \ created : (p # creating \/ Plain) => links.next[p] = NULL

ReachInv ==
    /\ Pointers(links)
    /\ Untouched
    /\ creating = NULL => store = 1
    /\ store = 2 => Reaching(links, creating)

LEMMA WalkIs ==
    ASSUME NEW h, Pointers(h), NEW t \in Seq(Nodes), Distinct(t), NEW end \in {ReadyHead, NULL},
           Walk(h.next, ReadyHead, t, end)
    PROVE  Elements(h, ReadyHead) = t
<1>1. PICK f : f = h.next
    OBVIOUS
<1>2. DOMAIN f = AllNodes
    BY <1>1 DEF Pointers
<1>3. Cardinality(AllNodes) \in Nat /\ Len(t) <= Cardinality(AllNodes)
    BY ListFits
<1>4. \A i \in 1 .. Len(t) : t[i] \notin {ReadyHead, NULL}
    BY ReadyListAssumption, RingIs
<1>5. Chain(f, ReadyHead) = t
    BY <1>1, <1>2, <1>3, <1>4, ChainIs
<1> QED  BY <1>1, <1>5 DEF Elements

\* The first store makes the new node the last one that next reaches.
LEMMA FirstStore ==
    ASSUME NEW h, NEW s, NEW Q, IsList(h, s, Q), NEW e \in Nodes, e \notin Q, h.next[e] = NULL,
           NEW g, g = AddTailStore(1, h, ReadyHead, e)
    PROVE  Reaching(g, e) /\ Elements(g, ReadyHead) = Append(s, e)
<1>1. s \in Seq(Nodes) /\ ReadyHead \in Heads /\ Pointers(h) /\ Distinct(s) /\ Spells(h, ReadyHead, s)
    BY ReadyListAssumption DEF IsList
<1>2. PICK n \in Nat : n = Len(s)
    BY <1>1
<1>3. PICK x \in AllNodes : x = Ring(ReadyHead, s, n) /\ h.prev[ReadyHead] = x /\ x \in Q \cup {ReadyHead}
    BY <1>2, LastBefore
<1>4. e \in AllNodes /\ e # x /\ e # ReadyHead
    BY <1>1, <1>3, NodeAssumption DEF AllNodes
<1>5. Pointers(g) /\ g.next = [h.next EXCEPT ![x] = e]
    <2>1. g = SetNext(h, x, e)
        BY <1>3 DEF AddTailStore
    <2>2. NextStored(g, h, x, e)
        BY <1>1, <1>3, <1>4, <2>1, OneStore
    <2> QED  BY <2>2 DEF NextStored
<1>6. h.next \in [AllNodes -> AllNodes]
    BY <1>1 DEF Pointers
<1>7. PICK t : t = Append(s, e)
    OBVIOUS
<1>8. t \in Seq(Nodes) /\ Len(t) = n + 1 /\ t[n + 1] = e /\ \A i \in 1 .. n : t[i] = s[i]
    <2>1. Inserted(t, s, n, e)
        BY <1>1, <1>2, <1>7, AppendInserts
    <2> QED  BY <1>2, <2>1 DEF Inserted
<1>9. Distinct(t)
    <2>1. IsList(list_add_tail(h, ReadyHead, e), t, Q \cup {e})
        BY <1>7, ListAppend
    <2> QED  BY <2>1 DEF IsList
<1>10. ASSUME NEW i \in 0 .. n + 1
       PROVE  g.next[IF i = 0 THEN ReadyHead ELSE t[i]] = IF i = n + 1 THEN NULL ELSE t[i + 1]
    <2>1. CASE i < n
        <3>1. i \in 0 .. n /\ n \in 0 .. n /\ i # n /\ i \in 0 .. n + 1 /\ i + 1 \in 1 .. n /\ i # n + 1
            BY <1>2, <2>1
        <3>2. Ring(ReadyHead, s, i) = IF i = 0 THEN ReadyHead ELSE t[i]
            <4>1. i = 0 \/ i \in 1 .. n
                BY <3>1
            <4> QED  BY <1>1, <1>2, <1>8, <4>1, RingIs
        <3>3. Ring(ReadyHead, s, i) # x
            BY <1>1, <1>2, <1>3, <3>1, RingDistinct
        <3>4. Ring(ReadyHead, s, i) \in AllNodes
            BY <1>1, <1>2, <3>1, RingIs
        <3>5. h.next[Ring(ReadyHead, s, i)] = Ring(ReadyHead, s, i + 1)
            BY <1>1, <1>2, <3>1 DEF Spells
        <3>6. Ring(ReadyHead, s, i + 1) = t[i + 1]
            BY <1>1, <1>2, <1>8, <3>1, RingIs
        <3>7. g.next[Ring(ReadyHead, s, i)] = t[i + 1]
            BY <1>5, <1>6, <3>3, <3>4, <3>5, <3>6
        <3> QED  BY <3>1, <3>2, <3>7
    <2>2. CASE i = n
        <3>1. x = IF i = 0 THEN ReadyHead ELSE t[i]
            <4>1. n # 0 => n \in 1 .. n
                BY <1>2
            <4> QED  BY <1>1, <1>2, <1>3, <1>8, <2>2, <4>1, RingIs
        <3>2. n # n + 1
            BY <1>2
        <3>3. g.next[x] = e
            BY <1>3, <1>5, <1>6
        <3> QED  BY <1>8, <2>2, <3>1, <3>2, <3>3
    <2>3. CASE i = n + 1
        <3>1. n + 1 # 0
            BY <1>2
        <3>2. g.next[e] = NULL
            BY <1>4, <1>5, <1>6
        <3> QED  BY <1>8, <2>3, <3>1, <3>2
    <2> QED  BY <1>2, <2>1, <2>2, <2>3
<1>11. Walk(g.next, ReadyHead, t, NULL)
    BY <1>8, <1>10 DEF Walk
<1>12. Elements(g, ReadyHead) = t
    BY <1>5, <1>8, <1>9, <1>11, WalkIs
<1>13. t # <<>> /\ t[Len(t)] = e
    BY <1>2, <1>8
<1> QED  BY <1>7, <1>8, <1>9, <1>11, <1>12, <1>13 DEF Reaching

\* The second store makes it lead back to the head.
LEMMA SecondStore ==
    ASSUME NEW h, Pointers(h), NEW e \in Nodes, Reaching(h, e),
           NEW g, g = AddTailStore(2, h, ReadyHead, e)
    PROVE  Elements(g, ReadyHead) = Elements(h, ReadyHead)
<1>1. PICK t \in Seq(Nodes) : /\ Distinct(t) /\ t # <<>> /\ t[Len(t)] = e
                              /\ Walk(h.next, ReadyHead, t, NULL)
    BY DEF Reaching
<1>2. PICK n \in Nat : n = Len(t) /\ n # 0
    BY <1>1
<1>3. e \in AllNodes /\ ReadyHead \in AllNodes /\ e # ReadyHead /\ ReadyHead \in Heads
    BY ReadyListAssumption, NodeAssumption DEF AllNodes
<1>4. Pointers(g) /\ g.next = [h.next EXCEPT ![e] = ReadyHead]
    <2>1. g = SetNext(h, e, ReadyHead)
        BY DEF AddTailStore
    <2>2. NextStored(g, h, e, ReadyHead)
        BY <1>3, <2>1, OneStore
    <2> QED  BY <2>2 DEF NextStored
<1>5. h.next \in [AllNodes -> AllNodes]
    BY DEF Pointers
<1>6. \A i \in 1 .. n : t[i] \in AllNodes
    BY <1>1, <1>2, ElementOfSeq DEF AllNodes
<1>7. ASSUME NEW i \in 0 .. n
      PROVE  g.next[IF i = 0 THEN ReadyHead ELSE t[i]] = IF i = n THEN ReadyHead ELSE t[i + 1]
    <2>1. PICK z : z = IF i = 0 THEN ReadyHead ELSE t[i]
        OBVIOUS
    <2>2. h.next[z] = IF i = n THEN NULL ELSE t[i + 1]
        BY <1>1, <1>2, <2>1 DEF Walk
    <2>3. CASE i = n
        <3>1. z = e
            BY <1>1, <1>2, <2>1, <2>3
        <3>2. g.next[z] = ReadyHead
            BY <1>3, <1>4, <1>5, <3>1
        <3> QED  BY <2>1, <2>3, <3>2
    <2>4. CASE i # n
        <3>1. z \in AllNodes /\ z # e
            <4>1. CASE i = 0
                BY <1>3, <2>1, <4>1
            <4>2. CASE i # 0
                <5>1. i \in 1 .. n /\ n \in 1 .. n
                    BY <1>2, <4>2
                <5>2. t[i] # t[n]
                    BY <1>1, <1>2, <2>4, <5>1 DEF Distinct
                <5> QED  BY <1>1, <1>2, <1>6, <2>1, <4>2, <5>1, <5>2
            <4> QED  BY <4>1, <4>2
        <3>2. g.next[z] = h.next[z]
            BY <1>4, <1>5, <3>1
        <3> QED  BY <2>1, <2>2, <2>4, <3>2
    <2> QED  BY <2>3, <2>4
<1>8. Walk(g.next, ReadyHead, t, ReadyHead)
    BY <1>2, <1>7 DEF Walk
<1>9. Elements(g, ReadyHead) = t
    BY <1>1, <1>4, <1>8, WalkIs
<1>10. Elements(h, ReadyHead) = t
    BY <1>1, WalkIs
<1> QED  BY <1>9, <1>10

\* g is h after store k: two pointer fields still; the last two stores leave
\* next alone, and none writes the next of a node but the new and the last one.
StoreDone(g, k, h, e) ==
    /\ Pointers(g)
    /\ k \in 3 .. 4 => g.next = h.next
    /\ \A z \in AllNodes : z # e /\ (k = 1 => z # h.prev[ReadyHead]) => g.next[z] = h.next[z]

LEMMA StorePointers ==
    ASSUME NEW h, Pointers(h), NEW e \in Nodes, NEW k \in 1 .. 4,
           NEW g, g = AddTailStore(k, h, ReadyHead, e)
    PROVE  StoreDone(g, k, h, e)
<1>1. e \in AllNodes /\ ReadyHead \in AllNodes
    BY ReadyListAssumption DEF AllNodes
<1>2. h.next \in [AllNodes -> AllNodes] /\ h.prev \in [AllNodes -> AllNodes]
    BY DEF Pointers
<1>3. PICK x \in AllNodes : x = h.prev[ReadyHead]
    BY <1>1, <1>2
<1>4. CASE k = 1
    <2>1. g = SetNext(h, x, e)
        BY <1>3, <1>4 DEF AddTailStore
    <2>2. NextStored(g, h, x, e)
        BY <1>1, <1>3, <2>1, OneStore
    <2>3. Pointers(g) /\ g.next = [h.next EXCEPT ![x] = e]
        BY <2>2 DEF NextStored
    <2> QED  BY <1>2, <1>3, <1>4, <2>3 DEF StoreDone
<1>5. CASE k = 2
    <2>1. g = SetNext(h, e, ReadyHead)
        BY <1>5 DEF AddTailStore
    <2>2. NextStored(g, h, e, ReadyHead)
        BY <1>1, <2>1, OneStore
    <2>3. Pointers(g) /\ g.next = [h.next EXCEPT ![e] = ReadyHead]
        BY <2>2 DEF NextStored
    <2> QED  BY <1>2, <1>5, <2>3 DEF StoreDone
<1>6. CASE k = 3
    <2>1. g = SetPrev(h, e, x)
        BY <1>3, <1>6 DEF AddTailStore
    <2>2. PrevStored(g, h, e, x)
        BY <1>1, <1>3, <2>1, OneStore
    <2> QED  BY <2>2 DEF PrevStored, StoreDone
<1>7. CASE k = 4
    <2>1. g = SetPrev(h, ReadyHead, e)
        BY <1>7 DEF AddTailStore
    <2>2. PrevStored(g, h, ReadyHead, e)
        BY <1>1, <2>1, OneStore
    <2> QED  BY <2>2 DEF PrevStored, StoreDone
<1> QED  BY <1>4, <1>5, <1>6, <1>7

LEMMA ReachAtStart == ReadyInit => ReachInv /\ RR!RRInit
<1> SUFFICES ASSUME ReadyInit PROVE ReachInv /\ RR!RRInit
    OBVIOUS
<1>1. links = list_init(Zero, ReadyHead) /\ current = Idle /\ creating = NULL /\ store = 1
    BY DEF ReadyInit, Zero
<1>2. IsList(links, <<>>, {}) /\ \A p \in Nodes : links.next[p] = NULL
    BY <1>1, OneHead
<1>3. Untouched
    BY <1>2, ReadyListAssumption DEF Untouched, Proc
<1>4. ReachInv
    BY <1>1, <1>2, <1>3 DEF ReachInv, IsList
<1>5. Ready = <<>>
    BY <1>2, ReadyListAssumption, SpelledSound DEF IsList, Ready
<1> QED  BY <1>1, <1>4, <1>5 DEF RR!RRInit

LEMMA CreateReaches ==
    ASSUME ReadyInv, ReachInv, NEW t \in Threads, KthreadCreate(t)
    PROVE  ReachInv' /\ UNCHANGED RR!rrVars
<1>1. /\ creating = NULL /\ creating' = t /\ store' = 1
      /\ links' = links /\ current' = current /\ created' = created
    BY DEF KthreadCreate
<1>2. t # NULL
    BY ReadyListAssumption, NodeAssumption DEF Proc
<1>3. Untouched'
    <2>1. \A p \in Threads \ created : links.next[p] = NULL
        BY <1>1 DEF ReachInv, Untouched, Plain
    <2> QED  BY <1>1, <2>1 DEF Untouched
<1>4. Pointers(links')
    BY <1>1 DEF ReachInv
<1>5. ReachInv'
    BY <1>1, <1>2, <1>3, <1>4 DEF ReachInv, Pointers, AllNodes
<1>6. Ready' = Ready
    BY <1>1 DEF Ready
<1> QED  BY <1>1, <1>5, <1>6 DEF RR!rrVars

\* The first store is the step of the queue, the others change nothing in it.
LEMMA StoreReaches ==
    ASSUME ReadyInv, ReachInv, LinkStore
    PROVE  ReachInv' /\ (RR!RRNext \/ UNCHANGED RR!rrVars)
<1>1. /\ current = Idle /\ creating # NULL /\ current' = current
      /\ links' = AddTailStore(store, links, ReadyHead, creating)
    BY DEF LinkStore
<1>2. ReadyTypes /\ Listed /\ Pointers(links) /\ Untouched
    BY DEF ReadyInv, ReachInv
<1>3. PICK e \in Threads \ created : e = creating
    BY <1>1, <1>2 DEF ReadyTypes
<1>4. /\ e \in Nodes /\ e \in AllNodes /\ e # NULL /\ e # Idle /\ e \notin Others
      /\ Threads \subseteq Nodes /\ Nodes \subseteq AllNodes /\ ReadyHead \notin Nodes
    BY <1>3, ReadyListAssumption, NodeAssumption DEF Proc, Others, AllNodes
<1>5. PICK k \in 1 .. 4 : k = store
    BY <1>2 DEF ReadyTypes
<1>6. PICK g : g = links'
    OBVIOUS
<1>7. g = AddTailStore(k, links, ReadyHead, e)
    BY <1>1, <1>3, <1>5, <1>6
<1>8. /\ Pointers(g) /\ (k \in 3 .. 4 => g.next = links.next)
      /\ \A z \in AllNodes : z # e /\ (k = 1 => z # links.prev[ReadyHead]) => g.next[z] = links.next[z]
    <2>1. StoreDone(g, k, links, e)
        BY <1>2, <1>4, <1>7, StorePointers
    <2> QED  BY <2>1 DEF StoreDone
<1>9. /\ k < 4 => store' = k + 1 /\ created' = created /\ creating' = e
      /\ k = 4 => store' = 1 /\ created' = created \cup {e} /\ creating' = NULL
    BY <1>3, <1>5 DEF LinkStore
<1>10. ASSUME NEW p \in Threads \ created, p # e PROVE g.next[p] = NULL
    <2>1. p \in AllNodes /\ p # ReadyHead /\ p # Idle /\ p \notin Others
        BY <1>4, <1>10, ReadyListAssumption DEF Others
    <2>2. links.next[p] = NULL
        BY <1>2, <1>3, <1>10 DEF Untouched
    <2>3. ASSUME k = 1 PROVE p # links.prev[ReadyHead]
        <3>1. PICK s : IsList(links, s, Others)
            BY <1>2, <1>5, <2>3 DEF Listed, Plain
        <3>2. links.prev[ReadyHead] \in Others \cup {ReadyHead}
            BY <3>1, LastBefore
        <3> QED  BY <2>1, <3>2
    <2> QED  BY <1>8, <1>10, <2>1, <2>2, <2>3
<1>11. Untouched'
    <2>1. ASSUME NEW p \in Threads, p \notin created', p # creating' \/ Plain' PROVE links.next'[p] = NULL
        <3>1. p \notin created /\ p # e
            <4>1. CASE k < 4
                <5>1. k + 1 # 1
                    BY <4>1
                <5>2. ~Plain'
                    BY <1>4, <1>9, <4>1, <5>1 DEF Plain
                <5> QED  BY <1>9, <2>1, <4>1, <5>2
            <4>2. CASE k = 4
                BY <1>9, <2>1, <4>2
            <4> QED  BY <4>1, <4>2
        <3> QED  BY <1>6, <1>10, <3>1
    <2> QED  BY <2>1 DEF Untouched
<1>12. CASE k = 1
    <2>1. PICK s : IsList(links, s, Others)
        BY <1>2, <1>5, <1>12 DEF Listed, Plain
    <2>2. links.next[e] = NULL
        BY <1>2, <1>3, <1>5, <1>12 DEF Untouched, Plain
    <2>3. Reaching(g, e) /\ Elements(g, ReadyHead) = Append(s, e)
        BY <1>4, <1>7, <1>12, <2>1, <2>2, FirstStore
    <2>4. store' = 2 /\ creating' = e
        BY <1>9, <1>12
    <2>5. ReachInv'
        <3>1. Reaching(links', creating')
            BY <1>6, <2>3, <2>4
        <3>2. creating' # NULL
            BY <1>4, <2>4
        <3> QED  BY <1>6, <1>8, <1>11, <3>1, <3>2 DEF ReachInv, Reaching, Pointers, Walk, Distinct, AllNodes
    <2>6. Ready = s /\ Ready' = Append(s, e)
        <3>1. Ready = s
            BY <2>1, ReadyListAssumption, SpelledSound DEF IsList, Ready
        <3> QED  BY <1>6, <2>3, <3>1 DEF Ready
    <2>7. e \notin RR!Queued \cup {current}
        <3>1. s \in Seq(Nodes) /\ DOMAIN s = 1 .. Len(s) /\ \A i \in 1 .. Len(s) : s[i] \in Others
            BY <2>1 DEF IsList
        <3>2. \A i \in DOMAIN Ready : Ready[i] # e
            BY <1>4, <2>6, <3>1
        <3> QED  BY <1>1, <1>4, <3>2 DEF RR!Queued
    <2>8. RR!Create(e)
        BY <1>1, <2>6, <2>7 DEF RR!Create
    <2> QED  BY <2>5, <2>8 DEF RR!RRNext, Proc
<1>13. CASE k # 1
    <2>1. Ready' = Ready
        <3>1. Elements(g, ReadyHead) = Elements(links, ReadyHead)
            <4>1. CASE k = 2
                <5>1. Reaching(links, e)
                    BY <1>3, <1>5, <4>1 DEF ReachInv
                <5> QED  BY <1>2, <1>4, <1>7, <4>1, <5>1, SecondStore
            <4>2. CASE k \in 3 .. 4
                BY <1>8, <4>2 DEF Elements
            <4> QED  BY <1>13, <4>1, <4>2
        <3> QED  BY <1>6, <3>1 DEF Ready
    <2>2. store' # 2 /\ (creating' = NULL => store' = 1)
        <3>1. CASE k < 4
            <4>1. k + 1 # 2
                BY <1>13, <3>1
            <4> QED  BY <1>4, <1>9, <3>1, <4>1
        <3>2. CASE k = 4
            BY <1>9, <3>2
        <3> QED  BY <3>1, <3>2
    <2>3. ReachInv'
        BY <1>6, <1>8, <1>11, <2>2 DEF ReachInv, Pointers, AllNodes
    <2> QED  BY <1>1, <2>1, <2>3 DEF RR!rrVars
<1> QED  BY <1>12, <1>13

LEMMA TimerReaches ==
    ASSUME ReadyInv, ReachInv, Timer, ~torn'
    PROVE  ReachInv' /\ (RR!RRNext \/ UNCHANGED RR!rrVars)
<1>1. /\ created' = created /\ creating' = creating /\ store' = store /\ current \in Proc
      /\ \/ links' = links /\ current' = current
         \/ Schedule /\ store = 1
    BY TimerCases
<1>2. ASSUME links' = links, current' = current PROVE ReachInv' /\ UNCHANGED RR!rrVars
    <2>1. Ready' = Ready
        BY <1>2 DEF Ready
    <2>2. ReachInv'
        BY <1>1, <1>2 DEF ReachInv, Untouched, Plain, Reaching, Pointers, Walk, Distinct, AllNodes
    <2> QED  BY <1>2, <2>1, <2>2 DEF RR!rrVars
<1>3. ASSUME Schedule, store = 1
      PROVE  ReachInv' /\ (RR!RRNext \/ UNCHANGED RR!rrVars)
    <2>1. PICK s : IsList(links, s, Others)
        BY <1>3 DEF ReadyInv, Listed, Plain
    <2>2. current \in Nodes
        BY <1>1, ReadyListAssumption
    <2>3. \/ s = <<>> /\ links' = links /\ current' = current
          \/ /\ s # <<>> /\ current' = Head(s) /\ current' \in Others
             /\ IsList(links', Append(Tail(s), current), (Others \ {current'}) \cup {current})
             /\ \A p \in Nodes : p \notin Others \cup {current} => links'.next[p] = links.next[p]
        BY <1>3, <2>1, <2>2, ScheduleRotates
    <2>4. ASSUME s # <<>>, current' = Head(s),
                 IsList(links', Append(Tail(s), current), (Others \ {current'}) \cup {current}),
                 \A p \in Nodes : p \notin Others \cup {current} => links'.next[p] = links.next[p]
          PROVE  ReachInv' /\ RR!RRNext
        <3>1. Ready = s
            BY <2>1, ReadyListAssumption, SpelledSound DEF IsList, Ready
        <3>2. Ready' = Append(Tail(s), current)
            <4>1. PICK g : g = links'
                OBVIOUS
            <4>2. PICK t : t = Append(Tail(s), current)
                OBVIOUS
            <4>3. Elements(g, ReadyHead) = t
                BY <2>4, <4>1, <4>2, ReadyListAssumption, SpelledSound DEF IsList
            <4> QED  BY <4>1, <4>2, <4>3 DEF Ready
        <3>3. RR!Switch
            BY <2>4, <3>1, <3>2 DEF RR!Switch
        <3>4. Pointers(links')
            BY <2>4 DEF IsList
        <3>5. Untouched'
            <4>1. ASSUME NEW p \in Threads \ created PROVE links'.next[p] = NULL
                <5>1. p \in Nodes /\ p # Idle /\ p \notin Others \cup {current}
                    BY <4>1, ReadyListAssumption DEF Proc, Others, ReadyInv, ReadyTypes
                <5>2. links.next[p] = NULL
                    BY <1>3, <4>1 DEF ReachInv, Untouched, Plain
                <5> QED  BY <2>4, <5>1, <5>2
            <4> QED  BY <1>1, <4>1 DEF Untouched
        <3>6. ReachInv'
            BY <1>1, <1>3, <3>4, <3>5 DEF ReachInv, Pointers, AllNodes
        <3> QED  BY <3>3, <3>6 DEF RR!RRNext
    <2> QED  BY <1>2, <2>3, <2>4
<1> QED  BY <1>1, <1>2, <1>3

LEMMA ReachStep ==
    ReadyInv /\ ReachInv /\ [ReadyNext]_readyVars /\ ~torn' => ReachInv' /\ [RR!RRNext]_(RR!rrVars)
<1> SUFFICES ASSUME ReadyInv, ReachInv, [ReadyNext]_readyVars, ~torn'
             PROVE  ReachInv' /\ (RR!RRNext \/ UNCHANGED RR!rrVars)
    OBVIOUS
<1>1. CASE UNCHANGED readyVars
    <2>1. /\ links' = links /\ current' = current /\ created' = created
          /\ creating' = creating /\ store' = store
        BY <1>1 DEF readyVars
    <2>2. Ready' = Ready
        BY <2>1 DEF Ready
    <2>3. ReachInv'
        BY <2>1 DEF ReachInv, Untouched, Plain, Reaching, Pointers, Walk, Distinct, AllNodes
    <2> QED  BY <2>1, <2>2, <2>3 DEF RR!rrVars
<1>2. CASE LinkStore
    BY <1>2, StoreReaches
<1>3. CASE \E t \in Threads : KthreadCreate(t)
    BY <1>3, CreateReaches
<1>4. CASE Timer
    BY <1>4, TimerReaches
<1> QED  BY <1>1, <1>2, <1>3, <1>4 DEF ReadyNext, Boot

\* For any number of threads and any quanta, up to the same point: seen
\* along the next pointers, every step of kthread_create and of the timer is a
\* step of the round robin queue or none.  A thread joins the queue with the
\* first of its four stores, at the back; schedule() takes the front.
THEOREM ReadyListImplements == ReadySpec => ImplementsRoundRobin
<1> DEFINE Reached == torn \/ ReachInv
           Step    == [~torn' => RR!RRNext]_(RR!rrVars)
<1>1. ReadyInit => Reached /\ RR!RRInit
    BY ReachAtStart
<1>2. Untorn /\ Reached /\ [ReadyNext]_readyVars => Reached' /\ Step
    <2>1. ASSUME Untorn, Reached, [ReadyNext]_readyVars, ~torn'
          PROVE  ReachInv' /\ [RR!RRNext]_(RR!rrVars)
        <3>1. ReadyInv /\ ReachInv
            BY <2>1, TornStays DEF Untorn
        <3> QED  BY <2>1, <3>1, ReachStep
    <2> QED  BY <2>1
<1> HIDE DEF Reached
<1> QED  BY <1>1, <1>2, ReadyAlways, PTL DEF ReadySpec, ImplementsRoundRobin
=============================================================================
