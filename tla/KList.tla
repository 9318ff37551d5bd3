------------------------------- MODULE KList -------------------------------
(***************************************************************************)
(* The intrusive cyclic doubly linked lists of libs/list.h.                *)
(*                                                                         *)
(* A heap is a record of the two pointer fields of every list_t:           *)
(* h.next[x] and h.prev[x].  A list is named by its head node.  Every      *)
(* operator takes the heap the C function starts from and returns the heap *)
(* it leaves, its stores applied one after the other in the order of the   *)
(* source: the order matters, because a later store reads what an earlier  *)
(* one wrote.  NULL is a node like the others: address 0 is mapped and     *)
(* writable in this kernel, so a store through a NULL pointer is silent.   *)
(***************************************************************************)
EXTENDS Naturals, Sequences, FiniteSets

CONSTANTS NULL,
          Heads,    \* the lists, each named by its head node
          Nodes     \* the elements that may be linked into them

ASSUME NodeAssumption == /\ IsFiniteSet(Heads \cup Nodes)
                         /\ Heads \cap Nodes = {}
                         /\ NULL \notin Heads \cup Nodes

AllNodes == Heads \cup Nodes \cup {NULL}

\* One store each: x->next = v and x->prev = v.
SetNext(h, x, v) == [h EXCEPT !.next[x] = v]
SetPrev(h, x, v) == [h EXCEPT !.prev[x] = v]

list_init(h, l) == SetPrev(SetNext(h, l, l), l, l)

\* The four stores of list_add_tail, named because kthread_create performs
\* them with interrupts enabled (module ReadyList).
AddTailStore(k, h, head, e) ==
    CASE k = 1 -> SetNext(h, h.prev[head], e)
      [] k = 2 -> SetNext(h, e, head)
      [] k = 3 -> SetPrev(h, e, h.prev[head])
      [] k = 4 -> SetPrev(h, head, e)

\* Mutant: the head's back pointer is stored before it is read.
list_add_tail_swapped(h, head, e) ==
    LET h1 == AddTailStore(1, h, head, e)
        h2 == AddTailStore(2, h1, head, e)
        h3 == AddTailStore(4, h2, head, e)
    IN  AddTailStore(3, h3, head, e)

list_add_tail(h, head, e) ==
    LET h1 == AddTailStore(1, h, head, e)
        h2 == AddTailStore(2, h1, head, e)
        h3 == AddTailStore(3, h2, head, e)
    IN  AddTailStore(4, h3, head, e)

\* list_add_head and list_add_after perform the same stores: a head is a
\* node like the others.
list_add_after(h, x, e) ==
    LET h1 == SetPrev(h, h.next[x], e)
        h2 == SetNext(h1, e, h1.next[x])
        h3 == SetNext(h2, x, e)
    IN  SetPrev(h3, e, x)

list_add_head(h, head, e) == list_add_after(h, head, e)

list_add_before(h, x, e) == list_add_tail(h, x, e)

list_remove(h, e) ==
    LET h1 == SetNext(h, h.prev[e], h.next[e])
        h2 == SetPrev(h1, h1.next[e], h1.prev[e])
        h3 == SetPrev(h2, e, NULL)
    IN  SetNext(h3, e, NULL)

list_empty(h, head) == h.next[head] = head

list_front(h, head) == IF list_empty(h, head) THEN NULL ELSE h.next[head]

list_pop(h, head) ==
    IF list_empty(h, head) THEN h ELSE list_remove(h, h.next[head])

\* The nodes met by following a pointer field f from head until it returns
\* to head (or runs into NULL), in order.  The length is bounded by the
\* number of nodes, so that the definition is total on a damaged list.
Chain(f, head) ==
    LET step(s) == f[IF s = <<>> THEN head ELSE s[Len(s)]]
        chain[n \in 0 .. Cardinality(DOMAIN f)] ==
            IF n = 0 THEN <<>>
            ELSE LET s == chain[n - 1]
                 IN  IF step(s) \in {head, NULL} THEN s ELSE Append(s, step(s))
    IN  chain[Cardinality(DOMAIN f)]

Elements(h, head) == Chain(h.next, head)

\* Mutant: the walk stops one node early.
list_find_short(h, head, e) ==
    \E i \in DOMAIN Elements(h, head) :
        i < Len(Elements(h, head)) /\ Elements(h, head)[i] = e

list_find(h, head, e) == \E i \in DOMAIN Elements(h, head) : Elements(h, head)[i] = e

\* A list is sound when walking it backwards visits the same nodes in the
\* opposite order and both walks return to the head.
Sound(h, head) ==
    LET f == Chain(h.next, head)
        b == Chain(h.prev, head)
    IN  /\ Len(f) = Len(b)
        /\ \A i \in DOMAIN f : f[i] = b[Len(b) + 1 - i]
        /\ h.next[IF f = <<>> THEN head ELSE f[Len(f)]] = head
        /\ h.prev[IF b = <<>> THEN head ELSE b[Len(b)]] = head
=============================================================================
