----------------------------- MODULE KListRef -----------------------------
(***************************************************************************)
(* libs/list.h against a reference: two lists (the kernel's ready list and *)
(* a semaphore's waiters) share one set of nodes, as the PCBs' single      *)
(* 'node' field does.  Each step performs one list.h operation on the      *)
(* pointers and the operation it stands for on plain sequences.            *)
(***************************************************************************)
EXTENDS KList, SequencesExt

VARIABLES heap,     \* the pointers
          seq       \* seq[l]: the list as a sequence

vars == <<heap, seq>>

Free == {e \in Nodes : \A l \in Heads : ~Contains(seq[l], e)}

Init ==
    LET zero == [next |-> [x \in AllNodes |-> NULL], prev |-> [x \in AllNodes |-> NULL]]
        initAll[S \in SUBSET Heads] ==
            IF S = {} THEN zero
            ELSE LET l == CHOOSE l \in S : TRUE IN list_init(initAll[S \ {l}], l)
    IN  /\ heap = initAll[Heads]
        /\ seq = [l \in Heads |-> <<>>]

AddTail(l, e) ==
    /\ heap' = list_add_tail(heap, l, e)
    /\ seq' = [seq EXCEPT ![l] = Append(@, e)]

AddHead(l, e) ==
    /\ heap' = list_add_head(heap, l, e)
    /\ seq' = [seq EXCEPT ![l] = <<e>> \o @]

AddAfter(l, i, e) ==
    /\ heap' = list_add_after(heap, seq[l][i], e)
    /\ seq' = [seq EXCEPT ![l] = InsertAt(@, i + 1, e)]

AddBefore(l, i, e) ==
    /\ heap' = list_add_before(heap, seq[l][i], e)
    /\ seq' = [seq EXCEPT ![l] = InsertAt(@, i, e)]

RemoveNode(l, i) ==
    /\ heap' = list_remove(heap, seq[l][i])
    /\ seq' = [seq EXCEPT ![l] = RemoveAt(@, i)]

\* list_pop on an empty list changes nothing.
Pop(l) ==
    /\ heap' = list_pop(heap, l)
    /\ seq' = [seq EXCEPT ![l] = IF @ = <<>> THEN @ ELSE Tail(@)]

Next ==
    \E l \in Heads :
        \/ Pop(l)
        \/ \E i \in DOMAIN seq[l] : RemoveNode(l, i)
        \/ \E e \in Free :
              \/ AddTail(l, e)
              \/ AddHead(l, e)
              \/ \E i \in DOMAIN seq[l] : AddAfter(l, i, e) \/ AddBefore(l, i, e)

Spec == Init /\ [][Next]_vars

(***************************************************************************)
(* Properties                                                              *)
(***************************************************************************)

\* After any sequence of list.h operations the pointers of every list spell
\* out the reference sequence, forwards and backwards, so that no operation
\* on one list has disturbed the other.
ListMatchesSequence ==
    \A l \in Heads : Sound(heap, l) /\ Elements(heap, l) = seq[l]

\* list_find, list_front and list_empty answer what the sequence says.
QueriesMatchSequence ==
    \A l \in Heads :
        /\ list_empty(heap, l) <=> seq[l] = <<>>
        /\ list_front(heap, l) = IF seq[l] = <<>> THEN NULL ELSE Head(seq[l])
        /\ \A e \in Nodes : list_find(heap, l, e) <=> Contains(seq[l], e)
=============================================================================
