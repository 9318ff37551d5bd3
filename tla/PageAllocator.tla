--------------------------- MODULE PageAllocator ---------------------------
(***************************************************************************)
(* What the physical page allocator promises its callers: a request for n  *)
(* pages is answered with at least n pages that nobody else has, and pages *)
(* come back only when their owner frees them.                             *)
(***************************************************************************)
EXTENDS Naturals, FiniteSets

CONSTANTS MaxRequest

VARIABLES avail,   \* the free pages
          owned    \* the sets of pages that have been handed out

paVars == <<avail, owned>>

Alloc(n) ==
    \E S \in SUBSET avail :
        /\ Cardinality(S) >= n
        /\ avail' = avail \ S
        /\ owned' = owned \cup {S}

Free(S) ==
    /\ S \in owned
    /\ owned' = owned \ {S}
    /\ avail' = avail \cup S

PANext == (\E n \in 1 .. MaxRequest : Alloc(n)) \/ (\E S \in owned : Free(S))

\* Starts with nothing handed out.
PASpec == owned = {} /\ [][PANext]_paVars
=============================================================================
