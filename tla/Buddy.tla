------------------------------- MODULE Buddy -------------------------------
(***************************************************************************)
(* The physical page allocator, src/pmm/buddy.c.                           *)
(*                                                                         *)
(* buddy_table[i] is a chain of pages and a count of blocks of 2^i pages.  *)
(* The chain is a sequence of page numbers here (the index of the page in  *)
(* phy_pages): where a block begins in it is known only by counting, as in *)
(* the code.  Page k has the frame number Base + k, whose bits decide how  *)
(* BlendBlk orders two blocks.                                             *)
(***************************************************************************)
EXTENDS Naturals, Sequences, FiniteSets, SequencesExt, FiniteSetsExt

CONSTANTS NPages,      \* phy_page_num
          Base,        \* frame number of phy_pages[0]
          MaxLevel,    \* last index of buddy_table (16 in the code)
          MaxRequest,  \* bound: the largest n that alloc_pages is asked for
          MaxMapped    \* bound: the pages that are mapped at a time

Pages  == 0 .. NPages - 1
Levels == 0 .. MaxLevel

(***************************************************************************)
(* log2 and pow2, by their loops                                           *)
(***************************************************************************)
power[x \in Nat] == IF x = 0 THEN 1 ELSE 2 * power[x - 1]

pow2(x) == power[x]

log2(x) ==
    LET count[v \in 1 .. x + 1] == IF v * 2 <= x THEN 1 + count[v * 2] ELSE 0
    IN  count[1]

\* MAXSIZE limits the machine to fewer than 2^17 pages, and kernel pages
\* start above frame 0.
ASSUME BuddyAssumption ==
    /\ NPages \in Nat \ {0} /\ Base \in Nat \ {0}
    /\ MaxLevel \in Nat /\ MaxRequest \in Nat /\ MaxMapped \in Nat
    /\ NPages < pow2(MaxLevel + 1)

VARIABLES list,       \* list[i]: buddy_table[i].page_blk_list as a sequence
          blk_num,    \* blk_num[i]: buddy_table[i].blk_num
          flags,      \* phy_page.flags
          ref,        \* phy_page.ref_num: 1 when the page is mapped
          held,       \* blocks returned by alloc_pages and not yet freed
          panicked    \* alloc_pages has run out of memory

vars == <<list, blk_num, flags, ref, held, panicked>>

\* alloc_buddy's index for a request of s pages.
IndexFor(s) == IF pow2(log2(s)) < s THEN log2(s) + 1 ELSE log2(s)

\* The first block of level i and what is left behind it.
FirstBlock(i) == SubSeq(list[i], 1, pow2(i))
Rest(i)       == SubSeq(list[i], pow2(i) + 1, Len(list[i]))

(***************************************************************************)
(* init_buddy: blocks of decreasing size, each as large as what is left    *)
(* allows.  The loop ends when log2 of what is left is 0: a single         *)
(* remaining page is left out.                                             *)
(***************************************************************************)
InitBlocks ==
    LET build[sum \in 1 .. NPages] ==
            LET idx   == log2(sum)
                start == NPages - sum
                rest  == sum - pow2(idx)
            IN  [i \in Levels |->
                   IF i = idx THEN [k \in 1 .. pow2(idx) |-> start + k - 1]
                   ELSE IF log2(rest) = 0 THEN <<>> ELSE build[rest][i]]
    IN  build[NPages]

Init ==
    /\ list = InitBlocks
    /\ blk_num = [i \in Levels |-> IF list[i] = <<>> THEN 0 ELSE 1]
    /\ flags = [p \in Pages |-> "FREE"]
    /\ ref = [p \in Pages |-> 0]
    /\ held = {}
    /\ panicked = FALSE

(***************************************************************************)
(* alloc_pages(n)                                                          *)
(***************************************************************************)
\* Mutant: only the first page of the block is marked.
SetFlags_first(blk, f) == flags' = [flags EXCEPT ![Head(blk)] = f]

SetFlags(blk, f) == flags' = [p \in Pages |-> IF Contains(blk, p) THEN f ELSE flags[p]]

Hand(blk, n) ==
    /\ SetFlags(blk, "BUSY")
    /\ held' = held \cup {[pages |-> blk, asked |-> n]}

\* Mutant: the search stops before the last level.
Fitting_short(n) == {i \in IndexFor(n) .. MaxLevel - 1 : list[i] # <<>>}

\* The levels with a chain, from the index of the request up.
Fitting(n) == {i \in IndexFor(n) .. MaxLevel : list[i] # <<>>}

\* Mutants: the block stays in the chain; the count is not updated.
AllocExact_keep(n) ==
    LET i == IndexFor(n)
    IN  /\ i \in Fitting(n)
        /\ blk_num' = [blk_num EXCEPT ![i] = @ - 1]
        /\ Hand(FirstBlock(i), n)
        /\ UNCHANGED list

AllocExact_nocount(n) ==
    LET i == IndexFor(n)
    IN  /\ i \in Fitting(n)
        /\ list' = [list EXCEPT ![i] = Rest(i)]
        /\ Hand(FirstBlock(i), n)
        /\ UNCHANGED blk_num

\* The level of the request has a block: cut the first one off.
AllocExact(n) ==
    LET i == IndexFor(n)
    IN  /\ i \in Fitting(n)
        /\ list' = [list EXCEPT ![i] = Rest(i)]
        /\ blk_num' = [blk_num EXCEPT ![i] = @ - 1]
        /\ Hand(FirstBlock(i), n)

\* Mutants of SplitBlock: the first half is lost, or the block is not cut off
\* its level.
AllocSplit_as(n, half, cut, count) ==
    /\ Fitting(n) # {} /\ IndexFor(n) \notin Fitting(n)
    /\ LET i    == Min(Fitting(n))
           blk0 == FirstBlock(i)
       IN  /\ list' = [list EXCEPT ![i] = IF cut THEN Rest(i) ELSE @,
                                   ![i - 1] = IF half THEN @ \o SubSeq(blk0, 1, pow2(i - 1))
                                                      ELSE @]
           /\ blk_num' = [blk_num EXCEPT ![i] = @ - 1, ![i - 1] = @ + count]
           /\ Hand(SubSeq(blk0, pow2(i - 1) + 1, pow2(i)), n)

AllocSplit_lost(n)    == AllocSplit_as(n, FALSE, TRUE, 1)
AllocSplit_uncut(n)   == AllocSplit_as(n, TRUE, FALSE, 1)

\* SplitBlock of the first larger level: the first half joins the level
\* below, the second half is the answer.  The loop that would go on
\* splitting (count_pages(blk) > 2 * pow2(tmp)) is never entered.  The level
\* below is empty, so the half is reached through p == NULL: p->next = blk0
\* stores into the word at address 16, which is mapped and writable, and
\* p = p->next reads it back at once.  No other code of this file reads that
\* word; slab.c does when a list of slabs is NULL (module Slab).
AllocSplit(n) ==
    /\ Fitting(n) # {} /\ IndexFor(n) \notin Fitting(n)
    /\ LET i    == Min(Fitting(n))
           blk0 == FirstBlock(i)
       IN  /\ list' = [list EXCEPT ![i] = IF blk_num[i] > 1 THEN Rest(i) ELSE <<>>,
                                   ![i - 1] = @ \o SubSeq(blk0, 1, pow2(i - 1))]
           /\ blk_num' = [blk_num EXCEPT ![i] = @ - 1, ![i - 1] = @ + 1]
           /\ Hand(SubSeq(blk0, pow2(i - 1) + 1, pow2(i)), n)

\* No level has a block: swap_out is tried once, and panic follows whatever
\* it answers.
AllocFails(n) ==
    /\ Fitting(n) = {}
    /\ panicked' = TRUE
    /\ UNCHANGED <<list, blk_num, flags, ref, held>>

alloc_buddy(n) == AllocExact(n) \/ AllocSplit(n)

alloc_pages(n) ==
    /\ ~panicked
    /\ (alloc_buddy(n) /\ UNCHANGED <<ref, panicked>>) \/ AllocFails(n)

(***************************************************************************)
(* free_buddy(pg_blk)                                                      *)
(***************************************************************************)

\* FindBuddy: a == binds tighter than ^ in C, so the test of every block is
\* its nonzero address and the first block of the level is always taken.
FindBuddy(blk, i) == FirstBlock(i)

\* BlendBlk, called with the level already incremented.
BlendBlk(buddy_blk, blk, i) ==
    IF ((Base + Head(buddy_blk)) \div pow2(i)) % 2 = 0
    THEN buddy_blk \o blk
    ELSE blk \o buddy_blk

\* Merging goes on from the block's own level to the first empty one.
Top(i) == Min({l \in i .. MaxLevel + 1 : l > MaxLevel \/ list[l] = <<>>})

\* A chain of unmapped pages goes back to the table.
FreeChain(chain) ==
    LET idx == log2(Len(chain))
        top == Top(idx)
        merged[l \in idx .. top] ==
            IF l = idx THEN chain
            ELSE BlendBlk(FindBuddy(merged[l - 1], l - 1), merged[l - 1], l)
    IN  /\ list' = [l \in Levels |->
                      IF l \in idx .. top - 1 THEN Rest(l)
                      ELSE IF l = top THEN merged[top] ELSE list[l]]
        /\ blk_num' = [l \in Levels |->
                      IF l \in idx .. top - 1 THEN blk_num[l] - 1
                      ELSE IF l = top THEN blk_num[l] + 1 ELSE blk_num[l]]
        /\ SetFlags(chain, "FREE")

\* check_free_pages: a page of the chain is still mapped.
Mapped(chain) == \E k \in DOMAIN chain : ref[chain[k]] > 0

free_buddy(b) ==
    /\ ~panicked
    /\ IF Mapped(b.pages)
       THEN UNCHANGED vars           \* "free buddy failed"
       ELSE /\ FreeChain(b.pages)
            /\ held' = held \ {b}
            /\ UNCHANGED <<ref, panicked>>

\* map and unmap count the mappings of a frame (vmm.c).  They take any frame,
\* held or not: apply_slab maps frames that lie beyond the block it was given.
map_page(p) ==
    /\ ~panicked /\ ref[p] = 0 /\ Cardinality({q \in Pages : ref[q] > 0}) < MaxMapped
    /\ ref' = [ref EXCEPT ![p] = 1]
    /\ UNCHANGED <<list, blk_num, flags, held, panicked>>

unmap_page(p) ==
    /\ ~panicked /\ ref[p] > 0
    /\ ref' = [ref EXCEPT ![p] = @ - 1]
    /\ UNCHANGED <<list, blk_num, flags, held, panicked>>

Next ==
    \/ \E n \in 1 .. MaxRequest : alloc_pages(n)
    \/ \E b \in held : free_buddy(b)
    \/ \E p \in Pages : map_page(p) \/ unmap_page(p)

Spec == Init /\ [][Next]_vars

(***************************************************************************)
(* Properties                                                              *)
(***************************************************************************)

InTable == UNION {ToSet(list[i]) : i \in Levels}
InHands == UNION {ToSet(b.pages) : b \in held}

\* No page is in two places: in two blocks that callers hold, twice in the
\* table, or in the table while a caller holds it, in whatever order blocks
\* are split, returned and merged.
PagesPartitioned ==
    /\ \A i \in Levels : IsInjective(list[i])
    /\ \A i, j \in Levels : i # j => ToSet(list[i]) \cap ToSet(list[j]) = {}
    /\ \A b, c \in held : b # c => ToSet(b.pages) \cap ToSet(c.pages) = {}
    /\ InTable \cap InHands = {}

\* The counts and the chains agree: level i holds blk_num[i] blocks of 2^i
\* pages, which is what SplitBlock and FindBuddy rely on when they count.
\* There is never more than one: merging always takes the first block found.
LevelsExact ==
    \A i \in Levels : Len(list[i]) = blk_num[i] * pow2(i) /\ blk_num[i] <= 1

\* A page is marked busy exactly while a caller holds it, whatever is mapped:
\* swap_out takes the mark for a page in use.
BusyIffHeld == \A p \in Pages : flags[p] = "BUSY" <=> p \in InHands

\* Memory is not fragmented: a request can be met whenever enough pages are
\* free for its power of two.
NoFragmentation ==
    \A n \in 1 .. MaxRequest :
        Fitting(n) # {} <=> Cardinality(InTable) >= pow2(IndexFor(n))

\* Returning any block that a caller holds ends within buddy_table.
MergeStaysInTable ==
    \A b \in held : Top(log2(Len(b.pages))) <= MaxLevel

\* The table implements the allocator its callers rely on: no step loses a
\* page, and a request gets pages that nobody else has.
PA == INSTANCE PageAllocator WITH
          avail <- InTable, owned <- {ToSet(b.pages) : b \in held}

ImplementsPageAllocator == PA!PASpec
=============================================================================
