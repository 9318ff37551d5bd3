------------------------------- MODULE Paging -------------------------------
(***************************************************************************)
(* Demand paging and swap: the page fault handler and the page tables of   *)
(* src/vmm/vmm.c, the clock list of src/vmm/swapmm.c, the sectors of       *)
(* src/fs/tmpide.c, and the heap of src/pmm/slab.c as the other user of    *)
(* the same addresses.  Frames come from module Buddy.                     *)
(*                                                                         *)
(* The addresses are the pages above the slabs of init_slab.  Blocks are   *)
(* chained through phy_page.next, and so is the clock list: appending a    *)
(* frame to it links the last page of one block to the first of another    *)
(* (link).                                                                 *)
(*                                                                         *)
(* The handler prints, which enables interrupts: another thread can run    *)
(* between any two instructions of a fault.  map is cut into its stores.   *)
(* alloc_buddy and map_swappable load a list and store it later; a call is *)
(* one step unless the call of another thread runs between its loads and   *)
(* its stores, which is a step of both threads ("raced").  What free_buddy *)
(* and such a call leave of the lists together is not followed             *)
(* (lists_torn).                                                           *)
(***************************************************************************)
EXTENDS Buddy

CONSTANTS Threads,
          Boot,        \* the boot thread
          NV,          \* bound: virtual pages above the slabs of init_slab
          PerTable,    \* virtual pages per page table (1024)
          VmaPages,    \* the pages inside the only vma, up to 0xF0000000
          NullPages,   \* the pages that the words at mmap_cache == NULL would admit
          MaxSlabs,    \* bound: slabs above those of init_slab
          None

VPages == 0 .. NV - 1
TableOf(v) == v \div PerTable

ASSUME PagingAssumption ==
    /\ NV \in Nat /\ PerTable \in Nat \ {0}
    /\ VmaPages \subseteq VPages /\ NullPages \subseteq VPages
    /\ MaxSlabs \in 0 .. NV
    /\ None \notin Pages \cup VPages

VARIABLES
    pte,        \* pte[v]: the frame and PTE_P; no frame is a zero entry
    tables,     \* the page tables that the directory points to
    va,         \* phy_page.va: a page, or None for 0 and for a page table's address
    link,       \* phy_page.next of a block's last page, set by map_swappable
    clock,      \* clock_point
    cached,     \* check_mm_struct->mmap_cache is the vma (else NULL)
    slabs,      \* the frames of the one-page slabs from page 0 to heap_top
    pc, at, frm,   \* per thread: where it is, the address, the frame it has
    past,       \* history: "over", map has overwritten an entry that was present;
                \*   "crossed", swap_out ran while another thread was in a fault;
                \*   "evicted", "refused", it freed its victim, or could not;
                \*   "raced", a call ran inside a call of another thread, on the same
                \*   list or frame
    stop        \* why the kernel has stopped, or "no"

mmVars   == <<pte, tables, va, link, clock, cached, slabs>>
hist     == <<past, stop>>
pgVars   == <<vars, mmVars, pc, at, frm, hist>>

heap_top == Len(slabs)
Zero == [frame |-> None, p |-> FALSE]

\* After init_slab, whose slabs lie below page 0 in the same page table.
PInit ==
    /\ Init
    /\ pte = [v \in VPages |-> Zero]
    /\ tables = {0}
    /\ va = [f \in Pages |-> None]
    /\ link = [f \in Pages |-> None]
    /\ clock = None
    /\ cached = FALSE
    /\ slabs = <<>>
    /\ pc = [t \in Threads |-> "run"]
    /\ at = [t \in Threads |-> None]
    /\ frm = [t \in Threads |-> None]
    /\ past = {}
    /\ stop = "no"

Goto(t, l) == pc' = [pc EXCEPT ![t] = l]

\* The thread goes back to what it was doing.
Done(t) ==
    /\ Goto(t, "run")
    /\ at' = [at EXCEPT ![t] = None]
    /\ frm' = [frm EXCEPT ![t] = None]

(***************************************************************************)
(* Chains of pages                                                         *)
(***************************************************************************)

\* phy_page.next: the page behind f in its block, in the table or in use, or
\* for the last page of a block what map_swappable has linked to it.
next(f) ==
    LET blocks == {list[l] : l \in Levels} \cup {b.pages : b \in held}
        behind == UNION {{blk[i] : i \in {k \in 2 .. Len(blk) : blk[k - 1] = f}} : blk \in blocks}
    IN  IF behind = {} THEN link[f] ELSE CHOOSE g \in behind : TRUE

\* What a walk over next sees from f.
Chain(f) ==
    LET walk[g \in Pages] == IF next(g) = None THEN <<g>> ELSE <<g>> \o walk[next(g)]
    IN  walk[f]

\* free_buddy(f) when the counts are refs.  Anything but a whole block, from its
\* first page f, would be filed by the power of two below its length; the model
\* stops there.
free_pages(f, refs) ==
    LET chain == Chain(f)
        block == {b \in held : b.pages = chain /\ Head(b.pages) = f}
    IN  IF \E k \in DOMAIN chain : refs[chain[k]] > 0
        THEN UNCHANGED <<list, blk_num, flags, held, stop>>      \* "free buddy failed"
        ELSE IF block = {}
        THEN stop' = "not a block" /\ UNCHANGED <<list, blk_num, flags, held>>
        ELSE FreeChain(chain) /\ held' = held \ block /\ UNCHANGED stop

\* The first page of the block that alloc_buddy has just handed out.
Got == Head((CHOOSE b \in held' \ held : TRUE).pages)

\* alloc_pages(1) without memory: swap_out is called once, and panic follows
\* whatever it answers.
OutOfMemory ==
    /\ AllocFails(1)
    /\ stop' = "out of memory"

(***************************************************************************)
(* A thread uses address v; do_pgfault                                     *)
(***************************************************************************)
Touch(t, v) ==
    /\ pc[t] = "run" /\ ~pte[v].p
    /\ at' = [at EXCEPT ![t] = v]
    /\ Goto(t, "fault")
    /\ UNCHANGED <<vars, mmVars, frm, hist>>

\* The handler has returned and the instruction is executed again.
Access(t) ==
    /\ pc[t] = "access"
    /\ IF pte[at[t]].p THEN Done(t) ELSE Goto(t, "fault") /\ UNCHANGED <<at, frm>>
    /\ UNCHANGED <<vars, mmVars, hist>>

\* FindVMA looks through mmap_cache first.  While that is NULL it compares the
\* words there, and an address they admit gets NULL for its vma.  Without any
\* match it returns NULL.
FindVMA(v) == v \in VmaPages /\ (cached \/ v \notin NullPages)

\* getpte never reports a missing table: it answers with an address that has
\* no mapping and no vma, and reading there faults for ever.
getpte(v) == IF TableOf(v) \in tables THEN pte[v] ELSE None

\* Mutant: an entry that is not zero is left alone.
Branch_noswap(e) == CASE e = None -> "nested" [] e = Zero -> "new" [] OTHER -> "access"

\* An entry that is not zero is taken for a page that was swapped out.
Branch(e) == CASE e = None -> "nested" [] e = Zero -> "new" [] OTHER -> "swap_in"

\* The vma and the entry are looked up; without a vma the handler returns.
do_pgfault(t) ==
    /\ pc[t] = "fault"
    /\ IF FindVMA(at[t])
       THEN cached' = TRUE /\ Goto(t, Branch(getpte(at[t])))
       ELSE Goto(t, "access") /\ UNCHANGED cached
    /\ UNCHANGED <<vars, pte, tables, va, link, clock, slabs, at, frm, hist>>

\* alloc_pages(1), in do_pgfault, in swap_in or in apply_slab.
GetFrame(t, from, to) ==
    /\ pc[t] = from
    /\ \/ /\ alloc_buddy(1)
          /\ frm' = [frm EXCEPT ![t] = Got]
          /\ Goto(t, to)
          /\ UNCHANGED <<ref, panicked, stop>>
       \/ OutOfMemory /\ UNCHANGED <<pc, frm>>
    /\ UNCHANGED <<mmVars, at, past>>

\* The call of t, while u is preempted in its own with page_blk_list already
\* loaded: both have the block.  What the second decrement leaves in the counts
\* is not followed.
SameFrame(t, u, from, to) ==
    /\ pc[t] = from /\ pc[u] \in {"new", "swap_in"}
    /\ alloc_buddy(1)
    /\ frm' = [frm EXCEPT ![t] = Got, ![u] = Got]
    /\ pc' = [pc EXCEPT ![t] = to, ![u] = "map"]
    /\ past' = past \cup {"raced"}
    /\ UNCHANGED <<ref, panicked, mmVars, at, stop>>

\* map(v, frm[t]), store by store: the entry, the count and the address of the
\* frame.
StoreEntry(t, v, to) ==
    /\ pte' = [pte EXCEPT ![v] = [frame |-> frm[t], p |-> TRUE]]
    /\ past' = past \cup IF pte[v].p THEN {"over"} ELSE {}
    /\ Goto(t, to)
    /\ UNCHANGED <<vars, tables, va, link, clock, cached, slabs, at, frm, stop>>

StoreCount(t, to) ==
    /\ ref' = [ref EXCEPT ![frm[t]] = @ + 1]
    /\ Goto(t, to)
    /\ UNCHANGED <<list, blk_num, flags, held, panicked, mmVars, at, frm, hist>>

StoreAddress(t, v) ==
    /\ va' = [va EXCEPT ![frm[t]] = v]
    /\ UNCHANGED <<vars, pte, tables, link, clock, cached, hist>>

\* The frames that map is storing: the entry is there, the count or the address
\* is not yet.
Mapping ==
    {frm[t] : t \in {u \in Threads :
        pc[u] \in {"count", "address", "slab count", "slab address"}}}

\* map of do_pgfault and of swap_in, which then reads the sectors named by
\* the new frame; tmpide.c copies nothing.
map(t) ==
    \/ pc[t] = "map" /\ StoreEntry(t, at[t], "count")
    \/ pc[t] = "count" /\ StoreCount(t, "address")
    \/ /\ pc[t] = "address" /\ StoreAddress(t, at[t])
       /\ Goto(t, "swappable")
       /\ UNCHANGED <<slabs, at, frm>>

\* _clock_map_swappable walks from clock_point to the last page and links the
\* new one there.  If the walk ends in the new block the list is circular;
\* if it ends in the table a chain of free pages runs into one in use.
AppendClock(f) ==
    IF clock = None
    THEN clock' = f /\ UNCHANGED <<link, stop>>
    ELSE LET tail == Last(Chain(clock)) IN
         /\ UNCHANGED clock
         /\ IF tail \in InTable
            THEN stop' = "tangled" /\ UNCHANGED link
            ELSE IF Contains(Chain(f), tail)
            THEN stop' = "circular" /\ UNCHANGED link
            ELSE link' = [link EXCEPT ![tail] = f] /\ UNCHANGED stop

map_swappable(t) ==
    /\ pc[t] = "swappable"
    /\ Goto(t, "access")
    /\ AppendClock(frm[t])
    /\ UNCHANGED <<vars, pte, tables, va, cached, slabs, at, frm, past>>

\* The call of u runs between the walk of t and its store, which overwrites
\* what u has stored: the frame of u is in no list.
SameTail(t, u) ==
    /\ pc[t] = "swappable" /\ pc[u] = "swappable"
    /\ pc' = [pc EXCEPT ![t] = "access", ![u] = "access"]
    /\ AppendClock(frm[t])
    /\ past' = past \cup {"raced"}
    /\ UNCHANGED <<vars, pte, tables, va, cached, slabs, at, frm>>

(***************************************************************************)
(* swap_out(mm, 1)                                                         *)
(***************************************************************************)

Crossing(t) == IF \E u \in Threads \ {t} : pc[u] # "run" THEN {"crossed"} ELSE {}

\* _clock_swap_out_victim: a == binds tighter than ^ in C, so the test is
\* flags != 0; the hand stays on the victim.
swap_out_victim(t) ==
    /\ pc[t] = "run"
    /\ past' = past \cup Crossing(t)
    /\ LET seen == IF clock = None THEN <<>> ELSE Chain(clock)
           busy == {i \in DOMAIN seen : flags[seen[i]] = "BUSY"}
       IN  IF busy = {}
           THEN /\ clock' = None
                /\ stop' = "no pages can be swap out"
                /\ UNCHANGED <<pc, frm>>
           ELSE /\ clock' = seen[Min(busy)]
                /\ frm' = [frm EXCEPT ![t] = seen[Min(busy)]]
                /\ Goto(t, "out")
                /\ UNCHANGED stop
    /\ UNCHANGED <<vars, pte, tables, va, link, cached, slabs, at>>

\* The entry at the victim's address is assumed to be the victim's.
swap_out_as(t, present) ==
    /\ pc[t] = "out"
    /\ LET f == frm[t]
           v == va[f]
       IN  IF v = None \/ ~pte[v].p
           THEN /\ stop' = IF v = None THEN "wild" ELSE "page not exist"
                /\ past' = past \cup Crossing(t)
                /\ UNCHANGED <<vars, pte>>
           ELSE /\ pte' = [pte EXCEPT ![v].p = present]
                /\ ref' = [ref EXCEPT ![f] = IF @ > 0 THEN @ - 1 ELSE @]
                /\ free_pages(f, ref')
                /\ past' = past \cup Crossing(t)
                                \cup {IF held' = held THEN "refused" ELSE "evicted"}
                /\ UNCHANGED panicked
    /\ Done(t)
    /\ UNCHANGED <<tables, link, va, clock, cached, slabs>>

\* Mutant: PTE_P is not cleared.
swap_out_present(t) == swap_out_as(t, TRUE)

swap_out(t) == swap_out_as(t, FALSE)

(***************************************************************************)
(* The heap: apply_slab and _check_free_buddy for slabs of one page        *)
(***************************************************************************)

\* The page table that map allocates in kernel memory.
NewTable(v) ==
    /\ alloc_buddy(1)
    /\ ref' = [ref EXCEPT ![Got] = @ + 1]
    /\ va' = [va EXCEPT ![Got] = None]
    /\ tables' = tables \cup {TableOf(v)}
    /\ UNCHANGED <<panicked, stop>>

\* map at address v: a missing page table is allocated first.
map_slab_at(t, v) ==
    \/ pc[t] = "slab" /\ TableOf(v) \in tables /\ StoreEntry(t, v, "slab count")
    \/ /\ pc[t] = "slab" /\ TableOf(v) \notin tables
       /\ \/ NewTable(v) /\ UNCHANGED <<pc, frm, past>>
          \/ OutOfMemory /\ UNCHANGED <<tables, va, pc, frm, past>>
          \/ \E u \in Threads \ {t} :        \* as in SameFrame
                /\ NewTable(v) /\ pc[u] \in {"new", "swap_in"}
                /\ pc' = [pc EXCEPT ![u] = "map"] /\ frm' = [frm EXCEPT ![u] = Got]
                /\ past' = past \cup {"raced"}
       /\ UNCHANGED <<pte, slabs, at, link, clock, cached>>
    \/ pc[t] = "slab count" /\ StoreCount(t, "slab address")
    \/ /\ pc[t] = "slab address" /\ StoreAddress(t, v)
       /\ slabs' = Append(slabs, frm[t])
       /\ Done(t)

\* Mutant: heap_top is advanced before the call of map.
map_slab_above(t) == map_slab_at(t, heap_top + 1)

map_slab(t) == map_slab_at(t, heap_top)

\* Mutant: unmap forgets the frame.
unmap_leak(v) ==
    /\ pte' = [pte EXCEPT ![v] = Zero]
    /\ UNCHANGED <<ref, va>>

unmap(v) ==
    /\ pte' = [pte EXCEPT ![v] = Zero]
    /\ ref' = [ref EXCEPT ![pte[v].frame] = IF @ > 0 THEN @ - 1 ELSE @]
    /\ va' = [va EXCEPT ![pte[v].frame] = None]

\* The last slab is empty: free_buddy, then unmap.  The slab's own page names
\* the frame, so what happens after that page has got another is left out.
_check_free_buddy(t) ==
    /\ pc[t] = "run" /\ slabs # <<>>
    /\ pte[heap_top - 1] = [frame |-> Last(slabs), p |-> TRUE]
    /\ free_pages(Last(slabs), ref)
    /\ past' = past \cup IF Last(slabs) \in Mapping THEN {"raced"} ELSE {}
    /\ Goto(t, "unmap")
    /\ UNCHANGED <<ref, panicked, mmVars, at, frm>>

unmap_slab(t) ==
    /\ pc[t] = "unmap"
    /\ unmap(heap_top - 1)
    /\ slabs' = Front(slabs)
    /\ Goto(t, "run")
    /\ UNCHANGED <<list, blk_num, flags, held, panicked, tables, link, clock, cached, at, frm, hist>>

(***************************************************************************)
(* The specification                                                       *)
(***************************************************************************)

Handle(t) ==
    \/ Access(t) \/ do_pgfault(t)
    \/ \E from \in {"new", "swap_in"} :
          \/ GetFrame(t, from, "map")
          \/ \E u \in Threads \ {t} : SameFrame(t, u, from, "map")
    \/ map(t) \/ map_swappable(t) \/ \E u \in Threads \ {t} : SameTail(t, u)
    \/ swap_out(t) \/ map_slab(t) \/ unmap_slab(t)

\* Any thread may use an address.  swap_out and the heap are only used by the
\* boot thread: Test() and kthread_create.
Start(t) ==
    \/ \E v \in VPages : Touch(t, v)
    \/ /\ t = Boot
       /\ \/ swap_out_victim(t)
          \/ /\ heap_top < MaxSlabs
             /\ \/ GetFrame(t, "run", "slab")
                \/ \E u \in Threads \ {t} : SameFrame(t, u, "run", "slab")
          \/ _check_free_buddy(t)

\* schedule() and the handlers print, and an assertion of the console lock may
\* fail in any of these calls (module Kernel): the kernel stops.
printk_fails ==
    /\ stop' = "console lock"
    /\ UNCHANGED <<vars, mmVars, pc, at, frm, past>>

\* The boot thread comes to free_buddy while another thread is preempted in
\* alloc_buddy or map_swappable: one of the two stores what it had loaded over
\* what the other has stored, and the model stops.
lists_torn ==
    /\ pc[Boot] = "out" \/ (pc[Boot] = "run" /\ slabs # <<>>)
    /\ \E u \in Threads \ {Boot} : pc[u] \in {"new", "swap_in", "swappable"}
    /\ stop' = "torn"
    /\ past' = past \cup {"raced"}
    /\ UNCHANGED <<vars, mmVars, pc, at, frm>>

PNext ==
    /\ stop = "no"
    /\ printk_fails \/ lists_torn \/ \E t \in Threads : Handle(t) \/ Start(t)

\* A thread that has begun goes on until the kernel stops; nobody need begin.
PSpec == PInit /\ [][PNext]_pgVars /\ \A t \in Threads : WF_pgVars(stop = "no" /\ Handle(t))

(***************************************************************************)
(* Properties                                                              *)
(***************************************************************************)

\* A frame that an entry maps is not in the table of free pages, is mapped
\* nowhere else and, once map is done, knows the address, through any order of
\* page faults of two threads, slabs mapped over their pages, evictions and
\* frames that are used again.  Two things break this.  Two calls of
\* alloc_pages may answer with the same frame ("raced").  And swap_out must not
\* run while another thread is in a fault: the frame that thread has just got
\* may still be in the clock list with its old address, swap_out frees it, and
\* the thread maps a free frame.
FramesInUse ==
    past \cap {"crossed", "raced"} = {} =>
        \A v \in VPages : pte[v].p =>
            LET f == pte[v].frame IN
            /\ f \notin InTable
            /\ \A w \in VPages : pte[w].p /\ pte[w].frame = f => w = v
            /\ f \notin Mapping => ref[f] = 1 /\ va[f] = v

\* A frame that counts as mapped is what the entry of its address maps, so
\* unmap or swap_out can still find it.  Three things break this: map does not
\* look at the entry it overwrites, when a slab or a second thread comes to a
\* page that has been faulted in; a victim that free_buddy refuses stays the
\* next victim, when its address may have been given another frame; and the
\* races.  A frame that does not count as mapped may still be lost: free_buddy
\* refuses the frame of a slab before unmap takes its count away.
MappedByEntry ==
    past \subseteq {"evicted"} =>
        \A f \in Pages \ Mapping :
            ref[f] > 0 /\ va[f] # None => pte[va[f]] = [frame |-> f, p |-> TRUE]

\* Until a page has been swapped out or mapped over, or two calls have raced,
\* every page of the heap stays where apply_slab put it, and the kernel stops
\* only for lack of memory or for the console lock.
\* After the first eviction the clock list runs through frames of the heap, of
\* page tables and of the table of free pages.
HeapStays ==
    past \subseteq {"crossed"} =>
        /\ stop \in {"no", "no pages can be swap out", "out of memory", "console lock"}
        /\ \A i \in DOMAIN slabs : pte[i - 1] = [frame |-> slabs[i], p |-> TRUE]

\* A page fault for which FindVMA finds the vma, at a page whose page table is
\* there, is over in the end: the instruction succeeds, whatever else evicts,
\* or the kernel stops.
FaultEnds ==
    \A t \in Threads :
        /\ pc[t] = "fault" /\ FindVMA(at[t]) /\ getpte(at[t]) # None
        ~> pc[t] = "run" \/ stop # "no"
=============================================================================
