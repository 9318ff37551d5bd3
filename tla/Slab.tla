-------------------------------- MODULE Slab --------------------------------
(***************************************************************************)
(* The kernel heap, src/pmm/slab.c: caches of objects of one size, carved  *)
(* out of slabs of whole pages at the top of the heap.                     *)
(*                                                                         *)
(* A slab is named by the heap page it starts at.  Initially init_slab has *)
(* run: heap page 0 is the first page above the two slabs that hold the    *)
(* cache descriptors, which are never freed.  The lists partial_slabs and  *)
(* free_slabs are sequences here; by OneSlab they never have more          *)
(* than one element, which is where the code's pointers and a sequence     *)
(* cannot differ.  full_slabs stays NULL: kmalloc links a full slab behind *)
(* the last structure it reaches from address NULL, so that it is in none  *)
(* of the three lists any more.                                            *)
(*                                                                         *)
(* Addresses are heap addresses.  The frames that apply_slab maps there,   *)
(* from the second page of a slab on, need not be the slab's own: the      *)
(* pages of a block are a chain after a merge (buddy.c:326) and not a      *)
(* range, and map() moves pg_list besides (slab.c:79).  What then happens  *)
(* to memory that two heap pages share is not followed here.  alloc_pages  *)
(* is external: it gives pages or panics.  ref_num and ref_cnt are written *)
(* and never read.                                                         *)
(***************************************************************************)
EXTENDS Naturals, Sequences, FiniteSets, SequencesExt

CONSTANTS CacheSizes,   \* CacheSizes[c]: bytes per object of cache c
          PGSIZE,       \* bytes per page
          SlabHeader,   \* sizeof(slab_t)
          Requests,     \* sizes that kmalloc is asked for
          MaxTaken      \* bound: pages that alloc_pages gives out in all

Caches == DOMAIN CacheSizes

\* CalculatePages and create_boot_cache.
CalculatePages(v) == IF v < PGSIZE THEN 1 ELSE (v \div PGSIZE) * 2

\* Mutant: the two bytes per object of the free list are forgotten.
ObjPerSlab_nolist(c) ==
    (PGSIZE * CalculatePages(CacheSizes[c]) - SlabHeader) \div CacheSizes[c]

ObjPerSlab(c) ==
    (PGSIZE * CalculatePages(CacheSizes[c]) - SlabHeader) \div (2 + CacheSizes[c])

\* The order of a cache is log2 of its pages and a slab has pow2 of the
\* order: the round trip is exact because the pages are a power of two.
ASSUME SlabAssumption ==
    /\ PGSIZE \in Nat \ {0} /\ SlabHeader \in Nat /\ MaxTaken \in Nat
    /\ Requests \subseteq Nat
    /\ CacheSizes \in Seq(Nat \ {0})
    /\ \A c \in Caches :
        /\ ObjPerSlab(c) > 0
        /\ \E k \in 0 .. 10 : CalculatePages(CacheSizes[c]) = 2 ^ k
        /\ \A d \in Caches : c < d => CacheSizes[c] < CacheSizes[d]

VARIABLES
    slab,      \* slab[s]: the slab_t at heap page s
    partial, free,   \* partial_slabs and free_slabs of every cache
    heap_top,  \* in pages
    taken,     \* pages that alloc_pages has given out
    live,      \* objects that kmalloc has returned and nobody has freed
    lost,      \* history: slabs that kmalloc found full and slabs that kfree
               \* left with objects in use
    stop       \* why nothing runs any more: a panic or a walk from NULL

vars == <<slab, partial, free, heap_top, taken, live, lost, stop>>

Init ==
    /\ slab = <<>>
    /\ partial = [c \in Caches |-> <<>>] /\ free = [c \in Caches |-> <<>>]
    /\ heap_top = 0 /\ taken = 0
    /\ live = {} /\ lost = {}
    /\ stop = "no"

Stop(why) == stop' = why /\ UNCHANGED <<slab, partial, free, heap_top, taken, live, lost>>

\* Where the objects of slab s begin, and the object there with number i.
ObjBase(s)    == s * PGSIZE + SlabHeader + 2 * ObjPerSlab(slab[s].cache)
ObjAddr(s, i) == ObjBase(s) + CacheSizes[slab[s].cache] * i

(***************************************************************************)
(* kmalloc                                                                 *)
(***************************************************************************)

\* GetObj on the slab record r, which is not full: the object's number.
GetObj(r) == r.free_list[r.active]

\* r is at page s and becomes the partial slab of its cache c.
Hand(c, s, r) ==
    /\ slab' = [t \in DOMAIN slab \cup {s} |->
                   IF t = s THEN [r EXCEPT !.active = @ + 1] ELSE slab[t]]
    /\ partial' = [partial EXCEPT ![c] = <<s>>]
    /\ live' = live \cup {[slab |-> s, id |-> GetObj(r)]}
    /\ UNCHANGED stop

\* The slab that apply_slab builds.
NewSlab(c) ==
    [cache |-> c, pages |-> CalculatePages(CacheSizes[c]), active |-> 0,
     free_list |-> [k \in 0 .. ObjPerSlab(c) - 1 |-> k]]

\* Mutant: the top of the heap moves by one page.
apply_slab_one(r) ==
    /\ taken' = taken + r.pages
    /\ heap_top' = heap_top + 1

\* apply_slab: map the pages of slab r at the top of the heap.
apply_slab(r) ==
    /\ taken' = taken + r.pages
    /\ heap_top' = heap_top + r.pages

\* A new slab becomes the partial one, unless alloc_pages panics.
HandNew(c, gone) ==
    \/ Stop("no page left")
    \/ /\ taken + NewSlab(c).pages <= MaxTaken
       /\ apply_slab(NewSlab(c))
       /\ Hand(c, heap_top, NewSlab(c))
       /\ lost' = lost \cup gone
       /\ UNCHANGED free

\* The cache for a request: the first one with larger objects.
CacheFor(n) == {c \in Caches : CacheSizes[c] > n /\ \A d \in 1 .. c - 1 : CacheSizes[d] <= n}

NoCache(n) ==
    /\ CacheFor(n) = {}
    /\ Stop("error while in kmalloc")

\* The partial slab has an object left.
FromPartial(n) ==
    \E c \in CacheFor(n) :
        /\ partial[c] # <<>>
        /\ LET s == Head(partial[c])
           IN  /\ slab[s].active < ObjPerSlab(c)
               /\ Hand(c, s, slab[s])
        /\ UNCHANGED <<free, heap_top, taken, lost>>

\* The partial slab is full.  The search for the end of full_slabs starts at
\* NULL and follows the word that AllocSplit and this code store there: it
\* leads nowhere, or to a structure behind which the slab is linked.  By
\* OneSlab the cache has no free slab, so a new one takes its place.
FullPartial(n) ==
    \E c \in CacheFor(n) :
        /\ partial[c] # <<>> /\ free[c] = <<>>
        /\ slab[Head(partial[c])].active = ObjPerSlab(c)
        /\ Stop("walk from NULL") \/ HandNew(c, {Head(partial[c])})

\* Mutant: the slab stays in the free list.
FromFree_keep(n) ==
    \E c \in CacheFor(n) :
        /\ partial[c] = <<>> /\ free[c] # <<>>
        /\ slab' = [slab EXCEPT ![Head(free[c])].active = @ + 1]
        /\ live' = live \cup {[slab |-> Head(free[c]), id |-> GetObj(slab[Head(free[c])])]}
        /\ UNCHANGED <<partial, free, heap_top, taken, lost, stop>>

\* No partial slab: the first free one becomes it.
FromFree(n) ==
    \E c \in CacheFor(n) :
        /\ partial[c] = <<>> /\ free[c] # <<>>
        /\ free' = [free EXCEPT ![c] = Tail(@)]
        /\ Hand(c, Head(free[c]), slab[Head(free[c])])
        /\ UNCHANGED <<heap_top, taken, lost>>

\* No slab at all: a new one.
FromBuddy(n) ==
    \E c \in CacheFor(n) :
        /\ partial[c] = <<>> /\ free[c] = <<>>
        /\ HandNew(c, {})

kmalloc(n) ==
    /\ stop = "no"
    /\ NoCache(n) \/ FromPartial(n) \/ FullPartial(n) \/ FromFree(n) \/ FromBuddy(n)

(***************************************************************************)
(* kfree                                                                   *)
(***************************************************************************)

\* Does the address a belong to slab s?  (The difference is unsigned: an
\* address below the slab gives a number that is too large.)
InSlab(a, s) ==
    /\ a >= ObjBase(s)
    /\ (a - ObjBase(s)) \div CacheSizes[slab[s].cache] < ObjPerSlab(slab[s].cache)

\* Mutant: the number is stored above the new top of the stack.
FreeObj_above(s, i) ==
    LET r == slab[s]
    IN  [r EXCEPT !.active = @ - 1,
                  !.free_list = [k \in DOMAIN @ |-> IF k = r.active THEN i ELSE @[k]]]

\* FreeObj: push the object's number on the slab's stack.
FreeObj(s, i) ==
    LET r == slab[s]
    IN  [r EXCEPT !.active = @ - 1, !.free_list[r.active - 1] = i]

\* _check_free_buddy: is s the last slab below heap_top?
AtTop(s) == heap_top <= s + slab[s].pages

\* move_slab_to_free.  At the top of the heap the pages are unmapped and
\* heap_top goes down; free_buddy, called before that, has refused the
\* frames because they were still mapped.
move_slab_to_free(s, c, r) ==
    IF AtTop(s)
    THEN /\ heap_top' = heap_top - r.pages
         /\ slab' = [t \in DOMAIN slab \ {s} |-> slab[t]]
         /\ UNCHANGED free
    ELSE /\ free' = [free EXCEPT ![c] = Append(@, s)]
         /\ slab' = [slab EXCEPT ![s] = r]
         /\ UNCHANGED heap_top

\* move_slab_off_partial; its twin is not reached while full_slabs is NULL.
move_slab_off_partial(s, c) ==
    partial' = [partial EXCEPT ![c] = RemoveAt(@, CHOOSE i \in DOMAIN @ : @[i] = s)]

\* The partial slabs that accept the object, over all caches.
Finders(o) ==
    {s \in DOMAIN slab : /\ Contains(partial[slab[s].cache], s)
                         /\ InSlab(ObjAddr(o.slab, o.id), s)}

\* _free_obj_kmem_cache: the slab leaves the partial list, whether or not
\* objects of it are still in use; only an unused one goes to another list.
FreeFound(o) ==
    \E s \in Finders(o) :
        LET c == slab[s].cache
            r == FreeObj(s, (ObjAddr(o.slab, o.id) - ObjBase(s)) \div CacheSizes[c])
        IN  /\ move_slab_off_partial(s, c)
            /\ IF r.active = 0
               THEN move_slab_to_free(s, c, r) /\ UNCHANGED lost
               ELSE /\ slab' = [slab EXCEPT ![s] = r]
                    /\ lost' = lost \cup {s}
                    /\ UNCHANGED <<free, heap_top>>
            /\ live' = live \ {o}
            /\ UNCHANGED <<taken, stop>>

FreeLost(o) ==
    /\ Finders(o) = {}
    /\ Stop("error,obj not in slab management")

kfree(o) == stop = "no" /\ (FreeFound(o) \/ FreeLost(o))

Next ==
    \/ \E n \in Requests : kmalloc(n)
    \/ \E o \in live : kfree(o)

Spec == Init /\ [][Next]_vars

(***************************************************************************)
(* Properties                                                              *)
(***************************************************************************)

\* The slabs cover the heap below heap_top without gap or overlap: giving
\* back the slab at the top never takes pages from another one, and a new
\* slab never starts inside an old one.
SlabsTile ==
    \A v \in 0 .. heap_top - 1 :
        Cardinality({s \in DOMAIN slab : v \in s .. s + slab[s].pages - 1}) = 1

\* The bytes of the object o.
Bytes(o) == ObjAddr(o.slab, o.id) ..
            ObjAddr(o.slab, o.id) + CacheSizes[slab[o.slab].cache] - 1

\* No two objects in use share a byte with each other or with the header
\* and the free list of any slab, and all of them are in mapped heap pages.
LiveDisjoint ==
    /\ \A o, p \in live : o # p => Bytes(o) \cap Bytes(p) = {}
    /\ \A o \in live :
        /\ \A b \in Bytes(o) : b < heap_top * PGSIZE
        /\ \A s \in DOMAIN slab : Bytes(o) \cap (s * PGSIZE .. ObjBase(s) - 1) = {}

\* The part of the free list above active holds exactly the numbers of the
\* objects not in use, once each, after any mix of kmalloc and kfree.
FreeListExact ==
    \A s \in DOMAIN slab :
        LET r    == slab[s]
            rest == {k \in DOMAIN r.free_list : k >= r.active}
        IN  /\ {r.free_list[k] : k \in rest} =
                   DOMAIN r.free_list \ {o.id : o \in {p \in live : p.slab = s}}
            /\ \A k, m \in rest : r.free_list[k] = r.free_list[m] => k = m

\* A cache has at most one slab in its lists: the branches of kmalloc for a
\* second partial or free slab are never taken.
OneSlab == \A c \in Caches : Len(partial[c]) + Len(free[c]) <= 1

\* kfree finds an object in use in its own slab and nowhere else, except that
\* it finds none of a slab that was full when kmalloc was called or that kfree
\* has taken another object from; and each cache has its one slab.
LiveListed ==
    /\ OneSlab
    /\ \A o \in live : Finders(o) = {o.slab} \ lost
=============================================================================
