----------------------------- MODULE SlabProofs -----------------------------
(***************************************************************************)
(* The kernel heap, for every set of caches, every page size, any sizes    *)
(* asked for and any amount of memory: slabs tile the heap, objects in use *)
(* share no byte, the free lists are exact, and kfree finds every object   *)
(* but those of the slabs that are in no list any more.                    *)
(*                                                                         *)
(* The argument: a slab that kfree leaves with objects in use, or that     *)
(* kmalloc finds full, never comes back to a list.  So a slab that is      *)
(* still listed has handed out its objects in order and its free list is   *)
(* the one it was made with; so has one that was full; and one that kfree  *)
(* left has lost exactly one object, whose number is on top of its free    *)
(* list.                                                                   *)
(***************************************************************************)
EXTENDS Slab, FiniteSetTheorems, TLAPS

Lists == UNION {[0 .. n - 1 -> Nat] : n \in Nat}

\* A slab_t that create_slab has filled in.
IsSlab(r) ==
    /\ r \in [cache : Caches, pages : Nat, active : Nat, free_list : Lists]
    /\ r.pages = CalculatePages(CacheSizes[r.cache])
    /\ r.active <= ObjPerSlab(r.cache)
    /\ r.free_list \in [0 .. ObjPerSlab(r.cache) - 1 -> Nat]

Types ==
    /\ heap_top \in Nat /\ taken \in Nat
    /\ \A s \in DOMAIN slab : s \in Nat /\ IsSlab(slab[s])
    /\ DOMAIN partial = Caches /\ DOMAIN free = Caches
    /\ lost \subseteq DOMAIN slab
    /\ \A o \in live : /\ o \in [slab : DOMAIN slab, id : Nat]
                       /\ o.id < ObjPerSlab(slab[o.slab].cache)

(***************************************************************************)
(* The pages of slabs are disjoint and cover the heap.                     *)
(***************************************************************************)
Apart(a, m, b, n) == a + m <= b \/ b + n <= a

Tiles ==
    /\ \A s \in DOMAIN slab : s + slab[s].pages <= heap_top
    /\ \A s, t \in DOMAIN slab : s # t => Apart(s, slab[s].pages, t, slab[t].pages)
    /\ \A v \in 0 .. heap_top - 1 : \E s \in DOMAIN slab : s <= v /\ v < s + slab[s].pages

(***************************************************************************)
(* What a slab has handed out                                              *)
(***************************************************************************)
Obj(s, i) == [slab |-> s, id |-> i]

\* kfree has taken nothing from r, which is at s, or everything.
Whole(s, r, l) ==
    \A i \in 0 .. ObjPerSlab(r.cache) - 1 : r.free_list[i] = i /\ (Obj(s, i) \in l <=> i < r.active)

\* kfree has taken one object from r and left others.
Broken(s, r, l) ==
    /\ 0 < r.active /\ r.active < ObjPerSlab(r.cache) /\ r.free_list[r.active] <= r.active
    /\ \A i \in 0 .. ObjPerSlab(r.cache) - 1 :
          /\ i # r.active => r.free_list[i] = i
          /\ Obj(s, i) \in l <=> i <= r.active /\ i # r.free_list[r.active]

Handed ==
    \A s \in DOMAIN slab : Whole(s, slab[s], live) \/ (s \in lost /\ Broken(s, slab[s], live))

(***************************************************************************)
(* The lists                                                               *)
(***************************************************************************)

\* s is the one slab in the lists of its cache.
OnPartial(s) ==
    LET c == slab[s].cache
    IN  slab[s].active > 0 /\ partial[c] = <<s>> /\ free[c] = <<>>

OnFree(s) ==
    LET c == slab[s].cache
    IN  slab[s].active = 0 /\ partial[c] = <<>> /\ free[c] = <<s>>

Listed ==
    /\ \A s \in DOMAIN slab \ lost : OnPartial(s) \/ OnFree(s)
    /\ \A c \in Caches : \/ partial[c] = <<>> /\ free[c] = <<>>
                         \/ \E s \in DOMAIN slab \ lost : slab[s].cache = c

SInv == Types /\ Tiles /\ Handed /\ Listed

(***************************************************************************)
(* Arithmetic                                                              *)
(***************************************************************************)
LEMMA MulMono ==
    ASSUME NEW z \in Nat, NEW a \in Nat, NEW b \in Nat, a <= b
    PROVE  z * a <= z * b
<1>1. PICK d \in Nat : b = a + d
    <2>1. b - a \in Nat /\ b = a + (b - a)
        OBVIOUS
    <2> QED  BY <2>1
<1>2. z * b = z * a + z * d /\ z * d \in Nat /\ z * a \in Nat
    BY <1>1
<1> QED  BY <1>2

LEMMA DivMod ==
    ASSUME NEW a \in Int, NEW z \in Nat \ {0}
    PROVE  /\ a \div z \in Int /\ z * (a \div z) \in Int
           /\ z * (a \div z) <= a /\ a < z * (a \div z) + z
<1>1. a \div z \in Int
    OBVIOUS
<1>2. z * (a \div z) \in Int
    BY <1>1
<1>3. a = z * (a \div z) + (a % z) /\ a % z \in 0 .. z - 1
    OBVIOUS
<1> QED  BY <1>1, <1>2, <1>3

LEMMA DivBack ==
    ASSUME NEW i \in Nat, NEW z \in Nat \ {0}
    PROVE  (z * i) \div z = i
<1>1. PICK q \in Int : q = (z * i) \div z
    OBVIOUS
<1>2. z * i \in Nat
    OBVIOUS
<1>3. z * q \in Int /\ z * q <= z * i /\ z * i < z * q + z
    BY <1>1, <1>2, DivMod
<1>4. CASE q < i
    <2>1. z * (q + 1) <= z * i
        <3>1. PICK d \in Nat : i = q + 1 + d
            <4>1. i - (q + 1) \in Nat /\ i = q + 1 + (i - (q + 1))
                BY <1>4
            <4> QED  BY <4>1
        <3>2. z * i = z * (q + 1) + z * d /\ z * d \in Nat /\ z * (q + 1) \in Int
            BY <3>1
        <3> QED  BY <3>2
    <2>2. z * (q + 1) = z * q + z
        OBVIOUS
    <2> QED  BY <1>3, <2>1, <2>2
<1>5. CASE i < q
    <2>1. q \in Nat /\ i + 1 \in Nat /\ i + 1 <= q
        BY <1>5
    <2>2. z * (i + 1) <= z * q
        BY <2>1, MulMono
    <2>3. z * (i + 1) = z * i + z
        OBVIOUS
    <2> QED  BY <1>2, <1>3, <2>2, <2>3
<1> QED  BY <1>1, <1>4, <1>5

LEMMA DivLess ==
    ASSUME NEW x \in Nat, NEW z \in Nat \ {0}, NEW n \in Nat, x \div z < n
    PROVE  x < z * n
<1>1. PICK q \in Int : q = x \div z
    OBVIOUS
<1>2. z * q \in Int /\ z * q <= x /\ x < z * q + z
    BY <1>1, DivMod
<1>3. q \in Nat /\ q + 1 <= n
    BY <1>1
<1>4. z * (q + 1) <= z * n /\ z * (q + 1) = z * q + z
    BY <1>3, MulMono
<1> QED  BY <1>2, <1>4

\* The header, the free list and the objects of a slab fit into its pages.
LEMMA CacheFacts ==
    ASSUME NEW c \in Caches
    PROVE  /\ CacheSizes[c] \in Nat \ {0} /\ PGSIZE \in Nat \ {0} /\ SlabHeader \in Nat
           /\ ObjPerSlab(c) \in Nat \ {0}
           /\ CalculatePages(CacheSizes[c]) \in Nat \ {0, 3}
           /\ SlabHeader + 2 * ObjPerSlab(c) + CacheSizes[c] * ObjPerSlab(c)
                 <= PGSIZE * CalculatePages(CacheSizes[c])
<1>1. PICK z : z = CacheSizes[c]
    OBVIOUS
<1>2. z \in Nat \ {0} /\ PGSIZE \in Nat \ {0} /\ SlabHeader \in Nat /\ ObjPerSlab(c) > 0
    BY <1>1, SlabAssumption DEF Caches
<1>3. PICK p : p = CalculatePages(z)
    OBVIOUS
<1>4. p \in Nat \ {0, 3}
    <2>1. CASE z < PGSIZE
        BY <1>3, <2>1 DEF CalculatePages
    <2>2. CASE ~(z < PGSIZE)
        <3>1. PICK q \in Int : q = z \div PGSIZE
            BY <1>2
        <3>2. PGSIZE * q \in Int /\ PGSIZE * q <= z /\ z < PGSIZE * q + PGSIZE
            BY <1>2, <3>1, DivMod
        <3>3. q > 0
            <4>1. q \in Nat
                BY <1>2, <3>1
            <4> QED  BY <1>2, <2>2, <3>2, <4>1
        <3>4. p = q * 2
            BY <1>3, <2>2, <3>1 DEF CalculatePages
        <3> QED  BY <3>1, <3>3, <3>4
    <2> QED  BY <2>1, <2>2
<1>5. PICK a \in Int : a = PGSIZE * p - SlabHeader
    BY <1>2, <1>4
<1>6. PICK n \in Int : n = a \div (2 + z) /\ n = ObjPerSlab(c)
    BY <1>1, <1>2, <1>3, <1>5 DEF ObjPerSlab
<1>7. 2 + z \in Nat \ {0} /\ n \in Nat \ {0}
    BY <1>2, <1>6
<1>8. (2 + z) * n <= a
    BY <1>5, <1>6, <1>7, DivMod
<1>9. (2 + z) * n = 2 * n + z * n /\ z * n \in Nat /\ PGSIZE * p \in Nat
    BY <1>2, <1>4, <1>7
<1>10. SlabHeader + 2 * n + z * n <= PGSIZE * p
    BY <1>2, <1>5, <1>7, <1>8, <1>9
<1> QED  BY <1>1, <1>2, <1>3, <1>4, <1>6, <1>7, <1>10

(***************************************************************************)
(* The bytes of a slab                                                     *)
(***************************************************************************)
LEMMA SlabFacts ==
    ASSUME Types, NEW s \in DOMAIN slab
    PROVE  /\ s \in Nat /\ IsSlab(slab[s]) /\ slab[s].cache \in Caches
           /\ slab[s].active \in 0 .. ObjPerSlab(slab[s].cache)
           /\ slab[s].pages = CalculatePages(CacheSizes[slab[s].cache])
           /\ CacheSizes[slab[s].cache] \in Nat \ {0} /\ PGSIZE \in Nat \ {0}
           /\ ObjPerSlab(slab[s].cache) \in Nat \ {0} /\ slab[s].pages \in Nat \ {0, 3}
           /\ s * PGSIZE \in Nat /\ ObjBase(s) \in Nat /\ s * PGSIZE <= ObjBase(s)
           /\ CacheSizes[slab[s].cache] * ObjPerSlab(slab[s].cache) \in Nat
           /\ ObjBase(s) + CacheSizes[slab[s].cache] * ObjPerSlab(slab[s].cache)
                 <= PGSIZE * (s + slab[s].pages)
<1>1. s \in Nat /\ IsSlab(slab[s])
    BY DEF Types
<1>2. PICK c : c = slab[s].cache
    OBVIOUS
<1>3. /\ c \in Caches /\ slab[s].active \in Nat /\ slab[s].active <= ObjPerSlab(c)
      /\ slab[s].pages = CalculatePages(CacheSizes[c])
    BY <1>1, <1>2 DEF IsSlab
<1>4. PICK z, n, p, h : z = CacheSizes[c] /\ n = ObjPerSlab(c) /\ p = slab[s].pages /\ h = SlabHeader
    OBVIOUS
<1>5. /\ z \in Nat \ {0} /\ n \in Nat \ {0} /\ p \in Nat \ {0, 3} /\ h \in Nat /\ PGSIZE \in Nat \ {0}
      /\ h + 2 * n + z * n <= PGSIZE * p
    BY <1>3, <1>4, CacheFacts
<1>6. PICK b : b = ObjBase(s)
    OBVIOUS
<1>7. b = s * PGSIZE + h + 2 * n
    BY <1>2, <1>4, <1>6 DEF ObjBase
<1>8. s * PGSIZE \in Nat /\ z * n \in Nat /\ PGSIZE * p \in Nat
    BY <1>1, <1>5
<1>9. PGSIZE * (s + p) = s * PGSIZE + PGSIZE * p
    BY <1>1, <1>5
<1>10. b \in Nat /\ s * PGSIZE <= b /\ b + z * n <= PGSIZE * (s + p)
    BY <1>5, <1>7, <1>8, <1>9
<1> QED  BY <1>1, <1>2, <1>3, <1>4, <1>5, <1>6, <1>8, <1>10

\* Object i of slab s lies between the free list and the end of the slab.
LEMMA ObjPlace ==
    ASSUME Types, NEW s \in DOMAIN slab, NEW i \in Nat, i < ObjPerSlab(slab[s].cache)
    PROVE  /\ CacheSizes[slab[s].cache] * i \in Nat /\ ObjAddr(s, i) \in Nat
           /\ ObjAddr(s, i) = ObjBase(s) + CacheSizes[slab[s].cache] * i
           /\ ObjBase(s) <= ObjAddr(s, i)
           /\ ObjAddr(s, i) + CacheSizes[slab[s].cache] <= PGSIZE * (s + slab[s].pages)
<1>1. PICK z, n, b, e : /\ z = CacheSizes[slab[s].cache] /\ n = ObjPerSlab(slab[s].cache)
                        /\ b = ObjBase(s) /\ e = PGSIZE * (s + slab[s].pages)
    OBVIOUS
<1>2. z \in Nat \ {0} /\ n \in Nat \ {0} /\ b \in Nat /\ z * n \in Nat /\ b + z * n <= e
    BY <1>1, SlabFacts
<1>3. e \in Nat
    BY <1>1, SlabFacts
<1>4. z * (i + 1) <= z * n /\ z * (i + 1) = z * i + z /\ z * i \in Nat
    BY <1>1, <1>2, MulMono
<1>5. ObjAddr(s, i) = b + z * i
    BY <1>1 DEF ObjAddr
<1>6. b + z * i + z <= e
    BY <1>2, <1>3, <1>4
<1> QED  BY <1>1, <1>2, <1>3, <1>4, <1>5, <1>6

\* An address in two slabs is in one slab.
LEMMA SameSlab ==
    ASSUME Types, Tiles, NEW s \in DOMAIN slab, NEW t \in DOMAIN slab, NEW a \in Nat,
           s * PGSIZE <= a, a < PGSIZE * (s + slab[s].pages),
           t * PGSIZE <= a, a < PGSIZE * (t + slab[t].pages)
    PROVE  s = t
<1> SUFFICES ASSUME s # t PROVE FALSE
    OBVIOUS
<1>1. PICK p, q, G : p = slab[s].pages /\ q = slab[t].pages /\ G = PGSIZE
    OBVIOUS
<1>2. s \in Nat /\ t \in Nat /\ p \in Nat /\ q \in Nat /\ G \in Nat
    BY <1>1, SlabFacts
<1>3. s + p <= t \/ t + q <= s
    BY <1>1 DEF Tiles, Apart
<1>4. s + p <= t => G * (s + p) <= G * t
    BY <1>2, MulMono
<1>5. t + q <= s => G * (t + q) <= G * s
    BY <1>2, MulMono
<1>6. G * t = t * G /\ G * s = s * G /\ G * t \in Nat /\ G * s \in Nat
    BY <1>2
<1>7. G * (s + p) \in Nat /\ G * (t + q) \in Nat
    BY <1>2
<1> QED  BY <1>1, <1>3, <1>4, <1>5, <1>6, <1>7

\* FreeObj accepts an object of its own slab.
LEMMA OwnSlab ==
    ASSUME Types, NEW o \in live
    PROVE  InSlab(ObjAddr(o.slab, o.id), o.slab)
<1>1. o.slab \in DOMAIN slab /\ o.id \in Nat /\ o.id < ObjPerSlab(slab[o.slab].cache)
    BY DEF Types
<1>2. PICK a, z, n, b : /\ a = ObjAddr(o.slab, o.id) /\ z = CacheSizes[slab[o.slab].cache]
                        /\ n = ObjPerSlab(slab[o.slab].cache) /\ b = ObjBase(o.slab)
    OBVIOUS
<1>3. a = b + z * o.id /\ b <= a
    BY <1>1, <1>2, ObjPlace
<1>4. z \in Nat \ {0} /\ b \in Nat /\ z * o.id \in Nat
    BY <1>1, <1>2, SlabFacts, ObjPlace
<1>5. a - b = z * o.id
    BY <1>3, <1>4
<1>6. (a - b) \div z = o.id
    BY <1>1, <1>4, <1>5, DivBack
<1> QED  BY <1>1, <1>2, <1>3, <1>6 DEF InSlab

\* kfree finds an object in its own slab or not at all.
LEMMA FinderIs ==
    ASSUME Types, Tiles, NEW o \in live, NEW s \in Finders(o)
    PROVE  /\ s = o.slab /\ s \in DOMAIN slab /\ Contains(partial[slab[s].cache], s)
           /\ (ObjAddr(o.slab, o.id) - ObjBase(s)) \div CacheSizes[slab[s].cache] = o.id
<1>1. /\ o.slab \in DOMAIN slab /\ o.id \in Nat /\ o.id < ObjPerSlab(slab[o.slab].cache)
    BY DEF Types
<1>2. PICK a : a = ObjAddr(o.slab, o.id)
    OBVIOUS
<1>3. s \in DOMAIN slab /\ Contains(partial[slab[s].cache], s) /\ InSlab(a, s)
    BY <1>2 DEF Finders
<1>4. /\ a \in Nat /\ a = ObjBase(o.slab) + CacheSizes[slab[o.slab].cache] * o.id
      /\ ObjBase(o.slab) <= a
      /\ a + CacheSizes[slab[o.slab].cache] <= PGSIZE * (o.slab + slab[o.slab].pages)
      /\ CacheSizes[slab[o.slab].cache] * o.id \in Nat
    BY <1>1, <1>2, ObjPlace
<1>5. PICK z, n, b, e : /\ z = CacheSizes[slab[s].cache] /\ n = ObjPerSlab(slab[s].cache)
                        /\ b = ObjBase(s) /\ e = PGSIZE * (s + slab[s].pages)
    OBVIOUS
<1>6. /\ z \in Nat \ {0} /\ n \in Nat \ {0} /\ b \in Nat /\ z * n \in Nat /\ b + z * n <= e
      /\ s * PGSIZE \in Nat /\ s * PGSIZE <= b
    BY <1>3, <1>5, SlabFacts
<1>7. e \in Nat
    BY <1>3, <1>5, SlabFacts
<1>8. b <= a /\ (a - b) \div z < n /\ a - b \in Nat
    BY <1>3, <1>4, <1>5, <1>6 DEF InSlab
<1>9. a - b < z * n
    BY <1>6, <1>8, DivLess
<1>10. s * PGSIZE <= a /\ a < e
    BY <1>4, <1>6, <1>7, <1>8, <1>9
<1>11. o.slab * PGSIZE <= a /\ a < PGSIZE * (o.slab + slab[o.slab].pages)
    <2>1. PICK y, d, f, g : /\ y = CacheSizes[slab[o.slab].cache] /\ d = ObjBase(o.slab)
                            /\ f = PGSIZE * (o.slab + slab[o.slab].pages) /\ g = o.slab * PGSIZE
        OBVIOUS
    <2>2. y \in Nat \ {0} /\ d \in Nat /\ g \in Nat /\ g <= d /\ f \in Nat
        BY <1>1, <2>1, SlabFacts
    <2>3. d <= a /\ a + y <= f
        BY <1>4, <2>1
    <2>4. g <= a /\ a < f
        BY <1>4, <2>2, <2>3
    <2> QED  BY <2>1, <2>4
<1>12. s = o.slab
    BY <1>1, <1>3, <1>4, <1>5, <1>10, <1>11, SameSlab
<1>13. a - b = z * o.id
    BY <1>4, <1>5, <1>6, <1>12
<1>14. (a - b) \div z = o.id
    BY <1>1, <1>6, <1>13, DivBack
<1> QED  BY <1>2, <1>3, <1>5, <1>12, <1>14

(***************************************************************************)
(* kmalloc                                                                 *)
(***************************************************************************)
LEMMA ObjSame == \A s, t, i, j : Obj(s, i) = Obj(t, j) <=> s = t /\ i = j
BY DEF Obj

\* What a slab has handed out depends on its own objects only.
LEMMA OwnObjects ==
    ASSUME NEW t, NEW r, ObjPerSlab(r.cache) \in Nat, NEW l, NEW m,
           \A i \in Nat : Obj(t, i) \in l <=> Obj(t, i) \in m
    PROVE  (Whole(t, r, l) => Whole(t, r, m)) /\ (Broken(t, r, l) => Broken(t, r, m))
<1>1. \A i \in 0 .. ObjPerSlab(r.cache) - 1 : i \in Nat
    OBVIOUS
<1> QED  BY <1>1 DEF Whole, Broken

\* Slab record r at s gives its next object.
GivenBy(s, r, q) ==
    /\ IsSlab(q) /\ q.cache = r.cache /\ q.pages = r.pages /\ q.active = r.active + 1
    /\ q.free_list = r.free_list
    /\ DOMAIN slab' = DOMAIN slab \cup {s} /\ slab'[s] = q
    /\ \A t \in DOMAIN slab \ {s} : slab'[t] = slab[t]
    /\ live' = live \cup {Obj(s, r.active)} /\ Whole(s, q, live')
    /\ \A t \in DOMAIN slab \ {s} : \A i \in Nat : Obj(t, i) \in live' <=> Obj(t, i) \in live

LEMMA HandOut ==
    ASSUME NEW s, NEW c, NEW r, IsSlab(r), Whole(s, r, live), r.active < ObjPerSlab(r.cache),
           Hand(c, s, r)
    PROVE  \E q : GivenBy(s, r, q)
<1>1. /\ r \in [cache : Caches, pages : Nat, active : Nat, free_list : Lists]
      /\ r.cache \in Caches /\ r.active \in Nat
      /\ r.pages = CalculatePages(CacheSizes[r.cache])
      /\ r.free_list \in [0 .. ObjPerSlab(r.cache) - 1 -> Nat]
    BY DEF IsSlab
<1>2. ObjPerSlab(r.cache) \in Nat \ {0}
    BY <1>1, CacheFacts
<1>3. PICK k \in Nat : k = r.active + 1
    BY <1>1
<1>4. PICK q : q = [r EXCEPT !.active = k]
    OBVIOUS
<1>5. /\ q \in [cache : Caches, pages : Nat, active : Nat, free_list : Lists]
      /\ q.cache = r.cache /\ q.pages = r.pages /\ q.active = k /\ q.free_list = r.free_list
    BY <1>1, <1>3, <1>4
<1>6. IsSlab(q)
    BY <1>1, <1>2, <1>3, <1>5 DEF IsSlab
<1>7. r.active \in 0 .. ObjPerSlab(r.cache) - 1
    BY <1>1, <1>2
<1>8. GetObj(r) = r.active
    BY <1>7 DEF GetObj, Whole
<1>9. live' = live \cup {Obj(s, r.active)}
    BY <1>8 DEF Hand, Obj
<1>10. /\ DOMAIN slab' = DOMAIN slab \cup {s} /\ slab'[s] = q
       /\ \A t \in DOMAIN slab \ {s} : slab'[t] = slab[t]
    BY <1>3, <1>4 DEF Hand
<1>11. \A t \in DOMAIN slab \ {s} : \A i \in Nat : Obj(t, i) \in live' <=> Obj(t, i) \in live
    BY <1>9, ObjSame
<1>12. Whole(s, q, live')
    <2> SUFFICES ASSUME NEW i \in 0 .. ObjPerSlab(r.cache) - 1
                 PROVE  q.free_list[i] = i /\ (Obj(s, i) \in live' <=> i < k)
        BY <1>5 DEF Whole
    <2>1. r.free_list[i] = i /\ (Obj(s, i) \in live <=> i < r.active)
        BY DEF Whole
    <2>2. i < k <=> i < r.active \/ i = r.active
        BY <1>1, <1>2, <1>3
    <2> QED  BY <1>5, <1>9, <2>1, <2>2, ObjSame
<1> QED  BY <1>3, <1>5, <1>6, <1>9, <1>10, <1>11, <1>12 DEF GivenBy

\* The object comes from a slab that is in a list.
LEMMA OldSlab ==
    ASSUME SInv, NEW s \in DOMAIN slab \ lost, NEW c, c = slab[s].cache,
           slab[s].active < ObjPerSlab(c), Hand(c, s, slab[s]),
           DOMAIN free' = Caches, free'[c] = <<>>,
           \A d \in Caches \ {c} : free'[d] = free[d], UNCHANGED <<heap_top, taken, lost>>
    PROVE  SInv'
<1>1. Types /\ Tiles /\ Handed /\ Listed
    BY DEF SInv
<1>2. IsSlab(slab[s]) /\ Whole(s, slab[s], live) /\ c \in Caches
    BY <1>1, SlabFacts DEF Handed
<1>3. PICK q : GivenBy(s, slab[s], q)
    BY <1>2, HandOut
<1>4. /\ IsSlab(q) /\ q.cache = c /\ q.pages = slab[s].pages /\ q.active = slab[s].active + 1
      /\ DOMAIN slab' = DOMAIN slab /\ slab'[s] = q
      /\ \A t \in DOMAIN slab \ {s} : slab'[t] = slab[t]
      /\ live' = live \cup {Obj(s, slab[s].active)} /\ Whole(s, q, live')
      /\ \A t \in DOMAIN slab \ {s} : \A i \in Nat : Obj(t, i) \in live' <=> Obj(t, i) \in live
    BY <1>3 DEF GivenBy
<1>5. lost' = lost /\ partial' = [partial EXCEPT ![c] = <<s>>]
    BY DEF Hand
<1>6. \A t \in DOMAIN slab : slab'[t].cache = slab[t].cache /\ slab'[t].pages = slab[t].pages
    BY <1>4
<1>7. Types'
    <2>1. ASSUME NEW o \in live'
          PROVE  o \in [slab : DOMAIN slab, id : Nat] /\ o.id < ObjPerSlab(slab'[o.slab].cache)
        <3>1. CASE o \in live
            BY <1>1, <1>6, <3>1 DEF Types
        <3>2. CASE o = Obj(s, slab[s].active)
            <4>1. slab[s].active \in Nat
                BY <1>1, SlabFacts
            <4> QED  BY <1>4, <3>2, <4>1 DEF Obj
        <3> QED  BY <1>4, <3>1, <3>2
    <2>2. \A t \in DOMAIN slab' : t \in Nat /\ IsSlab(slab'[t])
        BY <1>1, <1>4 DEF Types
    <2>3. DOMAIN partial' = Caches
        BY <1>1, <1>5 DEF Types
    <2>4. /\ heap_top' \in Nat /\ taken' \in Nat /\ lost' \subseteq DOMAIN slab'
        BY <1>1, <1>4, <1>5 DEF Types
    <2> QED  BY <1>4, <2>1, <2>2, <2>3, <2>4 DEF Types
<1>8. Tiles'
    BY <1>1, <1>4, <1>6 DEF Tiles
<1>9. Handed'
    <2> SUFFICES ASSUME NEW t \in DOMAIN slab
                 PROVE  Whole(t, slab'[t], live') \/ (t \in lost' /\ Broken(t, slab'[t], live'))
        BY <1>4, <1>5 DEF Handed
    <2>1. CASE t = s
        BY <1>4, <2>1
    <2>2. CASE t # s
        <3>1. ObjPerSlab(slab[t].cache) \in Nat
            BY <1>1, SlabFacts
        <3>2. \A i \in Nat : Obj(t, i) \in live <=> Obj(t, i) \in live'
            BY <1>4, <2>2
        <3>3. slab'[t] = slab[t]
            BY <1>4, <2>2
        <3> QED  BY <1>1, <3>1, <3>2, <3>3, OwnObjects DEF Handed
    <2> QED  BY <2>1, <2>2
<1>10. Listed'
    <2>1. partial'[c] = <<s>> /\ \A d \in Caches \ {c} : partial'[d] = partial[d]
        BY <1>1, <1>2, <1>5 DEF Types
    <2>2. ASSUME NEW t \in DOMAIN slab \ lost
          PROVE  OnPartial(t)' \/ OnFree(t)'
        <3>1. CASE t = s
            <4>1. q.active > 0
                <5>1. slab[s].active \in Nat
                    BY <1>1, SlabFacts
                <5> QED  BY <1>4, <5>1
            <4> QED  BY <1>4, <2>1, <3>1, <4>1 DEF OnPartial
        <3>2. CASE t # s
            <4>1. slab'[t] = slab[t] /\ slab[t].cache \in Caches
                BY <1>1, <1>4, <3>2, SlabFacts
            <4>2. (OnPartial(t) \/ OnFree(t)) /\ (OnPartial(s) \/ OnFree(s))
                BY <1>1 DEF Listed
            <4>3. slab[t].cache # c
                BY <3>2, <4>2 DEF OnPartial, OnFree
            <4> QED  BY <2>1, <4>1, <4>2, <4>3 DEF OnPartial, OnFree
        <3> QED  BY <3>1, <3>2
    <2>3. ASSUME NEW d \in Caches
          PROVE  \/ partial'[d] = <<>> /\ free'[d] = <<>>
                 \/ \E t \in DOMAIN slab \ lost : slab'[t].cache = d
        <3>1. CASE d = c
            BY <1>4, <3>1
        <3>2. CASE d # c
            BY <1>1, <1>6, <2>1, <3>2 DEF Listed
        <3> QED  BY <3>1, <3>2
    <2> QED  BY <1>4, <1>5, <2>2, <2>3 DEF Listed
<1> QED  BY <1>7, <1>8, <1>9, <1>10 DEF SInv

\* The lists of a cache that are not both empty hold one slab of it.
LEMMA TheSlab ==
    ASSUME SInv, NEW c \in Caches, partial[c] # <<>> \/ free[c] # <<>>
    PROVE  \E s \in DOMAIN slab \ lost : slab[s].cache = c /\ (OnPartial(s) \/ OnFree(s))
BY DEF SInv, Listed

LEMMA StopStep ==
    ASSUME SInv, NEW why, Stop(why)
    PROVE  SInv'
BY DEF Stop, SInv, Types, Tiles, Handed, Listed, OnPartial, OnFree

\* No other listed slab is of the cache of a listed one.
LEMMA OtherCache ==
    ASSUME SInv, NEW s \in DOMAIN slab \ lost, OnPartial(s), NEW t \in DOMAIN slab \ lost, t # s
    PROVE  slab[t].cache # slab[s].cache
<1>1. OnPartial(t) \/ OnFree(t)
    BY DEF SInv, Listed
<1>2. <<s>> # <<t>> /\ <<s>> # <<>>
    OBVIOUS
<1> QED  BY <1>1, <1>2 DEF OnPartial, OnFree

LEMMA FromPartialStep ==
    ASSUME SInv, NEW n, FromPartial(n)
    PROVE  SInv'
<1>1. PICK c \in CacheFor(n) :
          /\ partial[c] # <<>>
          /\ slab[Head(partial[c])].active < ObjPerSlab(c)
          /\ Hand(c, Head(partial[c]), slab[Head(partial[c])])
          /\ UNCHANGED <<free, heap_top, taken, lost>>
    BY DEF FromPartial
<1>2. c \in Caches
    BY DEF CacheFor
<1>3. PICK s \in DOMAIN slab \ lost : slab[s].cache = c /\ (OnPartial(s) \/ OnFree(s))
    BY <1>1, <1>2, TheSlab
<1>4. partial[c] = <<s>> /\ free[c] = <<>>
    BY <1>1, <1>3 DEF OnPartial, OnFree
<1>5. Head(partial[c]) = s
    BY <1>4
<1>6. DOMAIN free = Caches
    BY DEF SInv, Types
<1> QED  BY <1>1, <1>2, <1>3, <1>4, <1>5, <1>6, OldSlab

LEMMA FromFreeStep ==
    ASSUME SInv, NEW n, FromFree(n)
    PROVE  SInv'
<1>1. PICK c \in CacheFor(n) :
          /\ partial[c] = <<>> /\ free[c] # <<>>
          /\ free' = [free EXCEPT ![c] = Tail(@)]
          /\ Hand(c, Head(free[c]), slab[Head(free[c])])
          /\ UNCHANGED <<heap_top, taken, lost>>
    BY DEF FromFree
<1>2. c \in Caches
    BY DEF CacheFor
<1>3. PICK s \in DOMAIN slab \ lost : slab[s].cache = c /\ (OnPartial(s) \/ OnFree(s))
    BY <1>1, <1>2, TheSlab
<1>4. free[c] = <<s>> /\ slab[s].active = 0
    BY <1>1, <1>3 DEF OnPartial, OnFree
<1>5. Head(free[c]) = s /\ Tail(free[c]) = <<>>
    BY <1>4
<1>6. DOMAIN free = Caches
    BY DEF SInv, Types
<1>7. DOMAIN free' = Caches /\ free'[c] = <<>> /\ \A d \in Caches \ {c} : free'[d] = free[d]
    BY <1>1, <1>2, <1>5, <1>6
<1>8. slab[s].active < ObjPerSlab(c)
    BY <1>2, <1>4, CacheFacts
<1> QED  BY <1>1, <1>2, <1>3, <1>5, <1>7, <1>8, OldSlab

\* The objects of a new slab.
LEMMA NewSlabFacts ==
    ASSUME NEW c \in Caches
    PROVE  /\ IsSlab(NewSlab(c)) /\ NewSlab(c).cache = c /\ NewSlab(c).active = 0
           /\ NewSlab(c).pages = CalculatePages(CacheSizes[c]) /\ NewSlab(c).pages \in Nat \ {0, 3}
           /\ \A i \in 0 .. ObjPerSlab(c) - 1 : NewSlab(c).free_list[i] = i
<1>1. PICK n \in Nat \ {0} : n = ObjPerSlab(c)
    BY CacheFacts
<1>2. PICK p \in Nat \ {0, 3} : p = CalculatePages(CacheSizes[c])
    BY CacheFacts
<1>3. PICK l : l = [k \in 0 .. n - 1 |-> k]
    OBVIOUS
<1>4. l \in [0 .. n - 1 -> Nat] /\ \A i \in 0 .. n - 1 : l[i] = i
    BY <1>1, <1>3
<1>5. l \in Lists
    BY <1>1, <1>4 DEF Lists
<1>6. NewSlab(c) = [cache |-> c, pages |-> p, active |-> 0, free_list |-> l]
    BY <1>1, <1>2, <1>3 DEF NewSlab
<1>7. PICK r : r = NewSlab(c)
    OBVIOUS
<1>8. /\ r \in [cache : Caches, pages : Nat, active : Nat, free_list : Lists]
      /\ r.cache = c /\ r.active = 0 /\ r.pages = p /\ r.free_list = l
    BY <1>2, <1>5, <1>6, <1>7
<1>9. IsSlab(r)
    BY <1>1, <1>2, <1>4, <1>8 DEF IsSlab
<1> QED  BY <1>1, <1>2, <1>4, <1>7, <1>8, <1>9

\* A new slab becomes the partial one; the slabs of gone leave the lists.
LEMMA GrowStep ==
    ASSUME SInv, NEW c \in Caches, NEW gone, gone \subseteq DOMAIN slab, free[c] = <<>>,
           \A s \in DOMAIN slab \ (lost \cup gone) : slab[s].cache # c,
           \A s \in gone : slab[s].cache = c,
           apply_slab(NewSlab(c)), Hand(c, heap_top, NewSlab(c)),
           lost' = lost \cup gone, UNCHANGED free
    PROVE  SInv'
<1>2. c \in Caches /\ free[c] = <<>>
    OBVIOUS
<1>3. Types /\ Tiles /\ Handed /\ Listed
    BY DEF SInv
<1>4. PICK r : r = NewSlab(c)
    OBVIOUS
<1>5. PICK h \in Nat, p \in Nat \ {0, 3}, k \in Nat : h = heap_top /\ p = r.pages /\ k = taken
    BY <1>2, <1>3, <1>4, NewSlabFacts DEF Types
<1>6. /\ IsSlab(r) /\ r.cache = c /\ r.active = 0
      /\ \A i \in 0 .. ObjPerSlab(c) - 1 : r.free_list[i] = i
    BY <1>2, <1>4, NewSlabFacts
<1>7. ASSUME NEW t \in DOMAIN slab
      PROVE  t \in Nat /\ slab[t].pages \in Nat \ {0} /\ t + slab[t].pages <= h /\ t < h
    <2>1. t \in Nat /\ slab[t].pages \in Nat \ {0} /\ t + slab[t].pages <= h
        BY <1>3, <1>5, SlabFacts DEF Tiles
    <2> QED  BY <1>5, <2>1
<1>8. h \notin DOMAIN slab
    BY <1>5, <1>7
<1>9. Whole(h, r, live) /\ r.active < ObjPerSlab(r.cache)
    <2>1. \A i : Obj(h, i) \notin live
        BY <1>3, <1>8 DEF Types, Obj
    <2>2. ObjPerSlab(c) \in Nat \ {0}
        BY <1>2, CacheFacts
    <2>3. \A i \in 0 .. ObjPerSlab(c) - 1 : ~(i < 0)
        BY <2>2
    <2> QED  BY <1>6, <2>1, <2>2, <2>3 DEF Whole
<1>10. PICK q : GivenBy(h, r, q)
    BY <1>4, <1>5, <1>6, <1>9, HandOut
<1>11. /\ IsSlab(q) /\ q.cache = c /\ q.pages = p /\ q.active = 1
       /\ DOMAIN slab' = DOMAIN slab \cup {h} /\ slab'[h] = q
       /\ \A t \in DOMAIN slab : slab'[t] = slab[t]
       /\ live' = live \cup {Obj(h, 0)} /\ Whole(h, q, live')
       /\ \A t \in DOMAIN slab : \A i \in Nat : Obj(t, i) \in live' <=> Obj(t, i) \in live
    BY <1>5, <1>6, <1>8, <1>10 DEF GivenBy
<1>12. lost' = lost \cup gone /\ partial' = [partial EXCEPT ![c] = <<h>>] /\ free' = free
    BY <1>5 DEF Hand
<1>13. heap_top' = h + p /\ taken' = k + p
    BY <1>4, <1>5 DEF apply_slab
<1>15. Types'
    <2>1. ASSUME NEW o \in live'
          PROVE  o \in [slab : DOMAIN slab', id : Nat] /\ o.id < ObjPerSlab(slab'[o.slab].cache)
        <3>1. CASE o \in live
            BY <1>3, <1>11, <3>1 DEF Types
        <3>2. CASE o = Obj(h, 0)
            BY <1>6, <1>9, <1>11, <3>2 DEF Obj
        <3> QED  BY <1>11, <3>1, <3>2
    <2>2. \A t \in DOMAIN slab' : t \in Nat /\ IsSlab(slab'[t])
        BY <1>3, <1>5, <1>11 DEF Types
    <2>3. DOMAIN partial' = Caches /\ DOMAIN free' = Caches
        BY <1>3, <1>12 DEF Types
    <2>4. heap_top' \in Nat /\ taken' \in Nat
        BY <1>5, <1>13
    <2>6. lost' \subseteq DOMAIN slab'
        BY <1>3, <1>11, <1>12 DEF Types
    <2> QED  BY <2>1, <2>2, <2>3, <2>4, <2>6 DEF Types
<1>16. Tiles'
    <2>1. \A s \in DOMAIN slab' : s + slab'[s].pages <= heap_top'
        BY <1>5, <1>7, <1>11, <1>13
    <2>2. ASSUME NEW s \in DOMAIN slab', NEW t \in DOMAIN slab', s # t
          PROVE  Apart(s, slab'[s].pages, t, slab'[t].pages)
        <3>1. CASE s \in DOMAIN slab /\ t \in DOMAIN slab
            BY <1>3, <1>11, <2>2, <3>1 DEF Tiles
        <3>2. CASE s = h
            BY <1>5, <1>7, <1>11, <2>2, <3>2 DEF Apart
        <3>3. CASE t = h
            BY <1>5, <1>7, <1>11, <2>2, <3>3 DEF Apart
        <3> QED  BY <1>11, <3>1, <3>2, <3>3
    <2>3. ASSUME NEW v \in 0 .. heap_top' - 1
          PROVE  \E s \in DOMAIN slab' : s <= v /\ v < s + slab'[s].pages
        <3>1. CASE v < h
            <4>1. v \in 0 .. heap_top - 1
                BY <1>5, <1>13, <3>1
            <4> QED  BY <1>3, <1>11, <4>1 DEF Tiles
        <3>2. CASE ~(v < h)
            <4>1. v \in Nat /\ h <= v /\ v < h + p
                BY <1>5, <1>13, <3>2
            <4>2. h \in DOMAIN slab' /\ slab'[h].pages = p
                BY <1>11
            <4> QED  BY <4>1, <4>2
        <3> QED  BY <3>1, <3>2
    <2> QED  BY <2>1, <2>2, <2>3 DEF Tiles
<1>18. Handed'
    <2> SUFFICES ASSUME NEW t \in DOMAIN slab'
                 PROVE  Whole(t, slab'[t], live') \/ (t \in lost' /\ Broken(t, slab'[t], live'))
        BY DEF Handed
    <2>1. CASE t = h
        BY <1>11, <2>1
    <2>2. CASE t \in DOMAIN slab
        <3>1. ObjPerSlab(slab[t].cache) \in Nat
            BY <1>3, <2>2, SlabFacts
        <3>2. \A i \in Nat : Obj(t, i) \in live <=> Obj(t, i) \in live'
            BY <1>11, <2>2
        <3>3. slab'[t] = slab[t] /\ (t \in lost => t \in lost')
            BY <1>11, <1>12, <2>2
        <3>4. Whole(t, slab[t], live) \/ (t \in lost /\ Broken(t, slab[t], live))
            BY <1>3, <2>2 DEF Handed
        <3> QED  BY <3>1, <3>2, <3>3, <3>4, OwnObjects
    <2> QED  BY <1>11, <2>1, <2>2
<1>19. Listed'
    <2>1. partial'[c] = <<h>> /\ \A d \in Caches \ {c} : partial'[d] = partial[d]
        BY <1>2, <1>3, <1>12 DEF Types
    <2>2. ASSUME NEW t \in DOMAIN slab' \ lost'
          PROVE  OnPartial(t)' \/ OnFree(t)'
        <3>1. CASE t = h
            BY <1>2, <1>11, <1>12, <2>1, <3>1 DEF OnPartial
        <3>2. CASE t \in DOMAIN slab
            <4>1. slab'[t] = slab[t] /\ slab[t].cache \in Caches
                BY <1>3, <1>11, <3>2, SlabFacts
            <4>2. OnPartial(t) \/ OnFree(t)
                BY <1>3, <1>12, <3>2 DEF Listed
            <4>3. slab[t].cache # c
                BY <1>12, <3>2
            <4> QED  BY <1>12, <2>1, <4>1, <4>2, <4>3 DEF OnPartial, OnFree
        <3> QED  BY <1>11, <3>1, <3>2
    <2>3. ASSUME NEW d \in Caches
          PROVE  \/ partial'[d] = <<>> /\ free'[d] = <<>>
                 \/ \E t \in DOMAIN slab' \ lost' : slab'[t].cache = d
        <3>1. CASE d = c
            <4>1. h \in DOMAIN slab' \ lost'
                BY <1>3, <1>8, <1>11, <1>12 DEF Types
            <4> QED  BY <1>11, <3>1, <4>1
        <3>2. CASE d # c
            <4>1. \/ partial[d] = <<>> /\ free[d] = <<>>
                  \/ \E t \in DOMAIN slab \ lost : slab[t].cache = d
                BY <1>3 DEF Listed
            <4>2. \A t \in DOMAIN slab \ lost : slab[t].cache = d => t \in DOMAIN slab' \ lost'
                BY <1>11, <1>12, <3>2
            <4> QED  BY <1>11, <1>12, <2>1, <3>2, <4>1, <4>2
        <3> QED  BY <3>1, <3>2
    <2> QED  BY <2>2, <2>3 DEF Listed
<1> QED  BY <1>15, <1>16, <1>18, <1>19 DEF SInv

\* A cache with empty lists has only lost slabs; one with a partial slab has
\* no other that is not lost.
LEMMA FromBuddyStep ==
    ASSUME SInv, NEW n, FromBuddy(n)
    PROVE  SInv'
<1>1. PICK c \in CacheFor(n) : partial[c] = <<>> /\ free[c] = <<>> /\ HandNew(c, {})
    BY DEF FromBuddy
<1>2. c \in Caches
    BY <1>1 DEF CacheFor
<1>3. ASSUME NEW s \in DOMAIN slab \ lost PROVE slab[s].cache # c
    <2>1. OnPartial(s) \/ OnFree(s)
        BY DEF SInv, Listed
    <2>2. <<s>> # <<>>
        OBVIOUS
    <2> QED  BY <1>1, <2>1, <2>2 DEF OnPartial, OnFree
<1>4. CASE Stop("no page left")
    BY <1>4, StopStep
<1>5. CASE /\ apply_slab(NewSlab(c)) /\ Hand(c, heap_top, NewSlab(c))
           /\ lost' = lost \cup {} /\ UNCHANGED free
    BY <1>1, <1>2, <1>3, <1>5, GrowStep
<1> QED  BY <1>1, <1>4, <1>5 DEF HandNew

LEMMA FullPartialStep ==
    ASSUME SInv, NEW n, FullPartial(n)
    PROVE  SInv'
<1>1. PICK c \in CacheFor(n) :
          /\ partial[c] # <<>> /\ free[c] = <<>>
          /\ Stop("walk from NULL") \/ HandNew(c, {Head(partial[c])})
    BY DEF FullPartial
<1>2. c \in Caches
    BY <1>1 DEF CacheFor
<1>3. PICK s \in DOMAIN slab \ lost : slab[s].cache = c /\ (OnPartial(s) \/ OnFree(s))
    BY <1>1, <1>2, TheSlab
<1>4. OnPartial(s) /\ partial[c] = <<s>>
    BY <1>1, <1>3 DEF OnPartial, OnFree
<1>5. Head(partial[c]) = s
    BY <1>4
<1>6. ASSUME NEW t \in DOMAIN slab \ (lost \cup {s}) PROVE slab[t].cache # c
    <2>1. t \in DOMAIN slab \ lost /\ t # s
        OBVIOUS
    <2> QED  BY <1>3, <1>4, <2>1, OtherCache
<1>7. CASE Stop("walk from NULL")
    BY <1>7, StopStep
<1>8. CASE Stop("no page left")
    BY <1>8, StopStep
<1>9. CASE /\ apply_slab(NewSlab(c)) /\ Hand(c, heap_top, NewSlab(c))
           /\ lost' = lost \cup {s} /\ UNCHANGED free
    BY <1>1, <1>2, <1>3, <1>6, <1>9, GrowStep
<1> QED  BY <1>1, <1>5, <1>7, <1>8, <1>9 DEF HandNew

(***************************************************************************)
(* kfree                                                                   *)
(***************************************************************************)

\* The slab in which kfree finds an object is the one in the lists.
LEMMA FinderListed ==
    ASSUME SInv, NEW o \in live, NEW s \in Finders(o)
    PROVE  s \in DOMAIN slab \ lost /\ OnPartial(s)
<1>1. Types /\ Tiles
    BY DEF SInv
<1>2. s \in DOMAIN slab /\ Contains(partial[slab[s].cache], s)
    BY <1>1, FinderIs
<1>3. PICK c \in Caches : c = slab[s].cache
    BY <1>1, <1>2, SlabFacts
<1>4. PICK i \in 1 .. Len(partial[c]) : partial[c][i] = s
    BY <1>2, <1>3 DEF Contains
<1>5. partial[c] # <<>>
    <2>1. Len(<<>>) = 0 /\ 1 .. 0 = {}
        OBVIOUS
    <2> QED  BY <1>4, <2>1
<1>6. PICK t \in DOMAIN slab \ lost : slab[t].cache = c /\ (OnPartial(t) \/ OnFree(t))
    BY <1>5, TheSlab
<1>7. OnPartial(t) /\ partial[c] = <<t>>
    BY <1>5, <1>6 DEF OnPartial, OnFree
<1>8. s = t
    <2>1. Len(<<t>>) = 1 /\ <<t>>[1] = t /\ \A j \in 1 .. 1 : j = 1
        OBVIOUS
    <2> QED  BY <1>4, <1>7, <2>1
<1> QED  BY <1>6, <1>7, <1>8

\* The slab record r that kfree leaves at s when it takes o back.
BackIn(o, s, r) ==
    /\ o = Obj(s, o.id) /\ o.id < slab[s].active
    /\ IsSlab(r) /\ r.cache = slab[s].cache /\ r.pages = slab[s].pages
    /\ r.active \in Nat /\ slab[s].active = r.active + 1
    /\ IF r.active = 0 THEN Whole(s, r, live \ {o}) ELSE Broken(s, r, live \ {o})
    /\ \A t \in DOMAIN slab \ {s} : \A i \in Nat : Obj(t, i) \in live <=> Obj(t, i) \in live \ {o}

LEMMA TakeBack ==
    ASSUME SInv, NEW o \in live, NEW s \in Finders(o)
    PROVE  BackIn(o, s, FreeObj(s, o.id))
<1>1. Types /\ Tiles /\ Handed
    BY DEF SInv
<1>2. s \in DOMAIN slab \ lost /\ OnPartial(s) /\ s = o.slab
    BY <1>1, FinderIs, FinderListed
<1>3. PICK u : u = slab[s]
    OBVIOUS
<1>4. /\ u \in [cache : Caches, pages : Nat, active : Nat, free_list : Lists]
      /\ u.pages = CalculatePages(CacheSizes[u.cache])
      /\ u.active <= ObjPerSlab(u.cache)
      /\ u.free_list \in [0 .. ObjPerSlab(u.cache) - 1 -> Nat]
    BY <1>1, <1>2, <1>3, SlabFacts DEF IsSlab
<1>5. PICK n \in Nat \ {0} : n = ObjPerSlab(u.cache)
    BY <1>4, CacheFacts
<1>6. PICK i \in 0 .. n - 1 : i = o.id /\ o = Obj(s, i)
    <2>1. o \in [slab : DOMAIN slab, id : Nat] /\ o.id < ObjPerSlab(slab[o.slab].cache)
        BY <1>1 DEF Types
    <2>2. o.id \in 0 .. n - 1
        BY <1>2, <1>3, <1>5, <2>1
    <2>3. o = Obj(s, o.id)
        BY <1>2, <2>1 DEF Obj
    <2> QED  BY <2>2, <2>3
<1>7. Whole(s, u, live)
    BY <1>1, <1>2, <1>3 DEF Handed
<1>8. u.active \in Nat /\ i < u.active /\ u.active <= n
    BY <1>4, <1>5, <1>6, <1>7 DEF Whole
<1>9. PICK k \in 0 .. n - 1 : u.active = k + 1
    <2>1. u.active - 1 \in 0 .. n - 1 /\ u.active = (u.active - 1) + 1
        BY <1>5, <1>8
    <2> QED  BY <2>1
<1>10. PICK f : f = [u.free_list EXCEPT ![k] = i]
    OBVIOUS
<1>11. f \in [0 .. n - 1 -> Nat] /\ f[k] = i /\ \A j \in (0 .. n - 1) \ {k} : f[j] = u.free_list[j]
    <2>1. PICK g, D : g = u.free_list /\ D = 0 .. n - 1
        OBVIOUS
    <2>2. g \in [D -> Nat] /\ k \in D /\ i \in Nat
        BY <1>4, <1>5, <1>6, <1>9, <2>1
    <2>3. f \in [D -> Nat] /\ f[k] = i /\ \A j \in D \ {k} : f[j] = g[j]
        BY <1>10, <2>1, <2>2
    <2> QED  BY <2>1, <2>3
<1>12. f \in Lists
    BY <1>5, <1>11 DEF Lists
<1>13. PICK r : r = FreeObj(s, o.id)
    OBVIOUS
<1>14. r = [u EXCEPT !.active = k, !.free_list = f]
    <2>1. u.active - 1 = k
        BY <1>9
    <2> QED  BY <1>3, <1>6, <1>10, <1>13, <2>1 DEF FreeObj
<1>15. /\ r \in [cache : Caches, pages : Nat, active : Nat, free_list : Lists]
       /\ r.cache = u.cache /\ r.pages = u.pages /\ r.active = k /\ r.free_list = f
    <2>1. k \in Nat
        BY <1>9
    <2> QED  BY <1>4, <1>12, <1>14, <2>1
<1>16. IsSlab(r)
    BY <1>4, <1>5, <1>9, <1>11, <1>15 DEF IsSlab
<1>17. ASSUME NEW j \in 0 .. n - 1
       PROVE  /\ u.free_list[j] = j
              /\ Obj(s, j) \in live \ {o} <=> j <= k /\ j # i
    <2>1. u.free_list[j] = j /\ (Obj(s, j) \in live <=> j < u.active)
        BY <1>5, <1>7 DEF Whole
    <2>2. j < u.active <=> j <= k
        BY <1>9
    <2> QED  BY <1>6, <2>1, <2>2, ObjSame
<1>18. k = 0 => Whole(s, r, live \ {o})
    <2> SUFFICES ASSUME k = 0, NEW j \in 0 .. n - 1
                 PROVE  r.free_list[j] = j /\ (Obj(s, j) \in live \ {o} <=> j < r.active)
        BY <1>5, <1>15 DEF Whole
    <2>1. i = 0
        BY <1>6, <1>8, <1>9
    <2>2. f[j] = j
        BY <1>11, <1>17, <2>1
    <2>3. ~(j < 0) /\ (j <= 0 <=> j = 0)
        OBVIOUS
    <2> QED  BY <1>15, <1>17, <2>1, <2>2, <2>3
<1>19. k # 0 => Broken(s, r, live \ {o})
    <2> SUFFICES ASSUME k # 0 PROVE Broken(s, r, live \ {o})
        OBVIOUS
    <2>1. 0 < k /\ k < n /\ f[k] <= k
        <3>1. i <= k /\ 0 < k /\ k < n
            BY <1>5, <1>6, <1>8, <1>9
        <3> QED  BY <1>11, <3>1
    <2>2. ASSUME NEW j \in 0 .. n - 1
          PROVE  /\ j # k => f[j] = j
                 /\ Obj(s, j) \in live \ {o} <=> j <= k /\ j # f[k]
        BY <1>11, <1>17
    <2> QED  BY <1>5, <1>15, <2>1, <2>2 DEF Broken
<1>20. \A t \in DOMAIN slab \ {s} : \A j \in Nat : Obj(t, j) \in live <=> Obj(t, j) \in live \ {o}
    BY <1>6, ObjSame
<1> QED  BY <1>3, <1>6, <1>8, <1>9, <1>13, <1>15, <1>16, <1>18, <1>19, <1>20 DEF BackIn

LEMMA OffPartial ==
    ASSUME SInv, NEW s \in DOMAIN slab, OnPartial(s), NEW c, c = slab[s].cache,
           move_slab_off_partial(s, c)
    PROVE  /\ c \in Caches /\ DOMAIN partial' = Caches /\ partial'[c] = <<>>
           /\ \A d \in Caches \ {c} : partial'[d] = partial[d]
<1>1. c \in Caches /\ DOMAIN partial = Caches
    <2>1. Types
        BY DEF SInv
    <2> QED  BY <2>1, SlabFacts DEF Types
<1>2. PICK l : l = partial[c] /\ l = <<s>>
    BY DEF OnPartial
<1>3. PICK i : i = CHOOSE j \in DOMAIN l : l[j] = s
    OBVIOUS
<1>4. i = 1
    <2>1. DOMAIN l = {1} /\ l[1] = s
        BY <1>2
    <2> QED  BY <1>3, <2>1
<1>5. RemoveAt(l, i) = <<>>
    <2>1. RemoveAt(<<s>>, 1) = SubSeq(<<s>>, 1, 0) \o SubSeq(<<s>>, 2, 1)
        BY DEF RemoveAt
    <2>2. SubSeq(<<s>>, 1, 0) = <<>> /\ SubSeq(<<s>>, 2, 1) = <<>>
        OBVIOUS
    <2>3. <<>> \o <<>> = <<>>
        OBVIOUS
    <2> QED  BY <1>2, <1>4, <2>1, <2>2, <2>3
<1>6. partial' = [partial EXCEPT ![c] = RemoveAt(l, i)]
    BY <1>2, <1>3 DEF move_slab_off_partial
<1> QED  BY <1>1, <1>5, <1>6

\* The slab that kfree takes an object from stays in the heap.
LEMMA KeptSlab ==
    ASSUME SInv, NEW o \in live, NEW s \in DOMAIN slab, NEW r, BackIn(o, s, r),
           slab' = [slab EXCEPT ![s] = r], live' = live \ {o}, UNCHANGED <<heap_top, taken>>,
           DOMAIN partial' = Caches, DOMAIN free' = Caches,
           lost' \subseteq DOMAIN slab, s \in lost' <=> r.active # 0,
           \A t \in DOMAIN slab \ {s} : t \in lost' <=> t \in lost
    PROVE  Types' /\ Tiles' /\ Handed'
<1>1. Types /\ Tiles /\ Handed
    BY DEF SInv
<1>2. /\ DOMAIN slab' = DOMAIN slab /\ slab'[s] = r
      /\ \A t \in DOMAIN slab \ {s} : slab'[t] = slab[t]
    OBVIOUS
<1>3. /\ IsSlab(r) /\ r.cache = slab[s].cache /\ r.pages = slab[s].pages
      /\ IF r.active = 0 THEN Whole(s, r, live') ELSE Broken(s, r, live')
      /\ \A t \in DOMAIN slab \ {s} : \A i \in Nat : Obj(t, i) \in live <=> Obj(t, i) \in live'
    BY DEF BackIn
<1>4. \A t \in DOMAIN slab : slab'[t].cache = slab[t].cache /\ slab'[t].pages = slab[t].pages
    BY <1>2, <1>3
<1>5. Types'
    <2>1. \A t \in DOMAIN slab' : t \in Nat /\ IsSlab(slab'[t])
        BY <1>1, <1>2, <1>3 DEF Types
    <2>2. ASSUME NEW p \in live'
          PROVE  p \in [slab : DOMAIN slab', id : Nat] /\ p.id < ObjPerSlab(slab'[p.slab].cache)
        BY <1>1, <1>2, <1>4 DEF Types
    <2>3. /\ heap_top' \in Nat /\ taken' \in Nat /\ lost' \subseteq DOMAIN slab'
        BY <1>1, <1>2 DEF Types
    <2> QED  BY <2>1, <2>2, <2>3 DEF Types
<1>6. Tiles'
    BY <1>1, <1>2, <1>4 DEF Tiles
<1>7. Handed'
    <2> SUFFICES ASSUME NEW t \in DOMAIN slab
                 PROVE  Whole(t, slab'[t], live') \/ (t \in lost' /\ Broken(t, slab'[t], live'))
        BY <1>2 DEF Handed
    <2>1. CASE t = s
        BY <1>2, <1>3, <2>1
    <2>2. CASE t # s
        <3>1. ObjPerSlab(slab[t].cache) \in Nat
            BY <1>1, SlabFacts
        <3>2. \A i \in Nat : Obj(t, i) \in live <=> Obj(t, i) \in live'
            BY <1>3, <2>2
        <3>3. slab'[t] = slab[t] /\ (t \in lost' <=> t \in lost)
            BY <1>2, <2>2
        <3> QED  BY <1>1, <3>1, <3>2, <3>3, OwnObjects DEF Handed
    <2> QED  BY <2>1, <2>2
<1> QED  BY <1>5, <1>6, <1>7

\* kfree leaves objects in use: the slab leaves the lists.
LEMMA FreeSome ==
    ASSUME SInv, NEW o \in live, NEW s \in DOMAIN slab \ lost, OnPartial(s),
           NEW r, BackIn(o, s, r), r.active # 0, move_slab_off_partial(s, r.cache),
           slab' = [slab EXCEPT ![s] = r], lost' = lost \cup {s}, live' = live \ {o},
           UNCHANGED <<free, heap_top, taken>>
    PROVE  SInv'
<1>1. PICK c : c = slab[s].cache /\ c = r.cache
    BY DEF BackIn
<1>2. /\ c \in Caches /\ DOMAIN partial' = Caches /\ partial'[c] = <<>>
      /\ \A d \in Caches \ {c} : partial'[d] = partial[d]
    BY <1>1, OffPartial
<1>3. DOMAIN free = Caches /\ lost \subseteq DOMAIN slab
    BY DEF SInv, Types
<1>4. Types' /\ Tiles' /\ Handed'
    BY <1>2, <1>3, KeptSlab
<1>5. /\ DOMAIN slab' = DOMAIN slab
      /\ \A t \in DOMAIN slab \ {s} : slab'[t] = slab[t]
    OBVIOUS
<1>6. free[c] = <<>>
    BY <1>1 DEF OnPartial
<1>7. ASSUME NEW t \in DOMAIN slab \ lost, t # s
      PROVE  (OnPartial(t)' \/ OnFree(t)') /\ slab'[t] = slab[t]
    <2>1. slab'[t] = slab[t] /\ slab[t].cache # c /\ slab[t].cache \in Caches
        <3>1. Types
            BY DEF SInv
        <3>2. slab[t].cache # slab[s].cache
            BY <1>7, OtherCache
        <3>3. slab[t].cache \in Caches
            BY <3>1, SlabFacts
        <3> QED  BY <1>1, <1>5, <1>7, <3>2, <3>3
    <2>2. OnPartial(t) \/ OnFree(t)
        BY DEF SInv, Listed
    <2> QED  BY <1>2, <2>1, <2>2 DEF OnPartial, OnFree
<1>8. ASSUME NEW d \in Caches
      PROVE  \/ partial'[d] = <<>> /\ free'[d] = <<>>
             \/ \E t \in DOMAIN slab' \ lost' : slab'[t].cache = d
    <2>1. CASE d = c
        BY <1>2, <1>6, <2>1
    <2>2. CASE d # c
        <3>1. \/ partial[d] = <<>> /\ free[d] = <<>>
              \/ \E t \in DOMAIN slab \ lost : slab[t].cache = d
            BY DEF SInv, Listed
        <3> QED  BY <1>1, <1>2, <1>5, <2>2, <3>1
    <2> QED  BY <2>1, <2>2
<1>9. Listed'
    BY <1>5, <1>7, <1>8 DEF Listed
<1> QED  BY <1>4, <1>9 DEF SInv

\* kfree leaves the slab unused below another one: it becomes the free slab.
LEMMA FreeLast ==
    ASSUME SInv, NEW o \in live, NEW s \in DOMAIN slab \ lost, OnPartial(s),
           NEW r, BackIn(o, s, r), r.active = 0, move_slab_off_partial(s, r.cache),
           slab' = [slab EXCEPT ![s] = r], free' = [free EXCEPT ![r.cache] = Append(@, s)],
           live' = live \ {o}, UNCHANGED <<heap_top, taken, lost>>
    PROVE  SInv'
<1>1. PICK c : c = slab[s].cache /\ c = r.cache
    BY DEF BackIn
<1>2. /\ c \in Caches /\ DOMAIN partial' = Caches /\ partial'[c] = <<>>
      /\ \A d \in Caches \ {c} : partial'[d] = partial[d]
    BY <1>1, OffPartial
<1>3. DOMAIN free = Caches /\ lost \subseteq DOMAIN slab
    BY DEF SInv, Types
<1>4. DOMAIN free' = Caches /\ free'[c] = <<s>> /\ \A d \in Caches \ {c} : free'[d] = free[d]
    <2>1. free[c] = <<>> /\ Append(<<>>, s) = <<s>>
        BY <1>1 DEF OnPartial
    <2> QED  BY <1>1, <1>2, <1>3, <2>1
<1>5. lost' = lost
    OBVIOUS
<1>6. Types' /\ Tiles' /\ Handed'
    BY <1>2, <1>3, <1>4, <1>5, KeptSlab
<1>7. /\ DOMAIN slab' = DOMAIN slab /\ slab'[s] = r
      /\ \A t \in DOMAIN slab \ {s} : slab'[t] = slab[t]
    OBVIOUS
<1>8. ASSUME NEW t \in DOMAIN slab \ lost
      PROVE  OnPartial(t)' \/ OnFree(t)'
    <2>1. CASE t = s
        BY <1>1, <1>2, <1>4, <1>7, <2>1 DEF OnFree
    <2>2. CASE t # s
        <3>1. slab[t].cache # slab[s].cache
            BY <2>2, OtherCache
        <3>2. slab[t].cache \in Caches
            <4>1. Types
                BY DEF SInv
            <4> QED  BY <4>1, SlabFacts
        <3>3. slab'[t] = slab[t] /\ slab[t].cache \in Caches \ {c}
            BY <1>1, <1>7, <2>2, <3>1, <3>2
        <3>4. OnPartial(t) \/ OnFree(t)
            BY DEF SInv, Listed
        <3> QED  BY <1>2, <1>4, <3>3, <3>4 DEF OnPartial, OnFree
    <2> QED  BY <2>1, <2>2
<1>9. ASSUME NEW d \in Caches
      PROVE  \/ partial'[d] = <<>> /\ free'[d] = <<>>
             \/ \E t \in DOMAIN slab' \ lost' : slab'[t].cache = d
    <2>1. CASE d = c
        BY <1>1, <1>5, <1>7, <2>1
    <2>2. CASE d # c
        <3>1. \/ partial[d] = <<>> /\ free[d] = <<>>
              \/ \E t \in DOMAIN slab \ lost : slab[t].cache = d
            BY DEF SInv, Listed
        <3> QED  BY <1>1, <1>2, <1>4, <1>5, <1>7, <2>2, <3>1
    <2> QED  BY <2>1, <2>2
<1>10. Listed'
    BY <1>5, <1>7, <1>8, <1>9 DEF Listed
<1> QED  BY <1>6, <1>10 DEF SInv

\* kfree leaves the last slab of the heap unused: the heap shrinks.
LEMMA FreeTop ==
    ASSUME SInv, NEW o \in live, NEW s \in DOMAIN slab \ lost, OnPartial(s),
           NEW r, BackIn(o, s, r), r.active = 0, move_slab_off_partial(s, r.cache), AtTop(s),
           slab' = [t \in DOMAIN slab \ {s} |-> slab[t]], heap_top' = heap_top - r.pages,
           live' = live \ {o}, UNCHANGED <<free, taken, lost>>
    PROVE  SInv'
<1>1. Types /\ Tiles /\ Handed /\ Listed
    BY DEF SInv
<1>2. PICK c : c = slab[s].cache /\ c = r.cache
    BY DEF BackIn
<1>3. /\ c \in Caches /\ DOMAIN partial' = Caches /\ partial'[c] = <<>>
      /\ \A d \in Caches \ {c} : partial'[d] = partial[d]
    BY <1>2, OffPartial
<1>4. PICK h \in Nat, p \in Nat \ {0} : h = heap_top /\ p = slab[s].pages /\ p = r.pages
    <2>1. heap_top \in Nat /\ slab[s].pages \in Nat \ {0} /\ slab[s].pages = r.pages
        BY <1>1, SlabFacts DEF Types, BackIn
    <2> QED  BY <2>1
<1>5. s \in Nat /\ h = s + p
    <2>1. s \in Nat
        BY <1>1, SlabFacts
    <2>2. s + p <= h
        BY <1>1, <1>4 DEF Tiles
    <2>3. h <= s + p
        BY <1>4 DEF AtTop
    <2> QED  BY <1>4, <2>1, <2>2, <2>3
<1>6. heap_top' = s
    BY <1>4, <1>5
<1>7. DOMAIN slab' = DOMAIN slab \ {s} /\ \A t \in DOMAIN slab \ {s} : slab'[t] = slab[t]
    OBVIOUS
<1>9. lost' = lost /\ lost \subseteq DOMAIN slab'
    BY <1>1, <1>7 DEF Types
<1>10. ASSUME NEW t \in DOMAIN slab \ {s}
       PROVE  /\ t \in 0 .. s - 1 /\ slab[t].pages \in Nat \ {0} /\ t + slab[t].pages <= s
              /\ slab[t].cache \in Caches
    <2>1. t \in Nat /\ slab[t].pages \in Nat \ {0} /\ t + slab[t].pages <= h /\ slab[t].cache \in Caches
        BY <1>1, <1>4, SlabFacts DEF Tiles
    <2>2. PICK q \in Nat \ {0} : q = slab[t].pages
        BY <2>1
    <2>3. s + p <= t \/ t + q <= s
        BY <1>1, <1>4, <2>2 DEF Tiles, Apart
    <2>4. t \in Nat /\ t + q <= s + p
        BY <1>5, <2>1, <2>2
    <2>5. t + q <= s /\ t \in 0 .. s - 1
        <3>1. s \in Nat /\ p \in Nat
            BY <1>4, <1>5
        <3> QED  BY <2>2, <2>3, <2>4, <3>1
    <2> QED  BY <2>1, <2>2, <2>5
<1>11. Types'
    <2>1. ASSUME NEW q \in live'
          PROVE  /\ q \in [slab : DOMAIN slab', id : Nat]
                 /\ q.id < ObjPerSlab(slab'[q.slab].cache)
        <3>1. q \in [slab : DOMAIN slab, id : Nat] /\ q.id < ObjPerSlab(slab[q.slab].cache)
            BY <1>1 DEF Types
        <3>2. q.slab # s
            <4> SUFFICES ASSUME q.slab = s PROVE FALSE
                OBVIOUS
            <4>1. q = Obj(s, q.id)
                BY <3>1 DEF Obj
            <4>2. ObjPerSlab(c) \in Nat
                BY <1>3, CacheFacts
            <4>3. q.id \in 0 .. ObjPerSlab(c) - 1
                BY <1>2, <3>1, <4>2
            <4>4. Whole(s, r, live') /\ r.active = 0
                BY DEF BackIn
            <4>5. q.id < 0
                BY <1>2, <4>1, <4>3, <4>4 DEF Whole
            <4> QED  BY <3>1, <4>5
        <3> QED  BY <1>7, <3>1, <3>2
    <2>2. \A t \in DOMAIN slab' : t \in Nat /\ IsSlab(slab'[t])
        BY <1>1, <1>7 DEF Types
    <2>3. DOMAIN free' = Caches /\ heap_top' \in Nat /\ taken' \in Nat
        BY <1>1, <1>5, <1>6 DEF Types
    <2> QED  BY <1>3, <1>9, <2>1, <2>2, <2>3 DEF Types
<1>12. Tiles'
    <2>1. \A t \in DOMAIN slab' : t + slab'[t].pages <= heap_top'
        BY <1>6, <1>7, <1>10
    <2>2. ASSUME NEW t \in DOMAIN slab', NEW u \in DOMAIN slab', t # u
          PROVE  Apart(t, slab'[t].pages, u, slab'[u].pages)
        BY <1>1, <1>7, <2>2 DEF Tiles
    <2>3. ASSUME NEW v \in 0 .. heap_top' - 1
          PROVE  \E t \in DOMAIN slab' : t <= v /\ v < t + slab'[t].pages
        <3>1. v \in 0 .. heap_top - 1 /\ v < s /\ v \in Nat
            BY <1>4, <1>5, <1>6
        <3>2. PICK t \in DOMAIN slab : t <= v /\ v < t + slab[t].pages
            BY <1>1, <3>1 DEF Tiles
        <3>3. t # s
            BY <1>5, <3>1, <3>2
        <3> QED  BY <1>7, <3>2, <3>3
    <2> QED  BY <2>1, <2>2, <2>3 DEF Tiles
<1>14. Handed'
    <2> SUFFICES ASSUME NEW t \in DOMAIN slab \ {s}
                 PROVE  Whole(t, slab[t], live') \/ (t \in lost /\ Broken(t, slab[t], live'))
        BY <1>7, <1>9 DEF Handed
    <2>1. ObjPerSlab(slab[t].cache) \in Nat
        BY <1>1, SlabFacts
    <2>2. \A i \in Nat : Obj(t, i) \in live <=> Obj(t, i) \in live'
        BY DEF BackIn
    <2> QED  BY <1>1, <2>1, <2>2, OwnObjects DEF Handed
<1>15. Listed'
    <2>1. ASSUME NEW t \in DOMAIN slab' \ lost
          PROVE  OnPartial(t)' \/ OnFree(t)'
        <3>1. t \in DOMAIN slab \ lost /\ t # s /\ slab'[t] = slab[t]
            BY <1>7
        <3>2. slab[t].cache # slab[s].cache
            BY <3>1, OtherCache
        <3>3. slab[t].cache \in Caches \ {c}
            BY <1>2, <1>10, <3>1, <3>2
        <3>4. OnPartial(t) \/ OnFree(t)
            BY <1>1, <3>1 DEF Listed
        <3> QED  BY <1>3, <3>1, <3>3, <3>4 DEF OnPartial, OnFree
    <2>2. ASSUME NEW d \in Caches
          PROVE  \/ partial'[d] = <<>> /\ free'[d] = <<>>
                 \/ \E t \in DOMAIN slab' \ lost' : slab'[t].cache = d
        <3>1. CASE d = c
            BY <1>2, <1>3, <3>1 DEF OnPartial
        <3>2. CASE d # c
            <4>1. \/ partial[d] = <<>> /\ free[d] = <<>>
                  \/ \E t \in DOMAIN slab \ lost : slab[t].cache = d
                BY <1>1 DEF Listed
            <4> QED  BY <1>2, <1>3, <1>7, <1>9, <3>2, <4>1
        <3> QED  BY <3>1, <3>2
    <2> QED  BY <1>9, <2>1, <2>2 DEF Listed
<1> QED  BY <1>11, <1>12, <1>14, <1>15 DEF SInv

LEMMA FreeFoundStep ==
    ASSUME SInv, NEW o \in live, FreeFound(o)
    PROVE  SInv'
<1>1. PICK s \in Finders(o) :
          LET c == slab[s].cache
              r == FreeObj(s, (ObjAddr(o.slab, o.id) - ObjBase(s)) \div CacheSizes[c])
          IN  /\ move_slab_off_partial(s, c)
              /\ IF r.active = 0
                 THEN move_slab_to_free(s, c, r) /\ UNCHANGED lost
                 ELSE /\ slab' = [slab EXCEPT ![s] = r]
                      /\ lost' = lost \cup {s}
                      /\ UNCHANGED <<free, heap_top>>
              /\ live' = live \ {o}
              /\ UNCHANGED <<taken, stop>>
    BY DEF FreeFound
<1>2. (ObjAddr(o.slab, o.id) - ObjBase(s)) \div CacheSizes[slab[s].cache] = o.id
    <2>1. Types /\ Tiles
        BY DEF SInv
    <2> QED  BY <2>1, FinderIs
<1>3. PICK r : r = FreeObj(s, o.id)
    OBVIOUS
<1>4. s \in DOMAIN slab \ lost /\ OnPartial(s) /\ BackIn(o, s, r) /\ r.cache = slab[s].cache
    BY <1>3, FinderListed, TakeBack DEF BackIn
<1>5. /\ move_slab_off_partial(s, r.cache) /\ live' = live \ {o} /\ UNCHANGED taken
      /\ r.active = 0 => move_slab_to_free(s, r.cache, r) /\ UNCHANGED lost
      /\ r.active # 0 => /\ slab' = [slab EXCEPT ![s] = r]
                         /\ lost' = lost \cup {s}
                         /\ UNCHANGED <<free, heap_top>>
    BY <1>1, <1>2, <1>3, <1>4
<1>6. CASE r.active # 0
    BY <1>4, <1>5, <1>6, FreeSome
<1>7. CASE r.active = 0 /\ AtTop(s)
    <2>1. /\ slab' = [t \in DOMAIN slab \ {s} |-> slab[t]] /\ heap_top' = heap_top - r.pages
          /\ UNCHANGED free
        BY <1>5, <1>7 DEF move_slab_to_free
    <2> QED  BY <1>4, <1>5, <1>7, <2>1, FreeTop
<1>8. CASE r.active = 0 /\ ~AtTop(s)
    <2>1. /\ slab' = [slab EXCEPT ![s] = r] /\ free' = [free EXCEPT ![r.cache] = Append(@, s)]
          /\ UNCHANGED heap_top
        BY <1>5, <1>8 DEF move_slab_to_free
    <2> QED  BY <1>4, <1>5, <1>8, <2>1, FreeLast
<1> QED  BY <1>6, <1>7, <1>8

(***************************************************************************)
(* The invariant                                                           *)
(***************************************************************************)
LEMMA SInvInit == ASSUME Init PROVE SInv
<1>1. /\ DOMAIN slab = {} /\ heap_top = 0 /\ taken = 0 /\ live = {} /\ lost = {}
      /\ partial = [c \in Caches |-> <<>>] /\ free = [c \in Caches |-> <<>>]
    BY DEF Init
<1>2. 0 .. heap_top - 1 = {}
    BY <1>1
<1>3. Types
    BY <1>1, <1>2 DEF Types
<1>4. Tiles /\ Handed
    BY <1>1, <1>2 DEF Tiles, Handed
<1>5. Listed
    BY <1>1 DEF Listed
<1> QED  BY <1>3, <1>4, <1>5 DEF SInv

LEMMA SInvNext == ASSUME SInv, [Next]_vars PROVE SInv'
<1>1. CASE UNCHANGED vars
    BY <1>1 DEF vars, SInv, Types, Tiles, Handed, Listed, OnPartial, OnFree
<1>2. ASSUME NEW n \in Requests, kmalloc(n) PROVE SInv'
    <2>1. CASE NoCache(n)
        BY <2>1, StopStep DEF NoCache
    <2>2. CASE FromPartial(n)
        BY <2>2, FromPartialStep
    <2>3. CASE FullPartial(n)
        BY <2>3, FullPartialStep
    <2>4. CASE FromFree(n)
        BY <2>4, FromFreeStep
    <2>5. CASE FromBuddy(n)
        BY <2>5, FromBuddyStep
    <2> QED  BY <1>2, <2>1, <2>2, <2>3, <2>4, <2>5 DEF kmalloc
<1>3. ASSUME NEW o \in live, kfree(o) PROVE SInv'
    <2>1. CASE FreeFound(o)
        BY <2>1, FreeFoundStep
    <2>2. CASE FreeLost(o)
        BY <2>2, StopStep DEF FreeLost
    <2> QED  BY <1>3, <2>1, <2>2 DEF kfree
<1> QED  BY <1>1, <1>2, <1>3 DEF Next

LEMMA SInvAlways == Spec => []SInv
BY SInvInit, SInvNext, PTL DEF Spec

(***************************************************************************)
(* What follows                                                            *)
(***************************************************************************)
LEMMA TilesOnce == ASSUME SInv PROVE SlabsTile
<1> SUFFICES ASSUME NEW v \in 0 .. heap_top - 1
             PROVE  Cardinality({s \in DOMAIN slab : v \in s .. s + slab[s].pages - 1}) = 1
    BY DEF SlabsTile
<1>1. Types /\ Tiles
    BY DEF SInv
<1>2. PICK s \in DOMAIN slab : s <= v /\ v < s + slab[s].pages
    BY <1>1 DEF Tiles
<1>3. v \in Nat
    BY <1>1 DEF Types
<1>4. ASSUME NEW t \in DOMAIN slab
      PROVE  v \in t .. t + slab[t].pages - 1 <=> t = s
    <2>1. PICK p, q : p = slab[s].pages /\ q = slab[t].pages
        OBVIOUS
    <2>2. s \in Nat /\ t \in Nat /\ p \in Nat /\ q \in Nat /\ s <= v /\ v < s + p
        BY <1>1, <1>2, <2>1, SlabFacts
    <2>3. t # s => s + p <= t \/ t + q <= s
        BY <1>1, <2>1 DEF Tiles, Apart
    <2>4. t = s => p = q
        BY <2>1
    <2>5. v \in t .. t + q - 1 <=> t <= v /\ v < t + q
        BY <1>3, <2>2
    <2>6. v \in t .. t + q - 1 <=> t = s
        BY <1>3, <2>2, <2>3, <2>4, <2>5
    <2> QED  BY <2>1, <2>6
<1>5. {t \in DOMAIN slab : v \in t .. t + slab[t].pages - 1} = {s}
    BY <1>4
<1> QED  BY <1>5, FS_Singleton

\* Where a byte of an object in use is.
LEMMA ByteIn ==
    ASSUME Types, NEW o \in live, NEW x \in Bytes(o)
    PROVE  /\ x \in Nat /\ o.slab \in DOMAIN slab /\ o.id \in Nat
           /\ ObjBase(o.slab) <= x /\ o.slab * PGSIZE <= x
           /\ x < PGSIZE * (o.slab + slab[o.slab].pages)
           /\ ObjAddr(o.slab, o.id) <= x
           /\ x < ObjAddr(o.slab, o.id) + CacheSizes[slab[o.slab].cache]
<1>1. o.slab \in DOMAIN slab /\ o.id \in Nat /\ o.id < ObjPerSlab(slab[o.slab].cache)
    BY DEF Types
<1>2. PICK a, z, b, e, g : /\ a = ObjAddr(o.slab, o.id) /\ z = CacheSizes[slab[o.slab].cache]
                           /\ b = ObjBase(o.slab) /\ e = PGSIZE * (o.slab + slab[o.slab].pages)
                           /\ g = o.slab * PGSIZE
    OBVIOUS
<1>3. a \in Nat /\ b <= a /\ a + z <= e
    BY <1>1, <1>2, ObjPlace
<1>4. z \in Nat /\ b \in Nat /\ g \in Nat /\ g <= b
    BY <1>1, <1>2, SlabFacts
<1>5. e \in Nat
    BY <1>1, <1>2, SlabFacts
<1>6. x \in a .. a + z - 1
    BY <1>2 DEF Bytes
<1>7. x \in Nat /\ a <= x /\ x < a + z /\ b <= x /\ g <= x /\ x < e
    BY <1>3, <1>4, <1>5, <1>6
<1> QED  BY <1>1, <1>2, <1>7

LEMMA BytesApart == ASSUME SInv PROVE LiveDisjoint
<1>1. Types /\ Tiles
    BY DEF SInv
<1>2. ASSUME NEW o \in live, NEW p \in live, o # p, NEW x \in Bytes(o), x \in Bytes(p)
      PROVE  FALSE
    <2>1. /\ x \in Nat /\ o.slab \in DOMAIN slab /\ o.id \in Nat
          /\ o.slab * PGSIZE <= x /\ x < PGSIZE * (o.slab + slab[o.slab].pages)
          /\ ObjAddr(o.slab, o.id) <= x
          /\ x < ObjAddr(o.slab, o.id) + CacheSizes[slab[o.slab].cache]
        BY <1>1, ByteIn
    <2>2. /\ p.slab \in DOMAIN slab /\ p.id \in Nat
          /\ p.slab * PGSIZE <= x /\ x < PGSIZE * (p.slab + slab[p.slab].pages)
          /\ ObjAddr(p.slab, p.id) <= x
          /\ x < ObjAddr(p.slab, p.id) + CacheSizes[slab[p.slab].cache]
        BY <1>1, <1>2, ByteIn
    <2>3. PICK s \in DOMAIN slab : s = o.slab /\ s = p.slab
        BY <1>1, <2>1, <2>2, SameSlab
    <2>4. PICK i \in Nat, j \in Nat : i = o.id /\ j = p.id
        BY <2>1, <2>2
    <2>5. i # j
        <3>1. o \in [slab : DOMAIN slab, id : Nat] /\ p \in [slab : DOMAIN slab, id : Nat]
            BY <1>1 DEF Types
        <3>2. o = Obj(o.slab, o.id) /\ p = Obj(p.slab, p.id)
            BY <3>1 DEF Obj
        <3> QED  BY <1>2, <2>3, <2>4, <3>2
    <2>6. PICK z, b : z = CacheSizes[slab[s].cache] /\ b = ObjBase(s)
        OBVIOUS
    <2>7. z \in Nat /\ b \in Nat
        BY <1>1, <2>6, SlabFacts
    <2>8. ObjAddr(s, i) = b + z * i /\ ObjAddr(s, j) = b + z * j
        BY <2>6 DEF ObjAddr
    <2>9. b + z * i <= x /\ x < b + z * i + z /\ b + z * j <= x /\ x < b + z * j + z
        BY <2>1, <2>2, <2>3, <2>4, <2>6, <2>8
    <2>10. z * i \in Nat /\ z * j \in Nat /\ z * (i + 1) = z * i + z /\ z * (j + 1) = z * j + z
        BY <2>7
    <2>11. CASE i < j
        <3>1. z * (i + 1) <= z * j
            BY <2>7, <2>11, MulMono
        <3> QED  BY <2>1, <2>7, <2>9, <2>10, <3>1
    <2>12. CASE j < i
        <3>1. z * (j + 1) <= z * i
            BY <2>7, <2>12, MulMono
        <3> QED  BY <2>1, <2>7, <2>9, <2>10, <3>1
    <2> QED  BY <2>5, <2>11, <2>12
<1>3. ASSUME NEW o \in live, NEW x \in Bytes(o)
      PROVE  x < heap_top * PGSIZE
    <2>1. x \in Nat /\ o.slab \in DOMAIN slab /\ x < PGSIZE * (o.slab + slab[o.slab].pages)
        BY <1>1, ByteIn
    <2>2. PICK e \in Nat : e = o.slab + slab[o.slab].pages /\ e <= heap_top
        <3>1. o.slab \in Nat /\ slab[o.slab].pages \in Nat
            BY <1>1, <2>1, SlabFacts
        <3>2. o.slab + slab[o.slab].pages <= heap_top
            BY <1>1, <2>1 DEF Tiles
        <3> QED  BY <3>1, <3>2
    <2>3. PICK G \in Nat, h \in Nat : G = PGSIZE /\ h = heap_top
        BY <1>1, SlabAssumption DEF Types
    <2>4. G * e <= G * h /\ G * h = h * G /\ G * e \in Nat /\ G * h \in Nat
        BY <2>2, <2>3, MulMono
    <2>5. x < G * e
        BY <2>1, <2>2, <2>3
    <2>6. x < h * G
        BY <2>1, <2>4, <2>5
    <2> QED  BY <2>3, <2>6
<1>4. ASSUME NEW o \in live, NEW s \in DOMAIN slab, NEW x \in Bytes(o),
             x \in s * PGSIZE .. ObjBase(s) - 1
      PROVE  FALSE
    <2>1. /\ x \in Nat /\ o.slab \in DOMAIN slab /\ ObjBase(o.slab) <= x
          /\ o.slab * PGSIZE <= x /\ x < PGSIZE * (o.slab + slab[o.slab].pages)
        BY <1>1, ByteIn
    <2>2. PICK g, b, e, m : /\ g = s * PGSIZE /\ b = ObjBase(s) /\ e = PGSIZE * (s + slab[s].pages)
                            /\ m = CacheSizes[slab[s].cache] * ObjPerSlab(slab[s].cache)
        OBVIOUS
    <2>3. g \in Nat /\ b \in Nat /\ m \in Nat /\ b + m <= e
        BY <1>1, <2>2, SlabFacts
    <2>4. e \in Nat
        BY <1>1, <2>2, SlabFacts
    <2>5. x \in g .. b - 1
        BY <1>4, <2>2
    <2>6. g <= x /\ x < b /\ x < e
        BY <2>1, <2>3, <2>4, <2>5
    <2>7. s = o.slab
        BY <1>1, <2>1, <2>2, <2>6, SameSlab
    <2> QED  BY <2>1, <2>2, <2>3, <2>6, <2>7
<1> QED  BY <1>2, <1>3, <1>4 DEF LiveDisjoint

\* The part rest of the free list of r, which is at s, is what is not in use.
ExactAt(s, r, rest) ==
    /\ {r.free_list[k] : k \in rest} = DOMAIN r.free_list \ {o.id : o \in {p \in live : p.slab = s}}
    /\ \A k, m \in rest : r.free_list[k] = r.free_list[m] => k = m

LEMMA RestExact == ASSUME SInv PROVE FreeListExact
<1>1. Types /\ Handed
    BY DEF SInv
<1> SUFFICES ASSUME NEW s \in DOMAIN slab
             PROVE  ExactAt(s, slab[s], {k \in DOMAIN slab[s].free_list : k >= slab[s].active})
    BY DEF FreeListExact, ExactAt
<1>9. PICK r, rest : r = slab[s] /\ rest = {k \in DOMAIN r.free_list : k >= r.active}
    OBVIOUS
<1>2. PICK n \in Nat : n = ObjPerSlab(r.cache)
    BY <1>1, <1>9, SlabFacts
<1>3. r.active \in Nat /\ DOMAIN r.free_list = 0 .. n - 1
    BY <1>1, <1>2, <1>9, SlabFacts DEF IsSlab
<1>4. PICK D : D = 0 .. n - 1 /\ D = DOMAIN r.free_list
    BY <1>3
<1>5. PICK ids : ids = {o.id : o \in {p \in live : p.slab = s}}
    OBVIOUS
<1>6. \A i \in D : i \in ids <=> Obj(s, i) \in live
    <2>1. ASSUME NEW i \in D, i \in ids PROVE Obj(s, i) \in live
        <3>1. PICK o \in live : o.slab = s /\ o.id = i
            BY <1>5, <2>1
        <3>2. o \in [slab : DOMAIN slab, id : Nat]
            BY <1>1 DEF Types
        <3>3. o = Obj(s, i)
            BY <3>1, <3>2 DEF Obj
        <3> QED  BY <3>1, <3>3
    <2>2. ASSUME NEW i \in D, Obj(s, i) \in live PROVE i \in ids
        <3>1. Obj(s, i).slab = s /\ Obj(s, i).id = i
            BY DEF Obj
        <3> QED  BY <1>5, <2>2, <3>1
    <2> QED  BY <2>1, <2>2
<1>7. ASSUME Whole(s, r, live) PROVE ExactAt(s, r, rest)
    <2>1. \A i \in D : r.free_list[i] = i /\ (i \in ids <=> i < r.active)
        BY <1>2, <1>4, <1>6, <1>7 DEF Whole
    <2>2. \A i \in D : i \in rest <=> ~(i < r.active)
        BY <1>3, <1>4, <1>9
    <2>3. rest = D \ ids /\ \A i \in rest : r.free_list[i] = i
        BY <1>4, <1>9, <2>1, <2>2
    <2> QED  BY <1>4, <1>5, <2>3 DEF ExactAt
<1>8. ASSUME Broken(s, r, live) PROVE ExactAt(s, r, rest)
    <2>1. PICK a \in D, y \in D :
              /\ a = r.active /\ y = r.free_list[a] /\ y <= a
              /\ \A i \in D : /\ i # a => r.free_list[i] = i
                              /\ i \in ids <=> i <= a /\ i # y
        <3>1. Broken(s, r, live)
            BY <1>8
        <3>2. r.active \in D /\ r.free_list[r.active] <= r.active
            BY <1>2, <1>3, <1>4, <3>1 DEF Broken
        <3>3. r.free_list[r.active] \in D
            <4>1. r.free_list \in [0 .. n - 1 -> Nat]
                BY <1>1, <1>2, <1>9, SlabFacts DEF IsSlab
            <4>2. r.free_list[r.active] \in Nat
                BY <1>4, <3>2, <4>1
            <4> QED  BY <1>2, <1>4, <3>2, <4>2
        <3> QED  BY <1>2, <1>4, <1>6, <3>1, <3>2, <3>3 DEF Broken
    <2>2. \A i \in D : i \in rest <=> i = a \/ (i # a /\ ~(i <= a))
        <3>1. \A i \in D : i >= a <=> i = a \/ (i # a /\ ~(i <= a))
            BY <1>2, <1>4, <2>1
        <3> QED  BY <1>4, <1>9, <2>1, <3>1
    <2>3. \A i \in D : i \notin ids <=> i = y \/ (i # a /\ ~(i <= a))
        <3>1. \A i \in D : i # y => (~(i <= a) <=> i # a /\ ~(i <= a))
            BY <1>2, <1>4, <2>1
        <3>2. ~(y \in ids)
            BY <2>1
        <3> QED  BY <2>1, <3>1, <3>2
    <2>4. rest \subseteq D
        BY <1>4, <1>9
    <2>5. {r.free_list[k] : k \in rest} = D \ ids
        <3>1. ASSUME NEW k \in rest PROVE r.free_list[k] \in D \ ids
            BY <2>1, <2>2, <2>3, <2>4
        <3>2. ASSUME NEW i \in D \ ids PROVE \E k \in rest : r.free_list[k] = i
            BY <2>1, <2>2, <2>3
        <3> QED  BY <3>1, <3>2
    <2>6. ASSUME NEW k \in rest, NEW m \in rest, r.free_list[k] = r.free_list[m] PROVE k = m
        <3>1. k \in D /\ m \in D /\ (k = a \/ ~(k <= a)) /\ (m = a \/ ~(m <= a))
            BY <2>2, <2>4
        <3> QED  BY <2>1, <2>6, <3>1
    <2> QED  BY <1>4, <1>5, <2>5, <2>6 DEF ExactAt
<1>10. Whole(s, r, live) \/ Broken(s, r, live)
    BY <1>1, <1>9 DEF Handed
<1> QED  BY <1>7, <1>8, <1>9, <1>10

LEMMA ListsHold == ASSUME SInv PROVE LiveListed
<1>1. Types /\ Tiles /\ Handed /\ Listed
    BY DEF SInv
<1>2. ASSUME NEW c \in Caches PROVE Len(partial[c]) + Len(free[c]) <= 1
    <2>1. CASE partial[c] = <<>> /\ free[c] = <<>>
        <3>1. Len(<<>>) = 0
            OBVIOUS
        <3> QED  BY <2>1, <3>1
    <2>2. CASE partial[c] # <<>> \/ free[c] # <<>>
        <3>1. PICK s \in DOMAIN slab \ lost : slab[s].cache = c /\ (OnPartial(s) \/ OnFree(s))
            BY <2>2, TheSlab
        <3>2. \/ partial[c] = <<s>> /\ free[c] = <<>>
              \/ partial[c] = <<>> /\ free[c] = <<s>>
            BY <3>1 DEF OnPartial, OnFree
        <3>3. Len(<<s>>) = 1 /\ Len(<<>>) = 0
            OBVIOUS
        <3>4. \/ Len(partial[c]) = 1 /\ Len(free[c]) = 0
              \/ Len(partial[c]) = 0 /\ Len(free[c]) = 1
            BY <3>2, <3>3, Zenon
        <3>5. PICK m, n : m = Len(partial[c]) /\ n = Len(free[c])
            OBVIOUS
        <3>6. (m = 1 /\ n = 0) \/ (m = 0 /\ n = 1)
            BY <3>4, <3>5, Zenon
        <3>7. m + n <= 1
            BY <3>6
        <3> QED  BY <3>5, <3>7, Zenon
    <2> QED  BY <2>1, <2>2
<1>3. ASSUME NEW o \in live, o.slab \notin lost
      PROVE  Contains(partial[slab[o.slab].cache], o.slab)
    <2>1. PICK s : s = o.slab
        OBVIOUS
    <2>2. o \in [slab : DOMAIN slab, id : Nat] /\ o.id < ObjPerSlab(slab[s].cache)
        BY <1>1, <2>1 DEF Types
    <2>3. o = Obj(s, o.id) /\ s \in DOMAIN slab \ lost
        BY <1>3, <2>1, <2>2 DEF Obj
    <2>4. slab[s].active # 0
        <3>1. ObjPerSlab(slab[s].cache) \in Nat /\ slab[s].active \in Nat
            BY <1>1, <2>3, SlabFacts
        <3>2. o.id \in 0 .. ObjPerSlab(slab[s].cache) - 1
            BY <2>2, <3>1
        <3>3. o.id < slab[s].active
            BY <1>1, <2>3, <3>2 DEF Handed, Whole
        <3> QED  BY <2>2, <3>1, <3>3
    <2>5. partial[slab[s].cache] = <<s>>
        BY <1>1, <2>3, <2>4 DEF Listed, OnPartial, OnFree
    <2>6. 1 \in 1 .. Len(<<s>>) /\ <<s>>[1] = s
        OBVIOUS
    <2> QED  BY <2>1, <2>5, <2>6 DEF Contains
<1>4. ASSUME NEW o \in live, NEW s \in Finders(o) PROVE s = o.slab /\ s \notin lost
    <2>1. s = o.slab
        BY <1>1, FinderIs
    <2> QED  BY <2>1, FinderListed
<1>5. ASSUME NEW o \in live, o.slab \notin lost PROVE o.slab \in Finders(o)
    <2>1. Contains(partial[slab[o.slab].cache], o.slab)
        BY <1>3, <1>5
    <2>2. o.slab \in DOMAIN slab
        BY <1>1 DEF Types
    <2>3. InSlab(ObjAddr(o.slab, o.id), o.slab)
        BY <1>1, OwnSlab
    <2> QED  BY <2>1, <2>2, <2>3 DEF Finders
<1>6. ASSUME NEW o \in live PROVE Finders(o) = {o.slab} \ lost
    BY <1>4, <1>5
<1> QED  BY <1>2, <1>6 DEF LiveListed, OneSlab

(***************************************************************************)
(* The theorems                                                            *)
(***************************************************************************)

\* Every page below heap_top belongs to exactly one slab, however kmalloc
\* raises heap_top and kfree lowers it: apply_slab and move_slab_to_free move
\* it by the pages of one slab, the one at the top.
THEOREM SlabsTileCorrect == Spec => []SlabsTile
BY SInvAlways, TilesOnce, PTL

\* kmalloc never returns memory that is in use: objects share no byte with
\* each other, with a slab_t or with a free list, and lie below heap_top,
\* because the objects that create_boot_cache counts fit into the pages it
\* computes.
THEOREM LiveDisjointCorrect == Spec => []LiveDisjoint
BY SInvAlways, BytesApart, PTL

\* GetObj and FreeObj keep the free list of every slab exact: above active it
\* holds each object that is not in use once and no other.
THEOREM FreeListExactCorrect == Spec => []FreeListExact
BY SInvAlways, RestExact, PTL

\* _free_obj_kmem_cache finds an object in use in its own slab, unless that
\* slab was full when kmalloc was called or kfree has taken another object
\* from it; then kfree panics.  No cache ever has a second slab in its lists.
THEOREM LiveListedCorrect == Spec => []LiveListed
BY SInvAlways, ListsHold, PTL
=============================================================================
