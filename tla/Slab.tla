-------------------------------- MODULE Slab --------------------------------
(***************************************************************************)
(* One pool of the object allocator, lib/allocator/dynamic_allocator.c:    *)
(* slabs of one page, each with a header that counts the free slots and    *)
(* has a bitmap of the taken ones, linked by the ListNode of the header.   *)
(* The pools share nothing but the page allocator, here the set pages of   *)
(* what it can still give, which other clients draw on as well.            *)
(*                                                                         *)
(* A PageHeader is named by its page.  NullPage is address 0: as a pointer *)
(* in memory_pool it means that there is no slab.                          *)
(***************************************************************************)
EXTENDS NodeQueue

CONSTANTS NullPage,   \* address 0, a page reserved at boot
          Pages,      \* the pages the page allocator manages
          IntBits,    \* the width of int, 32 in the code
          Rows,       \* rows of the bitmap that fill_bitmap looks at
          Capacity    \* slots of a slab

\* A row of the bitmap is a uint64_t, twice as wide as an int.
RowBits == 2 * IntBits
Bit == 0 .. Rows * RowBits - 1

ASSUME SlabAssumption ==
    /\ NullPage \notin Pages
    /\ Node = Pages \cup {NullPage}
    /\ QueueName = {}
    /\ IntBits \in Nat \ {0}
    /\ Capacity \in Nat \ {0}
    /\ Rows \in Nat /\ (Rows - 1) * RowBits < Capacity /\ Capacity <= Rows * RowBits

VARIABLES list,    \* the prev and next of every header
          pool,    \* memory_pool[pool_idx]
          avail,   \* PageHeader.avail
          bitmap,  \* PageHeader.bitmap, the set of the bits that are 1
          pages,   \* the pages page_alloc can still give
          live     \* the objects <<page, slot>> callers hold

svars == <<list, pool, avail, bitmap, pages, live>>

\* The slabs in the order find_avail_slab visits them; Nil after the last.
Chain ==
    LET walk[i \in 1 .. Cardinality(Node)] ==
            IF i = 1 THEN pool
            ELSE IF walk[i - 1] = Nil THEN Nil ELSE list.next[walk[i - 1]]
    IN walk

Slabs == IF pool = NullPage THEN {}
         ELSE {Chain[i] : i \in DOMAIN Chain} \ {Nil}

IsFull(s) == avail[s] = 0
-----------------------------------------------------------------------------
\* 1 << b computes in int: bit IntBits - 1 is the sign, which the conversion to
\* uint64_t copies to the upper half of the row, and a larger b shifts by its
\* remainder (undefined in C, what the processor does).
Row(b) == b \div RowBits
Shift(b) == (b % RowBits) % IntBits
Mask(b) == LET first == Row(b) * RowBits + Shift(b)
           IN IF Shift(b) = IntBits - 1
              THEN first .. Row(b) * RowBits + RowBits - 1
              ELSE {first}
\* free_obj clears with ~(1 << b), whose conversion mirrors that of 1 << b.

\* fill_bitmap: the lowest bit that is 0 is picked and set.
Lowest(bits) == CHOOSE b \in bits : \A c \in bits : b <= c

\* Mutation: the bit that was found is not set.
TakeSlotUnmarked(s, av, bm) ==
    LET b == Lowest(Bit \ bm[s])
    IN /\ Bit \ bm[s] # {}
       /\ b < Capacity
       /\ bitmap' = bm
       /\ avail' = [av EXCEPT ![s] = @ - 1]
       /\ live' = live \cup {<<s, b>>}

\* Mutation: avail is not counted down.
TakeSlotUncounted(s, av, bm) ==
    LET b == Lowest(Bit \ bm[s])
    IN /\ Bit \ bm[s] # {}
       /\ b < Capacity
       /\ bitmap' = [bm EXCEPT ![s] = @ \cup Mask(b)]
       /\ avail' = av
       /\ live' = live \cup {<<s, b>>}

\* alloc_obj(s) for headers with the given avail and bitmap.  It returns NULL for
\* a bit beyond the capacity; with no bit left it does so and changes nothing.
TakeSlot(s, av, bm) ==
    LET free == Bit \ bm[s]
        b == Lowest(free)
    IN /\ free # {}
       /\ bitmap' = [bm EXCEPT ![s] = @ \cup Mask(b)]
       /\ IF b < Capacity
          THEN /\ avail' = [av EXCEPT ![s] = @ - 1]
               /\ live' = live \cup {<<s, b>>}
          ELSE /\ avail' = av
               /\ UNCHANGED live

\* page_alloc(PAGE_SIZE), as long as there are pages: its NULL is not checked.
PageAlloc(p) == p \in pages /\ pages' = pages \ {p}

\* Mutation: avail counts one slot that does not exist.
FreshAvailOffByOne(p) == [avail EXCEPT ![p] = Capacity + 1]

\* init_page_header(p)
FreshAvail(p) == [avail EXCEPT ![p] = Capacity]
FreshBitmap(p) == [bitmap EXCEPT ![p] = {}]
-----------------------------------------------------------------------------
\* init_memory_pool
SInit ==
    /\ list = EmptyHeap
    /\ pool = NullPage
    /\ avail = [s \in Node |-> 0]
    /\ bitmap = [s \in Node |-> {}]
    /\ pages = Pages
    /\ live = {}

\* dyna_alloc when the pool has no slab
AllocFirst ==
    /\ pool = NullPage
    /\ \E p \in Pages :
          /\ PageAlloc(p)
          /\ pool' = p
          /\ list' = NodeInit(list, p)
          /\ TakeSlot(p, FreshAvail(p), FreshBitmap(p))

\* dyna_alloc when some slab counts a free slot: the first such slab is used.
AllocFromSlab ==
    /\ pool # NullPage
    /\ \E i \in DOMAIN Chain :
          /\ Chain[i] # Nil /\ ~ IsFull(Chain[i])
          /\ \A j \in 1 .. i - 1 : IsFull(Chain[j])
          /\ TakeSlot(Chain[i], avail, bitmap)
    /\ UNCHANGED <<list, pool, pages>>

\* dyna_alloc when every slab is full: a new slab is linked behind the last.
AllocGrow ==
    /\ pool # NullPage
    /\ \A s \in Slabs : IsFull(s)
    /\ \E last \in Slabs, p \in Pages :
          /\ list.next[last] = Nil
          /\ PageAlloc(p)
          /\ list' = ListAdd(NodeInit(list, p), p, last, Nil)
          /\ TakeSlot(p, FreshAvail(p), FreshBitmap(p))
    /\ UNCHANGED pool

\* is_allocated(address of page p), as dyna_free asks before anything else
IsAllocated(p) == p \in Pages \ pages

\* Mutation: a slab goes back while one of its slots is taken.
GivesBackEarly(s) ==
    /\ avail[s] + 2 >= Capacity
    /\ ~ (list.prev[s] = Nil /\ list.next[s] = Nil)

\* Mutation: a slab at an end of the list is kept.
GivesBackBetween(s) ==
    /\ avail[s] + 1 = Capacity
    /\ list.prev[s] # Nil /\ list.next[s] # Nil

\* The slab becomes empty and has a neighbour: it goes back.
GivesBack(s) ==
    /\ avail[s] + 1 = Capacity
    /\ ~ (list.prev[s] = Nil /\ list.next[s] = Nil)

\* dyna_free of an object its caller holds
Free(s, b) ==
    /\ <<s, b>> \in live
    /\ live' = live \ {<<s, b>>}
    /\ IF ~ IsAllocated(s)
       THEN UNCHANGED <<list, pool, avail, bitmap, pages>>
       ELSE /\ bitmap' = [bitmap EXCEPT ![s] = @ \ Mask(b)]
            /\ avail' = [avail EXCEPT ![s] = @ + 1]
            /\ IF GivesBack(s)
               THEN /\ pool' = IF pool # s THEN pool
                               ELSE IF list.next[s] = Nil THEN NullPage
                               ELSE list.next[s]
                    /\ list' = ListRemove(list, s)
                    /\ pages' = pages \cup {s}
               ELSE UNCHANGED <<list, pool, pages>>

\* Another client of the page allocator takes a page, or gives one back.
OtherTakes(p) == p \in pages /\ pages' = pages \ {p}
OtherGives(p) == p \in Pages \ (pages \cup Slabs) /\ pages' = pages \cup {p}
Others == /\ \E p \in Pages : OtherTakes(p) \/ OtherGives(p)
          /\ UNCHANGED <<list, pool, avail, bitmap, live>>

SNext == \/ AllocFirst \/ AllocFromSlab \/ AllocGrow
         \/ \E s \in Node, b \in Bit : Free(s, b)
         \/ Others

SSpec == SInit /\ [][SNext]_svars
-----------------------------------------------------------------------------
SlabTypeOK ==
    /\ list \in Heap
    /\ pool \in Node
    /\ avail \in [Node -> 0 .. Capacity]
    /\ bitmap \in [Node -> SUBSET Bit]
    /\ pages \subseteq Pages
    /\ live \subseteq Node \X (0 .. Capacity - 1)

LiveIn(s) == {o \in live : o[1] = s}

\* The count that decides whether a slab is used, skipped or given back agrees
\* with what the callers hold.  A slot handed out twice would break it.
AvailIsExact == \A s \in Slabs : avail[s] + Cardinality(LiveIn(s)) = Capacity

\* "empty -> 0, occupied -> 1", for the slots that exist
BitmapIsExact ==
    \A s \in Slabs, b \in 0 .. Capacity - 1 : b \in bitmap[s] <=> <<s, b>> \in live

\* No object outlives its slab: a page goes back only when nobody holds a part
\* of it, and what callers hold is in slabs a later free will find.
LiveIsOwned == \A o \in live : o[1] \in Slabs \ pages

\* An empty slab is kept only when it is the whole pool.
NoIdleSlab == \A s \in Slabs : LiveIn(s) = {} => Slabs = {s}
=============================================================================
