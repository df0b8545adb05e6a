--------------------------- MODULE PageAllocator ---------------------------
(***************************************************************************)
(* The buddy allocator of lib/allocator/page_allocator.c.                  *)
(*                                                                         *)
(* page_array[p].status is the variable status.  The intrusive LIFO        *)
(* free_list[l] is the set free[l]: which of several blocks of one level   *)
(* free_list_pop returns is left open, because no promise depends on it.   *)
(* The loops of memory_reserve, page_alloc and page_free take one step per *)
(* iteration; pc names the loop the processor is in.  One caller at a      *)
(* time: the code has no lock and is called so, except from interrupts     *)
(* (see the README).                                                       *)
(***************************************************************************)
EXTENDS Integers, Sequences

CONSTANTS MaxOrder,   \* BLOCK_MAX_ORDER, 8 in the code
          TopBlocks,  \* TOTAL_PAGE / 2^MaxOrder, 960 in the code
          PageSize,   \* PAGE_SIZE
          SizeBits,   \* the width of size_t, 32 in the code
          Sizes,      \* the byte counts callers ask page_alloc for
          Regions     \* the calls init_mem makes to memory_reserve, in order

GROUPED  == -1
OCCUPIED == -2
RESERVED == -3

Order == 0 .. MaxOrder
TotalPage == TopBlocks * 2^MaxOrder
Page == 0 .. TotalPage - 1

\* The first and last page a region touches.
FirstPage(r) == r.start \div PageSize
\* Mutation: the last page of a region that ends inside it is forgotten.
LastPageRoundedDown(r) == (r.start + r.size) \div PageSize - 1

LastPage(r) == (r.start + r.size - 1) \div PageSize
RegionPages(r) == FirstPage(r) .. LastPage(r)

\* page_array[buddy] is read at level MaxOrder too, before the loop stops: the
\* read is inside the array because the memory is an even number of top blocks.
ASSUME SizesAssumption ==
    /\ MaxOrder \in Nat
    /\ TopBlocks \in Nat \ {0}
    /\ TopBlocks % 2 = 0
    /\ PageSize \in Nat \ {0}
    /\ SizeBits \in Nat
    /\ MaxOrder < SizeBits
    /\ 2^MaxOrder * PageSize + PageSize <= 2^SizeBits
    /\ Sizes \subseteq 1 .. 2^SizeBits - 1

\* "target region need to be empty": the regions lie in memory and share no page.
ASSUME RegionsAssumption ==
    /\ Regions \in Seq([start : Nat, size : Nat \ {0}])
    /\ \A i \in DOMAIN Regions : RegionPages(Regions[i]) \subseteq Page
    /\ \A i, j \in DOMAIN Regions :
          i # j => RegionPages(Regions[i]) \cap RegionPages(Regions[j]) = {}

\* What the proofs use of powers of two, which is true of every bound.
ASSUME PowersOfTwo ==
    /\ 2^0 = 1
    /\ \A k \in 0 .. SizeBits : 2^k \in Nat \ {0} /\ 2^(k + 1) = 2 * 2^k
    /\ \A k \in 0 .. SizeBits, j \in 0 .. SizeBits :
          j <= k => /\ 2^j <= 2^k
                    /\ 2^k % 2^j = 0

VARIABLES status,  \* page_array[p].status: a level when free, or a flag
          free,    \* free_list[l], as a set
          pc,      \* the loop the processor is in
          region,  \* which call of init_mem is running
          start,   \* start_idx of memory_reserve
          target,  \* target / parent / target_idx, the block being worked on
          level,   \* curr_order of memory_reserve, level of page_free
          order,   \* sub_block_order, or the order a request needs
          asked    \* size of the running page_alloc, 0 when there is none

vars == <<status, free, pc, region, start, target, level, order, asked>>
-----------------------------------------------------------------------------
\* GET_BUDDY(idx, level), for an idx that is a multiple of 2^level.
GetBuddy(p, l) == IF p % 2^(l + 1) = 0 THEN p + 2^l ELSE p - 2^l

\* Mutation: a request for whole pages is given one page too many.
LastPageWithoutDecrement(size) ==
    ((size + PageSize - 1) % 2^SizeBits) \div PageSize

\* calculate_order(size) = o, in arithmetic modulo 2^SizeBits.
LastPageOfRequest(size) ==
    (((size + PageSize - 1) % 2^SizeBits) \div PageSize - 1) % 2^SizeBits

CalculateOrder(size, o) ==
    /\ LastPageOfRequest(size) < 2^o
    /\ o > 0 => 2^(o - 1) <= LastPageOfRequest(size)

\* Mutation: a chunk need not be aligned.
SegmentUnaligned(first, count, o) ==
    /\ 2^o <= count
    /\ \A l \in o + 1 .. MaxOrder : ~ 2^l <= count

\* Mutation: a chunk must be shorter than what is left; for one page the search
\* over the orders does not end.
SegmentStrict(first, count, o) ==
    /\ first % 2^o = 0 /\ 2^o < count
    /\ \A l \in o + 1 .. MaxOrder : ~ (first % 2^l = 0 /\ 2^l < count)

\* segment_block_seq(first, count) = o
SegmentBlockSeq(first, count, o) ==
    /\ first % 2^o = 0 /\ 2^o <= count
    /\ \A l \in o + 1 .. MaxOrder : ~ (first % 2^l = 0 /\ 2^l <= count)

\* "while(status == PAGE_GROUPED) parent &= (parent - 1)", from page p.
Ancestor(p, q) == \E l \in Order : q = p - (p % 2^l)
ParentOf(p, q) ==
    /\ Ancestor(p, q) /\ status[q] # GROUPED
    /\ \A r \in q + 1 .. p : Ancestor(p, r) => status[r] = GROUPED

\* Mutation: only the status of the page itself is looked at.
IsAllocatedUnwalked(p) == status[p] = OCCUPIED

\* is_allocated(p)
IsAllocated(p) == \E q \in 0 .. p : ParentOf(p, q) /\ status[q] = OCCUPIED

\* Mutation: a buddy that is free on another level is merged.
MergeableOnAnyLevel(buddy, l) == status[buddy] >= 0 \/ status[buddy] = GROUPED

\* Mutation: a free buddy is taken for a busy one.
MergeableWhenGrouped(buddy, l) == status[buddy] = GROUPED

\* Mutation: merging goes on above the highest level.
StopsWithoutBound(buddy, l) == ~ (status[buddy] = l \/ status[buddy] = GROUPED)

\* BUDDY_MERGEABLE, and the condition on which page_free stops merging.
Mergeable(buddy, l) == status[buddy] = l \/ status[buddy] = GROUPED

Stops(buddy, l) == ~ Mergeable(buddy, l) \/ l = MaxOrder

\* Mutation: the block is left in its list.
RemoveForgotten(fl, p, l) == fl

\* free_list_insert and free_list_remove; a level below 0 is ignored.
Insert(fl, p, l) == [fl EXCEPT ![l] = @ \cup {p}]
Remove(fl, p, l) == [fl EXCEPT ![l] = @ \ {p}]

\* A call returns: its local variables are gone.
Return ==
    /\ pc' = "idle"
    /\ target' = 0
    /\ level' = 0
    /\ order' = 0
    /\ asked' = 0
-----------------------------------------------------------------------------
\* init_page_array, then the first memory_reserve of init_mem
Init ==
    /\ status = [p \in Page |-> IF p % 2^MaxOrder = 0 THEN MaxOrder ELSE GROUPED]
    /\ free = [l \in Order |-> IF l = MaxOrder
                               THEN {p \in Page : p % 2^MaxOrder = 0} ELSE {}]
    /\ pc = IF Regions = <<>> THEN "idle" ELSE "reserve"
    /\ region = 1
    /\ start = IF Regions = <<>> THEN 0 ELSE FirstPage(Regions[1])
    /\ target = 0
    /\ level = 0
    /\ order = 0
    /\ asked = 0

\* One turn of memory_reserve's while: find the block that holds start.
ReserveChunk ==
    /\ pc = "reserve"
    /\ start <= LastPage(Regions[region])
    /\ \E o \in Order, q \in 0 .. start :
          /\ SegmentBlockSeq(start, LastPage(Regions[region]) - start + 1, o)
          /\ ParentOf(start, q)
          /\ order' = o
          /\ target' = q
          /\ level' = status[q]
    /\ pc' = "carve"
    /\ UNCHANGED <<status, free, region, start, asked>>

\* One turn of its for: halve the block, keep the half that holds start.
CarveSplit ==
    /\ pc = "carve"
    /\ level > order
    /\ LET l == level - 1
           buddy == GetBuddy(target, l)
           kept == IF buddy <= start THEN buddy ELSE target
           given == IF buddy <= start THEN target ELSE buddy
       IN /\ target' = kept
          /\ level' = l
          /\ status' = [status EXCEPT ![given] = l]
          /\ free' = Insert(Remove(free, target, level), given, l)
    /\ UNCHANGED <<pc, region, start, order, asked>>

\* The end of the turn: the block at start is reserved, start moves past it.
CarveDone ==
    /\ pc = "carve"
    /\ level <= order
    /\ status' = [status EXCEPT ![start] = RESERVED]
    /\ free' = Remove(free, start, order)
    /\ start' = start + 2^order
    /\ pc' = "reserve"
    /\ target' = 0
    /\ level' = 0
    /\ order' = 0
    /\ UNCHANGED <<region, asked>>

\* memory_reserve returns; init_mem calls it for the next region, if any.
NextRegion ==
    /\ pc = "reserve"
    /\ start > LastPage(Regions[region])
    /\ IF region < Len(Regions)
       THEN /\ region' = region + 1
            /\ start' = FirstPage(Regions[region + 1])
            /\ pc' = pc
       ELSE /\ pc' = "idle"
            /\ UNCHANGED <<region, start>>
    /\ UNCHANGED <<status, free, target, level, order, asked>>
-----------------------------------------------------------------------------
\* page_alloc(size) is entered.
PageAlloc(size) ==
    /\ pc = "idle"
    /\ \E o \in 0 .. SizeBits : CalculateOrder(size, o) /\ order' = o
    /\ asked' = size
    /\ pc' = "search"
    /\ UNCHANGED <<status, free, region, start, target, level>>

\* Its search finds a block on the lowest level that has one ...
Pop ==
    /\ pc = "search"
    /\ \E l \in order .. MaxOrder :
          /\ \A m \in order .. l - 1 : free[m] = {}
          /\ \E p \in free[l] :
                /\ target' = p
                /\ free' = Remove(free, p, l)
    /\ pc' = "split"
    /\ UNCHANGED <<status, region, start, level, order, asked>>

\* ... or finds none, and page_alloc returns NULL.
Refuse ==
    /\ pc = "search"
    /\ \A l \in order .. MaxOrder : free[l] = {}
    /\ Return
    /\ UNCHANGED <<status, free, region, start>>

\* One turn of "while(target->status > order)".
Split ==
    /\ pc = "split"
    /\ status[target] > order
    /\ LET l == status[target] - 1
           buddy == GetBuddy(target, l)
       IN /\ status' = [status EXCEPT ![target] = l, ![buddy] = l]
          /\ free' = Insert(free, buddy, l)
    /\ UNCHANGED <<pc, region, start, target, level, order, asked>>

\* page_alloc returns the address of target.
Occupy ==
    /\ pc = "split"
    /\ status[target] <= order
    /\ status' = [status EXCEPT ![target] = OCCUPIED]
    /\ Return
    /\ UNCHANGED <<free, region, start>>
-----------------------------------------------------------------------------
\* Mutation: page_free does not check what it is given.
PageFreeUnchecked(p) ==
    /\ pc = "idle"
    /\ status[p] # RESERVED
    /\ target' = p
    /\ level' = 0
    /\ pc' = "merge"
    /\ UNCHANGED <<status, free, region, start, order, asked>>

\* page_free of page p; it returns at once for a page that is not OCCUPIED.
PageFree(p) ==
    /\ pc = "idle"
    /\ status[p] = OCCUPIED
    /\ target' = p
    /\ level' = 0
    /\ pc' = "merge"
    /\ UNCHANGED <<status, free, region, start, order, asked>>

\* "smaller buddy shouldn't be grouped by others": page_free gives up.
BuddyIsGrouped ==
    LET buddy == GetBuddy(target, level)
    IN buddy < target /\ status[buddy] = GROUPED

\* One turn of page_free's for.
Merge ==
    /\ pc = "merge"
    /\ LET buddy == GetBuddy(target, level)
           low == IF target > buddy THEN buddy ELSE target
           high == IF target > buddy THEN target ELSE buddy
       IN IF BuddyIsGrouped
          THEN Return /\ UNCHANGED <<status, free>>
          ELSE IF Stops(buddy, level)
          THEN /\ status' = [status EXCEPT ![target] = level]
               /\ free' = Insert(free, target, level)
               /\ Return
          ELSE /\ free' = IF status[buddy] >= 0
                          THEN Remove(free, buddy, level) ELSE free
               /\ status' = [status EXCEPT ![high] = GROUPED]
               /\ target' = low
               /\ level' = level + 1
               /\ UNCHANGED <<pc, order, asked>>
    /\ UNCHANGED <<region, start>>
-----------------------------------------------------------------------------
\* The steps a running call takes, and the calls.
Run == \/ ReserveChunk \/ CarveSplit \/ CarveDone \/ NextRegion
       \/ Pop \/ Refuse \/ Split \/ Occupy \/ Merge

Call == \/ \E size \in Sizes : PageAlloc(size)
        \/ \E p \in Page : PageFree(p)

Next == Run \/ Call

\* The processor keeps executing the call it is in.
Spec == Init /\ [][Next]_vars /\ WF_vars(Run)
-----------------------------------------------------------------------------
(***************************************************************************)
(* Blocks.  The code stores no length with an allocated or reserved block: *)
(* it is the run of GROUPED pages behind the head that says how long the   *)
(* block is.                                                               *)
(***************************************************************************)
Aligned(p, k) == p % 2^k = 0

\* A page that begins a block.  While memory_reserve halves a block the upper
\* half has no status of its own yet.
Heads == {p \in Page : status[p] # GROUPED \/ (pc = "carve" /\ p = target)}

\* A block of 2^k pages begins at b: the next head is at b + 2^k.
IsBlock(heads, b, k) ==
    /\ Aligned(b, k)
    /\ b + 2^k <= TotalPage
    /\ b \in heads
    /\ \A p \in b + 1 .. b + 2^k - 1 : p \notin heads
    /\ b + 2^k < TotalPage => b + 2^k \in heads

Block(b, k) == IsBlock(Heads, b, k)

\* The blocks that callers own; a block is theirs until page_free is entered.
Held == {blk \in Page \X Order :
            /\ status[blk[1]] = OCCUPIED
            /\ ~ (pc = "merge" /\ blk[1] = target)
            /\ Block(blk[1], blk[2])}

\* The pages that memory_reserve has taken out.
ReservedPages == {p \in Page : \E b \in 0 .. p, k \in Order :
                    status[b] = RESERVED /\ Block(b, k) /\ p < b + 2^k}

\* The block being worked on is in no free list whatever its status says.
InFlight(p) == pc \in {"carve", "split", "merge"} /\ p = target
-----------------------------------------------------------------------------
TypeOK ==
    /\ status \in [Page -> {GROUPED, OCCUPIED, RESERVED} \cup Order]
    /\ free \in [Order -> SUBSET Page]
    /\ pc \in {"reserve", "carve", "idle", "search", "split", "merge"}
    /\ region \in Nat \ {0}
    /\ pc \in {"reserve", "carve"} => region \in DOMAIN Regions
    /\ start \in Nat
    /\ target \in Page
    /\ level \in Order
    /\ order \in 0 .. SizeBits
    /\ asked \in Sizes \cup {0}

\* The free lists and page_array[].status, which the code updates in separate
\* statements, agree: a block is listed on the level its status names, once,
\* and every status that names a level is that of a listed block, except for
\* the block a running call holds.
FreeListsAgree ==
    /\ \A l \in Order, p \in Page : p \in free[l] => status[p] = l
    /\ \A p \in Page : status[p] \in Order => p \in free[status[p]] \/ InFlight(p)

\* The blocks tile the memory: every page lies in one, and every free block is
\* as long as its level says.  It is why page_free may read the length of a
\* block from the GROUPED pages that follow it.
BlocksTile ==
    /\ \A p \in Page : \E b \in 0 .. p, k \in Order : Block(b, k) /\ p < b + 2^k
    /\ \A l \in Order, p \in Page : p \in free[l] => Block(p, l)

\* Free memory is coalesced: no two free buddies stay unmerged, at any moment.
\* memory_reserve needs it to find a block as large as the chunk it carves, and
\* page_alloc's NULL needs it to mean that no run was large enough.
Coalesced ==
    \A l \in Order, p \in Page :
        l < MaxOrder /\ p \in free[l] => GetBuddy(p, l) \notin free[l]

\* page_free's error exit "buddy shouldn't be grouped", which would lose the
\* block being freed, is never taken.
BuddyNeverGrouped == pc = "merge" => ~ BuddyIsGrouped

\* After init_mem every byte of every region is in a reserved page, so no
\* caller is ever given the kernel, the page array, the dtb or the initramfs.
RegionsStayReserved ==
    pc \notin {"reserve", "carve"} =>
        \A i \in DOMAIN Regions :
            \A a \in Regions[i].start .. Regions[i].start + Regions[i].size - 1 :
                a \div PageSize \in ReservedPages

\* is_allocated(p), which kernel frees are dispatched on, answers for any page
\* inside a block, not only for its first.
IsAllocatedIsExact ==
    pc = "idle" =>
        \A p \in Page : IsAllocated(p) <=>
            \E blk \in Held : p \in blk[1] .. blk[1] + 2^blk[2] - 1

\* What holds of the block a running call works on.
SplitInv ==
    pc = "split" =>
        /\ status[target] \in order .. MaxOrder
        /\ Block(target, status[target])
        /\ \A l \in Order : target \notin free[l]

MergeInv ==
    pc = "merge" =>
        /\ \E k \in level .. MaxOrder : Block(target, k)
        /\ \A l \in Order : target \notin free[l]

CarveInv ==
    pc = "carve" =>
        /\ order \in 0 .. level
        /\ Block(target, level)
        /\ start \in target .. target + 2^level - 1
        /\ Aligned(start, order)
        /\ start + 2^order - 1 <= LastPage(Regions[region])
        /\ \A l \in Order : target \in free[l] => l = level

\* "target region need to be empty": the part of the regions that memory_reserve
\* has still to take lies in free blocks.
Unreserved ==
    (start .. LastPage(Regions[region])) \cup
    UNION {RegionPages(Regions[i]) : i \in region + 1 .. Len(Regions)}

InFreeBlock(p) ==
    \E b \in 0 .. p, k \in Order :
        /\ Block(b, k) /\ p < b + 2^k
        /\ b \in free[k] \/ (pc = "carve" /\ b = target)

RegionsInv ==
    pc \in {"reserve", "carve"} =>
        /\ FirstPage(Regions[region]) <= start
        /\ \A p \in Unreserved : InFreeBlock(p)

\* The inductive invariant of the proofs in PageAllocatorProofs.
IInv == /\ TypeOK /\ FreeListsAgree /\ BlocksTile /\ Coalesced
        /\ SplitInv /\ MergeInv /\ CarveInv /\ RegionsInv

\* What callers may have in hand: no block while memory_reserve still runs, and
\* a running call never works on a reserved block.
StatusesInHand ==
    /\ pc \in {"reserve", "carve"} => \A p \in Page : status[p] # OCCUPIED
    /\ pc \in {"carve", "merge"} => status[target] # RESERVED

\* order is what calculate_order made of the size that was asked for.
RequestInHand ==
    IF pc \in {"search", "split"}
    THEN asked \in Sizes /\ CalculateOrder(asked, order)
    ELSE asked = 0

\* The part of the regions that memory_reserve has been over is reserved.
RegionsReserved ==
    IF pc \in {"reserve", "carve"}
    THEN \A i \in 1 .. region : \A p \in RegionPages(Regions[i]) :
            i < region \/ p < start => p \in ReservedPages
    ELSE \A i \in DOMAIN Regions : RegionPages(Regions[i]) \subseteq ReservedPages

\* The inductive invariant of PageAllocatorProofs.
StoreInv == IInv /\ StatusesInHand /\ RequestInHand /\ RegionsReserved

\* The allocator keeps the promise of PageStore: a request is answered by an
\* aligned run of free pages, as short as a power of two can be, or refused
\* only when there is none; a block stays as it is until it is freed.
Store == INSTANCE PageStore WITH held <- Held, reserved <- ReservedPages
Implements == Store!StoreSpec

\* Every call returns: no loop of the three runs forever, whatever the lists
\* and the statuses look like when it starts.
CallsReturn == pc # "idle" ~> pc = "idle"
=============================================================================
