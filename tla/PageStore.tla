----------------------------- MODULE PageStore -----------------------------
(***************************************************************************)
(* What the page allocator promises its callers, with no buddies and no    *)
(* free lists in sight: a set of pages from which aligned blocks of 2^k    *)
(* pages are granted and released, and a set of pages never granted.       *)
(* PageAllocator implements this specification.                            *)
(***************************************************************************)
EXTENDS Integers

CONSTANTS MaxOrder,   \* BLOCK_MAX_ORDER
          TotalPage,  \* TOTAL_PAGE
          PageSize    \* PAGE_SIZE, in bytes

VARIABLES held,      \* the blocks <<b, k>> callers own: 2^k pages from page b
          reserved,  \* the pages taken away at boot
          asked      \* the size a caller is waiting for, 0 when nobody is

storeVars == <<held, reserved, asked>>

Page == 0 .. TotalPage - 1

Pages(b, k) == b .. b + 2^k - 1

AllHeld == UNION {Pages(blk[1], blk[2]) : blk \in held}

\* An aligned run of 2^k pages that belongs to nobody.
FreeRun(b, k) ==
    /\ b % 2^k = 0
    /\ Pages(b, k) \subseteq Page \ (AllHeld \cup reserved)

StoreInit ==
    /\ held = {}
    /\ reserved = {}
    /\ asked = 0

Reserve ==
    /\ asked = 0
    /\ held = {}
    /\ \E b \in Page, k \in 0 .. MaxOrder :
          /\ FreeRun(b, k)
          /\ reserved' = reserved \cup Pages(b, k)
    /\ UNCHANGED <<held, asked>>

Ask ==
    /\ asked = 0
    /\ asked' \in Nat \ {0}
    /\ UNCHANGED <<held, reserved>>

\* The answer is a free run, the smallest power of two that is large enough.
Grant ==
    /\ asked # 0
    /\ \E b \in Page, k \in 0 .. MaxOrder :
          /\ FreeRun(b, k)
          /\ asked <= 2^k * PageSize
          /\ k > 0 => 2^(k - 1) * PageSize < asked
          /\ held' = held \cup {<<b, k>>}
    /\ asked' = 0
    /\ UNCHANGED reserved

\* A request is refused only when no free run could have served it.
Refuse ==
    /\ asked # 0
    /\ \A b \in Page, k \in 0 .. MaxOrder :
          FreeRun(b, k) => 2^k * PageSize < asked
    /\ asked' = 0
    /\ UNCHANGED <<held, reserved>>

Release ==
    /\ asked = 0
    /\ \E blk \in held : held' = held \ {blk}
    /\ UNCHANGED <<reserved, asked>>

StoreNext == Reserve \/ Ask \/ Grant \/ Refuse \/ Release

StoreSpec == StoreInit /\ [][StoreNext]_storeVars
=============================================================================
