----------------------------- MODULE SlabProofs -----------------------------
(***************************************************************************)
(* Counts, bitmaps and callers agree in every slab that is not larger than *)
(* an int has bits, and a page goes back when nobody holds a part of it,   *)
(* for any number of pages, any size of the slabs up to that, and whatever *)
(* other clients of the page allocator do.                                 *)
(***************************************************************************)
EXTENDS Slab, QueueProofs

\* ch[1], ..., ch[m] are the slabs in the order of the list, none of them twice;
\* the two directions of the links agree.
Linked(ch, m) ==
    /\ pool = IF m = 0 THEN NullPage ELSE ch[1]
    /\ \A i \in 1 .. m :
          /\ ch[i] \in Pages \ pages
          /\ list.next[ch[i]] = IF i = m THEN Nil ELSE ch[i + 1]
          /\ list.prev[ch[i]] = IF i = 1 THEN Nil ELSE ch[i - 1]
          /\ \A j \in 1 .. m : ch[i] = ch[j] => i = j

InList(ch, m) == {ch[i] : i \in 1 .. m}

\* What the header of a slab says of its slots.
HeaderAgrees(s) ==
    /\ avail[s] + Cardinality(LiveIn(s)) = Capacity
    /\ \A b \in 0 .. Capacity - 1 : b \in bitmap[s] <=> <<s, b>> \in live

SInv(ch, m) ==
    /\ SlabTypeOK
    /\ m \in Nat
    /\ Linked(ch, m)
    /\ \A s \in InList(ch, m) : HeaderAgrees(s) /\ (LiveIn(s) = {} => m = 1)
    /\ \A o \in live : o[1] \in InList(ch, m)

SlabInv == \E ch, m : SInv(ch, m)
-----------------------------------------------------------------------------
(* The walk of find_avail_slab. *)

\* It meets the slabs of the list in their order, then the end.
LEMMA ChainIs ==
  ASSUME NEW ch, NEW m, SInv(ch, m), m > 0
  PROVE  /\ m \in 1 .. Cardinality(Node) /\ Cardinality(Node) \in Nat
         /\ Chain = [i \in 1 .. Cardinality(Node) |-> IF i <= m THEN ch[i] ELSE Nil]
<1> DEFINE N == Cardinality(Node)
           Walk(g) == [i \in 1 .. N |-> IF i = 1 THEN pool
                                        ELSE IF g[i - 1] = Nil THEN Nil ELSE list.next[g[i - 1]]]
           f == [i \in 1 .. N |-> IF i <= m THEN ch[i] ELSE Nil]
<1>1. IsFiniteSet(Node) /\ N \in Nat /\ Nil \notin Node
  BY QueueAssumption, FS_CardinalityType
<1>2. /\ m \in Nat /\ pool = ch[1]
      /\ \A i \in 1 .. m : /\ ch[i] \in Node
                           /\ list.next[ch[i]] = IF i = m THEN Nil ELSE ch[i + 1]
                           /\ \A j \in 1 .. m : ch[i] = ch[j] => i = j
  BY SlabAssumption DEF SInv, Linked
<1>3. m <= N
  <2> SUFFICES ASSUME N < m PROVE FALSE
    BY <1>1, <1>2
  <2> DEFINE S == 1 .. m
             e == [i \in S |-> ch[i]]
  <2>1. IsFiniteSet(S) /\ N < Cardinality(S)
    BY <1>2, FS_Interval
  <2>2. e \in [S -> Node] /\ \A i, j \in S : e[i] = e[j] => i = j
    BY <1>2
  <2> HIDE DEF S, e
  <2>3. \E x, y \in S : x # y /\ e[x] = e[y]
    BY <2>1, <2>2, <1>1, FS_PigeonHole
  <2> QED BY <2>2, <2>3
<1> HIDE DEF N
<1>4. ASSUME NEW i \in 1 .. N
      PROVE  f[i] = IF i = 1 THEN pool
                    ELSE IF f[i - 1] = Nil THEN Nil ELSE list.next[f[i - 1]]
  <2>1. CASE i = 1
    BY <2>1, <1>2
  <2>2. CASE i # 1 /\ i <= m
    <3>1. i - 1 \in 1 .. m /\ i - 1 # m /\ (i - 1) + 1 = i /\ i - 1 \in 1 .. N
      BY <2>2, <1>2, <1>3, <1>1
    <3> QED BY <3>1, <2>2, <1>1, <1>2
  <2>3. CASE i # 1 /\ ~ (i <= m)
    <3>1. i - 1 \in 1 .. N
      BY <2>3, <1>1
    <3>2. f[i] = Nil /\ f[i - 1] = IF i - 1 <= m THEN ch[i - 1] ELSE Nil
      BY <2>3, <3>1
    <3>3. i - 1 <= m => i - 1 = m /\ m \in 1 .. m
      BY <2>3, <1>2
    <3> QED BY <2>3, <3>2, <3>3, <1>1, <1>2
  <2> QED BY <2>1, <2>2, <2>3
<1>5. f = Walk(f)
  BY <1>4
<1>6. ASSUME NEW g, g = Walk(g) PROVE g = f
  <2>1. \A i \in 1 .. N : g[i] = IF i = 1 THEN pool
                    ELSE IF g[i - 1] = Nil THEN Nil ELSE list.next[g[i - 1]]
    BY <1>6
  <2> DEFINE Bad == {i \in 1 .. N : g[i] # f[i]}
  <2>2. Bad = {}
    <3> SUFFICES ASSUME NEW x \in Bad PROVE FALSE
      OBVIOUS
    <3>1. Bad \in SUBSET Nat
      BY <1>1
    <3>2. PICK i \in Bad : \A j \in Bad : i <= j
      <4> HIDE DEF Bad
      <4> QED BY <3>1, MinimumExists
    <3> HIDE DEF f
    <3>3. i # 1
      BY <2>1, <1>4
    <3>4. i - 1 \in 1 .. N /\ i - 1 \notin Bad
      BY <3>2, <3>3, <1>1
    <3>5. g[i - 1] = f[i - 1]
      BY <3>4
    <3> QED BY <3>3, <3>5, <2>1, <1>4
  <2>3. \A i \in 1 .. N : g[i] = f[i]
    BY <2>2
  <2>4. g = [i \in 1 .. N |-> g[i]]
    BY <1>6
  <2> HIDE DEF Bad
  <2> QED BY <2>3, <2>4
<1>7. Chain = CHOOSE g : g = Walk(g)
  BY DEF Chain, N
<1>8. (CHOOSE g : g = Walk(g)) = f
  <2> HIDE DEF f, Walk
  <2> QED BY <1>5, <1>6
<1> QED BY <1>1, <1>2, <1>3, <1>7, <1>8 DEF N

\* The slabs that find_avail_slab meets are those of the list.
LEMMA SlabsAre ==
  ASSUME NEW ch, NEW m, SInv(ch, m)
  PROVE  Slabs = InList(ch, m) /\ (m = 0 <=> pool = NullPage) /\ InList(ch, m) \subseteq Pages \ pages
<1>1. m = 0 <=> pool = NullPage
  <2>1. m # 0 => 1 \in 1 .. m
    BY DEF SInv
  <2> QED BY <2>1, SlabAssumption DEF SInv, Linked
<1>2. InList(ch, m) \subseteq Pages \ pages
  BY DEF SInv, Linked, InList
<1>3. CASE m = 0
  BY <1>1, <1>3 DEF Slabs, InList
<1>4. CASE m # 0
  <2>1. m > 0
    BY <1>4 DEF SInv
  <2>2. \A i \in 1 .. m : ch[i] # Nil
    BY QueueAssumption, SlabAssumption DEF SInv, Linked
  <2>3. DOMAIN Chain = 1 .. Cardinality(Node)
    BY <2>1, ChainIs
  <2>4. \A i \in 1 .. Cardinality(Node) : Chain[i] = IF i <= m THEN ch[i] ELSE Nil
    BY <2>1, ChainIs
  <2>5. \A i \in 1 .. m : i \in 1 .. Cardinality(Node)
    BY <2>1, ChainIs
  <2>6. {Chain[i] : i \in DOMAIN Chain} \ {Nil} = InList(ch, m)
    BY <2>2, <2>3, <2>4, <2>5 DEF InList
  <2>7. pool # NullPage
    BY <1>1, <1>4
  <2>8. Slabs = {Chain[i] : i \in DOMAIN Chain} \ {Nil}
    BY <2>7 DEF Slabs
  <2> QED BY <2>6, <2>8, <1>1, <1>2
<1> QED BY <1>1, <1>2, <1>3, <1>4
-----------------------------------------------------------------------------
(* The bitmap. *)

\* The slots of such a slab are in the lower half of one row, where 1 << b sets
\* bit b and, of the others, only bits that are no slot.
LEMMA MaskIs ==
  ASSUME Capacity <= IntBits
  PROVE  /\ 0 .. Capacity - 1 \subseteq Bit
         /\ Bit \subseteq Nat
         /\ \A b \in 0 .. Capacity - 1 :
               /\ Mask(b) \subseteq Bit
               /\ \A c \in 0 .. Capacity - 1 : c \in Mask(b) <=> c = b
<1>1. IntBits \in Nat /\ IntBits > 0 /\ Capacity \in Nat /\ Rows \in Nat /\ RowBits = 2 * IntBits
  BY SlabAssumption DEF RowBits
<1>2. Rows = 1
  <2>1. (Rows - 1) * RowBits < Capacity /\ Capacity <= Rows * RowBits
    BY SlabAssumption
  <2>2. Rows # 0
    <3>1. Rows = 0 => Rows * RowBits = 0
      BY <1>1
    <3> QED BY <3>1, <2>1, <1>1, SlabAssumption
  <2>3. ~ (Rows > 1)
    <3> SUFFICES ASSUME Rows > 1 PROVE FALSE
      OBVIOUS
    <3>1. PICK k \in Nat : Rows = 2 + k
      BY <1>1
    <3>2. (Rows - 1) * RowBits = RowBits + k * RowBits
      BY <3>1, <1>1
    <3>3. k * RowBits >= 0
      BY <1>1
    <3> QED BY <3>2, <3>3, <2>1, <1>1
  <2> QED BY <2>2, <2>3, <1>1
<1>3. Bit = 0 .. RowBits - 1
  BY <1>1, <1>2 DEF Bit
<1>4. ASSUME NEW b \in 0 .. Capacity - 1 PROVE Row(b) = 0 /\ Shift(b) = b
  <2>1. b \in Nat /\ b < IntBits /\ b < RowBits
    BY <1>1
  <2>2. b \div RowBits = 0 /\ b % RowBits = b
    BY <2>1, <1>1
  <2>3. b % IntBits = b
    BY <2>1, <1>1
  <2> QED BY <2>2, <2>3 DEF Row, Shift
<1>5. ASSUME NEW b \in 0 .. Capacity - 1
      PROVE  Mask(b) = IF b = IntBits - 1 THEN b .. RowBits - 1 ELSE {b}
  <2> DEFINE base == Row(b) * RowBits
  <2>1. base = 0 /\ base + Shift(b) = b /\ base + RowBits - 1 = RowBits - 1
    BY <1>1, <1>4
  <2>2. Mask(b) = IF Shift(b) = IntBits - 1 THEN base + Shift(b) .. base + RowBits - 1
                  ELSE {base + Shift(b)}
    BY DEF Mask
  <2> HIDE DEF base
  <2> QED BY <2>1, <2>2, <1>4
<1> QED BY <1>1, <1>3, <1>5

\* The loop of fill_bitmap finds the lowest bit that is 0.
LEMMA LowestIs ==
  ASSUME NEW S \in SUBSET Nat, NEW x \in S
  PROVE  Lowest(S) \in S /\ \A c \in S : Lowest(S) <= c
<1>1. \E b \in S : \A c \in S : b <= c
  BY MinimumExists
<1> QED BY <1>1 DEF Lowest

\* The objects are finitely many in every slab.
LEMMA LiveInFinite ==
  ASSUME SlabTypeOK, NEW s
  PROVE  /\ IsFiniteSet(live) /\ IsFiniteSet(LiveIn(s)) /\ Cardinality(LiveIn(s)) \in Nat
         /\ LiveIn(s) = {} <=> Cardinality(LiveIn(s)) = 0
<1>1. IsFiniteSet(Node \X (0 .. Capacity - 1))
  <2> DEFINE Slot == 0 .. Capacity - 1
  <2>1. IsFiniteSet(Node) /\ IsFiniteSet(Slot)
    BY QueueAssumption, SlabAssumption, FS_Interval
  <2> HIDE DEF Slot
  <2>2. IsFiniteSet(Node \X Slot)
    BY <2>1, FS_Product
  <2> QED BY <2>2 DEF Slot
<1>2. IsFiniteSet(live)
  BY <1>1, FS_Subset DEF SlabTypeOK
<1>3. LiveIn(s) \subseteq live
  BY DEF LiveIn
<1> HIDE DEF LiveIn
<1>4. IsFiniteSet(LiveIn(s))
  BY <1>2, <1>3, FS_Subset
<1> QED BY <1>2, <1>4, FS_CardinalityType, FS_EmptySet

\* A header that counts a free slot has one.
LEMMA FreeSlotExists ==
  ASSUME SlabTypeOK, NEW s \in Node, Cardinality(LiveIn(s)) < Capacity
  PROVE  \E b \in 0 .. Capacity - 1 : <<s, b>> \notin live
<1> SUFFICES ASSUME \A b \in 0 .. Capacity - 1 : <<s, b>> \in live PROVE FALSE
  OBVIOUS
<1> DEFINE S == 0 .. Capacity - 1
           T == LiveIn(s)
           e == [b \in S |-> <<s, b>>]
<1>1. IsFiniteSet(S) /\ IsFiniteSet(T) /\ Cardinality(T) < Cardinality(S)
  <2>1. Capacity \in Nat \ {0}
    BY SlabAssumption
  <2>2. IsFiniteSet(S) /\ Cardinality(S) = Capacity
    BY <2>1, FS_Interval
  <2> QED BY <2>2, LiveInFinite
<1>2. e \in [S -> T] /\ \A i, j \in S : e[i] = e[j] => i = j
  BY DEF LiveIn
<1> HIDE DEF S, T, e
<1>3. \E x, y \in S : x # y /\ e[x] = e[y]
  BY <1>1, <1>2, FS_PigeonHole
<1> QED BY <1>2, <1>3

\* alloc_obj on a slab with a free slot takes a slot nobody holds.
LEMMA Taken ==
  ASSUME Capacity <= IntBits, SlabTypeOK, NEW s \in Node,
         NEW av \in [Node -> 0 .. Capacity], NEW bm \in [Node -> SUBSET Bit],
         av[s] + Cardinality(LiveIn(s)) = Capacity, av[s] # 0,
         \A b \in 0 .. Capacity - 1 : b \in bm[s] <=> <<s, b>> \in live,
         TakeSlot(s, av, bm)
  PROVE  /\ avail' \in [Node -> 0 .. Capacity]
         /\ bitmap' \in [Node -> SUBSET Bit]
         /\ live' \subseteq Node \X (0 .. Capacity - 1)
         /\ \A x \in Node \ {s} : /\ avail'[x] = av[x] /\ bitmap'[x] = bm[x]
                                  /\ LiveIn(x)' = LiveIn(x)
                                  /\ \A b : <<x, b>> \in live' <=> <<x, b>> \in live
         /\ HeaderAgrees(s)'
         /\ LiveIn(s)' # {}
         /\ \A o \in live' : o \in live \/ o[1] = s
<1> DEFINE free == Bit \ bm[s]
<1>1. Capacity \in Nat \ {0}
  BY SlabAssumption
<1>2. PICK c \in 0 .. Capacity - 1 : <<s, c>> \notin live
  <2>1. Cardinality(LiveIn(s)) < Capacity
    BY <1>1, LiveInFinite
  <2> QED BY <2>1, FreeSlotExists
<1>3. c \in free /\ free \subseteq Nat
  BY <1>2, MaskIs
<1>4. PICK b : b = Lowest(free)
  OBVIOUS
<1>5. b \in free /\ b <= c
  <2> HIDE DEF free
  <2> QED BY <1>3, <1>4, LowestIs
<1>6. b \in 0 .. Capacity - 1
  BY <1>5, <1>3, <1>1
<1>7. /\ bitmap' = [bm EXCEPT ![s] = @ \cup Mask(b)]
      /\ avail' = [av EXCEPT ![s] = @ - 1]
      /\ live' = live \cup {<<s, b>>}
  <2>1. b < Capacity
    BY <1>6, <1>1
  <2> QED BY <2>1, <1>4 DEF TakeSlot
<1>8. <<s, b>> \notin live
  BY <1>5, <1>6
<1>9. avail' \in [Node -> 0 .. Capacity] /\ avail'[s] = av[s] - 1
  BY <1>7, <1>1
<1>10. bitmap' \in [Node -> SUBSET Bit] /\ bitmap'[s] = bm[s] \cup Mask(b)
  BY <1>7, <1>6, MaskIs
<1>11. live' \subseteq Node \X (0 .. Capacity - 1)
  BY <1>7, <1>6 DEF SlabTypeOK
<1>12. ASSUME NEW x \in Node \ {s}
       PROVE  /\ avail'[x] = av[x] /\ bitmap'[x] = bm[x]
              /\ LiveIn(x)' = LiveIn(x)
              /\ \A d : <<x, d>> \in live' <=> <<x, d>> \in live
  BY <1>7 DEF LiveIn
<1>13. LiveIn(s)' = LiveIn(s) \cup {<<s, b>>} /\ <<s, b>> \notin LiveIn(s)
  BY <1>7, <1>8 DEF LiveIn
<1>14. Cardinality(LiveIn(s)') = Cardinality(LiveIn(s)) + 1
  <2> HIDE DEF LiveIn
  <2>1. IsFiniteSet(LiveIn(s))
    BY LiveInFinite
  <2> QED BY <2>1, <1>13, FS_AddElement
<1>15. avail'[s] + Cardinality(LiveIn(s)') = Capacity
  <2>1. Cardinality(LiveIn(s)) \in Nat /\ av[s] \in Nat
    BY LiveInFinite, <1>1
  <2> QED BY <2>1, <1>9, <1>14
<1>16. \A d \in 0 .. Capacity - 1 : d \in bitmap'[s] <=> <<s, d>> \in live'
  BY <1>6, <1>7, <1>10, MaskIs
<1>17. HeaderAgrees(s)'
  BY <1>15, <1>16 DEF HeaderAgrees
<1> QED BY <1>7, <1>9, <1>10, <1>11, <1>12, <1>13, <1>17
-----------------------------------------------------------------------------
(* The steps. *)

\* A header changes only with its fields and with what is held of its slab.
LEMMA HeaderKept ==
  ASSUME NEW x, HeaderAgrees(x), avail'[x] = avail[x], bitmap'[x] = bitmap[x],
         LiveIn(x)' = LiveIn(x), \A b : <<x, b>> \in live' <=> <<x, b>> \in live
  PROVE  HeaderAgrees(x)'
<1>1. avail'[x] + Cardinality(LiveIn(x)') = Capacity
  BY DEF HeaderAgrees
<1>2. \A b \in 0 .. Capacity - 1 : b \in bitmap'[x] <=> <<x, b>> \in live'
  BY DEF HeaderAgrees
<1> QED BY <1>1, <1>2 DEF HeaderAgrees

\* The first slab of the pool is the whole list.
LEMMA FirstStep ==
  ASSUME Capacity <= IntBits, SlabInv, AllocFirst
  PROVE  SlabInv'
<1>1. PICK ch, m : SInv(ch, m)
  BY DEF SlabInv
<1>2. m = 0 /\ pool = NullPage /\ SlabTypeOK /\ live = {}
  <2>1. m = 0 /\ pool = NullPage
    BY <1>1, SlabsAre DEF AllocFirst
  <2>2. InList(ch, m) = {}
    BY <2>1 DEF InList
  <2> QED BY <2>1, <2>2, <1>1 DEF SInv
<1>3. PICK p \in Pages : /\ PageAlloc(p) /\ pool' = p /\ list' = NodeInit(list, p)
                         /\ TakeSlot(p, FreshAvail(p), FreshBitmap(p))
  BY DEF AllocFirst
<1>4. p \in Node /\ list \in Heap /\ Capacity \in Nat \ {0}
  BY <1>2, SlabAssumption DEF SlabTypeOK
<1>5. LiveIn(p) = {} /\ Cardinality(LiveIn(p)) = 0
  BY <1>2, FS_EmptySet DEF LiveIn
<1> DEFINE av == FreshAvail(p)
           bm == FreshBitmap(p)
<1>6. /\ av \in [Node -> 0 .. Capacity] /\ av[p] = Capacity
      /\ bm \in [Node -> SUBSET Bit] /\ bm[p] = {}
  BY <1>2, <1>4 DEF SlabTypeOK, FreshAvail, FreshBitmap
<1> HIDE DEF av, bm
<1>7. /\ avail' \in [Node -> 0 .. Capacity]
      /\ bitmap' \in [Node -> SUBSET Bit]
      /\ live' \subseteq Node \X (0 .. Capacity - 1)
      /\ HeaderAgrees(p)'
      /\ LiveIn(p)' # {}
      /\ \A o \in live' : o \in live \/ o[1] = p
  <2>1. av[p] + Cardinality(LiveIn(p)) = Capacity /\ av[p] # 0
    BY <1>4, <1>5, <1>6
  <2>2. \A b \in 0 .. Capacity - 1 : b \in bm[p] <=> <<p, b>> \in live
    BY <1>2, <1>6
  <2>3. TakeSlot(p, av, bm)
    BY <1>3 DEF av, bm
  <2> QED BY <2>1, <2>2, <2>3, <1>2, <1>4, <1>6, Taken
<1>8. list' \in Heap /\ list'.next[p] = Nil /\ list'.prev[p] = Nil
  BY <1>3, <1>4, InitLinks
<1>9. pages' = pages \ {p} /\ pages \subseteq Pages
  BY <1>2, <1>3 DEF PageAlloc, SlabTypeOK
<1>10. SlabTypeOK'
  BY <1>3, <1>4, <1>7, <1>8, <1>9 DEF SlabTypeOK
<1>11. PICK c : c = [i \in 1 .. 1 |-> p]
  OBVIOUS
<1>12. Linked(c, 1)'
  BY <1>3, <1>8, <1>9, <1>11 DEF Linked
<1>13. InList(c, 1) = {p}
  BY <1>11 DEF InList
<1>14. SInv(c, 1)'
  BY <1>2, <1>7, <1>10, <1>12, <1>13 DEF SInv
<1> QED BY <1>14 DEF SlabInv

\* A slot of a slab that counts one changes that slab only.
LEMMA FromSlabStep ==
  ASSUME Capacity <= IntBits, SlabInv, AllocFromSlab
  PROVE  SlabInv'
<1>1. PICK ch, m : SInv(ch, m)
  BY DEF SlabInv
<1>2. SlabTypeOK /\ m > 0 /\ m \in Nat /\ UNCHANGED <<list, pool, pages>>
  BY <1>1, SlabsAre DEF AllocFromSlab, SInv
<1>3. PICK s \in InList(ch, m) : avail[s] # 0 /\ TakeSlot(s, avail, bitmap)
  <2>1. PICK i \in DOMAIN Chain : /\ Chain[i] # Nil /\ ~ IsFull(Chain[i])
                                  /\ TakeSlot(Chain[i], avail, bitmap)
    BY DEF AllocFromSlab
  <2>2. Chain = [x \in 1 .. Cardinality(Node) |-> IF x <= m THEN ch[x] ELSE Nil]
    BY <1>1, <1>2, ChainIs
  <2>3. i \in 1 .. Cardinality(Node) /\ Chain[i] = IF i <= m THEN ch[i] ELSE Nil
    BY <2>1, <2>2
  <2>4. i \in 1 .. m /\ Chain[i] = ch[i]
    <3>1. Cardinality(Node) \in Nat
      BY <1>1, <1>2, ChainIs
    <3> QED BY <3>1, <2>1, <2>3, <1>2
  <2>5. avail[ch[i]] # 0 /\ TakeSlot(ch[i], avail, bitmap)
    BY <2>1, <2>4 DEF IsFull
  <2> QED BY <2>4, <2>5 DEF InList
<1>4. s \in Node /\ InList(ch, m) \subseteq Node
  BY <1>1, SlabsAre, SlabAssumption
<1>5. HeaderAgrees(s)
  BY <1>1 DEF SInv
<1>6. /\ avail' \in [Node -> 0 .. Capacity]
      /\ bitmap' \in [Node -> SUBSET Bit]
      /\ live' \subseteq Node \X (0 .. Capacity - 1)
      /\ \A x \in Node \ {s} : /\ avail'[x] = avail[x] /\ bitmap'[x] = bitmap[x]
                               /\ LiveIn(x)' = LiveIn(x)
                               /\ \A b : <<x, b>> \in live' <=> <<x, b>> \in live
      /\ HeaderAgrees(s)'
      /\ LiveIn(s)' # {}
      /\ \A o \in live' : o \in live \/ o[1] = s
  <2>1. avail \in [Node -> 0 .. Capacity] /\ bitmap \in [Node -> SUBSET Bit]
    BY <1>2 DEF SlabTypeOK
  <2>2. /\ avail[s] + Cardinality(LiveIn(s)) = Capacity
        /\ \A b \in 0 .. Capacity - 1 : b \in bitmap[s] <=> <<s, b>> \in live
    BY <1>5 DEF HeaderAgrees
  <2> QED BY <2>1, <2>2, <1>2, <1>3, <1>4, Taken
<1>7. SlabTypeOK'
  BY <1>2, <1>6 DEF SlabTypeOK
<1>8. Linked(ch, m)'
  BY <1>1, <1>2 DEF SInv, Linked
<1>9. ASSUME NEW x \in InList(ch, m)
      PROVE  HeaderAgrees(x)' /\ (LiveIn(x)' = {} => m = 1)
  <2>1. CASE x = s
    BY <2>1, <1>6
  <2>2. CASE x # s
    <3>1. x \in Node \ {s} /\ HeaderAgrees(x) /\ (LiveIn(x) = {} => m = 1)
      BY <2>2, <1>1, <1>4 DEF SInv
    <3>2. /\ avail'[x] = avail[x] /\ bitmap'[x] = bitmap[x]
          /\ LiveIn(x)' = LiveIn(x)
          /\ \A b : <<x, b>> \in live' <=> <<x, b>> \in live
      BY <3>1, <1>6
    <3>3. HeaderAgrees(x)'
      BY <3>1, <3>2, HeaderKept
    <3> QED BY <3>1, <3>2, <3>3
  <2> QED BY <2>1, <2>2
<1>10. \A o \in live' : o[1] \in InList(ch, m)
  BY <1>1, <1>3, <1>6 DEF SInv
<1>11. SInv(ch, m)'
  BY <1>2, <1>7, <1>8, <1>9, <1>10 DEF SInv
<1> QED BY <1>11 DEF SlabInv

\* A new slab is linked behind the last, the slabs before it being full.
LEMMA GrowStep ==
  ASSUME Capacity <= IntBits, SlabInv, AllocGrow
  PROVE  SlabInv'
<1>1. PICK ch, m : SInv(ch, m)
  BY DEF SlabInv
<1>2. /\ SlabTypeOK /\ m > 0 /\ m \in Nat /\ pool' = pool
      /\ Slabs = InList(ch, m) /\ InList(ch, m) \subseteq Pages \ pages
  BY <1>1, SlabsAre DEF AllocGrow, SInv
<1>3. PICK last \in Slabs, p \in Pages :
         /\ list.next[last] = Nil
         /\ PageAlloc(p)
         /\ list' = ListAdd(NodeInit(list, p), p, last, Nil)
         /\ TakeSlot(p, FreshAvail(p), FreshBitmap(p))
  BY DEF AllocGrow
<1>4. /\ p \in Node /\ p \notin InList(ch, m) /\ list \in Heap /\ Capacity \in Nat \ {0}
      /\ InList(ch, m) \subseteq Node /\ p # Nil /\ pages \subseteq Pages
      /\ pages' = pages \ {p} /\ p \in pages
  BY <1>2, <1>3, SlabAssumption, QueueAssumption DEF SlabTypeOK, PageAlloc
<1>5. \A i \in 1 .. m : ch[i] \in InList(ch, m)
  BY DEF InList
<1>6. last = ch[m]
  <2>1. PICK i \in 1 .. m : last = ch[i]
    BY <1>2, <1>3 DEF InList
  <2>2. CASE i = m
    BY <2>1, <2>2
  <2>3. CASE i # m
    <3>1. i + 1 \in 1 .. m
      BY <2>3, <1>2
    <3>2. list.next[last] = ch[i + 1]
      BY <2>1, <2>3, <1>1 DEF SInv, Linked
    <3>3. ch[i + 1] # Nil
      BY <3>1, <1>4, <1>5, QueueAssumption
    <3> QED BY <3>2, <3>3, <1>3
  <2> QED BY <2>2, <2>3
<1>7. LiveIn(p) = {} /\ Cardinality(LiveIn(p)) = 0
  <2>1. LiveIn(p) = {}
    BY <1>1, <1>4 DEF SInv, LiveIn
  <2> QED BY <2>1, FS_EmptySet
<1> DEFINE av == FreshAvail(p)
           bm == FreshBitmap(p)
<1>8. /\ av \in [Node -> 0 .. Capacity] /\ av[p] = Capacity
      /\ bm \in [Node -> SUBSET Bit] /\ bm[p] = {}
      /\ \A x \in Node \ {p} : av[x] = avail[x] /\ bm[x] = bitmap[x]
  BY <1>2, <1>4 DEF SlabTypeOK, FreshAvail, FreshBitmap
<1> HIDE DEF av, bm
<1>9. /\ avail' \in [Node -> 0 .. Capacity]
      /\ bitmap' \in [Node -> SUBSET Bit]
      /\ live' \subseteq Node \X (0 .. Capacity - 1)
      /\ \A x \in Node \ {p} : /\ avail'[x] = av[x] /\ bitmap'[x] = bm[x]
                               /\ LiveIn(x)' = LiveIn(x)
                               /\ \A b : <<x, b>> \in live' <=> <<x, b>> \in live
      /\ HeaderAgrees(p)'
      /\ LiveIn(p)' # {}
      /\ \A o \in live' : o \in live \/ o[1] = p
  <2>1. av[p] + Cardinality(LiveIn(p)) = Capacity /\ av[p] # 0
    BY <1>4, <1>7, <1>8
  <2>2. \A b \in 0 .. Capacity - 1 : b \in bm[p] <=> <<p, b>> \in live
    BY <1>7, <1>8 DEF LiveIn
  <2>3. TakeSlot(p, av, bm)
    BY <1>3 DEF av, bm
  <2> QED BY <2>1, <2>2, <2>3, <1>2, <1>4, <1>8, Taken
<1>10. /\ list' \in Heap
       /\ \A x \in Node :
             /\ list'.next[x] = IF x = p THEN Nil ELSE IF x = last THEN p ELSE list.next[x]
             /\ list'.prev[x] = IF x = p THEN last ELSE list.prev[x]
  <2>h. PICK h : h = NodeInit(list, p)
    OBVIOUS
  <2>1. h \in Heap /\ \A x \in Node : /\ h.next[x] = IF x = p THEN Nil ELSE list.next[x]
                                      /\ h.prev[x] = IF x = p THEN Nil ELSE list.prev[x]
    BY <2>h, <1>4, InitLinks
  <2>2. list' = ListAdd(h, p, last, Nil) /\ last \in Node /\ p # last
    BY <2>h, <1>2, <1>3, <1>4
  <2>3. /\ list' \in Heap
        /\ \A x \in Node :
             /\ list'.next[x] = IF x = p THEN Nil ELSE IF x = last THEN p ELSE h.next[x]
             /\ list'.prev[x] = IF x = p THEN last ELSE h.prev[x]
    <3>1. p \in Node /\ last \in Node /\ p # last /\ h \in Heap
      BY <2>1, <2>2, <1>4
    <3>2. /\ ListAdd(h, p, last, Nil) \in Heap
          /\ \A x \in Node :
               /\ ListAdd(h, p, last, Nil).next[x] = IF x = p THEN Nil
                                                     ELSE IF x = last THEN p ELSE h.next[x]
               /\ ListAdd(h, p, last, Nil).prev[x] = IF x = p THEN last ELSE h.prev[x]
      BY <3>1, AddLinks
    <3> QED BY <3>2, <2>2
  <2> QED BY <2>1, <2>3
<1>11. SlabTypeOK'
  BY <1>2, <1>4, <1>9, <1>10 DEF SlabTypeOK
<1>12. PICK c : c = [i \in 1 .. m + 1 |-> IF i <= m THEN ch[i] ELSE p]
  OBVIOUS
<1>13. /\ \A i \in 1 .. m : c[i] = ch[i] /\ i \in 1 .. m + 1
       /\ c[m + 1] = p
       /\ \A i \in 1 .. m + 1 : i \in 1 .. m \/ i = m + 1
  BY <1>2, <1>12
<1>14. InList(c, m + 1) = InList(ch, m) \cup {p}
  <2>1. InList(ch, m) \subseteq InList(c, m + 1)
    BY <1>13 DEF InList
  <2>2. p \in InList(c, m + 1)
    <3>1. m + 1 \in 1 .. m + 1
      BY <1>2
    <3> QED BY <3>1, <1>13 DEF InList
  <2>3. InList(c, m + 1) \subseteq InList(ch, m) \cup {p}
    BY <1>13 DEF InList
  <2> QED BY <2>1, <2>2, <2>3
<1>15. \A i \in 1 .. m :
          /\ ch[i] \in Pages \ pages /\ ch[i] # p /\ ch[i] \in Node
          /\ list.next[ch[i]] = IF i = m THEN Nil ELSE ch[i + 1]
          /\ list.prev[ch[i]] = IF i = 1 THEN Nil ELSE ch[i - 1]
          /\ \A j \in 1 .. m : ch[i] = ch[j] => i = j
  BY <1>1, <1>4, <1>5 DEF SInv, Linked
<1>16. Linked(c, m + 1)'
  <2>1. pool' = IF m + 1 = 0 THEN NullPage ELSE c[1]
    BY <1>1, <1>2, <1>13 DEF SInv, Linked
  <2>2. ASSUME NEW i \in 1 .. m + 1
        PROVE  /\ c[i] \in Pages \ pages'
               /\ list'.next[c[i]] = IF i = m + 1 THEN Nil ELSE c[i + 1]
               /\ list'.prev[c[i]] = IF i = 1 THEN Nil ELSE c[i - 1]
               /\ \A j \in 1 .. m + 1 : c[i] = c[j] => i = j
    <3>1. CASE i \in 1 .. m
      <4>1. c[i] = ch[i] /\ ch[i] \in Node /\ ch[i] # p
        BY <3>1, <1>13, <1>15
      <4>2. list'.prev[c[i]] = IF i = 1 THEN Nil ELSE c[i - 1]
        <5>1. list'.prev[c[i]] = IF i = 1 THEN Nil ELSE ch[i - 1]
          BY <4>1, <3>1, <1>10, <1>15
        <5>2. i # 1 => i - 1 \in 1 .. m
          BY <3>1, <1>2
        <5> QED BY <5>1, <5>2, <1>13
      <4>3. list'.next[c[i]] = IF i = m + 1 THEN Nil ELSE c[i + 1]
        <5>1. CASE i = m
          BY <5>1, <4>1, <1>2, <1>6, <1>10, <1>13
        <5>2. CASE i # m
          <6>1. ch[i] # last /\ i + 1 \in 1 .. m /\ i # m + 1
            BY <5>2, <3>1, <1>2, <1>6, <1>15
          <6> QED BY <6>1, <5>2, <3>1, <4>1, <1>10, <1>13, <1>15
        <5> QED BY <5>1, <5>2
      <4>4. \A j \in 1 .. m + 1 : c[i] = c[j] => i = j
        BY <3>1, <4>1, <1>13, <1>15
      <4> QED BY <4>1, <4>2, <4>3, <4>4, <3>1, <1>4, <1>15
    <3>2. CASE i = m + 1
      <4>1. i - 1 = m /\ i # 1 /\ m \in 1 .. m
        BY <3>2, <1>2
      <4> QED BY <4>1, <3>2, <1>4, <1>6, <1>10, <1>13, <1>15
    <3> QED BY <3>1, <3>2, <1>13
  <2> QED BY <2>1, <2>2 DEF Linked
<1>17. ASSUME NEW x \in InList(c, m + 1)
       PROVE  HeaderAgrees(x)' /\ (LiveIn(x)' = {} => m + 1 = 1)
  <2>1. CASE x = p
    BY <2>1, <1>9
  <2>2. CASE x # p
    <3>1. x \in InList(ch, m) /\ x \in Node \ {p} /\ HeaderAgrees(x)
      BY <2>2, <1>1, <1>4, <1>14 DEF SInv
    <3>2. /\ avail'[x] = avail[x] /\ bitmap'[x] = bitmap[x]
          /\ LiveIn(x)' = LiveIn(x)
          /\ \A b : <<x, b>> \in live' <=> <<x, b>> \in live
      BY <3>1, <1>8, <1>9
    <3>3. HeaderAgrees(x)'
      BY <3>1, <3>2, HeaderKept
    <3>4. avail[x] = 0
      BY <3>1, <1>2 DEF AllocGrow, IsFull
    <3>5. LiveIn(x) # {}
      <4>1. Cardinality(LiveIn(x)) # 0
        BY <3>1, <3>4, <1>2, <1>4, LiveInFinite DEF HeaderAgrees
      <4> QED BY <4>1, <1>2, LiveInFinite
    <3> QED BY <3>2, <3>3, <3>5
  <2> QED BY <2>1, <2>2
<1>18. \A o \in live' : o[1] \in InList(c, m + 1)
  BY <1>1, <1>9, <1>14 DEF SInv
<1>19. SInv(c, m + 1)'
  <2>1. m + 1 \in Nat
    BY <1>2
  <2> QED BY <2>1, <1>11, <1>16, <1>17, <1>18 DEF SInv
<1> QED BY <1>19 DEF SlabInv

\* Another client takes a page that is free, or gives back one that is no slab.
LEMMA OthersStep ==
  ASSUME SlabInv, Others
  PROVE  SlabInv'
<1>1. PICK ch, m : SInv(ch, m)
  BY DEF SlabInv
<1>2. Slabs = InList(ch, m) /\ InList(ch, m) \subseteq Pages \ pages
  BY <1>1, SlabsAre
<1>3. PICK p \in Pages : OtherTakes(p) \/ OtherGives(p)
  BY DEF Others
<1>4. pages' \subseteq Pages /\ InList(ch, m) \subseteq Pages \ pages'
  BY <1>1, <1>2, <1>3 DEF OtherTakes, OtherGives, SInv, SlabTypeOK
<1>5. UNCHANGED <<list, pool, avail, bitmap, live>>
  BY DEF Others
<1>6. SlabTypeOK' /\ Linked(ch, m)'
  <2>1. \A i \in 1 .. m : ch[i] \in Pages \ pages'
    BY <1>4 DEF InList
  <2> QED BY <2>1, <1>1, <1>4, <1>5 DEF SInv, SlabTypeOK, Linked
<1>7. SInv(ch, m)'
  BY <1>1, <1>5, <1>6 DEF SInv, HeaderAgrees, LiveIn
<1> QED BY <1>7 DEF SlabInv

\* dyna_free clears one slot of the object's slab in the header and for its caller.
LEMMA Freed ==
  ASSUME Capacity <= IntBits, NEW ch, NEW m, SInv(ch, m),
         NEW s \in Node, NEW b \in Bit, Free(s, b)
  PROVE  /\ s \in InList(ch, m)
         /\ avail' \in [Node -> 0 .. Capacity]
         /\ bitmap' \in [Node -> SUBSET Bit]
         /\ live' \subseteq Node \X (0 .. Capacity - 1)
         /\ \A x \in Node \ {s} : /\ LiveIn(x)' = LiveIn(x)
                                  /\ HeaderAgrees(x) => HeaderAgrees(x)'
         /\ HeaderAgrees(s)'
         /\ (avail[s] + 1 = Capacity) <=> LiveIn(s)' = {}
         /\ live' \subseteq live
         /\ IF GivesBack(s)
            THEN /\ pool' = IF pool # s THEN pool
                            ELSE IF list.next[s] = Nil THEN NullPage ELSE list.next[s]
                 /\ list' = ListRemove(list, s)
                 /\ pages' = pages \cup {s}
            ELSE UNCHANGED <<list, pool, pages>>
<1>1. SlabTypeOK /\ <<s, b>> \in live /\ live' = live \ {<<s, b>>}
  BY DEF Free, SInv
<1>2. Capacity \in Nat \ {0} /\ b \in 0 .. Capacity - 1 /\ s \in InList(ch, m)
  BY <1>1, SlabAssumption DEF SlabTypeOK, SInv
<1>3. IsAllocated(s)
  BY <1>2, SlabsAre DEF IsAllocated
<1>4. /\ bitmap' = [bitmap EXCEPT ![s] = @ \ Mask(b)]
      /\ avail' = [avail EXCEPT ![s] = @ + 1]
      /\ IF GivesBack(s)
         THEN /\ pool' = IF pool # s THEN pool
                         ELSE IF list.next[s] = Nil THEN NullPage ELSE list.next[s]
              /\ list' = ListRemove(list, s)
              /\ pages' = pages \cup {s}
         ELSE UNCHANGED <<list, pool, pages>>
  BY <1>3 DEF Free
<1>5. /\ HeaderAgrees(s)
      /\ avail \in [Node -> 0 .. Capacity] /\ bitmap \in [Node -> SUBSET Bit]
      /\ live \subseteq Node \X (0 .. Capacity - 1)
  BY <1>1, <1>2 DEF SInv, SlabTypeOK
<1>6. LiveIn(s)' = LiveIn(s) \ {<<s, b>>} /\ <<s, b>> \in LiveIn(s)
  BY <1>1 DEF LiveIn
<1>7. /\ Cardinality(LiveIn(s)) \in Nat
      /\ Cardinality(LiveIn(s)') = Cardinality(LiveIn(s)) - 1
      /\ Cardinality(LiveIn(s)') \in Nat
      /\ LiveIn(s)' = {} <=> Cardinality(LiveIn(s)') = 0
  <2> HIDE DEF LiveIn
  <2>1. IsFiniteSet(LiveIn(s)) /\ Cardinality(LiveIn(s)) \in Nat
    BY <1>1, LiveInFinite
  <2>2. IsFiniteSet(LiveIn(s)') /\ Cardinality(LiveIn(s)') = Cardinality(LiveIn(s)) - 1
    BY <2>1, <1>6, FS_RemoveElement
  <2> QED BY <2>1, <2>2, FS_CardinalityType, FS_EmptySet
<1>8. avail[s] + Cardinality(LiveIn(s)) = Capacity /\ avail[s] \in Nat
  BY <1>5 DEF HeaderAgrees
<1>9. avail' \in [Node -> 0 .. Capacity] /\ avail'[s] = avail[s] + 1
  <2>1. avail[s] + 1 \in 0 .. Capacity
    BY <1>2, <1>7, <1>8
  <2> QED BY <2>1, <1>4, <1>5
<1>10. bitmap' \in [Node -> SUBSET Bit] /\ bitmap'[s] = bitmap[s] \ Mask(b)
  BY <1>4, <1>5
<1>11. HeaderAgrees(s)'
  <2>1. avail'[s] + Cardinality(LiveIn(s)') = Capacity
    BY <1>7, <1>8, <1>9
  <2>2. \A d \in 0 .. Capacity - 1 : d \in bitmap'[s] <=> <<s, d>> \in live'
    BY <1>1, <1>2, <1>5, <1>10, MaskIs DEF HeaderAgrees
  <2> QED BY <2>1, <2>2 DEF HeaderAgrees
<1>12. ASSUME NEW x \in Node \ {s}
       PROVE  LiveIn(x)' = LiveIn(x) /\ (HeaderAgrees(x) => HeaderAgrees(x)')
  <2>1. /\ avail'[x] = avail[x] /\ bitmap'[x] = bitmap[x]
        /\ LiveIn(x)' = LiveIn(x)
        /\ \A d : <<x, d>> \in live' <=> <<x, d>> \in live
    BY <1>1, <1>4, <1>5 DEF LiveIn
  <2> QED BY <2>1, HeaderKept
<1>13. (avail[s] + 1 = Capacity) <=> LiveIn(s)' = {}
  BY <1>2, <1>7, <1>8
<1>14. live' \subseteq Node \X (0 .. Capacity - 1) /\ live' \subseteq live
  BY <1>1, <1>5
<1> QED BY <1>2, <1>4, <1>9, <1>10, <1>11, <1>12, <1>13, <1>14

\* A slab is at an end of the list when a link is NULL.
LEMMA EndsAre ==
  ASSUME NEW ch, NEW m, SInv(ch, m), NEW k \in 1 .. m
  PROVE  /\ list.prev[ch[k]] = Nil <=> k = 1
         /\ list.next[ch[k]] = Nil <=> k = m
<1>1. \A i \in 1 .. m : ch[i] # Nil
  BY SlabAssumption, QueueAssumption DEF SInv, Linked
<1>2. m \in Nat /\ (k # 1 => k - 1 \in 1 .. m) /\ (k # m => k + 1 \in 1 .. m)
  BY DEF SInv
<1> QED BY <1>1, <1>2 DEF SInv, Linked

\* The slab stays: its page is in use still, or it is the whole pool.
LEMMA FreeKeepsStep ==
  ASSUME Capacity <= IntBits, SlabInv, NEW s \in Node, NEW b \in Bit, Free(s, b),
         ~ GivesBack(s)
  PROVE  SlabInv'
<1>1. PICK ch, m : SInv(ch, m)
  BY DEF SlabInv
<1>2. /\ s \in InList(ch, m)
      /\ avail' \in [Node -> 0 .. Capacity]
      /\ bitmap' \in [Node -> SUBSET Bit]
      /\ live' \subseteq Node \X (0 .. Capacity - 1)
      /\ \A x \in Node \ {s} : /\ LiveIn(x)' = LiveIn(x)
                               /\ HeaderAgrees(x) => HeaderAgrees(x)'
      /\ HeaderAgrees(s)'
      /\ (avail[s] + 1 = Capacity) <=> LiveIn(s)' = {}
      /\ live' \subseteq live
      /\ UNCHANGED <<list, pool, pages>>
  BY <1>1, Freed
<1>3. InList(ch, m) \subseteq Node /\ m \in Nat
  BY <1>1, SlabsAre, SlabAssumption DEF SInv
<1>4. SlabTypeOK' /\ Linked(ch, m)'
  BY <1>1, <1>2 DEF SInv, SlabTypeOK, Linked
<1>5. ASSUME LiveIn(s)' = {} PROVE m = 1
  <2>1. list.prev[s] = Nil /\ list.next[s] = Nil
    BY <1>2, <1>5 DEF GivesBack
  <2>2. PICK k \in 1 .. m : s = ch[k]
    BY <1>2 DEF InList
  <2>3. k = 1 /\ k = m
    BY <2>1, <2>2, <1>1, EndsAre
  <2> QED BY <2>3
<1>6. ASSUME NEW x \in InList(ch, m)
      PROVE  HeaderAgrees(x)' /\ (LiveIn(x)' = {} => m = 1)
  <2>1. CASE x = s
    BY <2>1, <1>2, <1>5
  <2>2. CASE x # s
    BY <2>2, <1>1, <1>2, <1>3 DEF SInv
  <2> QED BY <2>1, <2>2
<1>7. \A o \in live' : o[1] \in InList(ch, m)
  BY <1>1, <1>2 DEF SInv
<1>8. SInv(ch, m)'
  BY <1>3, <1>4, <1>6, <1>7 DEF SInv
<1> QED BY <1>8 DEF SlabInv

\* The slab goes back: nothing of it is held, and the list closes over it.
LEMMA FreeGivesBackStep ==
  ASSUME Capacity <= IntBits, SlabInv, NEW s \in Node, NEW b \in Bit, Free(s, b),
         GivesBack(s)
  PROVE  SlabInv'
<1>1. PICK ch, m : SInv(ch, m)
  BY DEF SlabInv
<1>2. /\ s \in InList(ch, m)
      /\ avail' \in [Node -> 0 .. Capacity]
      /\ bitmap' \in [Node -> SUBSET Bit]
      /\ live' \subseteq Node \X (0 .. Capacity - 1)
      /\ \A x \in Node \ {s} : /\ LiveIn(x)' = LiveIn(x)
                               /\ HeaderAgrees(x) => HeaderAgrees(x)'
      /\ (avail[s] + 1 = Capacity) <=> LiveIn(s)' = {}
      /\ live' \subseteq live
      /\ pool' = IF pool # s THEN pool
                 ELSE IF list.next[s] = Nil THEN NullPage ELSE list.next[s]
      /\ list' = ListRemove(list, s)
      /\ pages' = pages \cup {s}
  BY <1>1, Freed
<1>3. InList(ch, m) \subseteq Pages \ pages /\ InList(ch, m) \subseteq Node /\ m \in Nat
  BY <1>1, SlabsAre, SlabAssumption DEF SInv
<1>4. LiveIn(s)' = {}
  BY <1>2 DEF GivesBack
<1>5. PICK k \in 1 .. m : s = ch[k]
  BY <1>2 DEF InList
<1>6. m > 1
  BY <1>1, <1>3, <1>5, EndsAre DEF GivesBack
<1>7. \A i \in 1 .. m :
         /\ ch[i] \in Pages \ pages /\ ch[i] \in Node /\ ch[i] # Nil
         /\ list.next[ch[i]] = IF i = m THEN Nil ELSE ch[i + 1]
         /\ list.prev[ch[i]] = IF i = 1 THEN Nil ELSE ch[i - 1]
         /\ \A j \in 1 .. m : ch[i] = ch[j] => i = j
  BY <1>1, SlabAssumption, QueueAssumption DEF SInv, Linked
<1>8. pool = ch[1] /\ list \in Heap /\ pages \subseteq Pages
  BY <1>1, <1>6 DEF SInv, Linked, SlabTypeOK
<1>9. /\ list' \in Heap
      /\ \A x \in Node \ {s} :
            /\ list'.next[x] = IF x = list.prev[s] THEN list.next[s] ELSE list.next[x]
            /\ list'.prev[x] = IF x = list.next[s] THEN list.prev[s] ELSE list.prev[x]
  <2>1. list.prev[s] # s
    <3>1. k # 1 => k - 1 \in 1 .. m /\ k - 1 # k
      BY <1>3
    <3> QED BY <3>1, <1>5, <1>7
  <2>2. list.next[s] # s
    <3>1. k # m => k + 1 \in 1 .. m /\ k + 1 # k
      BY <1>3
    <3> QED BY <3>1, <1>5, <1>7
  <2> QED BY <2>1, <2>2, <1>2, <1>8, RemoveLinks
<1>10. PICK d : d = [i \in 1 .. m - 1 |-> IF i < k THEN ch[i] ELSE ch[i + 1]]
  OBVIOUS
<1>11. ASSUME NEW i \in 1 .. m - 1
       PROVE  /\ i \in 1 .. m /\ i + 1 \in 1 .. m
              /\ i < k => d[i] = ch[i] /\ i # k
              /\ ~ (i < k) => d[i] = ch[i + 1] /\ i + 1 # k
  BY <1>3, <1>10
<1>12. \A i \in 1 .. m - 1 : d[i] \in InList(ch, m) \ {s}
  BY <1>5, <1>7, <1>11 DEF InList
<1>13. InList(d, m - 1) = InList(ch, m) \ {s}
  <2>1. InList(d, m - 1) \subseteq InList(ch, m) \ {s}
    BY <1>12 DEF InList
  <2>2. ASSUME NEW x \in InList(ch, m) \ {s} PROVE x \in InList(d, m - 1)
    <3>1. PICK i \in 1 .. m : x = ch[i]
      BY <2>2 DEF InList
    <3>2. i # k
      BY <2>2, <3>1, <1>5
    <3>3. CASE i < k
      <4>1. i \in 1 .. m - 1
        BY <3>3, <1>3
      <4> QED BY <4>1, <3>1, <3>3, <1>11 DEF InList
    <3>4. CASE i > k
      <4>1. i - 1 \in 1 .. m - 1 /\ ~ (i - 1 < k) /\ (i - 1) + 1 = i
        BY <3>4, <1>3
      <4> QED BY <4>1, <3>1, <1>11 DEF InList
    <3> QED BY <3>2, <3>3, <3>4, <1>3
  <2> QED BY <2>1, <2>2
<1>14. Linked(d, m - 1)'
  <2>1. pool' = IF m - 1 = 0 THEN NullPage ELSE d[1]
    <3>1. 1 \in 1 .. m - 1 /\ m - 1 # 0 /\ 1 \in 1 .. m
      BY <1>3, <1>6
    <3>2. CASE k = 1
      BY <3>1, <3>2, <1>2, <1>5, <1>6, <1>7, <1>8, <1>11
    <3>3. CASE k # 1
      <4>1. ch[1] # s /\ 1 < k
        BY <3>1, <3>3, <1>3, <1>5, <1>7
      <4> QED BY <4>1, <3>1, <1>2, <1>8, <1>11
    <3> QED BY <3>2, <3>3
  <2>2. ASSUME NEW i \in 1 .. m - 1
        PROVE  /\ d[i] \in Pages \ pages'
               /\ list'.next[d[i]] = IF i = m - 1 THEN Nil ELSE d[i + 1]
               /\ list'.prev[d[i]] = IF i = 1 THEN Nil ELSE d[i - 1]
               /\ \A j \in 1 .. m - 1 : d[i] = d[j] => i = j
    <3>1. d[i] \in Pages \ pages' /\ d[i] \in Node \ {s}
      BY <1>2, <1>3, <1>12
    <3>2. \A j \in 1 .. m - 1 : d[i] = d[j] => i = j
      <4> TAKE j \in 1 .. m - 1
      <4> QED BY <1>3, <1>7, <1>11
    <3>3. list'.next[d[i]] = IF i = m - 1 THEN Nil ELSE d[i + 1]
      <4>1. CASE i < k - 1
        <5>1. d[i] = ch[i] /\ i \in 1 .. m /\ i # m /\ i # m - 1
          BY <4>1, <1>3, <1>11
        <5>2. d[i + 1] = ch[i + 1]
          <6>1. i + 1 \in 1 .. m - 1 /\ i + 1 < k
            BY <4>1, <1>3
          <6> QED BY <6>1, <1>11
        <5>3. ch[i] # list.prev[s]
          <6>1. k # 1 /\ k - 1 \in 1 .. m /\ i # k - 1
            BY <4>1, <1>3
          <6> QED BY <6>1, <5>1, <1>5, <1>7
        <5> QED BY <5>1, <5>2, <5>3, <3>1, <1>7, <1>9
      <4>2. CASE i = k - 1
        <5>1. d[i] = ch[k - 1] /\ k # 1
          BY <4>2, <1>3, <1>11
        <5>2. list'.next[d[i]] = IF k = m THEN Nil ELSE ch[k + 1]
          BY <5>1, <3>1, <1>5, <1>7, <1>9
        <5>3. k = m <=> i = m - 1
          BY <4>2, <1>3
        <5>4. k # m => d[i + 1] = ch[k + 1]
          <6> SUFFICES ASSUME k # m PROVE d[i + 1] = ch[k + 1]
            OBVIOUS
          <6>1. i + 1 = k /\ k \in 1 .. m - 1 /\ ~ (k < k)
            BY <4>2, <1>3
          <6> QED BY <6>1, <1>11
        <5> QED BY <5>2, <5>3, <5>4
      <4>3. CASE i >= k
        <5>1. d[i] = ch[i + 1] /\ i + 1 \in 1 .. m /\ (i + 1) + 1 = i + 2
          BY <4>3, <1>3, <1>11
        <5>2. ch[i + 1] # list.prev[s]
          <6>1. k # 1 => k - 1 \in 1 .. m /\ i + 1 # k - 1
            BY <4>3, <1>3
          <6> QED BY <6>1, <5>1, <1>5, <1>7
        <5>3. list'.next[d[i]] = IF i + 1 = m THEN Nil ELSE ch[i + 2]
          BY <5>1, <5>2, <3>1, <1>7, <1>9
        <5>4. i + 1 = m <=> i = m - 1
          BY <1>3
        <5>5. i # m - 1 => d[i + 1] = ch[i + 2]
          <6> SUFFICES ASSUME i # m - 1 PROVE d[i + 1] = ch[i + 2]
            OBVIOUS
          <6>1. i + 1 \in 1 .. m - 1 /\ ~ (i + 1 < k)
            BY <4>3, <1>3
          <6> QED BY <6>1, <5>1, <1>11
        <5> QED BY <5>3, <5>4, <5>5
      <4> QED BY <4>1, <4>2, <4>3, <1>3
    <3>4. list'.prev[d[i]] = IF i = 1 THEN Nil ELSE d[i - 1]
      <4>1. CASE i < k
        <5>1. d[i] = ch[i] /\ i \in 1 .. m
          BY <4>1, <1>11
        <5>2. ch[i] # list.next[s]
          <6>1. k # m => k + 1 \in 1 .. m /\ i # k + 1
            BY <4>1, <1>3
          <6> QED BY <6>1, <5>1, <1>5, <1>7
        <5>3. list'.prev[d[i]] = IF i = 1 THEN Nil ELSE ch[i - 1]
          BY <5>1, <5>2, <3>1, <1>7, <1>9
        <5>4. i # 1 => d[i - 1] = ch[i - 1]
          <6> SUFFICES ASSUME i # 1 PROVE d[i - 1] = ch[i - 1]
            OBVIOUS
          <6>1. i - 1 \in 1 .. m - 1 /\ i - 1 < k
            BY <4>1, <1>3
          <6> QED BY <6>1, <1>11
        <5> QED BY <5>3, <5>4
      <4>2. CASE i = k
        <5>1. d[i] = ch[k + 1] /\ k # m
          BY <4>2, <1>3, <1>11
        <5>2. list'.prev[d[i]] = IF k = 1 THEN Nil ELSE ch[k - 1]
          BY <5>1, <3>1, <1>5, <1>7, <1>9
        <5>3. i # 1 => d[i - 1] = ch[k - 1]
          <6> SUFFICES ASSUME i # 1 PROVE d[i - 1] = ch[k - 1]
            OBVIOUS
          <6>1. i - 1 = k - 1 /\ i - 1 \in 1 .. m - 1 /\ i - 1 < k
            BY <4>2, <1>3
          <6> QED BY <6>1, <1>11
        <5> QED BY <5>2, <5>3, <4>2
      <4>3. CASE i > k
        <5>1. d[i] = ch[i + 1] /\ i + 1 \in 1 .. m /\ (i + 1) - 1 = i /\ i # 1 /\ i + 1 # 1
          BY <4>3, <1>3, <1>11
        <5>2. ch[i + 1] # list.next[s]
          <6>1. k # m => k + 1 \in 1 .. m /\ i + 1 # k + 1
            BY <4>3, <1>3
          <6> QED BY <6>1, <5>1, <1>5, <1>7
        <5>3. list'.prev[d[i]] = ch[i]
          BY <5>1, <5>2, <3>1, <1>7, <1>9
        <5>4. d[i - 1] = ch[i]
          <6>1. i - 1 \in 1 .. m - 1 /\ ~ (i - 1 < k) /\ (i - 1) + 1 = i
            BY <4>3, <1>3
          <6> QED BY <6>1, <1>11
        <5> QED BY <5>1, <5>3, <5>4
      <4> QED BY <4>1, <4>2, <4>3, <1>3
    <3> QED BY <3>1, <3>2, <3>3, <3>4
  <2> QED BY <2>1, <2>2 DEF Linked
<1>15. SlabTypeOK'
  <2>1. pool' \in Node
    <3>1. list.next[s] # Nil => list.next[s] \in Node
      BY <1>8 DEF Heap
    <3> QED BY <3>1, <1>2, <1>1, SlabAssumption DEF SInv, SlabTypeOK
  <2>2. pages' \subseteq Pages
    BY <1>2, <1>3, <1>8
  <2> QED BY <2>1, <2>2, <1>2, <1>9 DEF SlabTypeOK
<1>16. ASSUME NEW x \in InList(d, m - 1)
       PROVE  HeaderAgrees(x)' /\ (LiveIn(x)' = {} => m - 1 = 1)
  <2>1. x \in Node \ {s} /\ HeaderAgrees(x) /\ LiveIn(x) # {}
    BY <1>1, <1>3, <1>6, <1>13 DEF SInv
  <2> QED BY <2>1, <1>2
<1>17. \A o \in live' : o[1] \in InList(d, m - 1)
  BY <1>1, <1>2, <1>4, <1>13 DEF SInv, LiveIn
<1>18. SInv(d, m - 1)'
  <2>1. m - 1 \in Nat
    BY <1>3, <1>6
  <2> QED BY <2>1, <1>14, <1>15, <1>16, <1>17 DEF SInv
<1> QED BY <1>18 DEF SlabInv
-----------------------------------------------------------------------------
(* The theorems.  Their hypothesis is the pools whose slabs have no more slots *)
(* than an int has bits, those of objects of 128 bytes and more; in a larger   *)
(* slab 1 << b takes the bits of other slots, and BitmapIsExact fails.         *)

\* init_memory_pool leaves a pool without slabs.
LEMMA SInitInv == SInit => SlabInv
<1> SUFFICES ASSUME SInit PROVE SlabInv
  OBVIOUS
<1>1. EmptyHeap \in Heap
  BY QueueAssumption, SlabAssumption DEF EmptyHeap, Heap
<1>2. SlabTypeOK
  BY <1>1, SlabAssumption DEF SInit, SlabTypeOK
<1>3. SInv(<<>>, 0)
  BY <1>2 DEF SInit, SInv, Linked, InList
<1> QED BY <1>3 DEF SlabInv

\* Every call of dyna_alloc and dyna_free keeps the agreement, and so does
\* whatever other clients of the page allocator do.
LEMMA SNextInv ==
  ASSUME Capacity <= IntBits
  PROVE  SlabInv /\ [SNext]_svars => SlabInv'
<1> SUFFICES ASSUME SlabInv, [SNext]_svars PROVE SlabInv'
  OBVIOUS
<1>1. CASE AllocFirst
  BY <1>1, FirstStep
<1>2. CASE AllocFromSlab
  BY <1>2, FromSlabStep
<1>3. CASE AllocGrow
  BY <1>3, GrowStep
<1>4. ASSUME NEW s \in Node, NEW b \in Bit, Free(s, b) PROVE SlabInv'
  BY <1>4, FreeKeepsStep, FreeGivesBackStep
<1>5. CASE Others
  BY <1>5, OthersStep
<1>6. CASE UNCHANGED svars
  <2>1. PICK ch, m : SInv(ch, m)
    BY DEF SlabInv
  <2>2. SInv(ch, m)'
    BY <2>1, <1>6 DEF svars, SInv, SlabTypeOK, Linked, HeaderAgrees, LiveIn
  <2> QED BY <2>2 DEF SlabInv
<1> QED BY <1>1, <1>2, <1>3, <1>4, <1>5, <1>6 DEF SNext

\* What the runs check follows from the invariant.
LEMMA SlabInvImplies ==
  ASSUME SlabInv
  PROVE  SlabTypeOK /\ AvailIsExact /\ BitmapIsExact /\ LiveIsOwned /\ NoIdleSlab
<1>1. PICK ch, m : SInv(ch, m)
  BY DEF SlabInv
<1>2. Slabs = InList(ch, m) /\ InList(ch, m) \subseteq Pages \ pages
  BY <1>1, SlabsAre
<1>3. SlabTypeOK /\ AvailIsExact /\ BitmapIsExact /\ LiveIsOwned
  BY <1>1, <1>2 DEF SInv, HeaderAgrees, AvailIsExact, BitmapIsExact, LiveIsOwned
<1>4. NoIdleSlab
  <2> SUFFICES ASSUME NEW s \in InList(ch, m), LiveIn(s) = {} PROVE InList(ch, m) = {s}
    BY <1>2 DEF NoIdleSlab
  <2>1. m = 1
    BY <1>1 DEF SInv
  <2> QED BY <2>1 DEF InList
<1> QED BY <1>3, <1>4

\* The inductive invariant: the pool points to the first of the slabs that the
\* links string together in both directions, their headers agree with what the
\* callers hold, and only a slab that is alone may be empty.
THEOREM SlabInvariant ==
  ASSUME Capacity <= IntBits
  PROVE  SSpec => []SlabInv
<1>1. SInit => SlabInv
  BY SInitInv
<1>2. SlabInv /\ [SNext]_svars => SlabInv'
  BY SNextInv
<1> QED BY <1>1, <1>2, PTL DEF SSpec

\* The headers, the bitmaps and what callers hold stay in their ranges: the free
\* of dyna_free never counts more free slots than there are.
THEOREM SlabTyped ==
  ASSUME Capacity <= IntBits
  PROVE  SSpec => []SlabTypeOK
<1>1. SlabInv => SlabTypeOK
  BY SlabInvImplies
<1> QED BY <1>1, SlabInvariant, PTL

\* avail, by which dyna_alloc skips a slab and dyna_free gives one back, counts
\* exactly the slots nobody holds: no slot is handed out twice.
THEOREM AvailCounts ==
  ASSUME Capacity <= IntBits
  PROVE  SSpec => []AvailIsExact
<1>1. SlabInv => AvailIsExact
  BY SlabInvImplies
<1> QED BY <1>1, SlabInvariant, PTL

\* In a slab of at most as many slots as an int has bits, fill_bitmap and free_obj
\* change the bit of the slot they are about and that of no other slot.
THEOREM BitmapsAgree ==
  ASSUME Capacity <= IntBits
  PROVE  SSpec => []BitmapIsExact
<1>1. SlabInv => BitmapIsExact
  BY SlabInvImplies
<1> QED BY <1>1, SlabInvariant, PTL

\* dyna_free gives a page back only when nobody holds an object in it, and every
\* object that is held is in a slab of the pool.
THEOREM ObjectsAreOwned ==
  ASSUME Capacity <= IntBits
  PROVE  SSpec => []LiveIsOwned
<1>1. SlabInv => LiveIsOwned
  BY SlabInvImplies
<1> QED BY <1>1, SlabInvariant, PTL

\* dyna_free leaves no empty slab in the pool next to another one.
THEOREM EmptySlabsGoBack ==
  ASSUME Capacity <= IntBits
  PROVE  SSpec => []NoIdleSlab
<1>1. SlabInv => NoIdleSlab
  BY SlabInvImplies
<1> QED BY <1>1, SlabInvariant, PTL
=============================================================================
