------------------------ MODULE PageAllocatorProofs ------------------------
(*************************************************************************)
(* Proofs about PageAllocator, for every size of memory, every set of    *)
(* regions and every history of calls: that every step preserves IInv,   *)
(* which says what lists, statuses and blocks have to do with one        *)
(* another; then, with StoreInv, that it implements PageStore, that the  *)
(* boot regions stay reserved, and that is_allocated is exact.           *)
(*************************************************************************)
EXTENDS PageAllocator, NaturalsInduction, WellFoundedInduction, TLAPS
-----------------------------------------------------------------------------
(* Multiples, on which the proofs about aligned blocks and their buddies    *)
(* rest.                                                                   *)

\* A number is a multiple of m when its remainder is 0 ...
LEMMA MultipleOf ==
  ASSUME NEW m \in Nat, m > 0, NEW i \in Nat, i % m = 0
  PROVE  \E q \in Nat : i = q * m
<1>1. i = (i \div m) * m /\ i \div m \in Nat
  OBVIOUS
<1> QED BY <1>1

\* ... and the remainder of a multiple of m is 0.
LEMMA MultipleMod ==
  ASSUME NEW m \in Nat, m > 0, NEW q \in Nat
  PROVE  (q * m) % m = 0
OBVIOUS

\* Adding or subtracting m keeps multiples of m.
LEMMA MultipleSum ==
  ASSUME NEW m \in Nat, m > 0, NEW i \in Nat, NEW j \in Nat,
         i % m = 0, j % m = 0
  PROVE  (i + j) % m = 0
<1>1. PICK q \in Nat : i = q * m
  BY MultipleOf
<1>2. PICK r \in Nat : j = r * m
  BY MultipleOf
<1>3. i + j = (q + r) * m
  BY <1>1, <1>2
<1>4. q + r \in Nat
  OBVIOUS
<1> QED BY <1>3, <1>4, MultipleMod

\* Between two multiples of m there is room for m.
LEMMA MultipleGap ==
  ASSUME NEW m \in Nat, m > 0, NEW i \in Nat, NEW j \in Nat,
         i % m = 0, j % m = 0, i < j
  PROVE  i + m <= j
<1>1. PICK q \in Nat : i = q * m
  BY MultipleOf
<1>2. PICK r \in Nat : j = r * m
  BY MultipleOf
<1>3. q < r
  <2> SUFFICES ASSUME r <= q PROVE FALSE
    OBVIOUS
  <2>1. PICK d \in Nat : q = r + d
    OBVIOUS
  <2>2. q * m = r * m + d * m
    BY <2>1
  <2>3. d * m >= 0
    OBVIOUS
  <2> QED BY <2>2, <2>3, <1>1, <1>2
<1>4. PICK d \in Nat : r = q + 1 + d
  BY <1>3
<1>5. r * m = q * m + m + d * m
  BY <1>4
<1>6. d * m >= 0
  OBVIOUS
<1> QED BY <1>1, <1>2, <1>5, <1>6

\* The difference of two multiples of m is one.
LEMMA MultipleDifference ==
  ASSUME NEW m \in Nat, m > 0, NEW i \in Nat, NEW j \in Nat,
         i % m = 0, j % m = 0, i <= j
  PROVE  (j - i) % m = 0
<1>1. PICK q \in Nat : i = q * m
  BY MultipleOf
<1>2. PICK r \in Nat : j = r * m
  BY MultipleOf
<1>3. CASE i = j
  <2>1. j - i = 0 * m
    BY <1>3
  <2> QED BY <2>1, MultipleMod
<1>4. CASE i < j
  <2>1. q < r
    <3> SUFFICES ASSUME r <= q PROVE FALSE
      OBVIOUS
    <3>1. PICK d \in Nat : q = r + d
      OBVIOUS
    <3>2. q * m = r * m + d * m
      BY <3>1
    <3>3. d * m >= 0
      OBVIOUS
    <3> QED BY <3>2, <3>3, <1>1, <1>2, <1>4
  <2>2. PICK d \in Nat : r = q + d
    BY <2>1
  <2>3. r * m = q * m + d * m
    BY <2>2
  <2>4. j - i = d * m
    BY <2>3, <1>1, <1>2
  <2> QED BY <2>4, MultipleMod
<1> QED BY <1>3, <1>4

\* A multiple of a multiple of m is a multiple of m.
LEMMA MultipleTrans ==
  ASSUME NEW m \in Nat, m > 0, NEW n \in Nat, n > 0, NEW i \in Nat,
         i % n = 0, n % m = 0
  PROVE  i % m = 0
<1>1. PICK q \in Nat : i = q * n
  BY MultipleOf
<1>2. PICK r \in Nat : n = r * m
  BY MultipleOf
<1>3. i = (q * r) * m
  BY <1>1, <1>2
<1>4. q * r \in Nat
  OBVIOUS
<1> QED BY <1>3, <1>4, MultipleMod

\* The multiples of m are alternately multiples of 2m and 2m apart from them.
LEMMA EvenMultiple ==
  ASSUME NEW m \in Nat, m > 0, NEW i \in Nat, i % (2 * m) = 0
  PROVE  /\ i % m = 0
         /\ (i + m) % m = 0
         /\ (i + m) % (2 * m) # 0
<1>1. PICK q \in Nat : i = q * (2 * m)
  BY MultipleOf
<1>2. i = (2 * q) * m /\ 2 * q \in Nat
  BY <1>1
<1>3. i % m = 0
  BY <1>2, MultipleMod
<1>4. m % m = 0
  OBVIOUS
<1>5. (i + m) % m = 0
  BY <1>3, <1>4, MultipleSum
<1>6. ASSUME (i + m) % (2 * m) = 0 PROVE FALSE
  <2>1. i + 2 * m <= i + m
    BY <1>6, MultipleGap
  <2> QED BY <2>1
<1> QED BY <1>3, <1>5, <1>6

\* A multiple of m that is none of 2 * m follows one of 2 * m.
LEMMA OddMultiple ==
  ASSUME NEW m \in Nat, m > 0, NEW i \in Nat, i % m = 0, i % (2 * m) # 0
  PROVE  /\ i - m \in Nat
         /\ (i - m) % (2 * m) = 0
<1>1. PICK q \in Nat : i = q * m
  BY MultipleOf
<1>2. q \div 2 \in Nat /\ (q = 2 * (q \div 2) \/ q = 2 * (q \div 2) + 1)
  OBVIOUS
<1>3. PICK h \in Nat : q = 2 * h \/ q = 2 * h + 1
  BY <1>2
<1>4. 2 * m \in Nat /\ 2 * m > 0
  OBVIOUS
<1>5. (h * (2 * m)) % (2 * m) = 0 /\ h * (2 * m) \in Nat
  BY <1>4, MultipleMod
<1>6. CASE q = 2 * h
  <2>1. i = h * (2 * m)
    BY <1>1, <1>6
  <2> QED BY <2>1, <1>5
<1>7. CASE q = 2 * h + 1
  <2>1. i = h * (2 * m) + m
    BY <1>1, <1>7
  <2>2. i - m = h * (2 * m)
    BY <2>1, <1>5
  <2> QED BY <2>2, <1>5
<1> QED BY <1>3, <1>6, <1>7

\* Clearing the remainder finds the multiple of m just below.
LEMMA RoundDown ==
  ASSUME NEW m \in Nat, m > 0, NEW b \in Nat, NEW i \in Nat,
         b % m = 0, b <= i, i < b + m
  PROVE  i - (i % m) = b
<1>1. PICK q \in Nat : b = q * m
  BY MultipleOf
<1>2. i - b \in 0 .. m - 1
  OBVIOUS
<1>3. (q * m + (i - b)) % m = i - b
  BY <1>2
<1> QED BY <1>1, <1>3

\* Division rounds down ...
LEMMA QuotientBounds ==
  ASSUME NEW m \in Nat, m > 0, NEW i \in Nat
  PROVE  /\ i \div m \in Nat
         /\ (i \div m) * m <= i /\ i < (i \div m) * m + m
OBVIOUS

\* ... and keeps the order of numbers.
LEMMA QuotientMonotone ==
  ASSUME NEW m \in Nat, m > 0, NEW i \in Nat, NEW j \in Nat, i <= j
  PROVE  i \div m <= j \div m
<1> DEFINE q == i \div m
           r == j \div m
<1>1. /\ q \in Nat /\ q * m <= i
      /\ r \in Nat /\ j < r * m + m
  BY QuotientBounds
<1> HIDE DEF q, r
<1>2. ASSUME r < q PROVE FALSE
  <2>1. PICK d \in Nat : q = r + 1 + d
    BY <1>1, <1>2
  <2>2. q * m = r * m + m + d * m
    BY <1>1, <2>1
  <2>3. d * m >= 0 /\ r * m \in Nat /\ q * m \in Nat
    BY <1>1
  <2> QED BY <1>1, <2>2, <2>3
<1>3. q <= r
  BY <1>1, <1>2
<1> QED BY <1>3 DEF q, r

\* Multiplication keeps the order of numbers.
LEMMA ProductMonotone ==
  ASSUME NEW m \in Nat, NEW i \in Nat, NEW j \in Nat, i <= j
  PROVE  i * m <= j * m
<1>1. PICK d \in Nat : j = i + d
  OBVIOUS
<1>2. j * m = i * m + d * m
  BY <1>1
<1>3. d * m >= 0
  OBVIOUS
<1> QED BY <1>2, <1>3

\* s - 1 rounded down in units of m, plus one, is s rounded up.
LEMMA RoundUp ==
  ASSUME NEW m \in Nat, m > 0, NEW s \in Nat, s > 0
  PROVE  (s + m - 1) \div m = (s - 1) \div m + 1
<1> DEFINE q == (s - 1) \div m
           r == (s - 1 + m) \div m
<1>1. /\ s - 1 \in Nat /\ s - 1 + m \in Nat /\ s + m - 1 = s - 1 + m
  OBVIOUS
<1>2. /\ q \in Nat /\ q * m <= s - 1 /\ s - 1 < q * m + m
      /\ r \in Nat /\ r * m <= s - 1 + m /\ s - 1 + m < r * m + m
  BY <1>1, QuotientBounds
<1> HIDE DEF q, r
<1>3. (q + 1) * m = q * m + m /\ (r + 1) * m = r * m + m /\ (q + 2) * m = q * m + 2 * m
  BY <1>2
<1>4. ASSUME r <= q PROVE FALSE
  <2>1. r * m <= q * m
    BY <1>2, <1>4, ProductMonotone
  <2> QED BY <2>1, <1>2
<1>5. ASSUME q + 2 <= r PROVE FALSE
  <2>1. (q + 2) * m <= r * m
    BY <1>2, <1>5, ProductMonotone
  <2> QED BY <2>1, <1>2, <1>3
<1>6. r = q + 1
  BY <1>2, <1>4, <1>5
<1> QED BY <1>1, <1>6 DEF q, r
-----------------------------------------------------------------------------
USE DEF Order, Page
-----------------------------------------------------------------------------
(* Blocks: powers of two, buddies, and what becomes of the blocks that a   *)
(* set of heads delimits when a head is added or taken away.               *)

\* The arithmetic of powers of two, from PowersOfTwo.
LEMMA Powers ==
  /\ MaxOrder \in Nat
  /\ 2^0 = 1
  /\ \A k \in 0 .. MaxOrder + 1 : 2^k \in Nat /\ 2^k > 0
  /\ \A k \in Order : 2^(k + 1) = 2 * 2^k
  /\ \A k \in 0 .. MaxOrder + 1, j \in 0 .. MaxOrder + 1 :
        j <= k => 2^j <= 2^k /\ 2^k % 2^j = 0
<1>1. \A k \in 0 .. MaxOrder + 1 : k \in 0 .. SizeBits
  BY SizesAssumption
<1> QED BY <1>1, PowersOfTwo, SizesAssumption

\* A higher power of two is larger.
LEMMA PowersIncrease ==
  ASSUME NEW k \in 0 .. MaxOrder + 1, NEW j \in 0 .. MaxOrder + 1, j < k
  PROVE  2^j < 2^k
<1>1. j \in Order /\ j + 1 \in 0 .. MaxOrder + 1 /\ j + 1 <= k
  BY Powers
<1>2. 2^(j + 1) <= 2^k /\ 2^(j + 1) = 2 * 2^j
  BY <1>1, Powers
<1>3. 2^j \in Nat /\ 2^j > 0 /\ 2^k \in Nat
  BY Powers
<1> QED BY <1>2, <1>3

\* A multiple of a power of two is a multiple of the smaller ones.
LEMMA AlignedDown ==
  ASSUME NEW p \in Nat, NEW k \in 0 .. MaxOrder + 1, NEW j \in 0 .. k,
         Aligned(p, k)
  PROVE  Aligned(p, j)
<1>1. j \in 0 .. MaxOrder + 1
  BY Powers
<1>2. 2^j \in Nat /\ 2^j > 0 /\ 2^k \in Nat /\ 2^k > 0 /\ 2^k % 2^j = 0
  BY <1>1, Powers
<1> QED BY <1>2, MultipleTrans DEF Aligned

\* The memory ends at a multiple of every block size, and of twice the largest.
LEMMA TotalAligned ==
  /\ TotalPage \in Nat
  /\ TotalPage > 0
  /\ \A k \in 0 .. MaxOrder + 1 : Aligned(TotalPage, k)
<1>1. TopBlocks \in Nat /\ TopBlocks > 0 /\ TopBlocks % 2 = 0 /\ MaxOrder \in Order
  BY SizesAssumption
<1>2. PICK h \in Nat : TopBlocks = h * 2
  BY <1>1, MultipleOf
<1>3. 2^MaxOrder \in Nat /\ 2^MaxOrder > 0 /\ 2^(MaxOrder + 1) = 2 * 2^MaxOrder
  BY <1>1, Powers
<1>4. TotalPage = h * 2^(MaxOrder + 1)
  BY <1>2, <1>3 DEF TotalPage
<1>5. 2^(MaxOrder + 1) \in Nat /\ 2^(MaxOrder + 1) > 0
  BY <1>3
<1>6. TotalPage \in Nat
  BY <1>4, <1>5
<1>7. h >= 1
  BY <1>1, <1>2
<1>8. TotalPage > 0
  <2>1. PICK d \in Nat : h = d + 1
    BY <1>7
  <2>2. TotalPage = d * 2^(MaxOrder + 1) + 2^(MaxOrder + 1)
    BY <1>4, <2>1, <1>5
  <2>3. d * 2^(MaxOrder + 1) >= 0
    BY <1>5
  <2> QED BY <2>2, <2>3, <1>5
<1>9. Aligned(TotalPage, MaxOrder + 1)
  BY <1>4, <1>5, MultipleMod DEF Aligned
<1>10. ASSUME NEW k \in 0 .. MaxOrder + 1 PROVE Aligned(TotalPage, k)
  BY <1>6, <1>9, <1>1, AlignedDown
<1> QED BY <1>6, <1>8, <1>10

\* The buddy of a block lies in memory, is as aligned as the block, and the two
\* are the halves of a block of the next order.
LEMMA Buddies ==
  ASSUME NEW p \in Page, NEW l \in Order, Aligned(p, l)
  PROVE  /\ GetBuddy(p, l) \in Page
         /\ GetBuddy(p, l) # p
         /\ Aligned(GetBuddy(p, l), l)
         /\ GetBuddy(GetBuddy(p, l), l) = p
         /\ \/ Aligned(p, l + 1) /\ GetBuddy(p, l) = p + 2^l
            \/ ~ Aligned(p, l + 1) /\ GetBuddy(p, l) = p - 2^l
               /\ Aligned(p - 2^l, l + 1)
<1> DEFINE m == 2^l
<1>1. m \in Nat /\ m > 0 /\ 2^(l + 1) = 2 * m /\ l + 1 \in 0 .. MaxOrder + 1
  BY Powers
<1>2. p \in Nat /\ p < TotalPage /\ TotalPage \in Nat
  BY TotalAligned
<1> HIDE DEF m
<1>3. CASE p % (2 * m) = 0
  <2>1. p % m = 0 /\ (p + m) % m = 0 /\ (p + m) % (2 * m) # 0
    BY <1>1, <1>2, <1>3, EvenMultiple
  <2>2. GetBuddy(p, l) = p + m
    BY <1>1, <1>3 DEF GetBuddy, m
  <2>3. GetBuddy(p + m, l) = p + m - m
    BY <1>1, <2>1 DEF GetBuddy, m
  <2>4. TotalPage % (2 * m) = 0
    BY <1>1, TotalAligned DEF Aligned
  <2>5. p + 2 * m <= TotalPage
    <3>1. 2 * m \in Nat /\ 2 * m > 0
      BY <1>1
    <3> QED BY <3>1, <2>4, <1>2, <1>3, MultipleGap
  <2>6. p + m \in Page
    BY <2>5, <1>1, <1>2
  <2>7. p + m - m = p /\ p + m # p
    BY <1>1, <1>2
  <2> QED BY <2>1, <2>2, <2>3, <2>6, <2>7, <1>1, <1>3 DEF Aligned, m
<1>4. CASE p % (2 * m) # 0
  <2>1. p % m = 0
    BY DEF Aligned, m
  <2>2. p - m \in Nat /\ (p - m) % (2 * m) = 0
    BY <1>1, <1>2, <1>4, <2>1, OddMultiple
  <2>3. (p - m) % m = 0
    BY <1>1, <2>2, EvenMultiple
  <2>4. GetBuddy(p, l) = p - m
    BY <1>1, <1>4 DEF GetBuddy, m
  <2>5. GetBuddy(p - m, l) = p - m + m
    BY <1>1, <2>2 DEF GetBuddy, m
  <2>6. p - m \in Page /\ p - m + m = p /\ p - m # p
    BY <1>1, <1>2, <2>2
  <2> QED BY <2>2, <2>3, <2>4, <2>5, <2>6, <1>1, <1>4 DEF Aligned, m
<1> QED BY <1>3, <1>4
-----------------------------------------------------------------------------
\* The heads say how long a block is: it has one order only.
LEMMA BlockOrderUnique ==
  ASSUME NEW H \in SUBSET Page, NEW b \in Page, NEW k \in Order, NEW l \in Order,
         IsBlock(H, b, k), IsBlock(H, b, l)
  PROVE  k = l
<1>1. ASSUME NEW i \in Order, NEW j \in Order, IsBlock(H, b, i), IsBlock(H, b, j), i < j
      PROVE  FALSE
  <2>1. 2^i \in Nat /\ 2^i > 0 /\ 2^j \in Nat /\ 2^i < 2^j
    BY <1>1, Powers, PowersIncrease
  <2>2. b + 2^i < TotalPage /\ TotalPage \in Nat
    BY <1>1, <2>1, TotalAligned DEF IsBlock
  <2>3. b + 2^i \in H
    BY <1>1, <2>2 DEF IsBlock
  <2>4. b + 2^i \in b + 1 .. b + 2^j - 1
    BY <2>1
  <2> QED BY <1>1, <2>3, <2>4 DEF IsBlock
<1> QED BY <1>1, Powers

\* Two blocks that share a page are the same block.
LEMMA BlocksDisjoint ==
  ASSUME NEW H \in SUBSET Page, NEW b \in Page, NEW c \in Page,
         NEW k \in Order, NEW l \in Order, NEW p \in Nat,
         IsBlock(H, b, k), IsBlock(H, c, l),
         b <= p, p < b + 2^k, c <= p, p < c + 2^l
  PROVE  b = c
<1>1. 2^k \in Nat /\ 2^l \in Nat
  BY Powers
<1>2. ASSUME b < c PROVE FALSE
  <2>1. c \in b + 1 .. b + 2^k - 1
    BY <1>1, <1>2
  <2> QED BY <2>1 DEF IsBlock
<1>3. ASSUME c < b PROVE FALSE
  <2>1. b \in c + 1 .. c + 2^l - 1
    BY <1>1, <1>3
  <2> QED BY <2>1 DEF IsBlock
<1> QED BY <1>2, <1>3

\* A new head u in the middle of the block at t makes G of the heads H.
Halved(H, G, t, u, l) ==
  l < MaxOrder /\ IsBlock(H, t, l + 1) /\ u = t + 2^l /\ G = H \cup {u}

\* It makes two blocks of the one and alters no other.
LEMMA SplitBlock ==
  ASSUME NEW H \in SUBSET Page, NEW G, NEW t \in Page, NEW u, NEW l \in Order,
         Halved(H, G, t, u, l)
  PROVE  /\ u \in Page /\ u \notin H
         /\ Aligned(t, l)
         /\ GetBuddy(t, l) = u /\ GetBuddy(u, l) = t
         /\ IsBlock(G, t, l) /\ IsBlock(G, u, l)
         /\ \A b \in Page, k \in Order :
               b # t /\ IsBlock(H, b, k) => IsBlock(G, b, k)
<1> l < MaxOrder /\ IsBlock(H, t, l + 1) /\ u = t + 2^l /\ G = H \cup {u}
  BY DEF Halved
<1>1. 2^l \in Nat /\ 2^l > 0 /\ 2^(l + 1) = 2 * 2^l
      /\ l + 1 \in 0 .. MaxOrder + 1 /\ l \in 0 .. l + 1 /\ l + 1 \in Order
  BY Powers
<1>2. t \in Nat /\ TotalPage \in Nat
  BY TotalAligned
<1>3. Aligned(t, l + 1) /\ t + 2 * 2^l <= TotalPage /\ t \in H
      /\ (\A p \in t + 1 .. t + 2 * 2^l - 1 : p \notin H)
      /\ (t + 2 * 2^l < TotalPage => t + 2 * 2^l \in H)
  BY <1>1 DEF IsBlock
<1>4. Aligned(t, l)
  BY <1>1, <1>2, <1>3, AlignedDown
<1>5. u \in Page /\ u \notin H /\ u < TotalPage
  BY <1>1, <1>2, <1>3
<1>6. GetBuddy(t, l) = u
  BY <1>3 DEF GetBuddy, Aligned
<1>7. GetBuddy(u, l) = t /\ Aligned(u, l)
  BY <1>4, <1>6, Buddies
<1>8. IsBlock(G, t, l)
  BY <1>1, <1>2, <1>3, <1>4, <1>5 DEF IsBlock
<1>9. IsBlock(G, u, l)
  <2>1. u + 2^l = t + 2 * 2^l
    BY <1>1, <1>2
  <2>2. \A p \in u + 1 .. u + 2^l - 1 : p \notin G
    BY <1>1, <1>2, <1>3
  <2> QED BY <1>3, <1>7, <2>1, <2>2 DEF IsBlock
<1>10. ASSUME NEW b \in Page, NEW k \in Order, b # t, IsBlock(H, b, k)
       PROVE  IsBlock(G, b, k)
  <2>1. 2^k \in Nat /\ b \in Nat
    BY Powers, TotalAligned
  <2>2. ASSUME u \in b + 1 .. b + 2^k - 1 PROVE FALSE
    <3>1. CASE b < t
      <4>1. t \in b + 1 .. b + 2^k - 1
        BY <3>1, <2>1, <2>2, <1>1, <1>2
      <4> QED BY <4>1, <1>3, <1>10 DEF IsBlock
    <3>2. CASE b > t
      <4>1. b \in t + 1 .. t + 2 * 2^l - 1
        BY <3>2, <2>1, <2>2, <1>1, <1>2
      <4>2. b \in H
        BY <1>10 DEF IsBlock
      <4> QED BY <4>1, <4>2, <1>3
    <3> QED BY <3>1, <3>2, <1>10, <2>1, <1>2
  <2> QED BY <1>10, <2>2 DEF IsBlock
<1> QED BY <1>4, <1>5, <1>6, <1>7, <1>8, <1>9, <1>10

\* Two halves at t and u are joined, which makes G of the heads H.
Joined(H, G, t, u, l) ==
  /\ l < MaxOrder /\ Aligned(t, l + 1)
  /\ IsBlock(H, t, l) /\ u = t + 2^l /\ IsBlock(H, u, l)
  /\ G = H \ {u}

\* They make a block of the next order and alter no other.
LEMMA JoinBlocks ==
  ASSUME NEW H \in SUBSET Page, NEW G, NEW t \in Page, NEW u, NEW l \in Order,
         Joined(H, G, t, u, l)
  PROVE  /\ IsBlock(G, t, l + 1)
         /\ \A b \in Page, k \in Order :
               b # t /\ b # u /\ IsBlock(H, b, k) => IsBlock(G, b, k)
<1> /\ l < MaxOrder /\ Aligned(t, l + 1)
    /\ IsBlock(H, t, l) /\ u = t + 2^l /\ IsBlock(H, u, l)
    /\ G = H \ {u}
  BY DEF Joined
<1>1. 2^l \in Nat /\ 2^l > 0 /\ 2^(l + 1) = 2 * 2^l
  BY Powers
<1>2. t \in Nat /\ TotalPage \in Nat
  BY TotalAligned
<1>3. t \in H /\ u \in H /\ u + 2^l = t + 2 * 2^l /\ u + 2^l <= TotalPage
      /\ (\A p \in t + 1 .. u - 1 : p \notin H)
      /\ (\A p \in u + 1 .. u + 2^l - 1 : p \notin H)
      /\ (u + 2^l < TotalPage => u + 2^l \in H)
  BY <1>1, <1>2 DEF IsBlock
<1>4. IsBlock(G, t, l + 1)
  <2>1. t + 2^(l + 1) = u + 2^l
    BY <1>1, <1>3
  <2>2. \A p \in t + 1 .. t + 2^(l + 1) - 1 : p \notin G
    BY <1>1, <1>2, <1>3
  <2>3. t \in G
    BY <1>1, <1>2, <1>3
  <2>4. u + 2^l # u
    BY <1>1, <1>2
  <2> QED BY <1>3, <2>1, <2>2, <2>3, <2>4 DEF IsBlock
<1>5. ASSUME NEW b \in Page, NEW k \in Order, b # t, b # u, IsBlock(H, b, k)
      PROVE  IsBlock(G, b, k)
  <2>1. 2^k \in Nat /\ 2^k > 0 /\ b \in Nat
    BY Powers, TotalAligned
  <2>2. ASSUME b + 2^k = u PROVE FALSE
    <3>1. CASE b < t
      <4>1. t \in b + 1 .. b + 2^k - 1
        BY <3>1, <2>1, <2>2, <1>1, <1>2
      <4> QED BY <4>1, <1>3, <1>5 DEF IsBlock
    <3>2. CASE b > t
      <4>1. b \in t + 1 .. u - 1
        BY <3>2, <2>1, <2>2, <1>1, <1>2
      <4>2. b \in H
        BY <1>5 DEF IsBlock
      <4> QED BY <4>1, <4>2, <1>3
    <3> QED BY <3>1, <3>2, <1>5, <2>1, <1>2
  <2> QED BY <1>5, <2>2 DEF IsBlock
<1> QED BY <1>4, <1>5

\* The run of 2^k pages at b and the run of 2^i pages at c share page x.
Meet(c, i, b, k, x) ==
  /\ Aligned(c, i) /\ Aligned(b, k)
  /\ c <= x /\ x < c + 2^i /\ b <= x /\ x < b + 2^k

\* An aligned run that meets one no smaller lies inside it.
LEMMA Nested ==
  ASSUME NEW c \in Nat, NEW b \in Nat, NEW x \in Nat,
         NEW i \in Order, NEW k \in 0 .. i, Meet(c, i, b, k, x)
  PROVE  c <= b /\ b + 2^k <= c + 2^i
<1> /\ Aligned(c, i) /\ Aligned(b, k)
    /\ c <= x /\ x < c + 2^i /\ b <= x /\ x < b + 2^k
  BY DEF Meet
<1>1. k \in Order /\ i \in 0 .. MaxOrder + 1 /\ k \in 0 .. MaxOrder + 1
  BY Powers
<1>2. 2^k \in Nat /\ 2^k > 0 /\ 2^i \in Nat /\ 2^i > 0 /\ 2^i % 2^k = 0
  BY <1>1, Powers
<1>3. c % 2^k = 0 /\ b % 2^k = 0
  BY <1>2, MultipleTrans DEF Aligned
<1>4. c <= b
  <2>1. ASSUME b < c PROVE FALSE
    <3>1. b + 2^k <= c
      BY <1>2, <1>3, <2>1, MultipleGap
    <3> QED BY <3>1, <1>2
  <2> QED BY <2>1
<1>5. c + 2^i \in Nat /\ (c + 2^i) % 2^k = 0
  <2> DEFINE m == 2^k
             n == 2^i
  <2>1. m \in Nat /\ m > 0 /\ n \in Nat /\ n % m = 0 /\ c % m = 0
    BY <1>2, <1>3
  <2> HIDE DEF m, n
  <2>2. c + n \in Nat
    BY <2>1
  <2>3. (c + n) % m = 0
    BY <2>1, MultipleSum
  <2> QED BY <2>2, <2>3 DEF m, n
<1>6. b < c + 2^i
  BY <1>2
<1>7. b + 2^k <= c + 2^i
  BY <1>2, <1>3, <1>5, <1>6, MultipleGap
<1> QED BY <1>4, <1>7

\* Every page lies in an aligned run of each order.
LEMMA RoundsDown ==
  ASSUME NEW p \in Page, NEW k \in Order
  PROVE  \E b \in Page : /\ Aligned(b, k)
                         /\ b <= p /\ p < b + 2^k /\ b + 2^k <= TotalPage
<1> DEFINE m == 2^k
           b == (p \div m) * m
<1>1. m \in Nat /\ m > 0 /\ k \in 0 .. MaxOrder + 1
  BY Powers
<1>2. p \in Nat /\ p < TotalPage /\ TotalPage \in Nat /\ TotalPage % m = 0
  BY <1>1, TotalAligned DEF Aligned
<1> HIDE DEF m
<1>3. p \div m \in Nat /\ b \in Nat /\ b <= p /\ p < b + m
  BY <1>1, <1>2
<1>4. b % m = 0
  BY <1>1, <1>3, MultipleMod
<1> HIDE DEF b
<1>5. b < TotalPage
  BY <1>2, <1>3
<1>6. b + m <= TotalPage
  BY <1>1, <1>2, <1>3, <1>4, <1>5, MultipleGap
<1>7. b \in Page
  BY <1>2, <1>3, <1>5
<1> QED BY <1>3, <1>4, <1>6, <1>7 DEF Aligned, m

\* A head begins the block it lies in.
LEMMA HeadBegins ==
  ASSUME NEW H \in SUBSET Page, NEW b \in Nat, NEW k \in Order, NEW p \in H,
         IsBlock(H, b, k), b <= p, p < b + 2^k
  PROVE  p = b
<1>1. 2^k \in Nat /\ p \in Nat
  BY Powers, TotalAligned
<1>2. p # b => p \in b + 1 .. b + 2^k - 1
  BY <1>1
<1> QED BY <1>2 DEF IsBlock
-----------------------------------------------------------------------------
(* The statuses. *)

Flags == {GROUPED, OCCUPIED, RESERVED}

\* A flag is no level.
LEMMA FlagsAreNoLevels ==
  /\ GROUPED \notin Order /\ OCCUPIED \notin Order /\ RESERVED \notin Order
  /\ GROUPED # OCCUPIED /\ GROUPED # RESERVED /\ OCCUPIED # RESERVED
BY SizesAssumption DEF GROUPED, OCCUPIED, RESERVED

\* The heads of blocks are pages.
LEMMA HeadsType == Heads \in SUBSET Page
BY DEF Heads
-----------------------------------------------------------------------------
(* What IInv says of the blocks that the steps work on. *)

\* The page a call works on is the head of its block, and a listed page of its.
LEMMA ListedBlock ==
  ASSUME IInv, NEW l \in Order, NEW p \in free[l]
  PROVE  p \in Page /\ status[p] = l /\ p \in Heads /\ Block(p, l)
<1>1. p \in Page
  BY DEF IInv, TypeOK
<1>2. status[p] = l /\ Block(p, l)
  BY <1>1 DEF IInv, FreeListsAgree, BlocksTile
<1> QED BY <1>1, <1>2 DEF Block, IsBlock

\* Steps that leave the heads alone leave the blocks alone.
LEMMA SameHeads ==
  ASSUME Heads' = Heads
  PROVE  \A b, k : Block(b, k)' = Block(b, k)
BY DEF Block, IsBlock

\* With the same heads and lists no longer than before, blocks tile and merge
\* as before.
LEMMA SameTiling ==
  ASSUME IInv, Heads' = Heads,
         \A l \in Order, p \in Page : p \in free'[l] => p \in free[l]
  PROVE  BlocksTile' /\ Coalesced'
<1>1. \A b, k : Block(b, k)' = Block(b, k)
  BY SameHeads
<1>2. BlocksTile'
  BY <1>1 DEF IInv, BlocksTile
<1>3. ASSUME NEW l \in Order, NEW p \in Page, l < MaxOrder, p \in free'[l]
      PROVE  GetBuddy(p, l) \notin free'[l]
  <2>1. Aligned(p, l)
    BY <1>3, ListedBlock DEF Block, IsBlock
  <2>2. GetBuddy(p, l) \in Page
    BY <2>1, Buddies
  <2> QED BY <1>3, <2>2 DEF IInv, Coalesced
<1> QED BY <1>2, <1>3 DEF Coalesced
-----------------------------------------------------------------------------
(* page_alloc *)

\* page_alloc begins: the smallest order that fits is looked for.
LEMMA PageAllocStep ==
  ASSUME IInv, NEW size \in Sizes, PageAlloc(size)
  PROVE  IInv'
<1>1. TypeOK'
  BY DEF IInv, TypeOK, PageAlloc
<1>2. Heads' = Heads
  BY DEF Heads, PageAlloc
<1>3. BlocksTile' /\ Coalesced'
  BY <1>2, SameTiling DEF PageAlloc
<1>4. FreeListsAgree'
  BY DEF IInv, FreeListsAgree, PageAlloc, InFlight
<1> QED BY <1>1, <1>3, <1>4
        DEF IInv, SplitInv, MergeInv, CarveInv, RegionsInv, PageAlloc

\* page_alloc takes the first block of a list that is not empty.
LEMMA PopStep ==
  ASSUME IInv, Pop
  PROVE  IInv'
<1>0. PICK l \in order .. MaxOrder :
         \E p \in free[l] : target' = p /\ free' = Remove(free, p, l)
  BY DEF Pop
<1>1. PICK p \in free[l] : target' = p /\ free' = Remove(free, p, l)
  BY <1>0
<1>2. l \in Order
  BY SizesAssumption DEF IInv, TypeOK
<1>3. p \in Page /\ status[p] = l /\ p \in Heads /\ Block(p, l)
  BY <1>1, <1>2, ListedBlock
<1>4. \A m \in Order : free'[m] = IF m = l THEN free[m] \ {p} ELSE free[m]
  BY <1>1, <1>2 DEF IInv, TypeOK, Remove
<1>5. TypeOK'
  BY <1>1, <1>2, <1>3 DEF IInv, TypeOK, Pop, Remove
<1>6. Heads' = Heads
  BY DEF Heads, Pop
<1>7. BlocksTile' /\ Coalesced'
  BY <1>4, <1>6, SameTiling
<1>8. \A m \in Order : p \notin free'[m]
  BY <1>2, <1>3, <1>4 DEF IInv, FreeListsAgree
<1>9. FreeListsAgree'
  <2>1. status' = status /\ pc' = "split" /\ pc = "search"
    BY DEF Pop
  <2>2. \A m \in Order, q \in Page : q \in free'[m] => status'[q] = m
    BY <1>4, <2>1 DEF IInv, FreeListsAgree
  <2>3. ASSUME NEW q \in Page, status'[q] \in Order
        PROVE  q \in free'[status'[q]] \/ InFlight(q)'
    <3>1. q \in free[status[q]]
      BY <2>1, <2>3 DEF IInv, FreeListsAgree, InFlight
    <3> QED BY <1>1, <1>4, <2>1, <2>3, <3>1 DEF InFlight
  <2> QED BY <2>2, <2>3 DEF FreeListsAgree
<1>10. SplitInv'
  BY <1>1, <1>3, <1>6, <1>8, SameHeads DEF SplitInv, Pop
<1> QED BY <1>5, <1>7, <1>9, <1>10
        DEF IInv, MergeInv, CarveInv, RegionsInv, Pop

\* page_alloc finds every list empty and returns NULL.
LEMMA RefuseStep ==
  ASSUME IInv, Refuse
  PROVE  IInv'
<1>1. 0 \in Page /\ 0 \in Order /\ 0 \in 0 .. SizeBits
  BY TotalAligned, SizesAssumption
<1>2. TypeOK'
  BY <1>1 DEF IInv, TypeOK, Refuse, Return
<1>3. Heads' = Heads
  BY DEF Heads, Refuse, Return
<1>4. BlocksTile' /\ Coalesced'
  BY <1>3, SameTiling DEF Refuse
<1>5. FreeListsAgree'
  BY DEF IInv, FreeListsAgree, Refuse, Return, InFlight
<1> QED BY <1>2, <1>4, <1>5
        DEF IInv, SplitInv, MergeInv, CarveInv, RegionsInv, Refuse, Return

\* page_alloc marks the pages of the block it is going to return.
LEMMA OccupyStep ==
  ASSUME IInv, Occupy
  PROVE  IInv'
<1>1. 0 \in Page /\ 0 \in Order /\ 0 \in 0 .. SizeBits
  BY TotalAligned, SizesAssumption
<1>2. target \in Page /\ target \in Heads /\ pc = "split"
  BY DEF IInv, SplitInv, Occupy, Block, IsBlock, TypeOK
<1>3. status' = [status EXCEPT ![target] = OCCUPIED] /\ free' = free
  BY DEF Occupy
<1>4. TypeOK'
  BY <1>1 DEF IInv, TypeOK, Occupy, Return
<1>5. Heads' = Heads
  BY <1>2, <1>3, FlagsAreNoLevels DEF Heads, Occupy, Return, IInv, TypeOK
<1>6. BlocksTile' /\ Coalesced'
  BY <1>3, <1>5, SameTiling
<1>7. FreeListsAgree'
  BY <1>2, <1>3, FlagsAreNoLevels
  DEF IInv, TypeOK, FreeListsAgree, SplitInv, Occupy, Return, InFlight
<1> QED BY <1>4, <1>6, <1>7
        DEF IInv, SplitInv, MergeInv, CarveInv, RegionsInv, Occupy, Return

\* A step that makes two halves of the block at t and lists only the given one.
Halves(t, l, given) ==
  /\ l < MaxOrder /\ Block(t, l + 1)
  /\ given \in {t, GetBuddy(t, l)}
  /\ Heads' = Heads \cup {GetBuddy(t, l)}
  /\ \A m \in Order, p \in Page :
        p \in free'[m] <=> \/ p = given /\ m = l
                           \/ p \in free[m] /\ p # t

\* Such a step keeps the blocks tiled and free memory coalesced.
LEMMA HalvesKeepTiling ==
  ASSUME IInv, NEW t \in Page, NEW l \in Order, NEW given \in Page,
         Halves(t, l, given)
  PROVE  /\ GetBuddy(t, l) = t + 2^l /\ GetBuddy(t, l) \notin Heads
         /\ IsBlock(Heads', t, l) /\ IsBlock(Heads', t + 2^l, l)
         /\ \A b \in Page, k \in Order :
               b # t /\ IsBlock(Heads, b, k) => IsBlock(Heads', b, k)
         /\ BlocksTile' /\ Coalesced'
<1> DEFINE kept == GetBuddy(given, l)
<1>h. /\ l < MaxOrder /\ Block(t, l + 1)
      /\ given \in {t, GetBuddy(t, l)}
      /\ Heads' = Heads \cup {GetBuddy(t, l)}
      /\ \A m \in Order, p \in Page :
            p \in free'[m] <=> \/ p = given /\ m = l
                               \/ p \in free[m] /\ p # t
  BY DEF Halves
<1> l < MaxOrder /\ l + 1 \in Order
  BY <1>h, SizesAssumption
<1>0. Heads \in SUBSET Page /\ 2^(l + 1) = 2 * 2^l /\ 2^l \in Nat /\ 2^l > 0
  BY HeadsType, Powers
<1>a. IsBlock(Heads, t, l + 1) /\ t \in Nat
  BY <1>h, TotalAligned DEF Block
<1>b. Aligned(t, l + 1)
  BY <1>a DEF IsBlock
<1>c. GetBuddy(t, l) = t + 2^l
  BY <1>0, <1>b DEF GetBuddy, Aligned
<1>d. PICK u \in Nat : u = t + 2^l
  BY <1>0, <1>a
<1>2. Heads' = Heads \cup {u} /\ GetBuddy(t, l) = u
  BY <1>h, <1>c, <1>d
<1>1. /\ u \in Page /\ u \notin Heads /\ GetBuddy(u, l) = t
      /\ IsBlock(Heads', t, l) /\ IsBlock(Heads', u, l)
      /\ \A b \in Page, k \in Order :
            b # t /\ IsBlock(Heads, b, k) => IsBlock(Heads', b, k)
  <2>1. Halved(Heads, Heads', t, u, l)
    BY <1>a, <1>d, <1>2, <1>h DEF Halved
  <2> QED BY <2>1, <1>0, SplitBlock
<1>4. ASSUME NEW p \in Page
      PROVE  \E b \in 0 .. p, k \in Order : IsBlock(Heads', b, k) /\ p < b + 2^k
  <2>1. PICK b \in 0 .. p, k \in Order : Block(b, k) /\ p < b + 2^k
    BY DEF IInv, BlocksTile
  <2>2. b \in Page
    BY <2>1 DEF Block, IsBlock, Heads
  <2>3. CASE b # t
    BY <2>1, <2>2, <2>3, <1>1 DEF Block
  <2>4. CASE b = t
    <3>1. k = l + 1
      BY <1>0, <1>a, <2>1, <2>4, BlockOrderUnique DEF Block
    <3>2. p < t + 2 * 2^l /\ t <= p /\ t \in Nat /\ p \in Nat
      BY <2>1, <2>4, <3>1, <1>0, <1>a
    <3>3. CASE p < u
      BY <3>2, <3>3, <1>1, <1>d
    <3>4. CASE ~ p < u
      <4>1. u \in 0 .. p /\ p < u + 2^l
        BY <3>2, <3>4, <1>0, <1>d
      <4>2. IsBlock(Heads', u, l)
        BY <1>1
      <4> QED BY <4>1, <4>2
    <3> QED BY <3>3, <3>4
  <2> QED BY <2>3, <2>4
<1>5. ASSUME NEW m \in Order, NEW p \in Page, p \in free'[m]
      PROVE  IsBlock(Heads', p, m)
  <2>1. CASE p = given /\ m = l
    BY <2>1, <1>1, <1>2, <1>h
  <2>2. CASE p \in free[m] /\ p # t
    BY <2>2, <1>1, ListedBlock DEF Block
  <2> QED BY <1>5, <1>h, <2>1, <2>2
<1>6. BlocksTile'
  BY <1>4, <1>5 DEF BlocksTile, Block
<1>7. \A m \in Order : kept \notin free'[m]
  <2>1. \A m \in Order : u \notin free[m]
    BY <1>1, ListedBlock
  <2>2. kept # given
    <3>1. t # u
      BY <1>0, <1>a, <1>d
    <3> QED BY <3>1, <1>1, <1>2, <1>h
  <2> QED BY <1>h, <1>1, <1>2, <2>1, <2>2
<1>8. ASSUME NEW m \in Order, NEW p \in Page, m < MaxOrder, p \in free'[m],
             GetBuddy(p, m) \in free'[m]
      PROVE  FALSE
  <2> DEFINE q == GetBuddy(p, m)
  <2>1. Aligned(p, m)
    BY <1>5, <1>8 DEF IsBlock
  <2>2. q \in Page /\ GetBuddy(q, m) = p
    BY <2>1, Buddies
  <2>4. CASE p = given /\ m = l
    BY <2>4, <1>7, <1>8
  <2>5. CASE q = given /\ m = l
    BY <2>2, <2>5, <1>7, <1>8
  <2>6. CASE p \in free[m] /\ q \in free[m]
    BY <2>6, <1>8 DEF IInv, Coalesced
  <2> QED BY <2>2, <2>4, <2>5, <2>6, <1>8, <1>h
<1> QED BY <1>1, <1>2, <1>d, <1>6, <1>8 DEF Coalesced

\* page_alloc halves the block in hand and lists the upper half.
LEMMA SplitStep ==
  ASSUME IInv, Split
  PROVE  IInv'
<1> DEFINE t == target
           l == status[target] - 1
           u == GetBuddy(target, l)
<1>1. /\ t \in Page /\ status[t] \in order .. MaxOrder /\ status[t] > order
      /\ Block(t, status[t]) /\ order \in Nat /\ pc = "split"
      /\ \A m \in Order : t \notin free[m]
  BY DEF IInv, TypeOK, SplitInv, Split
<1>2. l \in Order /\ l < MaxOrder /\ l + 1 = status[t] /\ l >= order
  BY <1>1, SizesAssumption
<1>3. Aligned(t, l + 1) /\ t \in Heads /\ Block(t, l + 1)
  BY <1>1, <1>2 DEF Block, IsBlock
<1>4. u \in Page /\ u # t
  BY <1>1, <1>2, <1>3, AlignedDown, Buddies, Powers
<1>5. /\ status' = [status EXCEPT ![t] = l, ![u] = l]
      /\ free' = Insert(free, u, l)
      /\ UNCHANGED <<pc, region, start, target, level, order, asked>>
  BY DEF Split
<1> HIDE DEF t, l, u
<1>6. /\ \A p \in Page : status'[p] = IF p = t \/ p = u THEN l ELSE status[p]
      /\ \A m \in Order, p \in Page :
            p \in free'[m] <=> p \in free[m] \/ (p = u /\ m = l)
  BY <1>1, <1>2, <1>4, <1>5 DEF IInv, TypeOK, Insert
<1>7. TypeOK'
  BY <1>1, <1>2, <1>4, <1>5 DEF IInv, TypeOK, Insert
<1>8. Heads' = Heads \cup {u}
  <2>1. l # GROUPED
    BY <1>2, FlagsAreNoLevels
  <2>2. \A p \in Page : p \in Heads <=> status[p] # GROUPED
    BY <1>1 DEF Heads
  <2>3. \A p \in Page : p \in Heads' <=> status'[p] # GROUPED
    BY <1>1, <1>5 DEF Heads
  <2>4. \A p \in Page : p \in Heads' <=> p \in Heads \cup {u}
    BY <2>1, <2>2, <2>3, <1>3, <1>6
  <2> QED BY <2>4, <1>4, HeadsType DEF Heads
<1>9. /\ u = t + 2^l /\ u \notin Heads
      /\ IsBlock(Heads', t, l) /\ BlocksTile' /\ Coalesced'
  <2>1. Halves(t, l, u)
    <3>1. u = GetBuddy(t, l)
      BY DEF t, u
    <3> QED BY <1>1, <1>2, <1>3, <1>6, <1>8, <3>1 DEF Halves
  <2> QED BY <1>1, <1>2, <1>4, <2>1, HalvesKeepTiling DEF t, u
<1>10. \A m \in Order : u \notin free[m]
  BY <1>9, ListedBlock
<1>11. FreeListsAgree'
  <2>1. \A m \in Order, p \in Page : p \in free'[m] => status'[p] = m
    BY <1>1, <1>2, <1>6, <1>10 DEF IInv, FreeListsAgree
  <2>2. ASSUME NEW p \in Page, status'[p] \in Order
        PROVE  p \in free'[status'[p]] \/ InFlight(p)'
    <3>1. CASE p = t
      BY <3>1, <1>1, <1>5 DEF InFlight, t
    <3>2. CASE p = u
      BY <3>2, <1>2, <1>6
    <3>3. CASE p # t /\ p # u
      BY <3>3, <2>2, <1>2, <1>6 DEF IInv, FreeListsAgree, InFlight, t
    <3> QED BY <3>1, <3>2, <3>3
  <2> QED BY <2>1, <2>2 DEF FreeListsAgree
<1>12. SplitInv'
  <2>1. target' = t /\ status'[target'] = l
    BY <1>1, <1>5, <1>6 DEF t
  <2>2. \A m \in Order : t \notin free'[m]
    BY <1>1, <1>4, <1>6
  <2>3. l \in order' .. MaxOrder
    BY <1>1, <1>2, <1>5
  <2> QED BY <2>1, <2>2, <2>3, <1>9 DEF SplitInv, Block
<1> QED BY <1>1, <1>5, <1>7, <1>9, <1>11, <1>12
        DEF IInv, MergeInv, CarveInv, RegionsInv
-----------------------------------------------------------------------------
(* page_free *)

\* page_free reads the length of the block from its GROUPED pages.
LEMMA PageFreeStep ==
  ASSUME IInv, NEW p \in Page, PageFree(p)
  PROVE  IInv'
<1>1. /\ status' = status /\ free' = free /\ target' = p /\ level' = 0
      /\ pc = "idle" /\ pc' = "merge" /\ status[p] = OCCUPIED
      /\ UNCHANGED <<region, start, order, asked>>
  BY DEF PageFree
<1>2. TypeOK'
  BY <1>1, SizesAssumption DEF IInv, TypeOK
<1>3. Heads' = Heads
  BY <1>1 DEF Heads
<1>4. BlocksTile' /\ Coalesced'
  BY <1>1, <1>3, SameTiling
<1>5. FreeListsAgree'
  BY <1>1 DEF IInv, FreeListsAgree, InFlight
<1>6. p \in Heads
  BY <1>1, FlagsAreNoLevels DEF Heads
<1>7. PICK b \in 0 .. p, k \in Order : Block(b, k) /\ p < b + 2^k
  BY DEF IInv, BlocksTile
<1>8. p = b
  BY <1>6, <1>7, HeadsType, HeadBegins DEF Block
<1>9. \A m \in Order : p \notin free[m]
  BY <1>1, FlagsAreNoLevels DEF IInv, FreeListsAgree
<1>10. MergeInv'
  <2>1. k \in 0 .. MaxOrder /\ IsBlock(Heads', p, k)
    BY <1>3, <1>7, <1>8 DEF Block
  <2>2. \E i \in 0 .. MaxOrder : IsBlock(Heads', p, i)
    BY <2>1
  <2> QED BY <1>1, <1>9, <2>2 DEF MergeInv, Block
<1> QED BY <1>1, <1>2, <1>4, <1>5, <1>10
        DEF IInv, SplitInv, CarveInv, RegionsInv

\* page_free's error exit is not taken: a smaller buddy lies in a block of its
\* own, for a block that reached beyond the buddy would have to end at target.
LEMMA SmallerBuddy ==
  ASSUME IInv, pc = "merge", GetBuddy(target, level) < target
  PROVE  status[GetBuddy(target, level)] # GROUPED
<1>1. PICK k \in level .. MaxOrder : Block(target, k)
  BY DEF IInv, MergeInv
<1>2. target \in Page /\ level \in Order /\ k \in Order /\ level \in 0 .. k
  BY <1>1, SizesAssumption DEF IInv, TypeOK
<1>3. PICK t \in Page, l \in Order : t = target /\ l = level
  BY <1>2
<1>4. Aligned(t, k) /\ t \in Heads /\ IsBlock(Heads, t, k) /\ t \in Nat
      /\ k \in 0 .. MaxOrder + 1 /\ l \in 0 .. MaxOrder + 1 /\ l + 1 \in 0 .. MaxOrder + 1
  BY <1>1, <1>3, TotalAligned, Powers DEF Block, IsBlock
<1>5. Aligned(t, l)
  BY <1>2, <1>3, <1>4, AlignedDown
<1>6. PICK u \in Page : u = GetBuddy(t, l)
  BY <1>5, Buddies
<1>7. 2^l \in Nat /\ 2^l > 0 /\ t \in Nat /\ u \in Nat
  BY Powers, TotalAligned
<1>8. Aligned(u, l) /\ u + 2^l = t /\ ~ Aligned(t, l + 1)
  BY <1>3, <1>5, <1>6, <1>7, Buddies
<1>9. PICK c \in 0 .. u, j \in Order : Block(c, j) /\ u < c + 2^j
  BY DEF IInv, BlocksTile
<1>10. c \in Nat /\ c \in Page /\ Aligned(c, j) /\ IsBlock(Heads, c, j) /\ 2^j \in Nat /\ 2^j > 0
       /\ j \in 0 .. MaxOrder + 1
  BY <1>9, Powers DEF Block, IsBlock, Heads
<1>11. CASE j <= l
  <2>1. Aligned(u, j) /\ j \in 0 .. j
    BY <1>4, <1>7, <1>8, <1>10, <1>11, AlignedDown
  <2>2. u <= c
    <3>1. Meet(u, j, c, j, u)
      BY <2>1, <1>7, <1>9, <1>10 DEF Meet
    <3> QED BY <2>1, <3>1, <1>7, <1>10, Nested
  <2>3. u = c
    BY <2>2, <1>7, <1>10
  <2>4. u \in Heads
    BY <2>3, <1>10 DEF IsBlock
  <2> QED BY <2>4, <1>3, <1>6 DEF Heads, IInv
<1>12. CASE l < j
  <2>1. u + 2^l <= c + 2^j
    <3>1. Meet(c, j, u, l, u)
      BY <1>7, <1>8, <1>9, <1>10 DEF Meet
    <3>2. l \in 0 .. j
      BY <1>12
    <3> QED BY <3>1, <3>2, <1>7, <1>10, Nested
  <2>2. c + 2^j <= t
    BY <1>4, <1>7, <1>8, <1>9, <1>10, HeadsType, HeadBegins
  <2>3. c + 2^j = t
    BY <2>1, <2>2, <1>8, <1>7, <1>10
  <2>4. Aligned(t, j)
    <3> DEFINE n == 2^j
    <3>1. n \in Nat /\ n > 0 /\ c % n = 0 /\ n % n = 0 /\ t = c + n
      BY <2>3, <1>10 DEF Aligned
    <3> HIDE DEF n
    <3>2. (c + n) % n = 0
      BY <3>1, <1>10, MultipleSum
    <3> QED BY <3>1, <3>2 DEF Aligned, n
  <2>5. Aligned(t, l + 1)
    BY <2>4, <1>4, <1>10, <1>12, AlignedDown
  <2> QED BY <2>5, <1>8
<1> QED BY <1>11, <1>12

\* What one turn of page_free's loop does for block t, level l and buddy u.
StopsAt(t, l, u) ==
  /\ ~ Mergeable(u, l) \/ l = MaxOrder
  /\ status' = [status EXCEPT ![t] = l]
  /\ free' = Insert(free, t, l)
  /\ Return

JoinsAt(t, l, u) ==
  /\ Mergeable(u, l) /\ l < MaxOrder
  /\ u < t => status[u] # GROUPED
  /\ free' = IF status[u] >= 0 THEN Remove(free, u, l) ELSE free
  /\ status' = [status EXCEPT ![IF t > u THEN t ELSE u] = GROUPED]
  /\ target' = IF t > u THEN u ELSE t
  /\ level' = l + 1
  /\ UNCHANGED <<pc, order, asked>>

\* A turn of merge_page_block stops at the buddy or joins it.
LEMMA MergeTurn ==
  ASSUME IInv, Merge
  PROVE  /\ pc = "merge" /\ UNCHANGED <<region, start>>
         /\ \/ StopsAt(target, level, GetBuddy(target, level))
            \/ JoinsAt(target, level, GetBuddy(target, level))
<1> DEFINE u == GetBuddy(target, level)
<1>1. pc = "merge" /\ UNCHANGED <<region, start>>
  BY DEF Merge
<1>2. u < target => status[u] # GROUPED
  BY <1>1, SmallerBuddy
<1>3. ~ BuddyIsGrouped
  BY <1>2 DEF BuddyIsGrouped
<1>4. level # MaxOrder => level < MaxOrder
  BY SizesAssumption DEF IInv, TypeOK
<1>5. ASSUME ~ Mergeable(u, level) \/ level = MaxOrder
      PROVE  StopsAt(target, level, u)
  BY <1>3, <1>5 DEF Merge, StopsAt, Stops
<1>6. ASSUME Mergeable(u, level), level < MaxOrder
      PROVE  JoinsAt(target, level, u)
  <2>1. level # MaxOrder
    BY <1>6, SizesAssumption DEF IInv, TypeOK
  <2> QED BY <1>2, <1>3, <1>6, <2>1 DEF Merge, JoinsAt, Stops
<1> HIDE DEF u
<1>7. StopsAt(target, level, u) \/ JoinsAt(target, level, u)
  BY <1>4, <1>5, <1>6
<1> QED BY <1>1, <1>7 DEF u

\* The block is listed: its buddy is not free on that level.
LEMMA StopStep ==
  ASSUME IInv, pc = "merge", UNCHANGED <<region, start>>,
         NEW t \in Page, NEW l \in Order, NEW u \in Page,
         t = target, l = level, u = GetBuddy(t, l),
         StopsAt(t, l, u)
  PROVE  IInv'
<1>1. PICK k \in l .. MaxOrder : Block(t, k)
  BY DEF IInv, MergeInv
<1>2. /\ IsBlock(Heads, t, k) /\ t \in Heads /\ k \in Order /\ l \in 0 .. k
      /\ t \in Nat /\ k \in 0 .. MaxOrder + 1 /\ MaxOrder \in Nat
      /\ \A m \in Order : t \notin free[m]
  <2>1. MaxOrder \in Nat /\ t \in Nat
    BY TotalAligned, SizesAssumption
  <2>2. \A m \in Order : t \notin free[m]
    BY DEF IInv, MergeInv
  <2> QED BY <1>1, <2>1, <2>2 DEF Block, IsBlock
<1>3. /\ ~ Mergeable(u, l) \/ l = MaxOrder
      /\ status' = [status EXCEPT ![t] = l]
      /\ free' = Insert(free, t, l)
      /\ pc' = "idle" /\ Return
  BY DEF StopsAt, Return
<1>4. Aligned(t, l)
  BY <1>2, AlignedDown DEF IsBlock
<1>5. ASSUME l # k PROVE FALSE
  <2>1. l < MaxOrder /\ l + 1 \in 0 .. k
    BY <1>2, <1>5
  <2>2. Aligned(t, l + 1)
    BY <2>1, <1>2, AlignedDown DEF IsBlock
  <2>3. u = t + 2^l /\ 2^l \in Nat /\ 2^l > 0 /\ 2^k \in Nat
    BY <2>2, <1>2, <1>4, Powers, Buddies
  <2>4. 2^l < 2^k
    <3>1. l < k /\ l \in 0 .. MaxOrder + 1
      BY <1>2, <1>5
    <3> QED BY <3>1, <1>2, PowersIncrease
  <2>5. u \notin Heads
    BY <2>3, <2>4, <1>2 DEF IsBlock
  <2>6. Mergeable(u, l)
    BY <2>5 DEF Heads, Mergeable
  <2> QED BY <2>1, <2>6, <1>3
<1>6. /\ \A p \in Page : status'[p] = IF p = t THEN l ELSE status[p]
      /\ \A m \in Order, p \in Page :
            p \in free'[m] <=> p \in free[m] \/ (p = t /\ m = l)
  BY <1>3 DEF IInv, TypeOK, Insert
<1>7. TypeOK'
  <2>1. 0 \in Page /\ 0 \in Order /\ 0 \in 0 .. SizeBits
    BY TotalAligned, SizesAssumption
  <2> QED BY <2>1, <1>3 DEF IInv, TypeOK, Insert, Return
<1>8. Heads' = Heads
  <2>1. \A p \in Page : p \in Heads <=> status[p] # GROUPED
    BY DEF Heads
  <2>2. \A p \in Page : p \in Heads' <=> status'[p] # GROUPED
    BY <1>3 DEF Heads
  <2>3. \A p \in Page : p \in Heads' <=> p \in Heads
    BY <2>1, <2>2, <1>2, <1>6, FlagsAreNoLevels
  <2> QED BY <2>3 DEF Heads
<1>9. FreeListsAgree'
  BY <1>2, <1>3, <1>6 DEF IInv, FreeListsAgree, InFlight
<1>10. BlocksTile'
  <2>1. \A b, i : Block(b, i)' = Block(b, i)
    BY <1>8, SameHeads
  <2>2. ASSUME NEW m \in Order, NEW p \in Page, p \in free'[m] PROVE Block(p, m)
    BY <2>2, <1>1, <1>5, <1>6, ListedBlock
  <2> QED BY <2>1, <2>2 DEF BlocksTile, IInv
<1>11. Coalesced'
  <2>1. l < MaxOrder => u \notin free[l]
    BY <1>3, ListedBlock DEF Mergeable
  <2>2. u # t /\ GetBuddy(u, l) = t
    BY <1>4, Buddies
  <2>3. ASSUME NEW m \in Order, NEW p \in Page, m < MaxOrder, p \in free'[m],
               GetBuddy(p, m) \in free'[m]
        PROVE  FALSE
    <3>1. Aligned(p, m)
      BY <2>3, <1>4, <1>6, ListedBlock DEF Block, IsBlock
    <3>2. PICK q \in Page : q = GetBuddy(p, m)
      BY <3>1, Buddies
    <3>3. GetBuddy(q, m) = p
      BY <3>1, <3>2, Buddies
    <3>4. CASE p = t /\ m = l
      BY <3>4, <3>2, <2>1, <2>2, <2>3, <1>6
    <3>5. CASE q = t /\ m = l
      BY <3>5, <3>2, <3>3, <2>1, <2>2, <2>3, <1>6
    <3>6. CASE p \in free[m] /\ q \in free[m]
      BY <3>2, <3>6, <2>3 DEF IInv, Coalesced
    <3> QED BY <3>2, <3>4, <3>5, <3>6, <2>3, <1>6
  <2> QED BY <2>3 DEF Coalesced
<1> QED BY <1>3, <1>7, <1>9, <1>10, <1>11
        DEF IInv, SplitInv, MergeInv, CarveInv, RegionsInv

\* The block is longer than level says: its GROUPED buddy is its own upper half,
\* and the loop walks over it without changing anything but level.
LEMMA WalkStep ==
  ASSUME IInv, pc = "merge", UNCHANGED <<region, start>>,
         NEW t \in Page, NEW l \in Order, NEW u \in Page, NEW k \in Order,
         t = target, l = level, u = GetBuddy(t, l),
         Block(t, k), l < k, JoinsAt(t, l, u)
  PROVE  IInv'
<1>1. /\ IsBlock(Heads, t, k) /\ t \in Nat /\ l \in 0 .. k /\ l + 1 \in 0 .. k
      /\ k \in 0 .. MaxOrder + 1 /\ l \in 0 .. MaxOrder + 1 /\ MaxOrder \in Nat
      /\ 2^l \in Nat /\ 2^l > 0 /\ 2^k \in Nat
  BY TotalAligned, SizesAssumption, Powers DEF Block
<1>2. Aligned(t, l) /\ Aligned(t, l + 1)
  BY <1>1, AlignedDown DEF IsBlock
<1>3. u = t + 2^l
  BY <1>1, <1>2, Buddies
<1>4. 2^l < 2^k
  BY <1>1, PowersIncrease
<1>5. u \notin Heads
  BY <1>1, <1>3, <1>4 DEF IsBlock
<1>6. status[u] = GROUPED /\ u > t
  BY <1>1, <1>3, <1>5 DEF Heads
<1>7. /\ status' = status /\ free' = free /\ target' = t /\ level' = l + 1
      /\ UNCHANGED <<pc, order, asked>>
  BY <1>1, <1>6 DEF JoinsAt, IInv, TypeOK, GROUPED
<1>8. TypeOK'
  BY <1>1, <1>7 DEF IInv, TypeOK
<1>9. Heads' = Heads
  BY <1>7 DEF Heads
<1>10. BlocksTile' /\ Coalesced'
  BY <1>7, <1>9, SameTiling
<1>11. FreeListsAgree'
  BY <1>7 DEF IInv, FreeListsAgree, InFlight
<1>12. MergeInv'
  <2>1. k \in l + 1 .. MaxOrder
    BY <1>1
  <2>2. \E i \in l + 1 .. MaxOrder : IsBlock(Heads', t, i)
    BY <2>1, <1>1, <1>9
  <2>3. \A m \in Order : t \notin free'[m]
    BY <1>7 DEF IInv, MergeInv
  <2> QED BY <2>2, <2>3, <1>7 DEF MergeInv, Block
<1> QED BY <1>7, <1>8, <1>10, <1>11, <1>12
        DEF IInv, SplitInv, CarveInv, RegionsInv

\* The buddy that is merged with is a listed block of the same length.
LEMMA BuddyListed ==
  ASSUME IInv, pc = "merge",
         NEW t \in Page, NEW l \in Order, NEW u \in Page,
         t = target, l = level, u = GetBuddy(t, l),
         Block(t, l), JoinsAt(t, l, u)
  PROVE  u \in free[l] /\ status[u] = l
<1>1. /\ IsBlock(Heads, t, l) /\ Aligned(t, l) /\ t \in Nat
      /\ 2^l \in Nat /\ 2^l > 0 /\ 2^(l + 1) = 2 * 2^l
      /\ TotalPage \in Nat /\ l + 1 \in 0 .. MaxOrder + 1
  BY TotalAligned, Powers DEF Block, IsBlock
<1>2. status[u] # GROUPED
  <2>1. CASE u < t
    BY <2>1 DEF JoinsAt
  <2>2. CASE ~ u < t
    <3>1. u = t + 2^l
      BY <1>1, <2>2, Buddies
    <3>2. u \in Heads
      BY <1>1, <3>1 DEF IsBlock
    <3> QED BY <3>2 DEF Heads
  <2> QED BY <2>1, <2>2
<1>3. status[u] = l
  BY <1>2 DEF JoinsAt, Mergeable
<1>4. u # t
  BY <1>1, Buddies
<1> QED BY <1>3, <1>4 DEF IInv, FreeListsAgree, InFlight

\* merge_page_block takes a free buddy out of its list and joins the two.
LEMMA JoinStep ==
  ASSUME IInv, pc = "merge", UNCHANGED <<region, start>>,
         NEW t \in Page, NEW l \in Order, NEW u \in Page,
         t = target, l = level, u = GetBuddy(t, l),
         Block(t, l), JoinsAt(t, l, u)
  PROVE  IInv'
<1>1. u \in free[l] /\ status[u] = l /\ Block(u, l) /\ u \in Heads
  BY BuddyListed, ListedBlock
<1>2. /\ IsBlock(Heads, t, l) /\ Aligned(t, l) /\ t \in Nat /\ u \in Nat /\ t \in Heads
      /\ 2^l \in Nat /\ 2^l > 0 /\ 2^(l + 1) = 2 * 2^l
      /\ \A m \in Order : t \notin free[m]
  <2>1. \A m \in Order : t \notin free[m]
    BY DEF IInv, MergeInv
  <2>2. IsBlock(Heads, t, l) /\ Aligned(t, l) /\ t \in Heads
    BY DEF Block, IsBlock
  <2> QED BY <2>1, <2>2, TotalAligned, Powers
<1>3. PICK low \in Page, high \in Page :
         /\ low = IF t > u THEN u ELSE t
         /\ high = IF t > u THEN t ELSE u
  OBVIOUS
<1>4. /\ high = low + 2^l /\ Aligned(low, l + 1) /\ low # high
      /\ low \in Nat /\ high \in Nat
  BY <1>2, <1>3, Buddies
<1>5. l < MaxOrder /\ l + 1 \in Order /\ MaxOrder \in Nat
  BY SizesAssumption DEF JoinsAt
<1>6. /\ free' = Remove(free, u, l)
      /\ status' = [status EXCEPT ![high] = GROUPED]
      /\ target' = low /\ level' = l + 1
      /\ UNCHANGED <<pc, order, asked>>
  BY <1>1, <1>3 DEF JoinsAt
<1>7. /\ \A p \in Page : status'[p] = IF p = high THEN GROUPED ELSE status[p]
      /\ \A m \in Order, p \in Page :
            p \in free'[m] <=> p \in free[m] /\ ~ (p = u /\ m = l)
  BY <1>6 DEF IInv, TypeOK, Remove
<1>8. TypeOK'
  BY <1>5, <1>6 DEF IInv, TypeOK, Remove
<1>9. Heads' = Heads \ {high}
  <2>1. \A p \in Page : p \in Heads <=> status[p] # GROUPED
    BY DEF Heads
  <2>2. \A p \in Page : p \in Heads' <=> status'[p] # GROUPED
    BY <1>6 DEF Heads
  <2>3. \A p \in Page : p \in Heads' <=> p \in Heads \ {high}
    BY <2>1, <2>2, <1>7
  <2> QED BY <2>3 DEF Heads
<1>10. Joined(Heads, Heads', low, high, l)
  BY <1>1, <1>2, <1>3, <1>4, <1>5, <1>9 DEF Joined, Block
<1>11. /\ IsBlock(Heads', low, l + 1)
       /\ \A b \in Page, k \in Order :
             b # low /\ b # high /\ IsBlock(Heads, b, k) => IsBlock(Heads', b, k)
  BY <1>10, HeadsType, JoinBlocks
<1>12. \A m \in Order : t \notin free'[m] /\ u \notin free'[m]
  <2>1. \A m \in Order : u \in free[m] => m = l
    BY <1>1 DEF IInv, FreeListsAgree
  <2> QED BY <2>1, <1>2, <1>7
<1>13. FreeListsAgree'
  <2>1. \A m \in Order, p \in Page : p \in free'[m] => status'[p] = m
    BY <1>3, <1>7, <1>12 DEF IInv, FreeListsAgree
  <2>2. ASSUME NEW p \in Page, status'[p] \in Order
        PROVE  p \in free'[status'[p]] \/ InFlight(p)'
    <3>1. p # high
      BY <2>2, <1>7, FlagsAreNoLevels
    <3>2. CASE p = low
      BY <3>2, <1>6 DEF InFlight
    <3>3. CASE p # low
      BY <3>1, <3>3, <2>2, <1>3, <1>7 DEF IInv, FreeListsAgree, InFlight
    <3> QED BY <3>2, <3>3
  <2> QED BY <2>1, <2>2 DEF FreeListsAgree
<1>14. ASSUME NEW p \in Page
       PROVE  \E b \in 0 .. p, k \in Order : IsBlock(Heads', b, k) /\ p < b + 2^k
  <2>1. PICK b \in 0 .. p, k \in Order : IsBlock(Heads, b, k) /\ p < b + 2^k
    BY DEF IInv, BlocksTile, Block
  <2>2. b \in Page /\ p \in Nat
    BY <2>1, TotalAligned DEF IsBlock, Heads
  <2>3. CASE b # low /\ b # high
    BY <2>1, <2>2, <2>3, <1>11
  <2>4. CASE b = low \/ b = high
    <3>1. IsBlock(Heads, b, l)
      BY <2>4, <1>1, <1>2, <1>3 DEF Block
    <3>2. k = l
      BY <3>1, <2>1, <2>2, HeadsType, BlockOrderUnique
    <3>3. low \in 0 .. p /\ p < low + 2^(l + 1)
      BY <3>2, <2>1, <2>2, <2>4, <1>2, <1>4
    <3> QED BY <3>3, <1>5, <1>11
  <2> QED BY <2>3, <2>4
<1>15. ASSUME NEW m \in Order, NEW p \in Page, p \in free'[m]
       PROVE  IsBlock(Heads', p, m)
  <2>1. p \in free[m] /\ p # low /\ p # high
    BY <1>15, <1>3, <1>7, <1>12
  <2> QED BY <2>1, <1>11, ListedBlock DEF Block
<1>16. BlocksTile'
  BY <1>14, <1>15 DEF BlocksTile, Block
<1>17. Coalesced'
  <2>1. ASSUME NEW m \in Order, NEW p \in Page, m < MaxOrder, p \in free'[m]
        PROVE  GetBuddy(p, m) \notin free'[m]
    <3>1. Aligned(p, m)
      BY <1>15, <2>1 DEF IsBlock
    <3>2. GetBuddy(p, m) \in Page
      BY <3>1, Buddies
    <3> QED BY <2>1, <3>2, <1>7 DEF IInv, Coalesced
  <2> QED BY <2>1 DEF Coalesced
<1>18. MergeInv'
  <2>1. \E i \in l + 1 .. MaxOrder : IsBlock(Heads', low, i)
    BY <1>5, <1>11
  <2>2. \A m \in Order : low \notin free'[m]
    BY <1>3, <1>12
  <2> QED BY <2>1, <2>2, <1>6 DEF MergeInv, Block
<1> QED BY <1>6, <1>8, <1>13, <1>16, <1>17, <1>18
        DEF IInv, SplitInv, CarveInv, RegionsInv

\* Every turn of merge_page_block, the last of which lists the block.
LEMMA MergeStep ==
  ASSUME IInv, Merge
  PROVE  IInv'
<1>1. /\ pc = "merge" /\ UNCHANGED <<region, start>>
      /\ \/ StopsAt(target, level, GetBuddy(target, level))
         \/ JoinsAt(target, level, GetBuddy(target, level))
  BY MergeTurn
<1>2. PICK t \in Page, l \in Order : t = target /\ l = level
  BY DEF IInv, TypeOK
<1>3. PICK k \in l .. MaxOrder : Block(t, k)
  BY <1>1, <1>2 DEF IInv, MergeInv
<1>4. k \in Order /\ l \in 0 .. k /\ k \in 0 .. MaxOrder + 1 /\ t \in Nat
  BY TotalAligned, SizesAssumption
<1>5. Aligned(t, l)
  BY <1>3, <1>4, AlignedDown DEF Block, IsBlock
<1>6. PICK u \in Page : u = GetBuddy(t, l)
  BY <1>5, Buddies
<1>7. CASE StopsAt(t, l, u)
  BY <1>1, <1>2, <1>6, <1>7, StopStep
<1>8. CASE JoinsAt(t, l, u) /\ l < k
  BY <1>1, <1>2, <1>3, <1>4, <1>6, <1>8, WalkStep
<1>9. CASE JoinsAt(t, l, u) /\ ~ l < k
  <2>1. k = l
    BY <1>4, <1>9
  <2> QED BY <2>1, <1>1, <1>2, <1>3, <1>6, <1>9, JoinStep
<1> QED BY <1>1, <1>2, <1>6, <1>7, <1>8, <1>9
-----------------------------------------------------------------------------
(* memory_reserve *)

\* parent & (parent - 1), repeated from a page while it meets GROUPED pages,
\* ends at the head of the block the page lies in.
LEMMA ParentIsHead ==
  ASSUME IInv, pc # "carve",
         NEW p \in Page, NEW q \in 0 .. p, ParentOf(p, q),
         NEW b \in Page, NEW k \in Order, IsBlock(Heads, b, k), b <= p, p < b + 2^k
  PROVE  q = b
<1>1. /\ 2^k \in Nat /\ 2^k > 0 /\ b \in Nat /\ p \in Nat /\ q \in Nat /\ q \in Page
      /\ b % 2^k = 0 /\ b \in Heads
  BY Powers, TotalAligned DEF IsBlock, Aligned
<1>2. \A r \in Page : r \in Heads <=> status[r] # GROUPED
  BY DEF Heads
<1>3. p - (p % 2^k) = b
  BY <1>1, RoundDown
<1>4. Ancestor(p, b)
  BY <1>3 DEF Ancestor
<1>5. ~ q < b
  <2>1. ASSUME q < b PROVE FALSE
    <3>1. b \in q + 1 .. p
      BY <1>1, <2>1
    <3> QED BY <3>1, <1>1, <1>2, <1>4 DEF ParentOf
  <2> QED BY <2>1
<1>6. q \in Heads
  BY <1>1, <1>2 DEF ParentOf
<1> QED BY <1>1, <1>5, <1>6, HeadsType, HeadBegins

\* Coalesced, at work: in an aligned run of 2^o pages that lie in free blocks, no
\* block is smaller than the run.  The buddy of a smallest block would be free.
LEMMA ChunkInOneBlock ==
  ASSUME IInv, pc # "carve",
         NEW s \in Nat, NEW o \in Order, Aligned(s, o), s + 2^o <= TotalPage,
         \A p \in s .. s + 2^o - 1 : InFreeBlock(p),
         NEW b \in Page, NEW k \in Order, b \in free[k], b <= s, s < b + 2^k
  PROVE  o <= k
<1> SUFFICES ASSUME k < o PROVE FALSE
  OBVIOUS
<1> DEFINE Small == {i \in Order : \E c \in free[i] : s <= c /\ c + 2^i <= s + 2^o /\ i < o}
<1>0. /\ 2^o \in Nat /\ TotalPage \in Nat /\ o \in 0 .. MaxOrder + 1 /\ MaxOrder \in Nat
      /\ \A i \in Order : 2^i \in Nat /\ 2^i > 0
  BY Powers, TotalAligned
<1>1. k \in Small
  <2>1. IsBlock(Heads, b, k) /\ Aligned(b, k) /\ b \in Nat
    BY ListedBlock DEF Block, IsBlock
  <2>2. Meet(s, o, b, k, s)
    BY <2>1, <1>0 DEF Meet
  <2>3. s <= b /\ b + 2^k <= s + 2^o
    BY <2>1, <2>2, Nested
  <2> QED BY <2>3
<1>2. Small \in SUBSET Nat
  BY <1>0
<1>3. PICK j \in Small : \A i \in Small : j <= i
  <2> HIDE DEF Small
  <2>1. PICK j \in Small : \A i \in Small : ~ (<<i, j>> \in OpToRel(<, Nat))
    BY <1>1, <1>2, NatLessThanWellFounded, WFMin
  <2>2. ASSUME NEW i \in Small, i < j PROVE FALSE
    <3>1. <<i, j>> \in OpToRel(<, Nat)
      BY <1>2, <2>2 DEF OpToRel
    <3> QED BY <2>1, <3>1
  <2> QED BY <1>2, <2>2
<1>4. PICK c \in free[j] : s <= c /\ c + 2^j <= s + 2^o
  BY <1>3
<1>5. /\ j \in Order /\ j < o /\ j < MaxOrder /\ c \in Page /\ c \in Nat
      /\ IsBlock(Heads, c, j) /\ Aligned(c, j)
  BY <1>0, <1>3, <1>4, ListedBlock DEF Block, IsBlock
<1> HIDE DEF Small
<1>6. PICK u \in Page : u = GetBuddy(c, j)
  BY <1>5, Buddies
<1>7. PICK a \in Page : /\ a = IF u < c THEN u ELSE c
                        /\ Aligned(a, j + 1) /\ a \in Nat
                        /\ 2^(j + 1) = 2 * 2^j
                        /\ {c, u} = {a, a + 2^j}
  BY <1>0, <1>5, <1>6, Buddies, Powers
<1>8. s <= a /\ a + 2 * 2^j <= s + 2^o
  <2>1. Meet(s, o, a, j + 1, c)
    BY <1>0, <1>4, <1>5, <1>7 DEF Meet
  <2>2. j + 1 \in 0 .. o
    BY <1>5
  <2> QED BY <2>1, <2>2, <1>5, <1>7, Nested
<1>9. u \in s .. s + 2^o - 1 /\ u \in Nat
  BY <1>0, <1>5, <1>7, <1>8
<1>10. PICK d \in 0 .. u, i \in Order : Block(d, i) /\ u < d + 2^i /\ d \in free[i]
  BY <1>9 DEF InFreeBlock
<1>11. d \in Page /\ d \in Nat /\ IsBlock(Heads, d, i) /\ Aligned(d, i)
  BY <1>10, ListedBlock DEF Block, IsBlock
<1>12. u # c /\ GetBuddy(u, j) = c /\ Aligned(u, j)
  BY <1>5, <1>6, Buddies
<1>13. ASSUME j < i PROVE FALSE
  <2>1. Aligned(d, j + 1) /\ j + 1 \in 0 .. i
    BY <1>11, <1>13, <1>5, <1>0, AlignedDown
  <2>2. Meet(d, i, a, j + 1, u)
    BY <1>0, <1>5, <1>7, <1>9, <1>10, <1>11 DEF Meet
  <2>3. d <= a /\ a + 2 * 2^j <= d + 2^i
    BY <2>1, <2>2, <1>7, <1>9, <1>11, Nested
  <2>4. d = c
    <3>1. c \in Heads /\ d <= c /\ c < d + 2^i
      BY <2>3, <1>0, <1>5, <1>7 DEF IsBlock
    <3> QED BY <3>1, <1>11, HeadsType, HeadBegins
  <2>5. i = j
    BY <2>4, <1>5, <1>11, HeadsType, BlockOrderUnique
  <2> QED BY <2>5, <1>13
<1>14. ASSUME i < j PROVE FALSE
  <2>1. Meet(u, j, d, i, u) /\ i \in 0 .. j
    BY <1>0, <1>5, <1>9, <1>10, <1>11, <1>12, <1>14 DEF Meet
  <2>2. u <= d /\ d + 2^i <= u + 2^j
    BY <2>1, <1>5, <1>9, <1>11, Nested
  <2>3. i \in Small
    BY <2>2, <1>0, <1>5, <1>7, <1>8, <1>9, <1>10, <1>14 DEF Small
  <2> QED BY <2>3, <1>3, <1>14
<1>15. i = j
  BY <1>13, <1>14, <1>5
<1>16. d = u
  <2>1. Meet(u, j, d, j, u)
    BY <1>0, <1>5, <1>9, <1>10, <1>11, <1>12, <1>15 DEF Meet
  <2>2. u <= d
    <3>1. j \in 0 .. j
      BY <1>5
    <3> QED BY <2>1, <3>1, <1>5, <1>9, <1>11, Nested
  <2> QED BY <2>2, <1>9, <1>10
<1> QED BY <1>4, <1>5, <1>6, <1>10, <1>15, <1>16 DEF IInv, Coalesced

\* A region's pages are pages of the memory.
LEMMA RegionPagesType ==
  ASSUME NEW i \in DOMAIN Regions
  PROVE  /\ FirstPage(Regions[i]) \in Nat /\ LastPage(Regions[i]) \in Nat
         /\ Len(Regions) \in Nat /\ DOMAIN Regions = 1 .. Len(Regions)
<1> DEFINE S == [start : Nat, size : Nat \ {0}]
<1>1. Regions \in Seq(S)
  BY RegionsAssumption
<1> HIDE DEF S
<1>2. Regions[i] \in S /\ Len(Regions) \in Nat /\ DOMAIN Regions = 1 .. Len(Regions)
  BY <1>1
<1>3. PICK r \in S : r = Regions[i]
  BY <1>2
<1>4. r.start \in Nat /\ r.start + r.size - 1 \in Nat
  BY DEF S
<1>5. PageSize \in Nat /\ PageSize > 0
  BY SizesAssumption
<1>6. \A n \in Nat : n \div PageSize \in Nat
  BY <1>5
<1> QED BY <1>2, <1>3, <1>4, <1>6 DEF FirstPage, LastPage

\* The pages of a region that start has reached are still to be reserved.
LEMMA ToReserve ==
  ASSUME IInv, pc \in {"reserve", "carve"}
  PROVE  /\ region \in DOMAIN Regions /\ start \in Nat
         /\ LastPage(Regions[region]) \in Int
         /\ FirstPage(Regions[region]) <= start
         /\ \A p \in start .. LastPage(Regions[region]) :
               p \in Page /\ InFreeBlock(p)
<1>1. region \in DOMAIN Regions /\ start \in Nat
  BY DEF IInv, TypeOK
<1>3. LastPage(Regions[region]) \in Int /\ FirstPage(Regions[region]) \in Int
  BY <1>1, RegionPagesType
<1>4. FirstPage(Regions[region]) <= start
  BY DEF IInv, RegionsInv
<1>5. ASSUME NEW p \in start .. LastPage(Regions[region])
      PROVE  p \in Page /\ InFreeBlock(p)
  <2>1. p \in RegionPages(Regions[region])
    BY <1>1, <1>3, <1>4 DEF RegionPages
  <2>2. p \in Page
    BY <2>1, <1>1, RegionsAssumption
  <2>3. p \in Unreserved
    BY DEF Unreserved
  <2> QED BY <2>2, <2>3 DEF IInv, RegionsInv
<1> QED BY <1>1, <1>3, <1>4, <1>5

\* memory_reserve finds the free block in which the rest of the region begins.
LEMMA ReserveChunkStep ==
  ASSUME IInv, ReserveChunk
  PROVE  IInv'
<1>1. PICK o \in Order :
         \E q \in 0 .. start :
            /\ SegmentBlockSeq(start, LastPage(Regions[region]) - start + 1, o)
            /\ ParentOf(start, q)
            /\ order' = o /\ target' = q /\ level' = status[q]
  BY DEF ReserveChunk
<1>2. PICK q \in 0 .. start :
         /\ SegmentBlockSeq(start, LastPage(Regions[region]) - start + 1, o)
         /\ ParentOf(start, q)
         /\ order' = o /\ target' = q /\ level' = status[q]
  BY <1>1
<1>3. /\ pc = "reserve" /\ pc' = "carve" /\ start <= LastPage(Regions[region])
      /\ UNCHANGED <<status, free, region, start, asked>>
  BY DEF ReserveChunk
<1>4. /\ region \in DOMAIN Regions /\ start \in Nat
      /\ LastPage(Regions[region]) \in Int
      /\ \A p \in start .. LastPage(Regions[region]) : p \in Page /\ InFreeBlock(p)
  BY <1>3, ToReserve
<1>5. Aligned(start, o) /\ 2^o <= LastPage(Regions[region]) - start + 1
      /\ 2^o \in Nat /\ 2^o > 0
  BY <1>2, Powers DEF SegmentBlockSeq, Aligned
<1>6. start \in Page /\ InFreeBlock(start)
  BY <1>3, <1>4
<1>7. PICK b \in 0 .. start, k \in Order :
         Block(b, k) /\ start < b + 2^k /\ b \in free[k]
  BY <1>3, <1>6 DEF InFreeBlock
<1>8. b \in Page /\ b \in Nat /\ status[b] = k /\ IsBlock(Heads, b, k)
  BY <1>7, ListedBlock DEF Block
<1>9. q = b
  BY <1>2, <1>3, <1>6, <1>7, <1>8, ParentIsHead
<1>10. o <= k
  <2>1. start + 2^o - 1 <= LastPage(Regions[region])
    BY <1>4, <1>5
  <2>2. start + 2^o - 1 \in Page
    BY <2>1, <1>4, <1>5
  <2>3. start + 2^o <= TotalPage
    BY <2>2, <1>4, <1>5, TotalAligned
  <2>4. \A p \in start .. start + 2^o - 1 : InFreeBlock(p)
    BY <2>1, <1>4, <1>5
  <2> QED BY <2>3, <2>4, <1>3, <1>4, <1>5, <1>7, <1>8, ChunkInOneBlock
<1>11. target' = b /\ level' = k /\ order' = o
  BY <1>2, <1>8, <1>9
<1>12. TypeOK'
  BY <1>3, <1>8, <1>11, SizesAssumption DEF IInv, TypeOK
<1>13. Heads' = Heads
  <2>1. \A p \in Page : p \in Heads <=> status[p] # GROUPED
    BY <1>3 DEF Heads
  <2>2. status[b] # GROUPED
    BY <1>8, FlagsAreNoLevels
  <2> QED BY <2>1, <2>2, <1>3, <1>8, <1>11 DEF Heads
<1>14. BlocksTile' /\ Coalesced'
  BY <1>3, <1>13, SameTiling
<1>15. FreeListsAgree'
  BY <1>3 DEF IInv, FreeListsAgree, InFlight
<1>16. CarveInv'
  <2>1. o \in 0 .. k /\ IsBlock(Heads', b, k)
    BY <1>8, <1>10, <1>13
  <2>2. start \in b .. b + 2^k - 1 /\ start + 2^o - 1 <= LastPage(Regions[region])
    BY <1>4, <1>5, <1>7, <1>8, Powers
  <2>3. \A m \in Order : b \in free'[m] => m = k
    BY <1>3, <1>8 DEF IInv, FreeListsAgree
  <2> QED BY <2>1, <2>2, <2>3, <1>3, <1>5, <1>11 DEF CarveInv, Block
<1>17. RegionsInv'
  <2>1. \A c, i : Block(c, i)' = Block(c, i)
    BY <1>13, SameHeads
  <2>2. Unreserved' = Unreserved
    BY <1>3 DEF Unreserved
  <2>3. \A p : InFreeBlock(p) => InFreeBlock(p)'
    BY <2>1, <1>3 DEF InFreeBlock
  <2> QED BY <2>2, <2>3, <1>3 DEF IInv, RegionsInv
<1> QED BY <1>3, <1>12, <1>14, <1>15, <1>16, <1>17
        DEF IInv, SplitInv, MergeInv

\* What is left of a region is a set of pages.
LEMMA UnreservedType ==
  ASSUME IInv, pc \in {"reserve", "carve"}
  PROVE  Unreserved \in SUBSET Nat
<1>1. \A p \in start .. LastPage(Regions[region]) : p \in Nat
  BY ToReserve
<1>2. ASSUME NEW i \in region + 1 .. Len(Regions), NEW p \in RegionPages(Regions[i])
      PROVE  p \in Nat
  <2>1. region \in DOMAIN Regions
    BY DEF IInv, TypeOK
  <2>2. DOMAIN Regions = 1 .. Len(Regions) /\ Len(Regions) \in Nat
    BY <2>1, RegionPagesType
  <2>3. i \in DOMAIN Regions
    BY <2>1, <2>2
  <2> QED BY <2>3, RegionsAssumption, TotalAligned
<1> QED BY <1>1, <1>2 DEF Unreserved

\* memory_reserve halves a free block that is more than the region needs.
LEMMA CarveSplitStep ==
  ASSUME IInv, CarveSplit
  PROVE  IInv'
<1>1. /\ pc = "carve" /\ level > order /\ level - 1 \in Order /\ level \in Order
      /\ target \in Page /\ order \in Nat /\ MaxOrder \in Nat
  BY SizesAssumption DEF CarveSplit, IInv, TypeOK
<1>2. PICK t \in Page, l \in Order : t = target /\ l = level - 1
  BY <1>1
<1>3. /\ level = l + 1 /\ l < MaxOrder /\ l \in 0 .. l + 1 /\ order \in 0 .. l
      /\ l + 1 \in 0 .. MaxOrder + 1
      /\ t \in Nat /\ start \in Nat /\ 2^l \in Nat /\ 2^(l + 1) = 2 * 2^l
  BY <1>1, <1>2, TotalAligned, Powers DEF IInv, TypeOK
<1>4. /\ Block(t, l + 1) /\ IsBlock(Heads, t, l + 1) /\ Aligned(t, l + 1) /\ t \in Heads
      /\ start \in t .. t + 2^(l + 1) - 1 /\ Aligned(start, order)
      /\ start + 2^order - 1 <= LastPage(Regions[region])
      /\ \A m \in Order : t \in free[m] => m = l + 1
  BY <1>1, <1>2, <1>3 DEF IInv, CarveInv, Block, IsBlock
<1>5. Aligned(t, l)
  BY <1>3, <1>4, AlignedDown
<1>6. PICK u \in Page : u = GetBuddy(t, l)
  BY <1>5, Buddies
<1>7. u = t + 2^l /\ u # t /\ u \in Nat
  BY <1>3, <1>4, <1>5, <1>6, Buddies
<1>8. PICK kept \in Page, given \in Page :
         /\ kept = IF u <= start THEN u ELSE t
         /\ given = IF u <= start THEN t ELSE u
  OBVIOUS
<1>9. /\ target' = kept /\ level' = l
      /\ status' = [status EXCEPT ![given] = l]
      /\ free' = Insert(Remove(free, t, l + 1), given, l)
      /\ UNCHANGED <<pc, region, start, order, asked>>
  BY <1>2, <1>3, <1>6, <1>8 DEF CarveSplit
<1>10. /\ \A p \in Page : status'[p] = IF p = given THEN l ELSE status[p]
       /\ \A m \in Order, p \in Page :
             p \in free'[m] <=> \/ p = given /\ m = l
                                \/ p \in free[m] /\ ~ (p = t /\ m = l + 1)
  BY <1>3, <1>9 DEF IInv, TypeOK, Insert, Remove
<1>11. \A m \in Order, p \in Page :
             p \in free'[m] <=> \/ p = given /\ m = l
                                \/ p \in free[m] /\ p # t
  BY <1>4, <1>10
<1>12. TypeOK'
  BY <1>3, <1>9 DEF IInv, TypeOK, Insert, Remove
<1>13. Heads' = Heads \cup {u}
  <2>1. \A p \in Page : p \in Heads <=> status[p] # GROUPED \/ p = t
    BY <1>1, <1>2 DEF Heads
  <2>2. \A p \in Page : p \in Heads' <=> status'[p] # GROUPED \/ p = kept
    BY <1>1, <1>9 DEF Heads
  <2>3. l # GROUPED
    BY FlagsAreNoLevels
  <2>4. \A p \in Page : p \in Heads' <=> p \in Heads \cup {u}
    BY <2>1, <2>2, <2>3, <1>8, <1>10
  <2>5. Heads' \in SUBSET Page /\ Heads \cup {u} \in SUBSET Page
    BY HeadsType DEF Heads
  <2> QED BY <2>4, <2>5
<1>14. Halves(t, l, given)
  BY <1>3, <1>4, <1>6, <1>8, <1>11, <1>13 DEF Halves
<1>15. /\ u \notin Heads /\ IsBlock(Heads', t, l) /\ IsBlock(Heads', u, l)
       /\ \A b \in Page, k \in Order :
             b # t /\ IsBlock(Heads, b, k) => IsBlock(Heads', b, k)
       /\ BlocksTile' /\ Coalesced'
  BY <1>6, <1>7, <1>14, HalvesKeepTiling
<1>16. \A m \in Order : u \notin free[m]
  BY <1>15, ListedBlock
<1>17. FreeListsAgree'
  <2>1. \A m \in Order, p \in Page : p \in free'[m] => status'[p] = m
    BY <1>8, <1>10, <1>11, <1>16 DEF IInv, FreeListsAgree
  <2>2. ASSUME NEW p \in Page, status'[p] \in Order
        PROVE  p \in free'[status'[p]] \/ InFlight(p)'
    <3>1. CASE p = given
      BY <3>1, <1>10
    <3>2. CASE p = kept
      BY <3>2, <1>1, <1>9 DEF InFlight
    <3>3. CASE p # t /\ p # u
      BY <3>3, <2>2, <1>2, <1>8, <1>10, <1>11 DEF IInv, FreeListsAgree, InFlight
    <3> QED BY <3>1, <3>2, <3>3, <1>8
  <2> QED BY <2>1, <2>2 DEF FreeListsAgree
<1>18. CarveInv'
  <2>1. start \in kept .. kept + 2^l - 1
    BY <1>3, <1>4, <1>7, <1>8
  <2>2. \A m \in Order : kept \notin free'[m] \/ m = l
    BY <1>8, <1>7, <1>11, <1>16
  <2>3. IsBlock(Heads', kept, l)
    BY <1>8, <1>15
  <2> QED BY <2>1, <2>2, <2>3, <1>3, <1>4, <1>9 DEF CarveInv, Block
<1>19. RegionsInv'
  <2>1. Unreserved' = Unreserved
    BY <1>9 DEF Unreserved
  <2>2. ASSUME NEW p \in Unreserved PROVE InFreeBlock(p)'
    <3>1. InFreeBlock(p)
      BY <1>1 DEF IInv, RegionsInv
    <3>2. PICK b \in 0 .. p, k \in Order :
             /\ IsBlock(Heads, b, k) /\ p < b + 2^k
             /\ b \in free[k] \/ b = t
      BY <3>1, <1>1, <1>2 DEF InFreeBlock, Block
    <3>3. b \in Page /\ b \in Nat
      BY <3>2 DEF IsBlock, Heads
    <3>4. CASE b # t
      BY <3>2, <3>3, <3>4, <1>11, <1>15 DEF InFreeBlock, Block
    <3>5. CASE b = t
      <4>1. k = l + 1
        <5>1. l + 1 \in Order
          BY <1>1, <1>3
        <5> QED BY <5>1, <3>2, <3>5, <1>4, HeadsType, BlockOrderUnique
      <4>2. p < t + 2 * 2^l /\ p \in Int
        BY <4>1, <3>2, <3>5, <1>1, <1>3, UnreservedType
      <4>3. \E h \in {t, u} : h \in 0 .. p /\ p < h + 2^l
        BY <4>2, <3>2, <3>5, <1>3, <1>7
      <4>4. PICK h \in {t, u} : h \in 0 .. p /\ p < h + 2^l
        BY <4>3
      <4>5. IsBlock(Heads', h, l)
        BY <1>15
      <4>6. h \in free'[l] \/ (pc' = "carve" /\ h = target')
        BY <1>1, <1>8, <1>9, <1>10
      <4> QED BY <4>4, <4>5, <4>6 DEF InFreeBlock, Block
    <3> QED BY <3>4, <3>5
  <2> QED BY <2>1, <2>2, <1>1, <1>9 DEF IInv, RegionsInv
<1> QED BY <1>1, <1>9, <1>12, <1>15, <1>17, <1>18, <1>19
        DEF IInv, SplitInv, MergeInv

\* memory_reserve marks the block that the region fills as reserved.
LEMMA CarveDoneStep ==
  ASSUME IInv, CarveDone
  PROVE  IInv'
<1>1. /\ pc = "carve" /\ pc' = "reserve" /\ level <= order /\ level \in Order
      /\ order \in 0 .. level /\ target \in Page /\ start \in Nat
  BY DEF CarveDone, IInv, TypeOK, CarveInv
<1>2. PICK t \in Page, l \in Order : t = target /\ l = level
  BY <1>1
<1>3. /\ order = l /\ IsBlock(Heads, t, l) /\ t \in Heads /\ Aligned(t, l) /\ t \in Nat
      /\ start \in t .. t + 2^l - 1 /\ Aligned(start, l)
      /\ start + 2^l - 1 <= LastPage(Regions[region])
      /\ 2^l \in Nat /\ 2^l > 0 /\ l \in 0 .. l
      /\ \A m \in Order : t \in free[m] => m = l
  <2>1. order = l /\ t \in Nat /\ l \in 0 .. l
    BY <1>1, <1>2, TotalAligned
  <2>2. 2^l \in Nat /\ 2^l > 0
    BY Powers
  <2>3. /\ Block(t, l) /\ start \in t .. t + 2^l - 1 /\ Aligned(start, l)
        /\ start + 2^l - 1 <= LastPage(Regions[region])
        /\ \A m \in Order : t \in free[m] => m = l
    BY <1>1, <1>2, <2>1 DEF IInv, CarveInv
  <2>4. IsBlock(Heads, t, l) /\ t \in Heads /\ Aligned(t, l)
    BY <2>3 DEF Block, IsBlock
  <2> QED BY <2>1, <2>2, <2>3, <2>4
<1>4. start = t
  <2>1. Meet(start, l, t, l, start)
    BY <1>1, <1>3 DEF Meet
  <2>2. start <= t
    BY <2>1, <1>1, <1>3, Nested
  <2> QED BY <2>2, <1>1, <1>3
<1>5. /\ status' = [status EXCEPT ![t] = RESERVED] /\ free' = Remove(free, t, l)
      /\ start' = t + 2^l /\ target' = 0 /\ level' = 0 /\ order' = 0
      /\ UNCHANGED <<region, asked>>
  BY <1>3, <1>4 DEF CarveDone
<1>6. /\ \A p \in Page : status'[p] = IF p = t THEN RESERVED ELSE status[p]
      /\ \A m \in Order, p \in Page :
             p \in free'[m] <=> p \in free[m] /\ ~ (p = t /\ m = l)
  BY <1>5 DEF IInv, TypeOK, Remove
<1>7. \A m \in Order, p \in Page : p \in free'[m] <=> p \in free[m] /\ p # t
  BY <1>3, <1>6
<1>8. TypeOK'
  <2>1. 0 \in Page /\ 0 \in Order /\ 0 \in 0 .. SizeBits
    BY TotalAligned, SizesAssumption
  <2> QED BY <2>1, <1>1, <1>3, <1>5 DEF IInv, TypeOK, Remove
<1>9. Heads' = Heads
  <2>1. \A p \in Page : p \in Heads <=> status[p] # GROUPED \/ p = t
    BY <1>1, <1>2 DEF Heads
  <2>2. \A p \in Page : p \in Heads' <=> status'[p] # GROUPED
    BY <1>1 DEF Heads
  <2>3. \A p \in Page : p \in Heads' <=> p \in Heads
    BY <2>1, <2>2, <1>6, FlagsAreNoLevels
  <2> QED BY <2>3 DEF Heads
<1>10. BlocksTile' /\ Coalesced'
  BY <1>7, <1>9, SameTiling
<1>11. FreeListsAgree'
  <2>1. \A m \in Order, p \in Page : p \in free'[m] => status'[p] = m
    BY <1>6, <1>7 DEF IInv, FreeListsAgree
  <2>2. ASSUME NEW p \in Page, status'[p] \in Order
        PROVE  p \in free'[status'[p]]
    <3>1. p # t /\ status'[p] = status[p]
      BY <2>2, <1>6, FlagsAreNoLevels
    <3>2. p \in free[status[p]]
      BY <3>1, <2>2, <1>2 DEF IInv, FreeListsAgree, InFlight
    <3> QED BY <3>1, <3>2, <2>2, <1>7
  <2> QED BY <2>1, <2>2 DEF FreeListsAgree
<1>12. RegionsInv'
  <2>1. /\ region \in DOMAIN Regions /\ LastPage(Regions[region]) \in Int
        /\ FirstPage(Regions[region]) <= start /\ FirstPage(Regions[region]) \in Int
    BY <1>1, ToReserve, RegionPagesType
  <2>2. FirstPage(Regions[region']) <= start'
    BY <2>1, <1>3, <1>4, <1>5
  <2>3. ASSUME NEW p \in Unreserved'
        PROVE  p \in Unreserved /\ ~ (t <= p /\ p < t + 2^l)
    <3>1. CASE p \in start' .. LastPage(Regions[region])
      <4>1. p \in start .. LastPage(Regions[region]) /\ ~ p < t + 2^l
        BY <3>1, <2>1, <1>3, <1>4, <1>5
      <4> QED BY <4>1 DEF Unreserved
    <3>2. ASSUME NEW i \in region + 1 .. Len(Regions), p \in RegionPages(Regions[i])
          PROVE  p \in Unreserved /\ ~ (t <= p /\ p < t + 2^l)
      <4>1. DOMAIN Regions = 1 .. Len(Regions) /\ Len(Regions) \in Nat
        BY <2>1, RegionPagesType
      <4>2. i \in DOMAIN Regions /\ i # region
        BY <2>1, <4>1, <3>2
      <4>3. p \in Unreserved
        BY <3>2 DEF Unreserved
      <4>4. p \notin RegionPages(Regions[region])
        BY <2>1, <3>2, <4>2, RegionsAssumption
      <4>5. p \in Nat
        BY <4>3, <1>1, UnreservedType
      <4>6. ~ (t <= p /\ p < t + 2^l)
        BY <4>4, <4>5, <2>1, <1>3, <1>4 DEF RegionPages
      <4> QED BY <4>3, <4>6
    <3> QED BY <3>1, <3>2, <1>5 DEF Unreserved
  <2>4. ASSUME NEW p \in Unreserved' PROVE InFreeBlock(p)'
    <3>1. p \in Unreserved /\ ~ (t <= p /\ p < t + 2^l) /\ p \in Nat
      BY <2>3, <2>4, <1>1, UnreservedType
    <3>2. InFreeBlock(p)
      BY <3>1, <1>1 DEF IInv, RegionsInv
    <3>3. PICK b \in 0 .. p, k \in Order :
             /\ IsBlock(Heads, b, k) /\ p < b + 2^k
             /\ b \in free[k] \/ b = t
      BY <3>2, <1>1, <1>2 DEF InFreeBlock, Block
    <3>4. b \in Page /\ b \in Nat
      BY <3>3 DEF IsBlock, Heads
    <3>5. b # t
      <4>1. ASSUME b = t PROVE k = l
        BY <4>1, <3>3, <1>3, HeadsType, BlockOrderUnique
      <4> QED BY <4>1, <3>1, <3>3
    <3>6. b \in free'[k]
      BY <3>3, <3>4, <3>5, <1>7
    <3> QED BY <3>3, <3>6, <1>9 DEF InFreeBlock, Block
  <2> QED BY <2>2, <2>4 DEF RegionsInv
<1> QED BY <1>1, <1>5, <1>8, <1>10, <1>11, <1>12
        DEF IInv, SplitInv, MergeInv, CarveInv

\* init_mem goes on to its next region, or returns.
LEMMA NextRegionStep ==
  ASSUME IInv, NextRegion
  PROVE  IInv'
<1>1. /\ pc = "reserve" /\ pc' \in {"reserve", "idle"}
      /\ UNCHANGED <<status, free, target, level, order, asked>>
      /\ region \in DOMAIN Regions /\ region \in Nat
  BY DEF NextRegion, IInv, TypeOK
<1>2. DOMAIN Regions = 1 .. Len(Regions) /\ Len(Regions) \in Nat
  BY <1>1, RegionPagesType
<1>3. pc' = "reserve" => /\ region' = region + 1 /\ region + 1 \in DOMAIN Regions
                         /\ start' = FirstPage(Regions[region + 1])
                         /\ FirstPage(Regions[region + 1]) \in Nat
  <2>1. region < Len(Regions) => region + 1 \in DOMAIN Regions
    BY <1>1, <1>2
  <2>2. region < Len(Regions) => FirstPage(Regions[region + 1]) \in Nat
    BY <2>1, RegionPagesType
  <2> QED BY <2>1, <2>2 DEF NextRegion
<1>4. pc' = "idle" => UNCHANGED <<region, start>>
  BY <1>1 DEF NextRegion
<1>5. TypeOK'
  BY <1>1, <1>3, <1>4 DEF IInv, TypeOK
<1>6. Heads' = Heads
  BY <1>1 DEF Heads
<1>7. BlocksTile' /\ Coalesced'
  BY <1>1, <1>6, SameTiling
<1>8. FreeListsAgree'
  BY <1>1 DEF IInv, FreeListsAgree, InFlight
<1>9. RegionsInv'
  <2>1. SUFFICES ASSUME pc' = "reserve" PROVE RegionsInv'
    BY <1>1 DEF RegionsInv
  <2>2. FirstPage(Regions[region']) <= start'
    BY <2>1, <1>3
  <2>3. ASSUME NEW p \in Unreserved' PROVE p \in Unreserved
    <3>1. CASE p \in start' .. LastPage(Regions[region'])
      <4>1. p \in RegionPages(Regions[region + 1])
        BY <3>1, <2>1, <1>3 DEF RegionPages
      <4>2. region + 1 \in region + 1 .. Len(Regions)
        BY <2>1, <1>1, <1>2, <1>3
      <4> QED BY <4>1, <4>2 DEF Unreserved
    <3>2. ASSUME NEW i \in region' + 1 .. Len(Regions), p \in RegionPages(Regions[i])
          PROVE  p \in Unreserved
      <4>1. i \in region + 1 .. Len(Regions)
        BY <2>1, <1>1, <1>2, <1>3
      <4> QED BY <4>1, <3>2 DEF Unreserved
    <3> QED BY <3>1, <3>2 DEF Unreserved
  <2>4. \A p : InFreeBlock(p) => InFreeBlock(p)'
    <3>1. \A c, i : Block(c, i)' = Block(c, i)
      BY <1>6, SameHeads
    <3> QED BY <3>1, <1>1 DEF InFreeBlock
  <2> QED BY <2>2, <2>3, <2>4, <1>1 DEF IInv, RegionsInv
<1> QED BY <1>1, <1>5, <1>7, <1>8, <1>9
        DEF IInv, SplitInv, MergeInv, CarveInv
-----------------------------------------------------------------------------
(* The theorems. *)

\* Memory begins as one row of free blocks of the largest order.
LEMMA InitInv == Init => IInv
<1> SUFFICES ASSUME Init PROVE IInv
  OBVIOUS
<1> DEFINE M == MaxOrder
<1>1. /\ status = [p \in Page |-> IF p % 2^M = 0 THEN M ELSE GROUPED]
      /\ free = [l \in Order |-> IF l = M THEN {p \in Page : p % 2^M = 0} ELSE {}]
      /\ pc = IF Regions = <<>> THEN "idle" ELSE "reserve"
      /\ region = 1 /\ start = IF Regions = <<>> THEN 0 ELSE FirstPage(Regions[1])
      /\ target = 0 /\ level = 0 /\ order = 0 /\ asked = 0
  BY DEF Init
<1>2. /\ M \in Order /\ 0 \in Page /\ 0 \in Order /\ 0 \in 0 .. SizeBits
      /\ 2^M \in Nat /\ 2^M > 0 /\ TotalPage \in Nat /\ M \in 0 .. MaxOrder + 1
  BY SizesAssumption, TotalAligned, Powers
<1>3. Regions # <<>> => /\ 1 \in DOMAIN Regions
                        /\ FirstPage(Regions[1]) \in Nat
  <2> SUFFICES ASSUME Regions # <<>> PROVE 1 \in DOMAIN Regions
    BY RegionPagesType
  <2> DEFINE S == [start : Nat, size : Nat \ {0}]
  <2>1. Regions \in Seq(S)
    BY RegionsAssumption
  <2> HIDE DEF S
  <2> QED BY <2>1
<1>4. TypeOK
  <2>1. status \in [Page -> {GROUPED, OCCUPIED, RESERVED} \cup Order]
    BY <1>1, <1>2
  <2>2. free \in [Order -> SUBSET Page]
    BY <1>1
  <2> QED BY <2>1, <2>2, <1>1, <1>2, <1>3 DEF TypeOK
<1>5. \A p \in Page : p \in Heads <=> Aligned(p, M)
  <2>1. M # GROUPED
    BY <1>2, FlagsAreNoLevels
  <2>2. \A p \in Page : p \in Heads <=> status[p] # GROUPED
    BY <1>1 DEF Heads
  <2> QED BY <2>1, <2>2, <1>1 DEF Aligned
<1>6. \A p \in Page, l \in Order : p \in free[l] <=> l = M /\ Aligned(p, M)
  BY <1>1 DEF Aligned
<1>7. ASSUME NEW p \in Page, Aligned(p, M) PROVE Block(p, M)
  <2>1. p \in Nat /\ p < TotalPage /\ Aligned(TotalPage, M)
    BY <1>2, TotalAligned
  <2>2. p + 2^M <= TotalPage
    BY <2>1, <1>2, <1>7, MultipleGap DEF Aligned
  <2>3. ASSUME NEW q \in p + 1 .. p + 2^M - 1, q \in Heads PROVE FALSE
    <3>1. q \in Page /\ q \in Nat /\ Aligned(q, M) /\ p < q
      BY <2>1, <2>3, <1>2, <1>5, HeadsType
    <3>2. p + 2^M <= q
      BY <3>1, <2>1, <1>2, <1>7, MultipleGap DEF Aligned
    <3> QED BY <3>2, <2>1, <1>2
  <2>4. Aligned(p + 2^M, M)
    <3> DEFINE m == 2^M
    <3>1. m \in Nat /\ m > 0 /\ p % m = 0 /\ m % m = 0 /\ p \in Nat
      BY <1>2, <1>7, <2>1 DEF Aligned
    <3> HIDE DEF m
    <3>2. (p + m) % m = 0
      BY <3>1, MultipleSum
    <3> QED BY <3>2 DEF Aligned, m
  <2>5. p + 2^M < TotalPage => p + 2^M \in Heads
    BY <2>1, <2>4, <1>2, <1>5
  <2> QED BY <2>2, <2>3, <2>5, <1>5, <1>7 DEF Block, IsBlock
<1>8. ASSUME NEW p \in Page
      PROVE  \E b \in 0 .. p : Block(b, M) /\ p < b + 2^M /\ b \in free[M]
  <2>1. PICK b \in Page : Aligned(b, M) /\ b <= p /\ p < b + 2^M
    BY <1>2, RoundsDown
  <2> QED BY <2>1, <1>2, <1>6, <1>7
<1>9. FreeListsAgree
  <2>1. \A p \in Page : status[p] \in Order => Aligned(p, M) /\ status[p] = M
    BY <1>1, FlagsAreNoLevels DEF Aligned
  <2>2. \A l \in Order, p \in Page : p \in free[l] => status[p] = l
    BY <1>1, <1>6 DEF Aligned
  <2> QED BY <2>1, <2>2, <1>2, <1>6 DEF FreeListsAgree
<1>10. BlocksTile
  BY <1>2, <1>6, <1>7, <1>8 DEF BlocksTile
<1>11. Coalesced
  BY <1>6 DEF Coalesced
<1>12. RegionsInv
  <2> SUFFICES ASSUME Regions # <<>> PROVE RegionsInv
    BY <1>1 DEF RegionsInv
  <2>1. FirstPage(Regions[region]) <= start
    BY <1>1, <1>3
  <2>2. DOMAIN Regions = 1 .. Len(Regions) /\ Len(Regions) \in Nat
    BY <1>3, RegionPagesType
  <2>3. ASSUME NEW p \in Unreserved PROVE p \in Page
    <3>1. CASE p \in start .. LastPage(Regions[region])
      <4>1. p \in RegionPages(Regions[1])
        BY <3>1, <1>1 DEF RegionPages
      <4> QED BY <4>1, <1>3, RegionsAssumption
    <3>2. ASSUME NEW i \in region + 1 .. Len(Regions), p \in RegionPages(Regions[i])
          PROVE  p \in Page
      <4>1. i \in DOMAIN Regions
        BY <1>1, <2>2
      <4> QED BY <4>1, <3>2, RegionsAssumption
    <3> QED BY <3>1, <3>2 DEF Unreserved
  <2>4. \A p \in Page : InFreeBlock(p)
    BY <1>2, <1>8 DEF InFreeBlock
  <2> QED BY <2>1, <2>3, <2>4 DEF RegionsInv
<1> QED BY <1>1, <1>4, <1>9, <1>10, <1>11, <1>12
        DEF IInv, SplitInv, MergeInv, CarveInv

\* A step that changes nothing keeps the invariant.
LEMMA StutterStep ==
  ASSUME IInv, UNCHANGED vars
  PROVE  IInv'
<1>1. UNCHANGED <<status, free, pc, region, start, target, level, order, asked>>
  BY DEF vars
<1>2. Heads' = Heads
  BY <1>1 DEF Heads
<1>3. \A b, k : Block(b, k)' = Block(b, k)
  BY <1>2, SameHeads
<1>4. TypeOK' /\ FreeListsAgree' /\ BlocksTile' /\ Coalesced'
  BY <1>1, <1>2, SameTiling DEF IInv, TypeOK, FreeListsAgree, InFlight
<1>5. SplitInv' /\ MergeInv' /\ CarveInv'
  BY <1>1, <1>3 DEF IInv, SplitInv, MergeInv, CarveInv
<1>6. RegionsInv'
  BY <1>1, <1>3 DEF IInv, RegionsInv, Unreserved, InFreeBlock
<1> QED BY <1>4, <1>5, <1>6 DEF IInv

\* One step of any kind.
LEMMA NextInv == IInv /\ [Next]_vars => IInv'
<1> SUFFICES ASSUME IInv, [Next]_vars PROVE IInv'
  OBVIOUS
<1>1. CASE ReserveChunk
  BY <1>1, ReserveChunkStep
<1>2. CASE CarveSplit
  BY <1>2, CarveSplitStep
<1>3. CASE CarveDone
  BY <1>3, CarveDoneStep
<1>4. CASE NextRegion
  BY <1>4, NextRegionStep
<1>5. CASE Pop
  BY <1>5, PopStep
<1>6. CASE Refuse
  BY <1>6, RefuseStep
<1>7. CASE Split
  BY <1>7, SplitStep
<1>8. CASE Occupy
  BY <1>8, OccupyStep
<1>9. CASE Merge
  BY <1>9, MergeStep
<1>10. CASE \E size \in Sizes : PageAlloc(size)
  BY <1>10, PageAllocStep
<1>11. CASE \E p \in Page : PageFree(p)
  BY <1>11, PageFreeStep
<1>12. CASE UNCHANGED vars
  BY <1>12, StutterStep
<1> QED BY <1>1, <1>2, <1>3, <1>4, <1>5, <1>6, <1>7, <1>8, <1>9, <1>10, <1>11, <1>12
        DEF Next, Run, Call

\* The inductive invariant holds in every state of the allocator.
THEOREM InductiveInvariant == Spec => []IInv
<1> QED BY InitInv, NextInv, PTL DEF Spec

\* Every variable keeps its type: in particular target never leaves the page
\* array, and no level is ever above the largest order.
THEOREM TypeCorrect == Spec => []TypeOK
<1>1. IInv => TypeOK
  BY DEF IInv
<1> QED BY <1>1, InductiveInvariant, PTL

\* The free lists and page_array[].status agree at every step of every loop.
THEOREM ListsAgreeWithStatus == Spec => []FreeListsAgree
<1>1. IInv => FreeListsAgree
  BY DEF IInv
<1> QED BY <1>1, InductiveInvariant, PTL

\* The blocks tile the memory, so that two callers never own the same page.
THEOREM MemoryIsTiled == Spec => []BlocksTile
<1>1. IInv => BlocksTile
  BY DEF IInv
<1> QED BY <1>1, InductiveInvariant, PTL

\* Two free buddies are never left unmerged, so memory_reserve finds a block as
\* large as the chunk it carves.
THEOREM FreeMemoryIsCoalesced == Spec => []Coalesced
<1>1. IInv => Coalesced
  BY DEF IInv
<1> QED BY <1>1, InductiveInvariant, PTL

\* page_free never takes its error exit, which would lose the block.
THEOREM ErrorExitUnreachable == Spec => []BuddyNeverGrouped
<1>1. IInv => BuddyNeverGrouped
  BY SmallerBuddy DEF BuddyNeverGrouped, BuddyIsGrouped
<1> QED BY <1>1, InductiveInvariant, PTL
-----------------------------------------------------------------------------
(* Sizes and orders. *)

\* calculate_order finds the smallest block that holds the request; a request so
\* large that size_t wraps around is given an order that no block has.
LEMMA OrderFits ==
  ASSUME NEW size \in Sizes, NEW o \in 0 .. SizeBits, CalculateOrder(size, o)
  PROVE  /\ size \in Nat \ {0}
         /\ size <= 2^o * PageSize
         /\ \A k \in Order : k < o => 2^k * PageSize < size
<1> DEFINE W == 2^SizeBits
           m == PageSize
           s == (size + m - 1) % W
           L == (s \div m - 1) % W
<1>1. /\ m \in Nat /\ m > 0 /\ W \in Nat /\ SizeBits \in Nat /\ MaxOrder < SizeBits
      /\ size \in Nat /\ size > 0 /\ size < W
      /\ 2^MaxOrder * m + m <= W /\ MaxOrder \in Nat
  <2>1. SizeBits \in 0 .. SizeBits
    BY SizesAssumption
  <2>2. W \in Nat
    BY <2>1, PowersOfTwo
  <2> QED BY <2>2, SizesAssumption
<1>2. /\ L < 2^o
      /\ o > 0 => 2^(o - 1) <= L
  BY DEF CalculateOrder, LastPageOfRequest
<1>3. /\ 2^o \in Nat
      /\ \A k \in Order : 2^k \in Nat /\ 2^k > 0 /\ 2^k <= 2^MaxOrder
      /\ \A k \in Order : k < o => o - 1 \in 0 .. SizeBits /\ 2^k <= 2^(o - 1)
  <2>1. 2^o \in Nat
    BY <1>1, PowersOfTwo
  <2>2. \A k \in Order : k \in 0 .. SizeBits /\ MaxOrder \in 0 .. SizeBits
    BY <1>1
  <2>3. \A k \in Order : 2^k \in Nat /\ 2^k > 0 /\ 2^k <= 2^MaxOrder
    BY <1>1, <2>2, PowersOfTwo
  <2>4. \A k \in Order : k < o => o - 1 \in 0 .. SizeBits /\ k <= o - 1
    BY <1>1
  <2>5. \A k \in Order : k < o => 2^k <= 2^(o - 1)
    BY <2>2, <2>4, PowersOfTwo
  <2> QED BY <2>1, <2>3, <2>4, <2>5
<1>4. 2^MaxOrder * m \in Nat /\ m <= W /\ MaxOrder \in Order
  BY <1>1, <1>3
<1> HIDE DEF W, m, L
<1>5. CASE size + m - 1 < W
  <2> DEFINE q == (size - 1) \div m
  <2>1. s = size + m - 1
    BY <1>1, <1>5
  <2>2. s \div m = q + 1 /\ q \in Nat /\ q * m <= size - 1 /\ size - 1 < q * m + m
    BY <2>1, <1>1, RoundUp, QuotientBounds
  <2>3. q <= q * m
    BY <1>1, <2>2, ProductMonotone
  <2> HIDE DEF q
  <2>4. L = q
    <3>1. L = (q + 1 - 1) % W
      BY <2>2 DEF L
    <3>2. q + 1 - 1 = q /\ q * m \in Nat
      BY <2>2, <1>1
    <3>3. q \in Nat /\ q < W
      BY <3>2, <2>2, <2>3, <1>1
    <3> QED BY <3>1, <3>2, <3>3, <1>1
  <2>5. size <= 2^o * m
    <3>1. q + 1 <= 2^o /\ q + 1 \in Nat
      BY <1>2, <1>3, <2>2, <2>4
    <3>2. (q + 1) * m <= 2^o * m
      BY <3>1, <1>1, <1>3, ProductMonotone
    <3>3. (q + 1) * m = q * m + m /\ q * m \in Nat /\ 2^o * m \in Nat
      BY <1>1, <1>3, <2>2
    <3> QED BY <3>2, <3>3, <2>2, <1>1
  <2>6. ASSUME NEW k \in Order, k < o PROVE 2^k * m < size
    <3>1. o > 0 /\ 2^k <= 2^(o - 1) /\ 2^(o - 1) \in Nat
      <4>1. o - 1 \in 0 .. SizeBits
        BY <1>3, <2>6
      <4> QED BY <4>1, <2>6, <1>1, <1>3, PowersOfTwo
    <3>2. 2^k <= q /\ 2^k \in Nat
      BY <3>1, <1>2, <1>3, <2>2, <2>4
    <3>3. 2^k * m <= q * m /\ 2^k * m \in Nat /\ q * m \in Nat
      BY <3>2, <2>2, <1>1, ProductMonotone
    <3> QED BY <3>3, <2>2, <1>1
  <2> QED BY <1>1, <2>5, <2>6 DEF m
<1>6. CASE ~ size + m - 1 < W
  <2>1. s = size + m - 1 - W
    BY <1>1, <1>4, <1>6
  <2>2. s \in Nat /\ s < m
    BY <2>1, <1>1, <1>4, <1>6
  <2>3. s \div m = 0
    BY <2>2, <1>1
  <2>4. L = (0 - 1) % W
    BY <2>3 DEF L
  <2>5. L = W - 1
    BY <2>4, <1>1
  <2>6. W <= 2^o
    BY <2>5, <1>1, <1>2, <1>3
  <2>7. size <= 2^o * m
    <3>1. 1 * 2^o <= m * 2^o
      BY <1>1, <1>3, ProductMonotone
    <3>2. m * 2^o = 2^o * m /\ 1 * 2^o = 2^o /\ 2^o * m \in Nat
      BY <1>1, <1>3
    <3> QED BY <3>1, <3>2, <2>6, <1>1, <1>3
  <2>8. ASSUME NEW k \in Order PROVE 2^k * m < size
    <3>1. 2^k * m <= 2^MaxOrder * m /\ 2^k * m \in Nat
      BY <1>1, <1>3, <1>4, ProductMonotone
    <3> QED BY <3>1, <1>1, <1>4, <1>6
  <2> QED BY <1>1, <2>7, <2>8 DEF m
<1> QED BY <1>5, <1>6
-----------------------------------------------------------------------------
(* What callers hold and what is reserved, in terms of heads. *)

\* The block at b belongs to a caller.
Owned(b) == status[b] = OCCUPIED /\ ~ (pc = "merge" /\ b = target)

\* What PageStore calls held are the blocks with an owner.
LEMMA HeldBlocks ==
  /\ Held \subseteq Page \X Order
  /\ \A b \in Page, k \in Order :
        <<b, k>> \in Held <=> Owned(b) /\ IsBlock(Heads, b, k)
BY DEF Held, Owned, Block

\* What PageStore calls reserved are the pages of the blocks marked so.
LEMMA ReservedBlocks ==
  /\ ReservedPages \subseteq Page
  /\ \A p \in Page : p \in ReservedPages <=>
        \E b \in Page, k \in Order :
           status[b] = RESERVED /\ IsBlock(Heads, b, k) /\ b <= p /\ p < b + 2^k
<1>1. ASSUME NEW p \in Page, p \in ReservedPages
      PROVE  \E b \in Page, k \in Order :
                status[b] = RESERVED /\ IsBlock(Heads, b, k) /\ b <= p /\ p < b + 2^k
  <2>1. PICK b \in 0 .. p, k \in Order :
           status[b] = RESERVED /\ IsBlock(Heads, b, k) /\ p < b + 2^k
    BY <1>1 DEF ReservedPages, Block
  <2>2. b \in Page /\ b <= p
    BY <2>1, TotalAligned DEF IsBlock, Heads
  <2> QED BY <2>1, <2>2
<1>2. ASSUME NEW p \in Page, NEW b \in Page, NEW k \in Order,
             status[b] = RESERVED, IsBlock(Heads, b, k), b <= p, p < b + 2^k
      PROVE  p \in ReservedPages
  <2>1. b \in 0 .. p
    BY <1>2, TotalAligned
  <2> QED BY <2>1, <1>2 DEF ReservedPages, Block
<1> QED BY <1>1, <1>2 DEF ReservedPages

\* Every page lies in a block, whose head is one of the heads H.
Tiles(H) ==
  \A p \in Page : \E b \in 0 .. p, k \in Order : IsBlock(H, b, k) /\ p < b + 2^k

\* A head begins a block.
LEMMA HeadHasBlock ==
  ASSUME NEW H \in SUBSET Page, Tiles(H), NEW p \in H
  PROVE  \E k \in Order : IsBlock(H, p, k)
<1>1. PICK b \in 0 .. p, k \in Order : IsBlock(H, b, k) /\ p < b + 2^k
  BY DEF Tiles
<1>2. b \in Nat /\ b <= p
  BY <1>1, TotalAligned
<1>3. p = b
  BY <1>1, <1>2, HeadBegins
<1> QED BY <1>1, <1>3

\* A block kept by a step has the order it had.
LEMMA KeptOrder ==
  ASSUME NEW H \in SUBSET Page, NEW G \in SUBSET Page, Tiles(H),
         NEW b \in H, NEW k \in Order, IsBlock(G, b, k),
         \A j \in Order : IsBlock(H, b, j) => IsBlock(G, b, j)
  PROVE  IsBlock(H, b, k)
<1>1. PICK j \in Order : IsBlock(H, b, j)
  BY HeadHasBlock
<1>2. j = k
  BY <1>1, BlockOrderUnique
<1> QED BY <1>1, <1>2

\* IInv gives what the lemmas about blocks ask for.
LEMMA IInvTiles ==
  IInv => Heads \in SUBSET Page /\ Tiles(Heads)
BY HeadsType DEF IInv, BlocksTile, Tiles, Block

\* A step that changes statuses and heads only at the blocks t and u, neither of
\* which anybody holds or has reserved, changes nothing a caller can see.
LEMMA SameStore ==
  ASSUME IInv, IInv', NEW t \in Page, NEW u \in Page,
         \A b \in {t, u} : /\ ~ Owned(b) /\ status[b] # RESERVED
                           /\ ~ Owned(b)' /\ status'[b] # RESERVED,
         \A b \in Page \ {t, u} :
            /\ Owned(b)' <=> Owned(b)
            /\ status'[b] = status[b]
            /\ \A k \in Order : IsBlock(Heads, b, k) => IsBlock(Heads', b, k)
  PROVE  Held' = Held /\ ReservedPages' = ReservedPages
<1>1. Heads \in SUBSET Page /\ Heads' \in SUBSET Page /\ Tiles(Heads)
  BY IInvTiles DEF Heads
<1>2. ASSUME NEW b \in Page, NEW k \in Order, Owned(b) \/ status[b] = RESERVED
      PROVE  IsBlock(Heads', b, k) <=> IsBlock(Heads, b, k)
  <2>1. b \notin {t, u}
    BY <1>2
  <2>2. b \in Heads
    BY <1>2, FlagsAreNoLevels DEF Heads, Owned
  <2>3. IsBlock(Heads', b, k) => IsBlock(Heads, b, k)
    BY <2>1, <2>2, <1>1, KeptOrder
  <2> QED BY <2>1, <2>3
<1>3. /\ \A b \in Page : Owned(b)' <=> Owned(b)
      /\ \A b \in Page : status'[b] = RESERVED <=> status[b] = RESERVED
  OBVIOUS
<1>4. Held' = Held
  <2>1. \A b \in Page, k \in Order :
           <<b, k>> \in Held' <=> Owned(b)' /\ IsBlock(Heads', b, k)
    BY HeldBlocks DEF Held, Owned, Block
  <2>2. \A b \in Page, k \in Order : <<b, k>> \in Held' <=> <<b, k>> \in Held
    BY <2>1, <1>2, <1>3, HeldBlocks
  <2>3. Held' \subseteq Page \X Order /\ Held \subseteq Page \X Order
    BY DEF Held
  <2> QED BY <2>2, <2>3
<1>5. ReservedPages' = ReservedPages
  <2>1. ASSUME NEW p \in Page
        PROVE  p \in ReservedPages' <=> p \in ReservedPages
    <3>1. ASSUME NEW b \in 0 .. p
          PROVE  b \in Page
      BY TotalAligned
    <3>2. \A b \in 0 .. p, k \in Order :
             (status'[b] = RESERVED /\ IsBlock(Heads', b, k)) <=>
             (status[b] = RESERVED /\ IsBlock(Heads, b, k))
      BY <3>1, <1>2, <1>3
    <3> QED BY <3>2 DEF ReservedPages, Block
  <2> QED BY <2>1 DEF ReservedPages
<1> QED BY <1>4, <1>5

\* The same of a step that leaves the heads alone.
LEMMA SameHeadsStore ==
  ASSUME Heads' = Heads,
         \A b \in Page : Owned(b)' <=> Owned(b),
         \A b \in Page : status'[b] = RESERVED <=> status[b] = RESERVED
  PROVE  Held' = Held /\ ReservedPages' = ReservedPages
<1>1. Held' = Held
  <2>1. \A b \in Page, k \in Order : <<b, k>> \in Held' <=> <<b, k>> \in Held
    BY DEF Held, Owned, Block
  <2>2. Held' \subseteq Page \X Order /\ Held \subseteq Page \X Order
    BY DEF Held
  <2> QED BY <2>1, <2>2
<1>2. ReservedPages' = ReservedPages
  <2>1. ASSUME NEW p \in Page
        PROVE  p \in ReservedPages' <=> p \in ReservedPages
    <3>1. \A b \in 0 .. p : b \in Page
      BY TotalAligned
    <3> QED BY <3>1 DEF ReservedPages, Block
  <2> QED BY <2>1 DEF ReservedPages
<1> QED BY <1>1, <1>2

\* A block that nobody holds and nobody has reserved is a free run.
LEMMA FreeRunInHand ==
  ASSUME IInv, NEW t \in Page, NEW k \in Order, IsBlock(Heads, t, k),
         ~ Owned(t), status[t] # RESERVED
  PROVE  Store!FreeRun(t, k)
<1>1. /\ t \in Nat /\ 2^k \in Nat /\ 2^k > 0 /\ t + 2^k <= TotalPage /\ TotalPage \in Nat
      /\ t % 2^k = 0
  BY Powers, TotalAligned DEF IsBlock, Aligned
<1>2. ASSUME NEW p \in t .. t + 2^k - 1
      PROVE  p \in Page /\ p \notin Store!AllHeld /\ p \notin ReservedPages
  <2>1. p \in Page /\ p \in Nat /\ t <= p /\ p < t + 2^k
    BY <1>1
  <2>2. ASSUME NEW b \in Page, NEW j \in Order, IsBlock(Heads, b, j), b <= p, p < b + 2^j
        PROVE  b = t
    BY <2>1, <2>2, HeadsType, BlocksDisjoint
  <2>3. ASSUME NEW blk \in Held, p \in Store!Pages(blk[1], blk[2]) PROVE FALSE
    <3>1. PICK b \in Page, j \in Order : blk = <<b, j>>
      BY HeldBlocks
    <3>2. Owned(b) /\ IsBlock(Heads, b, j)
      BY <3>1, HeldBlocks
    <3>3. p \in b .. b + 2^j - 1
      BY <2>3, <3>1 DEF Store!Pages
    <3>4. b <= p /\ p < b + 2^j
      BY <3>3, <2>1, TotalAligned, Powers
    <3> QED BY <2>2, <3>2, <3>4
  <2>4. p \notin Store!AllHeld
    BY <2>3 DEF Store!AllHeld
  <2>5. p \notin ReservedPages
    BY <2>1, <2>2, ReservedBlocks
  <2> QED BY <2>1, <2>4, <2>5
<1> QED BY <1>1, <1>2 DEF Store!FreeRun, Store!Pages, Store!Page

-----------------------------------------------------------------------------
(* The steps of memory_reserve. *)

\* Nothing a caller can see changes.
StoreStutter == UNCHANGED <<Held, ReservedPages, asked>>

\* Finding a free block for memory_reserve reserves nothing yet.
LEMMA ReserveChunkStore ==
  ASSUME StoreInv, IInv', ReserveChunk
  PROVE  StatusesInHand' /\ RequestInHand' /\ StoreStutter
<1>1. /\ pc = "reserve" /\ pc' = "carve" /\ UNCHANGED <<status, region, start, asked>>
      /\ start <= LastPage(Regions[region]) /\ IInv
      /\ \E q \in 0 .. start : ParentOf(start, q) /\ target' = q
  BY DEF ReserveChunk, StoreInv
<1>2. PICK q \in 0 .. start : ParentOf(start, q) /\ target' = q
  BY <1>1
<1>3. start \in Page /\ start \in Nat /\ InFreeBlock(start)
  <2>1. /\ start \in start .. LastPage(Regions[region]) /\ start \in Nat
    BY <1>1, ToReserve
  <2> QED BY <2>1, <1>1, ToReserve
<1>4. PICK b \in 0 .. start, k \in Order :
         Block(b, k) /\ start < b + 2^k /\ b \in free[k]
  BY <1>1, <1>3 DEF InFreeBlock
<1>5. b \in Page /\ status[b] = k /\ IsBlock(Heads, b, k) /\ b <= start
  BY <1>1, <1>3, <1>4, ListedBlock DEF Block
<1>6. q = b
  BY <1>1, <1>2, <1>3, <1>4, <1>5, ParentIsHead
<1>7. status'[target'] = k /\ status'[target'] # GROUPED /\ status'[target'] # RESERVED
  BY <1>1, <1>2, <1>5, <1>6, FlagsAreNoLevels
<1>8. Heads' = Heads
  BY <1>1, <1>2, <1>5, <1>6, <1>7 DEF Heads
<1>9. StatusesInHand'
  BY <1>1, <1>7 DEF StoreInv, StatusesInHand
<1>10. RequestInHand'
  BY <1>1 DEF StoreInv, RequestInHand
<1>11. StoreStutter
  BY <1>1, <1>8, SameHeadsStore DEF StoreStutter, Owned
<1> QED BY <1>9, <1>10, <1>11

\* Halving a block for memory_reserve reserves nothing yet.
LEMMA CarveSplitStore ==
  ASSUME StoreInv, IInv', CarveSplit
  PROVE  StatusesInHand' /\ RequestInHand' /\ StoreStutter
<1>1. /\ pc = "carve" /\ pc' = "carve" /\ level > order /\ level - 1 \in Order
      /\ level \in Order /\ target \in Page /\ order \in Nat /\ asked' = asked /\ IInv
      /\ \A p \in Page : status[p] # OCCUPIED
      /\ status[target] # RESERVED
  BY SizesAssumption DEF CarveSplit, StoreInv, IInv, TypeOK, StatusesInHand
<1>2. PICK t \in Page, l \in Order : t = target /\ l = level - 1
  BY <1>1
<1>3. /\ level = l + 1 /\ l < MaxOrder /\ l \in 0 .. l + 1 /\ l + 1 \in 0 .. MaxOrder + 1
      /\ t \in Nat /\ MaxOrder \in Nat
  BY <1>1, <1>2, TotalAligned, Powers
<1>4. IsBlock(Heads, t, l + 1) /\ Aligned(t, l + 1)
  BY <1>1, <1>2, <1>3 DEF IInv, CarveInv, Block, IsBlock
<1>5. Aligned(t, l)
  BY <1>3, <1>4, AlignedDown
<1>6. PICK u \in Page : u = GetBuddy(t, l)
  BY <1>5, Buddies
<1>7. u = t + 2^l /\ u # t
  BY <1>4, <1>5, <1>6, Buddies
<1>8. PICK kept \in {t, u}, given \in {t, u} :
         /\ kept # given
         /\ target' = kept /\ status' = [status EXCEPT ![given] = l]
  <2>1. DEFINE c == IF u <= start THEN u ELSE t
               g == IF u <= start THEN t ELSE u
  <2>2. target' = c /\ status' = [status EXCEPT ![g] = l] /\ c # g /\ c \in {t, u} /\ g \in {t, u}
    BY <1>2, <1>6, <1>7 DEF CarveSplit
  <2> QED BY <2>2
<1>9. \A p \in Page : status'[p] = IF p = given THEN l ELSE status[p]
  BY <1>8, <1>1 DEF IInv, TypeOK
<1>10. /\ \A p \in Page : p \in Heads <=> status[p] # GROUPED \/ p = t
       /\ \A p \in Page : p \in Heads' <=> status'[p] # GROUPED \/ p = kept
  BY <1>1, <1>2, <1>8 DEF Heads
<1>11. Heads' = Heads \cup {u}
  <2>1. l # GROUPED
    BY FlagsAreNoLevels
  <2>2. \A p \in Page : p \in Heads' <=> p \in Heads \cup {u}
    BY <2>1, <1>8, <1>9, <1>10
  <2>3. Heads' \in SUBSET Page /\ Heads \cup {u} \in SUBSET Page
    BY HeadsType DEF Heads
  <2> QED BY <2>2, <2>3
<1>12. /\ u \notin Heads
       /\ \A b \in Page, k \in Order : b # t /\ IsBlock(Heads, b, k) => IsBlock(Heads', b, k)
  <2>1. Halved(Heads, Heads', t, u, l)
    BY <1>3, <1>4, <1>7, <1>11 DEF Halved
  <2> QED BY <2>1, HeadsType, SplitBlock
<1>13. status[u] = GROUPED
  BY <1>12, <1>10
<1>14. /\ \A p \in Page : status'[p] # OCCUPIED
       /\ \A b \in {t, u} : status[b] # RESERVED /\ status'[b] # RESERVED
  BY <1>1, <1>2, <1>9, <1>13, FlagsAreNoLevels
<1>15. \A b \in Page : ~ Owned(b) /\ ~ Owned(b)'
  BY <1>1, <1>14 DEF Owned
<1>16. \A b \in Page \ {t, u} : status'[b] = status[b]
  BY <1>8, <1>9
<1>17. Held' = Held /\ ReservedPages' = ReservedPages
  BY <1>1, <1>12, <1>14, <1>15, <1>16, SameStore
<1>18. StatusesInHand'
  BY <1>1, <1>8, <1>14 DEF StatusesInHand
<1>19. RequestInHand'
  BY <1>1 DEF StoreInv, RequestInHand
<1> QED BY <1>1, <1>17, <1>18, <1>19 DEF StoreStutter

\* The chunk is carved: from here on its pages are reserved.
LEMMA CarveDoneStore ==
  ASSUME StoreInv, IInv', CarveDone
  PROVE  /\ StatusesInHand' /\ RequestInHand'
         /\ Store!Reserve
         /\ ReservedPages' = ReservedPages \cup (start .. start' - 1)
<1>1. /\ pc = "carve" /\ pc' = "reserve" /\ level <= order /\ level \in Order
      /\ order \in 0 .. level /\ target \in Page /\ start \in Nat
      /\ \A p \in Page : status[p] # OCCUPIED
      /\ status[target] # RESERVED
      /\ asked' = asked /\ asked = 0 /\ IInv
  BY DEF CarveDone, StoreInv, IInv, TypeOK, CarveInv, StatusesInHand, RequestInHand
<1>2. PICK t \in Page, l \in Order : t = target /\ l = level
  BY <1>1
<1>3. /\ order = l /\ IsBlock(Heads, t, l) /\ t \in Heads /\ Aligned(t, l) /\ t \in Nat
      /\ start \in t .. t + 2^l - 1 /\ Aligned(start, l)
      /\ 2^l \in Nat /\ 2^l > 0 /\ l \in 0 .. l
  <2>1. order = l /\ t \in Nat /\ l \in 0 .. l
    BY <1>1, <1>2, TotalAligned
  <2>2. 2^l \in Nat /\ 2^l > 0
    BY Powers
  <2>3. Block(t, l) /\ start \in t .. t + 2^l - 1 /\ Aligned(start, l)
    BY <1>1, <1>2, <2>1 DEF IInv, CarveInv
  <2> QED BY <2>1, <2>2, <2>3 DEF Block, IsBlock
<1>4. start = t
  <2>1. Meet(start, l, t, l, start)
    BY <1>1, <1>3 DEF Meet
  <2>2. start <= t
    BY <2>1, <1>1, <1>3, Nested
  <2> QED BY <2>2, <1>1, <1>3
<1>5. status' = [status EXCEPT ![t] = RESERVED] /\ start' = t + 2^l
  BY <1>3, <1>4 DEF CarveDone
<1>6. \A p \in Page : status'[p] = IF p = t THEN RESERVED ELSE status[p]
  BY <1>5, <1>1 DEF IInv, TypeOK
<1>7. Heads' = Heads
  <2>1. \A p \in Page : p \in Heads <=> status[p] # GROUPED \/ p = t
    BY <1>1, <1>2 DEF Heads
  <2>2. \A p \in Page : p \in Heads' <=> status'[p] # GROUPED
    BY <1>1 DEF Heads
  <2>3. \A p \in Page : p \in Heads' <=> p \in Heads
    BY <2>1, <2>2, <1>6, FlagsAreNoLevels
  <2> QED BY <2>3 DEF Heads
<1>8. \A p \in Page : status'[p] # OCCUPIED
  BY <1>1, <1>6, FlagsAreNoLevels
<1>9. Held = {} /\ Held' = {}
  BY <1>1, <1>8 DEF Held
<1>10. Store!FreeRun(t, l)
  BY <1>1, <1>2, <1>3, FreeRunInHand DEF Owned
<1>11. ReservedPages' = ReservedPages \cup (t .. t + 2^l - 1)
  <2>1. t .. t + 2^l - 1 \subseteq Page
    BY <1>10 DEF Store!FreeRun, Store!Pages, Store!Page
  <2>2. ASSUME NEW p \in Page
        PROVE  p \in ReservedPages' <=> p \in ReservedPages \/ p \in t .. t + 2^l - 1
    <3>1. /\ p \in ReservedPages' <=>
                \E b \in 0 .. p, k \in Order :
                   status'[b] = RESERVED /\ IsBlock(Heads, b, k) /\ p < b + 2^k
          /\ p \in ReservedPages <=>
                \E b \in 0 .. p, k \in Order :
                   status[b] = RESERVED /\ IsBlock(Heads, b, k) /\ p < b + 2^k
      BY <1>7 DEF ReservedPages, Block
    <3>2. \A b \in 0 .. p : b \in Page
      BY TotalAligned
    <3>3. ASSUME p \in ReservedPages' PROVE p \in ReservedPages \/ p \in t .. t + 2^l - 1
      <4>1. PICK b \in 0 .. p, k \in Order :
               status'[b] = RESERVED /\ IsBlock(Heads, b, k) /\ p < b + 2^k
        BY <3>1, <3>3
      <4>2. CASE b # t
        BY <4>1, <4>2, <3>1, <3>2, <1>6
      <4>3. CASE b = t
        <5>1. k = l
          BY <4>1, <4>3, <1>3, HeadsType, BlockOrderUnique
        <5> QED BY <5>1, <4>1, <4>3, <1>3
      <4> QED BY <4>2, <4>3
    <3>4. ASSUME p \in ReservedPages PROVE p \in ReservedPages'
      BY <3>1, <3>2, <3>4, <1>6
    <3>5. ASSUME p \in t .. t + 2^l - 1 PROVE p \in ReservedPages'
      <4>1. t \in 0 .. p /\ p < t + 2^l /\ status'[t] = RESERVED
        BY <3>5, <1>3, <1>6
      <4> QED BY <4>1, <3>1, <1>3
    <3> QED BY <3>3, <3>4, <3>5
  <2>3. ReservedPages' \subseteq Page /\ ReservedPages \subseteq Page
    BY DEF ReservedPages
  <2> QED BY <2>1, <2>2, <2>3
<1>12. StatusesInHand'
  BY <1>1, <1>8 DEF StatusesInHand
<1>13. RequestInHand'
  BY <1>1 DEF RequestInHand
<1>14. Store!Reserve
  <2>1. /\ Store!FreeRun(t, l) /\ t \in Store!Page
        /\ ReservedPages' = ReservedPages \cup Store!Pages(t, l)
    BY <1>10, <1>11 DEF Store!Pages, Store!Page
  <2> QED BY <2>1, <1>1, <1>9 DEF Store!Reserve
<1> QED BY <1>4, <1>5, <1>11, <1>12, <1>13, <1>14

\* Going on to the next region reserves nothing.
LEMMA NextRegionStore ==
  ASSUME StoreInv, IInv', NextRegion
  PROVE  StatusesInHand' /\ RequestInHand' /\ StoreStutter
<1>1. /\ pc = "reserve" /\ pc' \in {"reserve", "idle"}
      /\ UNCHANGED <<status, target, order, asked>>
  BY DEF NextRegion
<1>2. Heads' = Heads
  BY <1>1 DEF Heads
<1>3. StoreStutter
  BY <1>1, <1>2, SameHeadsStore DEF StoreStutter, Owned
<1> QED BY <1>1, <1>3 DEF StoreInv, StatusesInHand, RequestInHand
-----------------------------------------------------------------------------
(* The steps of page_alloc. *)

\* The call of page_alloc promises nothing yet.
LEMMA PageAllocStore ==
  ASSUME StoreInv, IInv', NEW size \in Sizes, PageAlloc(size)
  PROVE  StatusesInHand' /\ RequestInHand' /\ Store!Ask
<1>1. /\ pc = "idle" /\ pc' = "search" /\ UNCHANGED <<status, target>> /\ asked' = size
      /\ \E o \in 0 .. SizeBits : CalculateOrder(size, o) /\ order' = o
  BY DEF PageAlloc
<1>2. asked = 0
  BY <1>1 DEF StoreInv, RequestInHand
<1>3. PICK o \in 0 .. SizeBits : CalculateOrder(size, o) /\ order' = o
  BY <1>1
<1>4. size \in Nat \ {0}
  BY <1>3, OrderFits
<1>5. Heads' = Heads
  BY <1>1 DEF Heads
<1>6. Held' = Held /\ ReservedPages' = ReservedPages
  BY <1>1, <1>5, SameHeadsStore DEF Owned
<1>7. RequestInHand'
  BY <1>1, <1>3 DEF RequestInHand, CalculateOrder
<1>8. StatusesInHand'
  BY <1>1 DEF StatusesInHand
<1> QED BY <1>1, <1>2, <1>4, <1>6, <1>7, <1>8 DEF Store!Ask

\* The block taken from a list is nobody's until it is returned.
LEMMA PopStore ==
  ASSUME StoreInv, IInv', Pop
  PROVE  StatusesInHand' /\ RequestInHand' /\ StoreStutter
<1>1. pc = "search" /\ pc' = "split" /\ UNCHANGED <<status, order, asked>>
  BY DEF Pop
<1>2. Heads' = Heads
  BY <1>1 DEF Heads
<1>3. StoreStutter
  BY <1>1, <1>2, SameHeadsStore DEF StoreStutter, Owned
<1>4. RequestInHand'
  BY <1>1 DEF StoreInv, RequestInHand, CalculateOrder
<1> QED BY <1>1, <1>3, <1>4 DEF StatusesInHand

\* While a search goes on, the blocks that belong to nobody are the listed ones.
LEMMA NobodysIsFree ==
  ASSUME IInv, pc = "search", NEW p \in Page,
         p \notin Store!AllHeld, p \notin ReservedPages
  PROVE  InFreeBlock(p)
<1>1. PICK b \in 0 .. p, k \in Order : Block(b, k) /\ p < b + 2^k
  BY DEF IInv, BlocksTile
<1>2. /\ b \in Page /\ IsBlock(Heads, b, k) /\ b \in Heads /\ b <= p
      /\ b \in Nat /\ p \in Nat /\ 2^k \in Nat
  BY <1>1, TotalAligned, Powers DEF Block, IsBlock, Heads
<1>3. status[b] # GROUPED
  BY <1>2 DEF Heads
<1>4. status[b] # RESERVED
  BY <1>1, <1>2, ReservedBlocks
<1>5. status[b] # OCCUPIED
  <2> SUFFICES ASSUME status[b] = OCCUPIED PROVE FALSE
    OBVIOUS
  <2>1. <<b, k>> \in Held
    BY <1>2, HeldBlocks DEF Owned
  <2>2. p \in Store!Pages(b, k)
    BY <1>1, <1>2 DEF Store!Pages
  <2>3. p \in Store!AllHeld
    BY <2>1, <2>2 DEF Store!AllHeld
  <2> QED BY <2>3
<1>6. status[b] \in Order
  BY <1>2, <1>3, <1>4, <1>5 DEF IInv, TypeOK
<1>7. b \in free[status[b]]
  BY <1>2, <1>6 DEF IInv, FreeListsAgree, InFlight
<1>8. IsBlock(Heads, b, status[b])
  BY <1>6, <1>7, ListedBlock DEF Block
<1>9. status[b] = k
  BY <1>2, <1>6, <1>8, HeadsType, BlockOrderUnique
<1> QED BY <1>1, <1>7, <1>9 DEF InFreeBlock

\* A run of pages that belongs to nobody lies in one listed block, because free
\* memory is coalesced.
LEMMA FreeRunListed ==
  ASSUME IInv, pc = "search", NEW b \in Page, NEW k \in Order, Store!FreeRun(b, k)
  PROVE  \E i \in k .. MaxOrder : free[i] # {}
<1>1. /\ b \in Nat /\ 2^k \in Nat /\ 2^k > 0 /\ TotalPage \in Nat /\ Aligned(b, k)
      /\ MaxOrder \in Nat
  BY Powers, TotalAligned DEF Store!FreeRun, Aligned
<1>2. \A p \in b .. b + 2^k - 1 : p \in Page /\ InFreeBlock(p)
  BY NobodysIsFree DEF Store!FreeRun, Store!Pages, Store!Page
<1>3. b + 2^k <= TotalPage
  <2>1. b + 2^k - 1 \in Page
    BY <1>1, <1>2
  <2> QED BY <2>1, <1>1
<1>4. PICK c \in 0 .. b, i \in Order : Block(c, i) /\ b < c + 2^i /\ c \in free[i]
  <2>1. b \in b .. b + 2^k - 1
    BY <1>1
  <2>2. InFreeBlock(b)
    BY <2>1, <1>2
  <2> QED BY <2>2 DEF InFreeBlock
<1>5. c \in Page /\ c <= b
  BY <1>1, <1>4, ListedBlock
<1>6. k <= i
  BY <1>1, <1>2, <1>3, <1>4, <1>5, ChunkInOneBlock
<1>7. i \in k .. MaxOrder
  BY <1>1, <1>6
<1> QED BY <1>4, <1>7

\* page_alloc returns NULL only if no aligned run of the size asked is free.
LEMMA RefuseStore ==
  ASSUME StoreInv, IInv', Refuse
  PROVE  StatusesInHand' /\ RequestInHand' /\ Store!Refuse
<1>1. /\ pc = "search" /\ pc' = "idle" /\ status' = status /\ asked' = 0
      /\ \A l \in order .. MaxOrder : free[l] = {}
      /\ IInv /\ asked \in Sizes /\ CalculateOrder(asked, order) /\ order \in 0 .. SizeBits
  BY DEF Refuse, Return, StoreInv, RequestInHand, IInv, TypeOK
<1>2. Heads' = Heads
  BY <1>1 DEF Heads
<1>3. Held' = Held /\ ReservedPages' = ReservedPages
  BY <1>1, <1>2, SameHeadsStore DEF Owned
<1>4. asked # 0
  BY <1>1, OrderFits
<1>5. ASSUME NEW b \in Page, NEW k \in Order, Store!FreeRun(b, k)
      PROVE  2^k * PageSize < asked
  <2>1. PICK i \in k .. MaxOrder : free[i] # {}
    BY <1>1, <1>5, FreeRunListed
  <2>2. k < order
    BY <2>1, <1>1, SizesAssumption
  <2> QED BY <2>2, <1>1, OrderFits
<1>6. Store!Refuse
  BY <1>1, <1>3, <1>4, <1>5 DEF Store!Refuse, Store!Page
<1> QED BY <1>1, <1>6 DEF StatusesInHand, RequestInHand

\* Halving the block in hand grants nothing.
LEMMA SplitStore ==
  ASSUME StoreInv, IInv', Split
  PROVE  StatusesInHand' /\ RequestInHand' /\ StoreStutter
<1>1. /\ target \in Page /\ status[target] \in order .. MaxOrder /\ status[target] > order
      /\ Block(target, status[target]) /\ order \in Nat /\ pc = "split" /\ MaxOrder \in Nat
      /\ UNCHANGED <<pc, target, order, asked>> /\ IInv
  BY SizesAssumption DEF StoreInv, IInv, TypeOK, SplitInv, Split
<1>2. PICK t \in Page, l \in Order : t = target /\ l = status[target] - 1
  BY <1>1
<1>3. /\ l < MaxOrder /\ status[t] = l + 1 /\ l + 1 \in Order
      /\ l \in 0 .. l + 1 /\ l + 1 \in 0 .. MaxOrder + 1 /\ t \in Nat
  BY <1>1, <1>2, TotalAligned
<1>4. IsBlock(Heads, t, l + 1) /\ Aligned(t, l + 1) /\ t \in Heads
  BY <1>1, <1>2, <1>3 DEF Block, IsBlock
<1>5. Aligned(t, l)
  BY <1>3, <1>4, AlignedDown
<1>6. PICK u \in Page : u = GetBuddy(t, l)
  BY <1>5, Buddies
<1>7. u = t + 2^l
  BY <1>4, <1>5, <1>6, Buddies
<1>8. status' = [status EXCEPT ![t] = l, ![u] = l]
  BY <1>2, <1>6 DEF Split
<1>9. \A p \in Page : status'[p] = IF p = t \/ p = u THEN l ELSE status[p]
  BY <1>1, <1>3, <1>8 DEF IInv, TypeOK
<1>10. Heads' = Heads \cup {u}
  <2>1. l # GROUPED
    BY FlagsAreNoLevels
  <2>2. \A p \in Page : p \in Heads <=> status[p] # GROUPED
    BY <1>1 DEF Heads
  <2>3. \A p \in Page : p \in Heads' <=> status'[p] # GROUPED
    BY <1>1 DEF Heads
  <2>4. \A p \in Page : p \in Heads' <=> p \in Heads \cup {u}
    BY <2>1, <2>2, <2>3, <1>4, <1>9
  <2> QED BY <2>4, HeadsType DEF Heads
<1>11. /\ u \notin Heads
       /\ \A b \in Page, k \in Order : b # t /\ IsBlock(Heads, b, k) => IsBlock(Heads', b, k)
  <2>1. Halved(Heads, Heads', t, u, l)
    BY <1>3, <1>4, <1>7, <1>10 DEF Halved
  <2> QED BY <2>1, HeadsType, SplitBlock
<1>12. status[u] = GROUPED
  BY <1>1, <1>11 DEF Heads
<1>13. \A b \in {t, u} : /\ ~ Owned(b) /\ status[b] # RESERVED
                         /\ ~ Owned(b)' /\ status'[b] # RESERVED
  BY <1>1, <1>3, <1>9, <1>12, FlagsAreNoLevels DEF Owned
<1>14. \A b \in Page \ {t, u} :
            /\ Owned(b)' <=> Owned(b)
            /\ status'[b] = status[b]
            /\ \A k \in Order : IsBlock(Heads, b, k) => IsBlock(Heads', b, k)
  BY <1>1, <1>9, <1>11 DEF Owned
<1>15. Held' = Held /\ ReservedPages' = ReservedPages
  BY <1>1, <1>13, <1>14, SameStore
<1>16. StatusesInHand' /\ RequestInHand'
  BY <1>1 DEF StoreInv, StatusesInHand, RequestInHand, CalculateOrder
<1> QED BY <1>1, <1>15, <1>16 DEF StoreStutter

\* page_alloc grants an aligned run that was nobody's, no longer than it must be.
LEMMA OccupyStore ==
  ASSUME StoreInv, IInv', Occupy
  PROVE  StatusesInHand' /\ RequestInHand' /\ Store!Grant
<1>1. /\ pc = "split" /\ pc' = "idle" /\ asked' = 0 /\ target \in Page
      /\ status[target] \in order .. MaxOrder /\ status[target] <= order
      /\ status' = [status EXCEPT ![target] = OCCUPIED]
      /\ Block(target, status[target]) /\ IInv
      /\ asked \in Sizes /\ CalculateOrder(asked, order) /\ order \in 0 .. SizeBits
  BY DEF Occupy, Return, StoreInv, RequestInHand, IInv, TypeOK, SplitInv
<1>2. PICK t \in Page, k \in Order : t = target /\ k = order /\ status[t] = k
  BY <1>1, SizesAssumption
<1>3. IsBlock(Heads, t, k) /\ t \in Heads
  BY <1>1, <1>2 DEF Block, IsBlock
<1>4. \A p \in Page : status'[p] = IF p = t THEN OCCUPIED ELSE status[p]
  BY <1>1, <1>2 DEF IInv, TypeOK
<1>5. Heads' = Heads
  <2>1. \A p \in Page : p \in Heads <=> status[p] # GROUPED
    BY <1>1 DEF Heads
  <2>2. \A p \in Page : p \in Heads' <=> status'[p] # GROUPED
    BY <1>1 DEF Heads
  <2>3. \A p \in Page : p \in Heads' <=> p \in Heads
    BY <2>1, <2>2, <1>2, <1>4, FlagsAreNoLevels
  <2> QED BY <2>3 DEF Heads
<1>6. ReservedPages' = ReservedPages
  <2>1. \A b \in Page : status'[b] = RESERVED <=> status[b] = RESERVED
    BY <1>2, <1>4, FlagsAreNoLevels
  <2>2. ASSUME NEW p \in Page PROVE p \in ReservedPages' <=> p \in ReservedPages
    <3>1. \A b \in 0 .. p : b \in Page
      BY TotalAligned
    <3> QED BY <3>1, <2>1, <1>5 DEF ReservedPages, Block
  <2> QED BY <2>2 DEF ReservedPages
<1>7. Held' = Held \cup {<<t, k>>}
  <2>1. \A b \in Page : Owned(b)' <=> b = t \/ Owned(b)
    BY <1>1, <1>4 DEF Owned
  <2>2. ASSUME NEW b \in Page, NEW j \in Order
        PROVE  <<b, j>> \in Held' <=> <<b, j>> \in Held \/ <<b, j>> = <<t, k>>
    <3>1. <<b, j>> \in Held' <=> Owned(b)' /\ IsBlock(Heads, b, j)
      BY <1>5 DEF Held, Owned, Block
    <3>2. IsBlock(Heads, t, j) <=> j = k
      BY <1>3, HeadsType, BlockOrderUnique
    <3>3. ~ Owned(t)
      BY <1>2, FlagsAreNoLevels DEF Owned
    <3> QED BY <3>1, <3>2, <3>3, <2>1, HeldBlocks
  <2>3. Held' \subseteq Page \X Order /\ Held \subseteq Page \X Order
    BY DEF Held
  <2> QED BY <2>2, <2>3
<1>8. Store!FreeRun(t, k)
  BY <1>1, <1>2, <1>3, FlagsAreNoLevels, FreeRunInHand DEF Owned
<1>9. /\ asked # 0 /\ asked <= 2^k * PageSize
      /\ k > 0 => 2^(k - 1) * PageSize < asked
  <2>1. k > 0 => k - 1 \in Order /\ k - 1 < k
    BY SizesAssumption
  <2> QED BY <2>1, <1>1, <1>2, OrderFits
<1>10. Store!Grant
  BY <1>1, <1>6, <1>7, <1>8, <1>9 DEF Store!Grant, Store!Page
<1> QED BY <1>1, <1>10 DEF StatusesInHand, RequestInHand
-----------------------------------------------------------------------------
(* The steps of page_free. *)

\* page_free takes the whole block from its holder.
LEMMA PageFreeStore ==
  ASSUME StoreInv, IInv', NEW p \in Page, PageFree(p)
  PROVE  StatusesInHand' /\ RequestInHand' /\ Store!Release
<1>1. /\ pc = "idle" /\ pc' = "merge" /\ status[p] = OCCUPIED /\ target' = p
      /\ UNCHANGED <<status, asked>> /\ IInv /\ asked = 0
  BY DEF PageFree, StoreInv, RequestInHand
<1>2. Heads' = Heads
  BY <1>1 DEF Heads
<1>3. p \in Heads
  BY <1>1, FlagsAreNoLevels DEF Heads
<1>4. PICK k \in Order : IsBlock(Heads, p, k)
  BY <1>1, <1>3, IInvTiles, HeadHasBlock
<1>5. <<p, k>> \in Held
  BY <1>1, <1>4, HeldBlocks DEF Owned
<1>6. ReservedPages' = ReservedPages
  BY <1>1, <1>2 DEF ReservedPages, Block
<1>7. Held' = Held \ {<<p, k>>}
  <2>1. \A b \in Page : Owned(b)' <=> b # p /\ Owned(b)
    BY <1>1 DEF Owned
  <2>2. ASSUME NEW b \in Page, NEW j \in Order
        PROVE  <<b, j>> \in Held' <=> <<b, j>> \in Held /\ <<b, j>> # <<p, k>>
    <3>1. <<b, j>> \in Held' <=> Owned(b)' /\ IsBlock(Heads, b, j)
      BY <1>2 DEF Held, Owned, Block
    <3>2. IsBlock(Heads, p, j) <=> j = k
      BY <1>4, HeadsType, BlockOrderUnique
    <3> QED BY <3>1, <3>2, <2>1, HeldBlocks
  <2>3. Held' \subseteq Page \X Order /\ Held \subseteq Page \X Order
    BY DEF Held
  <2> QED BY <2>2, <2>3
<1>8. Store!Release
  BY <1>1, <1>5, <1>6, <1>7 DEF Store!Release
<1> QED BY <1>1, <1>8, FlagsAreNoLevels DEF StatusesInHand, RequestInHand

\* Joining free buddies changes nothing for callers.
LEMMA MergeStore ==
  ASSUME StoreInv, IInv', Merge
  PROVE  StatusesInHand' /\ RequestInHand' /\ StoreStutter
<1>1. /\ pc = "merge" /\ IInv /\ asked = 0 /\ status[target] # RESERVED
      /\ \/ StopsAt(target, level, GetBuddy(target, level))
         \/ JoinsAt(target, level, GetBuddy(target, level))
  BY MergeTurn DEF StoreInv, StatusesInHand, RequestInHand, Merge
<1>2. PICK t \in Page, l \in Order : t = target /\ l = level
  BY <1>1 DEF IInv, TypeOK
<1>3. PICK k \in l .. MaxOrder : Block(t, k)
  BY <1>1, <1>2 DEF IInv, MergeInv
<1>4. /\ k \in Order /\ l \in 0 .. k /\ k \in 0 .. MaxOrder + 1 /\ t \in Nat
      /\ IsBlock(Heads, t, k) /\ t \in Heads
  BY <1>3, TotalAligned, SizesAssumption DEF Block, IsBlock
<1>5. Aligned(t, l)
  BY <1>3, <1>4, AlignedDown DEF Block, IsBlock
<1>6. PICK u \in Page : u = GetBuddy(t, l) /\ u # t
  BY <1>5, Buddies
<1>7. CASE StopsAt(t, l, u)
  <2>1. /\ status' = [status EXCEPT ![t] = l] /\ pc' = "idle" /\ asked' = 0
    BY <1>7 DEF StopsAt, Return
  <2>2. \A p \in Page : status'[p] = IF p = t THEN l ELSE status[p]
    BY <2>1, <1>1 DEF IInv, TypeOK
  <2>3. Heads' = Heads
    <3>1. \A p \in Page : p \in Heads <=> status[p] # GROUPED
      BY <1>1 DEF Heads
    <3>2. \A p \in Page : p \in Heads' <=> status'[p] # GROUPED
      BY <2>1 DEF Heads
    <3>3. \A p \in Page : p \in Heads' <=> p \in Heads
      BY <3>1, <3>2, <2>2, <1>4, FlagsAreNoLevels
    <3> QED BY <3>3 DEF Heads
  <2>4. \A b \in Page : Owned(b)' <=> Owned(b)
    BY <2>1, <2>2, <1>1, <1>2, FlagsAreNoLevels DEF Owned
  <2>5. \A b \in Page : status'[b] = RESERVED <=> status[b] = RESERVED
    BY <2>2, <1>1, <1>2, FlagsAreNoLevels
  <2>6. Held' = Held /\ ReservedPages' = ReservedPages
    BY <2>3, <2>4, <2>5, SameHeadsStore
  <2> QED BY <2>1, <2>6, <1>1 DEF StatusesInHand, RequestInHand, StoreStutter
<1>8. CASE JoinsAt(t, l, u) /\ status[u] = GROUPED
  <2>1. u > t
    BY <1>8, <1>4, <1>6, TotalAligned DEF JoinsAt
  <2>2. /\ status' = [status EXCEPT ![u] = GROUPED] /\ target' = t
        /\ UNCHANGED <<pc, asked>>
    BY <2>1, <1>4, <1>8, TotalAligned DEF JoinsAt
  <2>3. status' = status
    BY <2>2, <1>1, <1>8 DEF IInv, TypeOK
  <2>4. Heads' = Heads
    BY <2>2, <2>3, <1>1 DEF Heads
  <2>5. Held' = Held /\ ReservedPages' = ReservedPages
    BY <2>2, <2>3, <2>4, <1>2, SameHeadsStore DEF Owned
  <2> QED BY <2>2, <2>3, <2>5, <1>1, <1>2 DEF StatusesInHand, RequestInHand, StoreStutter
<1>9. CASE JoinsAt(t, l, u) /\ status[u] # GROUPED
  <2>1. status[u] = l /\ l < MaxOrder
    BY <1>9 DEF JoinsAt, Mergeable
  <2>2. k = l
    <3> SUFFICES ASSUME l < k PROVE FALSE
      BY <1>4
    <3>1. l + 1 \in 0 .. k /\ l \in 0 .. MaxOrder + 1
      BY <1>4, SizesAssumption
    <3>2. Aligned(t, l + 1)
      BY <3>1, <1>4, AlignedDown DEF IsBlock
    <3>3. u = t + 2^l /\ 2^l < 2^k /\ 2^l \in Nat /\ 2^l > 0 /\ 2^k \in Nat
      BY <3>1, <3>2, <1>4, <1>5, <1>6, Buddies, Powers, PowersIncrease
    <3>4. u \notin Heads
      BY <3>3, <1>4 DEF IsBlock
    <3> QED BY <3>4, <1>9 DEF Heads
  <2>3. u \in free[l] /\ status[u] = l
    BY <1>1, <1>2, <1>3, <1>6, <1>9, <2>2, BuddyListed
  <2>4. IsBlock(Heads, u, l) /\ u \in Heads
    BY <2>3, <1>1, ListedBlock DEF Block
  <2>5. PICK low \in Page, high \in Page :
           /\ low = IF t > u THEN u ELSE t
           /\ high = IF t > u THEN t ELSE u
    OBVIOUS
  <2>6. high = low + 2^l /\ Aligned(low, l + 1) /\ low # high /\ {low, high} = {t, u}
    BY <2>5, <1>4, <1>5, <1>6, Buddies, Powers, TotalAligned
  <2>7. /\ status' = [status EXCEPT ![high] = GROUPED] /\ target' = low
        /\ UNCHANGED <<pc, asked>>
    BY <2>5, <1>9 DEF JoinsAt
  <2>8. \A p \in Page : status'[p] = IF p = high THEN GROUPED ELSE status[p]
    BY <2>7, <1>1 DEF IInv, TypeOK
  <2>9. Heads' = Heads \ {high}
    <3>1. \A p \in Page : p \in Heads <=> status[p] # GROUPED
      BY <1>1 DEF Heads
    <3>2. \A p \in Page : p \in Heads' <=> status'[p] # GROUPED
      BY <2>7, <1>1 DEF Heads
    <3>3. \A p \in Page : p \in Heads' <=> p \in Heads \ {high}
      BY <3>1, <3>2, <2>8
    <3> QED BY <3>3 DEF Heads
  <2>10. \A b \in Page, j \in Order :
             b # low /\ b # high /\ IsBlock(Heads, b, j) => IsBlock(Heads', b, j)
    <3>1. IsBlock(Heads, t, l)
      BY <1>4, <2>2
    <3>2. Joined(Heads, Heads', low, high, l)
      BY <3>1, <2>1, <2>4, <2>5, <2>6, <2>9 DEF Joined
    <3> QED BY <3>2, HeadsType, JoinBlocks
  <2>11. \A b \in {t, u} : /\ ~ Owned(b) /\ status[b] # RESERVED
                           /\ ~ Owned(b)' /\ status'[b] # RESERVED
    BY <2>1, <2>6, <2>7, <2>8, <1>1, <1>2, FlagsAreNoLevels DEF Owned
  <2>12. \A b \in Page \ {t, u} :
            /\ Owned(b)' <=> Owned(b)
            /\ status'[b] = status[b]
            /\ \A j \in Order : IsBlock(Heads, b, j) => IsBlock(Heads', b, j)
    BY <2>6, <2>7, <2>8, <2>10, <1>1, <1>2 DEF Owned
  <2>13. Held' = Held /\ ReservedPages' = ReservedPages
    BY <2>11, <2>12, <1>1, SameStore
  <2>14. status'[target'] # RESERVED
    BY <2>6, <2>7, <2>11
  <2> QED BY <2>7, <2>13, <2>14, <1>1 DEF StatusesInHand, RequestInHand, StoreStutter
<1> QED BY <1>1, <1>2, <1>6, <1>7, <1>8, <1>9
-----------------------------------------------------------------------------
(* The theorems that rest on StoreInv. *)

\* The memory before boot: nothing is held or reserved.
LEMMA StoreInit == Init => StoreInv /\ Store!StoreInit
<1> SUFFICES ASSUME Init PROVE StoreInv /\ Store!StoreInit
  OBVIOUS
<1>1. IInv
  BY InitInv
<1>2. /\ pc \in {"reserve", "idle"} /\ asked = 0
      /\ \A p \in Page : status[p] = MaxOrder \/ status[p] = GROUPED
      /\ region = 1 /\ start = IF Regions = <<>> THEN 0 ELSE FirstPage(Regions[1])
      /\ pc = IF Regions = <<>> THEN "idle" ELSE "reserve"
  BY DEF Init
<1>3. \A p \in Page : status[p] # OCCUPIED /\ status[p] # RESERVED
  BY <1>2, FlagsAreNoLevels, SizesAssumption
<1>4. Held = {}
  BY <1>3 DEF Held
<1>5. ReservedPages = {}
  BY <1>3, ReservedBlocks
<1>6. RegionsReserved
  <2>1. CASE Regions = <<>>
    BY <2>1, <1>2 DEF RegionsReserved
  <2>2. CASE Regions # <<>>
    <3>1. \A p \in RegionPages(Regions[1]) : ~ p < start
      <4>1. 1 \in DOMAIN Regions
        <5> DEFINE S == [start : Nat, size : Nat \ {0}]
        <5>1. Regions \in Seq(S)
          BY RegionsAssumption
        <5> HIDE DEF S
        <5> QED BY <5>1, <2>2
      <4>2. FirstPage(Regions[1]) \in Nat /\ LastPage(Regions[1]) \in Nat
        BY <4>1, RegionPagesType
      <4> QED BY <4>2, <2>2, <1>2 DEF RegionPages
    <3> QED BY <3>1, <2>2, <1>2 DEF RegionsReserved
  <2> QED BY <2>1, <2>2
<1> QED BY <1>1, <1>2, <1>3, <1>4, <1>5, <1>6
        DEF StoreInv, StatusesInHand, RequestInHand, Store!StoreInit

\* Whatever the allocator does, PageStore does, or nothing.
LEMMA StoreStep ==
  ASSUME StoreInv, [Next]_vars
  PROVE  /\ IInv' /\ StatusesInHand' /\ RequestInHand'
         /\ [Store!StoreNext]_(Store!storeVars)
<1>1. IInv'
  BY NextInv DEF StoreInv
<1>2. ASSUME StoreStutter PROVE [Store!StoreNext]_(Store!storeVars)
  BY <1>2 DEF StoreStutter, Store!storeVars
<1>3. CASE ReserveChunk
  BY <1>1, <1>2, <1>3, ReserveChunkStore
<1>4. CASE CarveSplit
  BY <1>1, <1>2, <1>4, CarveSplitStore
<1>5. CASE CarveDone
  BY <1>1, <1>5, CarveDoneStore DEF Store!StoreNext
<1>6. CASE NextRegion
  BY <1>1, <1>2, <1>6, NextRegionStore
<1>7. CASE Pop
  BY <1>1, <1>2, <1>7, PopStore
<1>8. CASE Refuse
  BY <1>1, <1>8, RefuseStore DEF Store!StoreNext
<1>9. CASE Split
  BY <1>1, <1>2, <1>9, SplitStore
<1>10. CASE Occupy
  BY <1>1, <1>10, OccupyStore DEF Store!StoreNext
<1>11. CASE Merge
  BY <1>1, <1>2, <1>11, MergeStore
<1>12. CASE \E size \in Sizes : PageAlloc(size)
  BY <1>1, <1>12, PageAllocStore DEF Store!StoreNext
<1>13. CASE \E p \in Page : PageFree(p)
  BY <1>1, <1>13, PageFreeStore DEF Store!StoreNext
<1>14. CASE UNCHANGED vars
  <2>1. UNCHANGED <<status, free, pc, region, start, target, level, order, asked>>
    BY <1>14 DEF vars
  <2>2. Heads' = Heads
    BY <2>1 DEF Heads
  <2>3. StoreStutter
    BY <2>1, <2>2, SameHeadsStore DEF StoreStutter, Owned
  <2> QED BY <2>1, <2>3, <1>1, <1>2
          DEF StoreInv, StatusesInHand, RequestInHand, CalculateOrder
<1> QED BY <1>3, <1>4, <1>5, <1>6, <1>7, <1>8, <1>9, <1>10, <1>11, <1>12, <1>13, <1>14
        DEF Next, Run, Call

\* Reserved pages are never given back.
LEMMA ReservedGrows ==
  ASSUME StoreInv, [Next]_vars
  PROVE  ReservedPages \subseteq ReservedPages'
BY StoreStep
DEF Store!StoreNext, Store!storeVars, Store!Reserve, Store!Ask, Store!Grant,
    Store!Refuse, Store!Release

\* A step keeps the regions that are done in reserved pages.
LEMMA RegionsReservedStep ==
  ASSUME StoreInv, [Next]_vars
  PROVE  RegionsReserved'
<1>1. IInv /\ IInv' /\ ReservedPages \subseteq ReservedPages'
  BY StoreStep, ReservedGrows DEF StoreInv
<1>2. CASE pc' = "reserve" /\ CarveDone
  <2>1. /\ pc = "carve" /\ region' = region
        /\ ReservedPages' = ReservedPages \cup (start .. start' - 1)
        /\ region \in DOMAIN Regions
    BY <1>1, <1>2, CarveDoneStore DEF CarveDone, IInv, TypeOK
  <2>2. ASSUME NEW i \in 1 .. region, NEW p \in RegionPages(Regions[i]),
               i < region \/ p < start'
        PROVE  p \in ReservedPages'
    <3>1. CASE i < region \/ p < start
      BY <3>1, <2>1 DEF StoreInv, RegionsReserved
    <3>2. CASE ~ (i < region \/ p < start)
      <4>1. i \in DOMAIN Regions
        BY <2>1, RegionPagesType
      <4>2. p \in Int /\ start \in Nat /\ start' \in Nat
        BY <4>1, <1>1, RegionPagesType DEF IInv, TypeOK, RegionPages
      <4>3. PICK s \in Nat, n \in Nat : s = start /\ n = start'
        BY <4>2
      <4>4. s <= p /\ p < n
        BY <4>2, <4>3, <2>2, <3>2
      <4>5. p \in s .. n - 1
        BY <4>2, <4>4
      <4> QED BY <4>3, <4>5, <2>1
    <3> QED BY <3>1, <3>2
  <2> QED BY <2>1, <2>2, <1>2 DEF RegionsReserved
<1>3. CASE NextRegion
  <2>1. /\ pc = "reserve" /\ start > LastPage(Regions[region])
        /\ region \in DOMAIN Regions /\ start \in Nat
        /\ Len(Regions) \in Nat /\ DOMAIN Regions = 1 .. Len(Regions)
    BY <1>1, <1>3, RegionPagesType DEF NextRegion, IInv, TypeOK
  <2>2. ASSUME NEW i \in 1 .. region, NEW p \in RegionPages(Regions[i])
        PROVE  p \in ReservedPages'
    <3>1. i < region \/ p < start
      <4>1. ASSUME i = region PROVE p < start
        <5>1. FirstPage(Regions[region]) \in Nat /\ LastPage(Regions[region]) \in Nat
          BY <2>1, RegionPagesType
        <5> QED BY <5>1, <4>1, <2>1, <2>2 DEF RegionPages
      <4> QED BY <4>1, <2>1
    <3> QED BY <3>1, <2>1, <1>1 DEF StoreInv, RegionsReserved
  <2>3. CASE region < Len(Regions)
    <3>1. /\ region' = region + 1 /\ start' = FirstPage(Regions[region + 1])
          /\ pc' = "reserve" /\ region + 1 \in DOMAIN Regions
      BY <1>3, <2>1, <2>3 DEF NextRegion
    <3>2. FirstPage(Regions[region + 1]) \in Nat /\ LastPage(Regions[region + 1]) \in Nat
      BY <3>1, RegionPagesType
    <3>3. ASSUME NEW i \in 1 .. region', NEW p \in RegionPages(Regions[i]),
                 i < region' \/ p < start'
          PROVE  p \in ReservedPages'
      <4>1. i # region + 1
        BY <3>1, <3>2, <3>3 DEF RegionPages
      <4>2. i \in 1 .. region
        BY <4>1, <3>1, <2>1
      <4> QED BY <4>2, <2>2
    <3> QED BY <3>1, <3>3 DEF RegionsReserved
  <2>4. CASE ~ region < Len(Regions)
    <3>1. pc' = "idle" /\ region = Len(Regions)
      BY <1>3, <2>1, <2>4 DEF NextRegion
    <3>2. \A i \in DOMAIN Regions : RegionPages(Regions[i]) \subseteq ReservedPages'
      BY <3>1, <2>1, <2>2
    <3> QED BY <3>1, <3>2 DEF RegionsReserved
  <2> QED BY <2>3, <2>4
<1>4. CASE pc' \in {"reserve", "carve"} /\ ~ CarveDone /\ ~ NextRegion
  <2>1. pc \in {"reserve", "carve"} /\ UNCHANGED <<region, start>>
    BY <1>4 DEF Next, Run, Call, vars, ReserveChunk, CarveSplit, Pop, Refuse, Split,
                Occupy, Merge, PageAlloc, PageFree, Return
  <2> QED BY <2>1, <1>1, <1>4 DEF StoreInv, RegionsReserved
<1>5. CASE pc' \notin {"reserve", "carve"} /\ ~ NextRegion
  <2>1. pc \notin {"reserve", "carve"}
    BY <1>5 DEF Next, Run, Call, vars, ReserveChunk, CarveSplit, CarveDone, Pop, Refuse,
                Split, Occupy, Merge, PageAlloc, PageFree
  <2> QED BY <2>1, <1>1, <1>5 DEF StoreInv, RegionsReserved
<1>6. CarveDone => pc' = "reserve"
  BY DEF CarveDone
<1> QED BY <1>2, <1>3, <1>4, <1>5, <1>6

\* The invariant behind the promises of PageStore holds in every state.
THEOREM StoreInvariant == Spec => []StoreInv
<1>1. Init => StoreInv
  BY StoreInit
<1>2. StoreInv /\ [Next]_vars => StoreInv'
  BY StoreStep, RegionsReservedStep DEF StoreInv
<1> QED BY <1>1, <1>2, PTL DEF Spec

\* The allocator implements PageStore: a request is answered by an aligned run of
\* pages that belongs to nobody, the smallest that is large enough, and refused
\* only when there is no run that could have served it; pages reserved at boot
\* are never granted, and a block stays as it is until it is freed.
THEOREM AllocatorImplementsStore == Spec => Implements
<1>1. Init => Store!StoreInit
  BY StoreInit
<1>2. StoreInv /\ [Next]_vars => [Store!StoreNext]_(Store!storeVars)
  BY StoreStep
<1> QED BY <1>1, <1>2, StoreInvariant, PTL DEF Spec, Implements, Store!StoreSpec

\* After init_mem every byte of every region lies in a reserved page, for good.
THEOREM BootRegionsReserved == Spec => []RegionsStayReserved
<1>1. StoreInv => RegionsStayReserved
  <2> SUFFICES ASSUME StoreInv, pc \notin {"reserve", "carve"},
                      NEW i \in DOMAIN Regions,
                      NEW a \in Regions[i].start ..
                                Regions[i].start + Regions[i].size - 1
               PROVE  a \div PageSize \in ReservedPages
    BY DEF RegionsStayReserved
  <2> DEFINE r == Regions[i]
             m == PageSize
  <2>1. /\ r.start \in Nat /\ r.size \in Nat /\ r.size > 0
        /\ m \in Nat /\ m > 0
    <3> DEFINE S == [start : Nat, size : Nat \ {0}]
    <3>1. Regions \in Seq(S)
      BY RegionsAssumption
    <3> HIDE DEF S
    <3>2. r \in S
      BY <3>1
    <3> QED BY <3>2, SizesAssumption DEF S
  <2>2. RegionPages(r) \subseteq ReservedPages
    BY DEF StoreInv, RegionsReserved
  <2>3. /\ a \in Nat /\ r.start <= a /\ a <= r.start + r.size - 1
        /\ r.start + r.size - 1 \in Nat
    BY <2>1
  <2> HIDE DEF r, m
  <2>4. /\ r.start \div m <= a \div m /\ a \div m <= (r.start + r.size - 1) \div m
        /\ r.start \div m \in Nat /\ a \div m \in Nat /\ (r.start + r.size - 1) \div m \in Nat
    BY <2>1, <2>3, QuotientMonotone, QuotientBounds
  <2>5. a \div m \in RegionPages(r)
    BY <2>4 DEF RegionPages, FirstPage, LastPage, m
  <2> QED BY <2>2, <2>5 DEF m
<1> QED BY <1>1, StoreInvariant, PTL

\* is_allocated answers for every page what the blocks in the callers' hands say:
\* its walk over GROUPED pages ends at the head of the block the page lies in.
THEOREM WalkFindsOwner == Spec => []IsAllocatedIsExact
<1>1. IInv => IsAllocatedIsExact
  <2> SUFFICES ASSUME IInv, pc = "idle", NEW p \in Page
               PROVE  IsAllocated(p) <=>
                      \E blk \in Held : p \in blk[1] .. blk[1] + 2^blk[2] - 1
    BY DEF IsAllocatedIsExact
  <2>1. PICK b \in 0 .. p, k \in Order : Block(b, k) /\ p < b + 2^k
    BY DEF IInv, BlocksTile
  <2>2. /\ b \in Page /\ IsBlock(Heads, b, k) /\ b \in Heads /\ b <= p
        /\ b \in Nat /\ p \in Nat /\ 2^k \in Nat /\ 2^k > 0 /\ b % 2^k = 0
    BY <2>1, TotalAligned, Powers DEF Block, IsBlock, Heads, Aligned
  <2>3. \A r \in Page : r \in Heads <=> status[r] # GROUPED
    BY DEF Heads
  <2>4. ASSUME NEW q \in 0 .. p, ParentOf(p, q) PROVE q = b
    BY <2>1, <2>2, <2>4, ParentIsHead
  <2>5. ParentOf(p, b)
    <3>1. p - (p % 2^k) = b
      BY <2>1, <2>2, RoundDown
    <3>2. Ancestor(p, b)
      BY <3>1 DEF Ancestor
    <3>3. ASSUME NEW r \in b + 1 .. p PROVE status[r] = GROUPED
      <4>1. r \in b + 1 .. b + 2^k - 1 /\ r \in Page
        BY <2>1, <2>2, TotalAligned
      <4> QED BY <4>1, <2>2, <2>3 DEF IsBlock
    <3> QED BY <3>2, <3>3, <2>2, <2>3 DEF ParentOf
  <2>6. IsAllocated(p) <=> status[b] = OCCUPIED
    BY <2>4, <2>5 DEF IsAllocated
  <2>7. ASSUME status[b] = OCCUPIED
        PROVE  \E blk \in Held : p \in blk[1] .. blk[1] + 2^blk[2] - 1
    <3>1. <<b, k>> \in Held
      BY <2>2, <2>7, HeldBlocks DEF Owned
    <3>2. p \in b .. b + 2^k - 1
      BY <2>1, <2>2
    <3> QED BY <3>1, <3>2
  <2>8. ASSUME NEW blk \in Held, p \in blk[1] .. blk[1] + 2^blk[2] - 1
        PROVE  status[b] = OCCUPIED
    <3>1. PICK c \in Page, j \in Order : blk = <<c, j>>
      BY HeldBlocks
    <3>2. Owned(c) /\ IsBlock(Heads, c, j)
      BY <3>1, HeldBlocks
    <3>3. p \in c .. c + 2^j - 1
      BY <2>8, <3>1
    <3>4. c <= p /\ p < c + 2^j
      BY <3>3, <2>2, TotalAligned, Powers
    <3>5. c = b
      BY <3>2, <3>4, <2>1, <2>2, HeadsType, BlocksDisjoint
    <3> QED BY <3>2, <3>5 DEF Owned
  <2> QED BY <2>6, <2>7, <2>8
<1> QED BY <1>1, InductiveInvariant, PTL
=============================================================================
