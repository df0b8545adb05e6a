----------------------------- MODULE QueueProofs -----------------------------
(***************************************************************************)
(* The queues of lib/template are sequences of nodes, for any number of    *)
(* queues and nodes, as long as a node is pushed only while it is in none  *)
(* of them and erased only from the one that holds it.                     *)
(***************************************************************************)
EXTENDS NodeQueue, FiniteSetTheorems, NaturalsInduction, WellFoundedInduction, TLAPS

\* What stands for induction: the least counterexample.
LEMMA MinimumExists ==
  ASSUME NEW S \in SUBSET Nat, NEW x \in S
  PROVE  \E n \in S : \A m \in S : n <= m
<1>1. PICK n \in S : \A y \in S : ~ (<<y, n>> \in OpToRel(<, Nat))
  BY NatLessThanWellFounded, WFMin
<1>2. ASSUME NEW m \in S, m < n PROVE FALSE
  <2>1. <<m, n>> \in OpToRel(<, Nat)
    BY <1>2 DEF OpToRel
  <2> QED BY <1>1, <2>1
<1> QED BY <1>2

\* Queue q holds the nodes c[1], c[2], ..., none of them twice: the links agree
\* in both directions and end at the queue's two ends.
Holds(h, q, c) ==
    /\ c \in Seq(Node)
    /\ h.size[q] = Len(c)
    /\ h.front[q] = IF c = <<>> THEN Nil ELSE c[1]
    /\ h.back[q] = IF c = <<>> THEN Nil ELSE c[Len(c)]
    /\ \A i \in 1 .. Len(c) :
          /\ h.next[c[i]] = IF i = Len(c) THEN Nil ELSE c[i + 1]
          /\ h.prev[c[i]] = IF i = 1 THEN Nil ELSE c[i - 1]
          /\ \A j \in 1 .. Len(c) : c[i] = c[j] => i = j

Among(n, c) == \E i \in 1 .. Len(c) : n = c[i]

\* The queues hold the sequences of c, no node in two of them, and a node that is
\* in none of them has no links.
Queues(h, c) ==
    /\ h \in Heap
    /\ c \in [QueueName -> Seq(Node)]
    /\ \A q \in QueueName : Holds(h, q, c[q])
    /\ \A q, r \in QueueName, n \in Node : Among(n, c[q]) /\ Among(n, c[r]) => q = r
    /\ \A n \in Node : (\A q \in QueueName : ~ Among(n, c[q]))
                          => h.next[n] = Nil /\ h.prev[n] = Nil

\* The sequence without its member number k.
Without(s, k) == [i \in 1 .. Len(s) - 1 |-> IF i < k THEN s[i] ELSE s[i + 1]]
-----------------------------------------------------------------------------
(* The links. *)

\* list_remove joins the neighbours of the node and clears its links.
LEMMA RemoveLinks ==
  ASSUME NEW h \in Heap, NEW n \in Node, h.prev[n] # n, h.next[n] # n
  PROVE  /\ ListRemove(h, n) \in Heap
         /\ \A x \in Node :
               /\ ListRemove(h, n).next[x] = IF x = n THEN Nil
                                             ELSE IF x = h.prev[n] THEN h.next[n] ELSE h.next[x]
               /\ ListRemove(h, n).prev[x] = IF x = n THEN Nil
                                             ELSE IF x = h.next[n] THEN h.prev[n] ELSE h.prev[x]
         /\ ListRemove(h, n).front = h.front
         /\ ListRemove(h, n).back = h.back
         /\ ListRemove(h, n).size = h.size
<1> DEFINE a == h.prev[n]
           c == h.next[n]
           h1 == SetNext(h, a, c)
           h2 == SetPrev(h1, c, a)
<1>1. a \in Node \cup {Nil} /\ c \in Node \cup {Nil} /\ Nil \notin Node
  BY QueueAssumption DEF Heap
<1> HIDE DEF a, c
<1>2. /\ h1 \in Heap
      /\ \A x \in Node : /\ h1.next[x] = IF x = a THEN c ELSE h.next[x]
                         /\ h1.prev[x] = h.prev[x]
      /\ h1.front = h.front /\ h1.back = h.back /\ h1.size = h.size
  BY <1>1 DEF SetNext, Heap
<1> HIDE DEF h1
<1>3. /\ h2 \in Heap
      /\ \A x \in Node : /\ h2.next[x] = h1.next[x]
                         /\ h2.prev[x] = IF x = c THEN a ELSE h1.prev[x]
      /\ h2.front = h1.front /\ h2.back = h1.back /\ h2.size = h1.size
  BY <1>1, <1>2 DEF SetPrev, Heap
<1>4. ListRemove(h, n) = NodeInit(h2, n)
  BY DEF ListRemove, h2, h1, a, c
<1> HIDE DEF h2
<1>5. /\ NodeInit(h2, n) \in Heap
      /\ \A x \in Node : /\ NodeInit(h2, n).next[x] = IF x = n THEN Nil ELSE h2.next[x]
                         /\ NodeInit(h2, n).prev[x] = IF x = n THEN Nil ELSE h2.prev[x]
      /\ NodeInit(h2, n).front = h2.front
      /\ NodeInit(h2, n).back = h2.back
      /\ NodeInit(h2, n).size = h2.size
  BY <1>3 DEF NodeInit, Heap
<1> QED BY <1>2, <1>3, <1>4, <1>5 DEF a, c

\* node_init touches no other node.
LEMMA InitLinks ==
  ASSUME NEW h \in Heap, NEW n \in Node
  PROVE  /\ NodeInit(h, n) \in Heap
         /\ \A x \in Node :
               /\ NodeInit(h, n).next[x] = IF x = n THEN Nil ELSE h.next[x]
               /\ NodeInit(h, n).prev[x] = IF x = n THEN Nil ELSE h.prev[x]
         /\ NodeInit(h, n).front = h.front
         /\ NodeInit(h, n).back = h.back
         /\ NodeInit(h, n).size = h.size
BY DEF NodeInit, Heap

\* list_add behind the last node joins the new one to it.
LEMMA AddLinks ==
  ASSUME NEW h \in Heap, NEW n \in Node, NEW last \in Node, n # last
  PROVE  /\ ListAdd(h, n, last, Nil) \in Heap
         /\ \A x \in Node :
               /\ ListAdd(h, n, last, Nil).next[x] = IF x = n THEN Nil
                                                     ELSE IF x = last THEN n ELSE h.next[x]
               /\ ListAdd(h, n, last, Nil).prev[x] = IF x = n THEN last ELSE h.prev[x]
         /\ ListAdd(h, n, last, Nil).front = h.front
         /\ ListAdd(h, n, last, Nil).back = h.back
         /\ ListAdd(h, n, last, Nil).size = h.size
<1> DEFINE h1 == [h EXCEPT !.next[n] = Nil, !.prev[n] = last]
<1>1. last # Nil
  BY QueueAssumption
<1>2. /\ h1 \in Heap
      /\ \A x \in Node : /\ h1.next[x] = IF x = n THEN Nil ELSE h.next[x]
                         /\ h1.prev[x] = IF x = n THEN last ELSE h.prev[x]
      /\ h1.front = h.front /\ h1.back = h.back /\ h1.size = h.size
  BY DEF Heap
<1> HIDE DEF h1
<1>3. ListAdd(h, n, last, Nil) = [h1 EXCEPT !.next[last] = n]
  BY <1>1 DEF ListAdd, SetNext, SetPrev, h1
<1> QED BY <1>2, <1>3 DEF Heap
-----------------------------------------------------------------------------
(* What a queue holds. *)

\* A queue holds no more nodes than there are, so its size does not wrap.
LEMMA QueueLength ==
  ASSUME NEW c \in Seq(Node), \A i, j \in 1 .. Len(c) : c[i] = c[j] => i = j
  PROVE  /\ Len(c) <= Cardinality(Node) /\ Cardinality(Node) \in Nat
         /\ Cardinality(Node) < SizeWrap /\ SizeWrap \in Nat
<1> DEFINE N == Cardinality(Node)
           S == 1 .. Len(c)
<1>1. IsFiniteSet(Node) /\ N \in Nat /\ N < SizeWrap /\ SizeWrap \in Nat
  BY QueueAssumption, FS_CardinalityType
<1>2. Len(c) <= N
  <2> SUFFICES ASSUME N < Len(c) PROVE FALSE
    BY <1>1
  <2>1. IsFiniteSet(S) /\ N < Cardinality(S)
    BY <1>1, FS_Interval
  <2>2. c \in [S -> Node] /\ \A i, j \in S : c[i] = c[j] => i = j
    OBVIOUS
  <2> HIDE DEF S, N
  <2>3. \E x, y \in S : x # y /\ c[x] = c[y]
    BY <2>1, <2>2, <1>1, FS_PigeonHole DEF N
  <2> QED BY <2>2, <2>3
<1> QED BY <1>1, <1>2

\* f is the walk of Contents and Reachable: the first N nodes along the links.
IsWalk(h, first, N, f) ==
    f = [i \in 1 .. N |-> IF i = 1 THEN first
                          ELSE IF f[i - 1] = Nil THEN Nil ELSE h.next[f[i - 1]]]

\* There is only one.
LEMMA WalkIs ==
  ASSUME NEW h, NEW first, NEW N \in Nat, NEW f, NEW g,
         IsWalk(h, first, N, f), IsWalk(h, first, N, g)
  PROVE  f = g
<1> DEFINE Bad == {i \in 1 .. N : f[i] # g[i]}
<1>1. \A i \in 1 .. N :
         /\ f[i] = IF i = 1 THEN first ELSE IF f[i - 1] = Nil THEN Nil ELSE h.next[f[i - 1]]
         /\ g[i] = IF i = 1 THEN first ELSE IF g[i - 1] = Nil THEN Nil ELSE h.next[g[i - 1]]
  BY DEF IsWalk
<1>2. Bad = {}
  <2> SUFFICES ASSUME NEW x \in Bad PROVE FALSE
    OBVIOUS
  <2>1. Bad \in SUBSET Nat
    OBVIOUS
  <2>2. PICK i \in Bad : \A j \in Bad : i <= j
    <3> HIDE DEF Bad
    <3> QED BY <2>1, MinimumExists
  <2>3. i # 1
    BY <1>1
  <2>4. i - 1 \in 1 .. N /\ i \in Nat
    BY <2>3
  <2>6. i - 1 \notin Bad
    <3> HIDE DEF Bad
    <3> QED BY <2>2, <2>4
  <2>5. f[i - 1] = g[i - 1]
    BY <2>4, <2>6
  <2> QED BY <2>3, <2>5, <1>1
<1>3. \A i \in 1 .. N : f[i] = g[i]
  BY <1>2
<1>4. f = [i \in 1 .. N |-> f[i]] /\ g = [i \in 1 .. N |-> g[i]]
  BY DEF IsWalk
<1> HIDE DEF Bad
<1> QED BY <1>3, <1>4

\* From the front of a queue the links lead through what it holds, then to NULL.
LEMMA ChainWalk ==
  ASSUME NEW h, NEW q, NEW c, Holds(h, q, c), NEW N \in Nat, Len(c) <= N, N > 0 => c # <<>>
  PROVE  LET f == [i \in 1 .. N |-> IF i <= Len(c) THEN c[i] ELSE Nil]
         IN IsWalk(h, h.front[q], N, f)
<1> DEFINE f == [i \in 1 .. N |-> IF i <= Len(c) THEN c[i] ELSE Nil]
<1>1. c \in Seq(Node) /\ Len(c) \in Nat /\ Nil \notin Node
  BY QueueAssumption DEF Holds
<1>2. \A i \in 1 .. Len(c) : c[i] \in Node /\ h.next[c[i]] = IF i = Len(c) THEN Nil ELSE c[i + 1]
  BY DEF Holds
<1>3. ASSUME NEW i \in 1 .. N
      PROVE  f[i] = IF i = 1 THEN h.front[q]
                    ELSE IF f[i - 1] = Nil THEN Nil ELSE h.next[f[i - 1]]
  <2>1. CASE i = 1
    <3>1. c # <<>> /\ 1 <= Len(c)
      BY <1>1
    <3> QED BY <2>1, <3>1 DEF Holds
  <2>2. CASE i # 1 /\ i <= Len(c)
    <3>1. i - 1 \in 1 .. Len(c) /\ i - 1 # Len(c) /\ (i - 1) + 1 = i /\ i - 1 \in 1 .. N
      BY <2>2, <1>1
    <3> QED BY <3>1, <2>2, <1>1, <1>2
  <2>3. CASE i # 1 /\ ~ (i <= Len(c))
    <3>1. i - 1 \in 1 .. N
      BY <2>3
    <3>2. f[i] = Nil /\ f[i - 1] = IF i - 1 <= Len(c) THEN c[i - 1] ELSE Nil
      BY <2>3, <3>1
    <3>3. i - 1 <= Len(c) => i - 1 = Len(c) /\ Len(c) \in 1 .. Len(c)
      BY <2>3, <1>1
    <3> QED BY <2>3, <3>2, <3>3, <1>1, <1>2
  <2> QED BY <2>1, <2>2, <2>3
<1> HIDE DEF f
<1>4. f = [i \in 1 .. N |-> f[i]]
  BY DEF f
<1>5. f = [i \in 1 .. N |-> IF i = 1 THEN h.front[q]
                            ELSE IF f[i - 1] = Nil THEN Nil ELSE h.next[f[i - 1]]]
  BY <1>3, <1>4
<1> QED BY <1>5 DEF f, IsWalk

\* Contents reads the sequence of a queue off its links.
LEMMA ContentsIs ==
  ASSUME NEW h, NEW q, NEW c, Holds(h, q, c)
  PROVE  Contents(h, q) = c
<1> DEFINE N == h.size[q]
           f == [i \in 1 .. N |-> IF i <= Len(c) THEN c[i] ELSE Nil]
           Walk(g) == [i \in 1 .. N |-> IF i = 1 THEN h.front[q]
                                        ELSE IF g[i - 1] = Nil THEN Nil ELSE h.next[g[i - 1]]]
           w == CHOOSE g : g = Walk(g)
<1>1. N \in Nat /\ N = Len(c) /\ (N > 0 => c # <<>>) /\ c \in Seq(Node)
  BY DEF Holds
<1> HIDE DEF N
<1>2. IsWalk(h, h.front[q], N, f)
  BY <1>1, ChainWalk
<1>3. IsWalk(h, h.front[q], N, w)
  <2>1. f = Walk(f)
    BY <1>2 DEF IsWalk
  <2>2. w = Walk(w)
    <3> HIDE DEF f, Walk
    <3> QED BY <2>1
  <2> HIDE DEF w
  <2> QED BY <2>2 DEF IsWalk
<1>4. w = f
  <2> HIDE DEF f, w
  <2> QED BY <1>1, <1>2, <1>3, WalkIs
<1>5. Contents(h, q) = [i \in 1 .. N |-> w[i]]
  BY DEF Contents, N
<1> HIDE DEF w
<1>6. Contents(h, q) = [i \in 1 .. Len(c) |-> c[i]]
  BY <1>1, <1>4, <1>5
<1> QED BY <1>1, <1>6

\* A search that follows the links meets what the queue holds, and no more.
LEMMA ReachableIs ==
  ASSUME NEW h, NEW q, NEW c, Holds(h, q, c)
  PROVE  \A n : n \in Reachable(h, q) <=> Among(n, c)
<1> DEFINE N == Cardinality(Node)
           f == [i \in 1 .. N |-> IF i <= Len(c) THEN c[i] ELSE Nil]
           Walk(g) == [i \in 1 .. N |-> IF i = 1 THEN h.front[q]
                                        ELSE IF g[i - 1] = Nil THEN Nil ELSE h.next[g[i - 1]]]
           w == CHOOSE g : g = Walk(g)
<1>1. c \in Seq(Node) /\ N \in Nat /\ Len(c) <= N /\ h.size[q] = Len(c)
  BY QueueLength DEF Holds
<1>2. CASE c = <<>>
  BY <1>1, <1>2 DEF Reachable, QueueEmpty, Among
<1>3. CASE c # <<>>
  <2> HIDE DEF N
  <2>1. IsWalk(h, h.front[q], N, f)
    BY <1>1, <1>3, ChainWalk
  <2>2. IsWalk(h, h.front[q], N, w)
    <3>1. f = Walk(f)
      BY <2>1 DEF IsWalk
    <3>2. w = Walk(w)
      <4> HIDE DEF f, Walk
      <4> QED BY <3>1
    <3> HIDE DEF w
    <3> QED BY <3>2 DEF IsWalk
  <2>3. w = f
    <3> HIDE DEF f, w
    <3> QED BY <1>1, <2>1, <2>2, WalkIs
  <2>4. Reachable(h, q) = {w[i] : i \in 1 .. N} \ {Nil}
    BY <1>1, <1>3 DEF Reachable, QueueEmpty, N
  <2> HIDE DEF w
  <2>5. \A i \in 1 .. Len(c) : c[i] # Nil /\ i \in 1 .. N
    BY <1>1, QueueAssumption
  <2>6. \A n : n \in Reachable(h, q) <=> \E i \in 1 .. N : n = f[i] /\ n # Nil
    BY <2>3, <2>4
  <2> QED BY <2>5, <2>6, <1>1 DEF Among
<1> QED BY <1>2, <1>3
\* A size that is below the largest is counted as it is.
LEMMA SmallMod ==
  ASSUME NEW a \in Nat, NEW b \in Nat, a < b
  PROVE  a % b = a
OBVIOUS
-----------------------------------------------------------------------------
(* What the functions do to the sequences. *)

\* node_init and queue_init leave every queue empty.
LEMMA EmptyQueues == Queues(EmptyHeap, [q \in QueueName |-> <<>>])
<1>1. EmptyHeap \in Heap
  <2>1. 0 \in 0 .. SizeWrap - 1
    <3>1. Cardinality(Node) \in Nat /\ Cardinality(Node) < SizeWrap /\ SizeWrap \in Nat
      BY QueueAssumption, FS_CardinalityType
    <3> QED BY <3>1
  <2> QED BY <2>1 DEF EmptyHeap, Heap
<1>2. ASSUME NEW q \in QueueName PROVE Holds(EmptyHeap, q, <<>>)
  BY DEF Holds, EmptyHeap
<1> QED BY <1>1, <1>2 DEF Queues, Among, EmptyHeap

\* A queue whose ends, size and links are as they were holds what it held.
LEMMA HoldsSame ==
  ASSUME NEW h, NEW g, NEW q, NEW s, Holds(h, q, s),
         g.front[q] = h.front[q], g.back[q] = h.back[q], g.size[q] = h.size[q],
         \A i \in 1 .. Len(s) : g.next[s[i]] = h.next[s[i]] /\ g.prev[s[i]] = h.prev[s[i]]
  PROVE  Holds(g, q, s)
BY DEF Holds

\* node_init of a node that is in no queue changes nothing.
LEMMA InitKeeps ==
  ASSUME NEW h, NEW c, Queues(h, c), NEW n \in Node, \A r \in QueueName : ~ Among(n, c[r])
  PROVE  Queues(NodeInit(h, n), c)
<1> DEFINE g == NodeInit(h, n)
<1>1. /\ g \in Heap
      /\ \A x \in Node : g.next[x] = h.next[x] /\ g.prev[x] = h.prev[x]
      /\ g.front = h.front /\ g.back = h.back /\ g.size = h.size
  <2>1. h \in Heap /\ h.next[n] = Nil /\ h.prev[n] = Nil
    BY DEF Queues
  <2> QED BY <2>1, InitLinks
<1> HIDE DEF g
<1>2. ASSUME NEW r \in QueueName PROVE Holds(g, r, c[r])
  <2>1. Holds(h, r, c[r]) /\ c[r] \in Seq(Node)
    BY DEF Queues
  <2>2. \A i \in 1 .. Len(c[r]) : c[r][i] \in Node
    BY <2>1
  <2> QED BY <2>1, <2>2, <1>1, HoldsSame
<1>3. Queues(g, c)
  BY <1>1, <1>2 DEF Queues
<1> QED BY <1>3 DEF g

\* queue_push puts a node that is in no queue behind the others.
LEMMA PushKeeps ==
  ASSUME NEW h, NEW c, Queues(h, c), NEW q \in QueueName, NEW n \in Node,
         \A r \in QueueName : ~ Among(n, c[r])
  PROVE  Queues(QueuePush(h, q, n), [c EXCEPT ![q] = Append(@, n)])
<1>a. PICK s : s = c[q]
  OBVIOUS
<1>b. PICK m : m = Len(s)
  OBVIOUS
<1> DEFINE g == QueuePush(h, q, n)
           d == Append(s, n)
           c2 == [c EXCEPT ![q] = d]
<1>1. /\ h \in Heap /\ s \in Seq(Node) /\ m \in Nat /\ m = Len(s) /\ Holds(h, q, s)
      /\ \A i \in 1 .. m : s[i] \in Node /\ s[i] # n
      /\ h.next[n] = Nil /\ h.prev[n] = Nil
      /\ c \in [QueueName -> Seq(Node)]
  BY <1>a, <1>b DEF Queues, Among
<1>2. /\ d \in Seq(Node) /\ Len(d) = m + 1 /\ d[m + 1] = n
      /\ \A i \in 1 .. m : d[i] = s[i]
      /\ \A i, j \in 1 .. Len(d) : d[i] = d[j] => i = j
  <2>1. d \in Seq(Node) /\ Len(d) = m + 1 /\ d[m + 1] = n /\ \A i \in 1 .. m : d[i] = s[i]
    BY <1>1
  <2>2. \A i \in 1 .. m + 1 : i \in 1 .. m \/ i = m + 1
    BY <1>1
  <2>3. \A i, j \in 1 .. m : s[i] = s[j] => i = j
    BY <1>1 DEF Holds
  <2> HIDE DEF d
  <2> QED BY <2>1, <2>2, <2>3, <1>1
<1>3. (m + 1) % SizeWrap = m + 1 /\ m + 1 \in 0 .. SizeWrap - 1
  <2>1. Len(d) < SizeWrap /\ SizeWrap \in Nat
    <3> HIDE DEF d
    <3>1. /\ Len(d) <= Cardinality(Node) /\ Cardinality(Node) \in Nat
          /\ Cardinality(Node) < SizeWrap /\ SizeWrap \in Nat
      BY <1>2, QueueLength
    <3> QED BY <3>1, <1>1, <1>2
  <2>2. m + 1 \in Nat /\ m + 1 < SizeWrap
    BY <2>1, <1>1, <1>2
  <2> QED BY <2>1, <2>2, SmallMod
<1>4. /\ g \in Heap
      /\ \A x \in Node :
            /\ g.next[x] = IF x = n THEN Nil ELSE IF m > 0 /\ x = s[m] THEN n ELSE h.next[x]
            /\ g.prev[x] = IF x = n THEN IF m > 0 THEN s[m] ELSE Nil ELSE h.prev[x]
      /\ \A r \in QueueName :
            /\ g.front[r] = IF r = q /\ m = 0 THEN n ELSE h.front[r]
            /\ g.back[r] = IF r = q THEN n ELSE h.back[r]
            /\ g.size[r] = IF r = q THEN m + 1 ELSE h.size[r]
  <2>1. h.size[q] = m /\ h.back[q] = IF m = 0 THEN Nil ELSE s[m]
    BY <1>1 DEF Holds
  <2> DEFINE h1 == IF m = 0 THEN [h EXCEPT !.front[q] = n] ELSE ListAdd(h, n, s[m], Nil)
  <2>2. /\ h1 \in Heap
        /\ \A x \in Node :
              /\ h1.next[x] = IF x = n THEN Nil ELSE IF m > 0 /\ x = s[m] THEN n ELSE h.next[x]
              /\ h1.prev[x] = IF x = n THEN IF m > 0 THEN s[m] ELSE Nil ELSE h.prev[x]
        /\ \A r \in QueueName :
              /\ h1.front[r] = IF r = q /\ m = 0 THEN n ELSE h.front[r]
              /\ h1.back[r] = h.back[r]
              /\ h1.size[r] = h.size[r]
    <3>1. CASE m = 0
      <4>1. h1 = [h EXCEPT !.front[q] = n]
        BY <3>1
      <4> HIDE DEF h1, g
      <4>2. h1 \in Heap /\ h1.next = h.next /\ h1.prev = h.prev /\ h1.back = h.back /\ h1.size = h.size
            /\ \A r \in QueueName : h1.front[r] = IF r = q THEN n ELSE h.front[r]
        BY <4>1, <1>1 DEF Heap
      <4> QED BY <4>2, <3>1, <1>1
    <3>2. CASE m # 0
      <4>1. s[m] \in Node /\ s[m] # n /\ m > 0
        BY <3>2, <1>1
      <4>2. h1 = ListAdd(h, n, s[m], Nil)
        BY <3>2
      <4> HIDE DEF h1
      <4>3. /\ ListAdd(h, n, s[m], Nil) \in Heap
            /\ \A x \in Node :
                  /\ ListAdd(h, n, s[m], Nil).next[x] =
                        IF x = n THEN Nil ELSE IF x = s[m] THEN n ELSE h.next[x]
                  /\ ListAdd(h, n, s[m], Nil).prev[x] = IF x = n THEN s[m] ELSE h.prev[x]
            /\ ListAdd(h, n, s[m], Nil).front = h.front
            /\ ListAdd(h, n, s[m], Nil).back = h.back
            /\ ListAdd(h, n, s[m], Nil).size = h.size
        <5>1. PICK last \in Node : last = s[m]
          BY <4>1
        <5>2. n # last
          BY <4>1, <5>1
        <5> HIDE DEF g
        <5>3. /\ ListAdd(h, n, last, Nil) \in Heap
              /\ \A x \in Node :
                    /\ ListAdd(h, n, last, Nil).next[x] =
                          IF x = n THEN Nil ELSE IF x = last THEN n ELSE h.next[x]
                    /\ ListAdd(h, n, last, Nil).prev[x] = IF x = n THEN last ELSE h.prev[x]
              /\ ListAdd(h, n, last, Nil).front = h.front
              /\ ListAdd(h, n, last, Nil).back = h.back
              /\ ListAdd(h, n, last, Nil).size = h.size
          BY <5>2, <1>1, AddLinks
        <5> QED BY <5>1, <5>3
      <4> QED BY <4>1, <4>2, <4>3, <3>2
    <3> QED BY <3>1, <3>2
  <2>3. g = [h1 EXCEPT !.back[q] = n, !.size[q] = (@ + 1) % SizeWrap]
    <3>1. QueueEmpty(h, q) <=> m = 0
      BY <2>1 DEF QueueEmpty
    <3> QED BY <3>1, <2>1 DEF QueuePush
  <2>4. h1.size[q] = m
    BY <2>1, <2>2
  <2> HIDE DEF h1, g
  <2>5. /\ g \in Heap /\ g.next = h1.next /\ g.prev = h1.prev /\ g.front = h1.front
        /\ \A r \in QueueName :
              /\ g.back[r] = IF r = q THEN n ELSE h1.back[r]
              /\ g.size[r] = IF r = q THEN m + 1 ELSE h1.size[r]
    <3> QED BY <2>2, <2>3, <2>4, <1>3 DEF Heap
  <2> QED BY <2>2, <2>5
<1>5. ASSUME NEW r \in QueueName PROVE c2[r] = (IF r = q THEN d ELSE c[r]) /\ (r = q => c[r] = s)
  BY <1>1, <1>a
<1> HIDE DEF g, d, c2
<1>6. Holds(g, q, d)
  <2>1. g.front[q] = d[1] /\ d # <<>> /\ g.back[q] = d[Len(d)] /\ g.size[q] = Len(d)
    <3>1. m # 0 => h.front[q] = s[1] /\ 1 \in 1 .. m
      BY <1>1 DEF Holds
    <3> QED BY <3>1, <1>1, <1>2, <1>4
  <2>2. ASSUME NEW i \in 1 .. Len(d)
        PROVE  /\ g.next[d[i]] = IF i = Len(d) THEN Nil ELSE d[i + 1]
               /\ g.prev[d[i]] = IF i = 1 THEN Nil ELSE d[i - 1]
    <3>1. CASE i = m + 1
      <4>1. i # 1 => i - 1 = m /\ m \in 1 .. m /\ m > 0
        BY <3>1, <1>1
      <4>2. i = 1 => ~ (m > 0)
        BY <3>1, <1>1
      <4> QED BY <3>1, <4>1, <4>2, <1>2, <1>4
    <3>2. CASE i # m + 1
      <4>1. i \in 1 .. m /\ m > 0 /\ m \in 1 .. m /\ (i # m => i + 1 \in 1 .. m)
            /\ (i # 1 => i - 1 \in 1 .. m)
        BY <3>2, <1>1, <1>2
      <4>2. /\ h.next[s[i]] = IF i = m THEN Nil ELSE s[i + 1]
            /\ h.prev[s[i]] = IF i = 1 THEN Nil ELSE s[i - 1]
            /\ s[i] = s[m] => i = m
            /\ s[i] \in Node /\ s[i] # n /\ d[i] = s[i]
        BY <4>1, <1>1, <1>2 DEF Holds
      <4>3. g.prev[d[i]] = IF i = 1 THEN Nil ELSE d[i - 1]
        BY <4>1, <4>2, <1>2, <1>4
      <4>4. g.next[d[i]] = IF i = m THEN n ELSE s[i + 1]
        BY <4>1, <4>2, <1>4
      <4> QED BY <3>2, <4>1, <4>3, <4>4, <1>2
    <3> QED BY <3>1, <3>2
  <2> QED BY <2>1, <2>2, <1>2 DEF Holds
<1>7. ASSUME NEW r \in QueueName, r # q PROVE Holds(g, r, c[r])
  <2>1. Holds(h, r, c[r]) /\ c[r] \in Seq(Node)
    BY DEF Queues
  <2>2. ASSUME NEW i \in 1 .. Len(c[r]) PROVE c[r][i] \in Node /\ c[r][i] # n /\ (m > 0 => c[r][i] # s[m])
    <3>1. c[r][i] \in Node /\ c[r][i] # n
      BY <2>1 DEF Among
    <3>2. m > 0 => m \in 1 .. m
      BY <1>1
    <3>3. m > 0 => c[r][i] # s[m]
      BY <3>1, <3>2, <1>1, <1>7, <1>a DEF Queues, Among
    <3> QED BY <3>1, <3>3
  <2> QED BY <2>1, <2>2, <1>4, <1>7, HoldsSame
<1>8. ASSUME NEW x, NEW r \in QueueName
      PROVE  Among(x, c2[r]) <=> Among(x, c[r]) \/ (x = n /\ r = q)
  <2>1. CASE r # q
    BY <2>1, <1>5
  <2>2. CASE r = q
    <3>1. Among(x, d) <=> Among(x, s) \/ x = n
      <4>1. \A i \in 1 .. m + 1 : i \in 1 .. m \/ i = m + 1
        BY <1>1
      <4>2. m + 1 \in 1 .. m + 1 /\ \A i \in 1 .. m : i \in 1 .. m + 1
        BY <1>1
      <4> QED BY <4>1, <4>2, <1>1, <1>2 DEF Among
    <3> QED BY <3>1, <2>2, <1>5
  <2> QED BY <2>1, <2>2
<1>9. c2 \in [QueueName -> Seq(Node)]
  BY <1>1, <1>2 DEF c2
<1>10. \A u, r \in QueueName, x \in Node : Among(x, c2[u]) /\ Among(x, c2[r]) => u = r
  <2>1. \A u, r \in QueueName, x \in Node : Among(x, c[u]) /\ Among(x, c[r]) => u = r
    BY DEF Queues
  <2> QED BY <2>1, <1>8
<1>11. ASSUME NEW x \in Node, \A r \in QueueName : ~ Among(x, c2[r])
       PROVE  g.next[x] = Nil /\ g.prev[x] = Nil
  <2>1. x # n /\ \A r \in QueueName : ~ Among(x, c[r])
    BY <1>8, <1>11
  <2>2. m > 0 => x # s[m]
    <3>1. m > 0 => m \in 1 .. m
      BY <1>1
    <3> QED BY <3>1, <2>1, <1>1, <1>a DEF Among
  <2>3. h.next[x] = Nil /\ h.prev[x] = Nil
    BY <2>1 DEF Queues
  <2> QED BY <2>1, <2>2, <2>3, <1>4
<1>12. \A r \in QueueName : Holds(g, r, c2[r])
  BY <1>5, <1>6, <1>7
<1>13. Queues(g, c2)
  BY <1>4, <1>9, <1>10, <1>11, <1>12 DEF Queues
<1>14. c2 = [c EXCEPT ![q] = Append(@, n)]
  BY <1>a, <1>1 DEF c2, d
<1> QED BY <1>13, <1>14 DEF g

\* What the shorter sequence has in each place.
LEMMA WithoutIs ==
  ASSUME NEW s \in Seq(Node), NEW k \in 1 .. Len(s)
  PROVE  /\ Without(s, k) \in Seq(Node)
         /\ Len(Without(s, k)) = Len(s) - 1
         /\ \A i \in 1 .. Len(s) - 1 :
               /\ i \in 1 .. Len(s) /\ i + 1 \in 1 .. Len(s)
               /\ i < k => Without(s, k)[i] = s[i] /\ i # k
               /\ ~ (i < k) => Without(s, k)[i] = s[i + 1] /\ i + 1 # k
<1>1. Len(s) - 1 \in Nat
  OBVIOUS
<1>2. \A i \in 1 .. Len(s) - 1 : i \in 1 .. Len(s) /\ i + 1 \in 1 .. Len(s)
  OBVIOUS
<1>3. \A i \in 1 .. Len(s) - 1 : (IF i < k THEN s[i] ELSE s[i + 1]) \in Node
  BY <1>2
<1>4. Without(s, k) \in Seq(Node) /\ Len(Without(s, k)) = Len(s) - 1
  BY <1>1, <1>3 DEF Without
<1> QED BY <1>2, <1>4 DEF Without

\* The members of the shorter sequence are the others.
LEMMA WithoutMembers ==
  ASSUME NEW s \in Seq(Node), \A i, j \in 1 .. Len(s) : s[i] = s[j] => i = j,
         NEW k \in 1 .. Len(s)
  PROVE  \A x : Among(x, Without(s, k)) <=> Among(x, s) /\ x # s[k]
<1> DEFINE d == Without(s, k)
           m == Len(s)
<1>1. /\ Len(d) = m - 1 /\ m \in Nat
      /\ \A i \in 1 .. m - 1 : /\ i \in 1 .. m /\ i + 1 \in 1 .. m
                               /\ i < k => d[i] = s[i] /\ i # k
                               /\ ~ (i < k) => d[i] = s[i + 1] /\ i + 1 # k
  BY WithoutIs
<1> HIDE DEF d
<1>2. ASSUME NEW x, Among(x, d) PROVE Among(x, s) /\ x # s[k]
  <2>1. PICK i \in 1 .. m - 1 : x = d[i]
    BY <1>1, <1>2 DEF Among
  <2> QED BY <2>1, <1>1 DEF Among
<1>3. ASSUME NEW x, Among(x, s), x # s[k] PROVE Among(x, d)
  <2>1. PICK i \in 1 .. m : x = s[i]
    BY <1>3 DEF Among
  <2>2. i # k
    BY <2>1, <1>3
  <2>3. CASE i < k
    <3>1. i \in 1 .. m - 1
      BY <2>3, <1>1
    <3> QED BY <3>1, <2>1, <2>3, <1>1 DEF Among
  <2>4. CASE i > k
    <3>1. i - 1 \in 1 .. m - 1 /\ ~ (i - 1 < k) /\ (i - 1) + 1 = i
      BY <2>4, <1>1
    <3> QED BY <3>1, <2>1, <1>1 DEF Among
  <2> QED BY <2>2, <2>3, <2>4, <1>1
<1> QED BY <1>2, <1>3 DEF d

\* g is h after list_remove of n, member number k of the m in queue q, with the
\* ends and the size of the queue brought up to date.
TakenOut(g, h, q, n, k, m) ==
    /\ g \in Heap
    /\ \A x \in Node :
          /\ g.next[x] = IF x = n THEN Nil ELSE IF x = h.prev[n] THEN h.next[n] ELSE h.next[x]
          /\ g.prev[x] = IF x = n THEN Nil ELSE IF x = h.next[n] THEN h.prev[n] ELSE h.prev[x]
    /\ g.size[q] = m - 1
    /\ g.front[q] = IF k = 1 THEN h.next[n] ELSE h.front[q]
    /\ g.back[q] = IF k = m THEN h.prev[n] ELSE h.back[q]
    /\ \A r \in QueueName \ {q} : /\ g.size[r] = h.size[r]
                                  /\ g.front[r] = h.front[r]
                                  /\ g.back[r] = h.back[r]

\* It holds the sequence without that member.
LEMMA RemoveKeeps ==
  ASSUME NEW h, NEW c, Queues(h, c), NEW q \in QueueName,
         NEW k \in 1 .. Len(c[q]), NEW g, TakenOut(g, h, q, c[q][k], k, Len(c[q]))
  PROVE  Queues(g, [c EXCEPT ![q] = Without(c[q], k)])
<1>a. PICK s : s = c[q]
  OBVIOUS
<1>b. PICK m : m = Len(s)
  OBVIOUS
<1>c. PICK n : n = s[k]
  OBVIOUS
<1>d. s \in Seq(Node) /\ m \in Nat /\ m >= 1 /\ k \in 1 .. m /\ n \in Node
  <2>1. s \in Seq(Node)
    BY <1>a DEF Queues
  <2> QED BY <2>1, <1>a, <1>b, <1>c
<1>e. /\ g \in Heap
      /\ \A x \in Node :
          /\ g.next[x] = IF x = n THEN Nil ELSE IF x = h.prev[n] THEN h.next[n] ELSE h.next[x]
          /\ g.prev[x] = IF x = n THEN Nil ELSE IF x = h.next[n] THEN h.prev[n] ELSE h.prev[x]
      /\ g.size[q] = m - 1
      /\ g.front[q] = IF k = 1 THEN h.next[n] ELSE h.front[q]
      /\ g.back[q] = IF k = m THEN h.prev[n] ELSE h.back[q]
      /\ \A r \in QueueName \ {q} : /\ g.size[r] = h.size[r]
                                    /\ g.front[r] = h.front[r]
                                    /\ g.back[r] = h.back[r]
  BY <1>a, <1>b, <1>c DEF TakenOut
<1>f. \A x \in Node \ {n} :
         /\ g.next[x] = IF x = h.prev[n] THEN h.next[n] ELSE h.next[x]
         /\ g.prev[x] = IF x = h.next[n] THEN h.prev[n] ELSE h.prev[x]
  BY <1>e
<1> DEFINE d == Without(s, k)
           c2 == [c EXCEPT ![q] = d]
<1>1. /\ h \in Heap /\ c \in [QueueName -> Seq(Node)] /\ Nil \notin Node
      /\ h.front[q] = s[1] /\ h.back[q] = s[m]
      /\ \A i \in 1 .. m :
            /\ s[i] \in Node
            /\ h.next[s[i]] = IF i = m THEN Nil ELSE s[i + 1]
            /\ h.prev[s[i]] = IF i = 1 THEN Nil ELSE s[i - 1]
            /\ \A j \in 1 .. m : s[i] = s[j] => i = j
  <2>1. Holds(h, q, s) /\ s # <<>>
    BY <1>a, <1>b, <1>d DEF Queues
  <2>2. h \in Heap /\ c \in [QueueName -> Seq(Node)]
    BY DEF Queues
  <2> QED BY <2>1, <2>2, <1>b, <1>d, QueueAssumption DEF Holds
<1>2. /\ d \in Seq(Node) /\ Len(d) = m - 1
      /\ \A i \in 1 .. m - 1 : /\ i \in 1 .. m /\ i + 1 \in 1 .. m
                               /\ i < k => d[i] = s[i] /\ i # k
                               /\ ~ (i < k) => d[i] = s[i + 1] /\ i + 1 # k
  <2>1. k \in 1 .. Len(s)
    BY <1>b, <1>d
  <2>2. /\ d \in Seq(Node)
        /\ Len(d) = Len(s) - 1
        /\ \A i \in 1 .. Len(s) - 1 :
              /\ i \in 1 .. Len(s) /\ i + 1 \in 1 .. Len(s)
              /\ i < k => d[i] = s[i] /\ i # k
              /\ ~ (i < k) => d[i] = s[i + 1] /\ i + 1 # k
    BY <2>1, <1>d, WithoutIs
  <2> HIDE DEF d
  <2> QED BY <2>2, <1>b
<1> HIDE DEF d
<1>k. m \in Nat /\ k \in Nat /\ 1 <= k /\ k <= m
  BY <1>d
<1>n. /\ h.prev[n] = IF k = 1 THEN Nil ELSE s[k - 1]
      /\ h.next[n] = IF k = m THEN Nil ELSE s[k + 1]
      /\ \A i \in 1 .. m : s[i] \in Node /\ s[i] # Nil /\ (i # k => s[i] # n)
  BY <1>1, <1>c, <1>d
<1>i. ASSUME NEW i \in 1 .. m, i # k
      PROVE  /\ g.next[s[i]] = IF i = k - 1 THEN IF k = m THEN Nil ELSE s[k + 1]
                               ELSE IF i = m THEN Nil ELSE s[i + 1]
             /\ g.prev[s[i]] = IF i = k + 1 THEN IF k = 1 THEN Nil ELSE s[k - 1]
                               ELSE IF i = 1 THEN Nil ELSE s[i - 1]
  <2>1. PICK x \in Node \ {n} : x = s[i]
    BY <1>n, <1>i
  <2>2. x = h.prev[n] <=> i = k - 1
    <3>1. CASE k = 1
      BY <3>1, <2>1, <1>n
    <3>2. CASE k # 1
      <4>1. k - 1 \in 1 .. m
        BY <3>2, <1>k
      <4> QED BY <4>1, <3>2, <2>1, <1>n, <1>1
    <3> QED BY <3>1, <3>2
  <2>3. x = h.next[n] <=> i = k + 1
    <3>1. CASE k = m
      BY <3>1, <2>1, <1>n
    <3>2. CASE k # m
      <4>1. k + 1 \in 1 .. m
        BY <3>2, <1>k
      <4> QED BY <4>1, <3>2, <2>1, <1>n, <1>1
    <3> QED BY <3>1, <3>2
  <2>4. /\ h.next[x] = IF i = m THEN Nil ELSE s[i + 1]
        /\ h.prev[x] = IF i = 1 THEN Nil ELSE s[i - 1]
    BY <2>1, <1>1
  <2>5. /\ g.next[x] = IF i = k - 1 THEN h.next[n] ELSE h.next[x]
        /\ g.prev[x] = IF i = k + 1 THEN h.prev[n] ELSE h.prev[x]
    BY <2>2, <2>3, <1>f
  <2> QED BY <2>1, <2>4, <2>5, <1>n
<1>3. Holds(g, q, d)
  <2>1. ASSUME NEW i \in 1 .. m - 1
        PROVE  /\ g.next[d[i]] = IF i = m - 1 THEN Nil ELSE d[i + 1]
               /\ g.prev[d[i]] = IF i = 1 THEN Nil ELSE d[i - 1]
               /\ \A j \in 1 .. m - 1 : d[i] = d[j] => i = j
    <3>1. i \in Nat /\ 1 <= i /\ i <= m - 1
      BY <1>k
    <3>2. ASSUME NEW j \in 1 .. m - 1, d[i] = d[j] PROVE i = j
      <4>1. PICK x \in 1 .. m : d[i] = s[x] /\ x = IF i < k THEN i ELSE i + 1
        BY <1>2
      <4>2. PICK y \in 1 .. m : d[j] = s[y] /\ y = IF j < k THEN j ELSE j + 1
        BY <1>2
      <4>3. x = y
        BY <4>1, <4>2, <3>2, <1>1
      <4> QED BY <4>1, <4>2, <4>3, <3>1, <1>k
    <3>3. CASE i < k
      <4>1. d[i] = s[i] /\ i \in 1 .. m /\ i # k /\ i # m /\ i # k + 1
        BY <3>3, <3>1, <1>2, <1>k
      <4>2. g.next[d[i]] = IF i = m - 1 THEN Nil ELSE d[i + 1]
        <5>1. CASE i = k - 1
          <6>1. g.next[d[i]] = IF k = m THEN Nil ELSE s[k + 1]
            BY <5>1, <4>1, <1>i
          <6>2. i # m - 1 => d[i + 1] = s[k + 1]
            <7> SUFFICES ASSUME i # m - 1 PROVE d[i + 1] = s[k + 1]
              OBVIOUS
            <7>1. i + 1 = k /\ k \in 1 .. m - 1 /\ ~ (k < k)
              BY <5>1, <3>1, <1>k
            <7> QED BY <7>1, <1>2
          <6>3. i = m - 1 <=> k = m
            BY <5>1, <3>1, <1>k
          <6> QED BY <6>1, <6>2, <6>3
        <5>2. CASE i # k - 1
          <6>1. g.next[d[i]] = s[i + 1]
            BY <5>2, <4>1, <1>i
          <6>2. i # m - 1 /\ i + 1 \in 1 .. m - 1 /\ i + 1 < k
            BY <5>2, <3>3, <3>1, <1>k
          <6> QED BY <6>1, <6>2, <1>2
        <5> QED BY <5>1, <5>2
      <4>3. g.prev[d[i]] = IF i = 1 THEN Nil ELSE d[i - 1]
        <5>1. g.prev[d[i]] = IF i = 1 THEN Nil ELSE s[i - 1]
          BY <4>1, <1>i
        <5>2. i # 1 => i - 1 \in 1 .. m - 1 /\ i - 1 < k
          BY <3>3, <3>1, <1>k
        <5> QED BY <5>1, <5>2, <1>2
      <4> QED BY <3>2, <4>2, <4>3
    <3>4. CASE ~ (i < k)
      <4>1. d[i] = s[i + 1] /\ i + 1 \in 1 .. m /\ i + 1 # k /\ i + 1 # k - 1 /\ i + 1 # 1
        BY <3>4, <3>1, <1>2, <1>k
      <4>2. g.next[d[i]] = IF i = m - 1 THEN Nil ELSE d[i + 1]
        <5>1. g.next[d[i]] = IF i + 1 = m THEN Nil ELSE s[i + 1 + 1]
          BY <4>1, <1>i
        <5>2. i # m - 1 => i + 1 \in 1 .. m - 1 /\ ~ (i + 1 < k) /\ i + 1 # m
          BY <3>4, <3>1, <1>k
        <5>3. i = m - 1 => i + 1 = m
          BY <3>1, <1>k
        <5> QED BY <5>1, <5>2, <5>3, <1>2
      <4>3. g.prev[d[i]] = IF i = 1 THEN Nil ELSE d[i - 1]
        <5>1. CASE i = k
          <6>1. g.prev[d[i]] = IF k = 1 THEN Nil ELSE s[k - 1]
            BY <5>1, <4>1, <1>i
          <6>2. i # 1 => i - 1 \in 1 .. m - 1 /\ i - 1 < k
            BY <5>1, <3>1, <1>k
          <6> QED BY <5>1, <6>1, <6>2, <1>2
        <5>2. CASE i # k
          <6>1. g.prev[d[i]] = s[i + 1 - 1] /\ i + 1 - 1 = i
            <7>1. i + 1 # k + 1
              BY <5>2, <3>1, <1>k
            <7> QED BY <7>1, <4>1, <1>i, <3>1
          <6>2. i # 1 /\ i - 1 \in 1 .. m - 1 /\ ~ (i - 1 < k) /\ (i - 1) + 1 = i
            BY <5>2, <3>4, <3>1, <1>k
          <6> QED BY <6>1, <6>2, <1>2
        <5> QED BY <5>1, <5>2
      <4> QED BY <3>2, <4>2, <4>3
    <3> QED BY <3>3, <3>4
  <2>2. g.front[q] = IF d = <<>> THEN Nil ELSE d[1]
    <3>1. d = <<>> <=> m = 1
      BY <1>2, <1>d
    <3>2. CASE k = 1
      <4>1. m # 1 => d[1] = s[2] /\ 1 + 1 = 2
        <5>1. m # 1 => 1 \in 1 .. m - 1 /\ ~ (1 < k)
          BY <3>2, <1>d
        <5> QED BY <5>1, <1>2, <1>d
      <4> QED BY <4>1, <3>1, <3>2, <1>1, <1>c, <1>d, <1>e
    <3>3. CASE k # 1
      <4>1. m # 1 /\ 1 \in 1 .. m - 1 /\ 1 < k
        BY <3>3, <1>d
      <4> QED BY <4>1, <3>1, <3>3, <1>1, <1>2, <1>c, <1>d, <1>e
    <3> QED BY <3>2, <3>3, <1>d
  <2>3. g.back[q] = IF d = <<>> THEN Nil ELSE d[Len(d)]
    <3>1. d = <<>> <=> m = 1
      BY <1>2, <1>d
    <3>2. CASE k = m
      <4>1. m # 1 => d[m - 1] = s[m - 1]
        <5>1. m # 1 => m - 1 \in 1 .. m - 1 /\ m - 1 < k
          BY <3>2, <1>d
        <5> QED BY <5>1, <1>2, <1>d
      <4> QED BY <4>1, <3>1, <3>2, <1>1, <1>2, <1>c, <1>d, <1>e
    <3>3. CASE k # m
      <4>1. m # 1 /\ m - 1 \in 1 .. m - 1 /\ ~ (m - 1 < k) /\ (m - 1) + 1 = m
        BY <3>3, <1>d
      <4>2. d[m - 1] = s[m]
        BY <4>1, <1>2, <1>d
      <4> QED BY <4>1, <4>2, <3>1, <3>3, <1>1, <1>2, <1>c, <1>d, <1>e
    <3> QED BY <3>2, <3>3, <1>d
  <2> QED BY <2>1, <2>2, <2>3, <1>2, <1>e DEF Holds
<1>4. ASSUME NEW r \in QueueName, r # q PROVE Holds(g, r, c[r])
  <2>1. Holds(h, r, c[r]) /\ c[r] \in Seq(Node)
    BY DEF Queues
  <2>2. ASSUME NEW i \in 1 .. Len(c[r])
        PROVE  g.next[c[r][i]] = h.next[c[r][i]] /\ g.prev[c[r][i]] = h.prev[c[r][i]]
    <3>1. PICK x \in Node : x = c[r][i]
      BY <2>1
    <3>2. \A j \in 1 .. m : x # s[j]
      BY <1>a, <1>b, <1>d, <3>1, <1>4 DEF Queues, Among
    <3>3. x # n
      BY <3>2, <1>c, <1>d
    <3>4. x # h.prev[n]
      <4>1. k # 1 => k - 1 \in 1 .. m
        BY <1>k
      <4> QED BY <4>1, <3>2, <1>n, <3>1, QueueAssumption
    <3>5. x # h.next[n]
      <4>1. k # m => k + 1 \in 1 .. m
        BY <1>k
      <4> QED BY <4>1, <3>2, <1>n, <3>1, QueueAssumption
    <3> QED BY <3>1, <3>3, <3>4, <3>5, <1>f
  <2> QED BY <2>1, <2>2, <1>4, <1>e, HoldsSame
<1>5. ASSUME NEW r \in QueueName PROVE c2[r] = (IF r = q THEN d ELSE c[r])
  BY <1>1, <1>c, <1>d, <1>e
<1>6. ASSUME NEW x, NEW r \in QueueName
      PROVE  Among(x, c2[r]) <=> Among(x, c[r]) /\ ~ (x = n /\ r = q)
  <2>1. CASE r # q
    BY <2>1, <1>5
  <2>2. CASE r = q
    <3>1. Among(x, d) <=> Among(x, s) /\ x # s[k]
      <4>1. \A i, j \in 1 .. Len(s) : s[i] = s[j] => i = j
        BY <1>1, <1>b, <1>d
      <4>2. k \in 1 .. Len(s) /\ s \in Seq(Node)
        BY <1>b, <1>d
      <4> QED BY <4>1, <4>2, WithoutMembers DEF d
    <3> QED BY <3>1, <2>2, <1>5, <1>a, <1>c
  <2> QED BY <2>1, <2>2
<1>7. c2 \in [QueueName -> Seq(Node)]
  BY <1>1, <1>2, <1>c, <1>d, <1>e
<1> HIDE DEF c2
<1>8. \A u, r \in QueueName, x \in Node : Among(x, c2[u]) /\ Among(x, c2[r]) => u = r
  <2>1. \A u, r \in QueueName, x \in Node : Among(x, c[u]) /\ Among(x, c[r]) => u = r
    BY DEF Queues
  <2> QED BY <2>1, <1>6
<1>9. ASSUME NEW x \in Node, \A r \in QueueName : ~ Among(x, c2[r])
      PROVE  g.next[x] = Nil /\ g.prev[x] = Nil
  <2>1. CASE x = n
    BY <2>1, <1>e
  <2>2. CASE x # n
    <3>1. \A r \in QueueName : ~ Among(x, c[r])
      BY <2>2, <1>6, <1>9
    <3>2. h.next[x] = Nil /\ h.prev[x] = Nil
      BY <3>1, <1>b, <1>d DEF Queues
    <3>3. \A j \in 1 .. m : x # s[j]
      BY <3>1, <1>a, <1>b DEF Among
    <3>4. x # h.prev[n]
      <4>1. k # 1 => k - 1 \in 1 .. m
        BY <1>k
      <4> QED BY <4>1, <3>3, <1>n, QueueAssumption
    <3>5. x # h.next[n]
      <4>1. k # m => k + 1 \in 1 .. m
        BY <1>k
      <4> QED BY <4>1, <3>3, <1>n, QueueAssumption
    <3> QED BY <2>2, <3>2, <3>4, <3>5, <1>f
  <2> QED BY <2>1, <2>2
<1>10. \A r \in QueueName : Holds(g, r, c2[r])
  BY <1>3, <1>4, <1>5
<1>11. Queues(g, c2)
  BY <1>7, <1>8, <1>9, <1>10, <1>e DEF Queues
<1> QED BY <1>11, <1>a DEF c2, d

\* queue_pop takes the first member out and returns it.
LEMMA PopKeeps ==
  ASSUME NEW h, NEW c, Queues(h, c), NEW q \in QueueName, c[q] # <<>>
  PROVE  /\ QueueFront(h, q) = c[q][1]
         /\ c[q] \in Seq(Node) /\ 1 \in 1 .. Len(c[q])
         /\ Queues(QueuePop(h, q), [c EXCEPT ![q] = Without(c[q], 1)])
<1>a. PICK s : s = c[q]
  OBVIOUS
<1>b. PICK m : m = Len(s)
  OBVIOUS
<1>c. PICK f : f = s[1]
  OBVIOUS
<1>1. s \in Seq(Node) /\ m \in Nat /\ m > 0 /\ 1 \in 1 .. m /\ f \in Node /\ Nil \notin Node
  <2>1. s \in Seq(Node) /\ s # <<>>
    BY <1>a DEF Queues
  <2> QED BY <2>1, <1>b, <1>c, QueueAssumption
<1>2. /\ h \in Heap /\ h.size[q] = m /\ h.front[q] = f /\ h.back[q] = s[m]
      /\ h.next[f] = IF m = 1 THEN Nil ELSE s[2]
      /\ h.prev[f] = Nil
      /\ m < SizeWrap /\ SizeWrap \in Nat
  <2>1. Holds(h, q, s)
    BY <1>a DEF Queues
  <2>2. s # <<>> /\ 1 + 1 = 2
    BY <1>1, <1>b
  <2>3. m < SizeWrap /\ SizeWrap \in Nat
    <3>1. \A i, j \in 1 .. Len(s) : s[i] = s[j] => i = j
      BY <2>1 DEF Holds
    <3>2. /\ Len(s) <= Cardinality(Node) /\ Cardinality(Node) \in Nat
          /\ Cardinality(Node) < SizeWrap /\ SizeWrap \in Nat
      BY <3>1, <1>1, QueueLength
    <3> QED BY <3>2, <1>1, <1>b
  <2>4. h \in Heap
    BY DEF Queues
  <2> QED BY <2>1, <2>2, <2>3, <2>4, <1>1, <1>b, <1>c DEF Holds
<1>3. h.next[f] # f /\ h.prev[f] # f
  <2>1. m # 1 => 2 \in 1 .. m /\ s[1] # s[2]
    <3>1. Holds(h, q, s)
      BY <1>a DEF Queues
    <3> QED BY <3>1, <1>1, <1>b DEF Holds
  <2> QED BY <2>1, <1>1, <1>2, <1>c
<1>4. (m - 1) % SizeWrap = m - 1 /\ m - 1 \in 0 .. SizeWrap - 1
  <2>1. m - 1 \in Nat /\ m - 1 < SizeWrap
    BY <1>1, <1>2
  <2> QED BY <2>1, <1>2, SmallMod
<1>5. QueueFront(h, q) = f /\ ~ QueueEmpty(h, q)
  BY <1>1, <1>2 DEF QueueFront, QueueEmpty
<1> DEFINE r0 == ListRemove(h, f)
           h1 == [r0 EXCEPT !.front[q] = h.next[f]]
           h2 == [h1 EXCEPT !.size[q] = (@ - 1) % SizeWrap]
           g == IF m = 1 THEN [h2 EXCEPT !.back[q] = Nil] ELSE h2
<1>6. /\ r0 \in Heap
      /\ \A x \in Node :
            /\ r0.next[x] = IF x = f THEN Nil ELSE IF x = h.prev[f] THEN h.next[f] ELSE h.next[x]
            /\ r0.prev[x] = IF x = f THEN Nil ELSE IF x = h.next[f] THEN h.prev[f] ELSE h.prev[x]
      /\ r0.front = h.front /\ r0.back = h.back /\ r0.size = h.size
  BY <1>1, <1>2, <1>3, RemoveLinks
<1>7. h.next[f] \in Node \cup {Nil}
  BY <1>1, <1>2 DEF Heap
<1> HIDE DEF r0
<1>8. /\ h1 \in Heap /\ h1.next = r0.next /\ h1.prev = r0.prev /\ h1.back = r0.back /\ h1.size = r0.size
      /\ \A r \in QueueName : h1.front[r] = IF r = q THEN h.next[f] ELSE r0.front[r]
  BY <1>6, <1>7 DEF Heap
<1> HIDE DEF h1
<1>9. /\ h2 \in Heap /\ h2.next = r0.next /\ h2.prev = r0.prev /\ h2.back = r0.back /\ h2.front = h1.front
      /\ \A r \in QueueName : h2.size[r] = IF r = q THEN m - 1 ELSE h.size[r]
  <2>1. h1.size[q] = m
    BY <1>2, <1>6, <1>8
  <2> QED BY <2>1, <1>4, <1>6, <1>8 DEF Heap
<1> HIDE DEF h2
<1>10. /\ g \in Heap /\ g.next = r0.next /\ g.prev = r0.prev /\ g.front = h1.front /\ g.size = h2.size
       /\ \A r \in QueueName : g.back[r] = IF r = q /\ m = 1 THEN Nil ELSE h.back[r]
  <2>1. CASE m = 1
    <3>1. g = [h2 EXCEPT !.back[q] = Nil]
      BY <2>1
    <3> HIDE DEF g
    <3> QED BY <3>1, <2>1, <1>6, <1>9 DEF Heap
  <2>2. CASE m # 1
    <3>1. g = h2
      BY <2>2
    <3> QED BY <3>1, <2>2, <1>6, <1>9
  <2> QED BY <2>1, <2>2
<1>11. QueuePop(h, q) = g
  <2>1. h2.size[q] = 0 <=> m = 1
    BY <1>1, <1>9
  <2>2. f # Nil
    BY <1>1
  <2> QED BY <2>1, <2>2, <1>2, <1>5 DEF QueuePop, h2, h1, r0
<1> HIDE DEF g
<1>12. TakenOut(g, h, q, f, 1, m)
  BY <1>2, <1>6, <1>8, <1>9, <1>10 DEF TakenOut
<1>13. Queues(g, [c EXCEPT ![q] = Without(c[q], 1)])
  BY <1>1, <1>12, <1>a, <1>b, <1>c, RemoveKeeps
<1> QED BY <1>1, <1>5, <1>11, <1>13, <1>a, <1>b, <1>c

\* queue_erase of a member takes that member out.
LEMMA EraseKeeps ==
  ASSUME NEW h, NEW c, Queues(h, c), NEW q \in QueueName, NEW k \in 1 .. Len(c[q])
  PROVE  Queues(QueueErase(h, q, c[q][k]), [c EXCEPT ![q] = Without(c[q], k)])
<1>a. PICK s : s = c[q]
  OBVIOUS
<1>b. PICK m : m = Len(s)
  OBVIOUS
<1>c. PICK n : n = s[k]
  OBVIOUS
<1>1. s \in Seq(Node) /\ m \in Nat /\ k \in 1 .. m /\ m > 0 /\ n \in Node /\ Nil \notin Node /\ s # <<>>
  <2>1. s \in Seq(Node)
    BY <1>a DEF Queues
  <2>2. k \in 1 .. Len(s)
    BY <1>a
  <2> QED BY <2>1, <2>2, <1>b, <1>c, QueueAssumption
<1>2. /\ h \in Heap /\ h.size[q] = m /\ h.front[q] = s[1] /\ h.back[q] = s[m]
      /\ \A i \in 1 .. m : /\ h.next[s[i]] = IF i = m THEN Nil ELSE s[i + 1]
                           /\ h.prev[s[i]] = IF i = 1 THEN Nil ELSE s[i - 1]
                           /\ \A j \in 1 .. m : s[i] = s[j] => i = j
      /\ m < SizeWrap /\ SizeWrap \in Nat
  <2>1. Holds(h, q, s) /\ h \in Heap
    BY <1>a DEF Queues
  <2>2. m < SizeWrap /\ SizeWrap \in Nat
    <3>1. \A i, j \in 1 .. Len(s) : s[i] = s[j] => i = j
      BY <2>1 DEF Holds
    <3>2. /\ Len(s) <= Cardinality(Node) /\ Cardinality(Node) \in Nat
          /\ Cardinality(Node) < SizeWrap /\ SizeWrap \in Nat
      BY <3>1, <1>1, QueueLength
    <3> QED BY <3>2, <1>1, <1>b
  <2> QED BY <2>1, <2>2, <1>1, <1>b DEF Holds
<1>3. (n = h.front[q] <=> k = 1) /\ (n = h.back[q] <=> k = m)
  <2>1. 1 \in 1 .. m /\ m \in 1 .. m
    BY <1>1
  <2> QED BY <2>1, <1>1, <1>2, <1>c
<1>4. CASE k = 1
  <2>1. Queues(QueuePop(h, q), [c EXCEPT ![q] = Without(c[q], 1)])
    BY <1>1, <1>a, PopKeeps
  <2>2. QueueErase(h, q, n) = QueuePop(h, q)
    BY <1>3, <1>4 DEF QueueErase
  <2> QED BY <2>1, <2>2, <1>4, <1>a, <1>c
<1>5. CASE k # 1
  <2>1. h.next[n] # n /\ h.prev[n] # n /\ h.prev[n] \in Node
    <3>1. k - 1 \in 1 .. m /\ k - 1 # k /\ (k # m => k + 1 \in 1 .. m /\ k + 1 # k)
      BY <1>1, <1>5
    <3>2. h.prev[n] = s[k - 1] /\ h.next[n] = IF k = m THEN Nil ELSE s[k + 1]
      BY <1>1, <1>2, <1>5, <1>c
    <3>3. s[k - 1] \in Node /\ s[k - 1] # n
      BY <3>1, <1>1, <1>2, <1>b, <1>c
    <3>4. k # m => s[k + 1] # n
      BY <3>1, <1>1, <1>2, <1>c
    <3> QED BY <3>2, <3>3, <3>4, <1>1
  <2> DEFINE h1 == IF k = m THEN [h EXCEPT !.back[q] = h.prev[n]] ELSE h
             r1 == ListRemove(h1, n)
             g == [r1 EXCEPT !.size[q] = (@ - 1) % SizeWrap]
  <2>2. /\ h1 \in Heap /\ h1.next = h.next /\ h1.prev = h.prev /\ h1.front = h.front /\ h1.size = h.size
        /\ \A r \in QueueName : h1.back[r] = IF r = q /\ k = m THEN h.prev[n] ELSE h.back[r]
    <3>1. CASE k = m
      <4>1. h1 = [h EXCEPT !.back[q] = h.prev[n]]
        BY <3>1
      <4> HIDE DEF h1
      <4> QED BY <4>1, <3>1, <2>1, <1>2 DEF Heap
    <3>2. CASE k # m
      BY <3>2, <1>2
    <3> QED BY <3>1, <3>2
  <2>3. QueueErase(h, q, n) = g
    BY <1>3, <1>5 DEF QueueErase
  <2> HIDE DEF h1
  <2>4. /\ r1 \in Heap
        /\ \A x \in Node :
              /\ r1.next[x] = IF x = n THEN Nil ELSE IF x = h.prev[n] THEN h.next[n] ELSE h.next[x]
              /\ r1.prev[x] = IF x = n THEN Nil ELSE IF x = h.next[n] THEN h.prev[n] ELSE h.prev[x]
        /\ r1.front = h.front /\ r1.back = h1.back /\ r1.size = h.size
    <3>1. h1.next[n] # n /\ h1.prev[n] # n
      BY <2>1, <2>2
    <3>2. /\ r1 \in Heap
          /\ \A x \in Node :
                /\ r1.next[x] = IF x = n THEN Nil
                                ELSE IF x = h1.prev[n] THEN h1.next[n] ELSE h1.next[x]
                /\ r1.prev[x] = IF x = n THEN Nil
                                ELSE IF x = h1.next[n] THEN h1.prev[n] ELSE h1.prev[x]
          /\ r1.front = h1.front /\ r1.back = h1.back /\ r1.size = h1.size
      BY <3>1, <2>2, <1>1, RemoveLinks
    <3> HIDE DEF r1
    <3> QED BY <3>2, <2>2
  <2> HIDE DEF r1
  <2>5. (m - 1) % SizeWrap = m - 1 /\ m - 1 \in 0 .. SizeWrap - 1
    <3>1. m - 1 \in Nat /\ m - 1 < SizeWrap
      BY <1>1, <1>2
    <3> QED BY <3>1, <1>2, SmallMod
  <2>6. /\ g \in Heap /\ g.next = r1.next /\ g.prev = r1.prev /\ g.front = r1.front /\ g.back = r1.back
        /\ \A r \in QueueName : g.size[r] = IF r = q THEN m - 1 ELSE h.size[r]
    <3>1. r1.size[q] = m
      BY <2>4, <1>2
    <3> QED BY <3>1, <2>4, <2>5 DEF Heap
  <2> HIDE DEF g
  <2>7. TakenOut(g, h, q, n, k, m)
    BY <2>2, <2>4, <2>6, <1>5 DEF TakenOut
  <2>8. Queues(g, [c EXCEPT ![q] = Without(c[q], k)])
    BY <2>7, <1>a, <1>b, <1>c, RemoveKeeps
  <2> QED BY <2>3, <2>8, <1>a, <1>c
<1> QED BY <1>4, <1>5
-----------------------------------------------------------------------------
(* The queues as sets of nodes. *)

\* The queues hold what walks along their links read off.
Sound(h) == Queues(h, [q \in QueueName |-> Contents(h, q)])

\* There is only one way for the queues to hold sequences.
LEMMA SoundIs ==
  ASSUME NEW h, NEW c, Queues(h, c)
  PROVE  /\ Sound(h)
         /\ \A q \in QueueName : /\ Contents(h, q) = c[q]
                                 /\ \A n : n \in Reachable(h, q) <=> Among(n, c[q])
<1>1. \A q \in QueueName : Holds(h, q, c[q])
  BY DEF Queues
<1>2. \A q \in QueueName : Contents(h, q) = c[q]
  BY <1>1, ContentsIs
<1>3. \A q \in QueueName : \A n : n \in Reachable(h, q) <=> Among(n, c[q])
  BY <1>1, ReachableIs
<1>4. c = [q \in QueueName |-> Contents(h, q)]
  BY <1>2 DEF Queues
<1> QED BY <1>2, <1>3, <1>4 DEF Sound

\* The sequences of sound queues.
LEMMA SoundQueues ==
  ASSUME NEW h, Sound(h)
  PROVE  \E c : /\ Queues(h, c)
                /\ \A q \in QueueName : /\ Contents(h, q) = c[q]
                                        /\ \A n : n \in Reachable(h, q) <=> Among(n, c[q])
<1> DEFINE c == [q \in QueueName |-> Contents(h, q)]
<1>1. Queues(h, c)
  BY DEF Sound
<1> QED BY <1>1, SoundIs

\* A queue is empty when its size says so, and its members are nodes; no node is
\* in two queues.
LEMMA SoundSets ==
  ASSUME NEW h, Sound(h)
  PROVE  /\ h \in Heap
         /\ \A q \in QueueName : /\ Reachable(h, q) \subseteq Node
                                 /\ QueueEmpty(h, q) <=> Reachable(h, q) = {}
         /\ \A q, r \in QueueName : q # r => Reachable(h, q) \cap Reachable(h, r) = {}
<1>1. PICK c : /\ Queues(h, c)
               /\ \A q \in QueueName : /\ Contents(h, q) = c[q]
                                       /\ \A n : n \in Reachable(h, q) <=> Among(n, c[q])
  BY SoundQueues
<1>2. ASSUME NEW q \in QueueName
      PROVE  Reachable(h, q) \subseteq Node /\ (QueueEmpty(h, q) <=> Reachable(h, q) = {})
  <2>1. Holds(h, q, c[q]) /\ c[q] \in Seq(Node)
    BY <1>1 DEF Queues
  <2>2. \A i \in 1 .. Len(c[q]) : c[q][i] \in Node /\ c[q][i] \in Reachable(h, q)
    BY <1>1, <2>1 DEF Among
  <2>3. \A n \in Reachable(h, q) : \E i \in 1 .. Len(c[q]) : n = c[q][i]
    BY <1>1 DEF Among
  <2>4. Len(c[q]) \in Nat /\ h.size[q] = Len(c[q])
    BY <2>1 DEF Holds
  <2>5. CASE Len(c[q]) = 0
    <3>1. 1 .. Len(c[q]) = {}
      BY <2>5
    <3> QED BY <3>1, <2>3, <2>4, <2>5 DEF QueueEmpty
  <2>6. CASE Len(c[q]) # 0
    <3>1. 1 \in 1 .. Len(c[q])
      BY <2>4, <2>6
    <3> QED BY <3>1, <2>2, <2>3, <2>4, <2>6 DEF QueueEmpty
  <2> QED BY <2>4, <2>5, <2>6
<1>3. ASSUME NEW q \in QueueName, NEW r \in QueueName, q # r
      PROVE  Reachable(h, q) \cap Reachable(h, r) = {}
  <2>1. \A n \in Node : ~ (Among(n, c[q]) /\ Among(n, c[r]))
    BY <1>1, <1>3 DEF Queues
  <2> QED BY <2>1, <1>1, <1>2
<1> QED BY <1>1, <1>2, <1>3 DEF Queues

\* A member of a queue is in it once, and nothing else is.
LEMMA SoundCounts ==
  ASSUME NEW h, Sound(h), NEW q \in QueueName, NEW n
  PROVE  /\ n \in {Contents(h, q)[i] : i \in 1 .. h.size[q]} <=> n \in Reachable(h, q)
         /\ Cardinality({i \in 1 .. h.size[q] : Contents(h, q)[i] = n})
               = IF n \in Reachable(h, q) THEN 1 ELSE 0
<1>1. PICK c : /\ Queues(h, c)
               /\ \A r \in QueueName : /\ Contents(h, r) = c[r]
                                       /\ \A x : x \in Reachable(h, r) <=> Among(x, c[r])
  BY SoundQueues
<1>2. Holds(h, q, c[q])
  BY <1>1 DEF Queues
<1>3. PICK s : s = c[q]
  OBVIOUS
<1> DEFINE At == {i \in 1 .. Len(s) : s[i] = n}
<1>4. /\ {i \in 1 .. h.size[q] : Contents(h, q)[i] = n} = At
      /\ {Contents(h, q)[i] : i \in 1 .. h.size[q]} = {s[i] : i \in 1 .. Len(s)}
      /\ n \in Reachable(h, q) <=> Among(n, s)
  BY <1>1, <1>2, <1>3 DEF Holds
<1>5. CASE Among(n, s)
  <2>1. PICK k \in 1 .. Len(s) : n = s[k]
    BY <1>5 DEF Among
  <2>2. \A i, j \in 1 .. Len(s) : s[i] = s[j] => i = j
    BY <1>2, <1>3 DEF Holds
  <2>3. At = {k}
    BY <2>1, <2>2
  <2> QED BY <2>3, <1>4, <1>5, FS_Singleton DEF Among
<1>6. CASE ~ Among(n, s)
  <2>1. At = {}
    BY <1>6 DEF Among
  <2> QED BY <2>1, <1>4, <1>6, FS_EmptySet DEF Among
<1> QED BY <1>5, <1>6

\* Nothing is in the queues to begin with.
LEMMA SoundEmpty == Sound(EmptyHeap) /\ \A q \in QueueName : Reachable(EmptyHeap, q) = {}
<1>1. Sound(EmptyHeap)
  BY EmptyQueues, SoundIs
<1>2. \A q \in QueueName : QueueEmpty(EmptyHeap, q)
  BY DEF QueueEmpty, EmptyHeap
<1> QED BY <1>1, <1>2, SoundSets

\* node_init of a node that is in no queue.
LEMMA SoundInit ==
  ASSUME NEW h, Sound(h), NEW n \in Node, \A r \in QueueName : n \notin Reachable(h, r)
  PROVE  /\ Sound(NodeInit(h, n))
         /\ \A r \in QueueName : Reachable(NodeInit(h, n), r) = Reachable(h, r)
<1>1. PICK c : /\ Queues(h, c)
               /\ \A r \in QueueName : /\ Contents(h, r) = c[r]
                                       /\ \A x : x \in Reachable(h, r) <=> Among(x, c[r])
  BY SoundQueues
<1>2. Queues(NodeInit(h, n), c)
  BY <1>1, InitKeeps
<1>3. /\ Sound(NodeInit(h, n))
      /\ \A r \in QueueName : \A x : x \in Reachable(NodeInit(h, n), r) <=> Among(x, c[r])
  BY <1>2, SoundIs
<1> QED BY <1>1, <1>3

\* queue_push of a node that is in no queue.
LEMMA SoundPush ==
  ASSUME NEW h, Sound(h), NEW q \in QueueName, NEW n \in Node,
         \A r \in QueueName : n \notin Reachable(h, r)
  PROVE  /\ Sound(QueuePush(h, q, n))
         /\ \A r \in QueueName : Reachable(QueuePush(h, q, n), r)
                                    = IF r = q THEN Reachable(h, q) \cup {n} ELSE Reachable(h, r)
<1>1. PICK c : /\ Queues(h, c)
               /\ \A r \in QueueName : /\ Contents(h, r) = c[r]
                                       /\ \A x : x \in Reachable(h, r) <=> Among(x, c[r])
  BY SoundQueues
<1> DEFINE g == QueuePush(h, q, n)
           d == [c EXCEPT ![q] = Append(@, n)]
<1>2. Queues(g, d)
  BY <1>1, PushKeeps
<1>3. Sound(g) /\ \A r \in QueueName : \A x : x \in Reachable(g, r) <=> Among(x, d[r])
  BY <1>2, SoundIs
<1> HIDE DEF g
<1>4. \A r \in QueueName : d[r] = IF r = q THEN Append(c[q], n) ELSE c[r]
  BY <1>1 DEF Queues
<1>5. \A x : Among(x, Append(c[q], n)) <=> Among(x, c[q]) \/ x = n
  <2>1. c[q] \in Seq(Node)
    BY <1>1 DEF Queues
  <2> QED BY <2>1 DEF Among
<1>6. \A x : x \in Reachable(g, q) <=> x \in Reachable(h, q) \cup {n}
  BY <1>1, <1>3, <1>4, <1>5
<1>7. \A r \in QueueName : \A x : r # q => (x \in Reachable(g, r) <=> x \in Reachable(h, r))
  BY <1>1, <1>3, <1>4
<1> QED BY <1>3, <1>6, <1>7 DEF g

\* queue_pop returns a member of the queue and takes it out; NULL if there is none.
LEMMA SoundPop ==
  ASSUME NEW h, Sound(h), NEW q \in QueueName
  PROVE  /\ Sound(QueuePop(h, q))
         /\ IF Reachable(h, q) = {} THEN QueueFront(h, q) = Nil
                                    ELSE QueueFront(h, q) \in Reachable(h, q)
         /\ \A r \in QueueName : Reachable(QueuePop(h, q), r)
               = IF r = q THEN Reachable(h, q) \ {QueueFront(h, q)} ELSE Reachable(h, r)
<1>1. PICK c : /\ Queues(h, c)
               /\ \A r \in QueueName : /\ Contents(h, r) = c[r]
                                       /\ \A x : x \in Reachable(h, r) <=> Among(x, c[r])
  BY SoundQueues
<1>2. QueueEmpty(h, q) <=> Reachable(h, q) = {}
  BY SoundSets
<1>3. CASE QueueEmpty(h, q)
  BY <1>2, <1>3 DEF QueuePop, QueueFront
<1>4. CASE ~ QueueEmpty(h, q)
  <2> DEFINE g == QueuePop(h, q)
             f == QueueFront(h, q)
             d == [c EXCEPT ![q] = Without(c[q], 1)]
  <2>1. c[q] # <<>>
    <3>1. PICK x : x \in Reachable(h, q)
      BY <1>2, <1>4
    <3>2. Among(x, c[q])
      BY <1>1, <3>1
    <3> QED BY <3>2 DEF Among
  <2>2. f = c[q][1] /\ c[q] \in Seq(Node) /\ 1 \in 1 .. Len(c[q]) /\ Queues(g, d)
    BY <2>1, <1>1, PopKeeps
  <2>3. Sound(g) /\ \A r \in QueueName : \A x : x \in Reachable(g, r) <=> Among(x, d[r])
    BY <2>2, SoundIs
  <2> HIDE DEF g, f
  <2>4. \A r \in QueueName : d[r] = IF r = q THEN Without(c[q], 1) ELSE c[r]
    BY <1>1 DEF Queues
  <2> HIDE DEF d
  <2>5. \A i, j \in 1 .. Len(c[q]) : c[q][i] = c[q][j] => i = j
    BY <1>1 DEF Queues, Holds
  <2>6. \A x : Among(x, Without(c[q], 1)) <=> Among(x, c[q]) /\ x # c[q][1]
    BY <2>2, <2>5, WithoutMembers
  <2>7. \A x : x \in Reachable(g, q) <=> x \in Reachable(h, q) \ {f}
    BY <1>1, <2>2, <2>3, <2>4, <2>6
  <2>8. \A r \in QueueName : \A x : r # q => (x \in Reachable(g, r) <=> x \in Reachable(h, r))
    BY <1>1, <2>3, <2>4
  <2>9. f \in Reachable(h, q)
    BY <1>1, <2>2 DEF Among
  <2>10. \A r \in QueueName :
            Reachable(g, r) = IF r = q THEN Reachable(h, q) \ {f} ELSE Reachable(h, r)
    BY <2>7, <2>8
  <2> QED BY <2>3, <2>9, <2>10, <1>2, <1>4 DEF g, f
<1> QED BY <1>3, <1>4

\* queue_erase of a member of the queue.
LEMMA SoundErase ==
  ASSUME NEW h, Sound(h), NEW q \in QueueName, NEW n \in Reachable(h, q)
  PROVE  /\ Sound(QueueErase(h, q, n))
         /\ \A r \in QueueName : Reachable(QueueErase(h, q, n), r)
               = IF r = q THEN Reachable(h, q) \ {n} ELSE Reachable(h, r)
<1>1. PICK c : /\ Queues(h, c)
               /\ \A r \in QueueName : /\ Contents(h, r) = c[r]
                                       /\ \A x : x \in Reachable(h, r) <=> Among(x, c[r])
  BY SoundQueues
<1>2. PICK k \in 1 .. Len(c[q]) : n = c[q][k]
  BY <1>1 DEF Among
<1> DEFINE g == QueueErase(h, q, n)
           d == [c EXCEPT ![q] = Without(c[q], k)]
<1>3. Queues(g, d)
  BY <1>1, <1>2, EraseKeeps
<1>4. Sound(g) /\ \A r \in QueueName : \A x : x \in Reachable(g, r) <=> Among(x, d[r])
  BY <1>3, SoundIs
<1> HIDE DEF g
<1>5. \A r \in QueueName : d[r] = IF r = q THEN Without(c[q], k) ELSE c[r]
  BY <1>1 DEF Queues
<1> HIDE DEF d
<1>6. \A x : Among(x, Without(c[q], k)) <=> Among(x, c[q]) /\ x # n
  <2>1. \A i, j \in 1 .. Len(c[q]) : c[q][i] = c[q][j] => i = j
    BY <1>1 DEF Queues, Holds
  <2>2. c[q] \in Seq(Node)
    BY <1>1 DEF Queues
  <2> QED BY <2>1, <2>2, <1>2, WithoutMembers
<1>7. \A x : x \in Reachable(g, q) <=> x \in Reachable(h, q) \ {n}
  BY <1>1, <1>4, <1>5, <1>6
<1>8. \A r \in QueueName : \A x : r # q => (x \in Reachable(g, r) <=> x \in Reachable(h, r))
  BY <1>1, <1>4, <1>5
<1> QED BY <1>4, <1>7, <1>8 DEF g
=============================================================================
