--------------------------- MODULE ListQueueProofs ---------------------------
(***************************************************************************)
(* For any number of queues and nodes, the links of lib/template are a     *)
(* refinement of sequences, for a client that keeps the discipline.        *)
(***************************************************************************)
EXTENDS ListQueue, QueueProofs, SequenceTheorems

\* The sequence without its first member is the tail.
LEMMA WithoutFirst ==
  ASSUME NEW s \in Seq(Node), s # <<>>
  PROVE  Without(s, 1) = Tail(s)
<1>1. 1 \in 1 .. Len(s)
  BY EmptySeq
<1>2. /\ Tail(s) \in Seq(Node) /\ Len(Tail(s)) = Len(s) - 1
      /\ \A i \in 1 .. Len(s) - 1 : Tail(s)[i] = s[i + 1]
  BY HeadTailProperties
<1>3. /\ Without(s, 1) \in Seq(Node) /\ Len(Without(s, 1)) = Len(s) - 1
      /\ \A i \in 1 .. Len(s) - 1 : Without(s, 1)[i] = s[i + 1]
  BY <1>1, WithoutIs
<1> QED BY <1>2, <1>3, SeqEqual

\* The sequence without its member number k, put together from two parts.
LEMMA WithoutAt ==
  ASSUME NEW s \in Seq(Node), NEW k \in 1 .. Len(s)
  PROVE  Without(s, k) = RemoveAt(s, k)
<1> DEFINE a == SubSeq(s, 1, k - 1)
           b == SubSeq(s, k + 1, Len(s))
<1>1. Len(s) \in Nat /\ k \in Nat /\ k > 0 /\ k <= Len(s)
  BY LenProperties
<1>2. /\ a \in Seq(Node) /\ Len(a) = k - 1
      /\ \A i \in 1 .. k - 1 : a[i] = s[i]
  <2>1. /\ SubSeq(s, 1, k - 1) \in Seq(Node)
        /\ Len(SubSeq(s, 1, k - 1)) = IF 1 <= k - 1 THEN k - 1 - 1 + 1 ELSE 0
        /\ \A i \in 1 .. k - 1 - 1 + 1 : SubSeq(s, 1, k - 1)[i] = s[1 + i - 1]
    BY <1>1, SubSeqProperties
  <2> QED BY <2>1, <1>1
<1>3. /\ b \in Seq(Node) /\ Len(b) = Len(s) - k
      /\ \A i \in 1 .. Len(s) - k : b[i] = s[k + i]
  <2>1. /\ SubSeq(s, k + 1, Len(s)) \in Seq(Node)
        /\ Len(SubSeq(s, k + 1, Len(s)))
              = IF k + 1 <= Len(s) THEN Len(s) - (k + 1) + 1 ELSE 0
        /\ \A i \in 1 .. Len(s) - (k + 1) + 1 :
              SubSeq(s, k + 1, Len(s))[i] = s[k + 1 + i - 1]
    BY <1>1, SubSeqProperties
  <2> QED BY <2>1, <1>1
<1> HIDE DEF a, b
<1>4. /\ a \o b \in Seq(Node) /\ Len(a \o b) = Len(s) - 1
      /\ \A i \in 1 .. Len(s) - 1 : (a \o b)[i] = IF i < k THEN s[i] ELSE s[i + 1]
  <2>1. /\ a \o b \in Seq(Node) /\ Len(a \o b) = Len(a) + Len(b)
        /\ \A i \in 1 .. Len(a) + Len(b) :
              (a \o b)[i] = IF i <= Len(a) THEN a[i] ELSE b[i - Len(a)]
    BY <1>2, <1>3, ConcatProperties
  <2>2. Len(a) + Len(b) = Len(s) - 1
    BY <1>1, <1>2, <1>3
  <2>3. ASSUME NEW i \in 1 .. Len(s) - 1
        PROVE  (a \o b)[i] = IF i < k THEN s[i] ELSE s[i + 1]
    <3>1. CASE i < k
      BY <3>1, <2>1, <2>2, <1>1, <1>2
    <3>2. CASE ~ (i < k)
      <4>1. i - (k - 1) \in 1 .. Len(s) - k /\ k + (i - (k - 1)) = i + 1
        BY <3>2, <1>1
      <4>2. ~ (i <= Len(a)) /\ i - Len(a) = i - (k - 1)
        BY <3>2, <1>1, <1>2
      <4>3. (a \o b)[i] = b[i - (k - 1)]
        BY <4>2, <2>1, <2>2
      <4> QED BY <4>1, <4>3, <1>3, <3>2
    <3> QED BY <3>1, <3>2
  <2> QED BY <2>1, <2>2, <2>3
<1>5. /\ Without(s, k) \in Seq(Node) /\ Len(Without(s, k)) = Len(s) - 1
      /\ \A i \in 1 .. Len(s) - 1 : Without(s, k)[i] = IF i < k THEN s[i] ELSE s[i + 1]
  BY WithoutIs
<1>6. Without(s, k) = a \o b
  BY <1>4, <1>5, SeqEqual
<1> QED BY <1>6 DEF RemoveAt, a, b
-----------------------------------------------------------------------------
\* The client's view of a queue is the set of nodes a search meets.
LEMMA MembersAre ==
  ASSUME Sound(heap), NEW q \in QueueName
  PROVE  /\ Contents(heap, q) \in Seq(Node)
         /\ Members(q) = Reachable(heap, q)
         /\ \A n : n \in Members(q) <=> Among(n, Contents(heap, q))
<1>1. PICK c : /\ Queues(heap, c)
               /\ \A r \in QueueName : /\ Contents(heap, r) = c[r]
                                       /\ \A n : n \in Reachable(heap, r) <=> Among(n, c[r])
  BY SoundQueues
<1>2. c[q] \in Seq(Node)
  BY <1>1 DEF Queues
<1>3. \A n : n \in ToSet(c[q]) <=> Among(n, c[q])
  BY <1>2, LenProperties DEF ToSet, Among
<1> QED BY <1>1, <1>2, <1>3 DEF Members

\* A push, as a step of SeqQueues.
LEMMA PushStep ==
  ASSUME Sound(heap), NEW q \in QueueName, NEW n \in Node, Push(q, n)
  PROVE  Sound(heap)' /\ AsSequences!SeqPush(q, n)
<1>1. PICK c : /\ Queues(heap, c)
               /\ \A r \in QueueName : /\ Contents(heap, r) = c[r]
                                       /\ \A x : x \in Reachable(heap, r) <=> Among(x, c[r])
  BY SoundQueues
<1>2. \A r \in QueueName : n \notin Members(r) /\ ~ Among(n, c[r])
  BY <1>1, MembersAre DEF Push, Loose
<1> DEFINE d == [c EXCEPT ![q] = Append(@, n)]
<1>3. Queues(heap', d)
  BY <1>1, <1>2, PushKeeps DEF Push
<1>4. Sound(heap') /\ \A r \in QueueName : Contents(heap', r) = d[r]
  BY <1>3, SoundIs
<1>5. c \in [QueueName -> Seq(Node)]
  BY <1>1 DEF Queues
<1>6. /\ [r \in QueueName |-> Contents(heap, r)] = c
      /\ [r \in QueueName |-> Contents(heap', r)] = d
  BY <1>1, <1>4, <1>5
<1>7. \A r \in QueueName : n \notin ToSet([x \in QueueName |-> Contents(heap, x)][r])
  BY <1>2 DEF Members
<1>8. [r \in QueueName |-> Contents(heap', r)]
         = [[r \in QueueName |-> Contents(heap, r)] EXCEPT ![q] = Append(@, n)]
  BY <1>6
<1> QED BY <1>4, <1>7, <1>8 DEF AsSequences!SeqPush, AsSequences!InQueue,
                               AsSequences!ToSet, ToSet

\* A pop.
LEMMA PopStep ==
  ASSUME Sound(heap), NEW q \in QueueName, Pop(q)
  PROVE  Sound(heap)' /\ AsSequences!SeqPop(q)
<1>1. PICK c : /\ Queues(heap, c)
               /\ \A r \in QueueName : /\ Contents(heap, r) = c[r]
                                       /\ \A x : x \in Reachable(heap, r) <=> Among(x, c[r])
  BY SoundQueues
<1>2. c \in [QueueName -> Seq(Node)] /\ c[q] \in Seq(Node) /\ c[q] # <<>>
  <2>1. Reachable(heap, q) # {}
    BY SoundSets DEF Pop
  <2>2. \E x : Among(x, c[q])
    BY <2>1, <1>1
  <2> QED BY <2>2, <1>1 DEF Queues, Among
<1> DEFINE d == [c EXCEPT ![q] = Tail(@)]
<1>3. Queues(heap', d)
  <2>1. Queues(QueuePop(heap, q), [c EXCEPT ![q] = Without(c[q], 1)])
    BY <1>1, <1>2, PopKeeps
  <2>2. Without(c[q], 1) = Tail(c[q])
    BY <1>2, WithoutFirst
  <2> QED BY <2>1, <2>2 DEF Pop
<1>4. Sound(heap') /\ \A r \in QueueName : Contents(heap', r) = d[r]
  BY <1>3, SoundIs
<1>5. /\ [r \in QueueName |-> Contents(heap, r)] = c
      /\ [r \in QueueName |-> Contents(heap', r)] = d
  BY <1>1, <1>2, <1>4
<1> QED BY <1>2, <1>4, <1>5 DEF AsSequences!SeqPop

\* An erase.
LEMMA EraseStep ==
  ASSUME Sound(heap), NEW q \in QueueName, NEW n \in Node, Erase(q, n)
  PROVE  Sound(heap)' /\ AsSequences!SeqErase(q, n)
<1>1. PICK c : /\ Queues(heap, c)
               /\ \A r \in QueueName : /\ Contents(heap, r) = c[r]
                                       /\ \A x : x \in Reachable(heap, r) <=> Among(x, c[r])
  BY SoundQueues
<1>2. c \in [QueueName -> Seq(Node)] /\ c[q] \in Seq(Node)
  BY <1>1 DEF Queues
<1>3. PICK k \in 1 .. Len(c[q]) : n = c[q][k]
  BY <1>1, MembersAre DEF Erase, Among
<1> DEFINE d == [c EXCEPT ![q] = RemoveAt(@, k)]
<1>4. Queues(heap', d)
  <2>1. Queues(QueueErase(heap, q, c[q][k]), [c EXCEPT ![q] = Without(c[q], k)])
    BY <1>1, EraseKeeps
  <2>2. Without(c[q], k) = RemoveAt(c[q], k)
    BY <1>2, WithoutAt
  <2> QED BY <2>1, <2>2, <1>3 DEF Erase
<1>5. Sound(heap') /\ \A r \in QueueName : Contents(heap', r) = d[r]
  BY <1>4, SoundIs
<1>6. /\ [r \in QueueName |-> Contents(heap, r)] = c
      /\ [r \in QueueName |-> Contents(heap', r)] = d
  BY <1>1, <1>2, <1>5
<1>7. k \in DOMAIN c[q]
  BY <1>2, LenProperties
<1>8. /\ [r \in QueueName |-> Contents(heap', r)]
            = [[r \in QueueName |-> Contents(heap, r)] EXCEPT ![q] = RemoveAt(@, k)]
      /\ k \in DOMAIN [r \in QueueName |-> Contents(heap, r)][q]
      /\ [r \in QueueName |-> Contents(heap, r)][q][k] = n
  BY <1>3, <1>6, <1>7
<1> QED BY <1>5, <1>8 DEF AsSequences!SeqErase, AsSequences!RemoveAt, RemoveAt

\* The queues are empty to begin with.
LEMMA QInitSound == QInit => Sound(heap) /\ AsSequences!SeqInit
<1> SUFFICES ASSUME QInit
             PROVE  Sound(heap) /\ AsSequences!SeqInit
  OBVIOUS
<1>1. Queues(heap, [q \in QueueName |-> <<>>])
  BY EmptyQueues DEF QInit
<1>2. Sound(heap) /\ \A q \in QueueName : Contents(heap, q) = <<>>
  BY <1>1, SoundIs
<1> QED BY <1>2 DEF AsSequences!SeqInit

\* Every step keeps the queues sound and is one of SeqQueues.
LEMMA QNextSound ==
  ASSUME Sound(heap), [QNext]_heap
  PROVE  Sound(heap)' /\ [AsSequences!SeqNext]_[q \in QueueName |-> Contents(heap, q)]
<1>1. CASE UNCHANGED heap
  BY <1>1
<1>2. ASSUME NEW q \in QueueName, Pop(q)
      PROVE  Sound(heap)' /\ AsSequences!SeqNext
  BY <1>2, PopStep DEF AsSequences!SeqNext
<1>3. ASSUME NEW q \in QueueName, NEW n \in Node, Push(q, n)
      PROVE  Sound(heap)' /\ AsSequences!SeqNext
  BY <1>3, PushStep DEF AsSequences!SeqNext
<1>4. ASSUME NEW q \in QueueName, NEW n \in Node, Erase(q, n)
      PROVE  Sound(heap)' /\ AsSequences!SeqNext
  BY <1>4, EraseStep DEF AsSequences!SeqNext
<1> QED BY <1>1, <1>2, <1>3, <1>4 DEF QNext

\* What sound queues say of the links.
LEMMA SoundImplies ==
  ASSUME Sound(heap)
  PROVE  ChainsAreSound /\ LooseNodesAreUnlinked
<1>1. PICK c : /\ Queues(heap, c)
               /\ \A r \in QueueName : /\ Contents(heap, r) = c[r]
                                       /\ \A x : x \in Reachable(heap, r) <=> Among(x, c[r])
  BY SoundQueues
<1>2. ASSUME NEW q \in QueueName
      PROVE  LET s == Contents(heap, q)
             IN /\ Nil \notin ToSet(s)
                /\ Reachable(heap, q) = ToSet(s)
                /\ heap.back[q] = IF s = <<>> THEN Nil ELSE Last(s)
                /\ \A i \in DOMAIN s : heap.prev[s[i]] = IF i = 1 THEN Nil ELSE s[i - 1]
  <2>1. Holds(heap, q, c[q]) /\ c[q] \in Seq(Node) /\ Contents(heap, q) = c[q]
    BY <1>1 DEF Queues
  <2>2. Reachable(heap, q) = ToSet(c[q]) /\ Reachable(heap, q) \subseteq Node
    BY <2>1, MembersAre, SoundSets DEF Members
  <2>3. DOMAIN c[q] = 1 .. Len(c[q])
    BY <2>1, LenProperties
  <2>4. heap.back[q] = IF c[q] = <<>> THEN Nil ELSE Last(c[q])
    BY <2>1 DEF Holds, Last
  <2>5. \A i \in 1 .. Len(c[q]) : heap.prev[c[q][i]] = IF i = 1 THEN Nil ELSE c[q][i - 1]
    BY <2>1 DEF Holds
  <2> QED BY <2>1, <2>2, <2>3, <2>4, <2>5, QueueAssumption
<1>3. ASSUME NEW n \in Node, Loose(n)
      PROVE  heap.prev[n] = Nil /\ heap.next[n] = Nil
  <2>1. \A q \in QueueName : ~ Among(n, c[q])
    BY <1>1, <1>3, MembersAre DEF Loose
  <2> QED BY <2>1, <1>1 DEF Queues
<1> QED BY <1>2, <1>3 DEF ChainsAreSound, LooseNodesAreUnlinked
-----------------------------------------------------------------------------
\* The links of every queue are those of a sequence, whatever the client does.
THEOREM QueuesAreSound == QSpec => []Sound(heap)
<1> QED BY QInitSound, QNextSound, PTL DEF QSpec

\* The two directions of every chain agree and end at the queue's two ends.
THEOREM ChainsSound == QSpec => []ChainsAreSound
<1> QED BY QueuesAreSound, SoundImplies, PTL

\* A node that left a queue has no links, so that the next push may trust them.
THEOREM NodesUnlinked == QSpec => []LooseNodesAreUnlinked
<1> QED BY QueuesAreSound, SoundImplies, PTL

\* The queues implement SeqQueues: first in, first out, no node lost or twice.
THEOREM QueuesKeepOrder == QSpec => KeepsOrder
<1>1. QInit => AsSequences!SeqInit
  BY QInitSound
<1>2. Sound(heap) /\ [QNext]_heap
        => [AsSequences!SeqNext]_[q \in QueueName |-> Contents(heap, q)]
  BY QNextSound
<1> QED BY <1>1, <1>2, QueuesAreSound, PTL DEF QSpec, KeepsOrder, AsSequences!SeqSpec
=============================================================================
