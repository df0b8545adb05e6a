-------------------------- MODULE InterruptsProofs --------------------------
(***************************************************************************)
(* The queue objects of the interrupt code are each in one place, under    *)
(* context switches and deaths too; and while the shell runs no handler is *)
(* re-entered or overtaken by a lower one, and no interrupt is lost but a  *)
(* timer's for which a read through NULL misleads enqueue_task.            *)
(***************************************************************************)
EXTENDS Interrupts, FiniteSetTheorems, NaturalsInduction, WellFoundedInduction, TLAPS

\* A queue is in the pool once and then empty, or under one activation and then
\* not; and it is in one of the two.
PoolAndFrames ==
    /\ \A i, j \in DOMAIN pool : pool[i] = pool[j] /\ pool[i] # Null => i = j
    /\ \A i \in DOMAIN pool : pool[i] # Null => tasks[pool[i]] = <<>>
    /\ \A c, d \in Context : \A i \in DOMAIN stack[c], j \in DOMAIN stack[d] :
          stack[c][i].queue = stack[d][j].queue => c = d /\ i = j
    /\ \A c \in Context : \A i \in DOMAIN stack[c] : tasks[stack[c][i].queue] # <<>>
    /\ \A q \in Queue : \/ \E i \in DOMAIN pool : pool[i] = q
                        \/ \E c \in Context : \E i \in DOMAIN stack[c] : stack[c][i].queue = q

\* No more tasks are queued than were taken from the pool and not leaked.
Counted ==
    /\ \A q \in Queue : Len(tasks[q]) <= TaskPoolLen
    /\ Cardinality(Queued) + spare + leaked <= TaskPoolLen

\* What every step keeps.
QInv == IrqTypeOK /\ PoolAndFrames /\ Counted

\* The shell's activations: none, one, or the timer's inside the UART's.  Queues
\* leave the pool in their order and go back in it.  The first keeps a pointer to
\* the second when that one has been freed.
Nest ==
    /\ Depth \in 0 .. 2
    /\ pool = [i \in 1 .. QueuePoolLen - Depth |-> Depth + i]
    /\ \A i \in 1 .. Depth : stack[Boot][i].queue = i
    /\ base = IF Depth = 0 THEN Null ELSE 1
    /\ \A q \in Queue : preemptor[q] \in {Null, 2} /\ (preemptor[q] = 2 => q <= Depth)
    /\ Depth = 2 => preemptor[1] = 2

\* The tasks of an activation are sorted by priority.
Ordered ==
    /\ \A i, j \in DOMAIN tasks[1] : i < j /\ tasks[1][i] = "uart" => tasks[1][j] = "uart"
    /\ Depth = 2 => /\ \A i \in DOMAIN tasks[1] : tasks[1][i] = "uart"
                    /\ \A i \in DOMAIN tasks[2] : tasks[2][i] = "timer"

\* A task of s waits in a queue of the shell, or is being handled.
Waits(s) ==
    \E k \in 1 .. Depth : \E i \in DOMAIN tasks[k] :
        tasks[k][i] = s /\ (i = 1 => stack[Boot][k].at # "end")

\* Address 40 does not hold a number that passes for a priority of the timer's.
NullIsLow == nullPriority < Priority["timer"]

\* A masked source is served; Attended is Served in terms of the nest.
Attended == \A s \in masked : Waits(s) \/ (s = "timer" /\ (~ Pending \/ ~ NullIsLow))

\* What every step keeps while the shell runs.
Shell == /\ Nest /\ Ordered /\ Attended
         /\ NullIsLow => spare + leaked + Cardinality(Queued) = TaskPoolLen

\* The shell does not come back once schedule() has left it.
ShellInv == /\ InShell => Shell
            /\ cur = Boot => \A f \in Frames(Boot) : f.at # "back"
-----------------------------------------------------------------------------
(* The helpers of enqueue_task. *)

LEMMA LeastExists ==
  ASSUME NEW S \in SUBSET Nat, S # {}
  PROVE  \E n \in S : \A m \in S : n <= m
<1>1. PICK n \in S : \A y \in S : ~ (<<y, n>> \in OpToRel(<, Nat))
  BY NatLessThanWellFounded, WFMin
<1>2. ASSUME NEW m \in S, m < n PROVE FALSE
  <2>1. <<m, n>> \in OpToRel(<, Nat)
    BY <1>2 DEF OpToRel
  <2> QED BY <1>1, <2>1
<1> QED BY <1>2

\* The second loop puts the task at one place k behind the head: the tasks between
\* the head and k are of no lower priority, the one that follows is.
LEMMA InsertedIs ==
  ASSUME NEW ts \in Seq(Source), ts # <<>>, NEW s \in Source
  PROVE  \E k \in 2 .. Len(ts) + 1 :
            /\ \A i \in 2 .. k - 1 : Priority[ts[i]] >= Priority[s]
            /\ k <= Len(ts) => Priority[ts[k]] < Priority[s]
            /\ Inserted(ts, s) \in Seq(Source)
            /\ Len(Inserted(ts, s)) = Len(ts) + 1
            /\ \A i \in 1 .. Len(ts) + 1 :
                  Inserted(ts, s)[i] = IF i < k THEN ts[i] ELSE IF i = k THEN s ELSE ts[i - 1]
<1> DEFINE lower == {i \in 2 .. Len(ts) : Priority[ts[i]] < Priority[s]}
           S == lower \cup {Len(ts) + 1}
<1>1. Len(ts) \in Nat /\ Len(ts) > 0
  OBVIOUS
<1>2. S \in SUBSET Nat /\ S # {}
  BY <1>1
<1>3. Min(S) \in S /\ \A m \in S : Min(S) <= m
  <2> HIDE DEF S
  <2>1. \E n \in S : \A m \in S : n <= m
    BY <1>2, LeastExists
  <2> QED BY <2>1 DEF Min
<1>4. PICK k : k = Min(S)
  OBVIOUS
<1>5. k \in S /\ \A m \in S : k <= m
  BY <1>3, <1>4
<1>6. k \in 2 .. Len(ts) + 1
  BY <1>1, <1>5
<1>7. \A i \in 2 .. k - 1 : Priority[ts[i]] >= Priority[s]
  <2> SUFFICES ASSUME NEW i \in 2 .. k - 1, ~ (Priority[ts[i]] >= Priority[s]) PROVE FALSE
    OBVIOUS
  <2>1. i \in 2 .. Len(ts) /\ ~ (k <= i)
    BY <1>1, <1>6
  <2>2. ts[i] \in Source
    BY <2>1
  <2>3. Priority[ts[i]] < Priority[s]
    BY <2>2 DEF Priority, Source
  <2> QED BY <2>1, <2>3, <1>5
<1>8. k <= Len(ts) => Priority[ts[k]] < Priority[s]
  BY <1>5, <1>6, <1>1
<1>9. Inserted(ts, s) = SubSeq(ts, 1, k - 1) \o <<s>> \o SubSeq(ts, k, Len(ts))
  BY <1>4 DEF Inserted, InsertAt
<1> DEFINE a == SubSeq(ts, 1, k - 1)
           b == SubSeq(ts, k, Len(ts))
<1> HIDE DEF lower, S
<1>10. /\ a \in Seq(Source) /\ Len(a) = k - 1
       /\ \A i \in 1 .. k - 1 : a[i] = ts[i]
  BY <1>1, <1>6
<1>11. /\ b \in Seq(Source) /\ Len(b) = Len(ts) + 1 - k
       /\ \A i \in 1 .. Len(ts) + 1 - k : b[i] = ts[k + i - 1]
  BY <1>1, <1>6
<1> HIDE DEF a, b
<1> DEFINE m == a \o <<s>>
<1>12. /\ m \in Seq(Source) /\ Len(m) = k
       /\ \A i \in 1 .. k : m[i] = IF i < k THEN ts[i] ELSE s
  BY <1>1, <1>6, <1>10
<1> HIDE DEF m
<1>13. /\ m \o b \in Seq(Source) /\ Len(m \o b) = Len(ts) + 1
       /\ \A i \in 1 .. Len(ts) + 1 :
             (m \o b)[i] = IF i < k THEN ts[i] ELSE IF i = k THEN s ELSE ts[i - 1]
  <2>1. m \o b \in Seq(Source) /\ Len(m \o b) = Len(ts) + 1
    <3>1. m \o b \in Seq(Source) /\ Len(m \o b) = Len(m) + Len(b)
      BY <1>11, <1>12
    <3>2. k + (Len(ts) + 1 - k) = Len(ts) + 1
      BY <1>1, <1>6
    <3> QED BY <3>1, <3>2, <1>11, <1>12
  <2>2. ASSUME NEW i \in 1 .. Len(ts) + 1
        PROVE  (m \o b)[i] = IF i < k THEN ts[i] ELSE IF i = k THEN s ELSE ts[i - 1]
    <3>1. CASE i <= k
      BY <3>1, <1>1, <1>6, <1>11, <1>12
    <3>2. CASE i > k
      <4>1. (m \o b)[i] = b[i - k] /\ i - k \in 1 .. Len(ts) + 1 - k
        BY <3>2, <1>1, <1>6, <1>11, <1>12
      <4>2. k + (i - k) - 1 = i - 1 /\ ~ (i < k) /\ i # k
        BY <3>2, <1>6
      <4>3. b[i - k] = ts[k + (i - k) - 1]
        BY <4>1, <1>11
      <4> QED BY <4>1, <4>2, <4>3
    <3>3. i <= k \/ i > k
      BY <1>1, <1>6
    <3> QED BY <3>1, <3>2, <3>3, Zenon
  <2> QED BY <2>1, <2>2
<1> QED BY <1>6, <1>7, <1>8, <1>9, <1>13 DEF m, a, b

Pointer == Queue \cup {Null}

\* The turns of the first loop.
Turns(s, w) ==
    /\ w \in [0 .. QueuePoolLen -> Pointer \X Pointer]
    /\ w[0] = <<Null, base>>
    /\ \A i \in 1 .. QueuePoolLen :
          w[i] = LET at == w[i - 1][2]
                 IN IF at # Null /\ Priority[s] > HeadPriority(at)
                    THEN <<at, preemptor[at]>> ELSE w[i - 1]

\* The first loop has them.
LEMMA SearchIs ==
  ASSUME IrqTypeOK, NEW s \in Source
  PROVE  \E w : Turns(s, w) /\ Search(s) = w[QueuePoolLen]
<1> DEFINE N == QueuePoolLen
           Next1(p) == IF p[2] # Null /\ Priority[s] > HeadPriority(p[2])
                       THEN <<p[2], preemptor[p[2]]>> ELSE p
           Walk(n, g) == [i \in 0 .. n |-> IF i = 0 THEN <<Null, base>> ELSE Next1(g[i - 1])]
           Bad == {n \in 0 .. N : ~ \E g : g = Walk(n, g)}
<1>1. N \in Nat /\ 0 \in 0 .. N /\ N \in 0 .. N
  BY InterruptsAssumption
<1>2. Bad = {}
  <2> SUFFICES ASSUME Bad # {} PROVE FALSE
    OBVIOUS
  <2>1. Bad \in SUBSET Nat
    BY <1>1
  <2>2. PICK n \in Bad : \A m \in Bad : n <= m
    <3> HIDE DEF Bad
    <3> QED BY <2>1, LeastExists
  <2>3. n # 0
    <3> SUFFICES ASSUME n = 0 PROVE FALSE
      OBVIOUS
    <3> DEFINE g0 == [i \in 0 .. 0 |-> <<Null, base>>]
    <3>1. g0 = Walk(0, g0)
      <4> HIDE DEF Next1
      <4>1. \A i \in 0 .. 0 : i = 0
        OBVIOUS
      <4> QED BY <4>1
    <3> HIDE DEF g0, Walk
    <3> QED BY <3>1
  <2>4. n - 1 \in 0 .. N /\ n - 1 \notin Bad /\ n \in 0 .. N
    <3>1. Bad \subseteq 0 .. N
      OBVIOUS
    <3> HIDE DEF Bad
    <3> QED BY <1>1, <2>2, <2>3, <3>1
  <2>5. PICK g : g = Walk(n - 1, g)
    BY <2>4
  <2> DEFINE h == [i \in 0 .. n |-> IF i < n THEN g[i] ELSE Next1(g[n - 1])]
  <2>6. h = Walk(n, h)
    <3> HIDE DEF Next1
    <3>1. \A i \in 0 .. n - 1 : g[i] = IF i = 0 THEN <<Null, base>> ELSE Next1(g[i - 1])
      BY <2>5
    <3>2. ASSUME NEW i \in 0 .. n
          PROVE  h[i] = IF i = 0 THEN <<Null, base>> ELSE Next1(h[i - 1])
      <4>1. CASE i = 0
        BY <4>1, <3>1, <2>3, <2>4, <1>1
      <4>2. CASE i # 0 /\ i < n
        <5>1. h[i] = g[i] /\ h[i - 1] = g[i - 1] /\ i \in 0 .. n - 1
          BY <4>2, <2>4, <1>1
        <5> QED BY <5>1, <4>2, <3>1
      <4>3. CASE i = n
        <5>1. h[i] = Next1(g[n - 1]) /\ h[i - 1] = g[n - 1]
          BY <4>3, <2>3, <2>4, <1>1
        <5> QED BY <5>1, <4>3, <2>3
      <4> QED BY <4>1, <4>2, <4>3, <2>4, <1>1
    <3> QED BY <3>2
  <2> HIDE DEF h, Walk
  <2> QED BY <2>2, <2>6
<1>3. \E g : g = Walk(N, g)
  <2> HIDE DEF Walk
  <2> QED BY <1>1, <1>2
<1>4. PICK w : w = Walk(N, w) /\ Search(s) = w[N]
  <2> DEFINE c == CHOOSE g : g = Walk(N, g)
  <2>1. c = Walk(N, c)
    <3> HIDE DEF Walk
    <3> QED BY <1>3
  <2>2. Search(s) = c[N]
    BY DEF Search
  <2> HIDE DEF c, Walk
  <2> QED BY <2>1, <2>2
<1>5. w = [i \in 0 .. N |-> w[i]]
  BY <1>4
<1>6. \A i \in 0 .. N : w[i] = IF i = 0 THEN <<Null, base>> ELSE Next1(w[i - 1])
  <2> HIDE DEF Next1
  <2> QED BY <1>4
<1>7. ASSUME NEW p \in Pointer \X Pointer PROVE Next1(p) \in Pointer \X Pointer
  <2>1. p[2] \in Pointer
    OBVIOUS
  <2>2. p[2] # Null => p[2] \in Queue /\ preemptor[p[2]] \in Pointer
    BY <2>1 DEF Pointer, IrqTypeOK
  <2> QED BY <2>1, <2>2
<1>8. <<Null, base>> \in Pointer \X Pointer
  BY DEF IrqTypeOK, Pointer
<1> HIDE DEF Next1, Bad, Walk
<1>9. \A i \in 0 .. N : w[i] \in Pointer \X Pointer
  <2> DEFINE Out == {i \in 0 .. N : w[i] \notin Pointer \X Pointer}
  <2> SUFFICES ASSUME Out # {} PROVE FALSE
    OBVIOUS
  <2>1. Out \in SUBSET Nat
    BY <1>1
  <2>2. PICK i \in Out : \A m \in Out : i <= m
    <3> HIDE DEF Out
    <3> QED BY <2>1, LeastExists
  <2>3. i # 0
    BY <1>6, <1>8, <1>1
  <2>4. i - 1 \in 0 .. N /\ i - 1 \notin Out
    BY <1>1, <2>2, <2>3
  <2>5. w[i - 1] \in Pointer \X Pointer
    BY <2>4
  <2> QED BY <2>3, <2>5, <1>6, <1>7
<1>10. Turns(s, w)
  <2>1. w \in [0 .. N -> Pointer \X Pointer]
    BY <1>5, <1>9
  <2>2. w[0] = <<Null, base>>
    BY <1>1, <1>6
  <2>3. \A i \in 1 .. N : w[i] = Next1(w[i - 1])
    BY <1>1, <1>6
  <2> QED BY <2>1, <2>2, <2>3 DEF Turns, Next1
<1> QED BY <1>4, <1>10
-----------------------------------------------------------------------------
(* How many tasks are queued. *)

LEMMA PlacesAreFinite ==
  ASSUME NEW S \in SUBSET (Queue \X (1 .. TaskPoolLen))
  PROVE  IsFiniteSet(S) /\ Cardinality(S) \in Nat
<1>1. IsFiniteSet(Queue) /\ IsFiniteSet(1 .. TaskPoolLen)
  BY FS_Interval, InterruptsAssumption DEF Queue
<1>2. IsFiniteSet(Queue \X (1 .. TaskPoolLen))
  BY <1>1, FS_Product
<1>3. IsFiniteSet(S)
  BY <1>2, FS_Subset
<1> QED BY <1>3, FS_CardinalityType

\* One task more.
LEMMA QueuedGrows ==
  ASSUME QInv, spare > 0, tasks' \in [Queue -> Seq(Source)], NEW q \in Queue,
         Len(tasks'[q]) = Len(tasks[q]) + 1, \A r \in Queue : r # q => tasks'[r] = tasks[r]
  PROVE  /\ Cardinality(Queued') = Cardinality(Queued) + 1
         /\ \A r \in Queue : Len(tasks'[r]) <= TaskPoolLen
<1> DEFINE n == Len(tasks[q])
           row == {q} \X (1 .. n)
<1>1. /\ tasks \in [Queue -> Seq(Source)] /\ spare \in Nat /\ n \in Nat /\ TaskPoolLen \in Nat
      /\ leaked \in Nat /\ \A r \in Queue : Len(tasks[r]) <= TaskPoolLen
      /\ Cardinality(Queued) + spare + leaked <= TaskPoolLen
  BY InterruptsAssumption DEF QInv, IrqTypeOK, Counted
<1>2. IsFiniteSet(Queued) /\ Cardinality(Queued) \in Nat
  BY PlacesAreFinite DEF Queued
<1>3. row \subseteq Queued
  <2>1. 1 .. n \subseteq 1 .. TaskPoolLen /\ DOMAIN tasks[q] = 1 .. n
    BY <1>1
  <2> QED BY <2>1 DEF Queued
<1>4. Cardinality(row) = n
  <2>1. IsFiniteSet({q}) /\ Cardinality({q}) = 1
    BY FS_Singleton
  <2>2. IsFiniteSet(1 .. n) /\ Cardinality(1 .. n) = n
    <3>1. n \in Int /\ n \in Nat /\ 1 \in Int
      BY <1>1
    <3> HIDE DEF n
    <3>2. /\ IsFiniteSet(1 .. n)
          /\ Cardinality(1 .. n) = IF 1 > n THEN 0 ELSE n - 1 + 1
      BY <3>1, FS_Interval, Zenon
    <3> QED BY <3>1, <3>2
  <2>3. Cardinality(row) = Cardinality({q}) * Cardinality(1 .. n)
    BY <2>1, <2>2, FS_Product
  <2> QED BY <2>1, <2>2, <2>3, <1>1
<1>5. n <= Cardinality(Queued)
  BY <1>2, <1>3, <1>4, FS_Subset
<1>6. n + 1 <= TaskPoolLen
  BY <1>1, <1>2, <1>5
<1>7. Queued' = Queued \cup {<<q, n + 1>>} /\ <<q, n + 1>> \notin Queued
  <2>1. \A r \in Queue : DOMAIN tasks[r] = 1 .. Len(tasks[r]) /\ DOMAIN tasks'[r] = 1 .. Len(tasks'[r])
    BY <1>1
  <2>2. DOMAIN tasks'[q] = DOMAIN tasks[q] \cup {n + 1} /\ n + 1 \notin DOMAIN tasks[q]
    BY <2>1, <1>1
  <2>3. \A r \in Queue : r # q => DOMAIN tasks'[r] = DOMAIN tasks[r]
    OBVIOUS
  <2>4. n + 1 \in 1 .. TaskPoolLen
    BY <1>1, <1>6
  <2> HIDE DEF n
  <2> QED BY <2>2, <2>3, <2>4 DEF Queued
<1>8. Cardinality(Queued') = Cardinality(Queued) + 1
  BY <1>2, <1>7, FS_AddElement
<1> QED BY <1>1, <1>6, <1>8

\* One task less.
LEMMA QueuedShrinks ==
  ASSUME QInv, tasks' \in [Queue -> Seq(Source)], NEW q \in Queue, tasks[q] # <<>>,
         Len(tasks'[q]) = Len(tasks[q]) - 1, \A r \in Queue : r # q => tasks'[r] = tasks[r]
  PROVE  /\ Cardinality(Queued') = Cardinality(Queued) - 1 /\ Cardinality(Queued) \in Nat \ {0}
         /\ \A r \in Queue : Len(tasks'[r]) <= TaskPoolLen
<1> DEFINE n == Len(tasks[q])
<1>1. /\ tasks \in [Queue -> Seq(Source)] /\ n \in Nat /\ n > 0 /\ TaskPoolLen \in Nat
      /\ \A r \in Queue : Len(tasks[r]) <= TaskPoolLen
  BY InterruptsAssumption DEF QInv, IrqTypeOK, Counted
<1>2. IsFiniteSet(Queued) /\ Cardinality(Queued) \in Nat
  BY PlacesAreFinite DEF Queued
<1>3. Queued' = Queued \ {<<q, n>>} /\ <<q, n>> \in Queued
  <2>1. \A r \in Queue : DOMAIN tasks[r] = 1 .. Len(tasks[r]) /\ DOMAIN tasks'[r] = 1 .. Len(tasks'[r])
    BY <1>1
  <2>2. DOMAIN tasks'[q] = DOMAIN tasks[q] \ {n} /\ n \in DOMAIN tasks[q]
    BY <2>1, <1>1
  <2>3. \A r \in Queue : r # q => DOMAIN tasks'[r] = DOMAIN tasks[r]
    OBVIOUS
  <2>4. n \in 1 .. TaskPoolLen
    BY <1>1
  <2> HIDE DEF n
  <2> QED BY <2>2, <2>3, <2>4 DEF Queued
<1>4. Cardinality(Queued') = Cardinality(Queued) - 1
  BY <1>2, <1>3, FS_RemoveElement
<1>5. Cardinality(Queued') \in Nat
  BY PlacesAreFinite DEF Queued
<1>6. \A r \in Queue : Len(tasks'[r]) <= TaskPoolLen
  <2>1. Len(tasks'[q]) <= TaskPoolLen
    BY <1>1
  <2> QED BY <2>1, <1>1
<1> QED BY <1>2, <1>4, <1>5, <1>6
-----------------------------------------------------------------------------
(* What the operations do to the places of queues. *)

\* The activations stay as they are, but for where they stand.
SameFrames ==
    /\ stack' \in [Context -> Seq(Frame)]
    /\ \A c \in Context : /\ DOMAIN stack'[c] = DOMAIN stack[c]
                          /\ Len(stack'[c]) = Len(stack[c])
                          /\ \A i \in DOMAIN stack[c] : stack'[c][i].queue = stack[c][i].queue

LEMMA SetTopKeeps ==
  ASSUME IrqTypeOK, Depth > 0, NEW at \in {"handler", "back", "end"} \cup Stage, SetTop(at)
  PROVE  /\ SameFrames
         /\ \A c \in Context : \A i \in DOMAIN stack[c] :
               stack'[c][i].at = IF c = cur /\ i = Depth THEN at ELSE stack[c][i].at
<1>1. cur \in Context /\ stack \in [Context -> Seq(Frame)]
  BY DEF IrqTypeOK
<1>2. stack' = [stack EXCEPT ![cur] = [stack[cur] EXCEPT ![Depth] = [stack[cur][Depth] EXCEPT !.at = at]]]
  BY DEF SetTop
<1> DEFINE s == stack[cur]
           t == [s EXCEPT ![Depth] = [s[Depth] EXCEPT !.at = at]]
<1>3. /\ s \in Seq(Frame) /\ Depth = Len(s) /\ Depth \in DOMAIN s /\ DOMAIN s = 1 .. Len(s)
      /\ \A i \in DOMAIN s : s[i] \in Frame
  BY <1>1 DEF Depth
<1>4. [s[Depth] EXCEPT !.at = at] \in Frame /\ [s[Depth] EXCEPT !.at = at].queue = s[Depth].queue
      /\ [s[Depth] EXCEPT !.at = at].at = at
  BY <1>3 DEF Frame
<1>5. t \in Seq(Frame) /\ Len(t) = Len(s) /\ DOMAIN t = DOMAIN s
      /\ \A i \in DOMAIN s : t[i] = IF i = Depth THEN [s[Depth] EXCEPT !.at = at] ELSE s[i]
  BY <1>3, <1>4
<1>6. \A c \in Context : stack'[c] = IF c = cur THEN t ELSE stack[c]
  BY <1>1, <1>2
<1>7. stack' \in [Context -> Seq(Frame)]
  <2> HIDE DEF t
  <2> QED BY <1>1, <1>2, <1>5 DEF t
<1> HIDE DEF t
<1> QED BY <1>4, <1>5, <1>6, <1>7 DEF SameFrames

\* Nothing is queued, taken or given back.
LEMMA QuietStep ==
  ASSUME QInv, SameFrames, UNCHANGED <<tasks, pool, spare, leaked>>, IrqTypeOK'
  PROVE  QInv'
<1>0. tasks' = tasks /\ pool' = pool /\ spare' = spare /\ leaked' = leaked
  OBVIOUS
<1>1. PoolAndFrames'
  <2>1. PoolAndFrames
    BY DEF QInv
  <2>2. \A c \in Context : /\ DOMAIN stack'[c] = DOMAIN stack[c]
                           /\ \A i \in DOMAIN stack[c] : stack'[c][i].queue = stack[c][i].queue
    BY DEF SameFrames
  <2> QED BY <2>1, <2>2, <1>0 DEF PoolAndFrames
<1>2. Counted'
  BY <1>0 DEF QInv, Counted, Queued
<1> QED BY <1>1, <1>2 DEF QInv

\* schedule(), step by step.
Scheduling == SwapBase \/ SwapTimerMask \/ SwapUartMask \/ SwitchTo

\* The operations that move no queue.
Quiet == \/ HandlerEnd \/ Fire \/ FireTick \/ FireSwitch
         \/ AddEvent \/ ClearEvents \/ StartProgram
         \/ Scheduling \/ GoOn \/ LeaveShell \/ Die \/ Kill

\* schedule() changes where one activation stands, or where a context that leaves
\* does; the first is never "back" before the processor goes to another.
LEMMA SchedulingMoves ==
  ASSUME IrqTypeOK, Scheduling
  PROVE  /\ UNCHANGED <<tasks, preemptor, pool, spare, events, started, dead, reaped,
                        leaked, nullPriority>>
         /\ base' \in {base, Null} /\ masked' \subseteq masked
         /\ cur' \in Context /\ (cur' # cur => cur' \notin {Boot} \cup dead)
         /\ leaving' \in [Context -> {"no"} \cup Stage]
         /\ leaving'[cur] = leaving[cur] \/ leaving'[cur] \in Stage \ {"base"}
         /\ \/ stack' = stack
            \/ /\ Depth > 0 /\ Top.at \in Stage
               /\ \E at \in (Stage \ {"base"}) \cup {"back"} :
                     SetTop(at) /\ (at = "back" => cur' \notin {Boot} \cup dead)
<1>0. Stage = {"base", "timer", "uart", "switch"} /\ cur \in Context
      /\ leaving \in [Context -> {"no"} \cup Stage]
  BY DEF Stage, IrqTypeOK
<1>1. CASE SwapBase
  BY <1>0, <1>1 DEF SwapBase, GoesTo, Running
<1>2. CASE SwapTimerMask
  BY <1>0, <1>2 DEF SwapTimerMask, SwapMask, GoesTo, Running
<1>3. CASE SwapUartMask
  BY <1>0, <1>3 DEF SwapUartMask, SwapMask, GoesTo, Running
<1>4. CASE SwitchTo
  <2>1. cur' \in Context /\ cur' \notin {Boot} \cup dead
    BY <1>4 DEF SwitchTo, Chooses
  <2>2. \/ stack' = stack
        \/ Depth > 0 /\ Top.at = "switch" /\ SetTop("back")
    BY <1>4 DEF SwitchTo, Running, SetTop
  <2>3. UNCHANGED <<tasks, preemptor, pool, spare, base, masked, events, started,
                    dead, reaped, leaving, leaked, nullPriority>>
    BY <1>4 DEF SwitchTo
  <2> QED BY <1>0, <2>1, <2>2, <2>3
<1> QED BY <1>1, <1>2, <1>3, <1>4 DEF Scheduling

LEMMA QuietKeeps == ASSUME QInv, Quiet PROVE QInv'
<1>0. IrqTypeOK
  BY DEF QInv
<1>1. CASE HandlerEnd \/ FireSwitch \/ GoOn
  <2>1. Depth > 0 /\ \E at \in {"handler", "back", "end"} \cup Stage : SetTop(at)
    BY <1>1 DEF HandlerEnd, FireSwitch, GoOn, Running, InTimer, Stage
  <2>2. SameFrames
    BY <2>1, <1>0, SetTopKeeps
  <2>3. IrqTypeOK'
    <3>1. CASE HandlerEnd
      BY <3>1, <2>2, <1>0 DEF HandlerEnd, IrqTypeOK, SameFrames
    <3>2. CASE FireSwitch
      BY <3>2, <2>2, <1>0 DEF FireSwitch, IrqTypeOK, SameFrames
    <3>3. CASE GoOn
      BY <3>3, <2>2, <1>0 DEF GoOn, IrqTypeOK, SameFrames
    <3> QED BY <1>1, <3>1, <3>2, <3>3
  <2>4. UNCHANGED <<tasks, pool, spare, leaked>>
    BY <1>1 DEF HandlerEnd, FireSwitch, GoOn
  <2> QED BY <2>2, <2>3, <2>4, QuietStep
<1>2. CASE Fire \/ FireTick \/ AddEvent \/ ClearEvents \/ StartProgram \/ LeaveShell \/ Die \/ Kill
  <2>1. stack' = stack /\ UNCHANGED <<tasks, pool, spare, leaked>>
    BY <1>2 DEF Fire, FireTick, AddEvent, ClearEvents, StartProgram, LeaveShell, Die, Kill
  <2>2. SameFrames
    BY <2>1, <1>0 DEF IrqTypeOK, SameFrames
  <2>3. IrqTypeOK'
    <3>1. CASE Fire \/ FireTick \/ AddEvent \/ ClearEvents \/ StartProgram
      <4>1. events' \in 0 .. MaxEvents
        BY <3>1, <1>0, InterruptsAssumption
        DEF Fire, FireTick, AddEvent, ClearEvents, StartProgram, IrqTypeOK
      <4> QED BY <3>1, <4>1, <1>0 DEF Fire, FireTick, AddEvent, ClearEvents, StartProgram, IrqTypeOK, Source
    <3>2. CASE LeaveShell
      BY <3>2, <1>0, InterruptsAssumption DEF LeaveShell, IrqTypeOK, Stage
    <3>3. CASE Die
      BY <3>3, <1>0 DEF Die, IrqTypeOK, Stage
    <3>4. CASE Kill
      BY <3>4, <1>0 DEF Kill, IrqTypeOK
    <3> QED BY <1>2, <3>1, <3>2, <3>3, <3>4
  <2> QED BY <2>1, <2>2, <2>3, QuietStep
<1>3. CASE Scheduling
  <2>1. /\ UNCHANGED <<tasks, preemptor, pool, spare, events, started, dead, reaped,
                       leaked, nullPriority>>
        /\ base' \in {base, Null} /\ masked' \subseteq masked
        /\ cur' \in Context /\ (cur' # cur => cur' \notin {Boot} \cup dead)
        /\ leaving' \in [Context -> {"no"} \cup Stage]
        /\ leaving'[cur] = leaving[cur] \/ leaving'[cur] \in Stage \ {"base"}
        /\ \/ stack' = stack
           \/ Depth > 0 /\ \E at \in (Stage \ {"base"}) \cup {"back"} : SetTop(at)
    BY <1>0, <1>3, SchedulingMoves
  <2>2. SameFrames
    BY <2>1, <1>0, SetTopKeeps DEF IrqTypeOK, SameFrames
  <2>3. IrqTypeOK'
    <3>1. cur' \in dead => leaving'[cur'] # "no"
      BY <2>1, <1>0 DEF IrqTypeOK, Stage
    <3> QED BY <2>1, <2>2, <3>1, <1>0 DEF IrqTypeOK, SameFrames
  <2> QED BY <2>1, <2>2, <2>3, QuietStep
<1> QED BY <1>1, <1>2, <1>3 DEF Quiet

LEMMA SearchTyped ==
  ASSUME IrqTypeOK, NEW s \in Source
  PROVE  Search(s)[1] \in Pointer /\ Search(s)[2] \in Pointer
<1>1. PICK w : Turns(s, w) /\ Search(s) = w[QueuePoolLen]
  BY SearchIs
<1>2. QueuePoolLen \in 0 .. QueuePoolLen
  BY InterruptsAssumption
<1>3. w[QueuePoolLen] \in Pointer \X Pointer
  BY <1>1, <1>2 DEF Turns
<1> QED BY <1>1, <1>3

LEMMA FrameTyped ==
  ASSUME IrqTypeOK
  PROVE  \A c \in Context : \A i \in DOMAIN stack[c] :
            stack[c][i] \in Frame /\ stack[c][i].queue \in Queue
<1> SUFFICES ASSUME NEW c \in Context, NEW i \in DOMAIN stack[c]
             PROVE  stack[c][i] \in Frame /\ stack[c][i].queue \in Queue
  OBVIOUS
<1>1. stack[c] \in Seq(Frame)
  BY DEF IrqTypeOK
<1>2. stack[c][i] \in Frame
  BY <1>1
<1> QED BY <1>2 DEF Frame

\* A task is put into a queue behind others ...
LEMMA InsertKeeps ==
  ASSUME QInv, NEW s \in Source, Irq(s), NEW at \in Queue, tasks[at] # <<>>,
         tasks' = [tasks EXCEPT ![at] = Inserted(@, s)],
         UNCHANGED <<stack, preemptor, pool, base>>
  PROVE  QInv' /\ Cardinality(Queued') = Cardinality(Queued) + 1
<1>1. /\ IrqTypeOK /\ tasks[at] \in Seq(Source)
      /\ spare > 0 /\ spare' = spare - 1 /\ masked' = masked \cup {s}
      /\ UNCHANGED <<cur, events, started, dead, reaped, leaving, leaked, nullPriority>>
  BY DEF QInv, IrqTypeOK, Irq
<1>2. Inserted(tasks[at], s) \in Seq(Source) /\ Len(Inserted(tasks[at], s)) = Len(tasks[at]) + 1
  BY <1>1, InsertedIs
<1>3. /\ tasks' \in [Queue -> Seq(Source)] /\ tasks'[at] = Inserted(tasks[at], s)
      /\ \A r \in Queue : r # at => tasks'[r] = tasks[r]
  BY <1>1, <1>2 DEF IrqTypeOK
<1>4. Cardinality(Queued') = Cardinality(Queued) + 1 /\ \A r \in Queue : Len(tasks'[r]) <= TaskPoolLen
  BY <1>1, <1>2, <1>3, QueuedGrows
<1>5. IrqTypeOK'
  <2>1. spare' \in 0 .. TaskPoolLen
    BY <1>1, InterruptsAssumption DEF IrqTypeOK
  <2> QED BY <1>1, <1>3, <2>1 DEF IrqTypeOK
<1>6. tasks'[at] # <<>>
  <2>1. Len(tasks'[at]) # 0
    BY <1>1, <1>2, <1>3
  <2> QED BY <2>1
<1>7. PoolAndFrames'
  <2>1. \A c \in Context : \A i \in DOMAIN stack[c] : stack[c][i].queue \in Queue
    BY <1>1, FrameTyped
  <2>2. \A i \in DOMAIN pool : pool[i] # Null => pool[i] \in Queue
    BY <1>1 DEF IrqTypeOK
  <2> QED BY <2>1, <2>2, <1>3, <1>6 DEF QInv, PoolAndFrames
<1>8. Counted'
  <2>1. Cardinality(Queued) \in Nat /\ spare \in Nat /\ leaked \in Nat
    BY <1>1, PlacesAreFinite DEF Queued, IrqTypeOK
  <2> QED BY <1>1, <1>4, <2>1 DEF QInv, Counted
<1> QED BY <1>4, <1>5, <1>7, <1>8 DEF QInv

\* ... or into one that leaves the pool and is executed ...
LEMMA BeginKeeps ==
  ASSUME QInv, NEW s \in Source, Irq(s), QueryQueue # Null, Search(s)[2] = Null
  PROVE  QInv' /\ Cardinality(Queued') = Cardinality(Queued) + 1
<1> DEFINE new == QueryQueue
<1>1. /\ IrqTypeOK /\ PoolAndFrames
      /\ spare > 0 /\ spare' = spare - 1 /\ masked' = masked \cup {s}
      /\ UNCHANGED <<cur, events, started, dead, reaped, leaving, leaked, nullPriority>>
      /\ pool' = Tail(pool)
      /\ tasks' = [tasks EXCEPT ![new] = <<s>>]
      /\ base' = IF base = Null THEN new ELSE base
      /\ preemptor' = [q \in Queue |-> IF q = Search(s)[1] THEN new ELSE preemptor[q]]
      /\ stack' = [stack EXCEPT ![cur] = Append(@, [queue |-> new, at |-> "handler"])]
  BY DEF QInv, Irq
<1>2. /\ pool \in Seq(Queue \cup {Null}) /\ pool # <<>> /\ new = pool[1] /\ 1 \in DOMAIN pool
      /\ new \in Queue /\ tasks[new] = <<>>
  <2>1. pool \in Seq(Queue \cup {Null}) /\ pool # <<>> /\ new = pool[1] /\ 1 \in DOMAIN pool
    BY <1>1 DEF QueryQueue, IrqTypeOK
  <2>2. new \in Queue
    BY <2>1
  <2> QED BY <2>1, <2>2, <1>1 DEF PoolAndFrames
<1> HIDE DEF new
<1>3. /\ DOMAIN pool = 1 .. Len(pool) /\ DOMAIN pool' = 1 .. Len(pool) - 1 /\ Len(pool) \in Nat
      /\ \A i \in DOMAIN pool' : pool'[i] = pool[i + 1] /\ i + 1 \in DOMAIN pool
      /\ pool' \in Seq(Queue \cup {Null})
  BY <1>1, <1>2
<1>4. /\ tasks' \in [Queue -> Seq(Source)] /\ tasks'[new] = <<s>>
      /\ \A r \in Queue : r # new => tasks'[r] = tasks[r]
  BY <1>1, <1>2 DEF IrqTypeOK
<1>5. Cardinality(Queued') = Cardinality(Queued) + 1 /\ \A r \in Queue : Len(tasks'[r]) <= TaskPoolLen
  <2>1. Len(tasks'[new]) = Len(tasks[new]) + 1
    BY <1>2, <1>4
  <2> QED BY <1>1, <1>2, <1>4, <2>1, QueuedGrows
<1> DEFINE fr == [queue |-> new, at |-> "handler"]
           n == Len(stack[cur]) + 1
<1>6. /\ stack' \in [Context -> Seq(Frame)] /\ cur \in Context
      /\ stack'[cur] = Append(stack[cur], fr)
      /\ \A c \in Context : c # cur => stack'[c] = stack[c]
  <2>1. cur \in Context /\ stack \in [Context -> Seq(Frame)] /\ fr \in Frame
    BY <1>1, <1>2 DEF IrqTypeOK, Frame
  <2>2. Append(stack[cur], fr) \in Seq(Frame)
    BY <2>1
  <2> QED BY <2>1, <2>2, <1>1
<1>7. /\ stack[cur] \in Seq(Frame) /\ DOMAIN stack'[cur] = DOMAIN stack[cur] \cup {n}
      /\ n \notin DOMAIN stack[cur]
      /\ stack'[cur][n] = fr
      /\ \A i \in DOMAIN stack[cur] : stack'[cur][i] = stack[cur][i]
  <2>1. stack[cur] \in Seq(Frame)
    BY <1>1 DEF IrqTypeOK
  <2>2. n \in Nat /\ DOMAIN stack[cur] = 1 .. n - 1 /\ DOMAIN Append(stack[cur], fr) = 1 .. n
    BY <2>1
  <2>3. /\ Append(stack[cur], fr)[n] = fr
        /\ \A i \in DOMAIN stack[cur] : Append(stack[cur], fr)[i] = stack[cur][i]
    BY <2>1
  <2> HIDE DEF n, fr
  <2> QED BY <2>1, <2>2, <2>3, <1>6
<1>8. IrqTypeOK'
  <2>1. spare' \in 0 .. TaskPoolLen
    BY <1>1, InterruptsAssumption DEF IrqTypeOK
  <2>2. base' \in Queue \cup {Null} /\ preemptor' \in [Queue -> Queue \cup {Null}]
    BY <1>1, <1>2 DEF IrqTypeOK
  <2> QED BY <1>1, <1>3, <1>4, <1>6, <2>1, <2>2 DEF IrqTypeOK
<1>9. PoolAndFrames'
  <2>1. \A i \in DOMAIN pool' : pool'[i] # Null => pool'[i] # new /\ pool'[i] \in Queue
    BY <1>1, <1>2, <1>3, SMTT(30) DEF PoolAndFrames
  <2>2. \A i, j \in DOMAIN pool' : pool'[i] = pool'[j] /\ pool'[i] # Null => i = j
    BY <1>1, <1>3 DEF PoolAndFrames
  <2>3. \A i \in DOMAIN pool' : pool'[i] # Null => tasks'[pool'[i]] = <<>>
    BY <2>1, <1>1, <1>3, <1>4 DEF PoolAndFrames
  <2>4. \A c \in Context : \A i \in DOMAIN stack[c] : /\ stack[c][i].queue \in Queue
                                                     /\ stack[c][i].queue # new
    <3>1. \A c \in Context : \A i \in DOMAIN stack[c] : stack[c][i].queue \in Queue
      BY <1>1, FrameTyped
    <3> QED BY <3>1, <1>1, <1>2 DEF PoolAndFrames
  <2>5. \A c \in Context : \A i \in DOMAIN stack'[c] :
           \/ i \in DOMAIN stack[c] /\ stack'[c][i] = stack[c][i]
           \/ c = cur /\ i = n /\ stack'[c][i].queue = new
    BY <1>6, <1>7
  <2>6. \A c, d \in Context : \A i \in DOMAIN stack'[c], j \in DOMAIN stack'[d] :
           stack'[c][i].queue = stack'[d][j].queue => c = d /\ i = j
    BY <2>4, <2>5, <1>1 DEF PoolAndFrames
  <2>7. \A c \in Context : \A i \in DOMAIN stack'[c] : tasks'[stack'[c][i].queue] # <<>>
    <3>1. <<s>> # <<>>
      OBVIOUS
    <3> QED BY <3>1, <2>4, <2>5, <1>1, <1>4 DEF PoolAndFrames
  <2>8. ASSUME NEW q \in Queue
        PROVE  \/ \E i \in DOMAIN pool' : pool'[i] = q
               \/ \E c \in Context : \E i \in DOMAIN stack'[c] : stack'[c][i].queue = q
    <3>1. CASE q = new
      BY <3>1, <1>6, <1>7
    <3>2. ASSUME NEW i \in DOMAIN pool, pool[i] = q, q # new PROVE \E j \in DOMAIN pool' : pool'[j] = q
      <4>1. i # 1
        BY <3>2, <1>2
      <4>2. i - 1 \in DOMAIN pool' /\ (i - 1) + 1 = i
        BY <4>1, <1>3
      <4> QED BY <4>2, <3>2, <1>3
    <3>3. ASSUME NEW c \in Context, NEW i \in DOMAIN stack[c], stack[c][i].queue = q
          PROVE  i \in DOMAIN stack'[c] /\ stack'[c][i].queue = q
      BY <3>3, <1>6, <1>7
    <3> QED BY <3>1, <3>2, <3>3, <1>1 DEF PoolAndFrames
  <2> HIDE DEF n
  <2> QED BY <2>2, <2>3, <2>6, <2>7, <2>8 DEF PoolAndFrames
<1>10. Counted'
  <2>1. Cardinality(Queued) \in Nat /\ spare \in Nat /\ leaked \in Nat
    BY <1>1, PlacesAreFinite DEF Queued, IrqTypeOK
  <2> QED BY <1>1, <1>5, <2>1 DEF QInv, Counted
<1> QED BY <1>5, <1>8, <1>9, <1>10 DEF QInv

\* ... or lost.
LEMMA IrqKeeps ==
  ASSUME QInv, NEW s \in Source, Irq(s)
  PROVE  QInv'
<1>1. Search(s)[2] \in Pointer /\ IrqTypeOK
  BY SearchTyped DEF QInv
<1>2. CASE Search(s)[2] # Null /\ tasks[Search(s)[2]] # <<>>
  <2>1. Search(s)[2] \in Queue
    BY <1>1, <1>2 DEF Pointer
  <2> QED BY <1>2, <2>1, InsertKeeps DEF Irq
<1>3. CASE Search(s)[2] = Null /\ QueryQueue # Null
  BY <1>3, BeginKeeps
<1>4. CASE UNCHANGED <<stack, tasks, preemptor, pool, base>>
  <2>1. /\ spare > 0 /\ spare' = spare - 1 /\ masked' = masked \cup {s}
        /\ UNCHANGED <<cur, events, started, dead, reaped, leaving, leaked, nullPriority>>
    BY DEF Irq
  <2>2. spare' \in 0 .. TaskPoolLen /\ spare \in Nat /\ leaked \in Nat
    BY <1>1, <2>1, InterruptsAssumption DEF IrqTypeOK
  <2>3. IrqTypeOK'
    BY <1>1, <1>4, <2>1, <2>2 DEF IrqTypeOK
  <2>4. PoolAndFrames'
    BY <1>4 DEF QInv, PoolAndFrames
  <2>5. Counted'
    <3>1. Cardinality(Queued) \in Nat /\ Queued' = Queued
      BY <1>4, PlacesAreFinite DEF Queued
    <3>2. Cardinality(Queued) + spare' + leaked' <= TaskPoolLen
      BY <3>1, <2>1, <2>2, InterruptsAssumption DEF QInv, Counted
    <3> QED BY <3>1, <3>2, <1>4 DEF QInv, Counted
  <2> QED BY <2>3, <2>4, <2>5 DEF QInv
<1>5. \/ Search(s)[2] # Null /\ tasks[Search(s)[2]] # <<>>
      \/ Search(s)[2] = Null /\ QueryQueue # Null
      \/ UNCHANGED <<stack, tasks, preemptor, pool, base>>
  BY DEF Irq
<1> QED BY <1>2, <1>3, <1>4, <1>5

\* The task of the inner activation is done, and there is another one ...
LEMMA NextTaskKeeps ==
  ASSUME QInv, TaskDone, Tail(tasks[Top.queue]) # <<>>
  PROVE  /\ QInv' /\ SameFrames /\ Cardinality(Queued') + spare' = Cardinality(Queued) + spare
<1> DEFINE q == Top.queue
           rest == Tail(tasks[q])
<1>1. /\ IrqTypeOK /\ PoolAndFrames /\ Depth > 0 /\ SetTop("handler")
      /\ spare' = spare + 1 /\ tasks' = [tasks EXCEPT ![q] = rest]
      /\ UNCHANGED <<cur, preemptor, pool, base, masked, events, started, dead, reaped, leaving, leaked,
                     nullPriority>>
  BY DEF QInv, TaskDone, Running
<1>2. SameFrames
  BY <1>1, SetTopKeeps
<1>3. cur \in Context /\ Depth \in DOMAIN stack[cur] /\ Top = stack[cur][Depth]
  BY <1>1 DEF IrqTypeOK, Depth, Top
<1>4. q \in Queue /\ tasks[q] \in Seq(Source) /\ tasks[q] # <<>>
  BY <1>1, <1>3, FrameTyped DEF IrqTypeOK, PoolAndFrames
<1> HIDE DEF q
<1>5. /\ rest \in Seq(Source) /\ Len(rest) = Len(tasks[q]) - 1
      /\ tasks' \in [Queue -> Seq(Source)] /\ tasks'[q] = rest
      /\ \A r \in Queue : r # q => tasks'[r] = tasks[r]
  <2>1. rest \in Seq(Source) /\ Len(rest) = Len(tasks[q]) - 1
    BY <1>4
  <2> HIDE DEF rest
  <2> QED BY <2>1, <1>1, <1>4 DEF IrqTypeOK
<1> HIDE DEF rest
<1>6. /\ Cardinality(Queued') = Cardinality(Queued) - 1 /\ Cardinality(Queued) \in Nat \ {0}
      /\ \A r \in Queue : Len(tasks'[r]) <= TaskPoolLen
  BY <1>4, <1>5, QueuedShrinks
<1>7. /\ spare \in Nat /\ leaked \in Nat /\ TaskPoolLen \in Nat
      /\ Cardinality(Queued) + spare + leaked <= TaskPoolLen
  BY <1>1, InterruptsAssumption DEF QInv, IrqTypeOK, Counted
<1>8. IrqTypeOK'
  <2>1. spare' \in 0 .. TaskPoolLen
    BY <1>1, <1>6, <1>7
  <2> QED BY <1>1, <1>2, <1>5, <2>1 DEF IrqTypeOK, SameFrames
<1>9. Counted'
  BY <1>1, <1>6, <1>7 DEF Counted
<1>10. PoolAndFrames'
  <2>1. rest # <<>>
    BY DEF rest, q
  <2>2. \A c \in Context : \A i \in DOMAIN stack[c] : stack[c][i].queue \in Queue
    BY <1>1, FrameTyped
  <2>3. \A i \in DOMAIN pool : pool[i] # Null => pool[i] \in Queue /\ pool[i] # q
    BY <1>1, <1>4 DEF IrqTypeOK, PoolAndFrames
  <2>4. \A i \in DOMAIN pool : pool[i] # Null => tasks'[pool[i]] = <<>>
    BY <2>3, <1>5, <1>1 DEF PoolAndFrames
  <2>5. \A c \in Context : \A i \in DOMAIN stack[c] : tasks'[stack[c][i].queue] # <<>>
    <3>1. \A c \in Context : \A i \in DOMAIN stack[c] : tasks[stack[c][i].queue] # <<>>
      BY <1>1 DEF PoolAndFrames
    <3>2. \A r \in Queue : tasks[r] # <<>> => tasks'[r] # <<>>
      BY <2>1, <1>5
    <3> QED BY <3>1, <3>2, <2>2
  <2>6. /\ \A i, j \in DOMAIN pool : pool[i] = pool[j] /\ pool[i] # Null => i = j
        /\ \A c, d \in Context : \A i \in DOMAIN stack[c], j \in DOMAIN stack[d] :
              stack[c][i].queue = stack[d][j].queue => c = d /\ i = j
        /\ \A r \in Queue : \/ \E i \in DOMAIN pool : pool[i] = r
                            \/ \E c \in Context : \E i \in DOMAIN stack[c] : stack[c][i].queue = r
    BY <1>1 DEF PoolAndFrames
  <2>7. /\ pool' = pool
        /\ \A c \in Context : /\ DOMAIN stack'[c] = DOMAIN stack[c]
                              /\ \A i \in DOMAIN stack[c] : stack'[c][i].queue = stack[c][i].queue
    BY <1>1, <1>2 DEF SameFrames
  <2> QED BY <2>4, <2>5, <2>6, <2>7 DEF PoolAndFrames
<1> QED BY <1>1, <1>2, <1>6, <1>7, <1>8, <1>9, <1>10 DEF QInv

\* ... or the queue goes back to the pool.
LEMMA QueueDoneKeeps ==
  ASSUME QInv, TaskDone, Tail(tasks[Top.queue]) = <<>>
  PROVE  /\ QInv' /\ Cardinality(Queued') + spare' = Cardinality(Queued) + spare
         /\ cur \in Context /\ DOMAIN stack[cur] = 1 .. Depth
         /\ DOMAIN stack'[cur] = 1 .. Depth - 1
         /\ \A c \in Context : /\ c # cur => stack'[c] = stack[c]
                               /\ \A i \in DOMAIN stack'[c] : i \in DOMAIN stack[c] /\ stack'[c][i] = stack[c][i]
<1> DEFINE q == Top.queue
<1>1. /\ IrqTypeOK /\ PoolAndFrames /\ Depth > 0
      /\ spare' = spare + 1 /\ tasks' = [tasks EXCEPT ![q] = <<>>]
      /\ pool' = <<q>> \o pool
      /\ preemptor' = [preemptor EXCEPT ![q] = Null]
      /\ base' = IF base = q THEN Null ELSE base
      /\ stack' = [stack EXCEPT ![cur] = SubSeq(@, 1, Depth - 1)]
      /\ UNCHANGED <<cur, masked, events, started, dead, reaped, leaving, leaked, nullPriority>>
  BY DEF QInv, TaskDone, Running, FreeQueue
<1>2. /\ cur \in Context /\ stack[cur] \in Seq(Frame) /\ Depth = Len(stack[cur]) /\ Depth \in Nat
      /\ DOMAIN stack[cur] = 1 .. Depth /\ Depth \in DOMAIN stack[cur] /\ Top = stack[cur][Depth]
  BY <1>1 DEF IrqTypeOK, Depth, Top
<1>3. q \in Queue /\ tasks[q] \in Seq(Source) /\ tasks[q] # <<>> /\ stack[cur][Depth].queue = q
  BY <1>1, <1>2, FrameTyped DEF IrqTypeOK, PoolAndFrames
<1>4. Len(tasks[q]) = 1
  <2>1. Tail(tasks[q]) = <<>>
    OBVIOUS
  <2> HIDE DEF q
  <2>2. Len(Tail(tasks[q])) = Len(tasks[q]) - 1 /\ Len(tasks[q]) \in Nat
    BY <1>3
  <2>3. Len(<<>>) = 0
    OBVIOUS
  <2>4. Len(Tail(tasks[q])) = Len(<<>>)
    BY <2>1, Zenon
  <2> QED BY <2>2, <2>3, <2>4
<1> HIDE DEF q
<1>5. /\ tasks' \in [Queue -> Seq(Source)] /\ tasks'[q] = <<>>
      /\ \A r \in Queue : r # q => tasks'[r] = tasks[r]
  BY <1>1, <1>3 DEF IrqTypeOK
<1>6. /\ Cardinality(Queued') = Cardinality(Queued) - 1 /\ Cardinality(Queued) \in Nat \ {0}
      /\ \A r \in Queue : Len(tasks'[r]) <= TaskPoolLen
  <2>1. Len(tasks'[q]) = Len(tasks[q]) - 1
    BY <1>4, <1>5
  <2> QED BY <1>3, <1>5, <2>1, QueuedShrinks
<1>7. /\ spare \in Nat /\ leaked \in Nat /\ TaskPoolLen \in Nat
      /\ Cardinality(Queued) + spare + leaked <= TaskPoolLen
  BY <1>1, InterruptsAssumption DEF QInv, IrqTypeOK, Counted
<1> DEFINE less == SubSeq(stack[cur], 1, Depth - 1)
<1>8. /\ less \in Seq(Frame) /\ DOMAIN less = 1 .. Depth - 1
      /\ \A i \in 1 .. Depth - 1 : less[i] = stack[cur][i]
  BY <1>1, <1>2
<1> HIDE DEF less
<1>9. /\ stack' \in [Context -> Seq(Frame)] /\ stack'[cur] = less
      /\ \A c \in Context : c # cur => stack'[c] = stack[c]
  BY <1>1, <1>2, <1>8 DEF IrqTypeOK, less
<1>10. /\ DOMAIN stack'[cur] = 1 .. Depth - 1
       /\ \A c \in Context : \A i \in DOMAIN stack'[c] : /\ i \in DOMAIN stack[c] /\ stack'[c][i] = stack[c][i]
                                                         /\ ~ (c = cur /\ i = Depth)
  <2>1. ASSUME NEW c \in Context, NEW i \in DOMAIN stack'[c], c = cur
        PROVE  i \in DOMAIN stack[c] /\ stack'[c][i] = stack[c][i] /\ i # Depth
    BY <2>1, <1>2, <1>8, <1>9
  <2> QED BY <2>1, <1>8, <1>9
<1>11. /\ pool \in Seq(Queue \cup {Null}) /\ pool' \in Seq(Queue \cup {Null})
       /\ DOMAIN pool = 1 .. Len(pool) /\ DOMAIN pool' = 1 .. Len(pool) + 1 /\ Len(pool) \in Nat
       /\ \A i \in DOMAIN pool' : pool'[i] = IF i = 1 THEN q ELSE pool[i - 1]
  BY <1>1, <1>3 DEF IrqTypeOK
<1>12. IrqTypeOK'
  <2>1. spare' \in 0 .. TaskPoolLen
    BY <1>1, <1>6, <1>7
  <2>2. base' \in Queue \cup {Null} /\ preemptor' \in [Queue -> Queue \cup {Null}]
    BY <1>1, <1>3 DEF IrqTypeOK
  <2> QED BY <1>1, <1>5, <1>9, <1>11, <2>1, <2>2 DEF IrqTypeOK
<1>13. Counted'
  BY <1>1, <1>6, <1>7 DEF Counted
<1>14. PoolAndFrames'
  <2>1. \A i \in DOMAIN pool : pool[i] # q
    <3>1. q # Null
      BY <1>3, InterruptsAssumption DEF Queue, Null
    <3> QED BY <3>1, <1>1, <1>3 DEF PoolAndFrames
  <2>2. \A i \in DOMAIN pool' : i # 1 => i - 1 \in DOMAIN pool /\ pool'[i] = pool[i - 1]
    BY <1>11
  <2>3. \A i, j \in DOMAIN pool' : pool'[i] = pool'[j] /\ pool'[i] # Null => i = j
    <3> SUFFICES ASSUME NEW i \in DOMAIN pool', NEW j \in DOMAIN pool', pool'[i] = pool'[j], pool'[i] # Null
                 PROVE  i = j
      OBVIOUS
    <3>1. CASE i = 1 \/ j = 1
      BY <3>1, <2>1, <2>2, <1>11
    <3>2. CASE i # 1 /\ j # 1
      <4>1. i - 1 = j - 1
        BY <3>2, <2>2, <1>1 DEF PoolAndFrames
      <4> QED BY <4>1, <1>11
    <3> QED BY <3>1, <3>2
  <2>4. \A i \in DOMAIN pool' : pool'[i] # Null => tasks'[pool'[i]] = <<>>
    <3>1. \A i \in DOMAIN pool : pool[i] # Null => pool[i] \in Queue /\ tasks[pool[i]] = <<>>
      BY <1>1, <1>11 DEF PoolAndFrames
    <3>2. \A i \in DOMAIN pool : pool[i] # Null => tasks'[pool[i]] = <<>>
      BY <3>1, <2>1, <1>5
    <3>3. pool'[1] = q
      BY <1>11
    <3> QED BY <3>2, <3>3, <2>2, <1>5
  <2>5. \A c \in Context : \A i \in DOMAIN stack'[c] : /\ stack'[c][i].queue \in Queue
                                                      /\ stack'[c][i].queue # q
    BY <1>1, <1>2, <1>3, <1>10, FrameTyped DEF PoolAndFrames
  <2>6. \A c, d \in Context : \A i \in DOMAIN stack'[c], j \in DOMAIN stack'[d] :
           stack'[c][i].queue = stack'[d][j].queue => c = d /\ i = j
    <3>1. PoolAndFrames
      BY <1>1
    <3> QED BY <3>1, <1>10 DEF PoolAndFrames
  <2>7. \A c \in Context : \A i \in DOMAIN stack'[c] : tasks'[stack'[c][i].queue] # <<>>
    <3>1. PoolAndFrames
      BY <1>1
    <3> QED BY <3>1, <2>5, <1>5, <1>10, SMTT(30) DEF PoolAndFrames
  <2>8. ASSUME NEW r \in Queue
        PROVE  \/ \E i \in DOMAIN pool' : pool'[i] = r
               \/ \E c \in Context : \E i \in DOMAIN stack'[c] : stack'[c][i].queue = r
    <3>1. CASE r = q
      <4>1. 1 \in DOMAIN pool'
        BY <1>11
      <4> QED BY <3>1, <4>1, <1>11
    <3>2. ASSUME NEW i \in DOMAIN pool, pool[i] = r PROVE \E j \in DOMAIN pool' : pool'[j] = r
      <4>1. i + 1 \in DOMAIN pool' /\ (i + 1) - 1 = i /\ i + 1 # 1
        BY <1>11
      <4> QED BY <4>1, <3>2, <1>11
    <3>3. ASSUME NEW c \in Context, NEW i \in DOMAIN stack[c], stack[c][i].queue = r, r # q
          PROVE  i \in DOMAIN stack'[c] /\ stack'[c][i].queue = r
      <4>1. CASE c = cur
        <5>1. i # Depth
          BY <4>1, <3>3, <1>3
        <5>2. i \in 1 .. Depth - 1
          BY <4>1, <5>1, <1>2
        <5> QED BY <4>1, <5>2, <3>3, <1>10
      <4>2. CASE c # cur
        BY <4>2, <3>3, <1>9
      <4> QED BY <4>1, <4>2
    <3>4. PoolAndFrames
      BY <1>1
    <3> QED BY <3>1, <3>2, <3>3, <3>4 DEF PoolAndFrames
  <2> QED BY <2>3, <2>4, <2>6, <2>7, <2>8 DEF PoolAndFrames
<1> QED BY <1>1, <1>2, <1>6, <1>7, <1>9, <1>10, <1>12, <1>13, <1>14 DEF QInv

\* Address 0 is put into the pool.
LEMMA ReapKeeps ==
  ASSUME QInv, Reap
  PROVE  QInv'
<1>1. /\ IrqTypeOK /\ PoolAndFrames /\ pool' = <<Null>> \o pool
      /\ UNCHANGED <<cur, stack, tasks, preemptor, spare, base, masked, events, started, dead, leaving,
                     leaked, nullPriority>>
      /\ reaped' \subseteq dead
  BY DEF QInv, Reap, FreeQueue, IrqTypeOK
<1>2. /\ pool \in Seq(Queue \cup {Null}) /\ pool' \in Seq(Queue \cup {Null})
      /\ DOMAIN pool = 1 .. Len(pool) /\ DOMAIN pool' = 1 .. Len(pool) + 1 /\ Len(pool) \in Nat
      /\ \A i \in DOMAIN pool' : pool'[i] = IF i = 1 THEN Null ELSE pool[i - 1]
  BY <1>1 DEF IrqTypeOK
<1>3. \A i \in DOMAIN pool' : pool'[i] # Null => i # 1 /\ i - 1 \in DOMAIN pool /\ pool'[i] = pool[i - 1]
  BY <1>2
<1>4. \A i \in DOMAIN pool : i + 1 \in DOMAIN pool' /\ pool'[i + 1] = pool[i]
  <2>1. \A i \in DOMAIN pool : i + 1 \in DOMAIN pool' /\ (i + 1) - 1 = i /\ i + 1 # 1
    BY <1>2
  <2> QED BY <2>1, <1>2
<1>5. IrqTypeOK'
  BY <1>1, <1>2 DEF IrqTypeOK
<1>6. Counted'
  BY <1>1 DEF QInv, Counted, Queued
<1>7. PoolAndFrames'
  <2>1. \A i, j \in DOMAIN pool' : pool'[i] = pool'[j] /\ pool'[i] # Null => i = j
    <3> SUFFICES ASSUME NEW i \in DOMAIN pool', NEW j \in DOMAIN pool', pool'[i] = pool'[j], pool'[i] # Null
                 PROVE  i = j
      OBVIOUS
    <3>1. i - 1 = j - 1
      BY <1>1, <1>3 DEF PoolAndFrames
    <3> QED BY <3>1, <1>2
  <2>2. \A i \in DOMAIN pool' : pool'[i] # Null => tasks[pool'[i]] = <<>>
    BY <1>1, <1>3 DEF PoolAndFrames
  <2>3. \A q \in Queue : \/ \E i \in DOMAIN pool' : pool'[i] = q
                         \/ \E c \in Context : \E i \in DOMAIN stack[c] : stack[c][i].queue = q
    <3>1. PoolAndFrames
      BY <1>1
    <3> QED BY <3>1, <1>4 DEF PoolAndFrames
  <2>4. PoolAndFrames /\ stack' = stack /\ tasks' = tasks
    BY <1>1
  <2> QED BY <2>1, <2>2, <2>3, <2>4 DEF PoolAndFrames
<1> QED BY <1>5, <1>6, <1>7 DEF QInv

\* A task is taken for an interrupt of neither source, and leaked.
LEMMA UnknownKeeps ==
  ASSUME QInv, Unknown
  PROVE  QInv'
<1>1. /\ IrqTypeOK /\ spare > 0 /\ spare' = spare - 1 /\ leaked' = leaked + 1
      /\ UNCHANGED <<cur, stack, tasks, preemptor, pool, base, masked, events,
                     started, dead, reaped, leaving, nullPriority>>
  BY DEF QInv, Unknown
<1>2. /\ Cardinality(Queued) \in Nat /\ spare \in Nat /\ leaked \in Nat /\ TaskPoolLen \in Nat
      /\ Cardinality(Queued) + spare + leaked <= TaskPoolLen /\ spare <= TaskPoolLen
  BY <1>1, PlacesAreFinite, InterruptsAssumption DEF QInv, Counted, Queued, IrqTypeOK
<1>3. spare' \in 0 .. TaskPoolLen /\ leaked' \in 0 .. TaskPoolLen
  BY <1>1, <1>2
<1>4. IrqTypeOK'
  BY <1>1, <1>3 DEF IrqTypeOK
<1>5. PoolAndFrames'
  BY <1>1 DEF QInv, PoolAndFrames
<1>6. Counted'
  <2>1. Queued' = Queued
    BY <1>1 DEF Queued
  <2>2. Cardinality(Queued') + spare' + leaked' <= TaskPoolLen
    BY <2>1, <1>1, <1>2
  <2> QED BY <2>2, <1>1 DEF QInv, Counted
<1> QED BY <1>4, <1>5, <1>6 DEF QInv

LEMMA QInitInv == IInit => QInv
<1> SUFFICES ASSUME IInit PROVE QInv
  OBVIOUS
<1>1. /\ cur = Boot /\ stack = [c \in Context |-> <<>>] /\ tasks = [q \in Queue |-> <<>>]
      /\ preemptor = [q \in Queue |-> Null] /\ pool = [i \in Queue |-> i] /\ spare = TaskPoolLen
      /\ base = Null /\ masked = {"timer"} /\ events = 0 /\ started = FALSE /\ dead = {} /\ reaped = {}
      /\ leaving = [c \in Context |-> "no"] /\ leaked = 0
      /\ nullPriority \in {0} \cup {Priority[s] : s \in Source}
  BY DEF IInit
<1>2. /\ QueuePoolLen \in Nat /\ TaskPoolLen \in Nat /\ MaxEvents \in Nat /\ Queue = 1 .. QueuePoolLen
      /\ Boot \in Context
  BY InterruptsAssumption DEF Queue
<1>3. IrqTypeOK
  <2>1. pool \in Seq(Queue \cup {Null})
    BY <1>1, <1>2
  <2>2. stack \in [Context -> Seq(Frame)] /\ tasks \in [Queue -> Seq(Source)]
    BY <1>1
  <2>3. preemptor \in [Queue -> Queue \cup {Null}] /\ spare \in 0 .. TaskPoolLen /\ events \in 0 .. MaxEvents
    BY <1>1, <1>2
  <2>4. cur \in Context /\ cur \notin dead /\ masked \subseteq Source /\ leaked \in 0 .. TaskPoolLen
    BY <1>1, <1>2 DEF Source
  <2> QED BY <1>1, <2>1, <2>2, <2>3, <2>4 DEF IrqTypeOK
<1>4. PoolAndFrames
  BY <1>1, <1>2 DEF PoolAndFrames
<1>5. Counted
  <2>1. Queued = {}
    BY <1>1 DEF Queued
  <2>2. Cardinality(Queued) = 0
    BY <2>1, FS_EmptySet
  <2>3. \A q \in Queue : Len(tasks[q]) = 0
    BY <1>1
  <2> QED BY <1>1, <1>2, <2>2, <2>3 DEF Counted
<1> QED BY <1>3, <1>4, <1>5 DEF QInv

LEMMA QNextInv == QInv /\ [INext]_ivars => QInv'
<1> SUFFICES ASSUME QInv, [INext]_ivars PROVE QInv'
  OBVIOUS
<1>1. ASSUME NEW s \in Source, Irq(s) PROVE QInv'
  BY <1>1, IrqKeeps
<1>2. CASE TaskDone
  BY <1>2, NextTaskKeeps, QueueDoneKeeps
<1>3. CASE Reap
  BY <1>3, ReapKeeps
<1>4. CASE Quiet
  BY <1>4, QuietKeeps
<1>5. CASE Unknown
  BY <1>5, UnknownKeeps
<1>6. CASE NoTask \/ UNCHANGED ivars
  <2>1. UNCHANGED ivars
    BY <1>6 DEF NoTask
  <2>2. /\ cur' = cur /\ stack' = stack /\ tasks' = tasks /\ preemptor' = preemptor /\ pool' = pool
        /\ spare' = spare /\ base' = base /\ masked' = masked /\ events' = events
        /\ started' = started /\ dead' = dead /\ reaped' = reaped /\ leaving' = leaving
        /\ leaked' = leaked /\ nullPriority' = nullPriority
    BY <2>1 DEF ivars
  <2>3. IrqTypeOK'
    BY <2>2 DEF QInv, IrqTypeOK
  <2>4. PoolAndFrames'
    BY <2>2 DEF QInv, PoolAndFrames
  <2>5. Counted'
    BY <2>2 DEF QInv, Counted, Queued
  <2> QED BY <2>3, <2>4, <2>5 DEF QInv
<1> QED BY <1>1, <1>2, <1>3, <1>4, <1>5, <1>6 DEF INext, Quiet, Scheduling

\* Activations nest no deeper than there are queues.
LEMMA FewFrames ==
  ASSUME QInv, NEW c \in Context, NEW i \in DOMAIN stack[c]
  PROVE  i \in Queue
<1> DEFINE n == Len(stack[c])
           S == 1 .. n
           f == [j \in S |-> stack[c][j].queue]
<1>1. IrqTypeOK /\ n \in Nat /\ DOMAIN stack[c] = S
  BY DEF QInv, IrqTypeOK
<1>2. f \in [S -> Queue] /\ \A j, k \in S : f[j] = f[k] => j = k
  BY <1>1, FrameTyped DEF QInv, PoolAndFrames
<1>3. /\ IsFiniteSet(S) /\ Cardinality(S) = n
      /\ IsFiniteSet(Queue) /\ Cardinality(Queue) = QueuePoolLen /\ QueuePoolLen \in Nat
  <2>1. n \in Nat /\ n \in Int /\ 1 \in Int /\ QueuePoolLen \in Int /\ QueuePoolLen \in Nat /\ QueuePoolLen > 1
    BY <1>1, InterruptsAssumption
  <2> HIDE DEF n
  <2>2. /\ IsFiniteSet(1 .. n) /\ Cardinality(1 .. n) = IF 1 > n THEN 0 ELSE n - 1 + 1
        /\ IsFiniteSet(1 .. QueuePoolLen)
        /\ Cardinality(1 .. QueuePoolLen) = IF 1 > QueuePoolLen THEN 0 ELSE QueuePoolLen - 1 + 1
    BY <2>1, FS_Interval, Zenon
  <2> QED BY <2>1, <2>2 DEF Queue
<1> HIDE DEF f, S, n
<1>4. ~ (QueuePoolLen < n)
  BY <1>2, <1>3, FS_PigeonHole
<1> QED BY <1>1, <1>3, <1>4 DEF S, Queue

LEMMA PlacesOfQueues == QInv => QueuesInOnePlace
<1> SUFFICES ASSUME QInv, NEW q \in Queue
             PROVE  /\ Cardinality({i \in DOMAIN pool : pool[i] = q})
                       + Cardinality({p \in Context \X Queue : /\ p[2] \in DOMAIN stack[p[1]]
                                                               /\ stack[p[1]][p[2]].queue = q}) = 1
                    /\ q \in {pool[i] : i \in DOMAIN pool} => tasks[q] = <<>>
  BY DEF QueuesInOnePlace
<1> DEFINE A == {i \in DOMAIN pool : pool[i] = q}
           B == {p \in Context \X Queue : p[2] \in DOMAIN stack[p[1]] /\ stack[p[1]][p[2]].queue = q}
<1>1. PoolAndFrames /\ IrqTypeOK /\ q # Null
  BY InterruptsAssumption DEF QInv, Queue, Null
<1>2. (\A S : S = {} => Cardinality(S) = 0) /\ (\A x : Cardinality({x}) = 1)
  BY FS_EmptySet, FS_Singleton
<1>3. ASSUME NEW i \in DOMAIN pool, pool[i] = q
      PROVE  Cardinality(A) = 1 /\ Cardinality(B) = 0 /\ tasks[q] = <<>>
  <2>1. tasks[q] = <<>> /\ A = {i}
    BY <1>1, <1>3 DEF PoolAndFrames
  <2>2. B = {}
    BY <2>1, <1>1 DEF PoolAndFrames
  <2> QED BY <2>1, <2>2, <1>2
<1>4. ASSUME NEW c \in Context, NEW i \in DOMAIN stack[c], stack[c][i].queue = q
      PROVE  Cardinality(A) = 0 /\ Cardinality(B) = 1 /\ q \notin {pool[j] : j \in DOMAIN pool}
  <2>1. tasks[q] # <<>>
    BY <1>1, <1>4 DEF PoolAndFrames
  <2>2. A = {} /\ q \notin {pool[j] : j \in DOMAIN pool}
    BY <2>1, <1>1 DEF PoolAndFrames
  <2>3. i \in Queue
    BY FewFrames
  <2>4. B = {<<c, i>>}
    BY <2>3, <1>1, <1>4 DEF PoolAndFrames
  <2> QED BY <2>2, <2>4, <1>2
<1> HIDE DEF A, B
<1>5. \/ \E i \in DOMAIN pool : pool[i] = q
      \/ \E c \in Context : \E i \in DOMAIN stack[c] : stack[c][i].queue = q
  BY <1>1 DEF PoolAndFrames
<1>6. /\ Cardinality(A) + Cardinality(B) = 1
      /\ q \in {pool[i] : i \in DOMAIN pool} => tasks[q] = <<>>
  BY <1>3, <1>4, <1>5
<1> QED BY <1>6 DEF A, B
-----------------------------------------------------------------------------
(* While the shell runs. *)

LEMMA ShellFacts ==
  ASSUME QInv, Nest, cur = Boot
  PROVE  /\ Depth \in 0 .. 2 /\ 1 \in Queue /\ 2 \in Queue /\ Boot \in Context
         /\ stack[Boot] \in Seq(Frame) /\ Depth = Len(stack[Boot]) /\ DOMAIN stack[Boot] = 1 .. Depth
         /\ \A i \in 1 .. Depth : /\ i \in Queue /\ tasks[i] \in Seq(Source) /\ tasks[i] # <<>>
                                  /\ 1 \in DOMAIN tasks[i] /\ Head(tasks[i]) = tasks[i][1]
                                  /\ tasks[i][1] \in Source /\ HeadPriority(i) = Priority[tasks[i][1]]
         /\ \A q \in Queue : q > Depth => tasks[q] = <<>>
         /\ Depth > 0 => Depth \in 1 .. Depth /\ Top = stack[Boot][Depth] /\ Top.queue = Depth
         /\ QueryQueue = Depth + 1 \/ (Depth = 2 /\ QueuePoolLen = 2)
<1>1. IrqTypeOK /\ PoolAndFrames /\ Depth \in 0 .. 2
  BY DEF QInv, Nest
<1>2. 1 \in Queue /\ 2 \in Queue /\ Boot \in Context /\ QueuePoolLen \in Nat /\ QueuePoolLen > 1
  BY InterruptsAssumption DEF Queue
<1>3. stack[Boot] \in Seq(Frame) /\ Depth = Len(stack[Boot]) /\ DOMAIN stack[Boot] = 1 .. Depth
  BY <1>1, <1>2 DEF IrqTypeOK, Depth
<1>4. ASSUME NEW i \in 1 .. Depth
      PROVE  /\ i \in Queue /\ tasks[i] \in Seq(Source) /\ tasks[i] # <<>>
             /\ 1 \in DOMAIN tasks[i] /\ Head(tasks[i]) = tasks[i][1]
             /\ tasks[i][1] \in Source /\ HeadPriority(i) = Priority[tasks[i][1]]
  <2>1. i \in Queue
    BY <1>1, <1>2
  <2>2. tasks[i] \in Seq(Source)
    BY <2>1, <1>1 DEF IrqTypeOK
  <2>3. tasks[i] # <<>>
    BY <1>1, <1>2, <1>3 DEF PoolAndFrames, Nest
  <2>4. 1 \in DOMAIN tasks[i] /\ Head(tasks[i]) = tasks[i][1] /\ tasks[i][1] \in Source
    BY <2>2, <2>3
  <2>5. HeadPriority(i) = Priority[tasks[i][1]]
    BY <2>3, <2>4 DEF HeadPriority
  <2> QED BY <2>1, <2>2, <2>3, <2>4, <2>5
<1>5. DOMAIN pool = 1 .. QueuePoolLen - Depth /\ \A i \in 1 .. QueuePoolLen - Depth : pool[i] = Depth + i
  BY DEF Nest
<1>6. ASSUME NEW q \in Queue, q > Depth PROVE tasks[q] = <<>>
  <2>1. q - Depth \in DOMAIN pool /\ pool[q - Depth] = q
    BY <1>1, <1>2, <1>5, <1>6 DEF Queue
  <2>2. q # Null
    BY <1>2 DEF Queue, Null
  <2>3. \A i \in DOMAIN pool : pool[i] # Null => tasks[pool[i]] = <<>>
    BY <1>1 DEF PoolAndFrames
  <2> QED BY <2>1, <2>2, <2>3
<1>7. Depth > 0 => Depth \in 1 .. Depth /\ Top = stack[Boot][Depth] /\ Top.queue = Depth
  BY <1>1 DEF Top, Nest
<1>8. QueryQueue = Depth + 1 \/ (Depth = 2 /\ QueuePoolLen = 2)
  <2> SUFFICES ASSUME ~ (Depth = 2 /\ QueuePoolLen = 2) PROVE QueryQueue = Depth + 1
    OBVIOUS
  <2>1. 1 \in DOMAIN pool
    BY <1>1, <1>2, <1>5
  <2>2. pool \in Seq(Queue \cup {Null}) /\ pool[1] = Depth + 1
    BY <1>1, <1>5, <2>1 DEF IrqTypeOK
  <2>3. pool # <<>> /\ Head(pool) = pool[1]
    BY <2>1, <2>2
  <2> QED BY <2>2, <2>3 DEF QueryQueue
<1> QED BY <1>1, <1>2, <1>3, <1>4, <1>6, <1>7, <1>8

\* Once it stops, the first loop stays where it is.
LEMMA SearchStops ==
  ASSUME NEW s, NEW w, Turns(s, w), NEW k \in 0 .. QueuePoolLen,
         w[k][2] = Null \/ ~ (Priority[s] > HeadPriority(w[k][2]))
  PROVE  w[QueuePoolLen] = w[k]
<1> DEFINE Bad == {i \in k .. QueuePoolLen : w[i] # w[k]}
<1>1. QueuePoolLen \in Nat /\ k \in Nat /\ k <= QueuePoolLen
  BY InterruptsAssumption
<1>2. Bad = {}
  <2> SUFFICES ASSUME Bad # {} PROVE FALSE
    OBVIOUS
  <2>1. Bad \in SUBSET Nat
    BY <1>1
  <2>2. PICK i \in Bad : \A m \in Bad : i <= m
    <3> HIDE DEF Bad
    <3> QED BY <2>1, LeastExists
  <2>3. i # k /\ i \in k .. QueuePoolLen
    OBVIOUS
  <2>4. i - 1 \in k .. QueuePoolLen /\ i - 1 \notin Bad /\ i \in 1 .. QueuePoolLen
    BY <1>1, <2>2, <2>3
  <2>5. w[i - 1] = w[k]
    BY <2>4
  <2>6. w[i] = IF w[k][2] # Null /\ Priority[s] > HeadPriority(w[k][2])
               THEN <<w[k][2], preemptor[w[k][2]]>> ELSE w[k]
    BY <2>4, <2>5 DEF Turns
  <2> QED BY <2>2, <2>6
<1>3. QueuePoolLen \in k .. QueuePoolLen
  BY <1>1
<1> QED BY <1>2, <1>3

\* Where it stops: at the queue whose head the task does not preempt, or behind the
\* last one, which may be the stale pointer of the first.
LEMMA ShellSearch ==
  ASSUME QInv, Nest, Ordered, cur = Boot, NEW s \in Source
  PROVE  \/ Depth = 0 /\ Search(s) = <<Null, Null>>
         \/ Depth > 0 /\ (s = "uart" \/ tasks[1][1] = "timer") /\ Search(s) = <<Null, 1>>
         \/ /\ Depth = 1 /\ s = "timer" /\ tasks[1][1] = "uart"
            /\ Search(s) \in {<<1, Null>>, <<2, Null>>} /\ (Search(s)[1] = 2 => preemptor[1] = 2)
         \/ Depth = 2 /\ s = "timer" /\ tasks[1][1] = "uart" /\ Search(s) = <<1, 2>>
         \/ Depth = 1 /\ s = "timer" /\ ~ NullIsLow /\ Search(s) = <<1, 2>>
<1>1. PICK w : Turns(s, w) /\ Search(s) = w[QueuePoolLen]
  BY SearchIs DEF QInv
<1>2. /\ 0 \in 0 .. QueuePoolLen /\ 1 \in 0 .. QueuePoolLen /\ 2 \in 0 .. QueuePoolLen
      /\ 1 \in 1 .. QueuePoolLen /\ 2 \in 1 .. QueuePoolLen
  BY InterruptsAssumption
<1>3. /\ w[0] = <<Null, base>>
      /\ \A i \in 1 .. QueuePoolLen :
            w[i] = IF w[i - 1][2] # Null /\ Priority[s] > HeadPriority(w[i - 1][2])
                   THEN <<w[i - 1][2], preemptor[w[i - 1][2]]>> ELSE w[i - 1]
  BY <1>1 DEF Turns
<1>4. Priority["uart"] = 1 /\ Priority["timer"] = 2 /\ s \in {"uart", "timer"} /\ Null = 0
  BY DEF Priority, Source, Null
<1>5. /\ Depth \in 0 .. 2
      /\ base = IF Depth = 0 THEN Null ELSE 1
      /\ \A q \in Queue : preemptor[q] \in {Null, 2} /\ (preemptor[q] = 2 => q <= Depth)
      /\ Depth = 2 => preemptor[1] = 2
  BY DEF Nest
<1>6. CASE Depth = 0
  <2>1. w[0] = <<Null, Null>>
    BY <1>3, <1>5, <1>6
  <2>2. w[QueuePoolLen] = w[0]
    BY <2>1, <1>1, <1>2, SearchStops
  <2> QED BY <1>1, <1>6, <2>1, <2>2
<1>7. CASE Depth > 0
  <2>1. /\ w[0] = <<Null, 1>> /\ 1 \in Queue /\ 2 \in Queue
        /\ tasks[1][1] \in Source /\ HeadPriority(1) = Priority[tasks[1][1]]
    BY <1>3, <1>5, <1>7, ShellFacts
  <2>2. CASE s = "uart" \/ tasks[1][1] = "timer"
    <3>1. ~ (Priority[s] > HeadPriority(1))
      BY <2>1, <2>2, <1>4 DEF Source
    <3>2. w[QueuePoolLen] = w[0]
      BY <2>1, <3>1, <1>1, <1>2, SearchStops
    <3> QED BY <1>1, <1>7, <2>1, <2>2, <3>2
  <2>3. CASE s = "timer" /\ tasks[1][1] = "uart"
    <3>1. Priority[s] > HeadPriority(1) /\ 1 # Null
      BY <2>1, <2>3, <1>4
    <3>2. w[1] = <<1, preemptor[1]>>
      <4>1. w[1] = IF w[1 - 1][2] # Null /\ Priority[s] > HeadPriority(w[1 - 1][2])
                   THEN <<w[1 - 1][2], preemptor[w[1 - 1][2]]>> ELSE w[1 - 1]
        BY <1>2, <1>3
      <4>2. 1 - 1 = 0 /\ w[0][2] = 1
        BY <2>1
      <4> QED BY <4>1, <4>2, <3>1
    <3>3. CASE preemptor[1] = Null
      <4>1. Depth = 1
        BY <3>3, <1>4, <1>5, <1>7
      <4>2. w[QueuePoolLen] = w[1]
        BY <3>2, <3>3, <1>1, <1>2, SearchStops
      <4> QED BY <4>1, <4>2, <3>2, <3>3, <2>3, <1>1
    <3>4. CASE preemptor[1] = 2 /\ Depth = 2
      <4>1. tasks[2][1] = "timer" /\ HeadPriority(2) = Priority[tasks[2][1]]
        BY <3>4, ShellFacts DEF Ordered
      <4>2. ~ (Priority[s] > HeadPriority(2))
        BY <4>1, <2>3, <1>4
      <4>3. w[QueuePoolLen] = w[1]
        BY <4>2, <3>2, <3>4, <1>1, <1>2, SearchStops
      <4> QED BY <4>3, <3>2, <3>4, <2>3, <1>1
    <3>5. CASE preemptor[1] = 2 /\ Depth = 1
      <4>1. tasks[2] = <<>>
        BY <3>5, <2>1, ShellFacts
      <4>2. HeadPriority(2) = nullPriority /\ 2 # Null
        BY <4>1, <1>4 DEF HeadPriority
      <4>3. Priority[s] > HeadPriority(2) <=> NullIsLow
        <5>1. nullPriority \in {0, 1, 2}
          BY <1>4 DEF QInv, IrqTypeOK, Source
        <5> QED BY <5>1, <4>2, <2>3, <1>4 DEF NullIsLow
      <4>4. CASE ~ NullIsLow
        <5>1. w[QueuePoolLen] = w[1]
          BY <4>3, <4>4, <3>2, <3>5, <1>1, <1>2, SearchStops
        <5> QED BY <5>1, <4>4, <3>2, <3>5, <2>3, <1>1
      <4>5. CASE NullIsLow
        <5>1. preemptor[2] = Null
          BY <3>5, <2>1, <1>5
        <5>2. w[2] = <<2, Null>>
          <6>1. w[2] = IF w[2 - 1][2] # Null /\ Priority[s] > HeadPriority(w[2 - 1][2])
                       THEN <<w[2 - 1][2], preemptor[w[2 - 1][2]]>> ELSE w[2 - 1]
            BY <1>2, <1>3
          <6>2. 2 - 1 = 1 /\ w[1][2] = 2
            BY <3>2, <3>5
          <6> QED BY <6>1, <6>2, <5>1, <4>2, <4>3, <4>5
        <5>3. w[QueuePoolLen] = w[2]
          BY <5>2, <1>1, <1>2, SearchStops
        <5> QED BY <5>2, <5>3, <3>5, <2>3, <1>1
      <4> QED BY <4>4, <4>5
    <3>6. preemptor[1] \in {Null, 2} /\ Depth \in {1, 2}
      BY <2>1, <1>5, <1>7
    <3> QED BY <3>3, <3>4, <3>5, <3>6
  <2> QED BY <2>1, <2>2, <2>3, <1>4 DEF Source
<1> QED BY <1>5, <1>6, <1>7

\* The task goes behind the head of the queue where the loop stopped.
LEMMA ShellInsert ==
  ASSUME QInv, Shell, cur = Boot, NEW s \in Source, Irq(s), Search(s)[2] # Null, tasks[Search(s)[2]] # <<>>
  PROVE  Shell'
<1> DEFINE at == Search(s)[2]
<1>1. /\ Nest /\ Ordered /\ Attended /\ (NullIsLow => spare + leaked + Cardinality(Queued) = TaskPoolLen)
      /\ spare \in Nat /\ leaked \in Nat /\ Cardinality(Queued) \in Nat
      /\ tasks \in [Queue -> Seq(Source)]
  BY PlacesAreFinite DEF Shell, QInv, IrqTypeOK, Queued
<1>2. /\ Depth \in 0 .. 2 /\ at \in 1 .. Depth
      /\ (at = 1 => s = "uart" \/ tasks[1][1] = "timer") /\ (at = 2 => s = "timer")
  <2>1. Depth \in 0 .. 2
    BY <1>1, ShellFacts
  <2>2. Depth = 1 => tasks[2] = <<>>
    BY <1>1, ShellFacts
  <2> QED BY <1>1, <2>1, <2>2, ShellSearch DEF Null
<1>3. at \in Queue /\ tasks[at] \in Seq(Source) /\ tasks[at] # <<>>
  BY <1>1, <1>2, ShellFacts
<1>4. /\ spare' = spare - 1 /\ masked' = masked \cup {s}
      /\ tasks' = [tasks EXCEPT ![at] = Inserted(@, s)]
      /\ UNCHANGED <<cur, stack, preemptor, pool, base, events, started, leaked, nullPriority>>
  BY <1>3 DEF Irq
<1> HIDE DEF at
<1>5. Cardinality(Queued') = Cardinality(Queued) + 1
  BY <1>3, <1>4, InsertKeeps
<1>6. Nest'
  BY <1>1, <1>4 DEF Nest, Depth
<1>7. PICK k \in 2 .. Len(tasks[at]) + 1 :
         /\ \A i \in 2 .. k - 1 : Priority[tasks[at][i]] >= Priority[s]
         /\ k <= Len(tasks[at]) => Priority[tasks[at][k]] < Priority[s]
         /\ Inserted(tasks[at], s) \in Seq(Source)
         /\ Len(Inserted(tasks[at], s)) = Len(tasks[at]) + 1
         /\ \A i \in 1 .. Len(tasks[at]) + 1 :
               Inserted(tasks[at], s)[i] =
                  IF i < k THEN tasks[at][i] ELSE IF i = k THEN s ELSE tasks[at][i - 1]
  BY <1>3, InsertedIs
<1> DEFINE n == Len(tasks[at])
<1>8. /\ n \in Nat /\ n > 0 /\ DOMAIN tasks[at] = 1 .. n /\ DOMAIN tasks'[at] = 1 .. n + 1
      /\ \A i \in 1 .. n + 1 :
            tasks'[at][i] = IF i < k THEN tasks[at][i] ELSE IF i = k THEN s ELSE tasks[at][i - 1]
      /\ \A i \in 1 .. n : tasks[at][i] \in Source
      /\ \A q \in Queue : q # at => tasks'[q] = tasks[q]
  <2>1. tasks'[at] = Inserted(tasks[at], s) /\ \A q \in Queue : q # at => tasks'[q] = tasks[q]
    BY <1>1, <1>3, <1>4
  <2>2. /\ n \in Nat /\ n > 0 /\ DOMAIN tasks[at] = 1 .. n
        /\ \A i \in 1 .. n : tasks[at][i] \in Source
    BY <1>3
  <2>3. DOMAIN tasks'[at] = 1 .. n + 1
    <3>1. tasks'[at] \in Seq(Source) /\ Len(tasks'[at]) = n + 1
      BY <2>1, <1>7
    <3> HIDE DEF n
    <3> QED BY <3>1
  <2>4. \A i \in 1 .. n + 1 :
            tasks'[at][i] = IF i < k THEN tasks[at][i] ELSE IF i = k THEN s ELSE tasks[at][i - 1]
    BY <2>1, <1>7
  <2> QED BY <2>1, <2>2, <2>3, <2>4
<1>9. Priority["uart"] = 1 /\ Priority["timer"] = 2 /\ s \in {"uart", "timer"} /\ Source = {"uart", "timer"}
  BY DEF Priority, Source
<1>10. 1 \in Queue /\ 2 \in Queue /\ k \in 2 .. n + 1
  BY <1>1, <1>7, ShellFacts
<1>11. s = "uart" => k = n + 1
  <2> SUFFICES ASSUME s = "uart", k # n + 1 PROVE FALSE
    OBVIOUS
  <2>1. k \in 1 .. n /\ k <= Len(tasks[at])
    BY <1>8, <1>10
  <2>2. tasks[at][k] \in Source /\ Priority[tasks[at][k]] < Priority[s]
    BY <2>1, <1>7, <1>8
  <2> QED BY <2>2, <1>9
<1>12. ASSUME s = "timer", NEW x \in 2 .. k - 1 PROVE tasks[at][x] = "timer"
  <2>1. x \in 1 .. n
    BY <1>8, <1>10
  <2>2. tasks[at][x] \in Source /\ Priority[tasks[at][x]] >= Priority[s]
    BY <2>1, <1>7, <1>8
  <2> QED BY <2>2, <1>9, <1>12
<1>13. ASSUME NEW i \in 1 .. n + 1
       PROVE  \/ i \in 1 .. n /\ i < k /\ tasks'[at][i] = tasks[at][i]
              \/ i = k /\ tasks'[at][i] = s
              \/ i > k /\ i - 1 \in 1 .. n /\ tasks'[at][i] = tasks[at][i - 1]
  <2>1. CASE i < k
    BY <2>1, <1>8, <1>10
  <2>2. CASE i = k
    BY <2>2, <1>8
  <2>3. CASE i > k
    BY <2>3, <1>8, <1>10
  <2> QED BY <2>1, <2>2, <2>3, <1>10
<1>14. Ordered'
  <2>1. ASSUME at = 1, NEW i \in 1 .. n + 1, NEW j \in 1 .. n + 1, i < j, tasks'[1][i] = "uart"
        PROVE  tasks'[1][j] = "uart"
    <3>1. \A x, y \in 1 .. n : x < y /\ tasks[1][x] = "uart" => tasks[1][y] = "uart"
      BY <2>1, <1>1, <1>8 DEF Ordered
    <3>2. CASE s = "uart"
      <4>1. k = n + 1
        BY <3>2, <1>11
      <4>2. tasks[1][i] = "uart"
        BY <4>1, <2>1, <1>8
      <4>3. CASE j = n + 1
        BY <4>1, <4>3, <3>2, <2>1, <1>8
      <4>4. CASE j # n + 1
        BY <4>1, <4>2, <4>4, <3>1, <2>1, <1>8, SMTT(30)
      <4> QED BY <4>3, <4>4
    <3>3. CASE s = "timer"
      <4>1. tasks[1][1] = "timer"
        BY <3>3, <2>1, <1>2
      <4>2. \A x \in 1 .. k - 1 : tasks[1][x] = "timer"
        <5>1. ASSUME NEW x \in 1 .. k - 1 PROVE x = 1 \/ x \in 2 .. k - 1
          BY <1>10
        <5> QED BY <5>1, <4>1, <3>3, <2>1, <1>12
      <4>3. i > k
        <5>1. i < k => i \in 1 .. k - 1
          BY <1>10
        <5> QED BY <5>1, <4>2, <3>3, <2>1, <1>13
      <4>4. tasks[1][i - 1] = "uart" /\ i - 1 \in 1 .. n /\ j - 1 \in 1 .. n /\ i - 1 < j - 1
        BY <4>3, <2>1, <1>8, <1>10
      <4>5. tasks'[1][j] = tasks[1][j - 1]
        BY <4>3, <2>1, <1>8, <1>10
      <4> QED BY <4>4, <4>5, <3>1
    <3> QED BY <3>2, <3>3, <1>9
  <2>2. \A i, j \in DOMAIN tasks'[1] : i < j /\ tasks'[1][i] = "uart" => tasks'[1][j] = "uart"
    <3>1. CASE at = 1
      BY <3>1, <2>1, <1>8
    <3>2. CASE at # 1
      BY <3>2, <1>1, <1>8, <1>10 DEF Ordered
    <3> QED BY <3>1, <3>2
  <2>3. ASSUME Depth = 2
        PROVE  /\ \A i \in DOMAIN tasks'[1] : tasks'[1][i] = "uart"
               /\ \A i \in DOMAIN tasks'[2] : tasks'[2][i] = "timer"
    <3>1. /\ \A i \in DOMAIN tasks[1] : tasks[1][i] = "uart"
          /\ \A i \in DOMAIN tasks[2] : tasks[2][i] = "timer"
      BY <2>3, <1>1 DEF Ordered
    <3>2. CASE at = 1
      <4>1. s = "uart"
        BY <3>1, <3>2, <1>2, <1>8
      <4>2. \A i \in 1 .. n + 1 : tasks'[1][i] = "uart"
        BY <4>1, <3>1, <3>2, <1>8, <1>13, ZenonT(40)
      <4> QED BY <4>2, <3>1, <3>2, <1>8, <1>10
    <3>3. CASE at = 2
      <4>1. s = "timer"
        BY <3>3, <1>2
      <4>2. \A i \in 1 .. n + 1 : tasks'[2][i] = "timer"
        BY <4>1, <3>1, <3>3, <1>8, <1>13, ZenonT(40)
      <4> QED BY <4>2, <3>1, <3>3, <1>8, <1>10
    <3> QED BY <3>2, <3>3, <1>2
  <2>4. Depth' = Depth
    BY <1>4 DEF Depth
  <2> QED BY <2>2, <2>3, <2>4 DEF Ordered
<1>15. Attended'
  <2>1. Depth' = Depth /\ stack' = stack /\ Pending' = Pending /\ NullIsLow' = NullIsLow
    BY <1>4 DEF Depth, Pending, NullIsLow
  <2>2. Waits(s)'
    <3>1. k \in DOMAIN tasks'[at] /\ tasks'[at][k] = s /\ k # 1
      BY <1>8, <1>10
    <3> QED BY <3>1, <2>1, <1>2 DEF Waits
  <2>3. ASSUME NEW t \in Source, Waits(t) PROVE Waits(t)'
    <3>0. PICK q \in 1 .. Depth : \E i \in DOMAIN tasks[q] :
             tasks[q][i] = t /\ (i = 1 => stack[Boot][q].at # "end")
      BY <2>3 DEF Waits
    <3>1. PICK i \in DOMAIN tasks[q] : tasks[q][i] = t /\ (i = 1 => stack[Boot][q].at # "end")
      BY <3>0
    <3>2. q \in Queue
      BY <1>1, ShellFacts
    <3>3. CASE q # at
      BY <3>1, <3>2, <3>3, <2>1, <1>8 DEF Waits
    <3>4. CASE q = at /\ i < k
      <4>1. i \in DOMAIN tasks'[q] /\ tasks'[q][i] = t
        BY <3>1, <3>4, <1>8
      <4> QED BY <3>1, <4>1, <2>1 DEF Waits
    <3>5. CASE q = at /\ ~ (i < k)
      <4>1. i \in 1 .. n
        BY <3>5, <1>8
      <4>2. i + 1 \in DOMAIN tasks'[q] /\ tasks'[q][i + 1] = t /\ i + 1 # 1
        BY <4>1, <3>1, <3>5, <1>8, <1>10, SMTT(30)
      <4> QED BY <3>1, <4>2, <2>1 DEF Waits
    <3> QED BY <3>3, <3>4, <3>5
  <2>4. masked \subseteq Source
    BY DEF QInv, IrqTypeOK
  <2>5. ASSUME NEW t \in masked' PROVE Waits(t)' \/ (t = "timer" /\ (~ Pending' \/ ~ NullIsLow'))
    BY <2>1, <2>2, <2>3, <2>4, <1>1, <1>4 DEF Attended
  <2> QED BY <2>5 DEF Attended
<1>16. ASSUME NullIsLow PROVE spare' + leaked' + Cardinality(Queued') = TaskPoolLen
  BY <1>1, <1>4, <1>5, <1>16
<1> QED BY <1>4, <1>6, <1>14, <1>15, <1>16 DEF Shell, NullIsLow

\* The task begins an activation of its own, inside the one that runs.
LEMMA ShellBegin ==
  ASSUME QInv, Shell, cur = Boot, NEW s \in Source, Irq(s), Search(s)[2] = Null
  PROVE  Shell'
<1>1. /\ Nest /\ Ordered /\ Attended /\ (NullIsLow => spare + leaked + Cardinality(Queued) = TaskPoolLen)
      /\ spare \in Nat /\ leaked \in Nat /\ Cardinality(Queued) \in Nat
      /\ tasks \in [Queue -> Seq(Source)] /\ stack \in [Context -> Seq(Frame)]
      /\ pool \in Seq(Queue \cup {Null}) /\ QueuePoolLen \in Nat /\ QueuePoolLen > 1
  BY PlacesAreFinite, InterruptsAssumption DEF Shell, QInv, IrqTypeOK, Queued
<1> DEFINE new == Depth + 1
           prev == Search(s)[1]
<1>2. \/ Depth = 0 /\ prev = Null
      \/ /\ Depth = 1 /\ s = "timer" /\ tasks[1][1] = "uart"
         /\ prev \in {1, 2} /\ (prev = 2 => preemptor[1] = 2)
  BY <1>1, ShellSearch DEF Null
<1>3. /\ QueryQueue = new /\ new \in {1, 2} /\ 1 \in Queue /\ 2 \in Queue /\ Boot \in Context
      /\ QueryQueue # Null
      /\ stack[Boot] \in Seq(Frame) /\ Len(stack[Boot]) = Depth /\ Depth \in Nat
      /\ DOMAIN stack[Boot] = 1 .. Depth
  BY <1>1, <1>2, ShellFacts DEF Null
<1>4. /\ spare' = spare - 1 /\ masked' = masked \cup {s}
      /\ pool' = Tail(pool)
      /\ tasks' = [tasks EXCEPT ![new] = <<s>>]
      /\ base' = IF base = Null THEN new ELSE base
      /\ preemptor' = [q \in Queue |-> IF q = prev THEN new ELSE preemptor[q]]
      /\ stack' = [stack EXCEPT ![cur] = Append(@, [queue |-> new, at |-> "handler"])]
      /\ UNCHANGED <<cur, events, started, leaked, nullPriority>>
  BY <1>3 DEF Irq
<1>5. Cardinality(Queued') = Cardinality(Queued) + 1
  BY <1>3, BeginKeeps
<1> HIDE DEF prev
<1>6. /\ Depth' = new /\ stack'[Boot][new] = [queue |-> new, at |-> "handler"]
      /\ \A i \in 1 .. Depth : stack'[Boot][i] = stack[Boot][i]
  <2>1. stack'[Boot] = Append(stack[Boot], [queue |-> new, at |-> "handler"])
    BY <1>1, <1>3, <1>4
  <2>2. Depth' = Len(stack'[Boot])
    BY <1>4 DEF Depth
  <2> QED BY <1>3, <2>1, <2>2
<1>7. tasks'[new] = <<s>> /\ \A q \in Queue : q # new => tasks'[q] = tasks[q]
  BY <1>1, <1>3, <1>4
<1>8. Nest'
  <2>1. /\ pool = [i \in 1 .. QueuePoolLen - Depth |-> Depth + i]
        /\ \A i \in 1 .. Depth : stack[Boot][i].queue = i
        /\ base = IF Depth = 0 THEN Null ELSE 1
        /\ \A q \in Queue : preemptor[q] \in {Null, 2} /\ (preemptor[q] = 2 => q <= Depth)
    BY <1>1 DEF Nest
  <2>2. pool' = [i \in 1 .. QueuePoolLen - new |-> new + i]
    <3>1. Len(pool) = QueuePoolLen - Depth
      <4>1. DOMAIN pool = 1 .. Len(pool) /\ Len(pool) \in Nat
        BY <1>1
      <4>2. DOMAIN pool = 1 .. QueuePoolLen - Depth /\ QueuePoolLen - Depth \in Nat
        BY <2>1, <1>1, <1>2
      <4> QED BY <4>1, <4>2
    <3>2. pool # <<>>
      BY <3>1, <1>1, <1>2
    <3>3. Tail(pool) = [i \in 1 .. Len(pool) - 1 |-> pool[i + 1]]
      <4>1. Tail(pool) \in Seq(Queue \cup {Null}) /\ Len(Tail(pool)) = Len(pool) - 1
        BY <3>2, <1>1
      <4>2. \A i \in 1 .. Len(pool) - 1 : Tail(pool)[i] = pool[i + 1]
        BY <3>2, <1>1
      <4>3. Tail(pool) = [i \in 1 .. Len(Tail(pool)) |-> Tail(pool)[i]]
        <5>1. \A t \in Seq(Queue \cup {Null}) : t = [i \in 1 .. Len(t) |-> t[i]]
          OBVIOUS
        <5> QED BY <4>1, <5>1
      <4> QED BY <4>1, <4>2, <4>3
    <3>4. Len(pool) - 1 = QueuePoolLen - new
      BY <3>1, <1>1, <1>3
    <3>5. \A i \in 1 .. QueuePoolLen - new : pool[i + 1] = new + i
      BY <2>1, <1>1, <1>3
    <3> HIDE DEF new
    <3> QED BY <3>3, <3>4, <3>5, <1>4
  <2>3. \A i \in 1 .. new : stack'[Boot][i].queue = i
    <3>1. \A i \in 1 .. new : i \in 1 .. Depth \/ i = new
      BY <1>3
    <3> QED BY <3>1, <2>1, <1>6
  <2>4. base' = 1
    BY <2>1, <1>2, <1>4 DEF Null
  <2>5. ASSUME NEW q \in Queue
        PROVE  preemptor'[q] \in {Null, 2} /\ (preemptor'[q] = 2 => q <= new)
    <3>1. preemptor'[q] = IF q = prev THEN new ELSE preemptor[q]
      BY <1>4
    <3>2. preemptor[q] \in {Null, 2} /\ (preemptor[q] = 2 => q <= Depth) /\ q \in Nat /\ q # 0
      BY <2>1 DEF Queue
    <3> QED BY <3>1, <3>2, <1>2, <1>3 DEF Null
  <2>6. new = 2 => preemptor'[1] = 2
    BY <1>2, <1>3, <1>4
  <2>7. new \in 0 .. 2 /\ new # 0
    BY <1>3
  <2> QED BY <2>2, <2>3, <2>4, <2>5, <2>6, <2>7, <1>6 DEF Nest
<1>9. DOMAIN <<s>> = {1} /\ <<s>>[1] = s /\ s \in {"uart", "timer"}
  BY DEF Source
<1>10. Ordered'
  <2>1. CASE Depth = 0
    <3>1. tasks'[1] = <<s>> /\ Depth' = 1
      BY <2>1, <1>6, <1>7
    <3>2. \A i, j \in {1} : ~ (i < j)
      OBVIOUS
    <3> QED BY <3>1, <3>2, <1>9 DEF Ordered
  <2>2. CASE Depth = 1 /\ s = "timer" /\ tasks[1][1] = "uart"
    <3>1. tasks'[2] = <<"timer">> /\ tasks'[1] = tasks[1] /\ Depth' = 2
      BY <2>2, <1>3, <1>6, <1>7
    <3>2. tasks[1] \in Seq(Source) /\ 1 \in DOMAIN tasks[1]
      BY <2>2, <1>1, ShellFacts
    <3>3. /\ \A i, j \in DOMAIN tasks[1] : i < j /\ tasks[1][i] = "uart" => tasks[1][j] = "uart"
      BY <1>1 DEF Ordered
    <3>4. ASSUME NEW i \in DOMAIN tasks[1] PROVE tasks[1][i] = "uart"
      <4>1. i = 1 \/ 1 < i
        BY <3>2
      <4> QED BY <4>1, <3>2, <3>3, <2>2
    <3> QED BY <3>1, <3>3, <3>4, <1>9, <2>2 DEF Ordered
  <2> QED BY <2>1, <2>2, <1>2
<1>11. Attended'
  <2>1. Waits(s)'
    BY <1>3, <1>6, <1>7, <1>9 DEF Waits
  <2>2. ASSUME NEW t \in Source, Waits(t) PROVE Waits(t)'
    <3>1. PICK k \in 1 .. Depth : \E i \in DOMAIN tasks[k] :
             tasks[k][i] = t /\ (i = 1 => stack[Boot][k].at # "end")
      BY <2>2 DEF Waits
    <3>2. k \in Queue /\ k # new /\ k \in 1 .. new
      BY <1>3
    <3> HIDE DEF new
    <3> QED BY <3>1, <3>2, <1>6, <1>7 DEF Waits
  <2>3. masked \subseteq Source /\ Pending' = Pending /\ NullIsLow' = NullIsLow
    BY <1>4 DEF QInv, IrqTypeOK, Pending, NullIsLow
  <2>4. ASSUME NEW t \in masked' PROVE Waits(t)' \/ (t = "timer" /\ (~ Pending' \/ ~ NullIsLow'))
    BY <2>1, <2>2, <2>3, <1>1, <1>4 DEF Attended
  <2> QED BY <2>4 DEF Attended
<1>12. ASSUME NullIsLow PROVE spare' + leaked' + Cardinality(Queued') = TaskPoolLen
  BY <1>1, <1>4, <1>5, <1>12
<1> QED BY <1>4, <1>8, <1>10, <1>11, <1>12 DEF Shell, NullIsLow

\* The loop stopped at the stale pointer: the task is lost.
LEMMA ShellLost ==
  ASSUME QInv, Shell, cur = Boot, NEW s \in Source, Irq(s), Search(s)[2] # Null, tasks[Search(s)[2]] = <<>>
  PROVE  Shell'
<1>1. Nest /\ Ordered /\ Depth \in 0 .. 2 /\ \A k \in 1 .. Depth : tasks[k] # <<>>
  BY ShellFacts DEF Shell
<1>2. ~ NullIsLow /\ s = "timer"
  <2>1. Search(s)[2] \notin 1 .. Depth
    BY <1>1
  <2> QED BY <2>1, <1>1, ShellSearch DEF Null
<1>3. UNCHANGED <<cur, stack, tasks, preemptor, pool, base, events, started, nullPriority>>
      /\ masked' = masked \cup {s}
  BY DEF Irq
<1>4. Nest'
  BY <1>1, <1>3 DEF Nest, Depth
<1>5. Ordered'
  BY <1>1, <1>3 DEF Ordered, Depth
<1>6. Attended'
  <2>1. \A t : Waits(t)' = Waits(t)
    BY <1>3 DEF Waits, Depth
  <2>2. Attended
    BY DEF Shell
  <2> QED BY <2>1, <2>2, <1>2, <1>3 DEF Attended, Pending, NullIsLow
<1> QED BY <1>2, <1>3, <1>4, <1>5, <1>6 DEF Shell, NullIsLow

\* A task that is done goes back to the pool.
LEMMA SumKept ==
  ASSUME IrqTypeOK, IrqTypeOK', leaked' = leaked,
         Cardinality(Queued') + spare' = Cardinality(Queued) + spare
  PROVE  spare' + leaked' + Cardinality(Queued') = spare + leaked + Cardinality(Queued)
<1>1. spare \in Nat /\ leaked \in Nat /\ spare' \in Nat
  BY DEF IrqTypeOK
<1>2. Cardinality(Queued) \in Nat /\ Cardinality(Queued') \in Nat
  BY PlacesAreFinite DEF Queued
<1> QED BY <1>1, <1>2

\* The next task of the inner activation is started.
LEMMA ShellNextTask ==
  ASSUME QInv, Shell, cur = Boot, TaskDone, Tail(tasks[Top.queue]) # <<>>
  PROVE  Shell'
<1>1. /\ Nest /\ Ordered /\ Attended /\ (NullIsLow => spare + leaked + Cardinality(Queued) = TaskPoolLen)
      /\ IrqTypeOK /\ tasks \in [Queue -> Seq(Source)]
  BY DEF Shell, QInv, IrqTypeOK
<1>2. /\ Depth > 0 /\ Top.at = "end" /\ SetTop("handler")
      /\ tasks' = [tasks EXCEPT ![Top.queue] = Tail(tasks[Top.queue])]
      /\ UNCHANGED <<cur, preemptor, pool, base, masked, events, started, leaked, nullPriority>>
  BY DEF TaskDone, Running
<1>3. SameFrames /\ Cardinality(Queued') + spare' = Cardinality(Queued) + spare
  BY NextTaskKeeps
<1>4. /\ Depth \in 1 .. 2 /\ Top.queue = Depth /\ Depth \in Queue /\ 1 \in Queue /\ 2 \in Queue
      /\ stack[Boot][Depth].at = "end" /\ DOMAIN stack[Boot] = 1 .. Depth /\ Boot \in Context
      /\ tasks[Depth] \in Seq(Source) /\ tasks[Depth] # <<>>
  BY <1>1, <1>2, ShellFacts
<1> DEFINE n == Len(tasks[Depth])
<1>5. /\ n \in Nat /\ n > 0 /\ DOMAIN tasks[Depth] = 1 .. n /\ DOMAIN tasks'[Depth] = 1 .. n - 1
      /\ \A i \in 1 .. n - 1 : tasks'[Depth][i] = tasks[Depth][i + 1] /\ i + 1 \in 1 .. n
      /\ \A q \in Queue : q # Depth => tasks'[q] = tasks[q]
  <2>1. tasks'[Depth] = Tail(tasks[Depth]) /\ \A q \in Queue : q # Depth => tasks'[q] = tasks[q]
    BY <1>1, <1>2, <1>4
  <2>2. /\ n \in Nat /\ n > 0 /\ DOMAIN tasks[Depth] = 1 .. n
        /\ DOMAIN Tail(tasks[Depth]) = 1 .. n - 1
        /\ \A i \in 1 .. n - 1 : Tail(tasks[Depth])[i] = tasks[Depth][i + 1] /\ i + 1 \in 1 .. n
    BY <1>4
  <2> QED BY <2>1, <2>2
<1>6. /\ Depth' = Depth
      /\ \A k \in 1 .. Depth : /\ stack'[Boot][k].queue = stack[Boot][k].queue
                               /\ stack'[Boot][k].at = IF k = Depth THEN "handler" ELSE stack[Boot][k].at
  <2>1. \A k \in 1 .. Depth : stack'[Boot][k].at = IF k = Depth THEN "handler" ELSE stack[Boot][k].at
    BY <1>1, <1>2, <1>4, SetTopKeeps
  <2> QED BY <2>1, <1>2, <1>3, <1>4 DEF SameFrames, Depth
<1>7. Nest'
  BY <1>1, <1>2, <1>6 DEF Nest
<1> HIDE DEF n
<1>8. Ordered'
  <2>1. \A i, j \in DOMAIN tasks'[1] : i < j /\ tasks'[1][i] = "uart" => tasks'[1][j] = "uart"
    <3>0. \A i, j \in DOMAIN tasks[1] : i < j /\ tasks[1][i] = "uart" => tasks[1][j] = "uart"
      BY <1>1 DEF Ordered
    <3>1. CASE Depth = 1
      <4> SUFFICES ASSUME NEW i \in 1 .. n - 1, NEW j \in 1 .. n - 1, i < j, tasks'[1][i] = "uart"
                   PROVE  tasks'[1][j] = "uart"
        BY <3>1, <1>5
      <4>1. i + 1 < j + 1 /\ tasks[1][i + 1] = "uart" /\ i + 1 \in 1 .. n /\ j + 1 \in 1 .. n
        BY <3>1, <1>5, SMTT(30)
      <4> QED BY <4>1, <3>0, <3>1, <1>5
    <3>2. CASE Depth # 1
      BY <3>0, <3>2, <1>4, <1>5, SMTT(30)
    <3> QED BY <3>1, <3>2
  <2>2. ASSUME Depth = 2
        PROVE  /\ \A i \in DOMAIN tasks'[1] : tasks'[1][i] = "uart"
               /\ \A i \in DOMAIN tasks'[2] : tasks'[2][i] = "timer"
    <3>1. /\ \A i \in DOMAIN tasks[1] : tasks[1][i] = "uart"
          /\ \A i \in DOMAIN tasks[2] : tasks[2][i] = "timer"
      BY <2>2, <1>1 DEF Ordered
    <3>2. tasks'[1] = tasks[1]
      BY <2>2, <1>4, <1>5
    <3>3. ASSUME NEW i \in DOMAIN tasks'[2] PROVE tasks'[2][i] = "timer"
      <4>1. i \in 1 .. n - 1
        BY <3>3, <2>2, <1>5
      <4> QED BY <4>1, <3>1, <2>2, <1>5
    <3> QED BY <3>1, <3>2, <3>3
  <2> QED BY <2>1, <2>2, <1>6 DEF Ordered
<1>9. Attended'
  <2>1. ASSUME NEW t, Waits(t) PROVE Waits(t)'
    <3>1. PICK k \in 1 .. Depth : \E i \in DOMAIN tasks[k] :
             tasks[k][i] = t /\ (i = 1 => stack[Boot][k].at # "end")
      BY <2>1 DEF Waits
    <3>2. PICK i \in DOMAIN tasks[k] : tasks[k][i] = t /\ (i = 1 => stack[Boot][k].at # "end")
      BY <3>1
    <3>3. k \in Queue
      BY <1>1, <1>4
    <3>4. CASE k = Depth
      <4>1. i # 1 /\ i \in 1 .. n
        BY <3>2, <3>4, <1>4, <1>5
      <4>2. i - 1 \in 1 .. n - 1 /\ (i - 1) + 1 = i
        BY <4>1, <1>5
      <4>3. i - 1 \in DOMAIN tasks'[k] /\ tasks'[k][i - 1] = t
        BY <4>2, <3>2, <3>4, <1>5
      <4>4. stack'[Boot][k].at # "end"
        BY <3>4, <1>4, <1>6
      <4> QED BY <4>3, <4>4, <1>6 DEF Waits
    <3>5. CASE k # Depth
      BY <3>2, <3>3, <3>5, <1>5, <1>6, SMTT(30) DEF Waits
    <3> QED BY <3>4, <3>5
  <2> QED BY <2>1, <1>1, <1>2 DEF Attended, Pending, NullIsLow
<1>10. ASSUME NullIsLow PROVE spare' + leaked' + Cardinality(Queued') = TaskPoolLen
  <2>1. IrqTypeOK /\ IrqTypeOK'
    BY NextTaskKeeps DEF QInv
  <2>2. leaked' = leaked /\ spare + leaked + Cardinality(Queued) = TaskPoolLen
    BY <1>1, <1>2, <1>10
  <2> QED BY <2>1, <2>2, <1>3, SumKept
<1> QED BY <1>2, <1>7, <1>8, <1>9, <1>10 DEF Shell, NullIsLow

\* Or its queue, the last one taken, goes back to the front of the pool.
LEMMA ShellQueueDone ==
  ASSUME QInv, Shell, cur = Boot, TaskDone, Tail(tasks[Top.queue]) = <<>>
  PROVE  Shell'
<1>1. /\ Nest /\ Ordered /\ Attended /\ (NullIsLow => spare + leaked + Cardinality(Queued) = TaskPoolLen)
      /\ IrqTypeOK /\ tasks \in [Queue -> Seq(Source)] /\ preemptor \in [Queue -> Queue \cup {Null}]
      /\ QueuePoolLen \in Nat /\ QueuePoolLen > 1
  BY InterruptsAssumption DEF Shell, QInv, IrqTypeOK
<1>2. /\ Depth > 0 /\ Top.at = "end"
      /\ tasks' = [tasks EXCEPT ![Top.queue] = <<>>]
      /\ pool' = <<Top.queue>> \o pool
      /\ preemptor' = [preemptor EXCEPT ![Top.queue] = Null]
      /\ base' = IF base = Top.queue THEN Null ELSE base
      /\ UNCHANGED <<cur, masked, events, started, leaked, nullPriority>>
  BY DEF TaskDone, Running, FreeQueue
<1>3. /\ Cardinality(Queued') + spare' = Cardinality(Queued) + spare
      /\ DOMAIN stack'[Boot] = 1 .. Depth - 1
      /\ \A k \in 1 .. Depth - 1 : stack'[Boot][k] = stack[Boot][k]
      /\ Depth' = Depth - 1
  <2>1. /\ Cardinality(Queued') + spare' = Cardinality(Queued) + spare
        /\ DOMAIN stack'[Boot] = 1 .. Depth - 1 /\ Boot \in Context
        /\ \A i \in DOMAIN stack'[Boot] : stack'[Boot][i] = stack[Boot][i]
        /\ stack' \in [Context -> Seq(Frame)]
    BY QueueDoneKeeps DEF QInv, IrqTypeOK
  <2>2. stack'[Boot] \in Seq(Frame)
    BY <2>1
  <2>3. Depth' = Depth - 1
    <3>1. Depth' = Len(stack'[Boot]) /\ Depth \in 0 .. 2
      BY <1>1, <1>2, ShellFacts DEF Depth
    <3>2. Len(stack'[Boot]) \in Nat /\ DOMAIN stack'[Boot] = 1 .. Len(stack'[Boot])
      BY <2>2
    <3>3. Depth - 1 \in Nat
      BY <3>1, <1>2
    <3> QED BY <3>1, <3>2, <3>3, <2>1
  <2> QED BY <2>1, <2>3
<1>4. /\ Depth \in 1 .. 2 /\ Top.queue = Depth /\ Depth \in Queue /\ 1 \in Queue /\ 2 \in Queue
      /\ stack[Boot][Depth].at = "end"
      /\ tasks[Depth] \in Seq(Source) /\ tasks[Depth] # <<>> /\ tasks[1] # <<>>
  BY <1>1, <1>2, ShellFacts
<1>5. /\ tasks'[Depth] = <<>> /\ \A q \in Queue : q # Depth => tasks'[q] = tasks[q]
      /\ DOMAIN tasks[Depth] = {1}
  <2>1. Len(Tail(tasks[Depth])) = Len(tasks[Depth]) - 1 /\ Len(tasks[Depth]) \in Nat
    BY <1>4
  <2>2. Len(tasks[Depth]) = 1
    <3>1. Len(Tail(tasks[Depth])) = 0
      BY <1>4
    <3> QED BY <2>1, <3>1
  <2>3. DOMAIN tasks[Depth] = 1 .. Len(tasks[Depth])
    BY <1>4
  <2> QED BY <2>2, <2>3, <1>1, <1>2, <1>4
<1>6. Nest'
  <2>1. /\ pool = [i \in 1 .. QueuePoolLen - Depth |-> Depth + i]
        /\ \A i \in 1 .. Depth : stack[Boot][i].queue = i
        /\ base = 1
        /\ \A q \in Queue : preemptor[q] \in {Null, 2} /\ (preemptor[q] = 2 => q <= Depth)
    BY <1>1, <1>4 DEF Nest
  <2>2. pool' = [i \in 1 .. QueuePoolLen - (Depth - 1) |-> (Depth - 1) + i]
    <3> DEFINE d == Depth
               p == pool
    <3>1. p \in Seq(Queue \cup {Null}) /\ <<d>> \in Seq(Queue \cup {Null}) /\ pool' = <<d>> \o p
      BY <1>1, <1>2, <1>4 DEF IrqTypeOK
    <3>2. DOMAIN p = 1 .. QueuePoolLen - d /\ \A i \in 1 .. QueuePoolLen - d : p[i] = d + i
      BY <2>1
    <3>3. d \in 1 .. 2 /\ QueuePoolLen \in Nat /\ QueuePoolLen > 1
      BY <1>1, <1>4
    <3> HIDE DEF p, d
    <3>4. Len(p) = QueuePoolLen - d
      <4>1. DOMAIN p = 1 .. Len(p) /\ Len(p) \in Nat
        BY <3>1
      <4>2. QueuePoolLen - d \in Nat
        BY <3>3
      <4> QED BY <4>1, <4>2, <3>2
    <3> DEFINE t == <<d>> \o p
    <3>5. /\ t \in Seq(Queue \cup {Null}) /\ Len(t) = 1 + Len(p)
          /\ t[1] = d /\ \A i \in 1 .. Len(p) : t[1 + i] = p[i]
      BY <3>1
    <3> HIDE DEF t
    <3>6. ASSUME NEW i \in 1 .. QueuePoolLen - (d - 1) PROVE t[i] = (d - 1) + i
      <4>1. CASE i = 1
        BY <4>1, <3>3, <3>5
      <4>2. CASE i # 1
        <5>1. i - 1 \in 1 .. QueuePoolLen - d /\ 1 + (i - 1) = i
          BY <4>2, <3>3
        <5>2. t[1 + (i - 1)] = p[i - 1] /\ p[i - 1] = d + (i - 1)
          BY <5>1, <3>2, <3>4, <3>5
        <5>3. d + (i - 1) = (d - 1) + i
          BY <3>3
        <5> QED BY <5>1, <5>2, <5>3
      <4> QED BY <4>1, <4>2
    <3>7. Len(t) = QueuePoolLen - (d - 1)
      BY <3>3, <3>4, <3>5
    <3>8. \A x \in Seq(Queue \cup {Null}) : x = [i \in 1 .. Len(x) |-> x[i]]
      OBVIOUS
    <3>9. t = [i \in 1 .. QueuePoolLen - (d - 1) |-> t[i]]
      BY <3>5, <3>7, <3>8
    <3>10. t = [i \in 1 .. QueuePoolLen - (d - 1) |-> (d - 1) + i]
      BY <3>6, <3>9
    <3> QED BY <3>1, <3>10 DEF t, d
  <2>3. \A i \in 1 .. Depth - 1 : stack'[Boot][i].queue = i
    BY <2>1, <1>3, <1>4
  <2>4. base' = IF Depth - 1 = 0 THEN Null ELSE 1
    BY <2>1, <1>2, <1>4
  <2>5. ASSUME NEW q \in Queue
        PROVE  preemptor'[q] \in {Null, 2} /\ (preemptor'[q] = 2 => q <= Depth - 1)
    <3>1. preemptor'[q] = IF q = Depth THEN Null ELSE preemptor[q]
      BY <1>1, <1>2, <1>4
    <3>2. preemptor[q] \in {Null, 2} /\ (preemptor[q] = 2 => q <= Depth) /\ q \in Nat
      BY <2>1 DEF Queue
    <3> QED BY <3>1, <3>2, <1>4 DEF Null
  <2>6. Depth - 1 \in 0 .. 2 /\ Depth - 1 # 2
    BY <1>4
  <2> QED BY <2>2, <2>3, <2>4, <2>5, <2>6, <1>3 DEF Nest
<1>7. Ordered'
  <2>1. DOMAIN tasks'[Depth] = {} /\ Depth' # 2
    BY <1>3, <1>4, <1>5
  <2>2. \A i, j \in DOMAIN tasks'[1] : i < j /\ tasks'[1][i] = "uart" => tasks'[1][j] = "uart"
    <3>1. CASE Depth = 1
      BY <3>1, <2>1
    <3>2. CASE Depth # 1
      BY <3>2, <1>1, <1>4, <1>5 DEF Ordered
    <3> QED BY <3>1, <3>2
  <2> QED BY <2>1, <2>2 DEF Ordered
<1>8. Attended'
  <2>1. ASSUME NEW t, Waits(t) PROVE Waits(t)'
    <3>1. PICK k \in 1 .. Depth : \E i \in DOMAIN tasks[k] :
             tasks[k][i] = t /\ (i = 1 => stack[Boot][k].at # "end")
      BY <2>1 DEF Waits
    <3>2. k # Depth
      BY <3>1, <1>4, <1>5
    <3>3. k \in 1 .. Depth - 1 /\ k \in Queue
      BY <3>1, <3>2, <1>1, <1>4
    <3> QED BY <3>1, <3>2, <3>3, <1>3, <1>5 DEF Waits
  <2> QED BY <2>1, <1>1, <1>2 DEF Attended, Pending, NullIsLow
<1>9. ASSUME NullIsLow PROVE spare' + leaked' + Cardinality(Queued') = TaskPoolLen
  <2>1. IrqTypeOK /\ IrqTypeOK'
    BY QueueDoneKeeps DEF QInv
  <2>2. leaked' = leaked /\ spare + leaked + Cardinality(Queued) = TaskPoolLen
    BY <1>1, <1>2, <1>9
  <2> QED BY <2>1, <2>2, <1>3, SumKept
<1> QED BY <1>2, <1>6, <1>7, <1>8, <1>9 DEF Shell, NullIsLow

\* No queue moves and no task comes or goes.
LEMMA ShellStill ==
  ASSUME Shell, cur = Boot, Boot \in Context, SameFrames, Attended',
         DOMAIN stack[Boot] = 1 .. Depth,
         UNCHANGED <<cur, tasks, preemptor, pool, spare, base, leaked, nullPriority>>
  PROVE  Shell'
<1>1. Depth' = Depth /\ \A i \in 1 .. Depth : stack'[Boot][i].queue = stack[Boot][i].queue
  BY DEF SameFrames, Depth
<1>2. Nest'
  BY <1>1 DEF Shell, Nest
<1>3. Ordered'
  BY <1>1 DEF Shell, Ordered
<1>4. Queued' = Queued
  BY DEF Queued
<1> QED BY <1>2, <1>3, <1>4 DEF Shell, NullIsLow

\* An unknown interrupt takes a task and nothing else.
LEMMA ShellUnknown ==
  ASSUME QInv, Shell, Unknown
  PROVE  Shell'
<1>1. /\ spare' = spare - 1 /\ leaked' = leaked + 1 /\ spare \in Nat /\ leaked \in Nat
      /\ UNCHANGED <<cur, stack, tasks, preemptor, pool, base, masked, events, started, nullPriority>>
  BY DEF QInv, IrqTypeOK, Unknown
<1>2. Cardinality(Queued) \in Nat /\ Queued' = Queued
  BY <1>1, PlacesAreFinite DEF Queued
<1>3. Nest' /\ Ordered' /\ Attended'
  BY <1>1 DEF Shell, Nest, Ordered, Attended, Waits, Pending, NullIsLow, Depth
<1>4. NullIsLow' => spare' + leaked' + Cardinality(Queued') = TaskPoolLen
  BY <1>1, <1>2 DEF Shell, NullIsLow
<1> QED BY <1>3, <1>4 DEF Shell

\* The steps of the handlers, of the timer's callbacks and of the shell's commands.
LEMMA ShellQuiet ==
  ASSUME QInv, Shell, InShell, InShell', Quiet
  PROVE  Shell'
<1>1. /\ cur = Boot /\ cur' = Boot
      /\ Nest /\ Attended /\ IrqTypeOK /\ Boot \in Context
      /\ DOMAIN stack[Boot] = 1 .. Depth
      /\ Depth > 0 => Depth \in 1 .. Depth /\ Top = stack[Boot][Depth] /\ Top.queue = Depth
      /\ \A k \in 1 .. Depth : Head(tasks[k]) = tasks[k][1]
      /\ masked \subseteq Source
  BY ShellFacts DEF Shell, QInv, IrqTypeOK, InShell
<1>2. CASE HandlerEnd
  <2>1. /\ Depth > 0 /\ Top.at = "handler" /\ SetTop("end")
        /\ masked' = IF Head(tasks[Top.queue]) = "timer" /\ ~Pending
                     THEN masked ELSE masked \ {Head(tasks[Top.queue])}
        /\ UNCHANGED <<cur, tasks, preemptor, pool, spare, base, events, started, leaked, nullPriority>>
    BY <1>2 DEF HandlerEnd, Running
  <2>2. SameFrames /\ \A k \in 1 .. Depth :
           stack'[Boot][k].at = IF k = Depth THEN "end" ELSE stack[Boot][k].at
    BY <2>1, <1>1, SetTopKeeps
  <2>3. Depth' = Depth /\ Pending' = Pending /\ NullIsLow' = NullIsLow
    BY <2>1, <2>2, <1>1 DEF SameFrames, Depth, Pending, NullIsLow
  <2>4. ASSUME NEW t \in masked' PROVE Waits(t)' \/ (t = "timer" /\ (~ Pending' \/ ~ NullIsLow'))
    <3>1. t \in masked
      BY <2>1
    <3>2. Waits(t) \/ (t = "timer" /\ (~ Pending \/ ~ NullIsLow))
      BY <3>1, <1>1 DEF Attended
    <3>3. ASSUME Waits(t), ~ (t = "timer" /\ ~ Pending) PROVE Waits(t)'
      <4>1. PICK k \in 1 .. Depth : \E i \in DOMAIN tasks[k] :
               tasks[k][i] = t /\ (i = 1 => stack[Boot][k].at # "end")
        BY <3>3 DEF Waits
      <4>2. PICK i \in DOMAIN tasks[k] : tasks[k][i] = t /\ (i = 1 => stack[Boot][k].at # "end")
        BY <4>1
      <4>3. t # Head(tasks[Depth])
        BY <3>3, <2>1, <1>1
      <4>4. ~ (k = Depth /\ i = 1)
        BY <4>2, <4>3, <1>1
      <4> QED BY <4>2, <4>4, <2>1, <2>2, <2>3 DEF Waits
    <3> QED BY <3>2, <3>3, <2>3
  <2>5. Attended'
    BY <2>4 DEF Attended
  <2> QED BY <2>1, <2>2, <2>5, <1>1, ShellStill
<1>3. CASE FireSwitch
  <2>1. /\ Depth > 0 /\ SetTop("base") /\ "base" \in Stage
        /\ masked' \subseteq masked
        /\ UNCHANGED <<cur, tasks, preemptor, pool, spare, base, events, started, leaked, nullPriority>>
    BY <1>3 DEF FireSwitch, InTimer, Running, Stage
  <2>2. SameFrames /\ \A k \in 1 .. Depth : stack[Boot][k].at # "end" => stack'[Boot][k].at # "end"
    BY <2>1, <1>1, SetTopKeeps
  <2>3. Depth' = Depth /\ Pending' = Pending /\ NullIsLow' = NullIsLow
    BY <2>1, <2>2, <1>1 DEF SameFrames, Depth, Pending, NullIsLow
  <2>4. ASSUME NEW t, Waits(t) PROVE Waits(t)'
    BY <2>4, <2>1, <2>2, <2>3 DEF Waits
  <2>5. Attended'
    BY <2>1, <2>3, <2>4, <1>1 DEF Attended
  <2> QED BY <2>1, <2>2, <2>5, <1>1, ShellStill
<1>4. CASE Fire \/ FireTick \/ AddEvent \/ ClearEvents \/ StartProgram \/ LeaveShell
  <2>1. UNCHANGED <<cur, stack, tasks, preemptor, pool, spare, base, leaked, nullPriority>>
    BY <1>4 DEF Fire, FireTick, AddEvent, ClearEvents, StartProgram, LeaveShell
  <2>2. SameFrames
    BY <2>1, <1>1 DEF SameFrames, IrqTypeOK
  <2>3. ASSUME NEW t, Waits(t) PROVE Waits(t)'
    BY <2>3, <2>1 DEF Waits, Depth
  <2>4. ASSUME NEW t \in masked' PROVE Waits(t)' \/ (t = "timer" /\ (~ Pending' \/ ~ NullIsLow'))
    <3>0. NullIsLow' = NullIsLow
      BY <2>1 DEF NullIsLow
    <3>1. CASE Fire
      <4>1. t \in masked /\ Pending
        BY <3>1 DEF Fire, Pending
      <4> QED BY <3>0, <4>1, <2>3, <1>1 DEF Attended
    <3>2. CASE FireTick \/ AddEvent \/ StartProgram
      <4>1. t \in masked /\ t # "timer"
        BY <3>2 DEF FireTick, AddEvent, StartProgram
      <4> QED BY <4>1, <2>3, <1>1 DEF Attended
    <3>3. CASE ClearEvents
      <4>1. started' = started /\ ~ started
            /\ masked' = IF events' = 0 THEN masked \cup {"timer"} ELSE masked \ {"timer"}
        BY <3>3 DEF ClearEvents
      <4>2. CASE t = "timer"
        BY <4>1, <4>2 DEF Pending
      <4>3. CASE t # "timer"
        BY <4>1, <4>3, <2>3, <1>1 DEF Attended
      <4> QED BY <4>2, <4>3
    <3>4. CASE LeaveShell
      <4>1. t \in masked /\ Pending' = Pending
        BY <3>4 DEF LeaveShell, Pending
      <4> QED BY <3>0, <4>1, <2>3, <1>1 DEF Attended
    <3> QED BY <1>4, <3>1, <3>2, <3>3, <3>4
  <2>5. Attended'
    BY <2>4 DEF Attended
  <2> QED BY <2>1, <2>2, <2>5, <1>1, ShellStill
<1>5. ~ (Die \/ Kill)
  BY <1>1 DEF Die, Kill
<1>6. ~ (Depth > 0 /\ Top.at \in {"timer", "uart", "switch", "back"})
  BY <1>1 DEF InShell, Frames
<1>7. ~ GoOn
  BY <1>6 DEF GoOn, Running
<1>8. ~ SwitchTo
  BY <1>1 DEF SwitchTo, Chooses
<1>9. leaving[Boot] \in {"no", "base"} /\ leaving'[Boot] \in {"no", "base"}
      /\ leaving \in [Context -> {"no"} \cup Stage]
  BY <1>1 DEF InShell, IrqTypeOK
<1>10. ~ (SwapTimerMask \/ SwapUartMask)
  BY <1>1, <1>6, <1>9 DEF SwapTimerMask, SwapUartMask, SwapMask, At, Running
<1>11. ASSUME SwapBase PROVE FALSE
  <2>1. CASE Running("base")
    <3>1. SetTop("timer") /\ Depth > 0 /\ "timer" \in Stage
      BY <1>11, <2>1 DEF SwapBase, GoesTo, Running, Stage
    <3>2. SameFrames /\ stack'[Boot][Depth].at = "timer"
      BY <3>1, <1>1, SetTopKeeps
    <3>3. stack'[Boot][Depth] \in Frames(Boot)'
      BY <3>1, <3>2, <1>1 DEF SameFrames, Frames
    <3> QED BY <3>2, <3>3 DEF InShell
  <2>2. CASE ~ Running("base")
    <3>1. leaving' = [leaving EXCEPT ![cur] = "timer"]
      BY <1>11, <2>2 DEF SwapBase, GoesTo
    <3> QED BY <3>1, <1>1, <1>9
  <2> QED BY <2>1, <2>2
<1> QED BY <1>2, <1>3, <1>4, <1>5, <1>7, <1>8, <1>10, <1>11 DEF Quiet, Scheduling

\* schedule() leaves the shell for good.
LEMMA ShellBefore ==
  ASSUME QInv, ShellInv, [INext]_ivars
  PROVE  /\ InShell' => InShell
         /\ cur' = Boot => \A f \in Frames(Boot)' : f.at # "back"
<1> DEFINE Early == {"handler", "base", "end"}
<1>1. /\ IrqTypeOK /\ Boot \in Context /\ stack[Boot] \in Seq(Frame)
      /\ DOMAIN stack[Boot] = 1 .. Len(stack[Boot]) /\ Len(stack[Boot]) \in Nat
      /\ leaving \in [Context -> {"no"} \cup Stage] /\ Boot \notin dead
      /\ cur = Boot => Depth = Len(stack[Boot]) /\ Top = stack[Boot][Depth]
      /\ Stage = {"base", "timer", "uart", "switch"}
  BY InterruptsAssumption DEF QInv, IrqTypeOK, Depth, Top, Stage
<1>2. CASE cur # Boot
  <2>1. cur' # Boot
    <3>1. CASE Scheduling
      BY <3>1, <1>1, <1>2, SchedulingMoves
    <3>2. CASE ~ Scheduling
      BY <3>2, <1>2 DEF INext, ivars, Scheduling, Irq, Unknown, NoTask, HandlerEnd, TaskDone, Fire, FireTick,
         FireSwitch, AddEvent, ClearEvents, StartProgram, GoOn, LeaveShell, Die, Kill, Reap
    <3> QED BY <3>1, <3>2
  <2> QED BY <2>1 DEF InShell
<1>3. ASSUME cur = Boot, cur' = Boot
      PROVE  /\ \A i \in DOMAIN stack'[Boot] : stack'[Boot][i].at # "back"
             /\ (\A i \in DOMAIN stack'[Boot] : stack'[Boot][i].at \in Early)
                   => \A i \in DOMAIN stack[Boot] : stack[Boot][i].at \in Early
  <2>0. \A i \in DOMAIN stack[Boot] : stack[Boot][i].at # "back"
    BY <1>3 DEF ShellInv, Frames
  <2>1. CASE stack' = stack
    BY <2>0, <2>1
  <2>2. ASSUME Depth > 0, NEW at \in {"handler", "end"} \cup Stage, SetTop(at),
               Top.at \in Early \/ at \notin Early
        PROVE  /\ \A i \in DOMAIN stack'[Boot] : stack'[Boot][i].at # "back"
               /\ (\A i \in DOMAIN stack'[Boot] : stack'[Boot][i].at \in Early)
                     => \A i \in DOMAIN stack[Boot] : stack[Boot][i].at \in Early
    <3>1. /\ DOMAIN stack'[Boot] = DOMAIN stack[Boot] /\ Depth \in DOMAIN stack[Boot]
          /\ \A i \in DOMAIN stack[Boot] : stack'[Boot][i].at = IF i = Depth THEN at ELSE stack[Boot][i].at
      BY <1>1, <1>3, <2>2, SetTopKeeps DEF SameFrames
    <3> QED BY <3>1, <2>0, <2>2, <1>1, <1>3
  <2>3. CASE Scheduling
    <3>1. \/ stack' = stack
          \/ /\ Depth > 0
             /\ \E at \in Stage \ {"base"} : SetTop(at)
      BY <2>3, <1>1, <1>3, SchedulingMoves
    <3> QED BY <3>1, <2>1, <2>2, <1>1
  <2>4. CASE HandlerEnd
    BY <2>4, <2>2 DEF HandlerEnd, Running
  <2>5. CASE FireSwitch
    BY <2>5, <2>2, <1>1 DEF FireSwitch, InTimer, Running
  <2>6. CASE TaskDone
    <3>1. Depth > 0 /\ Top.at = "end"
      BY <2>6 DEF TaskDone, Running
    <3>2. CASE Tail(tasks[Top.queue]) # <<>>
      <4>1. SetTop("handler")
        BY <2>6, <3>2 DEF TaskDone
      <4> QED BY <3>1, <4>1, <2>2
    <3>3. CASE Tail(tasks[Top.queue]) = <<>>
      <4>1. /\ DOMAIN stack'[Boot] = 1 .. Depth - 1
            /\ \A i \in DOMAIN stack'[Boot] : i \in DOMAIN stack[Boot] /\ stack'[Boot][i] = stack[Boot][i]
        BY <2>6, <3>3, <1>1, <1>3, QueueDoneKeeps
      <4>2. ASSUME NEW i \in DOMAIN stack[Boot] PROVE i \in DOMAIN stack'[Boot] \/ stack[Boot][i].at = "end"
        <5>1. i \in 1 .. Depth - 1 \/ i = Depth
          BY <1>1, <1>3
        <5> QED BY <5>1, <4>1, <3>1, <1>1, <1>3
      <4> QED BY <4>1, <4>2, <2>0
    <3> QED BY <3>2, <3>3
  <2>7. ASSUME NEW s \in Source, Irq(s), stack' # stack
        PROVE  /\ \A i \in DOMAIN stack'[Boot] : stack'[Boot][i].at # "back"
               /\ (\A i \in DOMAIN stack'[Boot] : stack'[Boot][i].at \in Early)
                     => \A i \in DOMAIN stack[Boot] : stack[Boot][i].at \in Early
    <3> DEFINE fr == [queue |-> QueryQueue, at |-> "handler"]
               z == stack[Boot]
    <3>1. stack' = [stack EXCEPT ![Boot] = Append(@, fr)]
      BY <2>7, <1>3 DEF Irq
    <3>2. stack'[Boot] = Append(z, fr) /\ fr.at = "handler"
      BY <3>1, <1>1 DEF IrqTypeOK
    <3>3. z \in Seq(Frame)
      BY <1>1
    <3> HIDE DEF fr, z
    <3>4. /\ DOMAIN Append(z, fr) = DOMAIN z \cup {Len(z) + 1}
          /\ Append(z, fr)[Len(z) + 1] = fr
          /\ \A i \in DOMAIN z : Append(z, fr)[i] = z[i]
      BY <3>3
    <3> QED BY <3>2, <3>4, <2>0 DEF z
  <2>8. ~ GoOn
    <3>1. Depth > 0 => Depth \in DOMAIN stack[Boot]
      BY <1>1, <1>3
    <3> QED BY <3>1, <2>0, <1>1, <1>3 DEF GoOn, Running
  <2>9. ASSUME stack' # stack
        PROVE  \/ Scheduling \/ HandlerEnd \/ FireSwitch \/ TaskDone
               \/ \E s \in Source : Irq(s)
    BY <2>8, <2>9 DEF INext, ivars, Scheduling, Unknown, NoTask, Fire, FireTick,
       AddEvent, ClearEvents, StartProgram, LeaveShell, Die, Kill, Reap
  <2> QED BY <2>1, <2>3, <2>4, <2>5, <2>6, <2>7, <2>9
<1>4. ASSUME cur = Boot, cur' = Boot, leaving'[Boot] \in {"no", "base"}
      PROVE  leaving[Boot] \in {"no", "base"}
  <2>1. CASE Scheduling
    BY <2>1, <1>1, <1>4, SchedulingMoves
  <2>2. CASE LeaveShell
    BY <2>2 DEF LeaveShell
  <2>3. ~ Die
    BY <1>4 DEF Die
  <2>4. CASE leaving' = leaving
    BY <2>4, <1>4
  <2>5. Scheduling \/ LeaveShell \/ Die \/ leaving' = leaving
    BY DEF INext, ivars, Scheduling, Irq, Unknown, NoTask, HandlerEnd, TaskDone, Fire, FireTick,
       FireSwitch, AddEvent, ClearEvents, StartProgram, GoOn, Kill, Reap
  <2> QED BY <2>1, <2>2, <2>3, <2>4, <2>5
<1>5. CASE cur = Boot /\ cur' # Boot
  BY <1>5 DEF InShell
<1>6. CASE cur = Boot /\ cur' = Boot
  BY <1>3, <1>4, <1>6 DEF InShell, Frames
<1> QED BY <1>2, <1>5, <1>6

LEMMA ShellNext ==
  ASSUME QInv, ShellInv, [INext]_ivars
  PROVE  ShellInv'
<1>1. ASSUME InShell' PROVE Shell'
  <2>1. InShell /\ Shell /\ cur = Boot
    BY <1>1, ShellBefore DEF ShellInv, InShell
  <2>2. ASSUME NEW s \in Source, Irq(s) PROVE Shell'
    BY <2>1, <2>2, ShellInsert, ShellBegin, ShellLost
  <2>3. CASE TaskDone
    BY <2>1, <2>3, ShellNextTask, ShellQueueDone
  <2>4. CASE Quiet
    BY <2>1, <2>4, <1>1, ShellQuiet
  <2>5. ~ Reap
    BY <2>1, InterruptsAssumption DEF Reap
  <2>6. CASE Unknown
    BY <2>1, <2>6, ShellUnknown
  <2>7. CASE NoTask \/ UNCHANGED ivars
    <3>1. UNCHANGED ivars
      BY <2>7 DEF NoTask
    <3>2. /\ cur' = cur /\ stack' = stack /\ tasks' = tasks /\ preemptor' = preemptor /\ pool' = pool
          /\ spare' = spare /\ base' = base /\ masked' = masked /\ events' = events
          /\ started' = started /\ leaked' = leaked /\ nullPriority' = nullPriority
      BY <3>1 DEF ivars
    <3>3. Nest' /\ Ordered'
      BY <2>1, <3>2 DEF Shell, Nest, Ordered, Depth
    <3>4. Attended'
      BY <2>1, <3>2 DEF Shell, Attended, Waits, Pending, NullIsLow, Depth
    <3>5. NullIsLow' => spare' + leaked' + Cardinality(Queued') = TaskPoolLen
      BY <2>1, <3>2 DEF Shell, NullIsLow, Queued
    <3> QED BY <3>3, <3>4, <3>5 DEF Shell
  <2> QED BY <2>2, <2>3, <2>4, <2>5, <2>6, <2>7 DEF INext, Quiet, Scheduling
<1> QED BY <1>1, ShellBefore DEF ShellInv

LEMMA ShellInit == IInit => ShellInv
<1> SUFFICES ASSUME IInit PROVE Shell /\ Frames(Boot) = {}
  BY DEF ShellInv
<1>1. Depth = 0 /\ QueuePoolLen \in Nat /\ QueuePoolLen > 1 /\ TaskPoolLen \in Nat
      /\ 1 \in Queue /\ 2 \in Queue
  BY InterruptsAssumption DEF IInit, Depth, Queue
<1>2. Nest
  BY <1>1 DEF IInit, Nest, Queue, Null
<1>3. Ordered
  BY <1>1 DEF IInit, Ordered
<1>4. Attended
  BY DEF IInit, Attended, Pending
<1>5. spare + leaked + Cardinality(Queued) = TaskPoolLen
  <2>1. Queued = {}
    BY DEF IInit, Queued
  <2> QED BY <2>1, <1>1, FS_EmptySet DEF IInit
<1>6. Frames(Boot) = {}
  BY InterruptsAssumption DEF IInit, Frames
<1> QED BY <1>2, <1>3, <1>4, <1>5, <1>6 DEF Shell

\* What the shell's invariant says.
LEMMA ShellProperties ==
  ASSUME QInv, ShellInv
  PROVE  /\ ShellHandledOnce /\ ShellNoInversion
         /\ ShellServed /\ TasksConserved
<1> SUFFICES ASSUME InShell
             PROVE  /\ \A s \in Source : Cardinality(Begun(Boot, s)) <= 1
                    /\ Depth > 0 => \A f \in Frames(Boot) : \A i \in DOMAIN tasks[f.queue] :
                          Priority[Head(tasks[Top.queue])] >= Priority[tasks[f.queue][i]]
                    /\ Served /\ (NullIsLow => spare + leaked + Cardinality(Queued) = TaskPoolLen)
  BY DEF ShellServed, ShellHandledOnce, ShellNoInversion, TasksConserved, NullIsLow
<1>1. /\ Nest /\ Ordered /\ Attended /\ (NullIsLow => spare + leaked + Cardinality(Queued) = TaskPoolLen)
      /\ cur = Boot
  BY DEF ShellInv, Shell, InShell
<1>2. /\ Depth \in 0 .. 2 /\ DOMAIN stack[Boot] = 1 .. Depth
      /\ Depth > 0 => Depth \in 1 .. Depth /\ Top.queue = Depth
      /\ \A k \in 1 .. Depth : /\ tasks[k] \in Seq(Source) /\ 1 \in DOMAIN tasks[k]
                               /\ Head(tasks[k]) = tasks[k][1]
  BY <1>1, ShellFacts
<1>3. \A k \in 1 .. Depth : stack[Boot][k].queue = k
  BY <1>1 DEF Nest
<1>4. Served
  <2>1. ASSUME NEW s, Waits(s) PROVE Waiting(s)
    <3>1. PICK k \in 1 .. Depth : \E i \in DOMAIN tasks[k] :
             tasks[k][i] = s /\ (i = 1 => stack[Boot][k].at # "end")
      BY <2>1 DEF Waits
    <3>2. stack[Boot][k] \in Frames(cur) /\ stack[Boot][k].queue = k
      BY <1>1, <1>2, <1>3 DEF Frames
    <3> QED BY <3>1, <3>2 DEF Waiting
  <2>2. ~ NullIsLow => nullPriority >= Priority["timer"]
    <3>1. nullPriority \in {0, 1, 2} /\ Priority["timer"] = 2
      BY DEF QInv, IrqTypeOK, Priority, Source
    <3> QED BY <3>1 DEF NullIsLow
  <2> QED BY <2>1, <2>2, <1>1 DEF Served, Attended
<1>5. ASSUME NEW s \in Source PROVE Cardinality(Begun(Boot, s)) <= 1
  <2>1. \A k \in Begun(Boot, s) : k \in 1 .. Depth /\ tasks[k][1] = s
    BY <1>2, <1>3 DEF Begun
  <2>2. ~ (1 \in Begun(Boot, s) /\ 2 \in Begun(Boot, s))
    <3>1. Depth = 2 => tasks[1][1] = "uart" /\ tasks[2][1] = "timer"
      BY <1>1, <1>2 DEF Ordered
    <3> QED BY <2>1, <3>1, <1>2
  <2>3. Begun(Boot, s) = {} \/ Begun(Boot, s) = {1} \/ Begun(Boot, s) = {2}
    <3>1. \A k \in Begun(Boot, s) : k = 1 \/ k = 2
      BY <2>1, <1>2
    <3> QED BY <3>1, <2>2
  <2>4. Cardinality({}) = 0 /\ Cardinality({1}) = 1 /\ Cardinality({2}) = 1
    BY FS_EmptySet, FS_Singleton
  <2>5. Cardinality(Begun(Boot, s)) = 0 \/ Cardinality(Begun(Boot, s)) = 1
    BY <2>3, <2>4, Zenon
  <2> QED BY <2>5
<1>6. ASSUME Depth > 0, NEW f \in Frames(Boot), NEW i \in DOMAIN tasks[f.queue]
      PROVE  Priority[Head(tasks[Top.queue])] >= Priority[tasks[f.queue][i]]
  <2>1. PICK k \in 1 .. Depth : f.queue = k
    BY <1>2, <1>3 DEF Frames
  <2>2. tasks[k][i] \in Source /\ tasks[Depth][1] \in Source /\ i \in DOMAIN tasks[k] /\ i \in Nat /\ i > 0
    BY <2>1, <1>2, <1>6
  <2>3. Priority["uart"] = 1 /\ Priority["timer"] = 2 /\ Source = {"uart", "timer"}
    BY DEF Priority, Source
  <2>4. tasks[Depth][1] = "timer" \/ tasks[k][i] = "uart"
    <3>1. CASE Depth = 2
      BY <3>1, <1>1, <1>2 DEF Ordered
    <3>2. CASE Depth = 1
      <4>1. k = 1 /\ (i = 1 \/ 1 < i)
        BY <3>2, <2>2
      <4> QED BY <4>1, <3>2, <2>2, <2>3, <1>1, <1>2 DEF Ordered
    <3> QED BY <3>1, <3>2, <1>2, <1>6
  <2>5. Priority[tasks[Depth][1]] >= Priority[tasks[k][i]]
    BY <2>2, <2>3, <2>4
  <2>6. Head(tasks[Top.queue]) = tasks[Depth][1]
    BY <1>2, <1>6
  <2> QED BY <2>1, <2>5, <2>6
<1> QED BY <1>1, <1>4, <1>5, <1>6
-----------------------------------------------------------------------------
(* The theorems. *)

\* A queue object is in the pool or under one activation of exec_queue, and the
\* tasks queued are no more than were taken, in every reachable state: exec_queue
\* gives back the queue it took and no other, whatever nests, switches or dies.
THEOREM QueuesKept == ISpec => []QInv
<1> QED BY QInitInv, QNextInv, PTL DEF ISpec

\* Every pointer of the interrupt code is NULL or points into its pool.
THEOREM IrqTypeCorrect == ISpec => []IrqTypeOK
<1>1. QInv => IrqTypeOK
  BY DEF QInv
<1> QED BY <1>1, QueuesKept, PTL

\* No queue is in the pool twice, nor in it and executed, nor executed by two
\* activations (query_queue, free_queue and exec_queue).
THEOREM EveryQueueInOnePlace == ISpec => []QueuesInOnePlace
<1> QED BY QueuesKept, PlacesOfQueues, PTL

\* Before the first context switch the activations are none, one, or the timer's
\* inside the UART's, and their queues come from the pool and go back in order.
THEOREM ShellNests == ISpec => []ShellInv
<1>1. QInv /\ ShellInv /\ [INext]_ivars => ShellInv'
  BY ShellNext
<1> QED BY <1>1, ShellInit, QueuesKept, PTL DEF ISpec

\* No handler begins before the last one of its source has ended.
THEOREM ShellIsHandledOnce == ISpec => []ShellHandledOnce
<1>1. QInv /\ ShellInv => ShellHandledOnce
  BY ShellProperties
<1> QED BY <1>1, QueuesKept, ShellNests, PTL

\* The task that runs has the highest priority of all (enqueue_task and exec_queue).
THEOREM ShellHasNoInversion == ISpec => []ShellNoInversion
<1>1. QInv /\ ShellInv => ShellNoInversion
  BY ShellProperties
<1> QED BY <1>1, QueuesKept, ShellNests, PTL

\* A masked source has a task that waits or is handled, or is a timer with nothing
\* to wait for, or one whose task met a freed queue where the word at address 40 is
\* not below TIMER: irq_handler masks no source for good but there, and the UART
\* never.  No value of that word is assumed.
THEOREM ShellIsServed == ISpec => []ShellServed
<1>1. QInv /\ ShellInv => ShellServed
  BY ShellProperties
<1> QED BY <1>1, QueuesKept, ShellNests, PTL

\* A task is in the pool, in the queue of an activation, or was taken for an unknown
\* interrupt: a queue object is there for every one that needs one, and where the
\* word at address 40 is below TIMER the loop of enqueue_task does not stop at one
\* that has been freed.
THEOREM TasksAreConserved == ISpec => []TasksConserved
<1>1. QInv /\ ShellInv => TasksConserved
  BY ShellProperties
<1> QED BY <1>1, QueuesKept, ShellNests, PTL
=============================================================================
