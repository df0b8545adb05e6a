----------------------------- MODULE ListQueue -----------------------------
(***************************************************************************)
(* A client that uses the queues of lib/template/queue.c as lib/thread     *)
(* does: it pushes a node that is in no queue and erases a node from the   *)
(* queue that holds it.  Under that discipline the links keep the promise  *)
(* of SeqQueues; Threads asks whether the kernel keeps the discipline.     *)
(***************************************************************************)
EXTENDS NodeQueue, SequencesExt

VARIABLE heap

Members(q) == ToSet(Contents(heap, q))

Loose(n) == \A q \in QueueName : n \notin Members(q)

QInit == heap = EmptyHeap

Push(q, n) == Loose(n) /\ heap' = QueuePush(heap, q, n)

\* A pop of an empty queue returns NULL and changes nothing.
Pop(q) == ~ QueueEmpty(heap, q) /\ heap' = QueuePop(heap, q)

Erase(q, n) == n \in Members(q) /\ heap' = QueueErase(heap, q, n)

QNext == \E q \in QueueName :
            \/ Pop(q)
            \/ \E n \in Node : Push(q, n) \/ Erase(q, n)

QSpec == QInit /\ [][QNext]_heap
-----------------------------------------------------------------------------
\* The two directions of every chain agree and end at the queue's two ends, so
\* a search from the front and an erase that reads prev see the same order.
ChainsAreSound ==
    \A q \in QueueName :
        LET c == Contents(heap, q)
        IN /\ Nil \notin ToSet(c)
           /\ Reachable(heap, q) = ToSet(c)
           /\ heap.back[q] = IF c = <<>> THEN Nil ELSE Last(c)
           /\ \A i \in DOMAIN c :
                 heap.prev[c[i]] = IF i = 1 THEN Nil ELSE c[i - 1]

\* queue_push on an empty queue leaves the node's links alone: it is right only
\* because every way out of a queue has cleared them.
LooseNodesAreUnlinked ==
    \A n \in Node : Loose(n) => heap.prev[n] = Nil /\ heap.next[n] = Nil

\* The queues are first-in first-out, lose no node and hold none twice.
AsSequences == INSTANCE SeqQueues WITH content <- [q \in QueueName |-> Contents(heap, q)]
KeepsOrder == AsSequences!SeqSpec
=============================================================================
