----------------------------- MODULE NodeQueue -----------------------------
(***************************************************************************)
(* The intrusive list of lib/template/list.c and the queue built on it,    *)
(* lib/template/queue.c, as operators on a heap h: h.prev and h.next are   *)
(* the two links of every node, h.front, h.back and h.size the fields of   *)
(* every queue.  Nothing records which queue a node is in: the operators   *)
(* do what the C functions do with whatever links they find.               *)
(***************************************************************************)
EXTENDS Integers, Sequences, FiniteSets

CONSTANTS Node,      \* the structures that embed a ListNode
          QueueName, \* the Queue variables
          Nil,       \* the NULL pointer
          SizeWrap   \* 2 to the width of size_t

ASSUME QueueAssumption ==
    /\ Nil \notin Node
    /\ SizeWrap \in Nat
    /\ IsFiniteSet(Node) /\ Cardinality(Node) < SizeWrap

Heap == [prev : [Node -> Node \cup {Nil}], next : [Node -> Node \cup {Nil}],
         front : [QueueName -> Node \cup {Nil}],
         back : [QueueName -> Node \cup {Nil}],
         size : [QueueName -> 0 .. SizeWrap - 1]]

\* node_init of every node and queue_init of every queue
EmptyHeap == [prev |-> [n \in Node |-> Nil], next |-> [n \in Node |-> Nil],
              front |-> [q \in QueueName |-> Nil],
              back |-> [q \in QueueName |-> Nil],
              size |-> [q \in QueueName |-> 0]]

NodeInit(h, n) == [h EXCEPT !.prev[n] = Nil, !.next[n] = Nil]

\* A link that is NULL is not followed; an update through it is skipped.
SetNext(h, n, x) == IF n = Nil THEN h ELSE [h EXCEPT !.next[n] = x]
SetPrev(h, n, x) == IF n = Nil THEN h ELSE [h EXCEPT !.prev[n] = x]

ListAdd(h, n, before, after) ==
    SetPrev(SetNext([h EXCEPT !.next[n] = after, !.prev[n] = before],
                    before, n), after, n)

\* Mutation: the removed node keeps its links.
ListRemoveWithoutInit(h, n) ==
    SetPrev(SetNext(h, h.prev[n], h.next[n]), h.next[n], h.prev[n])

ListRemove(h, n) ==
    NodeInit(SetPrev(SetNext(h, h.prev[n], h.next[n]), h.next[n], h.prev[n]), n)

QueueEmpty(h, q) == h.size[q] = 0

\* The links of a node pushed on an empty queue are left as they are.
QueuePush(h, q, n) ==
    LET h1 == IF QueueEmpty(h, q) THEN [h EXCEPT !.front[q] = n]
              ELSE ListAdd(h, n, h.back[q], Nil)
    IN [h1 EXCEPT !.back[q] = n, !.size[q] = (@ + 1) % SizeWrap]

\* The node queue_pop returns, and the heap it leaves.
QueueFront(h, q) == IF QueueEmpty(h, q) THEN Nil ELSE h.front[q]

QueuePop(h, q) ==
    LET f == h.front[q]
        h1 == IF f = Nil THEN h
              ELSE [ListRemove(h, f) EXCEPT !.front[q] = h.next[f]]
        h2 == [h1 EXCEPT !.size[q] = (@ - 1) % SizeWrap]
    IN IF QueueEmpty(h, q) THEN h
       ELSE IF h2.size[q] = 0 THEN [h2 EXCEPT !.back[q] = Nil] ELSE h2

\* Mutation: the back of the queue is not moved.
QueueEraseKeepsBack(h, q, n) ==
    IF n = h.front[q] THEN QueuePop(h, q)
    ELSE [ListRemove(h, n) EXCEPT !.size[q] = (@ - 1) % SizeWrap]

\* Mutation: the front of the queue is not moved.
QueueEraseKeepsFront(h, q, n) ==
    LET h1 == IF n = h.back[q] THEN [h EXCEPT !.back[q] = h.prev[n]] ELSE h
    IN [ListRemove(h1, n) EXCEPT !.size[q] = (@ - 1) % SizeWrap]

QueueErase(h, q, n) ==
    LET h1 == IF n = h.back[q] THEN [h EXCEPT !.back[q] = h.prev[n]] ELSE h
    IN IF n = h.front[q] THEN QueuePop(h, q)
       ELSE [ListRemove(h1, n) EXCEPT !.size[q] = (@ - 1) % SizeWrap]

\* The nodes of queue q in order: as many as its size counts, from its front.
\* Nil stands where the chain is shorter than the count.
Contents(h, q) ==
    LET walk[i \in 1 .. h.size[q]] ==
            IF i = 1 THEN h.front[q]
            ELSE IF walk[i - 1] = Nil THEN Nil ELSE h.next[walk[i - 1]]
    IN [i \in 1 .. h.size[q] |-> walk[i]]

\* The nodes a search meets: it follows the links to their end, not the size.
Reachable(h, q) ==
    LET walk[i \in 1 .. Cardinality(Node)] ==
            IF i = 1 THEN h.front[q]
            ELSE IF walk[i - 1] = Nil THEN Nil ELSE h.next[walk[i - 1]]
    IN IF QueueEmpty(h, q) THEN {}
       ELSE {walk[i] : i \in 1 .. Cardinality(Node)} \ {Nil}
=============================================================================
