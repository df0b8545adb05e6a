----------------------------- MODULE SeqQueues -----------------------------
(***************************************************************************)
(* What lib/template/queue.c promises: first-in first-out sequences of     *)
(* nodes, a node being in one of them at most.                             *)
(***************************************************************************)
EXTENDS Sequences, SequencesExt

CONSTANTS Node, QueueName

VARIABLE content  \* the nodes of every queue, first in first

InQueue(q, n) == n \in ToSet(content[q])

SeqInit == content = [q \in QueueName |-> <<>>]

SeqPush(q, n) ==
    /\ \A r \in QueueName : ~ InQueue(r, n)
    /\ content' = [content EXCEPT ![q] = Append(@, n)]

SeqPop(q) ==
    /\ content[q] # <<>>
    /\ content' = [content EXCEPT ![q] = Tail(@)]

SeqErase(q, n) ==
    \E i \in DOMAIN content[q] :
        content[q][i] = n /\ content' = [content EXCEPT ![q] = RemoveAt(@, i)]

SeqNext == \E q \in QueueName :
              \/ SeqPop(q)
              \/ \E n \in Node : SeqPush(q, n) \/ SeqErase(q, n)

SeqSpec == SeqInit /\ [][SeqNext]_content
=============================================================================
