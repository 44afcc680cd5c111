------------------------------- MODULE SkbQueue -------------------------------
(***************************************************************************)
(* The queues of src/include/linux/skbuff.h: a head with first, last and   *)
(* length, and buffers linked by `next`.  Each function is one step, under *)
(* the lock of its queue or called by its only user (the __ forms).        *)
(***************************************************************************)
EXTENDS Integers, Sequences, SequencesExt

CONSTANTS Heads,    \* struct sk_buff_head
          Buffers,  \* struct sk_buff
          Nil

ASSUME QueueAssumption == Nil \notin Buffers /\ IsFiniteSet(Buffers)

VARIABLES head, tail, qlen,  \* [Heads -> ...]
          link               \* skb->next

queueVars == <<head, tail, qlen, link>>

(* What a walk from the head meets, as in skb_queue_walk_safe; longer than *)
(* the number of buffers if it runs in a circle.                           *)
Walk(h) ==
    FoldLeft(LAMBDA w, i : IF w.at = Nil THEN w
                           ELSE [at |-> link[w.at], met |-> Append(w.met, w.at)],
             [at |-> head[h], met |-> <<>>],
             [i \in 1 .. Cardinality(Buffers) + 1 |-> i]).met

Unqueued(b) == \A h \in Heads : b \notin ToSet(Walk(h))

-----------------------------------------------------------------------------
(* __skb_queue_tail                                                        *)
skb_queue_tail(h, b) ==
    /\ Unqueued(b)
    /\ IF tail[h] # Nil
          THEN /\ link' = [link EXCEPT ![b] = Nil, ![tail[h]] = b]
               /\ UNCHANGED head
          ELSE /\ link' = [link EXCEPT ![b] = Nil]
               /\ head' = [head EXCEPT ![h] = b]
    /\ tail' = [tail EXCEPT ![h] = b]
    /\ qlen' = [qlen EXCEPT ![h] = @ + 1]

skb_queue_head(h, b) ==
    /\ Unqueued(b)
    /\ link' = [link EXCEPT ![b] = head[h]]
    /\ head' = [head EXCEPT ![h] = b]
    /\ tail' = [tail EXCEPT ![h] = IF @ = Nil THEN b ELSE @]
    /\ qlen' = [qlen EXCEPT ![h] = @ + 1]

(* __skb_dequeue, and with it one turn of skb_queue_purge.                 *)
skb_dequeue(h) ==
    /\ head[h] # Nil
    /\ head' = [head EXCEPT ![h] = link[head[h]]]
    /\ tail' = [tail EXCEPT ![h] = IF link[head[h]] = Nil THEN Nil ELSE @]
    /\ qlen' = [qlen EXCEPT ![h] = @ - 1]
    /\ link' = [link EXCEPT ![head[h]] = Nil]

(* Mutant: the last buffer is unlinked like any other.                     *)
UnlinkKeepsTail(h, b) ==
    LET before == {p \in ToSet(Walk(h)) : link[p] = b}
    IN IF b \notin ToSet(Walk(h))
          THEN UNCHANGED queueVars
          ELSE /\ IF before # {}
                     THEN /\ link' = [p \in Buffers |-> IF p \in before THEN link[b]
                                                        ELSE IF p = b THEN Nil ELSE link[p]]
                          /\ UNCHANGED head
                     ELSE /\ link' = [link EXCEPT ![b] = Nil]
                          /\ head' = [head EXCEPT ![h] = link[b]]
               /\ UNCHANGED tail
               /\ qlen' = [qlen EXCEPT ![h] = @ - 1]

(* __skb_unlink                                                            *)
skb_unlink(h, b) ==
    LET before == {p \in ToSet(Walk(h)) : link[p] = b}
    IN IF b \notin ToSet(Walk(h))
          THEN UNCHANGED queueVars
          ELSE /\ IF before # {}
                     THEN /\ link' = [p \in Buffers |-> IF p \in before THEN link[b]
                                                        ELSE IF p = b THEN Nil ELSE link[p]]
                          /\ UNCHANGED head
                     ELSE /\ link' = [link EXCEPT ![b] = Nil]
                          /\ head' = [head EXCEPT ![h] = link[b]]
               /\ tail' = [tail EXCEPT ![h] = IF @ # b THEN @
                                              ELSE IF before = {} THEN Nil
                                              ELSE CHOOSE p \in before : TRUE]
               /\ qlen' = [qlen EXCEPT ![h] = IF @ > 0 THEN @ - 1 ELSE 0]

(* skb_queue_splice_tail_init moves one buffer after the other; nobody     *)
(* else may touch the queues, so the whole loop is one step.               *)
skb_queue_splice_tail_init(from, to) ==
    LET moved == Walk(from)
    IN /\ from # to /\ moved # <<>>
       /\ link' = IF tail[to] = Nil THEN link ELSE [link EXCEPT ![tail[to]] = moved[1]]
       /\ head' = [head EXCEPT ![from] = Nil, ![to] = IF tail[to] = Nil THEN moved[1] ELSE @]
       /\ tail' = [tail EXCEPT ![from] = Nil, ![to] = moved[Len(moved)]]
       /\ qlen' = [qlen EXCEPT ![from] = @ - Len(moved), ![to] = @ + Len(moved)]

(* skb_queue_head_init                                                     *)
QueueInit ==
    /\ head = [h \in Heads |-> Nil] /\ tail = [h \in Heads |-> Nil]
    /\ qlen = [h \in Heads |-> 0]
    /\ link = [b \in Buffers |-> Nil]

QueueNext ==
    \E h \in Heads :
        \/ skb_dequeue(h)
        \/ \E b \in Buffers : skb_queue_tail(h, b) \/ skb_queue_head(h, b) \/ skb_unlink(h, b)
        \/ \E to \in Heads : skb_queue_splice_tail_init(h, to)

-----------------------------------------------------------------------------
List == INSTANCE FrameQueue WITH list <- [h \in Heads |-> Walk(h)], length <- qlen

(* However the operations follow each other, the links of a queue are the  *)
(* list its users think of: in order, complete, and counted.  A stale last *)
(* element would lose the buffers added after it.                          *)
IsAList == List!Spec
=============================================================================
