------------------------------ MODULE FrameQueue ------------------------------
(***************************************************************************)
(* What users of struct sk_buff_head rely on: each queue is a list of      *)
(* buffers, and skb_queue_len is its length.  A buffer is in one queue at  *)
(* most; its owner sees to that.                                           *)
(***************************************************************************)
EXTENDS Sequences, SequencesExt

CONSTANTS Heads, Buffers

VARIABLES list, length   \* [Heads -> Seq(Buffers)], [Heads -> Nat]

Free(b) == \A h \in Heads : b \notin ToSet(list[h])

Becomes(new) == list' = new /\ length' = [h \in Heads |-> Len(new[h])]

AddTail(h, b) == Free(b) /\ Becomes([list EXCEPT ![h] = Append(@, b)])
AddHead(h, b) == Free(b) /\ Becomes([list EXCEPT ![h] = <<b>> \o @])
Dequeue(h)    == list[h] # <<>> /\ Becomes([list EXCEPT ![h] = Tail(@)])
Unlink(h, b)  == \E i \in DOMAIN list[h] : list[h][i] = b /\ Becomes([list EXCEPT ![h] = RemoveAt(@, i)])
Splice(from, to) ==
    from # to /\ Becomes([list EXCEPT ![to] = @ \o list[from], ![from] = <<>>])

Init == list = [h \in Heads |-> <<>>] /\ length = [h \in Heads |-> 0]

Next ==
    \E h \in Heads :
        \/ Dequeue(h)
        \/ \E b \in Buffers : AddTail(h, b) \/ AddHead(h, b) \/ Unlink(h, b)
        \/ \E to \in Heads : Splice(h, to)

Spec == Init /\ [][Next]_<<list, length>>
=============================================================================
