------------------------------- MODULE TxStatus -------------------------------
(***************************************************************************)
(* The return of transmitted frames in src/mac80211.c: a driver calls      *)
(* ieee80211_tx_status_irqsafe, which hands the frame to a work on         *)
(* system_wq; the work frees the frame and itself.  The workqueue is taken *)
(* by its contract, which Workqueue implements: one work per frame, and    *)
(* lcompat_queue_work may refuse when the worker cannot be created.        *)
(***************************************************************************)
EXTENDS Naturals

CONSTANTS Frames,    \* sk_buffs that drivers have transmitted
          Contexts,  \* interrupt handlers and threads of drivers
          None

VARIABLES
    pending, running,  \* the contract's view of the works, named by frame
    worker,   \* the worker of system_wq has been created
    pc,       \* [c -> "idle", "alloc", "queue"]
    skb,      \* [c -> the frame of the call in progress]
    given,    \* frames for which a status was reported
    txs,      \* frames whose lcompat_tx_status_work is allocated
    freed,    \* [f -> how often the frame was freed]
    inCaller  \* history: frames freed by the call itself

vars == <<pending, running, worker, pc, skb, given, txs, freed, inCaller>>

Works == INSTANCE WorkContract WITH Works <- Frames

Goto(c, l) == pc' = [pc EXCEPT ![c] = l]

(* dev_kfree_skb_any                                                       *)
Free(f) == freed' = [freed EXCEPT ![f] = @ + 1]

-----------------------------------------------------------------------------
(* ieee80211_tx_status_irqsafe: a driver reports a frame once.             *)
TxStatusIrqsafe(c, f) ==
    /\ pc[c] = "idle" /\ f \notin given
    /\ given' = given \cup {f}
    /\ skb' = [skb EXCEPT ![c] = f]
    /\ Goto(c, "alloc")
    /\ UNCHANGED <<pending, running, worker, txs, freed, inCaller>>

AllocWork(c) ==
    /\ pc[c] = "alloc"
    /\ txs' = txs \cup {skb[c]}
    /\ Goto(c, "queue")
    /\ UNCHANGED <<pending, running, worker, skb, given, freed, inCaller>>

(* Without memory the frame is freed on the spot.                          *)
AllocFails(c) ==
    /\ pc[c] = "alloc"
    /\ Free(skb[c])
    /\ inCaller' = inCaller \cup {skb[c]}
    /\ Goto(c, "idle")
    /\ UNCHANGED <<pending, running, worker, skb, given, txs>>

QueueWork(c) ==
    /\ pc[c] = "queue"
    /\ Works!Accept(skb[c])
    /\ worker' = TRUE
    /\ Goto(c, "idle")
    /\ UNCHANGED <<skb, given, txs, freed, inCaller>>

(* Mutant: a refused work is freed, its frame forgotten.                   *)
QueueRefusedLeaks(c) ==
    /\ pc[c] = "queue" /\ ~worker
    /\ txs' = txs \ {skb[c]}
    /\ Goto(c, "idle")
    /\ UNCHANGED <<pending, running, worker, skb, given, freed, inCaller>>

(* queue_work refuses only while system_wq has no worker.                  *)
QueueRefused(c) ==
    /\ pc[c] = "queue" /\ ~worker
    /\ Free(skb[c])
    /\ inCaller' = inCaller \cup {skb[c]}
    /\ txs' = txs \ {skb[c]}
    /\ Goto(c, "idle")
    /\ UNCHANGED <<pending, running, worker, skb, given>>

(* The worker of system_wq.  Its function frees the frame and the work     *)
(* itself; the worker then clears the state of the work it ran.            *)
WorkStarts(f) ==
    /\ Works!Start(f)
    /\ UNCHANGED <<worker, pc, skb, given, txs, freed, inCaller>>

TxStatusWork(f) ==
    /\ f \in running /\ f \in txs
    /\ Free(f)
    /\ txs' = txs \ {f}
    /\ UNCHANGED <<pending, running, worker, pc, skb, given, inCaller>>

WorkFinishes(f) ==
    /\ f \notin txs
    /\ Works!Finish(f)
    /\ UNCHANGED <<worker, pc, skb, given, txs, freed, inCaller>>

-----------------------------------------------------------------------------
Init ==
    /\ Works!Init
    /\ worker = FALSE
    /\ pc = [c \in Contexts |-> "idle"]
    /\ skb = [c \in Contexts |-> None]
    /\ given = {} /\ txs = {} /\ inCaller = {}
    /\ freed = [f \in Frames |-> 0]

CallStep(c) == AllocWork(c) \/ AllocFails(c) \/ QueueWork(c) \/ QueueRefused(c)

WorkStep(f) == WorkStarts(f) \/ TxStatusWork(f) \/ WorkFinishes(f)

Next ==
    \/ \E c \in Contexts : CallStep(c) \/ \E f \in Frames : TxStatusIrqsafe(c, f)
    \/ \E f \in Frames : WorkStep(f)

Spec == Init /\ [][Next]_vars

-----------------------------------------------------------------------------
(* What the comment on the work function says of the transfer of           *)
(* ownership: it must not happen in the caller's immediate context.        *)
NotInCaller == inCaller = {}
=============================================================================
