----------------------------- MODULE Ieee80211Tx -----------------------------
(***************************************************************************)
(* The way of a transmitted frame through src/mac80211.c: netdev_send      *)
(* builds it and hands it to the driver, directly or through the queue of  *)
(* the station or of the interface; the driver takes it from there,        *)
(* transmits it and reports its status, and TxStatus frees it.  Stations   *)
(* come and go with the connection, the queues with their owners.          *)
(*                                                                         *)
(* The native stack runs one send at a time, but a deauthentication, a     *)
(* driver that lost its access point or a new connection may come between  *)
(* two steps of it.                                                        *)
(***************************************************************************)
EXTENDS TxStatus, SequencesExt

CONSTANT MaxStations   \* bound on the stations of a behavior

ASSUME TxAssumption == MaxStations \in Nat /\ None \notin Frames

VARIABLES
    up,        \* rt->started
    viaQueue,  \* the driver has a wake_tx_queue
    station,   \* number of the station rt->sta, 0 for none
    stations,  \* stations allocated so far
    txq,       \* [q -> frames in the queue of q], 0 is the vif's own
    sender,    \* netdev_send in progress: its step, frame and queue
    atDriver,  \* frames the driver has
    sent,      \* history: frames built
    stranded   \* history: frames put into a queue that was freed

pathVars == <<up, viaQueue, station, stations, txq, sender, atDriver, sent, stranded>>
statusVars == <<pending, running, worker, pc, skb, given, txs, inCaller>>
txVars == <<pathVars, vars>>

Queues == 0 .. MaxStations
Idle   == [at |-> "idle", skb |-> None, queue |-> 0]

Frees(fs) == freed' = [f \in Frames |-> IF f \in fs THEN freed[f] + 1 ELSE freed[f]]

Same == UNCHANGED <<statusVars, freed>>

-----------------------------------------------------------------------------
(* lcompat_ieee80211_build_data_frame, and send_mgmt's builders, whose     *)
(* frames go straight to the driver.                                       *)
Build(f) ==
    /\ up /\ station # 0
    /\ sender = Idle
    /\ f \notin sent
    /\ sent' = sent \cup {f}
    /\ sender' = [at |-> "pick", skb |-> f, queue |-> 0]
    /\ UNCHANGED <<up, viaQueue, station, stations, txq, atDriver, stranded>> /\ Same

SendMgmt(f) ==
    /\ up /\ f \notin sent
    /\ sent' = sent \cup {f}
    /\ atDriver' = atDriver \cup {f}
    /\ UNCHANGED <<up, viaQueue, station, stations, txq, sender, stranded>> /\ Same

(* lcompat_netdev_send reads rt->sta for the queue.  It reads it twice: a  *)
(* station that goes between the test and the use, or while it is taken    *)
(* apart, is a fault of the program and not modelled, and otherwise the    *)
(* second read decides.                                                    *)
PickTxq ==
    /\ sender.at = "pick"
    /\ sender' = [sender EXCEPT !.at = "put", !.queue = station]
    /\ UNCHANGED <<up, viaQueue, station, stations, txq, atDriver, sent, stranded>> /\ Same

Exists(q) == q = 0 \/ q = station

(* ... and uses the queue: by now its station may have been freed.         *)
Put ==
    /\ sender.at = "put"
    /\ sender' = Idle
    /\ IF ~viaQueue
          THEN /\ atDriver' = atDriver \cup {sender.skb}
               /\ UNCHANGED <<txq, stranded>>
          ELSE /\ IF Exists(sender.queue)
                     THEN /\ txq' = [txq EXCEPT ![sender.queue] = Append(@, sender.skb)]
                          /\ UNCHANGED stranded
                     ELSE /\ stranded' = stranded \cup {sender.skb}
                          /\ UNCHANGED txq
               /\ UNCHANGED atDriver
    /\ UNCHANGED <<up, viaQueue, station, stations, sent>> /\ Same

(* ieee80211_tx_dequeue, by a driver that was woken.                       *)
TxDequeue(q) ==
    /\ up /\ txq[q] # <<>>
    /\ atDriver' = atDriver \cup {Head(txq[q])}
    /\ txq' = [txq EXCEPT ![q] = Tail(@)]
    /\ UNCHANGED <<up, viaQueue, station, stations, sender, sent, stranded>> /\ Same

(* ieee80211_free_txskb                                                    *)
DriverDrops(f) ==
    /\ f \in atDriver
    /\ atDriver' = atDriver \ {f}
    /\ Free(f)
    /\ UNCHANGED <<up, viaQueue, station, stations, txq, sender, sent, stranded>>
    /\ UNCHANGED statusVars

(* ieee80211_tx_status_irqsafe                                             *)
DriverReports(c, f) ==
    /\ f \in atDriver
    /\ atDriver' = atDriver \ {f}
    /\ TxStatusIrqsafe(c, f)
    /\ UNCHANGED <<up, viaQueue, station, stations, txq, sender, sent, stranded>>

-----------------------------------------------------------------------------
(* Mutant: the queue of a station is freed with what is in it.             *)
FreeStaAsIs ==
    /\ station # 0
    /\ txq' = [txq EXCEPT ![station] = <<>>]
    /\ station' = 0
    /\ UNCHANGED <<up, viaQueue, stations, sender, atDriver, sent, stranded>> /\ Same

(* lcompat_ieee80211_free_sta, in a disconnection, in a second association *)
(* or in removal, purges the queues of the station.                        *)
FreeSta ==
    /\ station # 0
    /\ Frees(ToSet(txq[station]))
    /\ txq' = [txq EXCEPT ![station] = <<>>]
    /\ station' = 0
    /\ UNCHANGED <<up, viaQueue, stations, sender, atDriver, sent, stranded>>
    /\ UNCHANGED statusVars

(* lcompat_ieee80211_alloc_sta                                             *)
AllocSta ==
    /\ up /\ station = 0
    /\ stations < MaxStations
    /\ stations' = stations + 1
    /\ station' = stations + 1
    /\ UNCHANGED <<up, viaQueue, txq, sender, atDriver, sent, stranded>> /\ Same

(* ieee80211_unregister_hw: the driver gives up its frames before stop     *)
(* returns, netdev_unregister waits for the send in progress, and free_vif *)
(* purges the queue of the interface.                                      *)
StopTx ==
    /\ up
    /\ atDriver = {}
    /\ up' = FALSE
    /\ UNCHANGED <<viaQueue, station, stations, txq, sender, atDriver, sent, stranded>> /\ Same

FreeVif ==
    /\ ~up /\ station = 0 /\ sender = Idle
    /\ txq[0] # <<>>
    /\ Frees(ToSet(txq[0]))
    /\ txq' = [txq EXCEPT ![0] = <<>>]
    /\ UNCHANGED <<up, viaQueue, station, stations, sender, atDriver, sent, stranded>>
    /\ UNCHANGED statusVars

StatusStep ==
    /\ \/ \E c \in Contexts : CallStep(c)
       \/ \E f \in Frames : WorkStep(f)
    /\ UNCHANGED pathVars

-----------------------------------------------------------------------------
TxInit ==
    /\ Init
    /\ up = TRUE /\ viaQueue \in BOOLEAN
    /\ station = 0 /\ stations = 0
    /\ txq = [q \in Queues |-> <<>>]
    /\ sender = Idle
    /\ atDriver = {} /\ sent = {} /\ stranded = {}

SendStep == PickTxq \/ Put

DriverStep ==
    \/ \E q \in Queues : TxDequeue(q)
    \/ \E f \in Frames : DriverDrops(f)
    \/ \E c \in Contexts, f \in Frames : DriverReports(c, f)

TxNext ==
    \/ \E f \in Frames : Build(f) \/ SendMgmt(f)
    \/ SendStep \/ DriverStep \/ StatusStep
    \/ FreeSta \/ AllocSta \/ StopTx \/ FreeVif

(* Calls go on, the driver serves its queues and reports its frames, the   *)
(* workqueue runs what it has accepted, and removal completes.             *)
TxFairness ==
    /\ WF_txVars(SendStep) /\ WF_txVars(DriverStep)
    /\ \A c \in Contexts : WF_txVars(CallStep(c) /\ UNCHANGED pathVars)
    /\ \A f \in Frames : WF_txVars(WorkStep(f) /\ UNCHANGED pathVars)
    /\ WF_txVars(~up /\ FreeSta) /\ WF_txVars(FreeVif)

TxSpec == TxInit /\ [][TxNext]_txVars /\ TxFairness

-----------------------------------------------------------------------------
Count(b) == IF b THEN 1 ELSE 0

(* Until it is freed a frame is held in exactly one place: by the send in  *)
(* progress, a queue, the driver, a status call or its work, or by a queue *)
(* that was freed under the send.  It is freed once.                       *)
FrameHasOneHolder ==
    \A f \in Frames :
        /\ Count(sender.skb = f)
           + Cardinality({q \in Queues : f \in ToSet(txq[q])})
           + Count(f \in atDriver)
           + Cardinality({c \in Contexts : pc[c] # "idle" /\ skb[c] = f})
           + Count(f \in pending \/ (f \in running /\ f \in txs))
           + Count(f \in stranded)
           + freed[f]  =  Count(f \in sent)

(* Every frame built is freed, unless a teardown came between the choice   *)
(* of a station's queue and its use.                                       *)
SentIsReleased == \A f \in Frames : f \in sent ~> freed[f] = 1 \/ f \in stranded
=============================================================================
