----------------------------- MODULE Ieee80211Rx -----------------------------
(***************************************************************************)
(* Reception in src/mac80211.c: ieee80211_rx_irqsafe filters the frames of *)
(* the driver, splits A-MSDUs, turns data into Ethernet frames and queues  *)
(* them on rx_queue, which netdev_recv empties.                            *)
(*                                                                         *)
(* A received frame is a record: fc, a1, a2, a3 (addresses), len (bytes,   *)
(* FCS included if the hardware delivers it), bad (failed FCS or no PSDU), *)
(* amsdu (bit 7 of its QoS control field), htc (bit 7 of the third byte of *)
(* its HT control field) and msdus, the MSDUs as the sender laid them out. *)
(* An MSDU is a record: dst, src, snap, proto, len (bytes, LLC included)   *)
(* and memory, whether a buffer can be allocated when the MSDU is taken    *)
(* out of an A-MSDU.  A frame that is no A-MSDU has one MSDU.  The len of  *)
(* a frame may cut its MSDUs short.                                        *)
(***************************************************************************)
EXTENDS Ieee80211Header, SequencesExt

CONSTANTS
    RxFrames,  \* frames a driver may pass on first
    Later,     \* and the ones it may pass on after that
    MaxRx,     \* bound on the number of frames
    VifAddr,   \* rt->vif->addr
    Group,     \* multicast addresses
    BSSIDs,    \* access points the station may be connected to
    RxBuffers, \* buffer lengths the native stack reads with
    FCS,       \* BOOLEAN: RX_INCLUDES_FCS
    NoBss

ASSUME RxAssumption ==
    /\ MaxRx \in Nat
    /\ FCS \in BOOLEAN
    /\ NoBss \notin BSSIDs
    /\ \A f \in RxFrames \cup Later :
          /\ f.len \in Nat
          /\ f.msdus \in Seq(Range(f.msdus)) \ {<<>>}
          /\ \A m \in Range(f.msdus) : m.len \in Nat /\ m.memory \in BOOLEAN
          /\ f.amsdu => ieee80211_is_data_qos(f.fc)  \* the others have no such bit
          /\ f.htc => f.amsdu  \* no other body is read as an A-MSDU

VARIABLES
    bss,      \* connect_params.bssid while connected, else NoBss
    rxq,      \* rt->rx_queue
    arriving, \* Ethernet frames the running handler has still to queue
    got,      \* history: frames received that matched the connection
    count,    \* history: frames received
    taken     \* history: frames taken out by netdev_recv

rxVars == <<bss, rxq, arriving, got, count, taken>>

LlcSnapLen == 8
EthHdrLen  == 14
FcsLen     == 4

-----------------------------------------------------------------------------
(* lcompat_ieee80211_snap_to_ethertype: two encapsulations are undone.     *)
SnapToEthertype(m) ==
    \/ m.snap = "rfc1042" /\ m.proto \notin {"aarp", "ipx"}
    \/ m.snap = "bridge_tunnel"

EthFrame(m, dst, src, len) ==
    [dst |-> dst, src |-> src, proto |-> m.proto, len |-> EthHdrLen + len]

(* lcompat_ieee80211_build_eth_skb: none for an MSDU without a known SNAP  *)
(* header, and none when alloc_skb(GFP_ATOMIC) fails.                      *)
BuildEthSkb(m) ==
    IF m.len >= LlcSnapLen /\ SnapToEthertype(m) /\ m.memory
       THEN <<EthFrame(m, m.dst, m.src, m.len - LlcSnapLen)>>
       ELSE <<>>

(* Mutant: the padding of a subframe is taken from the MSDU alone.         *)
PaddedOfMsdu(m) == EthHdrLen + ((m.len + 3) \div 4) * 4

(* The length of a subframe with the padding that follows it.              *)
Padded(m) == ((EthHdrLen + m.len + 3) \div 4) * 4

(* One turn of the loop of lcompat_ieee80211_enqueue_amsdu: an MSDU that   *)
(* gives no buffer is passed over.                                         *)
Deaggregate(acc, m) ==
    LET rest == acc.remaining - EthHdrLen
        next == rest - (Padded(m) - EthHdrLen)
    IN IF acc.done \/ rest < 0 \/ m.len = 0 \/ m.len > rest
          THEN [acc EXCEPT !.done = TRUE]
          ELSE [out       |-> acc.out \o BuildEthSkb(m),
                remaining |-> next,
                done      |-> next < 0]

(* lcompat_ieee80211_enqueue_amsdu: what it queues; nothing is an error.   *)
EnqueueAmsdu(f, len) ==
    FoldLeft(Deaggregate,
             [out |-> <<>>, remaining |-> len - DataHdrLen(f.fc), done |-> FALSE],
             f.msdus).out

(* lcompat_ieee80211_is_amsdu looks two bytes before the end of the header,*)
(* where the HT control field ends if there is one.                        *)
IsAmsdu(f, len) ==
    /\ len >= DataHdrLen(f.fc)
    /\ DataHdrLen(f.fc) >= HdrLen3Addr + 2
    /\ IF ieee80211_has_order(f.fc) /\ ieee80211_is_data_qos(f.fc) THEN f.htc ELSE f.amsdu

(* lcompat_ieee80211_data_to_ethernet, in place.  The body of an A-MSDU    *)
(* begins with an address and not with a SNAP header.                      *)
DataToEthernet(f, len) ==
    LET fc  == f.fc
        m   == f.msdus[1]
        dst == IF ieee80211_has_tods(fc) THEN f.a3 ELSE f.a1
        src == IF ieee80211_has_fromds(fc) THEN f.a3 ELSE f.a2
    IN IF \/ len < HdrLen3Addr + LlcSnapLen
          \/ ieee80211_has_protected(fc)
          \/ ~ieee80211_is_data_present(fc)
          \/ ieee80211_has_tods(fc) /\ ieee80211_has_fromds(fc)
          \/ len < DataHdrLen(fc) + LlcSnapLen
          \/ f.amsdu \/ ~SnapToEthertype(m)
          THEN <<>>
          ELSE <<EthFrame(m, dst, src, len - DataHdrLen(fc) - LlcSnapLen)>>

(* lcompat_ieee80211_data_bssid                                            *)
DataBssid(f) ==
    CASE ieee80211_has_fromds(f.fc) /\ ~ieee80211_has_tods(f.fc) -> f.a2
      [] ieee80211_has_tods(f.fc) /\ ~ieee80211_has_fromds(f.fc) -> f.a1
      [] ~ieee80211_has_tods(f.fc) /\ ~ieee80211_has_fromds(f.fc) -> f.a3
      [] OTHER -> NoBss

(* lcompat_ieee80211_rx_data_matches_bss                                   *)
RxDataMatchesBss(f) ==
    /\ bss # NoBss
    /\ ieee80211_has_fromds(f.fc) /\ ~ieee80211_has_tods(f.fc)
    /\ DataBssid(f) = bss
    /\ f.a1 = VifAddr \/ f.a1 \in Group

(* The length behind the FCS, or a length nothing passes.                  *)
TrimmedLen(f) ==
    IF ~FCS THEN f.len ELSE IF f.len <= FcsLen THEN 0 ELSE f.len - FcsLen

(* The frames that get past the filters of ieee80211_rx_irqsafe.           *)
Passes(f) ==
    /\ ~f.bad
    /\ TrimmedLen(f) >= HdrLen3Addr
    /\ ~ieee80211_is_ctl(f.fc) /\ ~ieee80211_is_mgmt(f.fc)
    /\ ieee80211_is_data_present(f.fc)
    /\ RxDataMatchesBss(f)

(* The Ethernet frames a data frame is turned into.                        *)
Convert(f) ==
    LET len == TrimmedLen(f)
    IN IF IsAmsdu(f, len) /\ EnqueueAmsdu(f, len) # <<>>
          THEN EnqueueAmsdu(f, len)
          ELSE DataToEthernet(f, len)

-----------------------------------------------------------------------------
(* ieee80211_rx_irqsafe, from one handler at a time.  Management frames go *)
(* to the handlers of Ieee80211Conn and are freed; the frame of an A-MSDU  *)
(* is freed when its parts are queued, any other is queued itself.         *)
Receive(f) ==
    /\ arriving = <<>>
    /\ count < MaxRx /\ (count > 0 => f \in Later)
    /\ count' = count + 1
    /\ arriving' = IF Passes(f) THEN Convert(f) ELSE <<>>
    /\ got' = IF Passes(f) THEN Append(got, f) ELSE got
    /\ UNCHANGED <<bss, rxq, taken>>

(* skb_queue_tail on rx_queue                                              *)
QueueOne ==
    /\ arriving # <<>>
    /\ rxq' = Append(rxq, Head(arriving))
    /\ arriving' = Tail(arriving)
    /\ UNCHANGED <<bss, got, count, taken>>

(* lcompat_netdev_recv: a frame that does not fit is lost.                 *)
Recv(len) ==
    /\ rxq # <<>>
    /\ rxq' = Tail(rxq)
    /\ taken' = Append(taken, IF len < Head(rxq).len THEN [Head(rxq) EXCEPT !.len = 0]
                                                     ELSE Head(rxq))
    /\ UNCHANGED <<bss, arriving, got, count>>

(* The connection is the one of Ieee80211Conn; rx_queue outlives it.       *)
RxConnect(b) ==
    /\ bss = NoBss /\ arriving = <<>>
    /\ bss' = b
    /\ UNCHANGED <<rxq, arriving, got, count, taken>>

RxDisconnect ==
    /\ bss # NoBss /\ arriving = <<>>
    /\ bss' = NoBss
    /\ UNCHANGED <<rxq, arriving, got, count, taken>>

(* ieee80211_unregister_hw purges the queue when the driver has stopped.   *)
RxUnregister ==
    /\ arriving = <<>>
    /\ bss' = NoBss
    /\ rxq' = <<>>
    /\ got' = <<>> /\ taken' = <<>>
    /\ UNCHANGED <<arriving, count>>

RxInit ==
    /\ bss = NoBss
    /\ rxq = <<>> /\ arriving = <<>>
    /\ count = 0
    /\ got = <<>> /\ taken = <<>>

RxNext ==
    \/ \E f \in RxFrames \cup Later : Receive(f)
    \/ QueueOne
    \/ \E len \in RxBuffers : Recv(len)
    \/ \E b \in BSSIDs : RxConnect(b)
    \/ RxDisconnect \/ RxUnregister

-----------------------------------------------------------------------------
(* What a frame should deliver, from the layout of an A-MSDU instead of    *)
(* the loop over it: subframe i starts where the padded lengths of those   *)
(* before it add up to, and those that the frame holds completely are      *)
(* delivered up to the first it does not hold, each if it has a known SNAP *)
(* header and there is a buffer for it.  A protected frame that is no      *)
(* A-MSDU is refused (mac80211.c:1988); splitting one does not look at the *)
(* flag.                                                                   *)
Offset(ms, i) ==
    FoldLeft(LAMBDA o, m : CHOOSE k \in o .. o + m.len + 20 :
                 k % 4 = 0 /\ o + 14 + m.len <= k /\ k < o + 18 + m.len,
             0, SubSeq(ms, 1, i - 1))

Whole(ms, i, room) == ms[i].len > 0 /\ Offset(ms, i) + 14 + ms[i].len <= room

Meant(f) ==
    LET room == TrimmedLen(f) - ieee80211_hdrlen(f.fc)
        ms   == f.msdus
        sent == IF f.amsdu
                   THEN {i \in 1 .. Len(ms) : \A j \in 1 .. i : Whole(ms, j, room)}
                   ELSE {}
        kept == [i \in 1 .. Len(ms) |->
                    IF i \in sent /\ ms[i].memory /\ ms[i].len >= 8 /\ SnapToEthertype(ms[i])
                       THEN <<[dst |-> ms[i].dst, src |-> ms[i].src, proto |-> ms[i].proto,
                               len |-> 6 + ms[i].len]>>
                       ELSE <<>>]
    IN IF f.amsdu THEN FlattenSeq(kept)
       ELSE IF SnapToEthertype(ms[1]) /\ room >= 8 /\ ~ieee80211_has_protected(f.fc)
               THEN <<[dst |-> f.a1, src |-> f.a3, proto |-> ms[1].proto, len |-> room + 6]>>
               ELSE <<>>

(* The native stack is given the MSDUs of the data frames of its BSS in    *)
(* the order of arrival and of their places in an A-MSDU, once, with their *)
(* own addresses, type and length: nothing of a subframe that was cut off, *)
(* and nothing twice.  Missing are exactly the MSDUs without a known SNAP  *)
(* header, those of a protected frame that is no A-MSDU, and of an A-MSDU  *)
(* those cut off and those whose buffer could not be allocated, which cost *)
(* none of their neighbours.  Nothing is said once a frame with an HT      *)
(* control field was received, as the code looks for the A-MSDU bit in     *)
(* that field (mac80211.c:2035).                                           *)
RxInOrder ==
    (\A i \in 1 .. Len(got) : ~ieee80211_has_order(got[i].fc)) =>
       LET due  == FlattenSeq([i \in 1 .. Len(got) |-> Meant(got[i])])
           seen == taken \o rxq \o arriving
       IN /\ Len(seen) = Len(due)
          /\ \A i \in 1 .. Len(due) :
                seen[i] = due[i] \/ (i <= Len(taken) /\ seen[i] = [due[i] EXCEPT !.len = 0])
=============================================================================
