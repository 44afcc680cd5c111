----------------------------- MODULE MCDataPath -----------------------------
(***************************************************************************)
(* The data path for TLC: reception, transmission, the frames built and    *)
(* the queues of buffers.  They share no state within the bounds of their  *)
(* models, so a behavior exercises one of them, chosen at the start.       *)
(***************************************************************************)
EXTENDS Ieee80211Rx, Ieee80211Tx, Ieee80211Build, SkbQueue

CONSTANTS me, group, ap1, ap2, peer, dst1, dst2,
          s1, s2, c1, c2, h1, h2, b1, b2, b3, b4

VARIABLE part

-----------------------------------------------------------------------------
(* Received frames.                                                        *)
Fc(type, subtype, flags) == type * 4 + subtype * 16 + flags
FromDS == 512
Order  == 32768
Protected == 16384

Msdu(d, snap, proto, len) ==
    [dst |-> d, src |-> peer, snap |-> snap, proto |-> proto, len |-> len, memory |-> TRUE]
Ip(d, len) == Msdu(d, "rfc1042", "ip", len)
NoMemory(m) == [m EXCEPT !.memory = FALSE]

Frame(fc, a1, a2, len, amsdu, msdus) ==
    [fc |-> fc, a1 |-> a1, a2 |-> a2, a3 |-> peer, len |-> len, bad |-> FALSE,
     amsdu |-> amsdu, htc |-> FALSE, msdus |-> msdus]

Plain(fc, len) == Frame(fc, me, ap1, len, FALSE, <<Ip(me, 10)>>)

(* Every type, subtype and combination of the flags that are looked at.    *)
AnyHeader ==
    {Plain(Fc(t, s, FromDS), 50) : t \in 0 .. 3, s \in 0 .. 15}
    \cup {Plain(Fc(2, s, fl), 50) : s \in {0, 8},
             fl \in {0, 256, 512, 768, FromDS + Protected, FromDS + Order}}

OtherPlain ==
    {Frame(Fc(2, 0, FromDS), a, b, 50, FALSE, <<Ip(me, 10)>>) :
        a \in {me, group, dst1}, b \in {ap1, ap2}}
    \cup {Plain(Fc(2, s, FromDS), n) : s \in {0, 8}, n \in 20 .. 40}
    \cup {[Plain(Fc(2, 0, FromDS), 50) EXCEPT !.bad = TRUE]}
    \cup {Frame(Fc(2, 0, FromDS), me, ap1, 50, FALSE, <<Msdu(me, s, p, 10)>>) :
            s \in {"rfc1042", "bridge_tunnel", "none"}, p \in {"ip", "ipx"}}

Aggregates ==
    {<<Ip(dst1, 9), Ip(dst2, 10)>>, <<Ip(dst1, 10), Ip(dst2, 8)>>,
     <<Ip(dst1, 5), Ip(dst2, 9)>>, <<Ip(dst1, 9), Ip(dst2, 0)>>,
     <<Msdu(dst1, "none", "ip", 9), Ip(dst2, 9)>>,
     <<NoMemory(Ip(dst1, 9)), Ip(dst2, 9)>>,
     <<NoMemory(Ip(dst1, 9)), NoMemory(Ip(dst2, 9))>>}

(* A-MSDUs of two, cut anywhere.                                           *)
Amsdus ==
    {Frame(Fc(2, 8, FromDS), me, ap1, n, TRUE, ms) : ms \in Aggregates, n \in 26 .. 84}
    \cup {[Frame(Fc(2, 8, FromDS + Order), me, ap1, 80, TRUE, <<Ip(dst1, 9), Ip(dst2, 10)>>)
             EXCEPT !.htc = h] : h \in BOOLEAN}

SomeRxFrames == AnyHeader \cup OtherPlain \cup Amsdus

LaterFrames ==
    {Plain(Fc(2, 8, FromDS), 50),
     Frame(Fc(2, 8, FromDS), group, ap1, 78, TRUE, <<Ip(dst2, 10), Ip(dst1, 9)>>)}

-----------------------------------------------------------------------------
(* Hardware and scan results of both bands, stored up to any byte.         *)
Band24 == <<10, 20, 55, 110, 60, 90, 120, 180, 240, 360, 480, 540>>
Band5  == SubSeq(Band24, 5, 12)

Ie(id, body) == [id |-> id, body |-> body, wmm |-> FALSE]
Wmm == [id |-> 221, body |-> <<0, 80, 242, 2, 0, 1, 0>>, wmm |-> TRUE]
Ssid == Ie(0, <<7, 7>>)
Ies24 == <<Ssid, Ie(1, <<130, 132, 139, 150, 12, 18, 24, 36>>), Ie(50, <<48, 72, 96, 236>>), Wmm>>
Ies5  == <<Ssid, Wmm, Ie(1, <<140, 18, 152, 36>>)>>
IesExtFirst == <<Ie(50, <<2, 140>>), Ie(1, <<4, 24>>)>>
Bytes(ies) == FoldLeft(LAMBDA n, ie : n + 2 + Len(ie.body), 0, ies)
Stored(ies) == {[ies |-> ies, ieLen |-> n] : n \in 0 .. Bytes(ies)}
SomeNetworks == Stored(Ies24) \cup Stored(Ies5) \cup Stored(IesExtFirst)
SomeBands == {Band24, Band5}
SomeHeadrooms == {-1, 16}

-----------------------------------------------------------------------------
MCInit ==
    /\ RxInit /\ TxInit /\ BuildInit /\ QueueInit
    /\ part \in {"rx", "tx", "build", "queue"}
    /\ part # "tx" => viaQueue
    /\ part # "build" => /\ bitrates = Band24 /\ network = [ies |-> Ies24, ieLen |-> 0]
                         /\ ssidLen = 0 /\ headroom = 16

MCNext ==
    /\ UNCHANGED part
    /\ \/ part = "rx" /\ RxNext /\ UNCHANGED <<txVars, buildVars, queueVars>>
       \/ part = "tx" /\ TxNext /\ UNCHANGED <<rxVars, buildVars, queueVars>>
       \/ part = "build" /\ BuildNext /\ UNCHANGED <<rxVars, txVars, queueVars>>
       \/ part = "queue" /\ QueueNext /\ UNCHANGED <<rxVars, txVars, buildVars>>

MCSpec ==
    /\ MCInit /\ [][MCNext]_<<part, rxVars, txVars, buildVars, queueVars>>
    /\ TxFairness
=============================================================================
