---------------------------- MODULE Ieee80211Build ----------------------------
(***************************************************************************)
(* The frames src/mac80211.c and the helpers of net/mac80211.h build: how  *)
(* much is allocated, reserved and written, and which rates are announced. *)
(* Each function is one step that leaves what it built in `out`.  Lengths  *)
(* stay far below the 32 bits whose overflow lcompat_size_add refuses.     *)
(*                                                                         *)
(* A scan result is a record: ies, the information elements as the access  *)
(* point laid them out, and ieLen, the bytes of them that were stored.  An *)
(* element is a record: id, body (bytes) and wmm (a WMM vendor element).   *)
(***************************************************************************)
EXTENDS Integers, SequencesExt

CONSTANTS
    BandRates,  \* possible sband->bitrates: sequences, in units of 100 kb/s
    Networks,   \* possible scan results
    SsidLens,   \* lengths of the SSID asked for
    Headrooms,  \* possible hw->extra_tx_headroom
    Payloads,   \* lengths of Ethernet frames to send
    Tailrooms   \* asked for by the callers of the helpers

ASSUME BuildAssumption ==
    /\ Headrooms \subseteq Int /\ BandRates \subseteq Seq(Nat)
    /\ SsidLens \subseteq 0 .. 32
    /\ Payloads \subseteq Nat /\ Tailrooms \subseteq Nat

VARIABLES
    bitrates, network, ssidLen, headroom,  \* what the functions read
    qos,   \* rt->use_qos, set with the BSS a connect selects
    out    \* the frame built last

buildVars == <<bitrates, network, ssidLen, headroom, qos, out>>
inputs == <<bitrates, network, ssidLen, headroom, qos>>

EidSuppRates == 1
EidExtRates  == 50
EidVendor    == 221

-----------------------------------------------------------------------------
(* The walk of lcompat_ieee80211_find_ie and of bss_has_wmm: it ends at an *)
(* element that is not stored completely.                                  *)
WalkIe(acc, ie) ==
    IF acc.done \/ acc.left < 2 + Len(ie.body)
       THEN [acc EXCEPT !.done = TRUE]
       ELSE [ies |-> Append(acc.ies, ie), left |-> acc.left - 2 - Len(ie.body), done |-> FALSE]

StoredIes == FoldLeft(WalkIe, [ies |-> <<>>, left |-> network.ieLen, done |-> FALSE], network.ies).ies

HasIe(eid) == \E i \in DOMAIN StoredIes : StoredIes[i].id = eid

(* lcompat_ieee80211_find_ie: the first with the id.                       *)
FindIe(eid) ==
    IF HasIe(eid) THEN SelectSeq(StoredIes, LAMBDA ie : ie.id = eid)[1].body ELSE <<>>

(* lcompat_ieee80211_bss_has_wmm                                           *)
BssHasWmm == \E i \in DOMAIN StoredIes : StoredIes[i].id = EidVendor /\ StoredIes[i].wmm

(* The rates the access point announced, basic ones with bit 7.            *)
ScanRates == FindIe(EidSuppRates) \o FindIe(EidExtRates)

Rate(i) == (bitrates[i] \div 5) % 256

UpToZero(s) ==
    SubSeq(s, 1, SelectInSeq(s \o <<0>>, LAMBDA r : r = 0) - 1)

Part(s, from, to) == SubSeq(s, from, IF Len(s) < to THEN Len(s) ELSE to)

(* Our rates, in our order, as far as `scan` has them; 8 in one element,   *)
(* 16 in the other.                                                        *)
RatesFrom(scan, known) ==
    LET At(i) == SelectInSeq(scan, LAMBDA r : r % 128 = Rate(i))
        all   == [i \in DOMAIN bitrates |->
                    IF ~known THEN Rate(i)
                    ELSE IF At(i) = 0 THEN -1
                    ELSE Rate(i) + IF scan[At(i)] >= 128 THEN 128 ELSE 0]
        kept  == SelectSeq(all, LAMBDA r : r >= 0)
    IN [supp |-> UpToZero(Part(kept, 1, 8)), ext |-> UpToZero(Part(kept, 9, 24))]

(* Mutant: only the first of the two elements is looked at.                *)
SuppRatesOnly == RatesFrom(FindIe(EidSuppRates), HasIe(EidSuppRates))

(* lcompat_ieee80211_build_supported_rates_ie; send_assoc_req counts each  *)
(* element up to the first zero.                                           *)
BuildSupportedRatesIe ==
    RatesFrom(ScanRates, HasIe(EidSuppRates) \/ HasIe(EidExtRates))

AllRates == {i \in DOMAIN bitrates : i <= 32}

(* lcompat_ieee80211_basic_rates_mask, as a set of indices.                *)
BasicRatesMask ==
    {i \in AllRates : \E j \in DOMAIN ScanRates : ScanRates[j] = 128 + Rate(i)}

(* lcompat_ieee80211_supported_rates_mask                                  *)
SupportedRatesMask ==
    IF network.ieLen = 0 THEN AllRates
    ELSE {i \in AllRates : \E j \in DOMAIN ScanRates : ScanRates[j] % 128 = Rate(i)}

(* sta->supp_rates of lcompat_ieee80211_alloc_sta                          *)
StaRates == IF SupportedRatesMask = {} THEN AllRates ELSE SupportedRatesMask

-----------------------------------------------------------------------------
Nothing == [kind |-> "none"]

(* lcompat_ieee80211_alloc_tx_skb and the puts that follow: size bytes are *)
(* asked for, `puts` written one behind the other.                         *)
TxFrame(kind, size, puts) ==
    IF headroom < 0 THEN Nothing
    ELSE [kind |-> kind, head |-> headroom, size |-> headroom + size, puts |-> puts, tail |-> 0]

(* lcompat_ieee80211_alloc_helper_skb: no headroom if it is negative.      *)
HelperFrame(kind, size, tailroom, puts) ==
    LET head == IF headroom > 0 THEN headroom ELSE 0
    IN [kind |-> kind, head |-> head, size |-> head + size + tailroom,
        puts |-> puts, tail |-> tailroom]

IeLen(n) == IF n = 0 THEN 0 ELSE 2 + n

(* lcompat_ieee80211_send_auth                                             *)
SendAuth ==
    /\ out' = TxFrame("auth", 30, <<30>>)
    /\ UNCHANGED inputs

(* The length lcompat_ieee80211_send_assoc_req asks for.                   *)
AssocLen ==
    28 + 2 + ssidLen + IeLen(Len(BuildSupportedRatesIe.supp))
       + IeLen(Len(BuildSupportedRatesIe.ext)) + IF BssHasWmm THEN 9 ELSE 0

(* The elements it writes, in one put of that length; each is two bytes    *)
(* and a body.                                                             *)
AssocIes ==
    <<2 + ssidLen>>
      \o (IF BuildSupportedRatesIe.supp = <<>> THEN <<>> ELSE <<2, Len(BuildSupportedRatesIe.supp)>>)
      \o (IF BuildSupportedRatesIe.ext = <<>> THEN <<>> ELSE <<2, Len(BuildSupportedRatesIe.ext)>>)
      \o (IF BssHasWmm THEN <<9>> ELSE <<>>)

SendAssocReq ==
    /\ out' = TxFrame("assoc", AssocLen, <<28>> \o AssocIes)
    /\ UNCHANGED inputs

(* lcompat_ieee80211_send_probe_req: up to 16 rates, whatever they are.    *)
SendProbeReq ==
    LET n    == IF Len(bitrates) < 16 THEN Len(bitrates) ELSE 16
        supp == IF n < 8 THEN n ELSE 8
    IN /\ out' = TxFrame("probe", 24 + 2 + ssidLen + IeLen(supp) + IeLen(n - supp),
                         <<24, 2, ssidLen>> \o (IF n > 0 THEN <<2, supp>> ELSE <<>>)
                                            \o (IF n > supp THEN <<2, n - supp>> ELSE <<>>))
       /\ UNCHANGED inputs

(* lcompat_ieee80211_build_data_frame: an Ethernet header of 14 bytes is   *)
(* replaced by an 802.11 header, QoS control and LLC/SNAP.                 *)
BuildDataFrame(len) ==
    /\ out' = IF len < 14 THEN Nothing
              ELSE TxFrame("data", 24 + (IF qos THEN 2 ELSE 0) + 8 + (len - 14),
                           (IF qos THEN <<24, 2>> ELSE <<24>>) \o <<8, len - 14>>)
    /\ UNCHANGED inputs

(* ieee80211_probereq_get                                                  *)
ProbereqGet(tailroom) ==
    /\ out' = HelperFrame("probereq", 24 + 2 + ssidLen, tailroom, <<24, 2 + ssidLen>>)
    /\ UNCHANGED inputs

(* ieee80211_proberesp_get, ieee80211_beacon_get_tim, ieee80211_pspoll_get *)
HeaderOnlyGet(kind) ==
    /\ out' = HelperFrame(kind, 24, 0, <<24>>)
    /\ UNCHANGED inputs

(* lcompat_ieee80211_nullfunc_get                                          *)
NullfuncGet(withQos) ==
    /\ out' = HelperFrame("nullfunc", IF withQos THEN 26 ELSE 24, 0,
                          IF withQos THEN <<24, 2>> ELSE <<24>>)
    /\ UNCHANGED inputs

BuildInit ==
    /\ bitrates \in BandRates /\ network \in Networks
    /\ ssidLen \in SsidLens /\ headroom \in Headrooms
    /\ qos = BssHasWmm
    /\ out = Nothing

BuildNext ==
    \/ SendAuth \/ SendAssocReq \/ SendProbeReq
    \/ \E len \in Payloads : BuildDataFrame(len)
    \/ \E t \in Tailrooms : ProbereqGet(t)
    \/ \E kind \in {"proberesp", "beacon", "pspoll"} : HeaderOnlyGet(kind)
    \/ \E q \in BOOLEAN : NullfuncGet(q)

BuildSpec == BuildInit /\ [][BuildNext]_buildVars

-----------------------------------------------------------------------------
(* What the puts into a frame come to.                                     *)
Written(puts) == FoldLeft(LAMBDA a, b : a + b, 0, puts)

(* What is written into a frame is what was asked for it, to the byte: the *)
(* sum is computed before the allocation, by other statements than those   *)
(* that write, and the driver still finds its headroom in front and the    *)
(* caller of a helper its tailroom behind.                                 *)
FrameFits ==
    out.kind # "none" =>
        /\ out.head + Written(out.puts) + out.tail = out.size
        /\ out.head = IF headroom > 0 THEN headroom ELSE 0

Low(s) == {s[i] % 128 : i \in DOMAIN s}

(* Three loops read the same two elements: the association request         *)
(* announces the rates that the driver is given for the station, and the   *)
(* basic ones among them are those it is given for the BSS, unless our     *)
(* hardware and the access point have no rate in common.                   *)
RatesAgree ==
    (out.kind = "assoc" /\ SupportedRatesMask # {}) =>
        LET sent == BuildSupportedRatesIe.supp \o BuildSupportedRatesIe.ext
        IN /\ Low(sent) = {Rate(i) : i \in StaRates}
           /\ Low(SelectSeq(sent, LAMBDA r : r >= 128)) = {Rate(i) : i \in BasicRatesMask}
           /\ Len(sent) = Cardinality(StaRates)

(* What a builder puts on the air is what it was given room and rates for. *)
FramesBuilt == FrameFits /\ RatesAgree
=============================================================================
