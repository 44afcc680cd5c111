--------------------------- MODULE Ieee80211Header ---------------------------
(***************************************************************************)
(* Frame control and header lengths of IEEE 802.11 frames as               *)
(* src/include/net/mac80211.h and src/mac80211.c compute them.             *)
(* fc is the frame control word in host order, 0 .. 65535.                 *)
(***************************************************************************)
EXTENDS Integers

Bit(w, i) == (w \div 2^i) % 2 = 1

FrameType(fc) == (fc \div 4) % 4
SubType(fc)   == (fc \div 16) % 16    \* fc & 0x00f0, shifted

ieee80211_has_tods(fc)      == Bit(fc, 8)
ieee80211_has_fromds(fc)    == Bit(fc, 9)
ieee80211_has_protected(fc) == Bit(fc, 14)
ieee80211_has_order(fc)     == Bit(fc, 15)
ieee80211_is_mgmt(fc)       == FrameType(fc) = 0
ieee80211_is_ctl(fc)        == FrameType(fc) = 1
ieee80211_is_data(fc)       == FrameType(fc) = 2

ieee80211_is_any_nullfunc(fc) == ieee80211_is_data(fc) /\ SubType(fc) \in {4, 12}
ieee80211_is_data_qos(fc)     == ieee80211_is_data(fc) /\ Bit(fc, 7)
ieee80211_is_data_present(fc) ==
    ieee80211_is_data(fc) /\ ~ieee80211_is_any_nullfunc(fc)

HdrLen3Addr == 24
EthAlen     == 6

FourAddr(fc) == IF ieee80211_has_tods(fc) /\ ieee80211_has_fromds(fc) THEN EthAlen ELSE 0

(* ieee80211_hdrlen, which drivers use and ieee80211_get_qos_ctl relies on *)
ieee80211_hdrlen(fc) ==
    IF ieee80211_is_ctl(fc) THEN 16
    ELSE IF ieee80211_is_mgmt(fc) THEN HdrLen3Addr
    ELSE HdrLen3Addr + FourAddr(fc) + IF ieee80211_is_data_qos(fc) THEN 2 ELSE 0

(* lcompat_ieee80211_data_hdr_len counts the HT control field too.         *)
DataHdrLen(fc) ==
    HdrLen3Addr + FourAddr(fc)
      + IF ~ieee80211_is_data_qos(fc) THEN 0
        ELSE IF ieee80211_has_order(fc) THEN 6 ELSE 2
=============================================================================
