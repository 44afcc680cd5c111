---------------------------- MODULE Ieee80211Conn ----------------------------
(***************************************************************************)
(* The station of src/mac80211.c: connect and disconnect requests from the *)
(* native network stack, authentication and association replies, scans in  *)
(* hardware and in software, registration of the hardware.  Every handler  *)
(* is one step, cut where the code lets others in: connect gives up        *)
(* rt->lock after its first look at conn_state and works on the parameters *)
(* without it, the software scan sleeps on every channel, and registration *)
(* and removal go through calls into the driver.  The native stack issues  *)
(* one request at a time and none while the interface is administratively  *)
(* down; the driver runs one receive handler at a time, between start and  *)
(* stop, and may call ieee80211_disconnect whenever the hardware is        *)
(* registered, whatever the state of the connection.                       *)
(***************************************************************************)
EXTENDS Integers, FiniteSets

CONSTANTS APs,      \* BSSIDs of access points, all of the SSID asked for
          FreqOf,   \* [APs -> Freqs]
          Freqs,    \* channels of the hardware
          Requests, \* request_portid values, one per connect request
          MaxScans, \* bound on the number of scans
          None

ASSUME ConnAssumption ==
    /\ FreqOf \in [APs -> Freqs]
    /\ None \notin APs \cup Freqs \cup Requests
    /\ Freqs # {}
    /\ MaxScans \in Nat

VARIABLES
    reg,      \* how far registration got: "none", "netdev", "vif", "up";
              \* "leaving", "stopped" on the way back
    conn,     \* rt->conn_state
    bssid,    \* rt->connect_params.bssid, None without has_bssid
    freq,     \* rt->connect_params.frequency
    portid,   \* rt->connect_request_portid, None for 0
    sta,      \* rt->sta is allocated
    assoc,    \* rt->vif->cfg.assoc and bss_conf.assoc
    link,     \* link state told to the native stack
    info,     \* wireless info told to the native stack: "connected"
    chan,     \* hw->conf.chandef.chan
    scanReq,  \* rt->scan_req is allocated
    filter,   \* rt->scan_filter_active
    scanner,  \* "idle", "hw" (the hardware scans), "sw" (run_sw_scan sleeps)
    saved,    \* the locals orig_chan ... of run_sw_scan
    netScan,  \* the native stack believes that a scan runs
    seen,     \* scan results of the native stack
    caller,   \* the connect request in progress, None if none
    tuned,    \* that request has selected its BSS and set the channel
    stations, \* stations the driver knows: sta_add minus sta_remove
    scans,    \* scans left
    asked,    \* history: requests that lcompat_netdev_connect recorded
    results,  \* history: [r -> connect results published for r]
    dropped,  \* history: requests that ended with a disconnect event
    lost,     \* history: requests whose record was wiped without an answer
    late,     \* history: a connect finished after removal had begun
    overlap   \* history: a connect set the channel during a software scan

connVars == <<conn, bssid, freq, portid, sta, assoc, link, info, stations>>
scanVars == <<scanReq, filter, scanner, saved, netScan, seen, scans>>
callVars == <<caller, tuned, asked>>
histVars == <<results, dropped, lost, late, overlap>>
vars == <<reg, connVars, chan, scanVars, callVars, histVars>>

Receiving == reg \in {"up", "leaving"}   \* frames come from start to stop

-----------------------------------------------------------------------------
(* lcompat_ieee80211_clear_connect_params                                  *)
ClearConnectParams ==
    /\ bssid' = None
    /\ freq' = None
    /\ portid' = None

PublishResult(r) ==
    results' = IF r = None THEN results ELSE [results EXCEPT ![r] = @ + 1]

(* The request waiting for its answer, if there is one.                    *)
Recorded == {portid} \ {None}

(* lcompat_ieee80211_update_wireless_info copies conn_state.               *)
UpdateWirelessInfo == info' = (conn' = "connected")

(* lcompat_ieee80211_disconnect_local: the event goes to everybody, but    *)
(* only if the connection has a BSSID.                                     *)
DisconnectLocal ==
    /\ stations' = IF sta THEN stations - 1 ELSE stations
    /\ sta' = FALSE
    /\ assoc' = FALSE
    /\ dropped' = IF bssid # None THEN dropped \cup Recorded ELSE dropped
    /\ lost' = IF bssid = None THEN lost \cup Recorded ELSE lost
    /\ conn' = "disconnected"
    /\ ClearConnectParams
    /\ link' = FALSE
    /\ UpdateWirelessInfo

(* Mutant: the request stays recorded after its failure was published.     *)
ConnectFailedKeepsPortid ==
    /\ conn' = "disconnected"
    /\ link' = FALSE
    /\ UpdateWirelessInfo
    /\ PublishResult(portid)
    /\ bssid' = None /\ freq' = None
    /\ UNCHANGED <<portid, sta, assoc, stations>>

(* lcompat_ieee80211_connect_failed                                        *)
ConnectFailed ==
    /\ conn' = "disconnected"
    /\ link' = FALSE
    /\ UpdateWirelessInfo
    /\ PublishResult(portid)
    /\ ClearConnectParams
    /\ UNCHANGED <<sta, assoc, stations>>

(* lcompat_ieee80211_connect_complete, successful: a station left over is  *)
(* freed without sta_remove.                                               *)
ConnectComplete ==
    /\ sta' = TRUE
    /\ stations' = stations + 1
    /\ conn' = "connected"
    /\ assoc' = TRUE
    /\ link' = TRUE
    /\ UpdateWirelessInfo
    /\ PublishResult(portid)
    /\ portid' = None
    /\ UNCHANGED <<bssid, freq>>

-----------------------------------------------------------------------------
(* lcompat_netdev_connect, up to the unlock.  While conn_state is anything *)
(* but disconnected, a request is refused and changes nothing.             *)
BeginConnect(r, ap) ==
    /\ reg = "up" /\ caller = None
    /\ r \notin asked
    /\ conn = "disconnected"
    /\ bssid' = ap
    /\ freq' = None
    /\ portid' = r
    /\ caller' = r
    /\ asked' = asked \cup {r}
    /\ UNCHANGED <<reg, conn, sta, assoc, link, info, stations, chan, scanVars, tuned, histVars>>

(* lcompat_ieee80211_select_bss: the BSS asked for, or any with the SSID.  *)
SelectBss(ap) == IF ap \in seen THEN {ap} ELSE seen

(* The call goes on without the lock: it selects a BSS for whatever the    *)
(* parameters say by now, completes them and sets the channel.             *)
TuneConnect ==
    /\ caller # None /\ ~tuned
    /\ \/ /\ ConnectFailed                        \* no BSS, or no channel
          /\ caller' = None
          /\ UNCHANGED <<chan, tuned, overlap>>
       \/ \E s \in SelectBss(bssid) :
             /\ chan' = FreqOf[s]
             /\ overlap' = (overlap \/ scanner = "sw")
             /\ \/ /\ ConnectFailed               \* config failed
                   /\ caller' = None
                   /\ UNCHANGED tuned
                \/ /\ bssid' = IF bssid = None THEN s ELSE bssid
                   /\ freq' = FreqOf[s]
                   /\ tuned' = TRUE
                   /\ UNCHANGED <<conn, portid, sta, assoc, link, info, stations,
                                  caller, results>>
    /\ UNCHANGED <<reg, scanVars, asked, dropped, lost, late>>

(* The end of the call; it does not look at conn_state, at started or at   *)
(* the request again, but send_auth fails without a BSSID.                 *)
FinishConnect ==
    /\ tuned
    /\ tuned' = FALSE
    /\ caller' = None
    /\ \/ ConnectFailed /\ UNCHANGED late
       \/ /\ bssid # None
          /\ conn' = "authenticating"
          /\ late' = (late \/ reg # "up")
          /\ UpdateWirelessInfo
          /\ UNCHANGED <<bssid, freq, portid, sta, assoc, link, stations, results>>
    /\ UNCHANGED <<reg, chan, scanVars, asked, dropped, lost, overlap>>

(* lcompat_netdev_disconnect                                               *)
Disconnect ==
    /\ reg = "up" /\ caller = None
    /\ conn = "connected"
    /\ DisconnectLocal
    /\ UNCHANGED <<reg, chan, scanVars, callVars, results, late, overlap>>

(* ieee80211_disconnect: in every state, a connect in progress included,   *)
(* whose record and BSSID it clears; the runtime is on the list while the  *)
(* hardware is registered.                                                 *)
DriverDisconnect ==
    /\ reg = "up"
    /\ DisconnectLocal
    /\ UNCHANGED <<reg, chan, scanVars, callVars, results, late, overlap>>

(* Mutant: an authentication reply counts in every state of the handshake. *)
HandleAuthRxAnyState(ap, ok) ==
    /\ Receiving
    /\ conn # "disconnected" /\ bssid = ap
    /\ \/ ~ok /\ ConnectFailed
       \/ ok /\ ConnectFailed
       \/ /\ ok
          /\ conn' = "associating"
          /\ UNCHANGED <<bssid, freq, portid, sta, assoc, link, info, stations, results>>
    /\ UNCHANGED <<reg, chan, scanVars, callVars, dropped, lost, late, overlap>>

(* handle_auth_rx for a frame from ap; sending the request may fail.       *)
HandleAuthRx(ap, ok) ==
    /\ Receiving
    /\ conn = "authenticating" /\ bssid = ap
    /\ \/ ~ok /\ ConnectFailed
       \/ ok /\ ConnectFailed
       \/ /\ ok
          /\ conn' = "associating"
          /\ UNCHANGED <<bssid, freq, portid, sta, assoc, link, info, stations, results>>
    /\ UNCHANGED <<reg, chan, scanVars, callVars, dropped, lost, late, overlap>>

(* handle_assoc_resp_rx; the allocation or sta_add may fail.               *)
HandleAssocRx(ap, ok) ==
    /\ Receiving
    /\ conn = "associating" /\ bssid = ap
    /\ \/ ~ok /\ ConnectFailed
       \/ ok /\ ConnectFailed
       \/ ok /\ ConnectComplete
    /\ UNCHANGED <<reg, chan, scanVars, callVars, dropped, lost, late, overlap>>

(* handle_disconnect_rx: deauthentication or disassociation by the AP.     *)
HandleDisconnectRx(ap) ==
    /\ Receiving
    /\ conn # "disconnected" /\ bssid = ap
    /\ DisconnectLocal
    /\ UNCHANGED <<reg, chan, scanVars, callVars, results, late, overlap>>

(* A beacon or probe response is stored while a scan request exists.       *)
HandleBeaconRx(ap) ==
    /\ Receiving
    /\ scanReq
    /\ seen' = seen \cup {ap}
    /\ UNCHANGED <<reg, connVars, chan, scanReq, filter, scanner, saved, netScan,
                   scans, callVars, histVars>>

-----------------------------------------------------------------------------
(* lcompat_netdev_trigger_scan up to the answer of hw_scan.  A scan that   *)
(* is refused anywhere leaves nothing behind.                              *)
TriggerScan ==
    /\ reg = "up"
    /\ scans > 0
    /\ scans' = scans - 1
    /\ ~scanReq
    /\ \/ UNCHANGED <<scanReq, filter, netScan, scanner, saved>>  \* no memory
       \/ /\ \/ netScan            \* netdev_scan_begin: one runs already
             \/ ~netScan           \* hw_scan failed after it
          /\ filter' = FALSE
          /\ netScan' = netScan
          /\ UNCHANGED <<scanReq, scanner, saved>>
       \/ /\ ~netScan
          /\ scanReq' = TRUE
          /\ filter' = TRUE
          /\ netScan' = TRUE
          /\ \/ scanner' = "hw" /\ UNCHANGED saved
             \/ scanner' = "sw" /\ saved' = chan
    /\ UNCHANGED <<reg, connVars, chan, seen, callVars, histVars>>

(* One turn of run_sw_scan: the sleep ends on a channel of the scan.       *)
SwScanHop(f) ==
    /\ scanner = "sw"
    /\ chan' = f
    /\ UNCHANGED <<reg, connVars, scanVars, callVars, histVars>>

(* Mutant: the channel is left where the scan ended.                       *)
SwScanEndsThere ==
    /\ scanner = "sw"
    /\ filter' = FALSE /\ netScan' = FALSE /\ scanReq' = FALSE
    /\ scanner' = "idle"
    /\ saved' = None
    /\ UNCHANGED <<reg, connVars, chan, seen, scans, callVars, histVars>>

(* The channel is put back to what it was before the scan.                 *)
SwScanEnds ==
    /\ scanner = "sw"
    /\ chan' = saved
    /\ filter' = FALSE /\ netScan' = FALSE /\ scanReq' = FALSE
    /\ scanner' = "idle"
    /\ saved' = None
    /\ UNCHANGED <<reg, connVars, seen, scans, callVars, histVars>>

(* Mutant: the completion leaves the native scan running.                  *)
ScanCompletedSilently ==
    /\ scanner = "hw" /\ reg # "none"
    /\ filter' = FALSE /\ scanReq' = FALSE
    /\ scanner' = "idle"
    /\ UNCHANGED <<reg, connVars, chan, netScan, saved, seen, scans, callVars, histVars>>

(* ieee80211_scan_completed: once for each scan the hardware accepted.     *)
ScanCompleted ==
    /\ scanner = "hw" /\ reg # "none"
    /\ filter' = FALSE /\ netScan' = FALSE /\ scanReq' = FALSE
    /\ scanner' = "idle"
    /\ UNCHANGED <<reg, connVars, chan, saved, seen, scans, callVars, histVars>>

-----------------------------------------------------------------------------
(* ieee80211_register_hw: the runtime, the vif and the netdev with its     *)
(* triggers, add_interface, start; a failure undoes what was done.         *)
RegisterNetdev ==
    /\ reg = "none"
    /\ reg' = "netdev"
    /\ UNCHANGED <<connVars, chan, scanVars, callVars, histVars>>

AddInterface ==
    /\ reg = "netdev"
    /\ reg' \in {"vif", "none"}
    /\ UNCHANGED <<connVars, chan, scanVars, callVars, histVars>>

StartHw ==
    /\ reg = "vif"
    /\ reg' \in {"up", "none"}
    /\ link' = FALSE
    /\ UNCHANGED <<conn, bssid, freq, portid, sta, assoc, info, stations, chan,
                   scanVars, callVars, histVars>>

(* ieee80211_unregister_hw: the runtime leaves the list, the interface     *)
(* goes down and a connection is ended.                                    *)
Unregister ==
    /\ reg = "up"
    /\ reg' = "leaving"
    /\ IF conn # "disconnected"
          THEN DisconnectLocal
          ELSE UNCHANGED <<connVars, dropped, lost>>
    /\ UNCHANGED <<chan, scanVars, callVars, results, late, overlap>>

StopHw ==
    /\ reg = "leaving"
    /\ reg' = "stopped"
    /\ UNCHANGED <<connVars, chan, scanVars, callVars, histVars>>

(* remove_interface, netdev_unregister, which waits for requests that are  *)
(* in progress, and the release of everything: free_sta calls no driver.   *)
FreeRuntime ==
    /\ reg = "stopped"
    /\ caller = None /\ scanner # "sw"
    /\ reg' = "none"
    /\ conn' = "disconnected"
    /\ sta' = FALSE /\ assoc' = FALSE /\ link' = FALSE /\ info' = FALSE
    /\ ClearConnectParams
    /\ filter' = FALSE /\ scanReq' = FALSE /\ netScan' = FALSE
    /\ scanner' = "idle" /\ seen' = {}
    /\ lost' = lost \cup Recorded
    /\ UNCHANGED <<stations, chan, saved, scans, callVars, results, dropped, late, overlap>>

-----------------------------------------------------------------------------
Init ==
    /\ reg = "none"
    /\ conn = "disconnected" /\ bssid = None /\ freq = None /\ portid = None
    /\ sta = FALSE /\ assoc = FALSE /\ link = FALSE /\ info = FALSE
    /\ chan \in Freqs
    /\ scanReq = FALSE /\ filter = FALSE /\ netScan = FALSE
    /\ scanner = "idle" /\ saved = None /\ seen = {}
    /\ caller = None /\ tuned = FALSE /\ asked = {}
    /\ stations = 0 /\ scans = MaxScans
    /\ results = [r \in Requests |-> 0]
    /\ dropped = {} /\ lost = {} /\ late = FALSE /\ overlap = FALSE

Reply ==
    \E ap \in APs, ok \in BOOLEAN : HandleAuthRx(ap, ok) \/ HandleAssocRx(ap, ok)

Next ==
    \/ \E r \in Requests, ap \in APs \cup {None} : BeginConnect(r, ap)
    \/ TuneConnect \/ FinishConnect \/ Disconnect \/ DriverDisconnect \/ Reply
    \/ \E ap \in APs : HandleDisconnectRx(ap) \/ HandleBeaconRx(ap)
    \/ TriggerScan \/ SwScanEnds \/ ScanCompleted
    \/ \E f \in Freqs : SwScanHop(f)
    \/ RegisterNetdev \/ AddInterface \/ StartHw
    \/ Unregister \/ StopHw \/ FreeRuntime

Spec == Init /\ [][Next]_vars

(* The calls of the native stack and of the driver go on, and the access   *)
(* point answers.                                                          *)
FairSpec ==
    /\ Spec
    /\ WF_vars(TuneConnect) /\ WF_vars(FinishConnect) /\ WF_vars(SwScanEnds)
    /\ WF_vars(StopHw) /\ WF_vars(FreeRuntime)
    /\ WF_vars(Reply)

-----------------------------------------------------------------------------
(* Types; what belongs to the runtime is empty without one.                *)
TypeOK ==
    /\ reg \in {"none", "netdev", "vif", "up", "leaving", "stopped"}
    /\ conn \in {"disconnected", "authenticating", "associating", "connected"}
    /\ bssid \in APs \cup {None}
    /\ freq \in Freqs \cup {None}
    /\ portid \in Requests \cup {None}
    /\ sta \in BOOLEAN /\ assoc \in BOOLEAN /\ link \in BOOLEAN /\ info \in BOOLEAN
    /\ chan \in Freqs
    /\ scanReq \in BOOLEAN /\ filter \in BOOLEAN /\ netScan \in BOOLEAN
    /\ scanner \in {"idle", "hw", "sw"}
    /\ saved \in Freqs \cup {None}
    /\ seen \subseteq APs
    /\ caller \in Requests \cup {None}
    /\ tuned \in BOOLEAN /\ (tuned => caller # None)
    /\ asked \subseteq Requests
    /\ stations \in Nat
    /\ scans \in 0 .. MaxScans
    /\ results \in [Requests -> Nat]
    /\ dropped \subseteq Requests /\ lost \subseteq Requests
    /\ late \in BOOLEAN /\ overlap \in BOOLEAN

(* Five parties agree on the connection: the state machine, the station    *)
(* object, the vif the driver reads, the link state and the wireless info  *)
(* of the native stack.                                                    *)
ConnectionAgrees ==
    /\ (conn = "connected") = sta
    /\ sta = assoc
    /\ assoc = link
    /\ link = info
    /\ conn # "disconnected" => bssid # None /\ freq # None

(* sta_add and sta_remove alternate, and nothing is left in the driver     *)
(* when the interface is gone, unless a connect request outlived the start *)
(* of the removal.                                                         *)
StationsMatch == late \/ stations = IF sta THEN 1 ELSE 0

(* Every request that was accepted is waiting for its answer, or has had   *)
(* exactly one: its result, or the disconnect event of the connection it   *)
(* had begun.  The answer fails to come in two cases only: the driver      *)
(* disconnects before the request has a BSSID, or the runtime is freed     *)
(* under a connect that outlived the start of the removal.  A request that *)
(* waits has a call or a handshake that is going to answer it.             *)
RequestsAnswered ==
    LET answered == {r \in Requests : results[r] = 1} IN
    /\ \A r \in Requests : results[r] <= 1
    /\ asked = Recorded \cup answered \cup dropped \cup lost
    /\ portid \notin answered \cup dropped \cup lost
    /\ answered \cap dropped = {} /\ (answered \cup dropped) \cap lost = {}
    /\ portid # None => portid = caller \/ conn \in {"authenticating", "associating"}

(* All parties to a connection, the stack that asked for it and the driver *)
(* that carries it, hold the same view of it after every handler.          *)
ConnInv == TypeOK /\ ConnectionAgrees /\ StationsMatch /\ RequestsAnswered

(* The records of a scan are made and removed together, whichever of the   *)
(* four exits a scan takes.                                                *)
ScanAgrees ==
    /\ scanReq = (scanner # "idle")
    /\ filter = scanReq
    /\ netScan = scanReq

(* Outside a software scan the radio is on the channel of the connection,  *)
(* unless a connect set the channel while a software scan, which will put  *)
(* back the old one, was under way.                                        *)
OnChannel ==
    conn # "disconnected" /\ scanner # "sw" /\ ~overlap => chan = freq

(* With an access point that answers (the code has no timeout of its own), *)
(* every accepted request gets its result or a disconnect event, unless    *)
(* its record is lost to the driver's disconnect or to the removal.        *)
RequestResolved ==
    \A r \in Requests :
       portid = r ~> portid # r /\ (results[r] = 1 \/ r \in dropped \cup lost)
=============================================================================
