------------------------- MODULE Ieee80211ConnProofs -------------------------
(***************************************************************************)
(* Theorems about Ieee80211Conn, for any access points, channels, requests *)
(* and number of scans.  The parties keep the same view of a connection    *)
(* because a connect request in progress finds the state machine           *)
(* disconnected in each of its three steps, whatever the driver does in    *)
(* between, and because removal ends a connection that only a connect      *)
(* request begun before it can bring back.                                 *)
(***************************************************************************)
EXTENDS Ieee80211Conn, FiniteSetTheorems, TLAPS

(* The types, by kind.                                                     *)
ConnFlags ==
    sta \in BOOLEAN /\ assoc \in BOOLEAN /\ link \in BOOLEAN /\ info \in BOOLEAN

ScanFlags ==
    /\ scanReq \in BOOLEAN /\ filter \in BOOLEAN /\ netScan \in BOOLEAN
    /\ late \in BOOLEAN /\ overlap \in BOOLEAN

ConnShapes ==
    /\ reg \in {"none", "netdev", "vif", "up", "leaving", "stopped"}
    /\ conn \in {"disconnected", "authenticating", "associating", "connected"}
    /\ bssid \in APs \cup {None}
    /\ freq \in Freqs \cup {None}
    /\ portid \in Requests \cup {None}
    /\ caller \in Requests \cup {None}
    /\ asked \subseteq Requests
    /\ stations \in Nat
    /\ results \in [Requests -> Nat]
    /\ dropped \subseteq Requests
    /\ lost \subseteq Requests

ScanShapes ==
    /\ chan \in Freqs
    /\ scanner \in {"idle", "hw", "sw"}
    /\ saved \in Freqs \cup {None}
    /\ seen \subseteq APs
    /\ scans \in 0 .. MaxScans

(* ConnectionAgrees, with equivalences for the equalities of its flags.    *)
Views ==
    /\ sta <=> (conn = "connected")
    /\ assoc <=> sta
    /\ link <=> assoc
    /\ info <=> link

Sited == conn # "disconnected" => bssid # None /\ freq # None

(* A station object is known to the driver, and the driver knows no other  *)
(* one unless a connect request outlived the start of the removal.         *)
StationsKnown ==
    /\ sta => stations > 0
    /\ late \/ (stations = 1 /\ sta) \/ (stations = 0 /\ ~sta)

(* A request that was accepted is in one of four states: recorded, with a  *)
(* result, dropped or lost; one that was not accepted is in none.          *)
Answered ==
    /\ \A r \in Requests : results[r] \in {0, 1}
    /\ \A r \in Requests :
          r \in asked <=> r = portid \/ results[r] = 1 \/ r \in dropped \/ r \in lost
    /\ \A r \in Requests :
          /\ r = portid => results[r] = 0 /\ r \notin dropped /\ r \notin lost
          /\ r \in dropped => results[r] = 0 /\ r \notin lost
          /\ r \in lost => results[r] = 0
    /\ portid # None => portid = caller \/ conn \in {"authenticating", "associating"}

(* The steps of a connect request in progress.                             *)
Connecting ==
    /\ tuned \in BOOLEAN
    /\ tuned => caller # None /\ (bssid # None => freq # None)

(* While a connect is in progress, before start and, but for a late        *)
(* connect, after the removal has begun, nothing is connected.             *)
Calm ==
    /\ caller # None => conn = "disconnected"
    /\ reg \in {"none", "netdev", "vif"} => conn = "disconnected" /\ caller = None
    /\ reg \in {"leaving", "stopped"} => conn = "disconnected" \/ late

Parties ==
    /\ ConnFlags /\ ConnShapes /\ Views /\ Sited /\ StationsKnown
    /\ Answered /\ Connecting /\ Calm

Scans   == ScanFlags /\ ScanShapes /\ (scanner = "sw" => saved # None)

LEMMA TypesAre == ConnFlags /\ ScanFlags /\ ConnShapes /\ ScanShapes /\ Connecting => TypeOK
  BY DEF TypeOK, ConnFlags, ScanFlags, ConnShapes, ScanShapes, Connecting

LEMMA ViewsAre == ASSUME ConnFlags PROVE ConnectionAgrees <=> Views /\ Sited
<1>1. ((conn = "connected") = sta) <=> (sta <=> (conn = "connected"))
  BY Zenon DEF ConnFlags
<1>2. (sta = assoc) <=> (assoc <=> sta)
  BY Zenon DEF ConnFlags
<1>3. (assoc = link) <=> (link <=> assoc)
  BY Zenon DEF ConnFlags
<1>4. (link = info) <=> (info <=> link)
  BY Zenon DEF ConnFlags
<1>5. ConnectionAgrees <=> /\ (conn = "connected") = sta
                           /\ sta = assoc /\ assoc = link /\ link = info
                           /\ Sited
  BY Zenon DEF ConnectionAgrees, Sited
<1>6. Views <=> /\ sta <=> (conn = "connected")
                /\ assoc <=> sta
                /\ link <=> assoc
                /\ info <=> link
  BY DEF Views
<1>7. QED
  BY <1>1, <1>2, <1>3, <1>4, <1>5, <1>6, Zenon

LEMMA PartiesAgree == Parties /\ Scans => ConnInv
<1> SUFFICES ASSUME Parties, Scans PROVE ConnInv
  OBVIOUS
<1>1. TypeOK /\ ConnectionAgrees
  BY TypesAre, ViewsAre DEF Parties, Scans
<1>2. StationsMatch
  BY DEF Parties, StationsKnown, StationsMatch
<1>3. portid \in Requests \cup {None} /\ None \notin Requests
      /\ asked \subseteq Requests /\ dropped \subseteq Requests /\ lost \subseteq Requests
  BY ConnAssumption DEF Parties, ConnShapes
<1>4. RequestsAnswered
  <2>1. asked = Recorded \cup {r \in Requests : results[r] = 1} \cup dropped \cup lost
    BY <1>3 DEF Parties, Answered, Recorded
  <2> QED BY <1>3, <2>1 DEF Parties, Answered, RequestsAnswered
<1>5. QED
  BY <1>1, <1>2, <1>4 DEF ConnInv

LEMMA InitParties == Init => Parties /\ Scans
<1> SUFFICES ASSUME Init PROVE Parties /\ Scans
  OBVIOUS
<1>1. ConnFlags /\ ScanFlags
  BY Zenon DEF Init, ConnFlags, ScanFlags
<1>2. ConnShapes /\ ScanShapes
  BY ConnAssumption DEF Init, ConnShapes, ScanShapes
<1>3. ~sta /\ ~assoc /\ ~link /\ ~info /\ conn = "disconnected"
  BY DEF Init
<1>4. Views
  BY <1>3 DEF Views
<1>a. Connecting
  BY Zenon DEF Init, Connecting
<1>b. Answered
  BY ConnAssumption DEF Init, Answered
<1>5. Sited /\ StationsKnown /\ Connecting /\ Answered /\ Calm /\ scanner # "sw"
  BY <1>3, <1>a, <1>b DEF Init, Sited, StationsKnown, Calm
<1>6. QED
  BY <1>1, <1>2, <1>4, <1>5 DEF Parties, Scans

-----------------------------------------------------------------------------
(* What a step is to the parties of a connection.                          *)
Begins(r) ==
    /\ reg = "up" /\ caller = None /\ conn = "disconnected"
    /\ r \notin asked /\ asked' = asked \cup {r}
    /\ bssid' \in APs \cup {None} /\ freq' = None /\ portid' = r /\ caller' = r
    /\ UNCHANGED <<reg, conn, sta, assoc, link, info, stations, tuned, results, dropped, lost,
                   late>>

Tunes ==
    /\ caller # None /\ ~tuned
    /\ \/ ConnectFailed /\ caller' = None /\ UNCHANGED tuned
       \/ /\ bssid' \in APs /\ freq' \in Freqs /\ tuned' = TRUE
          /\ UNCHANGED <<conn, portid, sta, assoc, link, info, stations, caller, results>>
    /\ UNCHANGED <<reg, asked, dropped, lost, late>>

Authenticates ==
    /\ bssid # None
    /\ conn' = "authenticating"
    /\ UpdateWirelessInfo
    /\ UNCHANGED <<bssid, freq, portid, sta, assoc, link, stations, results>>

Finishes ==
    /\ tuned /\ tuned' = FALSE /\ caller' = None
    /\ \/ ConnectFailed /\ UNCHANGED late
       \/ Authenticates /\ late' = (late \/ reg # "up")
    /\ UNCHANGED <<reg, asked, dropped, lost>>

Replies ==
    /\ \/ conn \in {"authenticating", "associating"} /\ ConnectFailed
       \/ /\ conn = "authenticating" /\ conn' = "associating"
          /\ UNCHANGED <<bssid, freq, portid, sta, assoc, link, info, stations, results>>
       \/ conn = "associating" /\ ConnectComplete
    /\ UNCHANGED <<reg, caller, tuned, asked, dropped, lost, late>>

Ends ==
    /\ DisconnectLocal
    /\ reg' = reg \/ (reg = "up" /\ reg' = "leaving")
    /\ UNCHANGED <<caller, tuned, asked, results, late>>

Frees ==
    /\ reg = "stopped" /\ reg' = "none" /\ caller = None
    /\ conn' = "disconnected"
    /\ sta' = FALSE /\ assoc' = FALSE /\ link' = FALSE /\ info' = FALSE
    /\ ClearConnectParams
    /\ lost' = lost \cup Recorded
    /\ UNCHANGED <<stations, caller, tuned, asked, results, dropped, late>>

Passes ==
    /\ \/ reg' = reg
       \/ reg \in {"none", "netdev", "vif"} /\ reg' \in {"none", "netdev", "vif", "up"}
       \/ reg = "up" /\ reg' = "leaving" /\ conn = "disconnected"
       \/ reg = "leaving" /\ reg' = "stopped"
    /\ link' = link \/ (reg = "vif" /\ link' = FALSE)
    /\ UNCHANGED <<conn, bssid, freq, portid, sta, assoc, info, stations, caller, tuned, asked,
                   results, dropped, lost, late>>

Moves ==
    \/ \E r \in Requests : Begins(r)
    \/ Tunes \/ Finishes \/ Replies \/ Ends \/ Frees \/ Passes

LEMMA TuneConnectIs ==
  ASSUME Parties, Scans, TuneConnect
  PROVE  Tunes
<1>1. CASE ConnectFailed /\ caller' = None /\ UNCHANGED tuned
  BY <1>1 DEF TuneConnect, Tunes
<1>2. CASE ~(ConnectFailed /\ caller' = None /\ UNCHANGED tuned)
  <2>1. PICK s \in SelectBss(bssid) :
           /\ bssid' = IF bssid = None THEN s ELSE bssid
           /\ freq' = FreqOf[s]
           /\ tuned' = TRUE
           /\ UNCHANGED <<conn, portid, sta, assoc, link, info, stations, caller, results>>
    BY <1>2 DEF TuneConnect
  <2>2. s \in APs /\ (bssid # None => bssid \in APs)
    BY DEF SelectBss, Parties, Scans, ConnShapes, ScanShapes
  <2>3. bssid' \in APs /\ freq' \in Freqs
    BY <2>1, <2>2, ConnAssumption
  <2> QED BY <2>1, <2>3 DEF TuneConnect, Tunes
<1> QED BY <1>1, <1>2

LEMMA NextMoves == Parties /\ Scans /\ [Next]_vars => Moves
<1> SUFFICES ASSUME Parties, Scans, [Next]_vars PROVE Moves
  OBVIOUS
<1> USE DEF connVars, scanVars, callVars, histVars
<1>1. ASSUME NEW r \in Requests, NEW ap \in APs \cup {None}, BeginConnect(r, ap)
      PROVE  Begins(r)
  BY <1>1 DEF BeginConnect, Begins
<1>2. CASE TuneConnect \/ FinishConnect
  <2>1. FinishConnect => Finishes
    BY DEF FinishConnect, Finishes, Authenticates
  <2> QED BY <1>2, <2>1, TuneConnectIs DEF Moves
<1>3. CASE Disconnect \/ DriverDisconnect \/ \E ap \in APs : HandleDisconnectRx(ap)
  <2>1. Ends
    BY <1>3 DEF Disconnect, DriverDisconnect, HandleDisconnectRx, Ends
  <2>2. QED
    BY <2>1 DEF Moves
<1>4. CASE Reply
  <2>1. Replies
    BY <1>4 DEF Reply, HandleAuthRx, HandleAssocRx, Replies
  <2>2. QED
    BY <2>1 DEF Moves
<1>5. CASE Unregister
  <2>1. Ends \/ Passes
    BY <1>5 DEF Unregister, Ends, Passes
  <2>2. QED
    BY <2>1 DEF Moves
<1>6. CASE FreeRuntime
  <2>1. Frees
    BY <1>6 DEF FreeRuntime, Frees
  <2>2. QED
    BY <2>1 DEF Moves
<1>7. CASE RegisterNetdev \/ AddInterface \/ StartHw \/ StopHw
  <2>1. Passes
    BY <1>7 DEF RegisterNetdev, AddInterface, StartHw, StopHw, Passes
  <2>2. QED
    BY <2>1 DEF Moves
<1>8. CASE \/ \E ap \in APs : HandleBeaconRx(ap)
           \/ TriggerScan \/ SwScanEnds \/ ScanCompleted
           \/ \E f \in Freqs : SwScanHop(f)
           \/ UNCHANGED vars
  <2>1. Passes
    BY <1>8 DEF HandleBeaconRx, TriggerScan, SwScanEnds, ScanCompleted, SwScanHop, vars, Passes
  <2>2. QED
    BY <2>1 DEF Moves
<1>9. QED
  BY <1>1, <1>2, <1>3, <1>4, <1>5, <1>6, <1>7, <1>8 DEF Next, Moves

-----------------------------------------------------------------------------
(* What the three ends of a handler do to the flags.                       *)
LEMMA FailedFlags ==
  ASSUME ConnFlags, ConnectFailed
  PROVE  ConnFlags' /\ ~link' /\ ~info' /\ (sta' <=> sta) /\ (assoc' <=> assoc)
  BY Zenon DEF ConnFlags, ConnectFailed, UpdateWirelessInfo

LEMMA CompleteFlags ==
  ASSUME ConnectComplete
  PROVE  ConnFlags' /\ sta' /\ assoc' /\ link' /\ info'
  BY Zenon DEF ConnFlags, ConnectComplete, UpdateWirelessInfo

LEMMA LocalFlags ==
  ASSUME DisconnectLocal
  PROVE  ConnFlags' /\ ~sta' /\ ~assoc' /\ ~link' /\ ~info'
  BY Zenon DEF ConnFlags, DisconnectLocal, UpdateWirelessInfo

LEMMA AuthenticatesFlags ==
  ASSUME ConnFlags, Authenticates
  PROVE  ConnFlags' /\ ~info' /\ (sta' <=> sta) /\ (assoc' <=> assoc) /\ (link' <=> link)
  BY Zenon DEF ConnFlags, Authenticates, UpdateWirelessInfo

LEMMA FreesFlags ==
  ASSUME Frees
  PROVE  ConnFlags' /\ ~sta' /\ ~assoc' /\ ~link' /\ ~info'
  BY Zenon DEF ConnFlags, Frees

LEMMA UpAndDown ==
  /\ conn' = "connected" /\ sta' /\ assoc' /\ link' /\ info' => Views'
  /\ conn' # "connected" /\ ~sta' /\ ~assoc' /\ ~link' /\ ~info' => Views'
  BY DEF Views

LEMMA NotConnected ==
  ASSUME Views, conn # "connected"
  PROVE  ~sta /\ ~assoc /\ ~link /\ ~info
  BY DEF Views

LEMMA MovesViews ==
  ASSUME Parties, Moves
  PROVE  ConnFlags' /\ Views'
<1>1. ASSUME NEW r \in Requests, Begins(r) PROVE ConnFlags' /\ Views'
  BY <1>1 DEF Begins, Parties, ConnFlags, Views
<1>a. CASE Tunes
  <2>1. conn # "connected"
    BY <1>a DEF Tunes, Parties, Calm
  <2>2. CASE ConnectFailed
    <3>1. conn' # "connected"
      BY <2>2 DEF ConnectFailed
    <3>2. ConnFlags' /\ ~sta' /\ ~assoc' /\ ~link' /\ ~info'
      BY <2>1, <2>2, NotConnected, FailedFlags, Zenon DEF Parties
    <3> QED BY <3>1, <3>2, UpAndDown
  <2>3. CASE UNCHANGED <<conn, sta, assoc, link, info>>
    BY <2>3 DEF Parties, ConnFlags, Views
  <2> QED BY <1>a, <2>2, <2>3 DEF Tunes
<1>2. CASE Finishes
  <2>1. conn # "connected"
    BY <1>2 DEF Finishes, Parties, Connecting, Calm
  <2>2. conn' # "connected"
    BY <1>2 DEF Finishes, ConnectFailed, Authenticates
  <2>3. ConnectFailed \/ Authenticates
    BY <1>2 DEF Finishes
  <2>4. ConnFlags' /\ ~sta' /\ ~assoc' /\ ~link' /\ ~info'
    BY <2>1, <2>3, NotConnected, FailedFlags, AuthenticatesFlags, Zenon DEF Parties
  <2>5. QED
    BY <2>2, <2>4, UpAndDown
<1>3. CASE Replies
  <2>1. CASE conn \in {"authenticating", "associating"} /\ ConnectFailed
    <3>1. conn # "connected" /\ conn' # "connected"
      BY <2>1 DEF ConnectFailed
    <3>2. ConnFlags' /\ ~sta' /\ ~assoc' /\ ~link' /\ ~info'
      BY <2>1, <3>1, NotConnected, FailedFlags, Zenon DEF Parties
    <3>3. QED
      BY <3>1, <3>2, UpAndDown
  <2>2. CASE /\ conn = "authenticating" /\ conn' = "associating"
             /\ UNCHANGED <<sta, assoc, link, info>>
    BY <2>2 DEF Parties, ConnFlags, Views
  <2>3. CASE ConnectComplete
    <3>1. conn' = "connected"
      BY <2>3 DEF ConnectComplete
    <3>2. QED
      BY <2>3, <3>1, CompleteFlags, UpAndDown
  <2>4. QED
    BY <1>3, <2>1, <2>2, <2>3 DEF Replies
<1>4. CASE Ends
  <2>1. conn' # "connected" /\ DisconnectLocal
    BY <1>4 DEF Ends, DisconnectLocal
  <2>2. QED
    BY <2>1, LocalFlags, UpAndDown
<1>5. CASE Frees
  <2>1. conn' # "connected"
    BY <1>5 DEF Frees
  <2>2. QED
    BY <1>5, <2>1, FreesFlags, UpAndDown
<1>6. CASE Passes
  <2>1. CASE link' = link
    BY <1>6, <2>1 DEF Passes, Parties, ConnFlags, Views
  <2>2. CASE reg = "vif" /\ link' = FALSE
    <3>1. conn # "connected" /\ conn' # "connected" /\ UNCHANGED <<sta, assoc, info>>
      BY <1>6, <2>2 DEF Passes, Parties, Calm
    <3>2. ~sta' /\ ~assoc' /\ ~info' /\ ~link'
      BY <2>2, <3>1, NotConnected DEF Parties
    <3>3. ConnFlags'
      BY <2>2, <3>1, Zenon DEF Parties, ConnFlags
    <3>4. QED
      BY <3>1, <3>2, <3>3, UpAndDown
  <2>3. QED
    BY <1>6, <2>1, <2>2 DEF Passes
<1>7. QED
  BY <1>1, <1>a, <1>2, <1>3, <1>4, <1>5, <1>6 DEF Moves

(* Every disconnection of a station takes back what sta_add gave; only a   *)
(* removal that a late connect ran into frees a station without that.      *)
LEMMA MovesStations ==
  ASSUME Parties, Moves
  PROVE  StationsKnown' /\ stations' \in Nat
<1> USE DEF Parties, StationsKnown, ConnShapes
<1>1. ASSUME NEW r \in Requests, Begins(r) PROVE StationsKnown' /\ stations' \in Nat
  BY <1>1 DEF Begins
<1>2. ASSUME ConnectFailed \/ Authenticates, late => late'
      PROVE  StationsKnown' /\ stations' \in Nat
  <2>1. (sta' <=> sta) /\ stations' = stations
    BY <1>2, FailedFlags, AuthenticatesFlags DEF ConnectFailed, Authenticates
  <2>2. QED
    BY <1>2, <2>1
<1>3. CASE Tunes \/ Finishes
  <2>1. CASE Tunes
    BY <1>2, <2>1 DEF Tunes
  <2>2. CASE Finishes
    <3>1. late => late'
      BY <2>2, Zenon DEF Finishes
    <3> QED BY <1>2, <2>2, <3>1 DEF Finishes
  <2> QED BY <1>3, <2>1, <2>2
<1>4. CASE Replies
  <2>1. CASE ConnectFailed
    BY <1>2, <1>4, <2>1 DEF Replies
  <2>2. CASE UNCHANGED <<sta, stations>>
    BY <1>4, <2>2 DEF Replies
  <2>3. CASE conn = "associating" /\ ConnectComplete
    <3>1. ~sta
      BY <2>3, NotConnected
    <3>2. sta' /\ stations' = stations + 1 /\ late' = late
      BY <1>4, <2>3, CompleteFlags DEF ConnectComplete, Replies
    <3>3. QED
      BY <3>1, <3>2
  <2>4. QED
    BY <1>4, <2>1, <2>2, <2>3 DEF Replies
<1>5. CASE Ends
  <2>1. ~sta' /\ late' = late
    BY <1>5, LocalFlags DEF Ends
  <2>2. stations' = IF sta THEN stations - 1 ELSE stations
    BY <1>5 DEF Ends, DisconnectLocal
  <2>3. QED
    BY <2>1, <2>2
<1>6. CASE Frees
  <2>1. ~sta' /\ stations' = stations /\ late' = late
    BY <1>6, FreesFlags DEF Frees
  <2>2. late \/ ~sta
    BY <1>6, NotConnected DEF Frees, Calm
  <2>3. QED
    BY <2>1, <2>2
<1>7. CASE Passes
  BY <1>7 DEF Passes
<1>8. QED
  BY <1>1, <1>3, <1>4, <1>5, <1>6, <1>7 DEF Moves

(* A handler publishes the result of the recorded request and forgets it,  *)
(* or says that it was dropped.                                            *)
LEMMA MovesAnswered ==
  ASSUME Parties, Moves
  PROVE  ConnShapes' /\ Answered' /\ Sited' /\ Connecting' /\ Calm'
<1> USE ConnAssumption DEF Parties, ConnShapes
<1>0. stations' \in Nat
  BY MovesStations
<1>1. ASSUME NEW r \in Requests, Begins(r)
      PROVE  ConnShapes' /\ Answered' /\ Sited' /\ Connecting' /\ Calm'
  <2>0. portid = None
    BY <1>1 DEF Begins, Answered
  <2>1. ConnShapes'
    BY <1>0, <1>1 DEF Begins
  <2>2. Answered'
    BY <1>1, <2>0 DEF Begins, Answered
  <2>3. Sited' /\ Connecting' /\ Calm'
    BY <1>1 DEF Begins, Sited, Connecting, Calm
  <2>4. QED
    BY <2>1, <2>2, <2>3
<1>2. ASSUME ConnectFailed, caller' = None, UNCHANGED <<reg, asked, dropped, lost, late>>,
             tuned' = FALSE \/ (~tuned /\ UNCHANGED tuned)
      PROVE  ConnShapes' /\ Answered' /\ Sited' /\ Connecting' /\ Calm'
  <2>1. /\ conn' = "disconnected" /\ bssid' = None /\ freq' = None /\ portid' = None
        /\ results' = IF portid = None THEN results
                      ELSE [results EXCEPT ![portid] = @ + 1]
    BY <1>2 DEF ConnectFailed, ClearConnectParams, PublishResult
  <2>2. results' \in [Requests -> Nat]
    BY <2>1
  <2>3. \A r \in Requests :
           /\ r = portid => results[r] = 0 /\ results'[r] = 1
           /\ r # portid => results'[r] = results[r]
    BY <2>1 DEF Answered
  <2>4. Answered'
    BY <1>2, <2>1, <2>3 DEF Answered
  <2>5. ~tuned'
    BY <1>2
  <2>6. QED
    BY <1>0, <1>2, <2>1, <2>2, <2>4, <2>5 DEF Sited, Connecting, Calm
<1>a. CASE Tunes
  <2>1. CASE ConnectFailed /\ caller' = None /\ UNCHANGED tuned
    BY <1>2, <1>a, <2>1 DEF Tunes
  <2>2. CASE /\ bssid' \in APs /\ freq' \in Freqs /\ tuned' = TRUE
             /\ UNCHANGED <<conn, portid, caller, results>>
    <3>1. conn = "disconnected"
      BY <1>a DEF Tunes, Calm
    <3>2. ConnShapes'
      BY <1>0, <1>a, <2>2 DEF Tunes
    <3>3. Answered'
      BY <1>a, <2>2 DEF Tunes, Answered
    <3>4. Sited' /\ Connecting' /\ Calm'
      BY <1>a, <2>2, <3>1 DEF Tunes, Sited, Connecting, Calm
    <3> QED BY <3>2, <3>3, <3>4
  <2> QED BY <1>a, <2>1, <2>2 DEF Tunes
<1>3. CASE Finishes
  <2>1. CASE ConnectFailed /\ UNCHANGED late
    BY <1>2, <1>3, <2>1 DEF Finishes
  <2>2. CASE Authenticates /\ late' = (late \/ reg # "up")
    <3>0. caller # None /\ freq # None /\ conn = "disconnected"
      BY <1>3, <2>2 DEF Finishes, Authenticates, Connecting, Calm
    <3>1. reg = "up" \/ late'
      BY <2>2, Zenon
    <3>2. ConnShapes'
      BY <1>0, <1>3, <2>2 DEF Finishes, Authenticates
    <3>3. Answered'
      BY <1>3, <2>2 DEF Finishes, Authenticates, Answered
    <3>4. Sited' /\ Connecting'
      BY <1>3, <2>2, <3>0 DEF Finishes, Authenticates, Sited, Connecting
    <3>5. Calm'
      BY <1>3, <2>2, <3>0, <3>1 DEF Finishes, Authenticates, Calm
    <3>6. QED
      BY <3>2, <3>3, <3>4, <3>5
  <2>3. QED
    BY <1>3, <2>1, <2>2 DEF Finishes
<1>4. CASE Replies
  <2>1. conn \in {"authenticating", "associating"} /\ caller = None /\ ~tuned
    BY <1>4 DEF Replies, Calm, Connecting
  <2>2. CASE ConnectFailed
    BY <1>2, <1>4, <2>1, <2>2 DEF Replies
  <2>3. CASE /\ conn' = "associating"
             /\ UNCHANGED <<bssid, freq, portid, results>>
    BY <1>0, <1>4, <2>1, <2>3 DEF Replies, Answered, Sited, Connecting, Calm
  <2>4. CASE ConnectComplete
    <3>1. /\ conn' = "connected" /\ portid' = None /\ UNCHANGED <<bssid, freq>>
          /\ results' = IF portid = None THEN results
                        ELSE [results EXCEPT ![portid] = @ + 1]
      BY <2>4 DEF ConnectComplete, PublishResult
    <3>2. /\ results' \in [Requests -> Nat]
          /\ \A r \in Requests :
                /\ r = portid => results[r] = 0 /\ results'[r] = 1
                /\ r # portid => results'[r] = results[r]
      BY <3>1 DEF Answered
    <3>3. Answered'
      BY <1>4, <2>1, <3>1, <3>2 DEF Replies, Answered
    <3>4. QED
      BY <1>0, <1>4, <2>1, <3>1, <3>2, <3>3 DEF Replies, Sited, Connecting, Calm
  <2>5. QED
    BY <1>4, <2>2, <2>3, <2>4 DEF Replies
<1>5. CASE Ends
  <2>1. /\ conn' = "disconnected" /\ bssid' = None /\ freq' = None /\ portid' = None
        /\ dropped' = IF bssid # None THEN dropped \cup Recorded ELSE dropped
        /\ lost' = IF bssid = None THEN lost \cup Recorded ELSE lost
        /\ UNCHANGED <<caller, tuned, asked, results, late>>
        /\ reg' = reg \/ (reg = "up" /\ reg' = "leaving")
    BY <1>5 DEF Ends, DisconnectLocal, ClearConnectParams
  <2>2. Answered'
    BY <2>1 DEF Answered, Recorded
  <2>3. dropped' \subseteq Requests /\ lost' \subseteq Requests
    BY <2>1 DEF Recorded
  <2>4. QED
    BY <1>0, <2>1, <2>2, <2>3 DEF Sited, Connecting, Calm
<1>6. CASE Frees
  <2>1. /\ conn' = "disconnected" /\ bssid' = None /\ freq' = None /\ portid' = None
        /\ lost' = lost \cup Recorded /\ caller = None
        /\ UNCHANGED <<caller, tuned, asked, results, dropped, late>>
    BY <1>6 DEF Frees, ClearConnectParams
  <2>2. Answered' /\ lost' \subseteq Requests
    BY <2>1 DEF Answered, Recorded
  <2> QED BY <1>0, <1>6, <2>1, <2>2 DEF Frees, Sited, Connecting, Calm
<1>7. CASE Passes
  BY <1>0, <1>7 DEF Passes, Answered, Sited, Connecting, Calm
<1>8. QED
  BY <1>1, <1>a, <1>3, <1>4, <1>5, <1>6, <1>7 DEF Moves

-----------------------------------------------------------------------------
(* The scan side.                                                          *)
LEMMA NextScans == ConnFlags /\ ConnShapes /\ Scans /\ [Next]_vars => Scans'
<1> SUFFICES ASSUME ConnFlags, ConnShapes, Scans, [Next]_vars PROVE Scans'
  OBVIOUS
<1> USE ConnAssumption DEF Scans, connVars, scanVars, callVars, histVars
<1>1. ASSUME UNCHANGED <<scanReq, filter, netScan, overlap, scanVars, chan>>,
             late' \in BOOLEAN
      PROVE  Scans'
  <2>1. ScanFlags'
    BY <1>1, Zenon DEF ScanFlags
  <2>2. ScanShapes'
    BY <1>1 DEF ScanShapes
  <2>3. QED
    BY <1>1, <2>1, <2>2
<1>2. CASE TuneConnect
  <2>1. overlap' \in BOOLEAN /\ late' = late
    <3>1. overlap' = overlap \/ overlap' = (overlap \/ scanner = "sw")
      BY <1>2 DEF TuneConnect
    <3>2. late' = late
      BY <1>2 DEF TuneConnect
    <3>3. QED
      BY <3>1, <3>2, Zenon DEF ScanFlags
  <2>2. UNCHANGED scanVars
    BY <1>2 DEF TuneConnect
  <2>3. chan' \in Freqs
    <3>1. SelectBss(bssid) \subseteq APs
      BY DEF SelectBss, ScanShapes, ConnShapes
    <3>2. QED
      BY <1>2, <3>1 DEF TuneConnect, ScanShapes
  <2>4. ScanFlags'
    BY <2>1, <2>2, Zenon DEF ScanFlags
  <2>5. QED
    BY <2>2, <2>3, <2>4 DEF ScanShapes
<1>a. CASE FinishConnect
  <2>1. late' \in BOOLEAN
    <3>1. late' = late \/ late' = (late \/ reg # "up")
      BY <1>a DEF FinishConnect
    <3>2. QED
      BY <3>1, Zenon DEF ScanFlags
  <2>2. UNCHANGED <<scanReq, filter, netScan, overlap, scanVars, chan>>
    BY <1>a DEF FinishConnect
  <2> QED BY <1>1, <2>1, <2>2
<1>3. CASE \/ \E r \in Requests, ap \in APs \cup {None} : BeginConnect(r, ap)
           \/ Disconnect \/ DriverDisconnect \/ Reply
           \/ \E ap \in APs : HandleDisconnectRx(ap)
           \/ RegisterNetdev \/ AddInterface \/ StartHw \/ Unregister \/ StopHw
           \/ UNCHANGED vars
  <2>1. UNCHANGED <<scanReq, filter, netScan, overlap, scanVars, chan, late>>
    BY <1>3 DEF BeginConnect, Disconnect, DriverDisconnect, Reply, HandleAuthRx, HandleAssocRx,
       HandleDisconnectRx, RegisterNetdev, AddInterface, StartHw, Unregister, StopHw, vars
  <2>2. QED
    BY <1>1, <2>1 DEF ScanFlags
<1>4. ASSUME NEW ap \in APs, HandleBeaconRx(ap) PROVE Scans'
  BY <1>4 DEF HandleBeaconRx, ScanFlags, ScanShapes
<1>5. ASSUME NEW f \in Freqs, SwScanHop(f) PROVE Scans'
  BY <1>5 DEF SwScanHop, ScanFlags, ScanShapes
<1>6. CASE TriggerScan
  <2>1. ScanFlags'
    BY <1>6, Zenon DEF TriggerScan, ScanFlags
  <2>2. ScanShapes'
    BY <1>6 DEF TriggerScan, ScanShapes
  <2>3. scanner' = "sw" => saved' # None
    BY <1>6 DEF TriggerScan, ScanShapes
  <2>4. QED
    BY <2>1, <2>2, <2>3
<1>7. CASE SwScanEnds \/ ScanCompleted \/ FreeRuntime
  <2>1. filter' = FALSE /\ netScan' = FALSE /\ scanReq' = FALSE /\ UNCHANGED <<late, overlap>>
    BY <1>7 DEF SwScanEnds, ScanCompleted, FreeRuntime
  <2>2. ScanFlags'
    BY <2>1, Zenon DEF ScanFlags
  <2>3. chan' \in Freqs
    BY <1>7 DEF SwScanEnds, ScanCompleted, FreeRuntime, ScanShapes
  <2>4. QED
    BY <1>7, <2>2, <2>3 DEF SwScanEnds, ScanCompleted, FreeRuntime, ScanShapes
<1>8. QED
  BY <1>2, <1>a, <1>3, <1>4, <1>5, <1>6, <1>7 DEF Next

LEMMA NextParties == Parties /\ Scans /\ [Next]_vars => Parties' /\ Scans'
<1> SUFFICES ASSUME Parties, Scans, [Next]_vars PROVE Parties' /\ Scans'
  OBVIOUS
<1>1. Moves
  BY NextMoves
<1>2. /\ ConnFlags' /\ Views' /\ StationsKnown' /\ ConnShapes'
      /\ Answered' /\ Sited' /\ Connecting' /\ Calm'
  BY <1>1, MovesViews, MovesStations, MovesAnswered
<1>3. Scans'
  BY NextScans DEF Parties
<1>4. QED
  BY <1>2, <1>3 DEF Parties

LEMMA PartiesAlways == Spec => [](Parties /\ Scans)
  BY InitParties, NextParties, PTL DEF Spec

(* connect, disconnect, the replies of an access point, a driver that      *)
(* disconnects at any moment and the removal of the hardware leave the     *)
(* state machine, the station, the vif, the link state and the native      *)
(* stack with one view, give the driver sta_add and sta_remove in turn,    *)
(* and leave each accepted connect request recorded, answered once and in  *)
(* one way, or wiped by one of the two events that `lost` names.           *)
THEOREM PartiesOfOneMind == Spec => []ConnInv
  BY PartiesAlways, PartiesAgree, PTL

-----------------------------------------------------------------------------
ScanViews ==
    /\ scanReq <=> (scanner # "idle")
    /\ filter <=> scanReq
    /\ netScan <=> scanReq

LEMMA ScanViewsAre == ASSUME ScanFlags PROVE ScanAgrees <=> ScanViews
<1>1. (scanReq = (scanner # "idle")) <=> (scanReq <=> (scanner # "idle"))
  BY Zenon DEF ScanFlags
<1>2. (filter = scanReq) <=> (filter <=> scanReq)
  BY Zenon DEF ScanFlags
<1>3. (netScan = scanReq) <=> (netScan <=> scanReq)
  BY Zenon DEF ScanFlags
<1>4. ScanAgrees <=> /\ scanReq = (scanner # "idle")
                     /\ filter = scanReq /\ netScan = scanReq
  BY Zenon DEF ScanAgrees
<1>5. ScanViews <=> /\ scanReq <=> (scanner # "idle")
                    /\ filter <=> scanReq
                    /\ netScan <=> scanReq
  BY DEF ScanViews
<1>6. QED
  BY <1>1, <1>2, <1>3, <1>4, <1>5, Zenon

LEMMA ScanOnOff ==
  /\ scanner' = "idle" /\ ~scanReq' /\ ~filter' /\ ~netScan' => ScanViews'
  /\ scanner' # "idle" /\ scanReq' /\ filter' /\ netScan' => ScanViews'
  BY DEF ScanViews

LEMMA NextScanViews == Scans /\ ScanViews /\ [Next]_vars => ScanViews'
<1> SUFFICES ASSUME Scans, ScanViews, [Next]_vars PROVE ScanViews'
  OBVIOUS
<1> USE DEF connVars, scanVars, callVars, histVars
<1>1. CASE TriggerScan
  <2>1. ~scanReq /\ ~filter /\ ~netScan /\ scanner = "idle"
    BY <1>1 DEF TriggerScan, ScanViews
  <2>2. CASE scanReq' = scanReq /\ scanner' = scanner
    <3>1. netScan' = netScan /\ (filter' = filter \/ filter' = FALSE)
      BY <1>1, <2>1, <2>2 DEF TriggerScan
    <3>2. ~scanReq' /\ ~filter' /\ ~netScan' /\ scanner' = "idle"
      BY <2>1, <2>2, <3>1
    <3>3. QED
      BY <3>2, ScanOnOff
  <2>3. CASE scanReq' = TRUE /\ filter' = TRUE /\ netScan' = TRUE /\ scanner' \in {"hw", "sw"}
    BY <2>3, ScanOnOff
  <2>4. QED
    BY <1>1, <2>2, <2>3 DEF TriggerScan
<1>2. CASE SwScanEnds \/ ScanCompleted \/ FreeRuntime
  <2>1. scanner' = "idle" /\ filter' = FALSE /\ netScan' = FALSE /\ scanReq' = FALSE
    BY <1>2 DEF SwScanEnds, ScanCompleted, FreeRuntime
  <2>2. QED
    BY <2>1, ScanOnOff
<1>3. CASE ~TriggerScan /\ ~(SwScanEnds \/ ScanCompleted \/ FreeRuntime)
  <2>1. UNCHANGED <<scanReq, filter, netScan, scanner>>
    BY <1>3 DEF Next, BeginConnect, TuneConnect, FinishConnect, Disconnect, DriverDisconnect, Reply,
       HandleAuthRx, HandleAssocRx, HandleDisconnectRx, HandleBeaconRx, SwScanHop,
       RegisterNetdev, AddInterface, StartHw, Unregister, StopHw, vars
  <2>2. QED
    BY <2>1 DEF ScanViews
<1>4. QED
  BY <1>1, <1>2, <1>3

LEMMA ScanViewsAlways == Spec => []ScanViews
<1>1. Init => ScanViews
  BY DEF Init, ScanViews
<1>2. QED
  BY <1>1, NextScanViews, PartiesAlways, PTL DEF Spec

(* The scan request, the filter and the scan of the native stack come and  *)
(* go together, through the refusals, the two kinds of scan and removal.   *)
THEOREM ScansAgree == Spec => []ScanAgrees
<1>1. Scans /\ ScanViews => ScanAgrees
  BY ScanViewsAre DEF Scans
<1>2. QED
  BY <1>1, PartiesAlways, ScanViewsAlways, PTL

-----------------------------------------------------------------------------
(* The channel belongs to a connection, or to a connect that has tuned to  *)
(* it and still has its BSSID.  A software scan that began while the radio *)
(* was on that channel puts it back.                                       *)
UsesChannel == conn # "disconnected" \/ (tuned /\ bssid # None)

OnChannelOrSaved ==
    UsesChannel /\ ~overlap =>
        IF scanner = "sw" THEN saved = freq ELSE chan = freq

LEMMA NextOnChannel ==
  Parties /\ Scans /\ ScanViews /\ OnChannelOrSaved /\ [Next]_vars => OnChannelOrSaved'
<1> SUFFICES ASSUME Parties, Scans, ScanViews, OnChannelOrSaved, [Next]_vars PROVE OnChannelOrSaved'
  OBVIOUS
<1> USE DEF connVars, scanVars, callVars, histVars
<1>0. caller = None => ~tuned
  BY DEF Parties, Connecting
<1>1. CASE TuneConnect
  <2>1. CASE ConnectFailed
    BY <2>1 DEF ConnectFailed, ClearConnectParams, UsesChannel, OnChannelOrSaved
  <2>2. CASE ~ConnectFailed
    <3>1. PICK s \in SelectBss(bssid) :
             chan' = FreqOf[s] /\ freq' = FreqOf[s] /\ overlap' = (overlap \/ scanner = "sw")
      BY <1>1, <2>2 DEF TuneConnect
    <3>2. scanner' = scanner
      BY <1>1 DEF TuneConnect
    <3>3. ~overlap' => scanner # "sw"
      BY <3>1, Zenon
    <3>4. QED
      BY <3>1, <3>2, <3>3 DEF OnChannelOrSaved
  <2>3. QED
    BY <2>1, <2>2
<1>a. CASE FinishConnect
  <2>1. CASE ConnectFailed
    BY <1>a, <2>1 DEF ConnectFailed, ClearConnectParams, FinishConnect, UsesChannel, OnChannelOrSaved
  <2>2. CASE ~ConnectFailed
    BY <1>a, <2>2 DEF FinishConnect, UsesChannel, OnChannelOrSaved
  <2> QED BY <2>1, <2>2
<1>2. ASSUME NEW r \in Requests, NEW ap \in APs \cup {None}, BeginConnect(r, ap)
      PROVE  OnChannelOrSaved'
  BY <1>0, <1>2 DEF BeginConnect, UsesChannel, OnChannelOrSaved
<1>3. CASE Disconnect \/ DriverDisconnect \/ FreeRuntime \/ \E ap \in APs : HandleDisconnectRx(ap)
  BY <1>0, <1>3 DEF Disconnect, DriverDisconnect, FreeRuntime, HandleDisconnectRx,
     DisconnectLocal, ClearConnectParams, UsesChannel, OnChannelOrSaved
<1>4. CASE Reply
  <2>1. UNCHANGED <<chan, scanner, saved, overlap, tuned>> /\ conn # "disconnected"
    BY <1>4 DEF Reply, HandleAuthRx, HandleAssocRx
  <2>a. ~tuned
    BY <1>0, <2>1 DEF Parties, Calm
  <2>2. conn' = "disconnected" \/ freq' = freq
    BY <1>4 DEF Reply, HandleAuthRx, HandleAssocRx, ConnectFailed, ConnectComplete
  <2>3. QED
    BY <2>1, <2>2, <2>a DEF UsesChannel, OnChannelOrSaved
<1>5. CASE Unregister
  BY <1>5 DEF Unregister, DisconnectLocal, ClearConnectParams, UsesChannel, OnChannelOrSaved
<1>6. CASE TriggerScan \/ SwScanEnds \/ ScanCompleted \/ \E f \in Freqs : SwScanHop(f)
  <2>1. UNCHANGED <<conn, freq, overlap, UsesChannel>>
    BY <1>6 DEF TriggerScan, SwScanEnds, ScanCompleted, SwScanHop, UsesChannel
  <2>2. CASE TriggerScan
    <3>1. scanner # "sw"
      BY <2>2 DEF TriggerScan, ScanViews
    <3>2. chan' = chan /\ (UNCHANGED <<saved, scanner>> \/ scanner' = "hw" \/ saved' = chan)
      BY <2>2 DEF TriggerScan
    <3>3. QED
      BY <2>1, <2>2, <3>1, <3>2 DEF OnChannelOrSaved, TriggerScan
  <2>3. CASE SwScanEnds \/ ScanCompleted \/ \E f \in Freqs : SwScanHop(f)
    BY <2>1, <2>3 DEF SwScanEnds, ScanCompleted, SwScanHop, OnChannelOrSaved
  <2>4. QED
    BY <1>6, <2>2, <2>3
<1>7. CASE \/ \E ap \in APs : HandleBeaconRx(ap)
           \/ RegisterNetdev \/ AddInterface \/ StartHw \/ StopHw \/ UNCHANGED vars
  BY <1>7 DEF HandleBeaconRx, RegisterNetdev, AddInterface, StartHw, StopHw, vars,
     UsesChannel, OnChannelOrSaved
<1>8. QED
  BY <1>1, <1>a, <1>2, <1>3, <1>4, <1>5, <1>6, <1>7 DEF Next

(* Outside a software scan the radio stands on the channel of the          *)
(* connection: run_sw_scan puts back the channel it found, unless a        *)
(* connect has set another one in the meantime.                            *)
THEOREM RadioOnChannel == Spec => []OnChannel
<1>1. Init => OnChannelOrSaved
  BY DEF Init, UsesChannel, OnChannelOrSaved
<1>2. OnChannelOrSaved => OnChannel
  BY DEF UsesChannel, OnChannelOrSaved, OnChannel
<1>3. QED
  BY <1>1, <1>2, NextOnChannel, PartiesAlways, ScanViewsAlways, PTL DEF Spec
=============================================================================
