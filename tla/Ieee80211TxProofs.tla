-------------------------- MODULE Ieee80211TxProofs --------------------------
(***************************************************************************)
(* A theorem about Ieee80211Tx, for any frames, contexts of the driver and *)
(* number of stations.  The argument follows each frame on its way: there  *)
(* is a map from frames to places that agrees with every variable in which *)
(* a frame can be, and each step changes the map at the frames it moves.   *)
(***************************************************************************)
EXTENDS Ieee80211Tx, FiniteSetTheorems, TLAPS

(* Where a frame can be; "none" until it is built.  For a frame in a queue *)
(* or in a status call, the number of the queue or the caller goes with it.*)
Places == {"none", "send", "queue", "driver", "call", "work", "lost", "freed"}

Once(s) == \A i, j \in 1 .. Len(s) : s[i] = s[j] => i = j

(* Types, which frames a step in progress has, and that a work of system_wq*)
(* that runs or waits still has its frame, or has just freed it.           *)
TxTypes ==
    /\ sender \in [at : {"idle", "pick", "put"}, skb : Frames \cup {None}, queue : Queues]
    /\ sender.skb = None => sender = Idle
    /\ sender.at = "idle" => sender = Idle
    /\ stations \in 0 .. MaxStations /\ station \in 0 .. stations
    /\ txq \in [Queues -> Seq(Frames)]
    /\ \A q \in Queues : Once(txq[q])
    /\ pc \in [Contexts -> {"idle", "alloc", "queue"}]
    /\ skb \in [Contexts -> Frames \cup {None}]
    /\ \A c \in Contexts : pc[c] # "idle" => skb[c] \in Frames
    /\ atDriver \subseteq Frames /\ sent \subseteq Frames
    /\ freed \in [Frames -> Nat]
    /\ pending \subseteq txs /\ txs \subseteq Frames /\ running \subseteq Frames
    /\ pending \cap running = {}
    /\ \A c \in Contexts : pc[c] = "queue" => skb[c] \in txs
    /\ \A f \in running : f \in txs \/ freed[f] # 0

InCall(c, f) == pc[c] # "idle" /\ skb[c] = f
InWork(f)    == f \in pending \/ (f \in running /\ f \in txs)

(* Frame f is at place p, with x, and nowhere else.                        *)
StandsAt(f, p, x) ==
    /\ p \in Places
    /\ p = "none" <=> f \notin sent
    /\ p = "send" <=> sender.skb = f
    /\ p = "driver" <=> f \in atDriver
    /\ p = "work" <=> InWork(f)
    /\ p = "lost" <=> f \in stranded
    /\ p = "freed" <=> freed[f] = 1
    /\ p # "freed" <=> freed[f] = 0
    /\ \A q \in Queues : f \in ToSet(txq[q]) <=> p = "queue" /\ x = q
    /\ \A c \in Contexts : InCall(c, f) <=> p = "call" /\ x = c
    /\ p = "queue" => x \in Queues
    /\ p = "call" => x \in Contexts

(* The map agrees with the state.                                          *)
Located(at, by) == \A f \in Frames : StandsAt(f, at[f], by[f])

TxInv == TxTypes /\ \E at, by : Located(at, by)

-----------------------------------------------------------------------------
(* A queue that a frame joins or leaves (skb_queue_tail, skb_dequeue).     *)
LEMMA Joins ==
  ASSUME NEW s \in Seq(Frames), Once(s), NEW f \in Frames, f \notin ToSet(s)
  PROVE  /\ Append(s, f) \in Seq(Frames) /\ Once(Append(s, f))
         /\ ToSet(Append(s, f)) = ToSet(s) \cup {f}
  BY DEF ToSet, Once

LEMMA Leaves ==
  ASSUME NEW s \in Seq(Frames), Once(s), s # <<>>
  PROVE  /\ Tail(s) \in Seq(Frames) /\ Once(Tail(s))
         /\ Head(s) \in Frames /\ Head(s) \in ToSet(s)
         /\ ToSet(Tail(s)) = ToSet(s) \ {Head(s)}
<1>1. /\ Tail(s) \in Seq(Frames) /\ Len(Tail(s)) = Len(s) - 1 /\ Len(s) \in Nat \ {0}
      /\ \A i \in 1 .. Len(s) - 1 : Tail(s)[i] = s[i + 1]
      /\ Head(s) = s[1]
  OBVIOUS
<1>2. Once(Tail(s))
  BY <1>1 DEF Once
<1>3. Head(s) \in Frames /\ Head(s) \in ToSet(s)
  BY <1>1 DEF ToSet
<1>4. ASSUME NEW f \in ToSet(Tail(s)) PROVE f \in ToSet(s) \ {Head(s)}
  <2>1. PICK i \in 1 .. Len(s) - 1 : f = s[i + 1]
    BY <1>1 DEF ToSet
  <2>2. QED
    BY <1>1, <2>1 DEF ToSet, Once
<1>5. ASSUME NEW f \in ToSet(s) \ {Head(s)} PROVE f \in ToSet(Tail(s))
  <2>1. PICK i \in 1 .. Len(s) : f = s[i]
    BY DEF ToSet
  <2>2. i \in Nat /\ i # 1 /\ i - 1 \in 1 .. Len(s) - 1
    BY <1>1, <2>1
  <2>3. f = Tail(s)[i - 1] /\ i - 1 \in 1 .. Len(Tail(s))
    <3>1. Tail(s)[i - 1] = s[(i - 1) + 1] /\ (i - 1) + 1 = i
      BY <1>1, <2>2
    <3>2. QED
      BY <1>1, <2>1, <2>2, <3>1
  <2>4. \A t \in Seq(Frames) : \A j \in 1 .. Len(t) : t[j] \in ToSet(t)
    BY DEF ToSet
  <2>5. QED
    BY <1>1, <2>3, <2>4
<1>6. QED
  BY <1>1, <1>2, <1>3, <1>4, <1>5

LEMMA TxInitInv == TxInit => TxInv
<1> SUFFICES ASSUME TxInit PROVE TxInv
  OBVIOUS
<1>1. TxTypes
  BY TxAssumption DEF TxInit, Init, Works!Init, TxTypes, Idle, Queues, Once
<1>2. \A f \in Frames : StandsAt(f, "none", 0)
  <2>1. sender.skb = None /\ None \notin Frames
    BY TxAssumption DEF TxInit, Idle
  <2>2. \A q \in Queues : ToSet(txq[q]) = {}
    BY DEF TxInit, ToSet
  <2>3. ASSUME NEW f \in Frames
        PROVE  freed[f] = 0 /\ ~InWork(f) /\ \A c \in Contexts : ~InCall(c, f)
    BY DEF TxInit, Init, Works!Init, InCall, InWork
  <2>4. sent = {} /\ atDriver = {} /\ stranded = {}
    BY DEF TxInit
  <2>5. ASSUME NEW f \in Frames PROVE StandsAt(f, "none", 0)
    <3>1. freed[f] = 0 /\ ~InWork(f) /\ sender.skb # f
      BY <2>1, <2>3
    <3>2. \A q \in Queues : ~(f \in ToSet(txq[q]))
      BY <2>2
    <3>3. \A c \in Contexts : ~InCall(c, f)
      BY <2>3
    <3>4. QED
      BY <2>4, <3>1, <3>2, <3>3 DEF StandsAt, Places
  <2>6. QED
    BY <2>5
<1>3. Located([f \in Frames |-> "none"], [f \in Frames |-> 0])
  BY <1>2 DEF Located
<1>4. QED
  BY <1>1, <1>3 DEF TxInv

(* A step that moves one frame and leaves what concerns the others alone.  *)
LEMMA MovesOne ==
  ASSUME NEW at, NEW by, NEW g \in Frames, NEW p, NEW x,
         StandsAt(g, p, x)', \A f \in Frames : f # g => StandsAt(f, at[f], by[f])'
  PROVE  \E to, tb : Located(to, tb)'
<1> DEFINE to == [f \in Frames |-> IF f = g THEN p ELSE at[f]]
           tb == [f \in Frames |-> IF f = g THEN x ELSE by[f]]
<1>1. ASSUME NEW f \in Frames PROVE StandsAt(f, to[f], tb[f])'
  <2>1. CASE f = g
    BY <2>1, to[f] = p, tb[f] = x
  <2>2. CASE f # g
    BY <2>2, to[f] = at[f], tb[f] = by[f]
  <2>3. QED
    BY <2>1, <2>2
<1> HIDE DEF to, tb
<1>2. Located(to, tb)'
  BY <1>1 DEF Located
<1>3. QED
  BY <1>2

-----------------------------------------------------------------------------
(* The send in progress.                                                   *)
LEMMA BuildKeeps ==
  ASSUME TxInv, NEW g \in Frames, Build(g) \/ SendMgmt(g)
  PROVE  TxInv'
<1>1. PICK at, by : Located(at, by)
  BY DEF TxInv
<1>2. UNCHANGED <<statusVars, freed, txq, stranded, station, stations>>
  BY DEF Build, SendMgmt, Same
<1>3. sent' = sent \cup {g} /\ g \notin sent
  BY DEF Build, SendMgmt
<1>4. CASE Build(g)
  <2>1. sender = Idle /\ sender' = [at |-> "pick", skb |-> g, queue |-> 0] /\ atDriver' = atDriver
    BY <1>4 DEF Build
  <2>2. sender'.skb = g /\ sender.skb = None /\ None \notin Frames
    BY <2>1, TxAssumption DEF Idle
  <2>3. TxTypes'
    BY <1>2, <1>3, <2>1, TxAssumption DEF TxInv, TxTypes, statusVars, Queues, Idle
  <2>4. StandsAt(g, "send", 0)'
    BY <1>1, <1>2, <1>3, <2>1, <2>2 DEF Located, StandsAt, Places, statusVars, InCall, InWork
  <2>5. \A f \in Frames : f # g => StandsAt(f, at[f], by[f])'
    BY <1>1, <1>2, <1>3, <2>1, <2>2 DEF Located, StandsAt, statusVars, InCall, InWork
  <2>6. QED
    BY <2>3, <2>4, <2>5, MovesOne DEF TxInv
<1>5. CASE SendMgmt(g)
  <2>1. sender' = sender /\ atDriver' = atDriver \cup {g}
    BY <1>5 DEF SendMgmt
  <2>2. TxTypes'
    BY <1>2, <1>3, <2>1 DEF TxInv, TxTypes, statusVars
  <2>3. StandsAt(g, "driver", 0)'
    BY <1>1, <1>2, <1>3, <2>1 DEF Located, StandsAt, Places, statusVars, InCall, InWork
  <2>4. \A f \in Frames : f # g => StandsAt(f, at[f], by[f])'
    BY <1>1, <1>2, <1>3, <2>1 DEF Located, StandsAt, statusVars, InCall, InWork
  <2>5. QED
    BY <2>2, <2>3, <2>4, MovesOne DEF TxInv
<1>6. QED
  BY <1>4, <1>5

LEMMA PickKeeps == ASSUME TxInv, PickTxq PROVE TxInv'
<1>1. PICK at, by : Located(at, by)
  BY DEF TxInv
<1>2. /\ sender' = [sender EXCEPT !.at = "put", !.queue = station] /\ station \in Queues
      /\ sender.at = "pick"
      /\ sender \in [at : {"idle", "pick", "put"}, skb : Frames \cup {None}, queue : Queues]
  BY TxAssumption DEF PickTxq, TxInv, TxTypes, Queues
<1>3. sender'.skb = sender.skb /\ sender'.at = "put" /\ sender.skb # None
  BY <1>2 DEF TxInv, TxTypes, Idle
<1>4. UNCHANGED <<statusVars, freed, txq, stranded, station, stations, sent, atDriver>>
  BY DEF PickTxq, Same
<1>5. TxTypes'
  BY <1>2, <1>3, <1>4 DEF TxInv, TxTypes, statusVars
<1>6. \A f \in Frames : StandsAt(f, at[f], by[f])'
  BY <1>1, <1>3, <1>4 DEF Located, StandsAt, statusVars, InCall, InWork
<1>7. QED
  BY <1>5, <1>6 DEF TxInv, Located

LEMMA PutKeeps == ASSUME TxInv, Put PROVE TxInv'
<1>0. PICK g, q : g = sender.skb /\ q = sender.queue
  OBVIOUS
<1>1. PICK at, by : Located(at, by)
  BY DEF TxInv
<1>2. g \in Frames /\ q \in Queues
  BY <1>0 DEF Put, TxInv, TxTypes, Idle
<1>3. sender' = Idle /\ UNCHANGED <<station, stations, sent, statusVars, freed>>
  BY DEF Put, Same
<1>4. sender'.skb = None /\ None \notin Frames
  BY <1>3, TxAssumption DEF Idle
<1>5. \/ atDriver' = atDriver \cup {g} /\ UNCHANGED <<txq, stranded>>
      \/ stranded' = stranded \cup {g} /\ UNCHANGED <<txq, atDriver>>
      \/ txq' = [txq EXCEPT ![q] = Append(@, g)] /\ UNCHANGED <<atDriver, stranded>>
  BY <1>0 DEF Put
<1>6. \A f \in Frames : sender.skb = f <=> f = g
  BY <1>0
<1>7. StandsAt(g, "send", by[g])
  BY <1>1, <1>2, <1>6 DEF Located, StandsAt
<1>8. CASE atDriver' = atDriver \cup {g} /\ UNCHANGED <<txq, stranded>>
  <2>1. TxTypes'
    BY <1>2, <1>3, <1>8, TxAssumption DEF TxInv, TxTypes, statusVars, Queues, Idle
  <2>2. StandsAt(g, "driver", 0)'
    BY <1>2, <1>3, <1>4, <1>7, <1>8 DEF StandsAt, Places, statusVars, InCall, InWork
  <2>3. \A f \in Frames : f # g => StandsAt(f, at[f], by[f])'
    BY <1>1, <1>3, <1>4, <1>6, <1>8 DEF Located, StandsAt, statusVars, InCall, InWork
  <2>4. QED
    BY <1>2, <2>1, <2>2, <2>3, MovesOne DEF TxInv
<1>9. CASE stranded' = stranded \cup {g} /\ UNCHANGED <<txq, atDriver>>
  <2>1. TxTypes'
    BY <1>2, <1>3, <1>9, TxAssumption DEF TxInv, TxTypes, statusVars, Queues, Idle
  <2>2. StandsAt(g, "lost", 0)'
    BY <1>2, <1>3, <1>4, <1>7, <1>9 DEF StandsAt, Places, statusVars, InCall, InWork
  <2>3. \A f \in Frames : f # g => StandsAt(f, at[f], by[f])'
    BY <1>1, <1>3, <1>4, <1>6, <1>9 DEF Located, StandsAt, statusVars, InCall, InWork
  <2>4. QED
    BY <1>2, <2>1, <2>2, <2>3, MovesOne DEF TxInv
<1>10. CASE txq' = [txq EXCEPT ![q] = Append(@, g)] /\ UNCHANGED <<atDriver, stranded>>
  <2>1. txq \in [Queues -> Seq(Frames)] /\ \A p \in Queues : Once(txq[p])
    BY DEF TxInv, TxTypes
  <2>2. g \notin ToSet(txq[q])
    BY <1>2, <1>7 DEF StandsAt
  <2>3. /\ Append(txq[q], g) \in Seq(Frames) /\ Once(Append(txq[q], g))
        /\ ToSet(Append(txq[q], g)) = ToSet(txq[q]) \cup {g}
    BY <1>2, <2>1, <2>2, Joins
  <2>4. /\ txq' \in [Queues -> Seq(Frames)] /\ \A p \in Queues : Once(txq'[p])
        /\ \A p \in Queues : ToSet(txq'[p]) =
              IF p = q THEN ToSet(txq[p]) \cup {g} ELSE ToSet(txq[p])
    BY <1>2, <1>10, <2>1, <2>3
  <2>5. TxTypes'
    BY <1>2, <1>3, <1>10, <2>4, TxAssumption DEF TxInv, TxTypes, statusVars, Queues, Idle
  <2>6. StandsAt(g, "queue", q)'
    BY <1>2, <1>3, <1>4, <1>7, <1>10, <2>4 DEF StandsAt, Places, statusVars, InCall, InWork
  <2>7. ASSUME NEW f \in Frames, f # g PROVE StandsAt(f, at[f], by[f])'
    <3>1. \A p \in Queues : f \in ToSet(txq'[p]) <=> f \in ToSet(txq[p])
      BY <2>4, <2>7
    <3>2. QED
      BY <1>1, <1>3, <1>4, <1>6, <1>10, <2>7, <3>1
      DEF Located, StandsAt, statusVars, InCall, InWork
  <2>8. QED
    BY <1>2, <2>5, <2>6, <2>7, MovesOne DEF TxInv
<1>11. QED
  BY <1>5, <1>8, <1>9, <1>10

-----------------------------------------------------------------------------
(* ieee80211_tx_dequeue takes a frame from a queue.                        *)
LEMMA DequeueKeeps ==
  ASSUME TxInv, NEW q \in Queues, TxDequeue(q)
  PROVE  TxInv'
<1>1. PICK at, by : Located(at, by)
  BY DEF TxInv
<1>2. PICK g : g = Head(txq[q])
  OBVIOUS
<1>3. txq \in [Queues -> Seq(Frames)] /\ (\A p \in Queues : Once(txq[p])) /\ txq[q] # <<>>
  BY DEF TxDequeue, TxInv, TxTypes
<1>4. /\ Tail(txq[q]) \in Seq(Frames) /\ Once(Tail(txq[q]))
      /\ g \in Frames /\ g \in ToSet(txq[q])
      /\ ToSet(Tail(txq[q])) = ToSet(txq[q]) \ {g}
  BY <1>2, <1>3, Leaves
<1>5. /\ txq' = [txq EXCEPT ![q] = Tail(txq[q])] /\ atDriver' = atDriver \cup {g}
      /\ UNCHANGED <<station, stations, sender, sent, stranded, statusVars, freed>>
  BY <1>2, <1>3 DEF TxDequeue, Same
<1>6. /\ txq' \in [Queues -> Seq(Frames)] /\ \A p \in Queues : Once(txq'[p])
      /\ \A p \in Queues : ToSet(txq'[p]) =
            IF p = q THEN ToSet(txq[p]) \ {g} ELSE ToSet(txq[p])
  BY <1>3, <1>4, <1>5
<1>7. TxTypes'
  BY <1>4, <1>5, <1>6 DEF TxInv, TxTypes, statusVars
<1>8. StandsAt(g, "queue", q)
  BY <1>1, <1>4 DEF Located, StandsAt
<1>9. StandsAt(g, "driver", 0)'
  <2>1. \A p \in Queues : ~(g \in ToSet(txq'[p]))
    BY <1>4, <1>6, <1>8 DEF StandsAt
  <2>2. QED
    BY <1>4, <1>5, <1>8, <2>1 DEF StandsAt, Places, statusVars, InCall, InWork
<1>10. ASSUME NEW f \in Frames, f # g PROVE StandsAt(f, at[f], by[f])'
  <2>1. \A p \in Queues : f \in ToSet(txq'[p]) <=> f \in ToSet(txq[p])
    BY <1>6, <1>10
  <2>2. QED
    BY <1>1, <1>5, <1>10, <2>1 DEF Located, StandsAt, statusVars, InCall, InWork
<1>11. QED
  BY <1>4, <1>7, <1>9, <1>10, MovesOne DEF TxInv

(* A step that frees one frame, which is at place p: ieee80211_free_txskb, *)
(* the error paths of a status call and its work.                          *)
LEMMA FreesOne ==
  ASSUME TxInv, NEW at, NEW by, Located(at, by), NEW g \in Frames,
         freed[g] = 0, freed' = [freed EXCEPT ![g] = @ + 1]
  PROVE  \A f \in Frames : freed'[f] = IF f = g THEN 1 ELSE freed[f]
  BY DEF TxInv, TxTypes

LEMMA DropKeeps ==
  ASSUME TxInv, NEW g \in Frames, DriverDrops(g)
  PROVE  TxInv'
<1>1. PICK at, by : Located(at, by)
  BY DEF TxInv
<1>2. /\ g \in atDriver /\ atDriver' = atDriver \ {g}
      /\ freed' = [freed EXCEPT ![g] = @ + 1]
      /\ UNCHANGED <<station, stations, sender, sent, stranded, txq, statusVars>>
  BY DEF DriverDrops, Free
<1>3. StandsAt(g, "driver", by[g])
  BY <1>1, <1>2 DEF Located, StandsAt
<1>4. \A f \in Frames : freed'[f] = IF f = g THEN 1 ELSE freed[f]
  BY <1>1, <1>2, <1>3, FreesOne DEF StandsAt
<1>5. TxTypes'
  BY <1>2, <1>4 DEF TxInv, TxTypes, statusVars
<1>6. StandsAt(g, "freed", 0)'
  BY <1>2, <1>3, <1>4 DEF StandsAt, Places, statusVars, InCall, InWork
<1>7. \A f \in Frames : f # g => StandsAt(f, at[f], by[f])'
  BY <1>1, <1>2, <1>4 DEF Located, StandsAt, statusVars, InCall, InWork
<1>8. QED
  BY <1>5, <1>6, <1>7, MovesOne DEF TxInv

(* A status call begins: ieee80211_tx_status_irqsafe.                      *)
LEMMA ReportKeeps ==
  ASSUME TxInv, NEW c \in Contexts, NEW g \in Frames, DriverReports(c, g)
  PROVE  TxInv'
<1>1. PICK at, by : Located(at, by)
  BY DEF TxInv
<1>2. /\ g \in atDriver /\ atDriver' = atDriver \ {g} /\ pc[c] = "idle"
      /\ skb' = [skb EXCEPT ![c] = g] /\ pc' = [pc EXCEPT ![c] = "alloc"]
      /\ UNCHANGED <<station, stations, sender, sent, stranded, txq, pending, running, txs, freed>>
  BY DEF DriverReports, TxStatusIrqsafe, Goto
<1>3. StandsAt(g, "driver", by[g])
  BY <1>1, <1>2 DEF Located, StandsAt
<1>4. \A b \in Contexts, f \in Frames : InCall(b, f)' <=> IF b = c THEN f = g ELSE InCall(b, f)
  BY <1>2 DEF InCall, TxInv, TxTypes
<1>5. \A f \in Frames : ~InCall(c, f)
  BY <1>2 DEF InCall
<1>6. TxTypes'
  BY <1>2 DEF TxInv, TxTypes
<1>7. StandsAt(g, "call", c)'
  BY <1>2, <1>3, <1>4 DEF StandsAt, Places, InWork
<1>8. ASSUME NEW f \in Frames, f # g PROVE StandsAt(f, at[f], by[f])'
  <2>1. \A b \in Contexts : InCall(b, f)' <=> InCall(b, f)
    BY <1>4, <1>5, <1>8
  <2>2. QED
    BY <1>1, <1>2, <1>8, <2>1 DEF Located, StandsAt, InWork
<1>9. QED
  BY <1>6, <1>7, <1>8, MovesOne DEF TxInv

-----------------------------------------------------------------------------
(* lcompat_ieee80211_free_sta and free_vif purge a queue: all its frames   *)
(* are freed where they stand.                                             *)
LEMMA PurgeKeeps ==
  ASSUME TxInv, NEW q \in Queues,
         Frees(ToSet(txq[q])), txq' = [txq EXCEPT ![q] = <<>>],
         station' \in 0 .. stations,
         UNCHANGED <<stations, sender, atDriver, sent, stranded, statusVars>>
  PROVE  TxInv'
<1>1. PICK at, by : Located(at, by)
  BY DEF TxInv
<1>2. /\ txq' \in [Queues -> Seq(Frames)] /\ \A p \in Queues : Once(txq'[p])
      /\ \A p \in Queues : ToSet(txq'[p]) = IF p = q THEN {} ELSE ToSet(txq[p])
  <2>1. <<>> \in Seq(Frames) /\ Once(<<>>) /\ ToSet(<<>>) = {}
    BY DEF Once, ToSet
  <2>2. txq \in [Queues -> Seq(Frames)] /\ \A p \in Queues : Once(txq[p])
    BY DEF TxInv, TxTypes
  <2>3. QED
    BY <2>1, <2>2
<1>3. \A f \in Frames : f \in ToSet(txq[q]) <=> at[f] = "queue" /\ by[f] = q
  BY <1>1 DEF Located, StandsAt
<1>4. \A f \in Frames : f \in ToSet(txq[q]) => freed[f] = 0
  BY <1>1 DEF Located, StandsAt
<1>5. /\ freed' \in [Frames -> Nat]
      /\ \A f \in Frames : freed'[f] = IF f \in ToSet(txq[q]) THEN 1 ELSE freed[f]
  BY <1>4 DEF Frees, TxInv, TxTypes
<1>6. TxTypes'
  BY <1>2, <1>5 DEF TxInv, TxTypes, statusVars
<1>7. PICK H \in SUBSET Frames : H = {f \in Frames : f \in ToSet(txq[q])}
  OBVIOUS
<1>8. ASSUME NEW f \in H PROVE StandsAt(f, "freed", by[f])'
  <2>1. f \in Frames /\ at[f] = "queue" /\ by[f] = q /\ freed'[f] = 1
    BY <1>3, <1>5, <1>7
  <2>2. \A p \in Queues : ~(f \in ToSet(txq'[p]))
    BY <1>1, <1>2, <2>1 DEF Located, StandsAt
  <2>3. QED
    BY <1>1, <2>1, <2>2 DEF Located, StandsAt, Places, statusVars, InCall, InWork
<1>9. ASSUME NEW f \in Frames \ H PROVE StandsAt(f, at[f], by[f])'
  <2>1. freed'[f] = freed[f] /\ \A p \in Queues : f \in ToSet(txq'[p]) <=> f \in ToSet(txq[p])
    BY <1>2, <1>5, <1>7
  <2>2. QED
    BY <1>1, <2>1 DEF Located, StandsAt, statusVars, InCall, InWork
<1>10. PICK tm : tm = [f \in Frames |-> IF f \in H THEN "freed" ELSE at[f]]
  OBVIOUS
<1>11. Located(tm, by)'
  <2>1. ASSUME NEW f \in Frames PROVE StandsAt(f, tm[f], by[f])'
    <3>1. CASE f \in H
      <4>1. tm[f] = "freed"
        BY <1>10, <3>1
      <4>2. QED
        BY <1>8, <3>1, <4>1
    <3>2. CASE f \notin H
      <4>1. tm[f] = at[f]
        BY <1>10, <3>2
      <4>2. QED
        BY <1>9, <3>2, <4>1
    <3>3. QED
      BY <3>1, <3>2
  <2>2. QED
    BY <2>1 DEF Located
<1>12. QED
  BY <1>6, <1>11 DEF TxInv

LEMMA TeardownKeeps ==
  ASSUME TxInv, FreeSta \/ FreeVif \/ AllocSta \/ StopTx
  PROVE  TxInv'
<1>1. PICK at, by : Located(at, by)
  BY DEF TxInv
<1>2. CASE FreeSta
  <2>1. station \in Queues /\ station' \in 0 .. stations
    BY <1>2, TxAssumption DEF FreeSta, TxInv, TxTypes, Queues
  <2>2. PICK q : q = station
    OBVIOUS
  <2>3. /\ Frees(ToSet(txq[q])) /\ txq' = [txq EXCEPT ![q] = <<>>]
        /\ UNCHANGED <<stations, sender, atDriver, sent, stranded, statusVars>>
    BY <1>2, <2>2 DEF FreeSta
  <2>4. QED
    BY <2>1, <2>2, <2>3, PurgeKeeps
<1>3. CASE FreeVif
  <2>1. 0 \in Queues /\ station' \in 0 .. stations
    BY <1>3, TxAssumption DEF FreeVif, TxInv, TxTypes, Queues
  <2>2. /\ Frees(ToSet(txq[0])) /\ txq' = [txq EXCEPT ![0] = <<>>]
        /\ UNCHANGED <<stations, sender, atDriver, sent, stranded, statusVars>>
    BY <1>3 DEF FreeVif
  <2>3. QED
    BY <2>1, <2>2, PurgeKeeps
<1>4. CASE AllocSta \/ StopTx
  <2>1. UNCHANGED <<txq, sender, atDriver, sent, stranded, statusVars, freed>>
    BY <1>4 DEF AllocSta, StopTx, Same
  <2>2. stations' \in 0 .. MaxStations /\ station' \in 0 .. stations'
    BY <1>4, TxAssumption DEF AllocSta, StopTx, TxInv, TxTypes
  <2>3. TxTypes'
    BY <2>1, <2>2 DEF TxInv, TxTypes, statusVars
  <2>4. Located(at, by)'
    BY <1>1, <2>1 DEF Located, StandsAt, statusVars, InCall, InWork
  <2>5. QED
    BY <2>3, <2>4 DEF TxInv
<1>5. QED
  BY <1>2, <1>3, <1>4

-----------------------------------------------------------------------------
(* The status call: the work is allocated, then queued, or the frame is    *)
(* freed on the spot.                                                      *)
LEMMA AllocWorkKeeps ==
  ASSUME TxInv, NEW c \in Contexts, AllocWork(c), UNCHANGED pathVars
  PROVE  TxInv'
<1>1. PICK at, by : Located(at, by)
  BY DEF TxInv
<1>2. PICK g \in Frames : g = skb[c]
  BY DEF AllocWork, TxInv, TxTypes
<1>3. /\ pc[c] = "alloc" /\ pc' = [pc EXCEPT ![c] = "queue"] /\ txs' = txs \cup {g}
      /\ UNCHANGED <<pending, running, skb, freed>>
      /\ UNCHANGED <<station, stations, txq, sender, atDriver, sent, stranded>>
  BY <1>2 DEF AllocWork, Goto, pathVars
<1>4. StandsAt(g, "call", c)
  <2>1. InCall(c, g)
    BY <1>2, <1>3 DEF InCall
  <2>2. QED
    BY <1>1, <1>2, <2>1 DEF Located, StandsAt
<1>5. g \notin pending /\ g \notin running
  BY <1>4 DEF StandsAt, InWork, TxInv, TxTypes
<1>6. \A b \in Contexts, f \in Frames : InCall(b, f)' <=> InCall(b, f)
  BY <1>3 DEF InCall, TxInv, TxTypes
<1>7. \A f \in Frames : InWork(f)' <=> InWork(f)
  BY <1>3, <1>5 DEF InWork
<1>8. TxTypes'
  BY <1>2, <1>3, <1>5 DEF TxInv, TxTypes
<1>9. \A f \in Frames : StandsAt(f, at[f], by[f])'
  BY <1>1, <1>3, <1>6, <1>7 DEF Located, StandsAt
<1>10. QED
  BY <1>8, <1>9 DEF TxInv, Located

(* The frame leaves the call that had it, with no work in between.         *)
LEMMA CallLeaves ==
  ASSUME TxInv, NEW c \in Contexts, NEW g \in Frames, InCall(c, g),
         NEW at, NEW by, Located(at, by),
         pc' = [pc EXCEPT ![c] = "idle"], skb' = skb
  PROVE  /\ StandsAt(g, "call", c)
         /\ g \notin pending /\ g \notin running
         /\ \A b \in Contexts : ~InCall(b, g)'
         /\ \A b \in Contexts, f \in Frames : f # g => (InCall(b, f)' <=> InCall(b, f))
<1>1. StandsAt(g, "call", c)
  BY DEF Located, StandsAt
<1>2. g \notin pending /\ g \notin running
  BY <1>1 DEF StandsAt, InWork, TxInv, TxTypes
<1>3. \A b \in Contexts : b # c => ~InCall(b, g)
  BY <1>1 DEF StandsAt
<1>4. \A b \in Contexts, f \in Frames : InCall(b, f)' <=> b # c /\ InCall(b, f)
  BY DEF InCall, TxInv, TxTypes
<1>5. \A f \in Frames : f # g => ~InCall(c, f)
  BY DEF InCall
<1>6. QED
  BY <1>1, <1>2, <1>3, <1>4, <1>5

LEMMA CallFreesKeeps ==
  ASSUME TxInv, NEW c \in Contexts, AllocFails(c) \/ QueueRefused(c), UNCHANGED pathVars
  PROVE  TxInv'
<1>1. PICK at, by : Located(at, by)
  BY DEF TxInv
<1>2. PICK g \in Frames : g = skb[c]
  BY DEF AllocFails, QueueRefused, TxInv, TxTypes
<1>3. /\ pc[c] # "idle" /\ pc' = [pc EXCEPT ![c] = "idle"]
      /\ freed' = [freed EXCEPT ![g] = @ + 1]
      /\ UNCHANGED <<pending, running, skb>>
      /\ UNCHANGED <<station, stations, txq, sender, atDriver, sent, stranded>>
  BY <1>2 DEF AllocFails, QueueRefused, Goto, Free, pathVars
<1>4. \/ txs' = txs /\ pc[c] = "alloc"
      \/ txs' = txs \ {g} /\ pc[c] = "queue"
  BY <1>2 DEF AllocFails, QueueRefused
<1>5. InCall(c, g)
  BY <1>2, <1>3 DEF InCall
<1>6. /\ StandsAt(g, "call", c)
      /\ g \notin pending /\ g \notin running
      /\ \A b \in Contexts : ~InCall(b, g)'
      /\ \A b \in Contexts, f \in Frames : f # g => (InCall(b, f)' <=> InCall(b, f))
  BY <1>1, <1>3, <1>5, CallLeaves
<1>7. \A f \in Frames : freed'[f] = IF f = g THEN 1 ELSE freed[f]
  BY <1>1, <1>3, <1>6, FreesOne DEF StandsAt
<1>8. \A f \in Frames : InWork(f)' <=> InWork(f)
  BY <1>3, <1>4, <1>6 DEF InWork
<1>9. \A b \in Contexts : pc'[b] = "queue" => skb'[b] \in txs'
  <2> SUFFICES ASSUME NEW b \in Contexts, pc'[b] = "queue" PROVE skb'[b] \in txs'
    OBVIOUS
  <2>1. pc[b] = "queue" /\ skb'[b] = skb[b] /\ skb[b] \in txs /\ skb[b] \in Frames
    BY <1>3 DEF TxInv, TxTypes
  <2>2. ~InCall(b, g)'
    BY <1>6
  <2>3. skb[b] # g
    BY <1>3, <2>2 DEF InCall
  <2>4. QED
    BY <1>4, <2>1, <2>3
<1>10. TxTypes'
  BY <1>2, <1>3, <1>4, <1>6, <1>7, <1>9 DEF TxInv, TxTypes
<1>11. StandsAt(g, "freed", 0)'
  BY <1>2, <1>3, <1>6, <1>7, <1>8 DEF StandsAt, Places
<1>12. \A f \in Frames : f # g => StandsAt(f, at[f], by[f])'
  BY <1>1, <1>3, <1>6, <1>7, <1>8 DEF Located, StandsAt
<1>13. QED
  BY <1>2, <1>10, <1>11, <1>12, MovesOne DEF TxInv

LEMMA QueueWorkKeeps ==
  ASSUME TxInv, NEW c \in Contexts, QueueWork(c), UNCHANGED pathVars
  PROVE  TxInv'
<1>1. PICK at, by : Located(at, by)
  BY DEF TxInv
<1>2. PICK g \in Frames : g = skb[c]
  BY DEF QueueWork, TxInv, TxTypes
<1>3. /\ pc[c] = "queue" /\ pc' = [pc EXCEPT ![c] = "idle"]
      /\ pending' = pending \cup {g}
      /\ UNCHANGED <<running, skb, txs, freed>>
      /\ UNCHANGED <<station, stations, txq, sender, atDriver, sent, stranded>>
  BY <1>2 DEF QueueWork, Works!Accept, Goto, pathVars
<1>4. InCall(c, g)
  BY <1>2, <1>3 DEF InCall
<1>5. /\ StandsAt(g, "call", c)
      /\ g \notin pending /\ g \notin running
      /\ \A b \in Contexts : ~InCall(b, g)'
      /\ \A b \in Contexts, f \in Frames : f # g => (InCall(b, f)' <=> InCall(b, f))
  BY <1>1, <1>3, <1>4, CallLeaves
<1>6. \A f \in Frames : InWork(f)' <=> f = g \/ InWork(f)
  BY <1>3 DEF InWork
<1>7. g \in txs
  BY <1>2, <1>3 DEF TxInv, TxTypes
<1>8. TxTypes'
  BY <1>2, <1>3, <1>5, <1>7 DEF TxInv, TxTypes
<1>9. StandsAt(g, "work", 0)'
  BY <1>2, <1>3, <1>5, <1>6 DEF StandsAt, Places
<1>10. \A f \in Frames : f # g => StandsAt(f, at[f], by[f])'
  BY <1>1, <1>3, <1>5, <1>6 DEF Located, StandsAt
<1>11. QED
  BY <1>2, <1>8, <1>9, <1>10, MovesOne DEF TxInv

(* The work: the worker starts it, its function frees frame and work, the  *)
(* worker is done with it.                                                 *)
LEMMA WorkKeeps ==
  ASSUME TxInv, NEW g \in Frames, WorkStep(g), UNCHANGED pathVars
  PROVE  TxInv'
<1>1. PICK at, by : Located(at, by)
  BY DEF TxInv
<1>2. UNCHANGED <<station, stations, txq, sender, atDriver, sent, stranded, pc, skb>>
  BY DEF WorkStep, WorkStarts, TxStatusWork, WorkFinishes, pathVars
<1>3. \A b \in Contexts, f \in Frames : InCall(b, f)' <=> InCall(b, f)
  BY <1>2 DEF InCall
<1>4. CASE WorkStarts(g) \/ WorkFinishes(g)
  <2>1. UNCHANGED <<txs, freed>>
    BY <1>4 DEF WorkStarts, WorkFinishes
  <2>2. \/ g \in pending /\ pending' = pending \ {g} /\ running' = running \cup {g}
        \/ g \notin txs /\ pending' = pending /\ running' = running \ {g}
    BY <1>4 DEF WorkStarts, WorkFinishes, Works!Start, Works!Finish
  <2>3. \A f \in Frames : InWork(f)' <=> InWork(f)
    BY <2>1, <2>2 DEF InWork, TxInv, TxTypes
  <2>4. TxTypes'
    BY <1>2, <2>1, <2>2 DEF TxInv, TxTypes
  <2>5. \A f \in Frames : StandsAt(f, at[f], by[f])'
    BY <1>1, <1>2, <1>3, <2>1, <2>3 DEF Located, StandsAt
  <2>6. QED
    BY <2>4, <2>5 DEF TxInv, Located
<1>5. CASE TxStatusWork(g)
  <2>1. /\ g \in running /\ g \in txs /\ txs' = txs \ {g}
        /\ freed' = [freed EXCEPT ![g] = @ + 1]
        /\ UNCHANGED <<pending, running>>
    BY <1>5 DEF TxStatusWork, Free
  <2>2. StandsAt(g, "work", by[g])
    BY <1>1, <2>1 DEF Located, StandsAt, InWork
  <2>3. \A f \in Frames : freed'[f] = IF f = g THEN 1 ELSE freed[f]
    BY <1>1, <2>1, <2>2, FreesOne DEF StandsAt
  <2>4. g \notin pending
    BY <2>1 DEF TxInv, TxTypes
  <2>5. \A f \in Frames : InWork(f)' <=> f # g /\ InWork(f)
    BY <2>1, <2>4 DEF InWork
  <2>6. \A c \in Contexts : pc[c] = "queue" => skb[c] # g
    <3>1. \A c \in Contexts : ~InCall(c, g)
      BY <2>2 DEF StandsAt
    <3>2. QED
      BY <3>1 DEF InCall
  <2>7. TxTypes'
    BY <1>2, <2>1, <2>3, <2>4, <2>6 DEF TxInv, TxTypes
  <2>8. StandsAt(g, "freed", 0)'
    BY <1>2, <1>3, <2>2, <2>3, <2>5 DEF StandsAt, Places
  <2>9. \A f \in Frames : f # g => StandsAt(f, at[f], by[f])'
    BY <1>1, <1>2, <1>3, <2>3, <2>5 DEF Located, StandsAt
  <2>10. QED
    BY <2>7, <2>8, <2>9, MovesOne DEF TxInv
<1>6. QED
  BY <1>4, <1>5 DEF WorkStep

LEMMA TxNextInv == TxInv /\ [TxNext]_txVars => TxInv'
<1> SUFFICES ASSUME TxInv, [TxNext]_txVars PROVE TxInv'
  OBVIOUS
<1>1. CASE StatusStep
  BY <1>1, AllocWorkKeeps, CallFreesKeeps, QueueWorkKeeps, WorkKeeps DEF StatusStep, CallStep
<1>2. CASE DriverStep
  BY <1>2, DequeueKeeps, DropKeeps, ReportKeeps DEF DriverStep
<1>3. CASE UNCHANGED txVars
  <2>1. PICK at, by : Located(at, by)
    BY DEF TxInv
  <2>2. Located(at, by)' /\ TxTypes'
    BY <1>3, <2>1 DEF txVars, vars, pathVars, Located, StandsAt, InCall, InWork, TxInv, TxTypes
  <2>3. QED
    BY <2>2 DEF TxInv
<1>4. QED
  BY <1>1, <1>2, <1>3, BuildKeeps, PickKeeps, PutKeeps, TeardownKeeps DEF TxNext, SendStep

-----------------------------------------------------------------------------
(* How the places are counted.                                             *)
LEMMA OneStand ==
  ASSUME NEW f \in Frames, NEW p, NEW x, StandsAt(f, p, x)
  PROVE  Count(sender.skb = f)
           + Cardinality({q \in Queues : f \in ToSet(txq[q])})
           + Count(f \in atDriver)
           + Cardinality({c \in Contexts : pc[c] # "idle" /\ skb[c] = f})
           + Count(f \in pending \/ (f \in running /\ f \in txs))
           + Count(f \in stranded)
           + freed[f]  =  Count(f \in sent)
<1> DEFINE QS == {q \in Queues : f \in ToSet(txq[q])}
           CS == {c \in Contexts : pc[c] # "idle" /\ skb[c] = f}
<1>1. Cardinality(QS) = IF p = "queue" THEN 1 ELSE 0
  <2>1. p = "queue" => QS = {x}
    BY DEF StandsAt
  <2>2. p # "queue" => QS = {}
    BY DEF StandsAt
  <2> HIDE DEF QS
  <2>3. QED
    BY <2>1, <2>2, FS_EmptySet, FS_Singleton
<1>2. Cardinality(CS) = IF p = "call" THEN 1 ELSE 0
  <2>1. p = "call" => CS = {x}
    BY DEF StandsAt, InCall
  <2>2. p # "call" => CS = {}
    BY DEF StandsAt, InCall
  <2> HIDE DEF CS
  <2>3. QED
    BY <2>1, <2>2, FS_EmptySet, FS_Singleton
<1>3. /\ Count(sender.skb = f) = IF p = "send" THEN 1 ELSE 0
      /\ Count(f \in atDriver) = IF p = "driver" THEN 1 ELSE 0
      /\ Count(f \in pending \/ (f \in running /\ f \in txs)) = IF p = "work" THEN 1 ELSE 0
      /\ Count(f \in stranded) = IF p = "lost" THEN 1 ELSE 0
      /\ freed[f] = IF p = "freed" THEN 1 ELSE 0
      /\ Count(f \in sent) = IF p = "none" THEN 0 ELSE 1
  BY DEF StandsAt, InWork, Count
<1>4. p \in Places
  BY DEF StandsAt
<1> HIDE DEF QS, CS
<1>5. Count(sender.skb = f) + Cardinality(QS) + Count(f \in atDriver) + Cardinality(CS)
        + Count(f \in pending \/ (f \in running /\ f \in txs)) + Count(f \in stranded)
        + freed[f]  =  Count(f \in sent)
  BY <1>1, <1>2, <1>3, <1>4 DEF Places
<1>6. QED
  BY <1>5 DEF QS, CS

(* A transmitted frame is held in exactly one place and freed once, when   *)
(* sends, dequeues, status reports, their work, disconnections and removal *)
(* come in any order; a frame is lost only in a station's queue that was   *)
(* freed between the choice of the queue and its use.                      *)
THEOREM OneHolder == TxSpec => []FrameHasOneHolder
<1>1. TxInv => FrameHasOneHolder
  BY OneStand DEF TxInv, Located, FrameHasOneHolder
<1>2. QED
  BY <1>1, TxInitInv, TxNextInv, PTL DEF TxSpec
=============================================================================
