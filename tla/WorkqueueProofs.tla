--------------------------- MODULE WorkqueueProofs ---------------------------
(***************************************************************************)
(* Theorems about Workqueue and, after them, DelayedWork, for any number   *)
(* of queues, works, threads and calls: the types, the one owner of a      *)
(* QUEUED bit, wq->active, the wake-up of a worker, the RUNNING bit, and   *)
(* the contract.  Each has an invariant of its own, shown from the types   *)
(* and those before it.                                                    *)
(***************************************************************************)
EXTENDS DelayedWork, FiniteSetTheorems, TLAPS

(* Unlinking a node leaves a list of works, one shorter.                   *)
LEMMA WithoutIsSeq ==
  ASSUME NEW S, NEW s \in Seq(S), NEW p \in 1 .. Len(s)
  PROVE  /\ Without(s, p) \in Seq(S)
         /\ Len(Without(s, p)) = Len(s) - 1
         /\ \A i \in 1 .. Len(s) - 1 :
               Without(s, p)[i] = IF i < p THEN s[i] ELSE s[i + 1]
  BY DEF Without

LEMMA InitTypeOK == Init => TypeOK
  BY WorkqueueAssumption
  DEF Init, TypeOK, Types, WorkerPlaced, CallPlaced, Threads, ClientPcs, WorkerPcs, CallPcs, BusyPcs

(* The steps that create or destroy, one conjunct of TypeOK at a time.      *)
LEMMA CreateWorkerTypeOK ==
  ASSUME TypeOK, NEW t \in Threads, CreateWorker(t)
  PROVE  TypeOK'
<1>1. PICK k \in Workers :
         /\ home[k] = None
         /\ home' = [home EXCEPT ![k] = wqArg[t]]
         /\ task' = [task EXCEPT ![t] = k]
         /\ pc' = [pc EXCEPT ![t] = "publish", ![k] = "pop"]
  BY DEF CreateWorker
<1>2. pc[t] = "create" /\ pc[k] = "off" /\ t # k /\ wqArg[t] \in Queues
  BY <1>1 DEF CreateWorker, At, TypeOK, Types, WorkerPlaced, CallPlaced, CallPcs
<1>3. Types'
  BY <1>1, <1>2 DEF CreateWorker, TypeOK, Types, Threads, queueVars, workVars,
     workerVars, ClientPcs, WorkerPcs, CallPcs
<1>4. ASSUME NEW u \in Clients PROVE pc'[u] \in ClientPcs
  BY <1>1, <1>2, WorkqueueAssumption DEF TypeOK, Types, Threads, ClientPcs, CallPcs
<1>5. ASSUME NEW j \in Workers PROVE WorkerPlaced(j)'
  <2>1. cur' = cur
    BY DEF CreateWorker, workerVars
  <2>2. CASE j = k
    BY <1>1, <1>2, <2>1, <2>2, WorkqueueAssumption
    DEF TypeOK, Types, WorkerPlaced, Threads, WorkerPcs, CallPcs, BusyPcs
  <2>3. CASE j = t
    BY <1>1, <1>2, <2>1, <2>3
    DEF TypeOK, Types, WorkerPlaced, Threads, WorkerPcs, CallPcs, BusyPcs
  <2>4. CASE j # k /\ j # t
    BY <1>1, <1>2, <2>1, <2>4 DEF TypeOK, Types, WorkerPlaced, Threads
  <2>5. QED
    BY <2>2, <2>3, <2>4
<1>6. ASSUME NEW u \in Threads PROVE CallPlaced(u)'
  <2>1. arg' = arg /\ wqArg' = wqArg
    BY DEF CreateWorker
  <2>2. CASE u = k
    BY <1>1, <1>2, <2>1, <2>2
    DEF TypeOK, Types, CallPlaced, Threads, CallPcs
  <2>3. CASE u = t
    BY <1>1, <1>2, <2>1, <2>3, WorkqueueAssumption
    DEF TypeOK, Types, CallPlaced, Threads, CallPcs
  <2>4. CASE u # k /\ u # t
    BY <1>1, <1>2, <2>1, <2>4 DEF TypeOK, Types, CallPlaced, Threads
  <2>5. QED
    BY <2>2, <2>3, <2>4
<1>7. QED
  BY <1>3, <1>4, <1>5, <1>6 DEF TypeOK

LEMMA RemoveWorkTypeOK ==
  ASSUME TypeOK, NEW t \in Threads, RemoveWork(t)
  PROVE  TypeOK'
<1> DEFINE w == arg[t]
           q == wqArg[t]
<1>1. w \in Works /\ q \in Queues /\ pc[t] = "remove"
  BY DEF RemoveWork, At, TypeOK, Types, CallPlaced
<1>2. list' \in [Queues -> Seq(Works)]
  <2>1. CASE list' = list
    BY <2>1 DEF TypeOK, Types
  <2>2. CASE \E p \in 1 .. Len(list[q]) : list' = [list EXCEPT ![q] = Without(@, p)]
    BY <1>1, <2>2, WithoutIsSeq DEF TypeOK, Types
  <2>3. QED
    BY <2>1, <2>2 DEF RemoveWork
<1>3. /\ wwq' \in [Works -> Queues \cup {None}]
      /\ canceled' \in [Threads -> BOOLEAN]
  BY <1>1 DEF RemoveWork, TypeOK, Types
<1>4. pc' = [pc EXCEPT ![t] = "unmark"] \/ pc' = [pc EXCEPT ![t] = "await"]
  BY DEF RemoveWork, Goto
<1>5. Types'
  BY <1>2, <1>3, <1>4
  DEF RemoveWork, TypeOK, Types, startVars, workerVars, ClientPcs
<1>6. ASSUME NEW u \in Clients PROVE pc'[u] \in ClientPcs
  BY <1>4 DEF TypeOK, Types, Threads, ClientPcs
<1>7. ASSUME NEW j \in Workers PROVE WorkerPlaced(j)'
  <2>1. j # t
    BY <1>1 DEF TypeOK, WorkerPlaced, WorkerPcs, CallPcs, BusyPcs
  <2>2. pc'[j] = pc[j] /\ home' = home /\ cur' = cur
    BY <1>4, <2>1 DEF RemoveWork, startVars, workerVars, TypeOK, Types, Threads
  <2>3. QED
    BY <2>2 DEF TypeOK, WorkerPlaced
<1>8. ASSUME NEW u \in Threads PROVE CallPlaced(u)'
  BY <1>1, <1>4, WorkqueueAssumption
  DEF RemoveWork, TypeOK, Types, CallPlaced, CallPcs
<1>9. QED
  BY <1>5, <1>6, <1>7, <1>8 DEF TypeOK

LEMMA ClaimWorkTypeOK ==
  ASSUME TypeOK, NEW k \in Workers, ClaimWork(k)
  PROVE  TypeOK'
<1>1. cur[k] \in Works /\ pc[k] = "claim"
  BY DEF ClaimWork, At, TypeOK, Types, WorkerPlaced, BusyPcs
<1>2. state' \in [Works -> SUBSET {"QUEUED", "RUNNING"}]
  <2>1. CASE state' = state
    BY <2>1 DEF TypeOK, Types
  <2>2. CASE state' = [state EXCEPT ![cur[k]] = {"RUNNING"}]
    BY <1>1, <2>2 DEF TypeOK, Types
  <2>3. QED
    BY <2>1, <2>2 DEF ClaimWork
<1>3. \/ pc' = [pc EXCEPT ![k] = "enter"] /\ cur[k] \in DelayedWorks
      \/ pc' = [pc EXCEPT ![k] = "func"]
      \/ pc' = [pc EXCEPT ![k] = "settle"]
  BY DEF ClaimWork, Goto
<1>4. UNCHANGED <<home, cur, arg, wqArg, task>>
  BY DEF ClaimWork, startVars, callVars, workerVars
<1>5. Types'
  BY <1>2, <1>3 DEF ClaimWork, TypeOK, Types, queueVars, startVars, callVars,
     workerVars, WorkerPcs, BusyPcs
<1>6. ASSUME NEW u \in Clients PROVE pc'[u] \in ClientPcs
  <2>1. u # k
    BY WorkqueueAssumption
  <2>2. pc'[u] = pc[u]
    BY <1>3, <2>1 DEF TypeOK, Types, Threads
  <2>3. QED
    BY <2>2 DEF TypeOK
<1>7. ASSUME NEW j \in Workers PROVE WorkerPlaced(j)'
  BY <1>1, <1>3, <1>4
  DEF TypeOK, Types, Threads, WorkerPlaced, WorkerPcs, CallPcs, BusyPcs
<1>8. ASSUME NEW u \in Threads PROVE CallPlaced(u)'
  BY <1>3, <1>4 DEF TypeOK, Types, Threads, CallPlaced, CallPcs
<1>9. QED
  BY <1>5, <1>6, <1>7, <1>8 DEF TypeOK

LEMMA PopWorkTypeOK ==
  ASSUME TypeOK, NEW k \in Workers, PopWork(k)
  PROVE  TypeOK'
<1> DEFINE q == home[k]
<1>1. q \in Queues /\ pc[k] = "pop"
  BY DEF PopWork, At, TypeOK, Types, WorkerPlaced
<1>2. list[q] \in Seq(Works) /\ list[q] # <<>>
  BY <1>1 DEF PopWork, TypeOK, Types
<1>3. Head(list[q]) \in Works /\ Tail(list[q]) \in Seq(Works)
  BY <1>2
<1>4. /\ cur' = [cur EXCEPT ![k] = Head(list[q])]
      /\ pc' = [pc EXCEPT ![k] = "claim"]
      /\ UNCHANGED <<home, arg, wqArg, task>>
  BY DEF PopWork, Goto, startVars, callVars
<1>5. Types'
  <2>1. list' \in [Queues -> Seq(Works)]
    BY <1>1, <1>3 DEF PopWork, TypeOK, Types
  <2>2. active' \in [Queues -> Nat] /\ waiting' \in [Queues -> BOOLEAN]
    BY <1>1 DEF PopWork, TypeOK, Types
  <2>3. pc' \in [Threads -> ClientPcs \cup WorkerPcs]
    BY <1>4 DEF TypeOK, Types, WorkerPcs, BusyPcs
  <2>4. cur' \in [Workers -> Works \cup {None}]
    BY <1>3, <1>4 DEF TypeOK, Types
  <2>5. QED
    BY <2>1, <2>2, <2>3, <2>4
    DEF PopWork, TypeOK, Types, startVars, workVars, callVars
<1>6. ASSUME NEW u \in Clients PROVE pc'[u] \in ClientPcs
  <2>1. u # k
    BY WorkqueueAssumption
  <2>2. pc'[u] = pc[u]
    BY <1>4, <2>1 DEF TypeOK, Types, Threads
  <2>3. QED
    BY <2>2 DEF TypeOK
<1>7. ASSUME NEW j \in Workers PROVE WorkerPlaced(j)'
  BY <1>1, <1>3, <1>4, WorkqueueAssumption
  DEF TypeOK, Types, Threads, WorkerPlaced, WorkerPcs, CallPcs, BusyPcs
<1>8. ASSUME NEW u \in Threads PROVE CallPlaced(u)'
  BY <1>4 DEF TypeOK, Types, Threads, CallPlaced, CallPcs
<1>9. QED
  BY <1>5, <1>6, <1>7, <1>8 DEF TypeOK

LEMMA NextTypeOK == TypeOK /\ [Next]_vars => TypeOK'
<1> SUFFICES ASSUME TypeOK, [Next]_vars PROVE TypeOK'
  OBVIOUS
<1> USE WorkqueueAssumption
    DEF TypeOK, Types, WorkerPlaced, CallPlaced, Threads, ClientPcs, WorkerPcs, CallPcs, BusyPcs, At, Goto,
        Return, TaskUnblock,
        queueVars, startVars, workVars, callVars, workerVars
<1>1. ASSUME NEW t \in Threads, NEW q \in Queues, NEW w \in Works, QueueWork(t, q, w)
      PROVE TypeOK'
  BY <1>1 DEF QueueWork, EnterQueueWork
<1>2. ASSUME NEW t \in Threads, EnsureWorker(t) PROVE TypeOK'
  BY <1>2 DEF EnsureWorker
<1>3. ASSUME NEW t \in Threads, ElectStarter(t) PROVE TypeOK'
  BY <1>3 DEF ElectStarter
<1>4. ASSUME NEW t \in Threads, SpinForStarter(t) PROVE TypeOK'
  BY <1>4 DEF SpinForStarter
<1>5. ASSUME NEW t \in Threads, SpinResult(t) PROVE TypeOK'
  BY <1>5 DEF SpinResult
<1>6. ASSUME NEW t \in Threads, CreateWorker(t) PROVE TypeOK'
  BY <1>6, CreateWorkerTypeOK
<1>7. ASSUME NEW t \in Threads, CreateFails(t) PROVE TypeOK'
  BY <1>7 DEF CreateFails
<1>8. ASSUME NEW t \in Threads, PublishWorker(t) PROVE TypeOK'
  BY <1>8 DEF PublishWorker
<1>9. ASSUME NEW t \in Threads, EndStarting(t) PROVE TypeOK'
  BY <1>9 DEF EndStarting
<1>10. ASSUME NEW t \in Threads, MarkQueued(t) PROVE TypeOK'
  BY <1>10 DEF MarkQueued
<1>11. ASSUME NEW t \in Threads, AppendWork(t) PROVE TypeOK'
  BY <1>11 DEF AppendWork
<1>12. ASSUME NEW t \in Threads, WakeLoad(t) PROVE TypeOK'
  BY <1>12 DEF WakeLoad
<1>13. ASSUME NEW t \in Threads, WakeUnblock(t) PROVE TypeOK'
  BY <1>13 DEF WakeUnblock
<1>14. ASSUME NEW t \in Threads, NEW w \in Works, CancelWorkSync(t, w) PROVE TypeOK'
  BY <1>14 DEF CancelWorkSync, EnterCancel
<1>15. ASSUME NEW t \in Threads, RemoveWork(t) PROVE TypeOK'
  BY <1>15, RemoveWorkTypeOK
<1>16. ASSUME NEW t \in Threads, ClearQueued(t) PROVE TypeOK'
  BY <1>16 DEF ClearQueued
<1>17. ASSUME NEW t \in Threads, AwaitNotRunning(t) PROVE TypeOK'
  BY <1>17 DEF AwaitNotRunning
<1>18. ASSUME NEW t \in Threads, NEW q \in Queues, FlushWorkqueue(t, q) PROVE TypeOK'
  BY <1>18 DEF FlushWorkqueue
<1>19. ASSUME NEW t \in Threads, FlushReturns(t) PROVE TypeOK'
  BY <1>19 DEF FlushReturns
<1>20. ASSUME NEW k \in Workers, PopWork(k) PROVE TypeOK'
  BY <1>20, PopWorkTypeOK
<1>21. ASSUME NEW k \in Workers, PopNothing(k) PROVE TypeOK'
  BY <1>21 DEF PopNothing
<1>22. ASSUME NEW k \in Workers, TaskBlock(k) PROVE TypeOK'
  BY <1>22 DEF TaskBlock
<1>23. ASSUME NEW k \in Workers, ClaimWork(k) PROVE TypeOK'
  BY <1>23, ClaimWorkTypeOK
<1>24. ASSUME NEW k \in Workers, EnterDelayed(k) PROVE TypeOK'
  BY <1>24 DEF EnterDelayed
<1>25. ASSUME NEW k \in Workers, FuncReturns(k) PROVE TypeOK'
  BY <1>25 DEF FuncReturns
<1>26. ASSUME NEW k \in Workers, LeaveDelayed(k) PROVE TypeOK'
  BY <1>26 DEF LeaveDelayed
<1>27. ASSUME NEW k \in Workers, ClearRunning(k) PROVE TypeOK'
  BY <1>27 DEF ClearRunning
<1>28. ASSUME NEW k \in Workers, SettleLock(k) PROVE TypeOK'
  BY <1>28 DEF SettleLock
<1>29. ASSUME NEW k \in Workers, SettleUnlock(k) PROVE TypeOK'
  <2>1. home[k] \in Queues /\ cur[k] \in Works
    BY <1>29 DEF SettleUnlock
  <2>2. active' \in [Queues -> Nat] /\ wwq' \in [Works -> Queues \cup {None}]
    BY <1>29, <2>1 DEF SettleUnlock
  <2>3. QED
    BY <1>29, <2>1, <2>2 DEF SettleUnlock
<1>30. CASE UNCHANGED vars
  BY <1>30 DEF vars
<1>31. QED
  BY <1>1, <1>2, <1>3, <1>4, <1>5, <1>6, <1>7, <1>8, <1>9, <1>10, <1>11, <1>12,
     <1>13, <1>14, <1>15, <1>16, <1>17, <1>18, <1>19, <1>20, <1>21, <1>22,
     <1>23, <1>24, <1>25, <1>26, <1>27, <1>28, <1>29, <1>30
  DEF Next, Call, CallStep, QueueStep, WorkerStep

(* Every variable of the workqueue keeps its type, and a thread always     *)
(* holds the locals that its place in the code uses.                       *)
THEOREM TypeCorrect == Spec => []TypeOK
  BY InitTypeOK, NextTypeOK, PTL DEF Spec

-----------------------------------------------------------------------------
(* The ownership of the QUEUED bit.  A step that moves no work between the *)
(* lists and the threads, and leaves every QUEUED bit alone, keeps it.     *)
CarryPcs == {"append", "unmark", "claim"}

(* TokenOwned, with the bits of the works in H owned by somebody who is    *)
(* not part of this module.                                                *)
QueuedBut(H) ==
    \A w \in Works :
       "QUEUED" \in state[w] <=> \/ w \in H
                                 \/ \E q \in Queues : Listed(w, q)
                                 \/ \E t \in Threads : Carries(t, w)

Apart(H) ==
    \A w \in H : /\ \A q \in Queues : ~Listed(w, q)
                 /\ \A t \in Threads : ~Carries(t, w)

TokensBut(H) == OnePlacePerWork /\ QueuedBut(H) /\ Apart(H)

LEMMA QuietFrame ==
  ASSUME NEW H \in SUBSET Works, TokensBut(H), list' = list,
         \A t \in Threads, w \in Works : Carries(t, w)' <=> Carries(t, w),
         \A w \in Works : "QUEUED" \in state'[w] <=> "QUEUED" \in state[w]
  PROVE  TokensBut(H)'
  BY DEF TokensBut, OnePlacePerWork, QueuedBut, Apart, Listed

(* One thread moves between places where it carries nothing.               *)
LEMMA QuietThread ==
  ASSUME TypeOK, NEW t \in Threads, NEW l, pc' = [pc EXCEPT ![t] = l],
         pc[t] \notin CarryPcs, l \notin CarryPcs,
         \A u \in Threads : u # t => arg'[u] = arg[u],
         \A u \in Workers : u # t => cur'[u] = cur[u]
  PROVE  \A u \in Threads, w \in Works : Carries(u, w)' <=> Carries(u, w)
  BY DEF TypeOK, Types, Threads, Carries, CarryPcs

(* The thread that enters or leaves a carrying place is the only one whose *)
(* load changes.                                                           *)
LEMMA OthersKeep ==
  ASSUME TypeOK, NEW t \in Threads, NEW l, pc' = [pc EXCEPT ![t] = l],
         arg' = arg, \A u \in Workers : u # t => cur'[u] = cur[u]
  PROVE  \A u \in Threads : u # t =>
            \A w \in Works : Carries(u, w)' <=> Carries(u, w)
  BY DEF TypeOK, Types, Threads, Carries

LEMMA InitTokenOwned == Init => TokenOwned
<1> SUFFICES ASSUME Init PROVE TokenOwned
  OBVIOUS
<1>1. \A t \in Threads : pc[t] \in {"idle", "pop", "off"}
  BY DEF Init
<1>2. \A t \in Threads, w \in Works : ~Carries(t, w)
  BY <1>1 DEF Carries
<1>3. \A q \in Queues : list[q] = <<>>
  BY DEF Init
<1>4. \A q \in Queues, w \in Works : ~Listed(w, q)
  BY <1>3 DEF Listed
<1>5. \A w \in Works : "QUEUED" \notin state[w]
  BY DEF Init
<1>6. QED
  BY <1>2, <1>3, <1>4, <1>5 DEF TokenOwned, OnePlacePerWork, QueuedIffPlaced

LEMMA MarkQueuedToken ==
  ASSUME NEW H \in SUBSET Works, TypeOK, TokensBut(H), NEW t \in Threads, MarkQueued(t)
  PROVE  TokensBut(H)'
<1>1. PICK w \in Works : w = arg[t] /\ pc[t] = "mark"
  BY DEF MarkQueued, At, TypeOK, Types, CallPlaced, CallPcs
<1>2. UNCHANGED <<list, arg, cur>>
  BY DEF MarkQueued, queueVars, callVars, workerVars
<1>3. CASE "QUEUED" \in state[w]
  <2>1. pc' = [pc EXCEPT ![t] = Return(t)] /\ Return(t) \notin CarryPcs
    BY <1>1, <1>3 DEF MarkQueued, Goto, Return, CarryPcs
  <2>2. \A v \in Works : "QUEUED" \in state'[v] <=> "QUEUED" \in state[v]
    BY <1>1, <1>3 DEF MarkQueued, TypeOK, Types
  <2>3. pc[t] \notin CarryPcs
    BY <1>1 DEF CarryPcs
  <2>4. \A u \in Threads, v \in Works : Carries(u, v)' <=> Carries(u, v)
    BY <1>2, <2>1, <2>3, QuietThread
  <2>5. QED
    BY <1>2, <2>2, <2>4, QuietFrame
<1>4. CASE "QUEUED" \notin state[w]
  <2>1. pc' = [pc EXCEPT ![t] = "append"]
    BY <1>1, <1>4 DEF MarkQueued, Goto
  <2>2. \A u \in Threads : u # t => \A v \in Works : Carries(u, v)' <=> Carries(u, v)
    BY <1>2, <2>1, OthersKeep
  <2>3. \A v \in Works : ~Carries(t, v) /\ (Carries(t, v)' <=> v = w)
    BY <1>1, <1>2, <2>1 DEF Carries, TypeOK, Types
  <2>4. /\ \A u \in Threads : ~Carries(u, w)
        /\ \A q \in Queues : ~Listed(w, q)
        /\ w \notin H
    BY <1>1, <1>4 DEF TokensBut, QueuedBut
  <2>5. \A v \in Works : "QUEUED" \in state'[v] <=> "QUEUED" \in state[v] \/ v = w
    BY <1>1 DEF MarkQueued, TypeOK, Types
  <2>6. \A v \in Works, q \in Queues : Listed(v, q)' <=> Listed(v, q)
    BY <1>2 DEF Listed
  <2>7. OnePlacePerWork'
    <3>1. ASSUME NEW v \in Works, NEW u \in Threads, NEW x \in Threads,
                 Carries(u, v)', Carries(x, v)'
          PROVE  u = x
      <4>1. \A y, z \in Threads : Carries(y, v) /\ Carries(z, v) => y = z
        BY DEF TokensBut, OnePlacePerWork
      <4>2. CASE v = w
        BY <3>1, <4>2, <1>1, <2>2, <2>3, <2>4
      <4>3. CASE v # w
        BY <3>1, <4>1, <4>3, <1>1, <2>2, <2>3
      <4>4. QED
        BY <4>2, <4>3
    <3>2. ASSUME NEW v \in Works, NEW u \in Threads, NEW q \in Queues
          PROVE  ~(Carries(u, v)' /\ Listed(v, q)')
      BY <1>1, <2>2, <2>3, <2>4, <2>6 DEF TokensBut, OnePlacePerWork
    <3>3. QED
      BY <1>2, <3>1, <3>2 DEF TokensBut, OnePlacePerWork
  <2>8. QueuedBut(H)'
    BY <1>1, <2>2, <2>3, <2>5, <2>6 DEF TokensBut, QueuedBut
  <2>9. Apart(H)'
    BY <2>2, <2>3, <2>4, <2>6 DEF TokensBut, Apart
  <2>10. QED
    BY <2>7, <2>8, <2>9 DEF TokensBut
<1>5. QED
  BY <1>3, <1>4

LEMMA AppendWorkToken ==
  ASSUME NEW H \in SUBSET Works, TypeOK, TokensBut(H), NEW t \in Threads, AppendWork(t)
  PROVE  TokensBut(H)'
<1>1. PICK w \in Works, q \in Queues :
         w = arg[t] /\ q = wqArg[t] /\ pc[t] = "append"
  BY DEF AppendWork, At, TypeOK, Types, CallPlaced, CallPcs
<1>2. UNCHANGED <<state, arg, cur>> /\ pc' = [pc EXCEPT ![t] = "wake"]
  BY DEF AppendWork, Goto, callVars, workerVars
<1>3. \A u \in Threads : u # t => \A v \in Works : Carries(u, v)' <=> Carries(u, v)
  BY <1>2, OthersKeep
<1>4. \A v \in Works : ~Carries(t, v)' /\ (Carries(t, v) <=> v = w)
  BY <1>1, <1>2 DEF Carries, TypeOK, Types
<1>5. /\ \A r \in Queues : r # q => list'[r] = list[r]
      /\ list'[q] = Append(list[q], w)
      /\ \A r \in Queues : list[r] \in Seq(Works)
  BY <1>1 DEF AppendWork, TypeOK, Types
<1>6. \A v \in Works, r \in Queues : Listed(v, r)' <=> Listed(v, r) \/ (v = w /\ r = q)
  <2>1. \A v \in Works : Listed(v, q)' <=> Listed(v, q) \/ v = w
    BY <1>1, <1>5 DEF Listed
  <2>2. \A v \in Works, r \in Queues : r # q => (Listed(v, r)' <=> Listed(v, r))
    BY <1>5 DEF Listed
  <2>3. QED
    BY <2>1, <2>2
<1>7. w \notin H /\ \A r \in Queues : ~Listed(w, r)
  BY <1>1, <1>4 DEF TokensBut, OnePlacePerWork, Apart
<1>8. ASSUME NEW r \in Queues, NEW s \in Queues,
             NEW i \in 1 .. Len(list'[r]), NEW j \in 1 .. Len(list'[s]),
             list'[r][i] = list'[s][j]
      PROVE  r = s /\ i = j
  <2>1. ASSUME NEW x \in Queues, NEW n \in 1 .. Len(list'[x])
        PROVE  \/ n \in 1 .. Len(list[x]) /\ list'[x][n] = list[x][n] /\ list[x][n] # w
               \/ x = q /\ n = Len(list[q]) + 1 /\ list'[x][n] = w
    <3>1. CASE x = q
      <4>1. list[q] \in Seq(Works) /\ list'[q] = Append(list[q], w)
        BY <1>5
      <4>2. Len(list'[q]) = Len(list[q]) + 1 /\ Len(list[q]) \in Nat
        BY <4>1
      <4>3. CASE n = Len(list[q]) + 1
        BY <3>1, <4>1, <4>3
      <4>4. CASE n \in 1 .. Len(list[q])
        <5>1. list'[q][n] = list[q][n]
          BY <4>1, <4>4
        <5>2. list[q][n] # w
          BY <1>7, <4>4 DEF Listed
        <5>3. QED
          BY <3>1, <4>4, <5>1, <5>2
      <4>5. QED
        BY <3>1, <4>2, <4>3, <4>4
    <3>2. CASE x # q
      <4>1. list'[x] = list[x]
        BY <1>5, <3>2
      <4>2. list[x][n] # w
        BY <1>7, <4>1 DEF Listed
      <4>3. QED
        BY <4>1, <4>2
    <3>3. QED
      BY <3>1, <3>2
  <2>2. \A x, y \in Queues : \A m \in 1 .. Len(list[x]), n \in 1 .. Len(list[y]) :
           list[x][m] = list[y][n] => x = y /\ m = n
    BY DEF TokensBut, OnePlacePerWork
  <2>3. CASE i \in 1 .. Len(list[r]) /\ list'[r][i] = list[r][i] /\ list[r][i] # w
    <3>1. j \in 1 .. Len(list[s]) /\ list'[s][j] = list[s][j]
      BY <1>8, <2>1, <2>3
    <3>2. QED
      <4>1. list[r][i] = list[s][j]
        BY <1>8, <2>3, <3>1
      <4>2. QED
        BY <2>2, <2>3, <3>1, <4>1
  <2>4. CASE r = q /\ i = Len(list[q]) + 1 /\ list'[r][i] = w
    <3>1. s = q /\ j = Len(list[q]) + 1
      BY <1>8, <2>1, <2>4
    <3>2. QED
      BY <2>4, <3>1
  <2>5. QED
    BY <2>1, <2>3, <2>4
<1>9. OnePlacePerWork'
  BY <1>3, <1>4, <1>6, <1>8 DEF TokensBut, OnePlacePerWork
<1>10. QueuedBut(H)'
  BY <1>1, <1>2, <1>3, <1>4, <1>6 DEF TokensBut, QueuedBut
<1>11. Apart(H)'
  BY <1>3, <1>4, <1>6, <1>7 DEF TokensBut, Apart
<1>12. QED
  BY <1>9, <1>10, <1>11 DEF TokensBut

LEMMA RemoveWorkToken ==
  ASSUME NEW H \in SUBSET Works, TypeOK, TokensBut(H), NEW t \in Threads, RemoveWork(t)
  PROVE  TokensBut(H)'
<1>1. PICK w \in Works, q \in Queues :
         w = arg[t] /\ q = wqArg[t] /\ pc[t] = "remove"
  BY DEF RemoveWork, At, TypeOK, Types, CallPlaced
<1>2. UNCHANGED <<state, arg, cur>>
  BY DEF RemoveWork, workerVars
<1>3. CASE ~Listed(w, q)
  <2>1. list' = list /\ pc' = [pc EXCEPT ![t] = "await"]
    BY <1>1, <1>3 DEF RemoveWork, Goto
  <2>2. \A u \in Threads, v \in Works : Carries(u, v)' <=> Carries(u, v)
    BY <1>1, <1>2, <2>1, QuietThread DEF CarryPcs
  <2>3. QED
    BY <1>2, <2>1, <2>2, QuietFrame
<1>4. CASE Listed(w, q)
  <2>1. PICK p \in 1 .. Len(list[q]) :
           list[q][p] = w /\ list' = [list EXCEPT ![q] = Without(@, p)]
    BY <1>1, <1>4 DEF RemoveWork
  <2>2. pc' = [pc EXCEPT ![t] = "unmark"]
    BY <1>1, <1>4 DEF RemoveWork, Goto
  <2>3. \A u \in Threads : u # t => \A v \in Works : Carries(u, v)' <=> Carries(u, v)
    BY <1>2, <2>2, OthersKeep
  <2>4. \A v \in Works : ~Carries(t, v) /\ (Carries(t, v)' <=> v = w)
    BY <1>1, <1>2, <2>2 DEF Carries, TypeOK, Types
  <2>5. w \notin H /\ \A u \in Threads : ~Carries(u, w)
    BY <1>1, <1>4 DEF TokensBut, OnePlacePerWork, Apart
  <2>6. /\ \A r \in Queues : r # q => list'[r] = list[r]
        /\ Len(list'[q]) = Len(list[q]) - 1
        /\ \A i \in 1 .. Len(list[q]) - 1 :
              list'[q][i] = IF i < p THEN list[q][i] ELSE list[q][i + 1]
        /\ \A r \in Queues : Len(list[r]) \in Nat
    <3>1. /\ list \in [Queues -> Seq(Works)]
          /\ \A r \in Queues : Len(list[r]) \in Nat
      BY DEF TypeOK, Types
    <3>2. list'[q] = Without(list[q], p) /\ \A r \in Queues : r # q => list'[r] = list[r]
      BY <2>1, <3>1
    <3>3. QED
      BY <3>1, <3>2, WithoutIsSeq
  <2>7. \A x \in Queues : \A n \in 1 .. Len(list'[x]) :
           LET m == IF x = q /\ n >= p THEN n + 1 ELSE n IN
           m \in 1 .. Len(list[x]) /\ list'[x][n] = list[x][m] /\ ~(x = q /\ m = p)
    <3> SUFFICES ASSUME NEW x \in Queues, NEW n \in 1 .. Len(list'[x])
                 PROVE  LET m == IF x = q /\ n >= p THEN n + 1 ELSE n IN
                        /\ m \in 1 .. Len(list[x])
                        /\ list'[x][n] = list[x][m]
                        /\ ~(x = q /\ m = p)
      OBVIOUS
    <3>1. CASE x = q
      BY <2>6, <3>1
    <3>2. CASE x # q
      BY <2>6, <3>2
    <3>3. QED
      BY <3>1, <3>2
  <2>8. ASSUME NEW r \in Queues, NEW s \in Queues,
               NEW i \in 1 .. Len(list'[r]), NEW j \in 1 .. Len(list'[s]),
               list'[r][i] = list'[s][j]
        PROVE  r = s /\ i = j
    <3> DEFINE m == IF r = q /\ i >= p THEN i + 1 ELSE i
               n == IF s = q /\ j >= p THEN j + 1 ELSE j
    <3>1. /\ m \in 1 .. Len(list[r]) /\ n \in 1 .. Len(list[s])
          /\ list[r][m] = list[s][n]
      BY <2>7, <2>8
    <3>2. r = s /\ m = n
      BY <3>1 DEF TokensBut, OnePlacePerWork
    <3>3. QED
      BY <2>6, <3>2
  <2>9. \A v \in Works, r \in Queues : Listed(v, r)' <=> Listed(v, r) /\ v # w
    <3> SUFFICES ASSUME NEW v \in Works, NEW r \in Queues
                 PROVE  Listed(v, r)' <=> Listed(v, r) /\ v # w
      OBVIOUS
    <3>1. ASSUME Listed(v, r)' PROVE Listed(v, r) /\ v # w
      <4>1. PICK n \in 1 .. Len(list'[r]) : list'[r][n] = v
        BY <3>1 DEF Listed
      <4>2. PICK m \in 1 .. Len(list[r]) : list[r][m] = v /\ ~(r = q /\ m = p)
        BY <2>7, <4>1
      <4>3. v # w
        BY <2>1, <4>2 DEF TokensBut, OnePlacePerWork
      <4>4. QED
        BY <4>2, <4>3 DEF Listed
    <3>2. ASSUME Listed(v, r), v # w PROVE Listed(v, r)'
      <4>1. PICK m \in 1 .. Len(list[r]) : list[r][m] = v
        BY <3>2 DEF Listed
      <4>2. CASE r # q
        BY <2>6, <4>1, <4>2 DEF Listed
      <4>3. CASE r = q /\ m < p
        <5>1. m \in 1 .. Len(list'[r]) /\ list'[r][m] = v
          BY <2>1, <2>6, <4>1, <4>3
        <5>2. QED
          BY <5>1 DEF Listed
      <4>4. CASE r = q /\ m > p
        <5>1. m - 1 \in 1 .. Len(list'[r]) /\ list'[r][m - 1] = v
          BY <2>1, <2>6, <4>1, <4>4
        <5>2. QED
          BY <5>1 DEF Listed
      <4>5. QED
        BY <2>1, <2>6, <3>2, <4>1, <4>2, <4>3, <4>4
    <3>3. QED
      BY <3>1, <3>2
  <2>10. OnePlacePerWork'
    <3>1. ASSUME NEW v \in Works, NEW u \in Threads, NEW x \in Threads,
                 Carries(u, v)', Carries(x, v)'
          PROVE  u = x
      <4>1. \A y, z \in Threads : Carries(y, v) /\ Carries(z, v) => y = z
        BY DEF TokensBut, OnePlacePerWork
      <4>2. CASE v = w
        BY <3>1, <4>2, <2>3, <2>5
      <4>3. CASE v # w
        BY <3>1, <4>1, <4>3, <2>3, <2>4
      <4>4. QED
        BY <4>2, <4>3
    <3>2. ASSUME NEW v \in Works, NEW u \in Threads, NEW r \in Queues
          PROVE  ~(Carries(u, v)' /\ Listed(v, r)')
      BY <2>3, <2>4, <2>9 DEF TokensBut, OnePlacePerWork
    <3>3. QED
      BY <2>8, <3>1, <3>2 DEF OnePlacePerWork
  <2>11. QueuedBut(H)'
    <3> SUFFICES ASSUME NEW v \in Works
                 PROVE  "QUEUED" \in state'[v]
                           <=> \/ v \in H
                               \/ \E r \in Queues : Listed(v, r)'
                               \/ \E u \in Threads : Carries(u, v)'
      BY DEF QueuedBut
    <3>1. "QUEUED" \in state[v] <=> \/ v \in H
                                    \/ \E r \in Queues : Listed(v, r)
                                    \/ \E u \in Threads : Carries(u, v)
      BY DEF TokensBut, QueuedBut
    <3>2. CASE v = w
      BY <1>2, <1>4, <2>4, <3>1, <3>2
    <3>3. CASE v # w
      BY <1>2, <2>3, <2>4, <2>9, <3>1, <3>3
    <3>4. QED
      BY <3>2, <3>3
  <2>12. Apart(H)'
    BY <2>3, <2>4, <2>5, <2>9 DEF TokensBut, Apart
  <2>13. QED
    BY <2>10, <2>11, <2>12 DEF TokensBut
<1>5. QED
  BY <1>3, <1>4

(* A thread that drops the bit of the work it carries.                     *)
LEMMA DropToken ==
  ASSUME NEW H \in SUBSET Works, TypeOK, TokensBut(H),
         NEW t \in Threads, NEW w \in Works, Carries(t, w), list' = list,
         \A u \in Threads : u # t => \A v \in Works : Carries(u, v)' <=> Carries(u, v),
         \A v \in Works : ~Carries(t, v)' /\ (Carries(t, v) <=> v = w),
         \A v \in Works : "QUEUED" \in state'[v] <=> "QUEUED" \in state[v] /\ v # w
  PROVE  TokensBut(H)'
<1>1. \A v \in Works, q \in Queues : Listed(v, q)' <=> Listed(v, q)
  BY DEF Listed
<1>2. OnePlacePerWork'
  BY <1>1 DEF TokensBut, OnePlacePerWork
<1>3. QueuedBut(H)'
  <2> SUFFICES ASSUME NEW v \in Works
               PROVE  "QUEUED" \in state'[v]
                         <=> \/ v \in H
                             \/ \E r \in Queues : Listed(v, r)'
                             \/ \E u \in Threads : Carries(u, v)'
    BY DEF QueuedBut
  <2>1. CASE v = w
    BY <1>1, <2>1 DEF TokensBut, OnePlacePerWork, Apart
  <2>2. CASE v # w
    BY <1>1, <2>2 DEF TokensBut, QueuedBut
  <2>3. QED
    BY <2>1, <2>2
<1>4. Apart(H)'
  BY <1>1 DEF TokensBut, Apart
<1>5. QED
  BY <1>2, <1>3, <1>4 DEF TokensBut

LEMMA ClearQueuedToken ==
  ASSUME NEW H \in SUBSET Works, TypeOK, TokensBut(H), NEW t \in Threads, ClearQueued(t)
  PROVE  TokensBut(H)'
<1>1. PICK w \in Works : w = arg[t] /\ pc[t] = "unmark"
  BY DEF ClearQueued, At, TypeOK, Types, CallPlaced, CallPcs
<1>2. UNCHANGED <<list, arg, cur>> /\ pc' = [pc EXCEPT ![t] = "await"]
  BY DEF ClearQueued, Goto, queueVars, callVars, workerVars
<1>3. \A u \in Threads : u # t => \A v \in Works : Carries(u, v)' <=> Carries(u, v)
  BY <1>2, OthersKeep
<1>4. \A v \in Works : ~Carries(t, v)' /\ (Carries(t, v) <=> v = w)
  BY <1>1, <1>2 DEF Carries, TypeOK, Types
<1>5. \A v \in Works : "QUEUED" \in state'[v] <=> "QUEUED" \in state[v] /\ v # w
  BY <1>1 DEF ClearQueued, TypeOK, Types
<1>6. QED
  BY <1>2, <1>3, <1>4, <1>5, DropToken

LEMMA ClaimWorkToken ==
  ASSUME NEW H \in SUBSET Works, TypeOK, TokensBut(H), NEW k \in Workers, ClaimWork(k)
  PROVE  TokensBut(H)'
<1>1. PICK w \in Works : w = cur[k] /\ pc[k] = "claim"
  BY DEF ClaimWork, At, TypeOK, Types, WorkerPlaced, BusyPcs
<1>2. k \in Threads
  BY DEF Threads
<1>3. Carries(k, w)
  BY <1>1 DEF Carries
<1>4. "QUEUED" \in state[w]
  BY <1>2, <1>3 DEF TokensBut, QueuedBut
<1>5. PICK l \in {"enter", "func"} : pc' = [pc EXCEPT ![k] = l]
  BY <1>1, <1>4 DEF ClaimWork, Goto
<1>6. UNCHANGED <<list, arg, cur>> /\ state' = [state EXCEPT ![w] = {"RUNNING"}]
  BY <1>1, <1>4 DEF ClaimWork, queueVars, callVars, workerVars
<1>7. \A u \in Threads : u # k => \A v \in Works : Carries(u, v)' <=> Carries(u, v)
  BY <1>2, <1>5, <1>6, OthersKeep
<1>8. \A v \in Works : ~Carries(k, v)' /\ (Carries(k, v) <=> v = w)
  BY <1>1, <1>2, <1>5, <1>6 DEF Carries, TypeOK, Types
<1>9. \A v \in Works : "QUEUED" \in state'[v] <=> "QUEUED" \in state[v] /\ v # w
  BY <1>6 DEF TypeOK, Types
<1>10. QED
  BY <1>2, <1>3, <1>6, <1>7, <1>8, <1>9, DropToken

LEMMA PopWorkToken ==
  ASSUME NEW H \in SUBSET Works, TypeOK, TokensBut(H), NEW k \in Workers, PopWork(k)
  PROVE  TokensBut(H)'
<1>1. PICK q \in Queues : q = home[k] /\ pc[k] = "pop" /\ list[q] # <<>>
  BY DEF PopWork, At, TypeOK, Types, WorkerPlaced
<1>2. list[q] \in Seq(Works) /\ Len(list[q]) \in Nat /\ Len(list[q]) > 0
  BY <1>1 DEF TypeOK, Types
<1>3. PICK w \in Works : w = Head(list[q]) /\ w = list[q][1]
  BY <1>1, <1>2
<1>4. /\ UNCHANGED <<state, arg>>
      /\ cur' = [cur EXCEPT ![k] = w]
      /\ pc' = [pc EXCEPT ![k] = "claim"]
      /\ list' = [list EXCEPT ![q] = Tail(@)]
  BY <1>1, <1>3 DEF PopWork, Goto, workVars, callVars
<1>5. k \in Threads /\ Listed(w, q)
  BY <1>2, <1>3 DEF Threads, Listed
<1>6. \A u \in Threads : u # k => \A v \in Works : Carries(u, v)' <=> Carries(u, v)
  <2>1. \A u \in Workers : u # k => cur'[u] = cur[u]
    BY <1>4 DEF TypeOK, Types
  <2>2. QED
    BY <1>4, <1>5, <2>1, OthersKeep
<1>7. \A v \in Works : ~Carries(k, v) /\ (Carries(k, v)' <=> v = w)
  BY <1>1, <1>4, <1>5 DEF Carries, TypeOK, Types
<1>8. w \notin H /\ \A u \in Threads : ~Carries(u, w)
  BY <1>1, <1>5 DEF TokensBut, OnePlacePerWork, Apart
<1>9. \A x \in Queues : \A n \in 1 .. Len(list'[x]) :
         LET m == IF x = q THEN n + 1 ELSE n IN
         m \in 1 .. Len(list[x]) /\ list'[x][n] = list[x][m] /\ ~(x = q /\ m = 1)
  <2>1. /\ \A x \in Queues : x # q => list'[x] = list[x]
        /\ list'[q] = Tail(list[q])
    BY <1>4 DEF TypeOK, Types
  <2>2. /\ Len(list'[q]) = Len(list[q]) - 1
        /\ \A n \in 1 .. Len(list[q]) - 1 : list'[q][n] = list[q][n + 1]
    BY <1>1, <1>2, <2>1
  <2>3. SUFFICES ASSUME NEW x \in Queues, NEW n \in 1 .. Len(list'[x])
                 PROVE  LET m == IF x = q THEN n + 1 ELSE n IN
                        /\ m \in 1 .. Len(list[x])
                        /\ list'[x][n] = list[x][m]
                        /\ ~(x = q /\ m = 1)
    OBVIOUS
  <2>4. CASE x = q
    BY <1>2, <2>2, <2>4
  <2>5. CASE x # q
    BY <2>1, <2>5
  <2>6. QED
    BY <2>4, <2>5
<1>10. ASSUME NEW r \in Queues, NEW s \in Queues,
              NEW i \in 1 .. Len(list'[r]), NEW j \in 1 .. Len(list'[s]),
              list'[r][i] = list'[s][j]
       PROVE  r = s /\ i = j
  <2> DEFINE m == IF r = q THEN i + 1 ELSE i
             n == IF s = q THEN j + 1 ELSE j
  <2>1. /\ m \in 1 .. Len(list[r]) /\ n \in 1 .. Len(list[s])
        /\ list[r][m] = list[s][n]
    BY <1>9, <1>10
  <2>2. r = s /\ m = n
    BY <2>1 DEF TokensBut, OnePlacePerWork
  <2>3. QED
    BY <2>2
<1>11. \A v \in Works, r \in Queues : Listed(v, r)' <=> Listed(v, r) /\ v # w
  <2> SUFFICES ASSUME NEW v \in Works, NEW r \in Queues
               PROVE  Listed(v, r)' <=> Listed(v, r) /\ v # w
    OBVIOUS
  <2>1. ASSUME Listed(v, r)' PROVE Listed(v, r) /\ v # w
    <3>1. PICK n \in 1 .. Len(list'[r]) : list'[r][n] = v
      BY <2>1 DEF Listed
    <3>2. PICK m \in 1 .. Len(list[r]) : list[r][m] = v /\ ~(r = q /\ m = 1)
      BY <1>9, <3>1
    <3>3. 1 \in 1 .. Len(list[q])
      BY <1>2
    <3>4. v # w
      BY <1>3, <3>2, <3>3 DEF TokensBut, OnePlacePerWork
    <3>5. QED
      BY <3>2, <3>4 DEF Listed
  <2>2. ASSUME Listed(v, r), v # w PROVE Listed(v, r)'
    <3>1. PICK m \in 1 .. Len(list[r]) : list[r][m] = v
      BY <2>2 DEF Listed
    <3>2. CASE r # q
      <4>1. list'[r] = list[r]
        BY <1>4, <3>2 DEF TypeOK, Types
      <4>2. QED
        BY <3>1, <4>1 DEF Listed
    <3>3. CASE r = q
      <4>1. m # 1 /\ list'[q] = Tail(list[q])
        BY <1>3, <1>4, <2>2, <3>1, <3>3 DEF TypeOK, Types
      <4>2. m - 1 \in 1 .. Len(list'[q]) /\ list'[q][m - 1] = v
        BY <1>1, <1>2, <3>1, <3>3, <4>1
      <4>3. QED
        BY <3>3, <4>2 DEF Listed
    <3>4. QED
      BY <3>2, <3>3
  <2>3. QED
    BY <2>1, <2>2
<1>12. OnePlacePerWork'
  <2>1. ASSUME NEW v \in Works, NEW u \in Threads, NEW x \in Threads,
               Carries(u, v)', Carries(x, v)'
        PROVE  u = x
    <3>1. \A y, z \in Threads : Carries(y, v) /\ Carries(z, v) => y = z
      BY DEF TokensBut, OnePlacePerWork
    <3>2. CASE v = w
      BY <2>1, <3>2, <1>6, <1>8
    <3>3. CASE v # w
      BY <2>1, <3>1, <3>3, <1>6, <1>7
    <3>4. QED
      BY <3>2, <3>3
  <2>2. ASSUME NEW v \in Works, NEW u \in Threads, NEW r \in Queues
        PROVE  ~(Carries(u, v)' /\ Listed(v, r)')
    BY <1>6, <1>7, <1>11 DEF TokensBut, OnePlacePerWork
  <2>3. QED
    BY <1>10, <2>1, <2>2 DEF OnePlacePerWork
<1>13. QueuedBut(H)'
  <2> SUFFICES ASSUME NEW v \in Works
               PROVE  "QUEUED" \in state'[v]
                         <=> \/ v \in H
                             \/ \E r \in Queues : Listed(v, r)'
                             \/ \E u \in Threads : Carries(u, v)'
    BY DEF QueuedBut
  <2>1. "QUEUED" \in state[v] <=> \/ v \in H
                                  \/ \E r \in Queues : Listed(v, r)
                                  \/ \E u \in Threads : Carries(u, v)
    BY DEF TokensBut, QueuedBut
  <2>2. CASE v = w
    BY <1>1, <1>4, <1>5, <1>7, <2>1, <2>2
  <2>3. CASE v # w
    BY <1>4, <1>6, <1>7, <1>11, <2>1, <2>3
  <2>4. QED
    BY <2>2, <2>3
<1>14. Apart(H)'
  BY <1>6, <1>7, <1>8, <1>11 DEF TokensBut, Apart
<1>15. QED
  BY <1>12, <1>13, <1>14 DEF TokensBut

(* A step of thread t that goes between places where nothing is carried.   *)
QuietStep(t) ==
    /\ \E l : l \notin CarryPcs /\ pc' = [pc EXCEPT ![t] = l]
    /\ pc[t] \notin CarryPcs
    /\ list' = list
    /\ \A u \in Threads : u # t => arg'[u] = arg[u]
    /\ \A u \in Workers : u # t => cur'[u] = cur[u]
    /\ \A w \in Works : "QUEUED" \in state'[w] <=> "QUEUED" \in state[w]

LEMMA QuietStepToken ==
  ASSUME NEW H \in SUBSET Works, TypeOK, TokensBut(H), NEW t \in Threads, QuietStep(t)
  PROVE  TokensBut(H)'
<1>1. \A u \in Threads, w \in Works : Carries(u, w)' <=> Carries(u, w)
  BY QuietThread DEF QuietStep
<1>2. QED
  BY <1>1, QuietFrame DEF QuietStep

LEMMA CreateWorkerToken ==
  ASSUME NEW H \in SUBSET Works, TypeOK, TokensBut(H), NEW t \in Threads, CreateWorker(t)
  PROVE  TokensBut(H)'
<1>1. PICK k \in Workers :
         home[k] = None /\ pc' = [pc EXCEPT ![t] = "publish", ![k] = "pop"]
  BY DEF CreateWorker
<1>2. pc[t] = "create" /\ pc[k] = "off"
  BY <1>1 DEF CreateWorker, At, TypeOK, WorkerPlaced
<1>3. UNCHANGED <<list, state, arg, cur>>
  BY DEF CreateWorker, queueVars, workVars, workerVars
<1>4. \A u \in Threads, w \in Works : Carries(u, w)' <=> Carries(u, w)
  BY <1>1, <1>2, <1>3 DEF Carries, Threads, TypeOK, Types
<1>5. QED
  BY <1>3, <1>4, QuietFrame

LEMMA NextTokens ==
  ASSUME NEW H \in SUBSET Works, TypeOK, TokensBut(H), [Next]_vars
  PROVE  TokensBut(H)'
<1> USE DEF At, Goto, Return, CarryPcs, queueVars, startVars, workVars,
            callVars, workerVars
<1>1. ASSUME NEW t \in Threads, Call(t) PROVE QuietStep(t)
  <2>1. ASSUME NEW q \in Queues, NEW w \in Works, QueueWork(t, q, w)
        PROVE  QuietStep(t)
    BY <2>1 DEF QueueWork, EnterQueueWork, QuietStep, TypeOK, Types
  <2>2. ASSUME NEW w \in Works, CancelWorkSync(t, w) PROVE QuietStep(t)
    BY <2>2 DEF CancelWorkSync, EnterCancel, QuietStep, TypeOK, Types
  <2>3. ASSUME NEW q \in Queues, FlushWorkqueue(t, q) PROVE QuietStep(t)
    BY <2>3 DEF FlushWorkqueue, QuietStep, TypeOK, Types
  <2>4. QED
    BY <1>1, <2>1, <2>2, <2>3 DEF Call
<1>2. ASSUME NEW t \in Threads, EnsureWorker(t) PROVE QuietStep(t)
  BY <1>2 DEF EnsureWorker, QuietStep
<1>3. ASSUME NEW t \in Threads, ElectStarter(t) PROVE QuietStep(t)
  BY <1>3 DEF ElectStarter, QuietStep
<1>4. ASSUME NEW t \in Threads, SpinForStarter(t) PROVE QuietStep(t)
  BY <1>4 DEF SpinForStarter, QuietStep
<1>5. ASSUME NEW t \in Threads, SpinResult(t) PROVE QuietStep(t)
  BY <1>5 DEF SpinResult, QuietStep
<1>6. ASSUME NEW t \in Threads, CreateFails(t) PROVE QuietStep(t)
  BY <1>6 DEF CreateFails, QuietStep
<1>7. ASSUME NEW t \in Threads, PublishWorker(t) PROVE QuietStep(t)
  BY <1>7 DEF PublishWorker, QuietStep
<1>8. ASSUME NEW t \in Threads, EndStarting(t) PROVE QuietStep(t)
  BY <1>8 DEF EndStarting, QuietStep
<1>9. ASSUME NEW t \in Threads, WakeLoad(t) PROVE QuietStep(t)
  BY <1>9 DEF WakeLoad, QuietStep
<1>10. ASSUME NEW t \in Threads, WakeUnblock(t) PROVE QuietStep(t)
  BY <1>10 DEF WakeUnblock, QuietStep
<1>11. ASSUME NEW t \in Threads, AwaitNotRunning(t) PROVE QuietStep(t)
  BY <1>11 DEF AwaitNotRunning, QuietStep
<1>12. ASSUME NEW t \in Threads, FlushReturns(t) PROVE QuietStep(t)
  BY <1>12 DEF FlushReturns, QuietStep
<1>13. ASSUME NEW k \in Workers, PopNothing(k) PROVE QuietStep(k)
  BY <1>13 DEF PopNothing, QuietStep
<1>14. ASSUME NEW k \in Workers, TaskBlock(k) PROVE QuietStep(k)
  BY <1>14 DEF TaskBlock, QuietStep
<1>15. ASSUME NEW k \in Workers, EnterDelayed(k) PROVE QuietStep(k)
  BY <1>15 DEF EnterDelayed, QuietStep
<1>16. ASSUME NEW k \in Workers, FuncReturns(k) PROVE QuietStep(k)
  BY <1>16 DEF FuncReturns, QuietStep
<1>17. ASSUME NEW k \in Workers, LeaveDelayed(k) PROVE QuietStep(k)
  BY <1>17 DEF LeaveDelayed, QuietStep
<1>18. ASSUME NEW k \in Workers, ClearRunning(k) PROVE QuietStep(k)
  BY <1>18 DEF ClearRunning, QuietStep, TypeOK, Types
<1>19. ASSUME NEW k \in Workers, SettleLock(k) PROVE QuietStep(k)
  BY <1>19 DEF SettleLock, QuietStep
<1>20. ASSUME NEW k \in Workers, SettleUnlock(k) PROVE QuietStep(k)
  BY <1>20 DEF SettleUnlock, QuietStep, TypeOK, Types
<1>21. ASSUME NEW t \in Threads, CallStep(t) PROVE TokensBut(H)'
  BY <1>21, <1>2, <1>3, <1>4, <1>5, <1>6, <1>7, <1>8, <1>9, <1>10, <1>11, <1>12, QuietStepToken,
     CreateWorkerToken, MarkQueuedToken, AppendWorkToken, RemoveWorkToken,
     ClearQueuedToken
  DEF CallStep, QueueStep
<1>22. ASSUME NEW k \in Workers, WorkerStep(k) PROVE TokensBut(H)'
  <2>1. k \in Threads
    BY DEF Threads
  <2>2. QED
    BY <1>22, <2>1, <1>13, <1>14, <1>15, <1>16, <1>17, <1>18, <1>19, <1>20, QuietStepToken,
       PopWorkToken, ClaimWorkToken
    DEF WorkerStep
<1>23. CASE UNCHANGED vars
  <2>1. \A u \in Threads, w \in Works : Carries(u, w)' <=> Carries(u, w)
    BY <1>23 DEF vars, Carries
  <2>2. QED
    BY <1>23, <2>1, QuietFrame DEF vars
<1>24. QED
  BY <1>1, <1>21, <1>22, <1>23, QuietStepToken DEF Next

(* The QUEUED bit of a work is set exactly when one list holds the work    *)
(* once or one thread carries it: lcompat_queue_work, the worker and       *)
(* lcompat_cancel_work_sync pass the work on without losing or duplicating *)
(* it, whatever the number of threads, queues and workers.                 *)
THEOREM TokenOwnedAlways == Spec => []TokenOwned
<1>1. Init => TypeOK /\ TokenOwned
  BY InitTypeOK, InitTokenOwned
<1>2. (TypeOK /\ TokenOwned) /\ [Next]_vars => (TypeOK /\ TokenOwned)'
  <2>1. TokenOwned <=> TokensBut({})
    BY DEF TokenOwned, QueuedIffPlaced, TokensBut, QueuedBut, Apart
  <2>2. TokenOwned' <=> TokensBut({})'
    BY DEF TokenOwned, QueuedIffPlaced, TokensBut, QueuedBut, Apart
  <2>3. QED
    BY <2>1, <2>2, NextTypeOK, NextTokens
<1>3. QED
  BY <1>1, <1>2, PTL DEF Spec

-----------------------------------------------------------------------------
(* wq->active.  The workers between pop and the closing lock section are   *)
(* finitely many, whatever the number of task identities.                  *)
BusyIn(q) == {k \in Workers : home[k] = q /\ Busy(k)}

ActiveInv ==
    \A q \in Queues :
       IsFiniteSet(BusyIn(q)) /\ active[q] = Cardinality(BusyIn(q))

LEMMA ActiveFrame ==
  ASSUME ActiveInv, active' = active,
         \A q \in Queues, k \in Workers :
            (home[k] = q /\ Busy(k))' <=> (home[k] = q /\ Busy(k))
  PROVE  ActiveInv'
<1>1. \A q \in Queues : BusyIn(q)' = BusyIn(q)
  BY DEF BusyIn
<1>2. QED
  BY <1>1 DEF ActiveInv

(* A step of t that neither pops nor settles.                              *)
StaysBusy(t) ==
    /\ \E l :
          /\ pc' = [pc EXCEPT ![t] = l]
          /\ t \in Workers => (l \in BusyPcs \cup CallPcs <=> Busy(t))
    /\ UNCHANGED <<home, active>>

LEMMA StaysBusyActive ==
  ASSUME TypeOK, ActiveInv, NEW t \in Threads, StaysBusy(t)
  PROVE  ActiveInv'
<1>1. PICK l : /\ pc' = [pc EXCEPT ![t] = l]
               /\ t \in Workers => (l \in BusyPcs \cup CallPcs <=> Busy(t))
  BY DEF StaysBusy
<1>2. ASSUME NEW k \in Workers PROVE Busy(k)' <=> Busy(k)
  <2>1. pc'[k] = IF k = t THEN l ELSE pc[k]
    BY <1>1 DEF TypeOK, Types, Threads
  <2>2. QED
    BY <1>1, <2>1 DEF Busy
<1>3. QED
  BY <1>2, ActiveFrame DEF StaysBusy

LEMMA CreateWorkerActive ==
  ASSUME TypeOK, ActiveInv, NEW t \in Threads, CreateWorker(t)
  PROVE  ActiveInv'
<1>1. PICK k \in Workers :
         /\ home[k] = None
         /\ home' = [home EXCEPT ![k] = wqArg[t]]
         /\ pc' = [pc EXCEPT ![t] = "publish", ![k] = "pop"]
  BY DEF CreateWorker
<1>2. pc[t] = "create" /\ pc[k] = "off" /\ t # k
  BY <1>1 DEF CreateWorker, At, TypeOK, WorkerPlaced
<1>3. \A j \in Workers : Busy(j)' <=> Busy(j)
  BY <1>1, <1>2 DEF TypeOK, Types, Threads, Busy, BusyPcs, CallPcs
<1>4. \A j \in Workers : Busy(j) => home'[j] = home[j]
  BY <1>1, <1>2 DEF TypeOK, Types, Busy, BusyPcs, CallPcs
<1>5. active' = active
  BY DEF CreateWorker, queueVars
<1>6. QED
  BY <1>3, <1>4, <1>5, ActiveFrame

LEMMA PopWorkActive ==
  ASSUME TypeOK, ActiveInv, NEW k \in Workers, PopWork(k)
  PROVE  ActiveInv'
<1> SUFFICES ASSUME NEW q \in Queues
             PROVE  IsFiniteSet(BusyIn(q)') /\ active'[q] = Cardinality(BusyIn(q)')
  BY DEF ActiveInv
<1>1. /\ pc[k] = "pop" /\ pc' = [pc EXCEPT ![k] = "claim"] /\ home' = home
      /\ active' = [active EXCEPT ![home[k]] = @ + 1] /\ home[k] \in Queues
  BY DEF PopWork, At, Goto, startVars, TypeOK, Types, WorkerPlaced
<1>2. IsFiniteSet(BusyIn(q)) /\ active[q] = Cardinality(BusyIn(q))
  BY DEF ActiveInv
<1>3. k \notin BusyIn(q)
  BY <1>1 DEF BusyIn, Busy, BusyPcs, CallPcs
<1>4. CASE home[k] = q
  <2>1. BusyIn(q)' = BusyIn(q) \cup {k}
    BY <1>1, <1>4 DEF BusyIn, Busy, BusyPcs, CallPcs, TypeOK, Types, Threads
  <2>2. active'[q] = active[q] + 1
    BY <1>1, <1>4 DEF TypeOK, Types
  <2>3. QED
    BY <1>2, <1>3, <2>1, <2>2, FS_AddElement
<1>5. CASE home[k] # q
  <2>1. BusyIn(q)' = BusyIn(q)
    BY <1>1, <1>5 DEF BusyIn, Busy, TypeOK, Types, Threads
  <2>2. QED
    BY <1>1, <1>2, <1>5, <2>1 DEF TypeOK, Types
<1>6. QED
  BY <1>4, <1>5

LEMMA SettleUnlockActive ==
  ASSUME TypeOK, ActiveInv, NEW k \in Workers, SettleUnlock(k)
  PROVE  ActiveInv'
<1> SUFFICES ASSUME NEW q \in Queues
             PROVE  IsFiniteSet(BusyIn(q)') /\ active'[q] = Cardinality(BusyIn(q)')
  BY DEF ActiveInv
<1>1. /\ pc[k] \in {"forget", "release"} /\ pc' = [pc EXCEPT ![k] = "pop"] /\ home' = home
      /\ active' = [active EXCEPT ![home[k]] = IF @ > 0 THEN @ - 1 ELSE 0]
      /\ home[k] \in Queues
  BY DEF SettleUnlock, Goto, startVars, TypeOK, Types, WorkerPlaced
<1>2. IsFiniteSet(BusyIn(q)) /\ active[q] = Cardinality(BusyIn(q)) /\ active[q] \in Nat
  BY DEF ActiveInv, TypeOK, Types
<1>3. CASE home[k] = q
  <2>1. k \in BusyIn(q)
    BY <1>1, <1>3 DEF BusyIn, Busy, BusyPcs
  <2>2. BusyIn(q)' = BusyIn(q) \ {k}
    BY <1>1, <1>3 DEF BusyIn, Busy, BusyPcs, CallPcs, TypeOK, Types, Threads
  <2>3. Cardinality(BusyIn(q)') = active[q] - 1 /\ IsFiniteSet(BusyIn(q)')
    BY <1>2, <2>1, <2>2, FS_RemoveElement
  <2>4. active[q] > 0
    BY <1>2, <2>3, FS_CardinalityType
  <2>5. active'[q] = active[q] - 1
    BY <1>1, <1>3, <2>4 DEF TypeOK, Types
  <2>6. QED
    BY <2>3, <2>5
<1>4. CASE home[k] # q
  <2>1. BusyIn(q)' = BusyIn(q)
    BY <1>1, <1>4 DEF BusyIn, Busy, TypeOK, Types, Threads
  <2>2. QED
    BY <1>1, <1>2, <1>4, <2>1 DEF TypeOK, Types
<1>5. QED
  BY <1>3, <1>4

LEMMA NextActive == TypeOK /\ ActiveInv /\ [Next]_vars => ActiveInv'
<1> SUFFICES ASSUME TypeOK, ActiveInv, [Next]_vars PROVE ActiveInv'
  OBVIOUS
<1> USE WorkqueueAssumption
    DEF At, Goto, Return, queueVars, startVars, workVars, callVars, workerVars
<1>1. ASSUME NEW t \in Threads, Call(t) PROVE StaysBusy(t)
  <2>1. t \in Workers => pc[t] # "idle"
    BY DEF TypeOK, WorkerPlaced, WorkerPcs, CallPcs, BusyPcs
  <2>2. QED
    BY <1>1, <2>1 DEF Call, QueueWork, EnterQueueWork, CancelWorkSync, EnterCancel,
                      FlushWorkqueue, StaysBusy, Busy, CallPcs, BusyPcs
<1>2. ASSUME NEW t \in Threads,
             \/ EnsureWorker(t) \/ ElectStarter(t) \/ SpinForStarter(t) \/ SpinResult(t)
             \/ CreateFails(t) \/ PublishWorker(t) \/ EndStarting(t)
      PROVE  StaysBusy(t)
  BY <1>2 DEF EnsureWorker, ElectStarter, SpinForStarter, SpinResult, CreateFails,
     PublishWorker, EndStarting, StaysBusy, Busy, CallPcs, BusyPcs
<1>3. ASSUME NEW t \in Threads,
             MarkQueued(t) \/ AppendWork(t) \/ WakeLoad(t) \/ WakeUnblock(t)
      PROVE  StaysBusy(t)
  BY <1>3 DEF MarkQueued, AppendWork, WakeLoad, WakeUnblock, StaysBusy, Busy, CallPcs, BusyPcs
<1>4. ASSUME NEW t \in Threads,
             RemoveWork(t) \/ ClearQueued(t) \/ AwaitNotRunning(t) \/ FlushReturns(t)
      PROVE  StaysBusy(t)
  <2>1. t \notin Workers
    BY <1>4 DEF RemoveWork, ClearQueued, AwaitNotRunning, FlushReturns,
       TypeOK, WorkerPlaced, WorkerPcs, CallPcs, BusyPcs
  <2>2. QED
    BY <1>4, <2>1 DEF RemoveWork, ClearQueued, AwaitNotRunning, FlushReturns, StaysBusy
<1>5. ASSUME NEW k \in Workers,
             \/ PopNothing(k) \/ TaskBlock(k) \/ ClaimWork(k) \/ EnterDelayed(k)
             \/ FuncReturns(k) \/ LeaveDelayed(k) \/ ClearRunning(k) \/ SettleLock(k)
      PROVE  StaysBusy(k)
  BY ZenonT(60), <1>5 DEF PopNothing, TaskBlock, ClaimWork, EnterDelayed, FuncReturns, LeaveDelayed,
     ClearRunning, SettleLock, StaysBusy, Busy, CallPcs, BusyPcs
<1>6. ASSUME NEW t \in Threads, Call(t) \/ CallStep(t) PROVE ActiveInv'
  BY <1>6, <1>1, <1>2, <1>3, <1>4, StaysBusyActive, CreateWorkerActive DEF CallStep, QueueStep
<1>7. ASSUME NEW k \in Workers, WorkerStep(k) PROVE ActiveInv'
  <2>1. k \in Threads
    BY DEF Threads
  <2>2. QED
    BY <1>7, <2>1, <1>5, StaysBusyActive, PopWorkActive, SettleUnlockActive DEF WorkerStep
<1>8. CASE UNCHANGED vars
  BY <1>8, ActiveFrame DEF vars, Busy
<1>9. QED
  BY <1>6, <1>7, <1>8 DEF Next

(* wq->active is the number of workers that hold a popped work, through    *)
(* claims that find nothing to run, functions that queue more work and     *)
(* workers started twice: "no head and active = 0" is what                 *)
(* lcompat_flush_workqueue takes it for.                                   *)
THEOREM ActiveCounts == Spec => []ActiveIsExact
<1>1. Init => TypeOK /\ ActiveInv
  <2> SUFFICES ASSUME Init PROVE ActiveInv
    BY InitTypeOK
  <2>1. \A q \in Queues : BusyIn(q) = {}
    BY DEF Init, BusyIn, Busy, BusyPcs, CallPcs, Threads
  <2>2. QED
    BY <2>1, FS_EmptySet DEF Init, ActiveInv
<1>2. (TypeOK /\ ActiveInv) /\ [Next]_vars => (TypeOK /\ ActiveInv)'
  BY NextTypeOK, NextActive
<1>3. ActiveInv => ActiveIsExact
  BY DEF ActiveInv, BusyIn, ActiveIsExact
<1>4. QED
  BY <1>1, <1>2, <1>3, PTL DEF Spec

-----------------------------------------------------------------------------
(* Wake-ups.  Whoever is past ensure_worker knows a published worker, the  *)
(* task to unblock serves the queue of the call, and worker_waiting is     *)
(* clear only while a worker of the queue is outside task_block.           *)
Knows(t) ==
    /\ pc[t] = "publish" => home[task[t]] = wqArg[t]
    /\ pc[t] \in {"started", "mark", "append", "wake"} => workerTask[wqArg[t]] # None
    /\ pc[t] = "unblock" => task[t] # None /\ home[task[t]] = wqArg[t]

Wired ==
    /\ \A q \in Queues : workerTask[q] # None => home[workerTask[q]] = q
    /\ \A t \in Threads : Knows(t)
    /\ \A q \in Queues :
          waiting[q] \/ \A k \in Workers : home[k] = q =>
                           \E j \in Workers : home[j] = q /\ pc[j] # "block"

WakeInv == Wired /\ NoLostWake

(* A step of t outside task_block and the wake.                            *)
WakesNobody(t) ==
    /\ \E l : l # "block" /\ pc' = [pc EXCEPT ![t] = l]
    /\ pc[t] \notin {"block", "wake", "unblock"}
    /\ Knows(t)'
    /\ UNCHANGED <<waiting, home, token, workerTask>>
    /\ \A u \in Threads : u # t => wqArg'[u] = wqArg[u] /\ task'[u] = task[u]
    /\ \A q \in Queues : list'[q] # <<>> => list[q] # <<>>

LEMMA WakesNobodyWake ==
  ASSUME TypeOK, WakeInv, NEW t \in Threads, WakesNobody(t)
  PROVE  WakeInv'
<1>1. \A u \in Threads : u # t => pc'[u] = pc[u]
  BY DEF WakesNobody, TypeOK, Types
<1>2. pc'[t] # "block"
  BY DEF WakesNobody, TypeOK, Types
<1>3. \A k \in Workers : (Asleep(k)' <=> Asleep(k)) /\ (pc'[k] = "block" <=> pc[k] = "block")
  BY <1>1, <1>2 DEF WakesNobody, Asleep, Threads
<1>4. \A u \in Threads : Knows(u)'
  BY <1>1 DEF WakeInv, Wired, Knows, WakesNobody
<1>5. Wired'
  BY <1>3, <1>4 DEF WakeInv, Wired, WakesNobody
<1>6. NoLostWake'
  <2> SUFFICES ASSUME NEW q \in Queues, list'[q] # <<>>,
                      \A k \in Workers : ~(home'[k] = q /\ ~Asleep(k)')
               PROVE  \E u \in Threads :
                         /\ wqArg'[u] = q
                         /\ \/ pc'[u] = "wake" /\ workerTask'[q] # None /\ waiting'[q]
                            \/ pc'[u] = "unblock" /\ task'[u] # None /\ waiting'[q]
    BY DEF NoLostWake
  <2>1. \A k \in Workers : ~(home[k] = q /\ ~Asleep(k))
    BY <1>3 DEF WakesNobody
  <2>2. PICK u \in Threads :
                         /\ wqArg[u] = q
                         /\ \/ pc[u] = "wake" /\ workerTask[q] # None /\ waiting[q]
                            \/ pc[u] = "unblock" /\ task[u] # None /\ waiting[q]
    BY <2>1 DEF WakeInv, NoLostWake, WakesNobody
  <2>3. u # t
    BY <2>2 DEF WakesNobody
  <2>4. QED
    BY <1>1, <2>2, <2>3 DEF WakesNobody
<1>7. QED
  BY <1>5, <1>6 DEF WakeInv

(* Thread u is on its way to wake the worker of q.                         *)
Wakes(u, q) ==
    /\ wqArg[u] = q
    /\ \/ pc[u] = "wake" /\ workerTask[q] # None /\ waiting[q]
       \/ pc[u] = "unblock" /\ task[u] # None /\ waiting[q]

Awake(q) == \E k \in Workers : home[k] = q /\ ~Asleep(k)

LEMMA NoLostWakeIs ==
  NoLostWake <=>
     \A q \in Queues : list[q] # <<>> => Awake(q) \/ \E u \in Threads : Wakes(u, q)
  BY DEF NoLostWake, Awake, Wakes

LEMMA CreateWorkerWake ==
  ASSUME TypeOK, WakeInv, NEW t \in Threads, CreateWorker(t)
  PROVE  WakeInv'
<1>1. PICK k \in Workers :
         /\ home[k] = None
         /\ home' = [home EXCEPT ![k] = wqArg[t]]
         /\ task' = [task EXCEPT ![t] = k]
         /\ pc' = [pc EXCEPT ![t] = "publish", ![k] = "pop"]
  BY DEF CreateWorker
<1>2. /\ pc[t] = "create" /\ pc[k] = "off" /\ t # k /\ wqArg[t] \in Queues
      /\ UNCHANGED <<list, waiting, token, workerTask, wqArg>>
  BY <1>1 DEF CreateWorker, At, TypeOK, Types, WorkerPlaced, CallPlaced, CallPcs,
     queueVars, workerVars
<1>3. \A j \in Workers : home[j] # None => j # k /\ home'[j] = home[j]
  BY <1>1 DEF TypeOK, Types
<1>4. \A u \in Threads : u # t /\ u # k => pc'[u] = pc[u] /\ task'[u] = task[u]
  BY <1>1 DEF TypeOK, Types
<1>5. pc'[t] = "publish" /\ pc'[k] = "pop" /\ task'[t] = k /\ home'[k] = wqArg[t]
  BY <1>1, <1>2 DEF TypeOK, Types, Threads
<1>6. Wired'
  <2>1. \A q \in Queues : workerTask'[q] # None => home'[workerTask'[q]] = q
    BY <1>2, <1>3, WorkqueueAssumption DEF WakeInv, Wired, TypeOK, Types
  <2>2. ASSUME NEW u \in Threads, u # t, u # k PROVE Knows(u)'
    BY <1>2, <1>3, <1>4, <2>2, WorkqueueAssumption
    DEF WakeInv, Wired, Knows, TypeOK, Types, CallPlaced, CallPcs
  <2>3. Knows(t)' /\ Knows(k)'
    BY <1>2, <1>5 DEF Knows
  <2>4. ASSUME NEW q \in Queues, ~waiting[q], NEW j \in Workers, home'[j] = q
        PROVE  \E i \in Workers : home'[i] = q /\ pc'[i] # "block"
    <3>1. CASE j = k
      BY <2>4, <3>1, <1>5
    <3>2. CASE j # k
      <4>1. PICK i \in Workers : home[i] = q /\ pc[i] # "block"
        BY <1>1, <2>4, <3>2 DEF WakeInv, Wired, TypeOK, Types
      <4>2. i # k /\ home'[i] = q /\ (i = t \/ pc'[i] = pc[i])
        BY <1>3, <1>4, <4>1, WorkqueueAssumption DEF Threads
      <4>3. QED
        BY <1>5, <4>1, <4>2
    <3>3. QED
      BY <3>1, <3>2
  <2>5. QED
    BY <1>2, <2>1, <2>2, <2>3, <2>4 DEF Wired
<1>7. ASSUME NEW q \in Queues, list'[q] # <<>>
      PROVE  Awake(q)' \/ \E u \in Threads : Wakes(u, q)'
  <2>1. CASE Awake(q)
    <3>1. PICK j \in Workers : home[j] = q /\ ~Asleep(j)
      BY <2>1 DEF Awake
    <3>2. home'[j] = q /\ ~Asleep(j)'
      BY <1>2, <1>3, <1>4, <1>5, <3>1, WorkqueueAssumption DEF Asleep, Threads
    <3>3. QED
      BY <3>2 DEF Awake
  <2>2. ASSUME NEW u \in Threads, Wakes(u, q) PROVE Wakes(u, q)'
    BY <1>2, <1>4, <2>2 DEF Wakes
  <2>3. QED
    BY <1>2, <1>7, <2>1, <2>2, NoLostWakeIs DEF WakeInv
<1>8. QED
  BY <1>6, <1>7 DEF WakeInv, NoLostWake, Awake, Wakes

(* The steps that touch what Wired and NoLostWake speak of.                *)
LEMMA WakingSteps ==
  ASSUME TypeOK, WakeInv, NEW t \in Threads,
         PublishWorker(t) \/ AppendWork(t) \/ WakeLoad(t) \/ WakeUnblock(t)
  PROVE  WakeInv'
<1> USE WorkqueueAssumption
    DEF At, Goto, Return, TaskUnblock, queueVars, startVars, workVars, callVars, workerVars
<1> SUFFICES ASSUME NEW r \in Queues, r = wqArg[t] PROVE WakeInv'
  BY DEF TypeOK, Types, CallPlaced, CallPcs, PublishWorker, AppendWork, WakeLoad, WakeUnblock
<1>1. \A u \in Threads : u # t => pc'[u] = pc[u] /\ task'[u] = task[u]
  BY DEF TypeOK, Types, PublishWorker, AppendWork, WakeLoad, WakeUnblock
<1>2. /\ UNCHANGED <<home, wqArg, waiting>> /\ token \subseteq token'
      /\ \A q \in Queues : workerTask[q] # None => workerTask'[q] # None
      /\ \A q \in Queues : q # r => list'[q] = list[q]
  BY DEF TypeOK, Types, CallPlaced, PublishWorker, AppendWork, WakeLoad, WakeUnblock
<1>3. pc[t] # "block" /\ pc'[t] # "block"
  BY DEF TypeOK, Types, PublishWorker, AppendWork, WakeLoad, WakeUnblock
<1>4. Wired'
  <2>1. \A q \in Queues : workerTask'[q] # None => home'[workerTask'[q]] = q
    BY <1>2 DEF PublishWorker, AppendWork, WakeLoad, WakeUnblock, WakeInv, Wired, Knows,
       TypeOK, Types
  <2>2. ASSUME NEW u \in Threads, u # t PROVE Knows(u)'
    BY <1>1, <1>2, <2>2 DEF WakeInv, Wired, Knows, TypeOK, Types, CallPlaced, CallPcs
  <2>3. Knows(t)'
    <3>1. CASE PublishWorker(t)
      BY <3>1 DEF PublishWorker, Knows, TypeOK, Types, CallPlaced
    <3>2. CASE AppendWork(t)
      BY <3>2 DEF AppendWork, WakeInv, Wired, Knows, TypeOK, Types
    <3>3. CASE WakeLoad(t)
      BY <3>3 DEF WakeLoad, WakeInv, Wired, Knows, TypeOK, Types
    <3>4. CASE WakeUnblock(t)
      BY <3>4 DEF WakeUnblock, Knows, TypeOK, Types
    <3>5. QED
      BY <3>1, <3>2, <3>3, <3>4
  <2>4. \A k \in Workers : pc'[k] = "block" <=> pc[k] = "block"
    BY <1>1, <1>3 DEF Threads
  <2>5. QED
    BY <1>2, <2>1, <2>2, <2>3, <2>4 DEF WakeInv, Wired
<1>5. \A k \in Workers : ~Asleep(k) => ~Asleep(k)'
  BY <1>1, <1>2, <1>3 DEF Asleep, Threads
<1>6. \A q \in Queues : Awake(q) => Awake(q)'
  BY <1>2, <1>5 DEF Awake
<1>7. ASSUME NEW q \in Queues, NEW u \in Threads, u # t, Wakes(u, q) PROVE Wakes(u, q)'
  BY <1>1, <1>2, <1>7 DEF Wakes
<1>8. ASSUME NEW q \in Queues, list'[q] # <<>>
      PROVE  Awake(q)' \/ \E u \in Threads : Wakes(u, q)'
  <2>1. CASE PublishWorker(t)
    BY <1>6, <1>7, <1>8, <2>1, NoLostWakeIs DEF WakeInv, PublishWorker, Wakes
  <2>2. CASE AppendWork(t) /\ q # r
    BY <1>2, <1>6, <1>7, <1>8, <2>2, NoLostWakeIs DEF WakeInv, AppendWork, Wakes
  <2>3. CASE AppendWork(t) /\ q = r
    <3>1. workerTask[q] # None /\ workerTask[q] \in Workers
      BY <2>3 DEF AppendWork, WakeInv, Wired, Knows, TypeOK, Types
    <3>2. home[workerTask[q]] = q
      BY <3>1 DEF WakeInv, Wired
    <3>3. CASE waiting[q]
      BY <1>2, <2>3, <3>1, <3>3 DEF AppendWork, Wakes, TypeOK, Types
    <3>4. CASE ~waiting[q]
      <4>1. \E j \in Workers : home[j] = q /\ pc[j] # "block"
        BY <3>1, <3>2, <3>4 DEF WakeInv, Wired
      <4>2. Awake(q)
        BY <4>1 DEF Awake, Asleep
      <4>3. QED
        BY <1>6, <4>2
    <3>5. QED
      BY <3>3, <3>4
  <2>4. CASE WakeLoad(t)
    <3>1. Wakes(t, q) => Wakes(t, q)'
      BY <2>4 DEF WakeLoad, Wakes, TypeOK, Types
    <3>2. QED
      BY <1>6, <1>7, <1>8, <2>4, <3>1, NoLostWakeIs DEF WakeInv, WakeLoad
  <2>5. CASE WakeUnblock(t)
    <3>1. Wakes(t, q) => Awake(q)'
      <4>1. SUFFICES ASSUME Wakes(t, q) PROVE Awake(q)'
        OBVIOUS
      <4>2. task[t] \in Workers /\ home[task[t]] = q /\ task[t] \in token'
        BY <2>5, <4>1 DEF WakeUnblock, Wakes, WakeInv, Wired, Knows, TypeOK, Types
      <4>3. QED
        BY <1>2, <4>2 DEF Awake, Asleep
    <3>2. QED
      BY <1>6, <1>7, <1>8, <2>5, <3>1, NoLostWakeIs DEF WakeInv, WakeUnblock
  <2>6. QED
    BY <2>1, <2>2, <2>3, <2>4, <2>5
<1>9. QED
  BY <1>4, <1>8 DEF WakeInv, NoLostWake, Awake, Wakes

LEMMA WorkerWaits ==
  ASSUME TypeOK, WakeInv, NEW k \in Workers, PopWork(k) \/ PopNothing(k) \/ TaskBlock(k)
  PROVE  WakeInv'
<1> USE WorkqueueAssumption
    DEF At, Goto, queueVars, startVars, workVars, callVars, workerVars
<1> SUFFICES ASSUME NEW r \in Queues, r = home[k] PROVE WakeInv'
  BY DEF TypeOK, Types, WorkerPlaced, PopWork, PopNothing, TaskBlock
<1>0. k \in Threads
  BY DEF Threads
<1>1. /\ \A u \in Threads : u # k => pc'[u] = pc[u]
      /\ UNCHANGED <<home, wqArg, task, workerTask>>
  BY DEF TypeOK, Types, PopWork, PopNothing, TaskBlock
<1>2. \A u \in Threads : Knows(u)'
  BY <1>0, <1>1 DEF PopWork, PopNothing, TaskBlock, WakeInv, Wired, Knows, TypeOK, Types
<1>3. ASSUME NEW q \in Queues, q # r
      PROVE  /\ waiting'[q] = waiting[q] /\ list'[q] = list[q]
             /\ \A j \in Workers : home[j] = q =>
                   (pc'[j] = pc[j] /\ (Asleep(j)' <=> Asleep(j)))
  <2>1. \A j \in Workers : home[j] = q => j # k /\ (j \in token' <=> j \in token)
    BY <1>3 DEF PopWork, PopNothing, TaskBlock
  <2>2. QED
    BY <1>1, <1>3, <2>1 DEF PopWork, PopNothing, TaskBlock, TypeOK, Types, Asleep, Threads
<1>4. \/ pc'[k] # "block"
      \/ waiting'[r] /\ list'[r] = <<>>
  BY <1>0 DEF PopWork, PopNothing, TaskBlock, TypeOK, Types
<1>5. Wired'
  <2>1. \A q \in Queues : waiting'[q] \/ \A i \in Workers : home'[i] = q =>
                           \E j \in Workers : home'[j] = q /\ pc'[j] # "block"
    <3>1. ASSUME NEW q \in Queues, q # r, ~waiting'[q], NEW i \in Workers, home'[i] = q
          PROVE  \E j \in Workers : home'[j] = q /\ pc'[j] # "block"
      <4>1. PICK j \in Workers : home[j] = q /\ pc[j] # "block"
        BY <1>1, <1>3, <3>1 DEF WakeInv, Wired
      <4>2. QED
        BY <1>1, <1>3, <3>1, <4>1
    <3>2. QED
      BY <1>1, <1>4, <3>1
  <2>2. QED
    BY <1>1, <1>2, <2>1 DEF WakeInv, Wired
<1>6. ASSUME NEW q \in Queues, list'[q] # <<>>
      PROVE  Awake(q)' \/ \E u \in Threads : Wakes(u, q)'
  <2>1. CASE q = r
    <3>1. ~Asleep(k)'
      BY <1>4, <1>6, <2>1 DEF Asleep
    <3>2. QED
      BY <1>1, <2>1, <3>1 DEF Awake
  <2>2. CASE q # r
    <3>1. Awake(q) => Awake(q)'
      BY <1>1, <1>3, <2>2 DEF Awake
    <3>2. \A u \in Threads : Wakes(u, q) => u # k
      BY DEF Wakes, PopWork, PopNothing, TaskBlock
    <3>3. \A u \in Threads : Wakes(u, q) => Wakes(u, q)'
      BY <1>1, <1>3, <2>2, <3>2 DEF Wakes
    <3>4. list[q] # <<>>
      BY <1>3, <1>6, <2>2
    <3>5. QED
      BY <3>1, <3>3, <3>4, NoLostWakeIs DEF WakeInv
  <2>3. QED
    BY <2>1, <2>2
<1>7. QED
  BY <1>5, <1>6 DEF WakeInv, NoLostWake, Awake, Wakes

LEMMA NextWake == TypeOK /\ WakeInv /\ [Next]_vars => WakeInv'
<1> SUFFICES ASSUME TypeOK, WakeInv, [Next]_vars PROVE WakeInv'
  OBVIOUS
<1> USE WorkqueueAssumption
    DEF At, Goto, Return, queueVars, startVars, workVars, callVars, workerVars
<1>1. ASSUME NEW t \in Threads, Call(t) PROVE WakesNobody(t)
  BY <1>1 DEF Call, QueueWork, EnterQueueWork, CancelWorkSync, EnterCancel, FlushWorkqueue,
     WakesNobody, Knows, TypeOK, Types
<1>2. ASSUME NEW t \in Threads,
             \/ EnsureWorker(t) \/ ElectStarter(t) \/ SpinForStarter(t) \/ SpinResult(t)
             \/ CreateFails(t) \/ EndStarting(t) \/ MarkQueued(t)
      PROVE  WakesNobody(t)
  BY <1>2 DEF EnsureWorker, ElectStarter, SpinForStarter, SpinResult, CreateFails, EndStarting,
     MarkQueued, WakesNobody, Knows, WakeInv, Wired, TypeOK, Types
<1>3. ASSUME NEW t \in Threads,
             ClearQueued(t) \/ AwaitNotRunning(t) \/ FlushReturns(t)
      PROVE  WakesNobody(t)
  BY <1>3 DEF ClearQueued, AwaitNotRunning, FlushReturns, WakesNobody, Knows, TypeOK, Types
<1>4. ASSUME NEW t \in Threads, RemoveWork(t) PROVE WakesNobody(t)
  <2>1. \A q \in Queues : list'[q] # <<>> => list[q] # <<>>
    <3>1. \A q \in Queues : list'[q] # list[q] => Listed(arg[t], q)
      BY <1>4 DEF RemoveWork, TypeOK, Types
    <3>2. QED
      BY <3>1 DEF Listed
  <2>2. QED
    BY <1>4, <2>1 DEF RemoveWork, WakesNobody, Knows, TypeOK, Types
<1>5. ASSUME NEW k \in Workers,
             \/ ClaimWork(k) \/ EnterDelayed(k) \/ FuncReturns(k) \/ LeaveDelayed(k)
             \/ ClearRunning(k) \/ SettleLock(k) \/ SettleUnlock(k)
      PROVE  WakesNobody(k)
  BY <1>5 DEF ClaimWork, EnterDelayed, FuncReturns, LeaveDelayed, ClearRunning, SettleLock,
     SettleUnlock, WakesNobody, Knows, TypeOK, Types, Threads
<1>6. ASSUME NEW t \in Threads, Call(t) \/ CallStep(t) PROVE WakeInv'
  BY <1>6, <1>1, <1>2, <1>3, <1>4, WakesNobodyWake, CreateWorkerWake, WakingSteps
  DEF CallStep, QueueStep
<1>7. ASSUME NEW k \in Workers, WorkerStep(k) PROVE WakeInv'
  <2>1. k \in Threads
    BY DEF Threads
  <2>2. QED
    BY <1>7, <2>1, <1>5, WakesNobodyWake, WorkerWaits DEF WorkerStep
<1>8. CASE UNCHANGED vars
  BY <1>8 DEF vars, WakeInv, Wired, Knows, NoLostWake, Asleep
<1>9. QED
  BY <1>6, <1>7, <1>8 DEF Next

LEMMA InitWake == Init => WakeInv
<1> SUFFICES ASSUME Init PROVE WakeInv
  OBVIOUS
<1>1. ASSUME NEW q \in Queues, FirstWorker[q] # None PROVE home[FirstWorker[q]] = q
  <2>1. FirstWorker[q] \in Workers
    BY <1>1, WorkqueueAssumption
  <2>2. home[FirstWorker[q]] = CHOOSE r \in Queues : FirstWorker[r] = FirstWorker[q]
    BY <2>1 DEF Init
  <2>3. \A r \in Queues : FirstWorker[r] = FirstWorker[q] => r = q
    BY <1>1, WorkqueueAssumption
  <2>4. QED
    BY <2>2, <2>3
<1>2. \A t \in Threads : pc[t] \in {"idle", "pop", "off"}
  BY DEF Init
<1>3. Wired
  BY <1>1, <1>2 DEF Init, Wired, Knows, Threads
<1>4. NoLostWake
  BY DEF Init, NoLostWake
<1>5. QED
  BY <1>3, <1>4 DEF WakeInv

(* Work in a list is never left to sleeping workers: between an append,    *)
(* the unlocked load of worker_task and worker_waiting, and a worker that  *)
(* finds nothing and blocks, no order of steps loses the wake-up, with any *)
(* number of queues, of clients and of workers started by accident.        *)
THEOREM WakeNeverLost == Spec => []NoLostWake
<1>1. Init => TypeOK /\ WakeInv
  BY InitTypeOK, InitWake
<1>2. (TypeOK /\ WakeInv) /\ [Next]_vars => (TypeOK /\ WakeInv)'
  BY NextTypeOK, NextWake
<1>3. WakeInv => NoLostWake
  BY DEF WakeInv
<1>4. QED
  BY <1>1, <1>2, <1>3, PTL DEF Spec

-----------------------------------------------------------------------------
(* The RUNNING bit.  One bit cannot stand for two executions: a second     *)
(* worker that executes the same work sets it again and the first to end   *)
(* clears it.  What the bit is good for holds as long as no work is        *)
(* executed twice at once, which is what one worker per work gives.        *)
ExecPcs == {"enter", "func", "leave", "unrun"} \cup CallPcs
Executes(k, w) == pc[k] \in ExecPcs /\ cur[k] = w

ExecutedOnce ==
    \A w \in Works : \A j, k \in Workers : Executes(j, w) /\ Executes(k, w) => j = k

RunInv ==
    /\ \A k \in Workers, w \in Works : Executes(k, w) => "RUNNING" \in state[w]
    /\ \A w \in Works : "RUNNING" \in state[w] => \E k \in Workers : Executes(k, w)

LEMMA RunFrame ==
  ASSUME RunInv,
         \A w \in Works : "RUNNING" \in state'[w] <=> "RUNNING" \in state[w],
         \A k \in Workers, w \in Works : Executes(k, w)' <=> Executes(k, w)
  PROVE  RunInv'
  BY DEF RunInv

(* A step of t that neither starts nor ends an execution.                  *)
RunsOn(t) ==
    /\ \E l :
          /\ pc' = [pc EXCEPT ![t] = l]
          /\ t \in Workers =>
                /\ l \in ExecPcs <=> pc[t] \in ExecPcs
                /\ pc[t] \in ExecPcs => cur'[t] = cur[t]
    /\ \A k \in Workers : k # t => cur'[k] = cur[k]
    /\ \A w \in Works : "RUNNING" \in state'[w] <=> "RUNNING" \in state[w]

LEMMA RunsOnRun ==
  ASSUME TypeOK, RunInv, NEW t \in Threads, RunsOn(t)
  PROVE  RunInv'
<1>1. PICK l : /\ pc' = [pc EXCEPT ![t] = l]
               /\ t \in Workers =>
                     /\ l \in ExecPcs <=> pc[t] \in ExecPcs
                     /\ pc[t] \in ExecPcs => cur'[t] = cur[t]
  BY DEF RunsOn
<1>2. ASSUME NEW k \in Workers, NEW w \in Works PROVE Executes(k, w)' <=> Executes(k, w)
  <2>1. pc'[k] = IF k = t THEN l ELSE pc[k]
    BY <1>1 DEF TypeOK, Types, Threads
  <2>2. QED
    BY <1>1, <2>1 DEF Executes, RunsOn
<1>3. QED
  BY <1>2, RunFrame DEF RunsOn

LEMMA CreateWorkerRun ==
  ASSUME TypeOK, RunInv, NEW t \in Threads, CreateWorker(t)
  PROVE  RunInv'
<1>1. PICK k \in Workers :
         home[k] = None /\ pc' = [pc EXCEPT ![t] = "publish", ![k] = "pop"]
  BY DEF CreateWorker
<1>2. pc[t] = "create" /\ pc[k] = "off" /\ t # k /\ UNCHANGED <<state, cur>>
  BY <1>1 DEF CreateWorker, At, TypeOK, WorkerPlaced, workVars, workerVars
<1>3. \A j \in Workers, w \in Works : Executes(j, w)' <=> Executes(j, w)
  BY <1>1, <1>2 DEF Executes, ExecPcs, CallPcs, TypeOK, Types, Threads
<1>4. QED
  BY <1>2, <1>3, RunFrame

LEMMA ClaimWorkRun ==
  ASSUME TypeOK, RunInv, NEW k \in Workers, ClaimWork(k)
  PROVE  RunInv'
<1> SUFFICES ASSUME NEW w \in Works, w = cur[k], pc[k] = "claim" PROVE RunInv'
  BY DEF ClaimWork, At, TypeOK, Types, WorkerPlaced, BusyPcs
<1>1. CASE "QUEUED" \in state[w]
  <2>1. /\ state' = [state EXCEPT ![w] = {"RUNNING"}] /\ cur' = cur
        /\ \E l \in {"enter", "func"} : pc' = [pc EXCEPT ![k] = l]
    BY <1>1 DEF ClaimWork, Goto, workerVars
  <2>2. \A j \in Workers, v \in Works :
           Executes(j, v)' <=> Executes(j, v) \/ (j = k /\ v = w)
    BY <2>1 DEF Executes, ExecPcs, CallPcs, TypeOK, Types, Threads
  <2>3. \A v \in Works : "RUNNING" \in state'[v] <=> "RUNNING" \in state[v] \/ v = w
    BY <2>1 DEF TypeOK, Types
  <2>4. QED
    BY <2>2, <2>3 DEF RunInv
<1>2. CASE "QUEUED" \notin state[w]
  <2>1. state' = state /\ cur' = cur /\ pc' = [pc EXCEPT ![k] = "settle"]
    BY <1>2 DEF ClaimWork, Goto, workerVars
  <2>2. \A j \in Workers, v \in Works : Executes(j, v)' <=> Executes(j, v)
    BY <2>1 DEF Executes, ExecPcs, CallPcs, TypeOK, Types, Threads
  <2>3. QED
    BY <2>1, <2>2, RunFrame
<1>3. QED
  BY <1>1, <1>2

LEMMA ClearRunningRun ==
  ASSUME TypeOK, RunInv, ExecutedOnce, NEW k \in Workers, ClearRunning(k)
  PROVE  RunInv'
<1> SUFFICES ASSUME NEW w \in Works, w = cur[k], pc[k] = "unrun" PROVE RunInv'
  BY DEF ClearRunning, At, TypeOK, Types, WorkerPlaced, BusyPcs
<1>1. /\ state' = [state EXCEPT ![w] = @ \ {"RUNNING"}] /\ cur' = cur
      /\ pc' = [pc EXCEPT ![k] = "settle"]
  BY DEF ClearRunning, Goto, workerVars
<1>2. Executes(k, w)
  BY DEF Executes, ExecPcs
<1>3. \A j \in Workers, v \in Works : Executes(j, v)' <=> Executes(j, v) /\ v # w
  BY <1>1, <1>2 DEF ExecutedOnce, Executes, ExecPcs, CallPcs, TypeOK, Types, Threads
<1>4. \A v \in Works : "RUNNING" \in state'[v] <=> "RUNNING" \in state[v] /\ v # w
  BY <1>1 DEF TypeOK, Types
<1>5. QED
  BY <1>3, <1>4 DEF RunInv

LEMMA NextRun == TypeOK /\ RunInv /\ ExecutedOnce /\ [Next]_vars => RunInv'
<1> SUFFICES ASSUME TypeOK, RunInv, ExecutedOnce, [Next]_vars PROVE RunInv'
  OBVIOUS
<1> USE WorkqueueAssumption
    DEF At, Goto, Return, queueVars, startVars, workVars, callVars, workerVars
<1>1. ASSUME NEW t \in Threads, Call(t) PROVE RunsOn(t)
  <2>1. t \in Workers => pc[t] # "idle"
    BY DEF TypeOK, WorkerPlaced, WorkerPcs, CallPcs, BusyPcs
  <2>2. QED
    BY <1>1, <2>1 DEF Call, QueueWork, EnterQueueWork, CancelWorkSync, EnterCancel,
                      FlushWorkqueue, RunsOn, ExecPcs, CallPcs
<1>2. ASSUME NEW t \in Threads,
             \/ EnsureWorker(t) \/ ElectStarter(t) \/ SpinForStarter(t) \/ SpinResult(t)
             \/ CreateFails(t) \/ PublishWorker(t) \/ EndStarting(t)
      PROVE  RunsOn(t)
  BY <1>2 DEF EnsureWorker, ElectStarter, SpinForStarter, SpinResult, CreateFails,
     PublishWorker, EndStarting, RunsOn, ExecPcs, CallPcs
<1>3. ASSUME NEW t \in Threads,
             MarkQueued(t) \/ AppendWork(t) \/ WakeLoad(t) \/ WakeUnblock(t)
      PROVE  RunsOn(t)
  <2>1. CASE MarkQueued(t)
    BY <2>1 DEF MarkQueued, RunsOn, ExecPcs, CallPcs, TypeOK, Types
  <2>2. CASE AppendWork(t)
    BY <2>2 DEF AppendWork, RunsOn, ExecPcs, CallPcs
  <2>3. CASE WakeLoad(t) \/ WakeUnblock(t)
    BY <2>3 DEF WakeLoad, WakeUnblock, RunsOn, ExecPcs, CallPcs
  <2>4. QED
    BY <1>3, <2>1, <2>2, <2>3
<1>4. ASSUME NEW t \in Threads,
             RemoveWork(t) \/ ClearQueued(t) \/ AwaitNotRunning(t) \/ FlushReturns(t)
      PROVE  RunsOn(t)
  <2>1. t \notin Workers
    BY <1>4 DEF RemoveWork, ClearQueued, AwaitNotRunning, FlushReturns,
       TypeOK, WorkerPlaced, WorkerPcs, CallPcs, BusyPcs
  <2>2. CASE ClearQueued(t)
    <3>1. state' = [state EXCEPT ![arg[t]] = @ \ {"QUEUED"}] /\ cur' = cur
      BY <2>2 DEF ClearQueued
    <3>2. \A w \in Works : "RUNNING" \in state'[w] <=> "RUNNING" \in state[w]
      BY <3>1 DEF TypeOK, Types
    <3>3. \E l : pc' = [pc EXCEPT ![t] = l]
      BY <2>2 DEF ClearQueued
    <3>4. QED
      BY <2>1, <3>1, <3>2, <3>3 DEF RunsOn
  <2>3. CASE RemoveWork(t) \/ AwaitNotRunning(t) \/ FlushReturns(t)
    <3>1. UNCHANGED <<state, cur>> /\ \E l : pc' = [pc EXCEPT ![t] = l]
      BY <2>3 DEF RemoveWork, AwaitNotRunning, FlushReturns
    <3>2. QED
      BY <2>1, <3>1 DEF RunsOn
  <2>4. QED
    BY <1>4, <2>2, <2>3
<1>5. ASSUME NEW k \in Workers,
             \/ PopNothing(k) \/ TaskBlock(k) \/ EnterDelayed(k)
             \/ FuncReturns(k) \/ LeaveDelayed(k) \/ SettleLock(k)
      PROVE  RunsOn(k)
  <2>1. UNCHANGED <<state, cur>>
    BY <1>5 DEF PopNothing, TaskBlock, EnterDelayed, FuncReturns, LeaveDelayed, SettleLock
  <2>2. \/ pc[k] \in {"pop", "block", "settle"}
           /\ \E l \in {"pop", "block", "release", "forget"} : pc' = [pc EXCEPT ![k] = l]
        \/ pc[k] \in {"enter", "func", "leave"}
           /\ \E l \in {"func", "leave", "unrun"} : pc' = [pc EXCEPT ![k] = l]
    BY <1>5 DEF PopNothing, TaskBlock, EnterDelayed, FuncReturns, LeaveDelayed, SettleLock
  <2>3. QED
    BY <2>1, <2>2 DEF RunsOn, ExecPcs, CallPcs
<1>6. ASSUME NEW k \in Workers, PopWork(k) \/ SettleUnlock(k) PROVE RunsOn(k)
  <2>1. /\ state' = state /\ \A j \in Workers : j # k => cur'[j] = cur[j]
        /\ pc[k] \notin ExecPcs
    BY <1>6 DEF PopWork, SettleUnlock, ExecPcs, CallPcs, TypeOK, Types
  <2>2. \E l \in {"claim", "pop"} : pc' = [pc EXCEPT ![k] = l]
    BY <1>6 DEF PopWork, SettleUnlock
  <2>3. QED
    BY <2>1, <2>2 DEF RunsOn, ExecPcs, CallPcs
<1>7. ASSUME NEW t \in Threads, Call(t) \/ CallStep(t) PROVE RunInv'
  BY <1>7, <1>1, <1>2, <1>3, <1>4, RunsOnRun, CreateWorkerRun DEF CallStep, QueueStep
<1>8. ASSUME NEW k \in Workers, WorkerStep(k) PROVE RunInv'
  <2>1. k \in Threads
    BY DEF Threads
  <2>2. QED
    BY <1>8, <2>1, <1>5, <1>6, RunsOnRun, ClaimWorkRun, ClearRunningRun DEF WorkerStep
<1>9. CASE UNCHANGED vars
  BY <1>9, RunFrame DEF vars, Executes
<1>10. QED
  BY <1>7, <1>8, <1>9 DEF Next

LEMMA InitRun == Init => RunInv
  BY DEF Init, RunInv, Executes, ExecPcs, CallPcs, Threads

LEMMA RunAlways == Spec /\ []ExecutedOnce => []RunInv
<1>1. Init => TypeOK /\ RunInv
  BY InitTypeOK, InitRun
<1>2. TypeOK /\ RunInv /\ ExecutedOnce /\ [Next]_vars => (TypeOK /\ RunInv)'
  BY NextTypeOK, NextRun
<1>3. QED
  BY <1>1, <1>2, PTL DEF Spec

(* As long as no work is executed by two workers at once, the RUNNING bit  *)
(* is set through every execution: the waiting loop of                     *)
(* lcompat_cancel_work_sync does not leave while the function runs.        *)
THEOREM RunningCovered == Spec /\ []ExecutedOnce => []RunningBitCovers
<1>1. TypeOK /\ RunInv => RunningBitCovers
  BY DEF TypeOK, Types, WorkerPlaced, BusyPcs, RunInv, Executes, ExecPcs, RunningBitCovers
<1>2. QED
  BY <1>1, TypeCorrect, RunAlways, PTL

(* Each step of the code is a step of WorkContract or changes nothing of it.*)
LEMMA ContractStep ==
  ASSUME TypeOK, TokenOwned, RunInv, ExecutedOnce', [Next]_vars
  PROVE  [Contract!Next]_(Contract!vars)
<1> DEFINE P == {w \in Works : "QUEUED" \in state[w]}
           R == {w \in Works : "RUNNING" \in state[w]}
<1> USE WorkqueueAssumption
    DEF At, Goto, queueVars, startVars, workVars, callVars, workerVars
<1>1. UNCHANGED state => UNCHANGED Contract!vars
  BY DEF Contract!vars
<1>2. ASSUME NEW t \in Threads, MarkQueued(t) PROVE Contract!Next \/ UNCHANGED Contract!vars
  <2> SUFFICES ASSUME NEW w \in Works, w = arg[t]
               PROVE  Contract!Next \/ UNCHANGED Contract!vars
    BY <1>2 DEF MarkQueued, TypeOK, Types, CallPlaced, CallPcs
  <2>1. state' = [state EXCEPT ![w] = @ \cup {"QUEUED"}]
    BY <1>2 DEF MarkQueued
  <2>2. P' = P \cup {w} /\ R' = R
    BY <2>1 DEF TypeOK, Types
  <2>3. w \in P \/ Contract!Accept(w)
    BY <2>2 DEF Contract!Accept
  <2>4. w \in P => UNCHANGED Contract!vars
    BY <2>2 DEF Contract!vars
  <2>5. QED
    BY <2>3, <2>4 DEF Contract!Next
<1>3. ASSUME NEW t \in Threads, ClearQueued(t) PROVE Contract!Next
  <2> SUFFICES ASSUME NEW w \in Works, w = arg[t] PROVE Contract!Next
    BY <1>3 DEF ClearQueued, TypeOK, Types, CallPlaced
  <2>1. state' = [state EXCEPT ![w] = @ \ {"QUEUED"}] /\ Carries(t, w)
    BY <1>3 DEF ClearQueued, Carries
  <2>2. P' = P \ {w} /\ R' = R
    BY <2>1 DEF TypeOK, Types
  <2>3. w \in P
    BY <2>1 DEF TokenOwned, QueuedIffPlaced
  <2>4. Contract!Cancel(w)
    BY <2>2, <2>3 DEF Contract!Cancel
  <2>5. QED
    BY <2>4 DEF Contract!Next
<1>4. ASSUME NEW k \in Workers, ClaimWork(k) PROVE Contract!Next \/ UNCHANGED Contract!vars
  <2> SUFFICES ASSUME NEW w \in Works, w = cur[k], "QUEUED" \in state[w] PROVE Contract!Next
    BY <1>1, <1>4 DEF ClaimWork, TypeOK, Types, WorkerPlaced, BusyPcs
  <2>1. /\ state' = [state EXCEPT ![w] = {"RUNNING"}] /\ cur' = cur /\ pc[k] = "claim"
        /\ \E l \in {"enter", "func"} : pc' = [pc EXCEPT ![k] = l]
    BY <1>4 DEF ClaimWork
  <2>2. w \notin R
    <3> SUFFICES ASSUME w \in R PROVE FALSE
      OBVIOUS
    <3>1. PICK j \in Workers : Executes(j, w)
      BY DEF RunInv
    <3>2. j # k /\ Executes(j, w)' /\ Executes(k, w)'
      BY <2>1, <3>1 DEF Executes, ExecPcs, CallPcs, TypeOK, Types, Threads
    <3>3. QED
      BY <3>2 DEF ExecutedOnce
  <2>3. P' = P \ {w} /\ R' = R \cup {w} /\ w \in P
    BY <2>1 DEF TypeOK, Types
  <2>4. Contract!Start(w)
    BY <2>2, <2>3 DEF Contract!Start
  <2>5. QED
    BY <2>4 DEF Contract!Next
<1>5. ASSUME NEW k \in Workers, ClearRunning(k) PROVE Contract!Next
  <2> SUFFICES ASSUME NEW w \in Works, w = cur[k] PROVE Contract!Next
    BY <1>5 DEF ClearRunning, TypeOK, Types, WorkerPlaced, BusyPcs
  <2>1. state' = [state EXCEPT ![w] = @ \ {"RUNNING"}] /\ Executes(k, w)
    BY <1>5 DEF ClearRunning, Executes, ExecPcs
  <2>2. R' = R \ {w} /\ P' = P /\ w \in R
    BY <2>1 DEF TypeOK, Types, RunInv
  <2>3. Contract!Finish(w)
    BY <2>2 DEF Contract!Finish
  <2>4. QED
    BY <2>3 DEF Contract!Next
<1>6. ASSUME NEW t \in Threads, Call(t) PROVE UNCHANGED state
  BY <1>6 DEF Call, QueueWork, EnterQueueWork, CancelWorkSync, EnterCancel, FlushWorkqueue
<1>7. ASSUME NEW t \in Threads, CallStep(t), ~MarkQueued(t), ~ClearQueued(t)
      PROVE  UNCHANGED state
  BY <1>7 DEF CallStep, QueueStep, EnsureWorker, ElectStarter, SpinForStarter, SpinResult,
     CreateWorker, CreateFails, PublishWorker, EndStarting, AppendWork, WakeLoad, WakeUnblock,
     RemoveWork, AwaitNotRunning, FlushReturns
<1>8. ASSUME NEW k \in Workers, WorkerStep(k), ~ClaimWork(k), ~ClearRunning(k)
      PROVE  UNCHANGED state
  BY <1>8 DEF WorkerStep, PopWork, PopNothing, TaskBlock, EnterDelayed, FuncReturns,
     LeaveDelayed, SettleLock, SettleUnlock
<1>9. UNCHANGED vars => UNCHANGED state
  BY DEF vars
<1>10. QED
  BY <1>1, <1>2, <1>3, <1>4, <1>5, <1>6, <1>7, <1>8, <1>9 DEF Next

(* Under the same condition the workqueue implements what it promises: an  *)
(* accepted work is started once or canceled once, and is not started      *)
(* while its function runs.                                                *)
THEOREM ContractKept == Spec /\ []ExecutedOnce => Contract!Spec
<1>1. Init => Contract!Init
  BY DEF Init, Contract!Init
<1>2. TypeOK /\ TokenOwned /\ RunInv /\ ExecutedOnce' /\ [Next]_vars
         => [Contract!Next]_(Contract!vars)
  BY ContractStep
<1>3. QED
  BY <1>1, <1>2, TypeCorrect, TokenOwnedAlways, RunAlways, PTL DEF Spec, Contract!Spec

(* With one worker the condition holds of itself: the bit covers every     *)
(* execution and the contract is kept.                                     *)
THEOREM OneWorkerKeepsContract ==
  ASSUME \A j, k \in Workers : j = k
  PROVE  Spec => []RunningBitCovers /\ Contract!Spec
<1>1. ExecutedOnce
  BY DEF ExecutedOnce
<1>2. QED
  BY <1>1, RunningCovered, ContractKept, PTL

-----------------------------------------------------------------------------
(***************************************************************************)
(* DelayedWork, for any number of works, queues, one-shot tasks and        *)
(* threads.  The steps of the workqueue keep what is shown of them above,  *)
(* with the QUEUED bits of armed works owned by the arming thread or the   *)
(* one-shot task; the steps of DelayedWork pass those bits on.             *)
(***************************************************************************)

OneShotPcs == {"off", "queueing", "enter", "fire", "trade", "reset"} \cup WaitPcs
CallerPcs  == {"none", "setwq", "activate", "bump", "spawn", "zero", "rebump",
               "cbump", "ccancel", "crun"}

DTypes ==
    /\ dactive \subseteq DelayedWorks
    /\ dgen \in [DelayedWorks -> Nat]
    /\ dpc \in [Threads -> OneShotPcs \cup CallerPcs]
    /\ genArg \in [OneShots -> Nat]
    /\ gone \subseteq OneShots

(* A thread in this code stands between two calls of the workqueue, unless *)
(* it is in the queue_work of a one-shot task or the cancel of a cancel.   *)
DPlaced(t) ==
    /\ t \in OneShots => dpc[t] \in OneShotPcs
    /\ t \notin OneShots => dpc[t] \in CallerPcs
    /\ dpc[t] \notin {"off", "none"} => arg[t] \in DelayedWorks
    /\ dpc[t] \notin {"none", "queueing", "crun"} => pc[t] = Return(t)
    /\ dpc[t] \in {"cbump", "ccancel", "crun"} => t \in Clients
    /\ dpc[t] = "setwq" => wqArg[t] \in Queues

DTypeOK == TypeOK /\ DTypes /\ \A t \in Threads : DPlaced(t)

(* A step of the workqueue taken by this module.                           *)
BaseMove ==
    \/ \E t \in Threads : PlainCall(t) \/ BaseStep(t)
    \/ \E k \in Workers : BaseWorker(k)

LEMMA BaseIsNext == ASSUME BaseMove PROVE Next /\ UNCHANGED delayedVars
  BY DEF BaseMove, PlainCall, BaseStep, BaseWorker, Next, Call

(* A step of the workqueue leaves the thread alone that stands in this     *)
(* code outside a call of the workqueue.                                   *)
LEMMA CallStepMoves ==
  ASSUME TypeOK, NEW t \in Threads, CallStep(t)
  PROVE  /\ UNCHANGED <<arg, wqArg>> /\ pc[t] \notin {"idle", "func"}
         /\ \A u \in Threads : u # t /\ pc[u] # "off" => pc'[u] = pc[u]
<1> USE DEF At, Goto, callVars
<1>1. CASE CreateWorker(t)
  <2>1. PICK k \in Workers : home[k] = None /\ pc' = [pc EXCEPT ![t] = "publish", ![k] = "pop"]
    BY <1>1 DEF CreateWorker
  <2>2. pc[k] = "off"
    BY <2>1 DEF TypeOK, WorkerPlaced
  <2>3. QED
    BY <1>1, <2>1, <2>2 DEF CreateWorker, TypeOK, Types
<1>2. CASE \/ EnsureWorker(t) \/ ElectStarter(t) \/ SpinForStarter(t) \/ SpinResult(t)
           \/ CreateFails(t) \/ PublishWorker(t) \/ EndStarting(t)
  BY <1>2 DEF EnsureWorker, ElectStarter, SpinForStarter, SpinResult, CreateFails,
     PublishWorker, EndStarting, TypeOK, Types
<1>3. CASE MarkQueued(t) \/ AppendWork(t) \/ WakeLoad(t) \/ WakeUnblock(t)
  BY <1>3 DEF MarkQueued, AppendWork, WakeLoad, WakeUnblock, TypeOK, Types
<1>4. CASE RemoveWork(t) \/ ClearQueued(t) \/ AwaitNotRunning(t) \/ FlushReturns(t)
  BY <1>4 DEF RemoveWork, ClearQueued, AwaitNotRunning, FlushReturns, TypeOK, Types
<1>5. QED
  BY <1>1, <1>2, <1>3, <1>4 DEF CallStep, QueueStep

LEMMA BaseLeaves ==
  ASSUME DTypeOK, BaseMove, NEW u \in Threads
  PROVE  /\ dpc[u] # "none" => arg'[u] = arg[u] /\ wqArg'[u] = wqArg[u]
         /\ dpc[u] \notin {"none", "queueing", "crun"} => pc'[u] = pc[u]
<1> USE DEF At, Goto, In
<1>1. ASSUME NEW t \in Threads, PlainCall(t)
      PROVE  dpc[t] = "none" /\ \A x \in Threads : x # t =>
                arg'[x] = arg[x] /\ wqArg'[x] = wqArg[x] /\ pc'[x] = pc[x]
  BY <1>1 DEF PlainCall, QueueWork, EnterQueueWork, CancelWorkSync, EnterCancel,
     FlushWorkqueue, DTypeOK, TypeOK, Types
<1>2. ASSUME NEW t \in Threads, BaseStep(t)
      PROVE  /\ UNCHANGED <<arg, wqArg>> /\ pc[t] \notin {"idle", "func"}
             /\ \A x \in Threads : x # t /\ pc[x] # "off" => pc'[x] = pc[x]
  BY <1>2, CallStepMoves DEF BaseStep, DTypeOK
<1>3. ASSUME NEW k \in Workers, BaseWorker(k)
      PROVE  /\ UNCHANGED <<arg, wqArg>> /\ dpc[k] = "none"
             /\ \A x \in Threads : x # k => pc'[x] = pc[x]
  BY <1>3 DEF BaseWorker, WorkerStep, PopWork, PopNothing, TaskBlock, ClaimWork, EnterDelayed,
     FuncReturns, LeaveDelayed, ClearRunning, SettleLock, SettleUnlock, callVars,
     DTypeOK, TypeOK, Types
<1>4. dpc[u] \notin {"none", "queueing", "crun"} => pc[u] \in {"idle", "func"}
  BY DEF DTypeOK, DPlaced, Return
<1>5. QED
  BY <1>1, <1>2, <1>3, <1>4 DEF BaseMove

LEMMA BaseDTypeOK ==
  ASSUME DTypeOK, BaseMove, gone' \subseteq OneShots
  PROVE  DTypeOK'
<1>1. TypeOK'
  BY BaseIsNext, NextTypeOK DEF DTypeOK
<1>2. DTypes'
  BY BaseIsNext DEF DTypeOK, DTypes, delayedVars
<1>3. ASSUME NEW u \in Threads PROVE DPlaced(u)'
  BY BaseIsNext, BaseLeaves DEF DTypeOK, DPlaced, delayedVars, Return, CallerPcs, OneShotPcs
<1>4. QED
  BY <1>1, <1>2, <1>3 DEF DTypeOK

(* A step of this module that moves t alone and leaves the workqueue.      *)
LEMMA OwnDTypeOK ==
  ASSUME DTypeOK, NEW t \in Threads, UNCHANGED vars, gone' \subseteq OneShots,
         NEW l, dpc' = [dpc EXCEPT ![t] = l],
         IF t \in OneShots THEN l \in OneShotPcs ELSE l \in CallerPcs \ {"setwq"},
         l \in {"off", "none"} \/ dpc[t] \notin {"off", "none"},
         l \notin {"off", "none", "queueing", "crun"} => pc[t] = Return(t),
         l = "off" => pc[t] = "idle",
         l \in {"cbump", "ccancel", "crun"} => t \in Clients,
         dactive' \subseteq DelayedWorks, dgen' \in [DelayedWorks -> Nat],
         genArg' \in [OneShots -> Nat]
  PROVE  DTypeOK'
<1>1. UNCHANGED <<pc, arg, wqArg>>
  BY DEF vars, callVars
<1>2. TypeOK'
  BY DEF DTypeOK, TypeOK, Types, WorkerPlaced, CallPlaced, vars, queueVars, startVars, workVars,
     callVars, workerVars
<1>3. DTypes'
  BY DEF DTypeOK, DTypes
<1>4. ASSUME NEW u \in Threads PROVE DPlaced(u)'
  <2>1. CASE u = t
    BY <1>1, <2>1, DelayedAssumption, WorkqueueAssumption
    DEF DTypeOK, DTypes, DPlaced, Return, OneShotPcs, WaitPcs, CallerPcs, Threads
  <2>2. CASE u # t
    BY <1>1, <2>2 DEF DTypeOK, DTypes, DPlaced, Return
  <2>3. QED
    BY <2>1, <2>2
<1>5. QED
  BY <1>2, <1>3, <1>4 DEF DTypeOK

(* The steps that write to the variables of the workqueue.                 *)
LEMMA ArmDTypeOK ==
  ASSUME DTypeOK, gone' \subseteq OneShots, NEW t \in Threads,
         \/ \E q \in Queues, w \in DelayedWorks : QueueDelayed(t, q, w)
         \/ \E w \in DelayedWorks : CancelDelayed(t, w)
         \/ SetQueue(t) \/ ZeroState(t)
         \/ t \in OneShots /\ (LoadQueue(t) \/ TradeToken(t))
  PROVE  DTypeOK'
<1> USE WorkqueueAssumption, DelayedAssumption
    DEF At, In, Jump, Outside, queueVars, startVars, workVars, workerVars, callVars
<1>1. UNCHANGED <<list, active, lock, waiting, workerTask, starting, home, dwRunning, task,
                  canceled, cur, token, pc, dgen, genArg>>
  BY DEF QueueDelayed, CancelDelayed, SetQueue, ZeroState, LoadQueue, TradeToken
<1>2. /\ state' \in [Works -> SUBSET {"QUEUED", "RUNNING"}]
      /\ wwq' \in [Works -> Queues \cup {None}] /\ calls' \in Nat
      /\ arg' \in [Threads -> Works \cup {None}]
      /\ wqArg' \in [Threads -> Queues \cup {None}]
      /\ dactive' \subseteq DelayedWorks
  <2>1. CASE \E q \in Queues, w \in DelayedWorks : QueueDelayed(t, q, w)
    <3>1. PICK q \in Queues, w \in DelayedWorks : QueueDelayed(t, q, w)
      BY <2>1
    <3>2. calls' \in Nat /\ dactive' = dactive /\ wwq' = wwq
      BY <3>1 DEF QueueDelayed, DTypeOK, TypeOK, Types
    <3>3. state' = state \/ state' = [state EXCEPT ![w] = {"QUEUED"}]
      BY <3>1 DEF QueueDelayed
    <3>4. arg' = [arg EXCEPT ![t] = w] /\ wqArg' = [wqArg EXCEPT ![t] = q]
      BY <3>1 DEF QueueDelayed
    <3>5. state' \in [Works -> SUBSET {"QUEUED", "RUNNING"}]
      <4>1. CASE state' = state
        BY <4>1 DEF DTypeOK, TypeOK, Types
      <4>2. CASE state' = [state EXCEPT ![w] = {"QUEUED"}]
        BY <4>2 DEF DTypeOK, TypeOK, Types
      <4>3. QED
        BY <3>3, <4>1, <4>2
    <3>6. arg' \in [Threads -> Works \cup {None}] /\ wqArg' \in [Threads -> Queues \cup {None}]
      BY <3>4 DEF DTypeOK, TypeOK, Types
    <3>7. QED
      BY <3>2, <3>5, <3>6 DEF DTypeOK, DTypes, TypeOK, Types
  <2>2. CASE \E w \in DelayedWorks : CancelDelayed(t, w)
    BY <2>2 DEF CancelDelayed, DTypeOK, DTypes, TypeOK, Types
  <2>3. CASE SetQueue(t)
    BY <2>3 DEF SetQueue, DTypeOK, DTypes, TypeOK, Types, DPlaced
  <2>4. CASE ZeroState(t)
    BY <2>4 DEF ZeroState, DTypeOK, DTypes, TypeOK, Types, DPlaced
  <2>5. CASE LoadQueue(t) /\ t \in OneShots
    BY <2>5 DEF LoadQueue, DTypeOK, DTypes, TypeOK, Types, DPlaced
  <2>6. CASE TradeToken(t) /\ t \in OneShots
    BY <2>6 DEF TradeToken, DTypeOK, DTypes, TypeOK, Types, DPlaced
  <2>7. QED
    BY <2>1, <2>2, <2>3, <2>4, <2>5, <2>6
<1>3. /\ pc[t] = Return(t)
      /\ \A u \in Threads : u # t =>
            arg'[u] = arg[u] /\ wqArg'[u] = wqArg[u] /\ dpc'[u] = dpc[u]
  <2>1. dpc[t] \notin {"none", "queueing", "crun"} \/ pc[t] = Return(t)
    <3>1. CASE \E w \in DelayedWorks : CancelDelayed(t, w)
      BY <3>1 DEF CancelDelayed, Return, DTypeOK, TypeOK, Types, WorkerPlaced, WorkerPcs, CallPcs,
         BusyPcs
    <3>2. CASE SetQueue(t) \/ ZeroState(t) \/ LoadQueue(t) \/ TradeToken(t)
      BY <3>2 DEF SetQueue, ZeroState, LoadQueue, TradeToken
    <3>3. CASE \E q \in Queues, w \in DelayedWorks : QueueDelayed(t, q, w)
      BY <3>3 DEF QueueDelayed
    <3>4. QED
      BY <3>1, <3>2, <3>3
  <2>2. \A u \in Threads : u # t => arg'[u] = arg[u]
    BY DEF QueueDelayed, CancelDelayed, SetQueue, ZeroState, LoadQueue, TradeToken,
       DTypeOK, TypeOK, Types
  <2>3. \A u \in Threads : u # t => wqArg'[u] = wqArg[u]
    BY DEF QueueDelayed, CancelDelayed, SetQueue, ZeroState, LoadQueue, TradeToken,
       DTypeOK, TypeOK, Types
  <2>4. \A u \in Threads : u # t => dpc'[u] = dpc[u]
    BY DEF QueueDelayed, CancelDelayed, SetQueue, ZeroState, LoadQueue, TradeToken,
       DTypeOK, DTypes
  <2>5. QED
    BY <2>1, <2>2, <2>3, <2>4 DEF DTypeOK, DPlaced
<1>4. TypeOK'
  <2>1. Types'
    BY <1>1, <1>2 DEF DTypeOK, TypeOK, Types
  <2>2. \A u \in Threads : CallPlaced(u)'
    BY <1>1, <1>3 DEF DTypeOK, TypeOK, CallPlaced, CallPcs, Return
  <2>3. QED
    BY <1>1, <2>1, <2>2 DEF DTypeOK, TypeOK, WorkerPlaced
<1>5. /\ DPlaced(t)'
      /\ dpc' \in [Threads -> OneShotPcs \cup CallerPcs]
  <2>1. CASE \E q \in Queues, w \in DelayedWorks : QueueDelayed(t, q, w)
    <3>1. /\ arg'[t] \in DelayedWorks /\ wqArg'[t] \in Queues /\ dpc[t] = "none"
          /\ dpc' = dpc \/ dpc' = [dpc EXCEPT ![t] = "setwq"]
      BY <2>1 DEF QueueDelayed, DTypeOK, TypeOK, Types
    <3>2. QED
      BY <1>1, <1>3, <3>1 DEF DTypeOK, DTypes, DPlaced, Return, OneShotPcs, WaitPcs, CallerPcs
  <2>2. CASE \E w \in DelayedWorks : CancelDelayed(t, w)
    <3>1. /\ arg'[t] \in DelayedWorks /\ dpc[t] = "none" /\ pc[t] = "idle"
          /\ dpc' = [dpc EXCEPT ![t] = "cbump"]
      BY <2>2 DEF CancelDelayed, DTypeOK, TypeOK, Types
    <3>2. t \in Clients
      BY <3>1 DEF DTypeOK, TypeOK, Threads, WorkerPlaced, WorkerPcs, CallPcs, BusyPcs
    <3>3. QED
      BY <1>1, <1>3, <3>1, <3>2 DEF DTypeOK, DTypes, DPlaced, Return, OneShotPcs, WaitPcs, CallerPcs
  <2>3. CASE SetQueue(t)
    BY <1>3, <2>3 DEF SetQueue, DTypeOK, DTypes, DPlaced, Return, OneShotPcs, WaitPcs, CallerPcs
  <2>4. CASE ZeroState(t)
    BY <1>3, <2>4 DEF ZeroState, DTypeOK, DTypes, DPlaced, Return, OneShotPcs, WaitPcs, CallerPcs
  <2>5. CASE LoadQueue(t) /\ t \in OneShots
    BY <1>3, <2>5 DEF LoadQueue, DTypeOK, DTypes, DPlaced, Return, OneShotPcs, WaitPcs, CallerPcs
  <2>6. CASE TradeToken(t) /\ t \in OneShots
    BY <1>3, <2>6 DEF TradeToken, DTypeOK, DTypes, DPlaced, Return, OneShotPcs, WaitPcs, CallerPcs
  <2>7. QED
    BY <2>1, <2>2, <2>3, <2>4, <2>5, <2>6
<1>6. \A u \in Threads : u # t => DPlaced(u)'
  BY <1>1, <1>3 DEF DTypeOK, DPlaced, Return
<1>7. QED
  BY <1>1, <1>2, <1>4, <1>5, <1>6 DEF DTypeOK, DTypes

(* The task of an arm is created; the arming call returns.                 *)
LEMMA SpawnDTypeOK ==
  ASSUME DTypeOK, gone' \subseteq OneShots, NEW t \in Threads, SpawnOneShot(t)
  PROVE  DTypeOK'
<1> USE WorkqueueAssumption, DelayedAssumption
    DEF In, Outside, queueVars, startVars, workVars, workerVars
<1>1. PICK d \in OneShots :
         /\ dpc[d] = "off"
         /\ dpc' = [dpc EXCEPT ![t] = Outside(t), ![d] = "loadgen"]
         /\ arg' = [arg EXCEPT ![d] = arg[t]]
  BY DEF SpawnOneShot
<1>2. /\ dpc[t] = "spawn" /\ t \notin OneShots /\ arg[t] \in DelayedWorks /\ d # t
      /\ d \in Clients /\ pc[d] = "idle"
  BY <1>1 DEF SpawnOneShot, DTypeOK, DPlaced, OneShotPcs, WaitPcs, Return, Threads
<1>3. UNCHANGED <<list, active, lock, waiting, workerTask, starting, home, state, wwq, dwRunning,
                  wqArg, task, canceled, calls, cur, token, pc, dactive, dgen, genArg>>
  BY DEF SpawnOneShot
<1>4. TypeOK'
  <2>1. Types'
    BY <1>1, <1>2, <1>3 DEF DTypeOK, TypeOK, Types, Threads
  <2>2. \A u \in Threads : CallPlaced(u)'
    BY <1>1, <1>2, <1>3 DEF DTypeOK, TypeOK, Types, CallPlaced, CallPcs
  <2>3. QED
    BY <1>3, <2>1, <2>2 DEF DTypeOK, TypeOK, WorkerPlaced
<1>5. /\ dpc'[t] = "none" /\ dpc'[d] = "loadgen" /\ arg'[d] \in DelayedWorks
      /\ \A u \in Threads : u # d => arg'[u] = arg[u] /\ (u # t => dpc'[u] = dpc[u])
      /\ dpc' \in [Threads -> OneShotPcs \cup CallerPcs]
  BY <1>1, <1>2 DEF DTypeOK, DTypes, TypeOK, Types, Threads, OneShotPcs, WaitPcs, CallerPcs
<1>6. ASSUME NEW u \in Threads PROVE DPlaced(u)'
  <2>1. CASE u = t
    BY <1>2, <1>3, <1>5, <2>1 DEF DPlaced, CallerPcs, Return
  <2>2. CASE u = d
    BY <1>2, <1>3, <1>5, <2>2 DEF DPlaced, OneShotPcs, WaitPcs, Return
  <2>3. CASE u # t /\ u # d
    BY <1>3, <1>5, <2>3 DEF DTypeOK, DPlaced, Return
  <2>4. QED
    BY <2>1, <2>2, <2>3
<1>7. QED
  BY <1>3, <1>4, <1>5, <1>6 DEF DTypeOK, DTypes

(* The calls of the workqueue made from here.                              *)
LEMMA EnterDTypeOK ==
  ASSUME DTypeOK, gone' \subseteq OneShots, NEW t \in Threads,
         (EnterQueue(t) /\ t \in OneShots) \/ CancelInner(t)
  PROVE  DTypeOK'
<1> USE WorkqueueAssumption, DelayedAssumption
    DEF At, Goto, In, Jump, queueVars, startVars, workVars, workerVars, callVars
<1>1. /\ t \in Clients /\ t \notin Workers /\ pc[t] = "idle" /\ arg[t] \in DelayedWorks
      /\ arg[t] \in Works
  BY DEF EnterQueue, CancelInner, EnterQueueWork, EnterCancel, DTypeOK, DPlaced, Return
<1>2. arg' = arg
  <2>1. arg' = [arg EXCEPT ![t] = arg[t]]
    BY DEF EnterQueue, CancelInner, EnterQueueWork, EnterCancel
  <2>2. QED
    BY <2>1 DEF DTypeOK, TypeOK, Types
<1>3. /\ wqArg' \in [Threads -> Queues \cup {None}] /\ canceled' \in [Threads -> BOOLEAN]
      /\ \A u \in Threads : u # t =>
            pc'[u] = pc[u] /\ wqArg'[u] = wqArg[u] /\ dpc'[u] = dpc[u]
      /\ \/ pc'[t] = "ensure" /\ wqArg'[t] # None /\ dpc'[t] = "queueing"
         \/ pc'[t] = "remove" /\ wqArg'[t] # None /\ dpc'[t] = "crun"
         \/ pc'[t] = "await" /\ dpc'[t] = "crun"
      /\ pc' \in [Threads -> ClientPcs \cup WorkerPcs]
      /\ dpc' \in [Threads -> OneShotPcs \cup CallerPcs]
      /\ dpc'[t] \in IF t \in OneShots THEN OneShotPcs ELSE CallerPcs
  <2>1. CASE EnterQueue(t) /\ t \in OneShots
    BY <1>1, <2>1 DEF EnterQueue, EnterQueueWork, DTypeOK, DTypes, TypeOK, Types, OneShotPcs,
       ClientPcs, WorkerPcs, CallPcs
  <2>2. CASE CancelInner(t)
    BY ZenonT(60), <1>1, <2>2 DEF CancelInner, EnterCancel, DTypeOK, DTypes, TypeOK, Types, CallerPcs,
       OneShotPcs, WaitPcs, ClientPcs, WorkerPcs, CallPcs, DPlaced
  <2>3. QED
    BY <2>1, <2>2
<1>4. UNCHANGED <<list, active, lock, waiting, workerTask, starting, home, state, wwq, dwRunning,
                  task, calls, cur, token, dactive, dgen, genArg>>
  BY DEF EnterQueue, CancelInner, EnterQueueWork, EnterCancel
<1>5. TypeOK'
  <2>1. Types'
    BY <1>2, <1>3, <1>4 DEF DTypeOK, TypeOK, Types
  <2>2. \A u \in Threads : CallPlaced(u)'
    BY <1>1, <1>2, <1>3, <1>4 DEF DTypeOK, TypeOK, CallPlaced, CallPcs
  <2>3. (\A u \in Clients : pc'[u] \in ClientPcs) /\ \A k \in Workers : WorkerPlaced(k)'
    BY <1>1, <1>3, <1>4 DEF DTypeOK, TypeOK, WorkerPlaced, ClientPcs, CallPcs, Threads
  <2>4. QED
    BY <2>1, <2>2, <2>3 DEF TypeOK
<1>6. \A u \in Threads : DPlaced(u)'
  BY <1>1, <1>2, <1>3 DEF DTypeOK, DPlaced, Return
<1>7. QED
  BY <1>3, <1>4, <1>5, <1>6 DEF DTypeOK, DTypes

LEMMA DNextTypeOK == DTypeOK /\ [DNext]_dvars => DTypeOK'
<1> SUFFICES ASSUME DTypeOK, [DNext]_dvars PROVE DTypeOK'
  OBVIOUS
<1>1. gone' \subseteq OneShots
  BY DEF DNext, Record, dvars, DTypeOK, DTypes
<1>2. CASE BaseMove
  BY <1>1, <1>2, BaseDTypeOK
<1>3. ASSUME NEW t \in Threads, DelayedCall(t) PROVE DTypeOK'
  BY <1>1, <1>3, ArmDTypeOK DEF DelayedCall
<1>4. ASSUME NEW t \in Threads, DelayedStep(t) PROVE DTypeOK'
  <2> USE DelayedAssumption DEF In, Jump, Outside, DTypeOK, DTypes, DPlaced, CallerPcs, OneShotPcs,
                                WaitPcs, Return
  <2>1. CASE Activate(t)
    BY <1>1, <2>1, OwnDTypeOK DEF Activate
  <2>2. CASE BumpGeneration(t)
    <3>1. dgen' \in [DelayedWorks -> Nat]
      BY <2>2 DEF BumpGeneration
    <3>2. QED
      BY <1>1, <2>2, <3>1, OwnDTypeOK DEF BumpGeneration
  <2>3. CASE SpawnFails(t)
    BY <1>1, <2>3, OwnDTypeOK DEF SpawnFails
  <2>4. CASE Rebump(t)
    <3>1. dgen' \in [DelayedWorks -> Nat]
      BY <2>4 DEF Rebump
    <3>2. QED
      BY <1>1, <2>4, <3>1, OwnDTypeOK DEF Rebump
  <2>5. CASE CancelBump(t)
    <3>1. dgen' \in [DelayedWorks -> Nat]
      BY <2>5 DEF CancelBump
    <3>2. QED
      BY <1>1, <2>5, <3>1, OwnDTypeOK DEF CancelBump
  <2>6. CASE CancelReturns(t)
    BY <1>1, <2>6, OwnDTypeOK DEF CancelReturns
  <2> HIDE DEF DTypeOK, In, Jump, Outside
  <2>7. CASE SetQueue(t) \/ ZeroState(t)
    BY <1>1, <2>7, ArmDTypeOK
  <2>8. CASE SpawnOneShot(t)
    BY <1>1, <2>8, SpawnDTypeOK
  <2>9. CASE CancelInner(t)
    BY <1>1, <2>9, EnterDTypeOK
  <2>10. QED
    BY <1>4, <2>1, <2>2, <2>3, <2>4, <2>5, <2>6, <2>7, <2>8, <2>9 DEF DelayedStep
<1>5. ASSUME NEW d \in OneShots, OneShotStep(d) PROVE DTypeOK'
  <2>0. d \in Threads
    BY DelayedAssumption DEF Threads
  <2> USE DelayedAssumption DEF In, Jump, Outside, DTypeOK, DTypes, DPlaced, CallerPcs, OneShotPcs,
                                WaitPcs, Return
  <2>1. CASE LoadGeneration(d)
    BY <1>1, <2>0, <2>1, OwnDTypeOK DEF LoadGeneration
  <2>2. CASE CheckArm(d)
    BY <1>1, <2>0, <2>2, OwnDTypeOK DEF CheckArm
  <2>3. CASE Fire(d)
    BY <1>1, <2>0, <2>3, OwnDTypeOK DEF Fire
  <2>4. CASE OneShotEnds(d)
    BY <1>1, <2>0, <2>4, OwnDTypeOK DEF OneShotEnds, At
  <2> HIDE DEF DTypeOK, In, Jump, Outside
  <2>5. CASE LoadQueue(d) \/ TradeToken(d)
    BY <1>1, <2>0, <2>5, ArmDTypeOK
  <2>6. CASE EnterQueue(d)
    BY <1>1, <2>0, <2>6, EnterDTypeOK
  <2>7. QED
    BY <1>5, <2>1, <2>2, <2>3, <2>4, <2>5, <2>6 DEF OneShotStep
<1>6. CASE UNCHANGED dvars
  BY <1>6 DEF dvars, delayedVars, vars, queueVars, startVars, workVars, callVars, workerVars,
     DTypeOK, DTypes, DPlaced, TypeOK, Types, WorkerPlaced, CallPlaced, Return
<1>7. QED
  BY <1>2, <1>3, <1>4, <1>5, <1>6 DEF DNext, BaseMove

-----------------------------------------------------------------------------
(* The token of an armed work: one thread holds it, nobody else has the    *)
(* work, and the work does not run, so that the stores of 0 in the give-up *)
(* paths and the compare-and-swap of the one-shot task meet their own bit. *)
HeldInv ==
    /\ OnePlacePerWork
    /\ \A w \in Works :
          "QUEUED" \in state[w] <=> \/ \E t \in Threads : Holds(t, w)
                                    \/ \E q \in Queues : Listed(w, q)
                                    \/ \E t \in Threads : Carries(t, w)
    /\ \A w \in Works, t \in Threads :
          Holds(t, w) => /\ state[w] = {"QUEUED"}
                         /\ \A q \in Queues : ~Listed(w, q)
                         /\ \A u \in Threads : ~Carries(u, w) /\ (Holds(u, w) => u = t)

(* A step of this module does not touch the lists, and who moves carries   *)
(* nothing before and after.                                               *)
HandsOff ==
    /\ list' = list
    /\ \A u \in Threads, w \in Works : Carries(u, w)' <=> Carries(u, w)

LEMMA HeldKept ==
  ASSUME HeldInv, HandsOff,
         \A u \in Threads, w \in Works : Holds(u, w)' <=> Holds(u, w),
         \A w \in Works : state'[w] = state[w]
  PROVE  HeldInv'
  BY DEF HeldInv, HandsOff, OnePlacePerWork, Listed

LEMMA HeldTaken ==
  ASSUME HeldInv, HandsOff, NEW t \in Threads, NEW w \in Works, state[w] = {},
         \A u \in Threads, v \in Works : Holds(u, v)' <=> Holds(u, v) \/ (u = t /\ v = w),
         \A v \in Works : state'[v] = IF v = w THEN {"QUEUED"} ELSE state[v]
  PROVE  HeldInv'
<1>1. \A u \in Threads : ~Holds(u, w) /\ ~Carries(u, w)
  BY DEF HeldInv
<1>2. \A q \in Queues : ~Listed(w, q)
  BY DEF HeldInv
<1>3. \A v \in Works, q \in Queues : Listed(v, q)' <=> Listed(v, q)
  BY DEF HandsOff, Listed
<1>4. OnePlacePerWork'
  BY <1>3 DEF HeldInv, HandsOff, OnePlacePerWork
<1>5. QED
  BY <1>1, <1>2, <1>3, <1>4 DEF HeldInv, HandsOff

LEMMA HeldPassed ==
  ASSUME HeldInv, HandsOff, NEW t \in Threads, NEW d \in Threads, NEW w \in Works,
         Holds(t, w), \A v \in Works : ~Holds(d, v), \A v \in Works : state'[v] = state[v],
         \A u \in Threads, v \in Works :
            Holds(u, v)' <=> (Holds(u, v) /\ u # t) \/ (u = d /\ v = w),
         \A v \in Works : Holds(t, v) => v = w
  PROVE  HeldInv'
<1>1. \A v \in Works, q \in Queues : Listed(v, q)' <=> Listed(v, q)
  BY DEF HandsOff, Listed
<1>2. OnePlacePerWork'
  BY <1>1 DEF HeldInv, HandsOff, OnePlacePerWork
<1>3. QED
  BY <1>1, <1>2 DEF HeldInv, HandsOff

LEMMA HeldDropped ==
  ASSUME HeldInv, HandsOff, NEW t \in Threads, NEW w \in Works, Holds(t, w),
         \A u \in Threads, v \in Works : Holds(u, v)' <=> Holds(u, v) /\ ~(u = t /\ v = w),
         \A v \in Works : state'[v] = IF v = w THEN {} ELSE state[v]
  PROVE  HeldInv'
<1>1. \A v \in Works, q \in Queues : Listed(v, q)' <=> Listed(v, q)
  BY DEF HandsOff, Listed
<1>2. OnePlacePerWork'
  BY <1>1 DEF HeldInv, HandsOff, OnePlacePerWork
<1>3. \A u \in Threads : ~Holds(u, w)' /\ ~Carries(u, w)
  BY DEF HeldInv
<1>4. QED
  BY <1>1, <1>2, <1>3 DEF HeldInv, HandsOff

(* The workqueue does not touch the state of a work somebody else owns.    *)
LEMMA BaseKeepsArmed ==
  ASSUME TypeOK, Next, NEW w \in Works, state[w] = {"QUEUED"}, \A t \in Threads : ~Carries(t, w)
  PROVE  state'[w] = {"QUEUED"}
<1> USE DEF At, workVars, queueVars, startVars, callVars, workerVars
<1>1. ASSUME NEW t \in Threads, Call(t) PROVE state' = state
  BY <1>1 DEF Call, QueueWork, EnterQueueWork, CancelWorkSync, EnterCancel, FlushWorkqueue
<1>2. ASSUME NEW t \in Threads, CallStep(t) PROVE state'[w] = {"QUEUED"}
  <2>1. CASE MarkQueued(t)
    BY <2>1 DEF MarkQueued, TypeOK, Types
  <2>2. CASE ClearQueued(t)
    BY <2>2 DEF ClearQueued, Carries, TypeOK, Types
  <2>3. CASE ~MarkQueued(t) /\ ~ClearQueued(t)
    BY <1>2, <2>3 DEF CallStep, QueueStep, EnsureWorker, ElectStarter, SpinForStarter,
       SpinResult, CreateWorker, CreateFails, PublishWorker, EndStarting, AppendWork, WakeLoad,
       WakeUnblock, RemoveWork, AwaitNotRunning, FlushReturns
  <2>4. QED
    BY <2>1, <2>2, <2>3
<1>3. ASSUME NEW k \in Workers, WorkerStep(k) PROVE state'[w] = {"QUEUED"}
  <2>1. CASE ClaimWork(k)
    BY <2>1 DEF ClaimWork, Carries, Threads, TypeOK, Types
  <2>2. CASE ClearRunning(k)
    BY <2>2 DEF ClearRunning, TypeOK, Types
  <2>3. CASE ~ClaimWork(k) /\ ~ClearRunning(k)
    BY <1>3, <2>3 DEF WorkerStep, PopWork, PopNothing, TaskBlock, EnterDelayed, FuncReturns,
       LeaveDelayed, SettleLock, SettleUnlock
  <2>4. QED
    BY <2>1, <2>2, <2>3
<1>4. QED
  BY <1>1, <1>2, <1>3 DEF Next

LEMMA BaseHeld ==
  ASSUME DTypeOK, HeldInv, BaseMove
  PROVE  HeldInv'
<1>1. PICK H \in SUBSET Works : H = {w \in Works : \E t \in Threads : Holds(t, w)}
  OBVIOUS
<1>2. TokensBut(H)
  BY <1>1 DEF HeldInv, TokensBut, QueuedBut, Apart
<1>3. Next /\ UNCHANGED dpc
  BY BaseIsNext DEF delayedVars
<1>4. TokensBut(H)'
  BY <1>2, <1>3, NextTokens DEF DTypeOK
<1>5. \A u \in Threads, w \in Works : Holds(u, w)' <=> Holds(u, w)
  BY <1>3, BaseLeaves DEF Holds, ArmPcs, WaitPcs
<1>6. ASSUME NEW w \in Works, NEW t \in Threads, Holds(t, w) PROVE state'[w] = {"QUEUED"}
  BY <1>3, <1>6, BaseKeepsArmed DEF HeldInv, DTypeOK
<1>7. OnePlacePerWork'
  BY <1>4 DEF TokensBut
<1>8. \A w \in Works :
         /\ "QUEUED" \in state'[w] <=> \/ w \in H
                                       \/ \E q \in Queues : Listed(w, q)'
                                       \/ \E t \in Threads : Carries(t, w)'
         /\ w \in H => (\A q \in Queues : ~Listed(w, q)') /\ \A t \in Threads : ~Carries(t, w)'
  BY <1>4 DEF TokensBut, QueuedBut, Apart
<1>9. QED
  BY <1>1, <1>5, <1>6, <1>7, <1>8 DEF HeldInv

(* One thread moves, outside the places where a work is carried.           *)
LEMMA OwnHandsOff ==
  ASSUME DTypeOK, NEW t \in Threads, UNCHANGED <<list, cur>>, pc[t] \notin CarryPcs,
         pc'[t] \notin CarryPcs,
         \A u \in Threads : u # t => pc'[u] = pc[u] /\ arg'[u] = arg[u]
  PROVE  HandsOff
  BY DEF HandsOff, Carries, CarryPcs

(* A move between places of this module that says nothing of a token, or   *)
(* keeps the one t holds.                                                  *)
LEMMA OwnHeld ==
  ASSUME DTypeOK, HeldInv, NEW t \in Threads, UNCHANGED vars, pc[t] \notin CarryPcs,
         NEW l, dpc' = [dpc EXCEPT ![t] = l],
         l \in ArmPcs \cup WaitPcs \cup {"reset", "fire", "trade"}
            <=> dpc[t] \in ArmPcs \cup WaitPcs \cup {"reset", "fire", "trade"}
  PROVE  HeldInv'
<1> USE DEF vars, queueVars, workVars, callVars, workerVars
<1>1. HandsOff
  BY OwnHandsOff
<1>2. ASSUME NEW u \in Threads, NEW w \in Works PROVE Holds(u, w)' <=> Holds(u, w)
  <2>1. dpc'[u] = IF u = t THEN l ELSE dpc[u]
    BY DEF DTypeOK, DTypes
  <2>2. QED
    BY <2>1 DEF Holds
<1>3. QED
  BY <1>1, <1>2, HeldKept

LEMMA ArmHeld ==
  ASSUME DTypeOK, HeldInv, NEW t \in Threads, NEW q \in Queues, NEW w \in DelayedWorks,
         QueueDelayed(t, q, w)
  PROVE  HeldInv'
<1> USE WorkqueueAssumption DEF At, In, Jump, queueVars, workerVars
<1>1. /\ UNCHANGED <<list, cur, pc>> /\ arg' = [arg EXCEPT ![t] = w] /\ dpc[t] = "none"
      /\ pc[t] = Return(t)
  BY DEF QueueDelayed
<1>2. HandsOff
  BY <1>1, OwnHandsOff DEF Return, CarryPcs, DTypeOK, TypeOK, Types
<1>3. \A v \in Works : ~Holds(t, v)
  BY <1>1 DEF Holds, ArmPcs, WaitPcs
<1>4. CASE state[w] = {}
  <2>1. state' = [state EXCEPT ![w] = {"QUEUED"}] /\ dpc' = [dpc EXCEPT ![t] = "setwq"]
    BY <1>4 DEF QueueDelayed
  <2>2. \A u \in Threads, v \in Works : Holds(u, v)' <=> Holds(u, v) \/ (u = t /\ v = w)
    BY <1>1, <1>3, <2>1 DEF Holds, ArmPcs, WaitPcs, DTypeOK, DTypes, TypeOK, Types
  <2>3. \A v \in Works : state'[v] = IF v = w THEN {"QUEUED"} ELSE state[v]
    BY <2>1 DEF DTypeOK, TypeOK, Types
  <2>4. QED
    BY <1>2, <1>4, <2>2, <2>3, HeldTaken
<1>5. CASE state[w] # {}
  <2>1. state' = state /\ dpc' = dpc
    BY <1>5 DEF QueueDelayed
  <2>2. \A u \in Threads, v \in Works : Holds(u, v)' <=> Holds(u, v)
    BY <1>1, <2>1 DEF Holds, ArmPcs, WaitPcs, DTypeOK, TypeOK, Types
  <2>3. QED
    BY <1>2, <2>1, <2>2, HeldKept
<1>6. QED
  BY <1>4, <1>5

LEMMA SpawnHeld ==
  ASSUME DTypeOK, HeldInv, NEW t \in Threads, SpawnOneShot(t)
  PROVE  HeldInv'
<1> USE WorkqueueAssumption, DelayedAssumption DEF In, queueVars, workVars, workerVars
<1>1. PICK d \in OneShots :
         /\ dpc[d] = "off"
         /\ dpc' = [dpc EXCEPT ![t] = Outside(t), ![d] = "loadgen"]
         /\ arg' = [arg EXCEPT ![d] = arg[t]]
  BY DEF SpawnOneShot
<1>2. /\ UNCHANGED <<list, cur, pc, state>> /\ dpc[t] = "spawn" /\ t \notin OneShots
      /\ arg[t] \in Works /\ d # t /\ pc[d] = "idle" /\ d \in Threads
  BY <1>1 DEF SpawnOneShot, DTypeOK, DPlaced, OneShotPcs, WaitPcs, Return, Threads
<1>3. HandsOff
  BY <1>1, <1>2, OwnHandsOff DEF CarryPcs, DTypeOK, TypeOK, Types
<1>4. /\ dpc'[t] = "none" /\ dpc'[d] = "loadgen" /\ arg'[d] = arg[t]
      /\ \A u \in Threads : u # d => arg'[u] = arg[u] /\ (u # t => dpc'[u] = dpc[u])
  BY <1>1, <1>2 DEF DTypeOK, DTypes, TypeOK, Types, Outside
<1>5. /\ Holds(t, arg[t]) /\ \A v \in Works : ~Holds(d, v) /\ (Holds(t, v) => v = arg[t])
  BY <1>1, <1>2 DEF Holds, ArmPcs, WaitPcs
<1>6. \A u \in Threads, v \in Works :
         Holds(u, v)' <=> (Holds(u, v) /\ u # t) \/ (u = d /\ v = arg[t])
  BY <1>1, <1>2, <1>4 DEF Holds, ArmPcs, WaitPcs
<1>7. QED
  BY <1>2, <1>3, <1>5, <1>6, HeldPassed

(* The stores of 0 and the compare-and-swap.                               *)
LEMMA DropHeld ==
  ASSUME DTypeOK, HeldInv, NEW t \in Threads, ZeroState(t) \/ TradeToken(t)
  PROVE  HeldInv'
<1> USE WorkqueueAssumption, DelayedAssumption
    DEF In, Jump, Outside, queueVars, callVars, workerVars
<1>1. /\ UNCHANGED <<list, cur, pc, arg>> /\ dpc[t] \in {"zero", "reset", "trade"}
      /\ arg[t] \in Works /\ pc[t] = Return(t)
  BY DEF ZeroState, TradeToken, DTypeOK, DPlaced
<1>2. HandsOff
  BY <1>1, OwnHandsOff DEF Return, CarryPcs
<1>3. Holds(t, arg[t]) /\ state[arg[t]] = {"QUEUED"}
  BY <1>1 DEF Holds, HeldInv, ArmPcs
<1>4. /\ state' = [state EXCEPT ![arg[t]] = {}]
      /\ \E l \in {"rebump", "off", "none", "enter"} : dpc' = [dpc EXCEPT ![t] = l]
  BY <1>3 DEF ZeroState, TradeToken
<1>5. \A v \in Works : state'[v] = IF v = arg[t] THEN {} ELSE state[v]
  BY <1>4 DEF DTypeOK, TypeOK, Types
<1>6. \A u \in Threads, v \in Works :
         Holds(u, v)' <=> Holds(u, v) /\ ~(u = t /\ v = arg[t])
  BY <1>1, <1>4 DEF Holds, ArmPcs, WaitPcs, DTypeOK, DTypes
<1>7. QED
  BY <1>1, <1>2, <1>3, <1>5, <1>6, HeldDropped

(* A thread goes on inside this module and may enter the workqueue.        *)
LEMMA PassHeld ==
  ASSUME DTypeOK, HeldInv, NEW t \in Threads,
         \/ \E w \in DelayedWorks : CancelDelayed(t, w)
         \/ SetQueue(t) \/ CancelInner(t)
         \/ t \in OneShots /\ (LoadQueue(t) \/ EnterQueue(t))
  PROVE  HeldInv'
<1> USE WorkqueueAssumption, DelayedAssumption
    DEF At, Goto, In, Jump, queueVars, workVars, workerVars, callVars
<1>1. /\ UNCHANGED <<list, cur, state>>
      /\ \E l \in {"cbump", "activate", "crun", "wait", "queueing"} :
            /\ dpc' = [dpc EXCEPT ![t] = l]
            /\ \/ dpc[t] \in {"none", "ccancel", "enter"} /\ l \in {"cbump", "crun", "queueing"}
               \/ dpc[t] \in {"setwq", "loadwq"} /\ l \in {"activate", "wait"} /\ arg' = arg
  BY DEF CancelDelayed, SetQueue, CancelInner, LoadQueue, EnterQueue, EnterQueueWork, EnterCancel
<1>2. /\ pc[t] \notin CarryPcs /\ pc'[t] \notin CarryPcs
      /\ \A u \in Threads : u # t => pc'[u] = pc[u] /\ arg'[u] = arg[u]
  <2>1. CASE (\E w \in DelayedWorks : CancelDelayed(t, w)) \/ SetQueue(t) \/ LoadQueue(t)
    BY <2>1 DEF CancelDelayed, SetQueue, LoadQueue, DTypeOK, DPlaced, TypeOK, Types, Return,
       CarryPcs
  <2>2. CASE CancelInner(t)
    BY <2>2 DEF CancelInner, EnterCancel, DTypeOK, TypeOK, Types, CarryPcs
  <2>3. CASE EnterQueue(t) /\ t \in OneShots
    BY <2>3 DEF EnterQueue, EnterQueueWork, DTypeOK, TypeOK, Types, CarryPcs, Return
  <2>4. QED
    BY <2>1, <2>2, <2>3
<1>3. HandsOff
  BY <1>1, <1>2, OwnHandsOff
<1>4. ASSUME NEW u \in Threads, NEW w \in Works PROVE Holds(u, w)' <=> Holds(u, w)
  BY <1>1, <1>2 DEF Holds, ArmPcs, WaitPcs, DTypeOK, DTypes
<1>5. QED
  BY <1>1, <1>3, <1>4, HeldKept

LEMMA DNextHeld == DTypeOK /\ HeldInv /\ [DNext]_dvars => HeldInv'
<1> SUFFICES ASSUME DTypeOK, HeldInv, [DNext]_dvars PROVE HeldInv'
  OBVIOUS
<1>1. CASE BaseMove
  BY <1>1, BaseHeld
<1>2. ASSUME NEW t \in Threads, DelayedCall(t) PROVE HeldInv'
  BY <1>2, ArmHeld, PassHeld DEF DelayedCall
<1>3. \A t \in Threads : dpc[t] \notin {"none", "queueing", "crun"} => pc[t] \notin CarryPcs
  BY DEF DTypeOK, DPlaced, Return, CarryPcs
<1>4. ASSUME NEW t \in Threads, DelayedStep(t) PROVE HeldInv'
  <2>1. CASE Activate(t) \/ BumpGeneration(t) \/ SpawnFails(t) \/ Rebump(t) \/ CancelBump(t)
             \/ CancelReturns(t)
    <3>1. UNCHANGED vars /\ pc[t] \notin CarryPcs
      BY <1>3, <2>1 DEF Activate, BumpGeneration, SpawnFails, Rebump, CancelBump, CancelReturns,
         In, At, CarryPcs
    <3>2. \E l \in {"bump", "spawn", "zero", "off", "none", "ccancel"} :
             /\ dpc' = [dpc EXCEPT ![t] = l]
             /\ l \in {"bump", "spawn", "zero"} <=> dpc[t] \in {"activate", "bump", "spawn"}
             /\ dpc[t] \in {"activate", "bump", "spawn", "rebump", "cbump", "crun"}
      BY <2>1 DEF Activate, BumpGeneration, SpawnFails, Rebump, CancelBump, CancelReturns,
         In, Jump, Outside
    <3>3. QED
      BY <3>1, <3>2, OwnHeld DEF ArmPcs, WaitPcs
  <2>2. CASE SetQueue(t) \/ CancelInner(t)
    BY <2>2, PassHeld
  <2>3. CASE SpawnOneShot(t)
    BY <2>3, SpawnHeld
  <2>4. CASE ZeroState(t)
    BY <2>4, DropHeld
  <2>5. QED
    BY <1>4, <2>1, <2>2, <2>3, <2>4 DEF DelayedStep
<1>5. ASSUME NEW d \in OneShots, OneShotStep(d) PROVE HeldInv'
  <2>0. d \in Threads
    BY DelayedAssumption DEF Threads
  <2>1. CASE LoadGeneration(d) \/ CheckArm(d) \/ Fire(d) \/ OneShotEnds(d)
    <3>1. UNCHANGED vars /\ pc[d] \notin CarryPcs
      BY <1>3, <2>0, <2>1 DEF LoadGeneration, CheckArm, Fire, OneShotEnds, In, At, CarryPcs
    <3>2. \E l \in {"loadwq", "fire", "reset", "trade", "off"} :
             /\ dpc' = [dpc EXCEPT ![d] = l]
             /\ l # "off" <=> dpc[d] # "queueing"
             /\ dpc[d] \in {"loadgen", "wait", "fire", "queueing"}
      BY <2>1 DEF LoadGeneration, CheckArm, Fire, OneShotEnds, In, Jump
    <3>3. QED
      BY <2>0, <3>1, <3>2, OwnHeld DEF ArmPcs, WaitPcs
  <2>2. CASE LoadQueue(d) \/ EnterQueue(d)
    BY <2>0, <2>2, PassHeld
  <2>3. CASE TradeToken(d)
    BY <2>0, <2>3, DropHeld
  <2>4. QED
    BY <1>5, <2>1, <2>2, <2>3 DEF OneShotStep
<1>6. CASE UNCHANGED dvars
  BY <1>6 DEF dvars, delayedVars, vars, queueVars, startVars, workVars, callVars, workerVars,
     HeldInv, OnePlacePerWork, Listed, Carries, Holds
<1>7. QED
  BY <1>1, <1>2, <1>4, <1>5, <1>6 DEF DNext, BaseMove

LEMMA DInitHolds == DInit => DTypeOK /\ HeldInv
<1> SUFFICES ASSUME DInit PROVE DTypeOK /\ HeldInv
  OBVIOUS
<1>1. TypeOK
  BY InitTypeOK DEF DInit
<1>2. \A t \in Threads : dpc[t] = Outside(t) /\ (t \in OneShots => pc[t] = "idle")
  BY WorkqueueAssumption, DelayedAssumption DEF DInit, Init, Threads
<1>3. DTypes
  BY WorkqueueAssumption, DelayedAssumption
  DEF DInit, DTypes, Outside, OneShotPcs, CallerPcs, Threads
<1>4. \A t \in Threads : DPlaced(t)
  BY <1>2, WorkqueueAssumption, DelayedAssumption
  DEF DPlaced, Outside, OneShotPcs, CallerPcs, Return, Threads
<1>5. \A t \in Threads, w \in Works : ~Holds(t, w)
  BY <1>2 DEF Holds, ArmPcs, WaitPcs, Outside
<1>6. HeldInv
  BY <1>5, InitTokenOwned DEF DInit, HeldInv, TokenOwned, QueuedIffPlaced
<1>7. QED
  BY <1>1, <1>3, <1>4, <1>6 DEF DTypeOK

LEMMA HeldAlways == DSpec => [](DTypeOK /\ HeldInv)
  BY DInitHolds, DNextTypeOK, DNextHeld, PTL DEF DSpec

(* The QUEUED bit stays one token through lcompat_queue_delayed_work, the  *)
(* one-shot task and lcompat_cancel_delayed_work_sync: whoever arms a work *)
(* owns its bit, passes it to the task and gives it back before queue_work *)
(* takes it, and the stores of 0 clear nobody else's bit.                  *)
THEOREM DelayedTokenOwnedAlways == DSpec => []DelayedTokenOwned
<1>1. HeldInv => DelayedTokenOwned
  BY DEF HeldInv, DelayedTokenOwned
<1>2. QED
  BY <1>1, HeldAlways, PTL

-----------------------------------------------------------------------------
(* A one-shot task whose arm was canceled while it waited finds its work   *)
(* inactive: only the thread that holds the token of the work could set    *)
(* `active` again, and that is the task itself until it has given up.      *)
GoneInv ==
    \A d \in gone : dpc[d] # "off" /\ (dpc[d] \in WaitPcs => arg[d] \notin dactive)

(* No step makes the work of a waiting task active again.                  *)
LEMMA InactiveStays ==
  ASSUME DTypeOK, HeldInv, DNext, NEW d \in OneShots, dpc[d] \in WaitPcs,
         arg[d] \notin dactive
  PROVE  arg[d] \notin dactive' /\ dpc'[d] \in WaitPcs \cup {"reset"} /\ arg'[d] = arg[d]
<1>0. d \in Threads /\ arg[d] \in Works /\ Holds(d, arg[d])
  BY WorkqueueAssumption, DelayedAssumption DEF DTypeOK, DPlaced, Threads, Holds, WaitPcs
<1>1. ASSUME NEW t \in Threads, Activate(t) PROVE arg[t] # arg[d]
  <2>1. t # d /\ dpc[t] = "activate"
    BY <1>1 DEF Activate, In, WaitPcs
  <2>2. SUFFICES ASSUME arg[t] = arg[d] PROVE FALSE
    OBVIOUS
  <2>3. Holds(t, arg[d])
    BY <2>1, <2>2 DEF Holds, ArmPcs
  <2>4. QED
    BY <1>0, <2>1, <2>3 DEF HeldInv
<1> USE DEF In, Jump, delayedVars, vars, queueVars, workVars, callVars, startVars, workerVars
<1>2. CASE BaseMove
  BY <1>0, <1>2, BaseIsNext, BaseLeaves DEF WaitPcs
<1>3. ASSUME NEW t \in Threads, DelayedCall(t)
      PROVE  arg[d] \notin dactive' /\ dpc'[d] = dpc[d] /\ arg'[d] = arg[d]
  <2>1. t # d
    BY <1>3 DEF DelayedCall, QueueDelayed, CancelDelayed, WaitPcs
  <2>2. QED
    BY <1>0, <1>3, <2>1 DEF DelayedCall, QueueDelayed, CancelDelayed, DTypeOK, DTypes, TypeOK,
       Types
<1>4. ASSUME NEW t \in Threads, DelayedStep(t)
      PROVE  arg[d] \notin dactive' /\ dpc'[d] = dpc[d] /\ arg'[d] = arg[d]
  <2>1. t # d
    BY <1>4, DelayedAssumption DEF DelayedStep, SetQueue, Activate, BumpGeneration, SpawnOneShot,
       SpawnFails, ZeroState, Rebump, CancelBump, CancelInner, CancelReturns, WaitPcs
  <2>2. CASE SpawnOneShot(t)
    <3>1. PICK e \in OneShots :
             /\ dpc[e] = "off"
             /\ dpc' = [dpc EXCEPT ![t] = Outside(t), ![e] = "loadgen"]
             /\ arg' = [arg EXCEPT ![e] = arg[t]]
      BY <2>2 DEF SpawnOneShot
    <3>2. e # d
      BY <3>1 DEF WaitPcs
    <3>3. QED
      BY <1>0, <2>1, <2>2, <3>1, <3>2 DEF SpawnOneShot, DTypeOK, DTypes, TypeOK, Types
  <2>3. CASE CancelInner(t)
    BY <1>0, <2>1, <2>3 DEF CancelInner, EnterCancel, DTypeOK, DTypes, TypeOK, Types
  <2>4. CASE Activate(t)
    BY <1>0, <1>1, <2>1, <2>4 DEF Activate, DTypeOK, DTypes
  <2>5. CASE ~SpawnOneShot(t) /\ ~CancelInner(t) /\ ~Activate(t)
    BY <1>0, <1>4, <2>1, <2>5 DEF DelayedStep, SetQueue, BumpGeneration, SpawnFails, ZeroState,
       Rebump, CancelBump, CancelReturns, DTypeOK, DTypes
  <2>6. QED
    BY <2>2, <2>3, <2>4, <2>5
<1>5. ASSUME NEW e \in OneShots, OneShotStep(e)
      PROVE  arg[d] \notin dactive' /\ dpc'[d] \in WaitPcs \cup {"reset"} /\ arg'[d] = arg[d]
  <2>1. arg[d] \notin dactive'
    BY <1>5 DEF OneShotStep, LoadGeneration, LoadQueue, CheckArm, Fire, TradeToken, EnterQueue,
       OneShotEnds
  <2>2. arg'[d] = arg[d]
    <3>1. arg' = arg \/ arg' = [arg EXCEPT ![e] = arg[e]]
      BY <1>5 DEF OneShotStep, LoadGeneration, LoadQueue, CheckArm, Fire, TradeToken, EnterQueue,
         EnterQueueWork, OneShotEnds
    <3>2. QED
      BY <1>0, <3>1 DEF DTypeOK, TypeOK, Types
  <2>3. CASE e = d
    BY <1>0, <1>5, <2>3 DEF OneShotStep, LoadGeneration, LoadQueue, CheckArm, Fire, TradeToken,
       EnterQueue, OneShotEnds, WaitPcs, DTypeOK, DTypes
  <2>4. CASE e # d
    <3>1. dpc'[d] = dpc[d]
      BY <1>0, <1>5, <2>4 DEF OneShotStep, LoadGeneration, LoadQueue, CheckArm, Fire, TradeToken,
         EnterQueue, OneShotEnds, DTypeOK, DTypes
    <3>2. QED
      BY <2>1, <2>2, <3>1
  <2>5. QED
    BY <2>1, <2>2, <2>3, <2>4
<1>6. QED
  BY <1>2, <1>3, <1>4, <1>5 DEF DNext, BaseMove

(* Only a task that is created begins to wait.                             *)
LEMMA WaitsFromTheStart ==
  ASSUME DTypeOK, DNext, NEW d \in OneShots, dpc[d] \notin WaitPcs \cup {"off"}
  PROVE  dpc'[d] \notin WaitPcs
<1>0. d \in Threads
  BY DelayedAssumption DEF Threads
<1> USE DEF In, Jump, Outside
<1>1. CASE BaseMove
  BY <1>1, BaseIsNext DEF delayedVars
<1>2. ASSUME NEW t \in Threads, DelayedCall(t) \/ (DelayedStep(t) /\ ~SpawnOneShot(t))
      PROVE  dpc'[d] \notin WaitPcs
  BY <1>0, <1>2 DEF DelayedCall, QueueDelayed, CancelDelayed, DelayedStep, SetQueue, Activate,
     BumpGeneration, SpawnFails, ZeroState, Rebump, CancelBump, CancelInner, CancelReturns,
     WaitPcs, DTypeOK, DTypes
<1>3. ASSUME NEW t \in Threads, SpawnOneShot(t) PROVE dpc'[d] \notin WaitPcs
  BY <1>0, <1>3 DEF SpawnOneShot, WaitPcs, DTypeOK, DTypes
<1>4. ASSUME NEW e \in OneShots, OneShotStep(e) PROVE dpc'[d] \notin WaitPcs
  BY <1>0, <1>4 DEF OneShotStep, LoadGeneration, LoadQueue, CheckArm, Fire, TradeToken,
     EnterQueue, OneShotEnds, WaitPcs, DTypeOK, DTypes
<1>5. QED
  BY <1>1, <1>2, <1>3, <1>4 DEF DNext, BaseMove

(* The cancel that counts a task among the gone clears its work's active.  *)
LEMMA CancelClearsActive ==
  ASSUME DTypeOK, DNext, NEW t \in Threads, Cancels(t), NEW d \in OneShots,
         dpc[d] \in WaitPcs, arg'[t] = arg[d]
  PROVE  arg'[d] \notin dactive'
<1>0. d \in Threads /\ t # d
  BY DelayedAssumption DEF Threads, Cancels, In, WaitPcs
<1> USE DEF In, Jump, Outside, Cancels
<1>1. ~BaseMove
  BY BaseIsNext DEF delayedVars
<1>2. ASSUME NEW u \in Threads, DelayedStep(u) PROVE FALSE
  BY <1>2 DEF DelayedStep, SetQueue, Activate, BumpGeneration, SpawnOneShot, SpawnFails,
     ZeroState, Rebump, CancelBump, CancelInner, CancelReturns, DTypeOK, DTypes
<1>3. ASSUME NEW e \in OneShots, OneShotStep(e) PROVE FALSE
  BY <1>3 DEF OneShotStep, LoadGeneration, LoadQueue, CheckArm, Fire, TradeToken, EnterQueue,
     OneShotEnds, DTypeOK, DTypes
<1>4. PICK u \in Threads : DelayedCall(u)
  BY <1>1, <1>2, <1>3 DEF DNext, BaseMove
<1>5. PICK w \in DelayedWorks : CancelDelayed(u, w) /\ u = t
  BY <1>4 DEF DelayedCall, QueueDelayed, CancelDelayed, DTypeOK, DTypes
<1>6. QED
  BY <1>0, <1>5 DEF CancelDelayed, DTypeOK, TypeOK, Types

LEMMA DNextGone == DTypeOK /\ HeldInv /\ GoneInv /\ [DNext]_dvars => GoneInv'
<1> SUFFICES ASSUME DTypeOK, HeldInv, GoneInv, [DNext]_dvars PROVE GoneInv'
  OBVIOUS
<1>1. CASE UNCHANGED dvars
  BY <1>1 DEF dvars, delayedVars, vars, callVars, GoneInv
<1>2. CASE DNext
  <2>0. gone' \subseteq OneShots
    BY <1>2, DNextTypeOK DEF DTypeOK, DTypes
  <2>1. SUFFICES ASSUME NEW d \in gone', dpc'[d] \in WaitPcs PROVE arg'[d] \notin dactive'
    BY <1>2, <2>0 DEF GoneInv, DNext, Record
  <2>2. d \in OneShots
    BY <2>0
  <2>3. CASE d \in gone
    <3>1. dpc[d] \in WaitPcs
      BY <1>2, <2>1, <2>2, <2>3, WaitsFromTheStart DEF GoneInv
    <3>2. QED
      BY <1>2, <2>2, <2>3, <3>1, InactiveStays DEF GoneInv
  <2>4. CASE d \notin gone
    <3>1. dpc[d] \in WaitPcs /\ \E t \in Threads : Cancels(t) /\ arg'[t] = arg[d]
      BY <1>2, <2>4 DEF DNext, Record
    <3>2. QED
      BY <1>2, <2>2, <3>1, CancelClearsActive
  <2>5. QED
    BY <2>3, <2>4
<1>3. QED
  BY <1>1, <1>2

(* The task of a canceled arm never goes on to queue_work, whenever it     *)
(* loaded the generation: lcompat_cancel_delayed_work_sync clears `active` *)
(* first, and nobody sets it while the task owns the QUEUED bit.           *)
THEOREM CanceledArmGivesUp == DSpec => CanceledArmNeverFires
<1>1. DInit => GoneInv
  BY DEF DInit, GoneInv
<1>2. DTypeOK /\ HeldInv /\ GoneInv /\ [DNext]_dvars =>
         [\A d \in OneShots : dpc[d] = "wait" /\ dpc'[d] = "fire" => d \notin gone]_dvars
  <2> SUFFICES ASSUME DTypeOK, HeldInv, GoneInv, DNext, NEW d \in OneShots, d \in gone,
                      dpc[d] = "wait", dpc'[d] = "fire"
               PROVE  FALSE
    OBVIOUS
  <2>1. arg[d] \notin dactive
    BY DEF GoneInv, WaitPcs
  <2>2. dpc'[d] \in WaitPcs \cup {"reset"}
    BY <2>1, InactiveStays DEF WaitPcs
  <2>3. QED
    BY <2>2 DEF WaitPcs
<1>3. QED
  BY <1>1, <1>2, HeldAlways, DNextGone, PTL DEF DSpec, CanceledArmNeverFires

-----------------------------------------------------------------------------
(***************************************************************************)
(* The promise of lcompat_cancel_delayed_work_sync.  First, what a step of *)
(* the workqueue and a step of the delayed works leave alone: the RUNNING  *)
(* bit covers the functions here too, and an idle worker has no work.      *)
(***************************************************************************)

(* A step of this module outside the workqueue leaves the lists and the    *)
(* workers alone, puts no thread into a carrying place, and sets or clears *)
(* nothing but the QUEUED bit of a work that does not run.                 *)
OwnMove ==
    \/ \E t \in Threads : DelayedCall(t) \/ DelayedStep(t)
    \/ \E d \in OneShots : OneShotStep(d)

LEMMA OwnMoveKeeps ==
  ASSUME DTypeOK, HeldInv, OwnMove
  PROVE  /\ list' = list /\ cur' = cur /\ dwRunning' = dwRunning
         /\ \A k \in Workers : pc'[k] = pc[k]
         /\ \A u \in Threads :
               pc'[u] \notin CarryPcs \/ (pc'[u] = pc[u] /\ arg'[u] = arg[u])
         /\ \A v \in Works : \/ state'[v] = state[v]
                             \/ state[v] = {} /\ state'[v] = {"QUEUED"}
                             \/ state[v] = {"QUEUED"} /\ state'[v] = {}
<1> USE WorkqueueAssumption, DelayedAssumption
    DEF At, Goto, In, Jump, vars, queueVars, startVars, workVars, callVars, workerVars
<1>0. /\ DTypes /\ Types
      /\ \A t \in Threads : dpc[t] \notin {"none", "queueing", "crun"} => pc[t] = Return(t)
      /\ \A t \in Threads : pc[t] = Return(t) => pc[t] \notin CarryPcs
      /\ \A t \in Threads : pc[t] = "idle" => pc[t] \notin CarryPcs /\ t \notin Workers
  BY DEF DTypeOK, TypeOK, DPlaced, CarryPcs, Return, WorkerPlaced, WorkerPcs, CallPcs, BusyPcs
<1>1. ASSUME NEW t \in Threads, NEW q \in Queues, NEW w \in DelayedWorks, QueueDelayed(t, q, w)
      PROVE  /\ list' = list /\ cur' = cur /\ dwRunning' = dwRunning /\ pc' = pc
             /\ \A u \in Threads : pc'[u] \notin CarryPcs \/ arg'[u] = arg[u]
             /\ \A v \in Works : \/ state'[v] = state[v]
                                 \/ state[v] = {} /\ state'[v] = {"QUEUED"}
  BY <1>0, <1>1 DEF QueueDelayed, Types
<1>2. ASSUME NEW t \in Threads, NEW w \in DelayedWorks, CancelDelayed(t, w)
      PROVE  /\ list' = list /\ cur' = cur /\ dwRunning' = dwRunning /\ pc' = pc
             /\ \A u \in Threads : pc'[u] \notin CarryPcs \/ arg'[u] = arg[u]
             /\ state' = state
  BY <1>0, <1>2 DEF CancelDelayed, Types
<1>3. ASSUME NEW t \in Threads, SpawnOneShot(t)
      PROVE  /\ list' = list /\ cur' = cur /\ dwRunning' = dwRunning /\ pc' = pc
             /\ \A u \in Threads : pc'[u] \notin CarryPcs \/ arg'[u] = arg[u]
             /\ state' = state
  <2>1. PICK d \in OneShots : dpc[d] = "off" /\ arg' = [arg EXCEPT ![d] = arg[t]]
    BY <1>3 DEF SpawnOneShot
  <2>2. d \in Threads /\ pc[d] \notin CarryPcs BY <1>0, <2>1 DEF Threads
  <2> QED BY <1>0, <1>3, <2>1, <2>2 DEF SpawnOneShot, Types
<1>4. ASSUME NEW t \in Threads, ZeroState(t) \/ (t \in OneShots /\ TradeToken(t))
      PROVE  /\ list' = list /\ cur' = cur /\ dwRunning' = dwRunning /\ pc' = pc /\ arg' = arg
             /\ \A v \in Works : state'[v] = state[v] \/ (state[v] = {"QUEUED"} /\ state'[v] = {})
  <2>1. dpc[t] \in {"zero", "reset", "trade"} /\ arg[t] \in Works
    BY <1>4 DEF ZeroState, TradeToken, DTypeOK, DPlaced
  <2>2. state[arg[t]] = {"QUEUED"} BY <2>1 DEF HeldInv, Holds, ArmPcs
  <2>3. state' = [state EXCEPT ![arg[t]] = {}] BY <1>4, <2>2 DEF ZeroState, TradeToken
  <2> QED BY <1>0, <1>4, <2>2, <2>3 DEF ZeroState, TradeToken, Types
<1>5. ASSUME NEW t \in Threads, CancelInner(t) \/ (t \in OneShots /\ EnterQueue(t))
      PROVE  /\ list' = list /\ cur' = cur /\ dwRunning' = dwRunning /\ state' = state
             /\ \A k \in Workers : pc'[k] = pc[k]
             /\ \A u \in Threads :
                   pc'[u] \notin CarryPcs \/ (pc'[u] = pc[u] /\ arg'[u] = arg[u])
  <2>1. t \notin Workers BY <1>0, <1>5 DEF CancelInner, EnterCancel
  <2>2. CASE CancelInner(t)
    BY <1>0, <2>1, <2>2 DEF CancelInner, EnterCancel, Types, CarryPcs, Threads
  <2>3. CASE t \in OneShots /\ EnterQueue(t)
    BY <1>0, <2>1, <2>3 DEF EnterQueue, EnterQueueWork, Types, CarryPcs, Threads
  <2> QED BY <1>5, <2>2, <2>3
<1>6. ASSUME NEW t \in Threads,
             \/ SetQueue(t) \/ Activate(t) \/ BumpGeneration(t) \/ SpawnFails(t) \/ Rebump(t)
             \/ CancelBump(t) \/ CancelReturns(t) \/ LoadGeneration(t) \/ LoadQueue(t)
             \/ CheckArm(t) \/ Fire(t) \/ OneShotEnds(t)
      PROVE  UNCHANGED <<list, cur, dwRunning, pc, arg, state>>
  BY <1>6 DEF SetQueue, Activate, BumpGeneration, SpawnFails, Rebump, CancelBump, CancelReturns,
     LoadGeneration, LoadQueue, CheckArm, Fire, OneShotEnds
<1>7. CASE \E t \in Threads : DelayedCall(t)
  BY <1>1, <1>2, <1>7 DEF DelayedCall
<1>8. CASE \E t \in Threads : DelayedStep(t)
  BY <1>3, <1>4, <1>5, <1>6, <1>8 DEF DelayedStep
<1>9. CASE \E d \in OneShots : OneShotStep(d)
  <2>1. PICK d \in OneShots : OneShotStep(d) BY <1>9
  <2>2. d \in Threads BY DEF Threads
  <2> QED BY <1>4, <1>5, <1>6, <2>1, <2>2 DEF OneShotStep
<1> QED BY <1>7, <1>8, <1>9 DEF OwnMove

(* Every step is of one kind or the other.                                 *)
LEMMA MovesOfBoth == DNext => BaseMove \/ OwnMove
  BY DEF DNext, BaseMove, OwnMove

(* The RUNNING bit, with arms and their tasks.                             *)
LEMMA DNextRun == DTypeOK /\ HeldInv /\ RunInv /\ ExecutedOnce /\ [DNext]_dvars => RunInv'
<1> SUFFICES ASSUME DTypeOK, HeldInv, RunInv, ExecutedOnce, [DNext]_dvars PROVE RunInv'
  OBVIOUS
<1>1. CASE BaseMove BY <1>1, BaseIsNext, NextRun DEF DTypeOK
<1>2. CASE OwnMove
  <2>1. \A k \in Workers, w \in Works : Executes(k, w)' <=> Executes(k, w)
    BY <1>2, OwnMoveKeeps DEF Executes
  <2>2. \A w \in Works : "RUNNING" \in state'[w] <=> "RUNNING" \in state[w]
    BY <1>2, OwnMoveKeeps
  <2> QED BY <2>1, <2>2, RunFrame
<1>3. CASE UNCHANGED dvars BY <1>3, RunFrame DEF dvars, vars, workVars, workerVars, Executes
<1> QED BY <1>1, <1>2, <1>3, MovesOfBoth

(* A worker that looks for work has none in hand.                          *)
NoneInHand == \A k \in Workers : pc[k] \in {"off", "pop", "block"} => cur[k] = None

LEMMA NextNoneInHand == TypeOK /\ NoneInHand /\ [Next]_vars => NoneInHand'
<1> SUFFICES ASSUME TypeOK, NoneInHand, [Next]_vars, NEW k \in Workers,
                    pc'[k] \in {"off", "pop", "block"}
             PROVE  cur'[k] = None
  BY DEF NoneInHand
<1> USE WorkqueueAssumption
    DEF At, Goto, Return, queueVars, startVars, workVars, callVars, workerVars
<1>0. k \in Threads /\ Types BY DEF Threads, TypeOK
<1>1. ASSUME NEW t \in Threads, Call(t) PROVE pc'[k] = pc[k] /\ cur' = cur
  BY <1>0, <1>1 DEF Call, QueueWork, EnterQueueWork, CancelWorkSync, EnterCancel,
     FlushWorkqueue, Types
<1>2. ASSUME NEW t \in Threads, CallStep(t), ~CreateWorker(t) PROVE pc'[k] = pc[k] /\ cur' = cur
  <2>1. CASE \/ EnsureWorker(t) \/ ElectStarter(t) \/ SpinForStarter(t) \/ SpinResult(t)
             \/ CreateFails(t) \/ PublishWorker(t) \/ EndStarting(t)
    BY <1>0, <2>1 DEF EnsureWorker, ElectStarter, SpinForStarter, SpinResult, CreateFails,
       PublishWorker, EndStarting, Types
  <2>2. CASE MarkQueued(t) \/ AppendWork(t) \/ WakeLoad(t) \/ WakeUnblock(t)
    BY <1>0, <2>2 DEF MarkQueued, AppendWork, WakeLoad, WakeUnblock, Types
  <2>3. CASE RemoveWork(t) \/ ClearQueued(t) \/ AwaitNotRunning(t) \/ FlushReturns(t)
    BY <1>0, <2>3 DEF RemoveWork, ClearQueued, AwaitNotRunning, FlushReturns, Types
  <2> QED BY <1>2, <2>1, <2>2, <2>3 DEF CallStep, QueueStep
<1>3. ASSUME NEW t \in Threads, CreateWorker(t) PROVE cur'[k] = None
  <2>1. PICK j \in Workers : home[j] = None /\ pc' = [pc EXCEPT ![t] = "publish", ![j] = "pop"]
    BY <1>3 DEF CreateWorker
  <2>2. pc[j] = "off" BY <2>1 DEF TypeOK, WorkerPlaced
  <2>3. pc[k] \in {"off", "pop", "block"} BY <1>0, <2>1, <2>2 DEF Types
  <2> QED BY <1>3, <2>3 DEF CreateWorker, NoneInHand
<1>4. ASSUME NEW j \in Workers, WorkerStep(j) PROVE cur'[k] = None
  <2>0. j \in Threads BY DEF Threads
  <2>1. CASE PopNothing(j) \/ TaskBlock(j)
    <3>1. cur' = cur /\ pc[j] \in {"pop", "block"} /\ \E l : pc' = [pc EXCEPT ![j] = l]
      BY <2>1 DEF PopNothing, TaskBlock
    <3>2. pc[k] \in {"off", "pop", "block"} BY <1>0, <3>1 DEF Types
    <3> QED BY <3>1, <3>2 DEF NoneInHand
  <2>2. CASE \/ ClaimWork(j) \/ EnterDelayed(j) \/ FuncReturns(j) \/ LeaveDelayed(j)
             \/ ClearRunning(j) \/ SettleLock(j)
    <3>1. cur' = cur /\ \E l : pc' = [pc EXCEPT ![j] = l] /\ l \notin {"off", "pop", "block"}
      BY <2>2 DEF ClaimWork, EnterDelayed, FuncReturns, LeaveDelayed, ClearRunning, SettleLock
    <3>2. pc[k] \in {"off", "pop", "block"} BY <1>0, <2>0, <3>1 DEF Types
    <3> QED BY <3>1, <3>2 DEF NoneInHand
  <2>3. CASE PopWork(j)
    <3>1. pc' = [pc EXCEPT ![j] = "claim"] /\ \A i \in Workers : i # j => cur'[i] = cur[i]
      BY <1>0, <2>3 DEF PopWork, Types
    <3>2. k # j /\ pc[k] \in {"off", "pop", "block"} BY <1>0, <2>0, <3>1 DEF Types
    <3> QED BY <3>1, <3>2 DEF NoneInHand
  <2>4. CASE SettleUnlock(j)
    <3>1. pc' = [pc EXCEPT ![j] = "pop"] /\ cur' = [cur EXCEPT ![j] = None]
      BY <2>4 DEF SettleUnlock
    <3>2. k # j => pc[k] \in {"off", "pop", "block"} BY <1>0, <2>0, <3>1 DEF Types
    <3> QED BY <1>0, <3>1, <3>2 DEF NoneInHand, Types
  <2> QED BY <1>4, <2>1, <2>2, <2>3, <2>4 DEF WorkerStep
<1>5. CASE UNCHANGED vars BY <1>5 DEF vars, NoneInHand
<1>6. ASSUME NEW t \in Threads, Call(t) \/ (CallStep(t) /\ ~CreateWorker(t)) PROVE cur'[k] = None
  BY <1>1, <1>2, <1>6 DEF NoneInHand
<1> QED BY <1>3, <1>4, <1>5, <1>6 DEF Next

LEMMA DNextNoneInHand == DTypeOK /\ HeldInv /\ NoneInHand /\ [DNext]_dvars => NoneInHand'
<1> SUFFICES ASSUME DTypeOK, HeldInv, NoneInHand, [DNext]_dvars PROVE NoneInHand'
  OBVIOUS
<1>1. CASE BaseMove BY <1>1, BaseIsNext, NextNoneInHand DEF DTypeOK
<1>2. CASE OwnMove BY <1>2, OwnMoveKeeps DEF NoneInHand
<1>3. CASE UNCHANGED dvars BY <1>3 DEF dvars, vars, workerVars, NoneInHand
<1> QED BY <1>1, <1>2, <1>3, MovesOfBoth

(* What a step of the workqueue can give: a work is newly in the hands of  *)
(* thread u when u marks it, pops it or unlinks it, a worker newly has it  *)
(* when it pops it, and a list gains it from the thread that carries it.   *)
LeavingPcs == {"settle", "forget", "release"}

Taken(u, w) ==
    \/ "QUEUED" \in state'[w] /\ "QUEUED" \notin state[w]
    \/ u \in Workers /\ pc[u] = "pop" /\ pc'[u] = "claim" /\ cur'[u] = w
    \/ pc[u] = "remove" /\ pc'[u] = "unmark" /\ arg[u] = w

Has(k, w) == cur[k] = w /\ pc[k] \notin LeavingPcs

Gains(w) ==
    /\ \A u \in Threads : Carries(u, w)' => Carries(u, w) \/ Taken(u, w)
    /\ \A k \in Workers : Has(k, w)' => Has(k, w) \/ (pc[k] = "pop" /\ pc'[k] = "claim" /\ cur'[k] = w)
    /\ \A q \in Queues : Listed(w, q)' => Listed(w, q) \/ \E u \in Threads : AppendWork(u) /\ arg[u] = w

(* A step of t that neither carries a work afterwards nor gets one.        *)
EmptyStep(t) ==
    /\ list' = list
    /\ \A u \in Threads : u # t => arg'[u] = arg[u]
    /\ \A k \in Workers : cur'[k] = cur[k] \/ cur'[k] = None
    /\ \E l : /\ pc' = [pc EXCEPT ![t] = l]
              /\ l \notin CarryPcs
              /\ t \in Workers /\ pc[t] \in LeavingPcs => l \in LeavingPcs \/ cur'[t] = None

LEMMA EmptyStepGains ==
  ASSUME TypeOK, NEW t \in Threads, EmptyStep(t), NEW w \in Works
  PROVE  Gains(w)
<1> USE WorkqueueAssumption
<1>1. PICK l : /\ pc' = [pc EXCEPT ![t] = l] /\ l \notin CarryPcs
               /\ t \in Workers /\ pc[t] \in LeavingPcs => l \in LeavingPcs \/ cur'[t] = None
  BY DEF EmptyStep
<1>2. \A u \in Threads : pc'[u] = IF u = t THEN l ELSE pc[u]
  BY <1>1 DEF TypeOK, Types
<1>3. w # None BY DEF TypeOK
<1>4. ASSUME NEW u \in Threads, Carries(u, w)' PROVE Carries(u, w)
  <2>1. u # t BY <1>1, <1>2, <1>4 DEF Carries, CarryPcs
  <2> QED BY <1>2, <1>3, <1>4, <2>1 DEF Carries, EmptyStep
<1>5. ASSUME NEW k \in Workers, Has(k, w)' PROVE Has(k, w)
  <2>1. cur[k] = w BY <1>3, <1>5 DEF Has, EmptyStep
  <2>2. k \in Threads BY DEF Threads
  <2>3. cur'[k] # None BY <1>3, <1>5 DEF Has
  <2>4. pc[k] \notin LeavingPcs
    BY <1>1, <1>2, <1>5, <2>2, <2>3 DEF Has
  <2> QED BY <2>1, <2>4 DEF Has
<1>6. \A q \in Queues : Listed(w, q)' => Listed(w, q)
  BY DEF Listed, EmptyStep
<1> QED BY <1>4, <1>5, <1>6 DEF Gains

LEMMA NextGains ==
  ASSUME TypeOK, Next, NEW w \in Works
  PROVE  Gains(w)
<1> USE WorkqueueAssumption
    DEF At, Goto, Return, queueVars, startVars, workVars, callVars, workerVars
<1>0. Types /\ w # None /\ \A k \in Workers : k \in Threads BY DEF TypeOK, Threads
<1>1. ASSUME NEW t \in Threads, Call(t) PROVE EmptyStep(t)
  <2>1. t \in Workers => pc[t] # "idle"
    BY DEF TypeOK, WorkerPlaced, WorkerPcs, CallPcs, BusyPcs
  <2>2. pc[t] \notin LeavingPcs
    BY <1>1 DEF Call, QueueWork, EnterQueueWork, CancelWorkSync, EnterCancel, FlushWorkqueue, LeavingPcs
  <2> QED
    BY <1>0, <1>1, <2>1, <2>2 DEF Call, QueueWork, EnterQueueWork, CancelWorkSync, EnterCancel,
                      FlushWorkqueue, EmptyStep, CarryPcs, Types
<1>2. ASSUME NEW t \in Threads,
             \/ EnsureWorker(t) \/ ElectStarter(t) \/ SpinForStarter(t) \/ SpinResult(t)
             \/ CreateFails(t) \/ PublishWorker(t) \/ EndStarting(t)
      PROVE  EmptyStep(t)
  BY <1>2 DEF EnsureWorker, ElectStarter, SpinForStarter, SpinResult, CreateFails,
     PublishWorker, EndStarting, EmptyStep, CarryPcs, LeavingPcs
<1>3. ASSUME NEW t \in Threads,
             WakeLoad(t) \/ WakeUnblock(t) \/ ClearQueued(t) \/ AwaitNotRunning(t) \/ FlushReturns(t)
      PROVE  EmptyStep(t)
  BY <1>3 DEF WakeLoad, WakeUnblock, ClearQueued, AwaitNotRunning, FlushReturns, EmptyStep,
     CarryPcs, LeavingPcs
<1>4. ASSUME NEW k \in Workers,
             \/ PopNothing(k) \/ TaskBlock(k) \/ ClaimWork(k) \/ EnterDelayed(k) \/ FuncReturns(k)
             \/ LeaveDelayed(k) \/ ClearRunning(k) \/ SettleLock(k)
      PROVE  EmptyStep(k)
  BY <1>4 DEF PopNothing, TaskBlock, ClaimWork, EnterDelayed, FuncReturns, LeaveDelayed,
     ClearRunning, SettleLock, EmptyStep, CarryPcs, LeavingPcs
<1>5. ASSUME NEW k \in Workers, SettleUnlock(k) PROVE EmptyStep(k)
  BY <1>0, <1>5 DEF SettleUnlock, EmptyStep, CarryPcs, LeavingPcs, Types
<1>6. ASSUME NEW t \in Threads, CreateWorker(t) PROVE Gains(w)
  <2>1. PICK j \in Workers : home[j] = None /\ pc' = [pc EXCEPT ![t] = "publish", ![j] = "pop"]
    BY <1>6 DEF CreateWorker
  <2>2. pc[j] = "off" /\ pc[t] = "create" BY <1>6, <2>1 DEF TypeOK, WorkerPlaced, CreateWorker
  <2>3. \A u \in Threads : pc'[u] = IF u = j THEN "pop" ELSE IF u = t THEN "publish" ELSE pc[u]
    BY <1>0, <2>1 DEF Types
  <2>4. UNCHANGED <<list, arg, cur>> BY <1>6 DEF CreateWorker
  <2>5. \A u \in Threads : Carries(u, w)' => Carries(u, w) BY <2>3, <2>4 DEF Carries
  <2>6. \A k \in Workers : Has(k, w)' => Has(k, w)
    BY <1>0, <2>2, <2>3, <2>4 DEF Has, LeavingPcs
  <2>7. \A q \in Queues : Listed(w, q)' => Listed(w, q) BY <2>4 DEF Listed
  <2> QED BY <2>5, <2>6, <2>7 DEF Gains
<1>7. ASSUME NEW t \in Threads, MarkQueued(t) PROVE Gains(w)
  <2>1. arg[t] \in Works BY <1>7 DEF MarkQueued, TypeOK, Types, CallPlaced, CallPcs
  <2>2. UNCHANGED <<list, arg, cur>> /\ \E l : pc' = [pc EXCEPT ![t] = l]
    BY <1>7 DEF MarkQueued
  <2>3. pc'[t] = "append" => Taken(t, arg[t]) BY <1>0, <1>7, <2>1 DEF MarkQueued, Taken, Types
  <2>4. pc'[t] \in {"append", "func", "idle"} /\ pc[t] = "mark" BY <1>0, <1>7 DEF MarkQueued, Types
  <2>5. \A u \in Threads : u # t => pc'[u] = pc[u] BY <1>0, <2>2 DEF Types
  <2>6. \A u \in Threads : Carries(u, w)' => Carries(u, w) \/ Taken(u, w)
    BY <2>2, <2>3, <2>4, <2>5 DEF Carries
  <2>7. \A k \in Workers : Has(k, w)' => Has(k, w)
    BY <1>0, <2>2, <2>4, <2>5 DEF Has, LeavingPcs
  <2>8. \A q \in Queues : Listed(w, q)' => Listed(w, q) BY <2>2 DEF Listed
  <2> QED BY <2>6, <2>7, <2>8 DEF Gains
<1>8. ASSUME NEW t \in Threads, AppendWork(t) PROVE Gains(w)
  <2>1. UNCHANGED <<arg, cur>> /\ pc' = [pc EXCEPT ![t] = "wake"] /\ pc[t] = "append"
    BY <1>8 DEF AppendWork
  <2>2. wqArg[t] \in Queues /\ arg[t] \in Works
    BY <1>8 DEF AppendWork, TypeOK, Types, CallPlaced, CallPcs
  <2>3. \A u \in Threads : pc'[u] = IF u = t THEN "wake" ELSE pc[u] BY <1>0, <2>1 DEF Types
  <2>4. \A u \in Threads : Carries(u, w)' => Carries(u, w) BY <2>1, <2>3 DEF Carries
  <2>5. \A k \in Workers : Has(k, w)' => Has(k, w) BY <1>0, <2>1, <2>3 DEF Has, LeavingPcs
  <2>6. ASSUME NEW q \in Queues, Listed(w, q)', ~Listed(w, q) PROVE arg[t] = w
    <3>1. q = wqArg[t] /\ list'[q] = Append(list[q], arg[t])
      BY <1>0, <1>8, <2>2, <2>6 DEF AppendWork, Types, Listed
    <3> QED BY <1>0, <2>2, <2>6, <3>1 DEF Types, Listed
  <2> QED BY <1>8, <2>4, <2>5, <2>6 DEF Gains
<1>9. ASSUME NEW t \in Threads, RemoveWork(t) PROVE Gains(w)
  <2>1. /\ UNCHANGED <<arg, cur>> /\ pc[t] = "remove"
        /\ \E l \in {"unmark", "await"} : pc' = [pc EXCEPT ![t] = l]
    BY <1>9 DEF RemoveWork
  <2>2. wqArg[t] \in Queues /\ arg[t] \in Works
    BY <1>9 DEF RemoveWork, TypeOK, Types, CallPlaced
  <2>3. \A u \in Threads : u # t => pc'[u] = pc[u] BY <1>0, <2>1 DEF Types
  <2>4. pc'[t] \in {"unmark", "await"} BY <1>0, <2>1 DEF Types
  <2>5. \A u \in Threads : Carries(u, w)' => Carries(u, w) \/ Taken(u, w)
    BY <2>1, <2>3, <2>4 DEF Carries, Taken
  <2>6. \A k \in Workers : Has(k, w)' => Has(k, w) BY <1>0, <2>1, <2>3, <2>4 DEF Has, LeavingPcs
  <2>7. ASSUME NEW q \in Queues, Listed(w, q)' PROVE Listed(w, q)
    <3>1. CASE list' = list BY <2>7, <3>1 DEF Listed
    <3>2. CASE list' # list
      <4>1. PICK p \in 1 .. Len(list[wqArg[t]]) : list' = [list EXCEPT ![wqArg[t]] = Without(@, p)]
        BY <1>9, <3>2 DEF RemoveWork
      <4>2. q # wqArg[t] => list'[q] = list[q] BY <1>0, <4>1 DEF Types
      <4>3. CASE q = wqArg[t]
        <5>1. list'[q] = Without(list[q], p) /\ list[q] \in Seq(Works)
          BY <1>0, <4>1, <4>3 DEF Types
        <5>2. PICK n \in 1 .. Len(list'[q]) : list'[q][n] = w BY <2>7 DEF Listed
        <5>3. /\ Len(list'[q]) = Len(list[q]) - 1 /\ Len(list[q]) \in Nat
              /\ list'[q][n] = IF n < p THEN list[q][n] ELSE list[q][n + 1]
          <6>1. p \in 1 .. Len(list[q]) /\ Len(list[q]) \in Nat BY <4>1, <4>3, <5>1
          <6>2. Len(list'[q]) = Len(list[q]) - 1 BY <5>1, <6>1, WithoutIsSeq
          <6>3. n \in 1 .. Len(list[q]) - 1 BY <5>2, <6>2
          <6>4. Without(list[q], p)[n] = IF n < p THEN list[q][n] ELSE list[q][n + 1]
            BY <5>1, <6>1, <6>3, WithoutIsSeq
          <6> QED BY <5>1, <6>1, <6>2, <6>4
        <5>4. p \in 1 .. Len(list[q]) /\ n \in 1 .. Len(list[q]) - 1 BY <4>1, <4>3, <5>2, <5>3
        <5> QED BY <5>2, <5>3, <5>4 DEF Listed
      <4> QED BY <2>7, <4>2, <4>3 DEF Listed
    <3> QED BY <3>1, <3>2
  <2> QED BY <2>5, <2>6, <2>7 DEF Gains
<1>10. ASSUME NEW k \in Workers, PopWork(k) PROVE Gains(w)
  <2>1. PICK q \in Queues : q = home[k] /\ pc[k] = "pop" /\ list[q] # <<>>
    BY <1>10 DEF PopWork, TypeOK, Types, WorkerPlaced
  <2>2. /\ arg' = arg /\ pc' = [pc EXCEPT ![k] = "claim"]
        /\ list' = [list EXCEPT ![q] = Tail(@)] /\ \A j \in Workers : j # k => cur'[j] = cur[j]
    BY <1>0, <1>10, <2>1 DEF PopWork, Types
  <2>3. \A u \in Threads : pc'[u] = IF u = k THEN "claim" ELSE pc[u] BY <1>0, <2>2 DEF Types
  <2>4. \A u \in Threads : Carries(u, w)' => Carries(u, w) \/ Taken(u, w)
    BY <2>1, <2>2, <2>3 DEF Carries, Taken
  <2>5. \A j \in Workers : Has(j, w)' => Has(j, w) \/ (pc[j] = "pop" /\ pc'[j] = "claim" /\ cur'[j] = w)
    BY <1>0, <2>1, <2>2, <2>3 DEF Has, LeavingPcs
  <2>6. ASSUME NEW r \in Queues, Listed(w, r)' PROVE Listed(w, r)
    <3>1. r # q => list'[r] = list[r] BY <1>0, <2>2 DEF Types
    <3>2. r = q => list'[r] = Tail(list[r]) BY <1>0, <2>2 DEF Types
    <3>3. CASE r = q
      <4>1. list[r] \in Seq(Works) /\ list[r] # <<>> BY <1>0, <2>1, <3>3 DEF Types
      <4>2. PICK n \in 1 .. Len(Tail(list[r])) : Tail(list[r])[n] = w
        BY <2>6, <3>2, <3>3 DEF Listed
      <4>3. Len(list[r]) \in Nat /\ n + 1 \in 1 .. Len(list[r]) /\ list[r][n + 1] = w
        BY <4>1, <4>2
      <4> QED BY <4>3 DEF Listed
    <3> QED BY <2>6, <3>1, <3>3 DEF Listed
  <2> QED BY <2>4, <2>5, <2>6 DEF Gains
<1>11. ASSUME NEW t \in Threads, EmptyStep(t) PROVE Gains(w) BY <1>11, EmptyStepGains
<1>12. ASSUME NEW t \in Threads, CallStep(t) PROVE Gains(w)
  BY <1>2, <1>3, <1>6, <1>7, <1>8, <1>9, <1>11, <1>12 DEF CallStep, QueueStep
<1>13. ASSUME NEW k \in Workers, WorkerStep(k) PROVE Gains(w)
  BY <1>0, <1>4, <1>5, <1>10, <1>11, <1>13 DEF WorkerStep
<1> QED BY <1>1, <1>11, <1>12, <1>13 DEF Next

LEMMA DNextGains ==
  ASSUME DTypeOK, HeldInv, DNext, NEW w \in Works
  PROVE  Gains(w)
<1>1. CASE BaseMove BY <1>1, BaseIsNext, NextGains DEF DTypeOK
<1>2. CASE OwnMove
  <2>1. \A k \in Workers : Has(k, w)' => Has(k, w) BY <1>2, OwnMoveKeeps DEF Has
  <2>2. \A q \in Queues : Listed(w, q)' => Listed(w, q) BY <1>2, OwnMoveKeeps DEF Listed
  <2>3. \A u \in Threads : Carries(u, w)' => Carries(u, w)
    BY <1>2, OwnMoveKeeps DEF Carries, CarryPcs
  <2> QED BY <2>1, <2>2, <2>3 DEF Gains
<1> QED BY <1>1, <1>2, MovesOfBoth

(* What a step can bring past the check of a cancel: an arm that sets the  *)
(* QUEUED bit, or a one-shot task whose wait is over; a task begins to     *)
(* wait where an arm spawns it.                                            *)
LateOrArming(u, w) == arg[u] = w /\ dpc[u] \in LatePcs \cup ArmPcs
WaitsFor(d, w) == arg[d] = w /\ dpc[d] \in WaitPcs

ArmGains(w) ==
    /\ \A u \in Threads : LateOrArming(u, w)' =>
          \/ LateOrArming(u, w)
          \/ "QUEUED" \in state'[w] /\ "QUEUED" \notin state[w]
          \/ u \in OneShots /\ arg[u] = w /\ dpc[u] = "wait" /\ dpc'[u] = "fire"
    /\ \A d \in OneShots : WaitsFor(d, w)' =>
          WaitsFor(d, w) \/ \E u \in Threads : dpc[u] = "spawn" /\ arg[u] = w

LEMMA DNextArmGains ==
  ASSUME DTypeOK, HeldInv, DNext, NEW w \in Works
  PROVE  ArmGains(w)
<1> USE WorkqueueAssumption, DelayedAssumption
    DEF In, Jump, Outside, vars, queueVars, startVars, workVars, callVars, workerVars
<1>0. /\ Types /\ DTypes /\ \A d \in OneShots : d \in Threads
      /\ \A t \in Threads : dpc[t] = "none" => t \notin OneShots
      /\ \A t \in Threads : dpc[t] = "off" => t \in OneShots
  BY DEF DTypeOK, TypeOK, DPlaced, Threads, OneShotPcs, CallerPcs, WaitPcs
<1>1. CASE BaseMove
  <2>1. dpc' = dpc BY <1>1, BaseIsNext DEF delayedVars
  <2>2. ASSUME NEW u \in Threads, dpc[u] \in LatePcs \cup ArmPcs \cup WaitPcs PROVE arg'[u] = arg[u]
    BY <1>1, <2>2, BaseLeaves DEF LatePcs, ArmPcs, WaitPcs
  <2> QED BY <1>0, <2>1, <2>2 DEF ArmGains, LateOrArming, WaitsFor
<1>2. ASSUME NEW t \in Threads, NEW q \in Queues, NEW v \in DelayedWorks, QueueDelayed(t, q, v)
      PROVE  ArmGains(w)
  <2>1. \A u \in Threads : u # t => arg'[u] = arg[u] /\ dpc'[u] = dpc[u]
    BY <1>0, <1>2 DEF QueueDelayed, Types, DTypes
  <2>2. arg'[t] = v /\ dpc[t] = "none" /\ dpc'[t] \in {"none", "setwq"} BY <1>0, <1>2 DEF QueueDelayed, Types, DTypes
  <2>3. dpc'[t] # "none" => "QUEUED" \in state'[v] /\ "QUEUED" \notin state[v]
    BY <1>0, <1>2 DEF QueueDelayed, Types, DTypes
  <2>4. dpc'[t] \notin WaitPcs BY <2>2 DEF WaitPcs
  <2>5. dpc'[t] # "none" => dpc'[t] \in ArmPcs BY <2>2 DEF ArmPcs
  <2>6. "none" \notin LatePcs \cup ArmPcs BY DEF LatePcs, ArmPcs
  <2> QED BY <1>0, <2>1, <2>2, <2>3, <2>4, <2>6 DEF ArmGains, LateOrArming, WaitsFor
<1>3. ASSUME NEW t \in Threads, NEW v \in DelayedWorks, CancelDelayed(t, v) PROVE ArmGains(w)
  <2>1. \A u \in Threads : u # t => arg'[u] = arg[u] /\ dpc'[u] = dpc[u]
    BY <1>0, <1>3 DEF CancelDelayed, Types, DTypes
  <2>2. dpc'[t] = "cbump" BY <1>0, <1>3 DEF CancelDelayed, Types, DTypes
  <2> QED BY <1>0, <2>1, <2>2 DEF ArmGains, LateOrArming, WaitsFor, WaitPcs, LatePcs, ArmPcs
<1>4. ASSUME NEW t \in Threads, SpawnOneShot(t) PROVE ArmGains(w)
  <2>1. PICK d \in OneShots : /\ dpc[d] = "off" /\ arg' = [arg EXCEPT ![d] = arg[t]]
                              /\ dpc' = [dpc EXCEPT ![t] = Outside(t), ![d] = "loadgen"]
    BY <1>4 DEF SpawnOneShot
  <2>2. dpc[t] = "spawn" /\ t # d /\ d \in Threads BY <1>0, <1>4, <2>1 DEF SpawnOneShot
  <2>3. \A u \in Threads : u # t /\ u # d => arg'[u] = arg[u] /\ dpc'[u] = dpc[u]
    BY <1>0, <2>1 DEF Types, DTypes
  <2>4. dpc'[t] \in {"off", "none"} /\ dpc'[d] = "loadgen" /\ arg'[d] = arg[t]
    BY <1>0, <2>1, <2>2 DEF Types, DTypes
  <2> QED BY <1>0, <2>2, <2>3, <2>4 DEF ArmGains, LateOrArming, WaitsFor, WaitPcs, LatePcs, ArmPcs
<1>5. ASSUME NEW t \in Threads,
             \/ SetQueue(t) \/ Activate(t) \/ BumpGeneration(t) \/ SpawnFails(t) \/ ZeroState(t)
             \/ Rebump(t) \/ CancelBump(t) \/ CancelInner(t) \/ CancelReturns(t)
      PROVE  ArmGains(w)
  <2>1. \A u \in Threads : u # t => arg'[u] = arg[u] /\ dpc'[u] = dpc[u]
    BY <1>0, <1>5 DEF SetQueue, Activate, BumpGeneration, SpawnFails, ZeroState, Rebump,
       CancelBump, CancelInner, EnterCancel, CancelReturns, Types, DTypes
  <2>2. arg'[t] = arg[t]
    BY <1>0, <1>5 DEF SetQueue, Activate, BumpGeneration, SpawnFails, ZeroState, Rebump,
       CancelBump, CancelInner, EnterCancel, CancelReturns, Types, DTypes
  <2>3. dpc'[t] \notin WaitPcs /\ (dpc'[t] \in LatePcs \cup ArmPcs => dpc[t] \in ArmPcs)
    BY <1>0, <1>5 DEF SetQueue, Activate, BumpGeneration, SpawnFails, ZeroState, Rebump,
       CancelBump, CancelInner, EnterCancel, CancelReturns, DTypes, WaitPcs, LatePcs, ArmPcs
  <2> QED BY <1>0, <2>1, <2>2, <2>3 DEF ArmGains, LateOrArming, WaitsFor
<1>6. ASSUME NEW d \in OneShots, OneShotStep(d) PROVE ArmGains(w)
  <2>0. d \in Threads BY <1>0
  <2>1. \A u \in Threads : arg'[u] = arg[u] /\ (u # d => dpc'[u] = dpc[u])
    BY <1>0, <1>6 DEF OneShotStep, LoadGeneration, LoadQueue, CheckArm, Fire, TradeToken,
       EnterQueue, EnterQueueWork, OneShotEnds, Types, DTypes
  <2>2. dpc'[d] \in WaitPcs => dpc[d] \in WaitPcs
    BY <1>0, <1>6 DEF OneShotStep, LoadGeneration, LoadQueue, CheckArm, Fire, TradeToken,
       EnterQueue, OneShotEnds, DTypes, WaitPcs
  <2>3. dpc'[d] \in LatePcs \cup ArmPcs =>
           dpc[d] \in LatePcs \/ (dpc[d] = "wait" /\ dpc'[d] = "fire")
    BY <1>0, <1>6 DEF OneShotStep, LoadGeneration, LoadQueue, CheckArm, Fire, TradeToken,
       EnterQueue, OneShotEnds, DTypes, LatePcs, ArmPcs
  <2> QED BY <1>0, <2>0, <2>1, <2>2, <2>3 DEF ArmGains, LateOrArming, WaitsFor
<1>7. ASSUME NEW t \in Threads, DelayedCall(t) PROVE ArmGains(w) BY <1>2, <1>3, <1>7 DEF DelayedCall
<1>8. ASSUME NEW t \in Threads, DelayedStep(t) PROVE ArmGains(w) BY <1>4, <1>5, <1>8 DEF DelayedStep
<1> QED BY <1>1, <1>6, <1>7, <1>8 DEF DNext, BaseMove

(* What a thread in a cancel does next.                                    *)
CancelPcs == {"cbump", "ccancel", "crun"}

CancelStays(t) == dpc'[t] = dpc[t] /\ pc'[t] = pc[t] /\ wqArg'[t] = wqArg[t]
InnerStep(t) ==
    /\ dpc[t] = "crun" /\ dpc'[t] = "crun" /\ wqArg'[t] = wqArg[t] /\ UNCHANGED delayedVars
    /\ \/ RemoveWork(t) \/ ClearQueued(t) \/ AwaitNotRunning(t)
       \/ pc[t] \notin {"remove", "unmark", "await", "idle"}

CancelMove(t) ==
    /\ arg'[t] = arg[t]
    /\ \/ CancelStays(t)
       \/ dpc[t] = "cbump" /\ dpc'[t] = "ccancel" /\ pc'[t] = pc[t]
       \/ CancelInner(t) /\ dpc'[t] = "crun"
       \/ InnerStep(t)
       \/ dpc[t] = "crun" /\ dpc'[t] = "none" /\ pc[t] = "idle"

LEMMA CancelMoves ==
  ASSUME DTypeOK, DNext, NEW t \in Threads, dpc[t] \in CancelPcs
  PROVE  CancelMove(t)
<1> USE WorkqueueAssumption, DelayedAssumption
    DEF In, Jump, Outside, vars, queueVars, startVars, workVars, callVars, workerVars
<1>0. /\ Types /\ DTypes /\ \A d \in OneShots : d \in Threads
      /\ t \in Clients /\ t \notin Workers /\ t \notin OneShots
      /\ pc[t] # "off" /\ dpc[t] # "none"
  BY DEF DTypeOK, TypeOK, DPlaced, Threads, OneShotPcs, CallerPcs, WaitPcs, CancelPcs, ClientPcs, CallPcs
<1>1. CASE BaseMove
  <2>1. UNCHANGED delayedVars /\ arg'[t] = arg[t] /\ wqArg'[t] = wqArg[t]
    BY <1>0, <1>1, BaseIsNext, BaseLeaves
  <2>2. dpc'[t] = dpc[t] BY <2>1 DEF delayedVars
  <2>3. ASSUME NEW u \in Threads, PlainCall(u) PROVE pc'[t] = pc[t]
    <3>1. u # t BY <1>0, <2>3 DEF PlainCall
    <3> QED BY <1>0, <2>3, <3>1 DEF PlainCall, QueueWork, EnterQueueWork, CancelWorkSync,
              EnterCancel, FlushWorkqueue, Types, Goto
  <2>4. ASSUME NEW u \in Threads, u # t, BaseStep(u) PROVE pc'[t] = pc[t]
    BY <1>0, <2>4, CallStepMoves DEF BaseStep, DTypeOK
  <2>5. ASSUME BaseStep(t) PROVE CancelStays(t) \/ InnerStep(t)
    <3>1. pc[t] \notin {"idle", "func"} BY <2>5, CallStepMoves DEF BaseStep, DTypeOK
    <3>2. dpc[t] = "crun" BY <1>0, <3>1 DEF DTypeOK, DPlaced, Return, CancelPcs
    <3>3. RemoveWork(t) \/ ClearQueued(t) \/ AwaitNotRunning(t)
             \/ pc[t] \notin {"remove", "unmark", "await", "idle"}
      BY <2>5, <3>1 DEF BaseStep, CallStep, QueueStep, EnsureWorker, ElectStarter, SpinForStarter,
         SpinResult, CreateWorker, CreateFails, PublishWorker, EndStarting, MarkQueued, AppendWork,
         WakeLoad, WakeUnblock, FlushReturns, At
    <3> QED BY <2>1, <2>2, <3>2, <3>3 DEF InnerStep
  <2>6. ASSUME NEW k \in Workers, BaseWorker(k) PROVE pc'[t] = pc[t]
    BY <1>0, <2>6 DEF BaseWorker, WorkerStep, PopWork, PopNothing, TaskBlock, ClaimWork, EnterDelayed,
       FuncReturns, LeaveDelayed, ClearRunning, SettleLock, SettleUnlock, Goto, Types
  <2>7. (pc'[t] = pc[t]) \/ CancelStays(t) \/ InnerStep(t)
    BY <1>1, <2>3, <2>4, <2>5, <2>6 DEF BaseMove
  <2> QED BY <2>1, <2>2, <2>7 DEF CancelMove, CancelStays
<1>2. ASSUME NEW u \in Threads, DelayedCall(u) PROVE CancelMove(t)
  <2>1. u # t BY <1>0, <1>2 DEF DelayedCall, QueueDelayed, CancelDelayed
  <2> QED BY <1>0, <1>2, <2>1 DEF DelayedCall, QueueDelayed, CancelDelayed, Types, DTypes,
            CancelMove, CancelStays
<1>3. ASSUME NEW u \in Threads, SpawnOneShot(u) PROVE CancelMove(t)
  <2>1. PICK d \in OneShots : /\ dpc[d] = "off" /\ arg' = [arg EXCEPT ![d] = arg[u]]
                              /\ dpc' = [dpc EXCEPT ![u] = Outside(u), ![d] = "loadgen"]
    BY <1>3 DEF SpawnOneShot
  <2>2. t # u /\ t # d BY <1>0, <1>3 DEF SpawnOneShot, CancelPcs
  <2> QED BY <1>0, <1>3, <2>1, <2>2 DEF SpawnOneShot, Types, DTypes, CancelMove, CancelStays
<1>4. ASSUME NEW u \in Threads, u # t, DelayedStep(u), ~SpawnOneShot(u) PROVE CancelMove(t)
  BY <1>0, <1>4 DEF DelayedStep, SetQueue, Activate, BumpGeneration, SpawnFails, ZeroState, Rebump,
     CancelBump, CancelInner, EnterCancel, CancelReturns, Types, DTypes, Goto, CancelMove, CancelStays
<1>5. ASSUME DelayedStep(t) PROVE CancelMove(t)
  <2>1. CancelBump(t) \/ CancelInner(t) \/ CancelReturns(t)
    BY <1>5 DEF DelayedStep, SetQueue, Activate, BumpGeneration, SpawnOneShot, SpawnFails, ZeroState,
       Rebump, CancelPcs
  <2>2. CASE CancelBump(t) BY <1>0, <2>2 DEF CancelBump, DTypes, CancelMove
  <2>3. CASE CancelInner(t)
    BY <1>0, <2>3 DEF CancelInner, EnterCancel, Types, DTypes, CancelMove
  <2>4. CASE CancelReturns(t) BY <1>0, <2>4 DEF CancelReturns, At, DTypes, CancelMove
  <2> QED BY <2>1, <2>2, <2>3, <2>4
<1>6. ASSUME NEW d \in OneShots, OneShotStep(d) PROVE CancelMove(t)
  <2>1. d # t /\ d \in Threads BY <1>0
  <2> QED BY <1>0, <1>6, <2>1 DEF OneShotStep, LoadGeneration, LoadQueue, CheckArm, Fire, TradeToken,
            EnterQueue, EnterQueueWork, OneShotEnds, Types, DTypes, Goto, CancelMove, CancelStays
<1> QED BY <1>1, <1>2, <1>3, <1>4, <1>5, <1>6 DEF DNext, BaseMove

(* A list that holds a work is the one work->wq names.                     *)
ListKnown == \A w \in Works, q \in Queues : Listed(w, q) => wwq[w] = q

(* What a settled cancel knows of its work, from the store that clears     *)
(* `active` on: nobody else has the work in hand, every task that waits    *)
(* for it is canceled, the list found through work->wq is the only one     *)
(* that may hold it, and after the unlinking none does.                    *)
NobodyBut(t, w) ==
    /\ \A u \in Threads : u # t => ~Carries(u, w)
    /\ \A u \in Threads : ~LateOrArming(u, w)
    /\ \A d \in OneShots : WaitsFor(d, w) => d \in gone

Left(w) == \A k \in Workers : ~Has(k, w)

Clearing(t, w) ==
    /\ pc[t] \in {"remove", "unmark", "await", "idle"}
    /\ pc[t] = "remove" => \A q \in Queues : Listed(w, q) => q = wqArg[t]
    /\ pc[t] # "remove" => \A q \in Queues : ~Listed(w, q)
    /\ pc[t] = "idle" => Left(w)

SettledAt(t, w) ==
    /\ NobodyBut(t, w)
    /\ dpc[t] # "crun" => pc[t] = "idle"
    /\ dpc[t] = "crun" => Clearing(t, w)

SettledInv ==
    \A t \in settled : t \in Threads /\ dpc[t] \in CancelPcs /\ SettledAt(t, arg[t])

(* The cancel that becomes settled.                                        *)
LEMMA CancelSettles ==
  ASSUME DTypeOK, HeldInv, DNext, NEW t \in Threads, Cancels(t), NobodyElseHas(arg'[t])
  PROVE  dpc'[t] = "cbump" /\ SettledAt(t, arg[t])'
<1> USE WorkqueueAssumption, DelayedAssumption
    DEF In, Jump, Outside, vars, queueVars, startVars, workVars, callVars, workerVars
<1>0. Types /\ DTypes /\ dpc[t] = "none" /\ dpc'[t] = "cbump"
  BY DEF DTypeOK, TypeOK, Cancels
<1>1. PICK w \in DelayedWorks : CancelDelayed(t, w)
  <2>1. ~BaseMove BY <1>0, BaseIsNext DEF delayedVars
  <2>2. ASSUME NEW u \in Threads, DelayedStep(u) PROVE FALSE
    BY <1>0, <2>2 DEF DelayedStep, SetQueue, Activate, BumpGeneration, SpawnOneShot, SpawnFails,
       ZeroState, Rebump, CancelBump, CancelInner, CancelReturns, DTypes
  <2>3. ASSUME NEW e \in OneShots, OneShotStep(e) PROVE FALSE
    BY <1>0, <2>3 DEF OneShotStep, LoadGeneration, LoadQueue, CheckArm, Fire, TradeToken, EnterQueue,
       OneShotEnds, DTypes
  <2>4. PICK u \in Threads : DelayedCall(u) BY <2>1, <2>2, <2>3 DEF DNext, BaseMove
  <2> QED BY <1>0, <2>4 DEF DelayedCall, QueueDelayed, CancelDelayed, DTypes
<1>2. /\ arg'[t] = w /\ \A u \in Threads : u # t => arg'[u] = arg[u] /\ dpc'[u] = dpc[u]
      /\ UNCHANGED <<pc, cur>> /\ pc[t] = "idle"
  BY <1>0, <1>1 DEF CancelDelayed, At, Types, DTypes
<1>3. \A u \in Threads : ~Carries(u, w) /\ ~LateOrArming(u, w)
  BY <1>2 DEF NobodyElseHas, LateOrArming
<1>4. \A u \in Threads : u # t => ~Carries(u, w)'
  BY <1>2, <1>3 DEF Carries
<1>5. \A u \in Threads : ~LateOrArming(u, w)'
  BY <1>0, <1>2, <1>3 DEF LateOrArming, LatePcs, ArmPcs
<1>6. ASSUME NEW d \in OneShots, WaitsFor(d, w)' PROVE d \in gone'
  <2>1. d # t /\ d \in Threads BY <1>0, <1>6 DEF WaitsFor, WaitPcs, Threads
  <2>2. dpc'[d] = dpc[d] /\ arg[d] = w /\ dpc[d] \in WaitPcs
    BY <1>2, <1>6, <2>1 DEF WaitsFor
  <2>3. dpc'[d] # "off" BY <2>2 DEF WaitPcs
  <2> QED BY <1>2, <2>2, <2>3 DEF DNext, Record
<1> QED BY <1>0, <1>2, <1>4, <1>5, <1>6 DEF SettledAt, NobodyBut

(* A settled cancel that goes on stays settled.                            *)
LEMMA StaysNobody ==
  ASSUME DTypeOK, HeldInv, GoneInv, DNext, NEW t \in Threads, dpc[t] \in CancelPcs,
         NEW w \in Works, w = arg[t], arg'[t] = w, NobodyBut(t, w), NotTaken(t, w)
  PROVE  NobodyBut(t, w)'
<1> USE WorkqueueAssumption, DelayedAssumption
<1>0. DTypes /\ \A d \in OneShots : d \in Threads BY DEF DTypeOK, Threads
<1>1. Gains(w) /\ ArmGains(w) BY DNextGains, DNextArmGains
<1>2. ASSUME NEW u \in Threads, u # t PROVE ~Carries(u, w)'
  BY <1>1, <1>2 DEF Gains, Taken, NotTaken, NobodyBut
<1>3. ASSUME NEW u \in Threads, u \in OneShots, arg[u] = w, dpc[u] = "wait", dpc'[u] = "fire" PROVE FALSE
  <2>1. u \in gone BY <1>3 DEF NobodyBut, WaitsFor, WaitPcs
  <2>2. arg[u] \notin dactive /\ dpc[u] \in WaitPcs BY <1>3, <2>1 DEF GoneInv, WaitPcs
  <2>3. dpc'[u] \in WaitPcs \cup {"reset"} BY <1>3, <2>2, InactiveStays
  <2> QED BY <1>3, <2>3 DEF WaitPcs
<1>4. ASSUME NEW u \in Threads PROVE ~LateOrArming(u, w)'
  BY <1>1, <1>3 DEF ArmGains, NotTaken, NobodyBut
<1>5. ASSUME NEW d \in OneShots, WaitsFor(d, w)' PROVE d \in gone'
  <2>1. \A u \in Threads : ~(dpc[u] = "spawn" /\ arg[u] = w)
    BY DEF NobodyBut, LateOrArming, ArmPcs
  <2>2. d \in gone BY <1>1, <1>5, <2>1 DEF ArmGains, NobodyBut
  <2>3. dpc'[d] # "off" BY <1>5 DEF WaitsFor, WaitPcs
  <2> QED BY <2>2, <2>3 DEF DNext, Record
<1> QED BY <1>2, <1>4, <1>5 DEF NobodyBut

(* Who leaves the waiting loop finds that no worker has the work.          *)
LEMMA AwaitLeaves ==
  ASSUME DTypeOK, HeldInv, RunInv, NoneInHand, NEW t \in Threads, t \in Clients, NEW w \in Works,
         NobodyBut(t, w), pc[t] = "await", state[w] # {"RUNNING"}, \A q \in Queues : ~Listed(w, q)
  PROVE  Left(w)
<1> USE WorkqueueAssumption
<1>1. SUFFICES ASSUME NEW k \in Workers, Has(k, w) PROVE FALSE BY DEF Left
<1>2. k \in Threads /\ k # t /\ cur[k] = w /\ pc[k] \in WorkerPcs /\ w # None
  BY <1>1 DEF DTypeOK, TypeOK, WorkerPlaced, Threads, Has
<1>3. pc[k] \notin {"off", "pop", "block", "claim"}
  BY <1>2 DEF NoneInHand, NobodyBut, Carries
<1>4. Executes(k, w)
  BY <1>1, <1>2, <1>3 DEF Has, WorkerPcs, BusyPcs, LeavingPcs, Executes, ExecPcs
<1>5. "RUNNING" \in state[w] BY <1>4 DEF RunInv
<1>6. "QUEUED" \in state[w]
  BY <1>5 DEF DTypeOK, TypeOK, Types
<1>7. \A u \in Threads : ~Carries(u, w)
  BY WorkqueueAssumption DEF NobodyBut, Carries
<1>8. PICK u \in Threads : Holds(u, w) BY <1>6, <1>7 DEF HeldInv
<1>9. state[w] = {"QUEUED"} BY <1>8 DEF HeldInv
<1> QED BY <1>5, <1>9

LEMMA StaysLeft ==
  ASSUME DTypeOK, HeldInv, DNext, NEW t \in Threads, NEW w \in Works, Left(w), NotTaken(t, w)
  PROVE  Left(w)'
<1>1. Gains(w) BY DNextGains
<1> QED BY <1>1 DEF Gains, Left, NotTaken

LEMMA StaysUnlisted ==
  ASSUME DTypeOK, HeldInv, DNext, NEW t \in Threads, NEW w \in Works, w = arg[t], NobodyBut(t, w),
         pc[t] # "append", NEW q \in Queues, ~Listed(w, q)
  PROVE  ~Listed(w, q)'
<1>1. Gains(w) BY DNextGains
<1>2. ASSUME NEW u \in Threads, AppendWork(u), arg[u] = w PROVE FALSE
  BY <1>2 DEF NobodyBut, Carries, AppendWork, At
<1> QED BY <1>1, <1>2 DEF Gains

LEMMA SettledGoesOn ==
  ASSUME DTypeOK, HeldInv, HeldInv', GoneInv, RunInv, NoneInHand, ListKnown, DNext,
         NEW t \in Threads, dpc[t] \in CancelPcs, SettledAt(t, arg[t]), dpc'[t] # "none",
         NotTaken(t, arg'[t])
  PROVE  dpc'[t] \in CancelPcs /\ SettledAt(t, arg[t])'
<1> USE WorkqueueAssumption, DelayedAssumption
    DEF At, Goto, In, Jump, queueVars, startVars, workVars, callVars, workerVars
<1>0. /\ Types /\ DTypes /\ arg[t] \in Works /\ t \in Clients /\ t \notin Workers
  BY DEF DTypeOK, TypeOK, DPlaced, CancelPcs
<1>1. CancelMove(t) BY CancelMoves
<1> SUFFICES ASSUME NEW w \in Works, w = arg[t]
             PROVE  dpc'[t] \in CancelPcs /\ SettledAt(t, arg[t])'
  BY <1>0
<1>2. arg'[t] = w /\ NotTaken(t, w) BY <1>1 DEF CancelMove
<1>3. NobodyBut(t, w) BY DEF SettledAt
<1>4. NobodyBut(t, w)' BY <1>2, <1>3, StaysNobody
<1>5. dpc[t] = "crun" => Clearing(t, w) BY DEF SettledAt
<1>6. dpc[t] # "crun" => pc[t] = "idle" BY DEF SettledAt
<1>7. SUFFICES /\ dpc'[t] \in CancelPcs
               /\ dpc'[t] # "crun" => pc'[t] = "idle"
               /\ dpc'[t] = "crun" => Clearing(t, w)'
  BY <1>2, <1>4 DEF SettledAt
<1>8. ASSUME pc[t] # "append", NEW q \in Queues, ~Listed(w, q) PROVE ~Listed(w, q)'
  BY <1>2, <1>3, <1>8, StaysUnlisted
<1>9. Left(w) => Left(w)' BY <1>2, StaysLeft
<1>10. CASE CancelStays(t)
  <2>1. CASE dpc[t] # "crun" BY <1>6, <1>10, <2>1 DEF CancelStays
  <2>2. CASE dpc[t] = "crun"
    <3>1. Clearing(t, w) BY <1>5, <2>2
    <3>2. pc[t] # "append" BY <3>1 DEF Clearing
    <3> QED BY <1>8, <1>9, <1>10, <2>2, <3>1, <3>2 DEF CancelStays, Clearing
  <2> QED BY <2>1, <2>2
<1>11. CASE dpc[t] = "cbump" /\ dpc'[t] = "ccancel" /\ pc'[t] = pc[t]
  BY <1>6, <1>11 DEF CancelPcs
<1>12. CASE CancelInner(t) /\ dpc'[t] = "crun"
  <2>1. /\ UNCHANGED <<list, wwq>> /\ wqArg'[t] = wwq[w]
        /\ pc'[t] = IF wwq[w] # None THEN "remove" ELSE "await"
    BY <1>0, <1>2, <1>3, <1>12 DEF CancelInner, EnterCancel, Types
  <2>2. \A q \in Queues : Listed(w, q)' => wwq[w] = q
    BY <1>2, <2>1 DEF ListKnown, Listed
  <2>3. wwq[w] = None => \A q \in Queues : ~Listed(w, q)'
    BY <2>2 DEF Threads
  <2> QED BY <1>12, <2>1, <2>2, <2>3 DEF Clearing, CancelPcs
<1>13. CASE InnerStep(t)
  <2>0. dpc[t] = "crun" /\ dpc'[t] = "crun" /\ wqArg'[t] = wqArg[t] BY <1>13 DEF InnerStep
  <2>1. Clearing(t, w) BY <1>5, <2>0
  <2>2. RemoveWork(t) \/ ClearQueued(t) \/ AwaitNotRunning(t) BY <1>13, <2>1 DEF InnerStep, Clearing
  <2>3. pc[t] # "append" BY <2>1 DEF Clearing
  <2>4. CASE RemoveWork(t)
    <3>1. pc[t] = "remove" /\ \A q \in Queues : Listed(w, q) => q = wqArg[t]
      BY <2>1, <2>4 DEF RemoveWork, Clearing
    <3>2. CASE Listed(w, wqArg[t])
      <4>1. pc'[t] = "unmark" BY <1>0, <1>3, <2>4, <3>2 DEF RemoveWork, Types
      <4>2. Carries(t, w)' BY <1>2, <4>1 DEF Carries
      <4>3. \A q \in Queues : ~Listed(w, q)'
        BY <1>2, <4>2 DEF HeldInv, OnePlacePerWork
      <4> QED BY <2>0, <4>1, <4>3 DEF Clearing, CancelPcs
    <3>3. CASE ~Listed(w, wqArg[t])
      <4>1. pc'[t] = "await" BY <1>0, <1>3, <2>4, <3>3 DEF RemoveWork, Types
      <4>2. \A q \in Queues : ~Listed(w, q)' BY <1>8, <2>3, <3>1, <3>3
      <4> QED BY <2>0, <4>1, <4>2 DEF Clearing, CancelPcs
    <3> QED BY <3>2, <3>3
  <2>5. CASE ClearQueued(t)
    <3>1. pc[t] = "unmark" /\ pc'[t] = "await" BY <1>0, <2>5 DEF ClearQueued, Types
    <3>2. \A q \in Queues : ~Listed(w, q)' BY <1>8, <2>1, <2>3, <3>1 DEF Clearing
    <3> QED BY <2>0, <3>1, <3>2 DEF Clearing, CancelPcs
  <2>6. CASE AwaitNotRunning(t)
    <3>1. pc[t] = "await" /\ pc'[t] = "idle" /\ state[w] # {"RUNNING"}
      BY <1>0, <1>3, <2>6 DEF AwaitNotRunning, Types
    <3>2. \A q \in Queues : ~Listed(w, q) BY <2>1, <3>1 DEF Clearing
    <3>3. Left(w) BY <1>0, <1>2, <1>3, <3>1, <3>2, AwaitLeaves
    <3> QED BY <1>8, <1>9, <2>0, <2>3, <3>1, <3>2, <3>3 DEF Clearing, CancelPcs
  <2> QED BY <2>2, <2>4, <2>5, <2>6
<1>14. CASE dpc[t] = "crun" /\ dpc'[t] = "none" /\ pc[t] = "idle" BY <1>14
<1> QED BY <1>1, <1>10, <1>11, <1>12, <1>13, <1>14 DEF CancelMove

LEMMA DNextSettled ==
  DTypeOK /\ HeldInv /\ HeldInv' /\ GoneInv /\ RunInv /\ NoneInHand /\ ListKnown /\ SettledInv
     /\ [DNext]_dvars => SettledInv'
<1> SUFFICES ASSUME DTypeOK, HeldInv, HeldInv', GoneInv, RunInv, NoneInHand, ListKnown, SettledInv,
                    [DNext]_dvars
             PROVE  SettledInv'
  OBVIOUS
<1>1. CASE UNCHANGED dvars
  BY <1>1 DEF dvars, delayedVars, vars, queueVars, startVars, workVars, callVars, workerVars,
     SettledInv, SettledAt, NobodyBut, Clearing, Left, Has, Carries, LateOrArming, WaitsFor, Listed
<1>2. CASE DNext
  <2>1. SUFFICES ASSUME NEW t \in settled'
                 PROVE  t \in Threads /\ (dpc[t] \in CancelPcs /\ SettledAt(t, arg[t]))'
    BY DEF SettledInv
  <2>2. /\ t \in Threads /\ dpc'[t] # "none" /\ NotTaken(t, arg'[t])
        /\ t \in settled \/ (Cancels(t) /\ NobodyElseHas(arg'[t]))
    BY <1>2, <2>1 DEF DNext, Record
  <2>3. CASE t \in settled
    <3>1. dpc[t] \in CancelPcs /\ SettledAt(t, arg[t]) BY <2>3 DEF SettledInv
    <3> QED BY <1>2, <2>2, <3>1, SettledGoesOn
  <2>4. CASE Cancels(t) /\ NobodyElseHas(arg'[t])
    BY <1>2, <2>2, <2>4, CancelSettles DEF CancelPcs
  <2> QED BY <2>2, <2>3, <2>4
<1> QED BY <1>1, <1>2

(* What the return of a settled cancel finds.                              *)
LEMMA SettledReturn ==
  ASSUME DTypeOK, HeldInv, DNext, SettledInv, NEW t \in Threads, t \in settled,
         dpc[t] = "crun", dpc'[t] = "none"
  PROVE  LET w == arg[t] IN
         /\ \A k \in Workers : cur[k] = w => pc[k] \in {"settle", "forget", "release"}
         /\ \A q \in Queues : ~Listed(w, q)
         /\ \A d \in OneShots : arg[d] = w /\ dpc[d] \in WaitPcs => d \in gone
<1>1. SettledAt(t, arg[t]) BY DEF SettledInv
<1>2. pc[t] = "idle"
  BY CancelMoves DEF CancelMove, CancelPcs, CancelStays, InnerStep
<1> QED BY <1>1, <1>2 DEF SettledAt, Clearing, Left, Has, NobodyBut, WaitsFor, LeavingPcs

(* With one queue the closing lock section of a worker keeps every other   *)
(* thread from the list, and it forgets the queue of a work that no list   *)
(* holds.                                                                  *)
ForgetInv ==
    \A k \in Workers : pc[k] \in {"forget", "release"} =>
       /\ home[k] \in Queues /\ lock[home[k]] = k
       /\ pc[k] = "forget" => \A q \in Queues : ~Listed(cur[k], q)

(* The steps that clear work->wq of a work.                                *)
Unnamed(w) ==
    \/ \E t \in Threads : pc[t] = "remove" /\ pc'[t] = "unmark" /\ arg[t] = w /\ arg'[t] = w
    \/ \E k \in Workers : pc[k] = "forget" /\ cur[k] = w

LEMMA NextNames ==
  ASSUME TypeOK, Next, NEW w \in Works
  PROVE  \/ wwq'[w] = wwq[w] \/ Unnamed(w)
         \/ \E t \in Threads : AppendWork(t) /\ arg[t] = w
<1> USE DEF At, Goto, queueVars, startVars, workVars, callVars, workerVars
<1>0. Types BY DEF TypeOK
<1>1. ASSUME NEW t \in Threads, Call(t) PROVE wwq' = wwq
  BY <1>1 DEF Call, QueueWork, EnterQueueWork, CancelWorkSync, EnterCancel, FlushWorkqueue
<1>2. ASSUME NEW t \in Threads, CallStep(t), ~AppendWork(t), ~RemoveWork(t) PROVE wwq' = wwq
  BY <1>2 DEF CallStep, QueueStep, EnsureWorker, ElectStarter, SpinForStarter, SpinResult,
     CreateWorker, CreateFails, PublishWorker, EndStarting, MarkQueued, WakeLoad, WakeUnblock,
     ClearQueued, AwaitNotRunning, FlushReturns
<1>3. ASSUME NEW t \in Threads, AppendWork(t), arg[t] # w PROVE wwq'[w] = wwq[w]
  BY <1>0, <1>3 DEF AppendWork, Types
<1>4. ASSUME NEW t \in Threads, RemoveWork(t) PROVE wwq'[w] = wwq[w] \/ Unnamed(w)
  BY <1>0, <1>4 DEF RemoveWork, Types, Unnamed
<1>5. ASSUME NEW k \in Workers, WorkerStep(k), ~SettleUnlock(k) PROVE wwq' = wwq
  BY <1>5 DEF WorkerStep, PopWork, PopNothing, TaskBlock, ClaimWork, EnterDelayed, FuncReturns,
     LeaveDelayed, ClearRunning, SettleLock
<1>6. ASSUME NEW k \in Workers, SettleUnlock(k) PROVE wwq'[w] = wwq[w] \/ Unnamed(w)
  BY <1>0, <1>6 DEF SettleUnlock, Types, Unnamed
<1> QED BY <1>1, <1>2, <1>3, <1>4, <1>5, <1>6 DEF Next

(* The steps that take or give back the lock of several steps.             *)
LEMMA NextLocks ==
  ASSUME TypeOK, Next
  PROVE  \/ /\ lock' = lock
            /\ \A k \in Workers : pc'[k] \in {"forget", "release"} =>
                  pc'[k] = pc[k] /\ home'[k] = home[k] /\ cur'[k] = cur[k]
         \/ list' = list /\ \E k \in Workers : SettleLock(k) \/ SettleUnlock(k)
<1> USE DEF At, Goto, Return, queueVars, startVars, workVars, callVars, workerVars
<1>0. Types /\ \A k \in Workers : k \in Threads BY DEF TypeOK, Threads
<1>1. ASSUME NEW t \in Threads, Call(t) \/ (CallStep(t) /\ ~CreateWorker(t)) \/
             (t \in Workers /\ WorkerStep(t) /\ ~PopWork(t) /\ ~SettleLock(t) /\ ~SettleUnlock(t))
      PROVE  /\ lock' = lock /\ home' = home /\ cur' = cur
             /\ \E l : l \notin {"forget", "release"} /\ pc' = [pc EXCEPT ![t] = l]
  <2>1. CASE Call(t)
    BY <2>1 DEF Call, QueueWork, EnterQueueWork, CancelWorkSync, EnterCancel, FlushWorkqueue
  <2>2. CASE \/ EnsureWorker(t) \/ ElectStarter(t) \/ SpinForStarter(t) \/ SpinResult(t)
             \/ CreateFails(t) \/ PublishWorker(t) \/ EndStarting(t)
    BY <2>2 DEF EnsureWorker, ElectStarter, SpinForStarter, SpinResult, CreateFails, PublishWorker,
       EndStarting
  <2>3. CASE MarkQueued(t) \/ AppendWork(t) \/ WakeLoad(t) \/ WakeUnblock(t)
    BY <2>3 DEF MarkQueued, AppendWork, WakeLoad, WakeUnblock
  <2>4. CASE RemoveWork(t) \/ ClearQueued(t) \/ AwaitNotRunning(t) \/ FlushReturns(t)
    BY <2>4 DEF RemoveWork, ClearQueued, AwaitNotRunning, FlushReturns
  <2>5. CASE PopNothing(t) \/ TaskBlock(t) \/ ClaimWork(t) \/ EnterDelayed(t) \/ FuncReturns(t)
             \/ LeaveDelayed(t) \/ ClearRunning(t)
    BY <2>5 DEF PopNothing, TaskBlock, ClaimWork, EnterDelayed, FuncReturns, LeaveDelayed,
       ClearRunning
  <2> QED BY <1>1, <2>1, <2>2, <2>3, <2>4, <2>5 DEF CallStep, QueueStep, WorkerStep
<1>2. ASSUME NEW t \in Threads, CreateWorker(t)
      PROVE  /\ lock' = lock /\ cur' = cur
             /\ \A k \in Workers : pc'[k] \in {"forget", "release"} =>
                   pc'[k] = pc[k] /\ home'[k] = home[k]
  <2>1. PICK j \in Workers : /\ pc' = [pc EXCEPT ![t] = "publish", ![j] = "pop"]
                             /\ home' = [home EXCEPT ![j] = wqArg[t]]
    BY <1>2 DEF CreateWorker
  <2> QED BY <1>0, <1>2, <2>1 DEF CreateWorker, Types
<1>3. ASSUME NEW j \in Workers, PopWork(j)
      PROVE  /\ lock' = lock /\ home' = home
             /\ \A k \in Workers : pc'[k] \in {"forget", "release"} =>
                   pc'[k] = pc[k] /\ cur'[k] = cur[k]
  BY <1>0, <1>3 DEF PopWork, Types
<1>4. ASSUME NEW k \in Workers, SettleLock(k) \/ SettleUnlock(k) PROVE list' = list
  BY <1>4 DEF SettleLock, SettleUnlock
<1>5. ASSUME NEW t \in Threads, Call(t) \/ (CallStep(t) /\ ~CreateWorker(t)) \/
             (t \in Workers /\ WorkerStep(t) /\ ~PopWork(t) /\ ~SettleLock(t) /\ ~SettleUnlock(t)),
             NEW k \in Workers, pc'[k] \in {"forget", "release"}
      PROVE  lock' = lock /\ pc'[k] = pc[k] /\ home'[k] = home[k] /\ cur'[k] = cur[k]
  BY <1>0, <1>1, <1>5 DEF Types
<1>6. ASSUME NEW t \in Threads, Call(t) \/ (CallStep(t) /\ ~CreateWorker(t)) \/
             (t \in Workers /\ WorkerStep(t) /\ ~PopWork(t) /\ ~SettleLock(t) /\ ~SettleUnlock(t))
      PROVE  lock' = lock
  BY <1>1, <1>6
<1> QED BY <1>0, <1>2, <1>3, <1>4, <1>5, <1>6 DEF Next

LEMMA OwnMoveNames ==
  ASSUME OwnMove
  PROVE  /\ lock' = lock /\ home' = home
         /\ wwq' = wwq \/ \E t \in Threads : dpc[t] = "setwq" /\ wwq' = [wwq EXCEPT ![arg[t]] = wqArg[t]]
  BY DEF OwnMove, DelayedCall, DelayedStep, OneShotStep, QueueDelayed, CancelDelayed, SetQueue,
     Activate, BumpGeneration, SpawnOneShot, SpawnFails, ZeroState, Rebump, CancelBump, CancelInner,
     EnterCancel, CancelReturns, LoadGeneration, LoadQueue, CheckArm, Fire, TradeToken, EnterQueue,
     EnterQueueWork, OneShotEnds, In, vars, queueVars, startVars, workVars

LEMMA DNextForget ==
  ASSUME \A q, r \in Queues : q = r
  PROVE  DTypeOK /\ HeldInv /\ ForgetInv /\ [DNext]_dvars => ForgetInv'
<1> SUFFICES ASSUME DTypeOK, HeldInv, ForgetInv, [DNext]_dvars PROVE ForgetInv'
  OBVIOUS
<1> USE WorkqueueAssumption
<1>0. /\ TypeOK /\ Types /\ \A k \in Workers : k \in Threads /\ k # None
  BY DEF DTypeOK, TypeOK, Threads
<1>1. CASE BaseMove
  <2>0. Next BY <1>1, BaseIsNext
  <2>1. CASE /\ lock' = lock
             /\ \A k \in Workers : pc'[k] \in {"forget", "release"} =>
                   pc'[k] = pc[k] /\ home'[k] = home[k] /\ cur'[k] = cur[k]
    <3> SUFFICES ASSUME NEW k \in Workers, pc'[k] \in {"forget", "release"}
                 PROVE  /\ home'[k] \in Queues /\ lock'[home'[k]] = k
                        /\ pc'[k] = "forget" => \A q \in Queues : ~Listed(cur[k], q)'
      BY DEF ForgetInv
    <3>1. /\ pc'[k] = pc[k] /\ home'[k] = home[k] /\ cur'[k] = cur[k]
          /\ home[k] \in Queues /\ lock[home[k]] = k
          /\ pc[k] = "forget" => \A q \in Queues : ~Listed(cur[k], q)
      BY <2>1 DEF ForgetInv
    <3>2. PICK w \in Works : w = cur[k]
      BY <1>0, <3>1 DEF TypeOK, WorkerPlaced, BusyPcs, Types
    <3>3. ASSUME NEW u \in Threads, AppendWork(u) PROVE FALSE
      <4>1. wqArg[u] \in Queues /\ lock[wqArg[u]] = None
        BY <1>0, <3>3 DEF AppendWork, At, TypeOK, CallPlaced, CallPcs, Types
      <4>2. wqArg[u] = home[k] BY <3>1, <4>1
      <4> QED BY <1>0, <3>1, <4>1, <4>2
    <3>4. \A q \in Queues : Listed(w, q)' => Listed(w, q)
      <4>1. Gains(w) BY <1>0, <2>0, NextGains
      <4> QED BY <3>3, <4>1 DEF Gains
    <3>5. cur'[k] = w BY <3>1, <3>2
    <3> QED BY <2>1, <3>1, <3>2, <3>4, <3>5
  <2>2. CASE list' = list /\ \E k \in Workers : SettleLock(k) \/ SettleUnlock(k)
    <3>1. PICK j \in Workers : SettleLock(j) \/ SettleUnlock(j) BY <2>2
    <3>2. home[j] \in Queues /\ home' = home
      BY <1>0, <3>1 DEF SettleLock, SettleUnlock, At, startVars, TypeOK, WorkerPlaced, Types
    <3>3. CASE SettleLock(j)
      <4>1. /\ lock[home[j]] = None /\ lock' = [lock EXCEPT ![home[j]] = j] /\ cur' = cur
            /\ pc' = [pc EXCEPT ![j] = IF "QUEUED" \in state[cur[j]] THEN "release" ELSE "forget"]
            /\ pc[j] = "settle"
        BY <3>3 DEF SettleLock, At, Goto, workerVars
      <4>2. \A k \in Workers : pc[k] \notin {"forget", "release"}
        BY <1>0, <3>2, <4>1 DEF ForgetInv
      <4>3. cur[j] \in Works BY <1>0, <4>1 DEF TypeOK, WorkerPlaced, BusyPcs, Types
      <4>4. "QUEUED" \notin state[cur[j]] => \A q \in Queues : ~Listed(cur[j], q)
        BY <4>3 DEF HeldInv
      <4>5. ASSUME NEW k \in Workers, pc'[k] \in {"forget", "release"}
            PROVE  /\ k = j /\ lock'[home[j]] = j
                   /\ pc'[k] = "forget" => "QUEUED" \notin state[cur[j]]
        BY <1>0, <3>2, <4>1, <4>2, <4>5 DEF Types
      <4>6. \A q \in Queues : Listed(cur[j], q)' <=> Listed(cur[j], q)
        BY <2>2, <4>1 DEF Listed
      <4> SUFFICES ASSUME NEW k \in Workers, pc'[k] \in {"forget", "release"}
                   PROVE  /\ home'[k] \in Queues /\ lock'[home'[k]] = k
                          /\ pc'[k] = "forget" => \A q \in Queues : ~Listed(cur[k], q)'
        BY DEF ForgetInv
      <4> QED BY <3>2, <4>4, <4>5, <4>6
    <3>4. CASE SettleUnlock(j)
      <4>1. pc[j] \in {"forget", "release"} /\ pc' = [pc EXCEPT ![j] = "pop"]
        BY <3>4 DEF SettleUnlock, Goto
      <4>2. \A k \in Workers : pc[k] \in {"forget", "release"} => k = j
        BY <3>2, <4>1 DEF ForgetInv
      <4>3. \A k \in Workers : pc'[k] \notin {"forget", "release"}
        BY <1>0, <4>1, <4>2 DEF Types
      <4> QED BY <4>3 DEF ForgetInv
    <3> QED BY <3>1, <3>3, <3>4
  <2> QED BY <1>0, <2>0, <2>1, <2>2, NextLocks
<1>2. CASE OwnMove
  <2>1. /\ lock' = lock /\ home' = home /\ list' = list /\ cur' = cur
        /\ \A k \in Workers : pc'[k] = pc[k]
    BY <1>2, OwnMoveKeeps, OwnMoveNames
  <2> QED BY <2>1 DEF ForgetInv, Listed
<1>3. CASE UNCHANGED dvars
  BY <1>3 DEF dvars, vars, queueVars, startVars, workerVars, ForgetInv, Listed
<1> QED BY <1>1, <1>2, <1>3, MovesOfBoth

LEMMA DNextListKnown ==
  ASSUME \A q, r \in Queues : q = r
  PROVE  DTypeOK /\ DTypeOK' /\ HeldInv /\ HeldInv' /\ ForgetInv /\ ListKnown /\ [DNext]_dvars
            => ListKnown'
<1> SUFFICES ASSUME DTypeOK, DTypeOK', HeldInv, HeldInv', ForgetInv, ListKnown, [DNext]_dvars
             PROVE  ListKnown'
  OBVIOUS
<1> USE WorkqueueAssumption
<1>0. /\ TypeOK /\ Types /\ Types' BY DEF DTypeOK, TypeOK
<1>1. CASE BaseMove
  <2>0. Next BY <1>1, BaseIsNext
  <2> SUFFICES ASSUME NEW w \in Works, NEW q \in Queues, Listed(w, q)' PROVE wwq'[w] = q
    BY DEF ListKnown
  <2>1. CASE \E t \in Threads : AppendWork(t) /\ arg[t] = w
    <3>1. PICK t \in Threads : AppendWork(t) /\ arg[t] = w BY <2>1
    <3>2. wqArg[t] \in Queues BY <1>0, <3>1 DEF AppendWork, At, TypeOK, CallPlaced, CallPcs, Types
    <3> QED BY <1>0, <3>1, <3>2 DEF AppendWork, Types
  <2>2. CASE ~\E t \in Threads : AppendWork(t) /\ arg[t] = w
    <3>1. Listed(w, q)
      <4>1. Gains(w) BY <1>0, <2>0, NextGains
      <4> QED BY <2>2, <4>1 DEF Gains
    <3>2. ~Unnamed(w)
      <4>1. ASSUME NEW t \in Threads, pc'[t] = "unmark", arg'[t] = w PROVE FALSE
        <5>1. Carries(t, w)' BY <4>1 DEF Carries
        <5> QED BY <5>1 DEF HeldInv, OnePlacePerWork
      <4>2. ASSUME NEW k \in Workers, pc[k] = "forget", cur[k] = w PROVE FALSE
        BY <3>1, <4>2 DEF ForgetInv
      <4> QED BY <4>1, <4>2 DEF Unnamed
    <3>3. wwq'[w] = wwq[w] BY <1>0, <2>0, <2>2, <3>2, NextNames
    <3> QED BY <3>1, <3>3 DEF ListKnown
  <2> QED BY <2>1, <2>2
<1>2. CASE OwnMove
  <2> SUFFICES ASSUME NEW w \in Works, NEW q \in Queues, Listed(w, q)' PROVE wwq'[w] = q
    BY DEF ListKnown
  <2>1. Listed(w, q) BY <1>2, OwnMoveKeeps DEF Listed
  <2>2. ASSUME NEW t \in Threads, dpc[t] = "setwq", wwq' = [wwq EXCEPT ![arg[t]] = wqArg[t]]
        PROVE  wwq'[w] = wwq[w]
    <3>1. ASSUME arg[t] = w PROVE FALSE
      <4>1. Holds(t, w) BY <2>2, <3>1 DEF Holds, ArmPcs
      <4> QED BY <2>1, <4>1 DEF HeldInv
    <3> QED BY <1>0, <2>2, <3>1 DEF Types
  <2>3. wwq'[w] = wwq[w] BY <1>2, <2>2, OwnMoveNames
  <2> QED BY <2>1, <2>3 DEF ListKnown
<1>3. CASE UNCHANGED dvars
  BY <1>3 DEF dvars, vars, queueVars, workVars, ListKnown, Listed
<1> QED BY <1>1, <1>2, <1>3, MovesOfBoth

(* What lcompat_cancel_delayed_work_sync gives, where no function runs on  *)
(* two workers at once and work->wq names the list of every listed work:   *)
(* at its return no worker has the work, no list holds it, and the only    *)
(* task left for it is one that gives up.                                  *)
THEOREM CancelLeaves == DSpec /\ []ExecutedOnce /\ []ListKnown => CancelLeavesNothing
<1>1. DInit => RunInv /\ NoneInHand /\ GoneInv /\ SettledInv
  <2> SUFFICES ASSUME DInit PROVE RunInv /\ NoneInHand /\ GoneInv /\ SettledInv
    OBVIOUS
  <2>1. RunInv BY InitRun DEF DInit
  <2>2. NoneInHand BY DEF DInit, Init, NoneInHand
  <2>3. GoneInv /\ SettledInv BY DEF DInit, GoneInv, SettledInv
  <2> QED BY <2>1, <2>2, <2>3
<1>2. DTypeOK /\ HeldInv /\ SettledInv /\ [DNext]_dvars =>
         [\A t \in Threads :
          (t \in settled /\ dpc[t] = "crun" /\ dpc'[t] = "none") =>
             LET w == arg[t] IN
             /\ \A k \in Workers : cur[k] = w => pc[k] \in {"settle", "forget", "release"}
             /\ \A q \in Queues : ~Listed(w, q)
             /\ \A d \in OneShots : arg[d] = w /\ dpc[d] \in WaitPcs => d \in gone]_dvars
  BY SettledReturn
<1>3. DSpec => [][DNext]_dvars /\ [](DTypeOK /\ HeldInv) /\ []GoneInv /\ []NoneInHand
  BY <1>1, HeldAlways, DNextGone, DNextNoneInHand, PTL DEF DSpec
<1>4. DSpec /\ []ExecutedOnce => []RunInv
  BY <1>1, <1>3, DNextRun, PTL DEF DSpec
<1>5. DSpec /\ []ExecutedOnce /\ []ListKnown => []SettledInv
  BY <1>1, <1>3, <1>4, DNextSettled, PTL DEF DSpec
<1> QED BY <1>2, <1>3, <1>5, PTL DEF CancelLeavesNothing

(* With one queue the closing lock section keeps work->wq true, so that    *)
(* cancel_delayed_work_sync keeps its promise.                             *)
THEOREM OneQueueCancels ==
  ASSUME \A q, r \in Queues : q = r
  PROVE  DSpec /\ []ExecutedOnce => CancelLeavesNothing
<1>1. DInit => ForgetInv /\ ListKnown
  <2> SUFFICES ASSUME DInit PROVE ForgetInv /\ ListKnown
    OBVIOUS
  <2>1. \A q \in Queues : list[q] = <<>> BY DEF DInit, Init
  <2>2. ListKnown BY <2>1 DEF ListKnown, Listed
  <2>3. \A k \in Workers : pc[k] \in {"idle", "pop", "off"} BY DEF DInit, Init, Threads
  <2> QED BY <2>2, <2>3 DEF ForgetInv
<1>2. DTypeOK /\ HeldInv /\ ForgetInv /\ [DNext]_dvars => ForgetInv'
  BY DNextForget
<1>3. DTypeOK /\ DTypeOK' /\ HeldInv /\ HeldInv' /\ ForgetInv /\ ListKnown /\ [DNext]_dvars
         => ListKnown'
  BY DNextListKnown
<1>4. DSpec => []ListKnown
  BY <1>1, <1>2, <1>3, HeldAlways, PTL DEF DSpec
<1> QED BY <1>4, CancelLeaves, PTL

(* With one worker besides, no function runs twice at once and nothing is  *)
(* left to assume.                                                         *)
THEOREM OneWorkerCancels ==
  ASSUME \A q, r \in Queues : q = r, \A j, k \in Workers : j = k
  PROVE  DSpec => CancelLeavesNothing
<1>1. ExecutedOnce BY DEF ExecutedOnce
<1> QED BY <1>1, OneQueueCancels, PTL
=============================================================================
