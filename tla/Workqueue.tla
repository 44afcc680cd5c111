------------------------------ MODULE Workqueue ------------------------------
(***************************************************************************)
(* The workqueues of src/workqueue.c: lcompat_queue_work,                  *)
(* lcompat_cancel_work_sync, lcompat_flush_workqueue and the worker thread *)
(* every queue starts on first use.  A step is what the C code does        *)
(* between two points at which another thread can see or change shared     *)
(* state: one atomic access, or one spinlock section.                      *)
(***************************************************************************)
EXTENDS Integers, Sequences, FiniteSets

CONSTANTS Queues,       \* struct workqueue_struct objects
          Works,        \* struct work_struct objects, func set by INIT_WORK
          DelayedWorks, \* the works that are embedded in a delayed_work
          Clients,      \* threads that call the workqueue API
          Workers,      \* task_t identities task_create can hand out
          FirstWorker,  \* [Queues -> Workers \cup {None}]: worker that runs at start
          MaxCalls,     \* bound on the number of API calls
          None

Threads == Clients \cup Workers

ASSUME WorkqueueAssumption ==
    /\ Clients \cap Workers = {}
    /\ None \notin Threads \cup Queues \cup Works
    /\ DelayedWorks \subseteq Works
    /\ FirstWorker \in [Queues -> Workers \cup {None}]
    /\ \A q, r \in Queues :
          FirstWorker[q] = FirstWorker[r] => q = r \/ FirstWorker[q] = None
    /\ MaxCalls \in Nat

VARIABLES
    list,       \* [q -> Seq(Works)]: wq->head ... wq->tail
    active,     \* [q -> Nat]: wq->active
    lock,       \* [q -> thread inside a lock section of several steps, or None]
    workerTask, \* [q -> wq->worker_task]
    starting,   \* [q -> wq->worker_starting]
    waiting,    \* [q -> wq->worker_waiting]
    state,      \* [w -> subset of {"QUEUED", "RUNNING"}]: work->state
    wwq,        \* [w -> work->wq]
    dwRunning,  \* set of the delayed works with dwork->running
    pc,         \* [t -> where the thread stands]
    arg,        \* [t -> the work of the call in progress]
    wqArg,      \* [t -> the queue of the call in progress]
    task,       \* [t -> the local variable `task` of ensure_worker and wake]
    canceled,   \* [t -> the local variable `canceled` of cancel_work_sync]
    home,       \* [k -> the queue worker task k serves, None if not created]
    cur,        \* [k -> the local variable `work` of the worker]
    token,      \* set of tasks that were unblocked and have not blocked since
    calls       \* API calls left

queueVars  == <<list, active, lock, waiting>>
startVars  == <<workerTask, starting, home>>
workVars   == <<state, wwq, dwRunning>>
callVars   == <<arg, wqArg, task, canceled, calls>>
workerVars == <<cur, token>>
vars == <<queueVars, startVars, workVars, callVars, workerVars, pc>>

(* Where a thread goes when its API call returns: a worker calls the API   *)
(* from inside work->func.                                                 *)
Return(t) == IF t \in Workers THEN "func" ELSE "idle"

Goto(t, l) == pc' = [pc EXCEPT ![t] = l]
At(t, l)   == pc[t] = l

(* s without its element at position p: unlinking one node of the list.    *)
Without(s, p) == [i \in 1 .. Len(s) - 1 |-> IF i < p THEN s[i] ELSE s[i + 1]]

Listed(w, q) == \E i \in 1 .. Len(list[q]) : list[q][i] = w

(***************************************************************************)
(* Native scheduler, used through task_block and task_unblock only: an     *)
(* unblock that comes before the block makes the block return at once.     *)
(***************************************************************************)
TaskUnblock(k) == token' = token \cup {k}

-----------------------------------------------------------------------------
(* lcompat_queue_work(q, w), called by a client or by a running function.  *)
EnterQueueWork(t, q, w) ==
    /\ At(t, Return(t))
    /\ arg' = [arg EXCEPT ![t] = w]
    /\ wqArg' = [wqArg EXCEPT ![t] = q]
    /\ Goto(t, "ensure")
    /\ UNCHANGED <<queueVars, startVars, workVars, workerVars, task, canceled>>

QueueWork(t, q, w) ==
    /\ calls > 0
    /\ calls' = calls - 1
    /\ EnterQueueWork(t, q, w)

(* ensure_worker: a published worker is enough.                            *)
EnsureWorker(t) ==
    /\ At(t, "ensure")
    /\ Goto(t, IF workerTask[wqArg[t]] # None THEN "mark" ELSE "elect")
    /\ UNCHANGED <<queueVars, startVars, workVars, callVars, workerVars>>

(* The compare-and-swap on worker_starting elects the thread that starts   *)
(* the worker; the others spin.                                            *)
ElectStarter(t) ==
    LET q == wqArg[t] IN
    /\ At(t, "elect")
    /\ starting' = [starting EXCEPT ![q] = TRUE]
    /\ Goto(t, IF starting[q] THEN "spin" ELSE "create")
    /\ UNCHANGED <<queueVars, workVars, callVars, workerVars, workerTask, home>>

SpinForStarter(t) ==
    LET q == wqArg[t] IN
    /\ At(t, "spin")
    /\ ~starting[q] \/ workerTask[q] # None
    /\ Goto(t, "spun")
    /\ UNCHANGED <<queueVars, startVars, workVars, callVars, workerVars>>

SpinResult(t) ==
    /\ At(t, "spun")
    /\ Goto(t, IF workerTask[wqArg[t]] # None THEN "mark" ELSE Return(t))
    /\ UNCHANGED <<queueVars, startVars, workVars, callVars, workerVars>>

(* task_create: the new task may run before its creator publishes it.      *)
CreateWorker(t) ==
    /\ At(t, "create")
    /\ \E k \in Workers :
          /\ home[k] = None
          /\ home' = [home EXCEPT ![k] = wqArg[t]]
          /\ task' = [task EXCEPT ![t] = k]
          /\ pc' = [pc EXCEPT ![t] = "publish", ![k] = "pop"]
    /\ UNCHANGED <<queueVars, workVars, workerVars, workerTask, starting,
                   arg, wqArg, canceled, calls>>

CreateFails(t) ==
    /\ At(t, "create")
    /\ starting' = [starting EXCEPT ![wqArg[t]] = FALSE]
    /\ Goto(t, Return(t))
    /\ UNCHANGED <<queueVars, workVars, callVars, workerVars, workerTask, home>>

PublishWorker(t) ==
    /\ At(t, "publish")
    /\ workerTask' = [workerTask EXCEPT ![wqArg[t]] = task[t]]
    /\ Goto(t, "started")
    /\ UNCHANGED <<queueVars, workVars, callVars, workerVars, starting, home>>

EndStarting(t) ==
    /\ At(t, "started")
    /\ starting' = [starting EXCEPT ![wqArg[t]] = FALSE]
    /\ Goto(t, "mark")
    /\ UNCHANGED <<queueVars, workVars, callVars, workerVars, workerTask, home>>

(* Mutant: queue_work without the test of the QUEUED bit.                  *)
MarkQueuedUntested(t) ==
    /\ At(t, "mark")
    /\ state' = [state EXCEPT ![arg[t]] = @ \cup {"QUEUED"}]
    /\ Goto(t, "append")
    /\ UNCHANGED <<queueVars, startVars, callVars, workerVars, wwq, dwRunning>>

(* Setting QUEUED: the call returns false when the bit was already set.    *)
MarkQueued(t) ==
    LET w == arg[t] IN
    /\ At(t, "mark")
    /\ state' = [state EXCEPT ![w] = @ \cup {"QUEUED"}]
    /\ Goto(t, IF "QUEUED" \in state[w] THEN Return(t) ELSE "append")
    /\ UNCHANGED <<queueVars, startVars, callVars, workerVars, wwq, dwRunning>>

AppendWork(t) ==
    LET w == arg[t]
        q == wqArg[t] IN
    /\ At(t, "append")
    /\ lock[q] = None
    /\ list' = [list EXCEPT ![q] = Append(@, w)]
    /\ wwq' = [wwq EXCEPT ![w] = q]
    /\ Goto(t, "wake")
    /\ UNCHANGED <<startVars, callVars, workerVars, active, lock, waiting,
                   state, dwRunning>>

(* lcompat_workqueue_wake: loads worker_task, then worker_waiting.         *)
WakeLoad(t) ==
    /\ At(t, "wake")
    /\ task' = [task EXCEPT ![t] = workerTask[wqArg[t]]]
    /\ Goto(t, "unblock")
    /\ UNCHANGED <<queueVars, startVars, workVars, workerVars,
                   arg, wqArg, canceled, calls>>

WakeUnblock(t) ==
    /\ At(t, "unblock")
    /\ IF task[t] # None /\ waiting[wqArg[t]]
          THEN TaskUnblock(task[t])
          ELSE UNCHANGED token
    /\ Goto(t, Return(t))
    /\ UNCHANGED <<queueVars, startVars, workVars, callVars, cur>>

-----------------------------------------------------------------------------
(* lcompat_cancel_work_sync(w): the load of work->wq opens the call.       *)
EnterCancel(t, w) ==
    /\ At(t, "idle")
    /\ arg' = [arg EXCEPT ![t] = w]
    /\ wqArg' = [wqArg EXCEPT ![t] = wwq[w]]
    /\ canceled' = [canceled EXCEPT ![t] = FALSE]
    /\ Goto(t, IF wwq[w] # None THEN "remove" ELSE "await")
    /\ UNCHANGED <<queueVars, startVars, workVars, workerVars, task>>

CancelWorkSync(t, w) ==
    /\ calls > 0
    /\ calls' = calls - 1
    /\ EnterCancel(t, w)

(* remove_locked unlinks the work and forgets its queue.                   *)
RemoveWork(t) ==
    LET w == arg[t]
        q == wqArg[t] IN
    /\ At(t, "remove")
    /\ lock[q] = None
    /\ \/ /\ Listed(w, q)
          /\ \E p \in 1 .. Len(list[q]) :
                /\ list[q][p] = w
                /\ \A i \in 1 .. p - 1 : list[q][i] # w
                /\ list' = [list EXCEPT ![q] = Without(@, p)]
          /\ wwq' = [wwq EXCEPT ![w] = None]
          /\ canceled' = [canceled EXCEPT ![t] = TRUE]
          /\ Goto(t, "unmark")
       \/ /\ ~Listed(w, q)
          /\ Goto(t, "await")
          /\ UNCHANGED <<list, wwq, canceled>>
    /\ UNCHANGED <<startVars, workerVars, active, lock, waiting, state,
                   dwRunning, arg, wqArg, task, calls>>

(* Mutant: the canceler stores 0.                                          *)
ClearWholeState(t) ==
    /\ At(t, "unmark")
    /\ state' = [state EXCEPT ![arg[t]] = {}]
    /\ Goto(t, "await")
    /\ UNCHANGED <<queueVars, startVars, callVars, workerVars, wwq, dwRunning>>

ClearQueued(t) ==
    /\ At(t, "unmark")
    /\ state' = [state EXCEPT ![arg[t]] = @ \ {"QUEUED"}]
    /\ Goto(t, "await")
    /\ UNCHANGED <<queueVars, startVars, callVars, workerVars, wwq, dwRunning>>

(* The spin loop leaves as soon as the state is anything but RUNNING.      *)
AwaitNotRunning(t) ==
    /\ At(t, "await")
    /\ state[arg[t]] # {"RUNNING"}
    /\ Goto(t, "idle")
    /\ UNCHANGED <<queueVars, startVars, workVars, callVars, workerVars>>

(* lcompat_flush_workqueue(q): one locked look per turn of the loop.       *)
FlushWorkqueue(t, q) ==
    /\ At(t, "idle")
    /\ calls > 0
    /\ calls' = calls - 1
    /\ wqArg' = [wqArg EXCEPT ![t] = q]
    /\ Goto(t, "flush")
    /\ UNCHANGED <<queueVars, startVars, workVars, workerVars,
                   arg, task, canceled>>

FlushReturns(t) ==
    LET q == wqArg[t] IN
    /\ At(t, "flush")
    /\ lock[q] = None
    /\ list[q] = <<>> /\ active[q] = 0
    /\ Goto(t, "idle")
    /\ UNCHANGED <<queueVars, startVars, workVars, callVars, workerVars>>

-----------------------------------------------------------------------------
(* lcompat_workqueue_worker: the locked pop.                               *)
PopWork(k) ==
    LET q == home[k] IN
    /\ At(k, "pop")
    /\ lock[q] = None
    /\ list[q] # <<>>
    /\ cur' = [cur EXCEPT ![k] = Head(list[q])]
    /\ list' = [list EXCEPT ![q] = Tail(@)]
    /\ waiting' = [waiting EXCEPT ![q] = FALSE]
    /\ active' = [active EXCEPT ![q] = @ + 1]
    /\ Goto(k, "claim")
    /\ UNCHANGED <<startVars, workVars, callVars, lock, token>>

(* Mutant: the worker blocks without announcing that it waits.             *)
PopNothingSilent(k) ==
    /\ At(k, "pop")
    /\ lock[home[k]] = None
    /\ list[home[k]] = <<>>
    /\ Goto(k, "block")
    /\ UNCHANGED <<queueVars, startVars, workVars, callVars, workerVars>>

PopNothing(k) ==
    LET q == home[k] IN
    /\ At(k, "pop")
    /\ lock[q] = None
    /\ list[q] = <<>>
    /\ waiting' = [waiting EXCEPT ![q] = TRUE]
    /\ Goto(k, "block")
    /\ UNCHANGED <<startVars, workVars, callVars, workerVars, list, active, lock>>

(* task_block returns once the task has been unblocked.                    *)
TaskBlock(k) ==
    /\ At(k, "block")
    /\ k \in token
    /\ token' = token \ {k}
    /\ Goto(k, "pop")
    /\ UNCHANGED <<queueVars, startVars, workVars, callVars, cur>>

(* Mutant: the claim clears QUEUED and does not set RUNNING.               *)
ClaimWithoutRunning(k) ==
    LET w == cur[k] IN
    /\ At(k, "claim")
    /\ "QUEUED" \in state[w]
    /\ state' = [state EXCEPT ![w] = @ \ {"QUEUED"}]
    /\ Goto(k, IF w \in DelayedWorks THEN "enter" ELSE "func")
    /\ UNCHANGED <<queueVars, startVars, callVars, workerVars, wwq, dwRunning>>

(* QUEUED -> RUNNING, or should_run stays false.                           *)
ClaimWork(k) ==
    LET w == cur[k] IN
    /\ At(k, "claim")
    /\ IF "QUEUED" \in state[w]
          THEN /\ state' = [state EXCEPT ![w] = {"RUNNING"}]
               /\ Goto(k, IF w \in DelayedWorks THEN "enter" ELSE "func")
          ELSE /\ UNCHANGED state
               /\ Goto(k, "settle")
    /\ UNCHANGED <<queueVars, startVars, callVars, workerVars, wwq, dwRunning>>

EnterDelayed(k) ==
    /\ At(k, "enter")
    /\ dwRunning' = dwRunning \cup {cur[k]}
    /\ Goto(k, "func")
    /\ UNCHANGED <<queueVars, startVars, callVars, workerVars, state, wwq>>

(* work->func returns; between its start and this step the worker may      *)
(* have called QueueWork any number of times.                              *)
FuncReturns(k) ==
    /\ At(k, "func")
    /\ Goto(k, IF cur[k] \in DelayedWorks THEN "leave" ELSE "unrun")
    /\ UNCHANGED <<queueVars, startVars, workVars, callVars, workerVars>>

LeaveDelayed(k) ==
    /\ At(k, "leave")
    /\ dwRunning' = dwRunning \ {cur[k]}
    /\ Goto(k, "unrun")
    /\ UNCHANGED <<queueVars, startVars, callVars, workerVars, state, wwq>>

(* Mutant: the worker leaves RUNNING set after the function.               *)
ClearRunningForgotten(k) ==
    /\ At(k, "unrun")
    /\ Goto(k, "settle")
    /\ UNCHANGED <<queueVars, startVars, callVars, workerVars, workVars>>

ClearRunning(k) ==
    /\ At(k, "unrun")
    /\ state' = [state EXCEPT ![cur[k]] = @ \ {"RUNNING"}]
    /\ Goto(k, "settle")
    /\ UNCHANGED <<queueVars, startVars, callVars, workerVars, wwq, dwRunning>>

(* The closing lock section reads work->state and then writes work->wq:    *)
(* two steps, since a thread that queues on another queue takes another    *)
(* lock.                                                                   *)
SettleLock(k) ==
    LET q == home[k] IN
    /\ At(k, "settle")
    /\ lock[q] = None
    /\ lock' = [lock EXCEPT ![q] = k]
    /\ Goto(k, IF "QUEUED" \in state[cur[k]] THEN "release" ELSE "forget")
    /\ UNCHANGED <<startVars, workVars, callVars, workerVars, list, active, waiting>>

(* Mutant: a requeued work keeps its worker counted as active.             *)
SettleUnlockUncounted(k) ==
    LET q == home[k] IN
    /\ pc[k] \in {"forget", "release"}
    /\ wwq' = IF At(k, "forget") THEN [wwq EXCEPT ![cur[k]] = None] ELSE wwq
    /\ active' = [active EXCEPT ![q] = IF At(k, "forget") THEN @ - 1 ELSE @]
    /\ lock' = [lock EXCEPT ![q] = None]
    /\ cur' = [cur EXCEPT ![k] = None]
    /\ Goto(k, "pop")
    /\ UNCHANGED <<startVars, callVars, list, waiting, state, dwRunning, token>>

SettleUnlock(k) ==
    LET q == home[k] IN
    /\ pc[k] \in {"forget", "release"}
    /\ wwq' = IF At(k, "forget") THEN [wwq EXCEPT ![cur[k]] = None] ELSE wwq
    /\ active' = [active EXCEPT ![q] = IF @ > 0 THEN @ - 1 ELSE 0]
    /\ lock' = [lock EXCEPT ![q] = None]
    /\ cur' = [cur EXCEPT ![k] = None]
    /\ Goto(k, "pop")
    /\ UNCHANGED <<startVars, callVars, list, waiting, state, dwRunning, token>>

-----------------------------------------------------------------------------
Init ==
    /\ list = [q \in Queues |-> <<>>]
    /\ active = [q \in Queues |-> 0]
    /\ lock = [q \in Queues |-> None]
    /\ workerTask = FirstWorker
    /\ starting = [q \in Queues |-> FALSE]
    /\ waiting = [q \in Queues |-> FALSE]
    /\ state = [w \in Works |-> {}]
    /\ wwq = [w \in Works |-> None]
    /\ dwRunning = {}
    /\ arg = [t \in Threads |-> None]
    /\ wqArg = [t \in Threads |-> None]
    /\ task = [t \in Threads |-> None]
    /\ canceled = [t \in Threads |-> FALSE]
    /\ home = [k \in Workers |-> IF \E q \in Queues : FirstWorker[q] = k
                                    THEN CHOOSE q \in Queues : FirstWorker[q] = k
                                    ELSE None]
    /\ pc = [t \in Threads |-> CASE t \in Clients -> "idle"
                                 [] \E q \in Queues : FirstWorker[q] = t -> "pop"
                                 [] OTHER -> "off"]
    /\ cur = [k \in Workers |-> None]
    /\ token = {}
    /\ calls = MaxCalls

(* The calls a thread may choose to make.                                  *)
Call(t) ==
    \/ \E q \in Queues, w \in Works : QueueWork(t, q, w)
    \/ \E w \in Works : CancelWorkSync(t, w)
    \/ \E q \in Queues : FlushWorkqueue(t, q)

(* The steps of a call once it is made.                                    *)
QueueStep(t) ==
    \/ EnsureWorker(t) \/ ElectStarter(t) \/ SpinForStarter(t) \/ SpinResult(t)
    \/ CreateWorker(t) \/ CreateFails(t) \/ PublishWorker(t) \/ EndStarting(t)
    \/ MarkQueued(t) \/ AppendWork(t) \/ WakeLoad(t) \/ WakeUnblock(t)

CallStep(t) ==
    \/ QueueStep(t)
    \/ RemoveWork(t) \/ ClearQueued(t) \/ AwaitNotRunning(t) \/ FlushReturns(t)

WorkerStep(k) ==
    \/ PopWork(k) \/ PopNothing(k) \/ TaskBlock(k) \/ ClaimWork(k)
    \/ EnterDelayed(k) \/ FuncReturns(k) \/ LeaveDelayed(k) \/ ClearRunning(k)
    \/ SettleLock(k) \/ SettleUnlock(k)

Next ==
    \/ \E t \in Threads : Call(t) \/ CallStep(t)
    \/ \E k \in Workers : WorkerStep(k)

Spec == Init /\ [][Next]_vars

(* Every thread that has a step to take is eventually scheduled, and       *)
(* functions return; nobody is obliged to call the API.                    *)
Fairness ==
    /\ \A t \in Threads : WF_vars(CallStep(t))
    /\ \A k \in Workers : WF_vars(WorkerStep(k))

FairSpec == Spec /\ Fairness

-----------------------------------------------------------------------------
CallPcs == {"ensure", "elect", "spin", "spun", "create", "publish", "started",
            "mark", "append", "wake", "unblock"}
ClientPcs == CallPcs \cup {"idle", "remove", "unmark", "await", "flush"}
BusyPcs == {"claim", "enter", "func", "leave", "unrun", "settle", "forget",
            "release"}
WorkerPcs == CallPcs \cup BusyPcs \cup {"off", "pop", "block"}

Types ==
    /\ list \in [Queues -> Seq(Works)]
    /\ active \in [Queues -> Nat]
    /\ lock \in [Queues -> Workers \cup {None}]
    /\ workerTask \in [Queues -> Workers \cup {None}]
    /\ starting \in [Queues -> BOOLEAN]
    /\ waiting \in [Queues -> BOOLEAN]
    /\ state \in [Works -> SUBSET {"QUEUED", "RUNNING"}]
    /\ wwq \in [Works -> Queues \cup {None}]
    /\ dwRunning \subseteq DelayedWorks
    /\ pc \in [Threads -> ClientPcs \cup WorkerPcs]
    /\ arg \in [Threads -> Works \cup {None}]
    /\ wqArg \in [Threads -> Queues \cup {None}]
    /\ task \in [Threads -> Workers \cup {None}]
    /\ canceled \in [Threads -> BOOLEAN]
    /\ home \in [Workers -> Queues \cup {None}]
    /\ cur \in [Workers -> Works \cup {None}]
    /\ token \subseteq Workers
    /\ calls \in Nat

(* What a place in the code implies about the thread that stands there.    *)
WorkerPlaced(k) ==
    /\ pc[k] \in WorkerPcs
    /\ home[k] = None <=> pc[k] = "off"
    /\ pc[k] \in BusyPcs \cup CallPcs => cur[k] # None
    /\ pc[k] \in {"enter", "leave"} => cur[k] \in DelayedWorks

CallPlaced(t) ==
    /\ pc[t] \in CallPcs \cup {"remove", "unmark"} => arg[t] # None /\ wqArg[t] # None
    /\ pc[t] = "await" => arg[t] # None
    /\ pc[t] = "flush" => wqArg[t] # None
    /\ pc[t] = "publish" => task[t] # None

(* Every variable has its type, a created worker has a queue, and each     *)
(* thread holds the locals its place in the code needs.                    *)
TypeOK ==
    /\ Types
    /\ \A t \in Clients : pc[t] \in ClientPcs
    /\ \A k \in Workers : WorkerPlaced(k)
    /\ \A t \in Threads : CallPlaced(t)

(* Thread t carries the QUEUED bit of w: it set the bit and has not yet    *)
(* appended w, unlinked w and has not yet cleared the bit, or popped w and *)
(* has not yet claimed it.                                                 *)
Carries(t, w) ==
    \/ pc[t] \in {"append", "unmark"} /\ arg[t] = w
    \/ t \in Workers /\ pc[t] = "claim" /\ cur[t] = w

(* The QUEUED bit is an ownership token: it is set exactly when the work   *)
(* stands in one place, either one position of one list or one thread      *)
(* between two steps.  A second place would be a work linked twice (the    *)
(* lists share work->next) and a lost place a work nobody will ever run    *)
(* while every later queue_work returns false.                             *)
OnePlacePerWork ==
    /\ \A q, r \in Queues : \A i \in 1 .. Len(list[q]), j \in 1 .. Len(list[r]) :
          list[q][i] = list[r][j] => q = r /\ i = j
    /\ \A w \in Works :
          /\ \A t, u \in Threads : Carries(t, w) /\ Carries(u, w) => t = u
          /\ \A t \in Threads, q \in Queues : ~(Carries(t, w) /\ Listed(w, q))

QueuedIffPlaced ==
    \A w \in Works :
       "QUEUED" \in state[w] <=> \/ \E q \in Queues : Listed(w, q)
                                 \/ \E t \in Threads : Carries(t, w)

TokenOwned == OnePlacePerWork /\ QueuedIffPlaced

(* wq->active counts the workers between pop and the closing lock section, *)
(* through claims that find nothing to run and functions that queue more   *)
(* work: lcompat_flush_workqueue takes "no head and active = 0" to mean    *)
(* that everything popped before has run.                                  *)
Busy(k) == pc[k] \in BusyPcs \cup CallPcs

ActiveIsExact ==
    \A q \in Queues :
       active[q] = Cardinality({k \in Workers : home[k] = q /\ Busy(k)})

(* Work in a list is never left to sleeping workers: some worker of the    *)
(* queue is awake or unblocked, or a thread is on its way to wake the      *)
(* published one with worker_waiting set.                                  *)
Asleep(k) == pc[k] = "block" /\ k \notin token

NoLostWake ==
    \A q \in Queues :
       \/ list[q] = <<>>
       \/ \E k \in Workers : home[k] = q /\ ~Asleep(k)
       \/ \E t \in Threads :
             /\ wqArg[t] = q
             /\ \/ pc[t] = "wake" /\ workerTask[q] # None /\ waiting[q]
                \/ pc[t] = "unblock" /\ task[t] # None /\ waiting[q]

(* While a worker executes a function the RUNNING bit of the work is set:  *)
(* what the waiting loop of cancel_work_sync relies on.                    *)
RunningBitCovers ==
    \A k \in Workers :
       pc[k] \in {"enter", "func", "leave", "unrun"} \cup CallPcs
          => "RUNNING" \in state[cur[k]]

(* A queue with max_active = 1 (every queue of this code) runs one work at *)
(* a time.                                                                 *)
MaxActiveOne == \A q \in Queues : active[q] <= 1

(* Every cancel and every queue_work returns once functions return.        *)
CallsReturn ==
    \A t \in Clients : pc[t] # "idle" ~> pc[t] = "idle"

(* The contract seen by the users of the API.                              *)
Contract == INSTANCE WorkContract WITH
               pending <- {w \in Works : "QUEUED" \in state[w]},
               running <- {w \in Works : "RUNNING" \in state[w]}

ImplementsContract == Contract!FairSpec
=============================================================================
