----------------------------- MODULE DelayedWork -----------------------------
(***************************************************************************)
(* The delayed works of src/workqueue.c on top of the workqueue:           *)
(* lcompat_queue_delayed_work starts a one-shot native task per arm, that  *)
(* waits and then queues the work; lcompat_cancel_delayed_work_sync makes  *)
(* the task give up through `active` and `generation`.  Time is abstract:  *)
(* a wait may end at any moment.  Base steps keep their place in pc; dpc   *)
(* says where a thread stands in the code of this module.                  *)
(***************************************************************************)
EXTENDS Workqueue

CONSTANTS OneShots,  \* tasks task_create can hand out for lcompat_delayed_work_worker
          SystemWq   \* system_wq, used when the task finds no queue

ASSUME DelayedAssumption ==
    /\ OneShots \subseteq Clients
    /\ SystemWq \in Queues

VARIABLES
    dactive,  \* set of the delayed works with dwork->active
    dgen,     \* [w -> dwork->generation]
    dpc,      \* [t -> where the thread stands in the delayed work code]
    genArg,   \* [d -> the local variable `generation` of the one-shot task]
    gone,     \* history: one-shot tasks whose arm was canceled while they waited
    settled,  \* history: threads in a cancel that found nobody past the check
    stopped,  \* history: delayed works whose arm under way a cancel invalidated
    spoiled   \* history: and those whose arm a failed arm's last store invalidated

delayedVars == <<dactive, dgen, dpc, genArg>>
dvars == <<vars, delayedVars, gone, settled, stopped, spoiled>>

Jump(t, l) == dpc' = [dpc EXCEPT ![t] = l]
In(t, l)   == dpc[t] = l

(* The place of a thread that is not in this code.                         *)
Outside(t) == IF t \in OneShots THEN "off" ELSE "none"

(* The queued token of w, seen from this module: held while arming, and by *)
(* the one-shot task until it lets go of it.                               *)
ArmPcs  == {"setwq", "activate", "bump", "spawn", "undo", "zero"}
WaitPcs == {"loadgen", "loadwq", "wait"}
LatePcs == {"fire", "trade", "enter", "queueing"}
Holds(t, w) == arg[t] = w /\ dpc[t] \in ArmPcs \cup WaitPcs \cup {"reset", "fire", "trade"}

-----------------------------------------------------------------------------
(* Mutant: arming does not insist on an idle work.                         *)
QueueDelayedAlways(t, q, w) ==
    /\ At(t, Return(t)) /\ In(t, "none")
    /\ calls > 0
    /\ calls' = calls - 1
    /\ arg' = [arg EXCEPT ![t] = w]
    /\ wqArg' = [wqArg EXCEPT ![t] = q]
    /\ state' = [state EXCEPT ![w] = {"QUEUED"}]
    /\ Jump(t, "setwq")
    /\ UNCHANGED <<queueVars, startVars, workerVars, wwq, dwRunning, task,
                   canceled, pc, dactive, dgen, genArg>>

(* lcompat_queue_delayed_work(q, w, delay > 0): only an idle work is       *)
(* armed, so neither a pending nor a running one.                          *)
QueueDelayed(t, q, w) ==
    /\ At(t, Return(t)) /\ In(t, "none")
    /\ calls > 0
    /\ calls' = calls - 1
    /\ arg' = [arg EXCEPT ![t] = w]
    /\ wqArg' = [wqArg EXCEPT ![t] = q]
    /\ IF state[w] = {}
          THEN state' = [state EXCEPT ![w] = {"QUEUED"}] /\ Jump(t, "setwq")
          ELSE UNCHANGED <<state, dpc>>
    /\ UNCHANGED <<queueVars, startVars, workerVars, wwq, dwRunning, task,
                   canceled, pc, dactive, dgen, genArg>>

SetQueue(t) ==
    /\ In(t, "setwq")
    /\ wwq' = [wwq EXCEPT ![arg[t]] = wqArg[t]]
    /\ Jump(t, "activate")
    /\ UNCHANGED <<queueVars, startVars, workerVars, callVars, state, dwRunning,
                   pc, dactive, dgen, genArg>>

(* expires is stored just before; its value is time and left out.          *)
Activate(t) ==
    /\ In(t, "activate")
    /\ dactive' = dactive \cup {arg[t]}
    /\ Jump(t, "bump")
    /\ UNCHANGED <<vars, dgen, genArg>>

BumpGeneration(t) ==
    /\ In(t, "bump")
    /\ dgen' = [dgen EXCEPT ![arg[t]] = @ + 1]
    /\ Jump(t, "spawn")
    /\ UNCHANGED <<vars, dactive, genArg>>

SpawnOneShot(t) ==
    /\ In(t, "spawn")
    /\ \E d \in OneShots :
          /\ dpc[d] = "off"
          /\ dpc' = [dpc EXCEPT ![t] = Outside(t), ![d] = "loadgen"]
          /\ arg' = [arg EXCEPT ![d] = arg[t]]
    /\ UNCHANGED <<queueVars, startVars, workVars, workerVars, wqArg, task,
                   canceled, calls, pc, dactive, dgen, genArg>>

(* task_create failed: active, state and generation are taken back.        *)
SpawnFails(t) ==
    /\ In(t, "spawn")
    /\ dactive' = dactive \ {arg[t]}
    /\ Jump(t, "zero")
    /\ UNCHANGED <<vars, dgen, genArg>>

ZeroState(t) ==
    /\ dpc[t] \in {"zero", "reset"}
    /\ state' = [state EXCEPT ![arg[t]] = {}]
    /\ Jump(t, IF In(t, "zero") THEN "rebump" ELSE Outside(t))
    /\ UNCHANGED <<queueVars, startVars, workerVars, callVars, wwq, dwRunning,
                   pc, dactive, dgen, genArg>>

Rebump(t) ==
    /\ In(t, "rebump")
    /\ dgen' = [dgen EXCEPT ![arg[t]] = @ + 1]
    /\ Jump(t, Outside(t))
    /\ UNCHANGED <<vars, dactive, genArg>>

-----------------------------------------------------------------------------
(* lcompat_delayed_work_worker: the one-shot task of an arm.               *)
LoadGeneration(d) ==
    /\ In(d, "loadgen")
    /\ genArg' = [genArg EXCEPT ![d] = dgen[arg[d]]]
    /\ Jump(d, "loadwq")
    /\ UNCHANGED <<vars, dactive, dgen>>

LoadQueue(d) ==
    /\ In(d, "loadwq")
    /\ wqArg' = [wqArg EXCEPT ![d] = wwq[arg[d]]]
    /\ Jump(d, "wait")
    /\ UNCHANGED <<queueVars, startVars, workVars, workerVars, arg, task,
                   canceled, calls, pc, dactive, dgen, genArg>>

(* Mutant: the task looks at generation only.                              *)
CheckGenerationOnly(d) ==
    /\ In(d, "wait")
    /\ Jump(d, IF dgen[arg[d]] = genArg[d] THEN "fire" ELSE "reset")
    /\ UNCHANGED <<vars, dactive, dgen, genArg>>

(* The wait is over: the arm is still valid or it was canceled.  active is *)
(* loaded before generation and cleared before generation grows, so the    *)
(* two loads decide what one look at both would.                           *)
CheckArm(d) ==
    /\ In(d, "wait")
    /\ Jump(d, IF arg[d] \in dactive /\ dgen[arg[d]] = genArg[d]
                  THEN "fire" ELSE "reset")
    /\ UNCHANGED <<vars, dactive, dgen, genArg>>

Fire(d) ==
    /\ In(d, "fire")
    /\ dactive' = dactive \ {arg[d]}
    /\ Jump(d, "trade")
    /\ UNCHANGED <<vars, dgen, genArg>>

(* Mutant: the task calls queue_work with the token still set.             *)
TradeTokenKept(d) ==
    /\ In(d, "trade")
    /\ Jump(d, IF state[arg[d]] = {"QUEUED"} THEN "enter" ELSE "off")
    /\ UNCHANGED <<vars, dactive, dgen, genArg>>

(* The compare-and-swap gives the token back before queue_work takes it.   *)
TradeToken(d) ==
    LET w == arg[d] IN
    /\ In(d, "trade")
    /\ IF state[w] = {"QUEUED"}
          THEN state' = [state EXCEPT ![w] = {}] /\ Jump(d, "enter")
          ELSE UNCHANGED state /\ Jump(d, "off")
    /\ UNCHANGED <<queueVars, startVars, workerVars, callVars, wwq, dwRunning,
                   pc, dactive, dgen, genArg>>

EnterQueue(d) ==
    /\ In(d, "enter")
    /\ EnterQueueWork(d, IF wqArg[d] # None THEN wqArg[d] ELSE SystemWq, arg[d])
    /\ Jump(d, "queueing")
    /\ UNCHANGED <<calls, dactive, dgen, genArg>>

OneShotEnds(d) ==
    /\ In(d, "queueing") /\ At(d, "idle")
    /\ Jump(d, "off")
    /\ UNCHANGED <<vars, dactive, dgen, genArg>>

-----------------------------------------------------------------------------
(* lcompat_cancel_delayed_work_sync(w).  The loads that make up its result *)
(* change nothing and are left out.                                        *)
CancelDelayed(t, w) ==
    /\ At(t, "idle") /\ In(t, "none")
    /\ calls > 0
    /\ calls' = calls - 1
    /\ arg' = [arg EXCEPT ![t] = w]
    /\ dactive' = dactive \ {w}
    /\ Jump(t, "cbump")
    /\ UNCHANGED <<queueVars, startVars, workVars, workerVars, wqArg, task,
                   canceled, pc, dgen, genArg>>

CancelBump(t) ==
    /\ In(t, "cbump")
    /\ dgen' = [dgen EXCEPT ![arg[t]] = @ + 1]
    /\ Jump(t, "ccancel")
    /\ UNCHANGED <<vars, dactive, genArg>>

(* Mutant: a work that is already on a list is left there.                 *)
CancelLeavesListed(t) ==
    /\ In(t, "ccancel")
    /\ Jump(t, "crun")
    /\ UNCHANGED <<vars, dactive, dgen, genArg>>

CancelInner(t) ==
    /\ In(t, "ccancel")
    /\ EnterCancel(t, arg[t])
    /\ Jump(t, "crun")
    /\ UNCHANGED <<calls, dactive, dgen, genArg>>

CancelReturns(t) ==
    /\ In(t, "crun") /\ At(t, "idle")
    /\ arg[t] \notin dwRunning
    /\ Jump(t, "none")
    /\ UNCHANGED <<vars, dactive, dgen, genArg>>

-----------------------------------------------------------------------------
DInit ==
    /\ Init
    /\ dactive = {}
    /\ dgen = [w \in DelayedWorks |-> 0]
    /\ dpc = [t \in Threads |-> Outside(t)]
    /\ genArg = [d \in OneShots |-> 0]
    /\ gone = {} /\ settled = {}
    /\ stopped = {} /\ spoiled = {}

DelayedCall(t) ==
    \/ \E q \in Queues, w \in DelayedWorks : QueueDelayed(t, q, w)
    \/ \E w \in DelayedWorks : CancelDelayed(t, w)

OneShotStep(d) ==
    \/ LoadGeneration(d) \/ LoadQueue(d) \/ CheckArm(d) \/ Fire(d)
    \/ TradeToken(d) \/ EnterQueue(d) \/ OneShotEnds(d)

DelayedStep(t) ==
    \/ SetQueue(t) \/ Activate(t) \/ BumpGeneration(t) \/ SpawnOneShot(t)
    \/ SpawnFails(t) \/ ZeroState(t) \/ Rebump(t)
    \/ CancelBump(t) \/ CancelInner(t) \/ CancelReturns(t)

(* Steps of the workqueue: a thread outside this code may call it, and a   *)
(* worker does not leave its function in the middle of a call.             *)
PlainCall(t) ==
    /\ In(t, "none")
    /\ \/ \E q \in Queues, w \in Works : QueueWork(t, q, w)
       \/ \E w \in Works \ DelayedWorks : CancelWorkSync(t, w)
       \/ \E q \in Queues : FlushWorkqueue(t, q)
    /\ UNCHANGED delayedVars

BaseStep(t) == CallStep(t) /\ UNCHANGED delayedVars

BaseWorker(k) == In(k, "none") /\ WorkerStep(k) /\ UNCHANGED delayedVars

(* The history variables: gone grows when a cancel clears active, settled  *)
(* is kept while nobody else queues, pops or unlinks the work; stopped and *)
(* spoiled say of an arm under way what made it invalid.                   *)
Cancels(t) == In(t, "none") /\ dpc'[t] = "cbump"

NobodyElseHas(w) ==
    \A u \in Threads :
       ~Carries(u, w) /\ ~(arg[u] = w /\ dpc[u] \in LatePcs \cup ArmPcs)

(* This step neither makes w pending nor takes it from its list, unless it *)
(* is t that takes it: the canceler that comes second finds no listed work *)
(* and leaves its waiting loop because QUEUED is still set.                *)
NotTaken(t, w) ==
    /\ "QUEUED" \in state'[w] => "QUEUED" \in state[w]
    /\ \A k \in Workers : pc[k] = "pop" /\ pc'[k] = "claim" => cur'[k] # w
    /\ \A u \in Threads \ {t} :
          pc[u] = "remove" /\ pc'[u] = "unmark" => arg[u] # w

(* An arm is under way from its store of active to the task's check.  What *)
(* ends it early: active is cleared, or generation grows behind the load.  *)
UnderWay(w) == \E t \in Threads : arg[t] = w /\ dpc[t] \in {"bump", "spawn"} \cup WaitPcs

Deactivates(t, w) == Cancels(t) /\ arg'[t] = w /\ w \in dactive

Outdates(t, w, l) ==
    /\ In(t, l) /\ dpc'[t] # l /\ arg[t] = w
    /\ \E d \in OneShots : arg[d] = w /\ dpc[d] \in {"loadwq", "wait"}

Record ==
    /\ gone' = (gone \cup {d \in OneShots :
                   /\ dpc[d] \in WaitPcs
                   /\ \E t \in Threads : Cancels(t) /\ arg'[t] = arg[d]})
               \ {d \in OneShots : dpc'[d] = "off"}
    /\ settled' =
          {t \in Threads :
             /\ t \in settled \/ (Cancels(t) /\ NobodyElseHas(arg'[t]))
             /\ dpc'[t] # "none"
             /\ NotTaken(t, arg'[t])}
    /\ stopped' =
          {w \in DelayedWorks :
             /\ UnderWay(w)'
             /\ w \in stopped \/ \E t \in Threads : Deactivates(t, w) \/ Outdates(t, w, "cbump")}
    /\ spoiled' =
          {w \in DelayedWorks :
             UnderWay(w)' /\ (w \in spoiled \/ \E t \in Threads : Outdates(t, w, "rebump"))}

DNext ==
    /\ \/ \E t \in Threads : \/ PlainCall(t) \/ DelayedCall(t) \/ DelayedStep(t)
                             \/ BaseStep(t)
       \/ \E d \in OneShots : OneShotStep(d)
       \/ \E k \in Workers : BaseWorker(k)
    /\ Record

DSpec == DInit /\ [][DNext]_dvars

(* Weak fairness of every thread; time passes, so a wait ends.             *)
DFairSpec ==
    /\ DSpec
    /\ \A t \in Threads : WF_dvars((BaseStep(t) \/ DelayedStep(t)) /\ Record)
    /\ \A d \in OneShots : WF_dvars(OneShotStep(d) /\ Record)
    /\ \A k \in Workers : WF_dvars(BaseWorker(k) /\ Record)

-----------------------------------------------------------------------------
(* The QUEUED bit stays one token when arms, one-shot tasks and their      *)
(* cancellation take part: the arming thread and the one-shot task are two *)
(* more places, and the stores of 0 in the give-up paths never hit a token *)
(* somebody else owns.                                                     *)
DelayedTokenOwned ==
    /\ OnePlacePerWork
    /\ \A w \in Works :
          /\ \A t, u \in Threads :
                Holds(t, w) /\ (Holds(u, w) \/ Carries(u, w)) => t = u
          /\ \A t \in Threads, q \in Queues : ~(Holds(t, w) /\ Listed(w, q))
          /\ "QUEUED" \in state[w] <=>
                \/ \E q \in Queues : Listed(w, q)
                \/ \E t \in Threads : Carries(t, w) \/ Holds(t, w)

(* A one-shot task whose arm was canceled while it waited never queues the *)
(* work, whenever it loaded the generation.                                *)
CanceledArmNeverFires ==
    [][\A d \in OneShots :
          dpc[d] = "wait" /\ dpc'[d] = "fire" => d \notin gone]_dvars

(* What cancel_delayed_work_sync gives: if it found neither a one-shot     *)
(* task past its check nor a thread with the work in hand, and nobody else *)
(* queued, popped or unlinked the work meanwhile, then at its return no    *)
(* worker has the work, no list holds it and the only task left for it is  *)
(* one that gives up.                                                      *)
CancelLeavesNothing ==
    [][\A t \in Threads :
          (t \in settled /\ dpc[t] = "crun" /\ dpc'[t] = "none") =>
             LET w == arg[t] IN
             /\ \A k \in Workers : cur[k] = w => pc[k] \in {"settle", "forget", "release"}
             /\ \A q \in Queues : ~Listed(w, q)
             /\ \A d \in OneShots : arg[d] = w /\ dpc[d] \in WaitPcs => d \in gone]_dvars

(* An accepted delayed work runs or is canceled: it does not stay pending, *)
(* and its one-shot task, which exists once the arm was accepted, goes on  *)
(* to queue the work unless a cancel invalidated this arm meanwhile.  One  *)
(* other thing does: an arm whose task cannot be created first gives the   *)
(* work back and then raises generation once more (workqueue.c:312-313),   *)
(* and an arm accepted in between is lost.                                 *)
DelayedRuns ==
    /\ \A w \in DelayedWorks : "QUEUED" \in state[w] ~> "QUEUED" \notin state[w]
    /\ \A d \in OneShots :
          dpc[d] = "loadgen" ~> dpc[d] = "queueing" \/ arg[d] \in stopped \cup spoiled
=============================================================================
