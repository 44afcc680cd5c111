---------------------------- MODULE TaskletProofs ----------------------------
(***************************************************************************)
(* Theorems about Tasklet and Timer, for any number of tasks, callers and  *)
(* calls.  The callback of a tasklet is never invoked by two tasks at      *)
(* once, because RUN is set while a task is between its test_and_set_bit   *)
(* and its clear_bit.  A kill that nobody interferes with leaves the       *)
(* tasklet idle, because SCHED stays clear from the kill's clear_bit on.   *)
(* Every claim on the callback has an owner.  Timers are the last part.    *)
(***************************************************************************)
EXTENDS Tasklet, Timer, FiniteSetTheorems, TLAPS

(* Types of the variables the arguments are about.                         *)
Places ==
    /\ sched \in BOOLEAN /\ run \in BOOLEAN
    /\ at \in [Workers -> {"off", "count", "disabled", "trylock", "again"} \cup Holding]
    /\ call \in [Threads -> {"idle", "create", "disableWait", "killClear",
                             "killWait", "killEnd"}]

(* RUN is set while a task is in its critical section.                     *)
RunHeld == \A k \in Workers : at[k] \in Holding => run

LockInv == Places /\ RunHeld /\ MutualExclusion

(* From the clear_bit of an undisturbed kill SCHED is clear; from the end  *)
(* of its wait no task invokes the callback.                               *)
Cleared(c) == c \in unscheduled /\ call[c] \in {"killWait", "killEnd"}
Waited(c)  == c \in unscheduled /\ call[c] = "killEnd"

NoInvoke == \A k \in Workers : at[k] # "invoke"

KillInv ==
    /\ unscheduled \subseteq Callers
    /\ \A c \in Callers : Cleared(c) => ~sched
    /\ \A c \in Callers : Waited(c) => NoInvoke
    /\ killed => ~sched /\ NoInvoke

-----------------------------------------------------------------------------
(* The initial state has no task.                                          *)
LEMMA LockInit == Init => LockInv
BY DEF Init, LockInv, Places, RunHeld, MutualExclusion, Holding, Threads

(* Every step keeps the bits and places within their types.                *)
LEMMA PlacesStep == Places /\ [Next]_vars => Places'
<1> SUFFICES ASSUME Places, [Next]_vars PROVE Places'
  OBVIOUS
<1> USE DEF Places, Holding, Threads, WorkerTo, CallTo
<1>1. ASSUME NEW t \in Threads, SetSched(t) PROVE Places'
  BY <1>1 DEF SetSched
<1>2. ASSUME NEW t \in Threads, CallStep(t) PROVE Places'
  BY <1>2 DEF CallStep, CreateTask, CreateFails
<1>3. ASSUME NEW c \in Callers, Disable(c) \/ Enable(c) \/ Kill(c) PROVE Places'
  BY <1>3 DEF Disable, Enable, Kill
<1>4. ASSUME NEW c \in Callers, WaitStep(c) PROVE Places'
  BY <1>4 DEF WaitStep, DisableReturns, KillClear, KillWait, KillReturns
<1>5. ASSUME NEW k \in Workers, WorkerStep(k) PROVE Places'
  BY <1>5 DEF WorkerStep, ReadCount, WaitEnabled, TryLock, TakeSched, Drop,
              CallbackReturns, Unlock, Again
<1>6. CASE UNCHANGED vars
  BY <1>6 DEF vars
<1> QED BY <1>1, <1>2, <1>3, <1>4, <1>5, <1>6 DEF Next

(* A worker that exists only as an identity holds nothing, so that a new   *)
(* task and every step of a call leave the critical section as it is.      *)
LEMMA LockCall ==
    ASSUME LockInv, UNCHANGED run,
           \/ UNCHANGED at
           \/ \E k \in Workers : at' = [at EXCEPT ![k] = "count"]
    PROVE  (RunHeld /\ MutualExclusion)'
BY DEF LockInv, Places, RunHeld, MutualExclusion, Holding

(* A step of a worker: test_and_set_bit lets it in only when RUN was clear,*)
(* that is when nobody was in.                                             *)
LEMMA LockWorker ==
    ASSUME LockInv, NEW k \in Workers, WorkerStep(k)
    PROVE  (RunHeld /\ MutualExclusion)'
<1> USE DEF LockInv, Places, RunHeld, MutualExclusion, Holding, WorkerTo
<1>1. CASE TryLock(k)
  BY <1>1 DEF TryLock
<1>2. CASE Drop(k) \/ Unlock(k)
  BY <1>2 DEF Drop, Unlock
<1>3. CASE TakeSched(k)
  BY <1>3 DEF TakeSched
<1>4. CASE CallbackReturns(k)
  BY <1>4 DEF CallbackReturns
<1>5. CASE ReadCount(k) \/ WaitEnabled(k) \/ Again(k)
  BY <1>5 DEF ReadCount, WaitEnabled, Again
<1> QED BY <1>1, <1>2, <1>3, <1>4, <1>5 DEF WorkerStep

LEMMA LockStep == LockInv /\ [Next]_vars => LockInv'
<1> SUFFICES ASSUME LockInv, [Next]_vars PROVE LockInv'
  OBVIOUS
<1>0. Places'
  BY PlacesStep DEF LockInv
<1>1. ASSUME NEW t \in Threads, SetSched(t) \/ CallStep(t) PROVE LockInv'
  <2>1. UNCHANGED run /\ (UNCHANGED at \/ \E k \in Workers : at' = [at EXCEPT ![k] = "count"])
    BY <1>1 DEF SetSched, CallStep, CreateTask, CreateFails, WorkerTo
  <2> QED BY <1>0, <2>1, LockCall DEF LockInv
<1>2. ASSUME NEW c \in Callers, Disable(c) \/ Enable(c) \/ Kill(c) \/ WaitStep(c)
      PROVE  LockInv'
  <2>1. UNCHANGED <<run, at>>
    BY <1>2 DEF Disable, Enable, Kill, WaitStep, DisableReturns, KillClear,
                KillWait, KillReturns
  <2> QED BY <1>0, <2>1, LockCall DEF LockInv
<1>3. ASSUME NEW k \in Workers, WorkerStep(k) PROVE LockInv'
  BY <1>0, <1>3, LockWorker DEF LockInv
<1>4. CASE UNCHANGED vars
  BY <1>0, <1>4, LockCall DEF vars, LockInv
<1> QED BY <1>1, <1>2, <1>3, <1>4 DEF Next

(* The callback of a tasklet never runs twice at the same time: the RUN    *)
(* bit of lcompat_tasklet_worker is a lock.                                *)
THEOREM Exclusive == Spec => []MutualExclusion
<1>1. LockInv => MutualExclusion
  BY DEF LockInv
<1> QED BY <1>1, LockInit, LockStep, PTL DEF Spec

-----------------------------------------------------------------------------
LEMMA KillInit == Init => KillInv
BY DEF Init, KillInv, Cleared, Waited, NoInvoke, Threads

(* Setting SCHED empties `unscheduled`; a call that finds it set already   *)
(* proves by that alone that no kill is under way.                         *)
LEMMA KillCall ==
    ASSUME Places, KillInv, NEW t \in Threads, SetSched(t) \/ CallStep(t)
    PROVE  KillInv'
<1> USE DEF Places, KillInv, Cleared, Waited, NoInvoke, WorkerTo, CallTo, Threads
<1>1. CASE SetSched(t)
  <2>1. CASE sched
    BY <1>1, <2>1 DEF SetSched, histVars
  <2>2. CASE ~sched
    BY <1>1, <2>2 DEF SetSched
  <2> QED BY <2>1, <2>2
<1>2. CASE CreateTask(t)
  BY <1>2 DEF CreateTask
<1>3. CASE CreateFails(t)
  BY <1>3 DEF CreateFails
<1> QED BY <1>1, <1>2, <1>3 DEF CallStep

(* The wait of a kill ends with RUN clear, that is with nobody inside.     *)
LEMMA KillControl ==
    ASSUME LockInv, KillInv, NEW c \in Callers,
           Disable(c) \/ Enable(c) \/ Kill(c) \/ WaitStep(c)
    PROVE  KillInv'
<1> USE DEF KillInv, Cleared, Waited, NoInvoke, CallTo, Threads
<1>0. Places
  BY DEF LockInv
<1>1. CASE Disable(c) \/ Enable(c) \/ Kill(c)
  BY <1>0, <1>1 DEF Disable, Enable, Kill, MayCall, histVars, Places
<1>2. CASE DisableReturns(c)
  BY <1>0, <1>2 DEF DisableReturns, histVars, Places
<1>3. CASE KillClear(c)
  BY <1>0, <1>3 DEF KillClear, Places
<1>4. CASE KillWait(c)
  <2>1. NoInvoke
    BY <1>4 DEF KillWait, LockInv, RunHeld, Holding
  <2> QED BY <1>0, <1>4, <2>1 DEF KillWait, histVars, Places
<1>5. CASE KillReturns(c)
  BY <1>0, <1>5 DEF KillReturns, Places
<1> QED BY <1>1, <1>2, <1>3, <1>4, <1>5 DEF WaitStep

(* A task invokes the callback only after it has found SCHED set.          *)
LEMMA KillWorker ==
    ASSUME Places, KillInv, NEW k \in Workers, WorkerStep(k)
    PROVE  KillInv'
<1> USE DEF Places, KillInv, Cleared, Waited, NoInvoke, WorkerTo
<1>1. CASE TakeSched(k)
  BY <1>1 DEF TakeSched
<1>2. CASE ~TakeSched(k)
  BY <1>2 DEF WorkerStep, ReadCount, WaitEnabled, TryLock, Drop,
              CallbackReturns, Unlock, Again, histVars
<1> QED BY <1>1, <1>2

LEMMA KillStep == LockInv /\ KillInv /\ [Next]_vars => KillInv'
<1> SUFFICES ASSUME LockInv, KillInv, [Next]_vars PROVE KillInv'
  OBVIOUS
<1>0. Places
  BY DEF LockInv
<1>1. CASE UNCHANGED vars
  BY <1>1 DEF vars, KillInv, Cleared, Waited, NoInvoke
<1> QED BY <1>0, <1>1, KillCall, KillControl, KillWorker DEF Next

(* tasklet_kill: when it returns and nobody has scheduled the tasklet      *)
(* since it began, the tasklet is idle and stays so until it is scheduled. *)
THEOREM QuietAfterKill == Spec => []KillQuiet
<1>1. Init => LockInv /\ KillInv
  BY LockInit, KillInit
<1>2. LockInv /\ KillInv /\ [Next]_vars => (LockInv /\ KillInv)'
  BY LockStep, KillStep
<1>3. LockInv /\ KillInv => KillQuiet
  BY DEF KillInv, KillQuiet, NoInvoke
<1> QED BY <1>1, <1>2, <1>3, PTL DEF Spec

-----------------------------------------------------------------------------
(* The finite sets behind the disable count, and the bound on the calls.   *)
CountInv ==
    /\ IsFiniteSet(disabling) /\ disabling \subseteq Callers
    /\ IsFiniteSet(Killing)
    /\ count = Cardinality(disabling) + Cardinality(Killing)
    /\ calls \in 0 .. MaxCalls

(* A schedule that waits for its turn keeps SCHED, unless a failed call    *)
(* took the bit; a call that is about to fail is not the one that waits.   *)
OwedInv ==
    /\ setter \in Threads \cup {None} /\ owed \in BOOLEAN /\ stolen \in BOOLEAN
    /\ owed => sched \/ stolen
    /\ \A t \in Threads : call[t] = "create" /\ setter = t /\ owed => stolen

(* Somebody will look at a set SCHED bit.                                  *)
SchedSeen ==
    sched => \/ \E t \in Threads : call[t] = "create"
             \/ \E k \in Workers : at[k] \notin {"off", "drop"}

LEMMA CountInit == Init => CountInv
<1> SUFFICES ASSUME Init PROVE CountInv
  OBVIOUS
<1>1. Killing = {} /\ disabling = {} /\ count = 0
  BY DEF Init, Killing, Threads
<1>2. calls \in 0 .. MaxCalls
  BY TaskletAssumption DEF Init
<1> QED BY <1>1, <1>2, FS_EmptySet DEF CountInv

(* A call that neither enters nor leaves tasklet_kill or a disabled        *)
(* section leaves the count's owners as they are.                          *)
LEMMA CountSame ==
    ASSUME CountInv, UNCHANGED <<count, disabling>>, Killing' = Killing,
           calls' = calls \/ (calls > 0 /\ calls' = calls - 1)
    PROVE  CountInv'
BY TaskletAssumption DEF CountInv

(* Disable and Kill add their caller to an owner set, Enable and the end   *)
(* of a kill take it out; the count follows.                               *)
LEMMA CountOwner ==
    ASSUME CountInv, Places, NEW c \in Callers,
           Disable(c) \/ Enable(c) \/ Kill(c) \/ KillReturns(c)
    PROVE  CountInv'
<1> USE DEF Places, MayCall, CallTo, Threads
<1>0. /\ IsFiniteSet(disabling) /\ disabling \subseteq Callers
      /\ IsFiniteSet(Killing) /\ calls \in 0 .. MaxCalls
      /\ count = Cardinality(disabling) + Cardinality(Killing)
      /\ Cardinality(disabling) \in Nat /\ Cardinality(Killing) \in Nat
      /\ MaxCalls \in Nat
  BY FS_CardinalityType, TaskletAssumption DEF CountInv
<1>1. CASE Disable(c)
  <2>1. Killing' = Killing
    BY <1>1 DEF Disable, Killing
  <2>2. /\ disabling' = disabling \cup {c} /\ c \notin disabling /\ count' = count + 1
        /\ calls > 0 /\ calls' = calls - 1
    BY <1>1 DEF Disable
  <2>3. IsFiniteSet(disabling') /\ Cardinality(disabling') = Cardinality(disabling) + 1
    BY <1>0, <2>2, FS_AddElement
  <2> QED BY <1>0, <2>1, <2>2, <2>3 DEF CountInv
<1>2. CASE Enable(c)
  <2>1. Killing' = Killing
    BY <1>2 DEF Enable, Killing
  <2>2. disabling' = disabling \ {c} /\ c \in disabling /\ count' = count - 1 /\ calls' = calls
    BY <1>2 DEF Enable
  <2>3. IsFiniteSet(disabling') /\ Cardinality(disabling') = Cardinality(disabling) - 1
    BY <1>0, <2>2, FS_RemoveElement
  <2> QED BY <1>0, <2>1, <2>2, <2>3 DEF CountInv
<1>3. CASE Kill(c)
  <2>1. Killing' = Killing \cup {c} /\ c \notin Killing
    BY <1>3 DEF Kill, Killing
  <2>2. disabling' = disabling /\ count' = count + 1 /\ calls > 0 /\ calls' = calls - 1
    BY <1>3 DEF Kill
  <2>3. IsFiniteSet(Killing') /\ Cardinality(Killing') = Cardinality(Killing) + 1
    BY <1>0, <2>1, FS_AddElement
  <2> QED BY <1>0, <2>1, <2>2, <2>3 DEF CountInv
<1>4. CASE KillReturns(c)
  <2>1. Killing' = Killing \ {c} /\ c \in Killing
    BY <1>4 DEF KillReturns, Killing
  <2>2. disabling' = disabling /\ count' = count - 1 /\ calls' = calls
    BY <1>4 DEF KillReturns
  <2>3. IsFiniteSet(Killing') /\ Cardinality(Killing') = Cardinality(Killing) - 1
    BY <1>0, <2>1, FS_RemoveElement
  <2> QED BY <1>0, <2>1, <2>2, <2>3 DEF CountInv
<1> QED BY <1>1, <1>2, <1>3, <1>4

LEMMA CountStep == Places /\ CountInv /\ [Next]_vars => CountInv'
<1> SUFFICES ASSUME Places, CountInv, [Next]_vars PROVE CountInv'
  OBVIOUS
<1>1. ASSUME NEW t \in Threads, SetSched(t) \/ CallStep(t) PROVE CountInv'
  <2>1. /\ UNCHANGED <<count, disabling>>
        /\ calls' = calls \/ (calls > 0 /\ calls' = calls - 1)
    BY <1>1 DEF SetSched, MayCall, CallStep, CreateTask, CreateFails
  <2>2. call' = call \/ \E l \in {"idle", "create"} :
                          call[t] \in {"idle", "create"} /\ call' = [call EXCEPT ![t] = l]
    BY <1>1 DEF SetSched, MayCall, CallTo, CallStep, CreateTask, CreateFails
  <2>3. Killing' = Killing
    BY <2>2 DEF Killing, Places, Threads
  <2> QED BY <2>1, <2>3, CountSame
<1>2. ASSUME NEW c \in Callers, DisableReturns(c) \/ KillClear(c) \/ KillWait(c)
      PROVE  CountInv'
  <2>1. UNCHANGED <<count, disabling, calls>>
    BY <1>2 DEF DisableReturns, KillClear, KillWait
  <2>2. Killing' = Killing
    BY <1>2 DEF DisableReturns, KillClear, KillWait, Killing, CallTo, Places, Threads
  <2> QED BY <2>1, <2>2, CountSame
<1>3. ASSUME NEW k \in Workers, WorkerStep(k) PROVE CountInv'
  <2>1. UNCHANGED <<count, disabling, calls, call>>
    BY <1>3 DEF WorkerStep, ReadCount, WaitEnabled, TryLock, TakeSched, Drop,
                CallbackReturns, Unlock, Again
  <2>2. Killing' = Killing
    BY <2>1 DEF Killing
  <2> QED BY <2>1, <2>2, CountSame
<1>4. CASE UNCHANGED vars
  <2>1. UNCHANGED <<count, disabling, calls>> /\ Killing' = Killing
    BY <1>4 DEF vars, Killing
  <2> QED BY <2>1, CountSame
<1> QED BY <1>1, <1>2, <1>3, <1>4, CountOwner DEF Next, WaitStep

-----------------------------------------------------------------------------
LEMMA OwedInit == Init => OwedInv /\ SchedSeen
BY DEF Init, OwedInv, SchedSeen

(* A call owes its schedule a turn only once its task exists; then it is   *)
(* no longer the call that could fail.                                     *)
LEMMA OwedCall ==
    ASSUME Places, OwedInv, SchedSeen, NEW t \in Threads, SetSched(t) \/ CallStep(t)
    PROVE  OwedInv' /\ SchedSeen'
<1> USE DEF Places, OwedInv, SchedSeen, WorkerTo, CallTo
<1>1. CASE SetSched(t)
  <2>1. CASE sched
    BY <1>1, <2>1 DEF SetSched, histVars
  <2>2. CASE ~sched
    BY <1>1, <2>2 DEF SetSched, MayCall
  <2> QED BY <2>1, <2>2
<1>2. CASE CreateTask(t)
  BY <1>2 DEF CreateTask
<1>3. CASE CreateFails(t)
  BY <1>3 DEF CreateFails
<1> QED BY <1>1, <1>2, <1>3 DEF CallStep

(* Of the other calls only a kill touches SCHED; it drops what was owed.   *)
LEMMA OwedControl ==
    ASSUME Places, OwedInv, SchedSeen, NEW c \in Callers,
           Disable(c) \/ Enable(c) \/ Kill(c) \/ WaitStep(c)
    PROVE  OwedInv' /\ SchedSeen'
<1> USE DEF Places, OwedInv, SchedSeen, CallTo, Threads, histVars
<1>1. CASE Disable(c)
  BY <1>1 DEF Disable, MayCall
<1>2. CASE Enable(c)
  BY <1>2 DEF Enable
<1>3. CASE Kill(c)
  BY <1>3 DEF Kill, MayCall
<1>4. CASE DisableReturns(c) \/ KillWait(c)
  BY <1>4 DEF DisableReturns, KillWait
<1>5. CASE KillClear(c)
  BY <1>5 DEF KillClear
<1>6. CASE KillReturns(c)
  BY <1>6 DEF KillReturns
<1> QED BY <1>1, <1>2, <1>3, <1>4, <1>5, <1>6 DEF WaitStep

(* A task ends only where it finds SCHED clear, or, from "drop", after it  *)
(* has found it clear itself.                                              *)
LEMMA OwedWorker ==
    ASSUME Places, OwedInv, SchedSeen, NEW k \in Workers, WorkerStep(k)
    PROVE  OwedInv' /\ SchedSeen'
<1> USE DEF Places, OwedInv, SchedSeen, WorkerTo, histVars
<1>1. CASE ReadCount(k) \/ WaitEnabled(k)
  BY <1>1 DEF ReadCount, WaitEnabled
<1>2. CASE TryLock(k)
  BY <1>2 DEF TryLock
<1>3. CASE TakeSched(k)
  BY <1>3 DEF TakeSched
<1>4. CASE Drop(k)
  BY <1>4 DEF Drop
<1>5. CASE CallbackReturns(k) \/ Unlock(k)
  BY <1>5 DEF CallbackReturns, Unlock
<1>6. CASE Again(k)
  BY <1>6 DEF Again
<1> QED BY <1>1, <1>2, <1>3, <1>4, <1>5, <1>6 DEF WorkerStep

LEMMA OwedStep ==
    Places /\ OwedInv /\ SchedSeen /\ [Next]_vars => OwedInv' /\ SchedSeen'
<1> SUFFICES ASSUME Places, OwedInv, SchedSeen, [Next]_vars PROVE OwedInv' /\ SchedSeen'
  OBVIOUS
<1>1. CASE UNCHANGED vars
  BY <1>1 DEF vars, OwedInv, SchedSeen
<1> QED BY <1>1, OwedCall, OwedControl, OwedWorker DEF Next

(* Every claim on the callback has its owner: the disable count is exactly *)
(* the unfinished disables and kills, a set SCHED bit has somebody who     *)
(* will look at it, and a schedule that has its task is not forgotten.     *)
THEOREM ClaimsOwned == Spec => []TaskletInv
<1> DEFINE Inv == Places /\ CountInv /\ OwedInv /\ SchedSeen /\ KillInv /\ LockInv
                  /\ killed \in BOOLEAN
<1>1. Init => Inv
  <2>1. Init => killed \in BOOLEAN
    BY DEF Init
  <2> QED BY <2>1, LockInit, KillInit, CountInit, OwedInit DEF LockInv
<1>2. Inv /\ [Next]_vars => Inv'
  <2>1. killed \in BOOLEAN /\ [Next]_vars => (killed \in BOOLEAN)'
    BY DEF Next, vars, histVars, SetSched, CallStep, CreateTask, CreateFails, Disable,
           Enable, Kill, WaitStep, DisableReturns, KillClear, KillWait, KillReturns,
           WorkerStep, ReadCount, WaitEnabled, TryLock, TakeSched, Drop,
           CallbackReturns, Unlock, Again
  <2> QED BY <2>1, PlacesStep, CountStep, OwedStep, KillStep, LockStep
<1>3. Inv => TaskletInv
  BY DEF Places, CountInv, OwedInv, SchedSeen, KillInv, TaskletInv, TypeOK,
         ScheduleNotLost
<1> QED BY <1>1, <1>2, <1>3, PTL DEF Spec

-----------------------------------------------------------------------------
(* Timers: what del_timer_sync promises.  A deletion that no mod_timer     *)
(* disturbs finds every task in one of three zones.  A task that has not   *)
(* tested `active` will find it clear.  A task past that test carries an   *)
(* older generation once the deletion has raised it, and its second look   *)
(* turns it back.  A task past the second look is waited for by `running`, *)
(* provided it is the only one between the two stores of that flag.        *)

Before  == {"off", "load", "delay", "active"}
Between == {"generation", "run", "clear", "again"}
Within  == {"clear", "again", "function", "stop"}

(* Types of the variables; a task's generation is not ahead of the timer's.*)
TimerTypes ==
    /\ active \in BOOLEAN /\ running \in BOOLEAN /\ generation \in Nat
    /\ task \in [Tasks -> [at : Before \cup Between \cup Within, gen : Nat]]
    /\ armCall \in [ArmThreads -> {"idle", "bump", "create", "undo", "cancel", "wait"}]
    /\ crowded \in BOOLEAN /\ deleted \in BOOLEAN /\ alone \subseteq Armers
    /\ \A k \in Tasks : task[k].gen <= generation

(* Unless two tasks have crowded there, `running` stands for the one task  *)
(* between its two stores.                                                 *)
RunningCounts ==
    ~crowded => \A k \in Tasks : InRunning(k) =>
                    running /\ \A j \in Tasks : InRunning(j) => j = k

(* While a deletion is undisturbed, and after it, nobody arms.             *)
NobodyArms == alone # {} \/ deleted => Arming = {} /\ ~active

(* Past its first tests with an outdated generation.                       *)
Outdated == \A k \in Tasks : task[k].at \in Between => task[k].gen # generation

DeletionInv ==
    /\ NobodyArms
    /\ \A t \in alone : armCall[t] = "wait" => Outdated
    /\ deleted => Outdated

TimerInv == TimerTypes /\ RunningCounts /\ DeletionInv /\ DeletedQuiet

-----------------------------------------------------------------------------
(* The initial state: timer_setup has left the timer idle.                 *)
LEMMA TimerInvInit == TimerInit => TimerInv
<1> SUFFICES ASSUME TimerInit PROVE TimerInv
  OBVIOUS
<1>1. TimerTypes
  <2>1. task \in [Tasks -> [at : Before \cup Between \cup Within, gen : Nat]]
    BY DEF TimerInit, Before
  <2>2. \A k \in Tasks : task[k].gen <= generation
    BY DEF TimerInit
  <2> QED BY <2>1, <2>2 DEF TimerInit, TimerTypes
<1>2. \A k \in Tasks : task[k].at = "off"
  BY DEF TimerInit
<1> QED BY <1>1, <1>2 DEF TimerInit, TimerInv, RunningCounts, InRunning, DeletionInv,
                          NobodyArms, Outdated, Between, DeletedQuiet, TaskAt

(* A step of a call that leaves the tasks and `running` alone.             *)
LEMMA ArmKeepsRunning ==
    ASSUME TimerInv, UNCHANGED <<running, task, crowded>>
    PROVE  RunningCounts'
BY DEF TimerInv, RunningCounts, InRunning

(* mod_timer: from its first store on there is no deletion that could      *)
(* claim to be undisturbed.                                                *)
LEMMA ArmStepKeeps ==
    ASSUME TimerInv, NEW t \in ArmThreads,
           \/ ModTimer(t) \/ BumpGeneration(t) \/ CreateTimerTask(t)
           \/ CreateTimerFails(t) \/ UndoGeneration(t)
    PROVE  TimerInv'
<1> USE DEF TimerInv, TimerTypes, DeletionInv, NobodyArms, Outdated, DeletedQuiet, Arming,
            ArmTo, TaskAt, TaskTo, Before, Between, Within
<1>1. CASE ModTimer(t)
  <2>1. RunningCounts'
    BY <1>1, ArmKeepsRunning DEF ModTimer
  <2> QED BY <1>1, <2>1 DEF ModTimer, MayArm
<1>2. CASE BumpGeneration(t)
  <2>1. RunningCounts'
    BY <1>2, ArmKeepsRunning DEF BumpGeneration
  <2> QED BY <1>2, <2>1 DEF BumpGeneration
<1>3. CASE CreateTimerTask(t)
  <2>1. RunningCounts'
    BY <1>3 DEF CreateTimerTask, RunningCounts, InRunning, fieldVars
  <2> QED BY <1>3, <2>1 DEF CreateTimerTask, fieldVars
<1>4. CASE CreateTimerFails(t)
  <2>1. RunningCounts'
    BY <1>4, ArmKeepsRunning DEF CreateTimerFails
  <2> QED BY <1>4, <2>1 DEF CreateTimerFails
<1>5. CASE UndoGeneration(t)
  <2>1. RunningCounts'
    BY <1>5, ArmKeepsRunning DEF UndoGeneration
  <2> QED BY <1>5, <2>1 DEF UndoGeneration
<1> QED BY <1>1, <1>2, <1>3, <1>4, <1>5

(* del_timer_sync: raising the generation outdates every task at once, and *)
(* the end of the wait finds `running` clear.                              *)
LEMMA DeleteStepKeeps ==
    ASSUME TimerInv, NEW t \in ArmThreads,
           DelTimer(t) \/ CancelGeneration(t) \/ DelReturns(t)
    PROVE  TimerInv'
<1> USE DEF TimerInv, TimerTypes, DeletionInv, NobodyArms, Outdated, DeletedQuiet, Arming,
            ArmTo, TaskAt, Before, Between, Within
<1>1. CASE DelTimer(t)
  <2>1. RunningCounts'
    BY <1>1, ArmKeepsRunning DEF DelTimer
  <2>2. TimerTypes'
    BY <1>1 DEF DelTimer
  <2>3. NobodyArms'
    BY <1>1 DEF DelTimer, MayArm
  <2> QED BY <1>1, <2>1, <2>2, <2>3 DEF DelTimer, MayArm
<1>2. CASE CancelGeneration(t)
  <2>1. RunningCounts'
    BY <1>2, ArmKeepsRunning DEF CancelGeneration
  <2>2. Outdated'
    BY <1>2 DEF CancelGeneration
  <2> QED BY <1>2, <2>1, <2>2 DEF CancelGeneration
<1>3. CASE DelReturns(t)
  <2>1. RunningCounts'
    BY <1>3, ArmKeepsRunning DEF DelReturns, fieldVars
  <2>2. ~crowded => \A k \in Tasks : ~TaskAt(k, "function")
    BY <1>3 DEF DelReturns, RunningCounts, InRunning
  <2> QED BY <1>3, <2>1, <2>2 DEF DelReturns, fieldVars
<1> QED BY <1>1, <1>2, <1>3

(* lcompat_timer_worker up to the store of `running`.                      *)
LEMMA WaitingTaskKeeps ==
    ASSUME TimerInv, NEW k \in Tasks,
           LoadGeneration(k) \/ DelayEnds(k) \/ TestActive(k) \/ TestGeneration(k)
    PROVE  TimerInv'
<1> USE DEF TimerInv, TimerTypes, RunningCounts, InRunning, DeletionInv, NobodyArms,
            Outdated, DeletedQuiet, Arming, TaskAt, TaskTo, Before, Between, Within,
            fieldVars
<1>1. CASE LoadGeneration(k)
  BY <1>1 DEF LoadGeneration
<1>2. CASE DelayEnds(k)
  BY <1>2 DEF DelayEnds
<1>3. CASE TestActive(k)
  BY <1>3 DEF TestActive
<1>4. CASE TestGeneration(k)
  BY <1>4 DEF TestGeneration
<1> QED BY <1>1, <1>2, <1>3, <1>4

(* The same task from the store on: it is the only one unless crowded, and *)
(* calls the function only with the generation of the day.                 *)
LEMMA RunningTaskKeeps ==
    ASSUME TimerInv, NEW k \in Tasks,
           \/ SetRunning(k) \/ ClearActive(k) \/ TestAgain(k)
           \/ FunctionReturns(k) \/ StopRunning(k)
    PROVE  TimerInv'
<1> USE DEF TimerInv, TimerTypes, RunningCounts, InRunning, DeletionInv, NobodyArms,
            Outdated, DeletedQuiet, Arming, TaskAt, TaskTo, Before, Between, Within,
            fieldVars
<1>1. CASE SetRunning(k)
  BY <1>1 DEF SetRunning
<1>2. CASE ClearActive(k)
  <2>1. TimerTypes'
    BY <1>2 DEF ClearActive
  <2>2. RunningCounts'
    BY <1>2 DEF ClearActive
  <2> QED BY <1>2, <2>1, <2>2 DEF ClearActive
<1>3. CASE TestAgain(k)
  BY <1>3 DEF TestAgain
<1>4. CASE FunctionReturns(k)
  BY <1>4 DEF FunctionReturns
<1>5. CASE StopRunning(k)
  BY ZenonT(60), <1>5 DEF StopRunning
<1> QED BY <1>1, <1>2, <1>3, <1>4, <1>5

LEMMA TimerInvStep == TimerInv /\ [TimerNext]_timerVars => TimerInv'
<1> SUFFICES ASSUME TimerInv, [TimerNext]_timerVars PROVE TimerInv'
  OBVIOUS
<1>1. ASSUME NEW t \in ArmThreads, ModTimer(t) \/ DelTimer(t) \/ ArmStep(t)
      PROVE  TimerInv'
  BY <1>1, ArmStepKeeps, DeleteStepKeeps DEF ArmStep
<1>2. ASSUME NEW k \in Tasks, TaskStep(k) PROVE TimerInv'
  BY <1>2, WaitingTaskKeeps, RunningTaskKeeps DEF TaskStep
<1>3. CASE UNCHANGED timerVars
  BY <1>3 DEF timerVars, TimerInv, TimerTypes, RunningCounts, InRunning, DeletionInv,
              NobodyArms, Outdated, DeletedQuiet, Arming, TaskAt
<1> QED BY <1>1, <1>2, <1>3 DEF TimerNext

(* del_timer_sync: when a deletion returns that no mod_timer has disturbed,*)
(* the function neither runs nor is called until the timer is armed again, *)
(* as long as no two tasks have run between the two stores of `running`.   *)
THEOREM QuietAfterDelete == TimerSpec => []DeletedQuiet
<1>1. TimerInv => DeletedQuiet
  BY DEF TimerInv
<1> QED BY <1>1, TimerInvInit, TimerInvStep, PTL DEF TimerSpec
=============================================================================
