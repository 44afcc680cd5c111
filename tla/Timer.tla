--------------------------------- MODULE Timer ---------------------------------
(***************************************************************************)
(* One timer of src/include/linux/timer.h.  mod_timer stores the expiry,   *)
(* sets `active`, raises the generation and creates a task; the task reads *)
(* the generation when it runs for the first time, waits, and calls the    *)
(* function if active and generation are still right.  A step is one       *)
(* access to the timer.  The clock is left out: a task may find its time   *)
(* come at any moment.  The function may arm its timer again; it does not  *)
(* delete it.  Generations stay below 2^32.                                *)
(***************************************************************************)
EXTENDS Naturals, FiniteSets

CONSTANTS Tasks,     \* identities task_create can hand out; free when ended
          Armers,    \* threads that use the timer
          MaxArms,   \* bound on the calls of mod_timer
          MaxDels    \* bound on the calls of del_timer_sync

ASSUME TimerAssumption ==
    Tasks \cap Armers = {} /\ MaxArms \in Nat /\ MaxDels \in Nat

ArmThreads == Tasks \cup Armers

VARIABLES
    active, running, generation,  \* fields of struct timer_list
    task,     \* [k -> [at, gen]]: where task k stands and its local generation
    armCall,  \* [t -> where the call of thread t stands]
    armsLeft, delsLeft,
    crowded,  \* history: two tasks have stood between the two stores of running
    alone,    \* history: threads in a deletion, no mod_timer since it began
    deleted,  \* history: such a deletion has returned, no mod_timer since
    fate      \* history: an undisturbed mod_timer is "arming", or its call "due"

timerVars == <<active, running, generation, task, armCall, armsLeft, delsLeft,
               crowded, alone, deleted, fate>>
fieldVars == <<active, running, generation>>

TaskAt(k, l) == task[k].at = l
TaskTo(k, l) == task' = [task EXCEPT ![k].at = l]
ArmTo(t, l)  == armCall' = [armCall EXCEPT ![t] = l]

InRunning(k) == task[k].at \in {"clear", "again", "function", "stop"}
Arming == {t \in ArmThreads : armCall[t] \in {"bump", "create", "undo"}}

(* The task calls from inside the function.                                *)
MayArm(t) ==
    /\ armCall[t] = "idle"
    /\ t \in Tasks => TaskAt(t, "function")

-----------------------------------------------------------------------------
(* mod_timer: expires is stored before active.                             *)
ModTimer(t) ==
    /\ MayArm(t) /\ armsLeft > 0
    /\ armsLeft' = armsLeft - 1
    /\ active' = TRUE
    /\ ArmTo(t, "bump")
    /\ alone' = {} /\ deleted' = FALSE
    /\ fate' = IF armCall = [u \in ArmThreads |-> "idle"] THEN "arming" ELSE "no"
    /\ UNCHANGED <<running, generation, task, delsLeft, crowded>>

BumpGeneration(t) ==
    /\ armCall[t] = "bump"
    /\ generation' = generation + 1
    /\ ArmTo(t, "create")
    /\ UNCHANGED <<active, running, task, armsLeft, delsLeft, crowded, alone, deleted, fate>>

CreateTimerTask(t) ==
    /\ armCall[t] = "create"
    /\ \E k \in Tasks : TaskAt(k, "off") /\ TaskTo(k, "load")
    /\ ArmTo(t, "idle")
    /\ fate' = IF fate = "arming" THEN "due" ELSE fate
    /\ UNCHANGED <<fieldVars, armsLeft, delsLeft, crowded, alone, deleted>>

CreateTimerFails(t) ==
    /\ armCall[t] = "create"
    /\ active' = FALSE
    /\ ArmTo(t, "undo")
    /\ fate' = "no"
    /\ UNCHANGED <<running, generation, task, armsLeft, delsLeft, crowded, alone, deleted>>

UndoGeneration(t) ==
    /\ armCall[t] = "undo"
    /\ generation' = generation + 1
    /\ ArmTo(t, "idle")
    /\ UNCHANGED <<active, running, task, armsLeft, delsLeft, crowded, alone, deleted, fate>>

(* del_timer_sync                                                          *)
DelTimer(t) ==
    /\ t \in Armers /\ MayArm(t) /\ delsLeft > 0
    /\ delsLeft' = delsLeft - 1
    /\ active' = FALSE
    /\ ArmTo(t, "cancel")
    /\ alone' = IF Arming = {} THEN alone \cup {t} ELSE alone
    /\ fate' = "no"
    /\ UNCHANGED <<running, generation, task, armsLeft, crowded, deleted>>

CancelGeneration(t) ==
    /\ armCall[t] = "cancel"
    /\ generation' = generation + 1
    /\ ArmTo(t, "wait")
    /\ UNCHANGED <<active, running, task, armsLeft, delsLeft, crowded, alone, deleted, fate>>

DelReturns(t) ==
    /\ armCall[t] = "wait"
    /\ ~running
    /\ deleted' = (deleted \/ t \in alone)
    /\ alone' = alone \ {t}
    /\ ArmTo(t, "idle")
    /\ UNCHANGED <<fieldVars, task, armsLeft, delsLeft, crowded, fate>>

-----------------------------------------------------------------------------
(* lcompat_timer_worker                                                    *)
LoadGeneration(k) ==
    /\ TaskAt(k, "load")
    /\ task' = [task EXCEPT ![k] = [at |-> "delay", gen |-> generation]]
    /\ UNCHANGED <<fieldVars, armCall, armsLeft, delsLeft, crowded, alone, deleted, fate>>

(* The time has come, or active or the generation have changed.            *)
DelayEnds(k) ==
    /\ TaskAt(k, "delay")
    /\ TaskTo(k, "active")
    /\ UNCHANGED <<fieldVars, armCall, armsLeft, delsLeft, crowded, alone, deleted, fate>>

TestActive(k) ==
    /\ TaskAt(k, "active")
    /\ TaskTo(k, IF active THEN "generation" ELSE "off")
    /\ UNCHANGED <<fieldVars, armCall, armsLeft, delsLeft, crowded, alone, deleted, fate>>

TestGeneration(k) ==
    /\ TaskAt(k, "generation")
    /\ TaskTo(k, IF generation = task[k].gen THEN "run" ELSE "off")
    /\ UNCHANGED <<fieldVars, armCall, armsLeft, delsLeft, crowded, alone, deleted, fate>>

SetRunning(k) ==
    /\ TaskAt(k, "run")
    /\ running' = TRUE
    /\ crowded' = (crowded \/ \E j \in Tasks \ {k} : InRunning(j))
    /\ TaskTo(k, "clear")
    /\ UNCHANGED <<active, generation, armCall, armsLeft, delsLeft, alone, deleted, fate>>

ClearActive(k) ==
    /\ TaskAt(k, "clear")
    /\ active' = FALSE
    /\ TaskTo(k, "again")
    /\ fate' = IF generation = task[k].gen /\ fate = "due" THEN fate ELSE "no"
    /\ UNCHANGED <<running, generation, armCall, armsLeft, delsLeft, crowded, alone, deleted>>

(* Mutant: the generation is not tested a second time.                     *)
CallUntested(k) ==
    /\ TaskAt(k, "again")
    /\ TaskTo(k, "function")
    /\ fate' = IF generation = task[k].gen THEN "no" ELSE fate
    /\ UNCHANGED <<fieldVars, armCall, armsLeft, delsLeft, crowded, alone, deleted>>

TestAgain(k) ==
    /\ TaskAt(k, "again")
    /\ TaskTo(k, IF generation = task[k].gen THEN "function" ELSE "stop")
    /\ fate' = IF generation = task[k].gen THEN "no" ELSE fate
    /\ UNCHANGED <<fieldVars, armCall, armsLeft, delsLeft, crowded, alone, deleted>>

FunctionReturns(k) ==
    /\ TaskAt(k, "function") /\ armCall[k] = "idle"
    /\ TaskTo(k, "stop")
    /\ UNCHANGED <<fieldVars, armCall, armsLeft, delsLeft, crowded, alone, deleted, fate>>

(* Mutant: active is cleared behind the function, not before it.           *)
StopRunningLate(k) ==
    /\ TaskAt(k, "stop")
    /\ running' = FALSE /\ active' = FALSE
    /\ TaskTo(k, "off")
    /\ UNCHANGED <<generation, armCall, armsLeft, delsLeft, crowded, alone, deleted, fate>>

StopRunning(k) ==
    /\ TaskAt(k, "stop")
    /\ running' = FALSE
    /\ TaskTo(k, "off")
    /\ UNCHANGED <<active, generation, armCall, armsLeft, delsLeft, crowded, alone, deleted, fate>>

-----------------------------------------------------------------------------
(* timer_setup                                                             *)
TimerInit ==
    /\ active = FALSE /\ running = FALSE /\ generation = 0
    /\ task = [k \in Tasks |-> [at |-> "off", gen |-> 0]]
    /\ armCall = [t \in ArmThreads |-> "idle"]
    /\ armsLeft = MaxArms /\ delsLeft = MaxDels
    /\ crowded = FALSE /\ alone = {} /\ deleted = FALSE /\ fate = "no"

ArmStep(t) ==
    \/ BumpGeneration(t) \/ CreateTimerTask(t) \/ CreateTimerFails(t)
    \/ UndoGeneration(t) \/ CancelGeneration(t) \/ DelReturns(t)

TaskStep(k) ==
    \/ LoadGeneration(k) \/ DelayEnds(k) \/ TestActive(k) \/ TestGeneration(k)
    \/ SetRunning(k) \/ ClearActive(k) \/ TestAgain(k) \/ FunctionReturns(k)
    \/ StopRunning(k)

TimerNext ==
    \/ \E t \in ArmThreads : ModTimer(t) \/ DelTimer(t) \/ ArmStep(t)
    \/ \E k \in Tasks : TaskStep(k)

(* Every task gets on; delays end and functions return.                    *)
TimerFairness ==
    /\ \A t \in ArmThreads : WF_timerVars(ArmStep(t))
    /\ \A k \in Tasks : WF_timerVars(TaskStep(k))

TimerSpec == TimerInit /\ [][TimerNext]_timerVars /\ TimerFairness

-----------------------------------------------------------------------------
(* After del_timer_sync, until the next mod_timer, the function does not   *)
(* run and is not called: a task that has passed its tests before the      *)
(* deletion is turned back by the second look at the generation.  The one  *)
(* flag `running` cannot tell this of two tasks at once.                   *)
DeletedQuiet ==
    deleted /\ ~crowded => \A k \in Tasks : ~TaskAt(k, "function")

(* A mod_timer that found no other call in progress leads to a call of the *)
(* function, by whichever task first finds its generation right, unless    *)
(* another call undoes it or a task of an older arm, already past its      *)
(* tests, clears the flag behind it.  The function may arm its timer: what *)
(* it sets up must survive the end of the task it runs in.                 *)
ArmedFires == fate = "due" ~> fate # "due"
=============================================================================
