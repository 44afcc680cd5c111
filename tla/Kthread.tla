------------------------------- MODULE Kthread -------------------------------
(***************************************************************************)
(* The kernel threads of src/kthread.c: kthread_run, kthread_park,         *)
(* kthread_unpark, kthread_stop and wake_up_process on the side of the     *)
(* callers; the entry function, kthread_parkme and schedule on the side of *)
(* the thread.  A step is one access to a field that both sides use.  The  *)
(* thread function is a driver's; it is the usual loop: leave when told to *)
(* stop, park when told to park, otherwise announce sleep, look for work   *)
(* and sleep.  Park, unpark and stop of one thread are issued one at a     *)
(* time, and nobody uses a thread once its stop has begun.                 *)
(***************************************************************************)
EXTENDS Integers, FiniteSets

CONSTANTS Threads,   \* task_struct objects, each used for one kthread_run
          Callers,   \* threads of drivers that control them
          MaxCalls,  \* bound on the number of calls
          None

ASSUME KthreadAssumption ==
    /\ Threads \cap Callers = {}
    /\ None \notin Threads \cup Callers
    /\ MaxCalls \in Nat

VARIABLES
    listed,     \* threads on lcompat_kthreads
    hasTask,    \* threads with thread->task set
    sleepy,     \* threads with thread->state # TASK_RUNNING
    shouldStop, shouldPark, parked, exited,  \* threads with these flags set
    freed,      \* threads given to kfree
    token,      \* tasks unblocked since they last returned from task_block
    work,       \* threads with work a driver left for them
    pc,         \* [x -> where thread or caller x stands]
    target,     \* [c -> thread of the call in progress]
    then,       \* [c -> where the call goes on after wake_up_process]
    ready,      \* threads that kthread_run has returned
    calls,      \* calls left
    quiet,      \* history: a park of the thread has returned, no unpark since
    returning,  \* history: unparked, and not yet out of kthread_parkme
    hasty       \* history: parked again while `returning`

flagVars  == <<shouldStop, shouldPark, parked, exited>>
lifeVars  == <<listed, hasTask, freed, ready>>
schedVars == <<sleepy, token, work>>
callVars  == <<target, then, calls>>
histVars  == <<quiet, returning, hasty>>
vars == <<flagVars, lifeVars, schedVars, callVars, histVars, pc>>

Goto(x, l) == pc' = [pc EXCEPT ![x] = l]
At(x, l)   == pc[x] = l

(* current(): the thread finds itself on the list by its task.             *)
Found(t) == t \in listed \cap hasTask

-----------------------------------------------------------------------------
(* kthread_run: the thread is on the list before its task exists.          *)
KthreadRun(c, t) ==
    /\ At(c, "idle") /\ calls > 0
    /\ At(t, "none") /\ t \notin listed
    /\ calls' = calls - 1
    /\ listed' = listed \cup {t}
    /\ target' = [target EXCEPT ![c] = t]
    /\ Goto(c, "create")
    /\ UNCHANGED <<flagVars, hasTask, freed, ready, schedVars, then, histVars>>

TaskCreate(c) ==
    /\ At(c, "create")
    /\ pc' = [pc EXCEPT ![c] = "setTask", ![target[c]] = "entry"]
    /\ UNCHANGED <<flagVars, lifeVars, schedVars, callVars, histVars>>

TaskCreateFails(c) ==
    /\ At(c, "create")
    /\ listed' = listed \ {target[c]}
    /\ target' = [target EXCEPT ![c] = None]
    /\ Goto(c, "idle")
    /\ UNCHANGED <<flagVars, hasTask, freed, ready, schedVars, then, calls, histVars>>

SetTask(c) ==
    /\ At(c, "setTask")
    /\ hasTask' = hasTask \cup {target[c]}
    /\ ready' = ready \cup {target[c]}
    /\ target' = [target EXCEPT ![c] = None]
    /\ Goto(c, "idle")
    /\ UNCHANGED <<flagVars, listed, freed, schedVars, then, calls, histVars>>

(* The discipline between callers.                                         *)
Using(t) == {c \in Callers : target[c] = t}

Controlled(t) == \E d \in Using(t) : then[d] # "idle"

BeginCall(c, t, first, last) ==
    /\ At(c, "idle") /\ calls > 0
    /\ t \in ready \ shouldStop
    /\ calls' = calls - 1
    /\ target' = [target EXCEPT ![c] = t]
    /\ then' = [then EXCEPT ![c] = last]
    /\ Goto(c, first)

(* wake_up_process, in two accesses.                                       *)
SetRunning(c) ==
    /\ At(c, "setRunning")
    /\ sleepy' = sleepy \ {target[c]}
    /\ Goto(c, "unblock")
    /\ UNCHANGED <<flagVars, lifeVars, token, work, callVars, histVars>>

Unblock(c) ==
    /\ At(c, "unblock")
    /\ token' = token \cup {target[c]}
    /\ Goto(c, then[c])
    /\ target' = IF then[c] = "idle" THEN [target EXCEPT ![c] = None] ELSE target
    /\ UNCHANGED <<flagVars, lifeVars, sleepy, work, then, calls, histVars>>

(* A driver leaves work and wakes the thread.                              *)
WakeUpProcess(c, t) ==
    /\ BeginCall(c, t, "setRunning", "idle")
    /\ work' = work \cup {t}
    /\ UNCHANGED <<flagVars, lifeVars, sleepy, token, histVars>>

KthreadPark(c, t) ==
    /\ ~Controlled(t)
    /\ t \notin shouldPark
    /\ BeginCall(c, t, "setRunning", "parkWait")
    /\ shouldPark' = shouldPark \cup {t}
    /\ hasty' = IF t \in returning THEN hasty \cup {t} ELSE hasty
    /\ UNCHANGED <<shouldStop, parked, exited, lifeVars, schedVars, quiet, returning>>

(* The loop of kthread_park ends on either flag.                           *)
ParkReturns(c) ==
    /\ At(c, "parkWait")
    /\ target[c] \in parked \cup exited
    /\ quiet' = IF target[c] \in parked THEN quiet \cup {target[c]} ELSE quiet
    /\ target' = [target EXCEPT ![c] = None]
    /\ Goto(c, "idle")
    /\ UNCHANGED <<flagVars, lifeVars, schedVars, then, calls, returning, hasty>>

KthreadUnpark(c, t) ==
    /\ ~Controlled(t)
    /\ t \in shouldPark
    /\ BeginCall(c, t, "setRunning", "idle")
    /\ shouldPark' = shouldPark \ {t}
    /\ quiet' = quiet \ {t}
    /\ returning' = IF t \in parked THEN returning \cup {t} ELSE returning
    /\ UNCHANGED <<shouldStop, parked, exited, lifeVars, schedVars, hasty>>

(* kthread_stop stores should_stop, then should_park, then wakes.          *)
KthreadStop(c, t) ==
    /\ Using(t) = {}
    /\ BeginCall(c, t, "clearPark", "stopWait")
    /\ shouldStop' = shouldStop \cup {t}
    /\ quiet' = quiet \ {t}
    /\ UNCHANGED <<shouldPark, parked, exited, lifeVars, schedVars, returning, hasty>>

ClearPark(c) ==
    /\ At(c, "clearPark")
    /\ shouldPark' = shouldPark \ {target[c]}
    /\ Goto(c, "setRunning")
    /\ UNCHANGED <<shouldStop, parked, exited, lifeVars, schedVars, callVars, histVars>>

StopReturns(c) ==
    /\ At(c, "stopWait")
    /\ target[c] \in exited
    /\ freed' = freed \cup {target[c]}
    /\ target' = [target EXCEPT ![c] = None]
    /\ Goto(c, "idle")
    /\ UNCHANGED <<flagVars, listed, hasTask, ready, schedVars, then, calls, histVars>>

-----------------------------------------------------------------------------
(* lcompat_kthread_entry up to the call of threadfn.                       *)
Entry(t) ==
    /\ At(t, "entry")
    /\ hasTask' = hasTask \cup {t}
    /\ sleepy' = sleepy \ {t}
    /\ Goto(t, "top")
    /\ UNCHANGED <<flagVars, listed, freed, ready, token, work, callVars, histVars>>

(* kthread_should_stop at the top of the loop; the function may also end   *)
(* without being told to.                                                  *)
KthreadShouldStop(t) ==
    /\ At(t, "top")
    /\ Goto(t, IF Found(t) /\ t \in shouldStop THEN "remove" ELSE "poll")
    /\ UNCHANGED <<flagVars, lifeVars, schedVars, callVars, histVars>>

FunctionReturns(t) ==
    /\ At(t, "top")
    /\ Goto(t, "remove")
    /\ UNCHANGED <<flagVars, lifeVars, schedVars, callVars, histVars>>

KthreadShouldPark(t) ==
    /\ At(t, "poll")
    /\ Goto(t, IF Found(t) /\ t \in shouldPark THEN "parkme" ELSE "prepare")
    /\ UNCHANGED <<flagVars, lifeVars, schedVars, callVars, histVars>>

(* Mutant: the flag is forgotten.                                          *)
SetParkedForgotten(t) ==
    /\ At(t, "parkme")
    /\ Goto(t, "parkLoop")
    /\ UNCHANGED <<flagVars, lifeVars, schedVars, callVars, histVars>>

(* kthread_parkme                                                          *)
SetParked(t) ==
    /\ At(t, "parkme")
    /\ parked' = parked \cup {t}
    /\ Goto(t, "parkLoop")
    /\ UNCHANGED <<shouldStop, shouldPark, exited, lifeVars, schedVars, callVars, histVars>>

ParkLoop(t) ==
    /\ At(t, "parkLoop")
    /\ Goto(t, IF t \in shouldPark THEN "parkStop" ELSE "unpark")
    /\ UNCHANGED <<flagVars, lifeVars, schedVars, callVars, histVars>>

ParkStop(t) ==
    /\ At(t, "parkStop")
    /\ Goto(t, IF t \in shouldStop THEN "unpark" ELSE "parkSleepy")
    /\ UNCHANGED <<flagVars, lifeVars, schedVars, callVars, histVars>>

ParkSleepy(t) ==
    /\ At(t, "parkSleepy")
    /\ sleepy' = sleepy \cup {t}
    /\ Goto(t, "parkBlock")
    /\ UNCHANGED <<flagVars, lifeVars, token, work, callVars, histVars>>

(* Mutant: any wake-up ends the parking.                                   *)
ParkBlockOnce(t) ==
    /\ At(t, "parkBlock") /\ t \in token
    /\ token' = token \ {t}
    /\ Goto(t, "unpark")
    /\ UNCHANGED <<flagVars, lifeVars, sleepy, work, callVars, histVars>>

ParkBlock(t) ==
    /\ At(t, "parkBlock") /\ t \in token
    /\ token' = token \ {t}
    /\ Goto(t, "parkLoop")
    /\ UNCHANGED <<flagVars, lifeVars, sleepy, work, callVars, histVars>>

ClearParked(t) ==
    /\ At(t, "unpark")
    /\ parked' = parked \ {t}
    /\ returning' = returning \ {t}
    /\ Goto(t, "running")
    /\ UNCHANGED <<shouldStop, shouldPark, exited, lifeVars, schedVars, callVars, quiet, hasty>>

LeavePark(t) ==
    /\ At(t, "running")
    /\ sleepy' = sleepy \ {t}
    /\ Goto(t, "top")
    /\ UNCHANGED <<flagVars, lifeVars, token, work, callVars, histVars>>

(* set_current_state(TASK_INTERRUPTIBLE) and the look for work.            *)
SetCurrentState(t) ==
    /\ At(t, "prepare")
    /\ sleepy' = sleepy \cup {t}
    /\ Goto(t, "check")
    /\ UNCHANGED <<flagVars, lifeVars, token, work, callVars, histVars>>

TakeWork(t) ==
    /\ At(t, "check") /\ t \in work
    /\ work' = work \ {t}
    /\ sleepy' = sleepy \ {t}
    /\ Goto(t, "top")
    /\ UNCHANGED <<flagVars, lifeVars, token, callVars, histVars>>

NoWork(t) ==
    /\ At(t, "check") /\ t \notin work
    /\ Goto(t, "schedule")
    /\ UNCHANGED <<flagVars, lifeVars, schedVars, callVars, histVars>>

(* lcompat_schedule: a thread that is not sleepy any more, or is to stop,  *)
(* only yields.                                                            *)
ScheduleState(t) ==
    /\ At(t, "schedule")
    /\ Goto(t, IF Found(t) /\ t \in sleepy THEN "stopping" ELSE "top")
    /\ UNCHANGED <<flagVars, lifeVars, schedVars, callVars, histVars>>

ScheduleStop(t) ==
    /\ At(t, "stopping")
    /\ Goto(t, IF t \in shouldStop THEN "top" ELSE "block")
    /\ UNCHANGED <<flagVars, lifeVars, schedVars, callVars, histVars>>

ScheduleBlock(t) ==
    /\ At(t, "block") /\ t \in token
    /\ token' = token \ {t}
    /\ Goto(t, "woken")
    /\ UNCHANGED <<flagVars, lifeVars, sleepy, work, callVars, histVars>>

Woken(t) ==
    /\ At(t, "woken")
    /\ sleepy' = sleepy \ {t}
    /\ Goto(t, "top")
    /\ UNCHANGED <<flagVars, lifeVars, token, work, callVars, histVars>>

(* Mutant: the flag is raised before the thread has left the list.         *)
ExitFirst(t) ==
    /\ At(t, "remove")
    /\ exited' = exited \cup {t}
    /\ Goto(t, "exit")
    /\ UNCHANGED <<shouldStop, shouldPark, parked, lifeVars, schedVars, callVars, histVars>>

(* The end of the entry function: off the list, then `exited`.             *)
RemoveThread(t) ==
    /\ At(t, "remove")
    /\ listed' = listed \ {t}
    /\ Goto(t, "exit")
    /\ UNCHANGED <<flagVars, hasTask, freed, ready, schedVars, callVars, histVars>>

Exit(t) ==
    /\ At(t, "exit")
    /\ exited' = exited \cup {t}
    /\ Goto(t, "done")
    /\ UNCHANGED <<shouldStop, shouldPark, parked, lifeVars, schedVars, callVars, histVars>>

-----------------------------------------------------------------------------
Init ==
    /\ listed = {} /\ hasTask = {} /\ freed = {} /\ ready = {}
    /\ sleepy = {} /\ token = {} /\ work = {}
    /\ shouldStop = {} /\ shouldPark = {} /\ parked = {} /\ exited = {}
    /\ pc = [x \in Threads \cup Callers |-> IF x \in Callers THEN "idle" ELSE "none"]
    /\ target = [c \in Callers |-> None]
    /\ then = [c \in Callers |-> "idle"]
    /\ calls = MaxCalls
    /\ quiet = {} /\ returning = {} /\ hasty = {}

CallStep(c) ==
    \/ TaskCreate(c) \/ TaskCreateFails(c) \/ SetTask(c)
    \/ ClearPark(c) \/ SetRunning(c) \/ Unblock(c)
    \/ ParkReturns(c) \/ StopReturns(c)

ThreadStep(t) ==
    \/ Entry(t) \/ KthreadShouldStop(t) \/ FunctionReturns(t) \/ KthreadShouldPark(t)
    \/ SetParked(t) \/ ParkLoop(t) \/ ParkStop(t) \/ ParkSleepy(t) \/ ParkBlock(t)
    \/ ClearParked(t) \/ LeavePark(t)
    \/ SetCurrentState(t) \/ TakeWork(t) \/ NoWork(t)
    \/ ScheduleState(t) \/ ScheduleStop(t) \/ ScheduleBlock(t) \/ Woken(t)
    \/ RemoveThread(t) \/ Exit(t)

Next ==
    \/ \E c \in Callers :
          \/ CallStep(c)
          \/ \E t \in Threads : \/ KthreadRun(c, t) \/ WakeUpProcess(c, t)
                               \/ KthreadPark(c, t) \/ KthreadUnpark(c, t)
                               \/ KthreadStop(c, t)
    \/ \E t \in Threads : ThreadStep(t)

Spec == Init /\ [][Next]_vars

(* Every thread that can run does: the native scheduler is preemptive and  *)
(* the two waiting loops yield.                                            *)
FairSpec ==
    /\ Spec
    /\ \A c \in Callers : WF_vars(CallStep(c))
    /\ \A t \in Threads : WF_vars(ThreadStep(t))

-----------------------------------------------------------------------------
ThreadPlaces ==
    {"none", "entry", "top", "poll", "parkme", "parkLoop", "parkStop", "parkSleepy",
     "parkBlock", "unpark", "running", "prepare", "check", "schedule", "stopping",
     "block", "woken", "remove", "exit", "done"}

CallPlaces ==
    {"idle", "create", "setTask", "clearPark", "setRunning", "unblock",
     "parkWait", "stopWait"}

(* Types; a call in progress has a thread; current() finds the thread from *)
(* inside its function, on which all of the questions of the loop rest.    *)
TypeOK ==
    /\ {listed, hasTask, freed, ready, sleepy, token, work, shouldStop, shouldPark,
         parked, exited, quiet, returning, hasty} \subseteq SUBSET Threads
    /\ pc \in [Threads \cup Callers -> ThreadPlaces \cup CallPlaces]
    /\ target \in [Callers -> Threads \cup {None}]
    /\ then \in [Callers -> {"idle", "parkWait", "stopWait"}]
    /\ calls \in 0 .. MaxCalls
    /\ \A c \in Callers : At(c, "idle") <=> target[c] = None
    /\ \A t \in Threads : pc[t] \notin {"none", "entry", "exit", "done"} => Found(t)

(* kthread_stop frees a thread whose entry function makes no further       *)
(* access to it and which current() can no longer find.                    *)
FreedIsDone == \A t \in freed : At(t, "done") /\ t \notin listed

(* Whoever sleeps for good has a reason: a thread blocked by schedule with *)
(* no wake-up outstanding has no work, no stop and no park to see; one     *)
(* blocked in kthread_parkme is still to be parked.                        *)
WakerComing(t) == \E c \in Using(t) : pc[c] \in {"clearPark", "setRunning", "unblock"}

NoLostWakeUp ==
    \A t \in Threads \ token :
        /\ At(t, "block") =>
              WakerComing(t) \/ t \notin work \cup shouldStop \cup shouldPark
        /\ At(t, "parkBlock") =>
              WakerComing(t) \/ t \in shouldPark \ shouldStop

(* After kthread_park has returned the thread stays in the loop of         *)
(* kthread_parkme until it is unparked or stopped.  A park that follows an *)
(* unpark before the thread has left the loop is excluded: it returns on   *)
(* the old `parked`, and the thread may run on.                            *)
ParkHolds ==
    \A t \in quiet \ hasty :
        pc[t] \in {"parkLoop", "parkStop", "parkSleepy", "parkBlock"}

(* What a thread may rely on while it runs, sleeps or is parked.           *)
KthreadInv == TypeOK /\ NoLostWakeUp /\ ParkHolds

(* Every call returns: kthread_park and kthread_stop wait in loops.        *)
CallsReturn == \A c \in Callers : At(c, "parkWait") \/ At(c, "stopWait") ~> At(c, "idle")

(* An unparked thread leaves kthread_parkme, unless parked again.          *)
UnparkedRuns == \A t \in Threads : t \in returning ~> t \notin returning \/ t \in shouldPark

(* Neither a caller nor a thread waits for ever on the other.              *)
ThreadsProgress == CallsReturn /\ UnparkedRuns
=============================================================================
