-------------------------------- MODULE Tasklet --------------------------------
(***************************************************************************)
(* One tasklet of src/include/linux/interrupt.h.  tasklet_schedule sets    *)
(* the SCHED bit and creates a task for it; the tasks agree by the RUN bit *)
(* on who invokes the callback, and a task that has invoked it looks for   *)
(* SCHED again before it ends.  A step is one access to `state` or         *)
(* `count`.  The callback may schedule its tasklet again.                  *)
(***************************************************************************)
EXTENDS Integers, FiniteSets

CONSTANTS Workers,   \* identities task_create can hand out; free when ended
          Callers,   \* threads that use the tasklet
          MaxCalls,  \* bound on the number of calls
          None

ASSUME TaskletAssumption ==
    /\ Workers \cap Callers = {}
    /\ None \notin Workers \cup Callers
    /\ MaxCalls \in Nat

Threads == Workers \cup Callers

VARIABLES
    sched, run,  \* the bits TASKLET_STATE_SCHED and TASKLET_STATE_RUN
    count,       \* disable count
    at,          \* [k -> where worker k stands, "off" if it does not exist]
    call,        \* [t -> where the API call of thread t stands]
    disabling,   \* callers whose tasklet_disable is not yet undone
    calls,       \* API calls left
    setter,      \* history: the call that set SCHED last
    owed,        \* history: a schedule that created its task awaits its turn
    stolen,      \* history: a failed call has cleared the SCHED of that one
    unscheduled, \* history: callers in tasklet_kill, none scheduled meanwhile
    killed       \* history: such a kill has returned, none scheduled since

vars == <<sched, run, count, at, call, disabling, calls,
          setter, owed, stolen, unscheduled, killed>>
histVars == <<setter, owed, stolen, unscheduled, killed>>

WorkerTo(k, l) == at' = [at EXCEPT ![k] = l]
CallTo(t, l)   == call' = [call EXCEPT ![t] = l]

(* A worker calls the API from inside the callback.                        *)
MayCall(t) ==
    /\ calls > 0
    /\ call[t] = "idle"
    /\ t \in Workers => at[t] = "invoke"

-----------------------------------------------------------------------------
(* tasklet_schedule                                                        *)
SetSched(t) ==
    /\ MayCall(t)
    /\ calls' = calls - 1
    /\ sched' = TRUE
    /\ IF sched
          THEN UNCHANGED <<call, histVars>>
          ELSE /\ CallTo(t, "create")
               /\ setter' = t
               /\ unscheduled' = {}
               /\ killed' = FALSE
               /\ UNCHANGED <<owed, stolen>>
    /\ UNCHANGED <<run, count, at, disabling>>

CreateTask(t) ==
    /\ call[t] = "create"
    /\ \E k \in Workers : at[k] = "off" /\ WorkerTo(k, "count")
    /\ CallTo(t, "idle")
    /\ owed' = (owed \/ (sched /\ setter = t))
    /\ UNCHANGED <<sched, run, count, disabling, calls,
                   setter, stolen, unscheduled, killed>>

(* Without a task SCHED is cleared, whoever has set it by then.            *)
CreateFails(t) ==
    /\ call[t] = "create"
    /\ sched' = FALSE
    /\ stolen' = (stolen \/ (owed /\ setter # t))
    /\ CallTo(t, "idle")
    /\ UNCHANGED <<run, count, at, disabling, calls, setter, owed, unscheduled, killed>>

(* tasklet_disable and tasklet_disable_nosync; each is undone once.        *)
Disable(c) ==
    /\ MayCall(c) /\ c \notin disabling
    /\ calls' = calls - 1
    /\ disabling' = disabling \cup {c}
    /\ count' = count + 1
    /\ CallTo(c, "disableWait") \/ UNCHANGED call
    /\ UNCHANGED <<sched, run, at, histVars>>

DisableReturns(c) ==
    /\ call[c] = "disableWait"
    /\ ~run
    /\ CallTo(c, "idle")
    /\ UNCHANGED <<sched, run, count, at, disabling, calls, histVars>>

Enable(c) ==
    /\ call[c] = "idle" /\ c \in disabling
    /\ disabling' = disabling \ {c}
    /\ count' = count - 1
    /\ UNCHANGED <<sched, run, at, call, calls, histVars>>

(* tasklet_kill                                                            *)
Kill(c) ==
    /\ MayCall(c)
    /\ calls' = calls - 1
    /\ count' = count + 1
    /\ CallTo(c, "killClear")
    /\ unscheduled' = unscheduled \cup {c}
    /\ UNCHANGED <<sched, run, at, disabling, setter, owed, stolen, killed>>

KillClear(c) ==
    /\ call[c] = "killClear"
    /\ sched' = FALSE
    /\ CallTo(c, "killWait")
    /\ owed' = FALSE /\ stolen' = FALSE
    /\ UNCHANGED <<run, count, at, disabling, calls, setter, unscheduled, killed>>

(* Mutant: the running callback is not waited for.                         *)
KillGoesOn(c) ==
    /\ call[c] = "killWait"
    /\ CallTo(c, "killEnd")
    /\ UNCHANGED <<sched, run, count, at, disabling, calls, histVars>>

KillWait(c) ==
    /\ call[c] = "killWait"
    /\ ~run
    /\ CallTo(c, "killEnd")
    /\ UNCHANGED <<sched, run, count, at, disabling, calls, histVars>>

KillReturns(c) ==
    /\ call[c] = "killEnd"
    /\ count' = count - 1
    /\ CallTo(c, "idle")
    /\ killed' = (killed \/ c \in unscheduled)
    /\ unscheduled' = unscheduled \ {c}
    /\ UNCHANGED <<sched, run, at, disabling, calls, setter, owed, stolen>>

-----------------------------------------------------------------------------
(* lcompat_tasklet_worker: while disabled it ends once nothing is          *)
(* scheduled.                                                              *)
ReadCount(k) ==
    /\ at[k] = "count"
    /\ WorkerTo(k, IF count > 0 THEN "disabled" ELSE "trylock")
    /\ UNCHANGED <<sched, run, count, call, disabling, calls, histVars>>

WaitEnabled(k) ==
    /\ at[k] = "disabled"
    /\ WorkerTo(k, IF sched THEN "count" ELSE "off")
    /\ UNCHANGED <<sched, run, count, call, disabling, calls, histVars>>

(* Mutants: the bit is set without a test; a task that finds it set ends.  *)
TryLockUntested(k) ==
    /\ at[k] = "trylock"
    /\ run' = TRUE
    /\ WorkerTo(k, "take")
    /\ UNCHANGED <<sched, count, call, disabling, calls, histVars>>

TryLockGivesUp(k) ==
    /\ at[k] = "trylock"
    /\ run' = TRUE
    /\ WorkerTo(k, IF run THEN "off" ELSE "take")
    /\ UNCHANGED <<sched, count, call, disabling, calls, histVars>>

TryLock(k) ==
    /\ at[k] = "trylock"
    /\ run' = TRUE
    /\ WorkerTo(k, IF run THEN "count" ELSE "take")
    /\ UNCHANGED <<sched, count, call, disabling, calls, histVars>>

(* Mutant: SCHED is not cleared when the callback is invoked.              *)
TakeSchedLate(k) ==
    /\ at[k] = "take"
    /\ WorkerTo(k, IF sched THEN "invoke" ELSE "drop")
    /\ UNCHANGED <<sched, run, count, call, disabling, calls, histVars>>

TakeSched(k) ==
    /\ at[k] = "take"
    /\ sched' = FALSE
    /\ WorkerTo(k, IF sched THEN "invoke" ELSE "drop")
    /\ IF sched THEN owed' = FALSE /\ stolen' = FALSE ELSE UNCHANGED <<owed, stolen>>
    /\ UNCHANGED <<run, count, call, disabling, calls, setter, unscheduled, killed>>

Drop(k) ==
    /\ at[k] = "drop"
    /\ run' = FALSE
    /\ WorkerTo(k, "off")
    /\ UNCHANGED <<sched, count, call, disabling, calls, histVars>>

CallbackReturns(k) ==
    /\ at[k] = "invoke" /\ call[k] = "idle"
    /\ WorkerTo(k, "unlock")
    /\ UNCHANGED <<sched, run, count, call, disabling, calls, histVars>>

Unlock(k) ==
    /\ at[k] = "unlock"
    /\ run' = FALSE
    /\ WorkerTo(k, "again")
    /\ UNCHANGED <<sched, count, call, disabling, calls, histVars>>

Again(k) ==
    /\ at[k] = "again"
    /\ WorkerTo(k, IF sched THEN "count" ELSE "off")
    /\ UNCHANGED <<sched, run, count, call, disabling, calls, histVars>>

-----------------------------------------------------------------------------
Init ==
    /\ sched = FALSE /\ run = FALSE /\ count = 0
    /\ at = [k \in Workers |-> "off"]
    /\ call = [t \in Threads |-> "idle"]
    /\ disabling = {} /\ calls = MaxCalls
    /\ setter = None /\ owed = FALSE /\ stolen = FALSE /\ unscheduled = {} /\ killed = FALSE

WorkerStep(k) ==
    \/ ReadCount(k) \/ WaitEnabled(k) \/ TryLock(k) \/ TakeSched(k) \/ Drop(k)
    \/ CallbackReturns(k) \/ Unlock(k) \/ Again(k)

CallStep(t) == CreateTask(t) \/ CreateFails(t)

WaitStep(c) == DisableReturns(c) \/ KillClear(c) \/ KillWait(c) \/ KillReturns(c)

Next ==
    \/ \E t \in Threads : SetSched(t) \/ CallStep(t)
    \/ \E c \in Callers : Disable(c) \/ Enable(c) \/ Kill(c) \/ WaitStep(c)
    \/ \E k \in Workers : WorkerStep(k)

Spec == Init /\ [][Next]_vars

(* Every task that can run does, and whoever disables enables again.       *)
Fairness ==
    /\ \A k \in Workers : WF_vars(WorkerStep(k))
    /\ \A t \in Threads : WF_vars(CallStep(t))
    /\ \A c \in Callers : WF_vars(WaitStep(c)) /\ WF_vars(Enable(c))

FairSpec == Spec /\ Fairness

-----------------------------------------------------------------------------
Killing == {c \in Callers : call[c] \in {"killClear", "killWait", "killEnd"}}

Holding == {"take", "drop", "invoke", "unlock"}

(* Types; the disable count is the number of calls that hold it up.        *)
TypeOK ==
    /\ sched \in BOOLEAN /\ run \in BOOLEAN
    /\ at \in [Workers -> {"off", "count", "disabled", "trylock", "again"} \cup Holding]
    /\ call \in [Threads -> {"idle", "create", "disableWait", "killClear",
                             "killWait", "killEnd"}]
    /\ disabling \subseteq Callers
    /\ calls \in 0 .. MaxCalls
    /\ count = Cardinality(disabling) + Cardinality(Killing)
    /\ setter \in Threads \cup {None} /\ owed \in BOOLEAN /\ stolen \in BOOLEAN
    /\ unscheduled \subseteq Callers /\ killed \in BOOLEAN

(* The callback of a tasklet never runs twice at the same time, although   *)
(* every schedule creates a task of its own.                               *)
MutualExclusion ==
    \A j, k \in Workers : at[j] \in Holding /\ at[k] \in Holding => j = k

(* A set SCHED bit has somebody who will look at it: a call that is about  *)
(* to create a task, or a task before its last look.  A schedule that has  *)
(* created its task is not forgotten before its turn, except that a call   *)
(* whose task could not be created may clear the bit of a later one.       *)
ScheduleNotLost ==
    /\ sched => \/ \E t \in Threads : call[t] = "create"
                \/ \E k \in Workers : at[k] \notin {"off", "drop"}
    /\ owed => sched \/ stolen

(* Every claim on the callback, SCHED or a hold of `count`, has its owner. *)
TaskletInv == TypeOK /\ ScheduleNotLost

(* After a kill during which nobody scheduled the tasklet it is idle: not  *)
(* scheduled, and no task will invoke it.                                  *)
KillQuiet == killed => ~sched /\ \A k \in Workers : at[k] # "invoke"

(* What is scheduled is invoked or killed, or taken back by a schedule     *)
(* whose task could not be created.                                        *)
ScheduledRuns == sched ~> ~sched
=============================================================================
