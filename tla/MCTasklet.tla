------------------------------ MODULE MCTasklet ------------------------------
(* Instances of Tasklet and Timer for TLC.  A tasklet and a timer share no *)
(* state: a behavior is about one of them, chosen at the start.            *)
EXTENDS Tasklet, Timer

CONSTANTS k1, k2, k3, c1, c2

VARIABLE kind

AllVars == <<kind, vars, timerVars>>

KindInit == Init /\ TimerInit /\ kind \in {"tasklet", "timer"}

KindNext ==
    /\ UNCHANGED kind
    /\ \/ kind = "tasklet" /\ Next /\ UNCHANGED timerVars
       \/ kind = "timer" /\ TimerNext /\ UNCHANGED vars

KindSpec == KindInit /\ [][KindNext]_AllVars /\ Fairness /\ TimerFairness
=============================================================================
