---------------------------- MODULE WorkContract ----------------------------
(***************************************************************************)
(* What the workqueue promises the drivers above it, one work at a time: a *)
(* queue_work that returns true makes the work pending, and a pending work *)
(* is started once or canceled once; a work that runs is not started again *)
(* before its function has returned.                                       *)
(***************************************************************************)
CONSTANT Works

VARIABLES pending,  \* works accepted and neither started nor canceled since
          running   \* works whose function has not returned

vars == <<pending, running>>

Init == pending = {} /\ running = {}

Accept(w) ==
    /\ w \notin pending
    /\ pending' = pending \cup {w}
    /\ UNCHANGED running

Start(w) ==
    /\ w \in pending \ running
    /\ pending' = pending \ {w}
    /\ running' = running \cup {w}

Finish(w) ==
    /\ w \in running
    /\ running' = running \ {w}
    /\ UNCHANGED pending

Cancel(w) ==
    /\ w \in pending
    /\ pending' = pending \ {w}
    /\ UNCHANGED running

Next == \E w \in Works : Accept(w) \/ Start(w) \/ Finish(w) \/ Cancel(w)

Spec == Init /\ [][Next]_vars

(* A pending work does not wait for ever, and a function that returned is  *)
(* recorded as finished.                                                   *)
FairSpec ==
    /\ Spec
    /\ \A w \in Works : SF_vars(Start(w) \/ Cancel(w)) /\ WF_vars(Finish(w))
=============================================================================
