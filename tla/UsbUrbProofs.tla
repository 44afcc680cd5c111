----------------------------- MODULE UsbUrbProofs -----------------------------
(***************************************************************************)
(* Theorems about UsbUrb, for any number of URBs, endpoints, drivers and   *)
(* host-controller contexts.  A submitted URB stands in exactly one place; *)
(* every other claim rests on that: the host controller's callback finds   *)
(* the submission still in progress, so that the pipe is handed on and     *)
(* never abandoned, and every reference has one owner who will put it.     *)
(***************************************************************************)
EXTENDS UsbUrb, FiniteSetTheorems, TLAPS

(* Types; the count of references is shown to be natural further down.     *)
Shape ==
    /\ submitted \subseteq Urbs /\ killed \subseteq Urbs /\ zlp \subseteq Urbs
    /\ held \subseteq Urbs /\ busy \subseteq Endpoints
    /\ refs \in [Urbs -> Int]
    /\ pending \in [Endpoints -> Seq(Urbs)]
    /\ flight \in [Urbs -> Nat]
    /\ pc \in [Threads -> {"idle", "kill"} \cup SubmitPcs]
    /\ arg \in [Threads -> Urbs \cup {None}]
    /\ cpc \in [Completers ->
         {"off", "entered", "claim", "report", "calling", "callback", "pop", "free"}
         \cup NextPcs]
    /\ cur \in [Completers -> Urbs \cup {None}]
    /\ whole \in [Completers -> BOOLEAN]
    /\ next \in [Completers -> Urbs \cup {None}]
    /\ submits \in 0 .. MaxSubmits
    /\ epOf \in PipeMaps
    /\ \A t \in Threads : pc[t] # "idle" => arg[t] \in Urbs
    /\ \A c \in Completers : cpc[c] # "off" => cur[c] \in Urbs
    /\ \A c \in Completers : cpc[c] \in NextPcs => next[c] \in Urbs

(* The places that look at a queue have one, and what is queued on an      *)
(* endpoint belongs to it.                                                 *)
Routed ==
    /\ \A t \in Threads : pc[t] \in {"look", "append", "undo"} => epOf[arg[t]] \in Endpoints
    /\ \A c \in Completers :
          cpc[c] \in {"pop"} \cup NextPcs => epOf[cur[c]] \in Endpoints
    /\ \A c \in Completers :
          cpc[c] \in {"submitnext", "release"} => epOf[next[c]] = epOf[cur[c]]
    /\ \A e \in Endpoints : \A i \in 1 .. Len(pending[e]) : epOf[pending[e][i]] = e

(* Where a submission can stand: with the host controller, in a queue,     *)
(* with a caller, in a completion, or popped and about to be started.      *)
Starts(t, u)  == arg[t] = u /\ pc[t] \in SubmitPcs \ {"drop"}
Ends(c, u)    == cur[c] = u /\ cpc[c] \in {"entered", "claim"}
Inherits(c, u) == next[c] = u /\ CAt(c, "submitnext")

InFlight(u) == flight[u] > 0
Queued(u)   == \E e \in Endpoints : \E i \in 1 .. Len(pending[e]) : pending[e][i] = u
Started(u)  == \E t \in Threads : Starts(t, u)
Ended(u)    == \E c \in Completers : Ends(c, u)
Passed(u)   == \E c \in Completers : Inherits(c, u)

(* One place of each kind.                                                 *)
Single ==
    /\ \A u \in Urbs : flight[u] \in {0, 1}
    /\ \A e \in Endpoints : \A i, j \in 1 .. Len(pending[e]) :
          pending[e][i] = pending[e][j] => i = j
    /\ \A u \in Urbs : \A s, t \in Threads : Starts(s, u) /\ Starts(t, u) => s = t
    /\ \A u \in Urbs : \A c, d \in Completers : Ends(c, u) /\ Ends(d, u) => c = d
    /\ \A u \in Urbs : \A c, d \in Completers : Inherits(c, u) /\ Inherits(d, u) => c = d

(* One kind at a time, and `submitted` says whether there is one.          *)
OneKind(u) ==
    /\ InFlight(u) => ~Queued(u) /\ ~Started(u) /\ ~Ended(u) /\ ~Passed(u)
    /\ Queued(u) => ~Started(u) /\ ~Ended(u) /\ ~Passed(u)
    /\ Started(u) => ~Ended(u) /\ ~Passed(u)
    /\ Ended(u) => ~Passed(u)
    /\ u \in submitted <=>
          InFlight(u) \/ Queued(u) \/ Started(u) \/ Ended(u) \/ Passed(u)

PlaceInv == Shape /\ Routed /\ Single /\ \A u \in Urbs : OneKind(u)

-----------------------------------------------------------------------------
LEMMA PlaceInit == Init => PlaceInv
<1> SUFFICES ASSUME Init PROVE PlaceInv
  OBVIOUS
<1> USE UsbAssumption
<1>1. Shape
  BY DEF Init, Shape, NextPcs, SubmitPcs
<1>2. Routed
  BY DEF Init, Routed, NextPcs
<1>3. Single
  BY DEF Init, Single, Starts, Ends, Inherits, CAt, SubmitPcs
<1>4. \A u \in Urbs : OneKind(u)
  BY DEF Init, OneKind, InFlight, Queued, Started, Ended, Passed, Starts, Ends, Inherits,
         CAt, SubmitPcs
<1> QED BY <1>1, <1>2, <1>3, <1>4 DEF PlaceInv

(* A step that moves no submission.                                        *)
Unmoved ==
    /\ UNCHANGED <<submitted, flight, pending, epOf>>
    /\ \A t \in Threads, u \in Urbs : Starts(t, u)' <=> Starts(t, u)
    /\ \A c \in Completers, u \in Urbs : Ends(c, u)' <=> Ends(c, u)
    /\ \A c \in Completers, u \in Urbs : Inherits(c, u)' <=> Inherits(c, u)

LEMMA UnmovedKeeps ==
    ASSUME PlaceInv, Unmoved
    PROVE  Single' /\ \A u \in Urbs : OneKind(u)'
BY DEF PlaceInv, Unmoved, Single, OneKind, InFlight, Queued, Started, Ended, Passed

(* usb_submit_urb up to the queue or the host controller.                  *)
LEMMA PlaceSubmit ==
    ASSUME PlaceInv, NEW t \in Threads, NEW u \in Urbs, SubmitUrb(t, u)
    PROVE  PlaceInv'
<1> USE UsbAssumption DEF Goto, At, pipeVars, doneVars
<1>1. Shape'
  BY DEF PlaceInv, Shape, SubmitUrb, MayCall, SubmitPcs
<1>2. Routed'
  BY DEF PlaceInv, Shape, Routed, SubmitUrb, SubmitPcs
<1>3. /\ \A s \in Threads, v \in Urbs : Starts(s, v)' <=> Starts(s, v) \/ (s = t /\ v = u)
      /\ \A s \in Threads : ~Starts(s, u)
  BY DEF PlaceInv, Shape, SubmitUrb, MayCall, Submitting, Starts, SubmitPcs
<1>4. /\ \A c \in Completers, v \in Urbs : Ends(c, v)' <=> Ends(c, v)
      /\ \A c \in Completers, v \in Urbs : Inherits(c, v)' <=> Inherits(c, v)
  BY DEF SubmitUrb, Ends, Inherits, CAt
<1>5. Single'
  BY <1>3, <1>4 DEF PlaceInv, Single, SubmitUrb
<1>6. \A v \in Urbs : OneKind(v)'
  BY <1>3, <1>4 DEF PlaceInv, OneKind, InFlight, Queued, Started, Ended, Passed, SubmitUrb
<1> QED BY <1>1, <1>2, <1>5, <1>6 DEF PlaceInv

LEMMA PlaceStart ==
    ASSUME PlaceInv, NEW t \in Threads, Prepare(t) \/ LookAtPipe(t) \/ UndoBusy(t)
    PROVE  PlaceInv'
<1> USE UsbAssumption DEF Goto, At, urbVars, pipeVars, doneVars, driverVars
<1>0. arg[t] \in Urbs /\ epOf \in [Urbs -> Endpoints \cup {None}]
  BY DEF PlaceInv, Shape, Prepare, LookAtPipe, UndoBusy
<1>1. Shape'
  <2>1. CASE Prepare(t)
    BY <1>0, <2>1 DEF PlaceInv, Shape, Prepare, SubmitPcs
  <2>2. CASE LookAtPipe(t) \/ UndoBusy(t)
    BY ZenonT(60), <1>0, <2>2 DEF PlaceInv, Shape, Routed, LookAtPipe, UndoBusy, SubmitPcs
  <2> QED BY <2>1, <2>2
<1>2. Routed'
  BY SMTT(30), <1>0 DEF PlaceInv, Shape, Routed, Prepare, LookAtPipe, UndoBusy, SubmitPcs
<1>3. Unmoved
  BY DEF PlaceInv, Shape, Unmoved, Prepare, LookAtPipe, UndoBusy, Starts, Ends, Inherits,
         CAt, SubmitPcs
<1> QED BY <1>1, <1>2, <1>3, UnmovedKeeps DEF PlaceInv

LEMMA PlaceAppend ==
    ASSUME PlaceInv, NEW t \in Threads, AppendUrb(t)
    PROVE  PlaceInv'
<1> USE UsbAssumption DEF Goto, At, Leave, urbVars, doneVars, driverVars
<1> SUFFICES ASSUME NEW u \in Urbs, u = arg[t], NEW e \in Endpoints, e = epOf[u]
             PROVE  PlaceInv'
  BY DEF PlaceInv, Shape, Routed, AppendUrb
<1>0. /\ pc[t] = "append"
      /\ pending[e] \in Seq(Urbs) /\ Len(pending[e]) \in Nat
  BY DEF PlaceInv, Shape, Routed, AppendUrb
<1>1. Shape'
  BY <1>0 DEF PlaceInv, Shape, AppendUrb, SubmitPcs
<1>2. /\ \A f \in Endpoints \ {e} : pending'[f] = pending[f]
      /\ Len(pending'[e]) = Len(pending[e]) + 1
      /\ pending'[e][Len(pending[e]) + 1] = u
      /\ \A i \in 1 .. Len(pending[e]) : pending'[e][i] = pending[e][i]
  BY <1>0 DEF PlaceInv, Shape, AppendUrb
<1>3. Routed'
  <2>1. \A f \in Endpoints : \A i \in 1 .. Len(pending'[f]) : epOf[pending'[f][i]] = f
    BY SMTT(30), <1>0, <1>2 DEF PlaceInv, Routed
  <2>2. \A s \in Threads : pc'[s] \in {"look", "append", "undo"} => epOf[arg'[s]] \in Endpoints
    BY <1>0 DEF PlaceInv, Shape, Routed, AppendUrb, SubmitPcs
  <2> QED BY <2>1, <2>2 DEF PlaceInv, Routed, AppendUrb
<1>4. /\ \A s \in Threads, v \in Urbs : Starts(s, v)' <=> Starts(s, v) /\ v # u
      /\ Starts(t, u)
  BY <1>0 DEF PlaceInv, Shape, Single, AppendUrb, Starts, SubmitPcs
<1>5. /\ \A c \in Completers, v \in Urbs : Ends(c, v)' <=> Ends(c, v)
      /\ \A c \in Completers, v \in Urbs : Inherits(c, v)' <=> Inherits(c, v)
  BY DEF AppendUrb, Ends, Inherits, CAt
<1>6. ~Queued(u)
  BY <1>0, <1>4 DEF PlaceInv, OneKind, Started
<1>7. \A v \in Urbs : Queued(v)' <=> Queued(v) \/ v = u
  <2>1. ASSUME NEW v \in Urbs, Queued(v) PROVE Queued(v)'
    BY <1>0, <1>2, <2>1 DEF Queued
  <2>2. Queued(u)'
    BY <1>0, <1>2 DEF Queued
  <2>3. ASSUME NEW v \in Urbs, Queued(v)', v # u PROVE Queued(v)
    BY <1>0, <1>2, <2>3 DEF Queued
  <2> QED BY <1>0, <2>1, <2>2, <2>3
<1>8. Single'
  <2>1. \A f \in Endpoints : \A i, j \in 1 .. Len(pending'[f]) :
           pending'[f][i] = pending'[f][j] => i = j
    BY SMTT(30), <1>0, <1>2, <1>6 DEF PlaceInv, Single, Queued
  <2> QED BY <1>4, <1>5, <2>1 DEF PlaceInv, Single, AppendUrb
<1>9. \A v \in Urbs : OneKind(v)'
  BY <1>0, <1>4, <1>5, <1>7 DEF PlaceInv, OneKind, InFlight, Started, Ended, Passed, AppendUrb
<1> QED BY <1>1, <1>3, <1>8, <1>9 DEF PlaceInv

LEMMA PlaceNative ==
    ASSUME PlaceInv, NEW t \in Threads, SubmitNative(t)
    PROVE  PlaceInv'
<1> USE UsbAssumption DEF Goto, At, Leave, NativeAccept, urbVars, doneVars, driverVars
<1> SUFFICES ASSUME NEW u \in Urbs, u = arg[t] PROVE PlaceInv'
  BY DEF PlaceInv, Shape, SubmitNative
<1>0. pc[t] = "native" /\ epOf \in [Urbs -> Endpoints \cup {None}]
  BY DEF PlaceInv, Shape, SubmitNative
<1>2. Routed'
  BY <1>0 DEF PlaceInv, Shape, Routed, SubmitNative, SubmitPcs
<1>3. Starts(t, u)
  BY <1>0 DEF Starts, SubmitPcs
<1>4. /\ \A c \in Completers, v \in Urbs : Ends(c, v)' <=> Ends(c, v)
      /\ \A c \in Completers, v \in Urbs : Inherits(c, v)' <=> Inherits(c, v)
  BY DEF SubmitNative, Ends, Inherits, CAt
<1>5. CASE NativeAccept(u) /\ Leave(t)
  <2>0. Shape'
    BY <1>0, <1>5 DEF PlaceInv, Shape, SubmitNative, SubmitPcs
  <2>1. \A s \in Threads, v \in Urbs : Starts(s, v)' <=> Starts(s, v) /\ v # u
    BY <1>0, <1>3, <1>5 DEF PlaceInv, Shape, Single, Starts, SubmitPcs
  <2>2. flight[u] = 0 /\ ~Queued(u) /\ ~Ended(u) /\ ~Passed(u) /\ u \in submitted
    <3>1. OneKind(u) /\ Started(u) /\ flight[u] \in Nat
      BY <1>0, <1>3 DEF PlaceInv, Shape, Started
    <3> QED BY <3>1 DEF OneKind, InFlight
  <2>3. Single'
    BY <1>0, <1>4, <1>5, <2>1, <2>2 DEF PlaceInv, Shape, Single, SubmitNative
  <2>4. \A v \in Urbs : v # u =>
           /\ InFlight(v)' <=> InFlight(v)
           /\ Started(v)' <=> Started(v)
    BY <1>0, <1>5, <2>1 DEF PlaceInv, Shape, InFlight, Started
  <2>5. InFlight(u)' /\ ~Started(u)'
    BY <1>0, <1>5, <2>1, <2>2 DEF PlaceInv, Shape, InFlight, Started
  <2>6. \A v \in Urbs : /\ Queued(v)' <=> Queued(v)
                        /\ Ended(v)' <=> Ended(v)
                        /\ Passed(v)' <=> Passed(v)
                        /\ v \in submitted' <=> v \in submitted
    BY <1>4 DEF SubmitNative, Queued, Ended, Passed
  <2>7. \A v \in Urbs : OneKind(v)'
    BY <2>2, <2>4, <2>5, <2>6 DEF PlaceInv, OneKind
  <2> QED BY <1>2, <2>0, <2>3, <2>7 DEF PlaceInv
<1>6. CASE UNCHANGED <<flight, arg>>
  <2>a. /\ \E l \in {"idle", "undo", "unsubmit"} : pc' = [pc EXCEPT ![t] = l]
        /\ UNCHANGED <<submitted, killed, refs, zlp, pending, busy, cpc, cur, whole, next,
                       held, submits, epOf>>
    BY <1>6 DEF SubmitNative
  <2>0. Shape'
    BY <1>0, <1>6, <2>a DEF PlaceInv, Shape, SubmitPcs
  <2>1. Unmoved
    BY <1>0, <1>4, <1>6 DEF PlaceInv, Shape, Unmoved, SubmitNative, Starts, SubmitPcs
  <2> QED BY <1>2, <2>0, <2>1, UnmovedKeeps DEF PlaceInv
<1> QED BY <1>5, <1>6 DEF SubmitNative

(* A refused submission takes `submitted` back and leaves its place in the *)
(* same step; then it puts its reference.                                  *)
LEMMA PlaceUndo ==
    ASSUME PlaceInv, NEW t \in Threads, UndoSubmitted(t) \/ UndoReference(t)
    PROVE  PlaceInv'
<1> USE UsbAssumption DEF Goto, At, Leave, PutUrb, pipeVars, doneVars, driverVars
<1> SUFFICES ASSUME NEW u \in Urbs, u = arg[t] PROVE PlaceInv'
  BY DEF PlaceInv, Shape, UndoSubmitted, UndoReference
<1>1. CASE UndoReference(t)
  <2>1. Shape'
    BY <1>1 DEF PlaceInv, Shape, UndoReference, SubmitPcs
  <2>2. Routed'
    BY <1>1 DEF PlaceInv, Shape, Routed, UndoReference, SubmitPcs
  <2>3. Unmoved
    BY <1>1 DEF PlaceInv, Shape, Unmoved, UndoReference, Starts, Ends, Inherits, CAt, SubmitPcs
  <2> QED BY <2>1, <2>2, <2>3, UnmovedKeeps DEF PlaceInv
<1>2. CASE UndoSubmitted(t)
  <2>1. Shape'
    BY <1>2 DEF PlaceInv, Shape, UndoSubmitted, SubmitPcs
  <2>2. Routed'
    BY <1>2 DEF PlaceInv, Shape, Routed, UndoSubmitted, SubmitPcs
  <2>3. Starts(t, u)
    BY <1>2 DEF UndoSubmitted, Starts, SubmitPcs
  <2>4. \A s \in Threads, v \in Urbs : Starts(s, v)' <=> Starts(s, v) /\ v # u
    BY <1>2, <2>3 DEF PlaceInv, Shape, Single, UndoSubmitted, Starts, SubmitPcs
  <2>5. \A v \in Urbs : /\ InFlight(v)' <=> InFlight(v)
                        /\ Queued(v)' <=> Queued(v)
                        /\ Started(v)' <=> Started(v) /\ v # u
                        /\ Ended(v)' <=> Ended(v)
                        /\ Passed(v)' <=> Passed(v)
    BY <1>2, <2>4 DEF UndoSubmitted, InFlight, Queued, Started, Ended, Passed, Ends,
                      Inherits, CAt
  <2>6. Started(u)
    BY <2>3 DEF Started
  <2>7. \A v \in Urbs : OneKind(v)'
    BY <1>2, <2>5, <2>6 DEF PlaceInv, OneKind, UndoSubmitted
  <2>8. Single'
    BY <1>2, <2>4 DEF PlaceInv, Single, UndoSubmitted, Ends, Inherits, CAt
  <2> QED BY <2>1, <2>2, <2>7, <2>8 DEF PlaceInv
<1> QED BY <1>1, <1>2

(* The other calls of the driver.                                          *)
LEMMA PlaceDriver ==
    ASSUME PlaceInv, NEW t \in Threads,
           KillReturns(t) \/ \E u \in Urbs : KillUrb(t, u) \/ DriverFree(t, u)
    PROVE  PlaceInv'
<1> USE UsbAssumption
    DEF Goto, At, Leave, PutUrb, urbVars, pipeVars, callVars, doneVars, driverVars
<1>1. CASE KillReturns(t)
  <2>1. Shape'
    BY <1>1 DEF PlaceInv, Shape, KillReturns, SubmitPcs
  <2>2. Routed' /\ Unmoved
    BY <1>1 DEF PlaceInv, Shape, Routed, Unmoved, KillReturns, Starts, Ends, Inherits, CAt,
                SubmitPcs
  <2> QED BY <2>1, <2>2, UnmovedKeeps DEF PlaceInv
<1>2. ASSUME NEW u \in Urbs, KillUrb(t, u) PROVE PlaceInv'
  <2>1. Shape'
    BY <1>2 DEF PlaceInv, Shape, KillUrb, SubmitPcs
  <2>2. Routed' /\ Unmoved
    BY <1>2 DEF PlaceInv, Shape, Routed, Unmoved, KillUrb, Starts, Ends, Inherits, CAt,
                SubmitPcs
  <2> QED BY <2>1, <2>2, UnmovedKeeps DEF PlaceInv
<1>3. ASSUME NEW u \in Urbs, DriverFree(t, u) PROVE PlaceInv'
  <2>1. Shape'
    BY <1>3 DEF PlaceInv, Shape, DriverFree
  <2>2. Routed' /\ Unmoved
    BY <1>3 DEF PlaceInv, Shape, Routed, Unmoved, DriverFree, Starts, Ends, Inherits, CAt
  <2> QED BY <2>1, <2>2, UnmovedKeeps DEF PlaceInv
<1> QED BY <1>1, <1>2, <1>3

(* The completion callback, where it moves nothing.                        *)
LEMMA PlaceComplete ==
    ASSUME PlaceInv, NEW c \in Completers,
           \/ NoZlp(c) \/ Report(c) \/ StartCallback(c) \/ CallbackReturns(c)
           \/ ReleasePipe(c) \/ ReportNext(c) \/ StartNextCallback(c)
           \/ NextCallbackReturns(c) \/ FreeNext(c) \/ FreeCompleted(c)
    PROVE  PlaceInv'
<1> USE UsbAssumption
    DEF CGoto, CAt, CLeave, PutUrb, urbVars, pipeVars, callVars, doneVars, driverVars
<1>0. epOf \in [Urbs -> Endpoints \cup {None}] /\ cur[c] \in Urbs
  BY DEF PlaceInv, Shape, NoZlp, Report, StartCallback, CallbackReturns, ReleasePipe,
         ReportNext, StartNextCallback, NextCallbackReturns, FreeNext, FreeCompleted
<1>1. CASE NoZlp(c)
  <2>1. Shape'
    BY <1>0, <1>1 DEF PlaceInv, Shape, NoZlp, NextPcs
  <2>2. Routed' /\ Unmoved
    BY <1>0, <1>1 DEF PlaceInv, Shape, Routed, Unmoved, NoZlp, Starts, Ends, Inherits, NextPcs
  <2> QED BY <2>1, <2>2, UnmovedKeeps DEF PlaceInv
<1>2. CASE Report(c) \/ StartCallback(c) \/ CallbackReturns(c)
  <2>0. /\ cpc[c] \in {"report", "calling", "callback"}
        /\ \E l \in {"calling", "callback", "pop", "free"} :
              /\ cpc' = [cpc EXCEPT ![c] = l]
              /\ l = "pop" => epOf[cur[c]] \in Endpoints
        /\ UNCHANGED <<submitted, killed, refs, zlp, pending, busy, flight, pc, arg,
                       cur, whole, next, held, submits, epOf>>
    BY <1>0, <1>2 DEF Report, StartCallback, CallbackReturns, AfterCallback
  <2>1. Shape'
    BY <1>0, <2>0 DEF PlaceInv, Shape, NextPcs
  <2>2. Routed' /\ Unmoved
    BY <1>0, <2>0 DEF PlaceInv, Shape, Routed, Unmoved, Starts, Ends, Inherits, NextPcs
  <2> QED BY <2>1, <2>2, UnmovedKeeps DEF PlaceInv
<1>3. CASE ReleasePipe(c) \/ ReportNext(c) \/ StartNextCallback(c) \/ NextCallbackReturns(c)
  <2>0. /\ cpc[c] \in NextPcs \ {"submitnext"}
        /\ \E l \in NextPcs \ {"submitnext", "release"} : cpc' = [cpc EXCEPT ![c] = l]
        /\ UNCHANGED <<submitted, killed, refs, zlp, pending, flight, pc, arg,
                       cur, whole, next, held, submits, epOf>>
        /\ busy' \subseteq busy
    BY <1>0, <1>3 DEF ReleasePipe, ReportNext, StartNextCallback, NextCallbackReturns, NextPcs
  <2>1. Shape'
    BY <1>0, <2>0 DEF PlaceInv, Shape, NextPcs
  <2>2. Routed'
    BY <1>0, <2>0 DEF PlaceInv, Shape, Routed, NextPcs
  <2>3. Unmoved
    BY <1>0, <2>0 DEF PlaceInv, Shape, Unmoved, Starts, Ends, Inherits, NextPcs
  <2> QED BY <2>1, <2>2, <2>3, UnmovedKeeps DEF PlaceInv
<1>4. CASE FreeNext(c)
  <2>1. Shape'
    BY <1>0, <1>4 DEF PlaceInv, Shape, FreeNext, NextPcs
  <2>2. Routed' /\ Unmoved
    BY <1>0, <1>4 DEF PlaceInv, Shape, Routed, Unmoved, FreeNext, Starts, Ends, Inherits, NextPcs
  <2> QED BY <2>1, <2>2, UnmovedKeeps DEF PlaceInv
<1>5. CASE FreeCompleted(c)
  <2>1. Shape'
    BY <1>0, <1>5 DEF PlaceInv, Shape, FreeCompleted, NextPcs
  <2>2. Routed' /\ Unmoved
    BY <1>0, <1>5 DEF PlaceInv, Shape, Routed, Unmoved, FreeCompleted, Starts, Ends, Inherits,
                      NextPcs
  <2> QED BY <2>1, <2>2, UnmovedKeeps DEF PlaceInv
<1> QED BY <1>1, <1>2, <1>3, <1>4, <1>5

(* The host controller ends a transfer: the submission it was taken for is *)
(* still in progress, and moves to the completion.                         *)
LEMMA PlaceTake ==
    ASSUME PlaceInv, NEW c \in Completers, NEW u \in Urbs, NEW o \in BOOLEAN,
           TakeCompletion(c, u, o)
    PROVE  PlaceInv'
<1> USE UsbAssumption DEF CGoto, CAt, urbVars, callVars, driverVars
<1>0. InFlight(u) /\ u \in submitted /\ flight[u] = 1
  BY DEF PlaceInv, Shape, Single, OneKind, TakeCompletion, InFlight
<1>a. /\ cpc[c] = "off" /\ cpc' = [cpc EXCEPT ![c] = "entered"]
      /\ flight' = [flight EXCEPT ![u] = 0]
      /\ cur' = [cur EXCEPT ![c] = u] /\ whole' = [whole EXCEPT ![c] = o]
      /\ UNCHANGED <<urbVars, pending, busy, callVars, next, driverVars>>
  BY <1>0 DEF TakeCompletion
<1>1. Shape'
  BY <1>a DEF PlaceInv, Shape, NextPcs
<1>2. Routed'
  BY <1>a DEF PlaceInv, Shape, Routed, NextPcs
<1>3. \A d \in Completers, v \in Urbs : Ends(d, v)' <=> Ends(d, v) \/ (d = c /\ v = u)
  BY <1>0 DEF PlaceInv, Shape, TakeCompletion, Ends
<1>4. /\ \A s \in Threads, v \in Urbs : Starts(s, v)' <=> Starts(s, v)
      /\ \A d \in Completers, v \in Urbs : Inherits(d, v)' <=> Inherits(d, v)
  BY <1>0 DEF PlaceInv, Shape, TakeCompletion, Starts, Inherits
<1>5. \A v \in Urbs : /\ InFlight(v)' <=> InFlight(v) /\ v # u
                      /\ Queued(v)' <=> Queued(v)
                      /\ Started(v)' <=> Started(v)
                      /\ Ended(v)' <=> Ended(v) \/ v = u
                      /\ Passed(v)' <=> Passed(v)
  BY <1>0, <1>3, <1>4 DEF PlaceInv, Shape, TakeCompletion, InFlight, Queued, Started, Ended, Passed
<1>6. \A v \in Urbs : OneKind(v)'
  BY <1>0, <1>5 DEF PlaceInv, OneKind, TakeCompletion
<1>7. Single'
  <2>1. \A d \in Completers : ~Ends(d, u)
    BY <1>0 DEF PlaceInv, OneKind, Ended
  <2>2. \A v \in Urbs : flight'[v] \in {0, 1}
    BY <1>0 DEF PlaceInv, Shape, Single, TakeCompletion
  <2> QED BY <1>3, <1>4, <2>1, <2>2 DEF PlaceInv, Single, TakeCompletion
<1> QED BY <1>1, <1>2, <1>6, <1>7 DEF PlaceInv

(* A zero packet takes the submission back to the host controller.         *)
LEMMA PlaceZlp ==
    ASSUME PlaceInv, NEW c \in Completers, SendZlp(c)
    PROVE  PlaceInv'
<1> USE UsbAssumption DEF CGoto, CAt, CLeave, NativeAccept, callVars, driverVars
<1> SUFFICES ASSUME NEW u \in Urbs, u = cur[c] PROVE PlaceInv'
  BY DEF PlaceInv, Shape, SendZlp
<1>0. cpc[c] = "entered" /\ Ends(c, u) /\ Ended(u) /\ flight[u] = 0
  <2>1. cpc[c] = "entered" /\ Ends(c, u) /\ Ended(u)
    BY DEF SendZlp, Ends, Ended
  <2> QED BY <2>1 DEF PlaceInv, Shape, Single, OneKind, InFlight
<1>1. CASE NativeAccept(u) /\ zlp' = zlp \cup {u} /\ CLeave(c)
  <2>1. Shape'
    BY <1>0, <1>1 DEF PlaceInv, Shape, SendZlp, NextPcs
  <2>2. Routed'
    BY <1>0, <1>1 DEF PlaceInv, Shape, Routed, SendZlp, NextPcs
  <2>3. \A d \in Completers, v \in Urbs : Ends(d, v)' <=> Ends(d, v) /\ v # u
    BY <1>0, <1>1 DEF PlaceInv, Shape, Single, SendZlp, Ends
  <2>4. /\ \A s \in Threads, v \in Urbs : Starts(s, v)' <=> Starts(s, v)
        /\ \A d \in Completers, v \in Urbs : Inherits(d, v)' <=> Inherits(d, v)
    BY <1>0, <1>1 DEF PlaceInv, Shape, SendZlp, Starts, Inherits
  <2>5. \A v \in Urbs : /\ InFlight(v)' <=> InFlight(v) \/ v = u
                        /\ Queued(v)' <=> Queued(v)
                        /\ Started(v)' <=> Started(v)
                        /\ Ended(v)' <=> Ended(v) /\ v # u
                        /\ Passed(v)' <=> Passed(v)
    BY <1>0, <1>1, <2>3, <2>4
       DEF PlaceInv, Shape, SendZlp, InFlight, Queued, Started, Ended, Passed
  <2>6. \A v \in Urbs : OneKind(v)'
    BY <1>0, <2>5 DEF PlaceInv, OneKind, SendZlp
  <2>7. \A v \in Urbs : flight'[v] \in {0, 1}
    BY <1>0, <1>1 DEF PlaceInv, Shape, Single
  <2>8. Single'
    BY <2>3, <2>4, <2>7 DEF PlaceInv, Single, SendZlp
  <2> QED BY <2>1, <2>2, <2>6, <2>8 DEF PlaceInv
<1>2. CASE cpc' = [cpc EXCEPT ![c] = "claim"] /\ UNCHANGED <<flight, zlp, cur, next>>
           /\ whole' = [whole EXCEPT ![c] = FALSE]
  <2>1. Shape'
    BY <1>0, <1>2 DEF PlaceInv, Shape, SendZlp, NextPcs
  <2>2. Routed' /\ Unmoved
    BY <1>0, <1>2 DEF PlaceInv, Shape, Routed, Unmoved, SendZlp, Starts, Ends, Inherits, NextPcs
  <2> QED BY <2>1, <2>2, UnmovedKeeps DEF PlaceInv
<1> QED BY <1>1, <1>2 DEF SendZlp

(* The compare-and-swap finds the submission in progress: it cannot fail.  *)
LEMMA PlaceClaim ==
    ASSUME PlaceInv, NEW c \in Completers, ClaimCompletion(c)
    PROVE  PlaceInv'
<1> USE UsbAssumption DEF CGoto, CAt, pipeVars, callVars, driverVars
<1> SUFFICES ASSUME NEW u \in Urbs, u = cur[c] PROVE PlaceInv'
  BY DEF PlaceInv, Shape, ClaimCompletion
<1>0. cpc[c] = "claim" /\ Ends(c, u) /\ Ended(u) /\ u \in submitted
  <2>1. cpc[c] = "claim" /\ Ends(c, u) /\ Ended(u)
    BY DEF ClaimCompletion, Ends, Ended
  <2> QED BY <2>1 DEF PlaceInv, OneKind
<1>1. Shape'
  BY ZenonT(60), <1>0 DEF PlaceInv, Shape, ClaimCompletion, NextPcs
<1>2. Routed'
  BY <1>0 DEF PlaceInv, Shape, Routed, ClaimCompletion, NextPcs
<1>3. \A d \in Completers, v \in Urbs : Ends(d, v)' <=> Ends(d, v) /\ v # u
  BY <1>0 DEF PlaceInv, Shape, Single, ClaimCompletion, Ends
<1>4. /\ \A s \in Threads, v \in Urbs : Starts(s, v)' <=> Starts(s, v)
      /\ \A d \in Completers, v \in Urbs : Inherits(d, v)' <=> Inherits(d, v)
  BY <1>0 DEF PlaceInv, Shape, ClaimCompletion, Starts, Inherits
<1>5. \A v \in Urbs : /\ InFlight(v)' <=> InFlight(v)
                      /\ Queued(v)' <=> Queued(v)
                      /\ Started(v)' <=> Started(v)
                      /\ Ended(v)' <=> Ended(v) /\ v # u
                      /\ Passed(v)' <=> Passed(v)
  BY <1>3, <1>4 DEF ClaimCompletion, InFlight, Queued, Started, Ended, Passed
<1>6. \A v \in Urbs : OneKind(v)'
  BY <1>0, <1>5 DEF PlaceInv, OneKind, ClaimCompletion
<1>7. Single'
  BY <1>3, <1>4 DEF PlaceInv, Single, ClaimCompletion
<1> QED BY <1>1, <1>2, <1>6, <1>7 DEF PlaceInv

(* The head of the queue leaves it for the completion that popped it; the  *)
(* others move up by one.                                                  *)
LEMMA PlacePop ==
    ASSUME PlaceInv, NEW c \in Completers, PopPending(c)
    PROVE  PlaceInv'
<1> USE UsbAssumption DEF CGoto, CAt, urbVars, callVars, driverVars
<1> SUFFICES ASSUME NEW e \in Endpoints, e = epOf[cur[c]] PROVE PlaceInv'
  BY DEF PlaceInv, Shape, Routed, PopPending
<1>0. /\ cpc[c] = "pop" /\ cur[c] \in Urbs /\ epOf \in [Urbs -> Endpoints \cup {None}]
      /\ pending[e] \in Seq(Urbs) /\ Len(pending[e]) \in Nat
  BY DEF PlaceInv, Shape, PopPending
<1>1. CASE pending[e] = <<>>
  <2>1. Shape'
    BY <1>0, <1>1 DEF PlaceInv, Shape, PopPending, NextPcs
  <2>2. Routed' /\ Unmoved
    BY <1>0, <1>1 DEF PlaceInv, Shape, Routed, Unmoved, PopPending, Starts, Ends, Inherits, NextPcs
  <2> QED BY <2>1, <2>2, UnmovedKeeps DEF PlaceInv
<1>2. CASE pending[e] # <<>>
  <2>0. PICK u \in Urbs : u = Head(pending[e])
    BY <1>0, <1>2
  <2>a. /\ pending' = [pending EXCEPT ![e] = Tail(pending[e])]
        /\ next' = [next EXCEPT ![c] = u]
        /\ cpc' = [cpc EXCEPT ![c] = "submitnext"]
        /\ UNCHANGED <<urbVars, busy, flight, callVars, cur, whole, driverVars>>
    BY <1>2, <2>0 DEF PopPending
  <2>b. /\ Len(pending[e]) > 0 /\ pending[e][1] = u
        /\ Tail(pending[e]) \in Seq(Urbs) /\ Len(Tail(pending[e])) = Len(pending[e]) - 1
        /\ \A i \in 1 .. Len(pending[e]) - 1 : Tail(pending[e])[i] = pending[e][i + 1]
    BY <1>0, <1>2, <2>0
  <2>1. /\ \A f \in Endpoints \ {e} : pending'[f] = pending[f]
        /\ pending'[e] \in Seq(Urbs) /\ Len(pending'[e]) = Len(pending[e]) - 1
        /\ \A i \in 1 .. Len(pending[e]) - 1 : pending'[e][i] = pending[e][i + 1]
    BY <2>a, <2>b DEF PlaceInv, Shape
  <2>2. Shape'
    <3>1. pending' \in [Endpoints -> Seq(Urbs)]
      BY <2>a, <2>b DEF PlaceInv, Shape
    <3> QED BY <1>0, <2>a, <3>1 DEF PlaceInv, Shape, NextPcs
  <2>3. Queued(u)
    BY <1>0, <2>b DEF Queued
  <2>4. epOf[u] = e
    BY <1>0, <2>b DEF PlaceInv, Routed
  <2>5. Routed'
    <3>1. \A f \in Endpoints : \A i \in 1 .. Len(pending'[f]) : epOf[pending'[f][i]] = f
      <4>1. \A f \in Endpoints : \A i \in 1 .. Len(pending[f]) : epOf[pending[f][i]] = f
        BY DEF PlaceInv, Routed
      <4>2. ASSUME NEW i \in 1 .. Len(pending'[e]) PROVE epOf[pending'[e][i]] = e
        <5>1. i + 1 \in 1 .. Len(pending[e]) /\ i \in 1 .. Len(pending[e]) - 1
          BY <1>0, <2>1
        <5>2. pending'[e][i] = pending[e][i + 1]
          BY <2>1, <5>1
        <5> QED BY <1>0, <4>1, <5>1, <5>2
      <4>3. ASSUME NEW f \in Endpoints \ {e}, NEW i \in 1 .. Len(pending'[f])
            PROVE  epOf[pending'[f][i]] = f
        BY <2>1, <4>1, <4>3
      <4> QED BY <4>2, <4>3
    <3>2. \A d \in Completers :
             /\ cpc'[d] \in {"pop"} \cup NextPcs => epOf[cur[d]] \in Endpoints
             /\ cpc'[d] \in {"submitnext", "release"} => epOf[next'[d]] = epOf[cur[d]]
      BY <1>0, <2>a, <2>4 DEF PlaceInv, Shape, Routed, NextPcs
    <3> QED BY <2>a, <3>1, <3>2 DEF PlaceInv, Routed
  <2>6. \A d \in Completers, v \in Urbs : Inherits(d, v)' <=> Inherits(d, v) \/ (d = c /\ v = u)
    BY <1>0, <2>a DEF PlaceInv, Shape, Inherits
  <2>7. /\ \A s \in Threads, v \in Urbs : Starts(s, v)' <=> Starts(s, v)
        /\ \A d \in Completers, v \in Urbs : Ends(d, v)' <=> Ends(d, v)
    BY <1>0, <2>a DEF PlaceInv, Shape, Starts, Ends
  <2>8. \A v \in Urbs : Queued(v)' <=> Queued(v) /\ v # u
    <3>1. ~Queued(u)'
      <4>1. \A f \in Endpoints \ {e} : \A i \in 1 .. Len(pending[f]) : pending[f][i] # u
        BY <2>4 DEF PlaceInv, Routed
      <4>2. \A i \in 1 .. Len(pending[e]) - 1 : pending[e][i + 1] # u
        BY <1>0, <2>b DEF PlaceInv, Single
      <4>3. ASSUME NEW i \in 1 .. Len(pending'[e]) PROVE pending'[e][i] # u
        <5>1. i \in 1 .. Len(pending[e]) - 1 /\ i + 1 \in 1 .. Len(pending[e])
          BY <1>0, <2>1
        <5> QED BY <2>1, <4>2, <5>1
      <4>4. ASSUME NEW f \in Endpoints \ {e}, NEW i \in 1 .. Len(pending'[f])
            PROVE  pending'[f][i] # u
        BY <2>1, <4>1
      <4> QED BY <4>3, <4>4 DEF Queued
    <3>2. ASSUME NEW v \in Urbs, Queued(v)' PROVE Queued(v)
      BY <1>0, <2>1, <3>2 DEF Queued
    <3>3. ASSUME NEW v \in Urbs, Queued(v), v # u PROVE Queued(v)'
      <4>1. PICK f \in Endpoints : \E i \in 1 .. Len(pending[f]) : pending[f][i] = v
        BY <3>3 DEF Queued
      <4>2. CASE f # e
        BY <2>1, <4>1, <4>2 DEF Queued
      <4>3. CASE f = e
        <5>1. PICK i \in 1 .. Len(pending[e]) : pending[e][i] = v
          BY <4>1, <4>3
        <5>2. i - 1 \in 1 .. Len(pending'[e]) /\ pending'[e][i - 1] = v
          BY <1>0, <2>b, <2>1, <3>3, <5>1
        <5> QED BY <5>2 DEF Queued
      <4> QED BY <4>2, <4>3
    <3> QED BY <3>1, <3>2, <3>3
  <2>9. \A v \in Urbs : OneKind(v)'
    <3>1. \A v \in Urbs : /\ InFlight(v)' <=> InFlight(v)
                          /\ Started(v)' <=> Started(v)
                          /\ Ended(v)' <=> Ended(v)
                          /\ Passed(v)' <=> Passed(v) \/ v = u
      BY <2>a, <2>6, <2>7 DEF InFlight, Started, Ended, Passed
    <3> QED BY <2>a, <2>3, <2>8, <3>1 DEF PlaceInv, OneKind
  <2>10. Single'
    <3>1. \A f \in Endpoints : \A i, j \in 1 .. Len(pending'[f]) :
             pending'[f][i] = pending'[f][j] => i = j
      <4>1. \A f \in Endpoints : \A i, j \in 1 .. Len(pending[f]) :
               pending[f][i] = pending[f][j] => i = j
        BY DEF PlaceInv, Single
      <4>2. \A i, j \in 1 .. Len(pending'[e]) : pending'[e][i] = pending'[e][j] => i = j
        <5> SUFFICES ASSUME NEW i \in 1 .. Len(pending'[e]), NEW j \in 1 .. Len(pending'[e]),
                            pending'[e][i] = pending'[e][j]
                     PROVE  i = j
          OBVIOUS
        <5>1. /\ i + 1 \in 1 .. Len(pending[e]) /\ j + 1 \in 1 .. Len(pending[e])
              /\ pending[e][i + 1] = pending[e][j + 1]
          BY <1>0, <2>1
        <5> QED BY <4>1, <5>1
      <4> QED BY <2>1, <4>1, <4>2
    <3>2. \A d \in Completers : ~Inherits(d, u)
      BY <2>3 DEF PlaceInv, OneKind, Passed
    <3> QED BY <2>a, <2>6, <2>7, <3>1, <3>2 DEF PlaceInv, Single
  <2> QED BY <2>2, <2>5, <2>9, <2>10 DEF PlaceInv
<1> QED BY <1>1, <1>2

(* The popped URB goes to the host controller, or its submission ends.     *)
LEMMA PlaceNext ==
    ASSUME PlaceInv, NEW c \in Completers, SubmitNext(c)
    PROVE  PlaceInv'
<1> USE UsbAssumption DEF CGoto, CAt, NativeAccept, callVars, driverVars
<1> SUFFICES ASSUME NEW u \in Urbs, u = next[c] PROVE PlaceInv'
  BY DEF PlaceInv, Shape, SubmitNext, NextPcs
<1>0. cpc[c] = "submitnext" /\ Inherits(c, u) /\ Passed(u) /\ flight[u] = 0
  <2>1. cpc[c] = "submitnext" /\ Inherits(c, u) /\ Passed(u)
    BY DEF SubmitNext, Inherits, Passed
  <2> QED BY <2>1 DEF PlaceInv, Shape, Single, OneKind, InFlight
<1>1. Shape'
  <2>0. flight \in [Urbs -> Nat] /\ submitted \subseteq Urbs
    BY DEF PlaceInv, Shape
  <2>1. flight' \in [Urbs -> Nat] /\ submitted' \subseteq Urbs
    <3>1. CASE NativeAccept(u) /\ UNCHANGED submitted
      BY <2>0, <3>1
    <3>2. CASE UNCHANGED flight /\ submitted' = submitted \ {u}
      BY <2>0, <3>2
    <3> QED BY <3>1, <3>2 DEF SubmitNext
  <2>2. \E l \in {"free", "release"} : cpc' = [cpc EXCEPT ![c] = l]
    BY DEF SubmitNext
  <2> QED BY <1>0, <2>1, <2>2 DEF PlaceInv, Shape, SubmitNext, NextPcs
<1>2. Routed'
  BY <1>0 DEF PlaceInv, Shape, Routed, SubmitNext, NextPcs
<1>3. \A d \in Completers, v \in Urbs : Inherits(d, v)' <=> Inherits(d, v) /\ v # u
  BY <1>0 DEF PlaceInv, Shape, Single, SubmitNext, Inherits
<1>4. /\ \A s \in Threads, v \in Urbs : Starts(s, v)' <=> Starts(s, v)
      /\ \A d \in Completers, v \in Urbs : Ends(d, v)' <=> Ends(d, v)
  BY <1>0 DEF PlaceInv, Shape, SubmitNext, Starts, Ends
<1>5. \A v \in Urbs : /\ Queued(v)' <=> Queued(v)
                      /\ Started(v)' <=> Started(v)
                      /\ Ended(v)' <=> Ended(v)
                      /\ Passed(v)' <=> Passed(v) /\ v # u
  BY <1>3, <1>4 DEF SubmitNext, Queued, Started, Ended, Passed
<1>6. /\ \A v \in Urbs : flight'[v] \in {0, 1}
      /\ \A v \in Urbs \ {u} : InFlight(v)' <=> InFlight(v)
      /\ u \in submitted' <=> InFlight(u)'
      /\ \A v \in Urbs \ {u} : v \in submitted' <=> v \in submitted
  <2>0. u \in submitted
    BY <1>0 DEF PlaceInv, OneKind
  <2>1. CASE NativeAccept(u) /\ UNCHANGED submitted
    BY <1>0, <2>0, <2>1 DEF PlaceInv, Shape, Single, InFlight
  <2>2. CASE UNCHANGED flight /\ submitted' = submitted \ {u}
    BY <1>0, <2>0, <2>2 DEF PlaceInv, Shape, Single, InFlight
  <2> QED BY <2>1, <2>2 DEF SubmitNext
<1>7. \A v \in Urbs : OneKind(v)'
  BY <1>0, <1>5, <1>6 DEF PlaceInv, OneKind
<1>8. Single'
  BY <1>3, <1>4, <1>6 DEF PlaceInv, Single, SubmitNext
<1> QED BY <1>1, <1>2, <1>7, <1>8 DEF PlaceInv

LEMMA PlaceStep == PlaceInv /\ [Next]_vars => PlaceInv'
<1> SUFFICES ASSUME PlaceInv, [Next]_vars PROVE PlaceInv'
  OBVIOUS
<1>1. ASSUME NEW t \in Threads, Call(t) \/ CallStep(t) PROVE PlaceInv'
  BY <1>1, PlaceSubmit, PlaceStart, PlaceAppend, PlaceNative, PlaceUndo, PlaceDriver
     DEF Call, CallStep
<1>2. ASSUME NEW c \in Completers, CompletionStep(c) PROVE PlaceInv'
  BY <1>2, PlaceComplete, PlaceTake, PlaceZlp, PlaceClaim, PlacePop, PlaceNext
     DEF CompletionStep
<1>3. CASE UNCHANGED vars
  <2>1. Shape' /\ Routed' /\ Unmoved
    BY <1>3 DEF vars, urbVars, pipeVars, callVars, doneVars, driverVars, PlaceInv, Shape,
                Routed, Unmoved, Starts, Ends, Inherits, CAt
  <2> QED BY <2>1, UnmovedKeeps DEF PlaceInv
<1> QED BY <1>1, <1>2, <1>3 DEF Next

-----------------------------------------------------------------------------
(* The queue an URB can be in; empty if no wrapper has its pipe.           *)
QueueLen(u) == IF epOf[u] = None THEN 0 ELSE Len(pending[epOf[u]])

(* Owners and Places, by kind of place.                                    *)
LEMMA OwnerKinds ==
    ASSUME PlaceInv, NEW u \in Urbs, NEW p
    PROVE  p \in Owners(u) <=>
              \/ u \in held /\ p = <<"driver", u>>
              \/ \E i \in 1 .. QueueLen(u) : pending[epOf[u]][i] = u /\ p = <<"pending", i>>
              \/ \E i \in 1 .. flight[u] : p = <<"flight", i>>
              \/ \E t \in Threads : Submitting(t, u) /\ pc[t] # "unkill" /\ p = <<"caller", t>>
              \/ \E c \in Completers : cpc[c] # "off" /\ cur[c] = u /\ p = <<"callback", c>>
              \/ \E c \in Completers : cpc[c] \in NextPcs /\ next[c] = u /\ p = <<"next", c>>
BY DEF Owners, QueueLen, NextPcs

LEMMA PlaceKinds ==
    ASSUME PlaceInv, NEW u \in Urbs, NEW p
    PROVE  p \in Places(u) <=>
              \/ \E i \in 1 .. QueueLen(u) : pending[epOf[u]][i] = u /\ p = <<"pending", i>>
              \/ \E i \in 1 .. flight[u] : p = <<"flight", i>>
              \/ \E t \in Threads : Starts(t, u) /\ pc[t] # "unkill" /\ p = <<"caller", t>>
              \/ \E c \in Completers : Ends(c, u) /\ p = <<"callback", c>>
              \/ \E c \in Completers : Inherits(c, u) /\ p = <<"next", c>>
<1>1. p \in Places(u) <=> /\ p \in Owners(u)
                          /\ \/ p[1] \in {"pending", "flight"}
                             \/ p[1] = "caller" /\ pc[p[2]] # "drop"
                             \/ p[1] = "callback" /\ cpc[p[2]] \in {"entered", "claim"}
                             \/ p[1] = "next" /\ cpc[p[2]] = "submitnext"
  BY DEF Places
<1> QED BY <1>1, OwnerKinds
           DEF Starts, Ends, Inherits, CAt, Submitting, SubmitPcs, NextPcs

LEMMA QueuedAt ==
    ASSUME PlaceInv, NEW u \in Urbs
    PROVE  Queued(u) <=> \E i \in 1 .. QueueLen(u) : pending[epOf[u]][i] = u
<1>1. epOf[u] \in Endpoints \cup {None} /\ None \notin Endpoints
  BY UsbAssumption DEF PlaceInv, Shape
<1> QED BY <1>1 DEF PlaceInv, Routed, Queued, QueueLen

(* usb_submit_urb to completion: a submitted URB stands in one place, an   *)
(* URB that is not submitted in none.                                      *)
THEOREM OnePlace == Spec => []SubmittedHasOnePlace
<1>1. PlaceInv => SubmittedHasOnePlace
  <2> SUFFICES ASSUME PlaceInv, NEW u \in Urbs
               PROVE  LET starting == \E t \in Threads : Submitting(t, u) /\ At(t, "unkill") IN
                      Cardinality(Places(u)) + (IF starting THEN 1 ELSE 0)
                         = IF u \in submitted THEN 1 ELSE 0
    BY DEF SubmittedHasOnePlace
  <2> DEFINE starting == \E t \in Threads : Submitting(t, u) /\ At(t, "unkill")
  <2>0. OneKind(u) /\ Single /\ flight[u] \in {0, 1}
    BY DEF PlaceInv, Single
  <2>1. starting => Started(u)
    BY DEF Submitting, At, Started, Starts, SubmitPcs
  <2>2. CASE u \notin submitted
    <3>1. ~starting /\ Places(u) = {}
      BY <2>0, <2>1, <2>2, QueuedAt, PlaceKinds DEF OneKind, InFlight, Started, Ended, Passed
    <3> QED BY <2>2, <3>1, FS_EmptySet
  <2>3. ASSUME u \in submitted, ~starting, NEW p, Places(u) = {p}
        PROVE  Cardinality(Places(u)) + (IF starting THEN 1 ELSE 0) = 1
    <3>1. Cardinality({p}) = 1
      BY FS_Singleton
    <3>2. Cardinality(Places(u)) = 1
      BY <2>3, <3>1
    <3> HIDE DEF starting
    <3> QED BY <2>3, <3>2
  <2>4. CASE InFlight(u)
    <3>1. flight[u] = 1 /\ u \in submitted /\ ~starting
      BY <2>0, <2>1, <2>4 DEF OneKind, InFlight
    <3>2. \A q : q \in Places(u) <=> q = <<"flight", 1>>
      BY <2>0, <2>4, <3>1, QueuedAt, PlaceKinds DEF OneKind, Started, Ended, Passed
    <3>3. Places(u) = {<<"flight", 1>>}
      BY <3>2
    <3> QED BY <2>3, <3>1, <3>3
  <2>5. CASE Queued(u)
    <3>1. flight[u] = 0 /\ u \in submitted /\ ~starting
      BY <2>0, <2>1, <2>5 DEF OneKind, InFlight
    <3>2. PICK i \in 1 .. QueueLen(u) : pending[epOf[u]][i] = u
      BY <2>5, QueuedAt
    <3>3. epOf[u] \in Endpoints /\ QueueLen(u) = Len(pending[epOf[u]])
      BY <3>2, UsbAssumption DEF QueueLen, PlaceInv, Shape
    <3>4. \A j \in 1 .. QueueLen(u) : pending[epOf[u]][j] = u => j = i
      BY <2>0, <3>2, <3>3 DEF Single
    <3>5. \A q : q \in Places(u) <=> q = <<"pending", i>>
      BY <2>0, <2>5, <3>1, <3>2, <3>4, PlaceKinds DEF OneKind, Started, Ended, Passed
    <3>6. Places(u) = {<<"pending", i>>}
      BY <3>5
    <3> QED BY <2>3, <3>1, <3>6
  <2>6. CASE Started(u)
    <3>1. flight[u] = 0 /\ u \in submitted
      BY <2>0, <2>6 DEF OneKind, InFlight
    <3>2. PICK t \in Threads : Starts(t, u)
      BY <2>6 DEF Started
    <3>3. starting <=> pc[t] = "unkill"
      BY <2>0, <3>2 DEF Single, Starts, Submitting, At, SubmitPcs
    <3>4. \A q : q \in Places(u) <=> q = <<"caller", t>> /\ pc[t] # "unkill"
      BY <2>0, <2>6, <3>1, <3>2, QueuedAt, PlaceKinds DEF OneKind, Single, Ended, Passed
    <3>5. CASE pc[t] = "unkill"
      <4>1. Places(u) = {}
        BY <3>4, <3>5
      <4> QED BY <3>1, <3>3, <3>5, <4>1, FS_EmptySet
    <3>6. CASE pc[t] # "unkill"
      <4>1. Places(u) = {<<"caller", t>>}
        BY <3>4, <3>6
      <4> QED BY <2>3, <3>1, <3>3, <3>6, <4>1
    <3> QED BY <3>5, <3>6
  <2>7. CASE Ended(u)
    <3>1. flight[u] = 0 /\ u \in submitted /\ ~starting
      BY <2>0, <2>1, <2>7 DEF OneKind, InFlight
    <3>2. PICK c \in Completers : Ends(c, u)
      BY <2>7 DEF Ended
    <3>3. \A q : q \in Places(u) <=> q = <<"callback", c>>
      BY <2>0, <2>7, <3>1, <3>2, QueuedAt, PlaceKinds DEF OneKind, Single, Started, Passed
    <3>4. Places(u) = {<<"callback", c>>}
      BY <3>3
    <3> QED BY <2>3, <3>1, <3>4
  <2>8. CASE Passed(u)
    <3>1. flight[u] = 0 /\ u \in submitted /\ ~starting
      BY <2>0, <2>1, <2>8 DEF OneKind, InFlight
    <3>2. PICK c \in Completers : Inherits(c, u)
      BY <2>8 DEF Passed
    <3>3. \A q : q \in Places(u) <=> q = <<"next", c>>
      BY <2>0, <2>8, <3>1, <3>2, QueuedAt, PlaceKinds DEF OneKind, Single, Started, Ended
    <3>4. Places(u) = {<<"next", c>>}
      BY <3>3
    <3> QED BY <2>3, <3>1, <3>4
  <2> QED BY <2>0, <2>2, <2>4, <2>5, <2>6, <2>7, <2>8 DEF OneKind
<1> QED BY <1>1, PlaceInit, PlaceStep, PTL DEF Spec

-----------------------------------------------------------------------------
(* The references.  RefOf is the claim of RefsExact for one URB, with the  *)
(* finiteness that counting needs.                                         *)
RefOf(u) == IsFiniteSet(Owners(u)) /\ refs[u] = Cardinality(Owners(u))

RefInv == \A u \in Urbs : RefOf(u)

Carries(t, u)   == Submitting(t, u) /\ pc[t] # "unkill"
Completes(c, u) == cpc[c] # "off" /\ cur[c] = u
Brings(c, u)    == cpc[c] \in NextPcs /\ next[c] = u

Owns(u, p) ==
    \/ u \in held /\ p = <<"driver", u>>
    \/ \E i \in 1 .. QueueLen(u) : pending[epOf[u]][i] = u /\ p = <<"pending", i>>
    \/ \E i \in 1 .. flight[u] : p = <<"flight", i>>
    \/ \E t \in Threads : Carries(t, u) /\ p = <<"caller", t>>
    \/ \E c \in Completers : Completes(c, u) /\ p = <<"callback", c>>
    \/ \E c \in Completers : Brings(c, u) /\ p = <<"next", c>>

LEMMA OwnersOwn ==
    ASSUME NEW u \in Urbs, NEW p
    PROVE  /\ p \in Owners(u) <=> Owns(u, p)
           /\ p \in Owners(u)' <=> Owns(u, p)'
BY DEF Owners, Owns, Carries, Completes, Brings, QueueLen, NextPcs

(* What a step can do to the owners of one URB.                            *)
LEMMA RefKept ==
    ASSUME NEW u \in Urbs, RefOf(u), \A p : Owns(u, p)' <=> Owns(u, p), refs'[u] = refs[u]
    PROVE  RefOf(u)'
<1>1. Owners(u)' = Owners(u)
  BY OwnersOwn
<1> QED BY <1>1 DEF RefOf

LEMMA RefTaken ==
    ASSUME NEW u \in Urbs, RefOf(u), NEW a, ~Owns(u, a),
           \A p : Owns(u, p)' <=> Owns(u, p) \/ p = a, refs'[u] = refs[u] + 1
    PROVE  RefOf(u)'
<1>1. Owners(u)' = Owners(u) \cup {a} /\ a \notin Owners(u)
  BY OwnersOwn
<1> QED BY <1>1, FS_AddElement DEF RefOf

LEMMA RefPut ==
    ASSUME NEW u \in Urbs, RefOf(u), NEW a, Owns(u, a),
           \A p : Owns(u, p)' <=> Owns(u, p) /\ p # a, refs'[u] = refs[u] - 1
    PROVE  RefOf(u)'
<1>1. Owners(u)' = Owners(u) \ {a} /\ a \in Owners(u)
  BY OwnersOwn
<1> QED BY <1>1, FS_RemoveElement DEF RefOf

LEMMA RefMoved ==
    ASSUME NEW u \in Urbs, RefOf(u), NEW a, NEW b, Owns(u, a), ~Owns(u, b),
           \A p : Owns(u, p)' <=> (Owns(u, p) /\ p # a) \/ p = b, refs'[u] = refs[u]
    PROVE  RefOf(u)'
<1> DEFINE rest == Owners(u) \ {a}
<1>1. Owners(u)' = rest \cup {b} /\ b \notin rest /\ a \in Owners(u)
  BY OwnersOwn
<1>2. IsFiniteSet(rest) /\ Cardinality(rest) = Cardinality(Owners(u)) - 1
  BY <1>1, FS_RemoveElement DEF RefOf
<1>3. IsFiniteSet(rest \cup {b}) /\ Cardinality(rest \cup {b}) = Cardinality(rest) + 1
  BY <1>1, <1>2, FS_AddElement
<1>4. Cardinality(Owners(u)) \in Nat
  BY FS_CardinalityType DEF RefOf
<1> QED BY <1>1, <1>2, <1>3, <1>4 DEF RefOf

(* A step without any effect on them.                                      *)
LEMMA RefFrame ==
    ASSUME RefInv, UNCHANGED <<held, pending, flight, epOf, refs>>,
           \A t \in Threads, u \in Urbs : Carries(t, u)' <=> Carries(t, u),
           \A c \in Completers, u \in Urbs : Completes(c, u)' <=> Completes(c, u),
           \A c \in Completers, u \in Urbs : Brings(c, u)' <=> Brings(c, u)
    PROVE  RefInv'
<1>1. ASSUME NEW u \in Urbs PROVE \A p : Owns(u, p)' <=> Owns(u, p)
  BY DEF Owns, QueueLen
<1> QED BY <1>1, RefKept DEF RefInv

LEMMA RefInit == Init => RefInv
<1> SUFFICES ASSUME Init, NEW u \in Urbs PROVE RefOf(u)
  BY DEF RefInv
<1> USE UsbAssumption
<1>1. \A p : p \in Owners(u) <=> p = <<"driver", u>>
  <2>1. \A p : Owns(u, p) <=> p = <<"driver", u>>
    BY DEF Init, Owns, QueueLen, Carries, Completes, Brings, Submitting, NextPcs, SubmitPcs
  <2> QED BY <2>1, OwnersOwn
<1>2. Owners(u) = {<<"driver", u>>}
  BY <1>1
<1> QED BY <1>2, FS_Singleton DEF Init, RefOf

(* Calls that only look, or that stand where no reference is.              *)
LEMMA RefCallKeeps ==
    ASSUME PlaceInv, RefInv, NEW t \in Threads,
           \/ LookAtPipe(t) \/ UndoBusy(t) \/ UndoSubmitted(t) \/ KillReturns(t)
           \/ \E u \in Urbs : SubmitUrb(t, u) \/ KillUrb(t, u)
    PROVE  RefInv'
<1> USE DEF Goto, At, Leave, urbVars, pipeVars, doneVars, driverVars
<1>1. UNCHANGED <<held, pending, flight, epOf, refs, cpc, cur, next>>
  BY DEF LookAtPipe, UndoBusy, UndoSubmitted, KillReturns, SubmitUrb, KillUrb
<1>2. \A s \in Threads, v \in Urbs : Carries(s, v)' <=> Carries(s, v)
  <2>1. CASE LookAtPipe(t) \/ UndoBusy(t) \/ UndoSubmitted(t)
    BY <2>1 DEF PlaceInv, Shape, LookAtPipe, UndoBusy, UndoSubmitted, Carries, Submitting,
                SubmitPcs
  <2>2. CASE KillReturns(t) \/ \E u \in Urbs : SubmitUrb(t, u) \/ KillUrb(t, u)
    BY <2>2 DEF PlaceInv, Shape, KillReturns, SubmitUrb, MayCall, KillUrb, Carries,
                Submitting, SubmitPcs
  <2> QED BY <2>1, <2>2
<1> QED BY <1>1, <1>2, RefFrame DEF Completes, Brings

(* usb_submit_urb takes a reference and puts it where it fails; a driver   *)
(* puts its own.                                                           *)
LEMMA RefCallCounts ==
    ASSUME PlaceInv, RefInv, NEW t \in Threads,
           Prepare(t) \/ UndoReference(t) \/ \E u \in Urbs : DriverFree(t, u)
    PROVE  RefInv'
<1> USE DEF Goto, At, Leave, PutUrb, urbVars, pipeVars, callVars, doneVars, driverVars
<1>1. CASE Prepare(t)
  <2> SUFFICES ASSUME NEW u \in Urbs, u = arg[t], NEW v \in Urbs PROVE RefOf(v)'
    BY <1>1 DEF PlaceInv, Shape, Prepare, RefInv
  <2>1. UNCHANGED <<held, pending, flight, epOf, cpc, cur, next>>
    BY <1>1 DEF Prepare
  <2>2. /\ \A s \in Threads, w \in Urbs :
              Carries(s, w)' <=> Carries(s, w) \/ (s = t /\ w = u)
        /\ \A w \in Urbs : ~Carries(t, w)
    BY <1>1 DEF PlaceInv, Shape, Prepare, Carries, Submitting, SubmitPcs
  <2>3. CASE v = u
    <3>1. ~Owns(u, <<"caller", t>>)
      BY <2>2 DEF Owns
    <3>2. \A p : Owns(u, p)' <=> Owns(u, p) \/ p = <<"caller", t>>
      BY <2>1, <2>2 DEF Owns, QueueLen, Completes, Brings
    <3>3. refs'[u] = refs[u] + 1
      BY <1>1 DEF Prepare, PlaceInv, Shape
    <3> QED BY <2>3, <3>1, <3>2, <3>3, RefTaken DEF RefInv
  <2>4. CASE v # u
    <3>1. \A p : Owns(v, p)' <=> Owns(v, p)
      BY <2>1, <2>2, <2>4 DEF Owns, QueueLen, Completes, Brings
    <3>2. refs'[v] = refs[v]
      BY <1>1, <2>4 DEF Prepare, PlaceInv, Shape
    <3> QED BY <3>1, <3>2, RefKept DEF RefInv
  <2> QED BY <2>3, <2>4
<1>2. CASE UndoReference(t)
  <2> SUFFICES ASSUME NEW u \in Urbs, u = arg[t], NEW v \in Urbs PROVE RefOf(v)'
    BY <1>2 DEF PlaceInv, Shape, UndoReference, RefInv
  <2>1. UNCHANGED <<held, pending, flight, epOf, cpc, cur, next>>
    BY <1>2 DEF UndoReference
  <2>2. /\ \A s \in Threads, w \in Urbs : Carries(s, w)' <=> Carries(s, w) /\ s # t
        /\ \A w \in Urbs : Carries(t, w) <=> w = u
    BY <1>2 DEF PlaceInv, Shape, UndoReference, Carries, Submitting, SubmitPcs
  <2>3. CASE v = u
    <3>1. Owns(u, <<"caller", t>>)
      BY <2>2 DEF Owns
    <3>2. \A p : Owns(u, p)' <=> Owns(u, p) /\ p # <<"caller", t>>
      BY <2>1, <2>2 DEF Owns, QueueLen, Completes, Brings
    <3>3. refs'[u] = refs[u] - 1
      BY <1>2 DEF UndoReference, PlaceInv, Shape
    <3> QED BY <2>3, <3>1, <3>2, <3>3, RefPut DEF RefInv
  <2>4. CASE v # u
    <3>1. \A p : Owns(v, p)' <=> Owns(v, p)
      BY <2>1, <2>2, <2>4 DEF Owns, QueueLen, Completes, Brings
    <3>2. refs'[v] = refs[v]
      BY <1>2, <2>4 DEF UndoReference, PlaceInv, Shape
    <3> QED BY <3>1, <3>2, RefKept DEF RefInv
  <2> QED BY <2>3, <2>4
<1>3. ASSUME NEW u \in Urbs, DriverFree(t, u) PROVE RefInv'
  <2> SUFFICES ASSUME NEW v \in Urbs PROVE RefOf(v)'
    BY DEF RefInv
  <2>1. UNCHANGED <<pending, flight, epOf, pc, arg, cpc, cur, next>>
    BY <1>3 DEF DriverFree
  <2>2. held' = held \ {u} /\ u \in held
    BY <1>3 DEF DriverFree
  <2>3. CASE v = u
    <3>1. Owns(u, <<"driver", u>>)
      BY <2>2 DEF Owns
    <3>2. \A p : Owns(u, p)' <=> Owns(u, p) /\ p # <<"driver", u>>
      BY <2>1, <2>2 DEF Owns, QueueLen, Carries, Submitting, Completes, Brings
    <3>3. refs'[u] = refs[u] - 1
      BY <1>3 DEF DriverFree, PlaceInv, Shape
    <3> QED BY <2>3, <3>1, <3>2, <3>3, RefPut DEF RefInv
  <2>4. CASE v # u
    <3>1. \A p : Owns(v, p)' <=> Owns(v, p)
      BY <2>1, <2>2, <2>4 DEF Owns, QueueLen, Carries, Submitting, Completes, Brings
    <3>2. refs'[v] = refs[v]
      BY <1>3, <2>4 DEF DriverFree, PlaceInv, Shape
    <3> QED BY <3>1, <3>2, RefKept DEF RefInv
  <2> QED BY <2>3, <2>4
<1> QED BY <1>1, <1>2, <1>3

(* The reference of the submission goes to the queue with the URB.         *)
LEMMA RefAppend ==
    ASSUME PlaceInv, RefInv, NEW t \in Threads, AppendUrb(t)
    PROVE  RefInv'
<1> USE UsbAssumption DEF Goto, At, Leave, urbVars, doneVars, driverVars
<1> SUFFICES ASSUME NEW u \in Urbs, u = arg[t], NEW e \in Endpoints, e = epOf[u],
                    NEW v \in Urbs
             PROVE  RefOf(v)'
  BY DEF PlaceInv, Shape, Routed, AppendUrb, RefInv
<1>0. /\ pc[t] = "append" /\ e # None
      /\ pending[e] \in Seq(Urbs) /\ Len(pending[e]) \in Nat
      /\ UNCHANGED <<held, refs, flight, epOf, cpc, cur, next>>
  BY DEF PlaceInv, Shape, AppendUrb
<1>1. PICK n \in Nat : n = Len(pending[e]) + 1
  BY <1>0
<1>2. /\ \A f \in Endpoints \ {e} : pending'[f] = pending[f]
      /\ Len(pending'[e]) = n /\ pending'[e][n] = u
      /\ \A i \in 1 .. Len(pending[e]) : pending'[e][i] = pending[e][i]
  BY <1>0, <1>1 DEF PlaceInv, Shape, AppendUrb
<1>3. /\ \A s \in Threads, w \in Urbs : Carries(s, w)' <=> Carries(s, w) /\ s # t
      /\ \A w \in Urbs : Carries(t, w) <=> w = u
  BY <1>0 DEF PlaceInv, Shape, AppendUrb, Carries, Submitting, SubmitPcs
<1>4. epOf[v] \in Endpoints \cup {None} /\ None \notin Endpoints
  BY DEF PlaceInv, Shape
<1>5. CASE v = u
  <2>1. Owns(u, <<"caller", t>>)
    BY <1>3 DEF Owns
  <2>2. QueueLen(u) = n - 1 /\ QueueLen(u)' = n
    BY <1>0, <1>1, <1>2 DEF QueueLen
  <2>3. ~Owns(u, <<"pending", n>>)
    BY <1>1, <2>2 DEF Owns
  <2>4. \A p : Owns(u, p)' <=> (Owns(u, p) /\ p # <<"caller", t>>) \/ p = <<"pending", n>>
    <3>1. \A p : (\E i \in 1 .. n : pending'[e][i] = u /\ p = <<"pending", i>>) <=>
                 \/ \E i \in 1 .. n - 1 : pending[e][i] = u /\ p = <<"pending", i>>
                 \/ p = <<"pending", n>>
      <4>1. \A i : i \in 1 .. n <=> i \in 1 .. n - 1 \/ i = n
        BY <1>0, <1>1
      <4>2. \A i \in 1 .. n - 1 : pending'[e][i] = pending[e][i]
        BY <1>0, <1>1, <1>2
      <4> QED BY <1>2, <4>1, <4>2
    <3> QED BY <1>0, <1>3, <2>2, <3>1 DEF Owns, Completes, Brings
  <2> QED BY <1>0, <1>5, <2>1, <2>3, <2>4, RefMoved DEF RefInv
<1>6. CASE v # u
  <2>1. \A p : (\E i \in 1 .. QueueLen(v)' : pending'[epOf[v]][i] = v /\ p = <<"pending", i>>)
           <=> (\E i \in 1 .. QueueLen(v) : pending[epOf[v]][i] = v /\ p = <<"pending", i>>)
    <3>1. CASE epOf[v] = e
      <4>1. QueueLen(v) = n - 1 /\ QueueLen(v)' = n
        BY <1>0, <1>1, <1>2, <3>1 DEF QueueLen
      <4>2. \A i : i \in 1 .. n <=> i \in 1 .. n - 1 \/ i = n
        BY <1>0, <1>1
      <4>3. \A i \in 1 .. n - 1 : pending'[e][i] = pending[e][i]
        BY <1>0, <1>1, <1>2
      <4> QED BY <1>2, <1>6, <3>1, <4>1, <4>2, <4>3
    <3>2. CASE epOf[v] # e
      BY <1>0, <1>2, <1>4, <3>2 DEF QueueLen
    <3> QED BY <3>1, <3>2
  <2>2. \A p : Owns(v, p)' <=> Owns(v, p)
    BY <1>0, <1>3, <1>6, <2>1 DEF Owns, Completes, Brings
  <2> QED BY <1>0, <2>2, RefKept DEF RefInv
<1> QED BY <1>5, <1>6

(* An URB that goes to the host controller, from a caller or a completion, *)
(* takes the reference of its place along.                                 *)
LEMMA RefAccept ==
    ASSUME PlaceInv, RefInv, NEW u \in Urbs, flight[u] = 0, NativeAccept(u),
           UNCHANGED <<held, pending, epOf, refs>>,
           NEW a, a # <<"flight", 1>>, Owns(u, a),
           \A p, v : v \in Urbs => (Owns(v, p)' <=>
              \/ Owns(v, p) /\ ~(v = u /\ p = a)
              \/ v = u /\ p = <<"flight", 1>>)
    PROVE  RefInv'
<1> SUFFICES ASSUME NEW v \in Urbs PROVE RefOf(v)'
  BY DEF RefInv
<1>1. CASE v = u
  <2>1. ~Owns(u, <<"flight", 1>>)
    BY DEF Owns
  <2>2. \A p : Owns(u, p)' <=> (Owns(u, p) /\ p # a) \/ p = <<"flight", 1>>
    OBVIOUS
  <2> QED BY <1>1, <2>1, <2>2, RefMoved DEF RefInv
<1>2. CASE v # u
  BY <1>2, RefKept DEF RefInv
<1> QED BY <1>1, <1>2

LEMMA RefNative ==
    ASSUME PlaceInv, RefInv, NEW t \in Threads, SubmitNative(t)
    PROVE  RefInv'
<1> USE DEF Goto, At, Leave, urbVars, doneVars, driverVars
<1> SUFFICES ASSUME NEW u \in Urbs, u = arg[t] PROVE RefInv'
  BY DEF PlaceInv, Shape, SubmitNative
<1>0. /\ pc[t] = "native" /\ UNCHANGED <<held, pending, epOf, refs, cpc, cur, next>>
      /\ flight \in [Urbs -> Nat]
  BY DEF PlaceInv, Shape, SubmitNative
<1>1. CASE NativeAccept(u) /\ Leave(t)
  <2>1. flight[u] = 0
    <3>1. OneKind(u) /\ Started(u) /\ flight[u] \in Nat
      BY <1>0 DEF PlaceInv, Started, Starts, SubmitPcs
    <3> QED BY <3>1 DEF OneKind, InFlight
  <2>2. /\ \A s \in Threads, w \in Urbs : Carries(s, w)' <=> Carries(s, w) /\ s # t
        /\ \A w \in Urbs : Carries(t, w) <=> w = u
    BY <1>0, <1>1 DEF PlaceInv, Shape, Carries, Submitting, SubmitPcs
  <2>3. /\ \A w \in Urbs : w # u => flight'[w] = flight[w]
        /\ flight'[u] = 1
    BY <1>0, <1>1, <2>1 DEF NativeAccept
  <2>4. Owns(u, <<"caller", t>>)
    BY <2>2 DEF Owns
  <2>5. ASSUME NEW p, NEW v \in Urbs
        PROVE  Owns(v, p)' <=> \/ Owns(v, p) /\ ~(v = u /\ p = <<"caller", t>>)
                               \/ v = u /\ p = <<"flight", 1>>
    BY <1>0, <2>1, <2>2, <2>3 DEF Owns, QueueLen, Completes, Brings
  <2> QED BY <1>0, <1>1, <2>1, <2>4, <2>5, RefAccept
<1>2. CASE /\ UNCHANGED <<flight, arg>>
           /\ \E l \in {"unsubmit", "undo"} : pc' = [pc EXCEPT ![t] = l]
  <2>1. \A s \in Threads, w \in Urbs : Carries(s, w)' <=> Carries(s, w)
    BY <1>0, <1>2 DEF PlaceInv, Shape, Carries, Submitting, SubmitPcs
  <2> QED BY <1>0, <1>2, <2>1, RefFrame DEF Completes, Brings
<1> QED BY <1>1, <1>2 DEF SubmitNative

(* The completion callback where it only goes on; the compare-and-swap     *)
(* succeeds, so that the reference is not left behind.                     *)
LEMMA RefCompletionKeeps ==
    ASSUME PlaceInv, RefInv, NEW c \in Completers,
           \/ NoZlp(c) \/ ClaimCompletion(c) \/ Report(c) \/ StartCallback(c)
           \/ CallbackReturns(c) \/ ReleasePipe(c) \/ ReportNext(c)
           \/ StartNextCallback(c) \/ NextCallbackReturns(c)
    PROVE  RefInv'
<1> USE DEF CGoto, CAt, urbVars, pipeVars, callVars, doneVars, driverVars
<1>1. ClaimCompletion(c) => cur[c] \in submitted
  BY DEF PlaceInv, Shape, ClaimCompletion, OneKind, Ended, Ends
<1>2. UNCHANGED <<held, pending, flight, epOf, refs, pc, arg, cur, next>>
  BY <1>1 DEF NoZlp, ClaimCompletion, Report, StartCallback, CallbackReturns, ReleasePipe,
              ReportNext, StartNextCallback, NextCallbackReturns
<1>3. /\ \A d \in Completers, v \in Urbs : Completes(d, v)' <=> Completes(d, v)
      /\ \A d \in Completers, v \in Urbs : Brings(d, v)' <=> Brings(d, v)
  <2>1. CASE NoZlp(c) \/ ClaimCompletion(c)
    BY <1>1, <2>1 DEF PlaceInv, Shape, NoZlp, ClaimCompletion, Completes, Brings, NextPcs
  <2>2. CASE Report(c) \/ StartCallback(c) \/ CallbackReturns(c)
    BY <2>2 DEF PlaceInv, Shape, Report, StartCallback, CallbackReturns, AfterCallback,
                Completes, Brings, NextPcs
  <2>3. CASE ReleasePipe(c) \/ ReportNext(c) \/ StartNextCallback(c) \/ NextCallbackReturns(c)
    BY <2>3 DEF PlaceInv, Shape, ReleasePipe, ReportNext, StartNextCallback,
                NextCallbackReturns, Completes, Brings, NextPcs
  <2> QED BY <2>1, <2>2, <2>3
<1> QED BY <1>2, <1>3, RefFrame DEF Carries, Submitting

(* usb_free_urb at the end of the completion, for the URB and for `next`.  *)
LEMMA RefCompletionPuts ==
    ASSUME PlaceInv, RefInv, NEW c \in Completers, FreeNext(c) \/ FreeCompleted(c)
    PROVE  RefInv'
<1> USE DEF CGoto, CAt, CLeave, PutUrb, pipeVars, callVars, driverVars
<1>1. CASE FreeNext(c)
  <2> SUFFICES ASSUME NEW u \in Urbs, u = next[c], NEW v \in Urbs PROVE RefOf(v)'
    BY <1>1 DEF PlaceInv, Shape, FreeNext, NextPcs, RefInv
  <2>1. UNCHANGED <<held, pending, flight, epOf, pc, arg>>
    BY <1>1 DEF FreeNext
  <2>2. /\ \A d \in Completers, w \in Urbs : Completes(d, w)' <=> Completes(d, w)
        /\ \A d \in Completers, w \in Urbs : Brings(d, w)' <=> Brings(d, w) /\ d # c
        /\ \A w \in Urbs : Brings(c, w) <=> w = u
    BY <1>1 DEF PlaceInv, Shape, FreeNext, Completes, Brings, NextPcs
  <2>3. CASE v = u
    <3>1. Owns(u, <<"next", c>>)
      BY <2>2 DEF Owns
    <3>2. \A p : Owns(u, p)' <=> Owns(u, p) /\ p # <<"next", c>>
      BY <2>1, <2>2 DEF Owns, QueueLen, Carries, Submitting
    <3>3. refs'[u] = refs[u] - 1
      BY <1>1 DEF FreeNext, PlaceInv, Shape
    <3> QED BY <2>3, <3>1, <3>2, <3>3, RefPut DEF RefInv
  <2>4. CASE v # u
    <3>1. \A p : Owns(v, p)' <=> Owns(v, p)
      BY <2>1, <2>2, <2>4 DEF Owns, QueueLen, Carries, Submitting
    <3>2. refs'[v] = refs[v]
      BY <1>1, <2>4 DEF FreeNext, PlaceInv, Shape
    <3> QED BY <3>1, <3>2, RefKept DEF RefInv
  <2> QED BY <2>3, <2>4
<1>2. CASE FreeCompleted(c)
  <2> SUFFICES ASSUME NEW u \in Urbs, u = cur[c], NEW v \in Urbs PROVE RefOf(v)'
    BY <1>2 DEF PlaceInv, Shape, FreeCompleted, RefInv
  <2>1. UNCHANGED <<held, pending, flight, epOf, pc, arg>>
    BY <1>2 DEF FreeCompleted
  <2>2. /\ \A d \in Completers, w \in Urbs : Completes(d, w)' <=> Completes(d, w) /\ d # c
        /\ \A d \in Completers, w \in Urbs : Brings(d, w)' <=> Brings(d, w)
        /\ \A w \in Urbs : Completes(c, w) <=> w = u
    BY <1>2 DEF PlaceInv, Shape, FreeCompleted, Completes, Brings, NextPcs
  <2>3. CASE v = u
    <3>1. Owns(u, <<"callback", c>>)
      BY <2>2 DEF Owns
    <3>2. \A p : Owns(u, p)' <=> Owns(u, p) /\ p # <<"callback", c>>
      BY <2>1, <2>2 DEF Owns, QueueLen, Carries, Submitting
    <3>3. refs'[u] = refs[u] - 1
      BY <1>2 DEF FreeCompleted, PlaceInv, Shape
    <3> QED BY <2>3, <3>1, <3>2, <3>3, RefPut DEF RefInv
  <2>4. CASE v # u
    <3>1. \A p : Owns(v, p)' <=> Owns(v, p)
      BY <2>1, <2>2, <2>4 DEF Owns, QueueLen, Carries, Submitting
    <3>2. refs'[v] = refs[v]
      BY <1>2, <2>4 DEF FreeCompleted, PlaceInv, Shape
    <3> QED BY <3>1, <3>2, RefKept DEF RefInv
  <2> QED BY <2>3, <2>4
<1> QED BY <1>1, <1>2

(* The reference of a transfer goes to its completion, and back with a     *)
(* zero packet.                                                            *)
LEMMA RefTransfer ==
    ASSUME PlaceInv, RefInv, NEW c \in Completers,
           SendZlp(c) \/ \E u \in Urbs, o \in BOOLEAN : TakeCompletion(c, u, o)
    PROVE  RefInv'
<1> USE DEF CGoto, CAt, CLeave, urbVars, callVars, driverVars
<1>1. ASSUME NEW u \in Urbs, NEW o \in BOOLEAN, TakeCompletion(c, u, o) PROVE RefInv'
  <2> SUFFICES ASSUME NEW v \in Urbs PROVE RefOf(v)'
    BY DEF RefInv
  <2>0. u \in submitted /\ flight[u] = 1
    BY <1>1 DEF PlaceInv, Shape, Single, OneKind, TakeCompletion, InFlight
  <2>1. /\ UNCHANGED <<held, pending, epOf, refs, pc, arg, next>>
        /\ cpc[c] = "off" /\ cpc' = [cpc EXCEPT ![c] = "entered"]
        /\ cur' = [cur EXCEPT ![c] = u]
        /\ flight'[u] = 0 /\ \A w \in Urbs : w # u => flight'[w] = flight[w]
    BY <1>1, <2>0 DEF PlaceInv, Shape, TakeCompletion
  <2>2. /\ \A d \in Completers, w \in Urbs :
              Completes(d, w)' <=> Completes(d, w) \/ (d = c /\ w = u)
        /\ \A w \in Urbs : ~Completes(c, w)
        /\ \A d \in Completers, w \in Urbs : Brings(d, w)' <=> Brings(d, w)
    BY <2>1 DEF PlaceInv, Shape, Completes, Brings, NextPcs
  <2>3. CASE v = u
    <3>1. Owns(u, <<"flight", 1>>) /\ ~Owns(u, <<"callback", c>>)
      BY <2>0, <2>2 DEF Owns
    <3>2. \A p : Owns(u, p)' <=>
             (Owns(u, p) /\ p # <<"flight", 1>>) \/ p = <<"callback", c>>
      BY <2>0, <2>1, <2>2 DEF Owns, QueueLen, Carries, Submitting
    <3> QED BY <2>1, <2>3, <3>1, <3>2, RefMoved DEF RefInv
  <2>4. CASE v # u
    <3>1. \A p : Owns(v, p)' <=> Owns(v, p)
      BY <2>1, <2>2, <2>4 DEF Owns, QueueLen, Carries, Submitting
    <3> QED BY <2>1, <3>1, RefKept DEF RefInv
  <2> QED BY <2>3, <2>4
<1>2. CASE SendZlp(c)
  <2> SUFFICES ASSUME NEW u \in Urbs, u = cur[c] PROVE RefInv'
    BY <1>2 DEF PlaceInv, Shape, SendZlp
  <2>0. cpc[c] = "entered" /\ UNCHANGED <<held, pending, epOf, refs, pc, arg>>
    BY <1>2 DEF SendZlp
  <2>1. CASE NativeAccept(u) /\ CLeave(c)
    <3>1. flight[u] = 0 /\ flight \in [Urbs -> Nat]
      <4>1. OneKind(u) /\ Ended(u) /\ flight \in [Urbs -> Nat]
        BY <2>0 DEF PlaceInv, Shape, Ended, Ends
      <4> QED BY <4>1 DEF OneKind, InFlight
    <3>2. /\ \A d \in Completers, w \in Urbs : Completes(d, w)' <=> Completes(d, w) /\ d # c
          /\ \A w \in Urbs : Completes(c, w) <=> w = u
          /\ \A d \in Completers, w \in Urbs : Brings(d, w)' <=> Brings(d, w)
      BY <2>0, <2>1 DEF PlaceInv, Shape, Completes, Brings, NextPcs
    <3>3. flight'[u] = 1 /\ \A w \in Urbs : w # u => flight'[w] = flight[w]
      BY <2>1, <3>1 DEF NativeAccept
    <3>4. Owns(u, <<"callback", c>>)
      BY <3>2 DEF Owns
    <3>5. ASSUME NEW p, NEW v \in Urbs
          PROVE  Owns(v, p)' <=> \/ Owns(v, p) /\ ~(v = u /\ p = <<"callback", c>>)
                                 \/ v = u /\ p = <<"flight", 1>>
      BY <2>0, <3>1, <3>2, <3>3 DEF Owns, QueueLen, Carries, Submitting
    <3> QED BY <2>0, <2>1, <3>1, <3>4, <3>5, RefAccept
  <2>2. CASE UNCHANGED <<flight, cur, next>> /\ cpc' = [cpc EXCEPT ![c] = "claim"]
    <3>1. /\ \A d \in Completers, v \in Urbs : Completes(d, v)' <=> Completes(d, v)
          /\ \A d \in Completers, v \in Urbs : Brings(d, v)' <=> Brings(d, v)
      BY <2>0, <2>2 DEF PlaceInv, Shape, Completes, Brings, NextPcs
    <3> QED BY <2>0, <2>2, <3>1, RefFrame DEF Carries, Submitting
  <2> QED BY <1>2, <2>1, <2>2 DEF SendZlp
<1> QED BY <1>1, <1>2

(* The popped URB keeps the reference of its queue place as `next`; the    *)
(* places of those behind it move up.                                      *)
LEMMA RefPop ==
    ASSUME PlaceInv, RefInv, NEW c \in Completers, PopPending(c)
    PROVE  RefInv'
<1> USE UsbAssumption DEF CGoto, CAt, urbVars, callVars, driverVars
<1> SUFFICES ASSUME NEW e \in Endpoints, e = epOf[cur[c]] PROVE RefInv'
  BY DEF PlaceInv, Shape, Routed, PopPending
<1>0. /\ cpc[c] = "pop" /\ e # None /\ UNCHANGED <<held, flight, epOf, refs, pc, arg, cur>>
      /\ pending[e] \in Seq(Urbs) /\ Len(pending[e]) \in Nat
  BY DEF PlaceInv, Shape, PopPending
<1>1. CASE pending[e] = <<>>
  <2>1. UNCHANGED <<pending, next>> /\ cpc' = [cpc EXCEPT ![c] = "free"]
    BY <1>1 DEF PopPending
  <2>2. /\ \A d \in Completers, v \in Urbs : Completes(d, v)' <=> Completes(d, v)
        /\ \A d \in Completers, v \in Urbs : Brings(d, v)' <=> Brings(d, v)
    BY <1>0, <2>1 DEF PlaceInv, Shape, Completes, Brings, NextPcs
  <2> QED BY <1>0, <2>1, <2>2, RefFrame DEF Carries, Submitting
<1>2. CASE pending[e] # <<>>
  <2> SUFFICES ASSUME NEW u \in Urbs, u = Head(pending[e]), NEW v \in Urbs PROVE RefOf(v)'
    BY <1>0, <1>2 DEF RefInv
  <2>1. PICK n \in Nat : n = Len(pending[e])
    BY <1>0
  <2>2. n > 0 /\ pending[e][1] = u /\ Len(Tail(pending[e])) = n - 1
        /\ \A i \in 1 .. n - 1 : Tail(pending[e])[i] = pending[e][i + 1]
    BY <1>0, <1>2, <2>1
  <2>3. /\ pending' = [pending EXCEPT ![e] = Tail(pending[e])]
        /\ next' = [next EXCEPT ![c] = u]
        /\ cpc' = [cpc EXCEPT ![c] = "submitnext"]
    BY <1>2 DEF PopPending
  <2>4. /\ \A f \in Endpoints \ {e} : pending'[f] = pending[f]
        /\ Len(pending'[e]) = n - 1
        /\ \A i \in 1 .. n - 1 : pending'[e][i] = pending[e][i + 1]
    BY <2>2, <2>3 DEF PlaceInv, Shape
  <2>5. /\ \A d \in Completers, w \in Urbs : Completes(d, w)' <=> Completes(d, w)
        /\ \A d \in Completers, w \in Urbs :
              Brings(d, w)' <=> Brings(d, w) \/ (d = c /\ w = u)
        /\ \A w \in Urbs : ~Brings(c, w)
    BY <1>0, <2>3 DEF PlaceInv, Shape, Completes, Brings, NextPcs
  <2>6. epOf[u] = e /\ epOf[v] \in Endpoints \cup {None} /\ None \notin Endpoints
    <3>1. 1 \in 1 .. Len(pending[e])
      BY <2>1, <2>2
    <3>2. epOf[u] = e
      BY <2>2, <3>1 DEF PlaceInv, Routed
    <3> QED BY <3>2 DEF PlaceInv, Shape
  <2>7. \A i, j \in 1 .. n : pending[e][i] = pending[e][j] => i = j
    BY <2>1 DEF PlaceInv, Single
  <2>8. epOf[v] = e => QueueLen(v) = n /\ QueueLen(v)' = n - 1
    BY <1>0, <2>1, <2>4 DEF QueueLen
  <2>9. CASE v = u
    <3>1. QueueLen(u) = n /\ QueueLen(u)' = n - 1
      BY <2>6, <2>8, <2>9
    <3>2. \A i \in 1 .. n : pending[e][i] = u <=> i = 1
      BY <2>2, <2>7
    <3>3. \A i \in 1 .. n - 1 : pending'[e][i] # u
      <4> SUFFICES ASSUME NEW i \in 1 .. n - 1 PROVE pending[e][i + 1] # u
        BY <2>4
      <4>1. i + 1 \in 1 .. n /\ i + 1 # 1
        OBVIOUS
      <4> QED BY <3>2, <4>1
    <3>4. 1 \in 1 .. n
      BY <2>2
    <3>5. Owns(u, <<"pending", 1>>) /\ ~Owns(u, <<"next", c>>)
      BY <2>5, <2>6, <3>1, <3>2, <3>4 DEF Owns
    <3>6. \A p : Owns(u, p)' <=> (Owns(u, p) /\ p # <<"pending", 1>>) \/ p = <<"next", c>>
      <4>1. \A p : ~\E i \in 1 .. QueueLen(u)' : pending'[epOf'[u]][i] = u /\ p = <<"pending", i>>
        BY <1>0, <2>6, <3>1, <3>3
      <4>2. \A p : (\E i \in 1 .. QueueLen(u) : pending[epOf[u]][i] = u /\ p = <<"pending", i>>)
                      <=> p = <<"pending", 1>>
        BY <2>6, <3>1, <3>2, <3>4
      <4>3. /\ \A t \in Threads : Carries(t, u)' <=> Carries(t, u)
            /\ \A d \in Completers : Completes(d, u)' <=> Completes(d, u)
            /\ \A d \in Completers : Brings(d, u)' <=> Brings(d, u) \/ d = c
        BY <1>0, <2>5 DEF Carries, Submitting
      <4>4. \A p :
              /\ (u \in held /\ p = <<"driver", u>>)' <=> u \in held /\ p = <<"driver", u>>
              /\ (\E i \in 1 .. flight[u] : p = <<"flight", i>>)'
                    <=> \E i \in 1 .. flight[u] : p = <<"flight", i>>
              /\ (\E t \in Threads : Carries(t, u) /\ p = <<"caller", t>>)'
                    <=> \E t \in Threads : Carries(t, u) /\ p = <<"caller", t>>
              /\ (\E d \in Completers : Completes(d, u) /\ p = <<"callback", d>>)'
                    <=> \E d \in Completers : Completes(d, u) /\ p = <<"callback", d>>
              /\ (\E d \in Completers : Brings(d, u) /\ p = <<"next", d>>)'
                    <=> (\E d \in Completers : Brings(d, u) /\ p = <<"next", d>>)
                        \/ p = <<"next", c>>
        BY <1>0, <4>3
      <4>5. \A p : Owns(u, p) /\ p # <<"pending", 1>> <=>
              \/ u \in held /\ p = <<"driver", u>>
              \/ \E i \in 1 .. flight[u] : p = <<"flight", i>>
              \/ \E t \in Threads : Carries(t, u) /\ p = <<"caller", t>>
              \/ \E d \in Completers : Completes(d, u) /\ p = <<"callback", d>>
              \/ \E d \in Completers : Brings(d, u) /\ p = <<"next", d>>
        BY <4>2 DEF Owns
      <4>6. \A p : Owns(u, p)' <=>
              \/ (u \in held /\ p = <<"driver", u>>)'
              \/ (\E i \in 1 .. flight[u] : p = <<"flight", i>>)'
              \/ (\E t \in Threads : Carries(t, u) /\ p = <<"caller", t>>)'
              \/ (\E d \in Completers : Completes(d, u) /\ p = <<"callback", d>>)'
              \/ (\E d \in Completers : Brings(d, u) /\ p = <<"next", d>>)'
        BY <4>1 DEF Owns
      <4> SUFFICES ASSUME NEW p
                   PROVE  Owns(u, p)' <=> (Owns(u, p) /\ p # <<"pending", 1>>) \/ p = <<"next", c>>
        OBVIOUS
      <4> DEFINE Others == \/ u \in held /\ p = <<"driver", u>>
                           \/ \E i \in 1 .. flight[u] : p = <<"flight", i>>
                           \/ \E t \in Threads : Carries(t, u) /\ p = <<"caller", t>>
                           \/ \E d \in Completers : Completes(d, u) /\ p = <<"callback", d>>
                           \/ \E d \in Completers : Brings(d, u) /\ p = <<"next", d>>
      <4>7. Owns(u, p)' <=> Others \/ p = <<"next", c>>
        BY <4>4, <4>6
      <4>8. Owns(u, p) /\ p # <<"pending", 1>> <=> Others
        BY <4>5
      <4> HIDE DEF Others
      <4> QED BY <4>7, <4>8
    <3> QED BY <1>0, <2>9, <3>5, <3>6, RefMoved DEF RefInv
  <2>10. CASE v # u /\ epOf[v] = e /\ \E i \in 1 .. n : pending[e][i] = v
    <3>1. PICK i \in 1 .. n : pending[e][i] = v
      BY <2>10
    <3>2. i # 1 /\ i - 1 \in 1 .. n - 1 /\ i - 1 # i
      BY <2>2, <2>10, <3>1
    <3>3. \A j \in 1 .. n : pending[e][j] = v <=> j = i
      BY <2>7, <3>1
    <3>4. \A j \in 1 .. n - 1 : pending'[e][j] = v <=> j = i - 1
      <4> SUFFICES ASSUME NEW j \in 1 .. n - 1 PROVE pending[e][j + 1] = v <=> j = i - 1
        BY <2>4
      <4>1. j + 1 \in 1 .. n
        OBVIOUS
      <4> QED BY <3>3, <4>1
    <3>5. PICK k \in 1 .. n - 1 : k = i - 1
      BY <3>2
    <3>6. \A p : (\E j \in 1 .. QueueLen(v) : pending[epOf[v]][j] = v /\ p = <<"pending", j>>)
                    <=> p = <<"pending", i>>
      BY <2>8, <2>10, <3>1, <3>3
    <3>7. \A p : (\E j \in 1 .. QueueLen(v)' : pending'[epOf'[v]][j] = v /\ p = <<"pending", j>>)
                    <=> p = <<"pending", k>>
      BY <1>0, <2>8, <2>10, <3>4, <3>5
    <3>8. Owns(v, <<"pending", i>>) /\ ~Owns(v, <<"pending", k>>)
      <4>1. <<"pending", k>> # <<"pending", i>>
        BY <3>2, <3>5
      <4> QED BY <3>6, <4>1 DEF Owns
    <3>9. \A p : Owns(v, p)' <=> (Owns(v, p) /\ p # <<"pending", i>>) \/ p = <<"pending", k>>
      BY <1>0, <2>5, <2>10, <3>6, <3>7 DEF Owns, Carries, Submitting
    <3> QED BY <1>0, <3>8, <3>9, RefMoved DEF RefInv
  <2>11. CASE v # u /\ ~(epOf[v] = e /\ \E i \in 1 .. n : pending[e][i] = v)
    <3>1. \A p : (\E j \in 1 .. QueueLen(v)' : pending'[epOf'[v]][j] = v /\ p = <<"pending", j>>)
             <=> (\E j \in 1 .. QueueLen(v) : pending[epOf[v]][j] = v /\ p = <<"pending", j>>)
      <4>1. CASE epOf[v] = e
        <5>1. \A i \in 1 .. n : pending[e][i] # v
          BY <2>11, <4>1
        <5>2. \A i \in 1 .. n - 1 : pending'[e][i] # v
          <6> SUFFICES ASSUME NEW i \in 1 .. n - 1 PROVE pending[e][i + 1] # v
            BY <2>4
          <6>1. i + 1 \in 1 .. n
            OBVIOUS
          <6> QED BY <5>1, <6>1
        <5> QED BY <1>0, <2>8, <4>1, <5>1, <5>2
      <4>2. CASE epOf[v] # e
        BY <1>0, <2>4, <2>6, <4>2 DEF QueueLen
      <4> QED BY <4>1, <4>2
    <3>2. \A p : Owns(v, p)' <=> Owns(v, p)
      BY <1>0, <2>5, <2>11, <3>1 DEF Owns, Carries, Submitting
    <3> QED BY <1>0, <3>2, RefKept DEF RefInv
  <2> QED BY <2>9, <2>10, <2>11
<1> QED BY <1>1, <1>2

LEMMA RefNext ==
    ASSUME PlaceInv, RefInv, NEW c \in Completers, SubmitNext(c)
    PROVE  RefInv'
<1> USE DEF CGoto, CAt, callVars, driverVars
<1> SUFFICES ASSUME NEW u \in Urbs, u = next[c] PROVE RefInv'
  BY DEF PlaceInv, Shape, SubmitNext, NextPcs
<1>0. /\ cpc[c] = "submitnext"
      /\ UNCHANGED <<held, pending, epOf, refs, pc, arg, cur, next>>
  BY DEF SubmitNext
<1>1. CASE NativeAccept(u) /\ cpc' = [cpc EXCEPT ![c] = "free"]
  <2>1. flight[u] = 0 /\ flight \in [Urbs -> Nat]
    <3>1. OneKind(u) /\ Passed(u) /\ flight \in [Urbs -> Nat]
      BY <1>0 DEF PlaceInv, Shape, Passed, Inherits
    <3> QED BY <3>1 DEF OneKind, InFlight
  <2>2. /\ \A d \in Completers, w \in Urbs : Completes(d, w)' <=> Completes(d, w)
        /\ \A d \in Completers, w \in Urbs : Brings(d, w)' <=> Brings(d, w) /\ d # c
        /\ \A w \in Urbs : Brings(c, w) <=> w = u
    BY <1>0, <1>1 DEF PlaceInv, Shape, Completes, Brings, NextPcs
  <2>3. flight'[u] = 1 /\ \A w \in Urbs : w # u => flight'[w] = flight[w]
    BY <1>1, <2>1 DEF NativeAccept
  <2>4. Owns(u, <<"next", c>>)
    BY <2>2 DEF Owns
  <2>5. ASSUME NEW p, NEW v \in Urbs
        PROVE  Owns(v, p)' <=> \/ Owns(v, p) /\ ~(v = u /\ p = <<"next", c>>)
                               \/ v = u /\ p = <<"flight", 1>>
    BY <1>0, <2>1, <2>2, <2>3 DEF Owns, QueueLen, Carries, Submitting
  <2> QED BY <1>0, <1>1, <2>1, <2>4, <2>5, RefAccept
<1>2. CASE UNCHANGED flight /\ cpc' = [cpc EXCEPT ![c] = "release"]
  <2>1. /\ \A d \in Completers, v \in Urbs : Completes(d, v)' <=> Completes(d, v)
        /\ \A d \in Completers, v \in Urbs : Brings(d, v)' <=> Brings(d, v)
    BY <1>0, <1>2 DEF PlaceInv, Shape, Completes, Brings, NextPcs
  <2> QED BY <1>0, <1>2, <2>1, RefFrame DEF Carries, Submitting
<1> QED BY <1>1, <1>2 DEF SubmitNext

LEMMA RefStep == PlaceInv /\ RefInv /\ [Next]_vars => RefInv'
<1> SUFFICES ASSUME PlaceInv, RefInv, [Next]_vars PROVE RefInv'
  OBVIOUS
<1>1. ASSUME NEW t \in Threads, Call(t) \/ CallStep(t) PROVE RefInv'
  BY <1>1, RefCallKeeps, RefCallCounts, RefAppend, RefNative DEF Call, CallStep
<1>2. ASSUME NEW c \in Completers, CompletionStep(c) PROVE RefInv'
  BY <1>2, RefCompletionKeeps, RefCompletionPuts, RefTransfer, RefPop, RefNext
     DEF CompletionStep
<1>3. CASE UNCHANGED vars
  BY <1>3, RefFrame DEF vars, urbVars, pipeVars, callVars, doneVars, driverVars,
                        Carries, Submitting, Completes, Brings
<1> QED BY <1>1, <1>2, <1>3 DEF Next

(* usb_get_urb and usb_free_urb: the reference count of an URB is the      *)
(* number of places that own one, through queueing, refusals, kills, zero  *)
(* packets and resubmissions from the callback.                            *)
THEOREM RefsCounted == Spec => []RefsExact
<1>1. PlaceInv /\ RefInv => RefsExact
  BY DEF RefInv, RefOf, RefsExact
<1>2. Init => PlaceInv /\ RefInv
  BY PlaceInit, RefInit
<1>3. PlaceInv /\ RefInv /\ [Next]_vars => (PlaceInv /\ RefInv)'
  BY PlaceStep, RefStep
<1> QED BY <1>1, <1>2, <1>3, PTL DEF Spec

-----------------------------------------------------------------------------
(* The pipe of an endpoint: who holds it, by kind.                         *)
Drives(t, e) == pc[t] \in {"native", "undo"} /\ epOf[arg[t]] = e
Serves(c, e) ==
    /\ cpc[c] \in {"entered", "claim", "report", "calling", "callback", "pop",
                  "submitnext", "release"}
    /\ epOf[cur[c]] = e

Holds(e, p) ==
    \/ \E u \in Urbs : epOf[u] = e /\ flight[u] > 0 /\ p = <<"flight", u>>
    \/ \E t \in Threads : Drives(t, e) /\ p = <<"caller", t>>
    \/ \E c \in Completers : Serves(c, e) /\ p = <<"callback", c>>

HolderOf(e) ==
    /\ \A p, q : Holds(e, p) /\ Holds(e, q) => p = q
    /\ e \in busy <=> \E p : Holds(e, p)
    /\ pending[e] # <<>> /\ e \notin busy => e \in orphaned

PipeInv == \A e \in Endpoints : HolderOf(e)

LEMMA PipeInit == Init => PipeInv
<1> SUFFICES ASSUME Init, NEW e \in Endpoints PROVE HolderOf(e)
  BY DEF PipeInv
<1>1. \A p : ~Holds(e, p)
  BY DEF Init, Holds, Drives, Serves
<1> QED BY <1>1 DEF Init, HolderOf

(* What a step can do to one pipe: nothing, or only to its queue; take it; *)
(* give it up; hand it on.                                                 *)
LEMMA PipeKept ==
    ASSUME NEW e \in Endpoints, HolderOf(e), \A p : Holds(e, p)' <=> Holds(e, p),
           e \in busy' <=> e \in busy, orphaned \subseteq orphaned',
           pending'[e] # <<>> => pending[e] # <<>> \/ e \in busy \/ e \in orphaned'
    PROVE  HolderOf(e)'
BY DEF HolderOf

LEMMA PipeTaken ==
    ASSUME NEW e \in Endpoints, HolderOf(e), e \notin busy, e \in busy', NEW a,
           \A p : Holds(e, p)' <=> Holds(e, p) \/ p = a
    PROVE  HolderOf(e)'
<1>1. \A p : ~Holds(e, p)
  BY DEF HolderOf
<1>2. \A p : Holds(e, p)' <=> p = a
  BY <1>1
<1> QED BY <1>2 DEF HolderOf

LEMMA PipeGiven ==
    ASSUME NEW e \in Endpoints, HolderOf(e), e \notin busy', NEW a, Holds(e, a),
           \A p : Holds(e, p)' <=> Holds(e, p) /\ p # a,
           pending'[e] # <<>> => e \in orphaned'
    PROVE  HolderOf(e)'
BY DEF HolderOf

LEMMA PipePassed ==
    ASSUME NEW e \in Endpoints, HolderOf(e), busy' = busy, NEW a, NEW b, Holds(e, a),
           \A p : Holds(e, p)' <=> (Holds(e, p) /\ p # a) \/ p = b,
           UNCHANGED <<pending, orphaned>>
    PROVE  HolderOf(e)'
<1>1. \A p : Holds(e, p) <=> p = a
  BY DEF HolderOf
<1>2. \A p : Holds(e, p)' <=> p = b
  BY <1>1
<1> QED BY <1>1, <1>2 DEF HolderOf

(* A step of a call or a completion that stays where it is with respect to *)
(* every pipe.                                                             *)
LEMMA PipeFrame ==
    ASSUME PipeInv, UNCHANGED <<flight, busy, epOf>>, orphaned \subseteq orphaned',
           \A e \in Endpoints :
              pending'[e] # <<>> => pending[e] # <<>> \/ e \in busy \/ e \in orphaned',
           \A t \in Threads, e \in Endpoints : Drives(t, e)' <=> Drives(t, e),
           \A c \in Completers, e \in Endpoints : Serves(c, e)' <=> Serves(c, e)
    PROVE  PipeInv'
<1> SUFFICES ASSUME NEW e \in Endpoints PROVE HolderOf(e)'
  BY DEF PipeInv
<1>1. \A p : Holds(e, p)' <=> Holds(e, p)
  BY DEF Holds
<1> QED BY <1>1, PipeKept DEF PipeInv

LEMMA PipeCallKeeps ==
    ASSUME PlaceInv, PipeInv, NEW t \in Threads,
           \/ Prepare(t) \/ AppendUrb(t) \/ UndoSubmitted(t) \/ UndoReference(t)
           \/ KillReturns(t)
           \/ \E u \in Urbs : SubmitUrb(t, u) \/ KillUrb(t, u) \/ DriverFree(t, u)
    PROVE  PipeInv'
<1> USE UsbAssumption
    DEF Goto, At, Leave, urbVars, pipeVars, callVars, doneVars, driverVars, histVars
<1>1. /\ UNCHANGED <<flight, busy, epOf, cpc, cur>> /\ orphaned \subseteq orphaned'
      /\ pending' = pending \/ AppendUrb(t)
  BY DEF Prepare, AppendUrb, UndoSubmitted, UndoReference, KillReturns, SubmitUrb, KillUrb,
         DriverFree
<1>2. \A e \in Endpoints :
         pending'[e] # <<>> => pending[e] # <<>> \/ e \in busy \/ e \in orphaned'
  BY <1>1 DEF AppendUrb, PlaceInv, Shape
<1>3. \A s \in Threads, e \in Endpoints : Drives(s, e)' <=> Drives(s, e)
  <2>1. CASE Prepare(t)
    BY <1>1, <2>1 DEF PlaceInv, Shape, Prepare, Drives
  <2>2. CASE AppendUrb(t) \/ UndoSubmitted(t) \/ UndoReference(t) \/ KillReturns(t)
    BY <1>1, <2>2 DEF PlaceInv, Shape, AppendUrb, UndoSubmitted, UndoReference, KillReturns,
                      Drives
  <2>3. ASSUME NEW u \in Urbs, SubmitUrb(t, u) \/ KillUrb(t, u) \/ DriverFree(t, u)
        PROVE  \A s \in Threads, e \in Endpoints : Drives(s, e)' <=> Drives(s, e)
    <3>1. CASE SubmitUrb(t, u)
      BY <1>1, <3>1 DEF PlaceInv, Shape, SubmitUrb, MayCall, Drives
    <3>2. CASE KillUrb(t, u)
      BY <1>1, <3>2 DEF PlaceInv, Shape, KillUrb, MayCall, Drives
    <3>3. CASE DriverFree(t, u)
      BY <1>1, <3>3 DEF PlaceInv, Shape, DriverFree, MayCall, Drives
    <3> QED BY <2>3, <3>1, <3>2, <3>3
  <2> QED BY <2>1, <2>2, <2>3
<1> QED BY <1>1, <1>2, <1>3, PipeFrame DEF Serves

(* A caller takes the pipe when it finds it free, starts a transfer with   *)
(* it, or gives it up when the host controller refuses.                    *)
LEMMA PipeCallMoves ==
    ASSUME PlaceInv, PipeInv, NEW t \in Threads,
           LookAtPipe(t) \/ SubmitNative(t) \/ UndoBusy(t)
    PROVE  PipeInv'
<1> USE UsbAssumption
    DEF Goto, At, Leave, urbVars, doneVars, driverVars, histVars
<1> SUFFICES ASSUME NEW u \in Urbs, u = arg[t], NEW e \in Endpoints PROVE HolderOf(e)'
  BY DEF PlaceInv, Shape, LookAtPipe, SubmitNative, UndoBusy, PipeInv
<1>0. UNCHANGED <<pending, epOf, cpc, cur>> /\ HolderOf(e) /\ None \notin Endpoints
  BY DEF LookAtPipe, SubmitNative, UndoBusy, PipeInv
<1>1. CASE LookAtPipe(t)
  <2>1. UNCHANGED <<flight, arg, orphaned>> /\ pc[t] = "look"
    BY <1>1 DEF LookAtPipe
  <2>2. CASE epOf[u] = e /\ e \notin busy
    <3>1. \A s \in Threads : Drives(s, e)' <=> Drives(s, e) \/ s = t
      BY <1>0, <1>1, <2>1, <2>2 DEF PlaceInv, Shape, LookAtPipe, Drives
    <3>2. \A p : Holds(e, p)' <=> Holds(e, p) \/ p = <<"caller", t>>
      BY <1>0, <2>1, <3>1 DEF Holds, Serves
    <3>3. e \in busy'
      BY <1>1, <2>2 DEF LookAtPipe
    <3> QED BY <1>0, <2>2, <3>2, <3>3, PipeTaken
  <2>3. CASE epOf[u] # e \/ e \in busy
    <3>1. \A s \in Threads : Drives(s, e)' <=> Drives(s, e)
      BY <1>0, <1>1, <2>1, <2>3 DEF PlaceInv, Shape, LookAtPipe, Drives
    <3>2. \A p : Holds(e, p)' <=> Holds(e, p)
      BY <1>0, <2>1, <3>1 DEF Holds, Serves
    <3>3. e \in busy' <=> e \in busy
      BY <1>1, <2>3 DEF LookAtPipe
    <3> QED BY <1>0, <2>1, <3>2, <3>3, PipeKept
  <2> QED BY <2>2, <2>3
<1>2. CASE SubmitNative(t)
  <2>1. UNCHANGED <<busy, orphaned>> /\ pc[t] = "native"
    BY <1>2 DEF SubmitNative
  <2>2. CASE NativeAccept(u) /\ Leave(t) /\ epOf[u] = e
    <3>1. /\ \A s \in Threads : Drives(s, e)' <=> Drives(s, e) /\ s # t
          /\ Drives(t, e)
      BY <1>0, <2>1, <2>2 DEF PlaceInv, Shape, Drives
    <3>2. \A v \in Urbs : flight'[v] > 0 <=> flight[v] > 0 \/ v = u
      BY <2>2 DEF PlaceInv, Shape, NativeAccept
    <3>3. Holds(e, <<"caller", t>>)
      BY <3>1 DEF Holds
    <3>4. \A p : Holds(e, p)' <=> (Holds(e, p) /\ p # <<"caller", t>>) \/ p = <<"flight", u>>
      BY <1>0, <2>2, <3>1, <3>2 DEF Holds, Serves
    <3> QED BY <1>0, <2>1, <3>3, <3>4, PipePassed
  <2>3. CASE NativeAccept(u) /\ Leave(t) /\ epOf[u] # e
    <3>1. \A s \in Threads : Drives(s, e)' <=> Drives(s, e)
      BY <1>0, <2>1, <2>3 DEF PlaceInv, Shape, Drives
    <3>2. \A v \in Urbs : v # u => flight'[v] = flight[v]
      BY <2>3 DEF PlaceInv, Shape, NativeAccept
    <3>3. \A p : Holds(e, p)' <=> Holds(e, p)
      BY <1>0, <2>3, <3>1, <3>2 DEF Holds, Serves
    <3> QED BY <1>0, <2>1, <3>3, PipeKept
  <2>4. CASE UNCHANGED <<flight, arg>> /\ Goto(t, IF epOf[u] = None THEN "unsubmit" ELSE "undo")
    <3>1. \A s \in Threads : Drives(s, e)' <=> Drives(s, e)
      BY <1>0, <2>1, <2>4 DEF PlaceInv, Shape, Drives
    <3>2. \A p : Holds(e, p)' <=> Holds(e, p)
      BY <1>0, <2>4, <3>1 DEF Holds, Serves
    <3> QED BY <1>0, <2>1, <3>2, PipeKept
  <2> QED BY <1>2, <2>2, <2>3, <2>4 DEF SubmitNative
<1>3. CASE UndoBusy(t)
  <2>1. UNCHANGED <<flight, arg>> /\ pc[t] = "undo" /\ busy' = busy \ {epOf[u]}
    BY <1>3 DEF UndoBusy
  <2>2. CASE epOf[u] = e
    <3>1. /\ \A s \in Threads : Drives(s, e)' <=> Drives(s, e) /\ s # t
          /\ Drives(t, e)
      BY <1>0, <1>3, <2>1, <2>2 DEF PlaceInv, Shape, UndoBusy, Drives
    <3>2. Holds(e, <<"caller", t>>)
      BY <3>1 DEF Holds
    <3>3. \A p : Holds(e, p)' <=> Holds(e, p) /\ p # <<"caller", t>>
      BY <1>0, <2>1, <3>1 DEF Holds, Serves
    <3>4. e \notin busy' /\ (pending'[e] # <<>> => e \in orphaned')
      BY <1>0, <1>3, <2>1, <2>2 DEF UndoBusy
    <3> QED BY <1>0, <3>2, <3>3, <3>4, PipeGiven
  <2>3. CASE epOf[u] # e
    <3>1. \A s \in Threads : Drives(s, e)' <=> Drives(s, e)
      BY <1>0, <1>3, <2>1, <2>3 DEF PlaceInv, Shape, UndoBusy, Drives
    <3>2. \A p : Holds(e, p)' <=> Holds(e, p)
      BY <1>0, <2>1, <3>1 DEF Holds, Serves
    <3>3. (e \in busy' <=> e \in busy) /\ orphaned \subseteq orphaned'
      BY <1>3, <2>1, <2>3 DEF UndoBusy
    <3> QED BY <1>0, <3>2, <3>3, PipeKept
  <2> QED BY <2>2, <2>3
<1> QED BY <1>1, <1>2, <1>3

(* The completion callback: it takes the pipe over from the transfer, and  *)
(* hands it to the zero packet, to the next URB, or back.                  *)
LEMMA PipeCompletionKeeps ==
    ASSUME PlaceInv, PipeInv, NEW c \in Completers,
           \/ NoZlp(c) \/ ClaimCompletion(c) \/ Report(c) \/ StartCallback(c)
           \/ CallbackReturns(c) \/ ReportNext(c) \/ StartNextCallback(c)
           \/ NextCallbackReturns(c) \/ FreeNext(c) \/ FreeCompleted(c)
    PROVE  PipeInv'
<1> USE UsbAssumption
    DEF CGoto, CAt, CLeave, urbVars, pipeVars, callVars, doneVars, driverVars, histVars
<1>1. ClaimCompletion(c) => cur[c] \in submitted
  BY DEF PlaceInv, Shape, ClaimCompletion, OneKind, Ended, Ends
<1>2. /\ UNCHANGED <<flight, busy, pending, epOf, orphaned, pc, arg>>
      /\ UNCHANGED cur \/ FreeCompleted(c)
  BY <1>1 DEF NoZlp, ClaimCompletion, Report, StartCallback, CallbackReturns, ReportNext,
              StartNextCallback, NextCallbackReturns, FreeNext, FreeCompleted
<1>3. \A d \in Completers, e \in Endpoints : Serves(d, e)' <=> Serves(d, e)
  <2>1. CASE NoZlp(c) \/ ClaimCompletion(c)
    BY <1>1, <1>2, <2>1 DEF PlaceInv, Shape, NoZlp, ClaimCompletion, Serves
  <2>2. CASE Report(c) \/ StartCallback(c) \/ CallbackReturns(c)
    BY <1>2, <2>2 DEF PlaceInv, Shape, Report, StartCallback, CallbackReturns, AfterCallback,
                      Serves
  <2>3. CASE \/ ReportNext(c) \/ StartNextCallback(c) \/ NextCallbackReturns(c)
             \/ FreeNext(c) \/ FreeCompleted(c)
    BY <1>2, <2>3 DEF PlaceInv, Shape, ReportNext, StartNextCallback, NextCallbackReturns,
                      FreeNext, FreeCompleted, Serves
  <2> QED BY <2>1, <2>2, <2>3
<1> QED BY <1>2, <1>3, PipeFrame DEF Drives

LEMMA PipeTransfer ==
    ASSUME PlaceInv, PipeInv, NEW c \in Completers,
           SendZlp(c) \/ \E u \in Urbs, o \in BOOLEAN : TakeCompletion(c, u, o)
    PROVE  PipeInv'
<1> USE UsbAssumption DEF CGoto, CAt, CLeave, urbVars, callVars, driverVars, histVars
<1>1. ASSUME NEW u \in Urbs, NEW o \in BOOLEAN, TakeCompletion(c, u, o) PROVE PipeInv'
  <2> SUFFICES ASSUME NEW e \in Endpoints PROVE HolderOf(e)'
    BY DEF PipeInv
  <2>0. u \in submitted /\ flight[u] = 1 /\ HolderOf(e)
    BY <1>1 DEF PlaceInv, Shape, Single, OneKind, TakeCompletion, InFlight, PipeInv
  <2>1. /\ UNCHANGED <<pending, busy, epOf, orphaned, pc, arg>>
        /\ cpc[c] = "off" /\ cpc' = [cpc EXCEPT ![c] = "entered"]
        /\ cur' = [cur EXCEPT ![c] = u]
        /\ flight'[u] = 0 /\ \A w \in Urbs : w # u => flight'[w] = flight[w]
    BY <1>1, <2>0 DEF PlaceInv, Shape, TakeCompletion
  <2>2. CASE epOf[u] = e
    <3>1. \A d \in Completers : Serves(d, e)' <=> Serves(d, e) \/ d = c
      BY <2>1, <2>2 DEF PlaceInv, Shape, Serves
    <3>2. ~Serves(c, e)
      BY <2>1 DEF Serves
    <3>3. Holds(e, <<"flight", u>>)
      BY <2>0, <2>2 DEF Holds
    <3>4. \A p : Holds(e, p)' <=> (Holds(e, p) /\ p # <<"flight", u>>) \/ p = <<"callback", c>>
      BY <2>0, <2>1, <2>2, <3>1, <3>2 DEF Holds, Drives
    <3> QED BY <2>0, <2>1, <3>3, <3>4, PipePassed
  <2>3. CASE epOf[u] # e
    <3>1. \A d \in Completers : Serves(d, e)' <=> Serves(d, e)
      BY <2>1, <2>3 DEF PlaceInv, Shape, Serves
    <3>2. \A p : Holds(e, p)' <=> Holds(e, p)
      BY <2>1, <2>3, <3>1 DEF Holds, Drives
    <3> QED BY <2>0, <2>1, <3>2, PipeKept
  <2> QED BY <2>2, <2>3
<1>2. CASE SendZlp(c)
  <2> SUFFICES ASSUME NEW u \in Urbs, u = cur[c], NEW e \in Endpoints PROVE HolderOf(e)'
    BY <1>2 DEF PlaceInv, Shape, SendZlp, PipeInv
  <2>0. /\ cpc[c] = "entered" /\ UNCHANGED <<pending, busy, epOf, orphaned, pc, arg>>
        /\ HolderOf(e)
    BY <1>2 DEF SendZlp, PipeInv
  <2>1. CASE NativeAccept(u) /\ CLeave(c) /\ epOf[u] = e
    <3>1. /\ \A d \in Completers : Serves(d, e)' <=> Serves(d, e) /\ d # c
          /\ Serves(c, e)
      BY <2>0, <2>1 DEF PlaceInv, Shape, Serves
    <3>2. \A v \in Urbs : flight'[v] > 0 <=> flight[v] > 0 \/ v = u
      BY <2>1 DEF PlaceInv, Shape, NativeAccept
    <3>3. Holds(e, <<"callback", c>>)
      BY <3>1 DEF Holds
    <3>4. \A p : Holds(e, p)' <=> (Holds(e, p) /\ p # <<"callback", c>>) \/ p = <<"flight", u>>
      BY <2>0, <2>1, <3>1, <3>2 DEF Holds, Drives
    <3> QED BY <2>0, <3>3, <3>4, PipePassed
  <2>2. CASE NativeAccept(u) /\ CLeave(c) /\ epOf[u] # e
    <3>1. \A d \in Completers : Serves(d, e)' <=> Serves(d, e)
      BY <2>0, <2>2 DEF PlaceInv, Shape, Serves
    <3>2. \A v \in Urbs : v # u => flight'[v] = flight[v]
      BY <2>2 DEF PlaceInv, Shape, NativeAccept
    <3>3. \A p : Holds(e, p)' <=> Holds(e, p)
      BY <2>0, <2>2, <3>1, <3>2 DEF Holds, Drives
    <3> QED BY <2>0, <3>3, PipeKept
  <2>3. CASE UNCHANGED <<flight, cur>> /\ cpc' = [cpc EXCEPT ![c] = "claim"]
    <3>1. \A d \in Completers : Serves(d, e)' <=> Serves(d, e)
      BY <2>0, <2>3 DEF PlaceInv, Shape, Serves
    <3>2. \A p : Holds(e, p)' <=> Holds(e, p)
      BY <2>0, <2>3, <3>1 DEF Holds, Drives
    <3> QED BY <2>0, <3>2, PipeKept
  <2> QED BY <1>2, <2>1, <2>2, <2>3 DEF SendZlp
<1> QED BY <1>1, <1>2

LEMMA PipeHandOn ==
    ASSUME PlaceInv, PipeInv, NEW c \in Completers,
           PopPending(c) \/ SubmitNext(c) \/ ReleasePipe(c)
    PROVE  PipeInv'
<1> USE UsbAssumption DEF CGoto, CAt, urbVars, callVars, driverVars, histVars
<1> SUFFICES ASSUME NEW f \in Endpoints, f = epOf[cur[c]], NEW e \in Endpoints
             PROVE  HolderOf(e)'
  BY DEF PlaceInv, Routed, PopPending, SubmitNext, ReleasePipe, NextPcs, PipeInv
<1>0. UNCHANGED <<epOf, cur, pc, arg>> /\ HolderOf(e) /\ HolderOf(f)
  BY DEF PopPending, SubmitNext, ReleasePipe, PipeInv
<1>1. CASE cpc' = [cpc EXCEPT ![c] = "submitnext"] /\ PopPending(c)
  <2>1. /\ UNCHANGED <<flight, busy, orphaned>> /\ cpc[c] = "pop"
        /\ \A g \in Endpoints : pending'[g] # <<>> => pending[g] # <<>> \/ g \in busy
    <3>1. pending[f] # <<>> /\ UNCHANGED busy /\ pending' = [pending EXCEPT ![f] = Tail(@)]
      BY <1>1 DEF PopPending, PlaceInv, Shape
    <3> QED BY <1>1, <3>1 DEF PopPending, PlaceInv, Shape
  <2>2. \A d \in Completers : Serves(d, e)' <=> Serves(d, e)
    BY <1>0, <1>1, <2>1 DEF PlaceInv, Shape, Serves
  <2>3. \A p : Holds(e, p)' <=> Holds(e, p)
    BY <1>0, <2>1, <2>2 DEF Holds, Drives
  <2> QED BY <1>0, <2>1, <2>3, PipeKept
<1>2. CASE /\ \E l \in {"free", "reportnext"} : cpc' = [cpc EXCEPT ![c] = l]
           /\ PopPending(c) \/ ReleasePipe(c)
  <2>1. /\ UNCHANGED <<flight, pending>> /\ cpc[c] \in {"pop", "release"}
        /\ busy' = busy \ {f} /\ orphaned \subseteq orphaned'
        /\ pending[f] # <<>> => f \in orphaned'
    <3>1. CASE PopPending(c)
      BY <1>2, <3>1 DEF PopPending, PlaceInv, Shape
    <3>2. CASE ReleasePipe(c)
      BY <3>2 DEF ReleasePipe
    <3> QED BY <1>2, <3>1, <3>2
  <2>2. CASE e = f
    <3>1. /\ \A d \in Completers : Serves(d, e)' <=> Serves(d, e) /\ d # c
          /\ Serves(c, e)
      BY <1>0, <1>2, <2>1, <2>2 DEF PlaceInv, Shape, Serves
    <3>2. Holds(e, <<"callback", c>>)
      BY <3>1 DEF Holds
    <3>3. \A p : Holds(e, p)' <=> Holds(e, p) /\ p # <<"callback", c>>
      BY <1>0, <2>1, <3>1 DEF Holds, Drives
    <3> QED BY <1>0, <2>1, <2>2, <3>2, <3>3, PipeGiven
  <2>3. CASE e # f
    <3>1. \A d \in Completers : Serves(d, e)' <=> Serves(d, e)
      BY <1>0, <1>2, <2>1, <2>3 DEF PlaceInv, Shape, Serves
    <3>2. \A p : Holds(e, p)' <=> Holds(e, p)
      BY <1>0, <2>1, <3>1 DEF Holds, Drives
    <3> QED BY <1>0, <2>1, <2>3, <3>2, PipeKept
  <2> QED BY <2>2, <2>3
<1>3. CASE SubmitNext(c)
  <2> SUFFICES ASSUME NEW u \in Urbs, u = next[c] PROVE HolderOf(e)'
    BY <1>3 DEF PlaceInv, Shape, SubmitNext, NextPcs
  <2>1. /\ UNCHANGED <<pending, busy, orphaned>> /\ cpc[c] = "submitnext" /\ epOf[u] = f
    BY <1>3 DEF SubmitNext, PlaceInv, Routed
  <2>2. CASE NativeAccept(u) /\ cpc' = [cpc EXCEPT ![c] = "free"] /\ e = f
    <3>1. /\ \A d \in Completers : Serves(d, e)' <=> Serves(d, e) /\ d # c
          /\ Serves(c, e)
      BY <1>0, <2>1, <2>2 DEF PlaceInv, Shape, Serves
    <3>2. \A v \in Urbs : flight'[v] > 0 <=> flight[v] > 0 \/ v = u
      BY <2>2 DEF PlaceInv, Shape, NativeAccept
    <3>3. Holds(e, <<"callback", c>>)
      BY <3>1 DEF Holds
    <3>4. \A p : Holds(e, p)' <=> (Holds(e, p) /\ p # <<"callback", c>>) \/ p = <<"flight", u>>
      BY <1>0, <2>1, <2>2, <3>1, <3>2 DEF Holds, Drives
    <3> QED BY <1>0, <2>1, <3>3, <3>4, PipePassed
  <2>3. CASE NativeAccept(u) /\ cpc' = [cpc EXCEPT ![c] = "free"] /\ e # f
    <3>1. \A d \in Completers : Serves(d, e)' <=> Serves(d, e)
      BY <1>0, <2>1, <2>3 DEF PlaceInv, Shape, Serves
    <3>2. \A v \in Urbs : v # u => flight'[v] = flight[v]
      BY <2>3 DEF PlaceInv, Shape, NativeAccept
    <3>3. \A p : Holds(e, p)' <=> Holds(e, p)
      BY <1>0, <2>1, <2>3, <3>1, <3>2 DEF Holds, Drives
    <3> QED BY <1>0, <2>1, <3>3, PipeKept
  <2>4. CASE UNCHANGED flight /\ cpc' = [cpc EXCEPT ![c] = "release"]
    <3>1. \A d \in Completers : Serves(d, e)' <=> Serves(d, e)
      BY <1>0, <2>1, <2>4 DEF PlaceInv, Shape, Serves
    <3>2. \A p : Holds(e, p)' <=> Holds(e, p)
      BY <1>0, <2>4, <3>1 DEF Holds, Drives
    <3> QED BY <1>0, <2>1, <3>2, PipeKept
  <2> QED BY <1>3, <2>2, <2>3, <2>4 DEF SubmitNext
<1> QED BY <1>1, <1>2, <1>3 DEF PopPending, ReleasePipe

LEMMA PipeStep == PlaceInv /\ PipeInv /\ [Next]_vars => PipeInv'
<1> SUFFICES ASSUME PlaceInv, PipeInv, [Next]_vars PROVE PipeInv'
  OBVIOUS
<1>1. ASSUME NEW t \in Threads, Call(t) \/ CallStep(t) PROVE PipeInv'
  BY <1>1, PipeCallKeeps, PipeCallMoves DEF Call, CallStep
<1>2. ASSUME NEW c \in Completers, CompletionStep(c) PROVE PipeInv'
  BY <1>2, PipeCompletionKeeps, PipeTransfer, PipeHandOn DEF CompletionStep
<1>3. CASE UNCHANGED vars
  BY <1>3, PipeFrame DEF vars, urbVars, pipeVars, callVars, doneVars, driverVars, histVars,
                         Drives, Serves
<1> QED BY <1>1, <1>2, <1>3 DEF Next

(* Each kind of holder of PipeHolders is one of Holds.                     *)
LEMMA HoldersHold ==
    ASSUME NEW e \in Endpoints, NEW p
    PROVE  p \in PipeHolders(e) <=> Holds(e, p)
BY DEF PipeHolders, Holds, Drives, Serves

(* Two contexts and a queue share a pipe: pipe_busy is set exactly while   *)
(* one transfer, caller or completion holds it, and whatever waits behind  *)
(* an idle pipe is there for one of the two reasons `orphaned` records.    *)
THEOREM PipeKeptBusy == Spec => []PipeServed
<1>1. PlaceInv /\ RefInv /\ PipeInv => PipeServed
  <2> SUFFICES ASSUME PlaceInv, RefInv, PipeInv PROVE PipeServed
    OBVIOUS
  <2>1. TypeOK
    <3>1. refs \in [Urbs -> Nat]
      BY FS_CardinalityType DEF RefInv, RefOf, PlaceInv, Shape
    <3> QED BY <3>1, UsbAssumption DEF PlaceInv, Shape, NextPcs, TypeOK
  <2>2. ASSUME NEW e \in Endpoints
        PROVE  /\ Cardinality(PipeHolders(e)) <= 1
               /\ e \in busy <=> PipeHolders(e) # {}
    <3>1. e \in busy <=> \E p : p \in PipeHolders(e)
      BY HoldersHold DEF PipeInv, HolderOf
    <3>2. CASE PipeHolders(e) = {}
      BY <3>1, <3>2, FS_EmptySet
    <3>3. ASSUME NEW a, a \in PipeHolders(e) PROVE Cardinality(PipeHolders(e)) = 1
      <4>1. PipeHolders(e) = {a}
        BY <3>3, HoldersHold DEF PipeInv, HolderOf
      <4> QED BY <4>1, FS_Singleton
    <3> QED BY <3>1, <3>2, <3>3
  <2>3. \A u \in Urbs : flight[u] <= 1
    BY DEF PlaceInv, Single
  <2>4. QueueServed
    BY DEF PipeInv, HolderOf, QueueServed
  <2> QED BY <2>1, <2>2, <2>3, <2>4 DEF PipeServed, PipeExclusive
<1>2. Init => PlaceInv /\ RefInv /\ PipeInv
  BY PlaceInit, RefInit, PipeInit
<1>3. PlaceInv /\ RefInv /\ PipeInv /\ [Next]_vars => (PlaceInv /\ RefInv /\ PipeInv)'
  BY PlaceStep, RefStep, PipeStep
<1> QED BY <1>1, <1>2, <1>3, PTL DEF Spec

-----------------------------------------------------------------------------
(* The driver of u has stored submitted and not yet prepared it.           *)
Unprepared(u) == \E t \in Threads : arg[t] = u /\ pc[t] = "unkill"

(* zlp_pending stands for a zero packet that was sent, or is left over     *)
(* from the submission before and about to be cleared.                     *)
ZlpInv ==
    /\ \A u \in zlp : u \in zlpSent \/ Unprepared(u)
    /\ ZlpBeforeSuccess

LEMMA ZlpFrame ==
    ASSUME ZlpInv, UNCHANGED <<zlp, zlpSent, cpc, cur, whole>>,
           \A t \in Threads : pc[t] = "unkill" => pc'[t] = "unkill" /\ arg'[t] = arg[t]
    PROVE  ZlpInv'
BY DEF ZlpInv, ZlpBeforeSuccess, Unprepared, CAt

(* A step that only takes completions away from the claim.                 *)
LEMMA ZlpLess ==
    ASSUME ZlpInv, UNCHANGED <<zlp, zlpSent, pc, arg>>,
           \A c \in Completers :
              cpc'[c] = "claim" => cpc[c] = "claim" /\ cur'[c] = cur[c] /\ whole'[c] = whole[c]
    PROVE  ZlpInv'
BY DEF ZlpInv, ZlpBeforeSuccess, Unprepared, CAt

LEMMA ZlpCall ==
    ASSUME PlaceInv, ZlpInv, NEW t \in Threads, Call(t) \/ CallStep(t)
    PROVE  ZlpInv'
<1> USE UsbAssumption DEF Goto, At, urbVars, pipeVars, callVars, doneVars, driverVars, histVars
<1>1. ASSUME NEW u \in Urbs, SubmitUrb(t, u) PROVE ZlpInv'
  <2>1. /\ UNCHANGED <<zlp, cpc, cur, whole>> /\ zlpSent' = zlpSent \ {u} /\ u \notin submitted
        /\ pc' = [pc EXCEPT ![t] = "unkill"] /\ arg' = [arg EXCEPT ![t] = u] /\ pc[t] = "idle"
    BY <1>1 DEF SubmitUrb, MayCall
  <2>2. \A v \in zlp' : v \in zlpSent' \/ Unprepared(v)'
    BY <2>1 DEF ZlpInv, Unprepared, PlaceInv, Shape
  <2>3. \A c \in Completers : cpc[c] = "claim" => cur[c] # u
    BY <2>1 DEF PlaceInv, OneKind, Ended, Ends
  <2> QED BY <2>1, <2>2, <2>3 DEF ZlpInv, ZlpBeforeSuccess, CAt
<1>2. CASE Prepare(t)
  <2>1. /\ UNCHANGED <<zlpSent, arg, cpc, cur, whole>> /\ zlp' = zlp \ {arg[t]}
        /\ \A s \in Threads : s # t => pc'[s] = pc[s]
    BY <1>2 DEF Prepare, PlaceInv, Shape
  <2> QED BY <2>1 DEF ZlpInv, ZlpBeforeSuccess, Unprepared, CAt
<1>3. ASSUME NEW u \in Urbs, KillUrb(t, u) \/ DriverFree(t, u) PROVE ZlpInv'
  BY <1>3, ZlpFrame DEF KillUrb, DriverFree, PlaceInv, Shape
<1>4. CASE LookAtPipe(t) \/ UndoBusy(t) \/ UndoSubmitted(t)
  BY <1>4, ZlpFrame DEF LookAtPipe, UndoBusy, UndoSubmitted, PlaceInv, Shape
<1>5. CASE AppendUrb(t) \/ SubmitNative(t) \/ UndoReference(t) \/ KillReturns(t)
  BY <1>5, ZlpFrame DEF AppendUrb, SubmitNative, UndoReference, KillReturns, Leave, PlaceInv, Shape
<1> QED BY <1>1, <1>2, <1>3, <1>4, <1>5 DEF Call, CallStep

LEMMA ZlpCompletion ==
    ASSUME PlaceInv, ZlpInv, NEW c \in Completers, CompletionStep(c)
    PROVE  ZlpInv'
<1> USE UsbAssumption
    DEF CGoto, CAt, urbVars, pipeVars, callVars, doneVars, driverVars, histVars
<1>1. CASE NoZlp(c)
  <2> SUFFICES ASSUME NEW u \in Urbs, u = cur[c] PROVE ZlpInv'
    BY <1>1 DEF NoZlp, PlaceInv, Shape
  <2>1. /\ UNCHANGED <<zlpSent, pc, arg, cur, whole>> /\ zlp' = zlp \ {u}
        /\ cpc' = [cpc EXCEPT ![c] = "claim"] /\ cpc[c] = "entered"
        /\ u \in zlp \/ ~(whole[c] /\ u \in ZlpUrbs)
    BY <1>1 DEF NoZlp, NeedsZlp
  <2>2. ~Unprepared(u)
    BY <2>1 DEF PlaceInv, OneKind, Started, Starts, Ended, Ends, Unprepared, SubmitPcs
  <2>3. u \in zlp => u \in zlpSent
    BY <2>2 DEF ZlpInv
  <2> QED BY <2>1, <2>3 DEF ZlpInv, ZlpBeforeSuccess, Unprepared, PlaceInv, Shape
<1>2. CASE SendZlp(c)
  <2>1. /\ UNCHANGED <<pc, arg>>
        /\ \E Z \in SUBSET {cur[c]} : zlp' = zlp \cup Z /\ zlpSent' = zlpSent \cup Z
    BY <1>2 DEF SendZlp
  <2>2. \A d \in Completers :
           cpc'[d] = "claim" /\ whole'[d]
              => cpc[d] = "claim" /\ whole[d] /\ cur'[d] = cur[d]
    BY <1>2 DEF SendZlp, CLeave, PlaceInv, Shape
  <2> QED BY <2>1, <2>2 DEF ZlpInv, ZlpBeforeSuccess, Unprepared
<1>3. ASSUME NEW u \in Urbs, NEW o \in BOOLEAN, TakeCompletion(c, u, o) PROVE ZlpInv'
  <2>1. \A d \in Completers :
           cpc'[d] = "claim" => cpc[d] = "claim" /\ cur'[d] = cur[d] /\ whole'[d] = whole[d]
    BY <1>3 DEF TakeCompletion, PlaceInv, Shape
  <2> QED BY <1>3, <2>1, ZlpLess DEF TakeCompletion
<1>4. CASE ClaimCompletion(c) \/ FreeCompleted(c)
  <2>1. \A d \in Completers :
           cpc'[d] = "claim" => cpc[d] = "claim" /\ cur'[d] = cur[d] /\ whole'[d] = whole[d]
    BY <1>4 DEF ClaimCompletion, FreeCompleted, CLeave, PlaceInv, Shape
  <2> QED BY <1>4, <2>1, ZlpLess DEF ClaimCompletion, FreeCompleted
<1>5. CASE \/ Report(c) \/ StartCallback(c) \/ CallbackReturns(c)
           \/ ReportNext(c) \/ StartNextCallback(c) \/ NextCallbackReturns(c)
  BY <1>5, ZlpLess DEF Report, StartCallback, CallbackReturns, ReportNext, StartNextCallback,
                       NextCallbackReturns, AfterCallback, PlaceInv, Shape
<1>6. CASE PopPending(c) \/ SubmitNext(c) \/ ReleasePipe(c) \/ FreeNext(c)
  BY <1>6, ZlpLess DEF PopPending, SubmitNext, ReleasePipe, FreeNext, PlaceInv, Shape
<1> QED BY <1>1, <1>2, <1>3, <1>4, <1>5, <1>6 DEF CompletionStep

(* A transfer that had to end with a zero packet is claimed as complete    *)
(* only after that packet went out in the same submission: the flag of an  *)
(* earlier submission is never taken for it.                               *)
THEOREM ZeroPacketFirst == Spec => []ZlpBeforeSuccess
<1>1. Init => PlaceInv /\ ZlpInv
  BY PlaceInit DEF Init, ZlpInv, ZlpBeforeSuccess, CAt
<1>2. PlaceInv /\ ZlpInv /\ [Next]_vars => (PlaceInv /\ ZlpInv)'
  <2> SUFFICES ASSUME PlaceInv, ZlpInv, [Next]_vars PROVE ZlpInv'
    BY PlaceStep
  <2>1. CASE UNCHANGED vars
    BY <2>1, ZlpFrame DEF vars, urbVars, callVars, doneVars, histVars
  <2> QED BY <2>1, ZlpCall, ZlpCompletion DEF Next
<1>3. ZlpInv => ZlpBeforeSuccess
  BY DEF ZlpInv
<1> QED BY <1>1, <1>2, <1>3, PTL DEF Spec

-----------------------------------------------------------------------------
(* While u is quiet, and while the kill that will make it quiet waits,     *)
(* `killed` is set and nobody is about to clear it.                        *)
Silenced(u) == u \in killed /\ ~Unprepared(u)

QuietInv ==
    /\ \A u \in quiet : Silenced(u)
    /\ \A t \in clean : t \in Threads /\ pc[t] = "kill" /\ Silenced(arg[t])

LEMMA QuietCall ==
    ASSUME PlaceInv, QuietInv, NEW t \in Threads, Call(t) \/ CallStep(t)
    PROVE  QuietInv'
<1> USE UsbAssumption DEF Goto, At, urbVars, pipeVars, callVars, doneVars, driverVars, histVars
<1>1. ASSUME NEW u \in Urbs, SubmitUrb(t, u) PROVE QuietInv'
  <2>1. /\ UNCHANGED killed /\ quiet' = quiet \ {u} /\ clean' = {o \in clean : arg[o] # u}
        /\ pc' = [pc EXCEPT ![t] = "unkill"] /\ arg' = [arg EXCEPT ![t] = u] /\ pc[t] = "idle"
    BY <1>1 DEF SubmitUrb, MayCall
  <2>2. \A v : v # u /\ Silenced(v) => Silenced(v)'
    BY <2>1 DEF Silenced, Unprepared, PlaceInv, Shape
  <2> QED BY <2>1, <2>2 DEF QuietInv, PlaceInv, Shape
<1>2. CASE Prepare(t)
  <2>1. /\ UNCHANGED <<quiet, clean, arg>> /\ killed' = killed \ {arg[t]} /\ pc[t] = "unkill"
        /\ \A s \in Threads : s # t => pc'[s] = pc[s]
        /\ pc'[t] # "unkill"
    BY <1>2 DEF Prepare, PlaceInv, Shape
  <2>2. \A v : Silenced(v) => v # arg[t] /\ Silenced(v)'
    BY <2>1 DEF Silenced, Unprepared
  <2> QED BY <2>1, <2>2 DEF QuietInv
<1>3. ASSUME NEW u \in Urbs, KillUrb(t, u) PROVE QuietInv'
  <2>1. /\ UNCHANGED quiet /\ killed' = killed \cup {u} /\ pc[t] = "idle"
        /\ pc' = [pc EXCEPT ![t] = "kill"] /\ arg' = [arg EXCEPT ![t] = u]
        /\ clean' = clean \/ (clean' = clean \cup {t} /\ ~Unprepared(u))
    BY <1>3 DEF KillUrb, Unprepared, Submitting, SubmitPcs
  <2>2. \A v : v = u \/ Silenced(v) => (~Unprepared(v) => Silenced(v)')
    BY <2>1 DEF Silenced, Unprepared, PlaceInv, Shape
  <2> QED BY <2>1, <2>2 DEF QuietInv, Silenced, PlaceInv, Shape
<1>4. CASE KillReturns(t)
  <2>1. /\ UNCHANGED killed /\ clean' = clean \ {t} /\ pc[t] = "kill"
        /\ quiet' = IF t \in clean THEN quiet \cup {arg[t]} ELSE quiet
        /\ pc' = [pc EXCEPT ![t] = "idle"] /\ arg' = [arg EXCEPT ![t] = None]
    BY <1>4 DEF KillReturns, Leave
  <2>2. \A v : Silenced(v) => Silenced(v)'
    BY <2>1 DEF Silenced, Unprepared, PlaceInv, Shape
  <2> QED BY <2>1, <2>2 DEF QuietInv, PlaceInv, Shape
<1>5. CASE \/ \E u \in Urbs : DriverFree(t, u)
           \/ LookAtPipe(t) \/ AppendUrb(t) \/ SubmitNative(t)
           \/ UndoBusy(t) \/ UndoSubmitted(t) \/ UndoReference(t)
  <2>1. /\ UNCHANGED <<killed, quiet, clean>> /\ pc[t] \notin {"kill", "unkill"}
        /\ pc'[t] # "unkill"
        /\ \A s \in Threads : s # t => pc'[s] = pc[s] /\ arg'[s] = arg[s]
    BY <1>5 DEF DriverFree, LookAtPipe, AppendUrb, SubmitNative, UndoBusy, UndoSubmitted,
                UndoReference, Leave, PlaceInv, Shape
  <2>2. \A v : Silenced(v) => Silenced(v)'
    BY <2>1 DEF Silenced, Unprepared
  <2> QED BY <2>1, <2>2 DEF QuietInv
<1> QED BY <1>1, <1>2, <1>3, <1>4, <1>5 DEF Call, CallStep

(* No step of the host controller touches what a kill looks at.            *)
LEMMA CompletionLeaves ==
    ASSUME NEW c \in Completers, CompletionStep(c)
    PROVE  /\ UNCHANGED <<killed, quiet, clean, pc, arg>>
           /\ \A d \in past : d # c => d \in past'
<1> USE DEF urbVars, pipeVars, callVars, doneVars, driverVars, histVars
<1>1. CASE \/ \E u \in Urbs, o \in BOOLEAN : TakeCompletion(c, u, o)
           \/ NoZlp(c) \/ SendZlp(c) \/ ClaimCompletion(c) \/ Report(c)
  BY <1>1 DEF TakeCompletion, NoZlp, SendZlp, ClaimCompletion, Report
<1>2. CASE StartCallback(c) \/ CallbackReturns(c) \/ StartNextCallback(c) \/ NextCallbackReturns(c)
  BY <1>2 DEF StartCallback, CallbackReturns, StartNextCallback, NextCallbackReturns
<1>3. CASE \/ PopPending(c) \/ SubmitNext(c) \/ ReleasePipe(c) \/ ReportNext(c)
           \/ FreeNext(c) \/ FreeCompleted(c)
  BY <1>3 DEF PopPending, SubmitNext, ReleasePipe, ReportNext, FreeNext, FreeCompleted
<1> QED BY <1>1, <1>2, <1>3 DEF CompletionStep

LEMMA QuietCompletion ==
    ASSUME QuietInv, NEW c \in Completers, CompletionStep(c)
    PROVE  QuietInv'
BY CompletionLeaves DEF QuietInv, Silenced, Unprepared

-----------------------------------------------------------------------------
(* Whoever is about to call urb->complete of a quiet URB got there before  *)
(* the kill returned.                                                      *)
Excused == \A c \in Completers : \A u \in quiet : AboutToCall(c, u) => c \in past

LEMMA ExcusedCall ==
    ASSUME Excused, NEW t \in Threads, Call(t) \/ CallStep(t)
    PROVE  Excused'
<1> USE DEF urbVars, pipeVars, callVars, doneVars, driverVars, histVars
<1>1. UNCHANGED <<cpc, cur, next>>
  BY DEF Call, CallStep, SubmitUrb, KillUrb, DriverFree, Prepare, LookAtPipe, AppendUrb,
         SubmitNative, UndoBusy, UndoSubmitted, UndoReference, KillReturns
<1>2. CASE KillReturns(t)
  BY <1>1, <1>2 DEF KillReturns, Excused, AboutToCall, CAt
<1>3. CASE ~KillReturns(t)
  <2>1. quiet' \subseteq quiet /\ UNCHANGED past
    BY <1>3 DEF Call, CallStep, SubmitUrb, KillUrb, DriverFree, Prepare, LookAtPipe,
                AppendUrb, SubmitNative, UndoBusy, UndoSubmitted, UndoReference
  <2> QED BY <1>1, <2>1 DEF Excused, AboutToCall, CAt
<1> QED BY <1>2, <1>3

(* Only the test of `killed` leads to a call of urb->complete.             *)
LEMMA CallNeedsTest ==
    ASSUME PlaceInv, NEW c \in Completers, CompletionStep(c), NEW u
    PROVE  AboutToCall(c, u)' => u \notin killed
<1> USE DEF CGoto, CAt, CLeave, urbVars, pipeVars, callVars, doneVars, driverVars, histVars,
            AboutToCall
<1>1. CASE Report(c)
  BY <1>1 DEF Report, AfterCallback, PlaceInv, Shape
<1>2. CASE ReportNext(c)
  BY <1>2 DEF ReportNext, PlaceInv, Shape
<1>3. CASE ~Report(c) /\ ~ReportNext(c)
  <2> SUFFICES cpc'[c] \notin {"calling", "nextcalling"}
    OBVIOUS
  <2>1. CASE \/ \E v \in Urbs, o \in BOOLEAN : TakeCompletion(c, v, o)
             \/ NoZlp(c) \/ SendZlp(c) \/ ClaimCompletion(c)
    BY <2>1 DEF TakeCompletion, NoZlp, SendZlp, ClaimCompletion, PlaceInv, Shape
  <2>2. CASE StartCallback(c) \/ CallbackReturns(c) \/ StartNextCallback(c) \/ NextCallbackReturns(c)
    BY <2>2 DEF StartCallback, CallbackReturns, StartNextCallback, NextCallbackReturns,
                AfterCallback, PlaceInv, Shape
  <2>3. CASE \/ PopPending(c) \/ SubmitNext(c) \/ ReleasePipe(c)
             \/ FreeNext(c) \/ FreeCompleted(c)
    BY <2>3 DEF PopPending, SubmitNext, ReleasePipe, FreeNext, FreeCompleted, PlaceInv, Shape
  <2> QED BY <1>3, <2>1, <2>2, <2>3 DEF CompletionStep
<1> QED BY <1>1, <1>2, <1>3

(* The other contexts keep their locals.                                   *)
LEMMA OtherCompleters ==
    ASSUME PlaceInv, NEW c \in Completers, CompletionStep(c), NEW d \in Completers, d # c
    PROVE  cpc'[d] = cpc[d] /\ cur'[d] = cur[d] /\ next'[d] = next[d]
<1> USE DEF CGoto, CLeave, urbVars, pipeVars, callVars, doneVars, driverVars, histVars
<1>1. CASE \/ \E u \in Urbs, o \in BOOLEAN : TakeCompletion(c, u, o)
           \/ NoZlp(c) \/ SendZlp(c) \/ ClaimCompletion(c) \/ Report(c)
  BY <1>1 DEF TakeCompletion, NoZlp, SendZlp, ClaimCompletion, Report, PlaceInv, Shape
<1>2. CASE StartCallback(c) \/ CallbackReturns(c) \/ StartNextCallback(c) \/ NextCallbackReturns(c)
  BY <1>2 DEF StartCallback, CallbackReturns, StartNextCallback, NextCallbackReturns, PlaceInv,
              Shape
<1>3. CASE \/ PopPending(c) \/ SubmitNext(c) \/ ReleasePipe(c) \/ ReportNext(c)
           \/ FreeNext(c) \/ FreeCompleted(c)
  BY <1>3 DEF PopPending, SubmitNext, ReleasePipe, ReportNext, FreeNext, FreeCompleted,
              PlaceInv, Shape
<1> QED BY <1>1, <1>2, <1>3 DEF CompletionStep

LEMMA ExcusedCompletion ==
    ASSUME PlaceInv, QuietInv, Excused, NEW c \in Completers, CompletionStep(c)
    PROVE  Excused'
<1>1. /\ UNCHANGED <<killed, quiet>>
      /\ \A d \in past : d # c => d \in past'
  BY CompletionLeaves
<1>2. \A u \in quiet : ~AboutToCall(c, u)'
  BY CallNeedsTest DEF QuietInv, Silenced
<1>3. \A d \in Completers, u \in quiet : d # c /\ AboutToCall(d, u)' => AboutToCall(d, u)
  BY OtherCompleters DEF AboutToCall, CAt
<1> QED BY <1>1, <1>2, <1>3 DEF Excused

(* From the return of usb_kill_urb until the next usb_submit_urb of that   *)
(* URB, its urb->complete is entered only by a context that had passed its *)
(* own test of `killed` before the kill returned.                          *)
THEOREM KillSilences == Spec => KilledStaysQuiet
<1>1. Init => PlaceInv /\ QuietInv /\ Excused
  BY PlaceInit DEF Init, QuietInv, Excused
<1>2. PlaceInv /\ QuietInv /\ Excused /\ [Next]_vars => (PlaceInv /\ QuietInv /\ Excused)'
  <2> SUFFICES ASSUME PlaceInv, QuietInv, Excused, [Next]_vars PROVE QuietInv' /\ Excused'
    BY PlaceStep
  <2>1. CASE UNCHANGED vars
    BY <2>1 DEF vars, urbVars, callVars, doneVars, histVars, QuietInv, Silenced, Unprepared,
                Excused, AboutToCall, CAt
  <2> QED BY <2>1, QuietCall, QuietCompletion, ExcusedCall, ExcusedCompletion DEF Next
<1>3. Excused =>
        [\A c \in Completers :
            /\ CAt(c, "calling") /\ cpc'[c] = "callback" /\ cur[c] \in quiet => c \in past
            /\ CAt(c, "nextcalling") /\ cpc'[c] = "nextcallback" /\ next[c] \in quiet
                  => c \in past]_vars
  BY DEF Excused, AboutToCall
<1> QED BY <1>1, <1>2, <1>3, PTL DEF Spec, KilledStaysQuiet

=============================================================================
