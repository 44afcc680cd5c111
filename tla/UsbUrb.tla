------------------------------- MODULE UsbUrb -------------------------------
(***************************************************************************)
(* URB traffic of src/usb.c: usb_submit_urb, the completion callback       *)
(* lcompat_usb_urb_complete that the host controller calls, usb_kill_urb   *)
(* and usb_free_urb.  Every endpoint of a wrapped interface has a pending  *)
(* queue and a pipe_busy flag under wrapper->pending_lock; the rest of an  *)
(* URB is shared without a lock.  status and actual_length are data: what  *)
(* is left of them is whether a transfer ended whole.  A control pipe      *)
(* never gets this far (its URB has no native_pipe and is refused).        *)
(***************************************************************************)
EXTENDS Integers, Sequences, FiniteSets

CONSTANTS Urbs,       \* struct urb objects, allocated by usb_alloc_urb
          Endpoints,  \* endpoints of wrapped interfaces: those with a queue
          PipeMaps,   \* assignments of URBs to endpoints to look at
          ZlpUrbs,    \* OUT URBs with URB_ZERO_PACKET and a length of whole packets
          Callers,    \* driver threads
          Completers, \* contexts in which the host controller calls back
          MaxSubmits, \* bound on the number of usb_submit_urb calls
          None

Threads == Callers \cup Completers

ASSUME UsbAssumption ==
    /\ PipeMaps \subseteq [Urbs -> Endpoints \cup {None}]
    /\ ZlpUrbs \subseteq Urbs
    /\ Callers \cap Completers = {}
    /\ None \notin Urbs \cup Endpoints \cup Threads
    /\ MaxSubmits \in Nat

VARIABLES
    submitted, \* set of URBs with urb->submitted = 1
    killed,    \* set of URBs with urb->killed = 1
    refs,      \* [u -> urb->refcount]
    zlp,       \* set of URBs with state->zlp_pending
    pending,   \* [e -> Seq(Urbs)]: pending_head ... pending_tail
    busy,      \* set of endpoints with pipe_busy
    flight,    \* [u -> transfers of u that the host controller holds]
    pc,        \* [t -> place in submit or kill]
    arg,       \* [t -> urb of that call]
    cpc,       \* [c -> place in the completion callback]
    cur,       \* [c -> the completed urb]
    whole,     \* [c -> the transfer ended without error and in full length]
    next,      \* [c -> the local variable `next`]
    held,      \* set of URBs whose first reference the driver still owns
    submits,   \* submissions left
    epOf,      \* [u -> endpoint of urb->pipe, None: no wrapper has the pipe]
    zlpSent,   \* history: URBs whose current submission sent its zero packet
    clean,     \* history: threads in a kill that met no submission of its URB
    quiet,     \* history: URBs killed, with no submission since or during
    past,      \* history: contexts past the test of killed when a kill returned
    orphaned   \* history: endpoints that may have a queue and no transfer

urbVars  == <<submitted, killed, refs, zlp>>
pipeVars == <<pending, busy, flight>>
callVars == <<pc, arg>>
doneVars == <<cpc, cur, whole, next>>
driverVars == <<held, submits, epOf>>
histVars == <<zlpSent, clean, quiet, past, orphaned>>
vars == <<urbVars, pipeVars, callVars, doneVars, driverVars, histVars>>

Goto(t, l)  == pc' = [pc EXCEPT ![t] = l]
At(t, l)    == pc[t] = l
CGoto(c, l) == cpc' = [cpc EXCEPT ![c] = l]
CAt(c, l)   == cpc[c] = l

(* The call returns; its locals are gone.                                  *)
Leave(t)  == Goto(t, "idle") /\ arg' = [arg EXCEPT ![t] = None]
CLeave(c) ==
    /\ CGoto(c, "off")
    /\ cur' = [cur EXCEPT ![c] = None]
    /\ whole' = [whole EXCEPT ![c] = FALSE]
    /\ next' = [next EXCEPT ![c] = None]

SubmitPcs == {"unkill", "look", "append", "native", "undo", "unsubmit", "drop"}
Submitting(t, u) == arg[t] = u /\ pc[t] \in SubmitPcs

(* usb_free_urb: the URB and its state go with the last reference.         *)
PutUrb(u) == refs' = [refs EXCEPT ![u] = @ - 1]

(* The host controller takes a transfer; it may also refuse it.            *)
NativeAccept(u) == flight' = [flight EXCEPT ![u] = @ + 1]

-----------------------------------------------------------------------------
(* A thread may call the driver's USB functions: a driver thread between   *)
(* two calls, or the host controller inside urb->complete.                 *)
MayCall(t) ==
    /\ At(t, "idle")
    /\ t \in Completers => cpc[t] \in {"callback", "nextcallback"}

(* The URB whose urb->complete c executes.                                 *)
CallbackUrb(c) == IF CAt(c, "callback") THEN cur[c] ELSE next[c]

(* usb_submit_urb(u).  A driver does not submit one URB from two threads   *)
(* at once, and it owns a reference or runs in u's callback; the test of   *)
(* submitted and its store are then one step.                              *)
SubmitUrb(t, u) ==
    /\ MayCall(t)
    /\ submits > 0
    /\ u \in held \/ (t \in Completers /\ CallbackUrb(t) = u)
    /\ \A o \in Threads : ~Submitting(o, u)
    /\ u \notin submitted
    /\ submits' = submits - 1
    /\ submitted' = submitted \cup {u}
    /\ arg' = [arg EXCEPT ![t] = u]
    /\ Goto(t, "unkill")
    /\ zlpSent' = zlpSent \ {u}
    /\ quiet' = quiet \ {u}
    /\ clean' = {o \in clean : arg[o] # u}
    /\ UNCHANGED <<killed, refs, zlp, pipeVars, doneVars, held, epOf, past, orphaned>>

(* The rest of the preparation, with the reference of the submission.      *)
Prepare(t) ==
    LET u == arg[t] IN
    /\ At(t, "unkill")
    /\ killed' = killed \ {u}
    /\ zlp' = zlp \ {u}
    /\ refs' = [refs EXCEPT ![u] = @ + 1]
    /\ Goto(t, IF epOf[u] = None THEN "native" ELSE "look")
    /\ UNCHANGED <<submitted, pipeVars, arg, doneVars, driverVars, histVars>>

(* The first lock section: claim the pipe or find it busy.                 *)
LookAtPipe(t) ==
    LET e == epOf[arg[t]] IN
    /\ At(t, "look")
    /\ busy' = busy \cup {e}
    /\ Goto(t, IF e \in busy THEN "append" ELSE "native")
    /\ UNCHANGED <<urbVars, pending, flight, arg, doneVars, driverVars, histVars>>

(* The second lock section does not look at pipe_busy again.               *)
AppendUrb(t) ==
    LET e == epOf[arg[t]] IN
    /\ At(t, "append")
    /\ pending' = [pending EXCEPT ![e] = Append(@, arg[t])]
    /\ orphaned' = IF e \in busy THEN orphaned ELSE orphaned \cup {e}
    /\ Leave(t)
    /\ UNCHANGED <<urbVars, busy, flight, doneVars, driverVars,
                   zlpSent, clean, quiet, past>>

SubmitNative(t) ==
    LET u == arg[t] IN
    /\ At(t, "native")
    /\ \/ NativeAccept(u) /\ Leave(t)
       \/ /\ Goto(t, IF epOf[u] = None THEN "unsubmit" ELSE "undo")
          /\ UNCHANGED <<flight, arg>>
    /\ UNCHANGED <<urbVars, pending, busy, doneVars, driverVars, histVars>>

(* The host controller refused: whatever was queued meanwhile stays.       *)
UndoBusy(t) ==
    LET e == epOf[arg[t]] IN
    /\ At(t, "undo")
    /\ busy' = busy \ {e}
    /\ orphaned' = IF pending[e] = <<>> THEN orphaned ELSE orphaned \cup {e}
    /\ Goto(t, "unsubmit")
    /\ UNCHANGED <<urbVars, pending, flight, arg, doneVars, driverVars,
                   zlpSent, clean, quiet, past>>

UndoSubmitted(t) ==
    /\ At(t, "unsubmit")
    /\ submitted' = submitted \ {arg[t]}
    /\ Goto(t, "drop")
    /\ UNCHANGED <<killed, refs, zlp, pipeVars, arg, doneVars,
                   driverVars, histVars>>

UndoReference(t) ==
    /\ At(t, "drop")
    /\ PutUrb(arg[t])
    /\ Leave(t)
    /\ UNCHANGED <<submitted, killed, zlp, pipeVars, doneVars,
                   driverVars, histVars>>

-----------------------------------------------------------------------------
(* usb_kill_urb(u) by a driver that owns a reference.                      *)
KillUrb(t, u) ==
    /\ t \in Callers /\ At(t, "idle")
    /\ u \in held
    /\ killed' = killed \cup {u}
    /\ arg' = [arg EXCEPT ![t] = u]
    /\ Goto(t, "kill")
    /\ clean' = IF \E o \in Threads : Submitting(o, u) THEN clean ELSE clean \cup {t}
    /\ UNCHANGED <<submitted, refs, zlp, pipeVars, doneVars,
                   driverVars, zlpSent, quiet, past, orphaned>>

(* c has passed the test of killed for u and is about to call urb->complete. *)
AboutToCall(c, u) ==
    \/ CAt(c, "calling") /\ cur[c] = u
    \/ CAt(c, "nextcalling") /\ next[c] = u

(* The wait ends with the submission, not with the callback, which may     *)
(* still be running or, past the test of killed, still be about to start.  *)
KillReturns(t) ==
    /\ At(t, "kill")
    /\ arg[t] \notin submitted
    /\ clean' = clean \ {t}
    /\ quiet' = IF t \in clean THEN quiet \cup {arg[t]} ELSE quiet
    /\ past' = IF t \in clean
                  THEN past \cup {c \in Completers : AboutToCall(c, arg[t])} ELSE past
    /\ Leave(t)
    /\ UNCHANGED <<urbVars, pipeVars, doneVars, driverVars,
                   zlpSent, orphaned>>

(* The driver gives up its own reference outside any call for u.           *)
DriverFree(t, u) ==
    /\ t \in Callers /\ At(t, "idle")
    /\ u \in held
    /\ \A o \in Threads : At(o, "idle") \/ arg[o] # u
    /\ held' = held \ {u}
    /\ PutUrb(u)
    /\ UNCHANGED <<submitted, killed, zlp, pipeVars, callVars,
                   doneVars, submits, epOf, histVars>>

-----------------------------------------------------------------------------
(* lcompat_usb_urb_complete: the host controller ends a transfer.          *)
TakeCompletion(c, u, o) ==
    /\ CAt(c, "off")
    /\ flight[u] > 0
    /\ flight' = [flight EXCEPT ![u] = @ - 1]
    /\ IF u \in submitted
          THEN /\ CGoto(c, "entered")
               /\ cur' = [cur EXCEPT ![c] = u]
               /\ whole' = [whole EXCEPT ![c] = o]
          ELSE UNCHANGED <<cpc, cur, whole>>
    /\ UNCHANGED <<urbVars, pending, busy, callVars, next, driverVars, histVars>>

NeedsZlp(c) == whole[c] /\ cur[c] \in ZlpUrbs

(* The transfer was the zero packet, or needs none.                        *)
NoZlp(c) ==
    /\ CAt(c, "entered")
    /\ cur[c] \in zlp \/ ~NeedsZlp(c)
    /\ zlp' = zlp \ {cur[c]}
    /\ CGoto(c, "claim")
    /\ UNCHANGED <<submitted, killed, refs, pipeVars, callVars, cur,
                   whole, next, driverVars, histVars>>

(* Mutant: a refused zero packet is reported as success.                   *)
SendZlpIgnored(c) ==
    LET u == cur[c] IN
    /\ CAt(c, "entered")
    /\ u \notin zlp /\ NeedsZlp(c)
    /\ \/ /\ NativeAccept(u)
          /\ zlp' = zlp \cup {u}
          /\ zlpSent' = zlpSent \cup {u}
          /\ CLeave(c)
       \/ /\ CGoto(c, "claim")
          /\ UNCHANGED <<flight, zlp, zlpSent, cur, whole, next>>
    /\ UNCHANGED <<submitted, killed, refs, pending, busy, callVars, driverVars,
                   clean, quiet, past, orphaned>>

(* The zero packet is one more transfer of the same submission.            *)
SendZlp(c) ==
    LET u == cur[c] IN
    /\ CAt(c, "entered")
    /\ u \notin zlp /\ NeedsZlp(c)
    /\ \/ /\ NativeAccept(u)
          /\ zlp' = zlp \cup {u}
          /\ zlpSent' = zlpSent \cup {u}
          /\ CLeave(c)
       \/ /\ whole' = [whole EXCEPT ![c] = FALSE]
          /\ CGoto(c, "claim")
          /\ UNCHANGED <<flight, zlp, zlpSent, cur, next>>
    /\ UNCHANGED <<submitted, killed, refs, pending, busy, callVars, driverVars,
                   clean, quiet, past, orphaned>>

(* The compare-and-swap on submitted.                                      *)
ClaimCompletion(c) ==
    /\ CAt(c, "claim")
    /\ submitted' = submitted \ {cur[c]}
    /\ IF cur[c] \in submitted
          THEN CGoto(c, "report") /\ UNCHANGED <<cur, whole, next>>
          ELSE CLeave(c)
    /\ UNCHANGED <<killed, refs, zlp, pipeVars, callVars, driverVars, histVars>>

AfterCallback(u) == IF epOf[u] = None THEN "free" ELSE "pop"

(* Mutant: killed is not looked at.                                        *)
ReportAlways(c) ==
    /\ CAt(c, "report")
    /\ CGoto(c, "calling")
    /\ UNCHANGED <<urbVars, pipeVars, callVars, cur, whole, next, driverVars, histVars>>

(* The result is stored after the claim, then killed decides whether       *)
(* urb->complete is to be called; a usb_kill_urb may return before it is.  *)
Report(c) ==
    LET u == cur[c] IN
    /\ CAt(c, "report")
    /\ CGoto(c, IF u \in killed THEN AfterCallback(u) ELSE "calling")
    /\ UNCHANGED <<urbVars, pipeVars, callVars, cur, whole, next, driverVars, histVars>>

StartCallback(c) ==
    /\ CAt(c, "calling")
    /\ CGoto(c, "callback")
    /\ past' = past \ {c}
    /\ UNCHANGED <<urbVars, pipeVars, callVars, cur, whole, next, driverVars,
                   zlpSent, clean, quiet, orphaned>>

CallbackReturns(c) ==
    /\ CAt(c, "callback") /\ At(c, "idle")
    /\ CGoto(c, AfterCallback(cur[c]))
    /\ UNCHANGED <<urbVars, pipeVars, callVars, cur, whole, next, driverVars, histVars>>

(* Mutant: the pipe is released although an URB was popped.                *)
PopAndRelease(c) ==
    LET e == epOf[cur[c]] IN
    /\ CAt(c, "pop")
    /\ busy' = busy \ {e}
    /\ \/ /\ pending[e] = <<>>
          /\ CGoto(c, "free")
          /\ UNCHANGED <<pending, next>>
       \/ /\ pending[e] # <<>>
          /\ pending' = [pending EXCEPT ![e] = Tail(@)]
          /\ next' = [next EXCEPT ![c] = Head(pending[e])]
          /\ CGoto(c, "submitnext")
    /\ UNCHANGED <<urbVars, flight, callVars, cur, whole, driverVars, histVars>>

(* The next URB inherits the pipe, or the pipe becomes free.               *)
PopPending(c) ==
    LET e == epOf[cur[c]] IN
    /\ CAt(c, "pop")
    /\ \/ /\ pending[e] = <<>>
          /\ busy' = busy \ {e}
          /\ CGoto(c, "free")
          /\ UNCHANGED <<pending, next>>
       \/ /\ pending[e] # <<>>
          /\ pending' = [pending EXCEPT ![e] = Tail(@)]
          /\ next' = [next EXCEPT ![c] = Head(pending[e])]
          /\ CGoto(c, "submitnext")
          /\ UNCHANGED busy
    /\ UNCHANGED <<urbVars, flight, callVars, cur, whole, driverVars, histVars>>

(* Mutant: a refused `next` stays marked as submitted.                     *)
SubmitNextStaysSubmitted(c) ==
    /\ CAt(c, "submitnext")
    /\ \/ NativeAccept(next[c]) /\ CGoto(c, "free")
       \/ UNCHANGED flight /\ CGoto(c, "release")
    /\ UNCHANGED <<urbVars, pending, busy, callVars, cur, whole,
                   next, driverVars, histVars>>

(* A refused `next` loses its submission before the pipe is released.      *)
SubmitNext(c) ==
    LET u == next[c] IN
    /\ CAt(c, "submitnext")
    /\ \/ /\ NativeAccept(u)
          /\ CGoto(c, "free")
          /\ UNCHANGED submitted
       \/ /\ submitted' = submitted \ {u}
          /\ CGoto(c, "release")
          /\ UNCHANGED flight
    /\ UNCHANGED <<killed, refs, zlp, pending, busy, callVars, cur, whole,
                   next, driverVars, histVars>>

ReleasePipe(c) ==
    LET e == epOf[cur[c]] IN
    /\ CAt(c, "release")
    /\ busy' = busy \ {e}
    /\ orphaned' = IF pending[e] = <<>> THEN orphaned ELSE orphaned \cup {e}
    /\ CGoto(c, "reportnext")
    /\ UNCHANGED <<urbVars, pending, flight, callVars, cur, whole, next,
                   driverVars, zlpSent, clean, quiet, past>>

(* The same two steps for `next`.                                          *)
ReportNext(c) ==
    LET u == next[c] IN
    /\ CAt(c, "reportnext")
    /\ CGoto(c, IF u \in killed THEN "freenext" ELSE "nextcalling")
    /\ UNCHANGED <<urbVars, pipeVars, callVars, cur, whole, next, driverVars, histVars>>

StartNextCallback(c) ==
    /\ CAt(c, "nextcalling")
    /\ CGoto(c, "nextcallback")
    /\ past' = past \ {c}
    /\ UNCHANGED <<urbVars, pipeVars, callVars, cur, whole, next, driverVars,
                   zlpSent, clean, quiet, orphaned>>

NextCallbackReturns(c) ==
    /\ CAt(c, "nextcallback") /\ At(c, "idle")
    /\ CGoto(c, "freenext")
    /\ UNCHANGED <<urbVars, pipeVars, callVars, cur, whole, next, driverVars, histVars>>

(* Mutant: the refused `next` loses two references.                         *)
FreeNextTwice(c) ==
    /\ CAt(c, "freenext")
    /\ refs' = [refs EXCEPT ![next[c]] = @ - 2]
    /\ CGoto(c, "free")
    /\ UNCHANGED <<submitted, killed, zlp, pipeVars, callVars, cur,
                   whole, next, driverVars, histVars>>

FreeNext(c) ==
    /\ CAt(c, "freenext")
    /\ PutUrb(next[c])
    /\ CGoto(c, "free")
    /\ UNCHANGED <<submitted, killed, zlp, pipeVars, callVars, cur,
                   whole, next, driverVars, histVars>>

FreeCompleted(c) ==
    /\ CAt(c, "free")
    /\ PutUrb(cur[c])
    /\ CLeave(c)
    /\ UNCHANGED <<submitted, killed, zlp, pipeVars, callVars, driverVars, histVars>>

-----------------------------------------------------------------------------
(* Every URB is idle with the one reference of usb_alloc_urb.              *)
Init ==
    /\ submitted = {} /\ killed = {} /\ zlp = {}
    /\ refs = [u \in Urbs |-> 1]
    /\ pending = [e \in Endpoints |-> <<>>]
    /\ busy = {}
    /\ flight = [u \in Urbs |-> 0]
    /\ pc = [t \in Threads |-> "idle"]
    /\ arg = [t \in Threads |-> None]
    /\ cpc = [c \in Completers |-> "off"]
    /\ cur = [c \in Completers |-> None]
    /\ whole = [c \in Completers |-> FALSE]
    /\ next = [c \in Completers |-> None]
    /\ held = Urbs
    /\ submits = MaxSubmits
    /\ epOf \in PipeMaps
    /\ zlpSent = {} /\ clean = {} /\ quiet = {}
    /\ past = {} /\ orphaned = {}

Call(t) == \E u \in Urbs : SubmitUrb(t, u) \/ KillUrb(t, u) \/ DriverFree(t, u)

CallStep(t) ==
    \/ Prepare(t) \/ LookAtPipe(t) \/ AppendUrb(t) \/ SubmitNative(t)
    \/ UndoBusy(t) \/ UndoSubmitted(t) \/ UndoReference(t) \/ KillReturns(t)

CompletionStep(c) ==
    \/ \E u \in Urbs, o \in BOOLEAN : TakeCompletion(c, u, o)
    \/ NoZlp(c) \/ SendZlp(c) \/ ClaimCompletion(c) \/ Report(c)
    \/ StartCallback(c) \/ CallbackReturns(c) \/ PopPending(c) \/ SubmitNext(c)
    \/ ReleasePipe(c) \/ ReportNext(c) \/ StartNextCallback(c)
    \/ NextCallbackReturns(c) \/ FreeNext(c) \/ FreeCompleted(c)

Next ==
    \/ \E t \in Threads : Call(t) \/ CallStep(t)
    \/ \E c \in Completers : CompletionStep(c)

Spec == Init /\ [][Next]_vars

(* Threads are scheduled, callbacks return and the host controller ends    *)
(* every transfer it took, if need be with an error.                       *)
Fairness ==
    /\ \A t \in Threads : WF_vars(CallStep(t))
    /\ \A c \in Completers : WF_vars(CompletionStep(c))

FairSpec == Spec /\ Fairness

-----------------------------------------------------------------------------
(* The places of the completion callback that work on `next`.              *)
NextPcs == {"submitnext", "release", "reportnext", "nextcalling", "nextcallback",
            "freenext"}

(* Types, and the locals a place needs.                                    *)
TypeOK ==
    /\ submitted \subseteq Urbs /\ killed \subseteq Urbs /\ zlp \subseteq Urbs
    /\ refs \in [Urbs -> Nat]
    /\ pending \in [Endpoints -> Seq(Urbs)]
    /\ busy \subseteq Endpoints
    /\ flight \in [Urbs -> Nat]
    /\ pc \in [Threads -> {"idle", "kill"} \cup SubmitPcs]
    /\ arg \in [Threads -> Urbs \cup {None}]
    /\ cpc \in [Completers ->
         {"off", "entered", "claim", "report", "calling", "callback", "pop", "free"}
         \cup NextPcs]
    /\ cur \in [Completers -> Urbs \cup {None}]
    /\ whole \in [Completers -> BOOLEAN]
    /\ next \in [Completers -> Urbs \cup {None}]
    /\ held \subseteq Urbs
    /\ submits \in 0 .. MaxSubmits
    /\ epOf \in PipeMaps
    /\ \A t \in Threads : pc[t] # "idle" => arg[t] # None
    /\ \A c \in Completers : cpc[c] # "off" => cur[c] # None
    /\ \A c \in Completers : cpc[c] \in NextPcs => next[c] # None

(* Who holds the pipe of e: a transfer, the thread about to start it, or   *)
(* the callback that has not yet passed it on.                             *)
PipeHolders(e) ==
    {<<"flight", u>> : u \in {v \in Urbs : epOf[v] = e /\ flight[v] > 0}}
    \cup {<<"caller", t>> : t \in {s \in Threads :
             pc[s] \in {"native", "undo"} /\ epOf[arg[s]] = e}}
    \cup {<<"callback", c>> : c \in {d \in Completers :
             /\ cpc[d] \in {"entered", "claim", "report", "calling", "callback",
                            "pop", "submitnext", "release"}
             /\ epOf[cur[d]] = e}}

(* A queued endpoint has at most one transfer at the host controller, and  *)
(* pipe_busy is set exactly while somebody holds the pipe.                 *)
PipeExclusive ==
    \A e \in Endpoints :
       /\ Cardinality(PipeHolders(e)) <= 1
       /\ e \in busy <=> PipeHolders(e) # {}
       /\ \A u \in Urbs : epOf[u] = e => flight[u] <= 1

(* The places that own one reference each.                                 *)
Owners(u) ==
    {<<"driver", u>> : v \in held \cap {u}}
    \cup {<<"pending", i>> : i \in {j \in 1 .. (IF epOf[u] = None THEN 0
                                                ELSE Len(pending[epOf[u]])) :
                                       pending[epOf[u]][j] = u}}
    \cup {<<"flight", i>> : i \in 1 .. flight[u]}
    \cup {<<"caller", t>> : t \in {s \in Threads :
             Submitting(s, u) /\ pc[s] # "unkill"}}
    \cup {<<"callback", c>> : c \in {d \in Completers : cpc[d] # "off" /\ cur[d] = u}}
    \cup {<<"next", c>> : c \in {d \in Completers :
             cpc[d] \in NextPcs /\ next[d] = u}}

(* The reference count is exact through queueing, refusals, kills and      *)
(* resubmissions from the callback: no URB is freed while a list, the host *)
(* controller or a callback has it, and none leaks.                        *)
RefsExact == \A u \in Urbs : refs[u] = Cardinality(Owners(u))

(* The places that keep the submission of u in progress.                   *)
Places(u) ==
    {p \in Owners(u) :
       \/ p[1] \in {"pending", "flight"}
       \/ p[1] = "caller" /\ pc[p[2]] # "drop"
       \/ p[1] = "callback" /\ cpc[p[2]] \in {"entered", "claim"}
       \/ p[1] = "next" /\ cpc[p[2]] = "submitnext"}

(* A submitted URB stands in one place: it is neither lost (no completion  *)
(* ever) nor duplicated (two completions, two list links), and an URB that *)
(* is not submitted is nowhere.                                            *)
SubmittedHasOnePlace ==
    \A u \in Urbs :
       LET starting == \E t \in Threads : Submitting(t, u) /\ At(t, "unkill") IN
       Cardinality(Places(u)) + (IF starting THEN 1 ELSE 0)
          = IF u \in submitted THEN 1 ELSE 0

(* A transfer that had to end with a zero packet is not reported as        *)
(* complete before the zero packet was sent.                               *)
ZlpBeforeSuccess ==
    \A c \in Completers :
       CAt(c, "claim") /\ whole[c] /\ cur[c] \in ZlpUrbs
          => cur[c] \in zlpSent

(* After usb_kill_urb has returned, and until the next submission, the     *)
(* driver's urb->complete is entered by a completion only if that one had  *)
(* already passed its test of `killed` when the kill returned: the kill    *)
(* waits for `submitted`, which is cleared before that test, so the call   *)
(* may still be running, or be about to start, and no other one follows.   *)
KilledStaysQuiet ==
    [][\A c \in Completers :
          /\ CAt(c, "calling") /\ cpc'[c] = "callback" /\ cur[c] \in quiet => c \in past
          /\ CAt(c, "nextcalling") /\ cpc'[c] = "nextcallback" /\ next[c] \in quiet
                => c \in past]_vars

(* A queue without a transfer comes from one of two causes only: an URB    *)
(* appended after the pipe became free, or a transfer the host controller  *)
(* refused while others waited behind it.                                  *)
QueueServed ==
    \A e \in Endpoints :
       pending[e] # <<>> /\ e \notin busy => e \in orphaned

(* What a pipe and its pending list are good for: one transfer at a time,  *)
(* and none left behind.                                                   *)
PipeServed == TypeOK /\ PipeExclusive /\ QueueServed

(* Every submission ends, unless its endpoint was orphaned; so does every  *)
(* usb_kill_urb.                                                           *)
SubmissionEnds ==
    \A u \in Urbs :
       u \in submitted ~> (u \notin submitted \/ epOf[u] \in orphaned)
=============================================================================
