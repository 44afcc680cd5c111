# A verification project for lcompat

lcompat is the layer that lets Linux drivers run on the NAOS kernel: it gives
them the Linux API (workqueues, timers, kthreads, USB, PCI, mac80211, ...) on
top of the native tasks, spinlocks and buses.  The code has no tests and few
comments; most of its hard behaviour is concurrency written by hand with
atomic builtins and short spinlock sections.

## The system

| component | state | operations | interacts with |
|---|---|---|---|
| workqueue (`workqueue.c`) | per queue: list, `active`, `worker_task/_starting/_waiting`; per work: `state` bits, `wq` | queue, cancel, flush, worker loop | native tasks; used by delayed work, tx status, drivers |
| delayed work (`workqueue.c`) | `generation`, `active`, `running`, `expires` | arm, cancel, the one-shot task of each arm | workqueue |
| timers (`timer.h`, `hrtimer.h`) | `generation`, `active`, `running`, `expires` | mod, del_sync, the one-shot task of each arm | native tasks, jiffies |
| tasklets (`interrupt.h`) | state bits SCHED/RUN, disable count | schedule, enable/disable, kill | native tasks |
| kthreads (`kthread.c`) | list of threads, `should_stop/park`, `parked`, `exited`, `state` | run, stop, park, unpark, parkme, wake, schedule | native tasks |
| USB (`usb.c`) | per endpoint: pipe, `pipe_busy`, pending list; per URB: `submitted`, reference count; registries of drivers and wrappers | submit, completion, kill, sync transfers, bind, unbind | native USB core, drivers |
| mac80211 (`mac80211.c`) | runtime: scan request, connection state, station, vif, channel contexts, tx queues | register, connect, authenticate, associate, disconnect, scan, receive, transmit | native netdev, driver callbacks, workqueue |
| PCI (`pci.c`) | registry of bound devices and drivers, IRQ vectors | register, probe, remove, vectors, regions | native PCI core |
| page pool (`page_pool.c`) | registry of compound pages with reference counts | alloc, get, put, head lookup | native frames |
| skb (`skbuff.h`) | data/tail/end offsets, fragments, queues | put, push, pull, trim, queue operations | everything that moves packets |
| fences (`dma-fence.h`, `dma-resv.h`) | signalled flag, references, callbacks | signal, wait, add callback | GPU drivers |
| small primitives (`completion.h`, `wait.h`, `kref.h`, `seqlock.h`, `xarray.h`, `idr.h`, `kfifo.h`, `jiffies.h`, `firmware.h`) | a flag, a counter or a small map each | their usual ones | all |
| module glue (`module.c`, `memory.c`, `entry.c`, `debugfs.c`) | init/exit sections, allocation sizes | load, unload | native loader |
| stubs (`netdevice.h`, `srcu.h`, `seq_file.h`, `dma-mapping.h`, ...) | none | return constants | - |

What is hard: every queue, timer and delayed work starts native tasks lazily
and shares plain flags with them; wake-ups rely on a native `task_unblock` that
is remembered when it precedes `task_block`; USB completions run in native
context while drivers submit; the connection handlers of mac80211 publish state
after releasing their lock.

## Modules

| module | models | state and actions in the code |
|---|---|---|
| `Workqueue` | `workqueue.c` without delays | `list`, `active`, `waiting` are the fields under `wq->lock`; `workerTask`, `starting` those of `ensure_worker`; `state` is `work->state` as a set of bits. `EnsureWorker` .. `EndStarting` are `lcompat_workqueue_ensure_worker`, `QueueWork` .. `AppendWork` `lcompat_queue_work`, `WakeLoad`/`WakeUnblock` the wake, `CancelWorkSync` .. `AwaitNotRunning` the cancel, `FlushWorkqueue`/`FlushReturns` the flush, `PopWork` .. `SettleUnlock` the worker. |
| `WorkContract` | what users of a queue rely on | pending and running works; accept, start, finish, cancel. Abstract: it has no source lines. |
| `DelayedWork` | delayed works, on top of `Workqueue` (EXTENDS) | `dactive`, `dgen` are `active` and `generation`; arm (`QueueDelayed` .. `ZeroState`), the one-shot task (`LoadGeneration` .. `OneShotEnds`), cancel (`CancelDelayed` .. `CancelReturns`). The one-shot task enters `lcompat_queue_work` of `Workqueue`. |
| `Timer` | `timer.h` | `active`, `running`, `generation` are the fields; `mod_timer` (`ModTimer` .. `UndoGeneration`), `del_timer_sync` (`DelTimer` .. `DelReturns`) and the task of an arm (`LoadGeneration` .. `StopRunning`), one access per action. |
| `Tasklet` | tasklets of `interrupt.h` | `sched`, `run` are the two bits of `state`; one action per access. |
| `Kthread` | `kthread.c` | one action per access to `state`, `parked`, `should_park`, `should_stop`, `exited`; the thread function is the usual driver loop. |
| `UsbUrb` | URB traffic of `usb.c` | `submitted`, `killed`, `refs`, `zlp` per URB; `pending`, `busy` per endpoint; `flight` is what the host controller holds. Submit, kill, free and every step of `lcompat_usb_urb_complete`. |
| `UsbDescriptors` | id tables, endpoint descriptors | operators: which id matches, which endpoints a wrapper gets, which endpoint a pipe value means. |
| `UsbBinding` | drivers, wrappers and pipes of `usb.c` | `binding` is the driver table, `wrapper` the device table with its `native_pipes`, `cached` the pipe an URB keeps. Registration, probe, each step of removal, and `lcompat_usb_get_native_pipe` in the steps at which another call can come between. |
| `UsbBuffers` | the bytes of one URB, synchronous calls | the native buffer behind a plain or scattered one, filled on submission and read back on completion; status codes and results. |
| `PciBinding` | `pci.c` | `pslot`, `pwrapper` are the driver and device tables, `pnative`, `pbound` what the PCI core knows. Registration, its own probe loop, probe and remove as the core calls them, look-ups. |
| `SkbPages` | `skbuff.h` over `page_pool.c` | a buffer is its offsets and fragments, a page its count and size; one action per operation of a driver. |
| `SkbQueue` | the queues of `skbuff.h` | `head`, `tail`, `qlen` of the heads, `link` the `next` of the buffers; one action per operation. |
| `FrameQueue` | what a queue is | a set of lists. Abstract: `SkbQueue` is shown to implement it. |
| `Ieee80211Header` | frame control tests, header lengths | operators on integers. |
| `Ieee80211Rx` | reception in `mac80211.c` | `Receive` is `ieee80211_rx_irqsafe` with conversion and A-MSDU split; `Recv` the stack's take; connect, disconnect and removal as far as they touch the queue. |
| `Ieee80211Tx` | transmission in `mac80211.c` | the queues of station and interface; `netdev_send` is cut between the look at the station and the put; composes `TxStatus` for what the driver gives back. |
| `TxStatus` | `ieee80211_tx_status_irqsafe` and its work | composes the call with a workqueue of which only `WorkContract` is known (INSTANCE). |
| `Ieee80211Build` | the frames that are built | lengths and rates as operators over abstract scan results; a behavior builds one frame. |
| `Ieee80211Conn` | the station of `mac80211.c` | `conn` .. `info` are connection state, `connect_params`, station, vif and what the native stack was told; `scanReq`, `filter`, `scanner`, `netScan` the scan; `reg` the registration. One action per handler. |
| `WorkqueueProofs`, `TaskletProofs`, `UsbUrbProofs`, `Ieee80211ConnProofs`, `Ieee80211TxProofs`, `DevicesProofs`, `DataProofs`, `BytesProofs` | theorems | each EXTENDS its components and TLAPS; `WorkqueueProofs` holds the delayed works too, `TaskletProofs` the timers; `DevicesProofs` is about `PciBinding`, `UsbBinding` and `Kthread`, `DataProofs` about `SkbPages`, `SkbQueue`, `UsbBuffers` and `Ieee80211Rx`; `BytesProofs` goes on with the bytes of `SkbPages` and the lengths of the frames of `Ieee80211Build`. |
| `MC*` | TLC instances | values of the constants, symmetry. |

How they compose: `DelayedWork` runs the steps of `Workqueue` unchanged and
adds its own; `TxStatus` uses `WorkContract`, which `Workqueue` is shown to
implement (`ImplementsContract`), so that the frame accounting holds on top of
the real queue; `Ieee80211Tx` puts the path through the transmit queues in front
of it, so that a frame is followed from `netdev_send` to its free; `UsbBinding`
takes its look-ups from `UsbDescriptors`, `Ieee80211Rx` its header tests from
`Ieee80211Header`.

Three MC modules hold several models that share no state, and a variable chosen
in the initial state says which one a behavior exercises: `part` in `MCDataPath`
(reception, transmission, builders, queues), `subject` in `MCDevices` (buffers,
USB binding, URB buffers, PCI), `kind` in `MCTasklet` (tasklet, timer).  The
others stay in their initial state, so this is the same as a run for each.

**Granularity.** A step is what the C code does between two points at which
another thread can see or change shared state: one atomic access or one
spinlock section. Where a lock section calls into code that waits, it is cut.
The exception is `Ieee80211Conn`, where a handler is one step and is cut only
where the code lets other handlers in (connect after `rt->lock` is given up and
before it publishes its state, the sleeps of the software scan, the driver calls
of registration and removal).
`Ieee80211Rx`, `SkbPages`, `SkbQueue`, `UsbBuffers` and `PciBinding` have one
action per operation, because the code has one caller at a time there.

**Mutants.** An operator whose comment begins with "Mutant:" stands before the
action it changes and is used by no specification: it is a plausible bug that
the property named in `PROJECT.json` must detect.

## What the runs show

Some properties are conjunctions; their named parts are given in brackets.

| run | question | instance |
|---|---|---|
| `wq_safe` | Is the QUEUED bit an ownership token (`TokenOwned`)? Does `active` count exactly the busy workers, which flush relies on (`ActiveIsExact`)? Is a listed work always going to be noticed (`NoLostWake`)? | two queues without a worker, two works, two worker tasks, two clients, three calls; works also queue from inside functions. Two workers can come up for one queue, or one for each; one work moves between queues. |
| `wq_live` | Does the RUNNING bit cover every execution (`RunningBitCovers`)? Is accepted work run or canceled, does every call return (`CallsReturn`), and is the queue an implementation of `WorkContract` (`ImplementsContract`)? | one queue with its worker, two works (one delayed), two clients, three calls |
| `wq_maxactive` | finding: two workers of one queue | cold start |
| `delayed_safe` | Does the token keep one owner with arms and one-shot tasks (`DelayedTokenOwned`)? Does a canceled arm ever fire (`CanceledArmNeverFires`)? What does a cancel leave behind (`CancelLeavesNothing`)? | one delayed work, two clients, two one-shot tasks, three calls: arm, cancel, arm again, with the first task still waiting |
| `delayed_live` | Does an accepted delayed work stop being pending, and does the task of each arm go on to queue it unless the arm was canceled (`DelayedRuns`)? | the same with two calls, one of which may fail |
| `usb` | Is the pipe held by one, and the queue behind it served (`PipeServed` [`PipeExclusive`, `QueueServed`])? Are references exact (`RefsExact`)? Is a submitted URB in one place (`SubmittedHasOnePlace`)? The zero packet (`ZlpBeforeSuccess`), the promise of kill (`KilledStaysQuiet`), the end of each submission (`SubmissionEnds`)? | two URBs on one endpoint, or one of them on a pipe no wrapper knows; one driver thread and two completion contexts that resubmit from the callback: three submitters; three submissions |
| `wlan` | Do state machine, station, vif, link and wireless info agree, do sta_add and sta_remove alternate, is each request answered, recorded or given up, exactly one of them (`ConnInv` [`ConnectionAgrees`, `StationsMatch`, `RequestsAnswered`])? Does each recorded request get its answer, or is it given up in one of two named ways (`RequestResolved`)? Are the three records of a scan made and removed together (`ScanAgrees`)? Is the radio on the channel of the connection (`OnChannel`)? | two access points on two channels, three requests, two scans, removal and registration again |
| `data_path` | Does the native stack get the MSDUs of the received frames once and in order, less those the code refuses or has no buffer for (`RxInOrder`)? Is a transmitted frame in one place and freed once, whatever is torn down under it (`FrameHasOneHolder`), and is it freed at all (`SentIsReleased`)? Do the lengths and rates of built frames agree with what was asked for (`FramesBuilt` [`FrameFits`, `RatesAgree`])? Are the queues of buffers lists (`IsAList`, a refinement of `FrameQueue`)? | every type, subtype and flag; A-MSDUs of two, cut at every byte or without a buffer for one or both, each followed by another frame; two sent frames, two stations, a status work that is refused; scan results of two bands cut at every byte; two queues, four buffers |
| `tx_context` | finding: the caller frees | three frames, two contexts |
| `kthread` | Is a freed thread done (`FreedIsDone`)? Is a wake-up, stop or park lost, does park hold (`KthreadInv` [`NoLostWakeUp`, `ParkHolds`])? Do the waiting calls return, does an unparked thread go on (`ThreadsProgress` [`CallsReturn`, `UnparkedRuns`])? | two threads, two callers, four calls |
| `tasklet` | Does the callback run once at a time (`MutualExclusion`)? Is a schedule forgotten (`TaskletInv` [`ScheduleNotLost`], `ScheduledRuns`)? What does kill leave (`KillQuiet`)? Timers: is the function quiet after a deletion (`DeletedQuiet`)? Does what was armed fire, also when the function arms its own timer (`ArmedFires`)? | three tasks, two callers, four calls; two tasks, two callers and the function, three arms, one deletion |
| `devices` | Buffers: is each page counted by its holders (`RefsExactlyHeld`), is a buffer the string of its bytes and inside its pages (`BytesKept` [`Inside`])? USB: is each pipe freed by one place (`PipesAccounted`), does a device that has gone leave nothing (`GoneLeavesNothing`), do bytes and results arrive (`BytesArrive`)? PCI: is a driver probed once (`ProbedOnce`)? | two buffers and two pages of two bytes, two fragments; two drivers with overlapping tables, a device of two interfaces, two wrappers, one URB, two threads, two pipes; four scatterlists, five lengths (a negative one among them), three submissions; two PCI devices, two drivers, two slots |

**Why the bounds are enough for the question.** Every hazard in `PROJECT.json`
needs two actors of one kind, and the counters (`MaxCalls`, `MaxSubmits`,
`MaxScans`) let each of them act and one of them act again: a second worker, a
second arm while the first task sleeps, a resubmission while the first
completion is still in its callback, a third task while two race for RUN. The
bounds count API calls, not steps, and sit in the guards of the actions that
begin a call; loops and retries inside a call are not bounded. Where the
question is about data, the data are exhausted instead: every header, every cut
of an aggregate or of the elements of a scan result, every length on either side
of the end of a page, a linear part and a fragment table of two entries. Two
pages and two fragments have all the boundaries that the code's 4096 bytes and
eight fragments have, since no operation treats an inner fragment in another
way; two pipes are what two simultaneous openings need. Deadlock is not checked:
when the calls are used up the system rests.

## Fairness

Weak fairness of each thread's next step: the native scheduler is preemptive,
and every waiting loop of the code yields. Nobody is obliged to *begin* a call.
Further assumptions, each with the reason the code gives for it:

* functions, callbacks and thread functions return (`FuncReturns`,
  `CallbackReturns`); without it `cancel_work_sync` and `tasklet_kill` wait for
  ever by design;
* `task_unblock` is remembered when it precedes `task_block`. The worker loop
  and `schedule` test their flag and then block, without a lock; the code is
  written for a native scheduler that keeps the wake-up, and the models make it
  a token (`token`);
* the host controller ends every transfer it accepted, with an error if need be;
* an access point answers (`RequestResolved` only): the code has no timeout of
  its own, neither handshake step is ever given up; a connect call goes on from
  one of its two later steps to the next;
* who disables a tasklet enables it again;
* a timer's delay ends, and its function returns;
* a driver serves the transmit queues it was woken for and reports every frame
  it took (`SentIsReleased`); once the interface is down its removal goes on.

The abstract contract asks for strong fairness of start-or-cancel per work; the
queue gives it by serving its list in order.

## Assumptions about the surroundings

Drivers do not submit one URB from two threads at once, hold a reference while
they use it, and report a transmitted frame once. The native network stack
issues one request at a time and none while the interface is down, and
`netdev_unregister` waits for requests in progress. A driver completes each
accepted hardware scan once, delivers frames between start and stop and one at
a time. Park, unpark and stop of one thread come one at a time and nobody uses
a thread after its stop has begun. Kill and disable of a tasklet are not called
from its own callback. A queue is not destroyed once its worker runs.

The native USB core plugs, probes and removes in one context, and so does the
PCI core; a registration is not cut by a removal. Endpoints of the interfaces of
one device are distinct. A driver's calls on an interface end before its
`disconnect` returns, and it frees its URBs there. There are as many PCI
wrappers as devices. A timer function does not delete its own timer. A driver
uses a socket buffer from one context at a time and adds a buffer to a queue
only when it is in none; it may call the operations on buffers in any order and
with any length.

## Findings and observations

Two runs find disagreements between the code and what it says:

* **`wq_maxactive`**: every queue is created with `max_active` 1 and there is an
  `alloc_ordered_workqueue`, yet two threads that queue first can start two
  workers: the one that wins the election late does not look at `worker_task`
  again.
* **`tx_context`**: the comment on the tx status work says that the transfer of
  ownership must not happen in the caller's immediate context; both error paths
  of the caller free the frame there.

Schedules the models made visible and about which the repository promises
nothing in writing, so that they are exceptions in the properties, named where
they occur:

* two workers of one queue break `RunningBitCovers`, as does one work on two
  queues (hence one queue with one worker in `wq_live`);
* `cancel_work_sync` does not see a work between its pop and its claim; it
  returns false and the function runs afterwards;
* the tx status work frees itself in its function, and the worker then writes
  the state of that work and looks at it once more;
* a work that goes from one queue to another while its former worker is between
  the look at its state and the store of `work->wq` (`workqueue.c:132`) is listed
  with `work->wq` cleared: a cancel then skips the list and returns with the work
  still on it. An armed work whose queue is cleared that way is queued on
  `system_wq` by its one-shot task (`workqueue.c:194`). Both need two queues for
  one work (hence one queue in `delayed_safe`, and `ListKnown` below);
* a second canceler of a delayed work leaves its waiting loop when the work was
  requeued while running (`settled` excludes it);
* the pipe of an endpoint can be free with URBs queued behind it in two ways
  (`orphaned`): an append after the last look at `pipe_busy`, and a refused
  transfer with others waiting;
* `usb_kill_urb` returns with the callback possibly still running, or about to
  start in a completion that has passed the test of `urb->killed` (`past`,
  `usb.c:432` to `434` and `469` to `471`); what `KilledStaysQuiet` excludes is
  the start by any other completion;
* `task_create` fails under one arm of a delayed work while the next is accepted:
  the last store of the first (`workqueue.c:313`) makes the task of the second
  give up, and its work never runs (`spoiled`);
* a driver that calls `ieee80211_disconnect` while a connect has no BSSID yet
  clears the record of the request, which is then never answered (`dropped`);
  nor is one whose connect outlived the beginning of removal when the runtime is
  freed (`lost`);
* a connect that outlives the beginning of removal can leave a station in the
  driver (`late`), and a connect during a software scan loses its channel when
  the scan restores the old one (`overlap`);
* a park that follows an unpark at once can return on the old `parked`
  (`hasty`);
* `tasklet_disable` does not stop a task that has passed the look at the count,
  and a call whose task could not be created clears the SCHED bit of a later
  call (`stolen`);
* two tasks of one timer share `running`: the first to end clears it under the
  other, and `del_timer_sync` returns with the function running (`crowded`);
  `active` is shared too, and a task that clears it behind a new `mod_timer`
  leaves the new task nothing to do: neither arm fires (`fate` becomes "no");
* two calls that open the pipe of one endpoint at once open two, and the first
  is never freed (`raced`, `usb.c:694`);
* removal of a USB device tells the first driver whose table matches, not the
  one that was bound (`untold`, `usb.c:840`), and a failed probe keeps its
  wrapper (`refused`); deregistration disconnects nobody (`left`);
* `pci_register_driver` probes again what the core has bound (`looped`), keeps
  its slot when the core refuses (`pci.c:199`); `pci_unregister_driver` leaves
  the native driver with the core (`pci.c:223`), which goes on probing;
* the comment in `lcompat_usb_sync_retlen` (`usb.c:270`) accepts two conventions
  for success, but the function is called with negative results only: success is
  what the native core reports as the length;
* the A-MSDU bit is looked for in the HT control field when a frame has one
  (`mac80211.c:2035`), an A-MSDU of which nothing could be queued is tried as a
  plain frame (`mac80211.c:2353`), and only plain frames are looked at for the
  protected bit (`mac80211.c:1988`);
* `alloc_skb` fails for one MSDU of an A-MSDU: that one is lost and the next goes
  on (`mac80211.c:2133`);
* the length of a failed transfer is what the host reports, above what was
  submitted too: only a successful one is cut (`usb.c:387`);
* `netdev_send` can put a frame into the queue of a station that was freed since
  it was looked up (`stranded`, `mac80211.c:1435`);
* `skb_pull` moves `data` by a length that counts the fragments
  (`skbuff.h:569`); the buffer is no longer the string of its bytes (`Lost`),
  though it stays inside its pages.

## What is proved

Thirty-six theorems in eight modules, listed in `PROJECT.json`. Each module EXTENDS
the ones it is about, so it speaks of the definitions TLC runs, and holds for every
value of the constants that satisfies the assumptions of those (distinct
identities, `None` outside the sets, bounds that are natural numbers). No set of
works, threads, URBs or frames has to be finite; where a count is part of a
claim, the finiteness of what is counted is part of the invariant. Two sets are
assumed finite: the buffers of `SkbPages`, whose references are counted by the
cardinality of a set, and those of `SkbQueue`, along which `Walk` takes as many
steps as there are buffers.

**`WorkqueueProofs`** (`workqueue.c`)

* `TypeCorrect`: `TypeOK`, which says besides types which locals a place in the
  code needs, is inductive; everything below uses it.
* `TokenOwnedAlways`: a work that a thread carries is in no list and carried by
  nobody else, and QUEUED is set exactly then. Each action moves the token
  between two places or leaves every place alone; one lemma per kind of move.
  The lemmas are stated for a set of works whose bit belongs to somebody outside
  the module; for the delayed works they are cited with that set filled in.
* `ActiveCounts`: `ActiveIsExact`; the workers between pop and the closing lock
  section are a finite set whose size is `active`.
* `WakeNeverLost`: `NoLostWake` with `Wired`: past `ensure_worker` a caller knows
  a published worker of its queue, and `worker_waiting` is clear only while some
  worker of the queue is outside `task_block`.
* `RunningCovered`, `ContractKept`: `Spec /\ []ExecutedOnce` implies
  `RunningBitCovers` and the safety part of `WorkContract` (initial states and
  every step, by `ContractStep`). The condition, that no work is executed by two
  workers at once, is necessary: two workers of one queue break it, and the bit
  with it (finding `wq_maxactive`). It is not an assumption that hides the
  claim: `OneWorkerKeepsContract` discharges it for one worker, which is the
  instance of `wq_live`, where the contract is checked with its fairness.

For the delayed works on top of the queue:

* `DelayedTokenOwnedAlways`: `HeldInv`; the work of an armed delayed work has
  exactly {QUEUED} as its state, is in no list and carried by nobody, so the
  stores of 0 and the compare-and-swap of the one-shot task meet their own bit.
* `CanceledArmGivesUp`: the action property `CanceledArmNeverFires`; the work of
  a waiting task that was canceled is inactive (`GoneInv`), because only the
  holder of the token could set `active`, and that is the task itself.
* `CancelLeaves`: the action property `CancelLeavesNothing`, from `SettledInv`.
  From the store that clears `active` on, nobody but the canceler carries the
  work, no thread stands between the check of an arm and its `queue_work`, and
  every task that waits is `gone`; the steps `settled` allows keep that (`Gains`
  and `ArmGains` say what a step can bring). The list that `work->wq` names is
  the only one that can hold the work, so after the unlinking none does; and the
  waiting loop is left with RUNNING set only if QUEUED is set too, which nobody
  is left to own. Two conditions are needed and both can fail: `ExecutedOnce` as
  above, and `ListKnown`, that `work->wq` names the list of a listed work, which
  a work that changes queues breaks (see the observations).
* `OneQueueCancels` and `OneWorkerCancels` discharge them. With one queue the
  closing lock section keeps appenders out between the look at the state and the
  store of `work->wq` (`ForgetInv`), so `ListKnown` holds; with one worker, the
  instance of `delayed_safe`, `ExecutedOnce` does too.

**`TaskletProofs`** (tasklets and timers)

* `Exclusive`: RUN is set while a task is between its test-and-set and its clear.
* `QuietAfterKill`: from the clear_bit of an undisturbed kill SCHED stays clear,
  from the end of its wait nobody invokes the callback (`KillInv`).
* `ClaimsOwned`: `TaskletInv`; the disable count is the number of unfinished
  disables and kills, a set SCHED bit has a creating call or a task that has yet
  to look, and a schedule keeps the bit unless a failed call took it (`stolen`).
* `QuietAfterDelete`: `DeletedQuiet` of `Timer`. A deletion finds each task
  before its test of `active` (it will find it clear), past it with an outdated
  generation (its second look turns it back), or inside `running` (the deletion
  waits for it, unless `crowded`).

**`UsbUrbProofs`** (URB traffic of `usb.c`)

* `OnePlace`: `PlaceInv`; a submitted URB stands in one place of one kind, one
  that is not submitted in none. It shows too that the compare-and-swap in the
  completion cannot fail, on which the others rest.
* `RefsCounted`: `RefInv`; the owners of an URB are a finite set, and the count is
  its size. Each action changes that set by one element or exchanges one.
* `PipeKeptBusy`: `PipeInv`; at most one transfer, caller or completion holds the
  pipe of an endpoint, `pipe_busy` is set exactly then, and an idle pipe has
  nothing behind it but for the two reasons `orphaned` records.
* `ZeroPacketFirst`: a set `zlp_pending` is of this submission, or its submitter
  is about to clear it.
* `KillSilences`: the action property `KilledStaysQuiet`; `killed` stays set for
  a quiet URB and nobody is about to clear it, so no completion passes the test,
  and those that had passed it when the kill returned are in `past`.

**`Ieee80211ConnProofs`** (the station)

* `PartiesOfOneMind`: `ConnInv`. The handlers are sorted by what they do to the
  parties of a connection (begin, authenticate, finish, reply, end, free, pass),
  and the invariant is shown for each of these; `Calm`, that nothing is connected
  while a connect call is between its steps, is what makes it inductive.
* `ScansAgree`, `RadioOnChannel`: the scan flags come and go together; a software
  scan keeps the channel of the connection in `saved` unless `overlap`.

**`Ieee80211TxProofs`**: `OneHolder` (`FrameHasOneHolder`). There is a map from
frames to places that agrees with every variable in which a frame can be
(`Located`); each step changes it at the frames it moves, a purge at all frames
of one queue.

**`DevicesProofs`** (`pci.c`, the tables of `usb.c`, and `kthread.c`)

* `HandedOnce`: `ProbedOnce` of `PciBinding`. The invariant `HeldOnce` says that
  a device outside the two recorded exceptions is at one driver at most, once,
  while the core has it bound. The tables are searched from the first entry on;
  that such a search has a result, and which, is shown with the least-element
  principle (`LeastExists`), from the well-founded order of finite sets.
* `GoneIsForgotten`: `GoneLeavesNothing` of `UsbBinding`, from `BindingInv`. A
  used wrapper belongs to a bound interface or to a refused one, a bound
  interface to a plugged device or to the one whose removal is in progress
  (`BoundInv`), a removal has left no wrapper of its device behind (`WrapInv`),
  and a driver that is the only one that can be told is still registered and its
  wrapper still ahead of the removal (`Told`). `CallsSound` says that what a call
  knows of a wrapper stays true until it is over.
* `PipesFreedOnce`: `PipesAccounted`. `OneOwner` counts as owners the slots of the
  wrappers, the URBs and the calls: a pipe has one when it is open and was not
  replaced, and never two. Each step leaves the owners alone, drops some with
  their pipes, makes one, or hands a pipe on (`StorePipes`, where what a slot had
  becomes a replaced pipe). `UsesBacked` adds that what an URB or a call merely
  uses is kept by a wrapper of its interface, by the URB, or was replaced.
* `StopFreesTheDead`: a thread being created is on the list, not started, and
  created by one call only; a thread past the removal is off the list (`LifeInv`).
* `ThreadsControlled`: `KthreadInv`, that is type, `current()`, `NoLostWakeUp` and
  `ParkHolds`. `WakeInv` says for each place between a look at a flag and the
  block that, with no wake-up outstanding and none under way, the flag is as it
  was; `ParkInv` says who may let a parked thread go.

The constants of `UsbBinding` are assumed as follows: `Null` is none of the values
it stands beside (`NullAssumption`), and no two interfaces of one device have an
endpoint in common (`EndpointAssumption`), which USB prescribes: the search for
the wrapper of a pipe goes over all interfaces of the device and takes the first
with such an endpoint.

**`DataProofs`** (buffers, transfers, received frames)

A loop of the code is a fold or a concatenation over a sequence in the model, and
a claim about it speaks of every length. The module begins with what such a claim
needs. A set of numbers that is not empty has a least member (`LeastOf`), hence a
set that holds 0 and with each number the next holds all (`SetInd`, `TurnInd`).
The recursive function behind a fold exists (`FoldExists`), and the value of the
fold is the last of a row of values, each made from the one before by one turn of
the loop (`FoldSteps`; `FlattenSteps` for concatenations). From there on a proof
speaks of rows and turns.

* `PagesRefsExactlyHeld`: `RefsExactlyHeld`. `SkbInv` counts the heads and the
  fragments that lie in a page as two finite sets; an operation exchanges the
  references of one buffer (`BalancedStep`) and what it takes from the pages and
  gives back is the difference. Turns of `skb_release_data` and the like over a
  fragment list that names one page twice are followed one by one.
* `OrderFits`: `get_order`, a search for an exponent, finds the first power of two
  pages that holds the size, and there is one.
* `QueuesAreLists`: `IsAList`, the refinement of `FrameQueue`. The invariant
  `QueueInv` has a family of lists which share no buffer and which the heads, links
  and lengths stand for (`Represents`); such a family is what the walks meet
  (`WalkOfChain`), so each operation is shown by naming the lists it leaves.
* `UrbBytesArrive`: `BytesArrive`. The fragments of an URB have a layout: a row of
  offsets, which are sums of lengths, and a row of the bytes up to each
  (`LaidOut`). One turn of `lcompat_usb_sg_copy_from` or `.._to` cuts, or mixes in,
  what the next piece holds of the transfer (`CutConcat`, `MixedConcat`), so the
  whole is cut or mixed at the length of the transfer, be it inside a fragment,
  at its end, or zero. That no transfer is longer than its fragments (`Fits`) is
  why a failed one never wrote into them.
* `ReceivedInOrder`: `RxInOrder`. `Meant` gives an A-MSDU by the layout of the
  standard (each subframe begins at the next multiple of four), the code by a
  loop over what remains. `LoopTurn` relates the two after each turn: the loop goes
  on as long as every subframe so far was whole, and ends for good at the first
  that is not (`Follows`). So `Convert` is `Meant` for every frame that passes
  without an HT control field (`ConvertIsMeant`), and the steps only move frames
  from one of `arriving`, `rxq`, `taken` to the next. `RxAssumption` says what a
  received frame is: natural lengths, at least one MSDU, and an A-MSDU bit in QoS
  data frames only, the only ones with a place for it; which MSDUs of an A-MSDU
  find a buffer is left open (`memory`).

**`BytesProofs`** (the bytes of socket buffers, the lengths of frames)

* `BuffersKeepBytes`: `BytesKept`, with `Inside`. The property speaks of what is
  read at the end, by `skb_to_sgvec` and `skb_linearize`, and is not inductive:
  a trimmed buffer, for instance, has the bytes it should because of what its
  fragments and `data_len` were before. The invariant `BytesInv` adds to the
  counts of the pages two parts, which TLC found kept before they were proved.
  `Bounds` holds of every buffer, misused or not: `tail` up to `end` up to the size
  of the head page, fragments inside theirs, and, as long as `data_len` does not
  exceed `len`, the linear part before `tail`. That a page keeps its size while
  somebody uses it (`SizesKept`) is where the counts are needed. `Strings` holds
  until a buffer is misused: `tail` is exactly behind the linear part, `data_len`
  is no more than the fragments have, and the string names, byte by byte, the
  head from `data` on and then the row of the fragments (`Spells`).
  There is one lemma per operation for the string (`PutString` .. `AddString`)
  and one for the buffers (`PutBytes` .. `AddBytes`).
  What is read then follows for a buffer of any lengths: the copy loop of
  `skb_linearize` gathers the string (`GatheredIs`), and the loop of
  `skb_to_sgvec`, after any number of fragments, has listed exactly what it was to
  read of them or has run out of entries (`SgLoop`, `SgvecReads`); every piece it
  lists is cut from a piece inside a page (`ClosedUnderCutting`, `SgFold`).
  `NoneAssumption` says that NULL is neither a buffer nor a page:
  `virt_to_head_page` returns it for an address in no page.
* `FramesFit`: `FrameFits`, the first part of `FramesBuilt`, for any hardware, band, scan result and payload.  What
  is put into a frame is a sequence of lengths; `SumOfBoth` says that sequences one
  behind the other add up, and each builder is then a sum of its elements
  (`AssocFits`, `ProbeFits`, `DataFits`, `HelpersFit`).  Of the rates only that a
  list of them has a length is needed (`RatesHaveLengths`): an element is counted
  by whether its length is zero and written by whether its list is empty.

**What TLC alone checks, and why.**

* Liveness: `CallsReturn`, `DelayedRuns`, `SubmissionEnds`, `RequestResolved`,
  `SentIsReleased`, `ThreadsProgress`, `ScheduledRuns`, `ArmedFires`, and the
  fairness part of `ImplementsContract`. Proofs of ENABLED and of fairness are out
  of the prover's reach.
* `RatesAgree`, the other part of `FramesBuilt`: that the association request, the
  station and the BSS are given the same rates. It is a property of the tables: it needs a band whose rates are
  distinct, not zero and no more than the two elements hold, and says that three
  searches of one table agree, entry by entry. The run has both bands' tables and
  every prefix of the scan results.

## Not modelled, and the plan

Left out because nothing of theirs plays together with the rest: fences and
reservations, completions, the small containers, jiffies, `hrtimer.h` (the
callback runs inside `hrtimer_start`), interrupt vectors, resources, power
states and configuration accesses of PCI (calls of the native core without state
here), page-pool statistics, HT and VHT elements and the helpers of
`net/mac80211.h` that return constants. Left out for good: firmware loading and
the debug file system (I/O), module glue, allocation wrappers,
`alloc_workqueue`/`destroy_workqueue` (an allocation and a plain free), and the
headers that only rename or stub.

One thing of weight is modelled more coarsely than the code allows: the teardown
of a connection (`mac80211.c:1298`) is one step of `Ieee80211Conn`, although
`ieee80211_disconnect`, a received deauthentication and a disconnect request
share no lock. Two of them at once would remove and free the station twice;
channel contexts are left out with it.

`netdev_send` reads `rt->sta` twice (`mac80211.c:1435` and `1436`) and a teardown
frees the queues of a station before the pointer to it: a send that meets either
reads freed memory or follows a null pointer, and those faults are not modelled.

Of the safety properties only `RatesAgree` is not proved; `FrameFits`, the other
half of `FramesBuilt`, is.
