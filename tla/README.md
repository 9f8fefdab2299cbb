# Verification of the OPPO SM4250 camera kernel modules

The repository holds the out-of-tree kernel modules of a phone: camera, display and video
(`kernel/msm-4.19/techpack`), OPPO's own drivers (`vendor/oplus`), and Qualcomm's audio, data and
WLAN drivers (`vendor/qcom/opensource`). This project is about the part with the most protocol and
the least hardware: the core of the **camera driver** under
`kernel/msm-4.19/techpack/camera/drivers`, from the fences of `cam_sync` over the request manager
(`cam_req_mgr`) and the context layer (`cam_core`) to the context of the image front end (`cam_isp`).
It has TLA+ modules for these, TLC runs on small instances, and TLAPS proofs for all instances of some.

How a frame goes through it: userspace schedules a request at the request manager's link (`CamLink`) and
sends its packets to the devices; each reports its packet through the link's task queue (`CamWorkq`). At
every start of frame the link sends the next request to all devices. The front end (`CamIsp`) moves it
through its lists until its buffers are filled and signals the out-fences (`CamSync`, `CamFence`), for
which requests of the offline engines wait (`CamContext`). Handles (`CamHdl`) name all of these.

## 1. Inventory

| Component | State | Operations | Interacts with | What makes it hard | What makes it correct |
|---|---|---|---|---|---|
| `cam_sync` | table of fences (row: type, state, remaining, parents, children, callbacks, payloads, ref_cnt), bitmap of ids, one spinlock per row, callback work queue, V4L2 event queue, open count | create, register/deregister callback, get/put reference, signal, merge, destroy, check_valid, wait, payload ioctls, open, close | called by user space (ioctls) and by `cam_context_utils`, ISP, ICP, OPE; calls clients back from its work queue | every operation drops its row lock between steps; merge nests row locks; ids are reused; close races kernel clients | one owner per id, exact bitmap, no lost callback, a group settles exactly when and as its children say, close ends and leaves no individual fence behind |
| `cam_req_mgr` task queues | pool of tasks, a list per priority, counters, a kernel work item, `job` | create, get_task, enqueue_task, process_workq, put_task, destroy | links, ICP, OPE, CCI, FD, JPEG enqueue from threads, interrupts and timers | enqueue races the worker and destroy | tasks conserved, none stranded, drained before freed, destroy ends |
| `cam_req_mgr` handle table | 256 rows, bitmap, one spinlock | create/destroy session and device handle, get priv/ops, free all | everything that has a handle | stale handles, random tag of 8 bits | live handles unique, bitmap exact |
| `cam_req_mgr` core | sessions, links, per-device request tables, input queue slots, watchdog timer | link, unlink, add/schedule/flush request, trigger, error, watchdog | task queues, timer, handle table, devices | slot ring, two triggers per frame, recovery, unlink against trigger and timer | a request is applied once and in order; no use after unlink |
| `cam_core` contexts | free/pending/active request lists, state machine | acquire, config (prepare), sync callback, apply, buffer done, flush request/context, stop, release | `cam_sync` callbacks, hardware managers | callback against flush against buffer done | every request in one list; every out-fence signaled once |
| `cam_mem_mgr` | table of buffers | alloc, map, get, release | SMMU, dma-buf | mostly calls into the kernel | bitmap exact |
| image pipelines, sensors, CPAS, CDM, SMMU | hardware | register programming | interrupts | hardware | - |
| display, video, audio, data, WLAN, `vendor/oplus` | separate systems | | | | listed in PROJECT.json, not modelled |

There are no design documents; the documentation is the comments in headers and sources. The
findings (section 10) quote them. The hazards are listed, line by line, in PROJECT.json.

## 2. Plan

1. `CamSync`, the fence table; `CamFence`, what it promises; `CamSyncRefines`, that it keeps the
   promise; proofs of all of it but what needs fairness. *Done.*
2. `CamWorkq`, the task queues, with proofs. *Done.*
3. `CamHdl`, the handle table of `cam_req_mgr_util.c`, with proofs. *Done.*
4. `CamContext`, the request lists of `cam_context_utils.c` over the fences of `CamFence`, with proofs.
   *Done.*
5. `CamLink`, the slot ring of `cam_req_mgr_core.c`. *Done for one link.* Left: sync links, link set-up
   and tear-down with the watchdog (hazard at `cam_req_mgr_core.c:1793`).
6. `CamIsp`, the substate machine of `cam_isp_context.c`, with proofs. *Done for linked contexts.* Left: the
   RDI-only and fs2 machines.
7. Proofs of `CamLink`: `TypeOK` and `SentWhenReady`. *Done.* Left: its other four invariants, which need the
   geometry of the ring (section 11).

## 3. The fence table: `CamSync`

**State.** `row[o]` is `sync_table[o]` without its name and id; `bitmap`, `open_cnt`, `table_lock` and
`cam_sync_eventq` are the fields of `struct sync_device`. `lock[o]` is a row spinlock held from one step
to the next, which only merge does. `workq` counts the callback work on the work queue (order is
abstracted: `cam_sync_api.h` promises none), `events` is the V4L2 event queue of the open file, and
`th[t]` is the program counter and the locals of a thread.

**Atomicity.** One action per critical section: an operation that takes and drops a lock three times is
three actions (or a loop of actions), and everything the code does in a section, dispatch included, is
in the action. Reads without a lock (`check_valid` in merge, `wait`, the sweeps of close) are actions
of their own. Error returns that change nothing are stuttering.

| Code | Actions |
|---|---|
| `cam_sync_create` | `CreateReserve`, `CreateInit` |
| `cam_sync_register_callback`, `_deregister_callback` | `RegisterCallback`, `DeregisterCallback` |
| `cam_sync_util_cb_dispatch` (work queue) | `CbDispatch` |
| `cam_sync_get_obj_ref`, `_put_obj_ref` | `GetObjRef`, `PutObjRef` |
| `cam_sync_signal` | `Signal` (own row), `SignalParent` (one per parent) |
| `cam_sync_handle_signal` | `UmdSignalGetRef`, `UmdSignal`, `UmdSignalRejected` |
| `cam_sync_merge`, `cam_sync_init_group_object` | `MergeBegin`, `MergeCheckValid`, `MergeReserve`, `MergeLock`, `MergeChild`, `MergeFinish`; on failure `MergeClean`, `MergeAbort` |
| `cam_sync_destroy`, `cam_sync_deinit_object` | `Destroy`, `DestroyChild`, `DestroyParent`, `DestroyFinish` |
| `cam_sync_wait` | `WaitBegin`, `WaitWoken`, `WaitTimeout` |
| payload ioctls, V4L2 events | `RegisterPayload`, `DeregisterPayload`, `DequeueEvent` (external) |
| `cam_sync_open`, `cam_sync_close` | `Open`; `CloseBegin`, `CloseSignal`, `CloseFlushBegin`, `CloseFlushEnd`, `CloseDestroy`, `CloseUnlock`, `CloseNull` |

**Clients.** `Calls[t]` says which entry points a thread uses. With `Contract = FALSE` clients call them
at any time with any id. With `Contract = TRUE` they keep the usage contract: destroy a fence when it has
settled and is not named in a merge in flight, merge live individual fences, signal and put only what they
hold a reference to, pass a defined status. The in-tree clients follow it with one exception: the ICP destroys its
merged in-fences without asking whether they have settled, when a context is released
(`cam_icp_mgr_cleanup_ctx`, `cam_icp_hw_mgr.c:1935-1955`), a packet is refused (4864) or a request could not be
given to the firmware (4907). What is checked and proved under the contract is then not promised: with unsettled
groups allowed in `MayDestroy`, TLC refutes `RemainingExact` (a signaler that has taken the group from its child's
parents list counts down the fence that gets the id next) and `ImplementsFence` (an active fence disappears).
`MergeNeverBlocks` still holds there.

**Abstracted.** Names, logging, argument copying and their errors; `trigger_cb_without_switch` (a debugfs
switch, off by default); the error exit of `kzalloc` in `cam_sync_register_callback` (nothing changes);
the memory of freed list nodes. The opener of the device is assumed to be subscribed to the fence event.

**Promise.** `CamFence` is the abstract specification: fences that are free, active or settled, groups
that wait for kids, outcomes on their way from a kid to a group, and callbacks that are pending or due.
`CamSyncRefines` maps `CamSync` to it: a locked or INVALID row does not exist (`fenceBar`), a group is active
until its last child has reported (`waitingBar`, `badBar`), a signaler's remaining parents are the outcomes
on their way (`reportsBar`), and the fences a merge was asked for are `askedBar`.

## 4. The task queues: `CamWorkq`

`empty_head`, `process_head`, `free_cnt`, `pending_cnt` and `job` are the fields of
`struct cam_req_mgr_core_workq`; `work_pending` is the kernel's pending bit of the work item, `i` and
`cur` are the worker's locals, `held[c]` the task a caller has got and not yet enqueued. The kernel takes
a work item off its queue before it runs it and never runs one item twice at once: that is all the model
assumes of `queue_work`, and of `destroy_workqueue` that it returns when the item is idle.
Actions: `Create`; `GetTask`; `EnqueueTask`, `EnqueueRejected`, `EnqueueCancelled` (the three outcomes of
`cam_req_mgr_workq_enqueue_task`); `WorkStart`, `WorkTake`, `ProcessTask`, `WorkNext` (the loop of
`cam_req_mgr_process_workq`, with `put_task`); `DestroyBegin`, `DestroyFree`. A caller that uses a queue
after it was freed is outside this module (see the hazard at `cam_req_mgr_core.c:1793`).

## 5. The handle table: `CamHdl`

`state`, `hdl_value`, `priv` are the fields of the rows, `bitmap` the allocated rows, `hdl_tbl` whether the
table exists and has its bitmap. `held[o]` is the handle its owner keeps, `revoked` the owners whose row was
freed behind their backs. Every call runs under `hdl_tbl_lock` and is one action: `InitTable`,
`InitBitmap`, `InitBitmapFails` (`cam_req_mgr_util_init` publishes the table before it has a bitmap),
`Deinit`, `Create`, `Destroy`, `FreeHdls`; `Lookup` is `cam_get_device_priv` and `_ops`. A handle is tag,
type and row; the tag is one random byte, and `FreshTags` says that it does not repeat one that is still
held for the row. That is an assumption: with 8 bits a stale handle meets its row's new owner once in 256.

## 6. The context layer: `CamContext`

**State.** `free`, `pending`, `active` are the request lists; `in`, `out`, `acked`, `flushed`, `owned` the
fields of the requests; `refcount` and `free_ctx` the context's reference count and place in its node;
`sync_mutex` its holder; `hw` what the hardware works on. Fences are an `INSTANCE` of `CamFence`, so that
what `cam_sync` promises (section 3) is what the context relies on.

**Threads.** `ioctl` (one at a time, under `ctx_mutex`), `cb` (the one worker of the sync driver's queue) and
`irq` (the hardware's done handler). One action per critical section of `ctx->lock`, `sync_mutex` or a fence.

| Code | Actions |
|---|---|
| acquire, start, release | `Acquire`, `Start`, `Release`, `ReleasePut` |
| `cam_context_prepare_dev_to_hw` | `Config`, `ConfigCheck`, `ConfigRegister`; its failures `ConfigRefused`, `ConfigShort` |
| `cam_context_sync_callback`, `_apply_req_to_hw` | `CallbackBegin`, `CallbackLock`, `CallbackConfig`, `CallbackFree`, `CallbackPut` |
| `cam_context_buf_done_from_hw` | `BufDone`, `BufDoneOut`, `BufDoneFree` |
| `cam_context_flush_req_to_hw` | `FlushReqIoctl`, `FlushReqPending`, `FlushReqActive`, `FlushReqHw`, then the loop |
| `cam_context_flush_ctx_to_hw`, stop | `FlushCtxBegin`, `FlushCtxTake`, `FlushCtxUnlock`, `FlushCtxHw`, `FlushCtxSplice`, `FlushCtxTakeActive`, `FlushCtxEnd` |
| the loop of both flushes | `FlushDereg`, `FlushOut`, `FlushFree` |
| userspace's fences (external) | `UserCreate`, `UserSettle`, `UserDestroy` |

The in-fences of a request are a set: the ICP, which the model follows, removes those named twice before it
merges them (`cam_icp_hw_mgr.c:4225-4285`); the layer itself would register the callback once for each.
The done handler and `hw_config` exclude each other (the hardware manager's mutex). The JPEG manager calls
its done handler without it; the model is that of the ICP.

## 7. The slot ring of a link: `CamLink`

**State.** `link` is the ring (`slot`, `rd`, `wr`, `last_applied`), the table per pipeline delay (`tbl`,
`skip_traverse`) and the link's state. `tasks` are the tasks of its work queue, which `CamWorkq` models;
`waiting` is a flush ioctl that waits. `has` and `trace` record what a device has reported and was sent,
`gone` what was flushed or refused.

| Code | Actions |
|---|---|
| `cam_req_mgr_schedule_request` | `Sched` |
| `cam_req_mgr_flush_requests` | `Flush`, `FlushTimeout`, `ProcessFlushAll`, `ProcessCancel` |
| `cam_req_mgr_cb_add_req`, `_process_add_req` | `AddReq`, `ProcessAddReq` |
| `cam_req_mgr_cb_notify_trigger`, `_process_trigger`, `__cam_req_mgr_process_req`, `_send_req` | `NotifyTrigger`, `ProcessTrigger` |
| `cam_req_mgr_cb_notify_err`, `_process_error` | `NotifyErr`, `ProcessError` |
| `cam_req_mgr_cb_notify_stop`, `_process_stop` | `NotifyStop`, `ProcessStop`, `ProcessStopEnd` |
| buffer done of the front end | `BufDone` |

A device that refuses a request ends the loop of `__cam_req_mgr_send_req`; the number of that device is the
parameter `f`. `cam_req_mgr_cb_notify_err` does not copy the trigger into its task (2768), so whether
`ProcessError` applies at once depends on what the payload held: `sof` is a free choice. A cancel of a
request that was looked at already never completes `workq_comp` (2145): the ioctl ends by `FlushTimeout`.
A flush of all may name an id that is not scheduled yet, and then `Sched` refuses what comes up to it. A device has
one report in the link's queue at a time; the code lets it queue several, which the worker takes in their order.

**Environment.** `Timely`, `Unmarked`, `QuietStop` and `Refuses` say what userspace and devices do; what
fails without them is in section 10.

## 8. The front end's context: `CamIsp`

**State.** `list` are the pending, wait and active lists, `isp` the fields of `struct cam_isp_context` that
decide (`substate_activated`, `active_req_cnt`, `process_bubble`, `bubble_frame_cnt`,
`last_applied_req_id`, `last_flush_req`), `req[r]` a request object: its out-fences, those not signaled
(`left`), those signaled with success (`ok`), those the hardware really filled (`filled`), `num_acked`, the bubble
flags. `hw` is the double-buffered front end (external): what is loaded, latched and being filled. `crm` is
the request manager as far as the context sees it (external; `CamLink` is the real one): the last request
sent, the one to go back to.

| Code | Actions |
|---|---|
| config in acquired, ready, flushed, activated | `ConfigInit`, `ConfigUpdate` |
| start, stop | `StartDev`, `StartFails`, `StopDev` |
| `__cam_isp_ctx_apply_req_in_activated_state` | `ApplyBegin` (checks), `ApplyConfig` (`hw_config`, no lock), `ApplyEnd` (lists), `ApplyRefused` |
| flush of all, of one | `FlushBegin`, `FlushEnd`, `Cancel` |
| SOF, reg update, epoch, buffer done, error handlers of all substates | `Sof`, `RegUpd`, `Epoch`, `BufDone`, `HwError` |
| the manager's recovery | `GoBack` |

Left out are a refusal of `cam_sync_signal` for an out-fence (824-862: neither `num_acked` nor `sync_id` change then),
which needs somebody else to have signaled or destroyed it; a buffer done for more ports than the active requests
have left, when the code takes the last entry of an active list that may have become empty (950-955) and `Done` has the
guard `l # <<>>`; and in `ConfigInit` the failures to resume the hardware or to start it after a flush (4231-4234,
4389-4398; `StartFails` is that of a start from ready).
Handlers that differ by substate are the cases of one action. The wait between `FlushBegin` and `FlushEnd`
and those inside an apply are where interrupts come, because only `ctx_mutex` is held there.

**Environment.** Five constants say what the hardware, the request manager and userspace do; `Orderly`
(section 11) is their conjunction. `HwErrs`: a hardware error comes never, only while one request is in the
hardware, none of its buffers done and its `bubble_report` not left from an earlier use (`"quiet"`), or at
any time. `Prompt`: a buffer is done by the epoch of the next frame. `Swift`: an apply, which the manager
begins at the start of a frame, is over before the next epoch; sofs and reg updates still come between its
steps. `QuietCancel`: no request is cancelled while a bubble is processed. `SameRecovery`: all requests ask for
the recovery of bubbles, or none. The first three are about time: the code has no check for them and counts
on a frame being long. Section 10 says what happens without each.

## 9. The runs

| Run | Instance | Shows |
|---|---|---|
| `table_any_clients` | 3 ids, 2 threads, arbitrary clients, open and close, failing allocations | `TypeOK`, `OwnersExclude`, `BitmapExact`, `ParentLinksLive`, `NoFenceOutlivesClose` |
| `device_lifecycle` | 2 ids, 3 threads: opener, kernel client that signals and registers, waiter | `NoCallbackStranded`; liveness: close ends |
| `implements_fence` | 3 ids, 2 threads, callbacks, contract | `ImplementsFence`: CamSync refines CamFence; `MergeNeverBlocks`; no deadlock |
| `groups_settle` | 3 ids, 3 threads, two signalers, contract | `RemainingExact`; liveness: a group whose children are signaled settles; no deadlock |
| `workq` | 3 tasks, 3 callers, priority 0 and an invalid one | `PoolConserved`, `NoTaskStranded`, `DrainedBeforeFree`; liveness: tasks are served, destroy ends |
| `handle_table` | 2 rows, 3 owners, 3 tags | `BitmapExact`, `LookupFindsOwner`, `StaleHandleDead` |
| `context_safety` | 2 requests, 2 fences | `OnOneList`, `NoRequestLost`, `AppliedAfterFences`, `RefExact`, `OutFencesSettled` |
| `context_liveness` | 1 request, 2 fences, all packets | liveness: a flushed request is freed, ioctls return |
| `link_safety` | sensor and front end, 7 slots, 3 requests | `SentInOrder`, `SentWhenReady`, `PipelineAligned`, `RequestKept`, `Sendable`; no deadlock |
| `link_liveness` | the same with a flash, 6 slots, 2 requests | liveness: a scheduled request is sent to all devices or flushed; no deadlock |
| `isp_frames` | 2 ports, 3 requests, 1 error, flush or stop | `ListsExact`, `AskedIsHead`, `SuccessIsFilled` |
| `isp_error_order` | the same, errors at any time | refutes `PendingInOrder`: the finding of section 10 |

**Bounds.** `CamSync`: three ids are two children and their group, or a group whose id is reused while a
child is signaled; two threads meet in every critical section, and the third is the second signaler of a
group or a waiter. `Wrap` (the modulus of `remaining`) is above the number of children, so a wrap is visible
as a wrong count; where clients keep the contract it is also above the sum of ids and threads, as the
theorems assume (`RoomToCount`). `MaxRef`, `MaxCbs` and `MaxEvents` bound references, callbacks and events.
`CamHdl`: two rows fill up with three owners. `CamContext`: two requests
share fences, and with two fences one callback can be due while the other is deregistered. `CamLink`: seven
slots are one more than two open requests, the slots skipped for the lower delay and those kept for a bubble
need, so the ring wraps with three requests; one bubble, flush, cancel or stop happens anywhere. Four requests in
the same ring, six in a ring of five slots with delays 1 and 0, and five with four errors in a ring of three slots
with one device were searched too, outside the runs. `CamIsp`:
three requests are the one done, the one in the hardware and the next; two ports give a request with one
buffer done and one not. Five requests with one port, and four with two errors, were searched too with the
inductive invariant of section 11, outside the runs; the proofs have no bound. Ids, tags, requests, fences and ports are symmetric; liveness runs use no symmetry.

**Deadlock** is checked where the system must go on (`implements_fence`, `groups_settle`, `handle_table`,
`link_safety`, `link_liveness`). It is not checked where a bound makes an instance stop: references,
destroyed queues, used-up request ids (`isp_frames`), or a packet without in-fences that takes the only
request (`context_liveness`).

**Fairness.** `CamSync`: strong fairness of each thread inside a call, because row spinlocks are queued
locks served in order, and weak fairness of each queued callback, because the work queue is served in
order and callbacks return. Callers owe nothing: no fairness for starting a call. `CamWorkq`: weak
fairness of the worker (the kernel runs a pending item and `process_cb` returns) and of the last step of
destroy. `CamContext`: weak fairness of an ioctl that has begun, of due callbacks and of a done handler that
has begun; strong fairness of the two steps that take `sync_mutex`, which the kernel hands to a waiter
passed over; none for userspace's fences or the hardware. `CamLink`: weak fairness of the worker, of frames
(the sensor runs), of buffer done and of the flush timeout; strong fairness of the devices' reports, since
userspace sends every packet and a full task queue is retried.

## 10. Findings

`isp_error_order`: after a hardware error `__cam_isp_ctx_handle_error` (`cam_isp_context.c:1756`) puts the
active requests back at the head of the pending list and then the waiting ones before them, although a
waiting request is the newer one. With 2 active and 3 waiting the list is 3, 2, while an apply only takes
the head of the list. The comment at 1738-1746 describes the order kept.

Other places where the code does not do what is written about it. Each is refuted by TLC with the change
given; they have no run of their own.

| Property | Said | Happens | Change |
|---|---|---|---|
| `CamSync!CloseSignalsAllActive` | "Signal all ACTIVE objects as ERR" (`cam_sync.c:862`) | a signal settles only with the last reference; a fence nobody references stays ACTIVE and its callbacks are freed unrun | `MCCamSync_sweep.cfg` |
| `CamSync!CloseDestroysAll` | "Now that all callbacks worker threads have finished, destroy the sync objects" (`cam_sync.c:883`) | a kernel client that merges beside the close may take an id the second sweep has passed: its group outlives the close, and if the sweep then destroys active children of it, it waits for them for ever | `MCCamSync_any.cfg` with this invariant |
| `CamSync!PayloadKeptUntilSignal` | payloads are kept "until signal time" (uapi `cam_sync.h:22`) | the payload ioctl on a group reports when the first child is signaled, because it tests the state and not `remaining` | `MCCamSync_payload.cfg` |
| `CamSync!PayloadsDispatched` | "Dispatch user payloads if any were registered earlier" (`cam_sync_util.c:329`) | an open between the unlock and the clearing of `cam_sync_eventq` in close loses its event queue | `MCCamSync_reopen.cfg` |
| `CamLink!Sendable` | "Apply req failed retry at next sof" (`cam_req_mgr_core.c:1466`) | `skip_traverse` was counted down (329) before the refusal: the retry finds a table that is not ready | `MCCamLink_safe.cfg` with `Refuses = "any"` |
| `CamContext!OnOneList` | one list each for free and pending (`cam_context.h:178-181`) | after an invalid in-fence the request is freed while still on the pending list (`cam_context_utils.c:461`) | `MCCamContext_safe.cfg` with `KeepsFences = FALSE` |
| `CamIsp!FlushEmpties` | a flush "will remove all the pending requests" (uapi `cam_req_mgr.h:68`) | the flush drops `ctx->lock` after the pending list (2715): a bubbled request put back then stays, and the next initial packet is refused (484) | `MCCamIsp.cfg` with this invariant, `HwErrs = "none"` |

What the environment flags rule out: without `FullPackets`, `NoRequestLost` fails (a packet that does not fit
returns at `cam_context_utils.c:378` with the request in hand; one without in-fences links it nowhere).
Without `QuietStop`, `RequestKept` fails (a stop resets slots and indices without `req.lock`). Without
`Timely`, a scheduled request is overwritten, and with six requests and a cancel `SentWhenReady` fails: a frame that
passes a skipped slot does not reset the slot of the last applied request (`__cam_req_mgr_reset_req_slot` 473-501
spares it), which then is reset only by a start of frame that reports just that request as done (2549-2557). When two
requests are done between two frames, or the ring is faster, the next request in the slot inherits `req_ready_map`
(set at 2336, cleared only at 455 and 501) and is sent before its packets are there. A cancelled request is no
longer open, but its slot is `ADDED` until frames have passed it (360-367), with its readiness: userspace that
schedules and cancels ring after ring without a frame writes over such slots, and the new request inherits it as well. And
when the write index comes round to the read index, frames apply the request in the slot they stand on a second time
(`SentInOrder`). `Timely` therefore includes `Vacant`: the proof of `SentWhenReady` needs it, and without it TLC
refutes both properties in a ring of three slots with four errors. Without `Unmarked`, `SentWhenReady` fails with a flash: the
flags of a delayed request survive its cancel, and the flash is sent the id of a skipped slot alone. `CamIsp`: without `Prompt`, a buffer done
after the bubble's time-out is credited to the next request (`SuccessIsFilled`); without `QuietCancel` or
`SameRecovery` the manager and the context disagree on the next request (`AskedIsHead`); with errors at any
time `ListsExact` fails too. Without `Swift`, `SuccessIsFilled` fails from four requests on, more than the run
has; the attempt to prove it found this: when an epoch comes between `hw_config` and the second critical section of the
apply, the next reg update finds another request waiting than the one the hardware latched, and the
buffers of one are credited to the other. A hardware error that meets an initial packet whose
request object still has the `bubble_report` of its last use (2320) sends the manager back to a request it
never had (`AskedIsHead`), which is why `OneInHw` excludes it.

Seen while modelling, and in no property: a signaler walks a private copy of its parents list
(`cam_sync.c:244-283`), so a group destroyed and reused meanwhile is counted down for a child it does not
have (clients that keep the contract never get there; the ICP does not always keep it: section 3). `cam_sync_handle_signal` keeps its reference when
the signal is refused (505); `cam_sync_put_obj_ref` decrements without the row lock (376). The worker of a
task queue does not return to a list of higher priority it has passed (`cam_req_mgr_workq.c:108`; all callers
pass 0). When a device refuses, `__cam_req_mgr_send_req` tells the ones before it the failing device's
request id (757-770); the late completion of a cancel wakes the next flush (3805); the watchdog check reads
`slot[rd + 1]` without wrapping (522). An in-fence that fails before the last one is ignored
(`cam_context_utils.c:204`), and a done event for a request that is not the head of the active list is
lost (65). `bubble_report` of a reused request object is that of its last use until it is applied
(`cam_isp_context.c:2320`; modelled as `stale`).

## 11. The proofs

All theorems hold for every value of the constants that satisfies the named assumptions (`None` is not an
id, thread, request, owner or handle, `Calls` is a table of calls, bounds are natural numbers; pool, requests
and fences are finite). A theorem that assumes more says so. Every inductive invariant was first checked
with TLC on the instance of the component's run.

**The fence table.** `CamSyncSafety`, `CamSyncContract`, `CamSyncImplements`, each on top of the one before.

- `CamSyncSafety.TypeCorrect`: `Spec => []TypeOK`. `TypeOK` is inductive because `Local` ties the locals
  to the program counter: where a thread is about to use an id it has one.
- `CamSyncSafety.OneOwner` and `.NoIdLeaks`: `OwnersExclude` and `BitmapExact`, for any clients. Neither is
  inductive alone: that a reserved id has no other owner follows from its bit having been clear, and that the
  bit is clear follows from ownership. Their conjunction `OwnerInv` is inductive with `TypeOK`. The argument
  has five kinds of step, a lemma each: neutral steps, taking a free id (`TakeStep`), seizing a valid one
  (`SeizeStep`, destroy), keeping it, releasing it.
- `CamSyncSafety.NoLostWakeup`: `NoCallbackStranded`. It needs `OwnerInv`: between `MergeLock` and
  `MergeFinish` a group can look complete while its completion is not yet signaled, and only the lock
  ownership of `OwnersExclude` keeps registration out.
- `CamSyncSafety.LinksLive`: `ParentLinksLive`, for any clients. `LinkInv` adds `GroupBuilt`: a group under
  construction has linked only children that its merge has visited, so a roll-back visits all of them.
- `CamSyncSafety.FencesEndWithClose`: `NoFenceOutlivesClose`, for any clients, also those that merge and destroy beside
  the close, as the ICP (`cam_icp_hw_mgr.c:1938`, 1952, 4249) and the OPE (`cam_ope_hw_mgr.c:1818`) may. `CloseInv`: the
  thread inside close is the one with `table_lock`, and what its second sweep has passed is dead or a group
  (`Passed`) and stays so, because only an ioctl on the open device creates a fence and only a merge brings another
  id to life. That every id the sweep has not destroyed has an owner or is a live group is `OwnerInv`; that the
  row a merge makes a group is no one else's is `OwnersExclude`. That no group remains either is not true (section 10,
  `CloseDestroysAll`).
- `CamSyncContract.MergesDoNotDeadlock`: `MergeNeverBlocks`, assuming `KeepsContract`. `MergeInv` says that the
  fences a merge in flight names stay individual and live, so that what one merge holds, a group under
  construction, is never a fence another merge waits for.
- `CamSyncContract.RemainingCounts`: `RemainingExact`, assuming `KeepsContract` and `RoomToCount`. The counter of
  a group is the number of its linked children plus the number of signalers on their way to it. `KinInv` adds
  that a signaler finds the group and reports each child once (`ReportsLive`), that only active fences have
  parents (`OnlyActiveLinked`), and how far a group under construction is (`BuildInv`).
- `CamSyncImplements.Implements`: `Spec => ImplementsFence`, under the same assumptions. The initial states map to
  the initial state of `CamFence` (`InitAbs`); `View` says what the mapping is, object by object; then
  each action is shown to be an abstract step or a stutter, relative to the conjunction of the invariants
  above. A signal is the abstract settling when the row is complete, a delivery of an outcome when the
  thread comes to a parent; a merge is one abstract step, its last.

`KeepsContract` is the flag `Contract` (section 3), no failing allocation inside merge, and no call of
`cam_sync_close`, which destroys fences that are in use: the promise of `CamFence` ends there, and TLC's
runs with close are `device_lifecycle` and `table_any_clients`. What it does not cover of the ICP is in section 3. `RoomToCount` says that ids and threads are finite and together fewer
than the modulus of `remaining`: the code has 1024 ids (`CAM_SYNC_MAX_OBJS`) and 32 bits.

**The task queues.**

- `CamWorkqProofs.TypeCorrect`, `.TasksConserved`, `.NoLostTask`, `.DestroyDrains`: `TypeOK`, `PoolConserved`,
  `NoTaskStranded` and `DrainedBeforeFree` are inductive together: that the pool is drained when it is freed is
  `NoTaskStranded` with an idle work item, and `Create` relies on it.

**The handle table.**

- `CamHdlProofs.TypeCorrect` and `.TableExact`: `TypeOK` and `BitmapExact`, for any tags; the strengthening
  `NotReady` says that no row is active while the table has no bitmap.
- `CamHdlProofs.HandlesLead` and `.StaleHandlesRefused`: `LookupFindsOwner` and `StaleHandleDead`, assuming
  `FreshTags`. The inductive invariant adds `HeldDistinct` (no two owners hold the same handle) and `RowOwned` (an
  active row and an owner that was not revoked point to each other): a stale handle could lead somewhere only
  if its row's new owner held the same handle.

**The context layer.** `CamContextProofs` proves all six safety properties of `CamContext` from one inductive
invariant, `CtxInv`, assuming `KeepsFences` and `FullPackets` (without either, some of them are false: section 10).

- `.TypeCorrect`, `.LinkedOnce`, `.RequestsKept`, `.FencesFirst`, `.ReferencesExact`, `.OutFencesGiven`: `TypeOK`,
  `OnOneList`, `NoRequestLost`, `AppliedAfterFences`, `RefExact`, `OutFencesSettled`.
- The core is `ReqInv`: a request is at exactly one place. It is free, waits for its in-fences (`WaitInv`), was
  dropped by a flush (`DropInv`), is being ended by the last callback (`EndInv`) or is applied (`ApplyInv`); each
  place says on which lists it is, which threads have it in hand, and what its callbacks are.
- `CountInv` is why only one thread frees a request: acknowledgements and open callbacks (still to be
  registered, registered, due or running) add up to the in-fences, so exactly one thread sees the last.
  `InInv` and `FenceInv` tie both to the fences; `OutInv` says who still signals an out-fence.
- `RefExact` counts one reference for the acquire and one for each callback that has not returned; it is
  inductive once the callbacks of a request are known.
- `LockInv` and `ThreadInv` say what a thread at each point holds and where a flush inside a callback returns to.

**The front end's context.** `CamIspProofs` proves the properties of `CamIsp` for any number of ports,
requests and errors, assuming `Orderly`. Each of its five conjuncts is needed: without it one of the properties
is false (section 10).

- `.IspInvariant`: the inductive invariant, `IspInv`. None of the properties is inductive, because what one
  handler relies on was established by others, up to two frames before:
  - `OrderInv`: ids ascend along the active, the wait and the pending list; at most one request waits and at most
    two are active. `IdInv`: ids on the lists are above the last flush, requests agree on recovery.
  - `StateInv`, `HolderInv`, `SubInv`: what each state of the context, each holder of `ctx_mutex` and each
    substate says of the lists. The head of the pending list stays the request of an apply in flight, and
    `active_req_cnt` is the length of the active list.
  - `HwInv`: a configuration the hardware has not latched belongs to the waiting request or to the apply in
    flight; what it fills belongs to requests that are active or wait, in their order.
  - `BubbleInv`: a bubble that is recovered is the last applied request, `process_bubble` says that it is on the
    active list, and its time-out runs only while the hardware has nothing of it.
  - `ReqInv`: of an active request, acknowledged and due buffers add up to its out-fences, and unless it is a
    bubble its unsignaled fences are those of the due buffers. Hence the last buffer done and only that one
    takes it off the list.
  - `CrmInv`, `AheadInv`: what the request manager sent and what it will ask for next, against the lists: the
    pending list, with the bubble before the manager has been told and without it after.
- The proof of a step has a lemma for each action and, for handlers with cases, for each case. `BufDone` may
  complete two requests in one event: `Handles` says what one `DoneFor` does to the context, `Completed` what a
  whole event does, and `IspInv` is kept by whatever satisfies `Completed`.
- `.TypeCorrect`, `.ListedOnce`, `.AskedForHead`: `TypeOK`, `ListsExact`, `AskedIsHead`, which follow from `IspInv`
  in each state. `.PendingKeepsOrder`: `PendingInOrder`, the property `isp_error_order` refutes for errors at
  any time, holds in an orderly environment.
- `.SuccessOnlyIfFilled`: `SuccessIsFilled` is inductive relative to `IspInv`: `BufDone` credits a request only
  with ports whose oldest frame was the request's.

**The request manager's link.** `CamLinkProofs`, for any devices, delays and sizes of the ring.

- `.TypeCorrect`: `TypeOK`, whatever userspace and the devices do: also when requests are overwritten, refused or
  scheduled into a stop. The strengthening types the tables and the tasks, and `Busy` says that a stop's task
  stays at the head of the queue between its two halves, in which nothing holds `req.lock`.
- `.SentOnlyWhenReady`: `SentWhenReady`, assuming `Timely` (userspace writes only into free slots) and `NoneAlone` (no
  device uses `SKIP_NEXT_FRAME`; delays are allowed). `Unmarked` and `QuietStop` are not assumed, and devices may
  refuse at any frame. The invariant `Backed` says of every slot by itself that an empty one has no readiness, a
  skipped one no request, and that whoever is ready for the request of a slot has reported that request. No distance in
  the ring occurs in it, which is why it can be proved without the ring's geometry. All operations on the ring but
  scheduling and reporting only shrink it (`Shrinks`, which composes): a slot is emptied, skipped or only looked at,
  and one that becomes `NO_REQ` has its tables cleared. `ProcessReqSends` is the step from there to what is sent.

**Model-checked only.** Of `CamLink`: `SentInOrder`, `PipelineAligned`, `RequestKept` and `Sendable`, whose proofs
would need the geometry of the ring (distances modulo `NumSlots` between the read and write indices, the slots
spared for a bubble and those of every delay); and `SentWhenReady` where a device is sent a request alone;
and everything with fairness (`GroupsSettle`, `CloseReturns`, `DestroyReturns`, `TasksServed`, `FlushedFreed`, `IoctlReturns`,
`RequestSent`), which is out of the prover's reach.

## 12. Not modelled

See PROJECT.json `components`. The repository has 450 thousand lines, most of them register programming
(display, panels, sensors, codecs, hardware managers), firmware messages (video, ADSP, WLAN) or vendored
storage code, in which what could go wrong is in the hardware's answer and not in a protocol of the code. The
models cover the coordination layers of the camera driver, a small share of the lines.

Within `cam_sync`: probe, remove, debugfs, `poll`, and what a waiter sees on a row that is zeroed under it
(the completion itself is overwritten; its outcome is the kernel's). Within the task queues: payload memory,
the failure exits of create, delay detection. Within the request manager: sync links, link set-up and
tear-down, the watchdog, triggers other than the start of frame, `link_control`; probe makes the video
device available before the handle table exists (`cam_req_mgr_dev.c:751-761`), which `CamHdl` answers with
a refusal. Within the context layer: `acquire_hw`, `release_hw`, shutdown, dumps. Within the front end: the
RDI-only and fs2 state machines, acquire and release, link and unlink, SOF freeze.
