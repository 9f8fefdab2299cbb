------------------------------ MODULE CamWorkq ------------------------------
(***************************************************************************)
(* The task queues of the camera drivers (cam_req_mgr_workq.c).            *)
(*                                                                         *)
(* A queue owns a fixed pool of tasks.  A caller takes a free task, fills  *)
(* it in and enqueues it at a priority; one kernel work item serves all    *)
(* enqueued tasks and puts them back into the pool.  One action per        *)
(* critical section of lock_bh.  The kernel's work item may be pending and *)
(* running at once, never running twice (external: queue_work,             *)
(* destroy_workqueue).                                                     *)
(***************************************************************************)
EXTENDS Integers, Sequences, FiniteSets

CONSTANTS
  Tasks,     (* the task structs of one pool (num_task of them)                     *)
  Callers,   (* threads, interrupt handlers and timers that enqueue                 *)
  AskPrios,  (* the priorities callers pass                                         *)
  None       (* no task                                                             *)

CRM_TASK_PRIORITY_0   == 0
CRM_TASK_PRIORITY_MAX == 2
Prios == CRM_TASK_PRIORITY_0 .. CRM_TASK_PRIORITY_MAX - 1

ASSUME TasksAssumption == IsFiniteSet(Tasks) /\ None \notin Tasks
ASSUME PriosAssumption == AskPrios \subseteq Int

VARIABLES
  pool,          (* task.pool is allocated (the queue exists)                       *)
  job,           (* workq->job # NULL                                               *)
  empty_head,    (* task.empty_head; which free task is handed out does not matter  *)
  process_head,  (* task.process_head                                               *)
  free_cnt, pending_cnt,
  work_pending,  (* the work item is on the kernel's queue                          *)
  i,             (* the worker's loop variable; PRIORITY_MAX: not running           *)
  cur,           (* the task whose process_cb the worker runs                       *)
  held           (* held[c]: the task caller c has got and not yet enqueued         *)

lists == <<empty_head, process_head, free_cnt, pending_cnt>>
vars  == <<pool, job, empty_head, process_head, free_cnt, pending_cnt, work_pending,
           i, cur, held>>

Running == i < CRM_TASK_PRIORITY_MAX

Init ==
  /\ pool = FALSE
  /\ job = FALSE
  /\ empty_head = {}
  /\ process_head = [p \in Prios |-> <<>>]
  /\ free_cnt = 0 /\ pending_cnt = 0
  /\ work_pending = FALSE
  /\ i = CRM_TASK_PRIORITY_MAX
  /\ cur = None
  /\ held = [c \in Callers |-> None]

-----------------------------------------------------------------------------
(* cam_req_mgr_workq_create                                                 *)

\* A task held over from a freed pool is dangling; what becomes of it is not modelled.
Create ==
  /\ ~pool
  /\ \A c \in Callers : held[c] = None
  /\ pool' = TRUE
  /\ job' = TRUE
  /\ empty_head' = Tasks
  /\ free_cnt' = Cardinality(Tasks)
  /\ process_head' = [p \in Prios |-> <<>>]
  /\ pending_cnt' = 0
  /\ UNCHANGED <<work_pending, i, cur, held>>

-----------------------------------------------------------------------------
(* The callers                                                              *)

\* cam_req_mgr_workq_get_task
GetTask(c) ==
  /\ pool /\ held[c] = None
  /\ \E k \in empty_head :
       /\ empty_head' = empty_head \ {k}
       /\ held' = [held EXCEPT ![c] = k]
  /\ free_cnt' = free_cnt - 1
  /\ UNCHANGED <<pool, job, process_head, pending_cnt, work_pending, i, cur>>

Clamp(prio) == IF prio \in Prios THEN prio ELSE CRM_TASK_PRIORITY_0

\* cam_req_mgr_workq_enqueue_task, the queue being up
\* (mutants: leaves it to the running worker to find the task; accepts it while the
\* queue goes down)
EnqueueTask_IfIdle(c, prio) ==
  /\ pool /\ job /\ held[c] # None
  /\ process_head' = [process_head EXCEPT ![Clamp(prio)] = Append(@, held[c])]
  /\ pending_cnt' = pending_cnt + 1
  /\ work_pending' = (work_pending \/ ~Running)
  /\ held' = [held EXCEPT ![c] = None]
  /\ UNCHANGED <<pool, job, empty_head, free_cnt, i, cur>>

EnqueueTask_NoJobCheck(c, prio) ==
  /\ pool /\ held[c] # None
  /\ process_head' = [process_head EXCEPT ![Clamp(prio)] = Append(@, held[c])]
  /\ pending_cnt' = pending_cnt + 1
  /\ work_pending' = TRUE
  /\ held' = [held EXCEPT ![c] = None]
  /\ UNCHANGED <<pool, job, empty_head, free_cnt, i, cur>>

EnqueueTask(c, prio) ==
  /\ pool /\ job /\ held[c] # None
  /\ process_head' = [process_head EXCEPT ![Clamp(prio)] = Append(@, held[c])]
  /\ pending_cnt' = pending_cnt + 1
  /\ work_pending' = TRUE
  /\ held' = [held EXCEPT ![c] = None]
  /\ UNCHANGED <<pool, job, empty_head, free_cnt, i, cur>>

\* The same after job was reset: the task is neither queued nor put back.
EnqueueRejected(c) ==
  /\ pool /\ ~job /\ held[c] # None
  /\ held' = [held EXCEPT ![c] = None]
  /\ UNCHANGED <<pool, job, lists, work_pending, i, cur>>

\* The same with task->cancel set, which the task's owner may do: cam_req_mgr_workq_put_task
EnqueueCancelled(c) ==
  /\ pool /\ held[c] # None
  /\ empty_head' = empty_head \cup {held[c]}
  /\ free_cnt' = free_cnt + 1
  /\ held' = [held EXCEPT ![c] = None]
  /\ UNCHANGED <<pool, job, process_head, pending_cnt, work_pending, i, cur>>

-----------------------------------------------------------------------------
(* cam_req_mgr_process_workq, run by the kernel for the work item           *)

\* The kernel takes the item off its queue before it runs it.
WorkStart ==
  /\ work_pending /\ ~Running
  /\ work_pending' = FALSE
  /\ i' = CRM_TASK_PRIORITY_0
  /\ UNCHANGED <<pool, job, lists, cur, held>>

WorkTake ==
  /\ Running /\ cur = None
  /\ process_head[i] # <<>>
  /\ cur' = Head(process_head[i])
  /\ process_head' = [process_head EXCEPT ![i] = Tail(@)]
  /\ pending_cnt' = pending_cnt - 1
  /\ UNCHANGED <<pool, job, empty_head, free_cnt, work_pending, i, held>>

\* cam_req_mgr_process_task: process_cb returns and the task is put back
\* (mutant: without counting it)
ProcessTask_NoCount ==
  /\ cur # None
  /\ empty_head' = empty_head \cup {cur}
  /\ cur' = None
  /\ UNCHANGED <<pool, job, process_head, free_cnt, pending_cnt, work_pending, i, held>>

ProcessTask ==
  /\ cur # None
  /\ empty_head' = empty_head \cup {cur}
  /\ free_cnt' = free_cnt + 1
  /\ cur' = None
  /\ UNCHANGED <<pool, job, process_head, pending_cnt, work_pending, i, held>>

\* The list of this priority is empty: go on to the next, or return
\* (mutant: the loop bound is <= CRM_TASK_PRIORITY_MAX)
WorkNext_PastEnd ==
  /\ i <= CRM_TASK_PRIORITY_MAX /\ cur = None
  /\ Running => process_head[i] = <<>>
  /\ i' = i + 1
  /\ UNCHANGED <<pool, job, lists, work_pending, cur, held>>

WorkNext ==
  /\ Running /\ cur = None
  /\ process_head[i] = <<>>
  /\ i' = i + 1
  /\ UNCHANGED <<pool, job, lists, work_pending, cur, held>>

-----------------------------------------------------------------------------
(* cam_req_mgr_workq_destroy (one caller: the users serialise it)           *)

DestroyBegin ==
  /\ pool /\ job
  /\ job' = FALSE
  /\ UNCHANGED <<pool, lists, work_pending, i, cur, held>>

\* destroy_workqueue has drained the work item; the pool is freed
\* (mutant: cancels the item instead of draining it)
DestroyFree_NoDrain ==
  /\ pool /\ ~job
  /\ ~Running
  /\ work_pending' = FALSE
  /\ pool' = FALSE
  /\ UNCHANGED <<job, lists, i, cur, held>>

DestroyFree ==
  /\ pool /\ ~job
  /\ ~work_pending /\ ~Running
  /\ pool' = FALSE
  /\ UNCHANGED <<job, lists, work_pending, i, cur, held>>

-----------------------------------------------------------------------------

Worker == WorkStart \/ WorkTake \/ ProcessTask \/ WorkNext

Caller(c) == \/ GetTask(c) \/ EnqueueRejected(c) \/ EnqueueCancelled(c)
             \/ \E prio \in AskPrios : EnqueueTask(c, prio)

Next == Worker \/ Create \/ DestroyBegin \/ DestroyFree \/ \E c \in Callers : Caller(c)

Spec == Init /\ [][Next]_vars

\* The kernel runs a pending work item, process_cb returns, and destroy_workqueue returns
\* once the item is idle.
FairSpec == Spec /\ WF_vars(Worker) /\ WF_vars(DestroyFree)

-----------------------------------------------------------------------------

\* The shape of the queue; in particular the worker's index stays within process_head.
TypeOK ==
  /\ pool \in BOOLEAN /\ job \in BOOLEAN /\ work_pending \in BOOLEAN
  /\ empty_head \subseteq Tasks
  /\ process_head \in [Prios -> Seq(Tasks)]
  /\ free_cnt \in Int /\ pending_cnt \in Int
  /\ i \in 0 .. CRM_TASK_PRIORITY_MAX
  /\ cur \in Tasks \cup {None}
  /\ held \in [Callers -> Tasks \cup {None}]

Elems(s) == {s[n] : n \in 1 .. Len(s)}
NoDup(s) == \A m, n \in 1 .. Len(s) : s[m] = s[n] => m = n
Queued == UNION {Elems(process_head[p]) : p \in Prios}

\* A task is in one place at a time: free, enqueued once, with the worker or with one
\* caller; and the two counters agree with the lists.
PoolConserved ==
  /\ empty_head \cap Queued = {} /\ cur \notin empty_head \cup Queued
  /\ \A p \in Prios : NoDup(process_head[p])
  /\ \A p, q \in Prios : p # q => Elems(process_head[p]) \cap Elems(process_head[q]) = {}
  /\ pool => \A c \in Callers :
       held[c] # None => /\ held[c] \notin empty_head \cup Queued \cup {cur}
                         /\ \A d \in Callers : held[d] = held[c] => d = c
  /\ free_cnt = Cardinality(empty_head)
  /\ pending_cnt = Len(process_head[0]) + Len(process_head[1])

\* No lost wakeup: an enqueued task has the work item pending, or the running worker has
\* its list still ahead, whatever the priority loop has already passed; a task that was
\* taken has the worker running.
NoTaskStranded ==
  /\ \A p \in Prios : process_head[p] # <<>> => work_pending \/ (Running /\ i <= p)
  /\ cur # None => Running

\* A pool is freed only when no task is enqueued and no process_cb runs, so nothing that
\* was accepted is dropped and the worker never touches a freed task.
DrainedBeforeFree == ~pool => Queued = {} /\ cur = None /\ ~work_pending

\* cam_req_mgr_workq_destroy returns: its drain cannot be kept going by callers.
DestroyReturns == pool /\ ~job ~> ~pool

\* An enqueued task is served, when all callers use one priority (as all of them do).
TasksServed == \A k \in Tasks : k \in Queued ~> k \notin Queued
=============================================================================
