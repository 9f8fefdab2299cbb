------------------------------ MODULE CamSync ------------------------------
(***************************************************************************)
(* The fence table of the camera sync driver (cam_sync.c, cam_sync_util.c) *)
(*                                                                         *)
(* A sync object (fence) is a row of sync_dev->sync_table.  Individual     *)
(* objects are created, referenced and signaled; group objects are made by *)
(* cam_sync_merge and settle when their last child is signaled.  Every row *)
(* has a spinlock, and every operation is cut here where the code drops a  *)
(* spinlock: one action per critical section.  Only cam_sync_merge holds a *)
(* row lock (that of the new group) while it takes others.                 *)
(*                                                                         *)
(* Error returns that change nothing are stuttering steps and have no      *)
(* action of their own.                                                    *)
(***************************************************************************)
EXTENDS Integers, Sequences, FiniteSets

CONSTANTS
  Objs,         (* sync ids 1 .. CAM_SYNC_MAX_OBJS-1 (id 0 is never handed out)    *)
  None,         (* no sync id                                                      *)
  Threads,      (* threads inside the driver: ioctl callers and kernel clients     *)
  Calls,        (* Calls[t]: the entry points thread t uses                        *)
  Cbs,          (* (cb_func, userdata) pairs of kernel clients                     *)
  Payloads,     (* opaque user payloads                                            *)
  Contract,     (* TRUE: clients follow the usage contract (see MayDestroy ...)    *)
  AllocFails,   (* TRUE: kzalloc(GFP_ATOMIC) may fail                              *)
  Wrap,         (* modulus of the uint32_t "remaining"                             *)
  MaxRef,       (* bound on |ref_cnt|                                              *)
  MaxCbs,       (* bound on callbacks outstanding per object and (cb_func, data)   *)
  MaxEvents     (* CAM_SYNC_MAX_V4L2_EVENTS                                        *)

\* enum of cam_sync.h (uapi) and the two object types
INVALID == 0
ACTIVE  == 1
SUCCESS == 2
ERROR   == 3
States  == {INVALID, ACTIVE, SUCCESS, ERROR}
Settled == {SUCCESS, ERROR}
Types   == {"INDV", "GROUP"}

CallNames == {"create", "register", "deregister", "getref", "putref", "signal",
              "umd_signal", "merge", "destroy", "wait", "payload", "depayload",
              "open", "close"}

ASSUME NoneAssumption     == None \notin Objs /\ None \notin Threads
ASSUME CallsAssumption    == Calls \in [Threads -> SUBSET CallNames]
ASSUME ContractAssumption == Contract \in BOOLEAN /\ AllocFails \in BOOLEAN
ASSUME BoundsAssumption   == /\ Wrap \in Nat /\ Wrap > 1
                             /\ MaxRef \in Nat /\ MaxCbs \in Nat
                             /\ MaxEvents \in Nat /\ MaxEvents > 0

VARIABLES
  bitmap,           (* sync_dev->bitmap: the ids in use                            *)
  row,              (* sync_dev->sync_table                                        *)
  lock,             (* row_spinlocks held from one step to the next (merge only)   *)
  workq,            (* HIPRIO_SYNC_WORK_QUEUE: how many of each callback work      *)
  events,           (* V4L2 event queue of the file that has the device open       *)
  cam_sync_eventq,  (* sync_dev->cam_sync_eventq # NULL                            *)
  open_cnt,         (* sync_dev->open_cnt                                          *)
  table_lock,       (* holder of the mutex sync_dev->table_lock                    *)
  flush_left,       (* the work flush_workqueue still waits for                    *)
  th                (* th[t]: program counter and locals of thread t               *)

devVars == <<cam_sync_eventq, open_cnt, table_lock, flush_left>>
vars == <<bitmap, row, lock, workq, events, cam_sync_eventq, open_cnt,
          table_lock, flush_left, th>>

-----------------------------------------------------------------------------
(* struct sync_table_row, callback work, V4L2 events, thread locals.  The   *)
(* order of callbacks on a list and on the work queue is abstracted: both   *)
(* count nodes.  Payloads are unique on a list (the ioctl checks that).     *)

Row == [type : Types, state : States, remaining : 0 .. Wrap - 1, signaled : BOOLEAN,
        parents_list : SUBSET Objs, children_list : SUBSET Objs,
        callback_list : [Cbs -> Nat], user_payload_list : Seq(Payloads), ref_cnt : Int]

CbWork  == [cb : Cbs, obj : Objs, status : Settled]
Event   == [payload : Payloads, obj : Objs, status : Settled]
NoCbs   == [cb \in Cbs |-> 0]
NoWork  == [w \in CbWork |-> 0]

PCs == {"idle", "create_init", "umd_signal", "signal_parents", "wait",
        "merge_check", "merge_lock", "merge_child", "merge_clean",
        "destroy", "close_signal", "close_flush", "close_destroy", "close_null"}

LocalFields ==
  [pc : PCs, obj : Objs \cup {None}, st : States, todo : SUBSET Objs, done : SUBSET Objs,
   folks : SUBSET Objs, ret : {"idle", "close_signal", "close_destroy"}, sweep : SUBSET Objs]

\* The locals a thread may have: "obj" and "st" are set where the code uses them
Named == {"create_init", "umd_signal", "signal_parents", "wait", "merge_lock",
          "merge_child", "merge_clean", "destroy"}
Local == {l \in LocalFields : /\ l.pc \in Named => l.obj \in Objs
                              /\ l.pc \in {"umd_signal", "signal_parents"} => l.st \in Settled}

Idle == [pc |-> "idle", obj |-> None, st |-> INVALID, todo |-> {}, done |-> {},
         folks |-> {}, ret |-> "idle", sweep |-> {}]

\* memset(row, 0, sizeof(*row)) followed by INIT_LIST_HEAD of its lists
ZeroRow == [type |-> "INDV", state |-> INVALID, remaining |-> 0, signaled |-> FALSE,
            parents_list |-> {}, children_list |-> {}, callback_list |-> NoCbs,
            user_payload_list |-> <<>>, ref_cnt |-> 0]

cam_sync_init_row(type) == [ZeroRow EXCEPT !.type = type, !.state = ACTIVE]

Init ==
  /\ bitmap = {}
  /\ row = [o \in Objs |-> ZeroRow]
  /\ lock = [o \in Objs |-> None]
  /\ workq = NoWork
  /\ events = <<>>
  /\ cam_sync_eventq = FALSE
  /\ open_cnt = 0
  /\ table_lock = None
  /\ flush_left = NoWork
  /\ th = [t \in Threads |-> Idle]

-----------------------------------------------------------------------------
(* Helpers                                                                  *)

\* Signaled and no child outstanding: what register_callback and the waiters go by.
Complete(r) == r.state \in Settled /\ r.remaining = 0

\* uint32_t increment and decrement
Inc(n) == IF n = Wrap - 1 THEN 0 ELSE n + 1
\* (mutant: the count goes below zero)
Dec_NoWrap(n) == n - 1

Dec(n) == IF n = 0 THEN Wrap - 1 ELSE n - 1

Elems(s) == {s[i] : i \in 1 .. Len(s)}

\* list_del of the payload equal to x
Without(s, x) ==
  IF \E i \in 1 .. Len(s) : s[i] = x
    THEN LET i == CHOOSE i \in 1 .. Len(s) : s[i] = x
         IN  SubSeq(s, 1, i - 1) \o SubSeq(s, i + 1, Len(s))
    ELSE s

EventsOf(r, o, status) ==
  [i \in 1 .. Len(r.user_payload_list) |->
     [payload |-> r.user_payload_list[i], obj |-> o, status |-> status]]

\* v4l2_event_queue on a subscription of MaxEvents elements: the oldest make room
v4l2_event_queue(q, new) ==
  LET all == q \o new
  IN  IF Len(all) <= MaxEvents THEN all
      ELSE SubSeq(all, Len(all) - MaxEvents + 1, Len(all))

\* cam_sync_util_dispatch_signaled_cb: the row afterwards, and what it queues
DispatchedRow(r) ==
  [r EXCEPT !.callback_list = NoCbs,
            !.user_payload_list = IF cam_sync_eventq THEN <<>> ELSE @,
            !.signaled = TRUE]

DispatchQueues(r, o, status) ==
  /\ workq' = [w \in CbWork |->
                  workq[w] + IF w.obj = o /\ w.status = status
                               THEN r.callback_list[w.cb] ELSE 0]
  /\ events' = IF cam_sync_eventq
                 THEN v4l2_event_queue(events, EventsOf(r, o, status)) ELSE events

\* cam_sync_util_update_parent_state
\* (mutant: a later success hides an error)
UpdateParentState_Overwrite(state, new) == IF state = INVALID THEN state ELSE new

UpdateParentState(state, new) == IF state \in {ACTIVE, SUCCESS} THEN new ELSE state

\* List operations on a row
AddChild(r, c)   == [r EXCEPT !.remaining = Inc(@), !.children_list = @ \cup {c}]
AddParent(r, g)  == [r EXCEPT !.parents_list = @ \cup {g}]
DropChild(r, c)  == [r EXCEPT !.children_list = @ \ {c}]
DropParent(r, g) == [r EXCEPT !.parents_list = @ \ {g}]

\* A loop has dealt with child c
Visited(l, c) == [l EXCEPT !.todo = @ \ {c}, !.done = @ \cup {c}]

MayCall(t, c) == th[t].pc = "idle" /\ c \in Calls[t]
Free(o) == lock[o] = None

\* Return from cam_sync_signal or cam_sync_deinit_object to the caller
Return(r) == [Idle EXCEPT !.pc = r.ret, !.sweep = r.sweep]

-----------------------------------------------------------------------------
(* The usage contract.  The driver does not enforce it; with Contract =     *)
(* FALSE the clients are arbitrary.                                         *)

Merging(t) == th[t].pc \in {"merge_check", "merge_lock", "merge_child"}

\* A fence is destroyed once it has settled and no merge in flight names it.
MayDestroy(o) ==
  Contract => /\ Complete(row[o])
              /\ \A t \in Threads : Merging(t) => o \notin th[t].todo \cup th[t].done

\* Only live individual fences are merged.
MayMerge(S) == Contract => \A o \in S : row[o].type = "INDV" /\ row[o].state # INVALID

\* A kernel client signals, or puts, a fence it holds a reference to.
HasRef(o) == Contract => row[o].ref_cnt > 0

-----------------------------------------------------------------------------
(* cam_sync_create.  The search for a zero bit and test_and_set_bit are not *)
(* atomic together, so the bit taken need not be the lowest.                *)

CreateReserve(t) ==
  /\ MayCall(t, "create")
  /\ open_cnt = 1
  /\ \E o \in Objs \ bitmap :
       /\ bitmap' = bitmap \cup {o}
       /\ th' = [th EXCEPT ![t] = [Idle EXCEPT !.pc = "create_init", !.obj = o]]
  /\ UNCHANGED <<row, lock, workq, events, devVars>>

CreateInit(t) ==
  LET o == th[t].obj IN
  /\ th[t].pc = "create_init"
  /\ Free(o)
  /\ row' = [row EXCEPT ![o] = cam_sync_init_row("INDV")]
  /\ th' = [th EXCEPT ![t] = Idle]
  /\ UNCHANGED <<bitmap, lock, workq, events, devVars>>

-----------------------------------------------------------------------------
(* cam_sync_register_callback / cam_sync_deregister_callback.               *)
(* trigger_cb_without_switch is FALSE from probe on (a debugfs switch).     *)

WorkOf(cb, o, status) == [cb |-> cb, obj |-> o, status |-> status]

\* (mutant: never looks whether the object is signaled already)
RegisterCallback_NoCheck(t, o, cb) ==
  /\ MayCall(t, "register")
  /\ Free(o)
  /\ row[o].state # INVALID
  /\ row[o].callback_list[cb] < MaxCbs
  /\ row' = [row EXCEPT ![o].callback_list[cb] = @ + 1]
  /\ UNCHANGED <<bitmap, lock, workq, events, devVars, th>>

RegisterCallback(t, o, cb) ==
  /\ MayCall(t, "register")
  /\ Free(o)
  /\ row[o].state # INVALID
  /\ row[o].callback_list[cb] + workq[WorkOf(cb, o, SUCCESS)]
                              + workq[WorkOf(cb, o, ERROR)] < MaxCbs
  /\ \/ /\ Complete(row[o])
        /\ workq' = [workq EXCEPT ![WorkOf(cb, o, row[o].state)] = @ + 1]
        /\ UNCHANGED row
     \/ /\ ~Complete(row[o])
        /\ row' = [row EXCEPT ![o].callback_list[cb] = @ + 1]
        /\ UNCHANGED workq
  /\ UNCHANGED <<bitmap, lock, events, devVars, th>>

DeregisterCallback(t, o, cb) ==
  /\ MayCall(t, "deregister")
  /\ Free(o)
  /\ row[o].state # INVALID
  /\ row[o].callback_list[cb] > 0
  /\ row' = [row EXCEPT ![o].callback_list[cb] = 0]
  /\ UNCHANGED <<bitmap, lock, workq, events, devVars, th>>

\* cam_sync_util_cb_dispatch on the work queue: the callback runs to its end
CbDispatch(w) ==
  /\ workq[w] > 0
  /\ workq' = [workq EXCEPT ![w] = @ - 1]
  /\ flush_left' = [flush_left EXCEPT ![w] = IF @ > 0 THEN @ - 1 ELSE 0]
  /\ UNCHANGED <<bitmap, row, lock, events, cam_sync_eventq, open_cnt, table_lock, th>>

-----------------------------------------------------------------------------
(* cam_sync_get_obj_ref / cam_sync_put_obj_ref (the latter without a lock)  *)

GetObjRef(t, o) ==
  /\ MayCall(t, "getref")
  /\ Free(o)
  /\ row[o].state = ACTIVE
  /\ row[o].ref_cnt < MaxRef
  /\ row' = [row EXCEPT ![o].ref_cnt = @ + 1]
  /\ UNCHANGED <<bitmap, lock, workq, events, devVars, th>>

PutObjRef(t, o) ==
  /\ MayCall(t, "putref")
  /\ HasRef(o)
  /\ row[o].ref_cnt > -MaxRef
  /\ row' = [row EXCEPT ![o].ref_cnt = @ - 1]
  /\ UNCHANGED <<bitmap, lock, workq, events, devVars, th>>

-----------------------------------------------------------------------------
(* cam_sync_signal                                                          *)

\* The critical section on the object itself; l is what the caller keeps.
SignalRow(t, o, status, l) ==
  /\ Free(o)
  /\ row[o].state = ACTIVE
  /\ row[o].type = "INDV"
  /\ \/ /\ row[o].ref_cnt - 1 # 0
        /\ row[o].ref_cnt > -MaxRef
        /\ row' = [row EXCEPT ![o].ref_cnt = @ - 1]
        /\ th' = [th EXCEPT ![t] = Return(l)]
        /\ UNCHANGED <<workq, events>>
     \/ /\ row[o].ref_cnt - 1 = 0
        /\ row' = [row EXCEPT ![o] =
                     [DispatchedRow(@) EXCEPT !.ref_cnt = 0, !.state = status,
                                              !.parents_list = {}]]
        /\ DispatchQueues(row[o], o, status)
        /\ th' = [th EXCEPT ![t] =
                    IF row[o].parents_list = {} THEN Return(l)
                    ELSE [l EXCEPT !.pc = "signal_parents", !.obj = o, !.st = status,
                                   !.folks = row[o].parents_list]]

\* A kernel client signals
Signal(t, o, status) ==
  /\ MayCall(t, "signal")
  /\ HasRef(o)
  /\ SignalRow(t, o, status, Idle)
  /\ UNCHANGED <<bitmap, lock, devVars>>

\* cam_sync_handle_signal: take a reference, then signal
UmdSignalGetRef(t, o, status) ==
  /\ MayCall(t, "umd_signal")
  /\ open_cnt = 1
  /\ Free(o)
  /\ row[o].state = ACTIVE
  /\ row[o].ref_cnt < MaxRef
  /\ row' = [row EXCEPT ![o].ref_cnt = @ + 1]
  /\ th' = [th EXCEPT ![t] = [Idle EXCEPT !.pc = "umd_signal", !.obj = o, !.st = status]]
  /\ UNCHANGED <<bitmap, lock, workq, events, devVars>>

\* The same with an undefined status: the reference is taken before cam_sync_signal
\* refuses the status, and it stays.
UmdSignalRejected(t, o) ==
  /\ MayCall(t, "umd_signal")
  /\ ~Contract
  /\ open_cnt = 1
  /\ Free(o)
  /\ row[o].state = ACTIVE
  /\ row[o].ref_cnt < MaxRef
  /\ row' = [row EXCEPT ![o].ref_cnt = @ + 1]
  /\ UNCHANGED <<bitmap, lock, workq, events, devVars, th>>

UmdSignal(t) ==
  LET o == th[t].obj IN
  /\ th[t].pc = "umd_signal"
  /\ \/ SignalRow(t, o, th[t].st, Idle)
     \/ /\ Free(o)
        /\ row[o].state # ACTIVE \/ row[o].type # "INDV"
        /\ th' = [th EXCEPT ![t] = Idle]
        /\ UNCHANGED <<row, workq, events>>
  /\ UNCHANGED <<bitmap, lock, devVars>>

\* One turn of the loop over the spliced parents_list, under the parent's lock
SignalParent(t, p) ==
  LET r == [row[p] EXCEPT !.remaining = Dec(@),
                          !.state = UpdateParentState(@, th[t].st)]
      left == th[t].folks \ {p} IN
  /\ th[t].pc = "signal_parents"
  /\ p \in th[t].folks
  /\ Free(p)
  /\ \/ /\ r.state # INVALID /\ r.remaining = 0
        /\ row' = [row EXCEPT ![p] = DispatchedRow(r)]
        /\ DispatchQueues(r, p, r.state)
     \/ /\ r.state = INVALID \/ r.remaining # 0
        /\ row' = [row EXCEPT ![p] = r]
        /\ UNCHANGED <<workq, events>>
  /\ th' = [th EXCEPT ![t] = IF left = {} THEN Return(@) ELSE [@ EXCEPT !.folks = left]]
  /\ UNCHANGED <<bitmap, lock, devVars>>

-----------------------------------------------------------------------------
(* cam_sync_merge and cam_sync_init_group_object.  The caller chooses the   *)
(* order of the array, so the loops take its elements in any order.         *)

MergeBegin(t, S) ==
  /\ MayCall(t, "merge")
  /\ Cardinality(S) > 1
  /\ MayMerge(S)
  /\ th' = [th EXCEPT ![t] = [Idle EXCEPT !.pc = "merge_check", !.todo = S]]
  /\ UNCHANGED <<bitmap, row, lock, workq, events, devVars>>

\* cam_sync_check_valid on one element, without its lock
MergeCheckValid(t, c) ==
  /\ th[t].pc = "merge_check"
  /\ c \in th[t].todo
  /\ th' = [th EXCEPT ![t] = IF c \in bitmap /\ row[c].state # INVALID
                               THEN Visited(@, c)
                               ELSE Idle]
  /\ UNCHANGED <<bitmap, row, lock, workq, events, devVars>>

\* (mutant: the bit is set without testing it)
MergeReserve_NoTest(t) ==
  /\ th[t].pc = "merge_check"
  /\ th[t].todo = {}
  /\ \E o \in Objs : /\ bitmap' = bitmap \cup {o}
                     /\ th' = [th EXCEPT ![t] = [@ EXCEPT !.pc = "merge_lock", !.obj = o]]
  /\ UNCHANGED <<row, lock, workq, events, devVars>>

MergeReserve(t) ==
  /\ th[t].pc = "merge_check"
  /\ th[t].todo = {}
  /\ \/ \E o \in Objs \ bitmap :
          /\ bitmap' = bitmap \cup {o}
          /\ th' = [th EXCEPT ![t] = [@ EXCEPT !.pc = "merge_lock", !.obj = o]]
     \/ /\ Objs \subseteq bitmap
        /\ th' = [th EXCEPT ![t] = Idle]
        /\ UNCHANGED bitmap
  /\ UNCHANGED <<row, lock, workq, events, devVars>>

\* Take the lock of the new row and initialise it as a group
MergeLock(t) ==
  LET o == th[t].obj IN
  /\ th[t].pc = "merge_lock"
  /\ Free(o)
  /\ lock' = [lock EXCEPT ![o] = t]
  /\ row' = [row EXCEPT ![o] = cam_sync_init_row("GROUP")]
  /\ th' = [th EXCEPT ![t] = [@ EXCEPT !.pc = "merge_child", !.todo = th[t].done,
                                       !.done = {}]]
  /\ UNCHANGED <<bitmap, workq, events, devVars>>

\* An active child is linked to the group
MergeLink(t, c) ==
  LET o == th[t].obj IN
  /\ row[c].type = "INDV" /\ row[c].state = ACTIVE
  /\ row' = [row EXCEPT ![o] = AddChild(@, c), ![c] = AddParent(@, o)]
  /\ th' = [th EXCEPT ![t] = Visited(@, c)]

\* A settled child only lends its error
Inherit(r, state) == IF state = ERROR THEN [r EXCEPT !.state = ERROR] ELSE r

\* (mutant: "remaining" counts the settled children too)
MergeSkip_Counts(t, c) ==
  LET o == th[t].obj IN
  /\ row[c].type = "INDV" /\ row[c].state \in Settled
  /\ row' = [row EXCEPT ![o] = [Inherit(@, row[c].state) EXCEPT !.remaining = Inc(@)]]
  /\ th' = [th EXCEPT ![t] = Visited(@, c)]

MergeSkip(t, c) ==
  LET o == th[t].obj IN
  /\ row[c].type = "INDV" /\ row[c].state \in Settled
  /\ row' = [row EXCEPT ![o] = Inherit(@, row[c].state)]
  /\ th' = [th EXCEPT ![t] = Visited(@, c)]

Fails(r, remaining) == [r EXCEPT !.state = INVALID, !.remaining = remaining]

\* goto clean_children_info: an invalid child, or no memory for a list node
MergeFail(t, c) ==
  LET o == th[t].obj IN
  /\ \/ /\ row[c].type = "GROUP" \/ row[c].state = INVALID
        /\ row' = [row EXCEPT ![o] = Fails(@, @.remaining)]
     \/ /\ AllocFails
        /\ row[c].type = "INDV" /\ row[c].state = ACTIVE
        /\ row' = [row EXCEPT ![o] = Fails(@, Inc(@.remaining))]
  /\ th' = [th EXCEPT ![t] = [@ EXCEPT !.pc = "merge_clean", !.todo = {}]]

MergeChild(t, c) ==
  /\ th[t].pc = "merge_child"
  /\ c \in th[t].todo
  /\ Free(c)
  /\ MergeLink(t, c) \/ MergeSkip(t, c) \/ MergeFail(t, c)
  /\ UNCHANGED <<bitmap, lock, workq, events, devVars>>

\* No active child: the group is born signaled
Finished(r) ==
  IF r.remaining # 0 THEN r
  ELSE [r EXCEPT !.state = IF r.state = ERROR THEN ERROR ELSE SUCCESS, !.signaled = TRUE]

MergeFinish(t) ==
  LET o == th[t].obj IN
  /\ th[t].pc = "merge_child"
  /\ th[t].todo = {}
  /\ row' = [row EXCEPT ![o] = Finished(@)]
  /\ lock' = [lock EXCEPT ![o] = None]
  /\ th' = [th EXCEPT ![t] = Idle]
  /\ UNCHANGED <<bitmap, workq, events, devVars>>

\* Undo one link; the children already visited lose the parent
MergeClean(t, c) ==
  /\ th[t].pc = "merge_clean"
  /\ c \in th[t].done
  /\ Free(c)
  /\ row' = [row EXCEPT ![c] = DropParent(@, th[t].obj)]
  /\ th' = [th EXCEPT ![t].done = @ \ {c}]
  /\ UNCHANGED <<bitmap, lock, workq, events, devVars>>

\* (mutant: the bit is not cleared)
MergeAbort_KeepBit(t) ==
  LET o == th[t].obj IN
  /\ th[t].pc = "merge_clean"
  /\ th[t].done = {}
  /\ row' = [row EXCEPT ![o].children_list = {}]
  /\ lock' = [lock EXCEPT ![o] = None]
  /\ th' = [th EXCEPT ![t] = Idle]
  /\ UNCHANGED <<bitmap, workq, events, devVars>>

MergeAbort(t) ==
  LET o == th[t].obj IN
  /\ th[t].pc = "merge_clean"
  /\ th[t].done = {}
  /\ row' = [row EXCEPT ![o].children_list = {}]
  /\ bitmap' = bitmap \ {o}
  /\ lock' = [lock EXCEPT ![o] = None]
  /\ th' = [th EXCEPT ![t] = Idle]
  /\ UNCHANGED <<workq, events, devVars>>

-----------------------------------------------------------------------------
(* cam_sync_deinit_object                                                   *)

Emptied(r) == [r EXCEPT !.state = INVALID, !.children_list = {}, !.parents_list = {}]

\* Invalidate the row and move its two lists to locals; l is what the caller keeps.
\* (mutant: does not look whether the row is INVALID)
DeinitRow_NoCheck(t, o, l) ==
  /\ Free(o)
  /\ row' = [row EXCEPT ![o] = Emptied(@)]
  /\ th' = [th EXCEPT ![t] = [l EXCEPT !.pc = "destroy", !.obj = o,
                                       !.todo = row[o].children_list,
                                       !.folks = row[o].parents_list]]

DeinitRow(t, o, l) ==
  /\ Free(o)
  /\ row[o].state # INVALID
  /\ row' = [row EXCEPT ![o] = Emptied(@)]
  /\ th' = [th EXCEPT ![t] = [l EXCEPT !.pc = "destroy", !.obj = o,
                                       !.todo = row[o].children_list,
                                       !.folks = row[o].parents_list]]

Destroy(t, o) ==
  /\ MayCall(t, "destroy")
  /\ MayDestroy(o)
  /\ DeinitRow(t, o, Idle)
  /\ UNCHANGED <<bitmap, lock, workq, events, devVars>>

\* (mutant: leaves active children alone)
DestroyChild_SkipActive(t, c) ==
  /\ th[t].pc = "destroy"
  /\ c \in th[t].todo
  /\ Free(c)
  /\ row' = IF row[c].state \in {INVALID, ACTIVE} THEN row
            ELSE [row EXCEPT ![c] = DropParent(@, th[t].obj)]
  /\ th' = [th EXCEPT ![t].todo = @ \ {c}]
  /\ UNCHANGED <<bitmap, lock, workq, events, devVars>>

DestroyChild(t, c) ==
  /\ th[t].pc = "destroy"
  /\ c \in th[t].todo
  /\ Free(c)
  /\ row' = IF row[c].state = INVALID THEN row
            ELSE [row EXCEPT ![c] = DropParent(@, th[t].obj)]
  /\ th' = [th EXCEPT ![t].todo = @ \ {c}]
  /\ UNCHANGED <<bitmap, lock, workq, events, devVars>>

DestroyParent(t, p) ==
  /\ th[t].pc = "destroy"
  /\ th[t].todo = {}
  /\ p \in th[t].folks
  /\ Free(p)
  /\ row' = IF row[p].state = INVALID THEN row
            ELSE [row EXCEPT ![p] = DropChild(@, th[t].obj)]
  /\ th' = [th EXCEPT ![t].folks = @ \ {p}]
  /\ UNCHANGED <<bitmap, lock, workq, events, devVars>>

\* Free what is left on the lists, zero the row, give the id back
DestroyFinish(t) ==
  LET o == th[t].obj IN
  /\ th[t].pc = "destroy"
  /\ th[t].todo = {} /\ th[t].folks = {}
  /\ Free(o)
  /\ row' = [row EXCEPT ![o] = ZeroRow]
  /\ bitmap' = bitmap \ {o}
  /\ th' = [th EXCEPT ![t] = Return(@)]
  /\ UNCHANGED <<lock, workq, events, devVars>>

-----------------------------------------------------------------------------
(* cam_sync_wait: the row is read without its lock                          *)

WaitBegin(t, o) ==
  /\ MayCall(t, "wait")
  /\ open_cnt = 1
  /\ row[o].state # INVALID
  /\ th' = [th EXCEPT ![t] = [Idle EXCEPT !.pc = "wait", !.obj = o]]
  /\ UNCHANGED <<bitmap, row, lock, workq, events, devVars>>

WaitWoken(t) ==
  /\ th[t].pc = "wait"
  /\ row[th[t].obj].signaled
  /\ th' = [th EXCEPT ![t] = Idle]
  /\ UNCHANGED <<bitmap, row, lock, workq, events, devVars>>

WaitTimeout(t) ==
  /\ th[t].pc = "wait"
  /\ ~row[th[t].obj].signaled
  /\ th' = [th EXCEPT ![t] = Idle]
  /\ UNCHANGED <<bitmap, row, lock, workq, events, devVars>>

-----------------------------------------------------------------------------
(* User payloads (ioctls on the open device) and the V4L2 events they cause *)

\* The ioctl goes by the state alone: it does not look at "remaining".
RegisterPayload(t, o, pl) ==
  /\ MayCall(t, "payload")
  /\ open_cnt = 1
  /\ Free(o)
  /\ \/ /\ row[o].state \in Settled
        /\ events' = v4l2_event_queue(events,
                       <<[payload |-> pl, obj |-> o, status |-> row[o].state]>>)
        /\ UNCHANGED row
     \/ /\ row[o].state = ACTIVE
        /\ pl \notin Elems(row[o].user_payload_list)
        /\ row' = [row EXCEPT ![o].user_payload_list = Append(@, pl)]
        /\ UNCHANGED events
  /\ UNCHANGED <<bitmap, lock, workq, devVars, th>>

DeregisterPayload(t, o, pl) ==
  /\ MayCall(t, "depayload")
  /\ open_cnt = 1
  /\ Free(o)
  /\ row[o].state # INVALID
  /\ pl \in Elems(row[o].user_payload_list)
  /\ row' = [row EXCEPT ![o].user_payload_list = Without(@, pl)]
  /\ UNCHANGED <<bitmap, lock, workq, events, devVars, th>>

\* VIDIOC_DQEVENT by the process that has the device open
DequeueEvent ==
  /\ events # <<>>
  /\ events' = Tail(events)
  /\ UNCHANGED <<bitmap, row, lock, workq, devVars, th>>

-----------------------------------------------------------------------------
(* cam_sync_open / cam_sync_close                                           *)

Open(t) ==
  /\ MayCall(t, "open")
  /\ table_lock = None
  /\ open_cnt = 0
  /\ open_cnt' = 1
  /\ cam_sync_eventq' = TRUE
  /\ events' = <<>>
  /\ UNCHANGED <<bitmap, row, lock, workq, table_lock, flush_left, th>>

\* The last reference to the file is gone, so no ioctl on it is in flight.
CloseBegin(t) ==
  /\ MayCall(t, "close")
  /\ table_lock = None
  /\ open_cnt = 1
  /\ \A u \in Threads : th[u].pc \notin {"create_init", "umd_signal", "wait"}
  /\ table_lock' = t
  /\ open_cnt' = 0
  /\ th' = [th EXCEPT ![t] = [Idle EXCEPT !.pc = "close_signal", !.sweep = Objs]]
  /\ UNCHANGED <<bitmap, row, lock, workq, events, cam_sync_eventq, flush_left>>

\* First sweep: signal every object found ACTIVE with an error
CloseSignal(t, o) ==
  LET l == [th[t] EXCEPT !.sweep = @ \ {o}, !.ret = "close_signal"] IN
  /\ th[t].pc = "close_signal"
  /\ o \in th[t].sweep
  /\ \/ SignalRow(t, o, ERROR, l)
     \/ /\ row[o].state # ACTIVE \/ (row[o].type = "GROUP" /\ Free(o))
        /\ th' = [th EXCEPT ![t].sweep = @ \ {o}]
        /\ UNCHANGED <<row, workq, events>>
  /\ UNCHANGED <<bitmap, lock, devVars>>

\* flush_workqueue waits for the work queued before it
CloseFlushBegin(t) ==
  /\ th[t].pc = "close_signal"
  /\ th[t].sweep = {}
  /\ flush_left' = workq
  /\ th' = [th EXCEPT ![t] = [Idle EXCEPT !.pc = "close_flush"]]
  /\ UNCHANGED <<bitmap, row, lock, workq, events, cam_sync_eventq, open_cnt, table_lock>>

\* (mutant: waits until the queue is empty, as drain_workqueue would)
CloseFlushEnd_Drain(t) ==
  /\ th[t].pc = "close_flush"
  /\ workq = NoWork
  /\ th' = [th EXCEPT ![t] = [Idle EXCEPT !.pc = "close_destroy", !.sweep = Objs]]
  /\ UNCHANGED <<bitmap, row, lock, workq, events, devVars>>

CloseFlushEnd(t) ==
  /\ th[t].pc = "close_flush"
  /\ flush_left = NoWork
  /\ th' = [th EXCEPT ![t] = [Idle EXCEPT !.pc = "close_destroy", !.sweep = Objs]]
  /\ UNCHANGED <<bitmap, row, lock, workq, events, devVars>>

\* Second sweep: destroy every object that is not INVALID
\* (mutant: destroys only what the first sweep signaled)
CloseDestroy_SignaledOnly(t, o) ==
  LET l == [th[t] EXCEPT !.sweep = @ \ {o}, !.ret = "close_destroy"] IN
  /\ th[t].pc = "close_destroy"
  /\ o \in th[t].sweep
  /\ \/ row[o].state \in Settled /\ DeinitRow(t, o, l)
     \/ /\ row[o].state \notin Settled
        /\ th' = [th EXCEPT ![t].sweep = @ \ {o}]
        /\ UNCHANGED row
  /\ UNCHANGED <<bitmap, lock, workq, events, devVars>>

CloseDestroy(t, o) ==
  LET l == [th[t] EXCEPT !.sweep = @ \ {o}, !.ret = "close_destroy"] IN
  /\ th[t].pc = "close_destroy"
  /\ o \in th[t].sweep
  /\ \/ DeinitRow(t, o, l)
     \/ /\ row[o].state = INVALID
        /\ th' = [th EXCEPT ![t].sweep = @ \ {o}]
        /\ UNCHANGED row
  /\ UNCHANGED <<bitmap, lock, workq, events, devVars>>

CloseUnlock(t) ==
  /\ th[t].pc = "close_destroy"
  /\ th[t].sweep = {}
  /\ table_lock' = None
  /\ th' = [th EXCEPT ![t] = [Idle EXCEPT !.pc = "close_null"]]
  /\ UNCHANGED <<bitmap, row, lock, workq, events, cam_sync_eventq, open_cnt, flush_left>>

\* After table_lock is dropped: forget the event queue and release this file's own one
CloseNull(t) ==
  /\ th[t].pc = "close_null"
  /\ cam_sync_eventq' = FALSE
  /\ events' = IF open_cnt = 0 THEN <<>> ELSE events
  /\ th' = [th EXCEPT ![t] = Idle]
  /\ UNCHANGED <<bitmap, row, lock, workq, open_cnt, table_lock, flush_left>>

-----------------------------------------------------------------------------
(* What a thread does on its own once it is inside a call, and the calls.   *)

Step(t) ==
  \/ CreateInit(t) \/ UmdSignal(t)
  \/ MergeReserve(t) \/ MergeLock(t) \/ MergeFinish(t) \/ MergeAbort(t)
  \/ DestroyFinish(t)
  \/ WaitWoken(t) \/ WaitTimeout(t)
  \/ CloseFlushBegin(t) \/ CloseFlushEnd(t) \/ CloseUnlock(t) \/ CloseNull(t)
  \/ \E o \in Objs : \/ SignalParent(t, o)
                     \/ MergeCheckValid(t, o) \/ MergeChild(t, o) \/ MergeClean(t, o)
                     \/ DestroyChild(t, o) \/ DestroyParent(t, o)
                     \/ CloseSignal(t, o) \/ CloseDestroy(t, o)

Call(t) ==
  \/ CreateReserve(t) \/ Open(t) \/ CloseBegin(t)
  \/ \E S \in SUBSET Objs : MergeBegin(t, S)
  \/ \E o \in Objs :
       \/ GetObjRef(t, o) \/ PutObjRef(t, o) \/ UmdSignalRejected(t, o)
       \/ Destroy(t, o) \/ WaitBegin(t, o)
       \/ \E s \in Settled : Signal(t, o, s) \/ UmdSignalGetRef(t, o, s)
       \/ \E cb \in Cbs : RegisterCallback(t, o, cb) \/ DeregisterCallback(t, o, cb)
       \/ \E pl \in Payloads : RegisterPayload(t, o, pl) \/ DeregisterPayload(t, o, pl)

Next == (\E w \in CbWork : CbDispatch(w)) \/ DequeueEvent
        \/ \E t \in Threads : Step(t) \/ Call(t)

Spec == Init /\ [][Next]_vars

\* The row spinlocks are queued (FIFO) locks and the work queue is FIFO, so a thread
\* inside a call and a queued callback always get their turn.  Callers owe nothing.
Fairness == /\ \A t \in Threads : SF_vars(Step(t))
            /\ \A w \in CbWork : WF_vars(CbDispatch(w))

FairSpec == Spec /\ Fairness

-----------------------------------------------------------------------------
(* Invariants that hold whatever the clients do                             *)

\* Every variable has its type.
TypeOK ==
  /\ bitmap \subseteq Objs
  /\ row \in [Objs -> Row]
  /\ lock \in [Objs -> Threads \cup {None}]
  /\ workq \in [CbWork -> Nat]
  /\ events \in Seq(Event)
  /\ cam_sync_eventq \in BOOLEAN
  /\ open_cnt \in {0, 1}
  /\ table_lock \in Threads \cup {None}
  /\ flush_left \in [CbWork -> Nat]
  /\ th \in [Threads -> Local]

Reserving(t)  == th[t].pc \in {"create_init", "merge_lock"}
Building(t)   == th[t].pc \in {"merge_child", "merge_clean"}
Destroying(t) == th[t].pc = "destroy"
Owns(t, o)    == th[t].obj = o /\ (Reserving(t) \/ Building(t) \/ Destroying(t))

\* Two threads never build or tear down the same row, and a row that is being reserved,
\* rolled back or torn down looks INVALID to everybody else: find_first_zero_bit,
\* test_and_set_bit and the row lock together hand an id to one thread at a time.  Only a
\* group being built is owned and valid, and its builder has it locked.
OwnersExclude ==
  /\ \A o \in Objs : \A t, u \in Threads : Owns(t, o) /\ Owns(u, o) => t = u
  /\ \A o \in Objs, t \in Threads :
       Owns(t, o) => (row[o].state = INVALID <=> th[t].pc # "merge_child")
  /\ \A o \in Objs, t \in Threads : lock[o] = t <=> Building(t) /\ th[t].obj = o

\* No id is lost and none is handed out twice: a bit is set exactly for the ids that
\* are valid objects or that some thread is creating, merging or destroying.
BitmapExact ==
  \A o \in Objs : o \in bitmap <=> row[o].state # INVALID \/ \E t \in Threads : Owns(t, o)

\* A parents_list never names a released id: the group it names still exists and lists the
\* child, or the thread that takes the group away still has this child to visit.
ParentLinksLive ==
  \A c \in Objs : \A g \in row[c].parents_list :
    /\ row[c].state # INVALID /\ row[c].type = "INDV" /\ row[g].type = "GROUP"
    /\ \/ row[g].state # INVALID /\ c \in row[g].children_list
       \/ \E t \in Threads : th[t].obj = g /\ \/ th[t].pc = "destroy" /\ c \in th[t].todo
                                              \/ th[t].pc = "merge_clean" /\ c \in th[t].done

\* No lost wakeup: once an object is complete its waiters are released and no callback is
\* left behind on its list, wherever registration and signaling interleave; a group that
\* cam_sync_merge is building has none yet.
NoCallbackStranded ==
  \A o \in Objs :
    /\ Free(o) /\ Complete(row[o]) => row[o].signaled /\ row[o].callback_list = NoCbs
    /\ ~Free(o) => row[o].callback_list = NoCbs

\* No fence outlives the close of the device: once cam_sync_close has dropped table_lock,
\* and until the next open, the table holds no individual object.  The ids still in use are
\* those of groups that a merge of a kernel client built beside the close, and those that a
\* thread is still merging or destroying.
NoFenceOutlivesClose ==
  open_cnt = 0 /\ table_lock = None =>
    \A o \in bitmap : \/ row[o].state # INVALID /\ row[o].type = "GROUP"
                      \/ \E t \in Threads : Owns(t, o)

-----------------------------------------------------------------------------
(* What holds when the clients keep the contract                            *)

\* "remaining" counts the children still linked and those whose signaler has not yet
\* reached the group.
RemainingExact ==
  \A g \in Objs :
    row[g].state # INVALID =>
      row[g].remaining =
        Cardinality({c \in Objs : g \in row[c].parents_list}) +
        Cardinality({t \in Threads : th[t].pc = "signal_parents" /\ g \in th[t].folks})

\* A merge, which holds the lock of its group, never waits for the lock of another
\* merge (or for its own): the nested row locks cannot deadlock.
MergeNeverBlocks ==
  \A t \in Threads : Building(t) => \A c \in th[t].todo \cup th[t].done : Free(c)

-----------------------------------------------------------------------------
(* Liveness under FairSpec                                                  *)

\* A group all of whose children have been signaled settles or is destroyed: the
\* signalers get through to it.
GroupsSettle ==
  \A g \in Objs :
    /\ Free(g) /\ row[g].type = "GROUP" /\ row[g].state # INVALID
    /\ \A c \in Objs : g \notin row[c].parents_list
    ~> Complete(row[g]) \/ row[g].state = INVALID

\* cam_sync_close returns: its sweeps end and flush_workqueue does not wait for work
\* that is queued after it was called.
CloseReturns ==
  \A t \in Threads : table_lock = t ~> table_lock = None

-----------------------------------------------------------------------------
(* What comments in the driver say and the code does not do                 *)

\* cam_sync.c:862 "Signal all ACTIVE objects as ERR": when the first sweep of
\* cam_sync_close is over no individual object is ACTIVE.
CloseSignalsAllActive ==
  \A t \in Threads : th[t].pc = "close_flush"
                       => \A o \in Objs : row[o].state = ACTIVE => row[o].type = "GROUP"

\* cam_sync.c:883 "all callbacks worker threads have finished, destroy the sync objects":
\* when the device is closed and every call has returned, no id is in use.
CloseDestroysAll ==
  open_cnt = 0 /\ (\A t \in Threads : th[t].pc = "idle") => bitmap = {}

\* cam_sync.h:22 payload "sent to kernel for safekeeping until signal time": an event is
\* queued for an object only when the object is complete.
PayloadKeptUntilSignal ==
  [][Len(events') > Len(events) => Complete(row'[events'[Len(events')].obj])]_vars

\* cam_sync_util.c:329 "Dispatch user payloads if any were registered earlier": while the
\* device is open no payload is left on a complete object.
PayloadsDispatched ==
  open_cnt = 1 => \A o \in Objs : Complete(row[o]) => row[o].user_payload_list = <<>>
=============================================================================
