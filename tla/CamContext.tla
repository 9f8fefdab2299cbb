----------------------------- MODULE CamContext -----------------------------
(***************************************************************************)
(* One context of a camera device without real-time links (cam_context.c,  *)
(* cam_context_utils.c, cam_node.c), with the state machine of the ICP     *)
(* device (cam_icp_context.c).                                             *)
(*                                                                         *)
(* A request waits in pending_req_list for its in-fences, goes to the      *)
(* hardware and into active_req_list when the last one has called back,    *)
(* and has its out-fences signaled when the hardware is done or a flush    *)
(* gives it up.  Three threads work on it: the ioctls (one at a time,      *)
(* under ctx_mutex), the one worker that runs fence callbacks, and the     *)
(* hardware's done handler.  One action per critical section of ctx->lock, *)
(* ctx->sync_mutex or a fence.                                             *)
(*                                                                         *)
(* The fences are those of CamFence, which the sync driver implements;     *)
(* here no group is used.  Requests have distinct ids, so that a flush by  *)
(* id is a flush of one request; last_flush_req only adds a reason to      *)
(* refuse a packet.                                                        *)
(***************************************************************************)
EXTENDS Naturals, Sequences, FiniteSets

CONSTANTS
  Reqs,        (* the request structs of the context (req_list)                     *)
  Fences,      (* sync objects                                                      *)
  MaxFences,   (* bound on the in-fences and on the out-fences of a request         *)
  KeepsFences, (* userspace names only fences that exist and destroys none in use   *)
  FullPackets, (* a packet fits its buffer and names an in-fence                    *)
  HwAccepts,   (* hw_config succeeds on an acquired context                         *)
  None         (* no request, nobody                                                *)

ASSUME ContextAssumption ==
  /\ None \notin Reqs /\ None \notin {"ioctl", "cb", "irq"}
  /\ IsFiniteSet(Reqs) /\ IsFiniteSet(Fences) /\ MaxFences \in Nat
  /\ KeepsFences \in BOOLEAN /\ FullPackets \in BOOLEAN /\ HwAccepts \in BOOLEAN

VARIABLES
  fence, pend, due,  (* the fences and their callbacks: see CamFence                *)
  state,             (* ctx->state: "AVAILABLE", "ACQUIRED" or "READY"              *)
  refcount,          (* ctx->refcount                                               *)
  free_ctx,          (* the context is on the node's free_ctx_list                  *)
  free, pending,     (* free_req_list, pending_req_list                             *)
  active,            (* active_req_list                                             *)
  in,                (* in[r]: in_map_entries                                       *)
  out,               (* out[r]: out_map_entries on which r still has its reference  *)
  acked,             (* acked[r]: num_in_acked                                      *)
  flushed,           (* the requests with flushed set                               *)
  owned,             (* the requests whose ctx is set                               *)
  sync_mutex,        (* the thread that holds ctx->sync_mutex, or None              *)
  hw,                (* requests the hardware works on                              *)
  pc, cur,           (* pc[t]: where thread t is; cur[t]: the request in its hands  *)
  todo,              (* todo[t]: in-fences of cur[t] left to (de)register           *)
  lastack,           (* lastack[t]: free_req, deregistering made the last ack       *)
  mode,              (* mode[t]: which list t is flushing                           *)
  temp,              (* temp_list of a flush                                        *)
  after,             (* what the ioctl does once its flush is over                  *)
  givenup            (* requests put on the free list without settling out-fences   *)

Thr == {"ioctl", "cb", "irq"}

F == INSTANCE CamFence WITH
       Objs <- Fences, Threads <- {}, Cbs <- Reqs,
       waiting <- [f \in Fences |-> {}], reports <- {}, bad <- [f \in Fences |-> FALSE],
       asked <- [t \in {} |-> {}]

fences == <<fence, pend, due>>
node   == <<state, refcount, free_ctx>>
lists  == <<free, pending, active>>
req    == <<in, out, acked, flushed, owned>>
loop   == <<pc, cur, todo, lastack, mode, temp, after>>
vars   == <<fences, node, lists, req, sync_mutex, hw, loop, givenup>>

Elems(s) == {s[n] : n \in 1 .. Len(s)}
\* list_del of the request
Without(s, r) ==
  IF \E n \in 1 .. Len(s) : s[n] = r
    THEN LET n == CHOOSE n \in 1 .. Len(s) : s[n] = r
         IN  SubSeq(s, 1, n - 1) \o SubSeq(s, n + 1, Len(s))
    ELSE s
Small == {S \in SUBSET Fences : Cardinality(S) <= MaxFences}

Init ==
  /\ fence = [f \in Fences |-> F!FREE]
  /\ pend = [f \in Fences |-> [r \in Reqs |-> 0]]
  /\ due = [w \in F!CbWork |-> 0]
  /\ state = "AVAILABLE" /\ refcount = 0 /\ free_ctx = TRUE
  /\ free = Reqs /\ pending = {} /\ active = <<>>
  /\ in = [r \in Reqs |-> {}] /\ out = [r \in Reqs |-> {}] /\ acked = [r \in Reqs |-> 0]
  /\ flushed = {} /\ owned = Reqs
  /\ sync_mutex = None /\ hw = {}
  /\ pc = [t \in Thr |-> "idle"] /\ cur = [t \in Thr |-> None]
  /\ todo = [t \in Thr |-> {}] /\ lastack = [t \in Thr |-> FALSE]
  /\ mode = [t \in Thr |-> "none"]
  /\ temp = {} /\ after = "none" /\ givenup = {}

-----------------------------------------------------------------------------
(* Parts of the actions                                                     *)

Goto(t, label) == pc' = [pc EXCEPT ![t] = label]
Idle(t) == Goto(t, "idle") /\ cur' = [cur EXCEPT ![t] = None]

\* cam_context_putref: the last reference puts the context on the node's free list
PutRef == refcount' = refcount - 1 /\ free_ctx' = (refcount = 1)

Memset(r) ==
  /\ acked' = [acked EXCEPT ![r] = 0]
  /\ flushed' = flushed \ {r}
  /\ givenup' = givenup \ {r}

\* cam_sync_signal on an out-fence: it settles with the last reference.
Signal(r, f, status) ==
  /\ out' = [out EXCEPT ![r] = @ \ {f}]
  /\ IF \E q \in Reqs \ {r} : f \in out[q] THEN UNCHANGED fences ELSE F!Settle(f, status)

\* The request goes to the end of free_req_list and forgets its context.
Free(r) == free' = free \cup {r} /\ owned' = owned \ {r}

-----------------------------------------------------------------------------
(* Userspace and its fences                                                 *)

UserCreate(f) == F!Create(f) /\ UNCHANGED <<node, lists, req, sync_mutex, hw, loop, givenup>>

\* A fence that a request has a reference on is not settled by userspace's signal.
UserSettle(f) ==
  /\ \A r \in Reqs : f \notin out[r]
  /\ \E s \in F!Settled : F!Settle(f, s)
  /\ UNCHANGED <<node, lists, req, sync_mutex, hw, loop, givenup>>

InUse(f) == \E r \in Reqs \ free : f \in in[r]

UserDestroy(f) ==
  /\ KeepsFences => ~InUse(f)
  /\ F!Destroy(f)
  /\ UNCHANGED <<node, lists, req, sync_mutex, hw, loop, givenup>>

-----------------------------------------------------------------------------
(* Acquire, start, release                                                  *)

\* cam_context_handle_acquire_dev puts all requests on the free list, whatever they did.
ResetLists ==
  /\ free' = Reqs /\ pending' = {} /\ active' = <<>>
  /\ givenup' = givenup \cup {r \in Reqs : out[r] # {}}

\* __cam_node_handle_acquire_dev; hw_acquire may fail
Acquire ==
  /\ pc["ioctl"] = "idle" /\ free_ctx
  /\ ResetLists
  /\ \/ state' = "ACQUIRED" /\ refcount' = 1 /\ free_ctx' = FALSE
     \/ UNCHANGED node
  /\ UNCHANGED <<fences, req, sync_mutex, hw, loop>>

Start ==
  /\ pc["ioctl"] = "idle" /\ state = "ACQUIRED"
  /\ state' = "READY"
  /\ UNCHANGED <<fences, refcount, free_ctx, lists, req, sync_mutex, hw, loop, givenup>>

\* __cam_icp_release_dev_in_acquired; hw_release waits for the done handler
Release ==
  /\ pc["ioctl"] = "idle" /\ state = "ACQUIRED"
  /\ pc["irq"] = "idle"
  /\ state' = "AVAILABLE" /\ hw' = {}
  /\ Goto("ioctl", "release")
  /\ UNCHANGED <<fences, refcount, free_ctx, lists, req, sync_mutex, cur, todo, lastack, mode,
                 temp, after, givenup>>

\* __cam_node_handle_release_dev: the reference of the acquire is given back
ReleasePut ==
  /\ pc["ioctl"] = "release"
  /\ PutRef /\ Idle("ioctl")
  /\ UNCHANGED <<fences, state, lists, req, sync_mutex, hw, todo, lastack, mode, temp, after,
                 givenup>>

-----------------------------------------------------------------------------
(* cam_context_prepare_dev_to_hw                                            *)

Configures == pc["ioctl"] = "idle" /\ state \in {"ACQUIRED", "READY"}

\* A request is taken and put back: no packet, a flushed id, hw_prepare_update refuses the
\* packet, or an out-fence is not active.
ConfigRefused(r) ==
  /\ Configures /\ r \in free
  /\ in' = [in EXCEPT ![r] = {}] /\ out' = [out EXCEPT ![r] = {}]
  /\ Memset(r)
  /\ owned' = owned \ {r}
  /\ UNCHANGED <<fences, node, lists, sync_mutex, hw, loop>>

\* A packet larger than its buffer: the call returns and keeps the request.
ConfigShort(r) ==
  /\ Configures /\ r \in free /\ ~FullPackets
  /\ free' = free \ {r}
  /\ in' = [in EXCEPT ![r] = {}] /\ out' = [out EXCEPT ![r] = {}]
  /\ Memset(r)
  /\ owned' = owned \cup {r}
  /\ UNCHANGED <<fences, node, pending, active, sync_mutex, hw, loop>>

\* References on all out-fences are taken; with in-fences the request becomes pending,
\* without it is on no list.
Config(r, ins, outs) ==
  /\ Configures /\ r \in free
  /\ FullPackets => ins # {}
  /\ KeepsFences => \A f \in ins : fence[f] # F!FREE
  /\ \A f \in outs : fence[f] = F!ACTIVE
  /\ free' = free \ {r}
  /\ in' = [in EXCEPT ![r] = ins] /\ out' = [out EXCEPT ![r] = outs]
  /\ Memset(r)
  /\ owned' = owned \cup {r}
  /\ IF ins # {}
       THEN /\ pending' = pending \cup {r}
            /\ Goto("ioctl", "cfg_check") /\ cur' = [cur EXCEPT !["ioctl"] = r]
       ELSE UNCHANGED <<pending, pc, cur>>
  /\ UNCHANGED <<fences, node, active, sync_mutex, hw, todo, lastack, mode, temp, after>>

\* cam_sync_check_valid on every in-fence; after a failure the request goes to the free
\* list and stays on the pending list
ConfigCheck ==
  LET r == cur["ioctl"] IN
  /\ pc["ioctl"] = "cfg_check"
  /\ IF \A f \in in[r] : fence[f] # F!FREE
       THEN /\ Goto("ioctl", "cfg_reg") /\ todo' = [todo EXCEPT !["ioctl"] = in[r]]
            /\ UNCHANGED <<free, out, owned, cur>>
       ELSE /\ out' = [out EXCEPT ![r] = {}]
            /\ Free(r) /\ Idle("ioctl") /\ UNCHANGED todo
  /\ UNCHANGED <<fences, node, pending, active, in, acked, flushed, sync_mutex, hw, lastack,
                 mode, temp, after, givenup>>

\* cam_sync_register_callback on one in-fence, with a reference on the context; after a
\* failure the callbacks registered before stay registered
ConfigRegister(f) ==
  LET r == cur["ioctl"] IN
  /\ pc["ioctl"] = "cfg_reg" /\ f \in todo["ioctl"]
  /\ IF fence[f] # F!FREE
       THEN /\ F!Register(f, r)
            /\ refcount' = refcount + 1
            /\ todo' = [todo EXCEPT !["ioctl"] = @ \ {f}]
            /\ IF todo["ioctl"] = {f} THEN Idle("ioctl") ELSE UNCHANGED <<pc, cur>>
            /\ UNCHANGED <<free, pending, out, owned>>
       ELSE /\ pending' = pending \ {r}
            /\ out' = [out EXCEPT ![r] = {}]
            /\ Free(r) /\ Idle("ioctl")
            /\ todo' = [todo EXCEPT !["ioctl"] = {}]
            /\ UNCHANGED <<fences, refcount>>
  /\ UNCHANGED <<state, free_ctx, active, in, acked, flushed, sync_mutex, hw, lastack, mode,
                 temp, after, givenup>>

-----------------------------------------------------------------------------
(* cam_context_flush_req_to_hw, by an ioctl or by a callback with an error  *)

FlushReqIoctl(r) ==
  /\ Configures
  /\ Goto("ioctl", "fr_pending") /\ cur' = [cur EXCEPT !["ioctl"] = r]
  /\ UNCHANGED <<fences, node, lists, req, sync_mutex, hw, todo, lastack, mode, temp, after,
                 givenup>>

FlushReqReturn(t) == IF t = "cb" THEN Goto(t, "lock") /\ UNCHANGED cur ELSE Idle(t)

FlushReqPending(t) ==
  LET r == cur[t] IN
  /\ pc[t] = "fr_pending" /\ sync_mutex = None
  /\ IF r \in pending
       THEN /\ pending' = pending \ {r} /\ flushed' = flushed \cup {r}
            /\ mode' = [mode EXCEPT ![t] = "pending1"] /\ Goto(t, "fr_hw")
       ELSE Goto(t, "fr_active") /\ UNCHANGED <<pending, flushed, mode>>
  /\ UNCHANGED <<fences, node, free, active, in, out, acked, owned, sync_mutex, hw, cur, todo,
                 lastack, temp, after, givenup>>

FlushReqActive(t) ==
  LET r == cur[t] IN
  /\ pc[t] = "fr_active"
  /\ IF r \in Elems(active)
       THEN /\ active' = Without(active, r)
            /\ mode' = [mode EXCEPT ![t] = "active1"] /\ Goto(t, "fr_hw") /\ UNCHANGED cur
       ELSE FlushReqReturn(t) /\ UNCHANGED <<active, mode>>
  /\ UNCHANGED <<fences, node, free, pending, req, sync_mutex, hw, todo, lastack, temp, after,
                 givenup>>

\* hw_flush of one request waits for the done handler.
FlushReqHw(t) ==
  LET r == cur[t] IN
  /\ pc[t] = "fr_hw" /\ pc["irq"] = "idle"
  /\ hw' = hw \ {r}
  /\ todo' = [todo EXCEPT ![t] = IF mode[t] = "pending1" THEN in[r] ELSE {}]
  /\ Goto(t, "dereg")
  /\ UNCHANGED <<fences, node, lists, req, sync_mutex, cur, lastack, mode, temp, after, givenup>>

-----------------------------------------------------------------------------
(* cam_context_flush_ctx_to_hw, for a flush of all requests, a stop, and    *)
(* the release of a started context                                         *)

FlushCtxBegin(op) ==
  /\ Configures
  /\ op \in {"stop", "release"} => state = "READY"
  /\ sync_mutex = None
  /\ sync_mutex' = "ioctl"
  /\ temp' = pending /\ pending' = {}
  /\ after' = op
  /\ Goto("ioctl", "fc_pending")
  /\ UNCHANGED <<fences, node, free, active, req, hw, cur, todo, lastack, mode, givenup>>

FlushCtxTake ==
  /\ pc["ioctl"] = "fc_pending"
  /\ \E r \in temp :
       /\ temp' = temp \ {r}
       /\ flushed' = flushed \cup {r}
       /\ cur' = [cur EXCEPT !["ioctl"] = r]
       /\ todo' = [todo EXCEPT !["ioctl"] = in[r]]
  /\ mode' = [mode EXCEPT !["ioctl"] = "pending"]
  /\ Goto("ioctl", "dereg")
  /\ UNCHANGED <<fences, node, lists, in, out, acked, owned, sync_mutex, hw, lastack, after,
                 givenup>>

FlushCtxUnlock ==
  /\ pc["ioctl"] = "fc_pending" /\ temp = {}
  /\ sync_mutex' = None
  /\ Goto("ioctl", "fc_hw")
  /\ UNCHANGED <<fences, node, lists, req, hw, cur, todo, lastack, mode, temp, after, givenup>>

FlushCtxHw ==
  /\ pc["ioctl"] = "fc_hw" /\ pc["irq"] = "idle"
  /\ hw' = {}
  /\ Goto("ioctl", "fc_splice")
  /\ UNCHANGED <<fences, node, lists, req, sync_mutex, cur, todo, lastack, mode, temp, after,
                 givenup>>

FlushCtxSplice ==
  /\ pc["ioctl"] = "fc_splice"
  /\ temp' = Elems(active) /\ active' = <<>>
  /\ Goto("ioctl", "fc_active")
  /\ UNCHANGED <<fences, node, free, pending, req, sync_mutex, hw, cur, todo, lastack, mode,
                 after, givenup>>

FlushCtxTakeActive ==
  /\ pc["ioctl"] = "fc_active"
  /\ \E r \in temp :
       /\ temp' = temp \ {r}
       /\ cur' = [cur EXCEPT !["ioctl"] = r]
  /\ mode' = [mode EXCEPT !["ioctl"] = "active"]
  /\ todo' = [todo EXCEPT !["ioctl"] = {}]
  /\ Goto("ioctl", "dereg")
  /\ UNCHANGED <<fences, node, lists, req, sync_mutex, hw, lastack, after, givenup>>

\* hw_stop and hw_release wait for the done handler; the release ends as in Release.
FlushCtxEnd ==
  /\ pc["ioctl"] = "fc_active" /\ temp = {}
  /\ CASE after = "flush" -> Idle("ioctl") /\ UNCHANGED <<state, hw>>
       [] after = "stop" -> /\ pc["irq"] = "idle" /\ hw' = {}
                            /\ state' = "ACQUIRED" /\ Idle("ioctl")
       [] after = "release" -> /\ pc["irq"] = "idle" /\ hw' = {}
                               /\ state' = "AVAILABLE"
                               /\ Goto("ioctl", "release") /\ UNCHANGED cur
  /\ after' = "none"
  /\ UNCHANGED <<fences, refcount, free_ctx, lists, req, sync_mutex, todo, lastack, mode, temp,
                 givenup>>

-----------------------------------------------------------------------------
(* What all flushes do with one request                                     *)

\* cam_sync_deregister_callback on one in-fence: it fails when the callback is already due
\* (mutant: counts the acknowledgement in any case)
FlushDereg_Always(t, f) ==
  LET r == cur[t] IN
  /\ pc[t] = "dereg" /\ f \in todo[t]
  /\ todo' = [todo EXCEPT ![t] = @ \ {f}]
  /\ F!Deregister(f, r) /\ PutRef
  /\ acked' = [acked EXCEPT ![r] = @ + 1]
  /\ lastack' = [lastack EXCEPT ![t] = @ \/ acked[r] + 1 = Cardinality(in[r])]
  /\ UNCHANGED <<state, lists, in, out, flushed, owned, sync_mutex, hw, pc, cur, mode, temp,
                 after, givenup>>

FlushDereg(t, f) ==
  LET r == cur[t] IN
  /\ pc[t] = "dereg" /\ f \in todo[t]
  /\ todo' = [todo EXCEPT ![t] = @ \ {f}]
  /\ IF pend[f][r] > 0
       THEN /\ F!Deregister(f, r) /\ PutRef
            /\ acked' = [acked EXCEPT ![r] = @ + 1]
            /\ lastack' = [lastack EXCEPT ![t] = @ \/ acked[r] + 1 = Cardinality(in[r])]
       ELSE UNCHANGED <<fences, refcount, free_ctx, acked, lastack>>
  /\ UNCHANGED <<state, lists, in, out, flushed, owned, sync_mutex, hw, pc, cur, mode, temp,
                 after, givenup>>

\* cam_sync_signal(ERROR) on one out-fence, once all callbacks are deregistered
FlushOut(t, f) ==
  /\ pc[t] = "dereg" /\ todo[t] = {}
  /\ f \in out[cur[t]]
  /\ Signal(cur[t], f, F!ERROR)
  /\ UNCHANGED <<node, lists, in, acked, flushed, owned, sync_mutex, hw, loop, givenup>>

\* The request is freed here when it was active or when no callback is left to free it
\* (mutants: it is freed in any case; only when it was active)
FlushFree_Always(t) ==
  LET r == cur[t] IN
  /\ pc[t] = "dereg" /\ todo[t] = {} /\ out[r] = {}
  /\ Free(r)
  /\ CASE mode[t] \in {"pending1", "active1"} -> FlushReqReturn(t)
       [] mode[t] = "pending" -> Goto(t, "fc_pending") /\ cur' = [cur EXCEPT ![t] = None]
       [] mode[t] = "active" -> Goto(t, "fc_active") /\ cur' = [cur EXCEPT ![t] = None]
  /\ mode' = [mode EXCEPT ![t] = "none"] /\ lastack' = [lastack EXCEPT ![t] = FALSE]
  /\ UNCHANGED <<fences, node, pending, active, in, out, acked, flushed, sync_mutex, hw, todo,
                 temp, after, givenup>>

FlushFree_ActiveOnly(t) ==
  LET r == cur[t] IN
  /\ pc[t] = "dereg" /\ todo[t] = {} /\ out[r] = {}
  /\ IF mode[t] \in {"active", "active1"} THEN Free(r) ELSE UNCHANGED <<free, owned>>
  /\ CASE mode[t] \in {"pending1", "active1"} -> FlushReqReturn(t)
       [] mode[t] = "pending" -> Goto(t, "fc_pending") /\ cur' = [cur EXCEPT ![t] = None]
       [] mode[t] = "active" -> Goto(t, "fc_active") /\ cur' = [cur EXCEPT ![t] = None]
  /\ mode' = [mode EXCEPT ![t] = "none"] /\ lastack' = [lastack EXCEPT ![t] = FALSE]
  /\ UNCHANGED <<fences, node, pending, active, in, out, acked, flushed, sync_mutex, hw, todo,
                 temp, after, givenup>>

FlushFree(t) ==
  LET r == cur[t] IN
  /\ pc[t] = "dereg" /\ todo[t] = {} /\ out[r] = {}
  /\ IF mode[t] \in {"active", "active1"} \/ lastack[t] THEN Free(r) ELSE UNCHANGED <<free, owned>>
  /\ CASE mode[t] \in {"pending1", "active1"} -> FlushReqReturn(t)
       [] mode[t] = "pending" -> Goto(t, "fc_pending") /\ cur' = [cur EXCEPT ![t] = None]
       [] mode[t] = "active" -> Goto(t, "fc_active") /\ cur' = [cur EXCEPT ![t] = None]
  /\ mode' = [mode EXCEPT ![t] = "none"] /\ lastack' = [lastack EXCEPT ![t] = FALSE]
  /\ UNCHANGED <<fences, node, pending, active, in, out, acked, flushed, sync_mutex, hw, todo,
                 temp, after, givenup>>

-----------------------------------------------------------------------------
(* cam_context_sync_callback, one at a time on the sync driver's worker     *)

\* A request without a context is left alone, and the reference on the context with it.
\* The callback that makes the last acknowledgement goes on, an error by way of a flush
CallbackBegin(w) ==
  LET r == w.cb IN
  /\ pc["cb"] = "idle"
  /\ F!Run(w)
  /\ IF r \notin owned
       THEN UNCHANGED <<acked, pc, cur>>
       ELSE /\ acked' = [acked EXCEPT ![r] = @ + 1]
            /\ cur' = [cur EXCEPT !["cb"] = r]
            /\ Goto("cb", CASE acked[r] + 1 # Cardinality(in[r]) -> "put"
                            [] OTHER -> IF w.status = F!ERROR THEN "fr_pending" ELSE "lock")
  /\ UNCHANGED <<node, lists, in, out, flushed, owned, sync_mutex, hw, todo, lastack, mode,
                 temp, after, givenup>>

\* With sync_mutex: a flushed request is to be freed, another one becomes active
\* (mutant: the flag is not looked at)
CallbackLock_NoFlag ==
  LET r == cur["cb"] IN
  /\ pc["cb"] = "lock" /\ sync_mutex = None
  /\ sync_mutex' = "cb"
  /\ pending' = pending \ {r} /\ free' = free \ {r}
  /\ active' = Append(Without(active, r), r)
  /\ Goto("cb", "config")
  /\ UNCHANGED <<fences, node, req, hw, cur, todo, lastack, mode, temp, after, givenup>>

CallbackLock ==
  LET r == cur["cb"] IN
  /\ pc["cb"] = "lock" /\ sync_mutex = None
  /\ IF r \in flushed
       THEN /\ flushed' = flushed \ {r} /\ owned' = owned \ {r}
            /\ Goto("cb", "free")
            /\ UNCHANGED <<lists, sync_mutex>>
       ELSE /\ sync_mutex' = "cb"
            /\ pending' = pending \ {r} /\ free' = free \ {r}
            /\ active' = Append(Without(active, r), r)
            /\ Goto("cb", "config")
            /\ UNCHANGED <<flushed, owned>>
  /\ UNCHANGED <<fences, node, in, out, acked, hw, cur, todo, lastack, mode, temp, after, givenup>>

\* cam_context_apply_req_to_hw: hw_config.  A request the hardware refuses goes to the free
\* list, its out-fences unsettled and its context still set
\* (mutant: after a refusal the mutex is kept)
CallbackConfig_KeepMutex ==
  LET r == cur["cb"] IN
  /\ pc["cb"] = "config" /\ pc["irq"] = "idle"
  /\ \/ /\ state # "AVAILABLE"
        /\ hw' = hw \cup {r}
        /\ sync_mutex' = None
        /\ UNCHANGED <<lists, givenup>>
     \/ /\ ~HwAccepts \/ state = "AVAILABLE"
        /\ active' = Without(active, r) /\ pending' = pending \ {r} /\ free' = free \cup {r}
        /\ givenup' = givenup \cup {r}
        /\ UNCHANGED <<hw, sync_mutex>>
  /\ Goto("cb", "put")
  /\ UNCHANGED <<fences, node, req, cur, todo, lastack, mode, temp, after>>

CallbackConfig ==
  LET r == cur["cb"] IN
  /\ pc["cb"] = "config" /\ pc["irq"] = "idle"
  /\ \/ /\ state # "AVAILABLE"
        /\ hw' = hw \cup {r}
        /\ UNCHANGED <<lists, givenup>>
     \/ /\ ~HwAccepts \/ state = "AVAILABLE"
        /\ active' = Without(active, r) /\ pending' = pending \ {r} /\ free' = free \cup {r}
        /\ givenup' = givenup \cup {r}
        /\ UNCHANGED hw
  /\ sync_mutex' = None
  /\ Goto("cb", "put")
  /\ UNCHANGED <<fences, node, req, cur, todo, lastack, mode, temp, after>>

CallbackFree ==
  LET r == cur["cb"] IN
  /\ pc["cb"] = "free"
  /\ active' = Without(active, r) /\ pending' = pending \ {r} /\ free' = free \cup {r}
  /\ Goto("cb", "put")
  /\ UNCHANGED <<fences, node, req, sync_mutex, hw, cur, todo, lastack, mode, temp, after,
                 givenup>>

CallbackPut ==
  /\ pc["cb"] = "put"
  /\ PutRef /\ Idle("cb")
  /\ UNCHANGED <<fences, state, lists, req, sync_mutex, hw, todo, lastack, mode, temp, after,
                 givenup>>

-----------------------------------------------------------------------------
(* cam_context_buf_done_from_hw                                             *)

\* Of a done event only one for the head of the active list is taken; the others are lost.
BufDone(r, status) ==
  /\ pc["irq"] = "idle" /\ r \in hw
  /\ hw' = hw \ {r}
  /\ IF state # "AVAILABLE" /\ active # <<>> /\ Head(active) = r /\ out[r] # {}
       THEN /\ active' = Tail(active)
            /\ Goto("irq", status) /\ cur' = [cur EXCEPT !["irq"] = r]
       ELSE UNCHANGED <<active, pc, cur>>
  /\ UNCHANGED <<fences, node, free, pending, req, sync_mutex, todo, lastack, mode, temp, after,
                 givenup>>

BufDoneOut(f) ==
  /\ pc["irq"] \in {"success", "error"} /\ f \in out[cur["irq"]]
  /\ Signal(cur["irq"], f, IF pc["irq"] = "error" THEN F!ERROR ELSE F!SUCCESS)
  /\ UNCHANGED <<node, lists, in, acked, flushed, owned, sync_mutex, hw, loop, givenup>>

\* (mutant: the request is freed before its out-fences are signaled)
BufDoneFree_Early ==
  /\ pc["irq"] \in {"success", "error"}
  /\ Free(cur["irq"]) /\ Idle("irq")
  /\ UNCHANGED <<fences, node, pending, active, in, out, acked, flushed, sync_mutex, hw, todo,
                 lastack, mode, temp, after, givenup>>

BufDoneFree ==
  /\ pc["irq"] \in {"success", "error"} /\ out[cur["irq"]] = {}
  /\ Free(cur["irq"]) /\ Idle("irq")
  /\ UNCHANGED <<fences, node, pending, active, in, out, acked, flushed, sync_mutex, hw, todo,
                 lastack, mode, temp, after, givenup>>

-----------------------------------------------------------------------------

User == \E f \in Fences : UserCreate(f) \/ UserSettle(f) \/ UserDestroy(f)

\* An ioctl is called; its further steps
Ioctl ==
  \/ Acquire \/ Start \/ Release
  \/ \E r \in Reqs : \/ ConfigRefused(r) \/ ConfigShort(r) \/ FlushReqIoctl(r)
                     \/ \E ins, outs \in Small : Config(r, ins, outs)
  \/ \E op \in {"flush", "stop", "release"} : FlushCtxBegin(op)

FlushStep(t) ==
  \/ FlushReqPending(t) \/ FlushReqActive(t) \/ FlushReqHw(t) \/ FlushFree(t)
  \/ \E f \in Fences : FlushDereg(t, f) \/ FlushOut(t, f)

IoctlStep ==
  \/ ReleasePut \/ ConfigCheck \/ \E f \in Fences : ConfigRegister(f)
  \/ FlushCtxTake \/ FlushCtxUnlock \/ FlushCtxHw \/ FlushCtxSplice \/ FlushCtxTakeActive
  \/ FlushCtxEnd \/ FlushStep("ioctl")

Callback ==
  \/ CallbackLock \/ CallbackConfig \/ CallbackFree \/ CallbackPut \/ FlushStep("cb")
  \/ \E w \in F!CbWork : CallbackBegin(w)

Done == BufDoneFree \/ \E f \in Fences : BufDoneOut(f)

Next ==
  \/ User \/ Ioctl \/ IoctlStep \/ Callback \/ Done
  \/ \E r \in Reqs, status \in {"success", "error"} : BufDone(r, status)

Spec == Init /\ [][Next]_vars

\* The kernel keeps running the threads of calls that have begun, and due callbacks, and a
\* kernel mutex is handed to a waiter that is passed over again and again: strong fairness for
\* the steps that take sync_mutex.  Nothing makes userspace settle a fence or the hardware
\* finish a request.
FairSpec ==
  /\ Spec /\ WF_vars(IoctlStep) /\ WF_vars(Callback) /\ WF_vars(Done)
  /\ SF_vars(CallbackLock) /\ SF_vars(FlushReqPending("cb"))

-----------------------------------------------------------------------------

TypeOK ==
  /\ fence \in [Fences -> {F!FREE, F!ACTIVE} \cup F!Settled]
  /\ state \in {"AVAILABLE", "ACQUIRED", "READY"} /\ refcount \in Nat /\ free_ctx \in BOOLEAN
  /\ free \subseteq Reqs /\ pending \subseteq Reqs /\ active \in Seq(Reqs)
  /\ in \in [Reqs -> Small] /\ out \in [Reqs -> Small] /\ acked \in [Reqs -> 0 .. MaxFences]
  /\ flushed \subseteq Reqs /\ owned \subseteq Reqs /\ hw \subseteq Reqs
  /\ sync_mutex \in {None, "ioctl", "cb"}
  /\ cur \in [Thr -> Reqs \cup {None}] /\ todo \in [Thr -> SUBSET Fences]

\* The callbacks of r that have not run: registered or due.
Unrun(r) ==
  {f \in Fences : pend[f][r] > 0 \/ \E s \in F!Settled : due[[cb |-> r, obj |-> f, status |-> s]] > 0}

\* Thread t is going to put the request in its hands on the free list.
Frees(t, r) ==
  /\ cur[t] = r
  /\ \/ t = "irq"
     \/ pc[t] = "free"
     \/ pc[t] \in {"fr_hw", "dereg"} /\ (mode[t] \in {"active", "active1"} \/ lastack[t])

\* Thread t may still find out that it is the one to do so, or make the request active.
Decides(t, r) ==
  /\ cur[t] = r
  /\ \/ pc[t] \in {"fr_hw", "dereg"} /\ ((mode[t] = "pending1" /\ pc[t] = "fr_hw") \/ todo[t] # {})
     \/ t = "cb" /\ pc[t] \in {"lock", "fr_pending", "fr_active", "fr_hw", "dereg"}

Lists(r) == {l \in {"free", "pending", "active", "temp"} :
               CASE l = "free" -> r \in free [] l = "pending" -> r \in pending
                 [] l = "active" -> r \in Elems(active) [] OTHER -> r \in temp}

\* A request is on one of "Requests that are free", "pending for reg upd event" and "pending
\* for done event" (cam_context.h:178-181) at a time, once, or on the way to the free list
\* with one thread: flush, callback and done handler never both link it.
OnOneList ==
  /\ \A r \in Reqs : Cardinality(Lists(r) \cup {t \in Thr : Frees(t, r)}) <= 1
  /\ \A m, n \in 1 .. Len(active) : active[m] = active[n] => m = n

\* No request is lost between the three threads: it is on a list, in the hands of a thread
\* that will free it, or one of its callbacks is still due and will.
NoRequestLost ==
  \A r \in Reqs : Lists(r) # {} \/ Unrun(r) # {} \/ \E t \in Thr : Frees(t, r) \/ Decides(t, r)

\* A request is given to the hardware only after each of its in-fences has settled and
\* called back, flushes or not.
AppliedAfterFences ==
  \A r \in hw \cup Elems(active) : Unrun(r) = {} /\ \A f \in in[r] : fence[f] \in F!Settled

\* The context has one reference for the acquire and one for every callback that has not
\* returned, so that it cannot be acquired anew, its lists reset, under a late callback.
RefExact ==
  /\ refcount = (IF state # "AVAILABLE" \/ pc["ioctl"] = "release" THEN 1 ELSE 0)
                + Cardinality({p \in Fences \X Reqs : p[1] \in Unrun(p[2])})
                + (IF pc["cb"] # "idle" THEN 1 ELSE 0)
  /\ free_ctx <=> refcount = 0

\* A request that is free has given back its references on all its out-fences by signaling
\* them, unless the hardware refused it or the context was released over it; one that a
\* flush is still looking at may be about to.
OutFencesSettled ==
  \A r \in free \ givenup : out[r] = {} \/ \E t \in Thr : cur[t] = r

\* A flushed request becomes free again, whichever of flush and callbacks comes last.
FlushedFreed == \A r \in Reqs : r \in flushed ~> r \in free

\* No call waits forever for sync_mutex or for the done handler.
IoctlReturns == pc["ioctl"] # "idle" ~> pc["ioctl"] = "idle"
=============================================================================
