------------------------------- MODULE CamIsp -------------------------------
(***************************************************************************)
(* The context of the image front end (cam_isp_context.c): how a request   *)
(* goes through the pending, wait and active lists while frames arrive.    *)
(*                                                                         *)
(* The request manager applies the head of the pending list, which then    *)
(* waits for the hardware to latch its configuration (reg update) and is   *)
(* active until all its buffers are done.  An epoch that arrives first is  *)
(* a bubble: the frame was missed, and the request goes back to pending    *)
(* if it asks for recovery.                                                *)
(*                                                                         *)
(* Calls of the request manager and of userspace hold ctx_mutex.           *)
(* Interrupts hold ctx->lock only, and so may come between the critical    *)
(* sections of an apply or of a flush.  The context is linked, has its     *)
(* hardware, is not RDI only, and uses the state machine without fs2.      *)
(***************************************************************************)
EXTENDS Integers, Sequences, FiniteSets

CONSTANTS
  Ports,       (* the hardware's output ports                                        *)
  MaxReq,      (* bound on request ids                                               *)
  MaxErrs,     (* bound on hardware errors, flushes and stops                        *)
  HwErrs,      (* hardware errors: "none"; only when one request is in the hardware, *)
               (* none of its buffers done ("quiet"); at any time ("any")            *)
  Prompt,      (* a buffer is done by the epoch of the next frame                    *)
  Swift,       (* an apply is over before the next epoch                             *)
  QuietCancel, (* no request is cancelled while a bubble is processed                *)
  SameRecovery (* all requests ask for the recovery of bubbles, or none does         *)

Reqs == 1 .. MaxReq
NoReq == 0

ASSUME IspAssumption ==
  /\ IsFiniteSet(Ports) /\ {MaxReq, MaxErrs} \subseteq Nat
  /\ HwErrs \in {"none", "quiet", "any"} /\ {Prompt, Swift, QuietCancel, SameRecovery} \subseteq BOOLEAN

VARIABLES
  state,    (* ctx->state                                                            *)
  isp,      (* substate_activated, active_req_cnt, process_bubble, bubble_frame_cnt, *)
            (* last_applied_req_id and last_flush_req                                *)
  list,     (* pending_req_list, wait_req_list and active_req_list                   *)
  req,      (* req[r]: the request object of r, kept as it was when it was freed     *)
  holder,   (* what holds ctx_mutex between two critical sections: nothing, an apply *)
            (* with its request and the next substate, or a flush                    *)
  hw,       (* the hardware: a frame has begun, the request latched in it and        *)
            (* whether its reg update is due, the request loaded for the next frame, *)
            (* the buffers of every port that are being filled                       *)
  crm,      (* the request manager: requests it has, the last it sent, the one to go *)
            (* back to, a fatal error was reported, a trigger is due                 *)
  errs      (* errors, flushes and stops so far                                      *)

vars == <<state, isp, list, req, holder, hw, crm, errs>>

NewReq == [kind |-> "none", out |-> {}, left |-> {}, ok |-> {}, filled |-> {}, acked |-> 0,
           bubble |-> FALSE, report |-> FALSE, recover |-> FALSE]
EmptyLists == [pending |-> <<>>, wait |-> <<>>, active |-> <<>>]
Nobody == [op |-> "none", req |-> NoReq, sub |-> "none"]
Flusher == [op |-> "flush", req |-> NoReq, sub |-> "none"]
IdleHw == [frame |-> FALSE, cur |-> NoReq, rup |-> FALSE, loaded |-> NoReq, todo |-> [p \in Ports |-> <<>>]]
NoCrm == [has |-> {}, sent |-> NoReq, back |-> NoReq, fatal |-> FALSE, trigger |-> FALSE]

Init ==
  /\ state = "ACQUIRED"
  /\ isp = [sub |-> "SOF", cnt |-> 0, process_bubble |-> FALSE, frame_cnt |-> 0,
            last_applied |-> NoReq, last_flush |-> NoReq]
  /\ list = EmptyLists
  /\ req = [r \in Reqs |-> NewReq]
  /\ holder = Nobody /\ hw = IdleHw /\ crm = NoCrm /\ errs = 0

Elems(s) == {s[i] : i \in 1 .. Len(s)}
OnLists == Elems(list.pending) \cup Elems(list.wait) \cup Elems(list.active)
Taken == {r \in Reqs : req[r].kind # "none"}

\* cam_sync_signal with an error, for all fences that have not been signaled
Settle(q, S) == [r \in Reqs |-> IF r \in S THEN [q[r] EXCEPT !.left = {}] ELSE q[r]]

-----------------------------------------------------------------------------
(* Userspace: config, start, stop                                           *)

\* __cam_isp_ctx_enqueue_request_in_order: behind the last one that is not newer
InOrder(s, r) ==
  LET n == CHOOSE n \in 0 .. Len(s) : /\ n > 0 => s[n] <= r
                                      /\ \A i \in n + 1 .. Len(s) : s[i] > r
  IN  SubSeq(s, 1, n) \o <<r>> \o SubSeq(s, n + 1, Len(s))

\* A request object from the free list; its bubble_report is the one of its last use.
NewObj(r, kind, out, stale, recover) ==
  [req EXCEPT ![r] = [NewReq EXCEPT !.kind = kind, !.out = out, !.left = out,
                                    !.report = stale, !.recover = recover]]

\* Nothing is taken out of order by the request manager, which waits for every packet.
ConfigUpdate(r, out, stale, recover) ==
  /\ holder = Nobody /\ state \in {"READY", "ACTIVATED"}
  /\ r \notin Taken /\ r > isp.last_flush /\ r > isp.last_applied
  /\ \A x \in Taken : req[x].kind = "init" \/ x \notin Elems(list.pending) => x < r
  /\ SameRecovery => \A x \in crm.has : req[x].recover = recover
  /\ req' = NewObj(r, "update", out, stale, recover)
  /\ list' = [list EXCEPT !.pending = InOrder(@, r)]
  /\ crm' = [crm EXCEPT !.has = @ \cup {r}]
  /\ UNCHANGED <<state, isp, holder, hw, errs>>

\* The lists and the state with which request r starts: one with buffers is active at once.
Started(l, q, r) ==
  /\ state' = "ACTIVATED"
  /\ list' = IF q[r].out = {} THEN [l EXCEPT !.pending = Tail(@), !.wait = Append(@, r)]
                              ELSE [l EXCEPT !.pending = Tail(@), !.active = Append(@, r)]
  /\ isp' = [isp EXCEPT !.last_applied = r, !.process_bubble = FALSE, !.frame_cnt = 0,
                        !.cnt = IF q[r].out = {} THEN 0 ELSE 1,
                        !.sub = IF q[r].out = {} THEN "SOF" ELSE "EPOCH"]
  /\ hw' = [IdleHw EXCEPT !.loaded = r]

\* __cam_isp_ctx_start_dev_in_ready: the head of the pending list is the initial packet
StartDev ==
  /\ holder = Nobody /\ state = "READY" /\ list.pending # <<>>
  /\ Started(list, req, Head(list.pending))
  /\ UNCHANGED <<req, holder, crm, errs>>

\* __cam_isp_ctx_enqueue_init_request: initial packets without buffers are merged
InitAccepted ==
  IF list.pending = <<>> THEN TRUE
  ELSE req[Head(list.pending)].kind = "init" /\ req[Head(list.pending)].out = {}

\* The initial packet; after a flush it also starts the hardware again.
ConfigInit(r, out, stale) ==
  LET merged == list.pending # <<>>
      q == NewObj(r, "init", out, stale, FALSE)
      l == [list EXCEPT !.pending = <<r>> \o (IF merged THEN Tail(@) ELSE @)] IN
  /\ holder = Nobody /\ state \in {"ACQUIRED", "READY", "FLUSHED"}
  /\ r \notin Taken /\ InitAccepted
  /\ \A x \in Taken : x \notin crm.has => x < r
  /\ \A x \in crm.has : r < x
  /\ req' = q
  /\ IF state = "FLUSHED" THEN Started(l, q, r)
     ELSE state' = "READY" /\ list' = l /\ UNCHANGED <<isp, hw>>
  /\ UNCHANGED <<holder, crm, errs>>

\* hw_start fails: the request goes back, active_req_cnt stays
StartFails ==
  /\ holder = Nobody /\ state = "READY" /\ list.pending # <<>>
  /\ isp' = [isp EXCEPT !.last_applied = Head(list.pending), !.process_bubble = FALSE, !.frame_cnt = 0,
                        !.cnt = IF req[Head(list.pending)].out = {} THEN 0 ELSE 1,
                        !.sub = IF req[Head(list.pending)].out = {} THEN "SOF" ELSE "EPOCH"]
  /\ UNCHANGED <<state, list, req, holder, hw, crm, errs>>

\* __cam_isp_ctx_stop_dev_in_activated
StopDev ==
  /\ holder = Nobody /\ state \in {"ACTIVATED", "FLUSHED"} /\ errs < MaxErrs
  /\ state' = "ACQUIRED"
  /\ isp' = [isp EXCEPT !.sub = "HALT", !.cnt = 0, !.process_bubble = FALSE, !.frame_cnt = 0,
                        !.last_applied = NoReq]
  /\ req' = Settle(req, OnLists)
  /\ list' = EmptyLists /\ hw' = IdleHw /\ crm' = NoCrm
  /\ errs' = errs + 1
  /\ UNCHANGED holder

-----------------------------------------------------------------------------
(* The request manager: apply, flush, cancel                                *)

\* The next request in the order of the queue
Ahead == {r \in crm.has : r > crm.sent}
Asked == CHOOSE r \in Ahead : \A x \in Ahead : r <= x

Applies == [SOF |-> "APPLIED", EPOCH |-> "APPLIED", BUBBLE |-> "BUBBLE_APPLIED"]

ApplyTaken ==
  /\ Ahead # {} /\ isp.sub \in DOMAIN Applies
  /\ list.pending # <<>> /\ ~isp.process_bubble
  /\ Head(list.pending) = Asked /\ isp.cnt < 2

\* __cam_isp_ctx_apply_req_in_activated_state: the checks, without the lock or with it.
\* Whatever is refused is asked for again at the next trigger.
ApplyBegin ==
  /\ holder = Nobody /\ state = "ACTIVATED" /\ crm.trigger /\ ApplyTaken
  /\ holder' = [op |-> "apply", req |-> Asked, sub |-> Applies[isp.sub]]
  /\ req' = [req EXCEPT ![Asked].report = req[Asked].recover]
  /\ crm' = [crm EXCEPT !.trigger = FALSE]
  /\ UNCHANGED <<state, isp, list, hw, errs>>

ApplyRefused ==
  /\ holder = Nobody /\ state = "ACTIVATED" /\ crm.trigger /\ ~ApplyTaken
  /\ crm' = [crm EXCEPT !.trigger = FALSE]
  /\ UNCHANGED <<state, isp, list, req, holder, hw, errs>>

\* hw_config, without the lock, which may fail
ApplyConfig ==
  /\ holder.op = "apply"
  /\ \/ holder' = [holder EXCEPT !.op = "config"] /\ hw' = [hw EXCEPT !.loaded = holder.req]
     \/ holder' = Nobody /\ UNCHANGED hw
  /\ UNCHANGED <<state, isp, list, req, crm, errs>>

\* list_del_init; r is on s once, or not at all
Without(s, r) ==
  IF r \notin Elems(s) THEN s
  ELSE LET n == CHOOSE n \in 1 .. Len(s) : s[n] = r
       IN  SubSeq(s, 1, n - 1) \o SubSeq(s, n + 1, Len(s))

\* The second critical section: list_del_init takes the request off whatever list it is on
ApplyEnd ==
  /\ holder.op = "config"
  /\ LET r == holder.req IN
     /\ isp' = [isp EXCEPT !.sub = holder.sub, !.last_applied = r]
     /\ list' = [pending |-> Without(list.pending, r), wait |-> Append(Without(list.wait, r), r),
                 active |-> Without(list.active, r)]
     /\ crm' = [crm EXCEPT !.sent = r]
  /\ holder' = Nobody
  /\ UNCHANGED <<state, req, hw, errs>>

\* __cam_isp_ctx_flush_req_in_top_state for all requests, and ..._in_ready: first the pending
\* list is flushed
FlushBegin ==
  /\ holder = Nobody /\ state \in {"ACQUIRED", "READY", "ACTIVATED"} /\ errs < MaxErrs
  /\ req' = Settle(req, Elems(list.pending))
  /\ list' = [list EXCEPT !.pending = <<>>]
  /\ crm' = [NoCrm EXCEPT !.trigger = crm.trigger /\ state = "ACTIVATED"]
  /\ errs' = errs + 1
  /\ IF state = "ACTIVATED" THEN holder' = Flusher /\ UNCHANGED <<state, isp>>
     ELSE /\ state' = "ACQUIRED"
          /\ isp' = IF state = "READY" THEN isp
                    ELSE [isp EXCEPT !.frame_cnt = 0, !.process_bubble = FALSE]
          /\ UNCHANGED holder
  /\ UNCHANGED hw

\* Then interrupts are masked, the hardware is stopped, and the other lists are flushed.
\* Userspace names the newest request.
FlushEnd ==
  /\ holder = Flusher /\ holder' = Nobody
  /\ state' = "FLUSHED"
  /\ isp' = [isp EXCEPT !.sub = "HALT", !.cnt = 0, !.process_bubble = FALSE, !.frame_cnt = 0,
                        !.last_flush = CHOOSE x \in Taken : \A r \in Taken : r <= x]
  /\ req' = Settle(req, Elems(list.wait) \cup Elems(list.active))
  /\ list' = [list EXCEPT !.wait = <<>>, !.active = <<>>]
  /\ hw' = IdleHw /\ crm' = NoCrm
  /\ UNCHANGED errs

\* The same for one request, which the manager has not looked at yet
Cancel(r) ==
  /\ holder = Nobody /\ state \in {"READY", "ACTIVATED"} /\ errs < MaxErrs
  /\ QuietCancel => ~isp.process_bubble
  /\ r \in Ahead
  /\ list' = [list EXCEPT !.pending = Without(@, r)]
  /\ req' = IF r \in Elems(list.pending) THEN Settle(req, {r}) ELSE req
  /\ crm' = [crm EXCEPT !.has = @ \ {r}]
  /\ state' = IF state = "READY" /\ list'.pending = <<>> THEN "ACQUIRED" ELSE state
  /\ isp' = IF state = "READY" THEN isp ELSE [isp EXCEPT !.frame_cnt = 0, !.process_bubble = FALSE]
  /\ errs' = errs + 1
  /\ UNCHANGED <<holder, hw>>

\* The manager goes back to a request that missed its frame.
GoBack ==
  /\ holder = Nobody /\ crm.back # NoReq
  /\ crm' = [crm EXCEPT !.sent = crm.back - 1, !.back = NoReq]
  /\ UNCHANGED <<state, isp, list, req, holder, hw, errs>>

-----------------------------------------------------------------------------
(* Interrupts                                                               *)

Running == state = "ACTIVATED"

\* A frame starts, with the configuration that was loaded before.
Sof ==
  /\ Running /\ ~hw.frame /\ \A p \in Ports : Len(hw.todo[p]) <= 1
  /\ hw' = [hw EXCEPT !.frame = TRUE, !.cur = hw.loaded, !.rup = hw.loaded # NoReq, !.loaded = NoReq,
              !.todo = [p \in Ports |-> IF hw.loaded # NoReq /\ p \in req[hw.loaded].out
                                          THEN Append(@[p], hw.loaded) ELSE @[p]]]
  /\ isp' = [isp EXCEPT !.sub = IF @ = "EPOCH" /\ list.active = <<>> THEN "SOF" ELSE @]
  /\ UNCHANGED <<state, list, req, holder, crm, errs>>

\* Mutant of RegUpdInApplied: active_req_cnt is not counted up.
RegUpdInApplied_NoCount ==
  IF list.wait = <<>> THEN UNCHANGED <<isp, list>>
  ELSE /\ isp' = [isp EXCEPT !.sub = "EPOCH"]
       /\ list' = [list EXCEPT !.wait = Tail(@), !.active = IF req[Head(list.wait)].out = {} THEN @
                                                            ELSE Append(@, Head(list.wait))]

\* The request that waited is active, or completed if it has no buffers.
RegUpdInApplied ==
  LET r == Head(list.wait) IN
  IF list.wait = <<>> THEN UNCHANGED <<isp, list>>
  ELSE IF req[r].out = {}
    THEN isp' = [isp EXCEPT !.sub = "EPOCH"] /\ list' = [list EXCEPT !.wait = Tail(@)]
    ELSE /\ isp' = [isp EXCEPT !.sub = "EPOCH", !.cnt = @ + 1]
         /\ list' = [list EXCEPT !.wait = Tail(@), !.active = Append(@, r)]

\* In SOF, the update of the initial packet: its request goes to the free list, if it is done.
RegUpd ==
  /\ Running /\ hw.frame /\ hw.rup
  /\ hw' = [hw EXCEPT !.rup = FALSE]
  /\ CASE isp.sub \in {"APPLIED", "BUBBLE_APPLIED"} -> RegUpdInApplied
       [] isp.sub = "SOF" /\ list.wait # <<>> -> list' = [list EXCEPT !.wait = Tail(@)] /\ UNCHANGED isp
       [] isp.sub = "HW_ERROR" -> isp' = [isp EXCEPT !.sub = "SOF"] /\ UNCHANGED list
       [] OTHER -> UNCHANGED <<isp, list>>
  /\ UNCHANGED <<state, req, holder, crm, errs>>

\* The request that waits missed the frame.
Bubble ==
  LET r == Head(list.wait) IN
  /\ isp' = [isp EXCEPT !.sub = "BUBBLE", !.cnt = @ + 1, !.process_bubble = @ \/ req[r].report]
  /\ list' = [list EXCEPT !.wait = Tail(@), !.active = Append(@, r)]
  /\ req' = [req EXCEPT ![r].bubble = TRUE]
  /\ crm' = IF req[r].report THEN [crm EXCEPT !.back = r] ELSE crm

\* Mutant of Requeue: list_add_tail instead of list_add
Requeue_Tail(s, r) == Append(s, r)

\* list_add to the pending list
Requeue(s, r) == <<r>> \o s

\* Mutant of BubbleTimeout: the frame in which the buffers may still come is not waited for.
BubbleTimeout_AtOnce == TRUE

\* bubble_frame_cnt >= 1
BubbleTimeout == isp.frame_cnt >= 1

\* A request whose buffers did not come in the frame after the bubble goes back to pending.
NotifySof ==
  LET r == Head(list.active)
      bubble == isp.process_bubble /\ list.active # <<>> /\ req[r].bubble
      again == bubble /\ BubbleTimeout
      cnt == IF again THEN isp.cnt - 1 ELSE isp.cnt IN
  /\ isp' = [isp EXCEPT !.process_bubble = @ /\ list.active # <<>> /\ ~again,
                        !.frame_cnt = IF again THEN 0 ELSE IF bubble THEN @ + 1 ELSE @,
                        !.cnt = cnt]
  /\ list' = IF again THEN [list EXCEPT !.active = Tail(@), !.pending = Requeue(@, r)] ELSE list
  /\ req' = IF again THEN [req EXCEPT ![r].bubble = FALSE, ![r].acked = 0] ELSE req
  /\ crm' = [crm EXCEPT !.trigger = @ \/ (cnt <= 2 /\ ~(isp.process_bubble /\ list.active = <<>>))]

Epoch ==
  /\ Running /\ hw.frame /\ ~hw.rup
  /\ Prompt => \A p \in Ports : Elems(hw.todo[p]) \subseteq {hw.cur}
  /\ Swift => holder.op \notin {"apply", "config"}
  /\ hw' = [hw EXCEPT !.frame = FALSE]
  /\ CASE isp.sub \in {"SOF", "EPOCH", "BUBBLE"} -> NotifySof
       [] isp.sub \in {"APPLIED", "BUBBLE_APPLIED"} /\ list.wait # <<>> -> Bubble
       [] isp.sub \in {"APPLIED", "BUBBLE_APPLIED"} /\ list.wait = <<>> ->
            isp' = [isp EXCEPT !.sub = IF @ = "APPLIED" THEN "SOF" ELSE "BUBBLE"] /\ UNCHANGED <<list, req, crm>>
       [] OTHER -> UNCHANGED <<isp, list, req, crm>>
  /\ UNCHANGED <<state, holder, errs>>

\* Mutant of Acked: buffers that are not the request's are counted.
Acked_All(q, S) ==
  IF q.bubble /\ q.report THEN [q EXCEPT !.acked = @ + Cardinality(S)]
  ELSE [q EXCEPT !.acked = @ + Cardinality(S), !.left = @ \ S, !.ok = IF q.bubble THEN @ ELSE @ \cup (S \cap q.left)]

\* Buffers of ports S are done for request r: a buffer that was done already is left to the
\* next request.  Those of a bubble that is to be recovered are only counted.
Acked(q, S) ==
  LET M == S \cap q.left
      n == q.acked + Cardinality(M) IN
  CASE q.bubble /\ q.report  -> [q EXCEPT !.acked = n]
    [] q.bubble /\ ~q.report -> [q EXCEPT !.acked = n, !.left = @ \ M]
    [] OTHER                 -> [q EXCEPT !.acked = n, !.left = @ \ M, !.ok = @ \cup M]

\* __cam_isp_ctx_handle_buf_done_for_request; c is a context: isp, list and req
DoneFor(c, r, S) ==
  LET q == Acked(c.req[r], S)
      again == q.bubble /\ q.report
      flushed == again /\ r <= c.isp.last_flush IN
  IF q.acked # Cardinality(q.out) THEN [c EXCEPT !.req[r] = q]
  ELSE [isp |-> [c.isp EXCEPT !.cnt = @ - 1, !.process_bubble = @ /\ ~again,
                              !.frame_cnt = IF again /\ ~flushed THEN 0 ELSE @],
        list |-> [c.list EXCEPT !.active = Without(@, r),
                                !.pending = IF again /\ ~flushed THEN Requeue(@, r) ELSE @],
        req |-> [c.req EXCEPT ![r] = IF again THEN [q EXCEPT !.acked = 0, !.bubble = FALSE,
                                                           !.left = IF flushed THEN {} ELSE @]
                                              ELSE q]]

\* __cam_isp_ctx_handle_buf_done_in_activated_state: the first active request, then the last one
Done(c, S) ==
  LET r == Head(c.list.active)
      rest == S \ c.req[r].left
      c1 == DoneFor(c, r, S)
      l == c1.list.active IN
  CASE c.list.active = <<>> -> c
    [] c.list.active # <<>> /\ rest # {} /\ l # <<>> /\ l[Len(l)] # r -> DoneFor(c1, l[Len(l)], rest)
    [] OTHER -> c1

\* Buffers are done, at the end of their frame or later; SOF and HW_ERROR do not listen.
BufDone(S) ==
  /\ Running
  /\ \A p \in S : hw.todo[p] # <<>> /\ (Head(hw.todo[p]) # hw.cur \/ ~hw.frame)
  /\ hw' = [hw EXCEPT !.todo = [p \in Ports |-> IF p \in S THEN Tail(@[p]) ELSE @[p]]]
  /\ \E q \in {[r \in Reqs |-> [req[r] EXCEPT !.filled = @ \cup {p \in S : Head(hw.todo[p]) = r}]]} :
       \E c \in {[isp |-> isp, list |-> list, req |-> q]} :
         \E d \in {IF isp.sub \in {"SOF", "HW_ERROR", "HALT"} THEN c ELSE Done(c, S)} :
           isp' = d.isp /\ list' = d.list /\ req' = d.req
  /\ UNCHANGED <<state, holder, crm, errs>>

\* The elements of s from the first one that satisfies a set
From(s, S) == LET I == {i \in 1 .. Len(s) : s[i] \in S}
              IN IF I = {} THEN <<>> ELSE SubSeq(s, CHOOSE i \in I : \A j \in I : i <= j, Len(s))

\* The hardware has only the last applied request, none of its buffers is done, and its
\* bubble_report is not one left from an earlier use of the object.
OneInHw ==
  LET r == isp.last_applied IN
  /\ list.active = <<r>> /\ list.wait = <<>>
  /\ holder = Nobody /\ ~isp.process_bubble
  /\ req[r].acked = 0 /\ (req[r].report => req[r].recover)

\* __cam_isp_ctx_handle_error: requests are given up until the first one that reports bubbles;
\* that one and the later ones go back to pending.  Then pending ones up to the last applied
\* are given up likewise, at least one.  The hardware starts again, with what it last had.
HwError(recovery) ==
  LET reporting == {r \in Reqs : req[r].report}
      a == From(list.active, reporting)
      w == IF a # <<>> THEN list.wait ELSE From(list.wait, reporting)
      back == w \o a \o list.pending
      given == {i \in 1 .. Len(back) : /\ \A j \in 1 .. i : back[j] \notin reporting
                                       /\ \A j \in 1 .. i - 1 : back[j] < isp.last_applied}
      kept == SubSeq(back, Cardinality(given) + 1, Len(back))
      bubble == recovery /\ kept # <<>> /\ Head(kept) \in reporting
                /\ \A i \in given : i = Cardinality(given) => back[i] < isp.last_applied IN
  /\ Running /\ isp.sub # "HW_ERROR" /\ errs < MaxErrs
  /\ HwErrs # "none"
  /\ HwErrs = "quiet" => OneInHw
  /\ isp' = [isp EXCEPT !.cnt = @ - Len(list.active) - Len(list.wait), !.sub = "HW_ERROR"]
  /\ list' = [pending |-> kept, wait |-> <<>>, active |-> <<>>]
  /\ req' = Settle(req, OnLists \ Elems(kept))
  /\ crm' = IF bubble /\ isp.last_applied \in crm.has /\ req[isp.last_applied].recover
              THEN [crm EXCEPT !.back = isp.last_applied] ELSE [crm EXCEPT !.fatal = @ \/ ~bubble]
  /\ hw' = [IdleHw EXCEPT !.frame = TRUE, !.rup = TRUE]
  /\ errs' = errs + 1
  /\ UNCHANGED <<state, holder>>

-----------------------------------------------------------------------------

Userspace ==
  \/ \E r \in Reqs, out \in SUBSET Ports, stale \in {FALSE} \cup {req[x].report : x \in Taken \ OnLists} :
       ConfigInit(r, out, stale) \/ \E recover \in BOOLEAN : ConfigUpdate(r, out, stale, recover)
  \/ StartDev \/ StartFails \/ StopDev

Manager ==
  \/ ApplyBegin \/ ApplyRefused \/ ApplyConfig \/ ApplyEnd \/ FlushBegin \/ FlushEnd \/ GoBack
  \/ \E r \in Reqs : Cancel(r)

Interrupt == Sof \/ RegUpd \/ Epoch \/ \E S \in (SUBSET Ports) \ {{}} : BufDone(S)

Next == Userspace \/ Manager \/ Interrupt \/ \E recovery \in BOOLEAN : HwError(recovery)

Spec == Init /\ [][Next]_vars

-----------------------------------------------------------------------------

Lists == {"pending", "wait", "active"}

TypeOK ==
  /\ state \in {"ACQUIRED", "READY", "ACTIVATED", "FLUSHED"}
  /\ isp.sub \in {"SOF", "APPLIED", "EPOCH", "BUBBLE", "BUBBLE_APPLIED", "HW_ERROR", "HALT"}
  /\ \A r \in Reqs : req[r].left \subseteq req[r].out /\ req[r].acked \in 0 .. Cardinality(req[r].out)
  /\ \A l \in Lists : list[l] \in Seq(Reqs)

\* A request is on one list, once, until all its fences are signaled: no path, in whatever
\* order interrupts, applies and flushes come, drops it or frees it with a fence unsettled.
\* active_req_cnt, which decides on congestion, is the length of the active list, and that is
\* at most 2 ("we will have maximum of 2 requests in active_list at any time", 964).
ListsExact ==
  /\ \A r \in Taken :
       LET places == UNION {{l} \X {i \in 1 .. Len(list[l]) : list[l][i] = r} : l \in Lists}
       IN Cardinality(places) = 1 \/ (places = {} /\ req[r].left = {})
  /\ Running => isp.cnt = Len(list.active) /\ isp.cnt <= 2

\* Unless a bubble is processed or the manager has still to go back, it asks for the head of
\* the pending list ("if not, this means we are in the middle of the error handling", 2275).
AskedIsHead ==
  Running /\ holder = Nobody /\ ~isp.process_bubble /\ crm.back = NoReq /\ ~crm.fatal /\ list.pending # <<>>
    => Ahead # {} /\ Head(list.pending) = Asked

\* A request goes back to its place in the pending list, also after a hardware error ("final
\* state - pending: 8, 9, 10, 11 | active: NULL", 1746).
PendingInOrder ==
  \A i, j \in 1 .. Len(list.pending) : i < j => list.pending[i] < list.pending[j]

\* When all requests were flushed, none is left ("Req mgr will remove all the pending requests
\* from input/processing queue", uapi cam_req_mgr.h:68).
FlushEmpties == state = "FLUSHED" => list = EmptyLists

\* A fence is signaled with success only if the hardware filled that very buffer.
SuccessIsFilled == \A r \in Reqs : req[r].ok \subseteq req[r].filled
=============================================================================
