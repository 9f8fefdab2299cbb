------------------------------ MODULE CamLink -------------------------------
(***************************************************************************)
(* The request queue of one link of the camera request manager             *)
(* (cam_req_mgr_core.c), without a sync link.                              *)
(*                                                                         *)
(* Userspace schedules requests into a ring of slots.  The devices of the  *)
(* link (sensor, image front end, flash...) report when they have a        *)
(* request's packet, in a table per pipeline delay.  At every start of     *)
(* frame the request at rd_idx is sent to the devices with the largest     *)
(* delay, the one before it to those with a delay one less, and so on, if  *)
(* all of them are ready.  A device that misses a frame reports a bubble,  *)
(* and the queue goes back to that request.                                *)
(*                                                                         *)
(* Devices call in through tasks of the link's work queue, which CamWorkq  *)
(* models: here they are a sequence.  Every task holds req.lock, but for   *)
(* process_stop.  All devices subscribe to the start of frame and nothing  *)
(* else, so that trigger_mask is 0 between tasks.                          *)
(***************************************************************************)
EXTENDS Integers, Sequences, FiniteSets

CONSTANTS
  DevSeq,      (* l_dev: the devices in the order userspace named them               *)
  PD,          (* PD[d]: dev_info.p_delay                                            *)
  Asks,        (* Asks[d]: the values of skip_before_applying that d may use, each   *)
               (* a record of the delay and of SKIP_NEXT_FRAME                       *)
  NumSlots,    (* MAX_REQ_SLOTS                                                      *)
  MaxReq,      (* bound on request ids                                               *)
  MaxOpen,     (* userspace has at most this many requests that are not done         *)
  MaxTasks,    (* tasks of the work queue                                            *)
  MaxErrs,     (* bound on bubbles, flushes and stops                                *)
  Refuses,     (* a device may refuse a request: never, when no table skips its      *)
               (* traverse ("steady"), or at any frame                               *)
  Timely,      (* a request is done, and a start of frame reported it alone as done  *)
               (* (which resets its slot), before the ring comes around to its slot, *)
               (* and frames have passed the slot of one that was cancelled          *)
  Unmarked,    (* a request is not cancelled while the queue takes its slot for the  *)
               (* last applied one (at first that is slot 0), and nothing is         *)
               (* flushed or missed while a device is to be, or was, sent a          *)
               (* request alone                                                      *)
  QuietStop    (* userspace schedules nothing while a stop is processed              *)

Devs == {DevSeq[i] : i \in 1 .. Len(DevSeq)}
PDs == {PD[d] : d \in Devs}
max_delay == CHOOSE p \in PDs : \A q \in PDs : q <= p
DevsOf(p) == {d \in Devs : PD[d] = p}
Idx == 0 .. NumSlots - 1
Reqs == 1 .. MaxReq
NoReq == -1

ASSUME LinkAssumption ==
  /\ DevSeq \in Seq(Devs) /\ DevSeq # <<>> /\ PD \in [Devs -> 0 .. 2]
  /\ \A d \in Devs : Asks[d] \subseteq [delay : Nat, skip_next : BOOLEAN]
  /\ NumSlots \in Nat /\ NumSlots > max_delay + 2
  /\ {MaxReq, MaxOpen, MaxTasks, MaxErrs} \subseteq Nat
  /\ Refuses \in {"never", "steady", "any"}
  /\ {Timely, Unmarked, QuietStop} \subseteq BOOLEAN

VARIABLES
  link,      (* the link: in_q, the tables, state, retry_cnt and last_flush_id       *)
  tasks,     (* tasks of the work queue, in order                                    *)
  stopping,  (* process_stop has reset the slots and not yet the indices             *)
  waiting,   (* a flush ioctl waits for workq_comp, with crm_lock                    *)
  next,      (* the next request id userspace will use                               *)
  done,      (* the ISP's last_bufdone_req_id                                        *)
  errs,      (* bubbles, flushes and stops so far                                    *)
  has,       (* has[d]: requests whose packet d has reported                         *)
  trace,     (* trace[d]: what d was sent, cut back by every bubble                  *)
  gone       (* requests that were flushed, cancelled or refused                     *)

vars == <<link, tasks, stopping, waiting, next, done, errs, has, trace, gone>>

EmptySlot == [req |-> NoReq, status |-> "NO_REQ", skip |-> FALSE, recover |-> FALSE]
EmptyTbl == [ready |-> {}, inject |-> 0, hdl |-> "none", skip_next |-> FALSE, is_applied |-> FALSE]

\* __cam_req_mgr_setup_link_info; the lower the delay, the more traverses a table skips first
Init ==
  /\ link = [slot |-> [i \in Idx |-> EmptySlot], rd |-> 0, wr |-> 0, last_applied |-> 0,
             tbl |-> [p \in PDs |-> [i \in Idx |-> EmptyTbl]],
             skip_traverse |-> [p \in PDs |-> max_delay - p],
             state |-> "READY", retry_cnt |-> 0, last_flush_id |-> 0]
  /\ tasks = <<>> /\ stopping = FALSE /\ waiting = FALSE
  /\ next = 1 /\ done = 0 /\ errs = 0
  /\ has = [d \in Devs |-> {}] /\ trace = [d \in Devs |-> <<>>] /\ gone = {}

-----------------------------------------------------------------------------
(* The ring.  k is a link.                                                  *)

Elems(s) == {s[n] : n \in 1 .. Len(s)}
\* (mutant: the index passes the end by one)
Inc_PastEnd(i) == IF i >= NumSlots THEN 0 ELSE i + 1

Inc(i) == (i + 1) % NumSlots

Dec(i, step) == (i - step) % NumSlots

\* Searched backwards from rd_idx; -1 when there is none
FindSlot(k, r) ==
  LET at == {n \in Idx : k.slot[Dec(k.rd, n)].req = r}
  IN IF at = {} THEN -1 ELSE Dec(k.rd, CHOOSE n \in at : \A m \in at : n <= m)

SetStatus(k, status) == [k EXCEPT !.slot[k.rd].status = status]

\* (mutant: the tables are not cleared)
ClearTbl_Keep(k, S) == k

\* The flags of a delayed request stay.
ClearTbl(k, S) == [k EXCEPT !.tbl = [p \in PDs |-> [i \in Idx |->
                     IF i \in S THEN [@[p][i] EXCEPT !.ready = {}] ELSE @[p][i]]]]

\* (mutant: the last applied request is reset as well)
ResetSlot_Any(k, i) ==
  IF i < 0 \/ k.slot[i].status = "ADDED" THEN k
  ELSE ClearTbl([k EXCEPT !.slot[i] = EmptySlot], {i})

ResetSlot(k, i) ==
  IF i < 0 \/ k.last_applied = i \/ k.slot[i].status = "ADDED" THEN k
  ELSE ClearTbl([k EXCEPT !.slot[i] = EmptySlot], {i})

SkipIdx(k, i) == [k EXCEPT !.slot[i].req = NoReq, !.slot[i].skip = TRUE, !.slot[i].status = "ADDED"]

FlushSlots(k) ==
  ClearTbl([k EXCEPT !.slot = [i \in Idx |-> [EmptySlot EXCEPT !.skip = TRUE]]], Idx)

-----------------------------------------------------------------------------
(* __cam_req_mgr_process_req                                                *)

\* The slot whose request the devices with delay p are to get with the one at rd_idx
At(k, p) == Dec(k.rd, max_delay - p)

Injected(k) == {p \in PDs : k.tbl[p][At(k, p)].inject > 0}

Inject(k) == [k EXCEPT !.tbl = [p \in PDs |->
                IF p \in Injected(k) THEN [k.tbl[p] EXCEPT ![At(k, p)].inject = @ - 1]
                ELSE k.tbl[p]]]

TraverseOk(k) ==
  \A p \in PDs : \/ k.tbl[p][At(k, p)].ready = DevsOf(p)
                 \/ k.slot[At(k, p)].skip
                 \/ k.skip_traverse[p] > 0

\* apply_data[p].req_id
Applies(k, p) == IF k.skip_traverse[p] > 0 THEN NoReq ELSE k.slot[At(k, p)].req

\* (mutant: the skipped traverses are not counted)
Traverse_Keep(k) == k

Traverse(k) ==
  [k EXCEPT !.skip_traverse = [p \in PDs |-> IF @[p] > 0 THEN @[p] - 1 ELSE 0]]

TblSlot(k, i) == k.tbl[PD[DevSeq[i]]][At(k, PD[DevSeq[i]])]
Flagged(k, i, flag) == TblSlot(k, i).hdl = DevSeq[i] /\ TblSlot(k, i)[flag]

\* A device that lets the next frame go without the others is sent its request alone.
Alone(k) == LET S == {i \in 1 .. Len(DevSeq) : Flagged(k, i, "skip_next")}
            IN IF S = {} THEN {} ELSE {CHOOSE i \in S : \A j \in S : i <= j}

\* The devices to send to, by their number
Targets(k, a) ==
  IF Alone(k) # {} THEN Alone(k)
  ELSE {i \in 1 .. Len(DevSeq) : a[PD[DevSeq[i]]] > 0 /\ ~Flagged(k, i, "is_applied")}

\* After a bubble the queue goes back to request r.
CutBack(s, r) == SubSeq(s, 1, Cardinality({n \in 1 .. Len(s) : s[n] < r}))

\* __cam_req_mgr_send_req: the devices before number f accept, f refuses; f = 0: none does.
\* What is refused by one counts as sent to none, since all will be sent it again.
Sent(k, a, tr, f) ==
  trace' = [d \in Devs |-> IF f = 0 /\ \E i \in Targets(k, a) : DevSeq[i] = d
                             THEN Append(tr[d], a[PD[d]]) ELSE tr[d]]

\* is_applied is looked at once.
ClearApplied(k, a, f) ==
  [k EXCEPT !.tbl = [p \in PDs |-> [i \in Idx |->
     IF /\ i = At(k, p) /\ a[p] > 0
        /\ \E n \in 1 .. Len(DevSeq) : PD[DevSeq[n]] = p /\ (f = 0 \/ n < f) /\ Flagged(k, n, "is_applied")
       THEN [@[p][i] EXCEPT !.is_applied = FALSE] ELSE @[p][i]]]]

Retry(k) == [SetStatus(k, "PENDING") EXCEPT !.retry_cnt = (@ + 1) % 2]

\* (mutant: the slot keeps its status)
Applied_KeepStatus(k) ==
  ResetSlot([k EXCEPT !.retry_cnt = 0, !.state = "READY",
                      !.last_applied = IF k.slot[k.rd].req > 0 THEN k.rd ELSE @],
            Dec(k.rd, max_delay + 1))

Applied(k) ==
  LET k1 == [SetStatus(k, "APPLIED") EXCEPT
               !.retry_cnt = 0, !.state = "READY",
               !.last_applied = IF k.slot[k.rd].req > 0 THEN k.rd ELSE @]
  IN ResetSlot(k1, Dec(k.rd, max_delay + 1))

Send(k, a, tr, f) ==
  /\ f \in {0} \cup Targets(k, a)
  /\ Sent(k, a, tr, f)
  /\ link' = CASE Alone(k) = {} /\ f = 0 -> Applied(ClearApplied(k, a, f))
               [] Alone(k) = {} /\ f # 0 -> Retry(ClearApplied(k, a, f))
               [] Alone(k) # {} /\ f # 0 -> Retry(k)
               [] OTHER -> LET d == DevSeq[CHOOSE i \in Alone(k) : TRUE]
                           IN Retry([k EXCEPT !.tbl[PD[d]][At(k, PD[d])].skip_next = FALSE,
                                              !.tbl[PD[d]][At(k, PD[d])].is_applied = TRUE])

ProcessReq(k, tr, f) ==
  IF k.slot[k.rd].status # "NO_REQ" /\ Injected(k) = {} /\ TraverseOk(k)
    THEN /\ f # 0 => \/ Refuses = "any"
                     \/ Refuses = "steady" /\ \A p \in PDs : k.skip_traverse[p] = 0
         /\ \E a \in {[p \in PDs |-> Applies(k, p)]}, k1 \in {Traverse(k)} : Send(k1, a, tr, f)
    ELSE /\ f = 0
         /\ link' = IF k.slot[k.rd].status = "NO_REQ" THEN k ELSE SetStatus(Inject(k), "PENDING")
         /\ trace' = tr

-----------------------------------------------------------------------------
(* Userspace                                                                *)

Scheduled == 1 .. next - 1
Open == {r \in Scheduled \ gone : r > done}

OpenSlots == {i \in Idx : link.slot[i].req \in Open}
UsedSlots == {i \in Idx : link.slot[i].req # NoReq}

\* The slots from the oldest one of S to the write index, with n more, those that frames
\* already due may still take, and those kept for a bubble, fit into the ring.
Fits(S, n) ==
  LET due == Cardinality({m \in 1 .. Len(tasks) : tasks[m].type = "sof"}) + 1
      ahead == Dec(link.wr, link.rd + 1)
      taken == IF due > ahead THEN due - ahead ELSE 0
  IN \A i \in S : Dec(link.wr, i) + n + taken + max_delay < NumSlots

\* The slot at the write index holds nothing, and the read index is not right behind it.
Vacant == link.slot[link.wr].status = "NO_REQ" /\ Inc(link.wr) # link.rd

\* cam_req_mgr_schedule_request: a request up to the last flush is refused
Sched(recover) ==
  /\ ~waiting /\ next <= MaxReq /\ Cardinality(Open) < MaxOpen
  /\ Timely => Fits(UsedSlots, 1) /\ Vacant
  /\ ~(QuietStop /\ stopping)
  /\ next' = next + 1
  /\ IF next <= link.last_flush_id
       THEN gone' = gone \cup {next} /\ UNCHANGED link
       ELSE /\ link' = [link EXCEPT
                 !.last_flush_id = 0,
                 !.slot[link.wr] = [req |-> next, status |-> "ADDED", skip |-> FALSE,
                                    recover |-> recover],
                 !.wr = Inc(@)]
            /\ UNCHANGED gone
  /\ UNCHANGED <<tasks, stopping, waiting, done, errs, has, trace>>

Enqueue(t) == Len(tasks) < MaxTasks /\ tasks' = Append(tasks, t)

\* A device asked, or is about to ask, to be sent a request alone, or was.
SomeAlone ==
  \/ \E p \in PDs, i \in Idx : link.tbl[p][i].skip_next \/ link.tbl[p][i].is_applied
  \/ \E t \in Elems(tasks) : t.type = "add" /\ t.ask.skip_next

\* cam_req_mgr_flush_requests: of all requests, with the id up to which later ones are refused
\* too, or of one
Flush(type, r) ==
  /\ ~waiting /\ errs < MaxErrs
  /\ Unmarked => ~SomeAlone /\ (type = "cancel" => FindSlot(link, r) # link.last_applied)
  /\ Enqueue([type |-> type, req |-> r])
  /\ waiting' = TRUE /\ errs' = errs + 1
  /\ UNCHANGED <<link, stopping, next, done, has, trace, gone>>

FlushTimeout ==
  /\ waiting /\ waiting' = FALSE
  /\ UNCHANGED <<link, tasks, stopping, next, done, errs, has, trace, gone>>

-----------------------------------------------------------------------------
(* The devices                                                              *)

\* cam_req_mgr_cb_add_req: a device has the packet of a request in the queue
AddReq(d, r, ask) ==
  /\ r \notin has[d] /\ \A t \in Elems(tasks) : t.type = "add" => t.dev # d
  /\ FindSlot(link, r) >= 0
  /\ Enqueue([type |-> "add", req |-> r, dev |-> d, ask |-> ask])
  /\ UNCHANGED <<link, stopping, waiting, next, done, errs, has, trace, gone>>

\* cam_req_mgr_cb_notify_trigger at a start of frame
NotifyTrigger ==
  /\ Timely => Fits(OpenSlots, 0)
  /\ Enqueue([type |-> "sof", req |-> done])
  /\ UNCHANGED <<link, stopping, waiting, next, done, errs, has, trace, gone>>

SentToAll(r) == \A d \in Devs : r \in Elems(trace[d])

\* All buffers of a request that every device was sent are filled; a request whose bubble was
\* reported is not done before it is sent again.
BufDone(r) ==
  /\ r > done /\ SentToAll(r)
  /\ \A t \in Elems(tasks) : t.type = "err" => t.req > r
  /\ Timely => FindSlot(link, done) < 0
  /\ done' = r
  /\ UNCHANGED <<link, tasks, stopping, waiting, next, errs, has, trace, gone>>

\* cam_req_mgr_cb_notify_err: the ISP missed the frame of request r.  It takes no other
\* request, and so reports none, before it was sent r again (process_bubble).
NotifyErr(r) ==
  /\ link.state = "READY" /\ errs < MaxErrs
  /\ \A t \in Elems(tasks) : t.type # "err"
  /\ Unmarked => ~SomeAlone
  /\ r > done /\ SentToAll(r)
  /\ Enqueue([type |-> "err", req |-> r])
  /\ errs' = errs + 1
  /\ UNCHANGED <<link, stopping, waiting, next, done, has, trace, gone>>

\* cam_req_mgr_cb_notify_stop: the ISP stops
NotifyStop ==
  /\ link.state = "READY" /\ errs < MaxErrs
  /\ Unmarked => ~SomeAlone
  /\ Enqueue([type |-> "stop", req |-> NoReq])
  /\ errs' = errs + 1
  /\ UNCHANGED <<link, stopping, waiting, next, done, has, trace, gone>>

-----------------------------------------------------------------------------
(* The tasks                                                                *)

Task(type) == ~stopping /\ tasks # <<>> /\ Head(tasks).type = type

\* cam_req_mgr_process_add_req
ProcessAddReq ==
  LET t == Head(tasks)
      i == FindSlot(link, t.req)
      p == PD[t.dev]
      s == link.tbl[p][i] IN
  /\ Task("add")
  /\ tasks' = Tail(tasks)
  /\ IF i < 0 THEN UNCHANGED <<link, has>>
     ELSE /\ has' = [has EXCEPT ![t.dev] = @ \cup {t.req}]
          /\ link' = [link EXCEPT !.tbl[p][i] =
               [ready |-> s.ready \cup {t.dev}, is_applied |-> FALSE,
                inject |-> IF t.ask.delay > s.inject THEN t.ask.delay ELSE s.inject,
                hdl |-> IF t.ask.delay > s.inject THEN t.dev ELSE s.hdl,
                skip_next |-> s.skip_next \/ (t.ask.delay > s.inject /\ t.ask.skip_next)]]
  /\ UNCHANGED <<stopping, waiting, next, done, errs, trace, gone>>

Lower == \E p \in PDs : p < max_delay

\* The slot of the request that is done is reset.
ResetDone(k, r) ==
  LET i == FindSlot(k, r)
  IN ResetSlot([k EXCEPT !.last_applied = IF i >= 0 /\ @ = i THEN -1 ELSE @], i)

\* (mutant: nothing is skipped for the devices with a lower delay)
ToNext_NoSkip(k) ==
  LET n == Inc(k.rd) IN IF k.slot[n].status = "NO_REQ" /\ Lower THEN k ELSE [k EXCEPT !.rd = n]

\* The read index leaves a request that was applied, for a new one or, if devices with a lower
\* delay still wait for theirs, for a slot that is skipped.
ToNext(k) ==
  LET n == Inc(k.rd) IN
  IF k.slot[n].status = "NO_REQ" /\ Lower
    THEN [SkipIdx(k, n) EXCEPT !.wr = Inc(@), !.rd = n]
    ELSE [k EXCEPT !.rd = n]

\* cam_req_mgr_process_trigger
ProcessTrigger(f) ==
  /\ Task("sof")
  /\ tasks' = Tail(tasks)
  /\ \E k \in {ResetDone(link, Head(tasks).req)} :
       \E k1 \in {IF k.slot[k.rd].status = "APPLIED" THEN ToNext(k) ELSE k} :
         IF k1.rd # k.rd /\ k1.slot[k1.rd].status = "NO_REQ"
           THEN f = 0 /\ link' = k1 /\ UNCHANGED trace
           ELSE ProcessReq(k1, trace, f)
  /\ UNCHANGED <<stopping, waiting, next, done, errs, has, gone>>

\* cam_req_mgr_process_error: all devices are told, the queue goes back to the request.  With
\* err_info->trigger it is then applied, but that was never copied into the task: sof says
\* whether what is found there is the start of frame
ProcessError(sof, f) ==
  LET r == Head(tasks).req
      i == FindSlot(link, r) IN
  /\ Task("err")
  /\ tasks' = Tail(tasks)
  /\ IF i >= 0 /\ link.slot[i].recover /\ link.slot[i].status \in {"PENDING", "APPLIED"}
       THEN \E k \in {[link EXCEPT !.skip_traverse = [p \in PDs |-> max_delay - p],
                                    !.rd = i, !.slot[i].status = "ADDED", !.state = "ERR"]},
               cut \in {[d \in Devs |-> CutBack(trace[d], r)]} :
              IF sof THEN ProcessReq(k, cut, f) ELSE f = 0 /\ link' = k /\ trace' = cut
       ELSE ~sof /\ f = 0 /\ UNCHANGED <<link, trace>>
  /\ UNCHANGED <<stopping, waiting, next, done, errs, has, gone>>

\* What the devices forget when all requests are flushed
ForgetAll == trace' = [d \in Devs |-> <<>>] /\ gone' = Scheduled

\* cam_req_mgr_process_stop, without req.lock: first the slots, then the indices
ProcessStop ==
  /\ Task("stop")
  /\ stopping' = TRUE
  /\ link' = FlushSlots(link)
  /\ ForgetAll /\ done' = 0
  /\ UNCHANGED <<tasks, waiting, next, errs, has>>

ProcessStopEnd ==
  /\ stopping /\ stopping' = FALSE
  /\ tasks' = Tail(tasks)
  /\ link' = [link EXCEPT !.rd = 0, !.wr = 0]
  /\ UNCHANGED <<waiting, next, done, errs, has, trace, gone>>

\* cam_req_mgr_process_flush_req for all requests
ProcessFlushAll ==
  /\ Task("all")
  /\ tasks' = Tail(tasks)
  /\ link' = [FlushSlots(link) EXCEPT !.last_flush_id = Head(tasks).req, !.rd = 0, !.wr = 0]
  /\ ForgetAll
  /\ waiting' = FALSE
  /\ UNCHANGED <<stopping, next, done, errs, has>>

\* cam_req_mgr_process_flush_req for one request: one that was looked at already is not
\* cancelled, and then nobody wakes the ioctl
ProcessCancel ==
  LET r == Head(tasks).req
      i == FindSlot(link, r) IN
  /\ Task("cancel")
  /\ tasks' = Tail(tasks)
  /\ CASE i < 0 -> waiting' = FALSE /\ UNCHANGED <<link, gone>>
       [] i >= 0 /\ link.slot[i].status \in {"PENDING", "APPLIED"} -> UNCHANGED <<link, gone, waiting>>
       [] OTHER -> link' = SkipIdx(link, i) /\ gone' = gone \cup {r} /\ waiting' = FALSE
  /\ UNCHANGED <<stopping, next, done, errs, has, trace>>

-----------------------------------------------------------------------------

Userspace ==
  \/ \E recover \in BOOLEAN : Sched(recover)
  \/ \E r \in Scheduled : Flush("cancel", r)
  \/ \E r \in Reqs : Flush("all", r)

Report == \E d \in Devs, r \in Reqs : \E ask \in Asks[d] : AddReq(d, r, ask)

Device ==
  \/ Report
  \/ \E r \in Reqs : BufDone(r) \/ NotifyErr(r)
  \/ NotifyStop

Worker ==
  \/ ProcessAddReq \/ ProcessStop \/ ProcessStopEnd \/ ProcessFlushAll \/ ProcessCancel
  \/ \E f \in 0 .. Len(DevSeq) : ProcessTrigger(f) \/ \E sof \in BOOLEAN : ProcessError(sof, f)

Next == Userspace \/ Device \/ NotifyTrigger \/ FlushTimeout \/ Worker

Spec == Init /\ [][Next]_vars

\* The work queue runs its tasks, devices get their packets, frames keep starting and are
\* completed, a flush does not wait forever.
FairSpec ==
  /\ Spec /\ WF_vars(Worker) /\ SF_vars(Report) /\ WF_vars(NotifyTrigger)
  /\ WF_vars(\E r \in Reqs : BufDone(r)) /\ WF_vars(FlushTimeout)

-----------------------------------------------------------------------------

TypeOK ==
  /\ link.slot \in [Idx -> [req : Reqs \cup {NoReq}, status : {"NO_REQ", "ADDED", "PENDING", "APPLIED"},
                            skip : BOOLEAN, recover : BOOLEAN]]
  /\ {link.rd, link.wr} \subseteq Idx /\ link.last_applied \in Idx \cup {-1}
  /\ link.skip_traverse \in [PDs -> 0 .. max_delay] /\ link.retry_cnt \in 0 .. 1
  /\ link.state \in {"READY", "ERR"}

\* A device is sent requests in the order of their ids, none twice, unless an error it was
\* told of took it back: the read index, skipped slots and reused slots never repeat one.
SentInOrder ==
  \A d \in Devs : \A m, n \in 1 .. Len(trace[d]) : m < n => trace[d][m] < trace[d][n]

\* A device is sent a request only if it and all other devices with its delay have reported
\* the packet of that very request: a reused slot does not inherit readiness.
SentWhenReady ==
  \A d, e \in Devs : PD[d] = PD[e] => Elems(trace[d]) \subseteq has[e]

\* A device with a lower delay gets what the devices with a higher one got, in that order and
\* at most the difference of the delays behind, also after bubbles, flushes and cancels.
PipelineAligned ==
  \A h, l \in Devs : PD[h] > PD[l] =>
    /\ Len(trace[h]) - Len(trace[l]) \in 0 .. PD[h] - PD[l]
    /\ SubSeq(trace[h], 1, Len(trace[l])) = trace[l]

\* A scheduled request is in the ring, once, until all devices were sent it, and the newest
\* one, after which frames pass without a request, until it is done, so that a bubble can go
\* back to it: it is not overwritten by a new request and not reset by frames that pass or by
\* a late completion.
RequestKept ==
  \A r \in Scheduled \ gone :
    \/ SentToAll(r) /\ (r <= done \/ \E q \in Scheduled : q > r)
    \/ Cardinality({i \in Idx : link.slot[i].req = r}) = 1

\* If all devices have the request at the read index and those before it, the next frame
\* finds all tables ready: also when the request is sent again after a bubble ("During error
\* recovery all tables should be ready", cam_req_mgr_core.c:1449) or after a device refused it
\* ("Apply req failed retry at next sof", 1466).
Sendable ==
  LET s == link.slot[link.rd] IN
  /\ s.status \in {"ADDED", "PENDING"}
  /\ \A r \in Scheduled \ gone, d \in Devs : s.skip \/ r <= s.req => r \in has[d]
  => TraverseOk(link)

\* A scheduled request is sent to all devices or flushed, whatever is skipped, delayed or
\* sent again meanwhile.
RequestSent == \A r \in Reqs : r \in Scheduled ~> r \in gone \/ SentToAll(r)
=============================================================================
