--------------------------- MODULE CamSyncSafety ---------------------------
(***************************************************************************)
(* Proofs about CamSync that hold whatever the clients do, for every set   *)
(* of objects, threads and callbacks, in five parts.  Every state is well  *)
(* typed.  Ids have one owner and the bitmap is exact (OwnerInv: the two   *)
(* are inductive only together).  No callback and no waiter of a fence is  *)
(* left behind (NoCallbackStranded, relative to OwnerInv).  No link names  *)
(* a released id (LinkInv, relative to OwnerInv).  No individual fence     *)
(* outlives cam_sync_close (CloseInv, relative to OwnerInv).               *)
(***************************************************************************)
EXTENDS CamSync, SequenceTheorems, FiniteSetTheorems, TLAPS

-----------------------------------------------------------------------------
(* What the helpers return                                                  *)

\* The uint32_t count "remaining" stays a count when it wraps.
LEMMA CountType ==
  ASSUME NEW n \in 0 .. Wrap - 1
  PROVE  Inc(n) \in 0 .. Wrap - 1 /\ Dec(n) \in 0 .. Wrap - 1
BY BoundsAssumption DEF Inc, Dec

\* A zeroed row, and a row set up by cam_sync_init_row, are rows.
LEMMA InitRowType ==
  ZeroRow \in Row /\ \A type \in Types : cam_sync_init_row(type) \in Row
<1>1. ZeroRow \in Row
  BY BoundsAssumption DEF ZeroRow, Row, NoCbs, States, Types, INVALID
<1>2. ASSUME NEW type \in Types PROVE cam_sync_init_row(type) \in Row
  <2> DEFINE r == [ZeroRow EXCEPT !.type = type]
  <2>1. r \in Row
    BY <1>1 DEF Row
  <2> HIDE DEF r
  <2>2. [r EXCEPT !.state = ACTIVE] \in Row
    BY <2>1 DEF Row, States
  <2>3. cam_sync_init_row(type) = [r EXCEPT !.state = ACTIVE]
    BY DEF r, cam_sync_init_row, ZeroRow
  <2> QED BY <2>2, <2>3
<1> QED BY <1>1, <1>2

\* Dispatching the callbacks and payloads of a row leaves a row.
LEMMA DispatchedRowType ==
  ASSUME NEW r \in Row  PROVE DispatchedRow(r) \in Row
<1>1. (IF cam_sync_eventq THEN <<>> ELSE r.user_payload_list) \in Seq(Payloads)
  <2>1. r.user_payload_list \in Seq(Payloads)
    BY DEF Row
  <2>2. <<>> \in Seq(Payloads)
    OBVIOUS
  <2> QED BY <2>1, <2>2, Zenon
<1> DEFINE pl == IF cam_sync_eventq THEN <<>> ELSE r.user_payload_list
<1>2. DispatchedRow(r) = [r EXCEPT !.callback_list = NoCbs, !.user_payload_list = pl,
                                   !.signaled = TRUE]
  BY Zenon DEF DispatchedRow
<1>3. pl \in Seq(Payloads)
  BY <1>1
<1> HIDE DEF pl
<1>4. NoCbs \in [Cbs -> Nat]
  BY DEF NoCbs
<1>5. [r EXCEPT !.callback_list = NoCbs, !.user_payload_list = pl, !.signaled = TRUE] \in Row
  BY <1>3, <1>4 DEF Row
<1> QED BY <1>2, <1>5

\* The events of a row's payloads form a sequence of events.
LEMMA EventsOfType ==
  ASSUME NEW r \in Row, NEW o \in Objs, NEW status \in Settled
  PROVE  EventsOf(r, o, status) \in Seq(Event)
<1>1. r.user_payload_list \in Seq(Payloads)
  BY DEF Row
<1> DEFINE p == r.user_payload_list
<1>2. Len(p) \in Nat /\ \A i \in 1 .. Len(p) : p[i] \in Payloads
  BY <1>1
<1>3. \A i \in 1 .. Len(p) : [payload |-> p[i], obj |-> o, status |-> status] \in Event
  BY <1>2 DEF Event
<1> QED BY <1>2, <1>3 DEF EventsOf

\* The V4L2 queue drops its oldest events, and only those.
LEMMA EventQueueType ==
  ASSUME NEW q \in Seq(Event), NEW new \in Seq(Event)
  PROVE  v4l2_event_queue(q, new) \in Seq(Event)
<1> DEFINE all == q \o new
<1>1. all \in Seq(Event) /\ Len(all) \in Nat
  OBVIOUS
<1>2. CASE Len(all) <= MaxEvents
  BY <1>1, <1>2 DEF v4l2_event_queue
<1>3. CASE ~(Len(all) <= MaxEvents)
  <2>1. SubSeq(all, Len(all) - MaxEvents + 1, Len(all)) \in Seq(Event)
    BY <1>1, <1>3, BoundsAssumption
  <2> QED BY <2>1, <1>3 DEF v4l2_event_queue
<1> QED BY <1>2, <1>3

\* Removing a payload from a list leaves a list.
LEMMA WithoutType ==
  ASSUME NEW S, NEW s \in Seq(S), NEW x  PROVE Without(s, x) \in Seq(S)
<1>1. CASE \E i \in 1 .. Len(s) : s[i] = x
  <2> DEFINE i == CHOOSE i \in 1 .. Len(s) : s[i] = x
  <2>1. i \in 1 .. Len(s)
    BY <1>1
  <2> HIDE DEF i
  <2>2. Len(s) \in Nat /\ i \in Nat
    BY <2>1
  <2>a. SubSeq(s, 1, i - 1) \in Seq(S)
    BY <2>1, <2>2
  <2>b. SubSeq(s, i + 1, Len(s)) \in Seq(S)
    BY <2>1, <2>2
  <2>3. SubSeq(s, 1, i - 1) \o SubSeq(s, i + 1, Len(s)) \in Seq(S)
    BY <2>a, <2>b
  <2> QED BY <2>3, <1>1 DEF Without, i
<1>2. CASE ~\E i \in 1 .. Len(s) : s[i] = x
  BY <1>2 DEF Without
<1> QED BY <1>1, <1>2

\* An idle thread, and one that returns to its caller, have proper locals.
LEMMA LocalType ==
  Idle \in Local /\ \A l \in Local : Return(l) \in Local
BY DEF Idle, Return, Local, LocalFields, Named, PCs, States, INVALID, ACTIVE, SUCCESS, ERROR

-----------------------------------------------------------------------------
(* Type correctness                                                         *)

\* The initial state is well typed.
LEMMA InitTypeOK == Init => TypeOK
<1> SUFFICES ASSUME Init PROVE TypeOK
  OBVIOUS
<1>1. row \in [Objs -> Row] /\ th \in [Threads -> Local]
  BY InitRowType, LocalType DEF Init
<1>2. workq \in [CbWork -> Nat] /\ flush_left \in [CbWork -> Nat]
  BY DEF Init, NoWork
<1>3. events \in Seq(Event) /\ lock \in [Objs -> Threads \cup {None}]
  BY DEF Init
<1> QED BY <1>1, <1>2, <1>3 DEF Init, TypeOK

\* cam_sync_create
LEMMA CreateType ==
  ASSUME TypeOK, NEW t \in Threads, CreateReserve(t) \/ CreateInit(t)  PROVE TypeOK'
<1>1. CASE CreateReserve(t)
  <2>1. PICK o \in Objs \ bitmap :
          /\ bitmap' = bitmap \cup {o}
          /\ th' = [th EXCEPT ![t] = [Idle EXCEPT !.pc = "create_init", !.obj = o]]
    BY <1>1 DEF CreateReserve
  <2>2. [Idle EXCEPT !.pc = "create_init", !.obj = o] \in Local
    BY LocalType DEF Local, LocalFields, Named, PCs
  <2> QED BY <1>1, <2>1, <2>2 DEF CreateReserve, TypeOK, devVars
<1>2. CASE CreateInit(t)
  <2>1. cam_sync_init_row("INDV") \in Row
    BY InitRowType DEF Types
  <2> QED BY <1>2, <2>1, LocalType DEF CreateInit, TypeOK, devVars
<1> QED BY <1>1, <1>2

\* cam_sync_register_callback, cam_sync_deregister_callback, and running a callback
LEMMA CallbackType ==
  ASSUME TypeOK,
         \/ \E t \in Threads, o \in Objs, cb \in Cbs :
              RegisterCallback(t, o, cb) \/ DeregisterCallback(t, o, cb)
         \/ \E w \in CbWork : CbDispatch(w)
  PROVE  TypeOK'
<1>1. ASSUME NEW t \in Threads, NEW o \in Objs, NEW cb \in Cbs, RegisterCallback(t, o, cb)
      PROVE  TypeOK'
  <2>1. row[o] \in Row
    BY DEF TypeOK
  <2>2. [row[o].callback_list EXCEPT ![cb] = @ + 1] \in [Cbs -> Nat]
    BY <2>1 DEF Row
  <2>3. [row[o] EXCEPT !.callback_list[cb] = @ + 1] \in Row
    BY <2>1, <2>2 DEF Row
  <2>4. [row EXCEPT ![o].callback_list[cb] = @ + 1] \in [Objs -> Row]
    BY <2>3 DEF TypeOK
  <2>5. CASE Complete(row[o]) /\ row' = row
           /\ workq' = [workq EXCEPT ![WorkOf(cb, o, row[o].state)] = @ + 1]
    <3>1. WorkOf(cb, o, row[o].state) \in CbWork
      BY <2>5 DEF Complete, CbWork, WorkOf
    <3>2. workq' \in [CbWork -> Nat]
      BY <2>5, <3>1 DEF TypeOK
    <3> QED BY <1>1, <2>5, <3>2 DEF RegisterCallback, TypeOK, devVars
  <2>6. CASE row' = [row EXCEPT ![o].callback_list[cb] = @ + 1] /\ workq' = workq
    BY <1>1, <2>4, <2>6 DEF RegisterCallback, TypeOK, devVars
  <2> QED BY <1>1, <2>5, <2>6 DEF RegisterCallback
<1>2. ASSUME NEW t \in Threads, NEW o \in Objs, NEW cb \in Cbs, DeregisterCallback(t, o, cb)
      PROVE  TypeOK'
  <2>1. row[o] \in Row
    BY DEF TypeOK
  <2>2. [row[o].callback_list EXCEPT ![cb] = 0] \in [Cbs -> Nat]
    BY <2>1 DEF Row
  <2>3. [row[o] EXCEPT !.callback_list[cb] = 0] \in Row
    BY <2>1, <2>2 DEF Row
  <2>4. [row EXCEPT ![o].callback_list[cb] = 0] \in [Objs -> Row]
    BY <2>3 DEF TypeOK
  <2> QED BY <1>2, <2>4 DEF DeregisterCallback, TypeOK, devVars
<1>3. ASSUME NEW w \in CbWork, CbDispatch(w)  PROVE TypeOK'
  <2>1. workq' \in [CbWork -> Nat]
    BY <1>3 DEF CbDispatch, TypeOK
  <2>2. flush_left' \in [CbWork -> Nat]
    BY <1>3 DEF CbDispatch, TypeOK
  <2> QED BY <1>3, <2>1, <2>2 DEF CbDispatch, TypeOK
<1> QED BY <1>1, <1>2, <1>3

\* cam_sync_get_obj_ref and cam_sync_put_obj_ref
LEMMA RefType ==
  ASSUME TypeOK, NEW t \in Threads, NEW o \in Objs,
         GetObjRef(t, o) \/ PutObjRef(t, o) \/ UmdSignalRejected(t, o)
  PROVE  TypeOK'
<1>1. row[o] \in Row
  BY DEF TypeOK
<1>2. [row[o] EXCEPT !.ref_cnt = @ + 1] \in Row
  BY SMTT(60), <1>1 DEF Row
<1>a. [row[o] EXCEPT !.ref_cnt = @ - 1] \in Row
  BY <1>1 DEF Row
<1>3. [row EXCEPT ![o].ref_cnt = @ + 1] \in [Objs -> Row]
  BY <1>2 DEF TypeOK
<1>4. [row EXCEPT ![o].ref_cnt = @ - 1] \in [Objs -> Row]
  BY <1>a DEF TypeOK
<1>5. row' \in [Objs -> Row]
  BY <1>3, <1>4 DEF GetObjRef, PutObjRef, UmdSignalRejected
<1> QED BY <1>5 DEF GetObjRef, PutObjRef, UmdSignalRejected, TypeOK, devVars

\* What dispatching queues is well typed.
LEMMA DispatchQueuesType ==
  ASSUME TypeOK, NEW r \in Row, NEW o \in Objs, NEW status \in Settled,
         DispatchQueues(r, o, status)
  PROVE  workq' \in [CbWork -> Nat] /\ events' \in Seq(Event)
<1>1. ASSUME NEW w \in CbWork
      PROVE  workq[w] + (IF w.obj = o /\ w.status = status
                           THEN r.callback_list[w.cb] ELSE 0) \in Nat
  <2>1. w.cb \in Cbs /\ r.callback_list \in [Cbs -> Nat]
    BY DEF CbWork, Row
  <2>2. r.callback_list[w.cb] \in Nat /\ workq[w] \in Nat
    BY <2>1 DEF TypeOK
  <2> QED BY <2>2
<1>2. workq' \in [CbWork -> Nat]
  BY <1>1 DEF DispatchQueues
<1>3. v4l2_event_queue(events, EventsOf(r, o, status)) \in Seq(Event) /\ events \in Seq(Event)
  BY EventsOfType, EventQueueType DEF TypeOK
<1>4. events' \in Seq(Event)
  BY <1>3, Zenon DEF DispatchQueues
<1> QED BY <1>2, <1>4

\* Settling a row leaves a row.
LEMMA SettledRowType ==
  ASSUME NEW r \in Row, NEW status \in States, NEW ref \in Int, NEW folks \in SUBSET Objs
  PROVE  [r EXCEPT !.ref_cnt = ref, !.state = status, !.parents_list = folks] \in Row
BY DEF Row

\* The critical section of cam_sync_signal
LEMMA SignalRowType ==
  ASSUME TypeOK, NEW t \in Threads, NEW o \in Objs, NEW status \in Settled, NEW l \in Local,
         SignalRow(t, o, status, l)
  PROVE  /\ row' \in [Objs -> Row]
         /\ th' \in [Threads -> Local]
         /\ workq' \in [CbWork -> Nat]
         /\ events' \in Seq(Event)
<1>1. row[o] \in Row
  BY DEF TypeOK
<1>r. Return(l) \in Local
  BY LocalType
<1>s. status \in States
  BY DEF States, Settled
<1>2. CASE row' = [row EXCEPT ![o].ref_cnt = @ - 1]
           /\ th' = [th EXCEPT ![t] = Return(l)] /\ UNCHANGED <<workq, events>>
  <2>1. [row[o] EXCEPT !.ref_cnt = @ - 1] \in Row
    BY <1>1 DEF Row
  <2>2. row' \in [Objs -> Row]
    BY <1>2, <2>1 DEF TypeOK
  <2> QED BY <1>r, <1>2, <2>2 DEF TypeOK
<1>3. CASE /\ row' = [row EXCEPT ![o] = [DispatchedRow(@) EXCEPT !.ref_cnt = 0,
                                            !.state = status, !.parents_list = {}]]
           /\ DispatchQueues(row[o], o, status)
           /\ th' = [th EXCEPT ![t] =
                       IF row[o].parents_list = {} THEN Return(l)
                       ELSE [l EXCEPT !.pc = "signal_parents", !.obj = o, !.st = status,
                                      !.folks = row[o].parents_list]]
  <2>1. DispatchedRow(row[o]) \in Row
    BY <1>1, DispatchedRowType
  <2>2. [DispatchedRow(row[o]) EXCEPT !.ref_cnt = 0, !.state = status,
                                      !.parents_list = {}] \in Row
    BY <2>1, <1>s, 0 \in Int, {} \in SUBSET Objs, SettledRowType, Zenon
  <2>4. row' \in [Objs -> Row]
    BY <1>3, <2>2 DEF TypeOK
  <2>5. row[o].parents_list \subseteq Objs
    BY <1>1 DEF Row
  <2>6. [l EXCEPT !.pc = "signal_parents", !.obj = o, !.st = status,
                  !.folks = row[o].parents_list] \in Local
    BY <2>5, <1>s DEF Local, LocalFields, Named, PCs
  <2> DEFINE x == IF row[o].parents_list = {} THEN Return(l)
                  ELSE [l EXCEPT !.pc = "signal_parents", !.obj = o, !.st = status,
                                 !.folks = row[o].parents_list]
  <2>7. x \in Local /\ th' = [th EXCEPT ![t] = x]
    BY <1>r, <1>3, <2>6, Zenon
  <2> HIDE DEF x
  <2>8. th' \in [Threads -> Local]
    BY <2>7 DEF TypeOK
  <2>9. workq' \in [CbWork -> Nat] /\ events' \in Seq(Event)
    BY <1>1, <1>3, DispatchQueuesType
  <2> QED BY <2>4, <2>8, <2>9
<1> QED BY <1>2, <1>3 DEF SignalRow

\* cam_sync_signal, called by the kernel or through the ioctl
LEMMA SignalType ==
  ASSUME TypeOK, NEW t \in Threads,
         \/ \E o \in Objs, s \in Settled : Signal(t, o, s) \/ UmdSignalGetRef(t, o, s)
         \/ UmdSignal(t)
  PROVE  TypeOK'
<1>1. ASSUME NEW o \in Objs, NEW s \in Settled, Signal(t, o, s)  PROVE TypeOK'
  BY <1>1, SignalRowType, LocalType DEF Signal, TypeOK, devVars
<1>2. ASSUME NEW o \in Objs, NEW s \in Settled, UmdSignalGetRef(t, o, s)  PROVE TypeOK'
  <2>1. row[o] \in Row
    BY DEF TypeOK
  <2>2. [row[o] EXCEPT !.ref_cnt = @ + 1] \in Row
    BY SMTT(60), <2>1 DEF Row
  <2>3. [Idle EXCEPT !.pc = "umd_signal", !.obj = o, !.st = s] \in Local
    BY LocalType DEF Local, LocalFields, Named, PCs, States, Settled
  <2>4. row' \in [Objs -> Row] /\ th' \in [Threads -> Local]
    BY <1>2, <2>2, <2>3 DEF UmdSignalGetRef, TypeOK
  <2> QED BY <1>2, <2>4 DEF UmdSignalGetRef, TypeOK, devVars
<1>3. CASE UmdSignal(t)
  <2>1. th[t].obj \in Objs /\ th[t].st \in Settled
    BY <1>3 DEF UmdSignal, TypeOK, Local, Named
  <2>2. CASE SignalRow(t, th[t].obj, th[t].st, Idle)
    BY <1>3, <2>1, <2>2, SignalRowType, LocalType DEF UmdSignal, TypeOK, devVars
  <2>3. CASE th' = [th EXCEPT ![t] = Idle] /\ UNCHANGED <<row, workq, events>>
    BY <1>3, <2>3, LocalType DEF UmdSignal, TypeOK, devVars
  <2> QED BY <1>3, <2>2, <2>3 DEF UmdSignal
<1> QED BY <1>1, <1>2, <1>3

\* The loop of cam_sync_signal over the parents
LEMMA SignalParentType ==
  ASSUME TypeOK, NEW t \in Threads, NEW p \in Objs, SignalParent(t, p)  PROVE TypeOK'
<1> DEFINE r == [row[p] EXCEPT !.remaining = Dec(@),
                               !.state = UpdateParentState(@, th[t].st)]
           left == th[t].folks \ {p}
<1>1. row[p] \in Row /\ row[p].state \in States /\ row[p].remaining \in 0 .. Wrap - 1
  BY DEF TypeOK, Row
<1>2. th[t] \in Local /\ th[t].st \in Settled /\ th[t].folks \subseteq Objs
  BY DEF SignalParent, TypeOK, Local, LocalFields
<1>3. Dec(row[p].remaining) \in 0 .. Wrap - 1
  BY <1>1, CountType
<1>4. UpdateParentState(row[p].state, th[t].st) \in States
  BY <1>1, <1>2 DEF UpdateParentState, States, Settled
<1>5. r \in Row
  BY <1>1, <1>3, <1>4 DEF Row
<1>6. r.state = UpdateParentState(row[p].state, th[t].st)
  BY <1>1 DEF Row
<1>7. r.state # INVALID => r.state \in Settled
  BY <1>2, <1>4, <1>6 DEF UpdateParentState, States, Settled
<1>8. /\ \/ /\ r.state # INVALID
            /\ row' = [row EXCEPT ![p] = DispatchedRow(r)]
            /\ DispatchQueues(r, p, r.state)
         \/ row' = [row EXCEPT ![p] = r] /\ UNCHANGED <<workq, events>>
      /\ th' = [th EXCEPT ![t] = IF left = {} THEN Return(@) ELSE [@ EXCEPT !.folks = left]]
      /\ UNCHANGED <<bitmap, lock, devVars>>
  BY DEF SignalParent
<1> HIDE DEF r
<1>9. DispatchedRow(r) \in Row
  BY <1>5, DispatchedRowType
<1>10. row' \in [Objs -> Row]
  BY <1>5, <1>8, <1>9 DEF TypeOK
<1>11. workq' \in [CbWork -> Nat] /\ events' \in Seq(Event)
  BY <1>5, <1>7, <1>8, DispatchQueuesType DEF TypeOK
<1>12. th' \in [Threads -> Local]
  <2>1. [th[t] EXCEPT !.folks = left] \in Local
    BY <1>2 DEF Local, LocalFields
  <2>2. Return(th[t]) \in Local
    BY <1>2, LocalType
  <2>3. (IF left = {} THEN Return(th[t]) ELSE [th[t] EXCEPT !.folks = left]) \in Local
    BY <2>1, <2>2
  <2> QED BY <1>8, <2>3 DEF TypeOK
<1> QED BY <1>8, <1>10, <1>11, <1>12 DEF TypeOK, devVars

\* A thread's locals stay proper when it takes a child or a parent off a list.
LEMMA VisitType ==
  ASSUME NEW l \in Local, NEW c \in Objs
  PROVE  /\ [l EXCEPT !.todo = @ \ {c}] \in Local
         /\ Visited(l, c) \in Local
         /\ [l EXCEPT !.done = @ \ {c}] \in Local
         /\ [l EXCEPT !.folks = @ \ {c}] \in Local
         /\ [l EXCEPT !.sweep = @ \ {c}] \in Local
BY DEF Local, LocalFields, Visited

\* Linking and unlinking make rows of rows.
LEMMA LinkType ==
  ASSUME NEW r \in Row, NEW c \in Objs
  PROVE  /\ AddChild(r, c) \in Row /\ AddParent(r, c) \in Row
         /\ DropChild(r, c) \in Row /\ DropParent(r, c) \in Row
<1>1. Inc(r.remaining) \in 0 .. Wrap - 1
  BY CountType DEF Row
<1>2. AddChild(r, c) \in Row
  BY <1>1 DEF AddChild, Row
<1>3. AddParent(r, c) \in Row /\ DropChild(r, c) \in Row /\ DropParent(r, c) \in Row
  BY DEF AddParent, DropChild, DropParent, Row
<1> QED BY <1>2, <1>3

\* So do the other steps of merge and destroy on a row.
LEMMA MergeRowType ==
  ASSUME NEW r \in Row, NEW state \in States
  PROVE  /\ Inherit(r, state) \in Row /\ Finished(r) \in Row /\ Emptied(r) \in Row
         /\ Fails(r, r.remaining) \in Row /\ Fails(r, Inc(r.remaining)) \in Row
<1>1. ERROR \in States /\ SUCCESS \in States /\ INVALID \in States
  BY DEF States
<1>2. r.remaining \in 0 .. Wrap - 1 /\ Inc(r.remaining) \in 0 .. Wrap - 1
  BY CountType DEF Row
<1>3. [r EXCEPT !.state = ERROR] \in Row
  BY <1>1 DEF Row
<1>4. Inherit(r, state) \in Row
  BY <1>3 DEF Inherit
<1>5. ASSUME NEW k \in 0 .. Wrap - 1 PROVE Fails(r, k) \in Row
  BY <1>1, <1>5 DEF Fails, Row
<1>6. Emptied(r) \in Row
  BY <1>1 DEF Emptied, Row
<1>7. ASSUME NEW s \in States PROVE [r EXCEPT !.state = s, !.signaled = TRUE] \in Row
  BY <1>7 DEF Row
<1>8. Finished(r) \in Row
  BY <1>1, <1>7 DEF Finished
<1> QED BY <1>2, <1>4, <1>5, <1>6, <1>8

\* cam_sync_merge up to the point where the group has an id
LEMMA MergeCallType ==
  ASSUME TypeOK, NEW t \in Threads,
         \/ \E S \in SUBSET Objs : MergeBegin(t, S)
         \/ \E c \in Objs : MergeCheckValid(t, c)
         \/ MergeReserve(t)
  PROVE  TypeOK'
<1>0. th[t] \in Local
  BY DEF TypeOK
<1>1. ASSUME NEW S \in SUBSET Objs, MergeBegin(t, S)  PROVE TypeOK'
  <2>1. [Idle EXCEPT !.pc = "merge_check", !.todo = S] \in Local
    BY LocalType DEF Local, LocalFields, Named, PCs
  <2> QED BY <1>1, <2>1 DEF MergeBegin, TypeOK, devVars
<1>2. ASSUME NEW c \in Objs, MergeCheckValid(t, c)  PROVE TypeOK'
  <2> DEFINE x == IF c \in bitmap /\ row[c].state # INVALID
                    THEN Visited(th[t], c) ELSE Idle
  <2>1. x \in Local
    BY <1>0, VisitType, LocalType
  <2>2. th' = [th EXCEPT ![t] = x]
    BY <1>2 DEF MergeCheckValid
  <2> HIDE DEF x
  <2> QED BY <1>2, <2>1, <2>2 DEF MergeCheckValid, TypeOK, devVars
<1>3. CASE MergeReserve(t)
  <2>1. ASSUME NEW o \in Objs, bitmap' = bitmap \cup {o},
               th' = [th EXCEPT ![t] = [@ EXCEPT !.pc = "merge_lock", !.obj = o]]
        PROVE  TypeOK'
    <3>1. [th[t] EXCEPT !.pc = "merge_lock", !.obj = o] \in Local
      BY <1>0 DEF Local, LocalFields, Named, PCs
    <3> QED BY <1>3, <2>1, <3>1 DEF MergeReserve, TypeOK, devVars
  <2>2. CASE th' = [th EXCEPT ![t] = Idle] /\ bitmap' = bitmap
    BY <1>3, <2>2, LocalType DEF MergeReserve, TypeOK, devVars
  <2> QED BY <1>3, <2>1, <2>2 DEF MergeReserve
<1> QED BY <1>1, <1>2, <1>3

\* cam_sync_init_group_object: the loop over the children
LEMMA MergeChildType ==
  ASSUME TypeOK, NEW t \in Threads, NEW c \in Objs, MergeChild(t, c)  PROVE TypeOK'
<1> DEFINE o == th[t].obj
<1>0. th[t] \in Local /\ o \in Objs
  BY DEF MergeChild, TypeOK, Local, Named
<1>1. row[c] \in Row /\ row[o] \in Row
  BY <1>0 DEF TypeOK
<1>2. row[c].state \in States
  BY <1>1 DEF Row
<1>3. Visited(th[t], c) \in Local
  BY <1>0, VisitType
<1>4. CASE MergeLink(t, c)
  <2>1. \A r \in Row : AddChild(r, c) \in Row /\ AddParent(r, o) \in Row
    BY <1>0, LinkType
  <2>2. row' = [row EXCEPT ![o] = AddChild(@, c), ![c] = AddParent(@, o)]
        /\ th' = [th EXCEPT ![t] = Visited(@, c)]
    BY <1>4 DEF MergeLink
  <2>3. row' \in [Objs -> Row] /\ th' \in [Threads -> Local]
    BY <1>0, <1>3, <2>1, <2>2 DEF TypeOK
  <2> QED BY <2>3 DEF MergeChild, TypeOK, devVars
<1>5. CASE MergeSkip(t, c)
  <2>1. Inherit(row[o], row[c].state) \in Row
    BY <1>1, <1>2, MergeRowType
  <2>2. row' = [row EXCEPT ![o] = Inherit(@, row[c].state)]
        /\ th' = [th EXCEPT ![t] = Visited(@, c)]
    BY <1>5 DEF MergeSkip
  <2>3. row' \in [Objs -> Row] /\ th' \in [Threads -> Local]
    BY <1>0, <1>3, <2>1, <2>2 DEF TypeOK
  <2> QED BY <2>3 DEF MergeChild, TypeOK, devVars
<1>6. CASE MergeFail(t, c)
  <2>1. Fails(row[o], row[o].remaining) \in Row /\ Fails(row[o], Inc(row[o].remaining)) \in Row
    BY <1>1, <1>2, MergeRowType
  <2>2. [th[t] EXCEPT !.pc = "merge_clean", !.todo = {}] \in Local
    BY <1>0 DEF Local, LocalFields, Named, PCs
  <2>3. /\ \/ row' = [row EXCEPT ![o] = Fails(@, @.remaining)]
           \/ row' = [row EXCEPT ![o] = Fails(@, Inc(@.remaining))]
        /\ th' = [th EXCEPT ![t] = [@ EXCEPT !.pc = "merge_clean", !.todo = {}]]
    BY <1>6 DEF MergeFail
  <2>4. row' \in [Objs -> Row] /\ th' \in [Threads -> Local]
    BY <1>0, <2>1, <2>2, <2>3 DEF TypeOK
  <2> QED BY <2>4 DEF MergeChild, TypeOK, devVars
<1> QED BY <1>4, <1>5, <1>6 DEF MergeChild

\* The rest of cam_sync_merge
LEMMA MergeEndType ==
  ASSUME TypeOK, NEW t \in Threads,
         \/ MergeLock(t) \/ MergeFinish(t) \/ MergeAbort(t)
         \/ \E c \in Objs : MergeClean(t, c)
  PROVE  TypeOK'
<1> DEFINE o == th[t].obj
<1>0. th[t] \in Local /\ o \in Objs
  BY DEF MergeLock, MergeFinish, MergeAbort, MergeClean, TypeOK, Local, Named
<1>1. row[o] \in Row
  BY <1>0 DEF TypeOK
<1>2. INVALID \in States /\ Idle \in Local
  BY LocalType DEF States
<1>3. CASE MergeLock(t)
  <2>1. cam_sync_init_row("GROUP") \in Row
    BY InitRowType DEF Types
  <2>2. [th[t] EXCEPT !.pc = "merge_child", !.todo = th[t].done, !.done = {}] \in Local
    BY <1>0 DEF Local, LocalFields, Named, PCs
  <2>3. row' \in [Objs -> Row] /\ th' \in [Threads -> Local]
    BY <1>0, <1>3, <2>1, <2>2 DEF MergeLock, TypeOK
  <2>4. lock' \in [Objs -> Threads \cup {None}]
    BY <1>0, <1>3 DEF MergeLock, TypeOK
  <2> QED BY <1>3, <2>3, <2>4 DEF MergeLock, TypeOK, devVars
<1>4. CASE MergeFinish(t)
  <2>1. Finished(row[o]) \in Row
    BY <1>1, <1>2, MergeRowType
  <2>2. row' \in [Objs -> Row] /\ th' \in [Threads -> Local]
    BY <1>0, <1>2, <1>4, <2>1 DEF MergeFinish, TypeOK
  <2>3. lock' \in [Objs -> Threads \cup {None}]
    BY <1>0, <1>4 DEF MergeFinish, TypeOK
  <2> QED BY <1>4, <2>2, <2>3 DEF MergeFinish, TypeOK, devVars
<1>5. CASE MergeAbort(t)
  <2>1. [row[o] EXCEPT !.children_list = {}] \in Row
    BY <1>1 DEF Row
  <2>2. row' \in [Objs -> Row] /\ th' \in [Threads -> Local]
    BY <1>0, <1>2, <1>5, <2>1 DEF MergeAbort, TypeOK
  <2>3. lock' \in [Objs -> Threads \cup {None}] /\ bitmap' \subseteq Objs
    BY <1>0, <1>5 DEF MergeAbort, TypeOK
  <2> QED BY <1>5, <2>2, <2>3 DEF MergeAbort, TypeOK, devVars
<1>6. ASSUME NEW c \in Objs, MergeClean(t, c)  PROVE TypeOK'
  <2>1. row[c] \in Row
    BY DEF TypeOK
  <2>2. DropParent(row[c], o) \in Row
    BY <1>0, <2>1, LinkType
  <2>3. [th[t] EXCEPT !.done = @ \ {c}] \in Local
    BY <1>0, VisitType
  <2>4. row' \in [Objs -> Row] /\ th' \in [Threads -> Local]
    BY <1>6, <2>2, <2>3 DEF MergeClean, TypeOK
  <2> QED BY <1>6, <2>4 DEF MergeClean, TypeOK, devVars
<1> QED BY <1>3, <1>4, <1>5, <1>6

\* The first critical section of cam_sync_deinit_object
LEMMA DeinitRowType ==
  ASSUME TypeOK, NEW t \in Threads, NEW o \in Objs, NEW l \in Local, DeinitRow(t, o, l)
  PROVE  row' \in [Objs -> Row] /\ th' \in [Threads -> Local]
<1>1. row[o] \in Row /\ INVALID \in States
  BY DEF TypeOK, States
<1>2. Emptied(row[o]) \in Row
  BY <1>1, MergeRowType
<1>3. row[o].children_list \subseteq Objs /\ row[o].parents_list \subseteq Objs
  BY <1>1 DEF Row
<1>4. [l EXCEPT !.pc = "destroy", !.obj = o, !.todo = row[o].children_list,
                !.folks = row[o].parents_list] \in Local
  BY <1>3 DEF Local, LocalFields, Named, PCs
<1> QED BY <1>2, <1>4 DEF DeinitRow, TypeOK

\* cam_sync_deinit_object
LEMMA DestroyType ==
  ASSUME TypeOK, NEW t \in Threads,
         \/ DestroyFinish(t)
         \/ \E o \in Objs : Destroy(t, o) \/ DestroyChild(t, o) \/ DestroyParent(t, o)
  PROVE  TypeOK'
<1>0. th[t] \in Local /\ Idle \in Local /\ Return(th[t]) \in Local
  BY LocalType DEF TypeOK
<1>1. CASE DestroyFinish(t)
  <2>1. th[t].obj \in Objs
    BY <1>1 DEF DestroyFinish, TypeOK, Local, Named
  <2>2. row' \in [Objs -> Row] /\ th' \in [Threads -> Local]
    BY <1>0, <1>1, <2>1, InitRowType DEF DestroyFinish, TypeOK
  <2> QED BY <1>1, <2>2 DEF DestroyFinish, TypeOK, devVars
<1>2. ASSUME NEW o \in Objs, Destroy(t, o)  PROVE TypeOK'
  BY <1>0, <1>2, DeinitRowType DEF Destroy, TypeOK, devVars
<1>3. ASSUME NEW c \in Objs, DestroyChild(t, c)  PROVE TypeOK'
  <2>1. th[t].obj \in Objs /\ row[c] \in Row
    BY <1>3 DEF DestroyChild, TypeOK, Local, Named
  <2>2. DropParent(row[c], th[t].obj) \in Row /\ [th[t] EXCEPT !.todo = @ \ {c}] \in Local
    BY <1>0, <2>1, LinkType, VisitType
  <2>3. row' \in [Objs -> Row] /\ th' \in [Threads -> Local]
    BY <1>3, <2>2 DEF DestroyChild, TypeOK
  <2> QED BY <1>3, <2>3 DEF DestroyChild, TypeOK, devVars
<1>4. ASSUME NEW p \in Objs, DestroyParent(t, p)  PROVE TypeOK'
  <2>1. th[t].obj \in Objs /\ row[p] \in Row
    BY <1>4 DEF DestroyParent, TypeOK, Local, Named
  <2>2. DropChild(row[p], th[t].obj) \in Row /\ [th[t] EXCEPT !.folks = @ \ {p}] \in Local
    BY <1>0, <2>1, LinkType, VisitType
  <2>3. row' \in [Objs -> Row] /\ th' \in [Threads -> Local]
    BY <1>4, <2>2 DEF DestroyParent, TypeOK
  <2> QED BY <1>4, <2>3 DEF DestroyParent, TypeOK, devVars
<1> QED BY <1>1, <1>2, <1>3, <1>4

\* cam_sync_wait
LEMMA WaitType ==
  ASSUME TypeOK, NEW t \in Threads,
         (\E o \in Objs : WaitBegin(t, o)) \/ WaitWoken(t) \/ WaitTimeout(t)
  PROVE  TypeOK'
<1>1. ASSUME NEW o \in Objs, WaitBegin(t, o)  PROVE TypeOK'
  <2>1. [Idle EXCEPT !.pc = "wait", !.obj = o] \in Local
    BY LocalType DEF Local, LocalFields, Named, PCs
  <2> QED BY <1>1, <2>1 DEF WaitBegin, TypeOK, devVars
<1>2. CASE WaitWoken(t) \/ WaitTimeout(t)
  BY <1>2, LocalType DEF WaitWoken, WaitTimeout, TypeOK, devVars
<1> QED BY <1>1, <1>2

\* The payload ioctls and VIDIOC_DQEVENT
LEMMA PayloadType ==
  ASSUME TypeOK,
         \/ DequeueEvent
         \/ \E t \in Threads, o \in Objs, pl \in Payloads :
              RegisterPayload(t, o, pl) \/ DeregisterPayload(t, o, pl)
  PROVE  TypeOK'
<1>1. CASE DequeueEvent
  <2>1. events' \in Seq(Event)
    BY <1>1 DEF DequeueEvent, TypeOK
  <2> QED BY <1>1, <2>1 DEF DequeueEvent, TypeOK, devVars
<1>2. ASSUME NEW t \in Threads, NEW o \in Objs, NEW pl \in Payloads, RegisterPayload(t, o, pl)
      PROVE  TypeOK'
  <2>1. row[o] \in Row /\ row[o].user_payload_list \in Seq(Payloads)
    BY DEF TypeOK, Row
  <2> DEFINE e == [payload |-> pl, obj |-> o, status |-> row[o].state]
  <2>2. CASE row[o].state \in Settled /\ row' = row
             /\ events' = v4l2_event_queue(events, <<e>>)
    <3>1. e \in Event
      BY <2>2 DEF Event
    <3> HIDE DEF e
    <3>2. <<e>> \in Seq(Event)
      BY <3>1
    <3>3. events' \in Seq(Event)
      BY <2>2, <3>2, EventQueueType DEF TypeOK
    <3> QED BY <1>2, <2>2, <3>3 DEF RegisterPayload, TypeOK, devVars
  <2>3. CASE events' = events
             /\ row' = [row EXCEPT ![o].user_payload_list = Append(@, pl)]
    <3>1. Append(row[o].user_payload_list, pl) \in Seq(Payloads)
      BY <2>1
    <3>2. [row[o] EXCEPT !.user_payload_list = Append(@, pl)] \in Row
      BY <2>1, <3>1 DEF Row
    <3>3. row' \in [Objs -> Row]
      BY <2>3, <3>2 DEF TypeOK
    <3> QED BY <1>2, <2>3, <3>3 DEF RegisterPayload, TypeOK, devVars
  <2> QED BY <1>2, <2>2, <2>3 DEF RegisterPayload
<1>3. ASSUME NEW t \in Threads, NEW o \in Objs, NEW pl \in Payloads, DeregisterPayload(t, o, pl)
      PROVE  TypeOK'
  <2>1. row[o] \in Row /\ row[o].user_payload_list \in Seq(Payloads)
    BY DEF TypeOK, Row
  <2>2. Without(row[o].user_payload_list, pl) \in Seq(Payloads)
    BY <2>1, WithoutType
  <2>3. [row[o] EXCEPT !.user_payload_list = Without(@, pl)] \in Row
    BY <2>1, <2>2 DEF Row
  <2>4. row' \in [Objs -> Row]
    BY <1>3, <2>3 DEF DeregisterPayload, TypeOK
  <2> QED BY <1>3, <2>4 DEF DeregisterPayload, TypeOK, devVars
<1> QED BY <1>1, <1>2, <1>3

\* cam_sync_open and cam_sync_close
LEMMA OpenType ==
  ASSUME TypeOK, NEW t \in Threads, Open(t) \/ CloseBegin(t)  PROVE TypeOK'
<1>1. CASE Open(t)
  BY <1>1 DEF Open, TypeOK
<1>2. CASE CloseBegin(t)
  <2>1. [Idle EXCEPT !.pc = "close_signal", !.sweep = Objs] \in Local
    BY LocalType DEF Local, LocalFields, Named, PCs
  <2>2. th' \in [Threads -> Local]
    BY <1>2, <2>1 DEF CloseBegin, TypeOK
  <2> QED BY <1>2, <2>2 DEF CloseBegin, TypeOK
<1> QED BY <1>1, <1>2

\* The two sweeps of cam_sync_close
LEMMA SweepType ==
  ASSUME TypeOK, NEW t \in Threads, NEW o \in Objs, CloseSignal(t, o) \/ CloseDestroy(t, o)
  PROVE  TypeOK'
<1>0. th[t] \in Local /\ [th[t] EXCEPT !.sweep = @ \ {o}] \in Local
  BY VisitType DEF TypeOK
<1>a. [th EXCEPT ![t].sweep = @ \ {o}] \in [Threads -> Local]
  BY <1>0 DEF TypeOK
<1>1. CASE CloseSignal(t, o)
  <2> DEFINE l == [th[t] EXCEPT !.sweep = @ \ {o}, !.ret = "close_signal"]
  <2>1. l \in Local /\ ERROR \in Settled
    BY <1>0 DEF Local, LocalFields, Settled
  <2>2. SignalRow(t, o, ERROR, l) \/ (th' = [th EXCEPT ![t].sweep = @ \ {o}]
                                      /\ UNCHANGED <<row, workq, events>>)
    BY <1>1 DEF CloseSignal
  <2> HIDE DEF l
  <2>3. CASE SignalRow(t, o, ERROR, l)
    BY <1>1, <2>1, <2>3, SignalRowType DEF CloseSignal, TypeOK, devVars
  <2>4. CASE th' = [th EXCEPT ![t].sweep = @ \ {o}] /\ UNCHANGED <<row, workq, events>>
    BY <1>1, <1>a, <2>4 DEF CloseSignal, TypeOK, devVars
  <2> QED BY <2>2, <2>3, <2>4
<1>2. CASE CloseDestroy(t, o)
  <2> DEFINE l == [th[t] EXCEPT !.sweep = @ \ {o}, !.ret = "close_destroy"]
  <2>1. l \in Local
    BY <1>0 DEF Local, LocalFields
  <2>2. DeinitRow(t, o, l) \/ (th' = [th EXCEPT ![t].sweep = @ \ {o}] /\ UNCHANGED row)
    BY <1>2 DEF CloseDestroy
  <2> HIDE DEF l
  <2>3. CASE DeinitRow(t, o, l)
    BY <1>2, <2>1, <2>3, DeinitRowType DEF CloseDestroy, TypeOK, devVars
  <2>4. CASE th' = [th EXCEPT ![t].sweep = @ \ {o}] /\ UNCHANGED row
    BY <1>2, <1>a, <2>4 DEF CloseDestroy, TypeOK, devVars
  <2> QED BY <2>2, <2>3, <2>4
<1> QED BY <1>1, <1>2

\* The rest of cam_sync_close
LEMMA CloseType ==
  ASSUME TypeOK, NEW t \in Threads,
         CloseFlushBegin(t) \/ CloseFlushEnd(t) \/ CloseUnlock(t) \/ CloseNull(t)
  PROVE  TypeOK'
<1>0. /\ [Idle EXCEPT !.pc = "close_flush"] \in Local
      /\ [Idle EXCEPT !.pc = "close_destroy", !.sweep = Objs] \in Local
      /\ [Idle EXCEPT !.pc = "close_null"] \in Local
  BY LocalType DEF Local, LocalFields, Named, PCs
<1>1. th' \in [Threads -> Local]
  BY <1>0, LocalType DEF CloseFlushBegin, CloseFlushEnd, CloseUnlock, CloseNull, TypeOK
<1>2. CASE CloseFlushBegin(t)
  BY <1>1, <1>2 DEF CloseFlushBegin, TypeOK
<1>3. CASE CloseFlushEnd(t)
  BY <1>1, <1>3 DEF CloseFlushEnd, TypeOK, devVars
<1>4. CASE CloseUnlock(t)
  BY <1>1, <1>4 DEF CloseUnlock, TypeOK
<1>5. CASE CloseNull(t)
  <2>1. events' \in Seq(Event)
    BY <1>5 DEF CloseNull, TypeOK
  <2> QED BY <1>1, <1>5, <2>1 DEF CloseNull, TypeOK
<1> QED BY <1>2, <1>3, <1>4, <1>5

\* Every step keeps the types.
LEMMA StepTypeOK == TypeOK /\ [Next]_vars => TypeOK'
<1> SUFFICES ASSUME TypeOK, [Next]_vars PROVE TypeOK'
  OBVIOUS
<1>1. CASE (\E w \in CbWork : CbDispatch(w)) \/ DequeueEvent
  BY <1>1, CallbackType, PayloadType
<1>2. ASSUME NEW t \in Threads, Step(t)  PROVE TypeOK'
  BY <1>2, CreateType, SignalType, SignalParentType, MergeCallType, MergeChildType,
     MergeEndType, DestroyType, WaitType, SweepType, CloseType DEF Step
<1>3. ASSUME NEW t \in Threads, Call(t)  PROVE TypeOK'
  BY <1>3, CreateType, CallbackType, RefType, SignalType, MergeCallType, DestroyType,
     WaitType, PayloadType, OpenType DEF Call
<1>4. CASE UNCHANGED vars
  BY <1>4 DEF vars, TypeOK
<1> QED BY <1>1, <1>2, <1>3, <1>4 DEF Next

\* Every variable of the sync driver keeps its type, for any number of fences, threads and
\* callbacks: "remaining" stays a 32-bit count however it wraps, the id a thread works on
\* is an id, and only settled states are ever delivered to a callback or an event.
THEOREM TypeCorrect == Spec => []TypeOK
<1>1. Init => TypeOK
  BY InitTypeOK
<1>2. TypeOK /\ [Next]_vars => TypeOK'
  BY StepTypeOK
<1> QED BY <1>1, <1>2, PTL DEF Spec

-----------------------------------------------------------------------------
(* Ownership of ids                                                         *)

\* The pcs at which a thread owns the row it names
Owning == {"create_init", "merge_lock", "merge_child", "merge_clean", "destroy"}

OwnerInv == OwnersExclude /\ BitmapExact

Dead(o) == row[o].state = INVALID

\* Owning an id, in terms of the program counter
LEMMA OwnsDef ==
  ASSUME NEW t, NEW o  PROVE Owns(t, o) <=> th[t].pc \in Owning /\ th[t].obj = o
BY DEF Owns, Reserving, Building, Destroying, Owning

\* A step that takes and gives back no id, locks nothing, and makes no row valid or
\* invalid, keeps the invariants on ownership.
LEMMA NeutralStep ==
  ASSUME OwnerInv, bitmap' = bitmap, lock' = lock,
         \A o \in Objs : Dead(o)' <=> Dead(o),
         \A u \in Threads : \/ th'[u].pc = th[u].pc /\ th'[u].obj = th[u].obj
                            \/ th[u].pc \notin Owning /\ th'[u].pc \notin Owning
  PROVE  OwnerInv'
<1>1. \A u \in Threads, o \in Objs : /\ Owns(u, o)' <=> Owns(u, o)
                                     /\ Building(u)' /\ th'[u].obj = o
                                          <=> Building(u) /\ th[u].obj = o
                                     /\ Owns(u, o) => th'[u].pc = th[u].pc
  BY DEF Owns, Reserving, Building, Destroying, Owning
<1>2. OwnersExclude'
  BY <1>1 DEF OwnerInv, OwnersExclude, Dead
<1>3. BitmapExact'
  BY <1>1 DEF OwnerInv, BitmapExact, Dead
<1> QED BY <1>2, <1>3 DEF OwnerInv

\* A free id (its bit is clear) is owned by nobody, dead and unlocked.
LEMMA FreeId ==
  ASSUME TypeOK, OwnerInv, NEW o \in Objs \ bitmap
  PROVE  Dead(o) /\ Free(o) /\ \A u \in Threads : ~Owns(u, o)
<1>1. Dead(o) /\ \A u \in Threads : ~Owns(u, o)
  BY DEF OwnerInv, BitmapExact, Dead
<1>2. \A u \in Threads : lock[o] # u
  BY <1>1 DEF OwnerInv, OwnersExclude, Owns
<1> QED BY <1>1, <1>2 DEF TypeOK, Free

\* Taking a free id
LEMMA TakeStep ==
  ASSUME TypeOK, OwnerInv, NEW t \in Threads, NEW o \in Objs \ bitmap,
         th[t].pc \notin Owning, bitmap' = bitmap \cup {o}, lock' = lock, row' = row,
         NEW l, th' = [th EXCEPT ![t] = l], l.obj = o, l.pc \in {"create_init", "merge_lock"}
  PROVE  OwnerInv'
<1>1. Dead(o) /\ Free(o) /\ \A u \in Threads : ~Owns(u, o)
  BY FreeId
<1>2. \A u \in Threads, p \in Objs : Owns(u, p)' <=> Owns(u, p) \/ (u = t /\ p = o)
  BY DEF TypeOK, Owns, Reserving, Building, Destroying, Owning
<1>3. \A u \in Threads, p \in Objs : Building(u)' /\ th'[u].obj = p
                                       <=> Building(u) /\ th[u].obj = p
  BY DEF TypeOK, Building, Owning
<1>4. \A u \in Threads : u # t => th'[u] = th[u]
  BY DEF TypeOK
<1>5. th'[t].pc \in {"create_init", "merge_lock"} /\ \A p \in Objs : ~Owns(t, p)
  BY OwnsDef DEF TypeOK
<1>6. OwnersExclude'
  BY <1>1, <1>2, <1>3, <1>4, <1>5 DEF OwnerInv, OwnersExclude, Dead
<1>7. BitmapExact'
  BY <1>2 DEF OwnerInv, BitmapExact
<1> QED BY <1>6, <1>7 DEF OwnerInv

\* Giving up an id: the row is valid and stays in use, or dead and its bit is cleared.
LEMMA ReleaseStep ==
  ASSUME TypeOK, OwnerInv, NEW t \in Threads, NEW o \in Objs, Owns(t, o),
         NEW l, th' = [th EXCEPT ![t] = l], l.pc \notin Owning,
         lock' = [lock EXCEPT ![o] = None] \/ (lock' = lock /\ Free(o)),
         \A p \in Objs : p # o => (Dead(p)' <=> Dead(p)),
         \/ bitmap' = bitmap /\ ~Dead(o)'
         \/ bitmap' = bitmap \ {o} /\ Dead(o)'
  PROVE  OwnerInv'
<1>1. \A u \in Threads : u # t => th'[u] = th[u] /\ ~Owns(u, o)
  BY DEF TypeOK, OwnerInv, OwnersExclude
<1>2. th'[t].pc \notin Owning /\ \A p \in Objs : Owns(t, p) => p = o
  BY DEF TypeOK, Owns
<1>3. \A u \in Threads, p \in Objs : Owns(u, p)' <=> Owns(u, p) /\ u # t
  BY <1>1, <1>2 DEF Owns, Reserving, Building, Destroying, Owning
<1>4. \A u \in Threads, p \in Objs : Building(u)' /\ th'[u].obj = p
                                       <=> Building(u) /\ th[u].obj = p /\ u # t
  BY <1>1, <1>2 DEF Building, Owning
<1>5. lock'[o] = None /\ \A p \in Objs : p # o => lock'[p] = lock[p]
  BY DEF TypeOK, Free
<1>6. \A u \in Threads : lock'[o] # u /\ ~(Building(u)' /\ th'[u].obj = o)
  BY <1>1, <1>4, <1>5, NoneAssumption DEF Owns
<1>7. OwnersExclude'
  <2>1. \A p \in Objs : \A u, v \in Threads : Owns(u, p)' /\ Owns(v, p)' => u = v
    BY <1>3 DEF OwnerInv, OwnersExclude
  <2>2. \A p \in Objs, u \in Threads :
          Owns(u, p)' => (Dead(p)' <=> th'[u].pc # "merge_child")
    <3> SUFFICES ASSUME NEW p \in Objs, NEW u \in Threads, Owns(u, p)'
                 PROVE  Dead(p)' <=> th'[u].pc # "merge_child"
      OBVIOUS
    <3>1. Owns(u, p) /\ u # t /\ p # o /\ th'[u] = th[u]
      BY <1>1, <1>3
    <3> QED BY <3>1 DEF OwnerInv, OwnersExclude, Dead
  <2>3. \A p \in Objs, u \in Threads : lock'[p] = u <=> Building(u)' /\ th'[u].obj = p
    <3> SUFFICES ASSUME NEW p \in Objs, NEW u \in Threads, p # o
                 PROVE  lock'[p] = u <=> Building(u)' /\ th'[u].obj = p
      BY <1>6
    <3>1. lock'[p] = lock[p] /\ ~(Building(t) /\ th[t].obj = p)
      BY <1>2, <1>5 DEF Owns
    <3> QED BY <3>1, <1>4 DEF OwnerInv, OwnersExclude
  <2> QED BY <2>1, <2>2, <2>3 DEF OwnersExclude, Dead
<1>8. BitmapExact'
  <2>1. o \in bitmap /\ \A u \in Threads : ~Owns(u, o)'
    BY <1>1, <1>3 DEF OwnerInv, BitmapExact
  <2>2. ASSUME NEW p \in Objs, p # o
        PROVE  p \in bitmap' <=> ~Dead(p)' \/ \E u \in Threads : Owns(u, p)'
    BY <2>2, <1>2, <1>3 DEF OwnerInv, BitmapExact, Dead
  <2>3. o \in bitmap' <=> ~Dead(o)' \/ \E u \in Threads : Owns(u, o)'
    BY <2>1
  <2> QED BY <2>2, <2>3 DEF BitmapExact, Dead
<1> QED BY <1>7, <1>8 DEF OwnerInv

\* An owner moves on, keeping its id: it locks the row, or starts to roll back.
LEMMA KeepStep ==
  ASSUME TypeOK, OwnerInv, NEW t \in Threads, NEW o \in Objs, Owns(t, o),
         NEW l, th' = [th EXCEPT ![t] = l], l.obj = o, l.pc \in {"merge_child", "merge_clean"},
         bitmap' = bitmap, lock' = [lock EXCEPT ![o] = t],
         \A p \in Objs : p # o => (Dead(p)' <=> Dead(p)),
         Dead(o)' <=> l.pc # "merge_child"
  PROVE  OwnerInv'
<1>1. \A u \in Threads : u # t => th'[u] = th[u] /\ ~Owns(u, o)
  BY DEF TypeOK, OwnerInv, OwnersExclude
<1>2. /\ th'[t].pc \in {"merge_child", "merge_clean"} /\ th'[t].obj = o
      /\ th'[t].pc = l.pc /\ th[t].obj = o
  BY DEF TypeOK, Owns
<1>3. \A u \in Threads, p \in Objs : Owns(u, p)' <=> Owns(u, p)
  BY <1>1, <1>2 DEF Owns, Reserving, Building, Destroying, Owning
<1>4. \A u \in Threads, p \in Objs :
        Building(u)' /\ th'[u].obj = p <=>
          (u = t /\ p = o) \/ (u # t /\ Building(u) /\ th[u].obj = p)
  BY <1>1, <1>2 DEF Building
<1>5. lock'[o] = t /\ \A p \in Objs : p # o => lock'[p] = lock[p]
  BY DEF TypeOK
<1>6. OwnersExclude'
  <2>1. \A p \in Objs : \A u, v \in Threads : Owns(u, p)' /\ Owns(v, p)' => u = v
    BY <1>3 DEF OwnerInv, OwnersExclude
  <2>2. \A p \in Objs, u \in Threads :
          Owns(u, p)' => (Dead(p)' <=> th'[u].pc # "merge_child")
    <3> SUFFICES ASSUME NEW p \in Objs, NEW u \in Threads, Owns(u, p)'
                 PROVE  Dead(p)' <=> th'[u].pc # "merge_child"
      OBVIOUS
    <3>1. CASE u = t
      BY <1>2, <3>1 DEF Owns
    <3>2. CASE u # t
      <4>1. Owns(u, p) /\ p # o /\ th'[u] = th[u]
        BY <1>1, <1>3, <3>2
      <4> QED BY <4>1 DEF OwnerInv, OwnersExclude, Dead
    <3> QED BY <3>1, <3>2
  <2>3. \A p \in Objs, u \in Threads : lock'[p] = u <=> Building(u)' /\ th'[u].obj = p
    <3> SUFFICES ASSUME NEW p \in Objs, NEW u \in Threads
                 PROVE  lock'[p] = u <=> Building(u)' /\ th'[u].obj = p
      OBVIOUS
    <3>1. CASE p = o
      BY <3>1, <1>1, <1>4, <1>5 DEF Owns
    <3>2. CASE p # o
      <4>1. lock[p] = u <=> Building(u) /\ th[u].obj = p
        BY DEF OwnerInv, OwnersExclude
      <4> QED BY <3>2, <4>1, <1>2, <1>4, <1>5
    <3> QED BY <3>1, <3>2
  <2> QED BY <2>1, <2>2, <2>3 DEF OwnersExclude, Dead
<1>7. BitmapExact'
  <2>1. \A p \in Objs : (\E u \in Threads : Owns(u, p)') <=> (\E u \in Threads : Owns(u, p))
    BY <1>3
  <2>2. ASSUME NEW p \in Objs
        PROVE  p \in bitmap' <=> ~Dead(p)' \/ \E u \in Threads : Owns(u, p)'
    BY <2>1 DEF OwnerInv, BitmapExact, Dead
  <2> QED BY <2>2 DEF BitmapExact, Dead
<1> QED BY <1>6, <1>7 DEF OwnerInv

\* A thread seizes a valid, unlocked row to tear it down.
LEMMA SeizeStep ==
  ASSUME TypeOK, OwnerInv, NEW t \in Threads, NEW o \in Objs, ~Dead(o), Free(o),
         th[t].pc \notin Owning,
         NEW l, th' = [th EXCEPT ![t] = l], l.obj = o, l.pc = "destroy",
         bitmap' = bitmap, lock' = lock,
         \A p \in Objs : p # o => (Dead(p)' <=> Dead(p)), Dead(o)'
  PROVE  OwnerInv'
<1>1. \A u \in Threads : u # t => th'[u] = th[u]
  BY DEF TypeOK
<1>2. th'[t].pc = "destroy" /\ th'[t].obj = o
  BY DEF TypeOK
<1>3. \A u \in Threads : ~Owns(u, o)
  <2> SUFFICES ASSUME NEW u \in Threads, Owns(u, o) PROVE FALSE
    OBVIOUS
  <2>1. th[u].pc = "merge_child" /\ th[u].obj = o
    BY DEF OwnerInv, OwnersExclude, Dead, Owns
  <2>2. lock[o] = u
    BY <2>1 DEF OwnerInv, OwnersExclude, Building
  <2> QED BY <2>2, NoneAssumption DEF Free
<1>4. \A p \in Objs : ~Owns(t, p)
  BY OwnsDef
<1>5. \A u \in Threads, p \in Objs : Owns(u, p)' <=> Owns(u, p) \/ (u = t /\ p = o)
  BY <1>1, <1>2, <1>4 DEF Owns, Reserving, Building, Destroying
<1>6. \A u \in Threads, p \in Objs : Building(u)' /\ th'[u].obj = p
                                       <=> Building(u) /\ th[u].obj = p
  BY <1>1, <1>2, <1>4 DEF Building, Owning
<1>7. OwnersExclude'
  <2>1. \A p \in Objs : \A u, v \in Threads : Owns(u, p)' /\ Owns(v, p)' => u = v
    BY <1>3, <1>5 DEF OwnerInv, OwnersExclude
  <2>2. \A p \in Objs, u \in Threads :
          Owns(u, p)' => (Dead(p)' <=> th'[u].pc # "merge_child")
    <3> SUFFICES ASSUME NEW p \in Objs, NEW u \in Threads, Owns(u, p)'
                 PROVE  Dead(p)' <=> th'[u].pc # "merge_child"
      OBVIOUS
    <3>1. CASE u = t
      BY <1>2, <3>1 DEF Owns
    <3>2. CASE u # t
      <4>1. Owns(u, p) /\ p # o /\ th'[u] = th[u]
        BY <1>1, <1>3, <1>5, <3>2
      <4> QED BY <4>1 DEF OwnerInv, OwnersExclude, Dead
    <3> QED BY <3>1, <3>2
  <2>3. \A p \in Objs, u \in Threads : lock'[p] = u <=> Building(u)' /\ th'[u].obj = p
    BY <1>6 DEF OwnerInv, OwnersExclude
  <2> QED BY <2>1, <2>2, <2>3 DEF OwnersExclude, Dead
<1>8. BitmapExact'
  <2>1. ASSUME NEW p \in Objs
        PROVE  p \in bitmap' <=> ~Dead(p)' \/ \E u \in Threads : Owns(u, p)'
    <3>1. p \in bitmap <=> ~Dead(p) \/ \E u \in Threads : Owns(u, p)
      BY DEF OwnerInv, BitmapExact, Dead
    <3>2. CASE p = o
      BY <1>5, <3>1, <3>2
    <3>3. CASE p # o
      BY <1>5, <3>1, <3>3
    <3> QED BY <3>2, <3>3
  <2> QED BY <2>1 DEF BitmapExact, Dead
<1> QED BY <1>7, <1>8 DEF OwnerInv

\* The list operations leave the state of a row alone; so does dispatching.
LEMMA KeepState ==
  ASSUME NEW r \in Row, NEW c
  PROVE  /\ AddChild(r, c).state = r.state /\ AddParent(r, c).state = r.state
         /\ DropChild(r, c).state = r.state /\ DropParent(r, c).state = r.state
         /\ DispatchedRow(r).state = r.state
BY DEF Row, AddChild, AddParent, DropChild, DropParent, DispatchedRow

\* What the other row operations make of the state
LEMMA NewState ==
  ASSUME NEW r \in Row, NEW k
  PROVE  /\ Fails(r, k).state = INVALID /\ Emptied(r).state = INVALID
         /\ ZeroRow.state = INVALID
         /\ cam_sync_init_row("INDV").state # INVALID
         /\ cam_sync_init_row("GROUP").state # INVALID
         /\ r.state # INVALID => Finished(r).state # INVALID /\ Inherit(r, k).state # INVALID
BY DEF Row, Fails, Emptied, ZeroRow, cam_sync_init_row, Finished, Inherit,
       INVALID, ACTIVE, SUCCESS, ERROR

\* An idle thread, and one that returns to its caller, own nothing.
LEMMA IdleOwnsNothing ==
  Idle.pc \notin Owning /\ \A l \in Local : Return(l).pc \notin Owning
BY DEF Idle, Return, Owning, Local, LocalFields

\* Calls that only look at a row, or change something other than states
LEMMA RowOwner ==
  ASSUME TypeOK, OwnerInv, NEW t \in Threads, NEW o \in Objs,
         \/ \E cb \in Cbs : RegisterCallback(t, o, cb) \/ DeregisterCallback(t, o, cb)
         \/ GetObjRef(t, o) \/ PutObjRef(t, o) \/ UmdSignalRejected(t, o)
         \/ \E pl \in Payloads : RegisterPayload(t, o, pl) \/ DeregisterPayload(t, o, pl)
  PROVE  OwnerInv'
<1>1. row[o] \in Row
  BY DEF TypeOK
<1>2. \A p \in Objs : row'[p].state = row[p].state
  <2>1. ASSUME NEW cb \in Cbs, RegisterCallback(t, o, cb) \/ DeregisterCallback(t, o, cb)
        PROVE  \A p \in Objs : row'[p].state = row[p].state
    <3>1. [row[o] EXCEPT !.callback_list[cb] = @ + 1].state = row[o].state
      BY <1>1 DEF Row
    <3>2. [row[o] EXCEPT !.callback_list[cb] = 0].state = row[o].state
      BY <1>1 DEF Row
    <3> QED BY <2>1, <3>1, <3>2 DEF RegisterCallback, DeregisterCallback, TypeOK
  <2>2. ASSUME GetObjRef(t, o) \/ PutObjRef(t, o) \/ UmdSignalRejected(t, o)
        PROVE  \A p \in Objs : row'[p].state = row[p].state
    <3>1. [row[o] EXCEPT !.ref_cnt = @ + 1].state = row[o].state
      BY <1>1 DEF Row
    <3>2. [row[o] EXCEPT !.ref_cnt = @ - 1].state = row[o].state
      BY <1>1 DEF Row
    <3> QED BY <2>2, <3>1, <3>2 DEF GetObjRef, PutObjRef, UmdSignalRejected, TypeOK
  <2>3. ASSUME NEW pl \in Payloads, RegisterPayload(t, o, pl) \/ DeregisterPayload(t, o, pl)
        PROVE  \A p \in Objs : row'[p].state = row[p].state
    <3>1. [row[o] EXCEPT !.user_payload_list = Append(@, pl)].state = row[o].state
      BY <1>1 DEF Row
    <3>2. [row[o] EXCEPT !.user_payload_list = Without(@, pl)].state = row[o].state
      BY <1>1 DEF Row
    <3> QED BY <2>3, <3>1, <3>2 DEF RegisterPayload, DeregisterPayload, TypeOK
  <2> QED BY <2>1, <2>2, <2>3
<1>3. bitmap' = bitmap /\ lock' = lock /\ th' = th
  BY DEF RegisterCallback, DeregisterCallback, GetObjRef, PutObjRef, UmdSignalRejected,
         RegisterPayload,
         DeregisterPayload
<1>4. \A p \in Objs : Dead(p)' <=> Dead(p)
  BY <1>2 DEF Dead
<1> QED BY <1>3, <1>4, NeutralStep

\* Steps that leave the table alone
LEMMA QuietOwner ==
  ASSUME TypeOK, OwnerInv, NEW t \in Threads,
         \/ Open(t) \/ CloseBegin(t) \/ CloseFlushBegin(t) \/ CloseFlushEnd(t)
         \/ CloseUnlock(t) \/ CloseNull(t) \/ WaitWoken(t) \/ WaitTimeout(t)
         \/ \E o \in Objs : WaitBegin(t, o)
         \/ \E S \in SUBSET Objs : MergeBegin(t, S)
         \/ \E c \in Objs : MergeCheckValid(t, c)
  PROVE  OwnerInv'
<1>1. bitmap' = bitmap /\ lock' = lock /\ row' = row
  BY DEF Open, CloseBegin, CloseFlushBegin, CloseFlushEnd, CloseUnlock, CloseNull,
         WaitWoken, WaitTimeout, WaitBegin, MergeBegin, MergeCheckValid
<1>2. CASE \E c \in Objs : MergeCheckValid(t, c)
  <2>1. PICK c \in Objs : MergeCheckValid(t, c)
    BY <1>2
  <2>2. Visited(th[t], c).pc = th[t].pc
    BY DEF Visited, TypeOK, Local, LocalFields
  <2>3. th'[t].pc \notin Owning /\ th[t].pc \notin Owning
    BY <2>1, <2>2, IdleOwnsNothing DEF MergeCheckValid, TypeOK, Owning
  <2>4. \A u \in Threads : u # t => th'[u] = th[u]
    BY <2>1 DEF MergeCheckValid, TypeOK
  <2> QED BY <1>1, <2>3, <2>4, NeutralStep DEF Dead
<1>3. CASE ~\E c \in Objs : MergeCheckValid(t, c)
  <2>1. /\ \A u \in Threads : u # t => th'[u] = th[u]
        /\ th'[t] = th[t] \/ (th[t].pc \notin Owning /\ th'[t].pc \notin Owning)
    <3>0. ASSUME NEW x, th' = [th EXCEPT ![t] = x], x.pc \notin Owning, th[t].pc \notin Owning
          PROVE  /\ \A u \in Threads : u # t => th'[u] = th[u]
                 /\ th[t].pc \notin Owning /\ th'[t].pc \notin Owning
      BY <3>0 DEF TypeOK
    <3>1. CASE Open(t)
      BY <3>1 DEF Open
    <3>2. CASE CloseBegin(t)
      <4>1. [Idle EXCEPT !.pc = "close_signal", !.sweep = Objs].pc = "close_signal"
        BY DEF Idle
      <4> QED BY <3>0, <3>2, <4>1 DEF CloseBegin, MayCall, Owning
    <3>3. CASE CloseFlushBegin(t) \/ CloseFlushEnd(t) \/ CloseUnlock(t) \/ CloseNull(t)
      <4>1. /\ [Idle EXCEPT !.pc = "close_flush"].pc = "close_flush"
            /\ [Idle EXCEPT !.pc = "close_destroy", !.sweep = Objs].pc = "close_destroy"
            /\ [Idle EXCEPT !.pc = "close_null"].pc = "close_null"
            /\ Idle.pc = "idle"
        BY DEF Idle
      <4> QED BY <3>0, <3>3, <4>1
                 DEF CloseFlushBegin, CloseFlushEnd, CloseUnlock, CloseNull, Owning
    <3>4. CASE WaitWoken(t) \/ WaitTimeout(t) \/ \E o \in Objs : WaitBegin(t, o)
      <4>1. Idle.pc = "idle" /\ \A o : [Idle EXCEPT !.pc = "wait", !.obj = o].pc = "wait"
        BY DEF Idle
      <4> QED BY <3>0, <3>4, <4>1 DEF WaitWoken, WaitTimeout, WaitBegin, MayCall, Owning
    <3>5. CASE \E S \in SUBSET Objs : MergeBegin(t, S)
      <4>1. \A S : [Idle EXCEPT !.pc = "merge_check", !.todo = S].pc = "merge_check"
        BY DEF Idle
      <4> QED BY <3>0, <3>5, <4>1 DEF MergeBegin, MayCall, Owning
    <3> QED BY <1>3, <3>1, <3>2, <3>3, <3>4, <3>5
  <2> QED BY <1>1, <2>1, NeutralStep DEF Dead
<1> QED BY <1>2, <1>3

\* The critical section of cam_sync_signal
LEMMA SignalRowOwner ==
  ASSUME TypeOK, OwnerInv, NEW t \in Threads, NEW o \in Objs, NEW status \in Settled,
         NEW l \in Local, SignalRow(t, o, status, l), bitmap' = bitmap, lock' = lock,
         th[t].pc \notin Owning
  PROVE  OwnerInv'
<1>1. row[o] \in Row /\ DispatchedRow(row[o]) \in Row
  BY DispatchedRowType DEF TypeOK
<1>2. [DispatchedRow(row[o]) EXCEPT !.ref_cnt = 0, !.state = status,
                                    !.parents_list = {}].state # INVALID
  BY <1>1 DEF Row, Settled, SUCCESS, ERROR, INVALID
<1>3. [row[o] EXCEPT !.ref_cnt = @ - 1].state = row[o].state
  BY <1>1 DEF Row
<1>4. row[o].state # INVALID
  BY DEF SignalRow, ACTIVE, INVALID
<1>5. \A p \in Objs : Dead(p)' <=> Dead(p)
  BY <1>2, <1>3, <1>4 DEF SignalRow, Dead, TypeOK
<1>6. [l EXCEPT !.pc = "signal_parents", !.obj = o, !.st = status,
                !.folks = row[o].parents_list].pc = "signal_parents"
  BY DEF Local, LocalFields
<1>7. th'[t].pc \notin Owning /\ \A u \in Threads : u # t => th'[u] = th[u]
  <2>1. PICK x : th' = [th EXCEPT ![t] = x] /\ x.pc \notin Owning
    BY <1>6, IdleOwnsNothing DEF SignalRow, Owning
  <2> QED BY <2>1 DEF TypeOK
<1> QED BY <1>5, <1>7, NeutralStep

\* cam_sync_signal
LEMMA SignalOwner ==
  ASSUME TypeOK, OwnerInv, NEW t \in Threads,
         \/ \E o \in Objs, s \in Settled : Signal(t, o, s) \/ UmdSignalGetRef(t, o, s)
         \/ UmdSignal(t)
         \/ \E p \in Objs : SignalParent(t, p)
  PROVE  OwnerInv'
<1>1. ASSUME NEW o \in Objs, NEW s \in Settled, Signal(t, o, s)  PROVE OwnerInv'
  <2>1. th[t].pc \notin Owning /\ bitmap' = bitmap /\ lock' = lock
    BY <1>1 DEF Signal, MayCall, Owning
  <2>2. SignalRow(t, o, s, Idle) /\ Idle \in Local
    BY <1>1, LocalType DEF Signal
  <2> QED BY <2>1, <2>2, SignalRowOwner
<1>2. ASSUME NEW o \in Objs, NEW s \in Settled, UmdSignalGetRef(t, o, s)  PROVE OwnerInv'
  <2>1. row[o] \in Row
    BY DEF TypeOK
  <2>2. [row[o] EXCEPT !.ref_cnt = @ + 1].state = row[o].state
    BY <2>1 DEF Row
  <2>3. \A p \in Objs : Dead(p)' <=> Dead(p)
    BY <1>2, <2>2 DEF UmdSignalGetRef, Dead, TypeOK
  <2>4. /\ th[t].pc \notin Owning /\ th'[t].pc \notin Owning
        /\ \A u \in Threads : u # t => th'[u] = th[u]
        /\ bitmap' = bitmap /\ lock' = lock
    BY <1>2 DEF UmdSignalGetRef, MayCall, TypeOK, Owning, Idle
  <2> QED BY <2>3, <2>4, NeutralStep
<1>3. CASE UmdSignal(t)
  <2>1. th[t].obj \in Objs /\ th[t].st \in Settled
    BY <1>3 DEF UmdSignal, TypeOK, Local, Named
  <2>2. th[t].pc \notin Owning /\ bitmap' = bitmap /\ lock' = lock
    BY <1>3 DEF UmdSignal, Owning
  <2>3. CASE SignalRow(t, th[t].obj, th[t].st, Idle)
    BY <2>1, <2>2, <2>3, SignalRowOwner, LocalType
  <2>4. CASE th' = [th EXCEPT ![t] = Idle] /\ row' = row
    <3>1. th'[t].pc \notin Owning /\ \A u \in Threads : u # t => th'[u] = th[u]
      BY <2>4, IdleOwnsNothing DEF TypeOK
    <3> QED BY <2>2, <2>4, <3>1, NeutralStep DEF Dead
  <2> QED BY <1>3, <2>3, <2>4 DEF UmdSignal
<1>4. ASSUME NEW p \in Objs, SignalParent(t, p)  PROVE OwnerInv'
  <2> DEFINE r == [row[p] EXCEPT !.remaining = Dec(@),
                                 !.state = UpdateParentState(@, th[t].st)]
             left == th[t].folks \ {p}
  <2>1. row[p] \in Row /\ th[t] \in Local /\ th[t].st \in Settled /\ th[t].pc \notin Owning
    BY <1>4 DEF SignalParent, TypeOK, Local, Owning
  <2>2. row[p].state \in States /\ row[p].remaining \in 0 .. Wrap - 1
    BY <2>1 DEF Row
  <2>3. Dec(row[p].remaining) \in 0 .. Wrap - 1
    BY <2>2, CountType
  <2>4. /\ UpdateParentState(row[p].state, th[t].st) \in States
        /\ UpdateParentState(row[p].state, th[t].st) = INVALID <=> row[p].state = INVALID
    BY <2>1, <2>2 DEF UpdateParentState, States, Settled, INVALID, ACTIVE, SUCCESS, ERROR
  <2>5. r \in Row
    BY <2>1, <2>3, <2>4 DEF Row
  <2>6. r.state = INVALID <=> row[p].state = INVALID
    BY <2>1, <2>4 DEF Row
  <2>7. row' = [row EXCEPT ![p] = DispatchedRow(r)] \/ row' = [row EXCEPT ![p] = r]
    BY <1>4 DEF SignalParent
  <2>8. /\ bitmap' = bitmap /\ lock' = lock
        /\ th' = [th EXCEPT ![t] = IF left = {} THEN Return(@) ELSE [@ EXCEPT !.folks = left]]
    BY <1>4 DEF SignalParent
  <2> HIDE DEF r
  <2>9. DispatchedRow(r).state = r.state
    BY <2>5, KeepState
  <2>10. \A q \in Objs : Dead(q)' <=> Dead(q)
    BY <2>6, <2>7, <2>9 DEF Dead, TypeOK
  <2>11. [th[t] EXCEPT !.folks = left].pc = th[t].pc
    BY <2>1 DEF Local, LocalFields
  <2>12. th'[t].pc \notin Owning /\ \A u \in Threads : u # t => th'[u] = th[u]
    BY <2>1, <2>8, <2>11, IdleOwnsNothing DEF TypeOK
  <2> QED BY <2>1, <2>8, <2>10, <2>12, NeutralStep
<1> QED BY <1>1, <1>2, <1>3, <1>4

\* cam_sync_create
LEMMA CreateOwner ==
  ASSUME TypeOK, OwnerInv, NEW t \in Threads, CreateReserve(t) \/ CreateInit(t)
  PROVE  OwnerInv'
<1>1. CASE CreateReserve(t)
  <2>1. PICK o \in Objs \ bitmap :
          /\ bitmap' = bitmap \cup {o}
          /\ th' = [th EXCEPT ![t] = [Idle EXCEPT !.pc = "create_init", !.obj = o]]
    BY <1>1 DEF CreateReserve
  <2> DEFINE l == [Idle EXCEPT !.pc = "create_init", !.obj = o]
  <2>2. l.pc = "create_init" /\ l.obj = o
    BY DEF Idle
  <2>3. th[t].pc \notin Owning /\ lock' = lock /\ row' = row
    BY <1>1 DEF CreateReserve, MayCall, Owning
  <2>4. th' = [th EXCEPT ![t] = l]
    BY <2>1
  <2> HIDE DEF l
  <2> QED BY <2>1, <2>2, <2>3, <2>4, TakeStep
<1>2. CASE CreateInit(t)
  <2>0. PICK o \in Objs : o = th[t].obj
    BY <1>2 DEF CreateInit, TypeOK, Local, Named
  <2>1. o \in Objs /\ Owns(t, o)
    BY <2>0, <1>2 DEF CreateInit, TypeOK, Local, Named, Owns, Reserving
  <2>2. /\ row' = [row EXCEPT ![o] = cam_sync_init_row("INDV")]
        /\ th' = [th EXCEPT ![t] = Idle] /\ lock' = lock /\ Free(o) /\ bitmap' = bitmap
    BY <2>0, <1>2 DEF CreateInit
  <2>3. cam_sync_init_row("INDV").state # INVALID
    BY DEF cam_sync_init_row, ZeroRow, INVALID, ACTIVE
  <2>4. ~Dead(o)' /\ \A p \in Objs : p # o => (Dead(p)' <=> Dead(p))
    BY <2>1, <2>2, <2>3 DEF Dead, TypeOK
  <2> QED BY <2>1, <2>2, <2>4, IdleOwnsNothing, ReleaseStep
<1> QED BY <1>1, <1>2

\* cam_sync_merge: the id, the lock, and the end
LEMMA MergeOwner ==
  ASSUME TypeOK, OwnerInv, NEW t \in Threads,
         MergeReserve(t) \/ MergeLock(t) \/ MergeFinish(t) \/ MergeAbort(t)
  PROVE  OwnerInv'
<1>0. th[t] \in Local
  BY DEF TypeOK
<1>1. CASE MergeReserve(t)
  <2>0. th[t].pc \notin Owning /\ lock' = lock /\ row' = row
    BY <1>1 DEF MergeReserve, Owning
  <2>1. ASSUME NEW p \in Objs \ bitmap, bitmap' = bitmap \cup {p},
               th' = [th EXCEPT ![t] = [@ EXCEPT !.pc = "merge_lock", !.obj = p]]
        PROVE  OwnerInv'
    <3> DEFINE l == [th[t] EXCEPT !.pc = "merge_lock", !.obj = p]
    <3>1. l.pc = "merge_lock" /\ l.obj = p
      BY <1>0 DEF Local, LocalFields
    <3>2. th' = [th EXCEPT ![t] = l]
      BY <2>1
    <3> HIDE DEF l
    <3> QED BY <2>0, <2>1, <3>1, <3>2, TakeStep
  <2>2. CASE bitmap' = bitmap /\ th' = [th EXCEPT ![t] = Idle]
    <3>1. th'[t].pc \notin Owning /\ \A u \in Threads : u # t => th'[u] = th[u]
      BY <2>2, IdleOwnsNothing DEF TypeOK
    <3> QED BY <2>0, <2>2, <3>1, NeutralStep DEF Dead
  <2> QED BY <1>1, <2>1, <2>2 DEF MergeReserve
<1>2. CASE MergeLock(t)
  <2>0. PICK o \in Objs : o = th[t].obj
    BY <1>2 DEF MergeLock, TypeOK, Local, Named
  <2>1. o \in Objs /\ Owns(t, o)
    BY <2>0, <1>2 DEF MergeLock, TypeOK, Owns, Reserving
  <2> DEFINE l == [th[t] EXCEPT !.pc = "merge_child", !.todo = th[t].done, !.done = {}]
  <2>2. l.pc = "merge_child" /\ l.obj = o
    BY <1>0, <2>0 DEF Local, LocalFields
  <2>3. /\ row' = [row EXCEPT ![o] = cam_sync_init_row("GROUP")]
        /\ th' = [th EXCEPT ![t] = l] /\ lock' = [lock EXCEPT ![o] = t] /\ bitmap' = bitmap
    BY <2>0, <1>2 DEF MergeLock
  <2>4. cam_sync_init_row("GROUP").state # INVALID
    BY DEF cam_sync_init_row, ZeroRow, INVALID, ACTIVE
  <2>5. ~Dead(o)' /\ \A p \in Objs : p # o => (Dead(p)' <=> Dead(p))
    BY <2>1, <2>3, <2>4 DEF Dead, TypeOK
  <2> HIDE DEF l
  <2> QED BY <2>1, <2>2, <2>3, <2>5, KeepStep
<1>3. CASE MergeFinish(t)
  <2>0. PICK o \in Objs : o = th[t].obj
    BY <1>3 DEF MergeFinish, TypeOK, Local, Named
  <2>1. o \in Objs /\ Owns(t, o) /\ th[t].pc = "merge_child"
    BY <2>0, <1>3 DEF MergeFinish, TypeOK, Owns, Building
  <2>2. row[o] \in Row /\ row[o].state # INVALID
    BY <2>1 DEF TypeOK, OwnerInv, OwnersExclude
  <2>3. /\ row' = [row EXCEPT ![o] = Finished(@)]
        /\ th' = [th EXCEPT ![t] = Idle] /\ lock' = [lock EXCEPT ![o] = None]
        /\ bitmap' = bitmap
    BY <2>0, <1>3 DEF MergeFinish
  <2>4. Finished(row[o]).state # INVALID
    BY <2>2, NewState
  <2>5. ~Dead(o)' /\ \A p \in Objs : p # o => (Dead(p)' <=> Dead(p))
    BY <2>1, <2>3, <2>4 DEF Dead, TypeOK
  <2> QED BY <2>1, <2>3, <2>5, IdleOwnsNothing, ReleaseStep
<1>4. CASE MergeAbort(t)
  <2>0. PICK o \in Objs : o = th[t].obj
    BY <1>4 DEF MergeAbort, TypeOK, Local, Named
  <2>1. o \in Objs /\ Owns(t, o) /\ th[t].pc = "merge_clean"
    BY <2>0, <1>4 DEF MergeAbort, TypeOK, Owns, Building
  <2>2. row[o] \in Row
    BY <2>1 DEF TypeOK
  <2>3. row[o].state = INVALID
    BY <2>1 DEF OwnerInv, OwnersExclude
  <2>4. /\ row' = [row EXCEPT ![o].children_list = {}]
        /\ th' = [th EXCEPT ![t] = Idle] /\ lock' = [lock EXCEPT ![o] = None]
        /\ bitmap' = bitmap \ {o}
    BY <2>0, <1>4 DEF MergeAbort
  <2>5. [row[o] EXCEPT !.children_list = {}].state = row[o].state
    BY <2>2 DEF Row
  <2>6. Dead(o)' /\ \A p \in Objs : p # o => (Dead(p)' <=> Dead(p))
    BY <2>1, <2>3, <2>4, <2>5 DEF Dead, TypeOK
  <2> QED BY <2>1, <2>4, <2>6, IdleOwnsNothing, ReleaseStep
<1> QED BY <1>1, <1>2, <1>3, <1>4

\* cam_sync_init_group_object: the loops over the children
LEMMA MergeLoopOwner ==
  ASSUME TypeOK, OwnerInv, NEW t \in Threads, NEW c \in Objs, MergeChild(t, c) \/ MergeClean(t, c)
  PROVE  OwnerInv'
<1>o. PICK o \in Objs : o = th[t].obj
  BY DEF MergeChild, MergeClean, TypeOK, Local, Named
<1>0. th[t] \in Local /\ o \in Objs /\ Owns(t, o) /\ th[t].obj = o
  BY <1>o DEF MergeChild, MergeClean, TypeOK, Local, Named, Owns, Building
<1>1. row[c] \in Row /\ row[o] \in Row
  BY <1>0 DEF TypeOK
<1>2. Visited(th[t], c).pc = th[t].pc /\ Visited(th[t], c).obj = o
  BY <1>0 DEF Visited, Local, LocalFields
<1>3. bitmap' = bitmap /\ lock' = lock
  BY DEF MergeChild, MergeClean
<1>4. ASSUME \A p \in Objs : Dead(p)' <=> Dead(p),
             NEW x, th' = [th EXCEPT ![t] = x], x.pc = th[t].pc, x.obj = th[t].obj
      PROVE  OwnerInv'
  <2>1. th'[t] = x /\ \A u \in Threads : u # t => th'[u] = th[u]
    BY <1>4 DEF TypeOK
  <2> QED BY <1>3, <1>4, <2>1, NeutralStep
<1>5. CASE MergeChild(t, c) /\ MergeLink(t, c)
  <2>1. /\ row' = [row EXCEPT ![o] = AddChild(@, c), ![c] = AddParent(@, o)]
        /\ th' = [th EXCEPT ![t] = Visited(@, c)]
    BY <1>0, <1>5 DEF MergeLink
  <2>2. \A r \in Row : AddChild(r, c).state = r.state /\ AddParent(r, o).state = r.state
    BY KeepState
  <2>3. AddChild(row[o], c) \in Row
    BY <1>1, LinkType
  <2>4. \A p \in Objs : Dead(p)' <=> Dead(p)
    BY <1>0, <1>1, <2>1, <2>2, <2>3 DEF Dead, TypeOK
  <2> QED BY <1>0, <1>2, <1>4, <2>1, <2>4
<1>6. CASE MergeChild(t, c) /\ MergeSkip(t, c)
  <2>0. row[o].state # INVALID
    BY <1>0, <1>6 DEF MergeChild, OwnerInv, OwnersExclude
  <2>1. /\ row' = [row EXCEPT ![o] = Inherit(@, row[c].state)]
        /\ th' = [th EXCEPT ![t] = Visited(@, c)]
    BY <1>0, <1>6 DEF MergeSkip
  <2>2. Inherit(row[o], row[c].state).state # INVALID
    BY <1>1, <2>0, NewState
  <2>3. \A p \in Objs : Dead(p)' <=> Dead(p)
    BY <1>0, <2>0, <2>1, <2>2 DEF Dead, TypeOK
  <2> QED BY <1>0, <1>2, <1>4, <2>1, <2>3
<1>7. CASE MergeChild(t, c) /\ MergeFail(t, c)
  <2> DEFINE l == [th[t] EXCEPT !.pc = "merge_clean", !.todo = {}]
  <2>1. l.pc = "merge_clean" /\ l.obj = o
    BY <1>0 DEF Local, LocalFields
  <2>2. /\ \/ row' = [row EXCEPT ![o] = Fails(@, @.remaining)]
           \/ row' = [row EXCEPT ![o] = Fails(@, Inc(@.remaining))]
        /\ th' = [th EXCEPT ![t] = l]
    BY <1>0, <1>7 DEF MergeFail
  <2>3. \A k : Fails(row[o], k).state = INVALID
    BY <1>1, NewState
  <2>4. Dead(o)' /\ \A p \in Objs : p # o => (Dead(p)' <=> Dead(p))
    BY <1>0, <2>2, <2>3 DEF Dead, TypeOK
  <2>5. lock[o] = t
    BY <1>0, <1>7 DEF MergeChild, OwnerInv, OwnersExclude, Building
  <2>6. lock' = [lock EXCEPT ![o] = t]
    BY <1>0, <1>3, <2>5 DEF TypeOK
  <2> HIDE DEF l
  <2> QED BY <1>0, <1>3, <2>1, <2>2, <2>4, <2>6, KeepStep
<1>8. CASE MergeClean(t, c)
  <2>1. /\ row' = [row EXCEPT ![c] = DropParent(@, o)]
        /\ th' = [th EXCEPT ![t] = [th[t] EXCEPT !.done = @ \ {c}]]
    BY <1>0, <1>8 DEF MergeClean
  <2>2. DropParent(row[c], o).state = row[c].state
    BY <1>1, KeepState
  <2>3. \A p \in Objs : Dead(p)' <=> Dead(p)
    BY <2>1, <2>2 DEF Dead, TypeOK
  <2> DEFINE x == [th[t] EXCEPT !.done = @ \ {c}]
  <2>4. x.pc = th[t].pc /\ x.obj = th[t].obj
    BY <1>0 DEF Local, LocalFields
  <2>5. th' = [th EXCEPT ![t] = x]
    BY <2>1
  <2> HIDE DEF x
  <2> QED BY <1>4, <2>3, <2>4, <2>5
<1> QED BY <1>5, <1>6, <1>7, <1>8 DEF MergeChild

\* The first critical section of cam_sync_deinit_object
LEMMA DeinitRowOwner ==
  ASSUME TypeOK, OwnerInv, NEW t \in Threads, NEW o \in Objs, NEW l \in Local,
         DeinitRow(t, o, l), bitmap' = bitmap, lock' = lock, th[t].pc \notin Owning
  PROVE  OwnerInv'
<1>1. row[o] \in Row /\ Free(o) /\ ~Dead(o)
  BY DEF DeinitRow, TypeOK, Dead
<1>2. Emptied(row[o]).state = INVALID
  BY <1>1, NewState
<1>3. Dead(o)' /\ \A p \in Objs : p # o => (Dead(p)' <=> Dead(p))
  BY <1>2 DEF DeinitRow, Dead, TypeOK
<1> DEFINE x == [l EXCEPT !.pc = "destroy", !.obj = o, !.todo = row[o].children_list,
                          !.folks = row[o].parents_list]
<1>4. x.pc = "destroy" /\ x.obj = o
  BY DEF Local, LocalFields
<1>5. th' = [th EXCEPT ![t] = x]
  BY DEF DeinitRow
<1> HIDE DEF x
<1> QED BY <1>1, <1>3, <1>4, <1>5, SeizeStep

\* cam_sync_deinit_object
LEMMA DestroyOwner ==
  ASSUME TypeOK, OwnerInv, NEW t \in Threads,
         \/ DestroyFinish(t)
         \/ \E o \in Objs : Destroy(t, o) \/ DestroyChild(t, o) \/ DestroyParent(t, o)
  PROVE  OwnerInv'
<1>0. th[t] \in Local
  BY DEF TypeOK
<1>1. CASE DestroyFinish(t)
  <2>0. PICK o \in Objs : o = th[t].obj
    BY <1>1 DEF DestroyFinish, TypeOK, Local, Named
  <2>1. o \in Objs /\ Owns(t, o)
    BY <2>0, <1>1 DEF DestroyFinish, TypeOK, Local, Named, Owns, Destroying
  <2>2. /\ row' = [row EXCEPT ![o] = ZeroRow]
        /\ th' = [th EXCEPT ![t] = Return(@)] /\ lock' = lock /\ Free(o)
        /\ bitmap' = bitmap \ {o}
    BY <2>0, <1>1 DEF DestroyFinish
  <2>3. ZeroRow.state = INVALID
    BY DEF ZeroRow
  <2>4. Dead(o)' /\ \A p \in Objs : p # o => (Dead(p)' <=> Dead(p))
    BY <2>1, <2>2, <2>3 DEF Dead, TypeOK
  <2> QED BY <1>0, <2>1, <2>2, <2>4, IdleOwnsNothing, ReleaseStep
<1>2. ASSUME NEW o \in Objs, Destroy(t, o)  PROVE OwnerInv'
  BY <1>2, LocalType, DeinitRowOwner DEF Destroy, MayCall, Owning
<1>3. ASSUME NEW c \in Objs, DestroyChild(t, c) \/ DestroyParent(t, c)  PROVE OwnerInv'
  <2>1. row[c] \in Row /\ bitmap' = bitmap /\ lock' = lock
    BY <1>3 DEF DestroyChild, DestroyParent, TypeOK
  <2>2. /\ DropParent(row[c], th[t].obj).state = row[c].state
        /\ DropChild(row[c], th[t].obj).state = row[c].state
    BY <2>1, KeepState
  <2>3. \A p \in Objs : Dead(p)' <=> Dead(p)
    BY <1>3, <2>2 DEF DestroyChild, DestroyParent, Dead, TypeOK
  <2>4. \/ th' = [th EXCEPT ![t] = [th[t] EXCEPT !.todo = @ \ {c}]]
        \/ th' = [th EXCEPT ![t] = [th[t] EXCEPT !.folks = @ \ {c}]]
    BY <1>3 DEF DestroyChild, DestroyParent
  <2>5. /\ [th[t] EXCEPT !.todo = @ \ {c}].pc = th[t].pc
        /\ [th[t] EXCEPT !.todo = @ \ {c}].obj = th[t].obj
        /\ [th[t] EXCEPT !.folks = @ \ {c}].pc = th[t].pc
        /\ [th[t] EXCEPT !.folks = @ \ {c}].obj = th[t].obj
    BY <1>0 DEF Local, LocalFields
  <2>6. /\ th'[t].pc = th[t].pc /\ th'[t].obj = th[t].obj
        /\ \A u \in Threads : u # t => th'[u] = th[u]
    BY <2>4, <2>5 DEF TypeOK
  <2> QED BY <2>1, <2>3, <2>6, NeutralStep
<1> QED BY <1>1, <1>2, <1>3

\* The two sweeps of cam_sync_close
LEMMA SweepOwner ==
  ASSUME TypeOK, OwnerInv, NEW t \in Threads, NEW o \in Objs,
         CloseSignal(t, o) \/ CloseDestroy(t, o)
  PROVE  OwnerInv'
<1>0. /\ th[t] \in Local /\ th[t].pc \notin Owning /\ bitmap' = bitmap /\ lock' = lock
      /\ [th[t] EXCEPT !.sweep = @ \ {o}] \in Local
  BY VisitType DEF CloseSignal, CloseDestroy, TypeOK, Owning
<1>1. ASSUME th' = [th EXCEPT ![t].sweep = @ \ {o}], row' = row  PROVE OwnerInv'
  <2>1. [th[t] EXCEPT !.sweep = @ \ {o}].pc = th[t].pc
    BY <1>0 DEF Local, LocalFields
  <2>2. th'[t].pc = th[t].pc /\ \A u \in Threads : u # t => th'[u] = th[u]
    BY <1>1, <2>1 DEF TypeOK
  <2> QED BY <1>0, <1>1, <2>2, NeutralStep DEF Dead
<1>2. CASE CloseSignal(t, o)
  <2> DEFINE l == [th[t] EXCEPT !.sweep = @ \ {o}, !.ret = "close_signal"]
  <2>1. l \in Local /\ ERROR \in Settled
    BY <1>0 DEF Local, LocalFields, Settled
  <2>2. SignalRow(t, o, ERROR, l) \/ (th' = [th EXCEPT ![t].sweep = @ \ {o}] /\ row' = row)
    BY <1>2 DEF CloseSignal
  <2> HIDE DEF l
  <2> QED BY <1>0, <1>1, <2>1, <2>2, SignalRowOwner
<1>3. CASE CloseDestroy(t, o)
  <2> DEFINE l == [th[t] EXCEPT !.sweep = @ \ {o}, !.ret = "close_destroy"]
  <2>1. l \in Local
    BY <1>0 DEF Local, LocalFields
  <2>2. DeinitRow(t, o, l) \/ (th' = [th EXCEPT ![t].sweep = @ \ {o}] /\ row' = row)
    BY <1>3 DEF CloseDestroy
  <2> HIDE DEF l
  <2> QED BY <1>0, <1>1, <2>1, <2>2, DeinitRowOwner
<1> QED BY <1>2, <1>3

\* Callbacks and event reads touch neither ids nor threads.
LEMMA BackgroundOwner ==
  ASSUME OwnerInv, (\E w \in CbWork : CbDispatch(w)) \/ DequeueEvent \/ UNCHANGED vars
  PROVE  OwnerInv'
<1>1. bitmap' = bitmap /\ lock' = lock /\ row' = row /\ th' = th
  BY DEF CbDispatch, DequeueEvent, vars
<1> QED BY <1>1, NeutralStep DEF Dead

\* Initially no id is in use.
LEMMA InitOwner == Init => OwnerInv
<1> SUFFICES ASSUME Init PROVE OwnerInv
  OBVIOUS
<1>1. \A t \in Threads, o \in Objs : ~Owns(t, o) /\ ~Building(t)
  BY DEF Init, Owns, Reserving, Building, Destroying, Idle
<1>2. \A o \in Objs : row[o].state = INVALID /\ \A t \in Threads : lock[o] # t
  BY NoneAssumption DEF Init, ZeroRow
<1> QED BY <1>1, <1>2 DEF Init, OwnerInv, OwnersExclude, BitmapExact

\* Every step keeps ownership exact.
LEMMA StepOwner == TypeOK /\ OwnerInv /\ [Next]_vars => OwnerInv'
<1> SUFFICES ASSUME TypeOK, OwnerInv, [Next]_vars PROVE OwnerInv'
  OBVIOUS
<1>1. CASE (\E w \in CbWork : CbDispatch(w)) \/ DequeueEvent \/ UNCHANGED vars
  BY <1>1, BackgroundOwner
<1>2. ASSUME NEW t \in Threads, Step(t)  PROVE OwnerInv'
  BY <1>2, CreateOwner, SignalOwner, MergeOwner, MergeLoopOwner, DestroyOwner, QuietOwner,
     SweepOwner DEF Step
<1>3. ASSUME NEW t \in Threads, Call(t)  PROVE OwnerInv'
  BY <1>3, CreateOwner, RowOwner, SignalOwner, DestroyOwner, QuietOwner DEF Call
<1> QED BY <1>1, <1>2, <1>3 DEF Next

\* The lock-free reservation of ids in cam_sync_create and cam_sync_merge, the roll-back of
\* a failed merge and the two-step teardown of cam_sync_deinit_object never let two threads
\* own the same row, for any number of ids and threads and whatever the clients do.
THEOREM OneOwner == Spec => []OwnersExclude
<1>1. Init => TypeOK /\ OwnerInv
  BY InitTypeOK, InitOwner
<1>2. TypeOK /\ OwnerInv /\ [Next]_vars => (TypeOK /\ OwnerInv)'
  BY StepTypeOK, StepOwner
<1>3. OwnerInv => OwnersExclude
  BY DEF OwnerInv
<1> QED BY <1>1, <1>2, <1>3, PTL DEF Spec

\* The bitmap is exact: no id leaks on any path (failed merges and close included), and no
\* id is marked free while a row or a thread still uses it.
THEOREM NoIdLeaks == Spec => []BitmapExact
<1>1. Init => TypeOK /\ OwnerInv
  BY InitTypeOK, InitOwner
<1>2. TypeOK /\ OwnerInv /\ [Next]_vars => (TypeOK /\ OwnerInv)'
  BY StepTypeOK, StepOwner
<1>3. OwnerInv => BitmapExact
  BY DEF OwnerInv
<1> QED BY <1>1, <1>2, <1>3, PTL DEF Spec

-----------------------------------------------------------------------------
(* Callbacks and waiters                                                    *)

\* What NoCallbackStranded says of one row, r, whose lock is free or held
Released(r) == Complete(r) => r.signaled /\ r.callback_list = NoCbs
Quiet(r)    == r.callback_list = NoCbs

\* The fields NoCallbackStranded looks at
SameWake(r, s) == /\ r.state = s.state /\ r.remaining = s.remaining
                  /\ r.signaled = s.signaled /\ r.callback_list = s.callback_list

\* NoCallbackStranded, in these terms
LEMMA StrandedDef ==
  NoCallbackStranded <=> \A o \in Objs : IF Free(o) THEN Released(row[o]) ELSE Quiet(row[o])
BY DEF NoCallbackStranded, Released, Quiet

\* A step that changes one row
LEMMA OneRow ==
  ASSUME TypeOK, NoCallbackStranded, NEW o \in Objs, NEW r, row' = [row EXCEPT ![o] = r],
         \A p \in Objs : p # o => lock'[p] = lock[p],
         IF lock'[o] = None THEN Released(r) ELSE Quiet(r)
  PROVE  NoCallbackStranded'
<1>1. \A p \in Objs : p # o => row'[p] = row[p]
  BY DEF TypeOK
<1>2. row'[o] = r
  BY DEF TypeOK
<1> QED BY <1>1, <1>2 DEF NoCallbackStranded, Released, Quiet, Free, Complete

\* A step that leaves the table alone
LEMMA NoRow ==
  ASSUME NoCallbackStranded, row' = row, lock' = lock  PROVE NoCallbackStranded'
BY DEF NoCallbackStranded, Free, Complete

\* A step that changes other fields of one row
LEMMA SameRow ==
  ASSUME TypeOK, NoCallbackStranded, NEW o \in Objs, NEW r, row' = [row EXCEPT ![o] = r],
         lock' = lock, SameWake(r, row[o])
  PROVE  NoCallbackStranded'
<1>1. IF lock'[o] = None THEN Released(r) ELSE Quiet(r)
  BY DEF NoCallbackStranded, SameWake, Released, Quiet, Free, Complete
<1> QED BY <1>1, OneRow

\* The row operations, in these terms
LEMMA RowWake ==
  ASSUME NEW r \in Row, NEW c, NEW k
  PROVE  /\ SameWake(AddParent(r, c), r) /\ SameWake(DropChild(r, c), r)
         /\ SameWake(DropParent(r, c), r)
         /\ SameWake([r EXCEPT !.ref_cnt = k], r)
         /\ SameWake([r EXCEPT !.user_payload_list = k], r)
         /\ Released(Fails(r, k)) /\ Released(Emptied(r)) /\ Released(ZeroRow)
         /\ Quiet(r) => /\ Quiet(AddChild(r, c)) /\ Quiet(Inherit(r, k)) /\ Quiet(Fails(r, k))
<1>1. SameWake(AddParent(r, c), r) /\ SameWake(DropChild(r, c), r) /\ SameWake(DropParent(r, c), r)
  BY DEF Row, SameWake, AddParent, DropChild, DropParent
<1>2. SameWake([r EXCEPT !.ref_cnt = k], r) /\ SameWake([r EXCEPT !.user_payload_list = k], r)
  BY DEF Row, SameWake
<1>3. Released(Fails(r, k)) /\ Released(Emptied(r)) /\ Released(ZeroRow)
  BY DEF Row, Released, Complete, Fails, Emptied, ZeroRow, Settled, INVALID, SUCCESS, ERROR
<1>4. Quiet(r) => Quiet(AddChild(r, c)) /\ Quiet(Inherit(r, k)) /\ Quiet(Fails(r, k))
  BY DEF Row, Quiet, AddChild, Inherit, Fails
<1> QED BY <1>1, <1>2, <1>3, <1>4

\* New rows have no callbacks, and are not complete.
LEMMA InitRowWake ==
  ASSUME NEW type
  PROVE  Released(cam_sync_init_row(type)) /\ Quiet(cam_sync_init_row(type))
BY DEF Released, Quiet, Complete, cam_sync_init_row, ZeroRow, Settled, ACTIVE, SUCCESS, ERROR

\* A group that is finished with no active child releases its waiters.
LEMMA FinishedWake ==
  ASSUME NEW r \in Row, Quiet(r)  PROVE Released(Finished(r))
<1>1. CASE r.remaining # 0
  BY <1>1 DEF Released, Complete, Finished
<1>2. CASE r.remaining = 0
  BY <1>2 DEF Row, Released, Quiet, Finished
<1> QED BY <1>1, <1>2

\* Dispatching releases a row.
LEMMA DispatchedWake ==
  ASSUME NEW r \in Row, NEW k, NEW s, NEW P
  PROVE  /\ Released(DispatchedRow(r))
         /\ Released([DispatchedRow(r) EXCEPT !.ref_cnt = k, !.state = s, !.parents_list = P])
<1>1. DispatchedRow(r).signaled = TRUE /\ DispatchedRow(r).callback_list = NoCbs
  BY DEF Row, DispatchedRow
<1>2. DispatchedRow(r) \in Row
  BY DispatchedRowType
<1> DEFINE d == DispatchedRow(r)
<1> HIDE DEF d
<1>3. d \in Row /\ d.signaled = TRUE /\ d.callback_list = NoCbs
  BY <1>1, <1>2 DEF d
<1>4. [d EXCEPT !.ref_cnt = k, !.state = s, !.parents_list = P].signaled = TRUE
      /\ [d EXCEPT !.ref_cnt = k, !.state = s, !.parents_list = P].callback_list = NoCbs
  BY <1>3 DEF Row
<1> QED BY <1>1, <1>4 DEF Released, d

-----------------------------------------------------------------------------
(* The actions                                                              *)

\* cam_sync_register_callback and cam_sync_deregister_callback
LEMMA CallbackWake ==
  ASSUME TypeOK, NoCallbackStranded, NEW t \in Threads, NEW o \in Objs, NEW cb \in Cbs,
         RegisterCallback(t, o, cb) \/ DeregisterCallback(t, o, cb)
  PROVE  NoCallbackStranded'
<1>1. row[o] \in Row /\ Free(o) /\ lock' = lock
  BY DEF RegisterCallback, DeregisterCallback, TypeOK
<1>2. ASSUME NEW r, row' = [row EXCEPT ![o] = r], ~Complete(row[o]),
             r.state = row[o].state, r.remaining = row[o].remaining
      PROVE  NoCallbackStranded'
  <2>1. Released(r)
    BY <1>2 DEF Released, Complete
  <2> QED BY <1>1, <1>2, <2>1, OneRow DEF Free
<1>3. ASSUME NEW f
      PROVE  /\ [row[o] EXCEPT !.callback_list = f].state = row[o].state
             /\ [row[o] EXCEPT !.callback_list = f].remaining = row[o].remaining
  BY <1>1 DEF Row
<1>4. CASE RegisterCallback(t, o, cb)
  <2>1. CASE row' = row
    BY <1>1, <2>1, NoRow
  <2>2. CASE ~Complete(row[o]) /\ row' = [row EXCEPT ![o].callback_list[cb] = @ + 1]
    <3> DEFINE f == [row[o].callback_list EXCEPT ![cb] = @ + 1]
    <3>1. row' = [row EXCEPT ![o] = [row[o] EXCEPT !.callback_list = f]]
      BY <1>1, <2>2
    <3> QED BY <1>2, <1>3, <2>2, <3>1
  <2> QED BY <1>4, <2>1, <2>2 DEF RegisterCallback
<1>5. CASE DeregisterCallback(t, o, cb)
  <2>1. ~Complete(row[o])
    <3>1. row[o].callback_list[cb] > 0
      BY <1>5 DEF DeregisterCallback
    <3>2. NoCbs[cb] = 0
      BY DEF NoCbs
    <3>3. row[o].callback_list # NoCbs
      BY <3>1, <3>2
    <3> QED BY <1>1, <3>3 DEF NoCallbackStranded
  <2> DEFINE f == [row[o].callback_list EXCEPT ![cb] = 0]
  <2>2. row' = [row EXCEPT ![o] = [row[o] EXCEPT !.callback_list = f]]
    BY <1>1, <1>5 DEF DeregisterCallback
  <2> QED BY <1>2, <1>3, <2>1, <2>2
<1> QED BY <1>4, <1>5

\* References and payloads
LEMMA FieldWake ==
  ASSUME TypeOK, NoCallbackStranded, NEW t \in Threads, NEW o \in Objs,
         \/ GetObjRef(t, o) \/ PutObjRef(t, o) \/ UmdSignalRejected(t, o)
         \/ \E pl \in Payloads : RegisterPayload(t, o, pl) \/ DeregisterPayload(t, o, pl)
         \/ \E s \in Settled : UmdSignalGetRef(t, o, s)
  PROVE  NoCallbackStranded'
<1>1. row[o] \in Row /\ lock' = lock
  BY DEF GetObjRef, PutObjRef, UmdSignalRejected,
         RegisterPayload, DeregisterPayload, UmdSignalGetRef, TypeOK
<1>2. \/ row' = row
      \/ \E k : row' = [row EXCEPT ![o] = [row[o] EXCEPT !.ref_cnt = k]]
      \/ \E k : row' = [row EXCEPT ![o] = [row[o] EXCEPT !.user_payload_list = k]]
  <2>1. CASE \/ GetObjRef(t, o) \/ PutObjRef(t, o) \/ UmdSignalRejected(t, o)
             \/ \E s \in Settled : UmdSignalGetRef(t, o, s)
    <3>1. \/ row' = [row EXCEPT ![o].ref_cnt = @ + 1]
          \/ row' = [row EXCEPT ![o].ref_cnt = @ - 1]
      BY <2>1 DEF GetObjRef, PutObjRef, UmdSignalRejected, UmdSignalGetRef
    <3>2. \/ row' = [row EXCEPT ![o] = [row[o] EXCEPT !.ref_cnt = row[o].ref_cnt + 1]]
          \/ row' = [row EXCEPT ![o] = [row[o] EXCEPT !.ref_cnt = row[o].ref_cnt - 1]]
      BY <3>1
    <3> QED BY <3>2
  <2>2. ASSUME NEW pl \in Payloads, RegisterPayload(t, o, pl) \/ DeregisterPayload(t, o, pl)
        PROVE  row' = row \/ \E k : row' = [row EXCEPT ![o] = [row[o] EXCEPT !.user_payload_list = k]]
    <3> DEFINE a == Append(row[o].user_payload_list, pl)
               b == Without(row[o].user_payload_list, pl)
    <3>1. \/ row' = row
          \/ row' = [row EXCEPT ![o] = [row[o] EXCEPT !.user_payload_list = a]]
          \/ row' = [row EXCEPT ![o] = [row[o] EXCEPT !.user_payload_list = b]]
      BY <2>2 DEF RegisterPayload, DeregisterPayload
    <3> HIDE DEF a, b
    <3> QED BY <3>1
  <2> QED BY <2>1, <2>2
<1>3. \A k : /\ SameWake([row[o] EXCEPT !.ref_cnt = k], row[o])
             /\ SameWake([row[o] EXCEPT !.user_payload_list = k], row[o])
  BY <1>1, RowWake
<1> QED BY <1>1, <1>2, <1>3, NoRow, SameRow

\* Steps that leave the table alone
LEMMA QuietWake ==
  ASSUME NoCallbackStranded,
         \/ UNCHANGED vars \/ DequeueEvent \/ \E w \in CbWork : CbDispatch(w)
         \/ \E t \in Threads :
              \/ CreateReserve(t) \/ MergeReserve(t) \/ Open(t) \/ CloseBegin(t)
              \/ CloseFlushBegin(t) \/ CloseFlushEnd(t) \/ CloseUnlock(t) \/ CloseNull(t)
              \/ WaitWoken(t) \/ WaitTimeout(t)
              \/ \E o \in Objs : WaitBegin(t, o) \/ MergeCheckValid(t, o)
              \/ \E S \in SUBSET Objs : MergeBegin(t, S)
  PROVE  NoCallbackStranded'
<1>1. row' = row /\ lock' = lock
  BY DEF vars, DequeueEvent, CbDispatch, CreateReserve, MergeReserve, Open, CloseBegin,
         CloseFlushBegin, CloseFlushEnd, CloseUnlock, CloseNull, WaitWoken, WaitTimeout,
         WaitBegin, MergeCheckValid, MergeBegin
<1> QED BY <1>1, NoRow

\* The critical section of cam_sync_signal
LEMMA SignalRowWake ==
  ASSUME TypeOK, NoCallbackStranded, NEW t \in Threads, NEW o \in Objs, NEW s, NEW l,
         SignalRow(t, o, s, l), lock' = lock
  PROVE  NoCallbackStranded'
<1>1. row[o] \in Row /\ Free(o)
  BY DEF SignalRow, TypeOK
<1>2. CASE row' = [row EXCEPT ![o].ref_cnt = @ - 1]
  <2>1. row' = [row EXCEPT ![o] = [row[o] EXCEPT !.ref_cnt = row[o].ref_cnt - 1]]
    BY <1>2
  <2>2. SameWake([row[o] EXCEPT !.ref_cnt = row[o].ref_cnt - 1], row[o])
    BY <1>1, RowWake
  <2> QED BY <2>1, <2>2, SameRow
<1>3. CASE row' = [row EXCEPT ![o] = [DispatchedRow(@) EXCEPT !.ref_cnt = 0, !.state = s,
                                                              !.parents_list = {}]]
  <2> DEFINE r == [DispatchedRow(row[o]) EXCEPT !.ref_cnt = 0, !.state = s, !.parents_list = {}]
  <2>1. Released(r)
    BY <1>1, DispatchedWake
  <2>2. row' = [row EXCEPT ![o] = r]
    BY <1>3
  <2> HIDE DEF r
  <2> QED BY <1>1, <2>1, <2>2, OneRow DEF Free
<1> QED BY <1>2, <1>3 DEF SignalRow

\* cam_sync_signal reaches the parents: the last report releases the group.
LEMMA SignalParentWake ==
  ASSUME TypeOK, NoCallbackStranded, NEW t \in Threads, NEW p \in Objs, SignalParent(t, p)
  PROVE  NoCallbackStranded'
<1> DEFINE r == [row[p] EXCEPT !.remaining = Dec(@),
                               !.state = UpdateParentState(@, th[t].st)]
<1>1. row[p] \in Row /\ th[t].st \in Settled
  BY DEF SignalParent, TypeOK, Local
<1>2. row[p].state \in States /\ row[p].remaining \in 0 .. Wrap - 1
  BY <1>1 DEF Row
<1>3. Dec(row[p].remaining) \in 0 .. Wrap - 1
  BY <1>2, CountType
<1>4. UpdateParentState(row[p].state, th[t].st) \in States
  BY <1>1, <1>2 DEF UpdateParentState, States, Settled
<1>5. r \in Row
  BY <1>1, <1>3, <1>4 DEF Row
<1>6. /\ Free(p) /\ lock' = lock
      /\ \/ row' = [row EXCEPT ![p] = DispatchedRow(r)]
         \/ (r.state = INVALID \/ r.remaining # 0) /\ row' = [row EXCEPT ![p] = r]
  BY DEF SignalParent
<1> HIDE DEF r
<1>7. Released(DispatchedRow(r))
  BY <1>5, DispatchedWake
<1>8. r.state = INVALID \/ r.remaining # 0 => Released(r)
  BY DEF Released, Complete, Settled, INVALID, SUCCESS, ERROR
<1> QED BY <1>6, <1>7, <1>8, OneRow DEF Free

\* cam_sync_merge
LEMMA MergeWake ==
  ASSUME TypeOK, OwnerInv, NoCallbackStranded, NEW t \in Threads,
         MergeLock(t) \/ MergeFinish(t) \/ MergeAbort(t)
  PROVE  NoCallbackStranded'
<1>1. PICK o \in Objs : o = th[t].obj
  BY DEF MergeLock, MergeFinish, MergeAbort, TypeOK, Local, Named
<1>2. row[o] \in Row /\ t # None
  BY NoneAssumption DEF TypeOK
<1>3. CASE MergeLock(t)
  <2>1. row' = [row EXCEPT ![o] = cam_sync_init_row("GROUP")] /\ lock' = [lock EXCEPT ![o] = t]
    BY <1>1, <1>3 DEF MergeLock
  <2>2. lock'[o] = t /\ \A p \in Objs : p # o => lock'[p] = lock[p]
    BY <2>1 DEF TypeOK
  <2> QED BY <1>2, <2>1, <2>2, InitRowWake, OneRow
<1>4. CASE MergeFinish(t) \/ MergeAbort(t)
  <2>1. lock[o] = t
    BY <1>1, <1>4 DEF MergeFinish, MergeAbort, OwnerInv, OwnersExclude, Building
  <2>2. Quiet(row[o])
    BY <1>2, <2>1 DEF NoCallbackStranded, Quiet, Free
  <2>3. lock' = [lock EXCEPT ![o] = None]
    BY <1>1, <1>4 DEF MergeFinish, MergeAbort
  <2>4. lock'[o] = None /\ \A p \in Objs : p # o => lock'[p] = lock[p]
    BY <2>3 DEF TypeOK
  <2>5. CASE MergeFinish(t)
    <3>1. row' = [row EXCEPT ![o] = Finished(row[o])]
      BY <1>1, <2>5 DEF MergeFinish
    <3>2. Released(Finished(row[o]))
      BY <1>2, <2>2, FinishedWake
    <3> QED BY <2>4, <3>1, <3>2, OneRow
  <2>6. CASE MergeAbort(t)
    <3> DEFINE r == [row[o] EXCEPT !.children_list = {}]
    <3>1. row' = [row EXCEPT ![o] = r]
      BY <1>1, <2>6 DEF MergeAbort
    <3>2. row[o].state = INVALID
      BY <1>1, <2>6 DEF MergeAbort, OwnerInv, OwnersExclude, Owns, Building
    <3>3. r.state = INVALID
      BY <1>2, <3>2 DEF Row
    <3>4. Released(r)
      BY <3>3 DEF Released, Complete, Settled, INVALID, SUCCESS, ERROR
    <3> HIDE DEF r
    <3> QED BY <2>4, <3>1, <3>4, OneRow
  <2> QED BY <1>4, <2>5, <2>6
<1> QED BY <1>3, <1>4

\* The loops of cam_sync_init_group_object: only the locked group's own row, and the
\* parents_list of a child, change.
LEMMA MergeLoopWake ==
  ASSUME TypeOK, OwnerInv, NoCallbackStranded, NEW t \in Threads, NEW c \in Objs,
         MergeChild(t, c) \/ MergeClean(t, c)
  PROVE  NoCallbackStranded'
<1>1. PICK o \in Objs : o = th[t].obj
  BY DEF MergeChild, MergeClean, TypeOK, Local, Named
<1>2. row[o] \in Row /\ row[c] \in Row /\ t # None /\ lock' = lock /\ Free(c)
  BY NoneAssumption DEF TypeOK, MergeChild, MergeClean
<1>3. lock[o] = t
  BY <1>1 DEF MergeChild, MergeClean, OwnerInv, OwnersExclude, Building
<1>4. Quiet(row[o]) /\ c # o
  BY <1>2, <1>3 DEF NoCallbackStranded, Quiet, Free
<1>5. SameWake(AddParent(row[c], o), row[c]) /\ SameWake(DropParent(row[c], o), row[c])
  BY <1>2, RowWake
<1>6. CASE MergeChild(t, c) /\ MergeLink(t, c)
  <2>1. row' = [row EXCEPT ![o] = AddChild(@, c), ![c] = AddParent(@, o)]
    BY <1>1, <1>6 DEF MergeLink
  <2>2. /\ row'[o] = AddChild(row[o], c) /\ row'[c] = AddParent(row[c], o)
        /\ \A p \in Objs : p # o /\ p # c => row'[p] = row[p]
    BY <1>4, <2>1 DEF TypeOK
  <2>3. Quiet(row'[o])
    BY <1>2, <1>4, <2>2, RowWake
  <2>4. SameWake(row'[c], row[c])
    BY <1>5, <2>2
  <2>5. \A p \in Objs : p # o /\ p # c =>
          /\ lock[p] = None /\ Complete(row[p])' => row'[p].signaled /\ row'[p].callback_list = NoCbs
          /\ lock[p] # None => row'[p].callback_list = NoCbs
    BY <2>2 DEF NoCallbackStranded, Free, Complete
  <2>6. Complete(row[c])' => row'[c].signaled /\ row'[c].callback_list = NoCbs
    BY <1>2, <2>4 DEF NoCallbackStranded, SameWake, Complete
  <2> QED BY <1>2, <1>3, <2>3, <2>5, <2>6 DEF NoCallbackStranded, Quiet, Free
<1>7. ASSUME NEW r, row' = [row EXCEPT ![o] = r], Quiet(r)  PROVE NoCallbackStranded'
  BY <1>2, <1>3, <1>7, OneRow
<1>8. CASE MergeChild(t, c) /\ MergeSkip(t, c)
  <2>1. row' = [row EXCEPT ![o] = Inherit(row[o], row[c].state)]
    BY <1>1, <1>8 DEF MergeSkip
  <2>2. Quiet(Inherit(row[o], row[c].state))
    BY <1>2, <1>4, RowWake
  <2> QED BY <1>7, <2>1, <2>2
<1>9. CASE MergeChild(t, c) /\ MergeFail(t, c)
  <2>1. \E k : row' = [row EXCEPT ![o] = Fails(row[o], k)]
    BY <1>1, <1>9 DEF MergeFail
  <2>2. \A k : Quiet(Fails(row[o], k))
    BY <1>2, <1>4, RowWake
  <2> QED BY <1>7, <2>1, <2>2
<1>10. CASE MergeClean(t, c)
  <2>1. row' = [row EXCEPT ![c] = DropParent(row[c], o)]
    BY <1>1, <1>10 DEF MergeClean
  <2> QED BY <1>2, <1>5, <2>1, SameRow
<1> QED BY <1>6, <1>8, <1>9, <1>10 DEF MergeChild

\* cam_sync_create, and the end of cam_sync_deinit_object
LEMMA FreshWake ==
  ASSUME TypeOK, NoCallbackStranded, NEW t \in Threads, CreateInit(t) \/ DestroyFinish(t)
  PROVE  NoCallbackStranded'
<1>1. PICK o \in Objs : o = th[t].obj
  BY DEF CreateInit, DestroyFinish, TypeOK, Local, Named
<1>2. row[o] \in Row
  BY DEF TypeOK
<1>3. /\ Free(o) /\ lock' = lock
      /\ \/ row' = [row EXCEPT ![o] = cam_sync_init_row("INDV")]
         \/ row' = [row EXCEPT ![o] = ZeroRow]
  BY <1>1 DEF CreateInit, DestroyFinish
<1>4. Released(cam_sync_init_row("INDV")) /\ Released(ZeroRow)
  BY <1>2, InitRowWake, RowWake
<1> QED BY <1>3, <1>4, OneRow DEF Free

\* The rest of cam_sync_deinit_object
LEMMA DestroyWake ==
  ASSUME TypeOK, NoCallbackStranded, NEW t \in Threads, NEW c \in Objs,
         \/ Destroy(t, c) \/ DestroyChild(t, c) \/ DestroyParent(t, c)
         \/ CloseDestroy(t, c)
  PROVE  NoCallbackStranded'
<1>1. row[c] \in Row /\ lock' = lock
  BY DEF Destroy, DestroyChild, DestroyParent, CloseDestroy, TypeOK
<1>2. ASSUME NEW l, DeinitRow(t, c, l)  PROVE NoCallbackStranded'
  <2>1. row' = [row EXCEPT ![c] = Emptied(row[c])] /\ Free(c)
    BY <1>2 DEF DeinitRow
  <2>2. Released(Emptied(row[c]))
    BY <1>1, RowWake
  <2> QED BY <1>1, <2>1, <2>2, OneRow DEF Free
<1>3. CASE Destroy(t, c)
  BY <1>2, <1>3 DEF Destroy
<1>4. CASE CloseDestroy(t, c)
  <2>1. row' = row \/ \E l : DeinitRow(t, c, l)
    BY <1>4 DEF CloseDestroy
  <2> QED BY <1>1, <1>2, <2>1, NoRow
<1>5. CASE DestroyChild(t, c) \/ DestroyParent(t, c)
  <2>1. \/ row' = row
        \/ row' = [row EXCEPT ![c] = DropParent(row[c], th[t].obj)]
        \/ row' = [row EXCEPT ![c] = DropChild(row[c], th[t].obj)]
    BY <1>5 DEF DestroyChild, DestroyParent
  <2>2. /\ SameWake(DropParent(row[c], th[t].obj), row[c])
        /\ SameWake(DropChild(row[c], th[t].obj), row[c])
    BY <1>1, RowWake
  <2> QED BY <1>1, <2>1, <2>2, NoRow, SameRow
<1> QED BY <1>3, <1>4, <1>5

\* Callers of cam_sync_signal
LEMMA SignalWake ==
  ASSUME TypeOK, NoCallbackStranded, NEW t \in Threads,
         \/ UmdSignal(t)
         \/ \E o \in Objs : CloseSignal(t, o) \/ \E s \in Settled : Signal(t, o, s)
  PROVE  NoCallbackStranded'
<1>1. lock' = lock
  BY DEF UmdSignal, CloseSignal, Signal
<1>2. row' = row \/ \E o \in Objs : \E s, l : SignalRow(t, o, s, l)
  <2>1. CASE UmdSignal(t)
    <3>1. th[t].obj \in Objs
      BY <2>1 DEF UmdSignal, TypeOK, Local, Named
    <3> QED BY <2>1, <3>1 DEF UmdSignal
  <2>2. ASSUME NEW o \in Objs, CloseSignal(t, o)
        PROVE  row' = row \/ \E s, l : SignalRow(t, o, s, l)
    BY <2>2 DEF CloseSignal
  <2>3. ASSUME NEW o \in Objs, NEW s \in Settled, Signal(t, o, s)
        PROVE  SignalRow(t, o, s, Idle)
    BY <2>3 DEF Signal
  <2> QED BY <2>1, <2>2, <2>3
<1> QED BY <1>1, <1>2, NoRow, SignalRowWake

\* Every step keeps NoCallbackStranded.
LEMMA StepWake ==
  TypeOK /\ OwnerInv /\ NoCallbackStranded /\ [Next]_vars => NoCallbackStranded'
<1> SUFFICES ASSUME TypeOK, OwnerInv, NoCallbackStranded, [Next]_vars
             PROVE  NoCallbackStranded'
  OBVIOUS
<1>1. CASE (\E w \in CbWork : CbDispatch(w)) \/ DequeueEvent \/ UNCHANGED vars
  BY <1>1, QuietWake
<1>2. ASSUME NEW t \in Threads, Step(t)  PROVE NoCallbackStranded'
  BY <1>2, FreshWake, SignalWake, SignalParentWake, MergeWake, MergeLoopWake, DestroyWake,
     QuietWake DEF Step
<1>3. ASSUME NEW t \in Threads, Call(t)  PROVE NoCallbackStranded'
  BY <1>3, CallbackWake, FieldWake, SignalWake, DestroyWake, QuietWake DEF Call
<1> QED BY <1>1, <1>2, <1>3 DEF Next

\* No lost wakeup in the sync driver, for any number of fences, threads and callbacks and
\* whatever the clients do: cam_sync_register_callback tests "complete" and queues under
\* the row lock, so no interleaving with cam_sync_signal, with the last report to a group
\* or with cam_sync_merge leaves a callback or a waiter on a complete fence.
THEOREM NoLostWakeup == Spec => []NoCallbackStranded
<1>1. Init => TypeOK /\ OwnerInv /\ NoCallbackStranded
  <2>1. Init => NoCallbackStranded
    BY DEF Init, NoCallbackStranded, Free, Complete, ZeroRow, Settled, INVALID, SUCCESS, ERROR
  <2> QED BY <2>1, InitTypeOK, InitOwner
<1>2. TypeOK /\ OwnerInv /\ NoCallbackStranded /\ [Next]_vars
        => (TypeOK /\ OwnerInv /\ NoCallbackStranded)'
  BY StepTypeOK, StepOwner, StepWake
<1> QED BY <1>1, <1>2, PTL DEF Spec

-----------------------------------------------------------------------------
(* Links between groups and children                                        *)

\* The builder of a group has visited every child the group lists.
GroupBuilt ==
  \A t \in Threads : th[t].pc = "merge_child" =>
    row[th[t].obj].type = "GROUP" /\ row[th[t].obj].children_list \subseteq th[t].done

LinkInv == ParentLinksLive /\ GroupBuilt

\* The thread that takes group g away still has child c to visit.
Unlinking(t, c, g) == th[t].obj = g /\ \/ th[t].pc = "destroy" /\ c \in th[t].todo
                                       \/ th[t].pc = "merge_clean" /\ c \in th[t].done

\* The fields of a row that the links depend on; parents may have been dropped.
SameLinks(r, s) == /\ r.type = s.type /\ (r.state = INVALID <=> s.state = INVALID)
                   /\ r.children_list = s.children_list
                   /\ r.parents_list \subseteq s.parents_list

\* The fields of a row that tell about its relatives and its outcome
SameKin(r, s) == /\ r.type = s.type /\ r.state = s.state /\ r.remaining = s.remaining
                 /\ r.children_list = s.children_list /\ r.parents_list = s.parents_list

\* The loops over parents and children; a step that begins, ends and advances none
Looping == {"signal_parents", "merge_child", "merge_clean", "destroy"}
StillLooping == \A u \in Threads : th'[u] = th[u] \/ (th[u].pc \notin Looping /\ th'[u].pc \notin Looping)

\* ParentLinksLive, in these terms
LEMMA LinksDef ==
  ParentLinksLive <=>
    \A c \in Objs : \A g \in row[c].parents_list :
      /\ row[c].state # INVALID /\ row[c].type = "INDV" /\ row[g].type = "GROUP"
      /\ \/ row[g].state # INVALID /\ c \in row[g].children_list
         \/ \E t \in Threads : Unlinking(t, c, g)
BY DEF ParentLinksLive, Unlinking

\* An INVALID row has no parents, and a thread that unlinks owns the group, which is INVALID.
LEMMA DeadLinks ==
  ASSUME OwnerInv, LinkInv, NEW o \in Objs
  PROVE  /\ Dead(o) => row[o].parents_list = {}
         /\ \A u \in Threads, c \in Objs : Unlinking(u, c, o) => Owns(u, o) /\ Dead(o)
<1>1. Dead(o) => row[o].parents_list = {}
  BY DEF LinkInv, ParentLinksLive, Dead
<1>2. ASSUME NEW u \in Threads, NEW c \in Objs, Unlinking(u, c, o)
      PROVE  Owns(u, o) /\ Dead(o)
  <2>1. Owns(u, o) /\ th[u].pc # "merge_child"
    BY <1>2 DEF Unlinking, Owns, Building, Destroying
  <2> QED BY <2>1 DEF OwnerInv, OwnersExclude, Dead
<1> QED BY <1>1, <1>2

\* No link names an INVALID row whose owner has nothing left to unlink.
LEMMA NoLinkTo ==
  ASSUME OwnerInv, LinkInv, NEW t \in Threads, NEW o \in Objs, Owns(t, o), Dead(o),
         \A c \in Objs : ~Unlinking(t, c, o)
  PROVE  \A c \in Objs : o \notin row[c].parents_list
<1> SUFFICES ASSUME NEW c \in Objs, o \in row[c].parents_list PROVE FALSE
  OBVIOUS
<1>1. PICK u \in Threads : Unlinking(u, c, o)
  BY LinksDef DEF LinkInv, Dead
<1>2. Owns(u, o)
  BY <1>1, DeadLinks
<1>3. u = t
  BY <1>2 DEF OwnerInv, OwnersExclude
<1> QED BY <1>1, <1>3

\* A step that keeps the lists, or only drops parents, and neither begins nor ends a loop
\* over the children
LEMMA NeutralLinks ==
  ASSUME LinkInv, TypeOK, \A o \in Objs : SameLinks(row'[o], row[o]),
         \A u \in Threads : \/ th'[u] = th[u]
                            \/ /\ th[u].pc \notin {"destroy", "merge_clean"}
                               /\ \/ th'[u].pc # "merge_child"
                                  \/ /\ th[u].pc = "merge_child" /\ th'[u].obj = th[u].obj
                                     /\ th[u].done \subseteq th'[u].done
  PROVE  LinkInv'
<1>1. ASSUME NEW c \in Objs, NEW g \in Objs, NEW u \in Threads, Unlinking(u, c, g)
      PROVE  Unlinking(u, c, g)'
  BY <1>1 DEF Unlinking
<1>2. ParentLinksLive'
  <2> SUFFICES ASSUME NEW c \in Objs, NEW g \in row'[c].parents_list
               PROVE  /\ row'[c].state # INVALID /\ row'[c].type = "INDV" /\ row'[g].type = "GROUP"
                      /\ \/ row'[g].state # INVALID /\ c \in row'[g].children_list
                         \/ \E t \in Threads : Unlinking(t, c, g)'
    BY DEF ParentLinksLive, Unlinking
  <2>1. g \in row[c].parents_list /\ g \in Objs
    BY DEF SameLinks, TypeOK, Row
  <2>2. /\ row[c].state # INVALID /\ row[c].type = "INDV" /\ row[g].type = "GROUP"
        /\ \/ row[g].state # INVALID /\ c \in row[g].children_list
           \/ \E t \in Threads : Unlinking(t, c, g)
    BY <2>1, LinksDef DEF LinkInv
  <2>3. SameLinks(row'[c], row[c]) /\ SameLinks(row'[g], row[g])
    BY <2>1
  <2> QED BY <1>1, <2>1, <2>2, <2>3 DEF SameLinks
<1>3. GroupBuilt'
  <2> SUFFICES ASSUME NEW u \in Threads, th'[u].pc = "merge_child"
               PROVE  /\ row'[th'[u].obj].type = "GROUP"
                      /\ row'[th'[u].obj].children_list \subseteq th'[u].done
    BY DEF GroupBuilt
  <2>1. th[u].pc = "merge_child" /\ th'[u].obj = th[u].obj /\ th[u].done \subseteq th'[u].done
    OBVIOUS
  <2>2. th[u].obj \in Objs
    BY <2>1 DEF TypeOK, Local, Named
  <2>3. SameLinks(row'[th[u].obj], row[th[u].obj])
    BY <2>2
  <2> QED BY <2>1, <2>3 DEF LinkInv, GroupBuilt, SameLinks
<1> QED BY <1>2, <1>3 DEF LinkInv

\* The same for a step of thread t that changes one row
LEMMA NeutralRow ==
  ASSUME LinkInv, TypeOK, NEW t \in Threads, NEW o \in Objs, NEW r, SameLinks(r, row[o]),
         row' = [row EXCEPT ![o] = r],
         NEW x, th' = [th EXCEPT ![t] = x],
         x.pc # "merge_child", th[t].pc \notin {"destroy", "merge_clean"}
  PROVE  LinkInv'
<1>1. \A u \in Threads : u # t => th'[u] = th[u]
  BY DEF TypeOK
<1>2. th'[t] = x
  BY DEF TypeOK
<1>3. \A p \in Objs : SameLinks(row'[p], row[p])
  BY DEF SameLinks, TypeOK
<1> QED BY <1>1, <1>2, <1>3, NeutralLinks

\* The same for a step of thread t that leaves the table alone
LEMMA NeutralThread ==
  ASSUME LinkInv, TypeOK, NEW t \in Threads, row' = row, NEW x, th' = [th EXCEPT ![t] = x],
         x.pc # "merge_child", th[t].pc \notin {"destroy", "merge_clean"}
  PROVE  LinkInv'
<1>1. \A u \in Threads : u # t => th'[u] = th[u]
  BY DEF TypeOK
<1>2. th'[t] = x
  BY DEF TypeOK
<1>3. \A p \in Objs : SameLinks(row'[p], row[p])
  BY DEF SameLinks
<1> QED BY <1>1, <1>2, <1>3, NeutralLinks

\* The fields the links do not depend on
LEMMA FieldLinks ==
  ASSUME NEW r \in Row, NEW k
  PROVE  /\ SameLinks([r EXCEPT !.ref_cnt = k], r)
         /\ SameLinks([r EXCEPT !.user_payload_list = k], r)
         /\ SameLinks([r EXCEPT !.callback_list = k], r)
         /\ SameLinks(DispatchedRow(r), r)
BY DEF Row, SameLinks, DispatchedRow

\* Steps that leave the table alone begin and end no loop over parents or children.
LEMMA QuietThreads ==
  ASSUME TypeOK,
         \/ UNCHANGED vars \/ DequeueEvent \/ \E w \in CbWork : CbDispatch(w)
         \/ \E t \in Threads :
              \/ CreateReserve(t) \/ MergeReserve(t) \/ Open(t) \/ CloseBegin(t)
              \/ CloseFlushBegin(t) \/ CloseFlushEnd(t) \/ CloseUnlock(t) \/ CloseNull(t)
              \/ WaitWoken(t) \/ WaitTimeout(t)
              \/ \E o \in Objs : WaitBegin(t, o) \/ MergeCheckValid(t, o)
              \/ \E S \in SUBSET Objs : MergeBegin(t, S)
  PROVE  row' = row /\ lock' = lock /\ StillLooping
<1>1. row' = row /\ lock' = lock
  BY DEF vars, DequeueEvent, CbDispatch, CreateReserve, MergeReserve, Open, CloseBegin,
         CloseFlushBegin, CloseFlushEnd, CloseUnlock, CloseNull, WaitWoken, WaitTimeout,
         WaitBegin, MergeCheckValid, MergeBegin
<1>2. CASE th' = th
  BY <1>1, <1>2 DEF StillLooping
<1>3. ASSUME NEW t \in Threads, NEW x, th' = [th EXCEPT ![t] = x], x.pc \notin Looping,
             th[t].pc \notin Looping
      PROVE  StillLooping
  BY <1>3 DEF StillLooping, TypeOK
<1>4. CASE UNCHANGED vars \/ DequeueEvent \/ (\E w \in CbWork : CbDispatch(w))
           \/ \E t \in Threads : Open(t)
  BY <1>1, <1>2, <1>4 DEF vars, DequeueEvent, CbDispatch, Open
<1>5. ASSUME NEW t \in Threads, CreateReserve(t) \/ MergeReserve(t)  PROVE StillLooping
  <2>1. th[t].pc \notin Looping /\ th[t] \in Local
    BY <1>5 DEF CreateReserve, MergeReserve, MayCall, TypeOK, Looping
  <2>2. /\ \A o : [Idle EXCEPT !.pc = "create_init", !.obj = o].pc \notin Looping
        /\ \A o : [th[t] EXCEPT !.pc = "merge_lock", !.obj = o].pc \notin Looping
        /\ Idle.pc \notin Looping
    BY <2>1 DEF Idle, Local, LocalFields, Looping
  <2>3. \/ \E o : th' = [th EXCEPT ![t] = [Idle EXCEPT !.pc = "create_init", !.obj = o]]
        \/ \E o : th' = [th EXCEPT ![t] = [th[t] EXCEPT !.pc = "merge_lock", !.obj = o]]
        \/ th' = [th EXCEPT ![t] = Idle]
    BY <1>5 DEF CreateReserve, MergeReserve
  <2>4. PICK x : th' = [th EXCEPT ![t] = x] /\ x.pc \notin Looping
    BY <2>2, <2>3
  <2> QED BY <1>3, <2>1, <2>4
<1>6. ASSUME NEW t \in Threads,
             \/ CloseBegin(t) \/ CloseFlushBegin(t) \/ CloseFlushEnd(t) \/ CloseUnlock(t)
             \/ CloseNull(t) \/ WaitWoken(t) \/ WaitTimeout(t)
      PROVE  StillLooping
  <2>1. th[t].pc \notin Looping
    BY <1>6 DEF CloseBegin, CloseFlushBegin, CloseFlushEnd, CloseUnlock, CloseNull, WaitWoken,
                WaitTimeout, MayCall, Looping
  <2>2. /\ [Idle EXCEPT !.pc = "close_signal", !.sweep = Objs].pc \notin Looping
        /\ [Idle EXCEPT !.pc = "close_flush"].pc \notin Looping
        /\ [Idle EXCEPT !.pc = "close_destroy", !.sweep = Objs].pc \notin Looping
        /\ [Idle EXCEPT !.pc = "close_null"].pc \notin Looping
        /\ Idle.pc \notin Looping
    BY DEF Idle, Looping
  <2> QED BY <1>3, <1>6, <2>1, <2>2
             DEF CloseBegin, CloseFlushBegin, CloseFlushEnd, CloseUnlock, CloseNull, WaitWoken,
                 WaitTimeout
<1>7. ASSUME NEW t \in Threads, NEW o \in Objs, WaitBegin(t, o) \/ MergeCheckValid(t, o)
      PROVE  StillLooping
  <2>1. th[t].pc \notin Looping /\ th[t] \in Local
    BY <1>7 DEF WaitBegin, MergeCheckValid, MayCall, TypeOK, Looping
  <2>2. /\ [Idle EXCEPT !.pc = "wait", !.obj = o].pc \notin Looping
        /\ Idle.pc \notin Looping
        /\ Visited(th[t], o).pc \notin Looping
    BY <2>1 DEF Idle, Visited, Local, LocalFields, Looping
  <2>3. \/ th' = [th EXCEPT ![t] = [Idle EXCEPT !.pc = "wait", !.obj = o]]
        \/ th' = [th EXCEPT ![t] = Idle] \/ th' = [th EXCEPT ![t] = Visited(th[t], o)]
    BY <1>7 DEF WaitBegin, MergeCheckValid
  <2> QED BY <1>3, <2>1, <2>2, <2>3
<1>8. ASSUME NEW t \in Threads, NEW S \in SUBSET Objs, MergeBegin(t, S)  PROVE StillLooping
  <2>1. [Idle EXCEPT !.pc = "merge_check", !.todo = S].pc \notin Looping
    BY DEF Idle, Looping
  <2> QED BY <1>3, <1>8, <2>1 DEF MergeBegin, MayCall, Looping
<1> QED BY <1>1, <1>4, <1>5, <1>6, <1>7, <1>8

\* So do callbacks, references and payloads.
LEMMA RowThreads ==
  ASSUME TypeOK, NEW t \in Threads, NEW o \in Objs,
         \/ \E cb \in Cbs : RegisterCallback(t, o, cb) \/ DeregisterCallback(t, o, cb)
         \/ GetObjRef(t, o) \/ PutObjRef(t, o) \/ UmdSignalRejected(t, o)
         \/ \E pl \in Payloads : RegisterPayload(t, o, pl) \/ DeregisterPayload(t, o, pl)
         \/ \E s \in Settled : UmdSignalGetRef(t, o, s)
  PROVE  StillLooping
<1>1. CASE th' = th
  BY <1>1 DEF StillLooping
<1>2. ASSUME NEW s \in Settled, UmdSignalGetRef(t, o, s)  PROVE StillLooping
  <2> DEFINE x == [Idle EXCEPT !.pc = "umd_signal", !.obj = o, !.st = s]
  <2>1. th' = [th EXCEPT ![t] = x] /\ th[t].pc = "idle"
    BY <1>2 DEF UmdSignalGetRef, MayCall
  <2>2. x.pc = "umd_signal"
    BY DEF Idle
  <2> HIDE DEF x
  <2> QED BY <2>1, <2>2 DEF StillLooping, TypeOK, Looping
<1> QED BY <1>1, <1>2 DEF RegisterCallback, DeregisterCallback, GetObjRef, PutObjRef,
           UmdSignalRejected, RegisterPayload, DeregisterPayload

\* Steps that leave the table alone
LEMMA QuietLinks ==
  ASSUME TypeOK, LinkInv,
         \/ UNCHANGED vars \/ DequeueEvent \/ \E w \in CbWork : CbDispatch(w)
         \/ \E t \in Threads :
              \/ CreateReserve(t) \/ MergeReserve(t) \/ Open(t) \/ CloseBegin(t)
              \/ CloseFlushBegin(t) \/ CloseFlushEnd(t) \/ CloseUnlock(t) \/ CloseNull(t)
              \/ WaitWoken(t) \/ WaitTimeout(t)
              \/ \E o \in Objs : WaitBegin(t, o) \/ MergeCheckValid(t, o)
              \/ \E S \in SUBSET Objs : MergeBegin(t, S)
  PROVE  LinkInv'
<1>1. row' = row /\ StillLooping
  BY QuietThreads
<1> QED BY <1>1, NeutralLinks DEF SameLinks, StillLooping, Looping

\* Callbacks, references and payloads leave the lists and the outcome of a row alone, and
\* no callback is put on a dead row.
LEMMA RowKin ==
  ASSUME TypeOK, NEW t \in Threads, NEW o \in Objs,
         \/ \E cb \in Cbs : RegisterCallback(t, o, cb) \/ DeregisterCallback(t, o, cb)
         \/ GetObjRef(t, o) \/ PutObjRef(t, o) \/ UmdSignalRejected(t, o)
         \/ \E pl \in Payloads : RegisterPayload(t, o, pl) \/ DeregisterPayload(t, o, pl)
         \/ \E s \in Settled : UmdSignalGetRef(t, o, s)
  PROVE  \A p \in Objs : /\ SameKin(row'[p], row[p])
                         /\ Dead(p) => row'[p].callback_list = row[p].callback_list
<1>1. row[o] \in Row
  BY DEF TypeOK
<1>2. \/ row' = row
      \/ \E k : \/ row' = [row EXCEPT ![o] = [row[o] EXCEPT !.ref_cnt = k]]
                \/ row' = [row EXCEPT ![o] = [row[o] EXCEPT !.user_payload_list = k]]
                \/ ~Dead(o) /\ row' = [row EXCEPT ![o] = [row[o] EXCEPT !.callback_list = k]]
  <2>1. CASE \/ GetObjRef(t, o) \/ PutObjRef(t, o) \/ UmdSignalRejected(t, o)
             \/ \E s \in Settled : UmdSignalGetRef(t, o, s)
    <3>1. \/ row' = [row EXCEPT ![o] = [row[o] EXCEPT !.ref_cnt = row[o].ref_cnt + 1]]
          \/ row' = [row EXCEPT ![o] = [row[o] EXCEPT !.ref_cnt = row[o].ref_cnt - 1]]
      BY <2>1 DEF GetObjRef, PutObjRef, UmdSignalRejected, UmdSignalGetRef
    <3> QED BY <3>1
  <2>2. ASSUME NEW pl \in Payloads, RegisterPayload(t, o, pl) \/ DeregisterPayload(t, o, pl)
        PROVE  row' = row \/ \E k : row' = [row EXCEPT ![o] = [row[o] EXCEPT !.user_payload_list = k]]
    <3> DEFINE a == Append(row[o].user_payload_list, pl)
               b == Without(row[o].user_payload_list, pl)
    <3>1. \/ row' = row
          \/ row' = [row EXCEPT ![o] = [row[o] EXCEPT !.user_payload_list = a]]
          \/ row' = [row EXCEPT ![o] = [row[o] EXCEPT !.user_payload_list = b]]
      BY <2>2 DEF RegisterPayload, DeregisterPayload
    <3> HIDE DEF a, b
    <3> QED BY <3>1
  <2>3. ASSUME NEW cb \in Cbs, RegisterCallback(t, o, cb) \/ DeregisterCallback(t, o, cb)
        PROVE  \/ row' = row
               \/ \E k : ~Dead(o) /\ row' = [row EXCEPT ![o] = [row[o] EXCEPT !.callback_list = k]]
    <3> DEFINE a == [row[o].callback_list EXCEPT ![cb] = @ + 1]
               b == [row[o].callback_list EXCEPT ![cb] = 0]
    <3>1. ~Dead(o)
      BY <2>3 DEF RegisterCallback, DeregisterCallback, Dead
    <3>2. \/ row' = row
          \/ row' = [row EXCEPT ![o] = [row[o] EXCEPT !.callback_list = a]]
          \/ row' = [row EXCEPT ![o] = [row[o] EXCEPT !.callback_list = b]]
      BY <2>3, <1>1 DEF RegisterCallback, DeregisterCallback
    <3> HIDE DEF a, b
    <3> QED BY <3>1, <3>2
  <2> QED BY <2>1, <2>2, <2>3
<1>3. \A k : /\ SameKin([row[o] EXCEPT !.ref_cnt = k], row[o])
             /\ SameKin([row[o] EXCEPT !.user_payload_list = k], row[o])
             /\ SameKin([row[o] EXCEPT !.callback_list = k], row[o])
             /\ [row[o] EXCEPT !.ref_cnt = k].callback_list = row[o].callback_list
             /\ [row[o] EXCEPT !.user_payload_list = k].callback_list = row[o].callback_list
  BY <1>1 DEF Row, SameKin
<1>4. CASE row' = row
  BY <1>4 DEF SameKin
<1>5. ASSUME NEW r, row' = [row EXCEPT ![o] = r], SameKin(r, row[o]),
             Dead(o) => r.callback_list = row[o].callback_list
      PROVE  \A p \in Objs : /\ SameKin(row'[p], row[p])
                             /\ Dead(p) => row'[p].callback_list = row[p].callback_list
  BY <1>5 DEF SameKin, TypeOK
<1>6. row' = row \/ \E r : /\ row' = [row EXCEPT ![o] = r] /\ SameKin(r, row[o])
                           /\ Dead(o) => r.callback_list = row[o].callback_list
  BY <1>2, <1>3
<1> QED BY <1>4, <1>5, <1>6

\* Callbacks, references and payloads
LEMMA RowLinks ==
  ASSUME TypeOK, LinkInv, NEW t \in Threads, NEW o \in Objs,
         \/ \E cb \in Cbs : RegisterCallback(t, o, cb) \/ DeregisterCallback(t, o, cb)
         \/ GetObjRef(t, o) \/ PutObjRef(t, o) \/ UmdSignalRejected(t, o)
         \/ \E pl \in Payloads : RegisterPayload(t, o, pl) \/ DeregisterPayload(t, o, pl)
         \/ \E s \in Settled : UmdSignalGetRef(t, o, s)
  PROVE  LinkInv'
<1>1. \A p \in Objs : SameKin(row'[p], row[p])
  BY RowKin
<1>2. \A p \in Objs : SameLinks(row'[p], row[p])
  BY <1>1 DEF SameKin, SameLinks
<1>3. StillLooping
  BY RowThreads
<1> QED BY <1>2, <1>3, NeutralLinks DEF StillLooping, Looping

\* The critical section of cam_sync_signal on an individual object
LEMMA SignalRowLinks ==
  ASSUME TypeOK, LinkInv, NEW t \in Threads, NEW o \in Objs, NEW status \in Settled,
         NEW l \in Local, SignalRow(t, o, status, l), th[t].pc \notin Owning
  PROVE  LinkInv'
<1>1. row[o] \in Row /\ DispatchedRow(row[o]) \in Row
  BY DispatchedRowType DEF TypeOK
<1> DEFINE d == DispatchedRow(row[o])
           r == [d EXCEPT !.ref_cnt = 0, !.state = status, !.parents_list = {}]
           k == [row[o] EXCEPT !.ref_cnt = @ - 1]
           p == [l EXCEPT !.pc = "signal_parents", !.obj = o, !.st = status,
                          !.folks = row[o].parents_list]
<1>2. SameLinks(d, row[o]) /\ SameLinks(k, row[o])
  BY <1>1, FieldLinks
<1>3. (row' = [row EXCEPT ![o] = k] \/ row' = [row EXCEPT ![o] = r]) /\ row[o].state # INVALID
  BY DEF SignalRow, ACTIVE, INVALID
<1>4. th' = [th EXCEPT ![t] = Return(l)] \/ th' = [th EXCEPT ![t] = p]
  BY DEF SignalRow
<1>5. p.pc # "merge_child" /\ Return(l).pc # "merge_child"
  BY IdleOwnsNothing DEF Local, LocalFields, Owning
<1>6. SameLinks(r, row[o])
  <2>1. status # INVALID
    BY DEF Settled, INVALID, SUCCESS, ERROR
  <2> HIDE DEF d
  <2>2. r.type = d.type /\ r.state = status /\ r.children_list = d.children_list
        /\ r.parents_list = {}
    BY <1>1 DEF Row, d
  <2> QED BY <1>2, <1>3, <2>1, <2>2 DEF SameLinks
<1> HIDE DEF r, k, p
<1> QED BY <1>2, <1>3, <1>4, <1>5, <1>6, NeutralRow DEF Owning

\* cam_sync_signal
LEMMA SignalLinks ==
  ASSUME TypeOK, LinkInv, NEW t \in Threads,
         \/ \E o \in Objs, s \in Settled : Signal(t, o, s)
         \/ UmdSignal(t)
         \/ \E p \in Objs : SignalParent(t, p)
         \/ \E o \in Objs : CloseSignal(t, o)
  PROVE  LinkInv'
<1>0. th[t] \in Local
  BY DEF TypeOK
<1>1. ASSUME NEW o \in Objs, NEW s \in Settled, Signal(t, o, s)  PROVE LinkInv'
  BY <1>1, LocalType, SignalRowLinks DEF Signal, MayCall, Owning
<1>2. CASE UmdSignal(t)
  <2>1. th[t].obj \in Objs /\ th[t].st \in Settled /\ th[t].pc \notin Owning
    BY <1>2 DEF UmdSignal, TypeOK, Local, Named, Owning
  <2>2. CASE SignalRow(t, th[t].obj, th[t].st, Idle)
    BY <2>1, <2>2, SignalRowLinks, LocalType
  <2>3. CASE th' = [th EXCEPT ![t] = Idle] /\ row' = row
    BY <2>1, <2>3, IdleOwnsNothing, NeutralThread DEF Owning
  <2> QED BY <1>2, <2>2, <2>3 DEF UmdSignal
<1>3. ASSUME NEW p \in Objs, SignalParent(t, p)  PROVE LinkInv'
  <2> DEFINE r == [row[p] EXCEPT !.remaining = Dec(@),
                                 !.state = UpdateParentState(@, th[t].st)]
             left == th[t].folks \ {p}
             x == IF left = {} THEN Return(th[t]) ELSE [th[t] EXCEPT !.folks = left]
  <2>1. row[p] \in Row /\ th[t] \in Local /\ th[t].st \in Settled /\ th[t].pc \notin Owning
    BY <1>3 DEF SignalParent, TypeOK, Local, Owning
  <2>2. row[p].state \in States /\ row[p].remaining \in 0 .. Wrap - 1
    BY <2>1 DEF Row
  <2>3. Dec(row[p].remaining) \in 0 .. Wrap - 1
    BY <2>2, CountType
  <2>4. /\ UpdateParentState(row[p].state, th[t].st) \in States
        /\ UpdateParentState(row[p].state, th[t].st) = INVALID <=> row[p].state = INVALID
    BY <2>1, <2>2 DEF UpdateParentState, States, Settled, INVALID, ACTIVE, SUCCESS, ERROR
  <2>5. r \in Row
    BY <2>1, <2>3, <2>4 DEF Row
  <2>6. SameLinks(r, row[p])
    BY <2>1, <2>4 DEF Row, SameLinks
  <2>7. row' = [row EXCEPT ![p] = DispatchedRow(r)] \/ row' = [row EXCEPT ![p] = r]
    BY <1>3 DEF SignalParent
  <2>8. th' = [th EXCEPT ![t] = x]
    BY <1>3 DEF SignalParent
  <2>9. x.pc # "merge_child"
    <3>1. [th[t] EXCEPT !.folks = left].pc = th[t].pc
      BY <2>1 DEF Local, LocalFields
    <3> QED BY <2>1, <3>1, IdleOwnsNothing DEF Owning
  <2> HIDE DEF r, x
  <2>10. SameLinks(DispatchedRow(r), row[p])
    BY <2>5, <2>6, FieldLinks DEF SameLinks
  <2> QED BY <2>1, <2>6, <2>7, <2>8, <2>9, <2>10, NeutralRow DEF Owning
<1>4. ASSUME NEW o \in Objs, CloseSignal(t, o)  PROVE LinkInv'
  <2> DEFINE l == [th[t] EXCEPT !.sweep = @ \ {o}, !.ret = "close_signal"]
             x == [th[t] EXCEPT !.sweep = @ \ {o}]
  <2>0. th[t].pc = "close_signal"
    BY <1>4 DEF CloseSignal
  <2>1. l \in Local /\ ERROR \in Settled /\ x.pc = th[t].pc
    BY <1>0 DEF Local, LocalFields, Settled
  <2>2. SignalRow(t, o, ERROR, l) \/ (th' = [th EXCEPT ![t] = x] /\ row' = row)
    BY <1>4 DEF CloseSignal
  <2> HIDE DEF l, x
  <2> QED BY <2>0, <2>1, <2>2, SignalRowLinks, NeutralThread DEF Owning
<1> QED BY <1>1, <1>2, <1>3, <1>4

\* A thread resets a row it owns and has nothing left to unlink: no list names the row.
LEMMA ResetLinks ==
  ASSUME TypeOK, OwnerInv, LinkInv, NEW t \in Threads, NEW o \in Objs, Owns(t, o), Dead(o),
         \A c \in Objs : ~Unlinking(t, c, o),
         NEW r, row' = [row EXCEPT ![o] = r], r.parents_list = {},
         NEW x, th' = [th EXCEPT ![t] = x],
         x.pc = "merge_child" => x.obj = o /\ r.type = "GROUP" /\ r.children_list = {}
  PROVE  LinkInv'
<1>1. \A c \in Objs : o \notin row[c].parents_list
  BY NoLinkTo
<1>2. row'[o] = r /\ th'[t] = x /\ th[t].obj = o
  BY DEF TypeOK, Owns
<1>3. \A p \in Objs : p # o => row'[p] = row[p]
  BY DEF TypeOK
<1>4. \A u \in Threads : u # t => th'[u] = th[u]
  BY DEF TypeOK
<1>5. ParentLinksLive'
  <2> SUFFICES ASSUME NEW c \in Objs, NEW g \in row'[c].parents_list
               PROVE  /\ row'[c].state # INVALID /\ row'[c].type = "INDV" /\ row'[g].type = "GROUP"
                      /\ \/ row'[g].state # INVALID /\ c \in row'[g].children_list
                         \/ \E u \in Threads : Unlinking(u, c, g)'
    BY DEF ParentLinksLive, Unlinking
  <2>1. c # o /\ g \in row[c].parents_list /\ g \in Objs /\ g # o
    BY <1>1, <1>2, <1>3 DEF TypeOK, Row
  <2>2. /\ row[c].state # INVALID /\ row[c].type = "INDV" /\ row[g].type = "GROUP"
        /\ \/ row[g].state # INVALID /\ c \in row[g].children_list
           \/ \E u \in Threads : Unlinking(u, c, g)
    BY <2>1, LinksDef DEF LinkInv
  <2>3. \A u \in Threads : Unlinking(u, c, g) => Unlinking(u, c, g)'
    BY <1>2, <1>4, <2>1 DEF Unlinking
  <2> QED BY <1>3, <2>1, <2>2, <2>3
<1>6. GroupBuilt'
  <2> SUFFICES ASSUME NEW u \in Threads, th'[u].pc = "merge_child"
               PROVE  /\ row'[th'[u].obj].type = "GROUP"
                      /\ row'[th'[u].obj].children_list \subseteq th'[u].done
    BY DEF GroupBuilt
  <2>1. CASE u = t
    BY <1>2, <2>1
  <2>2. CASE u # t
    <3>1. th'[u] = th[u] /\ th[u].obj \in Objs
      BY <1>4, <2>2 DEF TypeOK, Local, Named
    <3>2. Owns(u, th[u].obj)
      BY <3>1 DEF Owns, Building
    <3>3. th[u].obj # o
      BY <2>2, <3>2 DEF OwnerInv, OwnersExclude
    <3> QED BY <1>3, <3>1, <3>3 DEF LinkInv, GroupBuilt
  <2> QED BY <2>1, <2>2
<1> QED BY <1>5, <1>6 DEF LinkInv

\* cam_sync_create, the beginning and the roll-back of cam_sync_merge, and the end of
\* cam_sync_deinit_object
LEMMA ResetRowLinks ==
  ASSUME TypeOK, OwnerInv, LinkInv, NEW t \in Threads,
         CreateInit(t) \/ MergeLock(t) \/ MergeAbort(t) \/ DestroyFinish(t)
  PROVE  LinkInv'
<1>0. PICK o \in Objs : o = th[t].obj
  BY DEF CreateInit, MergeLock, MergeAbort, DestroyFinish, TypeOK, Local, Named
<1>1. Owns(t, o) /\ th[t].pc # "merge_child" /\ th[t] \in Local /\ row[o] \in Row
  BY <1>0 DEF CreateInit, MergeLock, MergeAbort, DestroyFinish, Owns, Reserving, Building,
              Destroying, TypeOK
<1>2. Dead(o)
  BY <1>1 DEF OwnerInv, OwnersExclude, Dead
<1>3. \A c \in Objs : ~Unlinking(t, c, o)
  BY DEF CreateInit, MergeLock, MergeAbort, DestroyFinish, Unlinking
<1>4. CASE CreateInit(t)
  <2>1. cam_sync_init_row("INDV").parents_list = {} /\ Idle.pc # "merge_child"
    BY DEF cam_sync_init_row, ZeroRow, Idle
  <2>2. row' = [row EXCEPT ![o] = cam_sync_init_row("INDV")] /\ th' = [th EXCEPT ![t] = Idle]
    BY <1>0, <1>4 DEF CreateInit
  <2> QED BY <1>1, <1>2, <1>3, <2>1, <2>2, ResetLinks
<1>5. CASE MergeLock(t)
  <2> DEFINE r == cam_sync_init_row("GROUP")
             x == [th[t] EXCEPT !.pc = "merge_child", !.todo = th[t].done, !.done = {}]
  <2>1. r.parents_list = {} /\ r.type = "GROUP" /\ r.children_list = {}
    BY DEF cam_sync_init_row, ZeroRow
  <2>2. x.obj = o
    BY <1>0, <1>1 DEF Local, LocalFields
  <2>3. row' = [row EXCEPT ![o] = r] /\ th' = [th EXCEPT ![t] = x]
    BY <1>0, <1>5 DEF MergeLock
  <2> HIDE DEF r, x
  <2> QED BY <1>1, <1>2, <1>3, <2>1, <2>2, <2>3, ResetLinks
<1>6. CASE MergeAbort(t)
  <2> DEFINE r == [row[o] EXCEPT !.children_list = {}]
  <2>1. r.parents_list = {} /\ Idle.pc # "merge_child"
    BY <1>1, <1>2, DeadLinks DEF Row, Idle
  <2>2. row' = [row EXCEPT ![o] = r] /\ th' = [th EXCEPT ![t] = Idle]
    BY <1>0, <1>6 DEF MergeAbort
  <2> HIDE DEF r
  <2> QED BY <1>1, <1>2, <1>3, <2>1, <2>2, ResetLinks
<1>7. CASE DestroyFinish(t)
  <2>1. ZeroRow.parents_list = {} /\ Return(th[t]).pc # "merge_child"
    BY <1>1, IdleOwnsNothing DEF ZeroRow, Owning
  <2>2. row' = [row EXCEPT ![o] = ZeroRow] /\ th' = [th EXCEPT ![t] = Return(th[t])]
    BY <1>0, <1>7 DEF DestroyFinish
  <2> QED BY <1>1, <1>2, <1>3, <2>1, <2>2, ResetLinks
<1> QED BY <1>4, <1>5, <1>6, <1>7

\* What the row operations do to the fields the links depend on
LEMMA ListFields ==
  ASSUME NEW r \in Row, NEW c
  PROVE  /\ AddChild(r, c).type = r.type /\ AddChild(r, c).state = r.state
         /\ AddChild(r, c).children_list = r.children_list \cup {c}
         /\ AddChild(r, c).parents_list = r.parents_list
         /\ AddParent(r, c).type = r.type /\ AddParent(r, c).state = r.state
         /\ AddParent(r, c).children_list = r.children_list
         /\ AddParent(r, c).parents_list = r.parents_list \cup {c}
         /\ DropParent(r, c).parents_list = r.parents_list \ {c}
         /\ SameLinks(DropParent(r, c), r)
         /\ DropChild(r, c).type = r.type /\ DropChild(r, c).state = r.state
         /\ DropChild(r, c).children_list = r.children_list \ {c}
         /\ DropChild(r, c).parents_list = r.parents_list
BY DEF Row, AddChild, AddParent, DropParent, DropChild, SameLinks

\* Rows that are given up
LEMMA DeadFields ==
  ASSUME NEW r \in Row, NEW k
  PROVE  /\ Fails(r, k).type = r.type /\ Fails(r, k).state = INVALID
         /\ Fails(r, k).children_list = r.children_list
         /\ Fails(r, k).parents_list = r.parents_list
         /\ Emptied(r).type = r.type /\ Emptied(r).state = INVALID
         /\ Emptied(r).parents_list = {}
BY DEF Row, Fails, Emptied

\* A finished group keeps its lists, and a settled child only changes the state.
LEMMA MergeFields ==
  ASSUME NEW r \in Row, r.state # INVALID, NEW s
  PROVE  SameLinks(Finished(r), r) /\ SameLinks(Inherit(r, s), r)
BY DEF Row, SameLinks, Finished, Inherit, INVALID, SUCCESS, ERROR

\* The loop of cam_sync_init_group_object over the children
LEMMA MergeChildLinks ==
  ASSUME TypeOK, OwnerInv, LinkInv, NEW t \in Threads, NEW c \in Objs, MergeChild(t, c)
  PROVE  LinkInv'
<1>o. PICK o \in Objs : o = th[t].obj
  BY DEF MergeChild, TypeOK, Local, Named
<1>0. /\ th[t] \in Local /\ Owns(t, o) /\ th[t].obj = o /\ th[t].pc = "merge_child"
      /\ row[c] \in Row /\ row[o] \in Row
  BY <1>o DEF MergeChild, TypeOK, Owns, Building
<1>1. c # o /\ ~Dead(o)
  <2>1. lock[o] = t
    BY <1>0 DEF OwnerInv, OwnersExclude, Building
  <2> QED BY <1>0, <2>1, NoneAssumption DEF MergeChild, Free, OwnerInv, OwnersExclude, Dead
<1>2. row[o].type = "GROUP" /\ row[o].children_list \subseteq th[t].done
  BY <1>0 DEF LinkInv, GroupBuilt
<1>3. \A u \in Threads, d \in Objs : ~Unlinking(u, d, o)
  BY <1>1, DeadLinks
<1>4. \A u \in Threads : u # t /\ th[u].pc = "merge_child" => th[u].obj # o
  BY <1>0 DEF OwnerInv, OwnersExclude, Owns, Building
<1>5. \A u \in Threads : th[u].pc = "merge_child" => th[u].obj \in Objs
  BY DEF TypeOK, Local, Named
<1>v. /\ Visited(th[t], c).pc = "merge_child" /\ Visited(th[t], c).obj = o
      /\ Visited(th[t], c).done = th[t].done \cup {c}
  BY <1>0 DEF Visited, Local, LocalFields
<1>6. CASE MergeLink(t, c)
  <2>1. /\ row' = [row EXCEPT ![o] = AddChild(@, c), ![c] = AddParent(@, o)]
        /\ th' = [th EXCEPT ![t] = Visited(@, c)]
        /\ row[c].type = "INDV" /\ row[c].state # INVALID
    BY <1>0, <1>6 DEF MergeLink, INVALID, ACTIVE
  <2>2. /\ row'[o] = AddChild(row[o], c) /\ row'[c] = AddParent(row[c], o)
        /\ \A p \in Objs : p # o /\ p # c => row'[p] = row[p]
    BY <1>1, <2>1 DEF TypeOK
  <2>3. th'[t] = Visited(th[t], c) /\ \A u \in Threads : u # t => th'[u] = th[u]
    BY <2>1 DEF TypeOK
  <2>l. /\ AddChild(row[o], c).type = row[o].type /\ AddChild(row[o], c).state = row[o].state
        /\ AddChild(row[o], c).children_list = row[o].children_list \cup {c}
        /\ AddChild(row[o], c).parents_list = row[o].parents_list
        /\ AddParent(row[c], o).type = row[c].type /\ AddParent(row[c], o).state = row[c].state
        /\ AddParent(row[c], o).children_list = row[c].children_list
        /\ AddParent(row[c], o).parents_list = row[c].parents_list \cup {o}
    BY <1>0, ListFields
  <2>4. \A p \in Objs : /\ row'[p].type = row[p].type /\ row'[p].state = row[p].state
                        /\ row[p].children_list \subseteq row'[p].children_list
                        /\ p # o => row'[p].children_list = row[p].children_list
                        /\ p # c => row'[p].parents_list = row[p].parents_list
    BY <1>0, <1>1, <2>2, <2>l
  <2>5. /\ row'[o].children_list = row[o].children_list \cup {c}
        /\ row'[c].parents_list = row[c].parents_list \cup {o}
    BY <2>2, <2>l
  <2>6. ParentLinksLive'
    <3> SUFFICES ASSUME NEW d \in Objs, NEW g \in row'[d].parents_list
                 PROVE  /\ row'[d].state # INVALID /\ row'[d].type = "INDV"
                        /\ row'[g].type = "GROUP"
                        /\ \/ row'[g].state # INVALID /\ d \in row'[g].children_list
                           \/ \E u \in Threads : Unlinking(u, d, g)'
      BY DEF ParentLinksLive, Unlinking
    <3>1. CASE d = c /\ g = o
      BY <1>1, <1>2, <2>1, <2>4, <2>5, <3>1 DEF Dead
    <3>2. CASE g \in row[d].parents_list
      <4>1. g \in Objs
        BY <3>2 DEF TypeOK, Row
      <4>2. /\ row[d].state # INVALID /\ row[d].type = "INDV" /\ row[g].type = "GROUP"
            /\ \/ row[g].state # INVALID /\ d \in row[g].children_list
               \/ \E u \in Threads : Unlinking(u, d, g)
        BY <3>2, LinksDef DEF LinkInv
      <4>3. \A u \in Threads : Unlinking(u, d, g) => Unlinking(u, d, g)'
        BY <1>0, <2>3 DEF Unlinking
      <4> QED BY <2>4, <4>1, <4>2, <4>3
    <3>3. (d = c /\ g = o) \/ g \in row[d].parents_list
      BY <2>4, <2>5
    <3> QED BY <3>1, <3>2, <3>3
  <2>7. GroupBuilt'
    <3> SUFFICES ASSUME NEW u \in Threads, th'[u].pc = "merge_child"
                 PROVE  /\ row'[th'[u].obj].type = "GROUP"
                        /\ row'[th'[u].obj].children_list \subseteq th'[u].done
      BY DEF GroupBuilt
    <3>1. CASE u = t
      BY <1>2, <1>v, <2>3, <2>4, <2>5, <3>1
    <3>2. CASE u # t
      <4>1. th'[u] = th[u] /\ th[u].obj \in Objs /\ th[u].obj # o
        BY <1>4, <1>5, <2>3, <3>2
      <4> QED BY <2>4, <4>1 DEF LinkInv, GroupBuilt
    <3> QED BY <3>1, <3>2
  <2> QED BY <2>6, <2>7 DEF LinkInv
<1>7. CASE MergeSkip(t, c)
  <2>1. /\ row' = [row EXCEPT ![o] = Inherit(@, row[c].state)]
        /\ th' = [th EXCEPT ![t] = Visited(@, c)]
    BY <1>0, <1>7 DEF MergeSkip
  <2>2. SameLinks(Inherit(row[o], row[c].state), row[o])
    BY <1>0, <1>1, MergeFields DEF Dead
  <2>3. \A p \in Objs : SameLinks(row'[p], row[p])
    BY <2>1, <2>2 DEF SameLinks, TypeOK
  <2>4. th'[t] = Visited(th[t], c) /\ \A u \in Threads : u # t => th'[u] = th[u]
    BY <2>1 DEF TypeOK
  <2>5. th'[t].obj = th[t].obj /\ th[t].done \subseteq th'[t].done
    BY <1>0, <1>v, <2>4
  <2> QED BY <1>0, <2>3, <2>4, <2>5, NeutralLinks
<1>8. CASE MergeFail(t, c)
  <2> DEFINE x == [th[t] EXCEPT !.pc = "merge_clean", !.todo = {}]
  <2>1. x.pc = "merge_clean" /\ x.obj = o /\ x.done = th[t].done
    BY <1>0 DEF Local, LocalFields
  <2>2. /\ \E k : row' = [row EXCEPT ![o] = Fails(row[o], k)]
        /\ th' = [th EXCEPT ![t] = x]
    BY <1>0, <1>8 DEF MergeFail
  <2> HIDE DEF x
  <2>3. PICK k : row' = [row EXCEPT ![o] = Fails(row[o], k)]
    BY <2>2
  <2>4. /\ row'[o].type = row[o].type /\ row'[o].parents_list = row[o].parents_list
        /\ \A p \in Objs : p # o => row'[p] = row[p]
    BY <1>0, <2>3, DeadFields DEF TypeOK
  <2>5. th'[t] = x /\ \A u \in Threads : u # t => th'[u] = th[u]
    BY <2>2 DEF TypeOK
  <2>6. row[o].parents_list = {}
    BY <1>2 DEF LinkInv, ParentLinksLive
  <2>7. ParentLinksLive'
    <3> SUFFICES ASSUME NEW d \in Objs, NEW g \in row'[d].parents_list
                 PROVE  /\ row'[d].state # INVALID /\ row'[d].type = "INDV"
                        /\ row'[g].type = "GROUP"
                        /\ \/ row'[g].state # INVALID /\ d \in row'[g].children_list
                           \/ \E u \in Threads : Unlinking(u, d, g)'
      BY DEF ParentLinksLive, Unlinking
    <3>1. d # o /\ row'[d] = row[d] /\ g \in row[d].parents_list /\ g \in Objs
      BY <2>4, <2>6 DEF TypeOK, Row
    <3>2. /\ row[d].state # INVALID /\ row[d].type = "INDV" /\ row[g].type = "GROUP"
          /\ \/ row[g].state # INVALID /\ d \in row[g].children_list
             \/ \E u \in Threads : Unlinking(u, d, g)
      BY <3>1, LinksDef DEF LinkInv
    <3>3. CASE g = o
      <4>1. d \in th[t].done
        BY <1>2, <1>3, <3>2, <3>3
      <4>2. Unlinking(t, d, g)'
        BY <2>1, <2>5, <3>3, <4>1 DEF Unlinking
      <4> QED BY <2>4, <3>1, <3>2, <3>3, <4>2
    <3>4. CASE g # o
      <4>1. \A u \in Threads : Unlinking(u, d, g) => Unlinking(u, d, g)'
        BY <1>0, <2>5, <3>4 DEF Unlinking
      <4> QED BY <2>4, <3>1, <3>2, <3>4, <4>1
    <3> QED BY <3>3, <3>4
  <2>8. GroupBuilt'
    <3> SUFFICES ASSUME NEW u \in Threads, th'[u].pc = "merge_child"
                 PROVE  /\ row'[th'[u].obj].type = "GROUP"
                        /\ row'[th'[u].obj].children_list \subseteq th'[u].done
      BY DEF GroupBuilt
    <3>1. u # t /\ th'[u] = th[u] /\ th[u].obj \in Objs /\ th[u].obj # o
      BY <1>4, <1>5, <2>1, <2>5
    <3> QED BY <2>4, <3>1 DEF LinkInv, GroupBuilt
  <2> QED BY <2>7, <2>8 DEF LinkInv
<1> QED BY <1>6, <1>7, <1>8 DEF MergeChild

\* A thread that takes a group away has dealt with one child, which no longer names the
\* group.
LEMMA UnlinkStep ==
  ASSUME TypeOK, LinkInv, NEW t \in Threads, NEW c \in Objs, NEW r, SameLinks(r, row[c]),
         th[t].obj \notin r.parents_list, row' = [row EXCEPT ![c] = r],
         NEW x, th' = [th EXCEPT ![t] = x], x.pc = th[t].pc, x.obj = th[t].obj,
         \/ x.pc = "destroy" /\ x.todo = th[t].todo \ {c}
         \/ x.pc = "merge_clean" /\ x.done = th[t].done \ {c}
  PROVE  LinkInv'
<1>1. th'[t] = x /\ \A u \in Threads : u # t => th'[u] = th[u]
  BY DEF TypeOK
<1>2. \A p \in Objs : SameLinks(row'[p], row[p])
  BY DEF SameLinks, TypeOK
<1>3. th[t].obj \notin row'[c].parents_list
  BY DEF TypeOK
<1>4. ParentLinksLive'
  <2> SUFFICES ASSUME NEW d \in Objs, NEW g \in row'[d].parents_list
               PROVE  /\ row'[d].state # INVALID /\ row'[d].type = "INDV"
                      /\ row'[g].type = "GROUP"
                      /\ \/ row'[g].state # INVALID /\ d \in row'[g].children_list
                         \/ \E u \in Threads : Unlinking(u, d, g)'
    BY DEF ParentLinksLive, Unlinking
  <2>1. g \in row[d].parents_list /\ g \in Objs /\ SameLinks(row'[d], row[d])
    BY <1>2 DEF SameLinks, TypeOK, Row
  <2>2. /\ row[d].state # INVALID /\ row[d].type = "INDV" /\ row[g].type = "GROUP"
        /\ \/ row[g].state # INVALID /\ d \in row[g].children_list
           \/ \E u \in Threads : Unlinking(u, d, g)
    BY <2>1, LinksDef DEF LinkInv
  <2>3. ASSUME NEW u \in Threads, Unlinking(u, d, g)  PROVE Unlinking(u, d, g)'
    <3>1. CASE u # t
      BY <1>1, <2>3, <3>1 DEF Unlinking
    <3>2. CASE u = t
      <4>1. d # c
        BY <1>3, <2>3, <3>2 DEF Unlinking
      <4> QED BY <1>1, <2>3, <3>2, <4>1 DEF Unlinking
    <3> QED BY <3>1, <3>2
  <2>4. SameLinks(row'[g], row[g])
    BY <1>2, <2>1
  <2> QED BY <2>1, <2>2, <2>3, <2>4 DEF SameLinks
<1>5. GroupBuilt'
  <2> SUFFICES ASSUME NEW u \in Threads, th'[u].pc = "merge_child"
               PROVE  /\ row'[th'[u].obj].type = "GROUP"
                      /\ row'[th'[u].obj].children_list \subseteq th'[u].done
    BY DEF GroupBuilt
  <2>1. th'[u] = th[u] /\ th[u].obj \in Objs
    BY <1>1 DEF TypeOK, Local, Named
  <2>2. SameLinks(row'[th[u].obj], row[th[u].obj])
    BY <1>2, <2>1
  <2> QED BY <2>1, <2>2 DEF LinkInv, GroupBuilt, SameLinks
<1> QED BY <1>4, <1>5 DEF LinkInv

\* The end of cam_sync_merge, and the roll-back of its links
LEMMA MergeEndLinks ==
  ASSUME TypeOK, OwnerInv, LinkInv, NEW t \in Threads,
         MergeFinish(t) \/ \E c \in Objs : MergeClean(t, c)
  PROVE  LinkInv'
<1>o. PICK o \in Objs : o = th[t].obj
  BY DEF MergeFinish, MergeClean, TypeOK, Local, Named
<1>0. th[t] \in Local /\ Owns(t, o) /\ row[o] \in Row
  BY <1>o DEF MergeFinish, MergeClean, TypeOK, Owns, Building
<1>1. CASE MergeFinish(t)
  <2>1. /\ row' = [row EXCEPT ![o] = Finished(row[o])] /\ th' = [th EXCEPT ![t] = Idle]
        /\ th[t].pc = "merge_child"
    BY <1>o, <1>1 DEF MergeFinish
  <2>2. row[o].state # INVALID
    BY <1>0, <2>1 DEF OwnerInv, OwnersExclude
  <2>3. SameLinks(Finished(row[o]), row[o])
    BY <1>0, <2>2, MergeFields
  <2> QED BY <2>1, <2>3, IdleOwnsNothing, NeutralRow DEF Owning
<1>2. ASSUME NEW c \in Objs, MergeClean(t, c)  PROVE LinkInv'
  <2> DEFINE x == [th[t] EXCEPT !.done = @ \ {c}]
  <2>1. /\ row' = [row EXCEPT ![c] = DropParent(row[c], o)] /\ th' = [th EXCEPT ![t] = x]
        /\ th[t].pc = "merge_clean" /\ row[c] \in Row
    BY <1>o, <1>2 DEF MergeClean, TypeOK
  <2>2. x.pc = "merge_clean" /\ x.obj = o /\ x.done = th[t].done \ {c}
    BY <1>o, <1>0, <2>1 DEF Local, LocalFields
  <2> HIDE DEF x
  <2>3. DropParent(row[c], o).parents_list = row[c].parents_list \ {o}
        /\ SameLinks(DropParent(row[c], o), row[c])
    BY <2>1, ListFields
  <2> QED BY <1>o, <2>1, <2>2, <2>3, UnlinkStep
<1> QED BY <1>1, <1>2

\* The first critical section of cam_sync_deinit_object: the children of the row become
\* the children that its owner has to visit.
LEMMA DeinitRowLinks ==
  ASSUME TypeOK, OwnerInv, LinkInv, NEW t \in Threads, NEW o \in Objs, NEW l \in Local,
         DeinitRow(t, o, l), th[t].pc \notin Owning
  PROVE  LinkInv'
<1>1. row[o] \in Row /\ ~Dead(o) /\ row' = [row EXCEPT ![o] = Emptied(row[o])]
  BY DEF DeinitRow, TypeOK, Dead
<1>2. Emptied(row[o]).type = row[o].type /\ Emptied(row[o]).parents_list = {}
  BY <1>1, DeadFields
<1>3. /\ row'[o].type = row[o].type /\ row'[o].parents_list = {}
      /\ \A p \in Objs : p # o => row'[p] = row[p]
  BY <1>1, <1>2 DEF TypeOK
<1> DEFINE x == [l EXCEPT !.pc = "destroy", !.obj = o, !.todo = row[o].children_list,
                          !.folks = row[o].parents_list]
<1>4. x.pc = "destroy" /\ x.obj = o /\ x.todo = row[o].children_list
  BY DEF Local, LocalFields
<1>5. th' = [th EXCEPT ![t] = x]
  BY DEF DeinitRow
<1> HIDE DEF x
<1>6. th'[t] = x /\ \A u \in Threads : u # t => th'[u] = th[u]
  BY <1>5 DEF TypeOK
<1>7. \A u \in Threads, d \in Objs : ~Unlinking(u, d, o)
  BY <1>1, DeadLinks
<1>8. ParentLinksLive'
  <2> SUFFICES ASSUME NEW d \in Objs, NEW g \in row'[d].parents_list
               PROVE  /\ row'[d].state # INVALID /\ row'[d].type = "INDV"
                      /\ row'[g].type = "GROUP"
                      /\ \/ row'[g].state # INVALID /\ d \in row'[g].children_list
                         \/ \E u \in Threads : Unlinking(u, d, g)'
    BY DEF ParentLinksLive, Unlinking
  <2>1. d # o /\ row'[d] = row[d] /\ g \in row[d].parents_list /\ g \in Objs
    BY <1>3 DEF TypeOK, Row
  <2>2. /\ row[d].state # INVALID /\ row[d].type = "INDV" /\ row[g].type = "GROUP"
        /\ \/ row[g].state # INVALID /\ d \in row[g].children_list
           \/ \E u \in Threads : Unlinking(u, d, g)
    BY <2>1, LinksDef DEF LinkInv
  <2>3. CASE g = o
    <3>1. d \in row[o].children_list
      BY <1>7, <2>2, <2>3
    <3>2. Unlinking(t, d, g)'
      BY <1>4, <1>6, <2>3, <3>1 DEF Unlinking
    <3> QED BY <1>3, <2>1, <2>2, <2>3, <3>2
  <2>4. CASE g # o
    <3>1. \A u \in Threads : Unlinking(u, d, g) => Unlinking(u, d, g)'
      BY <1>6 DEF Unlinking, Owning
    <3> QED BY <1>3, <2>1, <2>2, <2>4, <3>1
  <2> QED BY <2>3, <2>4
<1>9. GroupBuilt'
  <2> SUFFICES ASSUME NEW u \in Threads, th'[u].pc = "merge_child"
               PROVE  /\ row'[th'[u].obj].type = "GROUP"
                      /\ row'[th'[u].obj].children_list \subseteq th'[u].done
    BY DEF GroupBuilt
  <2>1. th'[u] = th[u] /\ th[u].obj \in Objs
    BY <1>4, <1>6 DEF TypeOK, Local, Named
  <2>2. lock[th[u].obj] = u
    BY <2>1 DEF OwnerInv, OwnersExclude, Building
  <2>3. th[u].obj # o
    BY <2>2, NoneAssumption DEF DeinitRow, Free
  <2> QED BY <1>3, <2>1, <2>3 DEF LinkInv, GroupBuilt
<1> QED BY <1>8, <1>9 DEF LinkInv

\* cam_sync_deinit_object, from cam_sync_destroy and from the second sweep of cam_sync_close
LEMMA DestroyLinks ==
  ASSUME TypeOK, OwnerInv, LinkInv, NEW t \in Threads, NEW o \in Objs,
         \/ Destroy(t, o) \/ CloseDestroy(t, o)
         \/ DestroyChild(t, o) \/ DestroyParent(t, o)
  PROVE  LinkInv'
<1>0. th[t] \in Local /\ row[o] \in Row
  BY DEF TypeOK
<1>1. CASE Destroy(t, o)
  BY <1>1, LocalType, DeinitRowLinks DEF Destroy, MayCall, Owning
<1>2. CASE CloseDestroy(t, o)
  <2> DEFINE l == [th[t] EXCEPT !.sweep = @ \ {o}, !.ret = "close_destroy"]
             x == [th[t] EXCEPT !.sweep = @ \ {o}]
  <2>1. l \in Local /\ x.pc = th[t].pc /\ th[t].pc = "close_destroy"
    BY <1>0, <1>2 DEF Local, LocalFields, CloseDestroy
  <2>2. DeinitRow(t, o, l) \/ (th' = [th EXCEPT ![t] = x] /\ row' = row)
    BY <1>2 DEF CloseDestroy
  <2> HIDE DEF l, x
  <2> QED BY <2>1, <2>2, DeinitRowLinks, NeutralThread DEF Owning
<1>3. CASE DestroyChild(t, o)
  <2> DEFINE x == [th[t] EXCEPT !.todo = @ \ {o}]
             r == IF Dead(o) THEN row[o] ELSE DropParent(row[o], th[t].obj)
  <2>1. row' = [row EXCEPT ![o] = r] /\ th' = [th EXCEPT ![t] = x] /\ th[t].pc = "destroy"
    BY <1>3 DEF DestroyChild, Dead, TypeOK
  <2>2. x.pc = "destroy" /\ x.obj = th[t].obj /\ x.todo = th[t].todo \ {o}
    BY <1>0, <2>1 DEF Local, LocalFields
  <2>3. SameLinks(r, row[o]) /\ th[t].obj \notin r.parents_list
    BY <1>0, DeadLinks, ListFields DEF SameLinks
  <2> HIDE DEF x, r
  <2> QED BY <2>1, <2>2, <2>3, UnlinkStep
<1>4. CASE DestroyParent(t, o)
  <2>p. PICK g \in Objs : g = th[t].obj
    BY <1>4 DEF DestroyParent, TypeOK, Local, Named
  <2>g. row[g].parents_list = {}
    <3>1. Owns(t, g) /\ th[t].pc = "destroy"
      BY <1>4, <2>p DEF DestroyParent, Owns, Destroying
    <3>2. Dead(g)
      BY <3>1 DEF OwnerInv, OwnersExclude, Dead
    <3> QED BY <3>2, DeadLinks
  <2> DEFINE x == [th[t] EXCEPT !.folks = @ \ {o}]
             r == IF Dead(o) THEN row[o] ELSE DropChild(row[o], g)
  <2>1. row' = [row EXCEPT ![o] = r] /\ th' = [th EXCEPT ![t] = x] /\ th[t].pc = "destroy"
    BY <1>4, <2>p DEF DestroyParent, Dead, TypeOK
  <2>2. /\ x.pc = "destroy" /\ x.obj = th[t].obj /\ x.todo = th[t].todo /\ x.done = th[t].done
    BY <1>0, <2>1 DEF Local, LocalFields
  <2>3. /\ r.type = row[o].type /\ r.state = row[o].state
        /\ r.parents_list = row[o].parents_list
        /\ r.children_list \subseteq row[o].children_list
        /\ row[o].children_list \ {g} \subseteq r.children_list
    BY <1>0, ListFields
  <2> HIDE DEF x, r
  <2>4. row'[o] = r /\ \A p \in Objs : p # o => row'[p] = row[p]
    BY <2>1 DEF TypeOK
  <2>5. th'[t] = x /\ \A u \in Threads : u # t => th'[u] = th[u]
    BY <2>1 DEF TypeOK
  <2>6. \A p \in Objs : /\ row'[p].type = row[p].type /\ row'[p].state = row[p].state
                        /\ row'[p].parents_list = row[p].parents_list
                        /\ row'[p].children_list \subseteq row[p].children_list
                        /\ row[p].children_list \ {g} \subseteq row'[p].children_list
    BY <2>3, <2>4
  <2>7. ParentLinksLive'
    <3> SUFFICES ASSUME NEW d \in Objs, NEW h \in row'[d].parents_list
                 PROVE  /\ row'[d].state # INVALID /\ row'[d].type = "INDV"
                        /\ row'[h].type = "GROUP"
                        /\ \/ row'[h].state # INVALID /\ d \in row'[h].children_list
                           \/ \E u \in Threads : Unlinking(u, d, h)'
      BY DEF ParentLinksLive, Unlinking
    <3>1. h \in row[d].parents_list /\ h \in Objs /\ d # g
      BY <2>6, <2>g DEF TypeOK, Row
    <3>2. /\ row[d].state # INVALID /\ row[d].type = "INDV" /\ row[h].type = "GROUP"
          /\ \/ row[h].state # INVALID /\ d \in row[h].children_list
             \/ \E u \in Threads : Unlinking(u, d, h)
      BY <3>1, LinksDef DEF LinkInv
    <3>3. \A u \in Threads : Unlinking(u, d, h) => Unlinking(u, d, h)'
      BY <2>1, <2>2, <2>5 DEF Unlinking
    <3> QED BY <2>6, <3>1, <3>2, <3>3
  <2>8. GroupBuilt'
    <3> SUFFICES ASSUME NEW u \in Threads, th'[u].pc = "merge_child"
                 PROVE  /\ row'[th'[u].obj].type = "GROUP"
                        /\ row'[th'[u].obj].children_list \subseteq th'[u].done
      BY DEF GroupBuilt
    <3>1. th'[u] = th[u] /\ th[u].obj \in Objs
      BY <2>2, <2>5 DEF TypeOK, Local, Named
    <3> QED BY <2>6, <3>1 DEF LinkInv, GroupBuilt
  <2> QED BY <2>7, <2>8 DEF LinkInv
<1> QED BY <1>1, <1>2, <1>3, <1>4

LEMMA InitLinks == Init => LinkInv
BY DEF Init, LinkInv, ParentLinksLive, GroupBuilt, ZeroRow, Idle

\* Every step keeps the links live.
LEMMA StepLinks == TypeOK /\ OwnerInv /\ LinkInv /\ [Next]_vars => LinkInv'
<1> SUFFICES ASSUME TypeOK, OwnerInv, LinkInv, [Next]_vars PROVE LinkInv'
  OBVIOUS
<1>1. CASE (\E w \in CbWork : CbDispatch(w)) \/ DequeueEvent \/ UNCHANGED vars
  BY <1>1, QuietLinks
<1>2. ASSUME NEW t \in Threads, Step(t)  PROVE LinkInv'
  BY <1>2, ResetRowLinks, SignalLinks, MergeChildLinks, MergeEndLinks, DestroyLinks, QuietLinks
     DEF Step
<1>3. ASSUME NEW t \in Threads, Call(t)  PROVE LinkInv'
  BY <1>3, RowLinks, SignalLinks, DestroyLinks, QuietLinks DEF Call
<1> QED BY <1>1, <1>2, <1>3 DEF Next

\* A child's parents_list never names a released id, whatever the clients do: a failed merge
\* and cam_sync_deinit_object cut every link to the group before the id is given back, so
\* cam_sync_signal never walks into a row that was handed out again.
THEOREM LinksLive == Spec => []ParentLinksLive
<1>1. Init => TypeOK /\ OwnerInv /\ LinkInv
  BY InitTypeOK, InitOwner, InitLinks
<1>2. TypeOK /\ OwnerInv /\ LinkInv /\ [Next]_vars => (TypeOK /\ OwnerInv /\ LinkInv)'
  BY StepTypeOK, StepOwner, StepLinks
<1>3. LinkInv => ParentLinksLive
  BY DEF LinkInv
<1> QED BY <1>1, <1>2, <1>3, PTL DEF Spec

-----------------------------------------------------------------------------
(* No fence outlives a close                                                *)

\* What the second sweep of cam_sync_close leaves of a row: nothing, or a group that some
\* merge has built beside it.
Passed(o) == Dead(o) \/ row[o].type = "GROUP"

PassedStay == \A o \in Objs : Passed(o) => Passed(o)'

\* A thread between CloseBegin and CloseUnlock, and one in the second sweep
InClose(l) == \/ l.pc \in {"close_signal", "close_flush", "close_destroy"}
              \/ l.pc \in {"signal_parents", "destroy"} /\ l.ret # "idle"
InSweep(l) == l.pc = "close_destroy" \/ (l.pc = "destroy" /\ l.ret # "idle")

\* The thread in close is the one with table_lock, and the device is closed meanwhile: no
\* fence is created behind its second sweep.
CloseOk(t) ==
  LET l == th[t] IN
  /\ l.pc = "create_init" => open_cnt = 1
  /\ l.pc = "destroy" => l.ret \in {"idle", "close_destroy"}
  /\ l.pc = "signal_parents" => l.ret \in {"idle", "close_signal"}
  /\ InClose(l) <=> table_lock = t
  /\ InClose(l) => open_cnt = 0
  /\ InSweep(l) => \A o \in Objs \ l.sweep : Passed(o)

CloseInv ==
  /\ \A t \in Threads : CloseOk(t)
  /\ open_cnt = 0 /\ table_lock = None => \A o \in Objs : Passed(o)

\* The pcs of a thread that is not in close and about which CloseOk says nothing
PlainPcs == {"idle", "umd_signal", "wait", "close_null",
             "merge_check", "merge_lock", "merge_child", "merge_clean"}

\* Row operations keep the type, except the one that makes a group.
LEMMA KeepType ==
  ASSUME NEW r \in Row, NEW c
  PROVE  /\ AddChild(r, c).type = r.type /\ AddParent(r, c).type = r.type
         /\ DropChild(r, c).type = r.type /\ DropParent(r, c).type = r.type
         /\ DispatchedRow(r).type = r.type
         /\ Finished(r).type = r.type /\ Inherit(r, c).type = r.type
         /\ cam_sync_init_row("GROUP").type = "GROUP"
BY DEF Row, AddChild, AddParent, DropChild, DropParent, DispatchedRow, Finished, Inherit,
       cam_sync_init_row, ZeroRow

\* A step that changes one row
LEMMA RowPassed ==
  ASSUME TypeOK, NEW o \in Objs, NEW r, row' = [row EXCEPT ![o] = r],
         Passed(o) => r.state = INVALID \/ r.type = "GROUP"
  PROVE  PassedStay
BY DEF TypeOK, PassedStay, Passed, Dead

\* The same when the row keeps its type and is not brought to life
LEMMA SameTypePassed ==
  ASSUME TypeOK, NEW o \in Objs, NEW r, row' = [row EXCEPT ![o] = r],
         r.type = row[o].type, Dead(o) => r.state = INVALID
  PROVE  PassedStay
BY RowPassed DEF Passed

\* A step of thread t that is not one of open or close leaves the other threads be.
LEMMA OthersKeep ==
  ASSUME CloseInv, NEW u \in Threads, th'[u] = th[u],
         open_cnt' = open_cnt, table_lock' = table_lock, PassedStay \/ open_cnt = 1
  PROVE  CloseOk(u)'
<1>1. CloseOk(u)
  BY DEF CloseInv
<1>2. InSweep(th[u]) => PassedStay
  BY <1>1 DEF CloseOk, InSweep, InClose
<1>3. InSweep(th[u])' => \A o \in Objs \ th'[u].sweep : Passed(o)'
  BY <1>1, <1>2 DEF CloseOk, PassedStay, InSweep
<1> QED BY <1>1, <1>3 DEF CloseOk, InClose, InSweep

\* What one step of thread t has to show
LEMMA OneThread ==
  ASSUME TypeOK, CloseInv, NEW t \in Threads, NEW x, th' = [th EXCEPT ![t] = x],
         open_cnt' = open_cnt, table_lock' = table_lock, PassedStay \/ open_cnt = 1,
         CloseOk(t)'
  PROVE  CloseInv'
<1>1. ASSUME NEW u \in Threads  PROVE CloseOk(u)'
  <2>1. CASE u = t
    BY <2>1
  <2>2. CASE u # t
    <3>1. th'[u] = th[u]
      BY <2>2 DEF TypeOK
    <3> QED BY <3>1, OthersKeep
  <2> QED BY <2>1, <2>2
<1>2. open_cnt' = 0 /\ table_lock' = None => \A o \in Objs : Passed(o)'
  BY DEF CloseInv, PassedStay
<1> QED BY <1>1, <1>2 DEF CloseInv

\* A step that moves no thread
LEMMA NoThread ==
  ASSUME CloseInv, th' = th, open_cnt' = open_cnt, table_lock' = table_lock, PassedStay
  PROVE  CloseInv'
<1>1. \A u \in Threads : CloseOk(u)'
  BY OthersKeep
<1> QED BY <1>1 DEF CloseInv, PassedStay

\* A thread that is not in close and goes on to a place without obligations
LEMMA PlainThread ==
  ASSUME TypeOK, CloseInv, NEW t \in Threads, NEW x, th' = [th EXCEPT ![t] = x],
         open_cnt' = open_cnt, table_lock' = table_lock, ~InClose(th[t]), x.pc \in PlainPcs,
         PassedStay \/ open_cnt = 1
  PROVE  CloseInv'
<1>1. th'[t] = x /\ CloseOk(t)
  BY DEF TypeOK, CloseInv
<1>2. CloseOk(t)'
  BY <1>1 DEF CloseOk, InClose, InSweep, PlainPcs
<1> QED BY <1>2, OneThread

\* Steps that only look at a row, or change something other than types and states
LEMMA RowClose ==
  ASSUME TypeOK, CloseInv,
         \/ UNCHANGED vars \/ DequeueEvent \/ \E w \in CbWork : CbDispatch(w)
         \/ \E t \in Threads, o \in Objs :
              \/ \E cb \in Cbs : RegisterCallback(t, o, cb) \/ DeregisterCallback(t, o, cb)
              \/ GetObjRef(t, o) \/ PutObjRef(t, o) \/ UmdSignalRejected(t, o)
              \/ \E pl \in Payloads : RegisterPayload(t, o, pl) \/ DeregisterPayload(t, o, pl)
  PROVE  CloseInv'
<1>1. CASE UNCHANGED vars \/ DequeueEvent \/ \E w \in CbWork : CbDispatch(w)
  BY <1>1, NoThread DEF vars, devVars, DequeueEvent, CbDispatch, PassedStay, Passed, Dead
<1>2. ASSUME NEW t \in Threads, NEW o \in Objs,
             \/ \E cb \in Cbs : RegisterCallback(t, o, cb) \/ DeregisterCallback(t, o, cb)
             \/ GetObjRef(t, o) \/ PutObjRef(t, o) \/ UmdSignalRejected(t, o)
             \/ \E pl \in Payloads : RegisterPayload(t, o, pl) \/ DeregisterPayload(t, o, pl)
      PROVE  CloseInv'
  <2>1. row[o] \in Row
    BY DEF TypeOK
  <2>2. row' = row => PassedStay
    BY DEF PassedStay, Passed, Dead
  <2>3. ASSUME NEW r, row' = [row EXCEPT ![o] = r], r.type = row[o].type, r.state = row[o].state
        PROVE  PassedStay
    BY <2>3, SameTypePassed DEF Dead
  <2>4. ASSUME NEW cb \in Cbs, RegisterCallback(t, o, cb) \/ DeregisterCallback(t, o, cb)
        PROVE  PassedStay
    <3>1. ASSUME NEW k
          PROVE  LET r == [row[o] EXCEPT !.callback_list[cb] = k]
                 IN  r.type = row[o].type /\ r.state = row[o].state
      BY <2>1 DEF Row
    <3>2. PICK k : row' = row \/ row' = [row EXCEPT ![o] = [row[o] EXCEPT !.callback_list[cb] = k]]
      BY <2>4 DEF RegisterCallback, DeregisterCallback
    <3> QED BY <2>2, <2>3, <3>1, <3>2
  <2>5. ASSUME GetObjRef(t, o) \/ PutObjRef(t, o) \/ UmdSignalRejected(t, o)
        PROVE  PassedStay
    <3>1. ASSUME NEW k
          PROVE  LET r == [row[o] EXCEPT !.ref_cnt = k]
                 IN  r.type = row[o].type /\ r.state = row[o].state
      BY <2>1 DEF Row
    <3>2. PICK k : row' = [row EXCEPT ![o] = [row[o] EXCEPT !.ref_cnt = k]]
      BY <2>5 DEF GetObjRef, PutObjRef, UmdSignalRejected
    <3> QED BY <2>3, <3>1, <3>2
  <2>6. ASSUME NEW pl \in Payloads, RegisterPayload(t, o, pl) \/ DeregisterPayload(t, o, pl)
        PROVE  PassedStay
    <3>1. ASSUME NEW k
          PROVE  LET r == [row[o] EXCEPT !.user_payload_list = k]
                 IN  r.type = row[o].type /\ r.state = row[o].state
      BY <2>1 DEF Row
    <3>2. PICK k : row' = row \/ row' = [row EXCEPT ![o] = [row[o] EXCEPT !.user_payload_list = k]]
      BY <2>6 DEF RegisterPayload, DeregisterPayload
    <3> QED BY <2>2, <2>3, <3>1, <3>2
  <2>7. PassedStay
    BY <1>2, <2>4, <2>5, <2>6
  <2>8. th' = th /\ UNCHANGED devVars
    BY <1>2 DEF RegisterCallback, DeregisterCallback, GetObjRef, PutObjRef, UmdSignalRejected,
                RegisterPayload, DeregisterPayload
  <2> QED BY <2>7, <2>8, NoThread DEF devVars
<1> QED BY <1>1, <1>2

\* cam_sync_create, which needs the device open, and cam_sync_wait
LEMMA CreateClose ==
  ASSUME TypeOK, CloseInv, NEW t \in Threads,
         \/ CreateReserve(t) \/ CreateInit(t) \/ WaitWoken(t) \/ WaitTimeout(t)
         \/ \E o \in Objs : WaitBegin(t, o)
  PROVE  CloseInv'
<1>0. CloseOk(t) /\ Idle.pc = "idle" /\ \A o : [Idle EXCEPT !.pc = "wait", !.obj = o].pc = "wait"
  BY DEF CloseInv, Idle
<1>1. CASE CreateReserve(t)
  <2>1. PICK o \in Objs : th' = [th EXCEPT ![t] = [Idle EXCEPT !.pc = "create_init", !.obj = o]]
    BY <1>1 DEF CreateReserve
  <2>2. [Idle EXCEPT !.pc = "create_init", !.obj = o].pc = "create_init"
    BY DEF Idle
  <2>3. open_cnt = 1 /\ th[t].pc = "idle" /\ UNCHANGED devVars
    BY <1>1 DEF CreateReserve, MayCall
  <2>4. th'[t].pc = "create_init"
    BY <2>1, <2>2 DEF TypeOK
  <2>5. CloseOk(t)'
    BY <1>0, <2>3, <2>4 DEF CloseOk, InClose, InSweep, devVars
  <2> QED BY <2>1, <2>3, <2>5, OneThread DEF devVars
<1>2. CASE CreateInit(t)
  <2>1. open_cnt = 1 /\ ~InClose(th[t])
    BY <1>0, <1>2 DEF CreateInit, CloseOk, InClose
  <2>2. th' = [th EXCEPT ![t] = Idle] /\ UNCHANGED devVars
    BY <1>2 DEF CreateInit
  <2> QED BY <1>0, <2>1, <2>2, PlainThread DEF devVars, PlainPcs
<1>3. ASSUME WaitWoken(t) \/ WaitTimeout(t) \/ \E o \in Objs : WaitBegin(t, o)  PROVE CloseInv'
  <2>1. PICK x : th' = [th EXCEPT ![t] = x] /\ x.pc \in {"idle", "wait"}
    BY <1>0, <1>3 DEF WaitWoken, WaitTimeout, WaitBegin
  <2>2. row' = row /\ UNCHANGED devVars
    BY <1>3 DEF WaitWoken, WaitTimeout, WaitBegin
  <2>3. ~InClose(th[t])
    BY <1>3 DEF WaitWoken, WaitTimeout, WaitBegin, MayCall, InClose
  <2> QED BY <2>1, <2>2, <2>3, PlainThread DEF devVars, PlainPcs, PassedStay, Passed, Dead
<1> QED BY <1>1, <1>2, <1>3

\* The row operations of cam_sync_merge: the id it has taken becomes a group, or is dead.
LEMMA MergePassed ==
  ASSUME TypeOK, OwnerInv, NEW t \in Threads,
         \/ MergeLock(t) \/ MergeFinish(t) \/ MergeAbort(t)
         \/ \E c \in Objs : MergeChild(t, c) \/ MergeClean(t, c)
  PROVE  PassedStay
<1>0. PICK o \in Objs : o = th[t].obj
  BY DEF MergeLock, MergeFinish, MergeAbort, MergeChild, MergeClean, TypeOK, Local, Named
<1>1. row[o] \in Row
  BY DEF TypeOK
<1>2. CASE MergeLock(t)
  BY <1>0, <1>1, <1>2, KeepType, RowPassed DEF MergeLock
<1>3. CASE MergeFinish(t)
  <2>1. row[o].state # INVALID
    BY <1>0, <1>3 DEF MergeFinish, OwnerInv, OwnersExclude, Owns, Building
  <2> QED BY <1>0, <1>1, <1>3, <2>1, KeepType, SameTypePassed DEF MergeFinish, Dead
<1>4. CASE MergeAbort(t)
  <2>1. /\ [row[o] EXCEPT !.children_list = {}].type = row[o].type
        /\ [row[o] EXCEPT !.children_list = {}].state = row[o].state
    BY <1>1 DEF Row
  <2> QED BY <1>0, <1>4, <2>1, SameTypePassed DEF MergeAbort, Dead
<1>5. ASSUME NEW c \in Objs, MergeChild(t, c)  PROVE PassedStay
  <2>1. row[o].state # INVALID /\ row[c] \in Row
    BY <1>0, <1>5 DEF MergeChild, OwnerInv, OwnersExclude, Owns, Building, TypeOK
  <2>2. CASE MergeLink(t, c)
    <3>1. row' = [row EXCEPT ![o] = AddChild(@, c), ![c] = AddParent(@, o)]
      BY <1>0, <2>2 DEF MergeLink
    <3>2. AddChild(row[o], c) \in Row
      BY <1>1, LinkType
    <3>3. \A r \in Row : /\ AddChild(r, c).type = r.type /\ AddChild(r, c).state = r.state
                         /\ AddParent(r, o).type = r.type /\ AddParent(r, o).state = r.state
      BY KeepType, KeepState
    <3>4. \A p \in Objs : row'[p].type = row[p].type /\ row'[p].state = row[p].state
      BY <1>1, <2>1, <3>1, <3>2, <3>3 DEF TypeOK
    <3> QED BY <3>4 DEF PassedStay, Passed, Dead
  <2>3. CASE MergeSkip(t, c)
    <3>1. row' = [row EXCEPT ![o] = Inherit(row[o], row[c].state)]
      BY <1>0, <2>3 DEF MergeSkip
    <3> QED BY <1>1, <2>1, <3>1, KeepType, SameTypePassed DEF Dead
  <2>4. CASE MergeFail(t, c)
    <3>1. PICK k : row' = [row EXCEPT ![o] = Fails(row[o], k)]
      BY <1>0, <2>4 DEF MergeFail
    <3> QED BY <1>1, <3>1, NewState, RowPassed
  <2> QED BY <1>5, <2>2, <2>3, <2>4 DEF MergeChild
<1>6. ASSUME NEW c \in Objs, MergeClean(t, c)  PROVE PassedStay
  <2>1. row[c] \in Row /\ row' = [row EXCEPT ![c] = DropParent(row[c], th[t].obj)]
    BY <1>6 DEF MergeClean, TypeOK
  <2> QED BY <2>1, KeepType, KeepState, SameTypePassed DEF Dead
<1> QED BY <1>2, <1>3, <1>4, <1>5, <1>6

\* cam_sync_merge
LEMMA MergeClose ==
  ASSUME TypeOK, OwnerInv, CloseInv, NEW t \in Threads,
         \/ \E S \in SUBSET Objs : MergeBegin(t, S)
         \/ \E c \in Objs : MergeCheckValid(t, c) \/ MergeChild(t, c) \/ MergeClean(t, c)
         \/ MergeReserve(t) \/ MergeLock(t) \/ MergeFinish(t) \/ MergeAbort(t)
  PROVE  CloseInv'
<1>0. th[t] \in Local /\ Idle.pc = "idle"
  BY DEF TypeOK, Idle
<1>1. UNCHANGED devVars /\ ~InClose(th[t])
  BY DEF MergeBegin, MergeCheckValid, MergeReserve, MergeLock, MergeChild, MergeFinish,
         MergeClean, MergeAbort, MayCall, InClose
<1>2. PassedStay
  <2>1. CASE \/ MergeReserve(t) \/ \E S \in SUBSET Objs : MergeBegin(t, S)
             \/ \E c \in Objs : MergeCheckValid(t, c)
    BY <2>1 DEF MergeReserve, MergeBegin, MergeCheckValid, PassedStay, Passed, Dead
  <2> QED BY <2>1, MergePassed
<1>3. PICK x : th' = [th EXCEPT ![t] = x] /\ x.pc \in PlainPcs
  <2>1. ASSUME NEW S \in SUBSET Objs, MergeBegin(t, S)
        PROVE  \E x : th' = [th EXCEPT ![t] = x] /\ x.pc \in PlainPcs
    <3>1. [Idle EXCEPT !.pc = "merge_check", !.todo = S].pc \in PlainPcs
      BY DEF Idle, PlainPcs
    <3> QED BY <2>1, <3>1 DEF MergeBegin
  <2>2. ASSUME NEW c \in Objs, MergeCheckValid(t, c) \/ MergeChild(t, c) \/ MergeClean(t, c)
        PROVE  \E x : th' = [th EXCEPT ![t] = x] /\ x.pc \in PlainPcs
    <3>1. /\ th[t].pc \in PlainPcs => Visited(th[t], c).pc \in PlainPcs
          /\ [th[t] EXCEPT !.pc = "merge_clean", !.todo = {}].pc \in PlainPcs
          /\ th[t].pc \in PlainPcs => [th[t] EXCEPT !.done = @ \ {c}].pc \in PlainPcs
      BY <1>0 DEF Visited, Local, LocalFields, PlainPcs
    <3>2. th[t].pc \in PlainPcs
      BY <2>2 DEF MergeCheckValid, MergeChild, MergeClean, PlainPcs
    <3>3. CASE MergeCheckValid(t, c)
      BY <1>0, <3>1, <3>2, <3>3 DEF MergeCheckValid, PlainPcs
    <3>4. CASE MergeChild(t, c)
      BY <3>1, <3>2, <3>4 DEF MergeChild, MergeLink, MergeSkip, MergeFail
    <3>5. CASE MergeClean(t, c)
      BY <3>1, <3>2, <3>5 DEF MergeClean
    <3> QED BY <2>2, <3>3, <3>4, <3>5
  <2>3. CASE MergeReserve(t) \/ MergeLock(t)
    <3>1. /\ \A o : [th[t] EXCEPT !.pc = "merge_lock", !.obj = o].pc \in PlainPcs
          /\ [th[t] EXCEPT !.pc = "merge_child", !.todo = th[t].done, !.done = {}].pc
               \in PlainPcs
      BY <1>0 DEF Local, LocalFields, PlainPcs
    <3> QED BY <1>0, <2>3, <3>1 DEF MergeReserve, MergeLock, PlainPcs
  <2>4. CASE MergeFinish(t) \/ MergeAbort(t)
    BY <1>0, <2>4 DEF MergeFinish, MergeAbort, PlainPcs
  <2> QED BY <2>1, <2>2, <2>3, <2>4
<1> QED BY <1>1, <1>2, <1>3, PlainThread DEF devVars

\* Where a thread in cam_sync_signal may go: it carries "ret" and "sweep" of the caller.
SignalThread(t, x, l) ==
  \/ x = Return(l)
  \/ x.pc = "signal_parents" /\ x.ret = l.ret /\ x.sweep = l.sweep

\* The critical section of cam_sync_signal brings no row to life.
LEMMA SignalRowClose ==
  ASSUME TypeOK, NEW t \in Threads, NEW o \in Objs, NEW status \in Settled,
         NEW l \in Local, SignalRow(t, o, status, l)
  PROVE  PassedStay /\ \E x : th' = [th EXCEPT ![t] = x] /\ SignalThread(t, x, l)
<1>1. row[o] \in Row /\ row[o].state # INVALID
  BY DEF TypeOK, SignalRow, ACTIVE, INVALID
<1>2. \A p \in Objs : p # o => row'[p] = row[p]
  BY DEF SignalRow, TypeOK
<1>3. PassedStay
  <2>1. DispatchedRow(row[o]) \in Row
    BY <1>1, DispatchedRowType
  <2>2. /\ [row[o] EXCEPT !.ref_cnt = @ - 1].type = row[o].type
        /\ [DispatchedRow(row[o]) EXCEPT !.ref_cnt = 0, !.state = status,
                                         !.parents_list = {}].type = row[o].type
    BY <1>1, <2>1, KeepType DEF Row
  <2>3. row'[o].type = row[o].type
    BY <2>2 DEF SignalRow, TypeOK
  <2> QED BY <1>1, <1>2, <2>3 DEF PassedStay, Passed, Dead
<1> DEFINE x == [l EXCEPT !.pc = "signal_parents", !.obj = o, !.st = status,
                          !.folks = row[o].parents_list]
<1>4. x.pc = "signal_parents" /\ x.ret = l.ret /\ x.sweep = l.sweep
  BY DEF Local, LocalFields
<1>5. th' = [th EXCEPT ![t] = Return(l)] \/ th' = [th EXCEPT ![t] = x]
  BY DEF SignalRow
<1> HIDE DEF x
<1> QED BY <1>3, <1>4, <1>5 DEF SignalThread

\* A signal keeps the thread in close where it is: in the first sweep, or out of close.
LEMMA SignalThreadClose ==
  ASSUME TypeOK, CloseInv, NEW t \in Threads, NEW x, th' = [th EXCEPT ![t] = x],
         open_cnt' = open_cnt, table_lock' = table_lock,
         NEW l \in Local, SignalThread(t, x, l),
         \/ l.ret = "idle" /\ ~InClose(th[t])
         \/ l.ret = "close_signal" /\ InClose(th[t])
  PROVE  CloseOk(t)'
<1>1. th'[t] = x /\ CloseOk(t)
  BY DEF TypeOK, CloseInv
<1>2. Return(l).pc = l.ret /\ Return(l).sweep = l.sweep
  BY DEF Return, Idle
<1> QED BY <1>1, <1>2 DEF CloseOk, InClose, InSweep, SignalThread

\* cam_sync_signal and cam_sync_handle_signal
LEMMA SignalClose ==
  ASSUME TypeOK, CloseInv, NEW t \in Threads, NEW o \in Objs,
         \/ \E s \in Settled : Signal(t, o, s) \/ UmdSignalGetRef(t, o, s)
         \/ UmdSignal(t) \/ SignalParent(t, o)
  PROVE  CloseInv'
<1>0. th[t] \in Local /\ CloseOk(t) /\ Idle.ret = "idle" /\ Idle \in Local
  BY LocalType DEF TypeOK, CloseInv, Idle
<1>1. ASSUME NEW p \in Objs, NEW s \in Settled, SignalRow(t, p, s, Idle), ~InClose(th[t]),
             UNCHANGED devVars
      PROVE  CloseInv'
  <2>1. PassedStay
    BY <1>0, <1>1, SignalRowClose
  <2>2. PICK x : th' = [th EXCEPT ![t] = x] /\ SignalThread(t, x, Idle)
    BY <1>0, <1>1, SignalRowClose
  <2>3. CloseOk(t)'
    BY <1>0, <1>1, <2>2, SignalThreadClose DEF devVars
  <2> QED BY <1>1, <2>1, <2>2, <2>3, OneThread DEF devVars
<1>2. ASSUME NEW s \in Settled, Signal(t, o, s)  PROVE CloseInv'
  BY <1>1, <1>2 DEF Signal, MayCall, InClose
<1>3. CASE UmdSignal(t)
  <2>1. th[t].obj \in Objs /\ th[t].st \in Settled
    BY <1>0, <1>3 DEF UmdSignal, Local, Named
  <2>2. CASE th' = [th EXCEPT ![t] = Idle] /\ UNCHANGED <<row, devVars>>
    BY <1>0, <1>3, <2>2, PlainThread
       DEF UmdSignal, InClose, Idle, devVars, PlainPcs, PassedStay, Passed, Dead
  <2> QED BY <1>1, <1>3, <2>1, <2>2 DEF UmdSignal, InClose
<1>4. ASSUME NEW s \in Settled, UmdSignalGetRef(t, o, s)  PROVE CloseInv'
  <2> DEFINE x == [Idle EXCEPT !.pc = "umd_signal", !.obj = o, !.st = s]
  <2>1. th' = [th EXCEPT ![t] = x] /\ th[t].pc = "idle" /\ open_cnt = 1 /\ UNCHANGED devVars
    BY <1>4 DEF UmdSignalGetRef, MayCall
  <2>2. x.pc = "umd_signal"
    BY DEF Idle
  <2> HIDE DEF x
  <2> QED BY <2>1, <2>2, PlainThread DEF devVars, InClose, PlainPcs
<1>5. CASE SignalParent(t, o)
  <2> DEFINE left == th[t].folks \ {o}
             r == [row[o] EXCEPT !.remaining = Dec(@),
                                 !.state = UpdateParentState(@, th[t].st)]
  <2>1. /\ r.type = row[o].type /\ DispatchedRow(r).type = r.type
        /\ row[o].state = INVALID => r.state = INVALID
    BY DEF TypeOK, Row, DispatchedRow, UpdateParentState, ACTIVE, SUCCESS, INVALID
  <2>2. \/ r.state # INVALID /\ row' = [row EXCEPT ![o] = DispatchedRow(r)]
        \/ row' = [row EXCEPT ![o] = r]
    BY <1>5 DEF SignalParent
  <2>3. /\ th[t].pc = "signal_parents" /\ UNCHANGED devVars
        /\ \/ th' = [th EXCEPT ![t] = Return(th[t])]
           \/ th' = [th EXCEPT ![t] = [th[t] EXCEPT !.folks = left]]
    BY <1>5 DEF SignalParent
  <2> HIDE DEF r
  <2>4. PassedStay
    BY <2>1, <2>2 DEF PassedStay, Passed, Dead, TypeOK
  <2>5. /\ [th[t] EXCEPT !.folks = left].pc = "signal_parents"
        /\ [th[t] EXCEPT !.folks = left].ret = th[t].ret
        /\ [th[t] EXCEPT !.folks = left].sweep = th[t].sweep
    BY <1>0, <2>3 DEF Local, LocalFields
  <2>6. PICK x : th' = [th EXCEPT ![t] = x] /\ SignalThread(t, x, th[t])
    BY <2>3, <2>5 DEF SignalThread
  <2>7. CloseOk(t)'
    <3>1. \/ th[t].ret = "idle" /\ ~InClose(th[t])
          \/ th[t].ret = "close_signal" /\ InClose(th[t])
      BY <1>0, <2>3 DEF CloseOk, InClose
    <3> QED BY <1>0, <2>3, <2>6, <3>1, SignalThreadClose DEF devVars
  <2> QED BY <2>3, <2>4, <2>6, <2>7, OneThread DEF devVars
<1> QED BY <1>2, <1>3, <1>4, <1>5

\* DeinitRow kills the row and brings none to life.
LEMMA DeinitRowClose ==
  ASSUME TypeOK, NEW t \in Threads, NEW o \in Objs, NEW l \in Local, DeinitRow(t, o, l)
  PROVE  /\ PassedStay /\ Passed(o)'
         /\ th'[t].pc = "destroy" /\ th'[t].ret = l.ret /\ th'[t].sweep = l.sweep
<1>1. Emptied(row[o]).state = INVALID
  BY NewState DEF TypeOK
<1>2. row' = [row EXCEPT ![o] = Emptied(row[o])]
  BY DEF DeinitRow
<1>3. PassedStay /\ Passed(o)'
  BY <1>1, <1>2 DEF PassedStay, Passed, Dead, TypeOK
<1> DEFINE x == [l EXCEPT !.pc = "destroy", !.obj = o, !.todo = row[o].children_list,
                          !.folks = row[o].parents_list]
<1>4. x.pc = "destroy" /\ x.ret = l.ret /\ x.sweep = l.sweep
  BY DEF Local, LocalFields
<1>5. th' = [th EXCEPT ![t] = x]
  BY DEF DeinitRow
<1> HIDE DEF x
<1> QED BY <1>3, <1>4, <1>5 DEF TypeOK

\* cam_sync_deinit_object
LEMMA DestroyClose ==
  ASSUME TypeOK, CloseInv, NEW t \in Threads,
         \/ DestroyFinish(t)
         \/ \E o \in Objs : Destroy(t, o) \/ DestroyChild(t, o) \/ DestroyParent(t, o)
  PROVE  CloseInv'
<1>0. th[t] \in Local /\ CloseOk(t) /\ Idle \in Local /\ Idle.ret = "idle"
  BY LocalType DEF TypeOK, CloseInv, Idle
<1>1. ASSUME NEW o \in Objs, Destroy(t, o)  PROVE CloseInv'
  <2>1. /\ DeinitRow(t, o, Idle) /\ th[t].pc = "idle"
        /\ UNCHANGED devVars
    BY <1>1 DEF Destroy, MayCall
  <2>2. PassedStay /\ th'[t].pc = "destroy" /\ th'[t].ret = "idle"
    BY <1>0, <2>1, DeinitRowClose
  <2>3. CloseOk(t)'
    BY <1>0, <2>1, <2>2 DEF CloseOk, InClose, InSweep, devVars
  <2>4. PICK x : th' = [th EXCEPT ![t] = x]
    BY <2>1 DEF DeinitRow
  <2> QED BY <2>1, <2>2, <2>3, <2>4, OneThread DEF devVars
<1>2. ASSUME NEW o \in Objs, DestroyChild(t, o) \/ DestroyParent(t, o)  PROVE CloseInv'
  <2>1. PassedStay
    <3>1. /\ DropParent(row[o], th[t].obj).state = row[o].state
          /\ DropParent(row[o], th[t].obj).type = row[o].type
          /\ DropChild(row[o], th[t].obj).state = row[o].state
          /\ DropChild(row[o], th[t].obj).type = row[o].type
      BY KeepState, KeepType DEF TypeOK
    <3> QED BY <1>2, <3>1 DEF DestroyChild, DestroyParent, PassedStay, Passed, Dead, TypeOK
  <2>2. th[t].pc = "destroy" /\ UNCHANGED devVars
    BY <1>2 DEF DestroyChild, DestroyParent
  <2>3. \A k : /\ [th[t] EXCEPT !.todo = k].pc = "destroy"
               /\ [th[t] EXCEPT !.todo = k].ret = th[t].ret
               /\ [th[t] EXCEPT !.todo = k].sweep = th[t].sweep
               /\ [th[t] EXCEPT !.folks = k].pc = "destroy"
               /\ [th[t] EXCEPT !.folks = k].ret = th[t].ret
               /\ [th[t] EXCEPT !.folks = k].sweep = th[t].sweep
    BY <1>0, <2>2 DEF Local, LocalFields
  <2>4. PICK k : \/ th' = [th EXCEPT ![t] = [th[t] EXCEPT !.todo = k]]
               \/ th' = [th EXCEPT ![t] = [th[t] EXCEPT !.folks = k]]
    BY <1>2 DEF DestroyChild, DestroyParent
  <2>5. PICK x : /\ th' = [th EXCEPT ![t] = x]
                 /\ x.pc = "destroy" /\ x.ret = th[t].ret /\ x.sweep = th[t].sweep
    <3>1. CASE th' = [th EXCEPT ![t] = [th[t] EXCEPT !.todo = k]]
      <4> WITNESS [th[t] EXCEPT !.todo = k]
      <4> QED BY <2>3, <3>1
    <3>2. CASE th' = [th EXCEPT ![t] = [th[t] EXCEPT !.folks = k]]
      <4> WITNESS [th[t] EXCEPT !.folks = k]
      <4> QED BY <2>3, <3>2
    <3> QED BY <2>4, <3>1, <3>2
  <2>6. th'[t] = x
    BY <2>5 DEF TypeOK
  <2>7. CloseOk(t)'
    BY <1>0, <2>1, <2>2, <2>5, <2>6
       DEF CloseOk, InClose, InSweep, devVars, PassedStay
  <2> QED BY <2>1, <2>2, <2>5, <2>7, OneThread DEF devVars
<1>3. CASE DestroyFinish(t)
  <2>1. /\ th[t].pc = "destroy"  /\ UNCHANGED devVars
        /\ row' = [row EXCEPT ![th[t].obj] = ZeroRow]
        /\ th' = [th EXCEPT ![t] = Return(th[t])]
    BY <1>3 DEF DestroyFinish
  <2>2. PassedStay
    BY <2>1 DEF PassedStay, Passed, Dead, TypeOK, ZeroRow
  <2>3. Return(th[t]).pc = th[t].ret /\ Return(th[t]).sweep = th[t].sweep
    BY DEF Return, Idle
  <2>4. th'[t] = Return(th[t])
    BY <2>1 DEF TypeOK
  <2>5. CloseOk(t)'
    BY <1>0, <2>1, <2>2, <2>3, <2>4
       DEF CloseOk, InClose, InSweep, devVars, PassedStay
  <2> QED BY <2>1, <2>2, <2>5, OneThread DEF devVars
<1> QED BY <1>1, <1>2, <1>3

\* The sweeps of cam_sync_close
LEMMA SweepClose ==
  ASSUME TypeOK, CloseInv, NEW t \in Threads,
         \/ CloseFlushBegin(t) \/ CloseFlushEnd(t)
         \/ \E o \in Objs : CloseSignal(t, o) \/ CloseDestroy(t, o)
  PROVE  CloseInv'
<1>0. th[t] \in Local /\ CloseOk(t)
  BY DEF TypeOK, CloseInv
<1>1. CASE CloseFlushBegin(t) \/ CloseFlushEnd(t)
  <2>1. /\ th[t].pc \in {"close_signal", "close_flush"} /\ row' = row
        /\ open_cnt' = open_cnt /\ table_lock' = table_lock
    BY <1>1 DEF CloseFlushBegin, CloseFlushEnd, devVars
  <2>2. /\ [Idle EXCEPT !.pc = "close_flush"].pc = "close_flush"
        /\ [Idle EXCEPT !.pc = "close_destroy", !.sweep = Objs].pc = "close_destroy"
        /\ [Idle EXCEPT !.pc = "close_destroy", !.sweep = Objs].sweep = Objs
    BY DEF Idle
  <2>3. PICK x : /\ th' = [th EXCEPT ![t] = x]
                 /\ x.pc = "close_flush" \/ (x.pc = "close_destroy" /\ x.sweep = Objs)
    BY <1>1, <2>2 DEF CloseFlushBegin, CloseFlushEnd
  <2>4. th'[t] = x
    BY <2>3 DEF TypeOK
  <2>5. CloseOk(t)'
    BY <1>0, <2>1, <2>3, <2>4 DEF CloseOk, InClose, InSweep
  <2> QED BY <2>1, <2>3, <2>5, OneThread DEF PassedStay, Passed, Dead
<1>2. ASSUME NEW o \in Objs, CloseSignal(t, o)  PROVE CloseInv'
  <2> DEFINE l == [th[t] EXCEPT !.sweep = @ \ {o}, !.ret = "close_signal"]
             y == [th[t] EXCEPT !.sweep = @ \ {o}]
  <2>1. th[t].pc = "close_signal" /\ UNCHANGED devVars
    BY <1>2 DEF CloseSignal
  <2>2. l \in Local /\ l.ret = "close_signal" /\ y.pc = "close_signal"
    BY <1>0, <2>1 DEF Local, LocalFields, Named
  <2>3. SignalRow(t, o, ERROR, l) \/ (row' = row /\ th' = [th EXCEPT ![t] = y])
    BY <1>2 DEF CloseSignal
  <2> HIDE DEF l, y
  <2>4. CASE SignalRow(t, o, ERROR, l)
    <3>1. ERROR \in Settled
      BY DEF Settled
    <3>2. PassedStay
      BY <2>2, <2>4, <3>1, SignalRowClose
    <3>3. PICK x : th' = [th EXCEPT ![t] = x] /\ SignalThread(t, x, l)
      BY <2>2, <2>4, <3>1, SignalRowClose
    <3>4. CloseOk(t)'
      BY <2>1, <2>2, <3>3, SignalThreadClose DEF devVars, InClose
    <3> QED BY <2>1, <3>2, <3>3, <3>4, OneThread DEF devVars
  <2>5. CASE row' = row /\ th' = [th EXCEPT ![t] = y]
    <3>1. th'[t] = y
      BY <2>5 DEF TypeOK
    <3>2. CloseOk(t)'
      BY <1>0, <2>1, <2>2, <3>1 DEF CloseOk, InClose, InSweep, devVars
    <3> QED BY <2>1, <2>5, <3>2, OneThread DEF devVars, PassedStay, Passed, Dead
  <2> QED BY <2>3, <2>4, <2>5
<1>3. ASSUME NEW o \in Objs, CloseDestroy(t, o)  PROVE CloseInv'
  <2> DEFINE l == [th[t] EXCEPT !.sweep = @ \ {o}, !.ret = "close_destroy"]
             y == [th[t] EXCEPT !.sweep = @ \ {o}]
  <2>1. th[t].pc = "close_destroy" /\ UNCHANGED devVars
    BY <1>3 DEF CloseDestroy
  <2>2. /\ l \in Local /\ l.ret = "close_destroy" /\ l.sweep = th[t].sweep \ {o}
        /\ y.pc = "close_destroy" /\ y.sweep = th[t].sweep \ {o}
    BY <1>0, <2>1 DEF Local, LocalFields, Named
  <2>3. DeinitRow(t, o, l) \/ (Dead(o) /\ row' = row /\ th' = [th EXCEPT ![t] = y])
    BY <1>3 DEF CloseDestroy, Dead
  <2> HIDE DEF l, y
  <2>4. CASE DeinitRow(t, o, l)
    <3>1. /\ PassedStay /\ Passed(o)'
          /\ th'[t].pc = "destroy" /\ th'[t].ret = "close_destroy"
          /\ th'[t].sweep = th[t].sweep \ {o}
      BY <2>2, <2>4, DeinitRowClose
    <3>2. CloseOk(t)'
      BY <1>0, <2>1, <3>1 DEF CloseOk, InClose, InSweep, devVars, PassedStay
    <3>3. PICK x : th' = [th EXCEPT ![t] = x]
      BY <2>4 DEF DeinitRow
    <3> QED BY <2>1, <3>1, <3>2, <3>3, OneThread DEF devVars
  <2>5. CASE Dead(o) /\ row' = row /\ th' = [th EXCEPT ![t] = y]
    <3>1. th'[t] = y
      BY <2>5 DEF TypeOK
    <3>2. CloseOk(t)'
      BY <1>0, <2>1, <2>2, <2>5, <3>1 DEF CloseOk, InClose, InSweep, devVars, Passed, Dead
    <3> QED BY <2>1, <2>5, <3>2, OneThread DEF devVars, PassedStay, Passed, Dead
  <2> QED BY <2>3, <2>4, <2>5
<1> QED BY <1>1, <1>2, <1>3

\* cam_sync_open, the begin of cam_sync_close and its end: when the second sweep is over it
\* has passed every row.
LEMMA OpenClose ==
  ASSUME TypeOK, CloseInv, NEW t \in Threads,
         Open(t) \/ CloseBegin(t) \/ CloseUnlock(t) \/ CloseNull(t)
  PROVE  CloseInv'
<1>0. \A u \in Threads : CloseOk(u) /\ u # None
  BY NoneAssumption DEF CloseInv
<1>1. CASE Open(t)
  <2>1. /\ th' = th /\ row' = row /\ open_cnt' = 1
        /\ table_lock = None /\ table_lock' = None
    BY <1>1 DEF Open
  <2>2. ASSUME NEW u \in Threads  PROVE CloseOk(u)'
    BY <1>0, <2>1 DEF CloseOk, InClose, InSweep
  <2> QED BY <2>1, <2>2 DEF CloseInv
<1>2. CASE CloseBegin(t)
  <2> DEFINE x == [Idle EXCEPT !.pc = "close_signal", !.sweep = Objs]
  <2>1. /\ th[t].pc = "idle" /\ th' = [th EXCEPT ![t] = x]
        /\ row' = row /\ open_cnt' = 0 /\ table_lock = None /\ table_lock' = t
        /\ \A u \in Threads : th[u].pc # "create_init"
    BY <1>2 DEF CloseBegin, MayCall
  <2>2. x.pc = "close_signal"
    BY DEF Idle
  <2> HIDE DEF x
  <2>3. ASSUME NEW u \in Threads  PROVE CloseOk(u)'
    <3>1. CASE u = t
      <4>1. th'[u] = x
        BY <2>1, <3>1 DEF TypeOK
      <4> QED BY <1>0, <2>1, <2>2, <3>1, <4>1 DEF CloseOk, InClose, InSweep
    <3>2. CASE u # t
      <4>1. th'[u] = th[u]
        BY <2>1, <3>2 DEF TypeOK
      <4>2. ~InClose(th[u]) /\ ~InSweep(th[u])
        BY <1>0, <2>1 DEF CloseOk, InClose, InSweep
      <4> QED BY <1>0, <2>1, <3>2, <4>1, <4>2 DEF CloseOk, InClose, InSweep
    <3> QED BY <3>1, <3>2
  <2> QED BY <1>0, <2>1, <2>3 DEF CloseInv
<1>3. CASE CloseUnlock(t)
  <2> DEFINE x == [Idle EXCEPT !.pc = "close_null"]
  <2>1. /\ th[t].pc = "close_destroy" /\ th[t].sweep = {} /\ th' = [th EXCEPT ![t] = x]
        /\ row' = row /\ open_cnt' = open_cnt /\ table_lock' = None
    BY <1>3 DEF CloseUnlock
  <2>2. x.pc = "close_null"
    BY DEF Idle
  <2> HIDE DEF x
  <2>3. table_lock = t /\ \A o \in Objs : Passed(o)
    BY <1>0, <2>1 DEF CloseOk, InClose, InSweep
  <2>4. ASSUME NEW u \in Threads  PROVE CloseOk(u)'
    <3>1. CASE u = t
      <4>1. th'[u] = x
        BY <2>1, <3>1 DEF TypeOK
      <4> QED BY <1>0, <2>1, <2>2, <4>1 DEF CloseOk, InClose, InSweep
    <3>2. CASE u # t
      <4>1. th'[u] = th[u]
        BY <2>1, <3>2 DEF TypeOK
      <4>2. ~InClose(th[u])
        BY <1>0, <2>3, <3>2 DEF CloseOk
      <4> QED BY <1>0, <2>1, <4>1, <4>2 DEF CloseOk, InClose, InSweep
    <3> QED BY <3>1, <3>2
  <2> QED BY <2>1, <2>3, <2>4 DEF CloseInv, Passed, Dead
<1>4. CASE CloseNull(t)
  BY <1>4, PlainThread DEF CloseNull, InClose, Idle, PlainPcs, PassedStay, Passed, Dead
<1> QED BY <1>1, <1>2, <1>3, <1>4

\* Initially the device is closed and the table empty.
LEMMA InitClose == Init => CloseInv
BY NoneAssumption DEF Init, CloseInv, CloseOk, InClose, InSweep, Passed, Dead, ZeroRow, Idle

\* Every step keeps individual fences out of the table of a closed device.
LEMMA StepClose == TypeOK /\ OwnerInv /\ CloseInv /\ [Next]_vars => CloseInv'
<1> SUFFICES ASSUME TypeOK, OwnerInv, CloseInv, [Next]_vars PROVE CloseInv'
  OBVIOUS
<1>1. CASE (\E w \in CbWork : CbDispatch(w)) \/ DequeueEvent \/ UNCHANGED vars
  BY <1>1, RowClose
<1>2. ASSUME NEW t \in Threads, Step(t)  PROVE CloseInv'
  <2>1. CASE \/ CreateInit(t) \/ WaitWoken(t) \/ WaitTimeout(t) \/ CloseUnlock(t) \/ CloseNull(t)
             \/ CloseFlushBegin(t) \/ CloseFlushEnd(t) \/ DestroyFinish(t)
             \/ \E o \in Objs : \/ DestroyChild(t, o) \/ DestroyParent(t, o)
                              \/ CloseSignal(t, o) \/ CloseDestroy(t, o)
    BY <2>1, CreateClose, DestroyClose, SweepClose, OpenClose
  <2>2. CASE \/ MergeReserve(t) \/ MergeLock(t) \/ MergeFinish(t) \/ MergeAbort(t)
             \/ \E o \in Objs : MergeCheckValid(t, o) \/ MergeChild(t, o) \/ MergeClean(t, o)
    BY <2>2, MergeClose
  <2>3. ASSUME NEW o \in Objs, SignalParent(t, o)  PROVE CloseInv'
    BY <2>3, SignalClose
  <2>4. CASE UmdSignal(t)
    <3>1. th[t].obj \in Objs
      BY <2>4 DEF UmdSignal, TypeOK, Local, Named
    <3> QED BY <2>4, <3>1, SignalClose
  <2> QED BY <1>2, <2>1, <2>2, <2>3, <2>4 DEF Step
<1>3. ASSUME NEW t \in Threads, Call(t)  PROVE CloseInv'
  BY <1>3, CreateClose, MergeClose, SignalClose, DestroyClose, RowClose, OpenClose DEF Call
<1> QED BY <1>1, <1>2, <1>3 DEF Next

\* No individual fence outlives cam_sync_close, whatever clients create, signal, register,
\* merge and destroy beside it: the second sweep passes every id, only an ioctl on the open
\* device creates a fence, and the next open waits for table_lock.
THEOREM FencesEndWithClose == Spec => []NoFenceOutlivesClose
<1>1. Init => TypeOK /\ OwnerInv /\ CloseInv
  BY InitTypeOK, InitOwner, InitClose
<1>2. TypeOK /\ OwnerInv /\ CloseInv /\ [Next]_vars => (TypeOK /\ OwnerInv /\ CloseInv)'
  BY StepTypeOK, StepOwner, StepClose
<1>3. TypeOK /\ OwnerInv /\ CloseInv => NoFenceOutlivesClose
  BY DEF TypeOK, OwnerInv, BitmapExact, CloseInv, Passed, Dead, NoFenceOutlivesClose
<1> QED BY <1>1, <1>2, <1>3, PTL DEF Spec
=============================================================================
