------------------------- MODULE CamSyncImplements -------------------------
(***************************************************************************)
(* CamSync implements CamFence: every step of the driver is a step of the  *)
(* abstract specification, or leaves its view of the fences alone.         *)
(***************************************************************************)
EXTENDS CamSyncContract

-----------------------------------------------------------------------------
(* The abstract view, object by object                                      *)

FenceOf(o) == IF Hidden(o) THEN INVALID ELSE IF Complete(row[o]) THEN row[o].state ELSE ACTIVE
BadOf(g)   == ~Hidden(g) /\ row[g].type = "GROUP" /\ row[g].state = ERROR
KidsOf(g)  == IF Free(g) THEN Links(g) ELSE {}

\* The outcome of child c, on its way to group g with thread t
Report(t, c, g) == [kid |-> c, group |-> g, status |-> th[t].st]
OnTheWay(q) == \E t \in Threads, c, g \in Objs : Reporting(t, c, g) /\ Free(g) /\ q = Report(t, c, g)

ViewExact ==
  /\ fenceBar = [o \in Objs |-> FenceOf(o)]
  /\ waitingBar = [g \in Objs |-> KidsOf(g)]
  /\ badBar = [g \in Objs |-> BadOf(g)]
  /\ pendBar = [o \in Objs |-> row[o].callback_list]
  /\ askedBar = [t \in Threads |-> Elements(t)]
  /\ \A q : q \in reportsBar <=> OnTheWay(q)

\* These are the values of the refinement mapping.
LEMMA View == TypeOK => ViewExact
<1> SUFFICES ASSUME TypeOK PROVE ViewExact
  OBVIOUS
<1>1. fenceBar = [o \in Objs |-> FenceOf(o)]
  BY DEF fenceBar, FenceOf
<1>2. waitingBar = [g \in Objs |-> KidsOf(g)]
  BY DEF waitingBar, KidsOf, Links
<1>3. badBar = [g \in Objs |-> BadOf(g)]
  BY DEF badBar, BadOf
<1>4. pendBar = [o \in Objs |-> row[o].callback_list]
  BY DEF pendBar
<1>5. askedBar = [t \in Threads |-> Elements(t)]
  BY DEF askedBar, Elements
<1>6. ASSUME NEW q  PROVE q \in reportsBar <=> OnTheWay(q)
  <2>1. ASSUME q \in reportsBar  PROVE OnTheWay(q)
    <3>1. PICK p \in Threads \X Objs :
             /\ th[p[1]].pc = "signal_parents" /\ p[2] \in th[p[1]].folks /\ Free(p[2])
             /\ q = [kid |-> th[p[1]].obj, group |-> p[2], status |-> th[p[1]].st]
      BY <2>1 DEF reportsBar
    <3>2. p[1] \in Threads /\ p[2] \in Objs /\ th[p[1]].obj \in Objs
      BY <3>1 DEF TypeOK, Local, Named
    <3> QED BY <3>1, <3>2 DEF OnTheWay, Reporting, Report
  <2>2. ASSUME NEW t \in Threads, NEW c \in Objs, NEW g \in Objs, Reporting(t, c, g), Free(g),
               q = Report(t, c, g)
        PROVE  q \in reportsBar
    <3>1. <<t, g>> \in Threads \X Objs /\ <<t, g>>[1] = t /\ <<t, g>>[2] = g
      OBVIOUS
    <3> QED BY <2>2, <3>1 DEF reportsBar, Reporting, Report
  <2> QED BY <2>1, <2>2 DEF OnTheWay
<1> QED BY <1>1, <1>2, <1>3, <1>4, <1>5, <1>6 DEF ViewExact

LEMMA NextView == TypeOK' => ViewExact'
BY View, PTL

\* Each part of the view stays the same when its sources do.
LEMMA SameFences ==
  ASSUME TypeOK, TypeOK', \A o \in Objs : FenceOf(o)' = FenceOf(o)  PROVE fenceBar' = fenceBar
BY View, NextView DEF ViewExact

LEMMA SameWaiting ==
  ASSUME TypeOK, TypeOK', \A o \in Objs : KidsOf(o)' = KidsOf(o)  PROVE waitingBar' = waitingBar
BY View, NextView DEF ViewExact

LEMMA SameBad ==
  ASSUME TypeOK, TypeOK', \A o \in Objs : BadOf(o)' = BadOf(o)  PROVE badBar' = badBar
BY View, NextView DEF ViewExact

LEMMA SamePend ==
  ASSUME TypeOK, TypeOK', \A o \in Objs : row'[o].callback_list = row[o].callback_list
  PROVE  pendBar' = pendBar
BY View, NextView DEF ViewExact

LEMMA SameAsked ==
  ASSUME TypeOK, TypeOK', \A u \in Threads : Elements(u)' = Elements(u)  PROVE askedBar' = askedBar
BY View, NextView DEF ViewExact

LEMMA SameReports ==
  ASSUME TypeOK, TypeOK',
         \A u \in Threads, c, g \in Objs :
           /\ Free(g)' /\ Reporting(u, c, g)' <=> Free(g) /\ Reporting(u, c, g)
           /\ Reporting(u, c, g)' /\ Reporting(u, c, g) => th'[u].st = th[u].st
  PROVE  reportsBar' = reportsBar
<1>1. \A q : OnTheWay(q)' <=> OnTheWay(q)
  BY DEF OnTheWay, Report
<1>2. \A q : q \in reportsBar' <=> q \in reportsBar
  BY <1>1, View, NextView DEF ViewExact
<1> QED BY <1>2

\* The fate of every row is the same and no lock is taken or dropped.
LEMMA SameTable ==
  ASSUME TypeOK, TypeOK', lock' = lock, \A p \in Objs : SameFate(row'[p], row[p])
  PROVE  fenceBar' = fenceBar /\ waitingBar' = waitingBar /\ badBar' = badBar
<1>1. \A p \in Objs : (Free(p)' <=> Free(p)) /\ (Hidden(p)' <=> Hidden(p))
  BY DEF Free, Hidden, SameFate
<1>2. \A p \in Objs : FenceOf(p)' = FenceOf(p)
  BY <1>1 DEF FenceOf, Complete, SameFate
<1>3. \A p \in Objs : BadOf(p)' = BadOf(p)
  BY <1>1 DEF BadOf, SameFate
<1>4. \A p \in Objs : KidsOf(p)' = KidsOf(p)
  BY <1>1 DEF KidsOf, Links, SameFate
<1> QED BY <1>2, <1>3, <1>4, SameFences, SameBad, SameWaiting

\* No thread begins, ends or advances a loop over parents.
LEMMA SameLoops ==
  ASSUME TypeOK, TypeOK', lock' = lock,
         \A u \in Threads : \/ th'[u] = th[u]
                            \/ th[u].pc # "signal_parents" /\ th'[u].pc # "signal_parents"
  PROVE  reportsBar' = reportsBar
<1>1. \A u \in Threads, c, g \in Objs :
           /\ Free(g)' /\ Reporting(u, c, g)' <=> Free(g) /\ Reporting(u, c, g)
           /\ Reporting(u, c, g)' /\ Reporting(u, c, g) => th'[u].st = th[u].st
  BY DEF Free, Reporting
<1> QED BY <1>1, SameReports

\* Each part of the view changes at one object when its sources do.
LEMMA FenceExcept ==
  ASSUME TypeOK, TypeOK', NEW o \in Objs, NEW v, FenceOf(o)' = v,
         \A p \in Objs : p # o => FenceOf(p)' = FenceOf(p)
  PROVE  fenceBar' = [fenceBar EXCEPT ![o] = v]
BY View, NextView DEF ViewExact

LEMMA WaitingExcept ==
  ASSUME TypeOK, TypeOK', NEW o \in Objs, NEW v, KidsOf(o)' = v,
         \A p \in Objs : p # o => KidsOf(p)' = KidsOf(p)
  PROVE  waitingBar' = [waitingBar EXCEPT ![o] = v]
BY View, NextView DEF ViewExact

LEMMA BadExcept ==
  ASSUME TypeOK, TypeOK', NEW o \in Objs, NEW v, BadOf(o)' = v,
         \A p \in Objs : p # o => BadOf(p)' = BadOf(p)
  PROVE  badBar' = [badBar EXCEPT ![o] = v]
BY View, NextView DEF ViewExact

LEMMA PendExcept ==
  ASSUME TypeOK, TypeOK', NEW o \in Objs, NEW v, row'[o].callback_list = v,
         \A p \in Objs : p # o => row'[p].callback_list = row[p].callback_list
  PROVE  pendBar' = [pendBar EXCEPT ![o] = v]
BY View, NextView DEF ViewExact

AbsStep == [Fence!Next]_(Fence!vars)

LEMMA Stutters ==
  ASSUME fenceBar' = fenceBar, waitingBar' = waitingBar, reportsBar' = reportsBar, badBar' = badBar,
         pendBar' = pendBar, workq' = workq, askedBar' = askedBar
  PROVE  AbsStep
BY DEF AbsStep, Fence!vars

-----------------------------------------------------------------------------
(* Steps that leave the table alone                                         *)

\* A thread that is in no merge before and after, or keeps its fences, asks for the same.
LEMMA ThreadAsked ==
  ASSUME TypeOK, TypeOK', NEW t \in Threads, NEW x, th' = [th EXCEPT ![t] = x],
         \/ th[t].pc \notin MergePcs /\ x.pc \notin MergePcs
         \/ /\ th[t].pc \in MergePcs /\ x.pc \in MergePcs
            /\ x.todo \cup x.done = th[t].todo \cup th[t].done
  PROVE  askedBar' = askedBar
<1>1. th'[t] = x /\ \A u \in Threads : u # t => th'[u] = th[u]
  BY DEF TypeOK
<1>2. \A u \in Threads : Elements(u)' = Elements(u)
  BY <1>1 DEF Elements, Merging, MergePcs
<1> QED BY <1>2, SameAsked

\* A thread that begins or ends a merge
LEMMA AskedExcept ==
  ASSUME TypeOK, TypeOK', NEW t \in Threads, NEW x, th' = [th EXCEPT ![t] = x], NEW K,
         K = IF x.pc \in MergePcs THEN x.todo \cup x.done ELSE {}
  PROVE  askedBar' = [askedBar EXCEPT ![t] = K]
<1>1. th'[t] = x /\ \A u \in Threads : u # t => th'[u] = th[u]
  BY DEF TypeOK
<1>2. \A u \in Threads : Elements(u)' = IF u = t THEN K ELSE Elements(u)
  BY <1>1 DEF Elements, Merging, MergePcs
<1> QED BY <1>2, View, NextView DEF ViewExact

LEMMA AbsQuiet ==
  ASSUME KeepsContract, TypeOK, TypeOK', OwnerInv, LinkInv, MergeInv,
         \/ UNCHANGED vars \/ DequeueEvent \/ \E w \in CbWork : CbDispatch(w)
         \/ \E t \in Threads :
              \/ CreateReserve(t) \/ MergeReserve(t) \/ Open(t) \/ CloseBegin(t)
              \/ CloseFlushBegin(t) \/ CloseFlushEnd(t) \/ CloseUnlock(t) \/ CloseNull(t)
              \/ WaitWoken(t) \/ WaitTimeout(t)
              \/ \E o \in Objs : WaitBegin(t, o) \/ MergeCheckValid(t, o)
              \/ \E S \in SUBSET Objs : MergeBegin(t, S)
  PROVE  AbsStep
<1>1. row' = row /\ lock' = lock /\ StillLooping
  BY QuietThreads
<1>2. fenceBar' = fenceBar /\ waitingBar' = waitingBar /\ badBar' = badBar /\ pendBar' = pendBar
  BY <1>1, SameTable, SamePend DEF SameFate
<1>3. reportsBar' = reportsBar
  BY <1>1, SameLoops DEF StillLooping, Looping
<1>4. CASE UNCHANGED vars \/ DequeueEvent \/ \E t \in Threads : Open(t)
  <2>1. th' = th /\ workq' = workq
    BY <1>4 DEF vars, DequeueEvent, Open
  <2>2. askedBar' = askedBar
    BY <2>1, SameAsked DEF Elements, Merging
  <2> QED BY <1>2, <1>3, <2>1, <2>2, Stutters
<1>5. ASSUME NEW w \in CbWork, CbDispatch(w)  PROVE AbsStep
  <2>1. th' = th /\ workq[w] > 0 /\ workq' = [workq EXCEPT ![w] = @ - 1]
    BY <1>5 DEF CbDispatch
  <2>2. askedBar' = askedBar
    BY <2>1, SameAsked DEF Elements, Merging
  <2>3. Fence!Run(w)
    BY <1>2, <1>3, <2>1, <2>2 DEF Fence!Run
  <2>4. w \in Fence!CbWork
    BY DEF CbWork, Fence!CbWork, Settled, Fence!Settled, SUCCESS, ERROR, Fence!SUCCESS, Fence!ERROR
  <2> QED BY <2>3, <2>4 DEF AbsStep, Fence!Next
<1>6. ASSUME NEW t \in Threads, CreateReserve(t) \/ WaitWoken(t) \/ WaitTimeout(t)  PROVE AbsStep
  <2>1. PICK x : th' = [th EXCEPT ![t] = x] /\ x.pc \notin MergePcs
    <3>1. Idle.pc = "idle" /\ \A o : [Idle EXCEPT !.pc = "create_init", !.obj = o].pc = "create_init"
      BY DEF Idle
    <3> QED BY <1>6, <3>1 DEF CreateReserve, WaitWoken, WaitTimeout, MergePcs
  <2>2. th[t].pc \notin MergePcs /\ workq' = workq
    BY <1>6 DEF CreateReserve, WaitWoken, WaitTimeout, MayCall, MergePcs
  <2> QED BY <1>2, <1>3, <2>1, <2>2, ThreadAsked, Stutters
<1>7. ASSUME NEW t \in Threads, NEW o \in Objs, WaitBegin(t, o)  PROVE AbsStep
  <2>1. PICK x : th' = [th EXCEPT ![t] = x] /\ x.pc \notin MergePcs
    <3>1. [Idle EXCEPT !.pc = "wait", !.obj = o].pc = "wait"
      BY DEF Idle
    <3> QED BY <1>7, <3>1 DEF WaitBegin, MergePcs
  <2>2. th[t].pc \notin MergePcs /\ workq' = workq
    BY <1>7 DEF WaitBegin, MayCall, MergePcs
  <2> QED BY <1>2, <1>3, <2>1, <2>2, ThreadAsked, Stutters
<1>8. ASSUME NEW t \in Threads, NEW c \in Objs, MergeCheckValid(t, c)  PROVE AbsStep
  <2>1. th[t].pc = "merge_check" /\ c \in th[t].todo /\ th[t] \in Local /\ workq' = workq
    BY <1>8 DEF MergeCheckValid, TypeOK
  <2>2. row[c].state # INVALID /\ c \in bitmap
    <3>1. c \in Elements(t)
      BY <2>1 DEF Elements, Merging
    <3>2. row[c].state # INVALID
      BY <3>1 DEF MergeInv, ElementsLive, LiveKid
    <3> QED BY <3>2 DEF OwnerInv, BitmapExact
  <2> DEFINE x == Visited(th[t], c)
  <2>3. x.pc = "merge_check" /\ x.todo \cup x.done = th[t].todo \cup th[t].done
    BY <2>1 DEF Visited, Local, LocalFields
  <2>4. th' = [th EXCEPT ![t] = x]
    BY <1>8, <2>2 DEF MergeCheckValid
  <2> HIDE DEF x
  <2>5. askedBar' = askedBar
    BY <2>1, <2>3, <2>4, ThreadAsked DEF MergePcs
  <2> QED BY <1>2, <1>3, <2>1, <2>5, Stutters
<1>9. ASSUME NEW t \in Threads, MergeReserve(t)  PROVE AbsStep
  <2>1. th[t].pc = "merge_check" /\ th[t] \in Local /\ workq' = workq
    BY <1>9 DEF MergeReserve, TypeOK
  <2>2. ASSUME NEW o \in Objs, th' = [th EXCEPT ![t] = [@ EXCEPT !.pc = "merge_lock", !.obj = o]]
        PROVE  AbsStep
    <3> DEFINE x == [th[t] EXCEPT !.pc = "merge_lock", !.obj = o]
    <3>1. x.pc = "merge_lock" /\ x.todo \cup x.done = th[t].todo \cup th[t].done
      BY <2>1 DEF Local, LocalFields
    <3>2. th' = [th EXCEPT ![t] = x]
      BY <2>2
    <3> HIDE DEF x
    <3>3. askedBar' = askedBar
      BY <2>1, <3>1, <3>2, ThreadAsked DEF MergePcs
    <3> QED BY <1>2, <1>3, <2>1, <3>3, Stutters
  <2>3. CASE th' = [th EXCEPT ![t] = Idle]
    <3>1. Idle.pc = "idle"
      BY DEF Idle
    <3>2. askedBar' = [askedBar EXCEPT ![t] = {}]
      BY <2>3, <3>1, AskedExcept DEF MergePcs
    <3>3. askedBar[t] # {}
      <4>1. Elements(t) # {}
        BY <2>1 DEF MergeInv, ElementsLive, Elements, Merging
      <4> QED BY <4>1, View DEF ViewExact
    <3> QED BY <1>2, <1>3, <2>1, <3>2, <3>3 DEF AbsStep, Fence!Next, Fence!MergeFails
  <2> QED BY <1>9, <2>2, <2>3 DEF MergeReserve
<1>10. ASSUME NEW t \in Threads, NEW S \in SUBSET Objs, MergeBegin(t, S)  PROVE AbsStep
  <2> DEFINE x == [Idle EXCEPT !.pc = "merge_check", !.todo = S]
  <2>1. x.pc = "merge_check" /\ x.todo \cup x.done = S
    BY DEF Idle
  <2>2. /\ th' = [th EXCEPT ![t] = x] /\ th[t].pc = "idle" /\ workq' = workq
        /\ Cardinality(S) > 1
    BY <1>10 DEF MergeBegin, MayCall
  <2> HIDE DEF x
  <2>3. askedBar' = [askedBar EXCEPT ![t] = S]
    <3>1. S = IF x.pc \in MergePcs THEN x.todo \cup x.done ELSE {}
      BY <2>1 DEF MergePcs
    <3> QED BY <2>2, <3>1, AskedExcept
  <2>4. askedBar[t] = {}
    BY <2>2, View DEF ViewExact, Elements, Merging
  <2>5. Fence!MergeCall(t, S)
    BY <1>2, <1>3, <2>2, <2>3, <2>4 DEF Fence!MergeCall, Fence!Cardinality, Cardinality
  <2> QED BY <2>5 DEF AbsStep, Fence!Next
<1>11. ASSUME NEW t \in Threads, \/ CloseBegin(t) \/ CloseFlushBegin(t) \/ CloseFlushEnd(t)
                                 \/ CloseUnlock(t) \/ CloseNull(t)
       PROVE  FALSE
  BY <1>11 DEF CloseBegin, CloseFlushBegin, CloseFlushEnd, CloseUnlock, CloseNull, MayCall,
               KeepsContract, MergeInv, NoSweep, Sweeping
<1> QED BY <1>4, <1>5, <1>6, <1>7, <1>8, <1>9, <1>10, <1>11

-----------------------------------------------------------------------------
(* Callbacks, references and payloads                                       *)

\* The fence of an object nobody has locked
LEMMA FenceIs ==
  ASSUME TypeOK, NEW o \in Objs, Free(o), row[o].state # INVALID
  PROVE  /\ fenceBar[o] = IF Complete(row[o]) THEN row[o].state ELSE ACTIVE
         /\ Complete(row[o]) => row[o].state \in Settled /\ row[o].state # ACTIVE
<1>1. fenceBar[o] = FenceOf(o)
  BY View DEF ViewExact
<1> QED BY <1>1 DEF FenceOf, Hidden, Complete, Settled, SUCCESS, ERROR, ACTIVE

LEMMA AbsRow ==
  ASSUME TypeOK, TypeOK', NEW t \in Threads, NEW o \in Objs,
         \/ GetObjRef(t, o) \/ PutObjRef(t, o) \/ UmdSignalRejected(t, o)
         \/ \E pl \in Payloads : RegisterPayload(t, o, pl) \/ DeregisterPayload(t, o, pl)
         \/ \E s \in Settled : UmdSignalGetRef(t, o, s)
  PROVE  AbsStep
<1>1. lock' = lock /\ workq' = workq /\ row[o] \in Row
  BY DEF GetObjRef, PutObjRef, UmdSignalRejected, RegisterPayload, DeregisterPayload,
         UmdSignalGetRef, TypeOK
<1>2. \A p \in Objs : SameFate(row'[p], row[p])
  BY RowKin DEF SameFate, SameKin
<1>3. \A p \in Objs : row'[p].callback_list = row[p].callback_list
  <2>1. \/ row' = row
        \/ \E k : \/ row' = [row EXCEPT ![o] = [row[o] EXCEPT !.ref_cnt = k]]
                  \/ row' = [row EXCEPT ![o] = [row[o] EXCEPT !.user_payload_list = k]]
    <3>1. CASE \/ GetObjRef(t, o) \/ PutObjRef(t, o) \/ UmdSignalRejected(t, o)
               \/ \E s \in Settled : UmdSignalGetRef(t, o, s)
      <4>1. \/ row' = [row EXCEPT ![o] = [row[o] EXCEPT !.ref_cnt = row[o].ref_cnt + 1]]
            \/ row' = [row EXCEPT ![o] = [row[o] EXCEPT !.ref_cnt = row[o].ref_cnt - 1]]
        BY <3>1 DEF GetObjRef, PutObjRef, UmdSignalRejected, UmdSignalGetRef
      <4> QED BY <4>1
    <3>2. ASSUME NEW pl \in Payloads, RegisterPayload(t, o, pl) \/ DeregisterPayload(t, o, pl)
          PROVE  \/ row' = row
                 \/ \E k : row' = [row EXCEPT ![o] = [row[o] EXCEPT !.user_payload_list = k]]
      <4> DEFINE a == Append(row[o].user_payload_list, pl)
                 b == Without(row[o].user_payload_list, pl)
      <4>1. \/ row' = row
            \/ row' = [row EXCEPT ![o] = [row[o] EXCEPT !.user_payload_list = a]]
            \/ row' = [row EXCEPT ![o] = [row[o] EXCEPT !.user_payload_list = b]]
        BY <3>2 DEF RegisterPayload, DeregisterPayload
      <4> HIDE DEF a, b
      <4> QED BY <4>1
    <3> QED BY <3>1, <3>2
  <2>2. \A k : /\ [row[o] EXCEPT !.ref_cnt = k].callback_list = row[o].callback_list
               /\ [row[o] EXCEPT !.user_payload_list = k].callback_list = row[o].callback_list
    BY <1>1 DEF Row
  <2>3. row' = row \/ \E r : row' = [row EXCEPT ![o] = r] /\ r.callback_list = row[o].callback_list
    BY <2>1, <2>2
  <2>4. CASE row' = row
    BY <2>4
  <2>5. ASSUME NEW r, row' = [row EXCEPT ![o] = r], r.callback_list = row[o].callback_list
        PROVE  \A p \in Objs : row'[p].callback_list = row[p].callback_list
    BY <2>5 DEF TypeOK
  <2> QED BY <2>3, <2>4, <2>5
<1>4. \A u \in Threads : \/ th'[u] = th[u]
                         \/ /\ th[u].pc \notin MergePcs /\ th'[u].pc \notin MergePcs
                            /\ th[u].pc # "signal_parents" /\ th'[u].pc # "signal_parents"
  <2>1. ASSUME NEW s \in Settled, UmdSignalGetRef(t, o, s)
        PROVE  th[t].pc = "idle" /\ th'[t].pc = "umd_signal" /\ \A u \in Threads : u # t => th'[u] = th[u]
    <3> DEFINE x == [Idle EXCEPT !.pc = "umd_signal", !.obj = o, !.st = s]
    <3>1. th' = [th EXCEPT ![t] = x] /\ x.pc = "umd_signal" /\ th[t].pc = "idle"
      BY <2>1 DEF UmdSignalGetRef, MayCall, Idle
    <3> HIDE DEF x
    <3> QED BY <3>1 DEF TypeOK
  <2>2. th' = th \/ \E s \in Settled : UmdSignalGetRef(t, o, s)
    BY DEF GetObjRef, PutObjRef, UmdSignalRejected, RegisterPayload, DeregisterPayload
  <2>3. CASE th' = th
    BY <2>3
  <2>4. CASE \E s \in Settled : UmdSignalGetRef(t, o, s)
    <3>1. th[t].pc = "idle" /\ th'[t].pc = "umd_signal" /\ \A u \in Threads : u # t => th'[u] = th[u]
      BY <2>1, <2>4
    <3> QED BY <3>1 DEF MergePcs
  <2> QED BY <2>2, <2>3, <2>4
<1>5. askedBar' = askedBar
  BY <1>4, SameAsked DEF Elements, Merging, MergePcs
<1>6. reportsBar' = reportsBar
  BY <1>1, <1>4, SameLoops
<1> QED BY <1>1, <1>2, <1>3, <1>5, <1>6, SameTable, SamePend, Stutters

\* cam_sync_register_callback and cam_sync_deregister_callback
LEMMA AbsCallback ==
  ASSUME TypeOK, TypeOK', NEW t \in Threads, NEW o \in Objs, NEW cb \in Cbs,
         RegisterCallback(t, o, cb) \/ DeregisterCallback(t, o, cb)
  PROVE  AbsStep
<1>1. /\ th' = th /\ lock' = lock /\ Free(o) /\ row[o].state # INVALID
      /\ row[o] \in Row /\ row[o].callback_list \in [Cbs -> Nat]
  BY DEF RegisterCallback, DeregisterCallback, TypeOK, Row
<1>2. \A p \in Objs : SameFate(row'[p], row[p])
  BY RowKin DEF SameFate, SameKin
<1>3. fenceBar' = fenceBar /\ waitingBar' = waitingBar /\ badBar' = badBar
  BY <1>1, <1>2, SameTable
<1>4. askedBar' = askedBar /\ reportsBar' = reportsBar
  BY <1>1, SameAsked, SameLoops DEF Elements, Merging
<1>5. pendBar[o] = row[o].callback_list
  BY View DEF ViewExact
<1>6. ASSUME NEW k, row' = [row EXCEPT ![o] = [row[o] EXCEPT !.callback_list = k]]
      PROVE  pendBar' = [pendBar EXCEPT ![o] = k]
  <2>1. [row[o] EXCEPT !.callback_list = k].callback_list = k
    BY <1>1 DEF Row
  <2>2. row'[o].callback_list = k /\ \A p \in Objs : p # o => row'[p].callback_list = row[p].callback_list
    BY <1>6, <2>1 DEF TypeOK
  <2> QED BY <2>2, PendExcept
<1>7. CASE DeregisterCallback(t, o, cb)
  <2> DEFINE k == [row[o].callback_list EXCEPT ![cb] = 0]
  <2>1. row' = [row EXCEPT ![o] = [row[o] EXCEPT !.callback_list = k]] /\ workq' = workq
    BY <1>1, <1>7 DEF DeregisterCallback
  <2>2. pendBar' = [pendBar EXCEPT ![o] = k]
    BY <1>6, <2>1
  <2>3. pendBar' = [pendBar EXCEPT ![o][cb] = 0]
    BY <1>5, <2>2
  <2>4. Fence!Deregister(o, cb)
    BY <1>3, <1>4, <2>1, <2>3 DEF Fence!Deregister
  <2> QED BY <2>4 DEF AbsStep, Fence!Next
<1>8. CASE RegisterCallback(t, o, cb)
  <2>1. fenceBar[o] = IF Complete(row[o]) THEN row[o].state ELSE ACTIVE
    BY <1>1, FenceIs
  <2>2. Complete(row[o]) => row[o].state \in Settled /\ row[o].state # ACTIVE
    BY <1>1, FenceIs
  <2>3. fenceBar[o] # Fence!FREE
    BY <1>1, <2>1 DEF Fence!FREE, INVALID, ACTIVE
  <2>4. CASE Complete(row[o])
    <3>1. row' = row /\ workq' = [workq EXCEPT ![WorkOf(cb, o, row[o].state)] = @ + 1]
      BY <1>8, <2>4 DEF RegisterCallback
    <3>2. pendBar' = pendBar
      BY <3>1, SamePend
    <3>3. WorkOf(cb, o, row[o].state) = [cb |-> cb, obj |-> o, status |-> fenceBar[o]]
      BY <2>1, <2>4 DEF WorkOf
    <3>4. fenceBar[o] # Fence!ACTIVE
      BY <2>1, <2>2, <2>4 DEF Fence!ACTIVE, ACTIVE
    <3>5. Fence!Register(o, cb)
      BY <1>3, <1>4, <2>3, <3>1, <3>2, <3>3, <3>4 DEF Fence!Register
    <3> QED BY <3>5 DEF AbsStep, Fence!Next
  <2>5. CASE ~Complete(row[o])
    <3> DEFINE k == [row[o].callback_list EXCEPT ![cb] = @ + 1]
    <3>1. row' = [row EXCEPT ![o] = [row[o] EXCEPT !.callback_list = k]] /\ workq' = workq
      BY <1>1, <1>8, <2>5 DEF RegisterCallback
    <3>2. pendBar' = [pendBar EXCEPT ![o] = k]
      BY <1>6, <3>1
    <3>3. pendBar' = [pendBar EXCEPT ![o][cb] = @ + 1]
      BY <1>5, <3>2
    <3>4. fenceBar[o] = Fence!ACTIVE
      BY <2>1, <2>5 DEF Fence!ACTIVE, ACTIVE
    <3>5. Fence!Register(o, cb)
      BY <1>3, <1>4, <2>3, <3>1, <3>3, <3>4 DEF Fence!Register
    <3> QED BY <3>5 DEF AbsStep, Fence!Next
  <2> QED BY <2>4, <2>5
<1> QED BY <1>7, <1>8

-----------------------------------------------------------------------------
(* Rows that are made, built and taken away                                 *)

\* A step of thread t that makes or zeroes the dead row o
LEMMA ResetView ==
  ASSUME TypeOK, TypeOK', KinInv, NEW t \in Threads, NEW o \in Objs, Dead(o),
         th[t].pc # "signal_parents",
         NEW r, row' = [row EXCEPT ![o] = r], r.parents_list = {}, r.callback_list = NoCbs,
         \A p \in Objs : p # o => lock'[p] = lock[p],
         NEW x, th' = [th EXCEPT ![t] = x], x.pc # "signal_parents"
  PROVE  /\ waitingBar' = waitingBar /\ reportsBar' = reportsBar /\ pendBar' = pendBar
         /\ FenceOf(o) = INVALID /\ \A p \in Objs : p # o => FenceOf(p)' = FenceOf(p)
         /\ BadOf(o) = FALSE /\ \A p \in Objs : p # o => BadOf(p)' = BadOf(p)
<1>1. /\ th'[t] = x /\ \A u \in Threads : u # t => th'[u] = th[u]
      /\ row'[o] = r /\ \A q \in Objs : q # o => row'[q] = row[q]
  BY DEF TypeOK
<1>2. \A q \in Objs : q # o => (Free(q)' <=> Free(q)) /\ (Hidden(q)' <=> Hidden(q))
  BY <1>1 DEF Free, Hidden
<1>3. \A u \in Threads, c \in Objs : ~Reporting(u, c, o)
  BY DEF KinInv, ReportsLive, Dead
<1>4. row[o].parents_list = {} /\ \A q \in Objs : o \notin row[q].parents_list
  BY DEF KinInv, OnlyActiveLinked, Dead, INVALID, ACTIVE
<1>5. \A q \in Objs : row'[q].parents_list = row[q].parents_list
  BY <1>1, <1>4
<1>6. \A g \in Objs : KidsOf(g)' = KidsOf(g)
  <2>1. \A g \in Objs : Links(g)' = Links(g)
    BY <1>5 DEF Links
  <2>2. Links(o) = {}
    BY <1>4 DEF Links
  <2> QED BY <1>2, <2>1, <2>2 DEF KidsOf
<1>7. \A u \in Threads, c, g \in Objs :
           /\ Free(g)' /\ Reporting(u, c, g)' <=> Free(g) /\ Reporting(u, c, g)
           /\ Reporting(u, c, g)' /\ Reporting(u, c, g) => th'[u].st = th[u].st
  <2>1. \A u \in Threads, c, g \in Objs :
           /\ Reporting(u, c, g)' <=> Reporting(u, c, g)
           /\ Reporting(u, c, g) => th'[u].st = th[u].st
    BY <1>1 DEF Reporting
  <2> QED BY <1>2, <1>3, <2>1
<1>8. \A q \in Objs : row'[q].callback_list = row[q].callback_list
  BY <1>1 DEF KinInv, OnlyActiveLinked, Dead
<1>9. /\ FenceOf(o) = INVALID /\ \A p \in Objs : p # o => FenceOf(p)' = FenceOf(p)
      /\ BadOf(o) = FALSE /\ \A p \in Objs : p # o => BadOf(p)' = BadOf(p)
  BY <1>1, <1>2 DEF FenceOf, BadOf, Dead, Hidden
<1> QED BY <1>6, <1>7, <1>8, <1>9, SameWaiting, SameReports, SamePend

\* cam_sync_create makes an active fence.
LEMMA AbsCreate ==
  ASSUME TypeOK, TypeOK', OwnerInv, KinInv, NEW t \in Threads, CreateInit(t)
  PROVE  AbsStep
<1>1. PICK o \in Objs : o = th[t].obj /\ Dead(o)
  <2>1. th[t].obj \in Objs /\ th[t].pc = "create_init"
    BY DEF CreateInit, TypeOK, Local, Named
  <2> QED BY <2>1 DEF OwnerInv, OwnersExclude, Owns, Reserving, Dead
<1> DEFINE r == cam_sync_init_row("INDV")
<1>2. /\ row' = [row EXCEPT ![o] = r] /\ th' = [th EXCEPT ![t] = Idle] /\ lock' = lock
      /\ th[t].pc = "create_init" /\ Free(o) /\ workq' = workq
  BY <1>1 DEF CreateInit
<1>3. /\ r.parents_list = {} /\ r.callback_list = NoCbs /\ r.type = "INDV" /\ r.state = ACTIVE
      /\ Idle.pc = "idle"
  BY DEF cam_sync_init_row, ZeroRow, Idle
<1> HIDE DEF r
<1>4. /\ waitingBar' = waitingBar /\ reportsBar' = reportsBar /\ pendBar' = pendBar
      /\ FenceOf(o) = INVALID /\ \A p \in Objs : p # o => FenceOf(p)' = FenceOf(p)
      /\ BadOf(o) = FALSE /\ \A p \in Objs : p # o => BadOf(p)' = BadOf(p)
  BY <1>1, <1>2, <1>3, ResetView
<1>5. row'[o] = r /\ Free(o)'
  BY <1>2 DEF TypeOK, Free
<1>6. FenceOf(o)' = ACTIVE /\ BadOf(o)' = FALSE
  BY <1>3, <1>5 DEF FenceOf, BadOf, Hidden, Complete, Settled, ACTIVE, INVALID, SUCCESS, ERROR
<1>7. fenceBar' = [fenceBar EXCEPT ![o] = ACTIVE]
  BY <1>4, <1>6, FenceExcept
<1>8. badBar' = badBar
  BY <1>4, <1>6, SameBad
<1>9. askedBar' = askedBar
  BY <1>2, <1>3, ThreadAsked DEF MergePcs
<1>10. fenceBar[o] = INVALID
  BY <1>4, View DEF ViewExact
<1>11. Fence!Create(o)
  BY <1>2, <1>4, <1>7, <1>8, <1>9, <1>10 DEF Fence!Create, Fence!FREE, Fence!ACTIVE, INVALID, ACTIVE
<1> QED BY <1>11 DEF AbsStep, Fence!Next

\* The row of a group that is being built, and a row that is zeroed, do not show.
LEMMA AbsReset ==
  ASSUME TypeOK, TypeOK', OwnerInv, MergeInv, KinInv, NEW t \in Threads, MergeLock(t) \/ DestroyFinish(t)
  PROVE  AbsStep
<1>0. th[t] \in Local /\ th[t].pc \in {"merge_lock", "destroy"} /\ th[t].ret = "idle" /\ workq' = workq
  BY DEF MergeLock, DestroyFinish, TypeOK, MergeInv, NoSweep
<1>1. PICK o \in Objs : o = th[t].obj /\ Dead(o)
  <2>1. th[t].obj \in Objs
    BY <1>0 DEF Local, Named
  <2> QED BY <1>0, <2>1 DEF OwnerInv, OwnersExclude, Owns, Reserving, Destroying, Dead
<1>2. ASSUME NEW r, row' = [row EXCEPT ![o] = r], r.parents_list = {}, r.callback_list = NoCbs,
             Hidden(o)', \A p \in Objs : p # o => lock'[p] = lock[p],
             NEW x, th' = [th EXCEPT ![t] = x], x.pc # "signal_parents", askedBar' = askedBar
      PROVE  AbsStep
  <2>1. /\ waitingBar' = waitingBar /\ reportsBar' = reportsBar /\ pendBar' = pendBar
        /\ FenceOf(o) = INVALID /\ \A p \in Objs : p # o => FenceOf(p)' = FenceOf(p)
        /\ BadOf(o) = FALSE /\ \A p \in Objs : p # o => BadOf(p)' = BadOf(p)
    BY ZenonT(60), <1>0, <1>1, <1>2, ResetView
  <2>2. FenceOf(o)' = INVALID /\ BadOf(o)' = FALSE
    BY <1>2 DEF FenceOf, BadOf
  <2> QED BY <1>0, <1>2, <2>1, <2>2, SameFences, SameBad, Stutters
<1>3. CASE MergeLock(t)
  <2> DEFINE r == cam_sync_init_row("GROUP")
             x == [th[t] EXCEPT !.pc = "merge_child", !.todo = th[t].done, !.done = {}]
  <2>1. /\ row' = [row EXCEPT ![o] = r] /\ th' = [th EXCEPT ![t] = x] /\ th[t].pc = "merge_lock"
        /\ lock' = [lock EXCEPT ![o] = t]
    BY <1>1, <1>3 DEF MergeLock
  <2>2. /\ r.parents_list = {} /\ r.callback_list = NoCbs
        /\ x.pc = "merge_child" /\ x.todo = th[t].done /\ x.done = {}
    BY <1>0 DEF cam_sync_init_row, ZeroRow, Local, LocalFields
  <2> HIDE DEF r, x
  <2>3. (\A p \in Objs : p # o => lock'[p] = lock[p]) /\ Hidden(o)'
    BY <2>1, NoneAssumption DEF TypeOK, Hidden, Free
  <2>4. th[t].todo = {}
    BY <2>1 DEF MergeInv, ElementsLive
  <2>5. askedBar' = askedBar
    BY <2>1, <2>2, <2>4, ThreadAsked DEF MergePcs
  <2> QED BY <1>2, <2>1, <2>2, <2>3, <2>5
<1>4. CASE DestroyFinish(t)
  <2> DEFINE x == Return(th[t])
  <2>1. /\ row' = [row EXCEPT ![o] = ZeroRow] /\ th' = [th EXCEPT ![t] = x] /\ th[t].pc = "destroy"
        /\ lock' = lock
    BY <1>1, <1>4 DEF DestroyFinish
  <2>2. ZeroRow.parents_list = {} /\ ZeroRow.callback_list = NoCbs /\ ZeroRow.state = INVALID
    BY DEF ZeroRow
  <2>3. x.pc = "idle"
    BY <1>0, ReturnIdle
  <2> HIDE DEF x
  <2>4. Hidden(o)'
    BY <2>1, <2>2 DEF Hidden, TypeOK
  <2>5. askedBar' = askedBar
    BY <2>1, <2>3, ThreadAsked DEF MergePcs
  <2> QED BY <1>2, <2>1, <2>2, <2>3, <2>4, <2>5
<1> QED BY <1>3, <1>4

\* A destroyed fence is free again.
LEMMA AbsDestroy ==
  ASSUME KeepsContract, RoomToCount, TypeOK, TypeOK', KinInv, NEW t \in Threads, NEW o \in Objs,
         Destroy(t, o)
  PROVE  AbsStep
<1>0. /\ th[t].pc = "idle" /\ Free(o) /\ Complete(row[o]) /\ row[o].state # INVALID /\ row[o] \in Row
      /\ lock' = lock /\ workq' = workq
  BY DEF Destroy, MayCall, DeinitRow, MayDestroy, KeepsContract, TypeOK
<1>1. row[o].parents_list = {}
  BY <1>0, CompleteAlone
<1> DEFINE r == Emptied(row[o])
           x == [Idle EXCEPT !.pc = "destroy", !.obj = o, !.todo = row[o].children_list,
                             !.folks = row[o].parents_list]
<1>2. row' = [row EXCEPT ![o] = r] /\ th' = [th EXCEPT ![t] = x]
  BY DEF Destroy, DeinitRow
<1>3. /\ x.pc = "destroy" /\ r.state = INVALID /\ r.parents_list = {}
      /\ r.callback_list = row[o].callback_list
  BY <1>0 DEF Emptied, Row, Idle
<1> HIDE DEF x, r
<1>4. /\ th'[t] = x /\ \A u \in Threads : u # t => th'[u] = th[u]
      /\ row'[o] = r /\ \A q \in Objs : q # o => row'[q] = row[q]
  BY <1>2 DEF TypeOK
<1>5. \A q \in Objs : Free(q)' <=> Free(q)
  BY <1>0 DEF Free
<1>6. \A q \in Objs : /\ row'[q].parents_list = row[q].parents_list
                      /\ row'[q].callback_list = row[q].callback_list
  BY <1>1, <1>3, <1>4
<1>7. \A g \in Objs : KidsOf(g)' = KidsOf(g)
  BY <1>5, <1>6 DEF KidsOf, Links
<1>8. waitingBar' = waitingBar /\ pendBar' = pendBar
  BY <1>6, <1>7, SameWaiting, SamePend
<1>9. reportsBar' = reportsBar
  BY <1>0, <1>3, <1>4, SameLoops
<1>10. askedBar' = askedBar
  BY <1>0, <1>2, <1>3, ThreadAsked DEF MergePcs
<1>11. FenceOf(o)' = INVALID /\ BadOf(o)' = FALSE
  BY <1>3, <1>4 DEF FenceOf, BadOf, Hidden
<1>12. \A p \in Objs : p # o => FenceOf(p)' = FenceOf(p) /\ BadOf(p)' = BadOf(p)
  BY <1>4, <1>5 DEF FenceOf, BadOf, Hidden
<1>13. fenceBar' = [fenceBar EXCEPT ![o] = INVALID] /\ badBar' = [badBar EXCEPT ![o] = FALSE]
  BY <1>11, <1>12, FenceExcept, BadExcept
<1>14. fenceBar[o] \in Settled
  BY <1>0, FenceIs
<1>15. Fence!Destroy(o)
  BY <1>0, <1>8, <1>9, <1>10, <1>13, <1>14 DEF Fence!Destroy, Fence!FREE, INVALID, Settled,
     Fence!Settled, SUCCESS, ERROR, Fence!SUCCESS, Fence!ERROR
<1> QED BY <1>15 DEF AbsStep, Fence!Next

\* What cam_sync_deinit_object does to the relatives does not show.
LEMMA AbsUnlink ==
  ASSUME TypeOK, TypeOK', OwnerInv, KinInv, NEW t \in Threads, NEW c \in Objs,
         DestroyChild(t, c) \/ DestroyParent(t, c)
  PROVE  AbsStep
<1>1. th[t].pc = "destroy" /\ row[c] \in Row /\ th[t] \in Local /\ lock' = lock /\ workq' = workq
  BY DEF DestroyChild, DestroyParent, TypeOK
<1>2. PICK o \in Objs : o = th[t].obj /\ Dead(o)
  <2>1. th[t].obj \in Objs
    BY <1>1 DEF Local, Named
  <2> QED BY <1>1, <2>1 DEF OwnerInv, OwnersExclude, Owns, Destroying, Dead
<1>3. o \notin row[c].parents_list
  BY <1>2 DEF KinInv, OnlyActiveLinked, Dead
<1>4. /\ SameFate(DropParent(row[c], o), row[c]) /\ SameFate(DropChild(row[c], o), row[c])
      /\ DropParent(row[c], o).callback_list = row[c].callback_list
      /\ DropChild(row[c], o).callback_list = row[c].callback_list
  BY <1>1, <1>3 DEF SameFate, DropParent, DropChild, Row
<1>5. \/ row' = row \/ row' = [row EXCEPT ![c] = DropParent(row[c], o)]
      \/ row' = [row EXCEPT ![c] = DropChild(row[c], o)]
  BY <1>2 DEF DestroyChild, DestroyParent
<1>6. \A p \in Objs : SameFate(row'[p], row[p]) /\ row'[p].callback_list = row[p].callback_list
  BY <1>4, <1>5 DEF SameFate, TypeOK
<1>7. PICK x : th' = [th EXCEPT ![t] = x] /\ x.pc = "destroy"
  <2>1. /\ [th[t] EXCEPT !.todo = @ \ {c}].pc = "destroy"
        /\ [th[t] EXCEPT !.folks = @ \ {c}].pc = "destroy"
    BY <1>1 DEF Local, LocalFields
  <2> QED BY <2>1 DEF DestroyChild, DestroyParent
<1>8. askedBar' = askedBar
  BY <1>1, <1>7, ThreadAsked DEF MergePcs
<1>9. reportsBar' = reportsBar
  <2>1. th'[t] = x /\ \A u \in Threads : u # t => th'[u] = th[u]
    BY <1>7 DEF TypeOK
  <2> QED BY <1>1, <1>7, <2>1, SameLoops
<1> QED BY <1>1, <1>6, <1>8, <1>9, SameTable, SamePend, Stutters

-----------------------------------------------------------------------------
(* Signaling                                                                *)

\* The outstanding kids of a group that shows: linked, or with their signaler on its way
LEMMA OutstandingIs ==
  ASSUME TypeOK, NEW g \in Objs, Free(g)
  PROVE  \A c \in Objs : c \in Fence!Outstanding(g) <=> c \in Links(g) \/ Late(c, g)
<1> SUFFICES ASSUME NEW c \in Objs
             PROVE  c \in Fence!Outstanding(g) <=> c \in Links(g) \/ Late(c, g)
  OBVIOUS
<1>1. waitingBar[g] = Links(g)
  BY View DEF ViewExact, KidsOf
<1>2. ASSUME NEW q \in reportsBar, q.group = g, c = q.kid  PROVE Late(c, g)
  <2>1. OnTheWay(q)
    BY <1>2, View DEF ViewExact
  <2>2. PICK t \in Threads, d \in Objs, h \in Objs : Reporting(t, d, h) /\ q = Report(t, d, h)
    BY <2>1 DEF OnTheWay
  <2>3. d = c /\ h = g
    BY <1>2, <2>2 DEF Report
  <2> QED BY <2>2, <2>3 DEF Late
<1>3. ASSUME Late(c, g)  PROVE \E q \in reportsBar : q.group = g /\ c = q.kid
  <2>1. PICK t \in Threads : Reporting(t, c, g)
    BY <1>3 DEF Late
  <2>2. OnTheWay(Report(t, c, g))
    BY <2>1 DEF OnTheWay
  <2>3. Report(t, c, g) \in reportsBar
    BY <2>2, View DEF ViewExact
  <2> QED BY <2>3 DEF Report
<1> QED BY <1>1, <1>2, <1>3 DEF Fence!Outstanding

LEMMA OutstandingObjs ==
  ASSUME TypeOK, NEW g \in Objs  PROVE Fence!Outstanding(g) \subseteq Objs
<1>1. waitingBar[g] \subseteq Objs
  BY View DEF ViewExact, KidsOf, Links
<1>2. \A q \in reportsBar : q.kid \in Objs
  BY View DEF ViewExact, OnTheWay, Report
<1> QED BY <1>1, <1>2 DEF Fence!Outstanding

\* Nobody is linked to an individual fence, or on the way to one.
LEMMA KidAlone ==
  ASSUME RoomToCount, TypeOK, LinkInv, KinInv, NEW o \in Objs, row[o].type = "INDV"
  PROVE  /\ Links(o) = {} /\ \A c \in Objs : ~Late(c, o)
         /\ row[o].state # INVALID => row[o].remaining = 0
<1>1. Links(o) = {}
  BY DEF Links, LinkInv, ParentLinksLive
<1>2. \A c \in Objs, u \in Threads : ~Reporting(u, c, o)
  BY DEF KinInv, ReportsLive
<1>3. Signalers(o) = {}
  <2>1. ASSUME NEW u \in Signalers(o)  PROVE FALSE
    <3>1. u \in Threads /\ th[u].obj \in Objs /\ Reporting(u, th[u].obj, o)
      BY <2>1 DEF Signalers, Reporting, TypeOK, Local, Named
    <3> QED BY <1>2, <3>1
  <2> QED BY <2>1
<1>4. ASSUME row[o].state # INVALID  PROVE row[o].remaining = 0
  <2>1. row[o].remaining = Cardinality(Links(o)) + Cardinality(Signalers(o))
    BY <1>4 DEF KinInv, RemainingExact, Links, Signalers
  <2> QED BY <1>1, <1>3, <2>1, FS_EmptySet
<1> QED BY <1>1, <1>2, <1>4 DEF Late

\* The status values and the works of the two specifications are the same.
LEMMA SameStatus ==
  /\ CbWork = Fence!CbWork /\ Settled = Fence!Settled /\ INVALID = Fence!FREE
  /\ ACTIVE = Fence!ACTIVE /\ SUCCESS = Fence!SUCCESS /\ ERROR = Fence!ERROR
BY DEF CbWork, Fence!CbWork, Settled, Fence!Settled, SUCCESS, ERROR, Fence!SUCCESS, Fence!ERROR,
       INVALID, Fence!FREE, ACTIVE, Fence!ACTIVE

\* A client settles a fence.
LEMMA AbsSettle ==
  ASSUME RoomToCount, TypeOK, TypeOK', LinkInv, KinInv, NEW t \in Threads, NEW o \in Objs,
         NEW s \in Settled, row[o].state = ACTIVE, row[o].type = "INDV", Free(o), lock' = lock,
         th[t].pc \in {"idle", "umd_signal"},
         NEW r, row' = [row EXCEPT ![o] = r], r.type = "INDV", r.state = s, r.parents_list = {},
         r.remaining = row[o].remaining, r.callback_list = NoCbs,
         NEW x, th' = [th EXCEPT ![t] = x], Reports(x, Idle, o, s, row[o].parents_list),
         DispatchQueues(row[o], o, s)
  PROVE  AbsStep
<1> DEFINE P == row[o].parents_list
<1>0. /\ th'[t] = x /\ \A u \in Threads : u # t => th'[u] = th[u]
      /\ row'[o] = r /\ \A p \in Objs : p # o => row'[p] = row[p]
  BY DEF TypeOK
<1>1. x.pc \notin MergePcs /\ (x.pc = "signal_parents" => x.obj = o /\ x.st = s /\ x.folks = P)
      /\ (P # {} => x.pc = "signal_parents")
  BY DEF Reports, Return, Idle, MergePcs
<1>2. \A q \in Objs : Free(q)' <=> Free(q)
  BY DEF Free
<1>3. s # INVALID /\ s # ACTIVE /\ ACTIVE # INVALID
  BY DEF Settled, SUCCESS, ERROR, ACTIVE, INVALID
<1>4. /\ Links(o) = {} /\ (\A c \in Objs : ~Late(c, o)) /\ row[o].remaining = 0
  BY <1>3, KidAlone
<1>5. fenceBar[o] = ACTIVE /\ pendBar[o] = row[o].callback_list
  BY <1>3, FenceIs, View DEF ViewExact
<1>6. Fence!Outstanding(o) = {}
  BY <1>4, OutstandingIs, OutstandingObjs
<1>7. fenceBar' = [fenceBar EXCEPT ![o] = s]
  <2>1. FenceOf(o)' = s
    BY <1>0, <1>2, <1>3, <1>4 DEF FenceOf, Hidden, Complete
  <2>2. \A p \in Objs : p # o => FenceOf(p)' = FenceOf(p)
    BY <1>0, <1>2 DEF FenceOf, Hidden
  <2> QED BY <2>1, <2>2, FenceExcept
<1>8. pendBar' = [pendBar EXCEPT ![o] = [cb \in Cbs |-> 0]]
  BY <1>0, PendExcept DEF NoCbs
<1>9. workq' = [w \in CbWork |-> workq[w] + IF w.obj = o /\ w.status = s THEN pendBar[o][w.cb] ELSE 0]
  BY <1>5 DEF DispatchQueues
<1>10. Fence!Fire(o, s)
  BY <1>7, <1>8, <1>9, SameStatus DEF Fence!Fire
<1>11. badBar' = badBar
  <2>1. \A p \in Objs : BadOf(p)' = BadOf(p)
    BY <1>0, <1>2 DEF BadOf, Hidden
  <2> QED BY <2>1, SameBad
<1>12. askedBar' = askedBar
  BY <1>1, ThreadAsked DEF MergePcs
<1>13. waitingBar' = [g \in Objs |-> waitingBar[g] \ {o}]
  <2>1. \A g \in Objs : Links(g)' = Links(g) \ {o}
    BY <1>0 DEF Links
  <2>2. \A g \in Objs : KidsOf(g)' = KidsOf(g) \ {o}
    BY <1>2, <2>1 DEF KidsOf
  <2> QED BY <2>2, View, NextView DEF ViewExact
<1>14. reportsBar' = reportsBar \cup {[kid |-> o, group |-> g, status |-> s] :
                                        g \in {h \in Objs : o \in waitingBar[h]}}
  <2>1. \A g \in Objs : o \in waitingBar[g] <=> Free(g) /\ g \in P
    BY View DEF ViewExact, KidsOf, Links
  <2>2. \A u \in Threads, c, g \in Objs :
          Reporting(u, c, g)' <=> Reporting(u, c, g) \/ (u = t /\ c = o /\ g \in P)
    <3> SUFFICES ASSUME NEW u \in Threads, NEW c \in Objs, NEW g \in Objs
                 PROVE  Reporting(u, c, g)' <=> Reporting(u, c, g) \/ (u = t /\ c = o /\ g \in P)
      OBVIOUS
    <3>1. CASE u # t
      BY <1>0, <3>1 DEF Reporting
    <3>2. CASE u = t
      BY <1>0, <1>1, <3>2 DEF Reporting
    <3> QED BY <3>1, <3>2
  <2>3. \A u \in Threads, c, g \in Objs : Reporting(u, c, g) => u # t /\ Report(u, c, g)' = Report(u, c, g)
    BY <1>0 DEF Reporting, Report
  <2>4. \A g \in P : Report(t, o, g)' = [kid |-> o, group |-> g, status |-> s]
    BY <1>0, <1>1 DEF Report
  <2>5. ASSUME NEW q
        PROVE  OnTheWay(q)' <=> \/ OnTheWay(q)
                                \/ \E g \in Objs : /\ g \in P /\ Free(g)
                                                   /\ q = [kid |-> o, group |-> g, status |-> s]
    BY <1>2, <2>2, <2>3, <2>4 DEF OnTheWay
  <2>6. ASSUME NEW q
        PROVE  q \in reportsBar' <=>
                 q \in reportsBar \cup {[kid |-> o, group |-> g, status |-> s] :
                                          g \in {h \in Objs : o \in waitingBar[h]}}
    <3>1. q \in reportsBar' <=> OnTheWay(q)'
      BY NextView DEF ViewExact
    <3>2. q \in reportsBar <=> OnTheWay(q)
      BY View DEF ViewExact
    <3>3. OnTheWay(q)' <=> \/ OnTheWay(q)
                           \/ \E g \in Objs : /\ o \in waitingBar[g]
                                              /\ q = [kid |-> o, group |-> g, status |-> s]
      BY <2>1, <2>5
    <3> QED BY <3>1, <3>2, <3>3
  <2> QED BY <2>6
<1>15. Fence!Settle(o, s)
  BY <1>5, <1>6, <1>10, <1>11, <1>12, <1>13, <1>14, SameStatus DEF Fence!Settle
<1> QED BY <1>15, SameStatus DEF AbsStep, Fence!Next

\* The critical section of cam_sync_signal on the object
LEMMA AbsSignalRow ==
  ASSUME RoomToCount, TypeOK, TypeOK', LinkInv, KinInv, NEW t \in Threads, NEW o \in Objs,
         NEW s \in Settled, th[t].pc \in {"idle", "umd_signal"}, SignalRow(t, o, s, Idle), lock' = lock
  PROVE  AbsStep
<1>1. Idle \in Local /\ Idle.ret = "idle"
  BY LocalType DEF Idle
<1>2. row[o].state = ACTIVE /\ row[o].type = "INDV" /\ Free(o)
  BY <1>1, SignalRowEffect
<1>3. CASE /\ \A p \in Objs : /\ SameKin(row'[p], row[p])
                              /\ row'[p].callback_list = row[p].callback_list
           /\ th' = [th EXCEPT ![t] = Return(Idle)] /\ workq' = workq
  <2>1. Return(Idle).pc = "idle"
    BY <1>1, ReturnIdle
  <2>2. th'[t] = Return(Idle) /\ \A u \in Threads : u # t => th'[u] = th[u]
    BY <1>3 DEF TypeOK
  <2>3. \A p \in Objs : SameFate(row'[p], row[p])
    BY <1>3 DEF SameKin, SameFate
  <2>4. reportsBar' = reportsBar
    BY <2>1, <2>2, SameLoops
  <2>5. askedBar' = askedBar
    BY <1>3, <2>1, ThreadAsked DEF MergePcs
  <2> QED BY <1>3, <2>3, <2>4, <2>5, SameTable, SamePend, Stutters
<1>4. ASSUME NEW r, row' = [row EXCEPT ![o] = r], r.type = "INDV", r.state = s,
             r.parents_list = {}, r.remaining = row[o].remaining, r.callback_list = NoCbs,
             NEW x, th' = [th EXCEPT ![t] = x], Reports(x, Idle, o, s, row[o].parents_list),
             DispatchQueues(row[o], o, s)
      PROVE  AbsStep
  BY <1>2, <1>4, AbsSettle
<1> QED BY <1>1, <1>3, <1>4, SignalRowEffect

LEMMA AbsSignal ==
  ASSUME RoomToCount, TypeOK, TypeOK', LinkInv, MergeInv, KinInv, NEW t \in Threads,
         \/ \E o \in Objs, s \in Settled : Signal(t, o, s)
         \/ UmdSignal(t)
         \/ \E o \in Objs : CloseSignal(t, o)
  PROVE  AbsStep
<1>1. ASSUME NEW o \in Objs, NEW s \in Settled, Signal(t, o, s)  PROVE AbsStep
  BY <1>1, AbsSignalRow DEF Signal, MayCall
<1>2. CASE UmdSignal(t)
  <2>1. th[t].obj \in Objs /\ th[t].st \in Settled /\ th[t].pc = "umd_signal" /\ lock' = lock
    BY <1>2 DEF UmdSignal, TypeOK, Local, Named
  <2>2. CASE SignalRow(t, th[t].obj, th[t].st, Idle)
    BY <2>1, <2>2, AbsSignalRow
  <2>3. CASE th' = [th EXCEPT ![t] = Idle] /\ row' = row /\ workq' = workq
    <3>1. Idle.pc = "idle"
      BY DEF Idle
    <3>2. th'[t] = Idle /\ \A u \in Threads : u # t => th'[u] = th[u]
      BY <2>3 DEF TypeOK
    <3>3. reportsBar' = reportsBar
      BY <2>1, <3>1, <3>2, SameLoops
    <3>4. askedBar' = askedBar
      BY <2>1, <2>3, <3>1, ThreadAsked DEF MergePcs
    <3>5. \A p \in Objs : SameFate(row'[p], row[p]) /\ row'[p].callback_list = row[p].callback_list
      BY <2>3 DEF SameFate
    <3> QED BY <2>1, <2>3, <3>3, <3>4, <3>5, SameTable, SamePend, Stutters
  <2> QED BY <1>2, <2>2, <2>3 DEF UmdSignal
<1>3. ASSUME NEW o \in Objs, CloseSignal(t, o)  PROVE FALSE
  BY <1>3 DEF CloseSignal, MergeInv, NoSweep, Sweeping
<1> QED BY <1>1, <1>2, <1>3

\* Thread t brings the last outcome to group p exactly when "remaining" is 1.
LEMMA LastReport ==
  ASSUME RoomToCount, TypeOK, KinInv, NEW t \in Threads, NEW c \in Objs, NEW p \in Objs,
         Reporting(t, c, p), Free(p)
  PROVE  Fence!Outstanding(p) = {c} /\ c \notin waitingBar[p] <=> row[p].remaining = 1
<1>1. row[p].remaining = Cardinality(Links(p)) + Cardinality(Signalers(p)) /\ c \notin Links(p)
  BY DEF KinInv, ReportsLive, RemainingExact, Links, Signalers
<1>2. waitingBar[p] = Links(p)
  BY View DEF ViewExact, KidsOf
<1>3. t \in Signalers(p)
  BY DEF Signalers, Reporting
<1>4. \A u \in Signalers(p) : u \in Threads /\ th[u].obj \in Objs /\ Reporting(u, th[u].obj, p)
  BY DEF Signalers, Reporting, TypeOK, Local, Named
<1>5. ASSUME Fence!Outstanding(p) = {c}  PROVE row[p].remaining = 1
  <2>1. Links(p) = {}
    <3>1. Links(p) \subseteq Objs
      BY DEF Links
    <3> QED BY <1>1, <1>5, <3>1, OutstandingIs
  <2>2. ASSUME NEW u \in Signalers(p)  PROVE u = t
    <3>1. Late(th[u].obj, p)
      BY <1>4, <2>2 DEF Late
    <3>2. th[u].obj = c
      BY <1>4, <1>5, <2>2, <3>1, OutstandingIs
    <3> QED BY <1>4, <2>2, <3>2 DEF KinInv, ReportsLive
  <2>3. Signalers(p) = {t}
    BY <1>3, <2>2
  <2> QED BY <1>1, <2>1, <2>3, FS_EmptySet, FS_Singleton
<1>6. ASSUME row[p].remaining = 1  PROVE Fence!Outstanding(p) = {c}
  <2>1. Cardinality(Signalers(p) \ {t}) = Cardinality(Signalers(p)) - 1
    BY <1>3, Countable, FS_RemoveElement
  <2>2. IsFiniteSet(Signalers(p) \ {t}) /\ Cardinality(Signalers(p) \ {t}) \in Nat
    BY Countable, FS_RemoveElement, FS_CardinalityType
  <2>3. Cardinality(Links(p)) = 0 /\ Cardinality(Signalers(p) \ {t}) = 0
    BY <1>1, <1>6, <2>1, <2>2, Countable
  <2>4. Links(p) = {} /\ Signalers(p) \ {t} = {}
    BY <2>2, <2>3, Countable, FS_EmptySet
  <2>5. ASSUME NEW d \in Objs, Late(d, p)  PROVE d = c
    <3>1. PICK u \in Threads : Reporting(u, d, p)
      BY <2>5 DEF Late
    <3>2. u \in Signalers(p)
      BY <3>1 DEF Signalers, Reporting
    <3>3. u = t
      BY <2>4, <3>2
    <3> QED BY <3>1, <3>3 DEF Reporting
  <2>6. Late(c, p)
    BY DEF Late
  <2> QED BY <2>4, <2>5, <2>6, OutstandingIs, OutstandingObjs
<1> QED BY <1>1, <1>2, <1>5, <1>6

\* An outcome reaches a group.
LEMMA AbsDeliver ==
  ASSUME RoomToCount, TypeOK, TypeOK', OwnerInv, LinkInv, MergeInv, KinInv,
         NEW t \in Threads, NEW p \in Objs, SignalParent(t, p)
  PROVE  AbsStep
<1>0. /\ th[t] \in Local /\ th[t].pc = "signal_parents" /\ p \in th[t].folks /\ Free(p)
      /\ th[t].st \in Settled /\ th[t].ret = "idle" /\ lock' = lock
  BY SignalParentEffect DEF TypeOK, MergeInv, NoSweep, SignalParent
<1>c. PICK c \in Objs : c = th[t].obj
  BY <1>0 DEF Local, Named
<1>1. PICK r : /\ row' = [row EXCEPT ![p] = r] /\ Reported(r, row[p], th[t].st)
               /\ IF r.state # INVALID /\ r.remaining = 0
                    THEN workq' = [w \in CbWork |->
                                     workq[w] + IF w.obj = p /\ w.status = r.state
                                                  THEN row[p].callback_list[w.cb] ELSE 0]
                    ELSE workq' = workq
  BY SignalParentEffect
<1>2. PICK x : /\ th' = [th EXCEPT ![t] = x]
               /\ IF th[t].folks \ {p} = {} THEN x = Return(th[t])
                  ELSE /\ x.pc = "signal_parents" /\ x.obj = th[t].obj /\ x.st = th[t].st
                       /\ x.folks = th[t].folks \ {p}
  BY SignalParentEffect
<1>3. /\ th'[t] = x /\ \A u \in Threads : u # t => th'[u] = th[u]
      /\ row'[p] = r /\ \A q \in Objs : q # p => row'[q] = row[q]
  BY <1>1, <1>2 DEF TypeOK
<1>4. \/ x.pc = "idle" /\ th[t].folks = {p}
      \/ /\ x.pc = "signal_parents" /\ x.obj = th[t].obj /\ x.st = th[t].st
         /\ x.folks = th[t].folks \ {p}
  BY <1>0, <1>2, ReturnIdle
<1>5. \A u \in Threads, d, g \in Objs :
        Reporting(u, d, g)' <=> Reporting(u, d, g) /\ ~(u = t /\ g = p)
  <2> SUFFICES ASSUME NEW u \in Threads, NEW d \in Objs, NEW g \in Objs
               PROVE  Reporting(u, d, g)' <=> Reporting(u, d, g) /\ ~(u = t /\ g = p)
    OBVIOUS
  <2>1. CASE u # t
    BY <1>3, <2>1 DEF Reporting
  <2>2. CASE u = t
    BY <1>0, <1>3, <1>4, <2>2 DEF Reporting
  <2> QED BY <2>1, <2>2
<1>6. Reporting(t, c, p)
  BY <1>0, <1>c DEF Reporting
<1>7. row[p].type = "GROUP" /\ row[p].state # INVALID /\ row[p].parents_list = {} /\ row[p] \in Row
  BY <1>6, GroupFacts DEF KinInv, ReportsLive, TypeOK
<1>8. \A q \in Objs : Free(q)' <=> Free(q)
  BY <1>0 DEF Free
<1>9. /\ r.type = "GROUP" /\ r.state \in Settled /\ r.state # INVALID
      /\ r.state = ERROR <=> row[p].state = ERROR \/ th[t].st = ERROR
      /\ r.parents_list = {}
  <2>1. row[p].state \in States
    BY <1>7 DEF Row
  <2> QED BY <1>0, <1>1, <1>7, <2>1 DEF Reported, UpdateParentState, States, Settled, SUCCESS,
             ERROR, INVALID, ACTIVE
<1> DEFINE m == [kid |-> c, group |-> p, status |-> th[t].st]
<1>10. m = Report(t, c, p) /\ m.kid = c /\ m.group = p /\ m.status = th[t].st /\ m \in Fence!Reports
  BY <1>0, SameStatus DEF Report, Fence!Reports
<1>11. m \in reportsBar
  BY <1>0, <1>6, <1>10, View DEF ViewExact, OnTheWay
<1> HIDE DEF m
<1>12. reportsBar' = reportsBar \ {m}
  <2>1. \A u \in Threads, d, g \in Objs :
          Reporting(u, d, g)' => Report(u, d, g)' = Report(u, d, g)
    BY <1>3, <1>4 DEF Reporting, Report
  <2>2. ASSUME NEW u \in Threads, NEW d \in Objs, NEW g \in Objs, Reporting(u, d, g)
        PROVE  Report(u, d, g) = m <=> u = t /\ g = p
    <3>1. ASSUME Report(u, d, g) = m  PROVE u = t /\ g = p
      <4>1. d = c /\ g = p
        BY <1>10, <3>1 DEF Report
      <4> QED BY <1>6, <2>2, <4>1 DEF KinInv, ReportsLive
    <3>2. ASSUME u = t, g = p  PROVE Report(u, d, g) = m
      BY <1>6, <1>10, <2>2, <3>2 DEF Report, Reporting
    <3> QED BY <3>1, <3>2
  <2>3. ASSUME NEW q  PROVE OnTheWay(q)' <=> OnTheWay(q) /\ q # m
    <3>1. ASSUME OnTheWay(q)'  PROVE OnTheWay(q) /\ q # m
      <4>1. PICK u \in Threads, d \in Objs, g \in Objs :
              Reporting(u, d, g)' /\ Free(g)' /\ q = Report(u, d, g)'
        BY <3>1 DEF OnTheWay
      <4>2. Reporting(u, d, g) /\ ~(u = t /\ g = p) /\ q = Report(u, d, g) /\ Free(g)
        BY <1>5, <1>8, <2>1, <4>1
      <4> QED BY <2>2, <4>2 DEF OnTheWay
    <3>2. ASSUME OnTheWay(q), q # m  PROVE OnTheWay(q)'
      <4>1. PICK u \in Threads, d \in Objs, g \in Objs :
              Reporting(u, d, g) /\ Free(g) /\ q = Report(u, d, g)
        BY <3>2 DEF OnTheWay
      <4>2. Reporting(u, d, g)' /\ Free(g)' /\ q = Report(u, d, g)'
        BY <1>5, <1>8, <2>1, <2>2, <3>2, <4>1
      <4> QED BY <4>2 DEF OnTheWay
    <3> QED BY <3>1, <3>2
  <2>4. \A q : q \in reportsBar' <=> q \in reportsBar \ {m}
    BY <2>3, View, NextView DEF ViewExact
  <2> QED BY <2>4
<1>13. badBar' = [badBar EXCEPT ![p] = @ \/ m.status = Fence!ERROR]
  <2>1. badBar[p] = (row[p].state = ERROR)
    BY <1>0, <1>7, View DEF ViewExact, BadOf, Hidden
  <2>2. BadOf(p)' = (badBar[p] \/ m.status = Fence!ERROR)
    BY <1>0, <1>3, <1>8, <1>9, <1>10, <2>1, SameStatus DEF BadOf, Hidden
  <2>3. \A q \in Objs : q # p => BadOf(q)' = BadOf(q)
    BY <1>3, <1>8 DEF BadOf, Hidden
  <2> QED BY <2>2, <2>3, BadExcept
<1>14. badBar'[p] <=> r.state = ERROR
  BY <1>0, <1>3, <1>8, <1>9, NextView DEF ViewExact, BadOf, Hidden
<1>15. waitingBar' = waitingBar
  <2>1. \A q \in Objs : row'[q].parents_list = row[q].parents_list
    BY <1>3, <1>7, <1>9
  <2>2. \A g \in Objs : KidsOf(g)' = KidsOf(g)
    BY <1>8, <2>1 DEF KidsOf, Links
  <2> QED BY <2>2, SameWaiting
<1>16. askedBar' = askedBar
  BY <1>0, <1>2, <1>4, ThreadAsked DEF MergePcs
<1>17. \A q \in Objs : q # p => FenceOf(q)' = FenceOf(q)
  BY <1>3, <1>8 DEF FenceOf, Hidden
<1>18. Fence!Outstanding(p) = {c} /\ c \notin waitingBar[p] <=> row[p].remaining = 1
  BY <1>0, <1>6, LastReport
<1>19. row[p].remaining # 0 /\ row[p].remaining \in Nat /\ r.remaining = row[p].remaining - 1
  <2>1. row[p].remaining = Cardinality(Links(p)) + Cardinality(Signalers(p))
    BY <1>7 DEF KinInv, RemainingExact, Links, Signalers
  <2>2. t \in Signalers(p)
    BY <1>6 DEF Signalers, Reporting
  <2>3. Cardinality(Signalers(p)) # 0
    BY <2>2, Countable, FS_EmptySet
  <2>4. row[p].remaining # 0 /\ row[p].remaining \in Nat
    BY <2>1, <2>3, Countable
  <2> QED BY <1>1, <2>4 DEF Reported, Dec
<1>20. CASE row[p].remaining = 1
  <2>1. r.remaining = 0 /\ r.callback_list = NoCbs
    BY <1>1, <1>9, <1>19, <1>20 DEF Reported
  <2>2. FenceOf(p)' = r.state
    BY <1>0, <1>3, <1>8, <1>9, <2>1 DEF FenceOf, Hidden, Complete
  <2>3. fenceBar' = [fenceBar EXCEPT ![p] = r.state]
    BY <1>17, <2>2, FenceExcept
  <2>4. pendBar' = [pendBar EXCEPT ![p] = [cb \in Cbs |-> 0]]
    BY <1>3, <2>1, PendExcept DEF NoCbs
  <2>5. pendBar[p] = row[p].callback_list
    BY View DEF ViewExact
  <2>6. workq' = [w \in CbWork |-> workq[w] + IF w.obj = p /\ w.status = r.state
                                                THEN pendBar[p][w.cb] ELSE 0]
    BY <1>1, <1>9, <2>1, <2>5
  <2>7. Fence!Fire(p, r.state)
    BY <2>3, <2>4, <2>6, SameStatus DEF Fence!Fire
  <2>8. r.state = IF badBar'[p] THEN Fence!ERROR ELSE Fence!SUCCESS
    BY <1>9, <1>14, SameStatus DEF Settled
  <2>9. Fence!Deliver(m)
    BY <1>10, <1>11, <1>12, <1>13, <1>15, <1>16, <1>18, <1>20, <2>7, <2>8 DEF Fence!Deliver
  <2> QED BY <1>10, <2>9 DEF AbsStep, Fence!Next
<1>21. CASE row[p].remaining # 1
  <2>1. r.remaining # 0 /\ r.callback_list = row[p].callback_list /\ workq' = workq
    BY <1>1, <1>19, <1>21 DEF Reported
  <2>2. FenceOf(p)' = FenceOf(p)
    BY <1>0, <1>3, <1>7, <1>8, <1>9, <1>19, <2>1 DEF FenceOf, Hidden, Complete
  <2>3. fenceBar' = fenceBar
    BY <1>17, <2>2, SameFences
  <2>4. pendBar' = pendBar
    BY <1>3, <2>1, SamePend
  <2>5. Fence!Deliver(m)
    BY <1>10, <1>11, <1>12, <1>13, <1>15, <1>16, <1>18, <1>21, <2>1, <2>3, <2>4 DEF Fence!Deliver
  <2> QED BY <1>10, <2>5 DEF AbsStep, Fence!Next
<1> QED BY <1>20, <1>21

-----------------------------------------------------------------------------
(* Merging                                                                  *)

\* The loop over the children of a group that is being built does not show.
LEMMA AbsChild ==
  ASSUME KeepsContract, TypeOK, TypeOK', OwnerInv, LinkInv, MergeInv, KinInv,
         NEW t \in Threads, NEW c \in Objs, MergeChild(t, c)
  PROVE  AbsStep
<1>g. PICK g \in Objs : g = th[t].obj
  BY DEF MergeChild, TypeOK, Local, Named
<1>0. /\ th[t] \in Local /\ th[t].pc = "merge_child" /\ c \in th[t].todo /\ Free(c)
      /\ row[g] \in Row /\ row[c] \in Row /\ lock' = lock /\ workq' = workq
  BY DEF MergeChild, TypeOK
<1>1. ~Free(g) /\ g # c
  BY <1>g, <1>0, GroupFacts
<1> DEFINE x == Visited(th[t], c)
<1>2. x.pc = "merge_child" /\ x.todo \cup x.done = th[t].todo \cup th[t].done
  BY <1>0 DEF Visited, Local, LocalFields
<1>3. th' = [th EXCEPT ![t] = x]
  BY NoMergeFail DEF MergeLink, MergeSkip
<1> HIDE DEF x
<1>4. th'[t] = x /\ \A u \in Threads : u # t => th'[u] = th[u]
  BY <1>3 DEF TypeOK
<1>5. askedBar' = askedBar
  BY <1>0, <1>2, <1>3, ThreadAsked DEF MergePcs
<1>6. reportsBar' = reportsBar
  BY <1>0, <1>2, <1>4, SameLoops
<1>7. \A q \in Objs : Free(q)' <=> Free(q)
  BY <1>0 DEF Free
<1>8. /\ row'[g].callback_list = row[g].callback_list
      /\ row'[c].callback_list = row[c].callback_list
      /\ row'[c].type = row[c].type /\ row'[c].state = row[c].state
      /\ row'[c].remaining = row[c].remaining
      /\ row'[c].parents_list \ {g} = row[c].parents_list \ {g}
      /\ row'[g].parents_list = row[g].parents_list
      /\ \A q \in Objs : q # g /\ q # c => row'[q] = row[q]
  <2>1. CASE MergeLink(t, c)
    <3> DEFINE r == AddChild(row[g], c)
               k == AddParent(row[c], g)
    <3>1. row' = [row EXCEPT ![g] = r, ![c] = k]
      BY <1>g, <2>1 DEF MergeLink
    <3>2. r.parents_list = row[g].parents_list /\ r.callback_list = row[g].callback_list
      BY <1>0 DEF AddChild, Row
    <3>3. /\ k.type = row[c].type /\ k.state = row[c].state /\ k.remaining = row[c].remaining
          /\ k.parents_list = row[c].parents_list \cup {g} /\ k.callback_list = row[c].callback_list
      BY <1>0 DEF AddParent, Row
    <3> HIDE DEF r, k
    <3>4. row'[g] = r /\ row'[c] = k /\ \A q \in Objs : q # g /\ q # c => row'[q] = row[q]
      BY <1>1, <3>1 DEF TypeOK
    <3> QED BY <3>2, <3>3, <3>4
  <2>2. CASE MergeSkip(t, c)
    <3> DEFINE r == Inherit(row[g], row[c].state)
    <3>1. row' = [row EXCEPT ![g] = r]
      BY <1>g, <2>2 DEF MergeSkip
    <3>2. r.parents_list = row[g].parents_list /\ r.callback_list = row[g].callback_list
      BY <1>0 DEF Inherit, Row
    <3> HIDE DEF r
    <3> QED BY <1>1, <3>1, <3>2 DEF TypeOK
  <2> QED BY <2>1, <2>2, NoMergeFail
<1>9. \A q \in Objs : row'[q].callback_list = row[q].callback_list
  BY <1>8
<1>10. \A q \in Objs : FenceOf(q)' = FenceOf(q) /\ BadOf(q)' = BadOf(q)
  <2>1. FenceOf(g)' = FenceOf(g) /\ BadOf(g)' = BadOf(g)
    BY <1>1, <1>7 DEF FenceOf, BadOf, Hidden
  <2>2. \A q \in Objs : q # g => FenceOf(q)' = FenceOf(q) /\ BadOf(q)' = BadOf(q)
    BY <1>7, <1>8 DEF FenceOf, BadOf, Hidden, Complete
  <2> QED BY <2>1, <2>2
<1>11. \A h \in Objs : KidsOf(h)' = KidsOf(h)
  <2>1. KidsOf(g)' = KidsOf(g)
    BY <1>1, <1>7 DEF KidsOf
  <2>2. ASSUME NEW h \in Objs, h # g  PROVE KidsOf(h)' = KidsOf(h)
    <3>1. \A q \in Objs : h \in row'[q].parents_list <=> h \in row[q].parents_list
      BY <1>8, <2>2
    <3> QED BY <1>7, <3>1 DEF KidsOf, Links
  <2> QED BY <2>1, <2>2
<1> QED BY <1>0, <1>5, <1>6, <1>9, <1>10, <1>11, SameFences, SameBad, SameWaiting, SamePend, Stutters

\* What is known of the group g that thread t has visited all children of
LEMMA BuiltGroup ==
  ASSUME RoomToCount, TypeOK, OwnerInv, LinkInv, MergeInv, KinInv,
         NEW t \in Threads, NEW g \in Objs, th[t].pc = "merge_child", g = th[t].obj
  PROVE  /\ \A k \in th[t].done : /\ k \in Objs /\ Free(k) /\ k # g /\ row[k].state # INVALID
                                  /\ fenceBar[k] = row[k].state
         /\ Links(g) = {k \in th[t].done : row[k].state = ACTIVE}
         /\ \A k \in Objs : Late(k, g) => k \in th[t].done /\ row[k].state \in Settled
         /\ row[g].remaining = 0 <=> Links(g) = {} /\ \A k \in Objs : ~Late(k, g)
<1>1. ~Free(g) /\ ~Dead(g) /\ row[g].type = "GROUP" /\ row[g].children_list \subseteq th[t].done
  BY GroupFacts DEF LinkInv, GroupBuilt
<1>2. BuildExact(t) /\ th[t].done \subseteq Objs
  BY DEF KinInv, BuildInv, TypeOK, Local, LocalFields
<1>3. ASSUME NEW k \in th[t].done
      PROVE  /\ k \in Objs /\ Free(k) /\ k # g /\ row[k].state # INVALID
             /\ fenceBar[k] = row[k].state
  <2>1. k \in Objs /\ k \in Elements(t)
    BY <1>2 DEF Elements, Merging
  <2>2. LiveKid(k) /\ Free(k)
    BY <2>1, ElementFree
  <2>3. row[k].remaining = 0
    BY <2>1, <2>2, KidAlone DEF LiveKid
  <2>4. row[k].state \in States
    BY <2>1 DEF TypeOK, Row
  <2>5. fenceBar[k] = IF Complete(row[k]) THEN row[k].state ELSE ACTIVE
    BY <2>1, <2>2, FenceIs DEF LiveKid
  <2>6. fenceBar[k] = row[k].state
    BY <2>2, <2>3, <2>4, <2>5 DEF LiveKid, Complete, States, Settled
  <2> QED BY <1>1, <2>1, <2>2, <2>6 DEF LiveKid
<1>4. Links(g) = {k \in th[t].done : row[k].state = ACTIVE}
  <2>1. ASSUME NEW k \in Objs, g \in row[k].parents_list  PROVE k \in th[t].done
    <3>1. \A u \in Threads : ~Unlinking(u, k, g)
      BY <1>1, DeadLinks
    <3>2. k \in row[g].children_list
      BY <2>1, <3>1, LinksDef DEF LinkInv
    <3> QED BY <1>1, <3>2
  <2>2. \A k \in th[t].done : row[k].state = ACTIVE <=> g \in row[k].parents_list
    BY <1>2 DEF BuildExact
  <2> QED BY <1>2, <2>1, <2>2 DEF Links
<1>5. ASSUME NEW k \in Objs, Late(k, g)  PROVE k \in th[t].done /\ row[k].state \in Settled
  <2>1. PICK u \in Threads : Reporting(u, k, g)
    BY <1>5 DEF Late
  <2>2. th[u].st \in Settled
    BY <2>1 DEF Reporting, TypeOK, Local
  <2> QED BY <1>2, <2>1, <2>2 DEF BuildExact
<1>6. row[g].remaining = 0 <=> Links(g) = {} /\ \A k \in Objs : ~Late(k, g)
  <2>1. row[g].remaining = Cardinality(Links(g)) + Cardinality(Signalers(g))
    BY <1>1 DEF KinInv, RemainingExact, Links, Signalers, Dead
  <2>2. row[g].remaining = 0 <=> Cardinality(Links(g)) = 0 /\ Cardinality(Signalers(g)) = 0
    BY <2>1, Countable
  <2>3. row[g].remaining = 0 <=> Links(g) = {} /\ Signalers(g) = {}
    BY <2>2, Countable, FS_EmptySet
  <2>4. Signalers(g) = {} <=> \A k \in Objs : ~Late(k, g)
    <3>1. ASSUME NEW u \in Signalers(g)  PROVE \E k \in Objs : Late(k, g)
      <4>1. u \in Threads /\ th[u].obj \in Objs /\ Reporting(u, th[u].obj, g)
        BY <3>1 DEF Signalers, Reporting, TypeOK, Local, Named
      <4> QED BY <4>1 DEF Late
    <3>2. ASSUME NEW k \in Objs, Late(k, g)  PROVE Signalers(g) # {}
      <4>1. PICK u \in Threads : Reporting(u, k, g)
        BY <3>2 DEF Late
      <4>2. u \in Signalers(g)
        BY <4>1 DEF Signalers, Reporting
      <4> QED BY <4>2
    <3> QED BY <3>1, <3>2
  <2> QED BY <2>3, <2>4
<1> QED BY <1>3, <1>4, <1>5, <1>6

\* The group shows once its lock is dropped.
LEMMA AbsFinish ==
  ASSUME RoomToCount, TypeOK, TypeOK', OwnerInv, LinkInv, MergeInv, KinInv, NEW t \in Threads,
         MergeFinish(t)
  PROVE  AbsStep
<1>g. PICK g \in Objs : g = th[t].obj
  BY DEF MergeFinish, TypeOK, Local, Named
<1> DEFINE K == th[t].done
           r == Finished(row[g])
           late == {k \in Objs : Late(k, g)}
           active == {k \in K : fenceBar[k] = Fence!ACTIVE}
           failed == \E k \in K \ (active \cup late) : fenceBar[k] = Fence!ERROR
<1>0. /\ th[t].pc = "merge_child" /\ th[t].todo = {} /\ row[g] \in Row /\ workq' = workq
      /\ row' = [row EXCEPT ![g] = r] /\ th' = [th EXCEPT ![t] = Idle]
      /\ lock' = [lock EXCEPT ![g] = None]
  BY <1>g DEF MergeFinish, TypeOK
<1>1. /\ ~Free(g) /\ row[g].type = "GROUP" /\ row[g].parents_list = {} /\ BuildExact(t)
      /\ \A k \in K : /\ k \in Objs /\ Free(k) /\ k # g /\ row[k].state # INVALID
                      /\ fenceBar[k] = row[k].state
      /\ Links(g) = {k \in K : row[k].state = ACTIVE}
      /\ \A k \in Objs : Late(k, g) => k \in K /\ row[k].state \in Settled
      /\ row[g].remaining = 0 <=> Links(g) = {} /\ \A k \in Objs : ~Late(k, g)
  BY <1>g, <1>0, GroupFacts, BuiltGroup DEF KinInv, BuildInv
<1>2. active = Links(g)
  BY <1>1, SameStatus
<1>3. failed <=> row[g].state = ERROR
  <2>1. row[g].state = IF \E k \in K : row[k].state = ERROR /\ ~Late(k, g) THEN ERROR ELSE ACTIVE
    BY <1>g, <1>1 DEF BuildExact
  <2>2. failed <=> \E k \in K : row[k].state = ERROR /\ ~Late(k, g)
    BY <1>1, <1>2, SameStatus DEF ERROR, ACTIVE
  <2> QED BY <2>1, <2>2 DEF ERROR, ACTIVE
<1>4. /\ r.type = "GROUP" /\ r.remaining = row[g].remaining /\ r.parents_list = {}
      /\ r.callback_list = row[g].callback_list
      /\ r.state = IF row[g].remaining # 0 THEN row[g].state
                   ELSE IF row[g].state = ERROR THEN ERROR ELSE SUCCESS
  BY <1>0, <1>1 DEF Finished, Row
<1>5. row[g].state \in {ACTIVE, ERROR} /\ (row[g].remaining # 0 <=> active \cup late # {})
  BY <1>g, <1>1, <1>2 DEF BuildExact
<1>6. K # {} /\ askedBar[t] = K
  <2>1. Elements(t) = K /\ K # {}
    BY <1>0 DEF MergeInv, ElementsLive, Elements, Merging
  <2> QED BY <2>1, View DEF ViewExact
<1> HIDE DEF r, failed, active, K
<1>7. /\ th'[t] = Idle /\ \A u \in Threads : u # t => th'[u] = th[u]
      /\ row'[g] = r /\ \A q \in Objs : q # g => row'[q] = row[q]
      /\ Free(g)' /\ \A q \in Objs : q # g => (Free(q)' <=> Free(q))
  BY <1>0 DEF TypeOK, Free
<1>8. fenceBar[g] = Fence!FREE
  BY <1>1, View, SameStatus DEF ViewExact, FenceOf, Hidden
<1>9. fenceBar' = [fenceBar EXCEPT ![g] = IF active \cup late # {} THEN Fence!ACTIVE
                                          ELSE IF failed THEN Fence!ERROR ELSE Fence!SUCCESS]
  <2>1. FenceOf(g)' = IF active \cup late # {} THEN Fence!ACTIVE
                      ELSE IF failed THEN Fence!ERROR ELSE Fence!SUCCESS
    <3>1. Hidden(g)' = FALSE
      BY <1>4, <1>5, <1>7 DEF Hidden, ACTIVE, ERROR, SUCCESS, INVALID
    <3>2. Complete(row'[g]) <=> row[g].remaining = 0
      BY <1>4, <1>7 DEF Complete, Settled
    <3> QED BY <1>3, <1>4, <1>5, <1>7, <3>1, <3>2, SameStatus DEF FenceOf
  <2>2. \A p \in Objs : p # g => FenceOf(p)' = FenceOf(p)
    BY <1>7 DEF FenceOf, Hidden
  <2> QED BY <2>1, <2>2, FenceExcept
<1>10. waitingBar' = [waitingBar EXCEPT ![g] = active]
  <2>1. \A q \in Objs : row'[q].parents_list = row[q].parents_list
    BY <1>1, <1>4, <1>7
  <2>2. \A h \in Objs : Links(h)' = Links(h)
    BY <2>1 DEF Links
  <2>3. KidsOf(g)' = active /\ \A p \in Objs : p # g => KidsOf(p)' = KidsOf(p)
    BY <1>2, <1>7, <2>2 DEF KidsOf
  <2> QED BY <2>3, WaitingExcept
<1>11. badBar' = [badBar EXCEPT ![g] = failed]
  <2>1. BadOf(g)' = failed
    <3>1. Hidden(g)' = FALSE
      BY <1>4, <1>5, <1>7 DEF Hidden, ACTIVE, ERROR, SUCCESS, INVALID
    <3>2. r.state = ERROR <=> row[g].state = ERROR
      BY <1>4, <1>5 DEF ACTIVE, ERROR, SUCCESS
    <3>3. failed \in BOOLEAN
      BY DEF failed
    <3> QED BY <1>3, <1>4, <1>7, <3>1, <3>2, <3>3 DEF BadOf
  <2>2. \A p \in Objs : p # g => BadOf(p)' = BadOf(p)
    BY <1>7 DEF BadOf, Hidden
  <2> QED BY <2>1, <2>2, BadExcept
<1>12. pendBar' = pendBar
  BY <1>4, <1>7, SamePend
<1>13. askedBar' = [askedBar EXCEPT ![t] = {}]
  <2>1. Idle.pc = "idle"
    BY DEF Idle
  <2> QED BY <1>0, <2>1, AskedExcept DEF MergePcs
<1>14. reportsBar' = reportsBar \cup {[kid |-> k, group |-> g, status |-> fenceBar[k]] : k \in late}
  <2>0. Idle.pc = "idle"
    BY DEF Idle
  <2>1. \A u \in Threads, c, h \in Objs : /\ Reporting(u, c, h)' <=> Reporting(u, c, h)
                                          /\ Reporting(u, c, h) => Report(u, c, h)' = Report(u, c, h)
    BY <1>0, <1>7, <2>0 DEF Reporting, Report
  <2>2. ASSUME NEW u \in Threads, NEW c \in Objs, Reporting(u, c, g)
        PROVE  Report(u, c, g) = [kid |-> c, group |-> g, status |-> fenceBar[c]]
    <3>1. row[c].state = th[u].st
      BY <1>g, <1>1, <2>2 DEF BuildExact
    <3>2. fenceBar[c] = row[c].state
      BY <1>1, <2>2 DEF Late
    <3> QED BY <3>1, <3>2 DEF Report
  <2>3. ASSUME NEW q
        PROVE  OnTheWay(q)' <=> OnTheWay(q) \/ \E k \in late : q = [kid |-> k, group |-> g, status |-> fenceBar[k]]
    <3>1. ASSUME OnTheWay(q)'
          PROVE  OnTheWay(q) \/ \E k \in late : q = [kid |-> k, group |-> g, status |-> fenceBar[k]]
      <4>1. PICK u \in Threads, c \in Objs, h \in Objs :
              Reporting(u, c, h)' /\ Free(h)' /\ q = Report(u, c, h)'
        BY <3>1 DEF OnTheWay
      <4>2. Reporting(u, c, h) /\ q = Report(u, c, h)
        BY <2>1, <4>1
      <4>3. CASE h = g
        BY <2>2, <4>2, <4>3 DEF Late
      <4>4. CASE h # g
        BY <1>7, <4>1, <4>2, <4>4 DEF OnTheWay
      <4> QED BY <4>3, <4>4
    <3>2. ASSUME OnTheWay(q)  PROVE OnTheWay(q)'
      <4>1. PICK u \in Threads, c \in Objs, h \in Objs :
              Reporting(u, c, h) /\ Free(h) /\ q = Report(u, c, h)
        BY <3>2 DEF OnTheWay
      <4>2. Reporting(u, c, h)' /\ Free(h)' /\ q = Report(u, c, h)'
        BY <1>7, <2>1, <4>1
      <4> QED BY <4>2 DEF OnTheWay
    <3>3. ASSUME NEW k \in late, q = [kid |-> k, group |-> g, status |-> fenceBar[k]]
          PROVE  OnTheWay(q)'
      <4>1. PICK u \in Threads : Reporting(u, k, g)
        BY <3>3 DEF Late
      <4>2. Reporting(u, k, g)' /\ q = Report(u, k, g)'
        BY <2>1, <2>2, <3>3, <4>1
      <4> QED BY <1>7, <3>3, <4>2 DEF OnTheWay
    <3> QED BY <3>1, <3>2, <3>3
  <2>4. \A q : q \in reportsBar' <=>
               q \in reportsBar \cup {[kid |-> k, group |-> g, status |-> fenceBar[k]] : k \in late}
    BY <2>3, View, NextView DEF ViewExact
  <2> QED BY <2>4
<1>15. late \subseteq K \ active
  BY <1>1, <1>2 DEF Settled, SUCCESS, ERROR, ACTIVE
<1>16. \A k \in K : fenceBar[k] # Fence!FREE
  BY <1>1, SameStatus
<1>17. Fence!Merge(t, g, late)
  BY <1>0, <1>6, <1>8, <1>9, <1>10, <1>11, <1>12, <1>13, <1>14, <1>15, <1>16
     DEF Fence!Merge, active, failed
<1>18. late \in SUBSET Objs
  OBVIOUS
<1> HIDE DEF late
<1> QED BY <1>17, <1>18 DEF AbsStep, Fence!Next

-----------------------------------------------------------------------------
(* The refinement                                                           *)

LEMMA InitAbs == Init => Fence!Init
<1> SUFFICES ASSUME Init PROVE Fence!Init
  OBVIOUS
<1>1. TypeOK
  BY InitTypeOK
<1>2. \A o \in Objs : /\ row[o].state = INVALID /\ row[o].parents_list = {}
                      /\ row[o].callback_list = NoCbs
  BY DEF Init, ZeroRow
<1>3. \A u \in Threads : th[u].pc = "idle"
  BY DEF Init, Idle
<1>4. \A o \in Objs : FenceOf(o) = INVALID /\ BadOf(o) = FALSE /\ KidsOf(o) = {}
  BY <1>2 DEF FenceOf, BadOf, KidsOf, Links, Hidden
<1>5. \A u \in Threads : Elements(u) = {}
  BY <1>3 DEF Elements, Merging
<1>6. reportsBar = {}
  BY <1>1, <1>3, View DEF ViewExact, OnTheWay, Reporting
<1>7. fenceBar = [o \in Objs |-> Fence!FREE] /\ badBar = [o \in Objs |-> FALSE]
  BY <1>1, <1>4, View, SameStatus DEF ViewExact
<1>8. waitingBar = [o \in Objs |-> {}] /\ askedBar = [u \in Threads |-> {}]
  BY <1>1, <1>4, <1>5, View DEF ViewExact
<1>9. pendBar = [o \in Objs |-> [cb \in Cbs |-> 0]]
  BY <1>1, <1>2, View DEF ViewExact, NoCbs
<1>10. workq = [w \in Fence!CbWork |-> 0]
  BY SameStatus DEF Init, NoWork
<1> QED BY <1>6, <1>7, <1>8, <1>9, <1>10 DEF Fence!Init

\* Every step of the driver is a step of CamFence or does not show.
LEMMA StepAbs ==
  ASSUME KeepsContract, RoomToCount, TypeOK, TypeOK', OwnerInv, LinkInv, MergeInv, KinInv, [Next]_vars
  PROVE  AbsStep
<1>1. CASE (\E w \in CbWork : CbDispatch(w)) \/ DequeueEvent \/ UNCHANGED vars
  BY <1>1, AbsQuiet
<1>2. \A t \in Threads : /\ ~MergeAbort(t)
                         /\ \A c \in Objs : ~MergeClean(t, c) /\ ~CloseDestroy(t, c)
  BY DEF MergeAbort, MergeClean, CloseDestroy, MergeInv, NoSweep, Sweeping
<1>3. ASSUME NEW t \in Threads, Step(t)  PROVE AbsStep
  BY <1>2, <1>3, AbsQuiet, AbsSignal, AbsDeliver, AbsChild, AbsFinish, AbsCreate, AbsReset, AbsUnlink
     DEF Step
<1>4. ASSUME NEW t \in Threads, Call(t)  PROVE AbsStep
  BY <1>4, AbsQuiet, AbsRow, AbsCallback, AbsSignal, AbsDestroy DEF Call
<1> QED BY <1>1, <1>3, <1>4 DEF Next

\* For clients that keep the contract the driver implements CamFence, for any number of ids,
\* threads, callbacks and payloads: a group made by cam_sync_merge settles exactly when the
\* outcome of its last child reaches it, as ERROR if and only if a child failed, and every
\* callback becomes due exactly once, in the step that settles its fence and with the
\* settled status.
THEOREM Implements ==
  ASSUME KeepsContract, RoomToCount  PROVE Spec => ImplementsFence
<1> DEFINE Inv == TypeOK /\ OwnerInv /\ LinkInv /\ MergeInv /\ NoCallbackStranded /\ KinInv
<1>1. Init => Inv
  <2>1. Init => NoCallbackStranded
    BY DEF Init, NoCallbackStranded, Free, Complete, ZeroRow, Settled, INVALID, SUCCESS, ERROR
  <2> QED BY <2>1, InitTypeOK, InitOwner, InitLinks, InitMerge, InitKin
<1>2. Inv /\ [Next]_vars => Inv'
  BY StepTypeOK, StepOwner, StepLinks, StepMerge, StepWake, StepKin
<1>3. Inv /\ Inv' /\ [Next]_vars => AbsStep
  BY StepAbs
<1>4. Init => Fence!Init
  BY InitAbs
<1> HIDE DEF Inv
<1> QED BY <1>1, <1>2, <1>3, <1>4, PTL DEF Spec, ImplementsFence, Fence!Spec, AbsStep
=============================================================================
