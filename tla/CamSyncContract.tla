-------------------------- MODULE CamSyncContract --------------------------
(***************************************************************************)
(* What CamSync guarantees to clients that keep the contract, while nobody *)
(* closes the device and no allocation fails: merges never block each      *)
(* other (MergeInv), and "remaining" is exact (KinInv, relative to         *)
(* MergeInv and the invariants of CamSyncSafety).  That the driver         *)
(* implements CamFence rests on these: see CamSyncImplements.              *)
(***************************************************************************)
EXTENDS CamSyncSafety, CamSyncRefines, FiniteSetTheorems

\* The clients keep the contract; cam_sync_close, which destroys fences in use, and the
\* roll-back of a merge for want of memory do not happen.
KeepsContract == Contract /\ ~AllocFails /\ \A t \in Threads : "close" \notin Calls[t]

\* "remaining" (32 bits) cannot overflow: there are fewer ids and threads.
RoomToCount == /\ IsFiniteSet(Objs) /\ IsFiniteSet(Threads)
               /\ Cardinality(Objs) + Cardinality(Threads) < Wrap

\* Nobody is inside cam_sync_close or rolls a merge back.
Sweeping == {"close_signal", "close_flush", "close_destroy", "close_null", "merge_clean"}
NoSweep  == \A t \in Threads : th[t].pc \notin Sweeping /\ th[t].ret = "idle"

\* The fences that a merge in flight names
Elements(t) == IF Merging(t) THEN th[t].todo \cup th[t].done ELSE {}

LiveKid(c) == row[c].type = "INDV" /\ row[c].state # INVALID

\* The fences of a merge in flight are individual and live; each is visited once per loop.
ElementsLive ==
  \A t \in Threads :
    /\ \A c \in Elements(t) : LiveKid(c)
    /\ Merging(t) => th[t].todo \cap th[t].done = {} /\ th[t].todo \cup th[t].done # {}
    /\ th[t].pc = "merge_lock" => th[t].todo = {}

MergeInv == NoSweep /\ ElementsLive

Reporting(t, c, g) == th[t].pc = "signal_parents" /\ th[t].obj = c /\ g \in th[t].folks

\* A signaler on its way to a group finds the group, and reports each child once.
ReportsLive ==
  /\ \A t \in Threads, c, g \in Objs :
       Reporting(t, c, g) => /\ row[g].type = "GROUP" /\ row[g].state # INVALID
                             /\ g \notin row[c].parents_list
  /\ \A t, u \in Threads, c, g \in Objs : Reporting(t, c, g) /\ Reporting(u, c, g) => t = u

\* Only active fences have parents, and the parents are alive; a dead row has no callbacks.
OnlyActiveLinked ==
  \A o \in Objs : /\ row[o].parents_list # {} => row[o].state = ACTIVE
                  /\ \A g \in row[o].parents_list : row[g].state # INVALID
                  /\ row[o].state = INVALID => row[o].callback_list = NoCbs

\* A child of group g has settled since it was linked.
Late(c, g) == \E t \in Threads : Reporting(t, c, g)

\* The group that thread t builds: its visited children are linked while they are active,
\* and those that had settled before lend it their error.
BuildExact(t) ==
  LET g == th[t].obj IN
  /\ \A c \in th[t].done : row[c].state = ACTIVE <=> g \in row[c].parents_list
  /\ \A u \in Threads, c \in Objs : Reporting(u, c, g) => c \in th[t].done /\ row[c].state = th[u].st
  /\ row[g].state = IF \E c \in th[t].done : row[c].state = ERROR /\ ~Late(c, g)
                      THEN ERROR ELSE ACTIVE

BuildInv == \A t \in Threads : th[t].pc = "merge_child" => BuildExact(t)

KinInv == RemainingExact /\ ReportsLive /\ OnlyActiveLinked /\ BuildInv

-----------------------------------------------------------------------------
(* The fences of a merge in flight                                          *)

MergePcs == {"merge_check", "merge_lock", "merge_child"}

\* A step of thread t that keeps the fences of the merges alive, and those of t the same
LEMMA MergeFrame ==
  ASSUME TypeOK, MergeInv, NEW t \in Threads, NEW x, th' = [th EXCEPT ![t] = x],
         x.pc \notin Sweeping, x.ret = "idle",
         \A c \in Objs : LiveKid(c) /\ (\E u \in Threads : c \in Elements(u)) => LiveKid(c)',
         \/ x.pc \notin MergePcs
         \/ /\ th[t].pc \in MergePcs /\ x.todo \cup x.done = th[t].todo \cup th[t].done
            /\ x.todo \cap x.done = {} /\ (x.pc = "merge_lock" => x.todo = {})
  PROVE  MergeInv'
<1>1. th'[t] = x /\ \A u \in Threads : u # t => th'[u] = th[u]
  BY DEF TypeOK
<1>2. \A u \in Threads : Elements(u)' \subseteq Elements(u) /\ Elements(u) \subseteq Objs
  <2> SUFFICES ASSUME NEW u \in Threads
               PROVE  Elements(u)' \subseteq Elements(u) /\ Elements(u) \subseteq Objs
    OBVIOUS
  <2>1. Elements(u) \subseteq Objs
    <3>1. th[u].todo \subseteq Objs /\ th[u].done \subseteq Objs
      BY DEF TypeOK, Local, LocalFields
    <3> QED BY <3>1 DEF Elements
  <2>2. CASE u # t
    BY <1>1, <2>1, <2>2 DEF Elements, Merging
  <2>3. CASE u = t
    BY <1>1, <2>1, <2>3 DEF Elements, Merging, MergePcs
  <2> QED BY <2>2, <2>3
<1>3. NoSweep'
  BY <1>1 DEF MergeInv, NoSweep
<1>4. \A u \in Threads : \A c \in Elements(u)' : LiveKid(c)'
  BY <1>2 DEF MergeInv, ElementsLive
<1>5. ASSUME NEW u \in Threads
      PROVE  /\ Merging(u)' => th'[u].todo \cap th'[u].done = {} /\ th'[u].todo \cup th'[u].done # {}
             /\ th'[u].pc = "merge_lock" => th'[u].todo = {}
  <2>1. CASE u # t
    BY <1>1, <2>1 DEF MergeInv, ElementsLive, Merging
  <2>2. CASE u = t
    BY <1>1, <2>2 DEF MergeInv, ElementsLive, Merging, MergePcs
  <2> QED BY <2>1, <2>2
<1>6. ElementsLive'
  BY <1>4, <1>5 DEF ElementsLive
<1> QED BY <1>3, <1>6 DEF MergeInv

\* The element of a merge is neither locked nor owned: it is an individual live fence.
LEMMA ElementFree ==
  ASSUME TypeOK, OwnerInv, LinkInv, MergeInv, NEW c \in Objs, NEW t \in Threads, c \in Elements(t)
  PROVE  LiveKid(c) /\ Free(c) /\ \A u \in Threads : ~Owns(u, c)
<1>1. LiveKid(c)
  BY DEF MergeInv, ElementsLive
<1>2. ASSUME NEW u \in Threads, Owns(u, c)  PROVE FALSE
  <2>1. th[u].pc = "merge_child" /\ th[u].obj = c
    BY <1>1, <1>2 DEF OwnerInv, OwnersExclude, LiveKid, Owns
  <2> QED BY <1>1, <2>1 DEF LinkInv, GroupBuilt, LiveKid
<1>3. \A u \in Threads : lock[c] # u
  BY <1>2 DEF OwnerInv, OwnersExclude, Owns
<1> QED BY <1>1, <1>2, <1>3 DEF TypeOK, Free

-----------------------------------------------------------------------------
(* What the steps of cam_sync_signal do                                     *)

\* How thread x goes on when it has signaled o with parents P: it returns, or reports
Reports(x, l, o, status, P) ==
  IF P = {} THEN x = Return(l)
  ELSE /\ x.pc = "signal_parents" /\ x.obj = o /\ x.st = status /\ x.folks = P
       /\ x.todo = l.todo /\ x.done = l.done /\ x.ret = l.ret

\* The critical section on the object: a reference is dropped, or the object settles.
LEMMA SignalRowEffect ==
  ASSUME TypeOK, NEW t \in Threads, NEW o \in Objs, NEW status \in Settled, NEW l \in Local,
         SignalRow(t, o, status, l)
  PROVE  /\ Free(o) /\ row[o].state = ACTIVE /\ row[o].type = "INDV"
         /\ \/ /\ \A p \in Objs : /\ SameKin(row'[p], row[p])
                                  /\ row'[p].callback_list = row[p].callback_list
               /\ th' = [th EXCEPT ![t] = Return(l)] /\ workq' = workq
            \/ /\ \E r : /\ row' = [row EXCEPT ![o] = r]
                         /\ r.type = "INDV" /\ r.state = status /\ r.parents_list = {}
                         /\ r.remaining = row[o].remaining
                         /\ r.children_list = row[o].children_list /\ r.callback_list = NoCbs
               /\ \E x : th' = [th EXCEPT ![t] = x] /\ Reports(x, l, o, status, row[o].parents_list)
               /\ DispatchQueues(row[o], o, status)
<1>1. row[o] \in Row /\ DispatchedRow(row[o]) \in Row
  BY DispatchedRowType DEF TypeOK
<1>2. Free(o) /\ row[o].state = ACTIVE /\ row[o].type = "INDV"
  BY DEF SignalRow
<1>3. CASE row' = [row EXCEPT ![o].ref_cnt = @ - 1] /\ th' = [th EXCEPT ![t] = Return(l)]
           /\ workq' = workq
  <2> DEFINE k == [row[o] EXCEPT !.ref_cnt = @ - 1]
  <2>1. row' = [row EXCEPT ![o] = k]
    BY <1>3
  <2>2. SameKin(k, row[o]) /\ k.callback_list = row[o].callback_list
    BY <1>1 DEF Row, SameKin
  <2> HIDE DEF k
  <2> QED BY <1>2, <1>3, <2>1, <2>2 DEF SameKin, TypeOK
<1>4. ASSUME row' = [row EXCEPT ![o] = [DispatchedRow(@) EXCEPT !.ref_cnt = 0, !.state = status,
                                                                 !.parents_list = {}]],
             DispatchQueues(row[o], o, status),
             th' = [th EXCEPT ![t] =
                      IF row[o].parents_list = {} THEN Return(l)
                      ELSE [l EXCEPT !.pc = "signal_parents", !.obj = o, !.st = status,
                                     !.folks = row[o].parents_list]]
      PROVE  /\ \E r : /\ row' = [row EXCEPT ![o] = r]
                       /\ r.type = "INDV" /\ r.state = status /\ r.parents_list = {}
                       /\ r.remaining = row[o].remaining
                       /\ r.children_list = row[o].children_list /\ r.callback_list = NoCbs
             /\ \E x : th' = [th EXCEPT ![t] = x] /\ Reports(x, l, o, status, row[o].parents_list)
  <2> DEFINE d == DispatchedRow(row[o])
             r == [d EXCEPT !.ref_cnt = 0, !.state = status, !.parents_list = {}]
             x == IF row[o].parents_list = {} THEN Return(l)
                  ELSE [l EXCEPT !.pc = "signal_parents", !.obj = o, !.st = status,
                                 !.folks = row[o].parents_list]
  <2>1. row' = [row EXCEPT ![o] = r] /\ th' = [th EXCEPT ![t] = x]
    BY <1>4
  <2>2. /\ d.type = row[o].type /\ d.remaining = row[o].remaining
        /\ d.children_list = row[o].children_list /\ d.callback_list = NoCbs
    BY <1>1 DEF Row, DispatchedRow
  <2>3. Reports(x, l, o, status, row[o].parents_list)
    BY DEF Reports, Local, LocalFields
  <2> HIDE DEF d, x
  <2>4. /\ r.type = d.type /\ r.state = status /\ r.parents_list = {}
        /\ r.remaining = d.remaining /\ r.children_list = d.children_list
        /\ r.callback_list = d.callback_list
    BY <1>1 DEF Row, d
  <2> HIDE DEF r
  <2> QED BY <1>2, <2>1, <2>2, <2>3, <2>4
<1> QED BY <1>2, <1>3, <1>4 DEF SignalRow

\* The group p after one more report with outcome s
Reported(r, q, s) ==
  /\ r.type = q.type /\ r.state = UpdateParentState(q.state, s)
  /\ r.remaining = Dec(q.remaining)
  /\ r.children_list = q.children_list /\ r.parents_list = q.parents_list
  /\ r.callback_list = IF r.state # INVALID /\ r.remaining = 0 THEN NoCbs ELSE q.callback_list

\* One turn of the loop over the parents
LEMMA SignalParentEffect ==
  ASSUME TypeOK, NEW t \in Threads, NEW p \in Objs, SignalParent(t, p)
  PROVE  /\ th[t].pc = "signal_parents" /\ p \in th[t].folks /\ Free(p) /\ th[t].st \in Settled
         /\ \E r : /\ row' = [row EXCEPT ![p] = r] /\ Reported(r, row[p], th[t].st)
                   /\ IF r.state # INVALID /\ r.remaining = 0
                        THEN workq' = [w \in CbWork |->
                                         workq[w] + IF w.obj = p /\ w.status = r.state
                                                      THEN row[p].callback_list[w.cb] ELSE 0]
                        ELSE workq' = workq
         /\ \E x : /\ th' = [th EXCEPT ![t] = x]
                   /\ IF th[t].folks \ {p} = {} THEN x = Return(th[t])
                      ELSE /\ x.pc = "signal_parents" /\ x.obj = th[t].obj /\ x.st = th[t].st
                           /\ x.folks = th[t].folks \ {p} /\ x.todo = th[t].todo
                           /\ x.done = th[t].done /\ x.ret = th[t].ret
<1> DEFINE r == [row[p] EXCEPT !.remaining = Dec(@), !.state = UpdateParentState(@, th[t].st)]
           left == th[t].folks \ {p}
           y == [th[t] EXCEPT !.folks = left]
           x == IF left = {} THEN Return(th[t]) ELSE y
<1>1. /\ row[p] \in Row /\ th[t] \in Local /\ th[t].st \in Settled
      /\ th[t].pc = "signal_parents" /\ p \in th[t].folks /\ Free(p)
  BY DEF SignalParent, TypeOK, Local
<1>2. row[p].state \in States /\ row[p].remaining \in 0 .. Wrap - 1
  BY <1>1 DEF Row
<1>3. Dec(row[p].remaining) \in 0 .. Wrap - 1
  BY <1>2, CountType
<1>4. UpdateParentState(row[p].state, th[t].st) \in States
  BY <1>1, <1>2 DEF UpdateParentState, States, Settled
<1>5. r \in Row
  BY <1>1, <1>3, <1>4 DEF Row
<1>6. /\ r.type = row[p].type /\ r.state = UpdateParentState(row[p].state, th[t].st)
      /\ r.remaining = Dec(row[p].remaining) /\ r.children_list = row[p].children_list
      /\ r.parents_list = row[p].parents_list /\ r.callback_list = row[p].callback_list
  BY <1>1 DEF Row
<1>7. \/ /\ r.state # INVALID /\ r.remaining = 0 /\ row' = [row EXCEPT ![p] = DispatchedRow(r)]
         /\ DispatchQueues(r, p, r.state)
      \/ /\ r.state = INVALID \/ r.remaining # 0
         /\ row' = [row EXCEPT ![p] = r] /\ workq' = workq
  BY DEF SignalParent
<1>8. th' = [th EXCEPT ![t] = x]
  BY DEF SignalParent
<1>9. /\ y.pc = "signal_parents" /\ y.obj = th[t].obj /\ y.st = th[t].st /\ y.folks = left
      /\ y.todo = th[t].todo /\ y.done = th[t].done /\ y.ret = th[t].ret
  BY <1>1 DEF Local, LocalFields
<1> HIDE DEF r, y
<1>10. /\ DispatchedRow(r).type = r.type /\ DispatchedRow(r).state = r.state
       /\ DispatchedRow(r).remaining = r.remaining
       /\ DispatchedRow(r).children_list = r.children_list
       /\ DispatchedRow(r).parents_list = r.parents_list
       /\ DispatchedRow(r).callback_list = NoCbs
  BY <1>5 DEF Row, DispatchedRow
<1>11. \E q : /\ row' = [row EXCEPT ![p] = q] /\ Reported(q, row[p], th[t].st)
              /\ IF q.state # INVALID /\ q.remaining = 0
                   THEN workq' = [w \in CbWork |->
                                    workq[w] + IF w.obj = p /\ w.status = q.state
                                                 THEN row[p].callback_list[w.cb] ELSE 0]
                   ELSE workq' = workq
  <2>1. CASE r.state # INVALID /\ r.remaining = 0
    <3>1. row' = [row EXCEPT ![p] = DispatchedRow(r)] /\ DispatchQueues(r, p, r.state)
      BY <1>7, <2>1
    <3>2. Reported(DispatchedRow(r), row[p], th[t].st)
      BY <1>6, <1>10, <2>1 DEF Reported
    <3>3. workq' = [w \in CbWork |-> workq[w] + IF w.obj = p /\ w.status = DispatchedRow(r).state
                                                  THEN row[p].callback_list[w.cb] ELSE 0]
      BY <1>6, <1>10, <3>1 DEF DispatchQueues
    <3> QED BY <1>10, <2>1, <3>1, <3>2, <3>3
  <2>2. CASE ~(r.state # INVALID /\ r.remaining = 0)
    <3>1. row' = [row EXCEPT ![p] = r] /\ workq' = workq
      BY <1>7, <2>2
    <3>2. Reported(r, row[p], th[t].st)
      BY <1>6, <2>2 DEF Reported
    <3> QED BY <2>2, <3>1, <3>2
  <2> QED BY <2>1, <2>2
<1>12. \E z : /\ th' = [th EXCEPT ![t] = z]
              /\ IF left = {} THEN z = Return(th[t])
                 ELSE /\ z.pc = "signal_parents" /\ z.obj = th[t].obj /\ z.st = th[t].st
                      /\ z.folks = left /\ z.todo = th[t].todo
                      /\ z.done = th[t].done /\ z.ret = th[t].ret
  BY <1>8, <1>9
<1> QED BY <1>1, <1>11, <1>12

-----------------------------------------------------------------------------
(* NoSweep and ElementsLive are inductive                                   *)

\* A kid stays one when only other fields of its row change.
LEMMA SameKid ==
  ASSUME NEW c, SameLinks(row'[c], row[c])  PROVE LiveKid(c)' <=> LiveKid(c)
BY DEF LiveKid, SameLinks

\* A thread that returns is idle when nobody sweeps.
LEMMA ReturnIdle ==
  ASSUME NEW l \in Local, l.ret = "idle"  PROVE Return(l).pc = "idle" /\ Return(l).ret = "idle"
BY DEF Return, Idle, Local, LocalFields

\* A step that leaves the threads alone
LEMMA MergeStill ==
  ASSUME MergeInv, TypeOK, th' = th, \A p \in Objs : SameLinks(row'[p], row[p])
  PROVE  MergeInv'
<1>1. \A u \in Threads : Elements(u)' = Elements(u) /\ Elements(u) \subseteq Objs
  <2>1. \A u \in Threads : th[u].todo \subseteq Objs /\ th[u].done \subseteq Objs
    BY DEF TypeOK, Local, LocalFields
  <2> QED BY <2>1 DEF Elements, Merging
<1>2. \A c \in Objs : LiveKid(c)' <=> LiveKid(c)
  BY SameKid
<1> QED BY <1>1, <1>2 DEF MergeInv, NoSweep, ElementsLive, Merging

\* The same for a step of thread t
LEMMA MergeNeutral ==
  ASSUME TypeOK, MergeInv, NEW t \in Threads, NEW x, th' = [th EXCEPT ![t] = x],
         x.pc \notin Sweeping \cup MergePcs, x.ret = "idle",
         \A p \in Objs : SameLinks(row'[p], row[p])
  PROVE  MergeInv'
<1>1. \A c \in Objs : LiveKid(c) => LiveKid(c)'
  BY SameKid
<1> QED BY <1>1, MergeFrame

LEMMA MergeQuiet ==
  ASSUME KeepsContract, TypeOK, MergeInv, NEW t \in Threads,
         \/ CreateReserve(t) \/ MergeReserve(t) \/ Open(t) \/ CloseBegin(t)
         \/ CloseFlushBegin(t) \/ CloseFlushEnd(t) \/ CloseUnlock(t) \/ CloseNull(t)
         \/ WaitWoken(t) \/ WaitTimeout(t)
         \/ \E o \in Objs : WaitBegin(t, o) \/ MergeCheckValid(t, o)
         \/ \E S \in SUBSET Objs : MergeBegin(t, S)
  PROVE  MergeInv'
<1>0. th[t] \in Local /\ th[t].pc \notin Sweeping /\ th[t].ret = "idle"
  BY DEF TypeOK, MergeInv, NoSweep
<1>1. row' = row
  BY DEF CreateReserve, MergeReserve, Open, CloseBegin,
         CloseFlushBegin, CloseFlushEnd, CloseUnlock, CloseNull, WaitWoken, WaitTimeout,
         WaitBegin, MergeCheckValid, MergeBegin
<1>2. \A p \in Objs : SameLinks(row'[p], row[p])
  BY <1>1 DEF SameLinks
<1>3. \A c \in Objs : LiveKid(c) => LiveKid(c)'
  BY <1>1 DEF LiveKid
<1>4. Idle.pc = "idle" /\ Idle.ret = "idle" /\ Idle.done = {}
  BY DEF Idle
<1>5. CASE Open(t)
  BY <1>2, <1>5, MergeStill DEF Open
<1>6. CASE CloseBegin(t) \/ CloseFlushBegin(t) \/ CloseFlushEnd(t) \/ CloseUnlock(t) \/ CloseNull(t)
  BY <1>0, <1>6 DEF CloseBegin, CloseFlushBegin, CloseFlushEnd, CloseUnlock, CloseNull,
                    MayCall, KeepsContract, Sweeping
<1>7. CASE WaitWoken(t) \/ WaitTimeout(t)
  BY <1>2, <1>4, <1>7, MergeNeutral DEF WaitWoken, WaitTimeout, Sweeping, MergePcs
<1>8. ASSUME NEW o \in Objs, WaitBegin(t, o)  PROVE MergeInv'
  <2> DEFINE x == [Idle EXCEPT !.pc = "wait", !.obj = o]
  <2>1. x.pc = "wait" /\ x.ret = "idle" /\ th' = [th EXCEPT ![t] = x]
    BY <1>8 DEF WaitBegin, Idle
  <2> HIDE DEF x
  <2> QED BY <1>2, <2>1, MergeNeutral DEF Sweeping, MergePcs
<1>9. CASE CreateReserve(t)
  <2>1. PICK o \in Objs : th' = [th EXCEPT ![t] = [Idle EXCEPT !.pc = "create_init", !.obj = o]]
    BY <1>9 DEF CreateReserve
  <2> DEFINE x == [Idle EXCEPT !.pc = "create_init", !.obj = o]
  <2>2. x.pc = "create_init" /\ x.ret = "idle" /\ th' = [th EXCEPT ![t] = x]
    BY <2>1 DEF Idle
  <2> HIDE DEF x
  <2> QED BY <1>2, <2>2, MergeNeutral DEF Sweeping, MergePcs
<1>10. CASE MergeReserve(t)
  <2>1. CASE th' = [th EXCEPT ![t] = Idle]
    BY <1>2, <1>4, <2>1, MergeNeutral DEF Sweeping, MergePcs
  <2>2. ASSUME NEW o \in Objs,
               th' = [th EXCEPT ![t] = [@ EXCEPT !.pc = "merge_lock", !.obj = o]]
        PROVE  MergeInv'
    <3> DEFINE x == [th[t] EXCEPT !.pc = "merge_lock", !.obj = o]
    <3>1. /\ x.pc = "merge_lock" /\ x.ret = "idle" /\ th' = [th EXCEPT ![t] = x]
          /\ x.todo = th[t].todo /\ x.done = th[t].done
      BY <1>0, <2>2 DEF Local, LocalFields
    <3> HIDE DEF x
    <3>2. th[t].pc = "merge_check" /\ th[t].todo = {}
      BY <1>10 DEF MergeReserve
    <3> QED BY <1>3, <3>1, <3>2, MergeFrame DEF Sweeping, MergePcs
  <2> QED BY <1>10, <2>1, <2>2 DEF MergeReserve
<1>11. ASSUME NEW o \in Objs, MergeCheckValid(t, o)  PROVE MergeInv'
  <2>1. CASE th' = [th EXCEPT ![t] = Idle]
    BY <1>2, <1>4, <2>1, MergeNeutral DEF Sweeping, MergePcs
  <2>2. CASE th' = [th EXCEPT ![t] = Visited(th[t], o)]
    <3> DEFINE x == Visited(th[t], o)
    <3>1. th[t].pc = "merge_check" /\ o \in th[t].todo /\ th[t].todo \cap th[t].done = {}
      BY <1>11 DEF MergeCheckValid, MergeInv, ElementsLive, Merging
    <3>2. /\ x.pc = "merge_check" /\ x.ret = "idle"
          /\ x.todo = th[t].todo \ {o} /\ x.done = th[t].done \cup {o}
      BY <1>0, <3>1 DEF Visited, Local, LocalFields
    <3> HIDE DEF x
    <3>3. x.todo \cup x.done = th[t].todo \cup th[t].done /\ x.todo \cap x.done = {}
      BY <3>1, <3>2
    <3>4. th' = [th EXCEPT ![t] = x]
      BY <2>2 DEF x
    <3> QED BY <1>3, <3>1, <3>2, <3>3, <3>4, MergeFrame DEF Sweeping, MergePcs
  <2> QED BY <1>11, <2>1, <2>2 DEF MergeCheckValid
<1>12. ASSUME NEW S \in SUBSET Objs, MergeBegin(t, S)  PROVE MergeInv'
  <2> DEFINE x == [Idle EXCEPT !.pc = "merge_check", !.todo = S]
  <2>1. /\ x.pc = "merge_check" /\ x.ret = "idle" /\ x.todo = S /\ x.done = {}
        /\ th' = [th EXCEPT ![t] = x]
    BY <1>12 DEF MergeBegin, Idle
  <2> HIDE DEF x
  <2>2. th'[t] = x /\ \A u \in Threads : u # t => th'[u] = th[u]
    BY <2>1 DEF TypeOK
  <2>3. (\A c \in S : LiveKid(c)) /\ S # {}
    <3>1. \A c \in S : LiveKid(c)
      BY <1>12 DEF MergeBegin, MayMerge, KeepsContract, LiveKid
    <3>2. Cardinality({}) = 0 /\ Cardinality(S) > 1
      BY <1>12, FS_EmptySet DEF MergeBegin
    <3> QED BY <3>1, <3>2
  <2>4. NoSweep'
    BY <2>1, <2>2 DEF MergeInv, NoSweep, Sweeping
  <2>5. ASSUME NEW u \in Threads
        PROVE  /\ \A c \in Elements(u)' : LiveKid(c)'
               /\ Merging(u)' => /\ th'[u].todo \cap th'[u].done = {}
                                 /\ th'[u].todo \cup th'[u].done # {}
               /\ th'[u].pc = "merge_lock" => th'[u].todo = {}
    <3>1. CASE u = t
      BY <1>1, <2>1, <2>2, <2>3, <3>1 DEF Elements, Merging, LiveKid
    <3>2. CASE u # t
      BY <1>1, <2>2, <3>2 DEF Elements, Merging, LiveKid, MergeInv, ElementsLive
    <3> QED BY <3>1, <3>2
  <2>6. ElementsLive'
    BY <2>5 DEF ElementsLive
  <2> QED BY <2>4, <2>6 DEF MergeInv
<1> QED BY <1>5, <1>6, <1>7, <1>8, <1>9, <1>10, <1>11, <1>12

\* Callbacks, references, payloads, and signaling
LEMMA MergeSignal ==
  ASSUME KeepsContract, TypeOK, MergeInv, NEW t \in Threads,
         \/ \E o \in Objs :
              \/ \E cb \in Cbs : RegisterCallback(t, o, cb) \/ DeregisterCallback(t, o, cb)
              \/ GetObjRef(t, o) \/ PutObjRef(t, o) \/ UmdSignalRejected(t, o)
              \/ \E pl \in Payloads : RegisterPayload(t, o, pl) \/ DeregisterPayload(t, o, pl)
              \/ \E s \in Settled : UmdSignalGetRef(t, o, s) \/ Signal(t, o, s)
              \/ SignalParent(t, o) \/ CloseSignal(t, o)
         \/ UmdSignal(t)
  PROVE  MergeInv'
<1>0. th[t] \in Local /\ th[t].pc \notin Sweeping /\ th[t].ret = "idle"
  BY DEF TypeOK, MergeInv, NoSweep
<1>1. ASSUME NEW o \in Objs,
             \/ \E cb \in Cbs : RegisterCallback(t, o, cb) \/ DeregisterCallback(t, o, cb)
             \/ GetObjRef(t, o) \/ PutObjRef(t, o) \/ UmdSignalRejected(t, o)
             \/ \E pl \in Payloads : RegisterPayload(t, o, pl) \/ DeregisterPayload(t, o, pl)
             \/ \E s \in Settled : UmdSignalGetRef(t, o, s)
      PROVE  MergeInv'
  <2>1. \A p \in Objs : SameLinks(row'[p], row[p])
    BY <1>1, RowKin DEF SameKin, SameLinks
  <2>2. CASE th' = th
    BY <2>1, <2>2, MergeStill
  <2>3. ASSUME NEW s \in Settled, UmdSignalGetRef(t, o, s)  PROVE MergeInv'
    <3> DEFINE x == [Idle EXCEPT !.pc = "umd_signal", !.obj = o, !.st = s]
    <3>1. th' = [th EXCEPT ![t] = x] /\ x.pc = "umd_signal" /\ x.ret = "idle"
      BY <2>3 DEF UmdSignalGetRef, Idle
    <3> HIDE DEF x
    <3> QED BY <2>1, <3>1, MergeNeutral DEF Sweeping, MergePcs
  <2> QED BY <1>1, <2>2, <2>3 DEF RegisterCallback, DeregisterCallback, GetObjRef, PutObjRef,
             UmdSignalRejected, RegisterPayload, DeregisterPayload
<1>2. ASSUME NEW o \in Objs, NEW s \in Settled, SignalRow(t, o, s, Idle)  PROVE MergeInv'
  <2>1. Idle \in Local /\ Idle.ret = "idle"
    BY LocalType DEF Idle
  <2>2. s # INVALID
    BY DEF Settled, INVALID, SUCCESS, ERROR
  <2>3. row[o].state # INVALID /\ row[o].type = "INDV"
    BY <1>2, <2>1, SignalRowEffect DEF ACTIVE, INVALID
  <2>4. ASSUME NEW r, row' = [row EXCEPT ![o] = r], r.type = "INDV", r.state = s,
               r.parents_list = {}, r.children_list = row[o].children_list
        PROVE  \A p \in Objs : SameLinks(row'[p], row[p])
    BY <2>2, <2>3, <2>4 DEF SameLinks, TypeOK
  <2>5. \A p \in Objs : SameLinks(row'[p], row[p])
    <3>1. CASE \A p \in Objs : SameKin(row'[p], row[p])
      BY <3>1 DEF SameKin, SameLinks
    <3> QED BY <1>2, <2>1, <2>4, <3>1, SignalRowEffect
  <2>6. PICK x : th' = [th EXCEPT ![t] = x] /\ x.pc \notin Sweeping \cup MergePcs /\ x.ret = "idle"
    <3>1. Return(Idle).pc \notin Sweeping \cup MergePcs /\ Return(Idle).ret = "idle"
      BY <2>1, ReturnIdle DEF Sweeping, MergePcs
    <3>2. ASSUME NEW x, Reports(x, Idle, o, s, row[o].parents_list)
          PROVE  x.pc \notin Sweeping \cup MergePcs /\ x.ret = "idle"
      BY <2>1, <3>1, <3>2 DEF Reports, Sweeping, MergePcs
    <3> QED BY <1>2, <2>1, <3>1, <3>2, SignalRowEffect
  <2> QED BY <2>5, <2>6, MergeNeutral
<1>3. ASSUME NEW o \in Objs, NEW s \in Settled, Signal(t, o, s)  PROVE MergeInv'
  BY <1>2, <1>3 DEF Signal
<1>4. CASE UmdSignal(t)
  <2>1. th[t].obj \in Objs /\ th[t].st \in Settled
    BY <1>4 DEF UmdSignal, TypeOK, Local, Named
  <2>2. CASE SignalRow(t, th[t].obj, th[t].st, Idle)
    BY <1>2, <2>1, <2>2
  <2>3. CASE th' = [th EXCEPT ![t] = Idle] /\ row' = row
    <3>1. Idle.pc = "idle" /\ Idle.ret = "idle"
      BY DEF Idle
    <3> QED BY <2>3, <3>1, MergeNeutral DEF Sweeping, MergePcs, SameLinks
  <2> QED BY <1>4, <2>2, <2>3 DEF UmdSignal
<1>5. ASSUME NEW o \in Objs, SignalParent(t, o)  PROVE MergeInv'
  <2>1. PICK r : row' = [row EXCEPT ![o] = r] /\ Reported(r, row[o], th[t].st)
    BY <1>5, SignalParentEffect
  <2>2. th[t].st \in Settled
    BY <1>5, SignalParentEffect
  <2>3. UpdateParentState(row[o].state, th[t].st) = INVALID <=> row[o].state = INVALID
    BY <2>2 DEF UpdateParentState, Settled, INVALID, ACTIVE, SUCCESS, ERROR
  <2>4. \A p \in Objs : SameLinks(row'[p], row[p])
    BY <2>1, <2>3 DEF SameLinks, Reported, TypeOK
  <2>5. PICK x : th' = [th EXCEPT ![t] = x] /\ x.pc \notin Sweeping \cup MergePcs /\ x.ret = "idle"
    <3>1. Return(th[t]).pc \notin Sweeping \cup MergePcs /\ Return(th[t]).ret = "idle"
      BY <1>0, ReturnIdle DEF Sweeping, MergePcs
    <3> QED BY <1>0, <1>5, <3>1, SignalParentEffect DEF Sweeping, MergePcs
  <2> QED BY <2>4, <2>5, MergeNeutral
<1>6. ASSUME NEW o \in Objs, CloseSignal(t, o)  PROVE FALSE
  BY <1>0, <1>6 DEF CloseSignal, Sweeping
<1> QED BY <1>1, <1>3, <1>4, <1>5, <1>6

\* Rows that are made, built, and taken away
LEMMA MergeBuild ==
  ASSUME KeepsContract, TypeOK, OwnerInv, LinkInv, MergeInv, NEW t \in Threads,
         \/ CreateInit(t) \/ MergeLock(t) \/ MergeFinish(t) \/ MergeAbort(t) \/ DestroyFinish(t)
         \/ \E c \in Objs : \/ MergeChild(t, c) \/ MergeClean(t, c) \/ Destroy(t, c)
                            \/ DestroyChild(t, c) \/ DestroyParent(t, c) \/ CloseDestroy(t, c)
  PROVE  MergeInv'
<1>0. th[t] \in Local /\ th[t].pc \notin Sweeping /\ th[t].ret = "idle"
  BY DEF TypeOK, MergeInv, NoSweep
<1>1. Idle.pc = "idle" /\ Idle.ret = "idle"
  BY DEF Idle
<1>2. ASSUME NEW o \in Objs, Dead(o), NEW r, row' = [row EXCEPT ![o] = r]
      PROVE  \A c \in Objs : LiveKid(c) => LiveKid(c)'
  BY <1>2 DEF LiveKid, Dead, TypeOK
<1>3. ASSUME NEW o \in Objs, o = th[t].obj, th[t].pc \in {"create_init", "merge_lock", "destroy"}
      PROVE  Dead(o)
  BY <1>3 DEF OwnerInv, OwnersExclude, Owns, Reserving, Destroying, Dead
<1>4. CASE CreateInit(t)
  <2>1. PICK o \in Objs : o = th[t].obj
    BY <1>4 DEF CreateInit, TypeOK, Local, Named
  <2>2. row' = [row EXCEPT ![o] = cam_sync_init_row("INDV")] /\ th' = [th EXCEPT ![t] = Idle]
    BY <1>4, <2>1 DEF CreateInit
  <2>3. Dead(o)
    BY <1>3, <1>4, <2>1 DEF CreateInit
  <2>4. \A c \in Objs : LiveKid(c) => LiveKid(c)'
    BY <1>2, <2>2, <2>3
  <2> QED BY <1>1, <2>2, <2>4, MergeFrame DEF Sweeping, MergePcs
<1>5. CASE MergeLock(t)
  <2>1. PICK o \in Objs : o = th[t].obj
    BY <1>5 DEF MergeLock, TypeOK, Local, Named
  <2> DEFINE x == [th[t] EXCEPT !.pc = "merge_child", !.todo = th[t].done, !.done = {}]
  <2>2. row' = [row EXCEPT ![o] = cam_sync_init_row("GROUP")] /\ th' = [th EXCEPT ![t] = x]
    BY <1>5, <2>1 DEF MergeLock
  <2>3. Dead(o) /\ th[t].pc = "merge_lock" /\ th[t].todo = {}
    BY <1>3, <1>5, <2>1 DEF MergeLock, MergeInv, ElementsLive
  <2>4. x.pc = "merge_child" /\ x.ret = "idle" /\ x.todo = th[t].done /\ x.done = {}
    BY <1>0 DEF Local, LocalFields
  <2> HIDE DEF x
  <2>5. \A c \in Objs : LiveKid(c) => LiveKid(c)'
    BY <1>2, <2>2, <2>3
  <2> QED BY <2>2, <2>3, <2>4, <2>5, MergeFrame DEF Sweeping, MergePcs
<1>6. CASE MergeFinish(t)
  <2>1. PICK o \in Objs : o = th[t].obj
    BY <1>6 DEF MergeFinish, TypeOK, Local, Named
  <2>2. row' = [row EXCEPT ![o] = Finished(row[o])] /\ th' = [th EXCEPT ![t] = Idle]
    BY <1>6, <2>1 DEF MergeFinish
  <2>3. row[o].type = "GROUP"
    BY <1>6, <2>1 DEF MergeFinish, LinkInv, GroupBuilt
  <2>4. \A c \in Objs : LiveKid(c) => LiveKid(c)'
    BY <2>2, <2>3 DEF LiveKid, TypeOK
  <2> QED BY <1>1, <2>2, <2>4, MergeFrame DEF Sweeping, MergePcs
<1>7. CASE DestroyFinish(t)
  <2>1. PICK o \in Objs : o = th[t].obj
    BY <1>7 DEF DestroyFinish, TypeOK, Local, Named
  <2>2. row' = [row EXCEPT ![o] = ZeroRow] /\ th' = [th EXCEPT ![t] = Return(th[t])]
    BY <1>7, <2>1 DEF DestroyFinish
  <2>3. Dead(o)
    BY <1>3, <1>7, <2>1 DEF DestroyFinish
  <2>4. \A c \in Objs : LiveKid(c) => LiveKid(c)'
    BY <1>2, <2>2, <2>3
  <2>5. Return(th[t]).pc = "idle" /\ Return(th[t]).ret = "idle"
    BY <1>0, ReturnIdle
  <2> QED BY <2>2, <2>4, <2>5, MergeFrame DEF Sweeping, MergePcs
<1>8. ASSUME NEW c \in Objs, MergeChild(t, c)  PROVE MergeInv'
  <2>1. PICK o \in Objs : o = th[t].obj
    BY <1>8 DEF MergeChild, TypeOK, Local, Named
  <2>2. /\ th[t].pc = "merge_child" /\ c \in th[t].todo /\ row[o].type = "GROUP"
        /\ th[t].todo \cap th[t].done = {}
    BY <1>8, <2>1 DEF MergeChild, LinkInv, GroupBuilt, MergeInv, ElementsLive, Merging
  <2>3. LiveKid(c) /\ c # o
    <3>1. c \in Elements(t)
      BY <2>2 DEF Elements, Merging
    <3>2. LiveKid(c)
      BY <3>1 DEF MergeInv, ElementsLive
    <3> QED BY <2>2, <3>2 DEF LiveKid
  <2>4. ~MergeFail(t, c)
    BY <2>3 DEF MergeFail, LiveKid, KeepsContract
  <2> DEFINE x == Visited(th[t], c)
  <2>5. /\ x.pc = "merge_child" /\ x.ret = "idle"
        /\ x.todo = th[t].todo \ {c} /\ x.done = th[t].done \cup {c}
    BY <1>0, <2>2 DEF Visited, Local, LocalFields
  <2>6. th' = [th EXCEPT ![t] = x]
    BY <1>8, <2>4 DEF MergeChild, MergeLink, MergeSkip
  <2> HIDE DEF x
  <2>7. \A d \in Objs : LiveKid(d) => LiveKid(d)'
    <3>1. CASE MergeLink(t, c)
      <4>1. row' = [row EXCEPT ![o] = AddChild(@, c), ![c] = AddParent(@, o)]
        BY <2>1, <3>1 DEF MergeLink
      <4>2. AddParent(row[c], o).type = row[c].type /\ AddParent(row[c], o).state = row[c].state
        BY ListFields DEF TypeOK
      <4> QED BY <2>2, <2>3, <4>1, <4>2 DEF LiveKid, TypeOK
    <3>2. CASE MergeSkip(t, c)
      BY <2>1, <2>2, <3>2 DEF MergeSkip, LiveKid, TypeOK
    <3> QED BY <1>8, <2>4, <3>1, <3>2 DEF MergeChild
  <2>8. x.todo \cup x.done = th[t].todo \cup th[t].done /\ x.todo \cap x.done = {}
    BY <2>2, <2>5
  <2> QED BY <2>2, <2>5, <2>6, <2>7, <2>8, MergeFrame DEF Sweeping, MergePcs
<1>9. ASSUME NEW c \in Objs, Destroy(t, c)  PROVE MergeInv'
  <2> DEFINE x == [Idle EXCEPT !.pc = "destroy", !.obj = c, !.todo = row[c].children_list,
                               !.folks = row[c].parents_list]
  <2>1. th' = [th EXCEPT ![t] = x] /\ row' = [row EXCEPT ![c] = Emptied(row[c])]
    BY <1>9 DEF Destroy, DeinitRow
  <2>2. x.pc = "destroy" /\ x.ret = "idle"
    BY DEF Idle
  <2> HIDE DEF x
  <2>3. \A u \in Threads : c \notin Elements(u)
    BY <1>9 DEF Destroy, MayDestroy, KeepsContract, Elements
  <2>4. \A d \in Objs : LiveKid(d) /\ (\E u \in Threads : d \in Elements(u)) => LiveKid(d)'
    BY <2>1, <2>3 DEF LiveKid, TypeOK
  <2> QED BY <2>1, <2>2, <2>4, MergeFrame DEF Sweeping, MergePcs
<1>10. ASSUME NEW c \in Objs, DestroyChild(t, c) \/ DestroyParent(t, c)  PROVE MergeInv'
  <2>1. th[t].pc = "destroy" /\ row[c] \in Row
    BY <1>10 DEF DestroyChild, DestroyParent, TypeOK
  <2>2. PICK x : th' = [th EXCEPT ![t] = x] /\ x.pc = "destroy" /\ x.ret = "idle"
    <3>1. /\ [th[t] EXCEPT !.todo = @ \ {c}].pc = "destroy"
          /\ [th[t] EXCEPT !.todo = @ \ {c}].ret = "idle"
          /\ [th[t] EXCEPT !.folks = @ \ {c}].pc = "destroy"
          /\ [th[t] EXCEPT !.folks = @ \ {c}].ret = "idle"
      BY <1>0, <2>1 DEF Local, LocalFields
    <3> QED BY <1>10, <3>1 DEF DestroyChild, DestroyParent
  <2>3. /\ DropParent(row[c], th[t].obj).type = row[c].type
        /\ DropParent(row[c], th[t].obj).state = INVALID <=> row[c].state = INVALID
        /\ DropChild(row[c], th[t].obj).type = row[c].type
        /\ DropChild(row[c], th[t].obj).state = row[c].state
    BY <2>1, ListFields DEF SameLinks
  <2>4. \A d \in Objs : LiveKid(d) => LiveKid(d)'
    BY <1>10, <2>3 DEF DestroyChild, DestroyParent, LiveKid, TypeOK
  <2> QED BY <2>2, <2>4, MergeFrame DEF Sweeping, MergePcs
<1>11. ~MergeAbort(t) /\ \A c \in Objs : ~MergeClean(t, c) /\ ~CloseDestroy(t, c)
  BY <1>0 DEF MergeAbort, MergeClean, CloseDestroy, Sweeping
<1> QED BY <1>4, <1>5, <1>6, <1>7, <1>8, <1>9, <1>10, <1>11

LEMMA InitMerge == Init => MergeInv
BY DEF Init, MergeInv, NoSweep, ElementsLive, Elements, Merging, Idle, Sweeping

\* Every step keeps the fences of the merges in flight.
LEMMA StepMerge ==
  ASSUME KeepsContract, TypeOK, OwnerInv, LinkInv, MergeInv, [Next]_vars  PROVE MergeInv'
<1>1. CASE (\E w \in CbWork : CbDispatch(w)) \/ DequeueEvent \/ UNCHANGED vars
  <2>1. th' = th /\ row' = row
    BY <1>1 DEF CbDispatch, DequeueEvent, vars
  <2> QED BY <2>1, MergeStill DEF SameLinks
<1>2. ASSUME NEW t \in Threads, Step(t)  PROVE MergeInv'
  BY <1>2, MergeQuiet, MergeSignal, MergeBuild DEF Step
<1>3. ASSUME NEW t \in Threads, Call(t)  PROVE MergeInv'
  BY <1>3, MergeQuiet, MergeSignal, MergeBuild DEF Call
<1> QED BY <1>1, <1>2, <1>3 DEF Next

\* Clients that keep the contract cannot make cam_sync_merge wait, with a row lock held, for
\* the lock of another merge or for its own: the nested row locks cannot deadlock, for any
\* number of ids and of threads.
THEOREM MergesDoNotDeadlock == ASSUME KeepsContract PROVE Spec => []MergeNeverBlocks
<1>1. Init => TypeOK /\ OwnerInv /\ LinkInv /\ MergeInv
  BY InitTypeOK, InitOwner, InitLinks, InitMerge
<1>2. TypeOK /\ OwnerInv /\ LinkInv /\ MergeInv /\ [Next]_vars
        => (TypeOK /\ OwnerInv /\ LinkInv /\ MergeInv)'
  BY StepTypeOK, StepOwner, StepLinks, StepMerge
<1>3. TypeOK /\ OwnerInv /\ LinkInv /\ MergeInv => MergeNeverBlocks
  <2> SUFFICES ASSUME TypeOK, OwnerInv, LinkInv, MergeInv, NEW t \in Threads, Building(t),
                      NEW c \in th[t].todo \cup th[t].done
               PROVE  Free(c)
    BY DEF MergeNeverBlocks
  <2>1. th[t].pc = "merge_child"
    BY DEF Building, MergeInv, NoSweep, Sweeping
  <2>2. c \in Elements(t) /\ c \in Objs
    BY <2>1 DEF Elements, Merging, TypeOK, Local, LocalFields
  <2> QED BY <2>2, ElementFree
<1> QED BY <1>1, <1>2, <1>3, PTL DEF Spec

-----------------------------------------------------------------------------
(* "remaining" is exact: one lemma per kind of step                        *)

\* What "remaining" of group g counts: the children that are linked to it, and the threads
\* that have yet to report a child to it
Links(g)     == {c \in Objs : g \in row[c].parents_list}
Signalers(g) == {t \in Threads : th[t].pc = "signal_parents" /\ g \in th[t].folks}

\* Both sets are finite, and an id and a thread more still fit the counter.
LEMMA Countable ==
  ASSUME RoomToCount, NEW g
  PROVE  /\ IsFiniteSet(Links(g)) /\ Cardinality(Links(g)) \in Nat
         /\ IsFiniteSet(Signalers(g)) /\ Cardinality(Signalers(g)) \in Nat
         /\ Cardinality(Signalers(g)) <= Cardinality(Threads)
         /\ \A c \in Objs \ Links(g) : Cardinality(Links(g)) < Cardinality(Objs)
<1>1. IsFiniteSet(Links(g)) /\ Cardinality(Links(g)) <= Cardinality(Objs)
  BY FS_Subset DEF RoomToCount, Links
<1>2. IsFiniteSet(Signalers(g)) /\ Cardinality(Signalers(g)) <= Cardinality(Threads)
  BY FS_Subset DEF RoomToCount, Signalers
<1>3. Cardinality(Links(g)) \in Nat /\ Cardinality(Signalers(g)) \in Nat
  BY <1>1, <1>2, FS_CardinalityType
<1>4. ASSUME NEW c \in Objs \ Links(g)  PROVE Cardinality(Links(g)) < Cardinality(Objs)
  <2>1. Links(g) \subseteq Objs /\ Links(g) # Objs
    BY <1>4 DEF Links
  <2>2. Cardinality(Links(g)) # Cardinality(Objs)
    BY <2>1, FS_Subset DEF RoomToCount
  <2>3. Cardinality(Objs) \in Nat
    BY FS_CardinalityType DEF RoomToCount
  <2> QED BY <1>1, <1>3, <2>2, <2>3
<1> QED BY <1>1, <1>2, <1>3, <1>4

\* The fields of a row that the invariants are about; children_list is not one of them.
SameFate(r, s) == /\ r.type = s.type /\ r.state = s.state /\ r.remaining = s.remaining
                  /\ r.parents_list = s.parents_list

\* A step that changes none of them and neither reports nor builds
LEMMA KinFrame ==
  ASSUME KinInv, \A p \in Objs : /\ SameFate(row'[p], row[p])
                                 /\ Dead(p) => row'[p].callback_list = row[p].callback_list,
         TypeOK, ElementsLive,
         \A u \in Threads : \/ th'[u] = th[u]
                            \/ /\ th[u].pc \notin {"signal_parents", "merge_child"}
                               /\ th'[u].pc \notin {"signal_parents", "merge_child"}
  PROVE  KinInv'
<1>1. \A u \in Threads, c, g \in Objs : Reporting(u, c, g)' <=> Reporting(u, c, g)
  BY DEF Reporting
<1>2. \A c, g \in Objs : Late(c, g)' <=> Late(c, g)
  BY <1>1 DEF Late
<1>3. RemainingExact'
  <2> SUFFICES ASSUME NEW g \in Objs, ~Dead(g)'
               PROVE  row'[g].remaining = Cardinality(Links(g)') + Cardinality(Signalers(g)')
    BY DEF RemainingExact, Dead, Links, Signalers
  <2>1. Links(g)' = Links(g) /\ Signalers(g)' = Signalers(g)
    BY DEF Links, Signalers, SameFate
  <2>2. ~Dead(g)
    BY DEF Dead, SameFate
  <2>3. row[g].remaining = Cardinality(Links(g)) + Cardinality(Signalers(g))
    BY <2>2 DEF KinInv, RemainingExact, Dead, Links, Signalers
  <2> QED BY <2>1, <2>3 DEF SameFate
<1>4. ReportsLive'
  BY <1>1 DEF KinInv, ReportsLive, SameFate
<1>5. OnlyActiveLinked'
  <2>1. \A o \in Objs : row[o].parents_list \subseteq Objs
    BY DEF TypeOK, Row
  <2> QED BY <2>1 DEF KinInv, OnlyActiveLinked, SameFate, Dead
<1>6. BuildInv'
  <2> SUFFICES ASSUME NEW u \in Threads, th'[u].pc = "merge_child"  PROVE BuildExact(u)'
    BY DEF BuildInv
  <2>1. th'[u] = th[u] /\ BuildExact(u)
    BY DEF KinInv, BuildInv
  <2>2. PICK g \in Objs : g = th[u].obj
    BY <2>1 DEF TypeOK, Local, Named
  <2>3. th[u].done \subseteq Objs
    BY DEF TypeOK, Local, LocalFields
  <2>4. \A c \in th[u].done : row'[c].state = ACTIVE <=> g \in row'[c].parents_list
    BY <2>1, <2>2, <2>3 DEF BuildExact, SameFate
  <2>5. \A v \in Threads, c \in Objs :
          Reporting(v, c, g)' => c \in th[u].done /\ row'[c].state = th'[v].st
    <3> SUFFICES ASSUME NEW v \in Threads, NEW c \in Objs, Reporting(v, c, g)'
                 PROVE  c \in th[u].done /\ row'[c].state = th'[v].st
      OBVIOUS
    <3>1. Reporting(v, c, g) /\ th'[v] = th[v]
      BY <1>1 DEF Reporting
    <3> QED BY <2>1, <2>2, <3>1 DEF BuildExact, SameFate
  <2>6. row'[g].state = IF \E c \in th[u].done : row'[c].state = ERROR /\ ~Late(c, g)'
                          THEN ERROR ELSE ACTIVE
    BY <1>2, <2>1, <2>2, <2>3 DEF BuildExact, SameFate
  <2> QED BY <2>1, <2>2, <2>4, <2>5, <2>6 DEF BuildExact
<1> QED BY <1>3, <1>4, <1>5, <1>6 DEF KinInv

\* A fence o settles as s while thread t signals it: its parents are still to be told.
LEMMA KinSettle ==
  ASSUME RoomToCount, TypeOK, OwnerInv, LinkInv, MergeInv, KinInv, NEW t \in Threads, NEW o \in Objs,
         NEW s \in Settled, row[o].state = ACTIVE, row[o].type = "INDV",
         th[t].pc \notin {"signal_parents", "merge_child"},
         NEW r, row' = [row EXCEPT ![o] = r], r.type = "INDV", r.state = s, r.parents_list = {},
         r.remaining = row[o].remaining,
         NEW x, th' = [th EXCEPT ![t] = x], Reports(x, Idle, o, s, row[o].parents_list)
  PROVE  KinInv'
<1> DEFINE P == row[o].parents_list
<1>0. /\ th'[t] = x /\ \A u \in Threads : u # t => th'[u] = th[u]
      /\ row'[o] = r /\ \A p \in Objs : p # o => row'[p] = row[p]
  BY DEF TypeOK
<1>1. x.pc # "merge_child" /\ (x.pc = "signal_parents" => x.obj = o /\ x.st = s /\ x.folks = P)
      /\ (P # {} => x.pc = "signal_parents")
  BY DEF Reports, Return, Idle
<1>2. \A u \in Threads, c, g \in Objs :
        Reporting(u, c, g)' <=> Reporting(u, c, g) \/ (u = t /\ c = o /\ g \in P)
  <2> SUFFICES ASSUME NEW u \in Threads, NEW c \in Objs, NEW g \in Objs
               PROVE  Reporting(u, c, g)' <=> Reporting(u, c, g) \/ (u = t /\ c = o /\ g \in P)
    OBVIOUS
  <2>1. CASE u # t
    BY <1>0, <2>1 DEF Reporting
  <2>2. CASE u = t
    BY <1>0, <1>1, <2>2 DEF Reporting
  <2> QED BY <2>1, <2>2
<1>3. P \subseteq Objs
  BY DEF TypeOK, Row
<1>4. s # INVALID /\ s # ACTIVE /\ ACTIVE # INVALID /\ ACTIVE # ERROR
  BY DEF Settled, SUCCESS, ERROR, ACTIVE, INVALID
<1>5. \A g \in P : row[g].type = "GROUP" /\ ~Dead(g) /\ g # o /\ o \in row[g].children_list
  <2> SUFFICES ASSUME NEW g \in P
               PROVE  row[g].type = "GROUP" /\ ~Dead(g) /\ g # o /\ o \in row[g].children_list
    OBVIOUS
  <2>1. row[g].type = "GROUP" /\ ~Dead(g) /\ g \in Objs
    BY <1>3 DEF LinkInv, ParentLinksLive, KinInv, OnlyActiveLinked, Dead
  <2>2. \A u \in Threads : ~Unlinking(u, o, g)
    BY <2>1, DeadLinks
  <2> QED BY <2>1, <2>2, LinksDef DEF LinkInv
<1>6. \A g \in Objs : Dead(g)' <=> Dead(g)
  BY <1>0, <1>4 DEF Dead
<1>7. RemainingExact'
  <2> SUFFICES ASSUME NEW g \in Objs, ~Dead(g)'
               PROVE  row'[g].remaining = Cardinality(Links(g)') + Cardinality(Signalers(g)')
    BY DEF RemainingExact, Dead, Links, Signalers
  <2>1. row[g].remaining = Cardinality(Links(g)) + Cardinality(Signalers(g))
    BY <1>6 DEF KinInv, RemainingExact, Dead, Links, Signalers
  <2>2. row'[g].remaining = row[g].remaining
    BY <1>0
  <2>3. Links(g)' = Links(g) \ {o}
    BY <1>0 DEF Links
  <2>4. CASE g \in P
    <3>1. Signalers(g)' = Signalers(g) \cup {t} /\ t \notin Signalers(g)
      BY <1>0, <1>1, <2>4 DEF Signalers
    <3>2. o \in Links(g)
      BY <2>4 DEF Links
    <3>3. Cardinality(Links(g) \ {o}) = Cardinality(Links(g)) - 1
      BY <3>2, Countable, FS_RemoveElement
    <3>4. Cardinality(Signalers(g) \cup {t}) = Cardinality(Signalers(g)) + 1
      BY <3>1, Countable, FS_AddElement
    <3> QED BY <2>1, <2>2, <2>3, <3>1, <3>3, <3>4, Countable
  <2>5. CASE g \notin P
    <3>1. Signalers(g)' = Signalers(g)
      BY <1>0, <1>1, <2>5 DEF Signalers
    <3>2. Links(g)' = Links(g)
      BY <2>3, <2>5 DEF Links
    <3> QED BY <2>1, <2>2, <3>1, <3>2
  <2> QED BY <2>4, <2>5
<1>8. ReportsLive'
  <2>1. ASSUME NEW u \in Threads, NEW c \in Objs, NEW g \in Objs, Reporting(u, c, g)'
        PROVE  row'[g].type = "GROUP" /\ row'[g].state # INVALID /\ g \notin row'[c].parents_list
    <3>1. row[g].type = "GROUP" /\ row[g].state # INVALID /\ (g \in row[c].parents_list => c = o)
      BY <1>2, <1>5, <2>1 DEF KinInv, ReportsLive, Dead
    <3> QED BY <1>0, <3>1
  <2>2. ASSUME NEW u \in Threads, NEW v \in Threads, NEW c \in Objs, NEW g \in Objs,
               Reporting(u, c, g)', Reporting(v, c, g)'
        PROVE  u = v
    BY <1>2, <2>2 DEF KinInv, ReportsLive
  <2> QED BY <2>1, <2>2 DEF ReportsLive
<1>9. OnlyActiveLinked'
  <2>1. \A p \in Objs : row[p].parents_list \subseteq Objs
    BY DEF TypeOK, Row
  <2> QED BY <1>0, <1>4, <1>6, <2>1 DEF KinInv, OnlyActiveLinked, Dead
<1>10. BuildInv'
  <2> SUFFICES ASSUME NEW u \in Threads, th'[u].pc = "merge_child"  PROVE BuildExact(u)'
    BY DEF BuildInv
  <2>1. u # t /\ th'[u] = th[u] /\ BuildExact(u)
    BY <1>0, <1>1 DEF KinInv, BuildInv
  <2>2. PICK g \in Objs : g = th[u].obj
    BY <2>1 DEF TypeOK, Local, Named
  <2>3. /\ th[u].done \subseteq Objs /\ row[g].type = "GROUP" /\ row[g].children_list \subseteq th[u].done
        /\ row'[g] = row[g]
    BY <1>0, <2>1, <2>2 DEF TypeOK, Local, LocalFields, LinkInv, GroupBuilt
  <2>4. \A c \in th[u].done : row'[c].state = ACTIVE <=> g \in row'[c].parents_list
    BY <1>0, <1>4, <2>1, <2>2, <2>3 DEF BuildExact
  <2>5. \A v \in Threads, c \in Objs :
          Reporting(v, c, g)' => c \in th[u].done /\ row'[c].state = th'[v].st
    <3> SUFFICES ASSUME NEW v \in Threads, NEW c \in Objs, Reporting(v, c, g)'
                 PROVE  c \in th[u].done /\ row'[c].state = th'[v].st
      OBVIOUS
    <3>1. CASE Reporting(v, c, g)
      <4>1. c \in th[u].done /\ row[c].state = th[v].st /\ th[v].st \in Settled
        BY <2>1, <2>2, <3>1 DEF BuildExact, Reporting, TypeOK, Local
      <4>2. c # o /\ v # t
        BY <4>1, <3>1 DEF Settled, SUCCESS, ERROR, ACTIVE, Reporting
      <4> QED BY <1>0, <4>1, <4>2
    <3>2. CASE v = t /\ c = o /\ g \in P
      BY <1>0, <1>1, <1>5, <2>3, <3>2
    <3> QED BY <1>2, <3>1, <3>2
  <2>6. ASSUME NEW c \in th[u].done
        PROVE  row'[c].state = ERROR /\ ~Late(c, g)' <=> row[c].state = ERROR /\ ~Late(c, g)
    <3>1. CASE c # o
      BY <1>0, <1>2, <2>3, <3>1 DEF Late
    <3>2. CASE c = o
      <4>1. g \in P
        BY <2>1, <2>2, <3>2 DEF BuildExact
      <4>2. Late(c, g)'
        BY <1>2, <3>2, <4>1 DEF Late
      <4> QED BY <1>4, <3>2, <4>2
    <3> QED BY <3>1, <3>2
  <2>7. row'[g].state = IF \E c \in th[u].done : row'[c].state = ERROR /\ ~Late(c, g)'
                          THEN ERROR ELSE ACTIVE
    BY <2>1, <2>2, <2>3, <2>6 DEF BuildExact
  <2> QED BY <2>1, <2>2, <2>4, <2>5, <2>7 DEF BuildExact
<1> QED BY <1>7, <1>8, <1>9, <1>10 DEF KinInv

\* A group has no parents, and one that is being built is locked by its builder alone.
LEMMA GroupFacts ==
  ASSUME TypeOK, OwnerInv, LinkInv
  PROVE  /\ \A g \in Objs : row[g].type = "GROUP" => row[g].parents_list = {}
         /\ \A u \in Threads : th[u].pc = "merge_child" =>
              /\ th[u].obj \in Objs /\ ~Free(th[u].obj) /\ ~Dead(th[u].obj)
              /\ row[th[u].obj].type = "GROUP"
              /\ \A v \in Threads : v # u => ~Owns(v, th[u].obj)
<1>1. ASSUME NEW g \in Objs, row[g].type = "GROUP"  PROVE row[g].parents_list = {}
  BY <1>1 DEF LinkInv, ParentLinksLive
<1>2. ASSUME NEW u \in Threads, th[u].pc = "merge_child"
      PROVE  /\ th[u].obj \in Objs /\ ~Free(th[u].obj) /\ ~Dead(th[u].obj)
             /\ row[th[u].obj].type = "GROUP"
             /\ \A v \in Threads : v # u => ~Owns(v, th[u].obj)
  <2>1. PICK g \in Objs : g = th[u].obj
    BY <1>2 DEF TypeOK, Local, Named
  <2>2. Owns(u, g) /\ Building(u)
    BY <1>2, <2>1 DEF Owns, Building
  <2>3. lock[g] = u
    BY <2>1, <2>2 DEF OwnerInv, OwnersExclude
  <2>4. ~Dead(g) /\ \A v \in Threads : v # u => ~Owns(v, g)
    BY <1>2, <2>2 DEF OwnerInv, OwnersExclude, Dead
  <2> QED BY <1>2, <2>1, <2>3, <2>4, NoneAssumption DEF Free, LinkInv, GroupBuilt
<1> QED BY <1>1, <1>2

\* A builder whose group, children and reporters are left alone
LEMMA BuildFrame ==
  ASSUME TypeOK, NEW u \in Threads, th[u].pc = "merge_child", BuildExact(u), th'[u] = th[u],
         NEW g \in Objs, g = th[u].obj, row'[g].state = row[g].state,
         \A c \in th[u].done : /\ row'[c].state = row[c].state
                               /\ g \in row'[c].parents_list <=> g \in row[c].parents_list,
         \A v \in Threads, c \in Objs : Reporting(v, c, g)' <=> Reporting(v, c, g),
         \A v \in Threads, c \in Objs : Reporting(v, c, g) => th'[v].st = th[v].st
  PROVE  BuildExact(u)'
<1>1. th[u].done \subseteq Objs
  BY DEF TypeOK, Local, LocalFields
<1>2. \A c \in Objs : Late(c, g)' <=> Late(c, g)
  BY DEF Late
<1>3. \A c \in th[u].done : row'[c].state = ACTIVE <=> g \in row'[c].parents_list
  BY DEF BuildExact
<1>4. \A v \in Threads, c \in Objs :
        Reporting(v, c, g)' => c \in th[u].done /\ row'[c].state = th'[v].st
  BY DEF BuildExact
<1>5. row'[g].state = IF \E c \in th[u].done : row'[c].state = ERROR /\ ~Late(c, g)'
                        THEN ERROR ELSE ACTIVE
  BY <1>1, <1>2 DEF BuildExact
<1> QED BY <1>3, <1>4, <1>5 DEF BuildExact

\* Thread t reports its child to group p.
LEMMA KinDeliver ==
  ASSUME RoomToCount, TypeOK, OwnerInv, LinkInv, MergeInv, KinInv, NEW t \in Threads, NEW p \in Objs,
         SignalParent(t, p)
  PROVE  KinInv'
<1>0. /\ th[t] \in Local /\ th[t].pc = "signal_parents" /\ p \in th[t].folks /\ Free(p)
      /\ th[t].st \in Settled /\ th[t].ret = "idle" /\ th[t].obj \in Objs
  BY SignalParentEffect DEF TypeOK, MergeInv, NoSweep, Local, Named
<1>1. PICK r : row' = [row EXCEPT ![p] = r] /\ Reported(r, row[p], th[t].st)
  BY SignalParentEffect
<1>2. PICK x : /\ th' = [th EXCEPT ![t] = x]
               /\ IF th[t].folks \ {p} = {} THEN x = Return(th[t])
                  ELSE /\ x.pc = "signal_parents" /\ x.obj = th[t].obj /\ x.st = th[t].st
                       /\ x.folks = th[t].folks \ {p}
  BY SignalParentEffect
<1>3. /\ th'[t] = x /\ \A u \in Threads : u # t => th'[u] = th[u]
      /\ row'[p] = r /\ \A q \in Objs : q # p => row'[q] = row[q]
  BY <1>1, <1>2 DEF TypeOK
<1>4. \/ x.pc = "idle" /\ th[t].folks = {p}
      \/ /\ x.pc = "signal_parents" /\ x.obj = th[t].obj /\ x.st = th[t].st
         /\ x.folks = th[t].folks \ {p}
  BY <1>0, <1>2, ReturnIdle
<1>5. \A u \in Threads, c, g \in Objs :
        Reporting(u, c, g)' <=> Reporting(u, c, g) /\ ~(u = t /\ g = p)
  <2> SUFFICES ASSUME NEW u \in Threads, NEW c \in Objs, NEW g \in Objs
               PROVE  Reporting(u, c, g)' <=> Reporting(u, c, g) /\ ~(u = t /\ g = p)
    OBVIOUS
  <2>1. CASE u # t
    BY <1>3, <2>1 DEF Reporting
  <2>2. CASE u = t
    BY <1>0, <1>3, <1>4, <2>2 DEF Reporting
  <2> QED BY <2>1, <2>2
<1>6. row[p].type = "GROUP" /\ ~Dead(p) /\ row[p].parents_list = {}
  <2>1. Reporting(t, th[t].obj, p)
    BY <1>0 DEF Reporting
  <2> QED BY <1>0, <2>1, GroupFacts DEF KinInv, ReportsLive, Dead
<1>7. r.type = "GROUP" /\ r.state # INVALID /\ r.parents_list = {} /\ r.remaining = Dec(row[p].remaining)
  <2>1. UpdateParentState(row[p].state, th[t].st) # INVALID
    BY <1>0, <1>6 DEF UpdateParentState, Settled, SUCCESS, ERROR, INVALID, Dead
  <2> QED BY <1>1, <1>6, <2>1 DEF Reported
<1>8. \A g \in Objs : Dead(g)' <=> Dead(g)
  BY <1>3, <1>6, <1>7 DEF Dead
<1>9. \A q \in Objs : row'[q].parents_list = row[q].parents_list /\ row'[q].type = row[q].type
  BY <1>3, <1>6, <1>7
<1>10. RemainingExact'
  <2> SUFFICES ASSUME NEW g \in Objs, ~Dead(g)'
               PROVE  row'[g].remaining = Cardinality(Links(g)') + Cardinality(Signalers(g)')
    BY DEF RemainingExact, Dead, Links, Signalers
  <2>1. row[g].remaining = Cardinality(Links(g)) + Cardinality(Signalers(g))
    BY <1>8 DEF KinInv, RemainingExact, Dead, Links, Signalers
  <2>2. Links(g)' = Links(g)
    BY <1>9 DEF Links
  <2>3. CASE g = p
    <3>1. Signalers(g)' = Signalers(g) \ {t} /\ t \in Signalers(g)
      BY <1>0, <1>3, <1>4, <2>3 DEF Signalers
    <3>2. Cardinality(Signalers(g) \ {t}) = Cardinality(Signalers(g)) - 1
      BY <3>1, Countable, FS_RemoveElement
    <3>3. Cardinality(Signalers(g)) # 0
      BY <3>1, Countable, FS_EmptySet
    <3>4. row'[g].remaining = row[g].remaining - 1
      BY <1>3, <1>7, <2>1, <2>3, <3>3, Countable DEF Dec
    <3> QED BY <2>1, <2>2, <3>1, <3>2, <3>4, Countable
  <2>4. CASE g # p
    <3>1. Signalers(g)' = Signalers(g)
      BY <1>0, <1>3, <1>4, <2>4 DEF Signalers
    <3> QED BY <1>3, <2>1, <2>2, <2>4, <3>1
  <2> QED BY <2>3, <2>4
<1>11. ReportsLive'
  BY <1>5, <1>8, <1>9 DEF KinInv, ReportsLive, Dead
<1>12. OnlyActiveLinked'
  <2>1. \A q \in Objs : row[q].parents_list \subseteq Objs
    BY DEF TypeOK, Row
  <2> QED BY <1>3, <1>7, <1>8, <1>9, <2>1 DEF KinInv, OnlyActiveLinked, Dead
<1>13. BuildInv'
  <2> SUFFICES ASSUME NEW u \in Threads, th'[u].pc = "merge_child"  PROVE BuildExact(u)'
    BY DEF BuildInv
  <2>1. u # t /\ th'[u] = th[u] /\ BuildExact(u)
    BY <1>3, <1>4 DEF KinInv, BuildInv
  <2>2. PICK g \in Objs : g = th[u].obj /\ g # p
    BY <1>0, <2>1, GroupFacts
  <2>3. \A c \in th[u].done : c \in Objs /\ c # p
    <3>1. th[u].done \subseteq Elements(u) /\ th[u].done \subseteq Objs
      BY <2>1 DEF Elements, Merging, TypeOK, Local, LocalFields
    <3> QED BY <1>6, <3>1 DEF MergeInv, ElementsLive, LiveKid
  <2>4. \A v \in Threads, c \in Objs : Reporting(v, c, g)' <=> Reporting(v, c, g)
    BY <1>5, <2>2
  <2>5. \A v \in Threads, c \in Objs : Reporting(v, c, g) => th'[v].st = th[v].st
    BY <1>3, <1>4, <2>2 DEF Reporting
  <2> QED BY <1>3, <2>1, <2>2, <2>3, <2>4, <2>5, BuildFrame
<1> QED BY <1>10, <1>11, <1>12, <1>13 DEF KinInv

\* A dead row is made or zeroed by its owner t.
LEMMA KinReset ==
  ASSUME RoomToCount, TypeOK, OwnerInv, LinkInv, MergeInv, KinInv, NEW t \in Threads, NEW o \in Objs,
         Dead(o), th[t].pc \notin {"signal_parents", "merge_child"},
         NEW r, row' = [row EXCEPT ![o] = r], r.parents_list = {}, r.remaining = 0,
         r.callback_list = NoCbs,
         NEW x, th' = [th EXCEPT ![t] = x], x.pc # "signal_parents",
         x.pc = "merge_child" => x.obj = o /\ x.done = {} /\ r.state = ACTIVE
  PROVE  KinInv'
<1>1. /\ th'[t] = x /\ \A u \in Threads : u # t => th'[u] = th[u]
      /\ row'[o] = r /\ \A q \in Objs : q # o => row'[q] = row[q]
  BY DEF TypeOK
<1>2. \A u \in Threads, c, g \in Objs : Reporting(u, c, g)' <=> Reporting(u, c, g)
  BY <1>1 DEF Reporting
<1>3. \A u \in Threads, c \in Objs : ~Reporting(u, c, o)
  BY DEF KinInv, ReportsLive, Dead
<1>4. row[o].parents_list = {} /\ \A q \in Objs : o \notin row[q].parents_list
  BY DEF KinInv, OnlyActiveLinked, Dead, INVALID, ACTIVE
<1>5. \A q \in Objs : row'[q].parents_list = row[q].parents_list
  BY <1>1, <1>4
<1>6. \A g \in Objs : Links(g)' = Links(g) /\ Signalers(g)' = Signalers(g)
  BY <1>1, <1>5 DEF Links, Signalers
<1>7. RemainingExact'
  <2> SUFFICES ASSUME NEW g \in Objs, ~Dead(g)'
               PROVE  row'[g].remaining = Cardinality(Links(g)) + Cardinality(Signalers(g))
    BY <1>6 DEF RemainingExact, Dead, Links, Signalers
  <2>1. CASE g = o
    <3>1. Links(g) = {}
      BY <1>4, <2>1 DEF Links
    <3>2. Signalers(g) = {}
      <4>1. ASSUME NEW u \in Signalers(g)  PROVE FALSE
        <5>1. u \in Threads /\ th[u].obj \in Objs /\ Reporting(u, th[u].obj, o)
          BY <2>1, <4>1 DEF Signalers, Reporting, TypeOK, Local, Named
        <5> QED BY <1>3, <5>1
      <4> QED BY <4>1
    <3> QED BY <1>1, <2>1, <3>1, <3>2, FS_EmptySet
  <2>2. CASE g # o
    <3>1. ~Dead(g) /\ row'[g] = row[g]
      BY <1>1, <2>2 DEF Dead
    <3> QED BY <3>1 DEF KinInv, RemainingExact, Dead, Links, Signalers
  <2> QED BY <2>1, <2>2
<1>8. ReportsLive'
  BY <1>1, <1>2, <1>3, <1>5 DEF KinInv, ReportsLive
<1>9. OnlyActiveLinked'
  <2>1. \A q \in Objs : row[q].parents_list \subseteq Objs
    BY DEF TypeOK, Row
  <2> QED BY <1>1, <1>4, <1>5, <2>1 DEF KinInv, OnlyActiveLinked
<1>10. BuildInv'
  <2> SUFFICES ASSUME NEW u \in Threads, th'[u].pc = "merge_child"  PROVE BuildExact(u)'
    BY DEF BuildInv
  <2>1. CASE u = t
    <3>1. th'[u].obj = o /\ th'[u].done = {} /\ row'[o].state = ACTIVE
      BY <1>1, <2>1
    <3> QED BY <1>2, <1>3, <3>1 DEF BuildExact
  <2>2. CASE u # t
    <3>1. th'[u] = th[u] /\ BuildExact(u)
      BY <1>1, <2>2 DEF KinInv, BuildInv
    <3>2. PICK g \in Objs : g = th[u].obj /\ g # o
      BY <3>1, GroupFacts
    <3>3. \A c \in th[u].done : c \in Objs /\ c # o
      <4>1. th[u].done \subseteq Elements(u) /\ th[u].done \subseteq Objs
        BY <3>1 DEF Elements, Merging, TypeOK, Local, LocalFields
      <4> QED BY <4>1 DEF MergeInv, ElementsLive, LiveKid, Dead
    <3>4. \A v \in Threads, c \in Objs : Reporting(v, c, g) => th'[v].st = th[v].st
      BY <1>1 DEF Reporting
    <3> QED BY <1>1, <1>2, <3>1, <3>2, <3>3, <3>4, BuildFrame
  <2> QED BY <2>1, <2>2
<1> QED BY <1>7, <1>8, <1>9, <1>10 DEF KinInv

\* Nobody is linked to a complete fence or on the way to it, and it has no parents.
LEMMA CompleteAlone ==
  ASSUME RoomToCount, TypeOK, KinInv, NEW o \in Objs, Complete(row[o])
  PROVE  /\ row[o].parents_list = {} /\ \A q \in Objs : o \notin row[q].parents_list
         /\ \A u \in Threads, c \in Objs : ~Reporting(u, c, o)
<1>1. row[o].state # INVALID /\ row[o].state # ACTIVE /\ row[o].remaining = 0
  BY DEF Complete, Settled, SUCCESS, ERROR, INVALID, ACTIVE
<1>2. Cardinality(Links(o)) + Cardinality(Signalers(o)) = 0
  BY <1>1 DEF KinInv, RemainingExact, Links, Signalers
<1>3. Cardinality(Links(o)) = 0 /\ Cardinality(Signalers(o)) = 0
  BY <1>2, Countable
<1>4. Links(o) = {} /\ Signalers(o) = {}
  BY <1>3, Countable, FS_EmptySet
<1> QED BY <1>1, <1>4 DEF Links, Signalers, Reporting, KinInv, OnlyActiveLinked

\* Thread t begins to destroy a complete fence that no merge names.
LEMMA KinDestroy ==
  ASSUME KeepsContract, RoomToCount, TypeOK, OwnerInv, LinkInv, MergeInv, KinInv,
         NoCallbackStranded, NEW t \in Threads, NEW o \in Objs, Destroy(t, o)
  PROVE  KinInv'
<1>0. /\ th[t].pc = "idle" /\ Free(o) /\ Complete(row[o]) /\ row[o] \in Row
      /\ \A u \in Threads : Merging(u) => o \notin th[u].todo \cup th[u].done
  BY DEF Destroy, MayCall, DeinitRow, MayDestroy, KeepsContract, TypeOK
<1>1. /\ row[o].parents_list = {} /\ \A q \in Objs : o \notin row[q].parents_list
      /\ \A u \in Threads, c \in Objs : ~Reporting(u, c, o)
  BY <1>0, CompleteAlone
<1> DEFINE r == Emptied(row[o])
           x == [Idle EXCEPT !.pc = "destroy", !.obj = o, !.todo = row[o].children_list,
                             !.folks = row[o].parents_list]
<1>2. row' = [row EXCEPT ![o] = r] /\ th' = [th EXCEPT ![t] = x]
  BY DEF Destroy, DeinitRow
<1>3. x.pc = "destroy" /\ r.state = INVALID /\ r.parents_list = {} /\ r.callback_list = NoCbs
  <2>1. row[o].callback_list = NoCbs
    BY <1>0 DEF NoCallbackStranded
  <2>2. r.state = INVALID /\ r.parents_list = {} /\ r.callback_list = row[o].callback_list
    BY <1>0 DEF Emptied, Row
  <2>3. x.pc = "destroy"
    BY DEF Idle
  <2> QED BY <2>1, <2>2, <2>3
<1> HIDE DEF x, r
<1>4. /\ th'[t] = x /\ \A u \in Threads : u # t => th'[u] = th[u]
      /\ row'[o] = r /\ \A q \in Objs : q # o => row'[q] = row[q]
  BY <1>2 DEF TypeOK
<1>5. \A u \in Threads, c, g \in Objs : Reporting(u, c, g)' <=> Reporting(u, c, g)
  BY <1>0, <1>3, <1>4 DEF Reporting
<1>6. \A q \in Objs : row'[q].parents_list = row[q].parents_list
  BY <1>1, <1>3, <1>4
<1>7. RemainingExact'
  <2> SUFFICES ASSUME NEW g \in Objs, ~Dead(g)'
               PROVE  row'[g].remaining = Cardinality(Links(g)') + Cardinality(Signalers(g)')
    BY DEF RemainingExact, Dead, Links, Signalers
  <2>1. Links(g)' = Links(g) /\ Signalers(g)' = Signalers(g)
    BY <1>0, <1>3, <1>4, <1>6 DEF Links, Signalers
  <2>2. ~Dead(g) /\ row'[g] = row[g]
    BY <1>3, <1>4 DEF Dead
  <2> QED BY <2>1, <2>2 DEF KinInv, RemainingExact, Dead, Links, Signalers
<1>8. ReportsLive'
  BY <1>1, <1>4, <1>5, <1>6 DEF KinInv, ReportsLive
<1>9. OnlyActiveLinked'
  <2>1. \A q \in Objs : row[q].parents_list \subseteq Objs
    BY DEF TypeOK, Row
  <2> QED BY <1>1, <1>3, <1>4, <1>6, <2>1 DEF KinInv, OnlyActiveLinked
<1>10. BuildInv'
  <2> SUFFICES ASSUME NEW u \in Threads, th'[u].pc = "merge_child"  PROVE BuildExact(u)'
    BY DEF BuildInv
  <2>1. th'[u] = th[u] /\ BuildExact(u)
    BY <1>3, <1>4 DEF KinInv, BuildInv
  <2>2. PICK g \in Objs : g = th[u].obj /\ g # o
    BY <1>0, <2>1, GroupFacts
  <2>3. \A c \in th[u].done : c \in Objs /\ c # o
    BY <1>0, <2>1 DEF Merging, TypeOK, Local, LocalFields
  <2>4. \A v \in Threads, c \in Objs : Reporting(v, c, g) => th'[v].st = th[v].st
    BY <1>0, <1>4 DEF Reporting
  <2> QED BY <1>4, <1>5, <2>1, <2>2, <2>3, <2>4, BuildFrame
<1> QED BY <1>7, <1>8, <1>9, <1>10 DEF KinInv

\* An active child c is linked to the group g that thread t builds.
LEMMA KinLink ==
  ASSUME KeepsContract, RoomToCount, TypeOK, OwnerInv, LinkInv, MergeInv, KinInv,
         NEW t \in Threads, NEW c \in Objs, MergeChild(t, c), MergeLink(t, c)
  PROVE  KinInv'
<1>g. PICK g \in Objs : g = th[t].obj
  BY DEF MergeChild, TypeOK, Local, Named
<1>0. /\ th[t] \in Local /\ th[t].pc = "merge_child" /\ c \in th[t].todo /\ Free(c)
      /\ row[c].type = "INDV" /\ row[c].state = ACTIVE /\ row[c] \in Row /\ row[g] \in Row
  BY DEF MergeChild, MergeLink, TypeOK
<1>1. /\ row[g].type = "GROUP" /\ row[g].parents_list = {} /\ ~Dead(g) /\ g # c /\ ~Free(g)
      /\ \A u \in Threads : u # t => ~Owns(u, g)
  BY <1>g, <1>0, GroupFacts
<1>2. c \notin th[t].done /\ BuildExact(t)
  BY <1>0 DEF MergeInv, ElementsLive, Merging, KinInv, BuildInv
<1>3. g \notin row[c].parents_list /\ \A u \in Threads : ~Reporting(u, c, g)
  <2>1. row[g].children_list \subseteq th[t].done
    BY <1>g, <1>0 DEF LinkInv, GroupBuilt
  <2>2. \A u \in Threads : ~Unlinking(u, c, g)
    BY <1>1, DeadLinks
  <2> QED BY <1>g, <1>2, <2>1, <2>2, LinksDef DEF LinkInv, BuildExact
<1> DEFINE r == AddChild(row[g], c)
           k == AddParent(row[c], g)
           x == Visited(th[t], c)
<1>4. row' = [row EXCEPT ![g] = r, ![c] = k] /\ th' = [th EXCEPT ![t] = x]
  BY <1>g DEF MergeLink
<1>5. /\ r.type = row[g].type /\ r.state = row[g].state /\ r.remaining = Inc(row[g].remaining)
      /\ r.parents_list = {} /\ r.callback_list = row[g].callback_list
  BY <1>0, <1>1 DEF AddChild, Row
<1>6. /\ k.type = row[c].type /\ k.state = ACTIVE /\ k.remaining = row[c].remaining
      /\ k.parents_list = row[c].parents_list \cup {g}
  BY <1>0 DEF AddParent, Row
<1>7. x.pc = "merge_child" /\ x.obj = g /\ x.done = th[t].done \cup {c}
  BY <1>g, <1>0 DEF Visited, Local, LocalFields
<1> HIDE DEF r, k, x
<1>8. /\ th'[t] = x /\ \A u \in Threads : u # t => th'[u] = th[u]
      /\ row'[g] = r /\ row'[c] = k /\ \A q \in Objs : q # g /\ q # c => row'[q] = row[q]
  BY <1>1, <1>4 DEF TypeOK
<1>9. \A u \in Threads, d, h \in Objs : Reporting(u, d, h)' <=> Reporting(u, d, h)
  BY <1>0, <1>7, <1>8 DEF Reporting
<1>10. \A q \in Objs : row'[q].state = row[q].state /\ row'[q].type = row[q].type
  BY <1>0, <1>5, <1>6, <1>8
<1>11. \A q, h \in Objs : h \in row'[q].parents_list
                            <=> h \in row[q].parents_list \/ (q = c /\ h = g)
  BY <1>1, <1>5, <1>6, <1>8
<1>12. RemainingExact'
  <2> SUFFICES ASSUME NEW h \in Objs, ~Dead(h)'
               PROVE  row'[h].remaining = Cardinality(Links(h)') + Cardinality(Signalers(h)')
    BY DEF RemainingExact, Dead, Links, Signalers
  <2>1. row[h].remaining = Cardinality(Links(h)) + Cardinality(Signalers(h))
    BY <1>10 DEF KinInv, RemainingExact, Dead, Links, Signalers
  <2>2. Signalers(h)' = Signalers(h)
    BY <1>0, <1>7, <1>8 DEF Signalers
  <2>3. CASE h = g
    <3>1. Links(h)' = Links(h) \cup {c} /\ c \in Objs \ Links(h)
      BY <1>3, <1>11, <2>3 DEF Links
    <3>2. Cardinality(Links(h) \cup {c}) = Cardinality(Links(h)) + 1
      BY <3>1, Countable, FS_AddElement
    <3>3. Cardinality(Links(h)) < Cardinality(Objs)
      BY <3>1, Countable
    <3>4. Cardinality(Objs) \in Nat /\ Cardinality(Threads) \in Nat
      BY FS_CardinalityType DEF RoomToCount
    <3>5. row[h].remaining # Wrap - 1
      BY <2>1, <3>3, <3>4, Countable, BoundsAssumption DEF RoomToCount
    <3>6. row'[h].remaining = row[h].remaining + 1
      BY <1>5, <1>8, <2>3, <3>5 DEF Inc
    <3> QED BY <2>1, <2>2, <3>1, <3>2, <3>6, Countable
  <2>4. CASE h # g
    <3>1. Links(h)' = Links(h)
      BY <1>11, <2>4 DEF Links
    <3>2. row'[h].remaining = row[h].remaining
      BY <1>6, <1>8, <2>4
    <3> QED BY <2>1, <2>2, <3>1, <3>2
  <2> QED BY <2>3, <2>4
<1>13. ReportsLive'
  BY <1>3, <1>9, <1>10, <1>11 DEF KinInv, ReportsLive
<1>14. OnlyActiveLinked'
  <2>1. \A q \in Objs : row'[q].parents_list \subseteq Objs
    <3>1. \A q \in Objs : row[q].parents_list \subseteq Objs
      BY DEF TypeOK, Row
    <3> QED BY <1>5, <1>6, <1>8, <3>1
  <2>2. \A q \in Objs : Dead(q) => row'[q].callback_list = row[q].callback_list
    BY <1>0, <1>5, <1>8 DEF Dead, ACTIVE, INVALID
  <2>3. \A q \in Objs : row'[q].parents_list # {} => row'[q].state = ACTIVE
    BY <1>0, <1>1, <1>5, <1>6, <1>8 DEF KinInv, OnlyActiveLinked
  <2>4. \A q \in Objs : \A h \in row'[q].parents_list : row'[h].state # INVALID
    BY <1>1, <1>10, <1>11, <2>1 DEF KinInv, OnlyActiveLinked, Dead
  <2> QED BY <1>10, <2>2, <2>3, <2>4 DEF KinInv, OnlyActiveLinked, Dead
<1>15. BuildInv'
  <2> SUFFICES ASSUME NEW u \in Threads, th'[u].pc = "merge_child"  PROVE BuildExact(u)'
    BY DEF BuildInv
  <2>1. CASE u = t
    <3>1. th'[u].obj = g /\ th'[u].done = th[t].done \cup {c} /\ th[t].done \subseteq Objs
      BY <1>7, <1>8, <2>1 DEF TypeOK, Local, LocalFields
    <3>2. \A d \in th[t].done \cup {c} : row'[d].state = ACTIVE <=> g \in row'[d].parents_list
      BY <1>g, <1>0, <1>2, <1>10, <1>11, <3>1 DEF BuildExact
    <3>3. \A v \in Threads, d \in Objs :
            Reporting(v, d, g)' => d \in th[t].done \cup {c} /\ row'[d].state = th'[v].st
      <4>1. \A v \in Threads, d \in Objs : Reporting(v, d, g)' => th'[v].st = th[v].st
        BY <1>7, <1>8 DEF Reporting
      <4> QED BY <1>g, <1>2, <1>9, <1>10, <4>1 DEF BuildExact
    <3>4. \A d \in Objs : Late(d, g)' <=> Late(d, g)
      BY <1>9 DEF Late
    <3>5. \A d \in th[t].done \cup {c} :
            row'[d].state = ERROR /\ ~Late(d, g)' <=> d # c /\ row[d].state = ERROR /\ ~Late(d, g)
      BY <1>0, <1>10, <3>1, <3>4 DEF ACTIVE, ERROR
    <3>6. row'[g].state = IF \E d \in th[t].done \cup {c} : row'[d].state = ERROR /\ ~Late(d, g)'
                            THEN ERROR ELSE ACTIVE
      <4>1. row[g].state = IF \E d \in th[t].done : row[d].state = ERROR /\ ~Late(d, g)
                             THEN ERROR ELSE ACTIVE
        BY <1>g, <1>2 DEF BuildExact
      <4> QED BY <1>2, <1>10, <3>5, <4>1
    <3> QED BY <3>1, <3>2, <3>3, <3>6 DEF BuildExact
  <2>2. CASE u # t
    <3>1. th'[u] = th[u] /\ BuildExact(u)
      BY <1>8, <2>2 DEF KinInv, BuildInv
    <3>2. PICK h \in Objs : h = th[u].obj /\ h # g
      BY <1>1, <2>2, <3>1, GroupFacts DEF Owns, Building
    <3>3. \A d \in th[u].done : d \in Objs
      BY DEF TypeOK, Local, LocalFields
    <3>4. \A v \in Threads, d \in Objs : Reporting(v, d, h) => th'[v].st = th[v].st
      BY <1>0, <1>8 DEF Reporting
    <3> QED BY <1>9, <1>10, <1>11, <3>1, <3>2, <3>3, <3>4, BuildFrame
  <2> QED BY <2>1, <2>2
<1> QED BY <1>12, <1>13, <1>14, <1>15 DEF KinInv

\* Thread t changes the state of the group g it builds.
LEMMA KinOwnGroup ==
  ASSUME TypeOK, OwnerInv, LinkInv, MergeInv, KinInv, NEW t \in Threads, NEW g \in Objs,
         th[t].pc = "merge_child", th[t].obj = g,
         NEW r, row' = [row EXCEPT ![g] = r], r.type = row[g].type, r.state # INVALID,
         r.remaining = row[g].remaining, r.parents_list = row[g].parents_list,
         NEW x, th' = [th EXCEPT ![t] = x], x.pc # "signal_parents",
         x.pc = "merge_child" => BuildExact(t)'
  PROVE  KinInv'
<1>1. /\ row[g].type = "GROUP" /\ row[g].parents_list = {} /\ ~Dead(g) /\ ~Free(g)
      /\ \A u \in Threads : u # t => ~Owns(u, g)
  BY GroupFacts
<1>2. /\ th'[t] = x /\ \A u \in Threads : u # t => th'[u] = th[u]
      /\ row'[g] = r /\ \A q \in Objs : q # g => row'[q] = row[q]
  BY DEF TypeOK
<1>3. \A u \in Threads, d, h \in Objs : Reporting(u, d, h)' <=> Reporting(u, d, h)
  BY <1>2 DEF Reporting
<1>4. \A q \in Objs : /\ row'[q].type = row[q].type /\ row'[q].remaining = row[q].remaining
                      /\ row'[q].parents_list = row[q].parents_list /\ (Dead(q)' <=> Dead(q))
  BY <1>1, <1>2 DEF Dead
<1>5. RemainingExact'
  <2> SUFFICES ASSUME NEW h \in Objs, ~Dead(h)'
               PROVE  row'[h].remaining = Cardinality(Links(h)') + Cardinality(Signalers(h)')
    BY DEF RemainingExact, Dead, Links, Signalers
  <2>1. Links(h)' = Links(h) /\ Signalers(h)' = Signalers(h)
    BY <1>2, <1>4 DEF Links, Signalers
  <2>2. row[h].remaining = Cardinality(Links(h)) + Cardinality(Signalers(h))
    BY <1>4 DEF KinInv, RemainingExact, Dead, Links, Signalers
  <2> QED BY <1>4, <2>1, <2>2
<1>6. ReportsLive'
  BY <1>3, <1>4 DEF KinInv, ReportsLive, Dead
<1>7. OnlyActiveLinked'
  <2>1. \A q \in Objs : row[q].parents_list \subseteq Objs
    BY DEF TypeOK, Row
  <2> QED BY <1>1, <1>2, <1>4, <2>1 DEF KinInv, OnlyActiveLinked, Dead
<1>8. BuildInv'
  <2> SUFFICES ASSUME NEW u \in Threads, u # t, th'[u].pc = "merge_child"  PROVE BuildExact(u)'
    BY <1>2 DEF BuildInv
  <2>1. th'[u] = th[u] /\ BuildExact(u)
    BY <1>2 DEF KinInv, BuildInv
  <2>2. PICK h \in Objs : h = th[u].obj /\ h # g
    BY <1>1, <2>1, GroupFacts DEF Owns, Building
  <2>3. \A c \in th[u].done : c \in Objs /\ c # g
    <3>1. th[u].done \subseteq Elements(u) /\ th[u].done \subseteq Objs
      BY <2>1 DEF Elements, Merging, TypeOK, Local, LocalFields
    <3> QED BY <1>1, <3>1 DEF MergeInv, ElementsLive, LiveKid
  <2>4. \A v \in Threads, d \in Objs : Reporting(v, d, h) => th'[v].st = th[v].st
    BY <1>2 DEF Reporting
  <2> QED BY <1>2, <1>3, <2>1, <2>2, <2>3, <2>4, BuildFrame
<1> QED BY <1>5, <1>6, <1>7, <1>8 DEF KinInv

\* A settled child lends the group its error.
LEMMA KinSkip ==
  ASSUME KeepsContract, TypeOK, OwnerInv, LinkInv, MergeInv, KinInv,
         NEW t \in Threads, NEW c \in Objs, MergeChild(t, c), MergeSkip(t, c)
  PROVE  KinInv'
<1>g. PICK g \in Objs : g = th[t].obj
  BY DEF MergeChild, TypeOK, Local, Named
<1>0. /\ th[t] \in Local /\ th[t].pc = "merge_child" /\ c \in th[t].todo /\ Free(c)
      /\ row[c].type = "INDV" /\ row[c].state \in Settled /\ row[g] \in Row
      /\ th[t].done \subseteq Objs
  BY DEF MergeChild, MergeSkip, TypeOK, Local, LocalFields
<1>1. row[g].type = "GROUP" /\ row[g].parents_list = {} /\ ~Dead(g) /\ g # c
  BY <1>g, <1>0, GroupFacts
<1>2. c \notin th[t].done /\ BuildExact(t)
  BY <1>0 DEF MergeInv, ElementsLive, Merging, KinInv, BuildInv
<1> DEFINE r == Inherit(row[g], row[c].state)
           x == Visited(th[t], c)
<1>3. row' = [row EXCEPT ![g] = r] /\ th' = [th EXCEPT ![t] = x]
  BY <1>g DEF MergeSkip
<1>4. /\ r.type = row[g].type /\ r.remaining = row[g].remaining /\ r.state # INVALID
      /\ r.parents_list = row[g].parents_list
      /\ r.state = IF row[c].state = ERROR THEN ERROR ELSE row[g].state
  BY <1>0, <1>1 DEF Inherit, Row, Dead, ERROR, INVALID
<1>5. x.pc = "merge_child" /\ x.obj = g /\ x.done = th[t].done \cup {c}
  BY <1>g, <1>0 DEF Visited, Local, LocalFields
<1> HIDE DEF r, x
<1>6. /\ th'[t] = x /\ \A u \in Threads : u # t => th'[u] = th[u]
      /\ row'[g] = r /\ \A q \in Objs : q # g => row'[q] = row[q]
  BY <1>3 DEF TypeOK
<1>7. \A u \in Threads, d, h \in Objs : Reporting(u, d, h)' <=> Reporting(u, d, h)
  BY <1>0, <1>5, <1>6 DEF Reporting
<1>8. row[c].parents_list = {} /\ \A u \in Threads : ~Reporting(u, c, g)
  BY <1>g, <1>0, <1>2 DEF KinInv, OnlyActiveLinked, BuildExact, Settled, SUCCESS, ERROR, ACTIVE
<1>9. g \notin th[t].done
  <2>1. th[t].done \subseteq Elements(t)
    BY <1>0 DEF Elements, Merging
  <2> QED BY <1>1, <2>1 DEF MergeInv, ElementsLive, LiveKid
<1>10. BuildExact(t)'
  <2>1. \A d \in th[t].done \cup {c} : row'[d] = row[d]
    BY <1>0, <1>1, <1>6, <1>9
  <2>2. \A d \in th[t].done \cup {c} : row'[d].state = ACTIVE <=> g \in row'[d].parents_list
    BY <1>g, <1>0, <1>2, <1>8, <2>1 DEF BuildExact, Settled, SUCCESS, ERROR, ACTIVE
  <2>3. \A v \in Threads, d \in Objs :
          Reporting(v, d, g)' => d \in th[t].done \cup {c} /\ row'[d].state = th'[v].st
    <3>1. \A v \in Threads, d \in Objs : Reporting(v, d, g)' => th'[v].st = th[v].st
      BY <1>5, <1>6 DEF Reporting
    <3> QED BY <1>g, <1>2, <1>7, <2>1, <3>1 DEF BuildExact
  <2>4. \A d \in Objs : Late(d, g)' <=> Late(d, g)
    BY <1>7 DEF Late
  <2>5. ~Late(c, g)
    BY <1>8 DEF Late
  <2>6. row[g].state = IF \E d \in th[t].done : row[d].state = ERROR /\ ~Late(d, g)
                         THEN ERROR ELSE ACTIVE
    BY <1>g, <1>2 DEF BuildExact
  <2>7. row'[g].state = IF \E d \in th[t].done \cup {c} : row'[d].state = ERROR /\ ~Late(d, g)'
                          THEN ERROR ELSE ACTIVE
    BY <1>0, <1>4, <1>6, <2>1, <2>4, <2>5, <2>6
  <2>8. th'[t].obj = g /\ th'[t].done = th[t].done \cup {c}
    BY <1>5, <1>6
  <2> QED BY <2>2, <2>3, <2>7, <2>8 DEF BuildExact
<1> QED BY <1>g, <1>0, <1>3, <1>4, <1>5, <1>10, KinOwnGroup

\* The group is finished.
LEMMA KinFinish ==
  ASSUME TypeOK, OwnerInv, LinkInv, MergeInv, KinInv, NEW t \in Threads, MergeFinish(t)
  PROVE  KinInv'
<1>g. PICK g \in Objs : g = th[t].obj
  BY DEF MergeFinish, TypeOK, Local, Named
<1>1. th[t].pc = "merge_child" /\ row[g] \in Row /\ ~Dead(g)
  BY <1>g, GroupFacts DEF MergeFinish, TypeOK
<1> DEFINE r == Finished(row[g])
<1>2. row' = [row EXCEPT ![g] = r] /\ th' = [th EXCEPT ![t] = Idle]
  BY <1>g DEF MergeFinish
<1>3. /\ r.type = row[g].type /\ r.remaining = row[g].remaining /\ r.state # INVALID
      /\ r.parents_list = row[g].parents_list
  BY <1>1 DEF Finished, Row, Dead, ERROR, INVALID, SUCCESS
<1>4. Idle.pc = "idle"
  BY DEF Idle
<1> HIDE DEF r
<1> QED BY <1>g, <1>1, <1>2, <1>3, <1>4, KinOwnGroup

-----------------------------------------------------------------------------
(* KinInv is inductive                                                      *)

\* Steps that leave the table alone, callbacks, references and payloads
LEMMA KinQuiet ==
  ASSUME TypeOK, MergeInv, KinInv,
         \/ UNCHANGED vars \/ DequeueEvent \/ \E w \in CbWork : CbDispatch(w)
         \/ \E t \in Threads :
              \/ CreateReserve(t) \/ MergeReserve(t) \/ Open(t) \/ CloseBegin(t)
              \/ CloseFlushBegin(t) \/ CloseFlushEnd(t) \/ CloseUnlock(t) \/ CloseNull(t)
              \/ WaitWoken(t) \/ WaitTimeout(t)
              \/ \E o \in Objs : WaitBegin(t, o) \/ MergeCheckValid(t, o)
              \/ \E S \in SUBSET Objs : MergeBegin(t, S)
  PROVE  KinInv'
<1>1. row' = row /\ StillLooping
  BY QuietThreads
<1>2. \A p \in Objs : SameFate(row'[p], row[p]) /\ row'[p].callback_list = row[p].callback_list
  BY <1>1 DEF SameFate
<1> QED BY <1>1, <1>2, KinFrame DEF MergeInv, StillLooping, Looping

LEMMA KinRow ==
  ASSUME TypeOK, MergeInv, KinInv, NEW t \in Threads, NEW o \in Objs,
         \/ \E cb \in Cbs : RegisterCallback(t, o, cb) \/ DeregisterCallback(t, o, cb)
         \/ GetObjRef(t, o) \/ PutObjRef(t, o) \/ UmdSignalRejected(t, o)
         \/ \E pl \in Payloads : RegisterPayload(t, o, pl) \/ DeregisterPayload(t, o, pl)
         \/ \E s \in Settled : UmdSignalGetRef(t, o, s)
  PROVE  KinInv'
<1>1. StillLooping
  BY RowThreads
<1>2. \A p \in Objs : /\ SameFate(row'[p], row[p])
                      /\ Dead(p) => row'[p].callback_list = row[p].callback_list
  BY RowKin DEF SameFate, SameKin
<1> QED BY <1>1, <1>2, KinFrame DEF MergeInv, StillLooping, Looping

\* The critical section of cam_sync_signal on the object
LEMMA KinSignalRow ==
  ASSUME RoomToCount, TypeOK, OwnerInv, LinkInv, MergeInv, KinInv, NEW t \in Threads, NEW o \in Objs,
         NEW s \in Settled, th[t].pc \in {"idle", "umd_signal"}, SignalRow(t, o, s, Idle)
  PROVE  KinInv'
<1>1. Idle \in Local /\ Idle.ret = "idle"
  BY LocalType DEF Idle
<1>2. row[o].state = ACTIVE /\ row[o].type = "INDV"
  BY <1>1, SignalRowEffect
<1>3. CASE /\ \A p \in Objs : /\ SameKin(row'[p], row[p])
                              /\ row'[p].callback_list = row[p].callback_list
           /\ th' = [th EXCEPT ![t] = Return(Idle)]
  <2>1. Return(Idle).pc = "idle"
    BY <1>1, ReturnIdle
  <2>2. th'[t] = Return(Idle) /\ \A u \in Threads : u # t => th'[u] = th[u]
    BY <1>3 DEF TypeOK
  <2>3. \A p \in Objs : SameFate(row'[p], row[p])
    BY <1>3 DEF SameKin, SameFate
  <2>4. \A u \in Threads : \/ th'[u] = th[u]
                           \/ /\ th[u].pc \notin {"signal_parents", "merge_child"}
                              /\ th'[u].pc \notin {"signal_parents", "merge_child"}
    BY <2>1, <2>2
  <2> QED BY <1>3, <2>3, <2>4, KinFrame DEF MergeInv
<1>4. ASSUME NEW r, row' = [row EXCEPT ![o] = r], r.type = "INDV", r.state = s,
             r.parents_list = {}, r.remaining = row[o].remaining,
             NEW x, th' = [th EXCEPT ![t] = x], Reports(x, Idle, o, s, row[o].parents_list)
      PROVE  KinInv'
  BY <1>2, <1>4, KinSettle
<1> QED BY <1>1, <1>3, <1>4, SignalRowEffect

LEMMA KinSignal ==
  ASSUME RoomToCount, TypeOK, OwnerInv, LinkInv, MergeInv, KinInv, NEW t \in Threads,
         \/ \E o \in Objs, s \in Settled : Signal(t, o, s)
         \/ UmdSignal(t)
         \/ \E o \in Objs : CloseSignal(t, o)
  PROVE  KinInv'
<1>1. ASSUME NEW o \in Objs, NEW s \in Settled, Signal(t, o, s)  PROVE KinInv'
  BY <1>1, KinSignalRow DEF Signal, MayCall
<1>2. CASE UmdSignal(t)
  <2>1. th[t].obj \in Objs /\ th[t].st \in Settled /\ th[t].pc = "umd_signal"
    BY <1>2 DEF UmdSignal, TypeOK, Local, Named
  <2>2. CASE SignalRow(t, th[t].obj, th[t].st, Idle)
    BY <2>1, <2>2, KinSignalRow
  <2>3. CASE th' = [th EXCEPT ![t] = Idle] /\ row' = row
    <3>1. Idle.pc = "idle"
      BY DEF Idle
    <3>2. \A u \in Threads : \/ th'[u] = th[u]
                             \/ /\ th[u].pc \notin {"signal_parents", "merge_child"}
                                /\ th'[u].pc \notin {"signal_parents", "merge_child"}
      BY <2>1, <2>3, <3>1 DEF TypeOK
    <3>3. \A p \in Objs : SameFate(row'[p], row[p]) /\ row'[p].callback_list = row[p].callback_list
      BY <2>3 DEF SameFate
    <3> QED BY <3>2, <3>3, KinFrame DEF MergeInv
  <2> QED BY <1>2, <2>2, <2>3 DEF UmdSignal
<1>3. ASSUME NEW o \in Objs, CloseSignal(t, o)  PROVE FALSE
  BY <1>3 DEF CloseSignal, MergeInv, NoSweep, Sweeping
<1> QED BY <1>1, <1>2, <1>3

\* Rows that are made and taken away
LEMMA KinRows ==
  ASSUME KeepsContract, RoomToCount, TypeOK, OwnerInv, LinkInv, MergeInv, KinInv,
         NoCallbackStranded, NEW t \in Threads,
         \/ CreateInit(t) \/ MergeLock(t) \/ DestroyFinish(t) \/ MergeAbort(t)
         \/ \E c \in Objs : \/ Destroy(t, c) \/ DestroyChild(t, c) \/ DestroyParent(t, c)
                            \/ MergeClean(t, c) \/ CloseDestroy(t, c)
  PROVE  KinInv'
<1>0. th[t] \in Local /\ th[t].pc \notin Sweeping /\ th[t].ret = "idle"
  BY DEF TypeOK, MergeInv, NoSweep
<1>1. ASSUME NEW o, o = th[t].obj, th[t].pc \in {"create_init", "merge_lock", "destroy"}
      PROVE  o \in Objs /\ Dead(o)
  <2>1. o \in Objs
    BY <1>0, <1>1 DEF Local, Named
  <2> QED BY <1>1, <2>1 DEF OwnerInv, OwnersExclude, Owns, Reserving, Destroying, Dead
<1>2. CASE CreateInit(t)
  <2>1. PICK o \in Objs : o = th[t].obj /\ Dead(o)
    BY <1>1, <1>2 DEF CreateInit
  <2> DEFINE r == cam_sync_init_row("INDV")
  <2>2. row' = [row EXCEPT ![o] = r] /\ th' = [th EXCEPT ![t] = Idle] /\ th[t].pc = "create_init"
    BY <1>2, <2>1 DEF CreateInit
  <2>3. r.parents_list = {} /\ r.remaining = 0 /\ r.callback_list = NoCbs /\ Idle.pc = "idle"
    BY DEF cam_sync_init_row, ZeroRow, Idle
  <2> HIDE DEF r
  <2> QED BY <2>1, <2>2, <2>3, KinReset
<1>3. CASE MergeLock(t)
  <2>1. PICK o \in Objs : o = th[t].obj /\ Dead(o)
    BY <1>1, <1>3 DEF MergeLock
  <2> DEFINE r == cam_sync_init_row("GROUP")
             x == [th[t] EXCEPT !.pc = "merge_child", !.todo = th[t].done, !.done = {}]
  <2>2. row' = [row EXCEPT ![o] = r] /\ th' = [th EXCEPT ![t] = x] /\ th[t].pc = "merge_lock"
    BY <1>3, <2>1 DEF MergeLock
  <2>3. /\ r.parents_list = {} /\ r.remaining = 0 /\ r.callback_list = NoCbs /\ r.state = ACTIVE
        /\ x.pc = "merge_child" /\ x.obj = o /\ x.done = {}
    BY <1>0, <2>1 DEF cam_sync_init_row, ZeroRow, Local, LocalFields
  <2> HIDE DEF r, x
  <2> QED BY <2>1, <2>2, <2>3, KinReset
<1>4. CASE DestroyFinish(t)
  <2>1. PICK o \in Objs : o = th[t].obj /\ Dead(o)
    BY <1>1, <1>4 DEF DestroyFinish
  <2>2. /\ row' = [row EXCEPT ![o] = ZeroRow] /\ th' = [th EXCEPT ![t] = Return(th[t])]
        /\ th[t].pc = "destroy"
    BY <1>4, <2>1 DEF DestroyFinish
  <2>3. ZeroRow.parents_list = {} /\ ZeroRow.remaining = 0 /\ ZeroRow.callback_list = NoCbs
    BY DEF ZeroRow
  <2>4. Return(th[t]).pc = "idle"
    BY <1>0, ReturnIdle
  <2> QED BY <2>1, <2>2, <2>3, <2>4, KinReset
<1>5. ASSUME NEW c \in Objs, Destroy(t, c)  PROVE KinInv'
  BY <1>5, KinDestroy
<1>6. ASSUME NEW c \in Objs, DestroyChild(t, c) \/ DestroyParent(t, c)  PROVE KinInv'
  <2>1. th[t].pc = "destroy" /\ row[c] \in Row
    BY <1>6 DEF DestroyChild, DestroyParent, TypeOK
  <2>2. PICK o \in Objs : o = th[t].obj /\ Dead(o)
    BY <1>1, <2>1
  <2>3. o \notin row[c].parents_list
    BY <2>2 DEF KinInv, OnlyActiveLinked, Dead
  <2>4. /\ SameFate(DropParent(row[c], o), row[c]) /\ SameFate(DropChild(row[c], o), row[c])
        /\ DropParent(row[c], o).callback_list = row[c].callback_list
        /\ DropChild(row[c], o).callback_list = row[c].callback_list
    BY <2>1, <2>3 DEF SameFate, DropParent, DropChild, Row
  <2>5. \/ row' = row \/ row' = [row EXCEPT ![c] = DropParent(row[c], o)]
        \/ row' = [row EXCEPT ![c] = DropChild(row[c], o)]
    BY <1>6, <2>2 DEF DestroyChild, DestroyParent
  <2>6. \A p \in Objs : SameFate(row'[p], row[p]) /\ row'[p].callback_list = row[p].callback_list
    BY <2>4, <2>5 DEF SameFate, TypeOK
  <2>7. PICK x : th' = [th EXCEPT ![t] = x] /\ x.pc = "destroy"
    <3>1. /\ [th[t] EXCEPT !.todo = @ \ {c}].pc = "destroy"
          /\ [th[t] EXCEPT !.folks = @ \ {c}].pc = "destroy"
      BY <1>0, <2>1 DEF Local, LocalFields
    <3> QED BY <1>6, <3>1 DEF DestroyChild, DestroyParent
  <2>8. \A u \in Threads : \/ th'[u] = th[u]
                           \/ /\ th[u].pc \notin {"signal_parents", "merge_child"}
                              /\ th'[u].pc \notin {"signal_parents", "merge_child"}
    BY <2>1, <2>7 DEF TypeOK
  <2> QED BY <2>6, <2>8, KinFrame DEF MergeInv
<1>7. ~MergeAbort(t) /\ \A c \in Objs : ~MergeClean(t, c) /\ ~CloseDestroy(t, c)
  BY <1>0 DEF MergeAbort, MergeClean, CloseDestroy, Sweeping
<1> QED BY <1>2, <1>3, <1>4, <1>5, <1>6, <1>7

\* One turn of the loop over the children: none fails.
LEMMA NoMergeFail ==
  ASSUME KeepsContract, TypeOK, MergeInv, NEW t \in Threads, NEW c \in Objs, MergeChild(t, c)
  PROVE  MergeLink(t, c) \/ MergeSkip(t, c)
<1>1. c \in Elements(t)
  BY DEF MergeChild, Elements, Merging
<1>2. LiveKid(c)
  BY <1>1 DEF MergeInv, ElementsLive
<1> QED BY <1>2 DEF MergeChild, MergeFail, LiveKid, KeepsContract

LEMMA InitKin == Init => KinInv
<1> SUFFICES ASSUME Init PROVE KinInv
  OBVIOUS
<1>1. \A t \in Threads : th[t].pc = "idle"
  BY DEF Init, Idle
<1>2. \A o \in Objs : /\ row[o].state = INVALID /\ row[o].parents_list = {}
                      /\ row[o].callback_list = NoCbs
  BY DEF Init, ZeroRow
<1>3. RemainingExact
  BY <1>2 DEF RemainingExact
<1>4. ReportsLive /\ BuildInv
  BY <1>1 DEF ReportsLive, Reporting, BuildInv
<1> QED BY <1>2, <1>3, <1>4 DEF KinInv, OnlyActiveLinked

\* Every step keeps the count exact.
LEMMA StepKin ==
  ASSUME KeepsContract, RoomToCount, TypeOK, OwnerInv, LinkInv, MergeInv, NoCallbackStranded, KinInv,
         [Next]_vars
  PROVE  KinInv'
<1>1. CASE (\E w \in CbWork : CbDispatch(w)) \/ DequeueEvent \/ UNCHANGED vars
  BY <1>1, KinQuiet
<1>2. ASSUME NEW t \in Threads, NEW c \in Objs, MergeChild(t, c)  PROVE KinInv'
  BY <1>2, NoMergeFail, KinLink, KinSkip
<1>3. ASSUME NEW t \in Threads, Step(t)  PROVE KinInv'
  BY <1>2, <1>3, KinQuiet, KinSignal, KinDeliver, KinFinish, KinRows DEF Step
<1>4. ASSUME NEW t \in Threads, Call(t)  PROVE KinInv'
  BY <1>4, KinQuiet, KinRow, KinSignal, KinRows DEF Call
<1> QED BY <1>1, <1>3, <1>4 DEF Next

\* The fields "remaining" of the live groups are exact in every reachable state when the
\* clients keep the contract, for any number of ids and threads that the 32-bit counter can
\* hold: cam_sync_signal's decrement after the child's lock is dropped, the increments of
\* cam_sync_init_group_object and the children that settle before, while and after a group
\* is built never lose or repeat a report.
THEOREM RemainingCounts ==
  ASSUME KeepsContract, RoomToCount  PROVE Spec => []RemainingExact
<1> DEFINE Inv == TypeOK /\ OwnerInv /\ LinkInv /\ MergeInv /\ NoCallbackStranded /\ KinInv
<1>1. Init => Inv
  <2>1. Init => NoCallbackStranded
    BY DEF Init, NoCallbackStranded, Free, Complete, ZeroRow, Settled, INVALID, SUCCESS, ERROR
  <2> QED BY <2>1, InitTypeOK, InitOwner, InitLinks, InitMerge, InitKin
<1>2. Inv /\ [Next]_vars => Inv'
  BY StepTypeOK, StepOwner, StepLinks, StepMerge, StepWake, StepKin
<1>3. Inv => RemainingExact
  BY DEF KinInv
<1> HIDE DEF Inv
<1> QED BY <1>1, <1>2, <1>3, PTL DEF Spec
=============================================================================
