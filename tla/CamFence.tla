------------------------------ MODULE CamFence ------------------------------
(***************************************************************************)
(* What the camera sync driver promises to clients that keep the contract  *)
(* of CamSync: the abstract specification CamSync is shown to implement.   *)
(*                                                                         *)
(* A fence is free, active or settled.  A group settles exactly when the   *)
(* outcome of its last outstanding kid reaches it, as ERROR if and only if *)
(* one of its kids settled as ERROR.  A callback registered on an active   *)
(* fence becomes due, once, in the step that settles the fence; one        *)
(* registered on a settled fence is due at once.                           *)
(***************************************************************************)
EXTENDS Naturals, FiniteSets

CONSTANTS Objs, Threads, Cbs

FREE    == 0
ACTIVE  == 1
SUCCESS == 2
ERROR   == 3
Settled == {SUCCESS, ERROR}
CbWork  == [cb : Cbs, obj : Objs, status : Settled]
Reports == [kid : Objs, group : Objs, status : Settled]

VARIABLES
  fence,    (* fence[o]: FREE, ACTIVE, or how it settled                          *)
  waiting,  (* waiting[g]: the kids of group g that have not settled              *)
  reports,  (* outcomes of kids on their way to a group                           *)
  bad,      (* bad[g]: group g knows of a kid that failed                         *)
  pend,     (* pend[o][cb]: callbacks that wait for o to settle                   *)
  due,      (* due[w]: callbacks that are to run                                  *)
  asked     (* asked[t]: the kids of the merge that t is executing                *)

vars == <<fence, waiting, reports, bad, pend, due, asked>>

Init ==
  /\ fence = [o \in Objs |-> FREE]
  /\ waiting = [o \in Objs |-> {}]
  /\ reports = {}
  /\ bad = [o \in Objs |-> FALSE]
  /\ pend = [o \in Objs |-> [cb \in Cbs |-> 0]]
  /\ due = [w \in CbWork |-> 0]
  /\ asked = [t \in Threads |-> {}]

\* A group has kids outstanding; an individual fence never has.
Outstanding(g) == waiting[g] \cup {r.kid : r \in {q \in reports : q.group = g}}

\* Settle o as s: its callbacks become due.
Fire(o, s) ==
  /\ fence' = [fence EXCEPT ![o] = s]
  /\ due' = [w \in CbWork |->
               due[w] + IF w.obj = o /\ w.status = s THEN pend[o][w.cb] ELSE 0]
  /\ pend' = [pend EXCEPT ![o] = [cb \in Cbs |-> 0]]

Create(o) ==
  /\ fence[o] = FREE
  /\ fence' = [fence EXCEPT ![o] = ACTIVE]
  /\ UNCHANGED <<waiting, reports, bad, pend, due, asked>>

\* A client settles an individual fence; its outcome sets out for every group it is in.
Settle(o, s) ==
  /\ fence[o] = ACTIVE
  /\ Outstanding(o) = {}
  /\ Fire(o, s)
  /\ reports' = reports \cup
                  {[kid |-> o, group |-> g, status |-> s] :
                     g \in {h \in Objs : o \in waiting[h]}}
  /\ waiting' = [g \in Objs |-> waiting[g] \ {o}]
  /\ UNCHANGED <<bad, asked>>

\* An outcome reaches a group; the last one settles it.
Deliver(r) ==
  LET g == r.group IN
  /\ r \in reports
  /\ reports' = reports \ {r}
  /\ bad' = [bad EXCEPT ![g] = @ \/ r.status = ERROR]
  /\ IF Outstanding(g) = {r.kid} /\ r.kid \notin waiting[g]
       THEN Fire(g, IF bad'[g] THEN ERROR ELSE SUCCESS)
       ELSE UNCHANGED <<fence, due, pend>>
  /\ UNCHANGED <<waiting, asked>>

MergeCall(t, K) ==
  /\ asked[t] = {}
  /\ Cardinality(K) > 1
  /\ asked' = [asked EXCEPT ![t] = K]
  /\ UNCHANGED <<fence, waiting, reports, bad, pend, due>>

\* No free id is left.
MergeFails(t) ==
  /\ asked[t] # {}
  /\ asked' = [asked EXCEPT ![t] = {}]
  /\ UNCHANGED <<fence, waiting, reports, bad, pend, due>>

\* The group g appears.  Late kids settled during the call: their outcome is on its way.
Merge(t, g, late) ==
  LET K == asked[t]
      active == {k \in K : fence[k] = ACTIVE}
      failed == \E k \in K \ (active \cup late) : fence[k] = ERROR
  IN
  /\ K # {}
  /\ fence[g] = FREE
  /\ \A k \in K : fence[k] # FREE
  /\ late \subseteq K \ active
  /\ fence' = [fence EXCEPT ![g] = IF active \cup late # {} THEN ACTIVE
                                   ELSE IF failed THEN ERROR ELSE SUCCESS]
  /\ waiting' = [waiting EXCEPT ![g] = active]
  /\ reports' = reports \cup {[kid |-> k, group |-> g, status |-> fence[k]] : k \in late}
  /\ bad' = [bad EXCEPT ![g] = failed]
  /\ asked' = [asked EXCEPT ![t] = {}]
  /\ UNCHANGED <<pend, due>>

Register(o, cb) ==
  /\ fence[o] # FREE
  /\ IF fence[o] = ACTIVE
       THEN pend' = [pend EXCEPT ![o][cb] = @ + 1] /\ UNCHANGED due
       ELSE /\ due' = [due EXCEPT ![[cb |-> cb, obj |-> o, status |-> fence[o]]] = @ + 1]
            /\ UNCHANGED pend
  /\ UNCHANGED <<fence, waiting, reports, bad, asked>>

Deregister(o, cb) ==
  /\ pend' = [pend EXCEPT ![o][cb] = 0]
  /\ UNCHANGED <<fence, waiting, reports, bad, due, asked>>

Run(w) ==
  /\ due[w] > 0
  /\ due' = [due EXCEPT ![w] = @ - 1]
  /\ UNCHANGED <<fence, waiting, reports, bad, pend, asked>>

Destroy(o) ==
  /\ fence[o] \in Settled
  /\ fence' = [fence EXCEPT ![o] = FREE]
  /\ bad' = [bad EXCEPT ![o] = FALSE]
  /\ UNCHANGED <<waiting, reports, pend, due, asked>>

Next ==
  \/ \E o \in Objs : \/ Create(o) \/ Destroy(o)
                     \/ \E s \in Settled : Settle(o, s)
                     \/ \E cb \in Cbs : Register(o, cb) \/ Deregister(o, cb)
  \/ \E r \in Reports : Deliver(r)
  \/ \E w \in CbWork : Run(w)
  \/ \E t \in Threads : \/ MergeFails(t)
                        \/ \E K \in SUBSET Objs : MergeCall(t, K)
                        \/ \E g \in Objs, late \in SUBSET Objs : Merge(t, g, late)

Spec == Init /\ [][Next]_vars
=============================================================================
