--------------------------- MODULE CamSyncRefines ---------------------------
(***************************************************************************)
(* CamSync implements CamFence for clients that keep the contract.         *)
(***************************************************************************)
EXTENDS CamSync

\* The abstract view: a row under construction does not exist yet, a group is active
\* until its last child has reported.
Hidden(o) == ~Free(o) \/ row[o].state = INVALID

fenceBar   == [o \in Objs |-> IF Hidden(o) THEN INVALID
                              ELSE IF Complete(row[o]) THEN row[o].state ELSE ACTIVE]
waitingBar == [g \in Objs |-> {c \in Objs : Free(g) /\ g \in row[c].parents_list}]
reportsBar == {[kid |-> th[q[1]].obj, group |-> q[2], status |-> th[q[1]].st] :
                 q \in {p \in Threads \X Objs : /\ th[p[1]].pc = "signal_parents"
                                                /\ p[2] \in th[p[1]].folks
                                                /\ Free(p[2])}}
badBar     == [g \in Objs |-> ~Hidden(g) /\ row[g].type = "GROUP" /\ row[g].state = ERROR]
pendBar    == [o \in Objs |-> row[o].callback_list]
askedBar   == [t \in Threads |-> IF Merging(t) THEN th[t].todo \cup th[t].done ELSE {}]

Fence == INSTANCE CamFence WITH
  fence <- fenceBar, waiting <- waitingBar, reports <- reportsBar, bad <- badBar,
  pend <- pendBar, due <- workq, asked <- askedBar

\* The driver implements CamFence: groups settle exactly when, and as, their children
\* say, and every callback becomes due exactly once, with the settled status.
ImplementsFence == Fence!Spec
=============================================================================
