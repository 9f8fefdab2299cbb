--------------------------- MODULE CamWorkqProofs ---------------------------
(***************************************************************************)
(* Proofs about CamWorkq, for every pool size and number of callers.       *)
(***************************************************************************)
EXTENDS CamWorkq, FiniteSetTheorems, SequenceTheorems, TLAPS

Inv == TypeOK /\ PoolConserved /\ NoTaskStranded /\ DrainedBeforeFree

-----------------------------------------------------------------------------
(* Lists                                                                    *)

\* list_add_tail
LEMMA AppendElems ==
  ASSUME NEW S, NEW s \in Seq(S), NEW x \in S
  PROVE  /\ Elems(Append(s, x)) = Elems(s) \cup {x}
         /\ NoDup(s) /\ x \notin Elems(s) => NoDup(Append(s, x))
<1>1. /\ Append(s, x) \in Seq(S) /\ Len(Append(s, x)) = Len(s) + 1 /\ Len(s) \in Nat
      /\ \A n \in 1 .. Len(s) : Append(s, x)[n] = s[n]
      /\ Append(s, x)[Len(s) + 1] = x
  OBVIOUS
<1>2. Elems(Append(s, x)) = Elems(s) \cup {x}
  <2>1. ASSUME NEW y \in Elems(Append(s, x))  PROVE y \in Elems(s) \cup {x}
    BY <1>1, <2>1 DEF Elems
  <2>2. ASSUME NEW y \in Elems(s) \cup {x}  PROVE y \in Elems(Append(s, x))
    <3>1. CASE y = x
      BY <1>1, <3>1 DEF Elems
    <3>2. CASE y \in Elems(s)
      BY <1>1, <3>2 DEF Elems
    <3> QED BY <2>2, <3>1, <3>2
  <2> QED BY <2>1, <2>2
<1>3. ASSUME NoDup(s), x \notin Elems(s)  PROVE NoDup(Append(s, x))
  BY <1>1, <1>3 DEF NoDup, Elems
<1> QED BY <1>2, <1>3

\* Taking the first element off a list without duplicates
LEMMA TailElems ==
  ASSUME NEW S, NEW s \in Seq(S), s # <<>>, NoDup(s)
  PROVE  /\ Head(s) \in S /\ Head(s) \in Elems(s) /\ Tail(s) \in Seq(S)
         /\ Elems(Tail(s)) = Elems(s) \ {Head(s)}
         /\ NoDup(Tail(s)) /\ Len(Tail(s)) = Len(s) - 1
<1>1. /\ Len(s) \in Nat /\ Len(s) > 0 /\ Head(s) = s[1] /\ Head(s) \in S
      /\ Tail(s) \in Seq(S) /\ Len(Tail(s)) = Len(s) - 1
      /\ \A n \in 1 .. Len(s) - 1 : Tail(s)[n] = s[n + 1]
  OBVIOUS
<1>2. Head(s) \in Elems(s)
  BY <1>1 DEF Elems
<1>3. NoDup(Tail(s))
  BY <1>1 DEF NoDup
<1>4. Elems(Tail(s)) = Elems(s) \ {Head(s)}
  <2>1. ASSUME NEW y \in Elems(Tail(s))  PROVE y \in Elems(s) \ {Head(s)}
    <3>1. PICK n \in 1 .. Len(s) - 1 : y = s[n + 1]
      BY <1>1, <2>1 DEF Elems
    <3> QED BY <1>1, <3>1 DEF Elems, NoDup
  <2>2. ASSUME NEW y \in Elems(s) \ {Head(s)}  PROVE y \in Elems(Tail(s))
    <3>1. PICK n \in 1 .. Len(s) : y = s[n]
      BY <2>2 DEF Elems
    <3>2. n - 1 \in 1 .. Len(s) - 1 /\ Tail(s)[n - 1] = s[n]
      BY <1>1, <2>2, <3>1
    <3> QED BY <1>1, <3>1, <3>2 DEF Elems
  <2> QED BY <2>1, <2>2
<1> QED BY <1>1, <1>2, <1>3, <1>4

\* There are two priorities
LEMMA TwoPrios == Prios = {0, 1} /\ CRM_TASK_PRIORITY_MAX = 2 /\ CRM_TASK_PRIORITY_0 = 0
BY DEF Prios, CRM_TASK_PRIORITY_0, CRM_TASK_PRIORITY_MAX

\* ... so two lists make up "Queued", before a step and after it
LEMMA TwoLists ==
  /\ Prios = {0, 1} /\ CRM_TASK_PRIORITY_MAX = 2 /\ CRM_TASK_PRIORITY_0 = 0
  /\ Queued = Elems(process_head[0]) \cup Elems(process_head[1])
  /\ Queued' = Elems(process_head'[0]) \cup Elems(process_head'[1])
<1>1. ASSUME NEW f  PROVE UNION {Elems(f[p]) : p \in {0, 1}} = Elems(f[0]) \cup Elems(f[1])
  OBVIOUS
<1> QED BY <1>1, TwoPrios DEF Queued

\* The pool's free list is finite, and counts one more or one less.
LEMMA FreeCount ==
  ASSUME NEW E \in SUBSET Tasks, NEW k \in Tasks
  PROVE  /\ Cardinality(E) \in Nat
         /\ k \in E => Cardinality(E \ {k}) = Cardinality(E) - 1
         /\ k \notin E => Cardinality(E \cup {k}) = Cardinality(E) + 1
<1>1. IsFiniteSet(E)
  BY TasksAssumption, FS_Subset
<1> QED BY <1>1, FS_CardinalityType, FS_RemoveElement, FS_AddElement

-----------------------------------------------------------------------------
(* Initial states and the actions                                           *)

\* Initially there is no queue.
LEMMA InitInv == Init => Inv
<1> SUFFICES ASSUME Init PROVE Inv
  OBVIOUS
<1>0. process_head \in [Prios -> Seq(Tasks)] /\ i \in 0 .. CRM_TASK_PRIORITY_MAX
  BY DEF Init, CRM_TASK_PRIORITY_MAX
<1>1. TypeOK
  <2>1. held \in [Callers -> Tasks \cup {None}] /\ cur \in Tasks \cup {None}
    BY DEF Init
  <2>2. free_cnt \in Int /\ pending_cnt \in Int /\ empty_head \subseteq Tasks
    BY DEF Init
  <2>3. pool \in BOOLEAN /\ job \in BOOLEAN /\ work_pending \in BOOLEAN
    BY Zenon DEF Init
  <2> QED BY <1>0, <2>1, <2>2, <2>3 DEF TypeOK
<1>2. Elems(process_head[0]) = {} /\ Elems(process_head[1]) = {}
  BY TwoLists DEF Init, Elems
<1>3. Queued = {}
  BY <1>2, TwoLists
<1>4. PoolConserved
  BY <1>2, <1>3, TwoLists, FS_EmptySet DEF Init, PoolConserved, NoDup
<1>5. NoTaskStranded /\ DrainedBeforeFree
  BY <1>3 DEF Init, NoTaskStranded, DrainedBeforeFree
<1> QED BY <1>1, <1>4, <1>5 DEF Inv

\* PoolConserved, list by list
LEMMA PoolDef ==
  PoolConserved <=>
    LET a == process_head[0]  b == process_head[1] IN
    /\ empty_head \cap (Elems(a) \cup Elems(b)) = {}
    /\ cur \notin empty_head \cup (Elems(a) \cup Elems(b))
    /\ NoDup(a) /\ NoDup(b) /\ Elems(a) \cap Elems(b) = {}
    /\ pool => \A c \in Callers :
         held[c] # None => /\ held[c] \notin empty_head \cup (Elems(a) \cup Elems(b)) \cup {cur}
                           /\ \A d \in Callers : held[d] = held[c] => d = c
    /\ free_cnt = Cardinality(empty_head)
    /\ pending_cnt = Len(a) + Len(b)
<1>1. /\ Prios = {0, 1} /\ Queued = Elems(process_head[0]) \cup Elems(process_head[1])
  BY TwoLists
<1>2. (\A p \in Prios : NoDup(process_head[p])) <=> NoDup(process_head[0]) /\ NoDup(process_head[1])
  BY <1>1
<1>3. (\A p, q \in Prios : p # q => Elems(process_head[p]) \cap Elems(process_head[q]) = {})
        <=> Elems(process_head[0]) \cap Elems(process_head[1]) = {}
  BY <1>1
<1> QED BY <1>1, <1>2, <1>3, Zenon DEF PoolConserved

\* cam_req_mgr_workq_create
LEMMA CreateInv == ASSUME Inv, Create  PROVE Inv'
<1>0. process_head' \in [Prios -> Seq(Tasks)]
  BY DEF Create
<1>1. TypeOK'
  <2>1. Cardinality(Tasks) \in Nat
    BY TasksAssumption, FS_CardinalityType
  <2> QED BY <1>0, <2>1 DEF Inv, TypeOK, Create
<1>2. Elems(process_head[0])' = {} /\ Elems(process_head[1])' = {}
  BY TwoLists DEF Create, Elems
<1>3. cur = None /\ ~work_pending
  BY DEF Inv, DrainedBeforeFree, Create
<1>4. PoolConserved'
  <2>1. Queued' = {}
    BY <1>2, TwoLists
  <2>2. \A p \in Prios : NoDup(process_head[p])' /\ process_head'[p] = <<>>
    BY DEF Create, NoDup
  <2>3. cur' \notin Tasks
    BY <1>3, TasksAssumption DEF Create
  <2> QED BY <1>2, <2>1, <2>2, <2>3, TwoLists DEF Create, PoolConserved
<1>5. NoTaskStranded'
  BY <1>3 DEF Create, NoTaskStranded, Running
<1>6. DrainedBeforeFree'
  BY DEF Create, DrainedBeforeFree
<1> QED BY <1>1, <1>4, <1>5, <1>6 DEF Inv

\* cam_req_mgr_workq_get_task
LEMMA GetTaskInv == ASSUME Inv, NEW c \in Callers, GetTask(c)  PROVE Inv'
<1>1. PICK k \in empty_head : empty_head' = empty_head \ {k} /\ held' = [held EXCEPT ![c] = k]
  BY DEF GetTask
<1>2. k \in Tasks /\ empty_head \subseteq Tasks /\ k # None /\ held \in [Callers -> Tasks \cup {None}]
  BY <1>1, TasksAssumption DEF Inv, TypeOK
<1>3. /\ pool /\ UNCHANGED <<pool, job, process_head, pending_cnt, work_pending, i, cur>>
      /\ free_cnt' = free_cnt - 1
  BY DEF GetTask
<1>4. TypeOK'
  BY <1>1, <1>2, <1>3 DEF Inv, TypeOK
<1>5. Cardinality(empty_head') = Cardinality(empty_head) - 1
  BY <1>1, <1>2, FreeCount
<1>6. Queued' = Queued
  BY <1>3 DEF Queued
<1>7. \A d \in Callers : held'[d] = IF d = c THEN k ELSE held[d]
  BY <1>1, <1>2
<1>8. k \notin Queued /\ k # cur /\ \A d \in Callers : held[d] # k
  BY <1>2, <1>3 DEF Inv, PoolConserved
<1>9. PoolConserved'
  <2>1. ASSUME NEW d \in Callers, held'[d] # None
        PROVE  /\ held'[d] \notin empty_head' \cup Queued' \cup {cur'}
               /\ \A e \in Callers : held'[e] = held'[d] => e = d
    BY <1>1, <1>3, <1>6, <1>7, <1>8, <2>1 DEF Inv, PoolConserved
  <2>2. /\ empty_head' \cap Queued' = {} /\ cur' \notin empty_head' \cup Queued'
        /\ \A p \in Prios : NoDup(process_head'[p])
        /\ \A p, q \in Prios : p # q => Elems(process_head'[p]) \cap Elems(process_head'[q]) = {}
        /\ free_cnt' = Cardinality(empty_head')
        /\ pending_cnt' = Len(process_head'[0]) + Len(process_head'[1])
    BY <1>1, <1>3, <1>5, <1>6 DEF Inv, PoolConserved
  <2> QED BY <2>1, <2>2 DEF PoolConserved
<1>10. NoTaskStranded' /\ DrainedBeforeFree'
  BY <1>3, <1>6 DEF Inv, NoTaskStranded, DrainedBeforeFree, Running
<1> QED BY <1>4, <1>9, <1>10 DEF Inv

\* cam_req_mgr_workq_enqueue_task with the queue up
LEMMA EnqueueInv ==
  ASSUME Inv, NEW c \in Callers, NEW prio \in AskPrios, EnqueueTask(c, prio)  PROVE Inv'
<1>1. PICK k \in Tasks : k = held[c]
  BY DEF EnqueueTask, Inv, TypeOK
<1>2. PICK p \in {0, 1} : p = Clamp(prio)
  BY TwoLists DEF Clamp
<1>3. /\ pool /\ job /\ held[c] # None
      /\ process_head' = [process_head EXCEPT ![p] = Append(@, k)]
      /\ pending_cnt' = pending_cnt + 1 /\ work_pending' = TRUE
      /\ held' = [held EXCEPT ![c] = None]
      /\ UNCHANGED <<pool, job, empty_head, free_cnt, i, cur>>
  BY <1>1, <1>2 DEF EnqueueTask
<1>4. process_head \in [{0, 1} -> Seq(Tasks)] /\ held \in [Callers -> Tasks \cup {None}]
  BY TwoLists DEF Inv, TypeOK
<1>2q. PICK q \in {0, 1} : (p = 0 /\ q = 1) \/ (p = 1 /\ q = 0)
  OBVIOUS
<1> DEFINE s == process_head[p]
<1>5. q \in {0, 1} /\ q # p /\ process_head'[p] = Append(s, k) /\ process_head'[q] = process_head[q]
      /\ s \in Seq(Tasks) /\ process_head[q] \in Seq(Tasks)
  BY <1>2q, <1>3, <1>4
<1>6. TypeOK'
  <2>1. process_head' \in [Prios -> Seq(Tasks)]
    BY <1>3, <1>4, <1>5, TwoLists
  <2> QED BY <1>3, <1>4, <2>1 DEF Inv, TypeOK
<1>7. k \notin empty_head /\ k \notin Elems(s) /\ k \notin Elems(process_head[q]) /\ k # cur
      /\ \A d \in Callers : held[d] = k => d = c
  BY <1>1, <1>3, <1>5, PoolDef DEF Inv
<1>8. Elems(process_head'[p]) = Elems(s) \cup {k} /\ NoDup(process_head'[p])
      /\ Len(process_head'[p]) = Len(s) + 1 /\ Len(s) \in Nat /\ Len(process_head[q]) \in Nat
  <2>1. NoDup(s)
    BY <1>5, PoolDef DEF Inv
  <2> QED BY <1>5, <1>7, <2>1, AppendElems
<1>9. Queued' = Queued \cup {k} /\ Queued = Elems(s) \cup Elems(process_head[q])
  <2>1. Queued = Elems(s) \cup Elems(process_head[q])
    BY <1>2q, TwoLists
  <2>2. Queued' = Elems(process_head'[p]) \cup Elems(process_head'[q])
    BY <1>2q, TwoLists
  <2> QED BY <1>5, <1>8, <2>1, <2>2
<1>10. \A d \in Callers : held'[d] = IF d = c THEN None ELSE held[d]
  BY <1>3, <1>4
<1>11. PoolConserved'
  <2>1. ASSUME NEW d \in Callers, held'[d] # None
        PROVE  /\ held'[d] \notin empty_head' \cup Queued' \cup {cur'}
               /\ \A e \in Callers : held'[e] = held'[d] => e = d
    BY <1>3, <1>7, <1>9, <1>10, <2>1 DEF Inv, PoolConserved
  <2>2. empty_head' \cap Queued' = {} /\ cur' \notin empty_head' \cup Queued'
    BY <1>3, <1>7, <1>9 DEF Inv, PoolConserved
  <2>3. \A r \in Prios : NoDup(process_head'[r])
    BY <1>5, <1>8, TwoLists, PoolDef DEF Inv
  <2>4. Elems(process_head'[p]) \cap Elems(process_head'[q]) = {}
    BY <1>5, <1>7, <1>8, PoolDef DEF Inv
  <2>5. \A r, t \in Prios : r # t => Elems(process_head'[r]) \cap Elems(process_head'[t]) = {}
    BY <1>5, <2>4, TwoLists
  <2>6. pending_cnt' = Len(process_head'[0]) + Len(process_head'[1])
    <3>1. pending_cnt = Len(process_head[0]) + Len(process_head[1])
      BY DEF Inv, PoolConserved
    <3>2. PICK m \in Nat : m = Len(process_head[p]) /\ m + 1 = Len(process_head'[p])
      BY <1>8
    <3>3. PICK n \in Nat : n = Len(process_head[q]) /\ n = Len(process_head'[q])
      BY <1>5, <1>8
    <3>4. pending_cnt = m + n /\ (m + 1) + n = Len(process_head'[0]) + Len(process_head'[1])
      <4>1. CASE p = 0 /\ q = 1
        BY <3>1, <3>2, <3>3, <4>1
      <4>2. CASE p = 1 /\ q = 0
        <5>1. pending_cnt = n + m
          BY <3>1, <3>2, <3>3, <4>2, Zenon
        <5>2. n + (m + 1) = Len(process_head'[0]) + Len(process_head'[1])
          BY <3>2, <3>3, <4>2, Zenon
        <5>3. n + m = m + n /\ n + (m + 1) = (m + 1) + n
          OBVIOUS
        <5> QED BY <5>1, <5>2, <5>3, Zenon
      <4> QED BY <1>2q, <4>1, <4>2
    <3>5. pending_cnt' = pending_cnt + 1
      BY <1>3
    <3>6. pending_cnt' = (m + 1) + n
      BY <3>4, <3>5
    <3> QED BY <3>4, <3>6, Zenon
  <2>7. free_cnt' = Cardinality(empty_head')
    BY <1>3 DEF Inv, PoolConserved
  <2> QED BY <2>1, <2>2, <2>3, <2>5, <2>6, <2>7 DEF PoolConserved
<1>12. NoTaskStranded' /\ DrainedBeforeFree'
  BY <1>3 DEF Inv, NoTaskStranded, DrainedBeforeFree, Running
<1> QED BY <1>6, <1>11, <1>12 DEF Inv

\* Enqueuing while the queue goes down, or a cancelled task
LEMMA GiveBackInv ==
  ASSUME Inv, NEW c \in Callers, EnqueueRejected(c) \/ EnqueueCancelled(c)  PROVE Inv'
<1>1. PICK k \in Tasks : k = held[c]
  BY DEF EnqueueRejected, EnqueueCancelled, Inv, TypeOK
<1>2. /\ pool /\ held[c] # None /\ held' = [held EXCEPT ![c] = None]
      /\ UNCHANGED <<pool, job, process_head, pending_cnt, work_pending, i, cur>>
      /\ \/ UNCHANGED <<empty_head, free_cnt>>
         \/ empty_head' = empty_head \cup {k} /\ free_cnt' = free_cnt + 1
  BY <1>1 DEF EnqueueRejected, EnqueueCancelled, lists
<1>3. held \in [Callers -> Tasks \cup {None}] /\ empty_head \subseteq Tasks
  BY DEF Inv, TypeOK
<1>4. TypeOK'
  BY <1>2, <1>3 DEF Inv, TypeOK
<1>5. Queued' = Queued
  BY <1>2 DEF Queued
<1>6. k \notin empty_head \cup Queued /\ k # cur /\ \A d \in Callers : held[d] = k => d = c
  BY <1>1, <1>2 DEF Inv, PoolConserved
<1>7. \A d \in Callers : held'[d] = IF d = c THEN None ELSE held[d]
  BY <1>2, <1>3
<1>8. free_cnt' = Cardinality(empty_head')
  BY <1>2, <1>3, <1>6, FreeCount DEF Inv, PoolConserved
<1>9. PoolConserved'
  <2>1. ASSUME NEW d \in Callers, held'[d] # None
        PROVE  /\ held'[d] \notin empty_head' \cup Queued' \cup {cur'}
               /\ \A e \in Callers : held'[e] = held'[d] => e = d
    BY <1>2, <1>5, <1>6, <1>7, <2>1 DEF Inv, PoolConserved
  <2>2. /\ empty_head' \cap Queued' = {} /\ cur' \notin empty_head' \cup Queued'
        /\ \A p \in Prios : NoDup(process_head'[p])
        /\ \A p, q \in Prios : p # q => Elems(process_head'[p]) \cap Elems(process_head'[q]) = {}
        /\ pending_cnt' = Len(process_head'[0]) + Len(process_head'[1])
    BY <1>2, <1>5, <1>6 DEF Inv, PoolConserved
  <2> QED BY <1>8, <2>1, <2>2 DEF PoolConserved
<1>10. NoTaskStranded' /\ DrainedBeforeFree'
  BY <1>2, <1>5 DEF Inv, NoTaskStranded, DrainedBeforeFree, Running
<1> QED BY <1>4, <1>9, <1>10 DEF Inv

\* The kernel starts the work item; every list is then ahead of the worker.
LEMMA WorkStartInv == ASSUME Inv, WorkStart  PROVE Inv'
<1>1. /\ work_pending /\ work_pending' = FALSE /\ i' = 0
      /\ UNCHANGED <<pool, job, empty_head, process_head, free_cnt, pending_cnt, cur, held>>
  BY TwoPrios DEF WorkStart, lists
<1>2. TypeOK'
  <2>1. i' \in 0 .. CRM_TASK_PRIORITY_MAX
    BY <1>1, TwoPrios
  <2>2. work_pending' \in BOOLEAN
    BY <1>1, Zenon
  <2> QED BY <1>1, <2>1, <2>2 DEF Inv, TypeOK
<1>3. Queued' = Queued
  BY <1>1 DEF Queued
<1>4. PoolConserved'
  BY <1>1, <1>3 DEF Inv, PoolConserved
<1>5. NoTaskStranded'
  BY <1>1, TwoPrios DEF NoTaskStranded, Running
<1>6. DrainedBeforeFree'
  BY <1>1, <1>3 DEF Inv, DrainedBeforeFree
<1> QED BY <1>2, <1>4, <1>5, <1>6 DEF Inv

\* The worker goes past an empty list: the tasks still queued are in lists ahead of it.
LEMMA WorkNextInv == ASSUME Inv, WorkNext  PROVE Inv'
<1>1. /\ Running /\ cur = None /\ process_head[i] = <<>> /\ i' = i + 1
      /\ UNCHANGED <<pool, job, empty_head, process_head, free_cnt, pending_cnt,
                     work_pending, cur, held>>
  BY DEF WorkNext, lists
<1>2. i \in {0, 1}
  BY <1>1, TwoPrios DEF Inv, TypeOK, Running
<1>3. TypeOK'
  <2>1. i' \in 0 .. CRM_TASK_PRIORITY_MAX
    BY <1>1, <1>2, TwoPrios
  <2> QED BY <1>1, <2>1 DEF Inv, TypeOK
<1>4. Queued' = Queued
  BY <1>1 DEF Queued
<1>5. PoolConserved' /\ DrainedBeforeFree'
  BY <1>1, <1>4 DEF Inv, PoolConserved, DrainedBeforeFree
<1>6. NoTaskStranded'
  <2>1. ASSUME NEW p \in Prios, process_head[p] # <<>>, ~work_pending
        PROVE  i + 1 < CRM_TASK_PRIORITY_MAX /\ i + 1 <= p
    <3>1. i <= p /\ i # p /\ p \in {0, 1}
      BY <1>1, <2>1, TwoPrios DEF Inv, NoTaskStranded
    <3> QED BY <1>2, <3>1, TwoPrios
  <2> QED BY <1>1, <2>1 DEF NoTaskStranded, Running
<1> QED BY <1>3, <1>5, <1>6 DEF Inv

\* The worker takes the first task of the list it is at.
LEMMA WorkTakeInv == ASSUME Inv, WorkTake  PROVE Inv'
<1>1. PICK p \in {0, 1}, q \in {0, 1} : p = i /\ ((p = 0 /\ q = 1) \/ (p = 1 /\ q = 0))
  BY TwoPrios DEF WorkTake, Running, Inv, TypeOK
<1> DEFINE s == process_head[p]
<1>2. /\ Running /\ cur = None /\ s # <<>> /\ cur' = Head(s)
      /\ process_head' = [process_head EXCEPT ![p] = Tail(s)]
      /\ pending_cnt' = pending_cnt - 1
      /\ UNCHANGED <<pool, job, empty_head, free_cnt, work_pending, i, held>>
  BY <1>1 DEF WorkTake
<1>3. process_head \in [{0, 1} -> Seq(Tasks)]
  BY TwoPrios DEF Inv, TypeOK
<1>4. process_head'[p] = Tail(s) /\ process_head'[q] = process_head[q]
      /\ s \in Seq(Tasks) /\ process_head[q] \in Seq(Tasks)
  BY <1>1, <1>2, <1>3
<1>5. NoDup(s) /\ NoDup(process_head[q]) /\ Elems(s) \cap Elems(process_head[q]) = {}
  BY <1>1, PoolDef DEF Inv
<1>6. /\ cur' \in Tasks /\ cur' \in Elems(s) /\ process_head'[p] \in Seq(Tasks)
      /\ Elems(process_head'[p]) = Elems(s) \ {cur'} /\ NoDup(process_head'[p])
      /\ Len(process_head'[p]) = Len(s) - 1
  BY <1>2, <1>4, <1>5, TailElems
<1>7. TypeOK'
  <2>1. process_head' \in [Prios -> Seq(Tasks)]
    BY <1>1, <1>2, <1>3, <1>4, <1>6, TwoPrios
  <2>2. pending_cnt' \in Int
    BY <1>2 DEF Inv, TypeOK
  <2> QED BY <1>2, <1>6, <2>1, <2>2 DEF Inv, TypeOK
<1>8. Queued = Elems(s) \cup Elems(process_head[q]) /\ Queued' = Queued \ {cur'}
  <2>1. Queued = Elems(s) \cup Elems(process_head[q])
    BY <1>1, TwoLists
  <2>2. Queued' = Elems(process_head'[p]) \cup Elems(process_head'[q])
    BY <1>1, TwoLists
  <2> QED BY <1>4, <1>5, <1>6, <2>1, <2>2
<1>9. PoolConserved'
  <2>1. empty_head' \cap Queued' = {} /\ cur' \notin empty_head' \cup Queued'
    BY <1>2, <1>6, <1>8 DEF Inv, PoolConserved
  <2>2. \A r \in Prios : NoDup(process_head'[r])
    BY <1>1, <1>4, <1>5, <1>6, TwoPrios
  <2>3. Elems(process_head'[p]) \cap Elems(process_head'[q]) = {}
    BY <1>4, <1>5, <1>6
  <2>4. \A r, t \in Prios : r # t => Elems(process_head'[r]) \cap Elems(process_head'[t]) = {}
    BY <1>1, <2>3, TwoPrios
  <2>5. ASSUME pool', NEW d \in Callers, held'[d] # None
        PROVE  /\ held'[d] \notin empty_head' \cup Queued' \cup {cur'}
               /\ \A e \in Callers : held'[e] = held'[d] => e = d
    BY <1>2, <1>6, <1>8, <2>5 DEF Inv, PoolConserved
  <2>6. pending_cnt' = Len(process_head'[0]) + Len(process_head'[1])
    <3>1. pending_cnt = Len(process_head[0]) + Len(process_head[1])
      BY DEF Inv, PoolConserved
    <3>2. PICK m \in Int : m = Len(process_head[p]) /\ m - 1 = Len(process_head'[p])
      BY <1>4, <1>6
    <3>3. PICK n \in Int : n = Len(process_head[q]) /\ n = Len(process_head'[q])
      BY <1>4
    <3>4. pending_cnt = m + n /\ (m - 1) + n = Len(process_head'[0]) + Len(process_head'[1])
      <4>1. CASE p = 0 /\ q = 1
        BY <3>1, <3>2, <3>3, <4>1, Zenon
      <4>2. CASE p = 1 /\ q = 0
        <5>1. pending_cnt = n + m
          BY <3>1, <3>2, <3>3, <4>2, Zenon
        <5>2. n + (m - 1) = Len(process_head'[0]) + Len(process_head'[1])
          BY <3>2, <3>3, <4>2, Zenon
        <5>3. n + m = m + n /\ n + (m - 1) = (m - 1) + n
          OBVIOUS
        <5> QED BY <5>1, <5>2, <5>3, Zenon
      <4> QED BY <1>1, <4>1, <4>2
    <3>5. pending_cnt' = pending_cnt - 1
      BY <1>2
    <3>6. pending_cnt' = (m - 1) + n
      BY <3>4, <3>5
    <3> QED BY <3>4, <3>6, Zenon
  <2>7. free_cnt' = Cardinality(empty_head')
    BY <1>2 DEF Inv, PoolConserved
  <2> QED BY <2>1, <2>2, <2>4, <2>5, <2>6, <2>7 DEF PoolConserved
<1>10. NoTaskStranded'
  <2>1. ASSUME NEW r \in Prios, process_head'[r] # <<>>
        PROVE  work_pending' \/ (Running' /\ i' <= r)
    <3>1. CASE r = p
      BY <1>1, <1>2, <3>1 DEF Running
    <3>2. CASE r = q
      BY <1>2, <1>4, <2>1, <3>2 DEF Inv, NoTaskStranded, Running
    <3> QED BY <1>1, <3>1, <3>2, TwoPrios
  <2>2. Running'
    BY <1>2 DEF Running
  <2> QED BY <2>1, <2>2 DEF NoTaskStranded
<1>11. DrainedBeforeFree'
  BY <1>2, <1>6, <1>8 DEF Inv, DrainedBeforeFree
<1> QED BY <1>7, <1>9, <1>10, <1>11 DEF Inv

\* process_cb returns and the task goes back into the pool.
LEMMA ProcessTaskInv == ASSUME Inv, ProcessTask  PROVE Inv'
<1>1. /\ cur # None /\ empty_head' = empty_head \cup {cur}
      /\ free_cnt' = free_cnt + 1 /\ cur' = None
      /\ UNCHANGED <<pool, job, process_head, pending_cnt, work_pending, i, held>>
  BY DEF ProcessTask
<1>2. cur \in Tasks /\ empty_head \subseteq Tasks /\ cur' \notin Tasks
  BY <1>1, TasksAssumption DEF Inv, TypeOK
<1>3. TypeOK'
  BY <1>1, <1>2 DEF Inv, TypeOK
<1>4. Queued' = Queued
  BY <1>1 DEF Queued
<1>5. Queued \subseteq Tasks
  <2>1. process_head[0] \in Seq(Tasks) /\ process_head[1] \in Seq(Tasks)
    BY TwoPrios DEF Inv, TypeOK
  <2>2. ASSUME NEW s \in Seq(Tasks)  PROVE Elems(s) \subseteq Tasks
    BY DEF Elems
  <2> QED BY <2>1, <2>2, TwoLists
<1>6. cur \notin empty_head \cup Queued
  BY DEF Inv, PoolConserved
<1>7. PoolConserved'
  <2>1. empty_head' \cap Queued' = {} /\ cur' \notin empty_head' \cup Queued'
    BY <1>1, <1>2, <1>4, <1>5, <1>6 DEF Inv, PoolConserved
  <2>2. ASSUME pool', NEW d \in Callers, held'[d] # None
        PROVE  /\ held'[d] \notin empty_head' \cup Queued' \cup {cur'}
               /\ \A e \in Callers : held'[e] = held'[d] => e = d
    BY <1>1, <1>4, <2>2 DEF Inv, PoolConserved
  <2>3. free_cnt' = Cardinality(empty_head')
    BY <1>1, <1>2, <1>6, FreeCount DEF Inv, PoolConserved
  <2>4. /\ \A p \in Prios : NoDup(process_head'[p])
        /\ \A p, q \in Prios : p # q => Elems(process_head'[p]) \cap Elems(process_head'[q]) = {}
        /\ pending_cnt' = Len(process_head'[0]) + Len(process_head'[1])
    BY <1>1 DEF Inv, PoolConserved
  <2> QED BY <2>1, <2>2, <2>3, <2>4 DEF PoolConserved
<1>8. NoTaskStranded' /\ DrainedBeforeFree'
  BY <1>1, <1>4 DEF Inv, NoTaskStranded, DrainedBeforeFree, Running
<1> QED BY <1>3, <1>7, <1>8 DEF Inv

\* cam_req_mgr_workq_destroy: with the item idle nothing is left in the lists.
LEMMA DestroyInv == ASSUME Inv, DestroyBegin \/ DestroyFree  PROVE Inv'
<1>1. UNCHANGED <<empty_head, process_head, free_cnt, pending_cnt, work_pending, i, cur, held>>
  BY DEF DestroyBegin, DestroyFree, lists
<1>2. pool /\ job' \in BOOLEAN /\ pool' \in BOOLEAN
  <2>1. job \in BOOLEAN /\ pool \in BOOLEAN
    BY DEF Inv, TypeOK
  <2> QED BY <2>1, Zenon DEF DestroyBegin, DestroyFree
<1>3. TypeOK'
  BY <1>1, <1>2 DEF Inv, TypeOK
<1>4. Queued' = Queued
  BY <1>1 DEF Queued
<1>5. PoolConserved' /\ NoTaskStranded'
  BY <1>1, <1>2, <1>4 DEF Inv, PoolConserved, NoTaskStranded, Running
<1>6. DrainedBeforeFree'
  <2>1. CASE DestroyBegin
    BY <1>2, <2>1 DEF DestroyBegin, DrainedBeforeFree
  <2>2. CASE DestroyFree
    <3>1. ~work_pending /\ ~Running
      BY <2>2 DEF DestroyFree
    <3>2. cur = None /\ process_head[0] = <<>> /\ process_head[1] = <<>>
      BY <3>1, TwoPrios DEF Inv, NoTaskStranded
    <3>3. Queued = {}
      BY <3>2, TwoLists DEF Elems
    <3> QED BY <1>1, <1>4, <3>1, <3>2, <3>3 DEF DrainedBeforeFree
  <2> QED BY <2>1, <2>2
<1> QED BY <1>3, <1>5, <1>6 DEF Inv

-----------------------------------------------------------------------------

\* Every step preserves the invariant.
LEMMA StepInv == Inv /\ [Next]_vars => Inv'
<1> SUFFICES ASSUME Inv, [Next]_vars  PROVE Inv'
  OBVIOUS
<1>1. CASE UNCHANGED vars
  <2>1. Queued' = Queued
    BY <1>1 DEF vars, Queued
  <2> QED BY <1>1, <2>1
        DEF vars, Inv, TypeOK, PoolConserved, NoTaskStranded, DrainedBeforeFree, Running
<1>2. CASE Worker
  BY <1>2, WorkStartInv, WorkTakeInv, ProcessTaskInv, WorkNextInv DEF Worker
<1>3. CASE Create \/ DestroyBegin \/ DestroyFree
  BY <1>3, CreateInv, DestroyInv
<1>4. ASSUME NEW c \in Callers, Caller(c)  PROVE Inv'
  BY <1>4, GetTaskInv, EnqueueInv, GiveBackInv DEF Caller
<1> QED BY <1>1, <1>2, <1>3, <1>4 DEF Next

\* The inductive invariant holds in every reachable state.
LEMMA Invariant == Spec => []Inv
BY InitInv, StepInv, PTL DEF Spec

\* Every variable of the task queue keeps its type, for any pool, any callers.
THEOREM TypeCorrect == Spec => []TypeOK
<1>1. Inv => TypeOK
  BY DEF Inv
<1> QED BY <1>1, Invariant, PTL

\* A task of the pool is in one place at a time and the counters count, for any number of
\* tasks and of callers (cam_req_mgr_workq_get_task, put_task, enqueue_task, the worker).
THEOREM TasksConserved == Spec => []PoolConserved
<1>1. Inv => PoolConserved
  BY DEF Inv
<1> QED BY <1>1, Invariant, PTL

\* cam_req_mgr_workq_enqueue_task loses no wakeup against cam_req_mgr_process_workq.
THEOREM NoLostTask == Spec => []NoTaskStranded
<1>1. Inv => NoTaskStranded
  BY DEF Inv
<1> QED BY <1>1, Invariant, PTL

\* cam_req_mgr_workq_destroy frees the pool only when every accepted task was served.
THEOREM DestroyDrains == Spec => []DrainedBeforeFree
<1>1. Inv => DrainedBeforeFree
  BY DEF Inv
<1> QED BY <1>1, Invariant, PTL
=============================================================================
