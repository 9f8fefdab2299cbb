--------------------------- MODULE CamLinkProofs ---------------------------
(***************************************************************************)
(* Proofs about CamLink, for any devices, delays and sizes of the ring.    *)
(* Type correctness, whatever userspace and the devices do: the indices    *)
(* stay in the ring and every slot holds a request that was scheduled, or  *)
(* none.  And what is sent is ready, if userspace does not write over a    *)
(* slot in use.                                                            *)
(***************************************************************************)
EXTENDS CamLink, FiniteSetTheorems, WellFoundedInduction, TLAPS

-----------------------------------------------------------------------------
(* Types.  TypeOK is inductive with the types of the tables and the tasks.  *)

Slot == [req : Reqs \cup {NoReq}, status : {"NO_REQ", "ADDED", "PENDING", "APPLIED"},
         skip : BOOLEAN, recover : BOOLEAN]
Tbl  == [ready : SUBSET Devs, inject : Nat, hdl : Devs \cup {"none"}, skip_next : BOOLEAN,
         is_applied : BOOLEAN]
Asked == [delay : Nat, skip_next : BOOLEAN]

Link ==
  [slot : [Idx -> Slot], rd : Idx, wr : Idx, last_applied : Idx \cup {-1},
   tbl : [PDs -> [Idx -> Tbl]], skip_traverse : [PDs -> 0 .. max_delay],
   state : {"READY", "ERR"}, retry_cnt : 0 .. 1, last_flush_id : Reqs \cup {0}]

TaskType ==
  [type : {"add"}, req : Reqs, dev : Devs, ask : Asked]
  \cup [type : {"all", "cancel", "err"}, req : Reqs]
  \cup [type : {"sof"}, req : Reqs \cup {0}] \cup [type : {"stop"}, req : {NoReq}]

TypeInv ==
  /\ link \in Link /\ tasks \in Seq(TaskType)
  /\ next \in 1 .. MaxReq + 1 /\ done \in Reqs \cup {0}

\* The task of a stop stays at the head of the queue until it is processed to its end.
Busy == stopping => tasks # <<>>

-----------------------------------------------------------------------------
(* The ring                                                                 *)

\* The delays are 0, 1 or 2, and one of them is the largest.
LEMMA DelayFacts ==
  /\ PDs \subseteq 0 .. 2 /\ max_delay \in PDs /\ \A p \in PDs : max_delay - p \in 0 .. max_delay
  /\ max_delay \in 0 .. 2 /\ NumSlots \in Nat \ {0} /\ \A d \in Devs : PD[d] \in PDs
<1>1. PDs \subseteq 0 .. 2 /\ NumSlots \in Nat /\ \A d \in Devs : PD[d] \in PDs
  BY LinkAssumption DEF PDs
<1>2. PDs # {}
  <2>1. 1 \in 1 .. Len(DevSeq)
    BY LinkAssumption
  <2>2. DevSeq[1] \in Devs
    BY <2>1 DEF Devs
  <2> QED BY <2>2 DEF PDs
<1>3. \E p \in PDs : \A q \in PDs : q <= p
  <2>1. CASE 2 \in PDs
    BY <1>1, <2>1
  <2>2. CASE 2 \notin PDs /\ 1 \in PDs
    <3>1. \A q \in PDs : q <= 1
      BY <1>1, <2>2
    <3> QED BY <2>2, <3>1
  <2>3. CASE 2 \notin PDs /\ 1 \notin PDs
    <3>1. \A q \in PDs : q = 0
      BY <1>1, <2>3
    <3> QED BY <1>2, <3>1
  <2> QED BY <2>1, <2>2, <2>3
<1>4. max_delay \in PDs /\ \A q \in PDs : q <= max_delay
  BY <1>3 DEF max_delay
<1> QED BY <1>1, <1>4, LinkAssumption

\* Indices stay in the ring.
LEMMA IdxFacts ==
  /\ 0 \in Idx /\ \A i \in Idx : Inc(i) \in Idx
  /\ \A i \in Idx, n \in Nat : Dec(i, n) \in Idx
  /\ \A k \in Link, p \in PDs : At(k, p) \in Idx
<1>1. NumSlots \in Nat \ {0}
  BY DelayFacts
<1>2. ASSUME NEW n \in Int  PROVE n % NumSlots \in Idx
  BY <1>1 DEF Idx
<1>3. \A i \in Idx, n \in Nat : Dec(i, n) \in Idx
  BY <1>1, <1>2 DEF Dec, Idx
<1>4. \A k \in Link, p \in PDs : At(k, p) \in Idx
  BY <1>3, DelayFacts DEF At, Link
<1> QED BY <1>1, <1>2, <1>3, <1>4 DEF Inc, Idx

\* A set of numbers has a least one.
LEMMA LeastNat ==
  ASSUME NEW S \in SUBSET Nat, S # {}  PROVE \E x \in S : \A m \in S : x <= m
<1>1. PICK x \in S : \A m \in S : ~(<<m, x>> \in OpToRel(<, Nat))
  BY WFMin, NatLessThanWellFounded, Zenon
<1>2. ASSUME NEW m \in S  PROVE x <= m
  <2>1. ~(m < x)
    <3> SUFFICES ASSUME m < x PROVE FALSE
      OBVIOUS
    <3>1. <<m, x>> \in {ss \in Nat \X Nat : ss[1] < ss[2]}
      OBVIOUS
    <3> QED BY <1>1, <3>1, Zenon DEF OpToRel
  <2> QED BY <2>1
<1> QED BY <1>2

\* The search finds a slot with the request, or says -1.
LEMMA FindFacts ==
  ASSUME NEW k \in Link, NEW r  PROVE FindSlot(k, r) \in Idx \cup {-1}
<1> DEFINE at == {n \in Idx : k.slot[Dec(k.rd, n)].req = r}
           n == CHOOSE n \in at : \A m \in at : n <= m
<1>1. CASE at = {}
  BY <1>1 DEF FindSlot
<1>2. CASE at # {}
  <2>1. at \subseteq Nat
    BY DEF Idx
  <2>2. \E x \in at : \A m \in at : x <= m
    <3> HIDE DEF at
    <3> QED BY <1>2, <2>1, LeastNat
  <2>3. n \in at
    BY <2>2
  <2>4. n \in Nat
    BY <2>1, <2>3
  <2> HIDE DEF n, at
  <2>5. Dec(k.rd, n) \in Idx
    BY <2>4, IdxFacts DEF Link
  <2> QED BY <1>2, <2>5 DEF FindSlot, n, at
<1> QED BY <1>1, <1>2

\* Setting a field of a link keeps it a link.
LEMMA FieldFacts ==
  ASSUME NEW k \in Link
  PROVE  /\ \A i \in Idx, x \in Slot : [k EXCEPT !.slot[i] = x] \in Link
         /\ \A i \in Idx : [k EXCEPT !.rd = i] \in Link /\ [k EXCEPT !.wr = i] \in Link
         /\ \A i \in Idx \cup {-1} : [k EXCEPT !.last_applied = i] \in Link
         /\ \A f \in [PDs -> [Idx -> Tbl]] : [k EXCEPT !.tbl = f] \in Link
         /\ \A f \in [Idx -> Slot] : [k EXCEPT !.slot = f] \in Link
BY DEF Link

LEMMA StateFacts ==
  ASSUME NEW k \in Link
  PROVE  /\ \A n \in 0 .. 1 : [k EXCEPT !.retry_cnt = n] \in Link
         /\ \A st \in {"READY", "ERR"} : [k EXCEPT !.state = st] \in Link
         /\ \A r \in Reqs \cup {0} : [k EXCEPT !.last_flush_id = r] \in Link
         /\ \A f \in [PDs -> 0 .. max_delay] : [k EXCEPT !.skip_traverse = f] \in Link
BY DEF Link

LEMMA SlotFacts ==
  /\ EmptySlot \in Slot /\ [EmptySlot EXCEPT !.skip = TRUE] \in Slot
  /\ \A s \in Slot : \A st \in {"NO_REQ", "ADDED", "PENDING", "APPLIED"} :
       /\ [s EXCEPT !.status = st] \in Slot
       /\ [s EXCEPT !.req = NoReq, !.skip = TRUE, !.status = "ADDED"] \in Slot
BY DEF Slot, EmptySlot

\* The operations on the ring return links.
LEMMA RingFacts ==
  ASSUME NEW k \in Link
  PROVE  /\ \A st \in {"ADDED", "PENDING", "APPLIED"} : SetStatus(k, st) \in Link
         /\ \A S : ClearTbl(k, S) \in Link
         /\ \A i \in Idx \cup {-1} : ResetSlot(k, i) \in Link
         /\ \A i \in Idx : SkipIdx(k, i) \in Link
         /\ FlushSlots(k) \in Link
<1>1. ASSUME NEW st \in {"ADDED", "PENDING", "APPLIED"}  PROVE SetStatus(k, st) \in Link
  <2>1. k.rd \in Idx /\ k.slot[k.rd] \in Slot
    BY DEF Link
  <2>2. [k.slot[k.rd] EXCEPT !.status = st] \in Slot
    BY <2>1, SlotFacts
  <2>3. SetStatus(k, st) = [k EXCEPT !.slot[k.rd] = [k.slot[k.rd] EXCEPT !.status = st]]
    BY DEF SetStatus, Link
  <2> QED BY <2>1, <2>2, <2>3, FieldFacts
<1>2. ASSUME NEW S, NEW j \in Link  PROVE ClearTbl(j, S) \in Link
  <2> DEFINE f == [p \in PDs |-> [i \in Idx |->
                     IF i \in S THEN [j.tbl[p][i] EXCEPT !.ready = {}] ELSE j.tbl[p][i]]]
  <2>1. ASSUME NEW p \in PDs, NEW i \in Idx
        PROVE  (IF i \in S THEN [j.tbl[p][i] EXCEPT !.ready = {}] ELSE j.tbl[p][i]) \in Tbl
    <3>1. j.tbl[p][i] \in Tbl
      BY DEF Link
    <3>2. [j.tbl[p][i] EXCEPT !.ready = {}] \in Tbl
      BY <3>1 DEF Tbl
    <3> QED BY <3>1, <3>2
  <2>2. f \in [PDs -> [Idx -> Tbl]]
    BY <2>1
  <2>3. ClearTbl(j, S) = [j EXCEPT !.tbl = f]
    BY DEF ClearTbl
  <2> HIDE DEF f
  <2> QED BY <2>2, <2>3, FieldFacts
<1>3. ASSUME NEW i \in Idx \cup {-1}  PROVE ResetSlot(k, i) \in Link
  <2>1. CASE i < 0 \/ k.last_applied = i \/ k.slot[i].status = "ADDED"
    BY <2>1 DEF ResetSlot
  <2>2. CASE ~(i < 0 \/ k.last_applied = i \/ k.slot[i].status = "ADDED")
    <3>1. i \in Idx
      BY <2>2
    <3>2. [k EXCEPT !.slot[i] = EmptySlot] \in Link
      BY <3>1, FieldFacts, SlotFacts
    <3> QED BY <1>2, <2>2, <3>2 DEF ResetSlot
  <2> QED BY <2>1, <2>2
<1>4. ASSUME NEW i \in Idx  PROVE SkipIdx(k, i) \in Link
  <2>1. k.slot[i] \in Slot
    BY DEF Link
  <2>2. [k.slot[i] EXCEPT !.req = NoReq, !.skip = TRUE, !.status = "ADDED"] \in Slot
    BY <2>1, SlotFacts
  <2>3. SkipIdx(k, i)
          = [k EXCEPT !.slot[i] = [k.slot[i] EXCEPT !.req = NoReq, !.skip = TRUE, !.status = "ADDED"]]
    BY DEF SkipIdx, Link
  <2> QED BY <2>2, <2>3, FieldFacts
<1>5. FlushSlots(k) \in Link
  <2> DEFINE f == [i \in Idx |-> [EmptySlot EXCEPT !.skip = TRUE]]
  <2>1. f \in [Idx -> Slot]
    BY SlotFacts
  <2>2. FlushSlots(k) = ClearTbl([k EXCEPT !.slot = f], Idx)
    BY DEF FlushSlots
  <2> HIDE DEF f
  <2> QED BY <1>2, <2>1, <2>2, FieldFacts
<1> QED BY <1>1, <1>2, <1>3, <1>4, <1>5

-----------------------------------------------------------------------------
(* Sending a request                                                        *)

\* Changing entries of the tables keeps a link.
LEMMA TblFacts ==
  ASSUME NEW k \in Link, NEW p \in PDs, NEW i \in Idx
  PROVE  /\ k.tbl[p][i] \in Tbl
         /\ \A x \in Tbl : [k EXCEPT !.tbl[p][i] = x] \in Link
         /\ \A b \in BOOLEAN : /\ [k.tbl[p][i] EXCEPT !.skip_next = b] \in Tbl
                             /\ [k.tbl[p][i] EXCEPT !.is_applied = b] \in Tbl
                             /\ [k EXCEPT !.tbl[p][i].skip_next = b] \in Link
                             /\ [k EXCEPT !.tbl[p][i].is_applied = b] \in Link
<1>1. k.tbl \in [PDs -> [Idx -> Tbl]] /\ k.tbl[p][i] \in Tbl
  BY DEF Link
<1>2. ASSUME NEW x \in Tbl  PROVE [k EXCEPT !.tbl[p][i] = x] \in Link
  <2>1. [k.tbl EXCEPT ![p][i] = x] \in [PDs -> [Idx -> Tbl]]
    BY <1>1
  <2>2. [k EXCEPT !.tbl[p][i] = x] = [k EXCEPT !.tbl = [k.tbl EXCEPT ![p][i] = x]]
    BY DEF Link
  <2> QED BY <2>1, <2>2, FieldFacts
<1>3. \A b \in BOOLEAN : /\ [k.tbl[p][i] EXCEPT !.skip_next = b] \in Tbl
                        /\ [k.tbl[p][i] EXCEPT !.is_applied = b] \in Tbl
  BY <1>1 DEF Tbl
<1>4. ASSUME NEW b \in BOOLEAN
      PROVE  /\ [k EXCEPT !.tbl[p][i].skip_next = b] \in Link
             /\ [k EXCEPT !.tbl[p][i].is_applied = b] \in Link
  <2>1. [k EXCEPT !.tbl[p][i].skip_next = b]
          = [k EXCEPT !.tbl[p][i] = [k.tbl[p][i] EXCEPT !.skip_next = b]]
    BY Zenon
  <2>2. [k EXCEPT !.tbl[p][i].is_applied = b]
          = [k EXCEPT !.tbl[p][i] = [k.tbl[p][i] EXCEPT !.is_applied = b]]
    BY Zenon
  <2> QED BY <1>2, <1>3, <2>1, <2>2
<1> QED BY <1>1, <1>2, <1>3, <1>4

\* The steps of __cam_req_mgr_process_req and __cam_req_mgr_send_req return links.
LEMMA SendFacts ==
  ASSUME NEW k \in Link
  PROVE  /\ Inject(k) \in Link /\ Traverse(k) \in Link /\ Retry(k) \in Link
         /\ Applied(k) \in Link /\ \A a, f : ClearApplied(k, a, f) \in Link
<1>1. Inject(k) \in Link
  <2> DEFINE f == [p \in PDs |->
                     IF p \in Injected(k) THEN [k.tbl[p] EXCEPT ![At(k, p)].inject = @ - 1]
                     ELSE k.tbl[p]]
  <2>1. ASSUME NEW p \in PDs  PROVE f[p] \in [Idx -> Tbl]
    <3>1. k.tbl[p] \in [Idx -> Tbl] /\ At(k, p) \in Idx
      BY IdxFacts DEF Link
    <3>2. CASE p \in Injected(k)
      <4> DEFINE x == k.tbl[p][At(k, p)]
      <4>1. x \in Tbl /\ x.inject > 0
        BY <3>1, <3>2 DEF Injected
      <4>2. [x EXCEPT !.inject = @ - 1] \in Tbl
        <5>1. x.inject - 1 \in Nat
          BY <4>1 DEF Tbl
        <5> HIDE DEF x
        <5> QED BY <4>1, <5>1 DEF Tbl
      <4>3. [k.tbl[p] EXCEPT ![At(k, p)].inject = @ - 1]
              = [k.tbl[p] EXCEPT ![At(k, p)] = [x EXCEPT !.inject = @ - 1]]
        BY <3>1
      <4> HIDE DEF x
      <4> QED BY <3>1, <3>2, <4>2, <4>3
    <3>3. CASE p \notin Injected(k)
      BY <3>1, <3>3
    <3> QED BY <3>2, <3>3
  <2>2. f \in [PDs -> [Idx -> Tbl]]
    BY <2>1
  <2>3. Inject(k) = [k EXCEPT !.tbl = f]
    BY DEF Inject
  <2> HIDE DEF f
  <2> QED BY <2>2, <2>3, FieldFacts
<1>2. Traverse(k) \in Link
  <2> DEFINE f == [p \in PDs |-> IF k.skip_traverse[p] > 0 THEN k.skip_traverse[p] - 1 ELSE 0]
  <2>1. f \in [PDs -> 0 .. max_delay]
    <3>1. k.skip_traverse \in [PDs -> 0 .. max_delay] /\ max_delay \in 0 .. 2
      BY DelayFacts DEF Link
    <3> QED BY <3>1
  <2>2. Traverse(k) = [k EXCEPT !.skip_traverse = f]
    BY DEF Traverse
  <2> HIDE DEF f
  <2> QED BY <2>1, <2>2 DEF Link
<1>3. Retry(k) \in Link
  <2> DEFINE j == SetStatus(k, "PENDING")
  <2>1. j \in Link
    BY RingFacts
  <2>2. Retry(k) = [j EXCEPT !.retry_cnt = (j.retry_cnt + 1) % 2]
    BY DEF Retry
  <2> HIDE DEF j
  <2>3. (j.retry_cnt + 1) % 2 \in 0 .. 1
    BY <2>1 DEF Link
  <2> QED BY <2>1, <2>2, <2>3 DEF Link
<1>4. Applied(k) \in Link
  <2> DEFINE j == SetStatus(k, "APPLIED")
             la == IF k.slot[k.rd].req > 0 THEN k.rd ELSE j.last_applied
             k1 == [j EXCEPT !.retry_cnt = 0, !.state = "READY", !.last_applied = la]
  <2>1. j \in Link /\ k.rd \in Idx
    BY RingFacts DEF Link
  <2>2. la \in Idx \cup {-1}
    BY <2>1 DEF Link
  <2>3. Applied(k) = ResetSlot(k1, Dec(k.rd, max_delay + 1))
    BY DEF Applied
  <2> HIDE DEF j, la
  <2>4. k1 \in Link
    <3> DEFINE j1 == [j EXCEPT !.retry_cnt = 0]
               j2 == [j1 EXCEPT !.state = "READY"]
    <3>0. 0 \in 0 .. 1
      OBVIOUS
    <3>1. j1 \in Link
      BY <2>1, <3>0, StateFacts, Zenon
    <3>2. k1 = [j2 EXCEPT !.last_applied = la]
      OBVIOUS
    <3> HIDE DEF j1
    <3>3. j2 \in Link
      BY <3>1, StateFacts
    <3> HIDE DEF j2, k1
    <3> QED BY <2>2, <3>2, <3>3, FieldFacts
  <2>5. Dec(k.rd, max_delay + 1) \in Idx
    BY <2>1, DelayFacts, IdxFacts
  <2> HIDE DEF k1
  <2> QED BY <2>3, <2>4, <2>5, RingFacts
<1>5. ASSUME NEW a, NEW f  PROVE ClearApplied(k, a, f) \in Link
  <2> DEFINE C(p, i) == /\ i = At(k, p) /\ a[p] > 0
                        /\ \E n \in 1 .. Len(DevSeq) : /\ PD[DevSeq[n]] = p /\ (f = 0 \/ n < f)
                                                       /\ Flagged(k, n, "is_applied")
             g == [p \in PDs |-> [i \in Idx |->
                     IF C(p, i) THEN [k.tbl[p][i] EXCEPT !.is_applied = FALSE] ELSE k.tbl[p][i]]]
  <2>1. ClearApplied(k, a, f) = [k EXCEPT !.tbl = g]
    BY DEF ClearApplied
  <2> HIDE DEF C
  <2>2. g \in [PDs -> [Idx -> Tbl]]
    <3>1. \A p \in PDs, i \in Idx :
            (IF C(p, i) THEN [k.tbl[p][i] EXCEPT !.is_applied = FALSE] ELSE k.tbl[p][i]) \in Tbl
      BY TblFacts
    <3> QED BY <3>1
  <2> HIDE DEF g
  <2> QED BY <2>1, <2>2, FieldFacts
<1> QED BY <1>1, <1>2, <1>3, <1>4, <1>5

LEMMA SendType ==
  ASSUME NEW k \in Link, NEW a, NEW tr, NEW f, Send(k, a, tr, f)
  PROVE  link' \in Link
<1>1. CASE Alone(k) = {}
  <2>1. ClearApplied(k, a, f) \in Link
    BY SendFacts
  <2> QED BY <1>1, <2>1, SendFacts DEF Send
<1>2. CASE Alone(k) # {} /\ f # 0
  BY <1>2, SendFacts DEF Send
<1>3. CASE Alone(k) # {} /\ f = 0
  <2> DEFINE i == CHOOSE i \in Alone(k) : TRUE
             p == PD[DevSeq[i]]
             m == At(k, p)
             j == [k EXCEPT !.tbl[p][m].skip_next = FALSE, !.tbl[p][m].is_applied = TRUE]
  <2>1. link' = Retry(j)
    BY <1>3 DEF Send
  <2>2. i \in 1 .. Len(DevSeq)
    <3> DEFINE S == {x \in 1 .. Len(DevSeq) : Flagged(k, x, "skip_next")}
    <3>1. S \in SUBSET Nat
      OBVIOUS
    <3>2. S # {} /\ Alone(k) = {CHOOSE x \in S : \A y \in S : x <= y}
      BY <1>3 DEF Alone
    <3>3. S \subseteq 1 .. Len(DevSeq)
      OBVIOUS
    <3> HIDE DEF S
    <3>4. (CHOOSE x \in S : \A y \in S : x <= y) \in S
      BY <3>1, <3>2, LeastNat
    <3> QED BY <3>2, <3>3, <3>4
  <2>3. p \in PDs
    <3>1. DevSeq[i] \in Devs
      BY <2>2 DEF Devs
    <3> QED BY <3>1, DelayFacts
  <2> HIDE DEF i, p
  <2>4. m \in Idx
    BY <2>3, IdxFacts
  <2>5. j \in Link
    <3> DEFINE j1 == [k EXCEPT !.tbl[p][m].skip_next = FALSE]
    <3>1. j1 \in Link
      BY <2>3, <2>4, TblFacts
    <3>2. j = [j1 EXCEPT !.tbl[p][m].is_applied = TRUE]
      OBVIOUS
    <3> HIDE DEF j1, j
    <3> QED BY <2>3, <2>4, <3>1, <3>2, TblFacts
  <2> HIDE DEF j
  <2> QED BY <2>1, <2>5, SendFacts
<1> QED BY <1>1, <1>2, <1>3

LEMMA ProcessReqType ==
  ASSUME NEW k \in Link, NEW tr, NEW f, ProcessReq(k, tr, f)
  PROVE  link' \in Link
<1>1. CASE k.slot[k.rd].status # "NO_REQ" /\ Injected(k) = {} /\ TraverseOk(k)
  <2>1. PICK a, k1 : k1 = Traverse(k) /\ Send(k1, a, tr, f)
    BY <1>1 DEF ProcessReq
  <2> QED BY <2>1, SendFacts, SendType
<1>2. CASE ~(k.slot[k.rd].status # "NO_REQ" /\ Injected(k) = {} /\ TraverseOk(k))
  <2>1. Inject(k) \in Link
    BY SendFacts
  <2>2. SetStatus(Inject(k), "PENDING") \in Link
    BY <2>1, RingFacts
  <2> QED BY <1>2, <2>2 DEF ProcessReq
<1> QED BY <1>1, <1>2

-----------------------------------------------------------------------------
(* The tasks                                                                *)

\* What a task of each type carries
LEMMA TaskFacts ==
  ASSUME NEW t \in TaskType
  PROVE  /\ t.type = "add" => t.req \in Reqs /\ t.dev \in Devs /\ t.ask \in Asked
         /\ t.type \in {"all", "cancel", "err"} => t.req \in Reqs
         /\ t.type = "sof" => t.req \in Reqs \cup {0}
BY DEF TaskType

\* The queue after a task was put in, and after the head was taken out
LEMMA QueueFacts ==
  ASSUME tasks \in Seq(TaskType)
  PROVE  /\ \A t \in TaskType : Append(tasks, t) \in Seq(TaskType)
         /\ tasks # <<>> => Head(tasks) \in TaskType /\ Tail(tasks) \in Seq(TaskType)
OBVIOUS

LEMMA UserType ==
  ASSUME TypeInv, Userspace \/ Device \/ NotifyTrigger \/ FlushTimeout
  PROVE  TypeInv'
<1>0. /\ link \in Link /\ tasks \in Seq(TaskType) /\ MaxReq \in Nat
      /\ next \in 1 .. MaxReq + 1 /\ done \in Reqs \cup {0}
  BY LinkAssumption DEF TypeInv
<1>1. ASSUME NEW recover \in BOOLEAN, Sched(recover)  PROVE TypeInv'
  <2>1. /\ next <= MaxReq /\ next' = next + 1 /\ tasks' = tasks /\ done' = done
    BY <1>1 DEF Sched
  <2>2. link' \in Link
    <3>1. CASE next <= link.last_flush_id
      BY <1>0, <1>1, <3>1 DEF Sched
    <3>2. CASE ~(next <= link.last_flush_id)
      <4> DEFINE x == [req |-> next, status |-> "ADDED", skip |-> FALSE, recover |-> recover]
                 k == [link EXCEPT !.last_flush_id = 0]
                 j == [k EXCEPT !.slot[link.wr] = x]
      <4>1. link' = [j EXCEPT !.wr = Inc(link.wr)]
        BY <1>1, <3>2 DEF Sched
      <4>2. x \in Slot
        BY <1>0, <2>1 DEF Slot, Reqs
      <4>3. k \in Link
        BY <1>0, StateFacts
      <4>4. link.wr \in Idx /\ Inc(link.wr) \in Idx
        BY <1>0, IdxFacts DEF Link
      <4> HIDE DEF k, x
      <4>5. j \in Link
        BY <4>2, <4>3, <4>4, FieldFacts
      <4> HIDE DEF j
      <4> QED BY <4>1, <4>4, <4>5, FieldFacts
    <3> QED BY <3>1, <3>2
  <2> QED BY <1>0, <2>1, <2>2 DEF TypeInv
<1>2. ASSUME NEW t \in TaskType, Enqueue(t), UNCHANGED <<link, next, done>>  PROVE TypeInv'
  BY <1>0, <1>2, QueueFacts DEF Enqueue, TypeInv
<1>3. ASSUME NEW r \in Reqs, NEW type \in {"cancel", "all"}, Flush(type, r)  PROVE TypeInv'
  <2>1. [type |-> type, req |-> r] \in TaskType
    BY DEF TaskType
  <2> QED BY <1>2, <1>3, <2>1 DEF Flush
<1>4. ASSUME NEW d \in Devs, NEW r \in Reqs, NEW ask \in Asks[d], AddReq(d, r, ask)  PROVE TypeInv'
  <2>1. ask \in Asked
    BY LinkAssumption DEF Asked
  <2>2. [type |-> "add", req |-> r, dev |-> d, ask |-> ask] \in TaskType
    BY <2>1 DEF TaskType
  <2> QED BY <1>2, <1>4, <2>2 DEF AddReq
<1>5. CASE NotifyTrigger
  <2>1. [type |-> "sof", req |-> done] \in TaskType
    BY <1>0 DEF TaskType
  <2> QED BY <1>2, <1>5, <2>1 DEF NotifyTrigger
<1>6. ASSUME NEW r \in Reqs, BufDone(r)  PROVE TypeInv'
  BY <1>0, <1>6 DEF BufDone, TypeInv
<1>7. ASSUME NEW r \in Reqs, NotifyErr(r)  PROVE TypeInv'
  <2>1. [type |-> "err", req |-> r] \in TaskType
    BY DEF TaskType
  <2> QED BY <1>2, <1>7, <2>1 DEF NotifyErr
<1>8. CASE NotifyStop
  <2>1. [type |-> "stop", req |-> NoReq] \in TaskType
    BY DEF TaskType
  <2> QED BY <1>2, <1>8, <2>1 DEF NotifyStop
<1>9. CASE FlushTimeout
  BY <1>0, <1>9 DEF FlushTimeout, TypeInv
<1>10. ASSUME NEW r \in Scheduled, Flush("cancel", r)  PROVE TypeInv'
  <2>1. r \in Reqs
    BY <1>0 DEF Scheduled, Reqs
  <2> QED BY <1>3, <1>10, <2>1
<1> QED BY <1>1, <1>3, <1>4, <1>5, <1>6, <1>7, <1>8, <1>9, <1>10 DEF Userspace, Device, Report

LEMMA AddReqType == ASSUME TypeInv, ProcessAddReq  PROVE TypeInv'
<1> DEFINE t == Head(tasks)
           i == FindSlot(link, t.req)
           p == PD[t.dev]
           s == link.tbl[p][i]
           x == [ready |-> s.ready \cup {t.dev}, is_applied |-> FALSE,
                 inject |-> IF t.ask.delay > s.inject THEN t.ask.delay ELSE s.inject,
                 hdl |-> IF t.ask.delay > s.inject THEN t.dev ELSE s.hdl,
                 skip_next |-> s.skip_next \/ (t.ask.delay > s.inject /\ t.ask.skip_next)]
<1>1. /\ link \in Link /\ tasks \in Seq(TaskType) /\ tasks # <<>> /\ t.type = "add"
      /\ tasks' = Tail(tasks) /\ next' = next /\ done' = done
  BY DEF TypeInv, ProcessAddReq, Task
<1>2. t \in TaskType /\ tasks' \in Seq(TaskType)
  BY <1>1, QueueFacts
<1>3. t.dev \in Devs /\ t.ask \in Asked
  BY <1>1, <1>2, TaskFacts
<1>4. i \in Idx \cup {-1} /\ p \in PDs
  BY <1>1, <1>3, FindFacts, DelayFacts
<1>5. link' = IF i < 0 THEN link ELSE [link EXCEPT !.tbl[p][i] = x]
  BY DEF ProcessAddReq
<1>6. ASSUME i \in Idx  PROVE x \in Tbl
  <2>1. s \in Tbl
    BY <1>1, <1>4, <1>6, TblFacts
  <2> HIDE DEF s, t
  <2> QED BY <1>3, <2>1 DEF Tbl, Asked
<1> HIDE DEF x, p, i, t
<1>7. link' \in Link
  <2>1. CASE i \in Idx
    BY <1>1, <1>4, <1>5, <1>6, <2>1, TblFacts
  <2>2. CASE i = -1
    BY <1>1, <1>5, <2>2
  <2> QED BY <1>4, <2>1, <2>2
<1> QED BY <1>1, <1>2, <1>7 DEF TypeInv

\* The steps of cam_req_mgr_process_trigger before a request is sent return links.
LEMMA TriggerFacts ==
  ASSUME NEW k \in Link  PROVE (\A r : ResetDone(k, r) \in Link) /\ ToNext(k) \in Link
<1>1. ASSUME NEW r  PROVE ResetDone(k, r) \in Link
  <2> DEFINE i == FindSlot(k, r)
             la == IF i >= 0 /\ k.last_applied = i THEN -1 ELSE k.last_applied
  <2>1. i \in Idx \cup {-1}
    BY FindFacts
  <2>2. ResetDone(k, r) = ResetSlot([k EXCEPT !.last_applied = la], i)
    BY DEF ResetDone
  <2>3. la \in Idx \cup {-1}
    BY DEF Link
  <2> HIDE DEF i, la
  <2>4. [k EXCEPT !.last_applied = la] \in Link
    BY <2>3, FieldFacts
  <2> QED BY <2>1, <2>2, <2>4, RingFacts
<1>2. ToNext(k) \in Link
  <2>1. Inc(k.rd) \in Idx /\ Inc(k.wr) \in Idx
    BY IdxFacts DEF Link
  <2>2. SkipIdx(k, Inc(k.rd)) \in Link
    BY <2>1, RingFacts
  <2>3. CASE k.slot[Inc(k.rd)].status = "NO_REQ" /\ Lower
    <3> DEFINE j == SkipIdx(k, Inc(k.rd))
               j1 == [j EXCEPT !.wr = Inc(@)]
    <3>1. ToNext(k) = [j1 EXCEPT !.rd = Inc(k.rd)]
      BY <2>3 DEF ToNext
    <3>2. Inc(j.wr) \in Idx
      BY <2>2, IdxFacts DEF Link
    <3> HIDE DEF j
    <3>3. j1 \in Link
      BY <2>2, <3>2, FieldFacts DEF j
    <3> HIDE DEF j1
    <3> QED BY <2>1, <3>1, <3>3, FieldFacts
  <2>4. CASE ~(k.slot[Inc(k.rd)].status = "NO_REQ" /\ Lower)
    BY <2>1, <2>4, FieldFacts DEF ToNext
  <2> QED BY <2>3, <2>4
<1> QED BY <1>1, <1>2

LEMMA TriggerType == ASSUME TypeInv, NEW f, ProcessTrigger(f)  PROVE TypeInv'
<1>1. /\ link \in Link /\ tasks \in Seq(TaskType) /\ tasks # <<>>
      /\ tasks' = Tail(tasks) /\ next' = next /\ done' = done
  BY DEF TypeInv, ProcessTrigger, Task
<1>2. PICK k \in Link, k1 \in Link :
        (link' = k1 \/ ProcessReq(k1, trace, f))
  <2>1. PICK k : k = ResetDone(link, Head(tasks).req) /\
                 \E k1 \in {IF k.slot[k.rd].status = "APPLIED" THEN ToNext(k) ELSE k} :
                    IF k1.rd # k.rd /\ k1.slot[k1.rd].status = "NO_REQ"
                      THEN f = 0 /\ link' = k1 /\ UNCHANGED trace
                      ELSE ProcessReq(k1, trace, f)
    BY DEF ProcessTrigger
  <2>2. k \in Link
    BY <1>1, <2>1, TriggerFacts
  <2>3. ToNext(k) \in Link
    BY <2>2, TriggerFacts
  <2> QED BY <2>1, <2>2, <2>3
<1>3. link' \in Link
  BY <1>2, ProcessReqType
<1>4. tasks' \in Seq(TaskType)
  BY <1>1, QueueFacts
<1> QED BY <1>1, <1>3, <1>4 DEF TypeInv

\* The queue goes back to the request in slot i.
Back(k, i) == [k EXCEPT !.skip_traverse = [p \in PDs |-> max_delay - p],
                        !.rd = i, !.slot[i].status = "ADDED", !.state = "ERR"]

LEMMA BackFacts == ASSUME NEW k \in Link, NEW i \in Idx  PROVE Back(k, i) \in Link
<1> DEFINE j1 == [k EXCEPT !.skip_traverse = [p \in PDs |-> max_delay - p]]
           j2 == [j1 EXCEPT !.rd = i]
           j3 == [j2 EXCEPT !.slot[i].status = "ADDED"]
<1>1. Back(k, i) = [j3 EXCEPT !.state = "ERR"]
  BY DEF Back
<1>2. [p \in PDs |-> max_delay - p] \in [PDs -> 0 .. max_delay]
  BY DelayFacts
<1>3. j1 \in Link
  BY <1>2, StateFacts
<1> HIDE DEF j1
<1>4. j2 \in Link
  BY <1>3, FieldFacts
<1> HIDE DEF j2
<1>5. j3 \in Link
  <2>1. j2.slot[i] \in Slot
    BY <1>4 DEF Link
  <2>2. [j2.slot[i] EXCEPT !.status = "ADDED"] \in Slot
    BY <2>1, SlotFacts
  <2>3. j3 = [j2 EXCEPT !.slot[i] = [j2.slot[i] EXCEPT !.status = "ADDED"]]
    BY Zenon
  <2> QED BY <1>4, <2>2, <2>3, FieldFacts
<1> HIDE DEF j3
<1> QED BY <1>1, <1>5, StateFacts

LEMMA ErrorType == ASSUME TypeInv, NEW sof, NEW f, ProcessError(sof, f)  PROVE TypeInv'
<1> DEFINE i == FindSlot(link, Head(tasks).req)
<1>1. /\ link \in Link /\ tasks \in Seq(TaskType) /\ tasks # <<>>
      /\ tasks' = Tail(tasks) /\ next' = next /\ done' = done
  BY DEF TypeInv, ProcessError, Task
<1>2. \/ link' = link
      \/ i >= 0 /\ (link' = Back(link, i) \/ \E tr : ProcessReq(Back(link, i), tr, f))
  BY DEF ProcessError, Back
<1>3. i \in Idx \cup {-1}
  BY <1>1, FindFacts
<1> HIDE DEF i
<1>4. i >= 0 => Back(link, i) \in Link
  BY <1>1, <1>3, BackFacts
<1>5. link' \in Link
  BY <1>1, <1>2, <1>4, ProcessReqType
<1>6. tasks' \in Seq(TaskType)
  BY <1>1, QueueFacts
<1> QED BY <1>1, <1>5, <1>6 DEF TypeInv

LEMMA FlushType ==
  ASSUME TypeInv, Busy, ProcessStop \/ ProcessStopEnd \/ ProcessFlushAll \/ ProcessCancel
  PROVE  TypeInv'
<1>0. /\ link \in Link /\ tasks \in Seq(TaskType) /\ FlushSlots(link) \in Link /\ 0 \in Idx
      /\ next \in 1 .. MaxReq + 1 /\ done \in Reqs \cup {0}
  BY RingFacts, IdxFacts DEF TypeInv
<1>1. CASE ProcessStop
  BY <1>0, <1>1 DEF ProcessStop, ForgetAll, TypeInv
<1>2. ASSUME NEW j \in Link  PROVE [j EXCEPT !.rd = 0, !.wr = 0] \in Link
  <2>1. [j EXCEPT !.rd = 0] \in Link
    BY <1>0, FieldFacts
  <2>2. [[j EXCEPT !.rd = 0] EXCEPT !.wr = 0] \in Link
    BY <1>0, <2>1, FieldFacts
  <2> QED BY <2>2
<1>3. CASE ProcessStopEnd
  <2>1. link' \in Link /\ UNCHANGED <<next, done>>
    BY <1>0, <1>2, <1>3 DEF ProcessStopEnd
  <2>2. tasks' \in Seq(TaskType)
    BY <1>0, <1>3, QueueFacts DEF ProcessStopEnd, Busy
  <2> QED BY <1>0, <2>1, <2>2 DEF TypeInv
<1>4. CASE ProcessFlushAll
  <2> DEFINE j == [FlushSlots(link) EXCEPT !.last_flush_id = Head(tasks).req]
  <2>1. /\ tasks # <<>> /\ Head(tasks).type = "all" /\ UNCHANGED <<next, done>>
        /\ tasks' = Tail(tasks) /\ link' = [j EXCEPT !.rd = 0, !.wr = 0]
    BY <1>4 DEF ProcessFlushAll, Task
  <2>2. Head(tasks).req \in Reqs /\ tasks' \in Seq(TaskType)
    BY <1>0, <2>1, QueueFacts, TaskFacts
  <2>3. j \in Link
    BY <1>0, <2>2, StateFacts
  <2> HIDE DEF j
  <2> QED BY <1>0, <1>2, <2>1, <2>2, <2>3 DEF TypeInv
<1>5. CASE ProcessCancel
  <2>1. tasks # <<>> /\ tasks' = Tail(tasks) /\ UNCHANGED <<next, done>>
    BY <1>5 DEF ProcessCancel, Task
  <2>2. FindSlot(link, Head(tasks).req) \in Idx \cup {-1}
    BY <1>0, FindFacts
  <2> DEFINE i == FindSlot(link, Head(tasks).req)
  <2>3. ASSUME i < 0 \/ (i >= 0 /\ link.slot[i].status \in {"PENDING", "APPLIED"})
        PROVE  link' \in Link
    BY <1>0, <1>5, <2>3 DEF ProcessCancel
  <2>4. ASSUME ~(i < 0 \/ (i >= 0 /\ link.slot[i].status \in {"PENDING", "APPLIED"}))
        PROVE  link' \in Link
    <3>1. link' = SkipIdx(link, i)
      BY <1>5, <2>4 DEF ProcessCancel
    <3>2. i \in Idx
      BY <2>2, <2>4
    <3> HIDE DEF i
    <3> QED BY <1>0, <3>1, <3>2, RingFacts
  <2>6. link' \in Link
    BY <1>0, <2>3, <2>4
  <2>5. tasks' \in Seq(TaskType)
    BY <1>0, <2>1, QueueFacts
  <2> QED BY <1>0, <2>1, <2>5, <2>6 DEF TypeInv
<1> QED BY <1>1, <1>3, <1>4, <1>5

LEMMA BusyStep == ASSUME TypeInv, Busy, [Next]_vars PROVE Busy'
<1>0. tasks \in Seq(TaskType)
  BY DEF TypeInv
<1>1. CASE UNCHANGED <<tasks, stopping>>
  BY <1>1 DEF Busy
<1>2. ASSUME NEW t, Enqueue(t), stopping' = stopping  PROVE Busy'
  <2>1. tasks' = Append(tasks, t)
    BY <1>2 DEF Enqueue
  <2>2. tasks' # <<>>
    BY <1>0, <2>1
  <2> QED BY <2>2 DEF Busy
<1>3. CASE Worker
  <2>1. ASSUME NEW type, Task(type), stopping' = stopping  PROVE Busy'
    BY <2>1 DEF Task, Busy
  <2>2. CASE ProcessStop \/ ProcessStopEnd
    BY <2>2 DEF ProcessStop, ProcessStopEnd, Task, Busy
  <2>3. CASE ProcessAddReq
    BY <2>1, <2>3 DEF ProcessAddReq
  <2>4. ASSUME NEW f, ProcessTrigger(f)  PROVE Busy'
    BY <2>1, <2>4 DEF ProcessTrigger
  <2>5. ASSUME NEW f, NEW sof, ProcessError(sof, f)  PROVE Busy'
    BY <2>1, <2>5 DEF ProcessError
  <2>6. CASE ProcessFlushAll \/ ProcessCancel
    BY <2>1, <2>6 DEF ProcessFlushAll, ProcessCancel
  <2> QED BY <1>3, <2>2, <2>3, <2>4, <2>5, <2>6 DEF Worker
<1>4. CASE Userspace
  BY <1>1, <1>2, <1>4 DEF Userspace, Sched, Flush
<1>5. CASE Device
  <2>1. CASE Report
    BY <1>2, <2>1 DEF Report, AddReq
  <2>2. CASE NotifyStop
    BY <1>2, <2>2 DEF NotifyStop
  <2>3. ASSUME NEW r, BufDone(r) \/ NotifyErr(r)  PROVE Busy'
    BY <1>1, <1>2, <2>3 DEF BufDone, NotifyErr
  <2> QED BY <1>5, <2>1, <2>2, <2>3 DEF Device
<1>6. CASE NotifyTrigger \/ FlushTimeout
  BY <1>1, <1>2, <1>6 DEF NotifyTrigger, FlushTimeout
<1>7. CASE UNCHANGED vars
  BY <1>1, <1>7 DEF vars
<1> QED BY <1>3, <1>4, <1>5, <1>6, <1>7 DEF Next

LEMMA InitType == Init => TypeInv /\ Busy
<1> SUFFICES ASSUME Init PROVE TypeInv /\ Busy
  OBVIOUS
<1>1. EmptyTbl \in Tbl /\ 0 \in Idx /\ MaxReq \in Nat
  BY LinkAssumption, IdxFacts DEF EmptyTbl, Tbl
<1>2. [p \in PDs |-> [i \in Idx |-> EmptyTbl]] \in [PDs -> [Idx -> Tbl]]
  BY <1>1
<1>3. [i \in Idx |-> EmptySlot] \in [Idx -> Slot]
  BY SlotFacts
<1>4. [p \in PDs |-> max_delay - p] \in [PDs -> 0 .. max_delay]
  BY DelayFacts
<1>5. link \in Link
  BY <1>1, <1>2, <1>3, <1>4 DEF Init, Link
<1> QED BY <1>1, <1>5 DEF Init, TypeInv, Busy

LEMMA StepType == TypeInv /\ Busy /\ [Next]_vars => TypeInv' /\ Busy'
<1> SUFFICES ASSUME TypeInv, Busy, [Next]_vars PROVE TypeInv'
  BY BusyStep
<1>1. CASE UNCHANGED vars
  BY <1>1 DEF vars, TypeInv
<1>2. CASE Worker
  BY <1>2, AddReqType, TriggerType, ErrorType, FlushType DEF Worker
<1>3. CASE Userspace \/ Device \/ NotifyTrigger \/ FlushTimeout
  BY <1>3, UserType
<1> QED BY <1>1, <1>2, <1>3 DEF Next

\* The read, write and last applied index never leave the ring and every slot holds a request
\* that userspace can have scheduled or none, for any ring, devices and delays, and also where
\* requests are overwritten or refused: __cam_req_mgr_inc_idx and __cam_req_mgr_dec_idx wrap
\* wherever an index moves, and a search that finds nothing never becomes an index.
THEOREM TypeCorrect == Spec => []TypeOK
<1>1. TypeInv => TypeOK
  BY DEF TypeInv, TypeOK, Link, Slot
<1> QED BY <1>1, InitType, StepType, PTL DEF Spec

-----------------------------------------------------------------------------
(* What is sent is ready.  No slot is read at a distance here: what keeps   *)
(* readiness from a new request is that a slot without a request has none,  *)
(* wherever it is in the ring.                                              *)

\* No device lets a frame go to it alone.
NoneAlone == \A d \in Devs : \A ask \in Asks[d] : ~ask.skip_next
PlainTask == {t \in TaskType : t.type = "add" => ~t.ask.skip_next}

\* An empty slot has no readiness, a skipped one no request, and who is ready for the request of
\* a slot has reported it.
Backed(k, h) ==
  \A i \in Idx :
    /\ k.slot[i].status = "NO_REQ" => k.slot[i].req = NoReq /\ \A p \in PDs : k.tbl[p][i].ready = {}
    /\ k.slot[i].skip => k.slot[i].req = NoReq
    /\ \A p \in PDs :
         /\ ~k.tbl[p][i].skip_next
         /\ \A d \in k.tbl[p][i].ready : k.slot[i].req # NoReq => k.slot[i].req \in h[d]

\* What devices were sent, all devices with their delay have reported.
TraceOk(tr, h) ==
  /\ tr \in [Devs -> Seq(Int)]
  /\ \A d, e \in Devs : PD[d] = PD[e] => Elems(tr[d]) \subseteq h[e]

SendInv ==
  /\ tasks \in Seq(PlainTask) /\ has \in [Devs -> SUBSET Reqs]
  /\ Backed(link, has) /\ TraceOk(trace, has)

\* From k to j slots were only emptied, skipped or looked at.
Shrinks(k, j) ==
  \A i \in Idx :
    /\ \/ /\ j.slot[i].req = k.slot[i].req /\ j.slot[i].skip = k.slot[i].skip
          /\ j.slot[i].status = "NO_REQ" => k.slot[i].status = "NO_REQ"
       \/ /\ j.slot[i].req = NoReq
          /\ j.slot[i].status = "NO_REQ" => \A p \in PDs : j.tbl[p][i].ready = {}
    /\ \A p \in PDs : /\ j.tbl[p][i].ready \subseteq k.tbl[p][i].ready
                      /\ j.tbl[p][i].skip_next => k.tbl[p][i].skip_next

LEMMA ShrinkFacts ==
  ASSUME NEW k, NEW j, NEW h, Shrinks(k, j)
  PROVE  /\ Backed(k, h) => Backed(j, h)
         /\ \A l : Shrinks(j, l) => Shrinks(k, l)
<1>1. Backed(k, h) => Backed(j, h)
  <2> SUFFICES ASSUME Backed(k, h), NEW i \in Idx
               PROVE  /\ j.slot[i].status = "NO_REQ"
                           => j.slot[i].req = NoReq /\ \A p \in PDs : j.tbl[p][i].ready = {}
                      /\ j.slot[i].skip => j.slot[i].req = NoReq
                      /\ \A p \in PDs :
                           /\ ~j.tbl[p][i].skip_next
                           /\ \A d \in j.tbl[p][i].ready :
                                j.slot[i].req # NoReq => j.slot[i].req \in h[d]
    BY DEF Backed
  <2> QED BY DEF Backed, Shrinks
<1>2. ASSUME NEW l, Shrinks(j, l)  PROVE Shrinks(k, l)
  <2> SUFFICES ASSUME NEW i \in Idx
      PROVE /\ \/ /\ l.slot[i].req = k.slot[i].req /\ l.slot[i].skip = k.slot[i].skip
                  /\ l.slot[i].status = "NO_REQ" => k.slot[i].status = "NO_REQ"
               \/ /\ l.slot[i].req = NoReq
                  /\ l.slot[i].status = "NO_REQ" => \A p \in PDs : l.tbl[p][i].ready = {}
            /\ \A p \in PDs : /\ l.tbl[p][i].ready \subseteq k.tbl[p][i].ready
                              /\ l.tbl[p][i].skip_next => k.tbl[p][i].skip_next
    BY DEF Shrinks
  <2> QED BY <1>2 DEF Shrinks
<1> QED BY <1>1, <1>2

\* The operations on the ring only shrink it.
LEMMA ShrinkOps ==
  ASSUME NEW k \in Link
  PROVE  /\ \A j : j.slot = k.slot /\ j.tbl = k.tbl => Shrinks(k, j)
         /\ \A st \in {"ADDED", "PENDING", "APPLIED"} : Shrinks(k, SetStatus(k, st))
         /\ \A i \in Idx \cup {-1} : Shrinks(k, ResetSlot(k, i))
         /\ \A i \in Idx : Shrinks(k, SkipIdx(k, i))
         /\ Shrinks(k, FlushSlots(k))
<1>0. /\ k.slot \in [Idx -> Slot] /\ k.tbl \in [PDs -> [Idx -> Tbl]] /\ k.rd \in Idx
      /\ \A i \in Idx, p \in PDs : k.slot[i] \in Slot /\ k.tbl[p][i] \in Tbl
  BY DEF Link
<1>1. ASSUME NEW j, j.slot = k.slot, j.tbl = k.tbl  PROVE Shrinks(k, j)
  BY <1>1 DEF Shrinks
<1>2. ASSUME NEW i \in Idx, NEW x \in Slot, NEW j \in Link,
             j = [k EXCEPT !.slot[i] = x],
             \/ x.req = k.slot[i].req /\ x.skip = k.slot[i].skip
             \/ x.req = NoReq,
             x.status # "NO_REQ"
      PROVE  Shrinks(k, j)
  <2>1. /\ j.tbl = k.tbl /\ j.slot[i] = x
        /\ \A n \in Idx : n # i => j.slot[n] = k.slot[n]
    BY <1>0, <1>2 DEF Link
  <2> QED BY <1>2, <2>1 DEF Shrinks
<1>3. ASSUME NEW st \in {"ADDED", "PENDING", "APPLIED"}  PROVE Shrinks(k, SetStatus(k, st))
  <2> DEFINE x == [k.slot[k.rd] EXCEPT !.status = st]
  <2>1. x \in Slot /\ x.req = k.slot[k.rd].req /\ x.skip = k.slot[k.rd].skip /\ x.status # "NO_REQ"
    BY <1>0 DEF Slot
  <2>2. SetStatus(k, st) = [k EXCEPT !.slot[k.rd] = x]
    BY DEF SetStatus
  <2>3. SetStatus(k, st) \in Link
    BY RingFacts
  <2> HIDE DEF x
  <2> QED BY <1>0, <1>2, <2>1, <2>2, <2>3
<1>4. ASSUME NEW i \in Idx  PROVE Shrinks(k, SkipIdx(k, i))
  <2> DEFINE x == [k.slot[i] EXCEPT !.req = NoReq, !.skip = TRUE, !.status = "ADDED"]
  <2>0. x \in Slot
    BY <1>0, SlotFacts
  <2>1. x \in Slot /\ x.req = NoReq /\ x.status # "NO_REQ"
    BY <1>0, <2>0 DEF Slot
  <2>2. SkipIdx(k, i) = [k EXCEPT !.slot[i] = x]
    BY DEF SkipIdx
  <2>3. SkipIdx(k, i) \in Link
    BY RingFacts
  <2> HIDE DEF x
  <2> QED BY <1>2, <2>1, <2>2, <2>3
<1>5. ASSUME NEW S, NEW f \in [Idx -> Slot],
             \A i \in Idx : (i \in S /\ f[i].req = NoReq) \/ f[i] = k.slot[i]
      PROVE  Shrinks(k, ClearTbl([k EXCEPT !.slot = f], S))
  <2> DEFINE j == ClearTbl([k EXCEPT !.slot = f], S)
  <2>1. j.slot = f
    BY <1>0 DEF ClearTbl, Link
  <2>2. \A p \in PDs, i \in Idx :
          j.tbl[p][i] = IF i \in S THEN [k.tbl[p][i] EXCEPT !.ready = {}] ELSE k.tbl[p][i]
    BY <1>0 DEF ClearTbl, Link
  <2> HIDE DEF j
  <2>3. ASSUME NEW p \in PDs, NEW i \in Idx
        PROVE  /\ j.tbl[p][i].ready = IF i \in S THEN {} ELSE k.tbl[p][i].ready
               /\ j.tbl[p][i].skip_next = k.tbl[p][i].skip_next
    <3> DEFINE s == k.tbl[p][i]
    <3>1. s \in Tbl /\ j.tbl[p][i] = IF i \in S THEN [s EXCEPT !.ready = {}] ELSE s
      BY <1>0, <2>2
    <3>2. [s EXCEPT !.ready = {}].ready = {} /\ [s EXCEPT !.ready = {}].skip_next = s.skip_next
      <4> HIDE DEF s
      <4> QED BY <3>1 DEF Tbl
    <3> QED BY <3>1, <3>2
  <2>4. Shrinks(k, j)
    BY <1>5, <2>1, <2>3 DEF Shrinks
  <2> QED BY <2>4 DEF j
<1>6. ASSUME NEW i \in Idx \cup {-1}  PROVE Shrinks(k, ResetSlot(k, i))
  <2>1. CASE i < 0 \/ k.last_applied = i \/ k.slot[i].status = "ADDED"
    BY <1>1, <2>1 DEF ResetSlot
  <2>2. CASE ~(i < 0 \/ k.last_applied = i \/ k.slot[i].status = "ADDED")
    <3> DEFINE f == [k.slot EXCEPT ![i] = EmptySlot]
    <3>0. EmptySlot.req = NoReq
      BY DEF EmptySlot
    <3>1. i \in Idx /\ EmptySlot \in Slot /\ EmptySlot.req = NoReq
      <4>1. ~(i < 0)
        BY <2>2
      <4>2. i \in Idx
        BY <4>1
      <4> QED BY <3>0, <4>2, SlotFacts
    <3>2. f \in [Idx -> Slot] /\ \A n \in Idx : (n \in {i} /\ f[n].req = NoReq) \/ f[n] = k.slot[n]
      BY <1>0, <3>1
    <3>3. ResetSlot(k, i) = ClearTbl([k EXCEPT !.slot = f], {i})
      BY <2>2 DEF ResetSlot
    <3> HIDE DEF f
    <3> QED BY <1>5, <3>2, <3>3
  <2> QED BY <2>1, <2>2
<1>7. Shrinks(k, FlushSlots(k))
  <2> DEFINE f == [i \in Idx |-> [EmptySlot EXCEPT !.skip = TRUE]]
  <2>1. f \in [Idx -> Slot] /\ \A i \in Idx : i \in Idx /\ f[i].req = NoReq
    BY SlotFacts DEF EmptySlot
  <2>2. FlushSlots(k) = ClearTbl([k EXCEPT !.slot = f], Idx)
    BY DEF FlushSlots
  <2> HIDE DEF f
  <2> QED BY <1>5, <2>1, <2>2
<1> QED BY <1>1, <1>3, <1>4, <1>6, <1>7

\* So do the steps of __cam_req_mgr_process_req.
LEMMA ShrinkSteps ==
  ASSUME NEW k \in Link
  PROVE  /\ Shrinks(k, Inject(k)) /\ Shrinks(k, Traverse(k)) /\ Shrinks(k, Retry(k))
         /\ Shrinks(k, Applied(k)) /\ \A a, f : Shrinks(k, ClearApplied(k, a, f))
<1>0. /\ \A i \in Idx, p \in PDs : k.slot[i] \in Slot /\ k.tbl[p][i] \in Tbl
      /\ k.rd \in Idx /\ k.tbl \in [PDs -> [Idx -> Tbl]]
  BY DEF Link
<1>1. ASSUME NEW g \in [PDs -> [Idx -> Tbl]],
             \A p \in PDs, i \in Idx :
               g[p][i].ready = k.tbl[p][i].ready /\ g[p][i].skip_next = k.tbl[p][i].skip_next
      PROVE  Shrinks(k, [k EXCEPT !.tbl = g])
  <2> DEFINE j == [k EXCEPT !.tbl = g]
  <2>1. j.slot = k.slot /\ j.tbl = g
    BY DEF Link
  <2> HIDE DEF j
  <2>2. Shrinks(k, j)
    BY <1>1, <2>1 DEF Shrinks
  <2> QED BY <2>2 DEF j
<1>2. Shrinks(k, Inject(k))
  <2> DEFINE g == [p \in PDs |->
                     IF p \in Injected(k) THEN [k.tbl[p] EXCEPT ![At(k, p)].inject = @ - 1]
                     ELSE k.tbl[p]]
  <2>1. Inject(k) = [k EXCEPT !.tbl = g]
    BY DEF Inject
  <2>2. ASSUME NEW p \in PDs, NEW i \in Idx
        PROVE  g[p][i].ready = k.tbl[p][i].ready /\ g[p][i].skip_next = k.tbl[p][i].skip_next
    <3> DEFINE s == k.tbl[p][i]
    <3>1. k.tbl[p] \in [Idx -> Tbl] /\ s \in Tbl
      BY <1>0
    <3>2. g[p][i] = s \/ g[p][i] = [s EXCEPT !.inject = @ - 1]
      BY <3>1
    <3> HIDE DEF g, s
    <3>3. g[p][i].ready = s.ready /\ g[p][i].skip_next = s.skip_next
      BY <3>1, <3>2 DEF Tbl
    <3> QED BY <3>3 DEF s
  <2>3. g \in [PDs -> [Idx -> Tbl]]
    <3>1. Inject(k) \in Link
      BY SendFacts
    <3>2. Inject(k).tbl = g
      BY <2>1 DEF Link
    <3> HIDE DEF g
    <3> QED BY <3>1, <3>2 DEF Link
  <2> HIDE DEF g
  <2> QED BY <1>1, <2>1, <2>2, <2>3
<1>3. ASSUME NEW a, NEW f  PROVE Shrinks(k, ClearApplied(k, a, f))
  <2> DEFINE C(p, i) == /\ i = At(k, p) /\ a[p] > 0
                        /\ \E n \in 1 .. Len(DevSeq) : /\ PD[DevSeq[n]] = p /\ (f = 0 \/ n < f)
                                                       /\ Flagged(k, n, "is_applied")
             g == [p \in PDs |-> [i \in Idx |->
                     IF C(p, i) THEN [k.tbl[p][i] EXCEPT !.is_applied = FALSE] ELSE k.tbl[p][i]]]
  <2>1. ClearApplied(k, a, f) = [k EXCEPT !.tbl = g]
    BY DEF ClearApplied
  <2> HIDE DEF C
  <2>2. ASSUME NEW p \in PDs, NEW i \in Idx
        PROVE  /\ g[p][i].ready = k.tbl[p][i].ready /\ g[p][i].skip_next = k.tbl[p][i].skip_next
               /\ g[p][i] \in Tbl
    <3> DEFINE s == k.tbl[p][i]
    <3>1. s \in Tbl /\ (g[p][i] = s \/ g[p][i] = [s EXCEPT !.is_applied = FALSE])
      BY <1>0
    <3> HIDE DEF g, s
    <3>2. g[p][i].ready = s.ready /\ g[p][i].skip_next = s.skip_next /\ g[p][i] \in Tbl
      BY <3>1 DEF Tbl
    <3> QED BY <3>2 DEF s
  <2>3. g \in [PDs -> [Idx -> Tbl]]
    BY <2>2
  <2> HIDE DEF g
  <2> QED BY <1>1, <2>1, <2>2, <2>3
<1>4. Shrinks(k, Traverse(k))
  <2>1. Traverse(k).slot = k.slot /\ Traverse(k).tbl = k.tbl
    BY DEF Traverse, Link
  <2> QED BY <2>1, ShrinkOps
<1>5. ASSUME NEW st \in {"PENDING", "APPLIED"}, NEW j,
             j.slot = SetStatus(k, st).slot, j.tbl = SetStatus(k, st).tbl
      PROVE  Shrinks(k, j)
  <2>1. SetStatus(k, st) \in Link /\ Shrinks(k, SetStatus(k, st))
    BY RingFacts, ShrinkOps
  <2>2. Shrinks(SetStatus(k, st), j)
    BY <1>5, <2>1, ShrinkOps
  <2> QED BY <2>1, <2>2, ShrinkFacts
<1>6. Shrinks(k, Retry(k))
  <2> DEFINE j == SetStatus(k, "PENDING")
             l == [j EXCEPT !.retry_cnt = (j.retry_cnt + 1) % 2]
  <2>1. j \in Link /\ Retry(k) = l
    BY RingFacts DEF Retry
  <2> HIDE DEF j
  <2>2. l.slot = j.slot /\ l.tbl = j.tbl
    BY <2>1 DEF Link
  <2> QED BY <1>5, <2>1, <2>2 DEF j
<1>7. Shrinks(k, Applied(k))
  <2> DEFINE j == SetStatus(k, "APPLIED")
             la == IF k.slot[k.rd].req > 0 THEN k.rd ELSE j.last_applied
             j1 == [j EXCEPT !.retry_cnt = 0]
             j2 == [j1 EXCEPT !.state = "READY"]
             k1 == [j2 EXCEPT !.last_applied = la]
  <2>1. j \in Link /\ k.rd \in Idx
    BY RingFacts DEF Link
  <2>2. la \in Idx \cup {-1}
    BY <2>1 DEF Link
  <2>3. Applied(k) = ResetSlot(k1, Dec(k.rd, max_delay + 1))
    BY DEF Applied
  <2> HIDE DEF j, la
  <2>4. k1 \in Link
    <3>0. 0 \in 0 .. 1
      OBVIOUS
    <3>1. j1 \in Link
      BY <2>1, <3>0, StateFacts, Zenon
    <3> HIDE DEF j1
    <3>2. j2 \in Link
      BY <3>1, StateFacts
    <3> HIDE DEF j2
    <3> QED BY <2>2, <3>2, FieldFacts
  <2>5. k1.slot = j.slot /\ k1.tbl = j.tbl
    BY <2>1 DEF Link
  <2>6. Dec(k.rd, max_delay + 1) \in Idx
    BY <2>1, DelayFacts, IdxFacts
  <2> HIDE DEF k1
  <2>7. Shrinks(k, k1)
    BY <1>5, <2>5 DEF j
  <2>8. Shrinks(k1, Applied(k))
    BY <2>3, <2>4, <2>6, ShrinkOps
  <2> QED BY <2>7, <2>8, ShrinkFacts
<1> QED BY <1>2, <1>3, <1>4, <1>6, <1>7

\* A trace that is longer by a request all devices with this delay have reported
LEMMA TraceFacts ==
  ASSUME NEW tr, NEW h, TraceOk(tr, h), trace' \in [Devs -> Seq(Int)],
         \A d \in Devs :
           \/ trace'[d] = tr[d]
           \/ \E r \in Int : /\ trace'[d] = Append(tr[d], r)
                             /\ \A e \in Devs : PD[d] = PD[e] => r \in h[e]
  PROVE  TraceOk(trace', h)
<1> SUFFICES ASSUME NEW d \in Devs, NEW e \in Devs, PD[d] = PD[e]
             PROVE  Elems(trace'[d]) \subseteq h[e]
  BY DEF TraceOk
<1>1. Elems(tr[d]) \subseteq h[e] /\ tr[d] \in Seq(Int)
  BY DEF TraceOk
<1>2. CASE trace'[d] = tr[d]
  BY <1>1, <1>2
<1>3. ASSUME NEW r \in Int, trace'[d] = Append(tr[d], r), r \in h[e]
      PROVE  Elems(trace'[d]) \subseteq h[e]
  <2> SUFFICES ASSUME NEW n \in 1 .. Len(trace'[d]) PROVE trace'[d][n] \in h[e]
    BY DEF Elems
  <2>1. CASE n = Len(tr[d]) + 1
    BY <1>1, <1>3, <2>1
  <2>2. CASE n \in 1 .. Len(tr[d])
    BY <1>1, <1>3, <2>2 DEF Elems
  <2>3. Len(trace'[d]) = Len(tr[d]) + 1 /\ Len(tr[d]) \in Nat
    BY <1>1, <1>3
  <2> QED BY <2>1, <2>2, <2>3
<1> QED BY <1>2, <1>3

\* What __cam_req_mgr_process_req sends was reported by all devices that get it.
LEMMA ProcessReqSends ==
  ASSUME NEW k \in Link, NEW h, NEW tr, NEW f, Backed(k, h), TraceOk(tr, h), ProcessReq(k, tr, f)
  PROVE  Shrinks(k, link') /\ TraceOk(trace', h)
<1>1. CASE k.slot[k.rd].status # "NO_REQ" /\ Injected(k) = {} /\ TraverseOk(k)
  <2> DEFINE a == [p \in PDs |-> Applies(k, p)]
             k1 == Traverse(k)
  <2>1. Send(k1, a, tr, f)
    BY <1>1 DEF ProcessReq
  <2>2. k1 \in Link /\ k1.rd = k.rd /\ k1.tbl = k.tbl /\ Shrinks(k, k1)
    BY SendFacts, ShrinkSteps DEF Traverse, Link
  <2> HIDE DEF k1
  <2>3. Alone(k1) = {}
    <3> DEFINE S == {i \in 1 .. Len(DevSeq) : Flagged(k1, i, "skip_next")}
    <3>1. ASSUME NEW i \in S PROVE FALSE
      <4>1. DevSeq[i] \in Devs
        BY DEF Devs
      <4>2. PD[DevSeq[i]] \in PDs /\ At(k1, PD[DevSeq[i]]) \in Idx
        BY <2>2, <4>1, DelayFacts, IdxFacts
      <4>3. TblSlot(k1, i).skip_next
        BY DEF Flagged
      <4> QED BY <2>2, <4>2, <4>3 DEF Backed, TblSlot
    <3>2. S = {}
      BY <3>1
    <3> QED BY <3>2 DEF Alone
  <2>4. Shrinks(k1, link')
    <3>1. ClearApplied(k1, a, f) \in Link /\ Shrinks(k1, ClearApplied(k1, a, f))
      BY <2>2, SendFacts, ShrinkSteps
    <3>2. link' = Applied(ClearApplied(k1, a, f)) \/ link' = Retry(ClearApplied(k1, a, f))
      BY <2>1, <2>3 DEF Send
    <3>3. Shrinks(ClearApplied(k1, a, f), link')
      BY <3>1, <3>2, ShrinkSteps
    <3> QED BY <3>1, <3>3, ShrinkFacts
  <2>5. \A p \in PDs : a[p] \in Int
    <3> SUFFICES ASSUME NEW p \in PDs PROVE Applies(k, p) \in Int
      OBVIOUS
    <3>1. k.slot[At(k, p)] \in Slot
      BY IdxFacts DEF Link
    <3>2. k.slot[At(k, p)].req \in Int /\ NoReq \in Int
      BY <3>1 DEF Slot, Reqs, NoReq
    <3> QED BY <3>2 DEF Applies
  <2>6. ASSUME NEW d \in Devs, a[PD[d]] > 0, NEW e \in Devs, PD[d] = PD[e]
        PROVE  a[PD[d]] \in h[e]
    <3> DEFINE p == PD[d]
               r == k.slot[At(k, p)].req
    <3>1. p \in PDs /\ At(k, p) \in Idx
      BY DelayFacts, IdxFacts
    <3>2. a[p] = r /\ ~(k.skip_traverse[p] > 0) /\ r # NoReq
      BY <2>6, <3>1 DEF Applies, NoReq
    <3>3. ~k.slot[At(k, p)].skip
      BY <3>1, <3>2 DEF Backed
    <3>4. k.tbl[p][At(k, p)].ready = DevsOf(p)
      BY <1>1, <3>1, <3>2, <3>3 DEF TraverseOk
    <3>5. e \in k.tbl[p][At(k, p)].ready
      BY <2>6, <3>4 DEF DevsOf
    <3> QED BY <3>1, <3>2, <3>5 DEF Backed
  <2> HIDE DEF a
  <2>7. TraceOk(trace', h)
    <3>0. tr \in [Devs -> Seq(Int)] /\ \A d \in Devs : PD[d] \in PDs
      BY DelayFacts DEF TraceOk
    <3> DEFINE B(d) == f = 0 /\ \E i \in Targets(k1, a) : DevSeq[i] = d
    <3>1. trace' = [d \in Devs |-> IF B(d) THEN Append(tr[d], a[PD[d]]) ELSE tr[d]]
      BY <2>1 DEF Send, Sent
    <3>2. ASSUME NEW d \in Devs, B(d)  PROVE a[PD[d]] > 0
      BY <2>3, <3>2 DEF Targets
    <3> HIDE DEF B
    <3>3. \A d \in Devs : tr[d] \in Seq(Int) /\ a[PD[d]] \in Int
      BY <2>5, <3>0
    <3>4. trace' \in [Devs -> Seq(Int)]
      BY <3>1, <3>3
    <3>5. ASSUME NEW d \in Devs
          PROVE  \/ trace'[d] = tr[d]
                 \/ \E r \in Int : /\ trace'[d] = Append(tr[d], r)
                                   /\ \A e \in Devs : PD[d] = PD[e] => r \in h[e]
      <4>1. CASE ~B(d)
        BY <3>1, <4>1
      <4>2. CASE B(d)
        <5>1. trace'[d] = Append(tr[d], a[PD[d]]) /\ a[PD[d]] > 0
          BY <3>1, <3>2, <4>2
        <5> QED BY <2>6, <3>3, <5>1
      <4> QED BY <4>1, <4>2
    <3> QED BY <3>4, <3>5, TraceFacts
  <2> QED BY <2>2, <2>4, <2>7, ShrinkFacts
<1>2. CASE ~(k.slot[k.rd].status # "NO_REQ" /\ Injected(k) = {} /\ TraverseOk(k))
  <2>1. /\ link' = IF k.slot[k.rd].status = "NO_REQ" THEN k ELSE SetStatus(Inject(k), "PENDING")
        /\ trace' = tr
    BY <1>2 DEF ProcessReq
  <2>2. Inject(k) \in Link /\ Shrinks(k, Inject(k))
    BY SendFacts, ShrinkSteps
  <2>3. Shrinks(Inject(k), SetStatus(Inject(k), "PENDING")) /\ Shrinks(k, k)
    BY <2>2, ShrinkOps
  <2>4. Shrinks(k, link')
    BY <2>1, <2>2, <2>3, ShrinkFacts
  <2> QED BY <2>1, <2>4
<1> QED BY <1>1, <1>2

\* The packet of a request that a device reports is there from then on.
LEMMA HasGrows ==
  ASSUME NEW h, NEW g, \A d \in Devs : h[d] \subseteq g[d]
  PROVE  /\ \A tr : TraceOk(tr, h) => TraceOk(tr, g)
         /\ \A k : (\A i \in Idx, p \in PDs : k.tbl[p][i].ready \subseteq Devs) /\ Backed(k, h)
                     => Backed(k, g)
<1>1. ASSUME NEW tr, TraceOk(tr, h)  PROVE TraceOk(tr, g)
  BY <1>1 DEF TraceOk
<1>2. ASSUME NEW k, \A i \in Idx, p \in PDs : k.tbl[p][i].ready \subseteq Devs, Backed(k, h)
      PROVE  Backed(k, g)
  BY <1>2 DEF Backed
<1> QED BY <1>1, <1>2

\* What a device is sent before a bubble is part of what it was sent.
LEMMA CutFacts ==
  ASSUME NEW s \in Seq(Int), NEW r
  PROVE  CutBack(s, r) \in Seq(Int) /\ Elems(CutBack(s, r)) \subseteq Elems(s)
<1> DEFINE S == {n \in 1 .. Len(s) : s[n] < r}
           m == Cardinality(S)
<1>1. m \in 0 .. Len(s)
  <2>0. Len(s) \in Nat
    OBVIOUS
  <2>1. IsFiniteSet(1 .. Len(s)) /\ Cardinality(1 .. Len(s)) = Len(s)
    <3> DEFINE l == Len(s)
    <3> HIDE DEF l
    <3>1. l \in Nat => IsFiniteSet(1 .. l) /\ Cardinality(1 .. l) = l
      BY FS_Interval
    <3> QED BY <2>0, <3>1 DEF l
  <2>2. S \subseteq 1 .. Len(s)
    OBVIOUS
  <2> HIDE DEF S
  <2>3. IsFiniteSet(S) /\ Cardinality(S) <= Len(s)
    BY <2>1, <2>2, FS_Subset
  <2>4. Cardinality(S) \in Nat
    BY <2>3, FS_CardinalityType
  <2> QED BY <2>3, <2>4
<1>2. CutBack(s, r) = SubSeq(s, 1, m)
  BY DEF CutBack
<1> HIDE DEF m
<1>3. /\ SubSeq(s, 1, m) \in Seq(Int) /\ Len(SubSeq(s, 1, m)) = m
      /\ \A n \in 1 .. m : SubSeq(s, 1, m)[n] = s[n]
  BY <1>1
<1> QED BY <1>1, <1>2, <1>3 DEF Elems

LEMMA PlainFacts ==
  ASSUME tasks \in Seq(PlainTask)
  PROVE  /\ \A t \in PlainTask : Append(tasks, t) \in Seq(PlainTask)
         /\ tasks # <<>> => Head(tasks) \in PlainTask /\ Tail(tasks) \in Seq(PlainTask)
OBVIOUS

LEMMA UserSends ==
  ASSUME NoneAlone, Timely, TypeInv, SendInv, Userspace \/ Device \/ NotifyTrigger \/ FlushTimeout
  PROVE  SendInv'
<1>0. link \in Link /\ MaxReq \in Nat /\ next \in 1 .. MaxReq + 1 /\ done \in Reqs \cup {0}
  BY LinkAssumption DEF TypeInv
<1>1. ASSUME NEW recover \in BOOLEAN, Sched(recover)  PROVE SendInv'
  <2>1. UNCHANGED <<tasks, has, trace>> /\ link.slot[link.wr].status = "NO_REQ"
    BY <1>1 DEF Sched, Vacant
  <2>2. Backed(link', has)
    <3>1. CASE next <= link.last_flush_id
      BY <1>1, <3>1 DEF Sched, SendInv
    <3>2. CASE ~(next <= link.last_flush_id)
      <4> DEFINE x == [req |-> next, status |-> "ADDED", skip |-> FALSE, recover |-> recover]
      <4>1. link' = [link EXCEPT !.last_flush_id = 0, !.slot[link.wr] = x, !.wr = Inc(@)]
        BY <1>1, <3>2 DEF Sched
      <4>2. x.status # "NO_REQ" /\ ~x.skip
        OBVIOUS
      <4> HIDE DEF x
      <4>3. /\ link'.tbl = link.tbl /\ link.wr \in Idx /\ link'.slot[link.wr] = x
            /\ \A i \in Idx : i # link.wr => link'.slot[i] = link.slot[i]
        BY <1>0, <4>1 DEF Link
      <4>4. \A p \in PDs : link.tbl[p][link.wr].ready = {}
        BY <2>1, <4>3 DEF SendInv, Backed
      <4> QED BY <4>2, <4>3, <4>4 DEF SendInv, Backed
    <3> QED BY <3>1, <3>2
  <2> QED BY <2>1, <2>2 DEF SendInv
<1>2. ASSUME NEW t \in PlainTask, Enqueue(t), UNCHANGED <<link, has, trace>>  PROVE SendInv'
  BY <1>2, PlainFacts DEF Enqueue, SendInv
<1>3. ASSUME NEW r \in Reqs, NEW type \in {"cancel", "all"}, Flush(type, r)  PROVE SendInv'
  <2>1. [type |-> type, req |-> r] \in PlainTask
    BY DEF TaskType, PlainTask
  <2> QED BY <1>2, <1>3, <2>1 DEF Flush
<1>4. ASSUME NEW d \in Devs, NEW r \in Reqs, NEW ask \in Asks[d], AddReq(d, r, ask)  PROVE SendInv'
  <2>1. ask \in Asked /\ ~ask.skip_next
    BY LinkAssumption DEF Asked, NoneAlone
  <2>2. [type |-> "add", req |-> r, dev |-> d, ask |-> ask] \in PlainTask
    BY <2>1 DEF TaskType, PlainTask
  <2> QED BY <1>2, <1>4, <2>2 DEF AddReq
<1>5. CASE NotifyTrigger
  <2>1. [type |-> "sof", req |-> done] \in PlainTask
    BY <1>0 DEF TaskType, PlainTask
  <2> QED BY <1>2, <1>5, <2>1 DEF NotifyTrigger
<1>6. ASSUME NEW r \in Reqs, BufDone(r)  PROVE SendInv'
  BY <1>6 DEF BufDone, SendInv
<1>7. ASSUME NEW r \in Reqs, NotifyErr(r)  PROVE SendInv'
  <2>1. [type |-> "err", req |-> r] \in PlainTask
    BY DEF TaskType, PlainTask
  <2> QED BY <1>2, <1>7, <2>1 DEF NotifyErr
<1>8. CASE NotifyStop
  <2>1. [type |-> "stop", req |-> NoReq] \in PlainTask
    BY DEF TaskType, PlainTask
  <2> QED BY <1>2, <1>8, <2>1 DEF NotifyStop
<1>9. CASE FlushTimeout
  BY <1>9 DEF FlushTimeout, SendInv
<1>10. ASSUME NEW r \in Scheduled, Flush("cancel", r)  PROVE SendInv'
  <2>1. r \in Reqs
    BY <1>0 DEF Scheduled, Reqs
  <2> QED BY <1>3, <1>10, <2>1
<1> QED BY <1>1, <1>3, <1>4, <1>5, <1>6, <1>7, <1>8, <1>9, <1>10 DEF Userspace, Device, Report

\* The slot that a search finds holds the request.
LEMMA FoundHolds ==
  ASSUME NEW k \in Link, NEW r, FindSlot(k, r) # -1
  PROVE  FindSlot(k, r) \in Idx /\ k.slot[FindSlot(k, r)].req = r
<1> DEFINE at == {n \in Idx : k.slot[Dec(k.rd, n)].req = r}
           n == CHOOSE n \in at : \A m \in at : n <= m
<1>1. at # {} /\ FindSlot(k, r) = Dec(k.rd, n)
  BY DEF FindSlot
<1>2. at \subseteq Nat
  BY DEF Idx
<1>3. \E x \in at : \A m \in at : x <= m
  <2> HIDE DEF at
  <2> QED BY <1>1, <1>2, LeastNat
<1>4. n \in at
  BY <1>3
<1>5. FindSlot(k, r) \in Idx
  BY FindFacts
<1> QED BY <1>1, <1>4, <1>5

LEMMA AddReqSends == ASSUME TypeInv, SendInv, ProcessAddReq  PROVE SendInv'
<1> DEFINE t == Head(tasks)
           i == FindSlot(link, t.req)
           p == PD[t.dev]
           s == link.tbl[p][i]
           x == [ready |-> s.ready \cup {t.dev}, is_applied |-> FALSE,
                 inject |-> IF t.ask.delay > s.inject THEN t.ask.delay ELSE s.inject,
                 hdl |-> IF t.ask.delay > s.inject THEN t.dev ELSE s.hdl,
                 skip_next |-> s.skip_next \/ (t.ask.delay > s.inject /\ t.ask.skip_next)]
           h == [has EXCEPT ![t.dev] = @ \cup {t.req}]
<1>1. /\ link \in Link /\ tasks \in Seq(PlainTask) /\ has \in [Devs -> SUBSET Reqs]
      /\ tasks # <<>> /\ t.type = "add" /\ tasks' = Tail(tasks) /\ trace' = trace
  BY DEF TypeInv, SendInv, ProcessAddReq, Task
<1>2. t \in PlainTask /\ tasks' \in Seq(PlainTask)
  BY <1>1, PlainFacts
<1>3. t.dev \in Devs /\ t.req \in Reqs /\ ~t.ask.skip_next
  BY <1>1, <1>2, TaskFacts DEF PlainTask
<1>4. i \in Idx \cup {-1} /\ p \in PDs
  BY <1>1, <1>3, FindFacts, DelayFacts
<1>5. CASE i = -1
  <2>1. UNCHANGED <<link, has>>
    <3>1. i < 0
      BY <1>5
    <3> QED BY <3>1 DEF ProcessAddReq
  <2> QED BY <1>1, <1>2, <2>1 DEF SendInv
<1>6. CASE i \in Idx
  <2>1. /\ link' = [link EXCEPT !.tbl[p][i] = x] /\ has' = h
    <3>1. ~(i < 0)
      BY <1>6 DEF Idx
    <3> QED BY <3>1 DEF ProcessAddReq
  <2>2. link.slot[i].req = t.req
    <3>1. i # -1
      BY <1>6 DEF Idx
    <3> QED BY <1>1, <3>1, FoundHolds
  <2>3. ~s.skip_next /\ x.ready = s.ready \cup {t.dev} /\ ~x.skip_next
    BY <1>3, <1>4, <1>6 DEF SendInv, Backed
  <2> HIDE DEF x, i, p, t
  <2>4. /\ h \in [Devs -> SUBSET Reqs] /\ \A d \in Devs : has[d] \subseteq h[d]
        /\ t.req \in h[t.dev]
    BY <1>1, <1>3
  <2> HIDE DEF h
  <2>5. /\ link'.slot = link.slot /\ link'.tbl[p][i] = x
        /\ \A q \in PDs, j \in Idx : (q # p \/ j # i) => link'.tbl[q][j] = link.tbl[q][j]
    BY <1>1, <1>4, <1>6, <2>1 DEF Link
  <2>6. Backed(link, h) /\ TraceOk(trace, h)
    <3>1. \A j \in Idx, q \in PDs : link.tbl[q][j].ready \subseteq Devs
      BY <1>1, TblFacts DEF Tbl
    <3> QED BY <2>4, <3>1, HasGrows DEF SendInv
  <2>7. Backed(link', h)
    <3>1. link.slot[i].req # NoReq /\ link.slot[i].status # "NO_REQ"
      BY <1>3, <1>6, <2>2 DEF SendInv, Backed, Reqs, NoReq
    <3> SUFFICES ASSUME NEW j \in Idx
        PROVE /\ link'.slot[j].status = "NO_REQ"
                   => link'.slot[j].req = NoReq /\ \A q \in PDs : link'.tbl[q][j].ready = {}
              /\ link'.slot[j].skip => link'.slot[j].req = NoReq
              /\ \A q \in PDs :
                   /\ ~link'.tbl[q][j].skip_next
                   /\ \A d \in link'.tbl[q][j].ready :
                        link'.slot[j].req # NoReq => link'.slot[j].req \in h[d]
      BY DEF Backed
    <3>2. CASE j # i
      BY <2>5, <2>6, <3>2 DEF Backed
    <3>3. CASE j = i
      <4>1. ASSUME NEW q \in PDs
            PROVE  /\ ~link'.tbl[q][j].skip_next
                   /\ \A d \in link'.tbl[q][j].ready :
                        link'.slot[j].req # NoReq => link'.slot[j].req \in h[d]
        <5>1. CASE q # p
          BY <2>5, <2>6, <5>1 DEF Backed
        <5>2. CASE q = p
          <6>1. link'.tbl[q][j] = x /\ link'.slot[j].req = t.req
            BY <2>2, <2>5, <3>3, <5>2
          <6>2. \A d \in s.ready : t.req \in h[d]
            BY <1>4, <1>6, <2>2, <2>6, <3>1 DEF Backed
          <6> QED BY <2>3, <2>4, <6>1, <6>2
        <5> QED BY <5>1, <5>2
      <4>2. link'.slot[j].skip => link'.slot[j].req = NoReq
        BY <2>5, <2>6 DEF Backed
      <4> QED BY <2>5, <3>1, <3>3, <4>1, <4>2
    <3> QED BY <3>2, <3>3
  <2> QED BY <1>1, <1>2, <2>1, <2>4, <2>6, <2>7 DEF SendInv
<1> QED BY <1>4, <1>5, <1>6

LEMMA TriggerSends == ASSUME TypeInv, SendInv, NEW f, ProcessTrigger(f)  PROVE SendInv'
<1>1. /\ link \in Link /\ tasks \in Seq(PlainTask) /\ tasks # <<>>
      /\ tasks' = Tail(tasks) /\ has' = has
  BY DEF TypeInv, SendInv, ProcessTrigger, Task
<1>2. PICK k : k = ResetDone(link, Head(tasks).req) /\
               \E k1 \in {IF k.slot[k.rd].status = "APPLIED" THEN ToNext(k) ELSE k} :
                  IF k1.rd # k.rd /\ k1.slot[k1.rd].status = "NO_REQ"
                    THEN f = 0 /\ link' = k1 /\ UNCHANGED trace
                    ELSE ProcessReq(k1, trace, f)
  BY DEF ProcessTrigger
<1>3. k \in Link /\ Shrinks(link, k)
  <2> DEFINE r == Head(tasks).req
             i == FindSlot(link, r)
             la == IF i >= 0 /\ link.last_applied = i THEN -1 ELSE link.last_applied
             j == [link EXCEPT !.last_applied = la]
  <2>1. i \in Idx \cup {-1}
    BY <1>1, FindFacts
  <2>2. k = ResetSlot(j, i)
    BY <1>2 DEF ResetDone
  <2>3. la \in Idx \cup {-1}
    BY <1>1, <2>1 DEF Link
  <2> HIDE DEF i, la
  <2>4. j \in Link
    BY <1>1, <2>3, FieldFacts
  <2>5. j.slot = link.slot /\ j.tbl = link.tbl
    BY <1>1 DEF Link
  <2> HIDE DEF j
  <2>6. Shrinks(link, j) /\ Shrinks(j, k)
    BY <1>1, <2>1, <2>2, <2>4, <2>5, ShrinkOps
  <2>7. k \in Link
    BY <1>1, <1>2, TriggerFacts
  <2>8. Shrinks(link, k)
    BY <2>6, ShrinkFacts
  <2> QED BY <2>7, <2>8
<1>4. ToNext(k) \in Link /\ Shrinks(k, ToNext(k))
  <2> DEFINE n == Inc(k.rd)
             j == SkipIdx(k, n)
  <2>1. ToNext(k) \in Link /\ n \in Idx
    BY <1>3, TriggerFacts, IdxFacts DEF Link
  <2>2. j \in Link /\ Shrinks(k, j)
    BY <1>3, <2>1, RingFacts, ShrinkOps
  <2>3. CASE k.slot[n].status = "NO_REQ" /\ Lower
    <3>1. ToNext(k) = [j EXCEPT !.wr = Inc(@), !.rd = n]
      BY <2>3 DEF ToNext
    <3> HIDE DEF j, n
    <3>2. ToNext(k).slot = j.slot /\ ToNext(k).tbl = j.tbl
      BY <2>2, <3>1 DEF Link
    <3>3. Shrinks(j, ToNext(k))
      BY <2>2, <3>2, ShrinkOps
    <3> QED BY <2>1, <2>2, <3>3, ShrinkFacts
  <2>4. CASE ~(k.slot[n].status = "NO_REQ" /\ Lower)
    <3>1. ToNext(k) = [k EXCEPT !.rd = n]
      BY <2>4 DEF ToNext
    <3>2. ToNext(k).slot = k.slot /\ ToNext(k).tbl = k.tbl
      BY <1>3, <3>1 DEF Link
    <3> QED BY <1>3, <2>1, <3>2, ShrinkOps
  <2> QED BY <2>3, <2>4
<1>5. PICK k1 \in Link : /\ Shrinks(link, k1)
                         /\ (link' = k1 /\ UNCHANGED trace) \/ ProcessReq(k1, trace, f)
  BY <1>2, <1>3, <1>4, ShrinkFacts
<1>6. Backed(link, has) /\ TraceOk(trace, has) /\ Backed(k1, has)
  BY <1>5, ShrinkFacts DEF SendInv
<1>7. Shrinks(k1, link') /\ TraceOk(trace', has)
  <2>1. Shrinks(k1, k1)
    BY ShrinkOps
  <2> QED BY <1>5, <1>6, <2>1, ProcessReqSends
<1>8. Backed(link', has)
  BY <1>6, <1>7, ShrinkFacts
<1>9. tasks' \in Seq(PlainTask)
  BY <1>1, PlainFacts
<1> QED BY <1>1, <1>7, <1>8, <1>9 DEF SendInv

LEMMA ErrorSends == ASSUME TypeInv, SendInv, NEW sof, NEW f, ProcessError(sof, f)  PROVE SendInv'
<1> DEFINE r == Head(tasks).req
           i == FindSlot(link, r)
           k == Back(link, i)
           cut == [d \in Devs |-> CutBack(trace[d], r)]
<1>1. /\ link \in Link /\ tasks \in Seq(PlainTask) /\ tasks # <<>>
      /\ tasks' = Tail(tasks) /\ has' = has /\ Backed(link, has) /\ TraceOk(trace, has)
  BY DEF TypeInv, SendInv, ProcessError, Task
<1>2. \/ UNCHANGED <<link, trace>>
      \/ i >= 0 /\ link' = k /\ trace' = cut
      \/ i >= 0 /\ ProcessReq(k, cut, f)
  BY DEF ProcessError, Back
<1>3. TraceOk(cut, has)
  <2>1. \A d \in Devs : /\ CutBack(trace[d], r) \in Seq(Int)
                        /\ Elems(CutBack(trace[d], r)) \subseteq Elems(trace[d])
    BY <1>1, CutFacts DEF TraceOk
  <2> HIDE DEF r
  <2> QED BY <1>1, <2>1 DEF TraceOk
<1>4. ASSUME i >= 0  PROVE k \in Link /\ Shrinks(link, k)
  <2>1. i \in Idx
    <3>1. i \in Idx \cup {-1}
      BY <1>1, FindFacts
    <3> QED BY <1>4, <3>1
  <2> HIDE DEF i
  <2>2. k \in Link
    BY <1>1, <2>1, BackFacts
  <2>3. /\ k.tbl = link.tbl /\ link.slot[i] \in Slot
        /\ k.slot = [link.slot EXCEPT ![i] = [link.slot[i] EXCEPT !.status = "ADDED"]]
    BY <1>1, <2>1 DEF Back, Link
  <2>4. \A n \in Idx : n # i => k.slot[n] = link.slot[n]
    BY <1>1, <2>1, <2>3 DEF Link
  <2>5. k.slot[i].req = link.slot[i].req /\ k.slot[i].skip = link.slot[i].skip
        /\ k.slot[i].status = "ADDED"
    <3>1. k.slot[i] = [link.slot[i] EXCEPT !.status = "ADDED"]
      BY <1>1, <2>1, <2>3 DEF Link
    <3> QED BY <2>3, <3>1 DEF Slot
  <2> QED BY <2>2, <2>3, <2>4, <2>5 DEF Shrinks
<1> HIDE DEF k, cut, i
<1>5. Backed(link', has) /\ TraceOk(trace', has)
  <2>1. CASE UNCHANGED <<link, trace>>
    BY <1>1, <2>1
  <2>2. CASE i >= 0 /\ link' = k /\ trace' = cut
    BY <1>1, <1>3, <1>4, <2>2, ShrinkFacts
  <2>3. CASE i >= 0 /\ ProcessReq(k, cut, f)
    <3>1. k \in Link /\ Backed(k, has)
      BY <1>1, <1>4, <2>3, ShrinkFacts
    <3>2. Shrinks(k, link') /\ TraceOk(trace', has)
      BY <1>3, <2>3, <3>1, ProcessReqSends
    <3> QED BY <3>1, <3>2, ShrinkFacts
  <2> QED BY <1>2, <2>1, <2>2, <2>3
<1>6. tasks' \in Seq(PlainTask)
  BY <1>1, PlainFacts
<1> QED BY <1>1, <1>5, <1>6 DEF SendInv

LEMMA FlushSends ==
  ASSUME TypeInv, Busy, SendInv, ProcessStop \/ ProcessStopEnd \/ ProcessFlushAll \/ ProcessCancel
  PROVE  SendInv'
<1>0. /\ link \in Link /\ tasks \in Seq(PlainTask) /\ has \in [Devs -> SUBSET Reqs]
      /\ Backed(link, has) /\ TraceOk(trace, has)
      /\ FlushSlots(link) \in Link /\ Shrinks(link, FlushSlots(link))
  BY RingFacts, ShrinkOps DEF TypeInv, SendInv
<1>1. trace' = [d \in Devs |-> <<>>] => TraceOk(trace', has)
  <2> SUFFICES ASSUME trace' = [d \in Devs |-> <<>>] PROVE TraceOk(trace', has)
    OBVIOUS
  <2>1. trace' \in [Devs -> Seq(Int)] /\ \A d \in Devs : Elems(trace'[d]) = {}
    BY DEF Elems
  <2> QED BY <2>1 DEF TraceOk
<1>2. CASE ProcessStop
  <2>1. UNCHANGED <<tasks, has>> /\ link' = FlushSlots(link) /\ trace' = [d \in Devs |-> <<>>]
    BY <1>2 DEF ProcessStop, ForgetAll
  <2> QED BY <1>0, <1>1, <2>1, ShrinkFacts DEF SendInv
<1>3. CASE ProcessStopEnd
  <2>1. /\ tasks # <<>> /\ tasks' = Tail(tasks) /\ UNCHANGED <<has, trace>>
        /\ link' = [link EXCEPT !.rd = 0, !.wr = 0]
    BY <1>3 DEF ProcessStopEnd, Busy
  <2>2. link'.slot = link.slot /\ link'.tbl = link.tbl
    BY <1>0, <2>1 DEF Link
  <2>3. Shrinks(link, link')
    BY <1>0, <2>2, ShrinkOps
  <2> QED BY <1>0, <2>1, <2>3, PlainFacts, ShrinkFacts DEF SendInv
<1>4. CASE ProcessFlushAll
  <2> DEFINE j == FlushSlots(link)
  <2>1. /\ tasks # <<>> /\ tasks' = Tail(tasks) /\ UNCHANGED has
        /\ link' = [j EXCEPT !.last_flush_id = Head(tasks).req, !.rd = 0, !.wr = 0]
        /\ trace' = [d \in Devs |-> <<>>]
    BY <1>4 DEF ProcessFlushAll, Task, ForgetAll
  <2> HIDE DEF j
  <2>2. link'.slot = j.slot /\ link'.tbl = j.tbl
    BY <1>0, <2>1 DEF Link, j
  <2>3. Shrinks(j, link')
    BY <1>0, <2>2, ShrinkOps DEF j
  <2>4. Backed(link', has)
    BY <1>0, <2>3, ShrinkFacts DEF j
  <2> QED BY <1>0, <1>1, <2>1, <2>4, PlainFacts DEF SendInv
<1>5. CASE ProcessCancel
  <2> DEFINE i == FindSlot(link, Head(tasks).req)
  <2>1. tasks # <<>> /\ tasks' = Tail(tasks) /\ UNCHANGED <<has, trace>>
    BY <1>5 DEF ProcessCancel, Task
  <2>2. i \in Idx \cup {-1}
    BY <1>0, FindFacts
  <2>3. ASSUME i < 0 \/ (i >= 0 /\ link.slot[i].status \in {"PENDING", "APPLIED"})
        PROVE  Backed(link', has)
    BY <1>0, <1>5, <2>3 DEF ProcessCancel
  <2>4. ASSUME ~(i < 0 \/ (i >= 0 /\ link.slot[i].status \in {"PENDING", "APPLIED"}))
        PROVE  Backed(link', has)
    <3>1. link' = SkipIdx(link, i)
      BY <1>5, <2>4 DEF ProcessCancel
    <3>2. i \in Idx
      BY <2>2, <2>4
    <3> HIDE DEF i
    <3>3. Shrinks(link, link')
      BY <1>0, <3>1, <3>2, ShrinkOps
    <3> QED BY <1>0, <3>3, ShrinkFacts
  <2>5. Backed(link', has)
    BY <2>3, <2>4
  <2> QED BY <1>0, <2>1, <2>5, PlainFacts DEF SendInv
<1> QED BY <1>2, <1>3, <1>4, <1>5

LEMMA InitSends == Init => SendInv
<1> SUFFICES ASSUME Init PROVE SendInv
  OBVIOUS
<1>1. /\ \A i \in Idx : link.slot[i] = EmptySlot
      /\ \A p \in PDs, i \in Idx : link.tbl[p][i] = EmptyTbl
  BY DEF Init
<1>2. Backed(link, has)
  BY <1>1 DEF Backed, EmptySlot, EmptyTbl
<1>3. TraceOk(trace, has)
  <2>1. trace \in [Devs -> Seq(Int)] /\ \A d \in Devs : Elems(trace[d]) = {}
    BY DEF Init, Elems
  <2> QED BY <2>1 DEF TraceOk
<1> QED BY <1>2, <1>3 DEF Init, SendInv

LEMMA StepSends ==
  ASSUME NoneAlone, Timely  PROVE TypeInv /\ Busy /\ SendInv /\ [Next]_vars => SendInv'
<1> SUFFICES ASSUME TypeInv, Busy, SendInv, [Next]_vars PROVE SendInv'
  OBVIOUS
<1>1. CASE UNCHANGED vars
  BY <1>1 DEF vars, SendInv
<1>2. CASE Worker
  BY <1>2, AddReqSends, TriggerSends, ErrorSends, FlushSends DEF Worker
<1>3. CASE Userspace \/ Device \/ NotifyTrigger \/ FlushTimeout
  BY <1>3, UserSends
<1> QED BY <1>1, <1>2, <1>3 DEF Next

\* What the apply loop of __cam_req_mgr_send_req hands to a device has been reported by it and by
\* every other device of its delay, through flushes, cancels, bubbles, refusals and delays and for
\* any ring: if userspace never writes over a slot that is not free, a slot in use again does not
\* inherit the req_ready_map of the request before.  It needs neither Unmarked nor QuietStop.  A
\* device that is sent a request alone (skip_before_applying with SKIP_NEXT_FRAME) is left out: its
\* flag outlives the request, and what it is sent may be the id of a skipped slot.
THEOREM SentOnlyWhenReady ==
  ASSUME NoneAlone, Timely  PROVE Spec => []SentWhenReady
<1>1. SendInv => SentWhenReady
  BY DEF SendInv, TraceOk, SentWhenReady
<1>2. TypeInv /\ Busy /\ SendInv /\ [Next]_vars => TypeInv' /\ Busy' /\ SendInv'
  BY StepType, StepSends
<1>3. Init => TypeInv /\ Busy /\ SendInv
  BY InitType, InitSends
<1> QED BY <1>1, <1>2, <1>3, PTL DEF Spec
=============================================================================
