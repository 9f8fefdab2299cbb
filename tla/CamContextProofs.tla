-------------------------- MODULE CamContextProofs --------------------------
(***************************************************************************)
(* Every safety property of CamContext, for any number of requests and     *)
(* fences, when userspace keeps its fences (KeepsFences) and its packets   *)
(* are whole and name an in-fence (FullPackets); HwAccepts is left open.   *)
(*                                                                         *)
(* One inductive invariant says where a request can be: free, waiting for  *)
(* its in-fences, dropped by a flush, ending in the last callback, or      *)
(* applied to the hardware; and that the acknowledgements of a request and *)
(* its open callbacks add up to its in-fences, so that exactly one thread  *)
(* sees the last of them.                                                  *)
(***************************************************************************)
EXTENDS CamContext, FiniteSetTheorems, SequenceTheorems, TLAPS

\* Where each thread can be
IoctlPcs == {"idle", "release", "cfg_check", "cfg_reg", "fr_pending", "fr_active", "fr_hw",
             "dereg", "fc_pending", "fc_hw", "fc_splice", "fc_active"}
CbPcs    == {"idle", "put", "lock", "config", "free", "fr_pending", "fr_active", "fr_hw",
             "dereg"}
IrqPcs   == {"idle", "success", "error"}
Modes    == {"none", "pending1", "active1", "pending", "active"}

NoDup(s) == \A m, n \in 1 .. Len(s) : s[m] = s[n] => m = n

FenceType ==
  /\ fence \in [Fences -> {F!FREE, F!ACTIVE} \cup F!Settled]
  /\ pend \in [Fences -> [Reqs -> {0, 1}]]
  /\ due \in [F!CbWork -> {0, 1}]

\* Only an active fence has callbacks registered; a due one reports how its fence settled.
FenceInv ==
  /\ FenceType
  /\ \A f \in Fences, q \in Reqs : pend[f][q] > 0 => fence[f] = F!ACTIVE
  /\ \A w \in F!CbWork : due[w] > 0 => fence[w.obj] = w.status

-----------------------------------------------------------------------------
(* Lists                                                                    *)

LEMMA EmptyElems == Elems(<<>>) = {} /\ NoDup(<<>>) /\ <<>> \in Seq(Reqs)
BY DEF Elems, NoDup

LEMMA AppendElems ==
  ASSUME NEW s \in Seq(Reqs), NEW r \in Reqs
  PROVE  /\ Append(s, r) \in Seq(Reqs)
         /\ Elems(Append(s, r)) = Elems(s) \cup {r}
         /\ NoDup(s) /\ r \notin Elems(s) => NoDup(Append(s, r))
<1>1. /\ Append(s, r) \in Seq(Reqs) /\ Len(Append(s, r)) = Len(s) + 1 /\ Len(s) \in Nat
      /\ \A n \in 1 .. Len(s) : Append(s, r)[n] = s[n]
      /\ Append(s, r)[Len(s) + 1] = r
  OBVIOUS
<1>2. Elems(Append(s, r)) = Elems(s) \cup {r}
  BY <1>1 DEF Elems
<1>3. NoDup(s) /\ r \notin Elems(s) => NoDup(Append(s, r))
  BY <1>1 DEF Elems, NoDup
<1> QED BY <1>1, <1>2, <1>3

LEMMA TailElems ==
  ASSUME NEW s \in Seq(Reqs), s # <<>>, NoDup(s)
  PROVE  /\ Tail(s) \in Seq(Reqs) /\ NoDup(Tail(s))
         /\ Head(s) \in Elems(s)
         /\ Elems(Tail(s)) = Elems(s) \ {Head(s)}
<1>1. /\ Tail(s) \in Seq(Reqs) /\ Len(Tail(s)) = Len(s) - 1 /\ Len(s) \in Nat \ {0}
      /\ \A n \in 1 .. Len(s) - 1 : Tail(s)[n] = s[n + 1]
      /\ Head(s) = s[1]
  OBVIOUS
<1>2. NoDup(Tail(s))
  BY <1>1 DEF NoDup
<1>3. Head(s) \in Elems(s)
  BY <1>1 DEF Elems
<1>4. Elems(Tail(s)) \subseteq Elems(s) \ {Head(s)}
  BY <1>1 DEF Elems, NoDup
<1>5. ASSUME NEW x \in Elems(s) \ {Head(s)} PROVE x \in Elems(Tail(s))
  <2>1. PICK n \in 1 .. Len(s) : x = s[n]
    BY DEF Elems
  <2>2. n - 1 \in 1 .. Len(s) - 1 /\ Tail(s)[n - 1] = s[n]
    BY <1>1, <2>1
  <2> QED BY <1>1, <2>1, <2>2 DEF Elems
<1> QED BY <1>1, <1>2, <1>3, <1>4, <1>5

LEMMA WithoutElems ==
  ASSUME NEW s \in Seq(Reqs), NEW r, NoDup(s)
  PROVE  /\ Without(s, r) \in Seq(Reqs) /\ NoDup(Without(s, r))
         /\ Elems(Without(s, r)) = Elems(s) \ {r}
         /\ r \notin Elems(s) => Without(s, r) = s
<1>1. CASE r \notin Elems(s)
  BY <1>1 DEF Elems, Without
<1>2. CASE r \in Elems(s)
  <2> DEFINE k == CHOOSE n \in 1 .. Len(s) : s[n] = r
             a == SubSeq(s, 1, k - 1)
             b == SubSeq(s, k + 1, Len(s))
  <2>1. k \in 1 .. Len(s) /\ s[k] = r /\ Without(s, r) = a \o b
    BY <1>2 DEF Elems, Without
  <2> HIDE DEF k
  <2>2. /\ a \in Seq(Reqs) /\ Len(a) = k - 1
        /\ \A n \in 1 .. k - 1 : a[n] = s[n]
    <3>1. \A n \in 1 .. k - 1 : s[n] \in Reqs
      BY <2>1
    <3> QED BY <2>1, <3>1, SubSeqProperties
  <2>3. /\ b \in Seq(Reqs) /\ Len(b) = Len(s) - k
        /\ \A n \in 1 .. Len(s) - k : b[n] = s[k + n]
    <3>1. \A n \in k + 1 .. Len(s) : s[n] \in Reqs
      BY <2>1
    <3>2. /\ b \in Seq(Reqs)
          /\ Len(b) = IF k + 1 <= Len(s) THEN Len(s) - (k + 1) + 1 ELSE 0
          /\ \A n \in 1 .. Len(s) - (k + 1) + 1 : b[n] = s[(k + 1) + n - 1]
      BY <2>1, <3>1, SubSeqProperties
    <3>3. ASSUME NEW n \in 1 .. Len(s) - k PROVE b[n] = s[k + n]
      <4>1. n \in 1 .. Len(s) - (k + 1) + 1 /\ (k + 1) + n - 1 = k + n
        BY <2>1
      <4> QED BY <3>2, <4>1
    <3>4. Len(b) = Len(s) - k
      BY <2>1, <3>2
    <3> QED BY <3>2, <3>3, <3>4
  <2> HIDE DEF a, b
  <2> DEFINE w == a \o b
  <2>4. /\ w \in Seq(Reqs) /\ Len(w) = Len(s) - 1
        /\ \A n \in 1 .. Len(s) - 1 : w[n] = IF n < k THEN s[n] ELSE s[n + 1]
    <3>1. /\ w \in Seq(Reqs) /\ Len(w) = Len(a) + Len(b)
          /\ \A n \in 1 .. Len(a) + Len(b) : w[n] = IF n <= Len(a) THEN a[n] ELSE b[n - Len(a)]
      BY <2>2, <2>3, ConcatProperties
    <3>2. ASSUME NEW n \in 1 .. Len(s) - 1 PROVE w[n] = IF n < k THEN s[n] ELSE s[n + 1]
      <4>1. CASE n < k
        BY SMTT(60), <2>1, <2>2, <2>3, <3>1, <4>1
      <4>2. CASE ~(n < k)
        <5>1. n - (k - 1) \in 1 .. Len(s) - k /\ k + (n - (k - 1)) = n + 1
          BY <2>1, <4>2
        <5>2. w[n] = b[n - (k - 1)]
          BY <2>1, <2>2, <2>3, <3>1, <4>2
        <5> QED BY <2>3, <4>2, <5>1, <5>2
      <4> QED BY <4>1, <4>2
    <3> QED BY <2>1, <2>2, <2>3, <3>1, <3>2
  <2> HIDE DEF w
  <2>5. NoDup(w)
    BY <2>1, <2>4 DEF NoDup
  <2>6. ASSUME NEW x \in Elems(w) PROVE x \in Elems(s) \ {r}
    <3>1. PICK n \in 1 .. Len(s) - 1 : x = w[n]
      BY <2>4 DEF Elems
    <3>2. CASE n < k
      BY <2>1, <2>4, <3>1, <3>2 DEF Elems, NoDup
    <3>3. CASE ~(n < k)
      <4>1. n + 1 \in 1 .. Len(s) /\ n + 1 # k /\ x = s[n + 1]
        BY <2>1, <2>4, <3>1, <3>3
      <4> QED BY <2>1, <4>1 DEF Elems, NoDup
    <3> QED BY <3>2, <3>3
  <2>7. ASSUME NEW x \in Elems(s) \ {r} PROVE x \in Elems(w)
    <3>1. PICK n \in 1 .. Len(s) : x = s[n]
      BY DEF Elems
    <3>2. CASE n < k
      <4>1. n \in 1 .. Len(s) - 1 /\ x = w[n]
        BY SMTT(60), <2>1, <2>4, <3>1, <3>2
      <4> QED BY <2>4, <4>1 DEF Elems
    <3>3. CASE n > k
      <4>1. n - 1 \in 1 .. Len(s) - 1 /\ ~(n - 1 < k) /\ (n - 1) + 1 = n
        BY <2>1, <3>1, <3>3
      <4> QED BY <2>4, <3>1, <4>1 DEF Elems
    <3> QED BY <2>1, <3>1, <3>2, <3>3
  <2> QED BY <1>2, <2>1, <2>4, <2>5, <2>6, <2>7 DEF w
<1> QED BY <1>1, <1>2

-----------------------------------------------------------------------------
(* Fences: what each step of CamFence does to the callbacks that have not   *)
(* run                                                                      *)

Work(r, f, s) == [cb |-> r, obj |-> f, status |-> s]

LEMMA WorkType ==
  /\ \A r \in Reqs, f \in Fences, s \in F!Settled :
       /\ Work(r, f, s) \in F!CbWork
       /\ Work(r, f, s).cb = r /\ Work(r, f, s).obj = f /\ Work(r, f, s).status = s
  /\ \A w \in F!CbWork : /\ w.cb \in Reqs /\ w.obj \in Fences /\ w.status \in F!Settled
                         /\ w = Work(w.cb, w.obj, w.status)
BY DEF Work, F!CbWork

\* Registered means pend = 1, due means due = 1, and never both.
LEMMA UnrunWork ==
  ASSUME NEW r \in Reqs, NEW f \in Fences
  PROVE  /\ f \in Unrun(r) <=> pend[f][r] > 0 \/ \E s \in F!Settled : due[Work(r, f, s)] > 0
         /\ Unrun(r) \subseteq Fences
BY DEF Unrun, Work

LEMMA UnrunWorkNext ==
  ASSUME NEW r \in Reqs, NEW f \in Fences
  PROVE  /\ f \in Unrun(r)' <=> pend'[f][r] > 0 \/ \E s \in F!Settled : due'[Work(r, f, s)] > 0
         /\ Unrun(r)' \subseteq Fences
BY DEF Unrun, Work

LEMMA SameUnrun ==
  ASSUME UNCHANGED <<pend, due>>
  PROVE  \A r \in Reqs : Unrun(r)' = Unrun(r)
BY DEF Unrun

LEMMA FenceSame ==
  ASSUME FenceInv, UNCHANGED fences
  PROVE  FenceInv' /\ \A r \in Reqs : Unrun(r)' = Unrun(r)
BY SameUnrun DEF FenceInv, FenceType, fences

LEMMA FenceCreate ==
  ASSUME FenceInv, NEW f \in Fences, F!Create(f)
  PROVE  /\ FenceInv' /\ \A r \in Reqs : Unrun(r)' = Unrun(r)
         /\ fence[f] = F!FREE /\ fence' = [fence EXCEPT ![f] = F!ACTIVE]
<1> USE DEF F!FREE, F!ACTIVE, F!Settled, F!SUCCESS, F!ERROR
<1>1. FenceInv'
  BY WorkType DEF F!Create, FenceInv, FenceType
<1>2. UNCHANGED <<pend, due>>
  BY DEF F!Create
<1> QED BY <1>1, <1>2, SameUnrun DEF F!Create

LEMMA FenceDestroy ==
  ASSUME FenceInv, NEW f \in Fences, F!Destroy(f), \A r \in Reqs : f \notin Unrun(r)
  PROVE  /\ FenceInv' /\ \A r \in Reqs : Unrun(r)' = Unrun(r)
         /\ fence[f] \in F!Settled /\ fence' = [fence EXCEPT ![f] = F!FREE]
<1> USE DEF F!FREE, F!ACTIVE, F!Settled, F!SUCCESS, F!ERROR
<1>1. FenceInv'
  <2>1. \A w \in F!CbWork : w.obj = f => due[w] = 0
    BY WorkType, UnrunWork DEF FenceInv, FenceType
  <2> QED BY <2>1, WorkType DEF F!Destroy, FenceInv, FenceType
<1>2. UNCHANGED <<pend, due>>
  BY DEF F!Destroy
<1> QED BY <1>1, <1>2, SameUnrun DEF F!Destroy

LEMMA FenceSettle ==
  ASSUME FenceInv, NEW f \in Fences, NEW s \in F!Settled, F!Settle(f, s)
  PROVE  /\ FenceInv' /\ \A r \in Reqs : Unrun(r)' = Unrun(r)
         /\ fence[f] = F!ACTIVE /\ fence' = [fence EXCEPT ![f] = s]
<1> USE DEF F!FREE, F!ACTIVE, F!Settled, F!SUCCESS, F!ERROR
<1>0. /\ fence[f] = F!ACTIVE /\ fence' = [fence EXCEPT ![f] = s]
      /\ due' = [w \in F!CbWork |->
                   due[w] + IF w.obj = f /\ w.status = s THEN pend[f][w.cb] ELSE 0]
      /\ pend' = [pend EXCEPT ![f] = [q \in Reqs |-> 0]]
  BY DEF F!Settle, F!Fire
<1>1. \A w \in F!CbWork : w.obj = f => due[w] = 0
  <2> TAKE w \in F!CbWork
  <2>1. w.status \in F!Settled /\ due[w] \in {0, 1} /\ (due[w] > 0 => fence[w.obj] = w.status)
    BY WorkType DEF FenceInv, FenceType
  <2> QED BY <1>0, <2>1
<1>2. FenceInv'
  <2>1. FenceType'
    <3>1. due' \in [F!CbWork -> {0, 1}]
      BY <1>0, <1>1, WorkType DEF FenceInv, FenceType
    <3> QED BY <1>0, <3>1 DEF FenceInv, FenceType
  <2>2. ASSUME NEW g \in Fences, NEW q \in Reqs, pend'[g][q] > 0 PROVE fence'[g] = F!ACTIVE
    <3>1. g # f /\ pend'[g] = pend[g]
      BY <1>0, <2>2 DEF FenceInv, FenceType
    <3> QED BY <1>0, <2>2, <3>1 DEF FenceInv, FenceType
  <2>3. ASSUME NEW w \in F!CbWork, due'[w] > 0 PROVE fence'[w.obj] = w.status
    <3>1. w.obj \in Fences /\ due[w] \in {0, 1} /\ (due[w] > 0 => fence[w.obj] = w.status)
      BY WorkType DEF FenceInv, FenceType
    <3>2. CASE w.obj = f
      BY <1>0, <1>1, <2>3, <3>2 DEF FenceInv, FenceType
    <3>3. CASE w.obj # f
      BY <1>0, <2>3, <3>1, <3>3 DEF FenceInv, FenceType
    <3> QED BY <3>2, <3>3
  <2> QED BY <2>1, <2>2, <2>3 DEF FenceInv
<1>3. ASSUME NEW r \in Reqs, NEW g \in Fences PROVE g \in Unrun(r)' <=> g \in Unrun(r)
  <2>1. CASE g # f
    <3>1. pend'[g] = pend[g]
      BY <1>0, <2>1 DEF FenceInv, FenceType
    <3>2. \A z \in F!Settled : due'[Work(r, g, z)] = due[Work(r, g, z)]
      <4> TAKE z \in F!Settled
      <4>1. /\ Work(r, g, z) \in F!CbWork /\ Work(r, g, z).obj # f
            /\ due[Work(r, g, z)] \in {0, 1}
        BY <2>1, WorkType DEF FenceInv, FenceType
      <4> QED BY <1>0, <4>1
    <3> QED BY <3>1, <3>2, UnrunWork, UnrunWorkNext
  <2>2. CASE g = f
    <3>1. g \in Unrun(r) <=> pend[f][r] > 0
      BY <1>1, <2>2, UnrunWork, WorkType
    <3>2. \A z \in F!Settled : due'[Work(r, f, z)] = IF z = s THEN pend[f][r] ELSE 0
      BY <1>0, <1>1, WorkType DEF FenceInv, FenceType
    <3>3. pend'[f][r] = 0
      BY <1>0 DEF FenceInv, FenceType
    <3> QED BY <2>2, <3>1, <3>2, <3>3, UnrunWorkNext
  <2> QED BY <2>1, <2>2
<1>4. \A r \in Reqs : Unrun(r)' = Unrun(r)
  BY <1>3 DEF Unrun
<1> QED BY <1>0, <1>2, <1>4

LEMMA FenceRegister ==
  ASSUME FenceInv, NEW f \in Fences, NEW r \in Reqs, F!Register(f, r), f \notin Unrun(r)
  PROVE  /\ FenceInv' /\ fence' = fence
         /\ Unrun(r)' = Unrun(r) \cup {f}
         /\ \A q \in Reqs \ {r} : Unrun(q)' = Unrun(q)
<1> USE DEF F!FREE, F!ACTIVE, F!Settled, F!SUCCESS, F!ERROR
<1>1. fence' = fence /\ fence[f] # F!FREE /\ pend[f][r] = 0
  BY UnrunWork DEF F!Register, FenceInv, FenceType
<1>2. \A s \in F!Settled : due[Work(r, f, s)] = 0
  BY UnrunWork, WorkType DEF FenceInv, FenceType
<1>3. CASE fence[f] = F!ACTIVE
  <2>1. pend' = [pend EXCEPT ![f][r] = @ + 1] /\ due' = due
    BY <1>3 DEF F!Register
  <2>2. /\ pend' \in [Fences -> [Reqs -> {0, 1}]]
        /\ \A g \in Fences, q \in Reqs : pend'[g][q] = IF g = f /\ q = r THEN 1 ELSE pend[g][q]
    BY <1>1, <2>1 DEF FenceInv, FenceType
  <2>3. FenceInv'
    BY <1>1, <1>3, <2>1, <2>2 DEF FenceInv, FenceType
  <2>4. \A q \in Reqs, g \in Fences : g \in Unrun(q)' <=> g \in Unrun(q) \/ (g = f /\ q = r)
    BY <2>1, <2>2, UnrunWork, UnrunWorkNext
  <2>5. \A q \in Reqs : Unrun(q)' \subseteq Fences /\ Unrun(q) \subseteq Fences
    BY DEF Unrun
  <2> QED BY <1>1, <2>3, <2>4, <2>5
<1>4. CASE fence[f] # F!ACTIVE
  <2> DEFINE w == Work(r, f, fence[f])
  <2>1. due' = [due EXCEPT ![w] = @ + 1] /\ pend' = pend
    BY <1>4 DEF F!Register, Work
  <2>2. w \in F!CbWork /\ fence[f] \in F!Settled /\ w.obj = f /\ w.cb = r /\ w.status = fence[f]
    BY <1>1, <1>4, WorkType DEF FenceInv, FenceType
  <2>2a. due[w] = 0
    BY <1>2, <2>2
  <2> HIDE DEF w
  <2>3. /\ due' \in [F!CbWork -> {0, 1}]
        /\ \A v \in F!CbWork : due'[v] = IF v = w THEN 1 ELSE due[v]
    BY <2>1, <2>2, <2>2a DEF FenceInv, FenceType
  <2>4. FenceInv'
    BY <1>1, <2>1, <2>2, <2>3 DEF FenceInv, FenceType
  <2>5. ASSUME NEW q \in Reqs, NEW g \in Fences
        PROVE  g \in Unrun(q)' <=> g \in Unrun(q) \/ (g = f /\ q = r)
    <3>1. CASE g = f /\ q = r
      BY <2>2, <2>3, <3>1, UnrunWorkNext DEF w
    <3>2. CASE ~(g = f /\ q = r)
      <4>1. \A s \in F!Settled : due'[Work(q, g, s)] = due[Work(q, g, s)]
        BY <2>2, <2>3, <3>2, WorkType
      <4> QED BY <2>1, <3>2, <4>1, UnrunWork, UnrunWorkNext
    <3> QED BY <3>1, <3>2
  <2>6. \A q \in Reqs : Unrun(q)' \subseteq Fences /\ Unrun(q) \subseteq Fences
    BY DEF Unrun
  <2> QED BY <1>1, <2>4, <2>5, <2>6
<1> QED BY <1>3, <1>4

LEMMA FenceDeregister ==
  ASSUME FenceInv, NEW f \in Fences, NEW r \in Reqs, F!Deregister(f, r), pend[f][r] > 0
  PROVE  /\ FenceInv' /\ fence' = fence
         /\ f \in Unrun(r) /\ Unrun(r)' = Unrun(r) \ {f}
         /\ \A q \in Reqs \ {r} : Unrun(q)' = Unrun(q)
<1> USE DEF F!FREE, F!ACTIVE, F!Settled, F!SUCCESS, F!ERROR
<1>1. fence' = fence /\ due' = due /\ pend' = [pend EXCEPT ![f][r] = 0]
  BY DEF F!Deregister
<1>2. /\ pend' \in [Fences -> [Reqs -> {0, 1}]]
      /\ \A g \in Fences, q \in Reqs : pend'[g][q] = IF g = f /\ q = r THEN 0 ELSE pend[g][q]
  BY <1>1 DEF FenceInv, FenceType
<1>3. FenceInv'
  BY <1>1, <1>2 DEF FenceInv, FenceType
<1>4. \A s \in F!Settled : ~(due[Work(r, f, s)] > 0)
  BY WorkType DEF FenceInv, FenceType
<1>5. \A q \in Reqs, g \in Fences : g \in Unrun(q)' <=> g \in Unrun(q) /\ ~(g = f /\ q = r)
  <2> TAKE q \in Reqs, g \in Fences
  <2>1. CASE g = f /\ q = r
    <3>1. ~(pend'[f][r] > 0)
      BY <1>2
    <3> QED BY <1>1, <1>4, <2>1, <3>1, UnrunWorkNext
  <2>2. CASE ~(g = f /\ q = r)
    BY <1>1, <1>2, <2>2, UnrunWork, UnrunWorkNext
  <2> QED BY <2>1, <2>2
<1>6. \A q \in Reqs : Unrun(q)' \subseteq Fences /\ Unrun(q) \subseteq Fences
  BY DEF Unrun
<1>7. f \in Unrun(r)
  BY UnrunWork
<1> QED BY <1>1, <1>3, <1>5, <1>6, <1>7

LEMMA FenceRun ==
  ASSUME FenceInv, NEW w \in F!CbWork, F!Run(w)
  PROVE  /\ FenceInv' /\ fence' = fence /\ fence[w.obj] = w.status
         /\ w.obj \in Unrun(w.cb) /\ Unrun(w.cb)' = Unrun(w.cb) \ {w.obj}
         /\ \A q \in Reqs \ {w.cb} : Unrun(q)' = Unrun(q)
<1> USE DEF F!FREE, F!ACTIVE, F!Settled, F!SUCCESS, F!ERROR
<1>1. fence' = fence /\ pend' = pend /\ due' = [due EXCEPT ![w] = @ - 1] /\ due[w] > 0
  BY DEF F!Run
<1>2. /\ due' \in [F!CbWork -> {0, 1}]
      /\ \A v \in F!CbWork : due'[v] = IF v = w THEN 0 ELSE due[v]
  BY <1>1 DEF FenceInv, FenceType
<1>3. FenceInv' /\ fence[w.obj] = w.status
  BY <1>1, <1>2 DEF FenceInv, FenceType
<1> DEFINE r == w.cb
           f == w.obj
<1>4. r \in Reqs /\ f \in Fences /\ w.status \in F!Settled /\ w = Work(r, f, w.status)
  BY WorkType
<1>5. ~(pend[f][r] > 0) /\ \A s \in F!Settled : due[Work(r, f, s)] > 0 => Work(r, f, s) = w
  <2>1. \A s \in F!Settled : due[Work(r, f, s)] > 0 => s = w.status
    BY <1>3, <1>4, WorkType DEF FenceInv, FenceType
  <2> QED BY <1>3, <1>4, <2>1 DEF FenceInv, FenceType
<1> HIDE DEF r, f
<1>6. ASSUME NEW q \in Reqs, NEW g \in Fences
      PROVE  g \in Unrun(q)' <=> g \in Unrun(q) /\ ~(g = f /\ q = r)
  <2>1. CASE g = f /\ q = r
    <3>1. \A s \in F!Settled : ~(due'[Work(r, f, s)] > 0)
      BY <1>2, <1>4, <1>5, WorkType DEF FenceInv, FenceType
    <3> QED BY <1>1, <1>5, <2>1, <3>1, UnrunWorkNext
  <2>2. CASE ~(g = f /\ q = r)
    <3>1. \A s \in F!Settled : due'[Work(q, g, s)] = due[Work(q, g, s)]
      BY <1>2, <1>4, <2>2, WorkType
    <3> QED BY <1>1, <2>2, <3>1, UnrunWork, UnrunWorkNext
  <2> QED BY <2>1, <2>2
<1>7. \A q \in Reqs : Unrun(q)' \subseteq Fences /\ Unrun(q) \subseteq Fences
  BY DEF Unrun
<1>8. f \in Unrun(r)
  BY <1>1, <1>4, UnrunWork
<1> QED BY <1>1, <1>3, <1>4, <1>6, <1>7, <1>8 DEF r, f

-----------------------------------------------------------------------------
(* Counting                                                                 *)

\* The callbacks, of all requests, that have not run: each holds a reference.
Pairs == {p \in Fences \X Reqs : p[1] \in Unrun(p[2])}

LEMMA PairsFinite == IsFiniteSet(Pairs) /\ Cardinality(Pairs) \in Nat
<1>1. IsFiniteSet(Fences \X Reqs)
  BY ContextAssumption, FS_Product
<1>2. Pairs \in SUBSET (Fences \X Reqs)
  BY DEF Pairs
<1>3. IsFiniteSet(Pairs)
  BY <1>1, <1>2, FS_Subset
<1> QED BY <1>3, FS_CardinalityType

LEMMA PairsSame ==
  ASSUME \A r \in Reqs : Unrun(r)' = Unrun(r)
  PROVE  Pairs' = Pairs
BY DEF Pairs

LEMMA PairsAdd ==
  ASSUME NEW f \in Fences, NEW r \in Reqs, f \notin Unrun(r), Unrun(r)' = Unrun(r) \cup {f},
         \A q \in Reqs \ {r} : Unrun(q)' = Unrun(q)
  PROVE  Cardinality(Pairs') = Cardinality(Pairs) + 1
<1>1. Pairs' = Pairs \cup {<<f, r>>} /\ <<f, r>> \notin Pairs
  BY DEF Pairs
<1> QED BY <1>1, PairsFinite, FS_AddElement

LEMMA PairsRemove ==
  ASSUME NEW f \in Fences, NEW r \in Reqs, f \in Unrun(r), Unrun(r)' = Unrun(r) \ {f},
         \A q \in Reqs \ {r} : Unrun(q)' = Unrun(q)
  PROVE  Cardinality(Pairs') = Cardinality(Pairs) - 1
<1>1. Pairs' = Pairs \ {<<f, r>>} /\ <<f, r>> \in Pairs
  BY DEF Pairs
<1> QED BY <1>1, PairsFinite, FS_RemoveElement

\* Without references no callback is left.
LEMMA PairsEmpty ==
  ASSUME Cardinality(Pairs) = 0
  PROVE  \A r \in Reqs : Unrun(r) = {}
<1>1. Pairs = {}
  BY PairsFinite, FS_EmptySet
<1>2. ASSUME NEW r \in Reqs, NEW f \in Unrun(r) PROVE FALSE
  <2>1. f \in Fences
    BY DEF Unrun
  <2>2. <<f, r>> \in Fences \X Reqs /\ <<f, r>>[1] = f /\ <<f, r>>[2] = r
    BY <2>1
  <2>3. <<f, r>> \in Pairs
    BY <2>2 DEF Pairs
  <2> QED BY <1>1, <2>3
<1> QED BY <1>2

LEMMA SubsetFinite ==
  ASSUME NEW S, S \subseteq Fences
  PROVE  IsFiniteSet(S) /\ Cardinality(S) \in Nat /\ (Cardinality(S) = 0 <=> S = {})
BY ContextAssumption, FS_Subset, FS_CardinalityType, FS_EmptySet

LEMMA SubsetRemove ==
  ASSUME NEW S, S \subseteq Fences, NEW f \in S
  PROVE  Cardinality(S \ {f}) = Cardinality(S) - 1
BY SubsetFinite, FS_RemoveElement

LEMMA SmallRemove ==
  ASSUME NEW S \in Small, NEW f
  PROVE  S \ {f} \in Small
<1>1. S \subseteq Fences /\ Cardinality(S) <= MaxFences /\ MaxFences \in Nat
  BY ContextAssumption DEF Small
<1>2. Cardinality(S \ {f}) <= Cardinality(S)
  BY <1>1, SubsetFinite, FS_Subset
<1>3. Cardinality(S \ {f}) \in Nat /\ Cardinality(S) \in Nat
  BY <1>1, SubsetFinite
<1> QED BY <1>1, <1>2, <1>3 DEF Small

LEMMA SmallEmpty == {} \in Small
BY ContextAssumption, FS_EmptySet DEF Small

LEMMA SmallType ==
  ASSUME NEW S \in Small
  PROVE  S \subseteq Fences /\ Cardinality(S) \in 0 .. MaxFences
BY ContextAssumption, SubsetFinite DEF Small

\* The reference count, with the callbacks that have not run named
LEMMA RefCount ==
  RefExact <=>
    /\ refcount = (IF state # "AVAILABLE" \/ pc["ioctl"] = "release" THEN 1 ELSE 0)
                  + Cardinality(Pairs) + (IF pc["cb"] # "idle" THEN 1 ELSE 0)
    /\ free_ctx <=> refcount = 0
BY DEF RefExact, Pairs

LEMMA RefCountNext ==
  RefExact' <=>
    /\ refcount' = (IF state' # "AVAILABLE" \/ pc'["ioctl"] = "release" THEN 1 ELSE 0)
                   + Cardinality(Pairs') + (IF pc'["cb"] # "idle" THEN 1 ELSE 0)
    /\ free_ctx' <=> refcount' = 0
BY DEF RefExact, Pairs

-----------------------------------------------------------------------------
(* The inductive invariant                                                  *)

CtxType ==
  /\ state \in {"AVAILABLE", "ACQUIRED", "READY"} /\ refcount \in Nat /\ free_ctx \in BOOLEAN
  /\ free \subseteq Reqs /\ pending \subseteq Reqs /\ active \in Seq(Reqs) /\ NoDup(active)
  /\ in \in [Reqs -> Small] /\ out \in [Reqs -> Small] /\ acked \in [Reqs -> 0 .. MaxFences]
  /\ flushed \subseteq Reqs /\ owned \subseteq Reqs /\ hw \subseteq Reqs
  /\ temp \subseteq Reqs /\ givenup \subseteq Reqs
  /\ sync_mutex \in {None, "ioctl", "cb"}
  /\ cur \in [Thr -> Reqs \cup {None}] /\ todo \in [Thr -> SUBSET Fences]
  /\ pc \in [Thr -> IoctlPcs \cup CbPcs \cup IrqPcs]
  /\ pc["ioctl"] \in IoctlPcs /\ pc["cb"] \in CbPcs /\ pc["irq"] \in IrqPcs
  /\ lastack \in [Thr -> BOOLEAN] /\ mode \in [Thr -> Modes]
  /\ after \in {"none", "flush", "stop", "release"}

\* The flush of all requests is at those it found pending, or at those it found active.
TempP == pc["ioctl"] = "fc_pending" \/ (pc["ioctl"] = "dereg" /\ mode["ioctl"] = "pending")
TempA == pc["ioctl"] = "fc_active" \/ (pc["ioctl"] = "dereg" /\ mode["ioctl"] = "active")
Sweep == TempP \/ TempA \/ pc["ioctl"] \in {"fc_hw", "fc_splice"}

\* In-fences of r that cam_context_prepare_dev_to_hw has still to register on, and those
\* whose acknowledgement is outstanding
Unreg(r) ==
  IF cur["ioctl"] # r THEN {}
  ELSE IF pc["ioctl"] = "cfg_check" THEN in[r]
  ELSE IF pc["ioctl"] = "cfg_reg" THEN todo["ioctl"] ELSE {}
Open(r)  == Unrun(r) \cup Unreg(r)

\* Where r can be: flushed from the pending list by t, or from the active list; waiting for
\* in-fences; applied; in the hands of the callback that made the last acknowledgement; with
\* the flush that made it; with the callback that is about to free it; dropped by a flush
FlushP(t, r) == cur[t] = r /\ pc[t] \in {"fr_hw", "dereg"} /\ mode[t] \in {"pending", "pending1"}
FlushA(r)    == /\ cur["ioctl"] = r /\ pc["ioctl"] \in {"fr_hw", "dereg"}
                /\ mode["ioctl"] \in {"active", "active1"}
InActive(r)  == r \in Elems(active)
Waiting(r)   == r \in pending \/ (TempP /\ r \in temp)
Swept(r)     == TempA /\ r \in temp
Applied(r)   == InActive(r) \/ Swept(r) \/ FlushA(r) \/ cur["irq"] = r
Deciding(r)  == cur["cb"] = r /\ pc["cb"] \in {"lock", "fr_pending", "fr_active", "fr_hw",
    "dereg"}
LastAck(r)   == FlushP("ioctl", r) /\ lastack["ioctl"]
Ending(r)    == cur["cb"] = r /\ pc["cb"] = "free"
Dropped(r)   == r \in flushed /\ r \notin free

\* What a thread holds at each of its steps
ThreadInv ==
  /\ cur["ioctl"] # None <=>
       pc["ioctl"] \in {"cfg_check", "cfg_reg", "fr_pending", "fr_active", "fr_hw", "dereg"}
  /\ cur["cb"] # None <=> pc["cb"] # "idle"
  /\ cur["irq"] # None <=> pc["irq"] # "idle"
  /\ pc["ioctl"] \notin {"fr_hw", "dereg"} => mode["ioctl"] = "none"
  /\ pc["ioctl"] = "fr_hw" => mode["ioctl"] \in {"pending1", "active1"}
  /\ pc["ioctl"] = "dereg" => mode["ioctl"] # "none"
  /\ pc["cb"] \notin {"fr_hw", "dereg"} => mode["cb"] = "none"
  /\ pc["cb"] \in {"fr_hw", "dereg"} => mode["cb"] = "pending1"
  /\ lastack["ioctl"] => pc["ioctl"] = "dereg" /\ mode["ioctl"] \in {"pending", "pending1"}
  /\ ~lastack["cb"] /\ ~lastack["irq"]
  /\ pc["ioctl"] = "dereg" /\ mode["ioctl"] \in {"active", "active1"} => todo["ioctl"] = {}
  /\ pc["ioctl"] \in {"cfg_check", "cfg_reg"} => cur["ioctl"] \in pending
  /\ pc["ioctl"] = "cfg_check" => in[cur["ioctl"]] # {}
  /\ pc["ioctl"] = "cfg_reg" => todo["ioctl"] # {}

\* Who holds sync_mutex, and what it and the state of the context keep out
LockInv ==
  /\ sync_mutex = "ioctl" <=> TempP
  /\ sync_mutex = "cb" <=> pc["cb"] = "config"
  /\ temp # {} => TempP \/ TempA
  /\ Sweep => pending = {} /\ pc["cb"] # "config" /\ after # "none"
  /\ TempA \/ pc["ioctl"] = "fc_splice" => hw = {}
  /\ state = "AVAILABLE" => pc["ioctl"] \in {"idle", "release"} /\ hw = {} /\ pc["irq"] = "idle"
  /\ pc["ioctl"] = "release" => state = "AVAILABLE"
  /\ pc["ioctl"] = "fr_active" =>
       cur["ioctl"] \notin pending /\ ~(pc["cb"] = "config" /\ cur["cb"] = cur["ioctl"])

\* A request is at exactly one place, and the thread that sees its last acknowledgement
\* decides what becomes of it.
FreeInv(r) ==
  r \in free => /\ ~Waiting(r) /\ ~Applied(r) /\ ~Ending(r) /\ ~Deciding(r) /\ ~LastAck(r)
                /\ Unrun(r) = {}
WaitInv(r) ==
  /\ Waiting(r) => /\ r \notin flushed /\ ~Ending(r) /\ ~Applied(r)
                   /\ Open(r) = {} <=> Deciding(r)
                   /\ ~FlushP("ioctl", r) /\ ~FlushP("cb", r)
  /\ r \in pending => r \notin temp
DropInv(r) ==
  Dropped(r) => /\ ~Ending(r) /\ ~Applied(r)
                /\ Unrun(r) = {} <=> Deciding(r) \/ LastAck(r)
                /\ ~(Deciding(r) /\ LastAck(r))
EndInv(r) ==
  Ending(r) => r \notin free /\ ~Applied(r) /\ Unrun(r) = {} /\ ~LastAck(r) /\ r \notin flushed
ApplyInv(r) ==
  /\ Applied(r) => /\ Unrun(r) = {} /\ r \notin flushed /\ r \notin free /\ ~Deciding(r)
                   /\ ~FlushP("ioctl", r) /\ ~FlushP("cb", r)
                   /\ ~(InActive(r) /\ Swept(r)) /\ ~(InActive(r) /\ FlushA(r))
                   /\ ~(InActive(r) /\ cur["irq"] = r) /\ ~(Swept(r) /\ FlushA(r))
                   /\ ~(Swept(r) /\ cur["irq"] = r) /\ ~(FlushA(r) /\ cur["irq"] = r)
  /\ r \in hw => InActive(r) \/ (FlushA(r) /\ pc["ioctl"] = "fr_hw")
  /\ cur["cb"] = r /\ pc["cb"] = "config" => InActive(r) /\ r \notin hw
SomeInv(r) ==
  /\ r \in free \/ Waiting(r) \/ Dropped(r) \/ Ending(r) \/ Applied(r)
  /\ r \in free \/ Ending(r) \/ r \in owned
PlaceInv(r) ==
  FreeInv(r) /\ WaitInv(r) /\ DropInv(r) /\ EndInv(r) /\ ApplyInv(r) /\ SomeInv(r)

\* Once nothing will apply the request its out-fences are signaled, or a flush is at it.
OutInv(r) ==
  Dropped(r) \/ Ending(r) \/ r \in free \ givenup =>
    out[r] = {} \/ FlushP("ioctl", r) \/ FlushP("cb", r)

\* The in-fences of a request in use exist, and those that acknowledged have settled.
InInv(r) ==
  r \notin free =>
    /\ Open(r) \subseteq in[r] /\ Unrun(r) \cap Unreg(r) = {}
    /\ \A f \in in[r] : fence[f] # F!FREE
    /\ Waiting(r) \/ Applied(r) => \A f \in in[r] \ Open(r) : fence[f] \in F!Settled

\* num_in_acked and what is outstanding add up to num_in_map_entries.
CountInv(r) == r \notin free => acked[r] + Cardinality(Open(r)) = Cardinality(in[r])

ReqInv(r) == PlaceInv(r) /\ OutInv(r) /\ InInv(r) /\ CountInv(r)

CtxInv ==
  /\ CtxType /\ FenceInv /\ ThreadInv /\ LockInv /\ RefExact
  /\ \A r \in Reqs : ReqInv(r)

-----------------------------------------------------------------------------
(* Every step keeps the invariant                                           *)

USE ContextAssumption DEF Thr, Goto, Idle, PutRef, Memset, Free, Configures, fences, node, lists,
    req, loop, TempP, TempA, Sweep, FlushP, FlushA, InActive, Waiting, Swept, Applied, Deciding,
    LastAck, Ending, Dropped

\* Fences only settle: none disappears, and no settled one becomes active.
Grows == \A g \in Fences : /\ fence[g] # F!FREE => fence'[g] # F!FREE
                           /\ fence[g] \in F!Settled => fence'[g] \in F!Settled

LEMMA SignalStep ==
  ASSUME CtxInv, NEW r \in Reqs, NEW f \in Fences, NEW s \in F!Settled, Signal(r, f, s)
  PROVE  /\ FenceInv' /\ Grows /\ \A q \in Reqs : Unrun(q)' = Unrun(q)
         /\ out' \in [Reqs -> Small] /\ \A q \in Reqs : out[q] = {} => out'[q] = {}
<1>1. out' \in [Reqs -> Small] /\ \A q \in Reqs : out[q] = {} => out'[q] = {}
  BY SmallRemove DEF Signal, CtxInv, CtxType
<1>2. CASE UNCHANGED fences
  BY <1>1, <1>2, FenceSame DEF CtxInv, Grows
<1>3. CASE F!Settle(f, s)
  <2>1. /\ FenceInv' /\ \A q \in Reqs : Unrun(q)' = Unrun(q)
        /\ fence[f] = F!ACTIVE /\ fence' = [fence EXCEPT ![f] = s]
    BY <1>3, FenceSettle DEF CtxInv
  <2>2. Grows
    BY <2>1 DEF Grows, CtxInv, FenceInv, FenceType, F!FREE, F!ACTIVE, F!Settled, F!SUCCESS,
        F!ERROR
  <2> QED BY <1>1, <2>1, <2>2
<1> QED BY <1>2, <1>3 DEF Signal

LEMMA InFences ==
  ASSUME CtxInv, NEW q \in Reqs
  PROVE  in[q] \subseteq Fences /\ Cardinality(in[q]) \in 0 .. MaxFences
BY SmallType DEF CtxInv, CtxType

-----------------------------------------------------------------------------
(* Userspace and its fences                                                 *)

LEMMA UserCreateStep ==
  ASSUME CtxInv, NEW f \in Fences, UserCreate(f)
  PROVE  CtxInv'
<1> USE DEF CtxInv, UserCreate
<1>1. /\ FenceInv' /\ Grows /\ \A q \in Reqs : Unrun(q)' = Unrun(q)
  <2>1. /\ FenceInv' /\ \A q \in Reqs : Unrun(q)' = Unrun(q)
        /\ fence[f] = F!FREE /\ fence' = [fence EXCEPT ![f] = F!ACTIVE]
    BY FenceCreate
  <2>2. Grows
    BY <2>1 DEF Grows, FenceInv, FenceType, F!FREE, F!ACTIVE, F!Settled, F!SUCCESS, F!ERROR
  <2> QED BY <2>1, <2>2
<1>2. CtxType'
  BY DEF CtxType
<1>3. ThreadInv'
  BY DEF CtxType, ThreadInv
<1>4. LockInv'
  BY DEF CtxType, LockInv
<1>5. RefExact'
  BY <1>1, PairsSame, RefCount, RefCountNext DEF CtxType
<1>6. ASSUME NEW q \in Reqs PROVE ReqInv(q)'
  <2> USE DEF CtxType, ThreadInv, LockInv, ReqInv, PlaceInv
  <2>1. Unrun(q)' = Unrun(q) /\ Unreg(q)' = Unreg(q) /\ Open(q)' = Open(q)
    BY <1>1 DEF Unreg, Open
  <2>2. PlaceInv(q)'
    BY <2>1 DEF FreeInv, WaitInv, DropInv, EndInv, ApplyInv, SomeInv
  <2>3. OutInv(q)'
    BY <2>1 DEF OutInv
  <2>4. InInv(q)'
    BY <1>1, <2>1, InFences DEF Grows, InInv
  <2>5. CountInv(q)'
    BY <2>1 DEF CountInv
  <2> QED BY <2>2, <2>3, <2>4, <2>5
<1> QED BY <1>1, <1>2, <1>3, <1>4, <1>5, <1>6

LEMMA UserSettleStep ==
  ASSUME CtxInv, NEW f \in Fences, UserSettle(f)
  PROVE  CtxInv'
<1> USE DEF CtxInv, UserSettle
<1>1. /\ FenceInv' /\ Grows /\ \A q \in Reqs : Unrun(q)' = Unrun(q)
  <2>0. PICK s \in F!Settled : F!Settle(f, s)
    OBVIOUS
  <2>1. /\ FenceInv' /\ \A q \in Reqs : Unrun(q)' = Unrun(q)
        /\ fence[f] = F!ACTIVE /\ fence' = [fence EXCEPT ![f] = s]
    BY <2>0, FenceSettle
  <2>2. Grows
    BY <2>1 DEF Grows, FenceInv, FenceType, F!FREE, F!ACTIVE, F!Settled, F!SUCCESS, F!ERROR
  <2> QED BY <2>1, <2>2
<1>2. CtxType'
  BY DEF CtxType
<1>3. ThreadInv'
  BY DEF CtxType, ThreadInv
<1>4. LockInv'
  BY DEF CtxType, LockInv
<1>5. RefExact'
  BY <1>1, PairsSame, RefCount, RefCountNext DEF CtxType
<1>6. ASSUME NEW q \in Reqs PROVE ReqInv(q)'
  <2> USE DEF CtxType, ThreadInv, LockInv, ReqInv, PlaceInv
  <2>1. Unrun(q)' = Unrun(q) /\ Unreg(q)' = Unreg(q) /\ Open(q)' = Open(q)
    BY <1>1 DEF Unreg, Open
  <2>2. PlaceInv(q)'
    BY <2>1 DEF FreeInv, WaitInv, DropInv, EndInv, ApplyInv, SomeInv
  <2>3. OutInv(q)'
    BY <2>1 DEF OutInv
  <2>4. InInv(q)'
    BY <1>1, <2>1, InFences DEF Grows, InInv
  <2>5. CountInv(q)'
    BY <2>1 DEF CountInv
  <2> QED BY <2>2, <2>3, <2>4, <2>5
<1> QED BY <1>1, <1>2, <1>3, <1>4, <1>5, <1>6

\* A fence of a request in use is not destroyed, so that no callback is due on the fence.
LEMMA UserDestroyStep ==
  ASSUME CtxInv, KeepsFences, NEW f \in Fences, UserDestroy(f)
  PROVE  CtxInv'
<1> USE DEF CtxInv, UserDestroy, InUse
<1>1. /\ FenceInv' /\ \A q \in Reqs : Unrun(q)' = Unrun(q)
      /\ \A g \in Fences \ {f} : fence'[g] = fence[g]
  <2>1. ASSUME NEW q \in Reqs PROVE f \notin Unrun(q)
    BY DEF ReqInv, PlaceInv, FreeInv, InInv, Open
  <2> QED BY <2>1, FenceDestroy DEF FenceInv, FenceType
<1>2. CtxType'
  BY DEF CtxType
<1>3. ThreadInv'
  BY DEF CtxType, ThreadInv
<1>4. LockInv'
  BY DEF CtxType, LockInv
<1>5. RefExact'
  BY <1>1, PairsSame, RefCount, RefCountNext DEF CtxType
<1>6. ASSUME NEW q \in Reqs PROVE ReqInv(q)'
  <2> USE DEF CtxType, ThreadInv, LockInv, ReqInv, PlaceInv
  <2>1. Unrun(q)' = Unrun(q) /\ Unreg(q)' = Unreg(q) /\ Open(q)' = Open(q)
    BY <1>1 DEF Unreg, Open
  <2>2. PlaceInv(q)'
    BY <2>1 DEF FreeInv, WaitInv, DropInv, EndInv, ApplyInv, SomeInv
  <2>3. OutInv(q)'
    BY <2>1 DEF OutInv
  <2>4. InInv(q)'
    <3>1. q \notin free => in[q] \subseteq Fences \ {f}
      BY InFences
    <3>2. q \notin free => \A g \in in[q] : fence'[g] = fence[g]
      BY <1>1, <3>1
    <3>3. in' = in /\ free' = free /\ Waiting(q)' = Waiting(q) /\ Applied(q)' = Applied(q)
      OBVIOUS
    <3>4. InInv(q)
      OBVIOUS
    <3> QED BY <2>1, <3>2, <3>3, <3>4 DEF InInv
  <2>5. CountInv(q)'
    BY <2>1 DEF CountInv
  <2> QED BY <2>2, <2>3, <2>4, <2>5
<1> QED BY <1>1, <1>2, <1>3, <1>4, <1>5, <1>6

-----------------------------------------------------------------------------
(* Acquire, start, release                                                  *)

\* A context on the free list has no reference left: no thread is in it, no callback is due.
LEMMA AcquireStep ==
  ASSUME CtxInv, Acquire
  PROVE  CtxInv'
<1> USE DEF CtxInv, Acquire, ResetLists
<1>1. FenceInv' /\ \A q \in Reqs : Unrun(q)' = Unrun(q)
  BY FenceSame
<1>a. /\ refcount = 0 /\ state = "AVAILABLE" /\ pc["cb"] = "idle" /\ pc["irq"] = "idle" /\ hw = {}
      /\ \A q \in Reqs : Unrun(q) = {}
  <2>1. /\ refcount = 0 /\ state = "AVAILABLE" /\ pc["cb"] = "idle" /\ Cardinality(Pairs) = 0
    BY RefCount, PairsFinite DEF CtxType
  <2> QED BY <2>1, PairsEmpty DEF LockInv
<1>b. Elems(active') = {}
  BY EmptyElems
<1>2. CtxType'
  <2>1. /\ state' \in {"AVAILABLE", "ACQUIRED", "READY"} /\ refcount' \in Nat
        /\ free_ctx' \in BOOLEAN
    <3>1. CASE state' = "ACQUIRED" /\ refcount' = 1 /\ free_ctx' = FALSE
      BY <3>1
    <3>2. CASE UNCHANGED node
      BY <3>2 DEF CtxType
    <3> QED BY <3>1, <3>2
  <2>2. free' \subseteq Reqs /\ pending' \subseteq Reqs /\ givenup' \subseteq Reqs
    BY DEF CtxType
  <2>3. active' \in Seq(Reqs) /\ NoDup(active)'
    BY EmptyElems
  <2> QED BY <2>1, <2>2, <2>3 DEF CtxType
<1>3. ThreadInv'
  BY <1>a, <1>b DEF CtxType, ThreadInv, LockInv
<1>4. LockInv'
  BY <1>a, <1>b DEF CtxType, ThreadInv, LockInv
<1>5. RefExact'
  <2>1. Cardinality(Pairs') = 0
    BY <1>1, <1>a, PairsSame, RefCount, PairsFinite DEF CtxType
  <2>2. refcount' = (IF state' # "AVAILABLE" \/ pc'["ioctl"] = "release" THEN 1 ELSE 0)
                    + Cardinality(Pairs') + (IF pc'["cb"] # "idle" THEN 1 ELSE 0)
    <3>1. CASE state' = "ACQUIRED" /\ refcount' = 1
      BY <1>a, <2>1, <3>1
    <3>2. CASE UNCHANGED node
      BY <1>a, <2>1, <3>2
    <3> QED BY <3>1, <3>2
  <2>3. free_ctx' <=> refcount' = 0
    <3>1. CASE free_ctx' = FALSE /\ refcount' = 1
      BY <3>1
    <3>2. CASE UNCHANGED node
      BY <1>a, <3>2
    <3> QED BY <3>1, <3>2
  <2> QED BY <2>2, <2>3, RefCountNext
<1>6. ASSUME NEW q \in Reqs PROVE ReqInv(q)'
  <2> USE DEF CtxType, ThreadInv, LockInv, ReqInv, PlaceInv
  <2>1. Unrun(q)' = Unrun(q) /\ Unreg(q)' = Unreg(q) /\ Open(q)' = Open(q)
    BY <1>1, <1>a, <1>b DEF Unreg, Open
  <2>2. PlaceInv(q)'
    <3>1. FreeInv(q)'
      BY <2>1, <1>a, <1>b DEF FreeInv, WaitInv, DropInv, EndInv, ApplyInv, SomeInv
    <3>2. WaitInv(q)'
      BY <2>1, <1>a, <1>b DEF FreeInv, WaitInv, DropInv, EndInv, ApplyInv, SomeInv
    <3>3. DropInv(q)'
      BY <2>1, <1>a, <1>b DEF FreeInv, WaitInv, DropInv, EndInv, ApplyInv, SomeInv
    <3>4. EndInv(q)'
      BY <2>1, <1>a, <1>b DEF FreeInv, WaitInv, DropInv, EndInv, ApplyInv, SomeInv
    <3>5. ApplyInv(q)'
      BY <2>1, <1>a, <1>b DEF FreeInv, WaitInv, DropInv, EndInv, ApplyInv, SomeInv
    <3>6. SomeInv(q)'
      BY <2>1, <1>a, <1>b DEF FreeInv, WaitInv, DropInv, EndInv, ApplyInv, SomeInv
    <3> QED BY <3>1, <3>2, <3>3, <3>4, <3>5, <3>6
  <2>3. OutInv(q)'
    BY <2>1, <1>a, <1>b DEF OutInv
  <2>4. InInv(q)'
    BY <2>1, <1>a, <1>b DEF InInv
  <2>5. CountInv(q)'
    BY <2>1, <1>a, <1>b DEF CountInv
  <2> QED BY <2>2, <2>3, <2>4, <2>5
<1> QED BY <1>1, <1>2, <1>3, <1>4, <1>5, <1>6

LEMMA StartStep ==
  ASSUME CtxInv, Start
  PROVE  CtxInv'
<1> USE DEF CtxInv, Start
<1>1. FenceInv' /\ \A q \in Reqs : Unrun(q)' = Unrun(q)
  BY FenceSame
<1>2. CtxType'
  BY DEF CtxType
<1>3. ThreadInv'
  BY DEF CtxType, ThreadInv
<1>4. LockInv'
  BY DEF CtxType, LockInv
<1>5. RefExact'
  BY <1>1, PairsSame, RefCount, RefCountNext DEF CtxType
<1>6. ASSUME NEW q \in Reqs PROVE ReqInv(q)'
  <2> USE DEF CtxType, ThreadInv, LockInv, ReqInv, PlaceInv
  <2>1. Unrun(q)' = Unrun(q) /\ Unreg(q)' = Unreg(q) /\ Open(q)' = Open(q)
    BY <1>1 DEF Unreg, Open
  <2>2. PlaceInv(q)'
    BY <2>1 DEF FreeInv, WaitInv, DropInv, EndInv, ApplyInv, SomeInv
  <2>3. OutInv(q)'
    BY <2>1 DEF OutInv
  <2>4. InInv(q)'
    BY <2>1 DEF InInv
  <2>5. CountInv(q)'
    BY <2>1 DEF CountInv
  <2> QED BY <2>2, <2>3, <2>4, <2>5
<1> QED BY <1>1, <1>2, <1>3, <1>4, <1>5, <1>6

LEMMA ReleaseStep ==
  ASSUME CtxInv, Release
  PROVE  CtxInv'
<1> USE DEF CtxInv, Release
<1>1. FenceInv' /\ \A q \in Reqs : Unrun(q)' = Unrun(q)
  BY FenceSame
<1>2. CtxType'
  BY DEF CtxType, ThreadInv, IoctlPcs, CbPcs, IrqPcs, Modes
<1>3. ThreadInv'
  BY DEF CtxType, ThreadInv
<1>4. LockInv'
  BY DEF CtxType, LockInv
<1>5. RefExact'
  BY <1>1, PairsSame, RefCount, RefCountNext DEF CtxType
<1>6. ASSUME NEW q \in Reqs PROVE ReqInv(q)'
  <2> USE DEF CtxType, ThreadInv, LockInv, ReqInv, PlaceInv
  <2>1. Unrun(q)' = Unrun(q) /\ Unreg(q)' = Unreg(q) /\ Open(q)' = Open(q)
    BY <1>1 DEF Unreg, Open
  <2>2. PlaceInv(q)'
    BY <2>1 DEF FreeInv, WaitInv, DropInv, EndInv, ApplyInv, SomeInv
  <2>3. OutInv(q)'
    BY <2>1 DEF OutInv
  <2>4. InInv(q)'
    BY <2>1 DEF InInv
  <2>5. CountInv(q)'
    BY <2>1 DEF CountInv
  <2> QED BY <2>2, <2>3, <2>4, <2>5
<1> QED BY <1>1, <1>2, <1>3, <1>4, <1>5, <1>6

LEMMA ReleasePutStep ==
  ASSUME CtxInv, ReleasePut
  PROVE  CtxInv'
<1> USE DEF CtxInv, ReleasePut
<1>1. FenceInv' /\ \A q \in Reqs : Unrun(q)' = Unrun(q)
  BY FenceSame
<1>r. refcount \in Nat \ {0} /\ Pairs' = Pairs
  BY <1>1, PairsSame, RefCount, PairsFinite DEF CtxType, ThreadInv, LockInv
<1>2. CtxType'
  BY <1>r DEF CtxType, ThreadInv, IoctlPcs, CbPcs, IrqPcs, Modes
<1>3. ThreadInv'
  BY DEF CtxType, ThreadInv
<1>4. LockInv'
  BY DEF CtxType, LockInv
<1>5. RefExact'
  <2>0. refcount = 1 <=> refcount' = 0
    BY <1>r
  <2>1. refcount' = refcount - 1 /\ (free_ctx' <=> refcount' = 0)
    BY <2>0, Zenon
  <2>2. refcount' = (IF state' # "AVAILABLE" \/ pc'["ioctl"] = "release" THEN 1 ELSE 0)
                    + Cardinality(Pairs') + (IF pc'["cb"] # "idle" THEN 1 ELSE 0)
    BY <1>r, <2>1, RefCount, PairsFinite DEF CtxType, ThreadInv, LockInv
  <2> QED BY <2>1, <2>2, RefCountNext
<1>6. ASSUME NEW q \in Reqs PROVE ReqInv(q)'
  <2> USE DEF CtxType, ThreadInv, LockInv, ReqInv, PlaceInv
  <2>1. Unrun(q)' = Unrun(q) /\ Unreg(q)' = Unreg(q) /\ Open(q)' = Open(q)
    BY <1>1 DEF Unreg, Open
  <2>2. PlaceInv(q)'
    BY <2>1 DEF FreeInv, WaitInv, DropInv, EndInv, ApplyInv, SomeInv
  <2>3. OutInv(q)'
    BY <2>1 DEF OutInv
  <2>4. InInv(q)'
    BY <2>1 DEF InInv
  <2>5. CountInv(q)'
    BY <2>1 DEF CountInv
  <2> QED BY <2>2, <2>3, <2>4, <2>5
<1> QED BY <1>1, <1>2, <1>3, <1>4, <1>5, <1>6

-----------------------------------------------------------------------------
(* cam_context_prepare_dev_to_hw                                            *)

LEMMA ConfigRefusedStep ==
  ASSUME CtxInv, NEW r \in Reqs, ConfigRefused(r)
  PROVE  CtxInv'
<1> USE DEF CtxInv, ConfigRefused
<1>1. FenceInv' /\ \A q \in Reqs : Unrun(q)' = Unrun(q)
  BY FenceSame
<1>2. CtxType'
  BY SmallEmpty DEF CtxType, ThreadInv, IoctlPcs, CbPcs, IrqPcs, Modes
<1>3. ThreadInv'
  BY DEF CtxType, ThreadInv
<1>4. LockInv'
  BY DEF CtxType, LockInv
<1>5. RefExact'
  BY <1>1, PairsSame, RefCount, RefCountNext DEF CtxType
<1>6. ASSUME NEW q \in Reqs PROVE ReqInv(q)'
  <2> USE DEF CtxType, ThreadInv, LockInv, ReqInv, PlaceInv
  <2>1. Unrun(q)' = Unrun(q) /\ Unreg(q)' = Unreg(q) /\ Open(q)' = Open(q)
    BY <1>1 DEF Unreg, Open
  <2>2. PlaceInv(q)'
    BY <2>1 DEF FreeInv, WaitInv, DropInv, EndInv, ApplyInv, SomeInv
  <2>3. OutInv(q)'
    BY <2>1 DEF OutInv
  <2>4. InInv(q)'
    BY <2>1 DEF InInv
  <2>5. CountInv(q)'
    BY <2>1 DEF CountInv
  <2> QED BY <2>2, <2>3, <2>4, <2>5
<1> QED BY <1>1, <1>2, <1>3, <1>4, <1>5, <1>6

LEMMA ConfigStep ==
  ASSUME CtxInv, KeepsFences, FullPackets, NEW r \in Reqs, NEW ins \in Small, NEW outs \in Small,
      Config(r, ins, outs)
  PROVE  CtxInv'
<1> USE DEF CtxInv, Config
<1>1. FenceInv' /\ \A q \in Reqs : Unrun(q)' = Unrun(q)
  BY FenceSame
<1>a. r \in free /\ ins # {} /\ ReqInv(r) /\ Unrun(r) = {}
  BY DEF ReqInv, PlaceInv, FreeInv
<1>2. CtxType'
  <2>1. /\ acked' \in [Reqs -> 0 .. MaxFences] /\ in' \in [Reqs -> Small]
        /\ out' \in [Reqs -> Small]
    BY DEF CtxType
  <2>2. /\ pc' \in [Thr -> IoctlPcs \cup CbPcs \cup IrqPcs]
        /\ pc'["ioctl"] \in IoctlPcs /\ pc'["cb"] \in CbPcs /\ pc'["irq"] \in IrqPcs
        /\ cur' \in [Thr -> Reqs \cup {None}]
    <3>1. /\ pc' = [pc EXCEPT !["ioctl"] = "cfg_check"] /\ cur' = [cur EXCEPT !["ioctl"] = r]
      BY <1>a
    <3> QED BY <3>1 DEF CtxType, IoctlPcs, CbPcs, IrqPcs
  <2> QED BY <1>a, <2>1, <2>2 DEF CtxType
<1>3. ThreadInv'
  BY <1>a DEF CtxType, ThreadInv, LockInv
<1>4. LockInv'
  BY <1>a DEF CtxType, ThreadInv, LockInv
<1>5. RefExact'
  BY <1>1, <1>a, PairsSame, RefCount, RefCountNext DEF CtxType
<1>6. ASSUME NEW q \in Reqs PROVE ReqInv(q)'
  <2> USE DEF CtxType, ThreadInv, LockInv, ReqInv, PlaceInv
  <2>1. /\ Unrun(q)' = Unrun(q) /\ Unreg(q) = {}
        /\ Unreg(q)' = (IF q = r THEN ins ELSE {})
        /\ in'[q] = (IF q = r THEN ins ELSE in[q])
        /\ q # r => Open(q)' = Open(q)
        /\ q = r => Open(q)' = ins
    BY <1>1, <1>a DEF Unreg, Open
  <2>2. PlaceInv(q)'
    <3>1. FreeInv(q)'
      BY <2>1, <1>a DEF FreeInv, WaitInv, DropInv, EndInv, ApplyInv, SomeInv
    <3>2. WaitInv(q)'
      BY <2>1, <1>a DEF FreeInv, WaitInv, DropInv, EndInv, ApplyInv, SomeInv
    <3>3. DropInv(q)'
      BY <2>1, <1>a DEF FreeInv, WaitInv, DropInv, EndInv, ApplyInv, SomeInv
    <3>4. EndInv(q)'
      BY <2>1, <1>a DEF FreeInv, WaitInv, DropInv, EndInv, ApplyInv, SomeInv
    <3>5. ApplyInv(q)'
      BY <2>1, <1>a DEF FreeInv, WaitInv, DropInv, EndInv, ApplyInv, SomeInv
    <3>6. SomeInv(q)'
      BY <2>1, <1>a DEF FreeInv, WaitInv, DropInv, EndInv, ApplyInv, SomeInv
    <3> QED BY <3>1, <3>2, <3>3, <3>4, <3>5, <3>6
  <2>3. OutInv(q)'
    BY <2>1, <1>a DEF FreeInv, WaitInv, DropInv, EndInv, ApplyInv, SomeInv, OutInv
  <2>4. InInv(q)'
    BY <2>1, <1>a DEF InInv
  <2>5. CountInv(q)'
    <3>1. CASE q = r
      BY <2>1, <3>1, SmallType DEF CountInv
    <3>2. CASE q # r
      BY <2>1, <3>2 DEF CountInv
    <3> QED BY <3>1, <3>2
  <2> QED BY <2>2, <2>3, <2>4, <2>5
<1> QED BY <1>1, <1>2, <1>3, <1>4, <1>5, <1>6

\* No in-fence of the request was destroyed: the check succeeds.
LEMMA ConfigCheckStep ==
  ASSUME CtxInv, KeepsFences, ConfigCheck
  PROVE  CtxInv'
<1> USE DEF CtxInv, ConfigCheck
<1>1. FenceInv' /\ \A q \in Reqs : Unrun(q)' = Unrun(q)
  BY FenceSame
<1>a. /\ cur["ioctl"] \in Reqs /\ in[cur["ioctl"]] \subseteq Fences
      /\ \A f \in in[cur["ioctl"]] : fence[f] # F!FREE
  <2>1. cur["ioctl"] \in Reqs /\ cur["ioctl"] \in pending
    BY DEF CtxType, ThreadInv
  <2>2. cur["ioctl"] \notin free
    BY <2>1 DEF ReqInv, PlaceInv, FreeInv
  <2> QED BY <2>1, <2>2, InFences DEF ReqInv, InInv
<1>b. /\ pc' = [pc EXCEPT !["ioctl"] = "cfg_reg"]
      /\ todo' = [todo EXCEPT !["ioctl"] = in[cur["ioctl"]]]
      /\ UNCHANGED <<free, out, owned, cur>>
  BY <1>a
<1>2. CtxType'
  BY <1>a, <1>b DEF CtxType, ThreadInv, IoctlPcs, CbPcs, IrqPcs, Modes
<1>3. ThreadInv'
  BY <1>a, <1>b DEF CtxType, ThreadInv, LockInv
<1>4. LockInv'
  BY <1>a, <1>b DEF CtxType, ThreadInv, LockInv
<1>5. RefExact'
  BY <1>1, <1>a, <1>b, PairsSame, RefCount, RefCountNext DEF CtxType
<1>6. ASSUME NEW q \in Reqs PROVE ReqInv(q)'
  <2> USE DEF CtxType, ThreadInv, LockInv, ReqInv, PlaceInv
  <2>1. Unrun(q)' = Unrun(q) /\ Unreg(q)' = Unreg(q) /\ Open(q)' = Open(q)
    BY <1>1, <1>a, <1>b DEF Unreg, Open
  <2>2. PlaceInv(q)'
    BY <2>1, <1>a, <1>b DEF FreeInv, WaitInv, DropInv, EndInv, ApplyInv, SomeInv
  <2>3. OutInv(q)'
    BY <2>1, <1>a, <1>b DEF OutInv
  <2>4. InInv(q)'
    BY <2>1, <1>a, <1>b DEF InInv
  <2>5. CountInv(q)'
    BY <2>1, <1>a, <1>b DEF CountInv
  <2> QED BY <2>2, <2>3, <2>4, <2>5
<1> QED BY <1>1, <1>2, <1>3, <1>4, <1>5, <1>6

\* One in-fence less to register on is one callback more that has not run.
LEMMA ConfigRegisterStep ==
  ASSUME CtxInv, KeepsFences, NEW f \in Fences, ConfigRegister(f)
  PROVE  CtxInv'
<1> USE DEF CtxInv, ConfigRegister
<1>0. PICK r \in Reqs : r = cur["ioctl"]
  BY DEF CtxType, ThreadInv
<1>a. r \in pending /\ r \notin free /\ f \notin Unrun(r) /\ fence[f] # F!FREE
  <2>1. r \in pending
    BY <1>0 DEF CtxType, ThreadInv
  <2>2. r \notin free
    BY <1>0, <2>1 DEF ReqInv, PlaceInv, FreeInv
  <2> QED BY <1>0, <2>1, <2>2 DEF ReqInv, InInv, Open, Unreg
<1>1. /\ FenceInv' /\ fence' = fence
      /\ Unrun(r)' = Unrun(r) \cup {f}
      /\ \A q \in Reqs \ {r} : Unrun(q)' = Unrun(q)
  <2>1. F!Register(f, r)
    BY <1>0, <1>a
  <2> QED BY <1>a, <2>1, FenceRegister
<1>b. /\ UNCHANGED <<free, pending, out, owned>> /\ refcount' = refcount + 1
      /\ todo' = [todo EXCEPT !["ioctl"] = @ \ {f}]
      /\ IF todo["ioctl"] = {f}
           THEN pc' = [pc EXCEPT !["ioctl"] = "idle"] /\ cur' = [cur EXCEPT !["ioctl"] = None]
           ELSE UNCHANGED <<pc, cur>>
  BY <1>0, <1>a
<1>2. CtxType'
  BY SMTT(60), <1>b DEF CtxType, ThreadInv, IoctlPcs, CbPcs, IrqPcs
<1>3. ThreadInv'
  BY DEF CtxType, ThreadInv
<1>4. LockInv'
  BY DEF CtxType, LockInv
<1>5. RefExact'
  <2>1. Cardinality(Pairs') = Cardinality(Pairs) + 1
    BY <1>1, <1>a, PairsAdd
  <2>2. state # "AVAILABLE" /\ refcount' = refcount + 1 /\ free_ctx' = free_ctx
    BY <1>b DEF LockInv
  <2>3. ~free_ctx /\ refcount # 0
    BY <2>2, RefCount, PairsFinite DEF CtxType
  <2> QED BY <2>1, <2>2, <2>3, RefCount, RefCountNext, PairsFinite DEF CtxType, ThreadInv
<1>6. ASSUME NEW q \in Reqs PROVE ReqInv(q)'
  <2> USE DEF CtxType, ThreadInv, LockInv, ReqInv, PlaceInv
  <2>1. /\ q # r => Unrun(q)' = Unrun(q)
        /\ Unreg(q)' = (IF q = r THEN Unreg(q) \ {f} ELSE Unreg(q))
        /\ Open(q)' = Open(q)
    <3>1. q # r => Unrun(q)' = Unrun(q)
      BY <1>1
    <3>2. Unreg(q)' = (IF q = r THEN Unreg(q) \ {f} ELSE Unreg(q))
      BY <1>0, <1>b DEF Unreg
    <3>3. q = r => f \in Unreg(q)
      BY <1>0 DEF Unreg
    <3> QED BY <1>1, <3>1, <3>2, <3>3 DEF Open
  <2>2. PlaceInv(q)'
    <3>1. FreeInv(q)'
      BY <1>0, <1>1, <1>a, <1>b, <2>1 DEF FreeInv, WaitInv, DropInv, EndInv, ApplyInv, SomeInv
    <3>2. WaitInv(q)'
      BY <1>0, <1>1, <1>a, <1>b, <2>1 DEF FreeInv, WaitInv, DropInv, EndInv, ApplyInv, SomeInv
    <3>3. DropInv(q)'
      BY <1>0, <1>1, <1>a, <1>b, <2>1 DEF FreeInv, WaitInv, DropInv, EndInv, ApplyInv, SomeInv
    <3>4. EndInv(q)'
      BY <1>0, <1>1, <1>a, <1>b, <2>1 DEF FreeInv, WaitInv, DropInv, EndInv, ApplyInv, SomeInv
    <3>5. ApplyInv(q)'
      BY <1>0, <1>1, <1>a, <1>b, <2>1 DEF FreeInv, WaitInv, DropInv, EndInv, ApplyInv, SomeInv
    <3>6. SomeInv(q)'
      BY <1>0, <1>1, <1>a, <1>b, <2>1 DEF FreeInv, WaitInv, DropInv, EndInv, ApplyInv, SomeInv
    <3> QED BY <3>1, <3>2, <3>3, <3>4, <3>5, <3>6
  <2>3. OutInv(q)'
    BY <2>1 DEF OutInv
  <2>4. InInv(q)'
    BY <1>0, <1>1, <1>a, <1>b, <2>1 DEF FreeInv, WaitInv, InInv
  <2>5. CountInv(q)'
    BY <2>1 DEF CountInv
  <2> QED BY <2>2, <2>3, <2>4, <2>5
<1> QED BY <1>1, <1>2, <1>3, <1>4, <1>5, <1>6

-----------------------------------------------------------------------------
(* cam_context_flush_req_to_hw                                              *)

LEMMA FlushReqIoctlStep ==
  ASSUME CtxInv, NEW r \in Reqs, FlushReqIoctl(r)
  PROVE  CtxInv'
<1> USE DEF CtxInv, FlushReqIoctl
<1>1. FenceInv' /\ \A q \in Reqs : Unrun(q)' = Unrun(q)
  BY FenceSame
<1>2. CtxType'
  BY DEF CtxType, ThreadInv, IoctlPcs, CbPcs, IrqPcs, Modes
<1>3. ThreadInv'
  BY DEF CtxType, ThreadInv
<1>4. LockInv'
  BY DEF CtxType, LockInv
<1>5. RefExact'
  BY <1>1, PairsSame, RefCount, RefCountNext DEF CtxType
<1>6. ASSUME NEW q \in Reqs PROVE ReqInv(q)'
  <2> USE DEF CtxType, ThreadInv, LockInv, ReqInv, PlaceInv
  <2>1. Unrun(q)' = Unrun(q) /\ Unreg(q)' = Unreg(q) /\ Open(q)' = Open(q)
    BY <1>1 DEF Unreg, Open
  <2>2. PlaceInv(q)'
    BY <2>1 DEF FreeInv, WaitInv, DropInv, EndInv, ApplyInv, SomeInv
  <2>3. OutInv(q)'
    BY <2>1 DEF OutInv
  <2>4. InInv(q)'
    BY <2>1 DEF InInv
  <2>5. CountInv(q)'
    BY <2>1 DEF CountInv
  <2> QED BY <2>2, <2>3, <2>4, <2>5
<1> QED BY <1>1, <1>2, <1>3, <1>4, <1>5, <1>6

\* By an ioctl
LEMMA FlushReqPendingIoctlStep ==
  ASSUME CtxInv, FlushReqPending("ioctl")
  PROVE  CtxInv'
<1> USE DEF CtxInv, FlushReqPending
<1>1. FenceInv' /\ \A q \in Reqs : Unrun(q)' = Unrun(q)
  BY FenceSame
<1>2. CtxType'
  BY DEF CtxType, ThreadInv, IoctlPcs, CbPcs, IrqPcs, Modes
<1>3. ThreadInv'
  BY DEF CtxType, ThreadInv
<1>4. LockInv'
  BY DEF CtxType, LockInv
<1>5. RefExact'
  BY <1>1, PairsSame, RefCount, RefCountNext DEF CtxType
<1>6. ASSUME NEW q \in Reqs PROVE ReqInv(q)'
  <2> USE DEF CtxType, ThreadInv, LockInv, ReqInv, PlaceInv
  <2>1. Unrun(q)' = Unrun(q) /\ Unreg(q)' = Unreg(q) /\ Open(q)' = Open(q)
    BY <1>1 DEF Unreg, Open
  <2>2. PlaceInv(q)'
    <3>1. FreeInv(q)'
      BY <2>1 DEF FreeInv, WaitInv, DropInv, EndInv, ApplyInv, SomeInv, Open, Unreg
    <3>2. WaitInv(q)'
      BY <2>1 DEF FreeInv, WaitInv, DropInv, EndInv, ApplyInv, SomeInv, Open, Unreg
    <3>3. DropInv(q)'
      BY <2>1 DEF FreeInv, WaitInv, DropInv, EndInv, ApplyInv, SomeInv, Open, Unreg
    <3>4. EndInv(q)'
      BY <2>1 DEF FreeInv, WaitInv, DropInv, EndInv, ApplyInv, SomeInv, Open, Unreg
    <3>5. ApplyInv(q)'
      BY <2>1 DEF FreeInv, WaitInv, DropInv, EndInv, ApplyInv, SomeInv, Open, Unreg
    <3>6. SomeInv(q)'
      BY <2>1 DEF FreeInv, WaitInv, DropInv, EndInv, ApplyInv, SomeInv, Open, Unreg
    <3> QED BY <3>1, <3>2, <3>3, <3>4, <3>5, <3>6
  <2>3. OutInv(q)'
    BY <2>1 DEF OutInv
  <2>4. InInv(q)'
    BY <2>1 DEF InInv
  <2>5. CountInv(q)'
    BY <2>1 DEF CountInv
  <2> QED BY <2>2, <2>3, <2>4, <2>5
<1> QED BY <1>1, <1>2, <1>3, <1>4, <1>5, <1>6

\* By the callback that made the last acknowledgement, so not of a request being configured
LEMMA FlushReqPendingCbStep ==
  ASSUME CtxInv, FlushReqPending("cb")
  PROVE  CtxInv'
<1> USE DEF CtxInv, FlushReqPending
<1>1. FenceInv' /\ \A q \in Reqs : Unrun(q)' = Unrun(q)
  BY FenceSame
<1>a. pc["ioctl"] \in {"cfg_check", "cfg_reg"} => cur["ioctl"] # cur["cb"]
  <2>1. cur["cb"] \in Reqs /\ WaitInv(cur["cb"])
    BY DEF CtxType, ThreadInv, ReqInv, PlaceInv
  <2> QED BY <2>1 DEF WaitInv, Open, Unreg, ThreadInv
<1>2. CtxType'
  BY <1>a DEF CtxType, ThreadInv, IoctlPcs, CbPcs, IrqPcs, Modes
<1>3. ThreadInv'
  BY <1>a DEF CtxType, ThreadInv, LockInv
<1>4. LockInv'
  BY <1>a DEF CtxType, ThreadInv, LockInv
<1>5. RefExact'
  BY <1>1, <1>a, PairsSame, RefCount, RefCountNext DEF CtxType
<1>6. ASSUME NEW q \in Reqs PROVE ReqInv(q)'
  <2> USE DEF CtxType, ThreadInv, LockInv, ReqInv, PlaceInv
  <2>1. Unrun(q)' = Unrun(q) /\ Unreg(q)' = Unreg(q) /\ Open(q)' = Open(q)
    BY <1>1, <1>a DEF Unreg, Open
  <2>2. PlaceInv(q)'
    <3>1. FreeInv(q)'
      BY <2>1, <1>a DEF FreeInv, WaitInv, DropInv, EndInv, ApplyInv, SomeInv, Open, Unreg
    <3>2. WaitInv(q)'
      BY <2>1, <1>a DEF FreeInv, WaitInv, DropInv, EndInv, ApplyInv, SomeInv, Open, Unreg
    <3>3. DropInv(q)'
      BY <2>1, <1>a DEF FreeInv, WaitInv, DropInv, EndInv, ApplyInv, SomeInv, Open, Unreg
    <3>4. EndInv(q)'
      BY <2>1, <1>a DEF FreeInv, WaitInv, DropInv, EndInv, ApplyInv, SomeInv, Open, Unreg
    <3>5. ApplyInv(q)'
      BY <2>1, <1>a DEF FreeInv, WaitInv, DropInv, EndInv, ApplyInv, SomeInv, Open, Unreg
    <3>6. SomeInv(q)'
      BY <2>1, <1>a DEF FreeInv, WaitInv, DropInv, EndInv, ApplyInv, SomeInv, Open, Unreg
    <3> QED BY <3>1, <3>2, <3>3, <3>4, <3>5, <3>6
  <2>3. OutInv(q)'
    BY <2>1, <1>a DEF OutInv
  <2>4. InInv(q)'
    BY <2>1, <1>a DEF InInv
  <2>5. CountInv(q)'
    BY <2>1, <1>a DEF CountInv
  <2> QED BY <2>2, <2>3, <2>4, <2>5
<1> QED BY <1>1, <1>2, <1>3, <1>4, <1>5, <1>6

LEMMA FlushReqActiveIoctlStep ==
  ASSUME CtxInv, FlushReqActive("ioctl")
  PROVE  CtxInv'
<1> USE DEF CtxInv, FlushReqActive, FlushReqReturn
<1>1. FenceInv' /\ \A q \in Reqs : Unrun(q)' = Unrun(q)
  BY FenceSame
<1>a. /\ cur["ioctl"] \in Reqs /\ active' \in Seq(Reqs) /\ NoDup(active)'
      /\ cur["ioctl"] \notin Elems(active) => active' = active
      /\ Elems(active') = Elems(active) \ {cur["ioctl"]}
  <2>1. cur["ioctl"] \in Reqs
    BY DEF CtxType, ThreadInv
  <2> QED BY <2>1, WithoutElems DEF CtxType
<1>2. CtxType'
  BY <1>a DEF CtxType, ThreadInv, IoctlPcs, CbPcs, IrqPcs, Modes
<1>3. ThreadInv'
  BY <1>a DEF CtxType, ThreadInv, LockInv
<1>4. LockInv'
  BY <1>a DEF CtxType, ThreadInv, LockInv
<1>5. RefExact'
  BY <1>1, <1>a, PairsSame, RefCount, RefCountNext DEF CtxType
<1>6. ASSUME NEW q \in Reqs PROVE ReqInv(q)'
  <2> USE DEF CtxType, ThreadInv, LockInv, ReqInv, PlaceInv
  <2>1. Unrun(q)' = Unrun(q) /\ Unreg(q)' = Unreg(q) /\ Open(q)' = Open(q)
    BY <1>1, <1>a DEF Unreg, Open
  <2>2. PlaceInv(q)'
    <3>1. FreeInv(q)'
      BY <2>1, <1>a DEF FreeInv, WaitInv, DropInv, EndInv, ApplyInv, SomeInv
    <3>2. WaitInv(q)'
      BY <2>1, <1>a DEF FreeInv, WaitInv, DropInv, EndInv, ApplyInv, SomeInv
    <3>3. DropInv(q)'
      BY <2>1, <1>a DEF FreeInv, WaitInv, DropInv, EndInv, ApplyInv, SomeInv
    <3>4. EndInv(q)'
      BY <2>1, <1>a DEF FreeInv, WaitInv, DropInv, EndInv, ApplyInv, SomeInv
    <3>5. ApplyInv(q)'
      BY <2>1, <1>a DEF FreeInv, WaitInv, DropInv, EndInv, ApplyInv, SomeInv
    <3>6. SomeInv(q)'
      BY <2>1, <1>a DEF FreeInv, WaitInv, DropInv, EndInv, ApplyInv, SomeInv
    <3> QED BY <3>1, <3>2, <3>3, <3>4, <3>5, <3>6
  <2>3. OutInv(q)'
    BY <2>1, <1>a DEF OutInv
  <2>4. InInv(q)'
    BY <2>1, <1>a DEF InInv
  <2>5. CountInv(q)'
    BY <2>1, <1>a DEF CountInv
  <2> QED BY <2>2, <2>3, <2>4, <2>5
<1> QED BY <1>1, <1>2, <1>3, <1>4, <1>5, <1>6

\* The request of that callback is not on the active list.
LEMMA FlushReqActiveCbStep ==
  ASSUME CtxInv, FlushReqActive("cb")
  PROVE  CtxInv'
<1> USE DEF CtxInv, FlushReqActive, FlushReqReturn
<1>1. FenceInv' /\ \A q \in Reqs : Unrun(q)' = Unrun(q)
  BY FenceSame
<1>a. cur["cb"] \in Reqs /\ cur["cb"] \notin Elems(active)
  <2>1. cur["cb"] \in Reqs
    BY DEF CtxType, ThreadInv
  <2> QED BY <2>1 DEF ReqInv, PlaceInv, ApplyInv
<1>2. CtxType'
  BY <1>a DEF CtxType, ThreadInv, IoctlPcs, CbPcs, IrqPcs, Modes
<1>3. ThreadInv'
  BY <1>a DEF CtxType, ThreadInv, LockInv
<1>4. LockInv'
  BY <1>a DEF CtxType, ThreadInv, LockInv
<1>5. RefExact'
  BY <1>1, <1>a, PairsSame, RefCount, RefCountNext DEF CtxType
<1>6. ASSUME NEW q \in Reqs PROVE ReqInv(q)'
  <2> USE DEF CtxType, ThreadInv, LockInv, ReqInv, PlaceInv
  <2>1. Unrun(q)' = Unrun(q) /\ Unreg(q)' = Unreg(q) /\ Open(q)' = Open(q)
    BY <1>1, <1>a DEF Unreg, Open
  <2>2. PlaceInv(q)'
    BY <2>1, <1>a DEF FreeInv, WaitInv, DropInv, EndInv, ApplyInv, SomeInv
  <2>3. OutInv(q)'
    BY <2>1, <1>a DEF OutInv
  <2>4. InInv(q)'
    BY <2>1, <1>a DEF InInv
  <2>5. CountInv(q)'
    BY <2>1, <1>a DEF CountInv
  <2> QED BY <2>2, <2>3, <2>4, <2>5
<1> QED BY <1>1, <1>2, <1>3, <1>4, <1>5, <1>6

LEMMA FlushReqHwIoctlStep ==
  ASSUME CtxInv, FlushReqHw("ioctl")
  PROVE  CtxInv'
<1> USE DEF CtxInv, FlushReqHw
<1>1. FenceInv' /\ \A q \in Reqs : Unrun(q)' = Unrun(q)
  BY FenceSame
<1>2. CtxType'
  BY SmallType DEF CtxType, ThreadInv, IoctlPcs, CbPcs, IrqPcs, Modes
<1>3. ThreadInv'
  BY DEF CtxType, ThreadInv
<1>4. LockInv'
  BY DEF CtxType, ThreadInv, LockInv
<1>5. RefExact'
  BY <1>1, PairsSame, RefCount, RefCountNext DEF CtxType
<1>6. ASSUME NEW q \in Reqs PROVE ReqInv(q)'
  <2> USE DEF CtxType, ThreadInv, LockInv, ReqInv, PlaceInv
  <2>1. Unrun(q)' = Unrun(q) /\ Unreg(q)' = Unreg(q) /\ Open(q)' = Open(q)
    BY <1>1 DEF Unreg, Open
  <2>2. PlaceInv(q)'
    BY <2>1 DEF FreeInv, WaitInv, DropInv, EndInv, ApplyInv, SomeInv
  <2>3. OutInv(q)'
    BY <2>1 DEF OutInv
  <2>4. InInv(q)'
    BY <2>1 DEF InInv
  <2>5. CountInv(q)'
    BY <2>1 DEF CountInv
  <2> QED BY <2>2, <2>3, <2>4, <2>5
<1> QED BY <1>1, <1>2, <1>3, <1>4, <1>5, <1>6

LEMMA FlushReqHwCbStep ==
  ASSUME CtxInv, FlushReqHw("cb")
  PROVE  CtxInv'
<1> USE DEF CtxInv, FlushReqHw
<1>1. FenceInv' /\ \A q \in Reqs : Unrun(q)' = Unrun(q)
  BY FenceSame
<1>2. CtxType'
  BY SmallType DEF CtxType, ThreadInv, IoctlPcs, CbPcs, IrqPcs, Modes
<1>3. ThreadInv'
  BY DEF CtxType, ThreadInv
<1>4. LockInv'
  BY DEF CtxType, LockInv
<1>5. RefExact'
  BY <1>1, PairsSame, RefCount, RefCountNext DEF CtxType
<1>6. ASSUME NEW q \in Reqs PROVE ReqInv(q)'
  <2> USE DEF CtxType, ThreadInv, LockInv, ReqInv, PlaceInv
  <2>1. Unrun(q)' = Unrun(q) /\ Unreg(q)' = Unreg(q) /\ Open(q)' = Open(q)
    BY <1>1 DEF Unreg, Open
  <2>2. PlaceInv(q)'
    BY <2>1 DEF FreeInv, WaitInv, DropInv, EndInv, ApplyInv, SomeInv
  <2>3. OutInv(q)'
    BY <2>1 DEF OutInv
  <2>4. InInv(q)'
    BY <2>1 DEF InInv
  <2>5. CountInv(q)'
    BY <2>1 DEF CountInv
  <2> QED BY <2>2, <2>3, <2>4, <2>5
<1> QED BY <1>1, <1>2, <1>3, <1>4, <1>5, <1>6

-----------------------------------------------------------------------------
(* cam_context_flush_ctx_to_hw                                              *)

LEMMA FlushCtxBeginStep ==
  ASSUME CtxInv, NEW op \in {"flush", "stop", "release"}, FlushCtxBegin(op)
  PROVE  CtxInv'
<1> USE DEF CtxInv, FlushCtxBegin
<1>1. FenceInv' /\ \A q \in Reqs : Unrun(q)' = Unrun(q)
  BY FenceSame
<1>2. CtxType'
  BY DEF CtxType, ThreadInv, IoctlPcs, CbPcs, IrqPcs, Modes
<1>3. ThreadInv'
  BY DEF CtxType, ThreadInv
<1>4. LockInv'
  BY DEF CtxType, LockInv
<1>5. RefExact'
  BY <1>1, PairsSame, RefCount, RefCountNext DEF CtxType
<1>6. ASSUME NEW q \in Reqs PROVE ReqInv(q)'
  <2> USE DEF CtxType, ThreadInv, LockInv, ReqInv, PlaceInv
  <2>1. Unrun(q)' = Unrun(q) /\ Unreg(q)' = Unreg(q) /\ Open(q)' = Open(q)
    BY <1>1 DEF Unreg, Open
  <2>2. PlaceInv(q)'
    BY <2>1 DEF FreeInv, WaitInv, DropInv, EndInv, ApplyInv, SomeInv
  <2>3. OutInv(q)'
    BY <2>1 DEF OutInv
  <2>4. InInv(q)'
    BY <2>1 DEF InInv
  <2>5. CountInv(q)'
    BY <2>1 DEF CountInv
  <2> QED BY <2>2, <2>3, <2>4, <2>5
<1> QED BY <1>1, <1>2, <1>3, <1>4, <1>5, <1>6

LEMMA FlushCtxTakeStep ==
  ASSUME CtxInv, FlushCtxTake
  PROVE  CtxInv'
<1> USE DEF CtxInv, FlushCtxTake
<1>1. FenceInv' /\ \A q \in Reqs : Unrun(q)' = Unrun(q)
  BY FenceSame
<1>2. CtxType'
  BY SMTT(60), SmallType DEF CtxType, ThreadInv, IoctlPcs, CbPcs, IrqPcs, Modes
<1>3. ThreadInv'
  BY DEF CtxType, ThreadInv
<1>4. LockInv'
  BY DEF CtxType, LockInv
<1>5. RefExact'
  BY <1>1, PairsSame, RefCount, RefCountNext DEF CtxType
<1>6. ASSUME NEW q \in Reqs PROVE ReqInv(q)'
  <2> USE DEF CtxType, ThreadInv, LockInv, ReqInv, PlaceInv
  <2>1. Unrun(q)' = Unrun(q) /\ Unreg(q)' = Unreg(q) /\ Open(q)' = Open(q)
    BY <1>1 DEF Unreg, Open
  <2>2. PlaceInv(q)'
    <3>1. FreeInv(q)'
      BY <2>1 DEF FreeInv, WaitInv, DropInv, EndInv, ApplyInv, SomeInv, Open, Unreg
    <3>2. WaitInv(q)'
      BY <2>1 DEF FreeInv, WaitInv, DropInv, EndInv, ApplyInv, SomeInv, Open, Unreg
    <3>3. DropInv(q)'
      BY <2>1 DEF FreeInv, WaitInv, DropInv, EndInv, ApplyInv, SomeInv, Open, Unreg
    <3>4. EndInv(q)'
      BY <2>1 DEF FreeInv, WaitInv, DropInv, EndInv, ApplyInv, SomeInv, Open, Unreg
    <3>5. ApplyInv(q)'
      BY <2>1 DEF FreeInv, WaitInv, DropInv, EndInv, ApplyInv, SomeInv, Open, Unreg
    <3>6. SomeInv(q)'
      BY <2>1 DEF FreeInv, WaitInv, DropInv, EndInv, ApplyInv, SomeInv, Open, Unreg
    <3> QED BY <3>1, <3>2, <3>3, <3>4, <3>5, <3>6
  <2>3. OutInv(q)'
    BY <2>1 DEF OutInv
  <2>4. InInv(q)'
    BY <2>1 DEF InInv
  <2>5. CountInv(q)'
    BY <2>1 DEF CountInv
  <2> QED BY <2>2, <2>3, <2>4, <2>5
<1> QED BY <1>1, <1>2, <1>3, <1>4, <1>5, <1>6

LEMMA FlushCtxUnlockStep ==
  ASSUME CtxInv, FlushCtxUnlock
  PROVE  CtxInv'
<1> USE DEF CtxInv, FlushCtxUnlock
<1>1. FenceInv' /\ \A q \in Reqs : Unrun(q)' = Unrun(q)
  BY FenceSame
<1>2. CtxType'
  BY DEF CtxType, ThreadInv, IoctlPcs, CbPcs, IrqPcs, Modes
<1>3. ThreadInv'
  BY DEF CtxType, ThreadInv
<1>4. LockInv'
  BY DEF CtxType, LockInv
<1>5. RefExact'
  BY <1>1, PairsSame, RefCount, RefCountNext DEF CtxType
<1>6. ASSUME NEW q \in Reqs PROVE ReqInv(q)'
  <2> USE DEF CtxType, ThreadInv, LockInv, ReqInv, PlaceInv
  <2>1. Unrun(q)' = Unrun(q) /\ Unreg(q)' = Unreg(q) /\ Open(q)' = Open(q)
    BY <1>1 DEF Unreg, Open
  <2>2. PlaceInv(q)'
    BY <2>1 DEF FreeInv, WaitInv, DropInv, EndInv, ApplyInv, SomeInv
  <2>3. OutInv(q)'
    BY <2>1 DEF OutInv
  <2>4. InInv(q)'
    BY <2>1 DEF InInv
  <2>5. CountInv(q)'
    BY <2>1 DEF CountInv
  <2> QED BY <2>2, <2>3, <2>4, <2>5
<1> QED BY <1>1, <1>2, <1>3, <1>4, <1>5, <1>6

LEMMA FlushCtxHwStep ==
  ASSUME CtxInv, FlushCtxHw
  PROVE  CtxInv'
<1> USE DEF CtxInv, FlushCtxHw
<1>1. FenceInv' /\ \A q \in Reqs : Unrun(q)' = Unrun(q)
  BY FenceSame
<1>2. CtxType'
  BY DEF CtxType, ThreadInv, IoctlPcs, CbPcs, IrqPcs, Modes
<1>3. ThreadInv'
  BY DEF CtxType, ThreadInv
<1>4. LockInv'
  BY DEF CtxType, LockInv
<1>5. RefExact'
  BY <1>1, PairsSame, RefCount, RefCountNext DEF CtxType
<1>6. ASSUME NEW q \in Reqs PROVE ReqInv(q)'
  <2> USE DEF CtxType, ThreadInv, LockInv, ReqInv, PlaceInv
  <2>1. Unrun(q)' = Unrun(q) /\ Unreg(q)' = Unreg(q) /\ Open(q)' = Open(q)
    BY <1>1 DEF Unreg, Open
  <2>2. PlaceInv(q)'
    BY <2>1 DEF FreeInv, WaitInv, DropInv, EndInv, ApplyInv, SomeInv
  <2>3. OutInv(q)'
    BY <2>1 DEF OutInv
  <2>4. InInv(q)'
    BY <2>1 DEF InInv
  <2>5. CountInv(q)'
    BY <2>1 DEF CountInv
  <2> QED BY <2>2, <2>3, <2>4, <2>5
<1> QED BY <1>1, <1>2, <1>3, <1>4, <1>5, <1>6

LEMMA FlushCtxSpliceStep ==
  ASSUME CtxInv, FlushCtxSplice
  PROVE  CtxInv'
<1> USE DEF CtxInv, FlushCtxSplice
<1>1. FenceInv' /\ \A q \in Reqs : Unrun(q)' = Unrun(q)
  BY FenceSame
<1>a. Elems(active') = {} /\ Elems(active) \subseteq Reqs
  BY EmptyElems DEF CtxType, Elems
<1>2. CtxType'
  BY <1>a, EmptyElems DEF CtxType, ThreadInv, IoctlPcs, CbPcs, IrqPcs, Modes
<1>3. ThreadInv'
  BY <1>a DEF CtxType, ThreadInv, LockInv
<1>4. LockInv'
  BY <1>a DEF CtxType, ThreadInv, LockInv
<1>5. RefExact'
  BY <1>1, <1>a, PairsSame, RefCount, RefCountNext DEF CtxType
<1>6. ASSUME NEW q \in Reqs PROVE ReqInv(q)'
  <2> USE DEF CtxType, ThreadInv, LockInv, ReqInv, PlaceInv
  <2>1. Unrun(q)' = Unrun(q) /\ Unreg(q)' = Unreg(q) /\ Open(q)' = Open(q)
    BY <1>1, <1>a DEF Unreg, Open
  <2>2. PlaceInv(q)'
    <3>1. FreeInv(q)'
      BY <2>1, <1>a DEF FreeInv, WaitInv, DropInv, EndInv, ApplyInv, SomeInv
    <3>2. WaitInv(q)'
      BY <2>1, <1>a DEF FreeInv, WaitInv, DropInv, EndInv, ApplyInv, SomeInv
    <3>3. DropInv(q)'
      BY <2>1, <1>a DEF FreeInv, WaitInv, DropInv, EndInv, ApplyInv, SomeInv
    <3>4. EndInv(q)'
      BY <2>1, <1>a DEF FreeInv, WaitInv, DropInv, EndInv, ApplyInv, SomeInv
    <3>5. ApplyInv(q)'
      BY <2>1, <1>a DEF FreeInv, WaitInv, DropInv, EndInv, ApplyInv, SomeInv
    <3>6. SomeInv(q)'
      BY <2>1, <1>a DEF FreeInv, WaitInv, DropInv, EndInv, ApplyInv, SomeInv
    <3> QED BY <3>1, <3>2, <3>3, <3>4, <3>5, <3>6
  <2>3. OutInv(q)'
    BY <2>1, <1>a DEF OutInv
  <2>4. InInv(q)'
    BY <2>1, <1>a DEF InInv
  <2>5. CountInv(q)'
    BY <2>1, <1>a DEF CountInv
  <2> QED BY <2>2, <2>3, <2>4, <2>5
<1> QED BY <1>1, <1>2, <1>3, <1>4, <1>5, <1>6

LEMMA FlushCtxTakeActiveStep ==
  ASSUME CtxInv, FlushCtxTakeActive
  PROVE  CtxInv'
<1> USE DEF CtxInv, FlushCtxTakeActive
<1>1. FenceInv' /\ \A q \in Reqs : Unrun(q)' = Unrun(q)
  BY FenceSame
<1>2. CtxType'
  BY DEF CtxType, ThreadInv, IoctlPcs, CbPcs, IrqPcs, Modes
<1>3. ThreadInv'
  BY DEF CtxType, ThreadInv
<1>4. LockInv'
  BY DEF CtxType, LockInv
<1>5. RefExact'
  BY <1>1, PairsSame, RefCount, RefCountNext DEF CtxType
<1>6. ASSUME NEW q \in Reqs PROVE ReqInv(q)'
  <2> USE DEF CtxType, ThreadInv, LockInv, ReqInv, PlaceInv
  <2>1. Unrun(q)' = Unrun(q) /\ Unreg(q)' = Unreg(q) /\ Open(q)' = Open(q)
    BY <1>1 DEF Unreg, Open
  <2>2. PlaceInv(q)'
    BY <2>1 DEF FreeInv, WaitInv, DropInv, EndInv, ApplyInv, SomeInv
  <2>3. OutInv(q)'
    BY <2>1 DEF OutInv
  <2>4. InInv(q)'
    BY <2>1 DEF InInv
  <2>5. CountInv(q)'
    BY <2>1 DEF CountInv
  <2> QED BY <2>2, <2>3, <2>4, <2>5
<1> QED BY <1>1, <1>2, <1>3, <1>4, <1>5, <1>6

LEMMA FlushCtxEndStep ==
  ASSUME CtxInv, FlushCtxEnd
  PROVE  CtxInv'
<1> USE DEF CtxInv, FlushCtxEnd
<1>1. FenceInv' /\ \A q \in Reqs : Unrun(q)' = Unrun(q)
  BY FenceSame
<1>a. /\ cur["ioctl"] = None /\ cur' = cur /\ hw' \in {hw, {}}
      /\ \/ pc' = [pc EXCEPT !["ioctl"] = "idle"] /\ state' = state /\ hw' = hw
         \/ pc' = [pc EXCEPT !["ioctl"] = "idle"] /\ state' = "ACQUIRED" /\ hw' = {}
         \/ /\ pc' = [pc EXCEPT !["ioctl"] = "release"] /\ state' = "AVAILABLE" /\ hw' = {}
            /\ pc["irq"] = "idle"
  <2>1. after \in {"flush", "stop", "release"} /\ cur["ioctl"] = None
    BY DEF CtxType, ThreadInv, LockInv
  <2>2. [cur EXCEPT !["ioctl"] = None] = cur
    BY <2>1 DEF CtxType
  <2>3. CASE after = "flush"
    BY <2>1, <2>2, <2>3
  <2>4. CASE after = "stop"
    BY <2>1, <2>2, <2>4
  <2>5. CASE after = "release"
    BY <2>1, <2>2, <2>5
  <2> QED BY <2>1, <2>3, <2>4, <2>5
<1>2. CtxType'
  BY <1>a DEF CtxType, ThreadInv, IoctlPcs, CbPcs, IrqPcs, Modes
<1>3. ThreadInv'
  BY <1>a DEF CtxType, ThreadInv, LockInv
<1>4. LockInv'
  BY <1>a DEF CtxType, ThreadInv, LockInv
<1>5. RefExact'
  BY <1>1, <1>a, PairsSame, RefCount, RefCountNext DEF CtxType, ThreadInv, LockInv
<1>6. ASSUME NEW q \in Reqs PROVE ReqInv(q)'
  <2> USE DEF CtxType, ThreadInv, LockInv, ReqInv, PlaceInv
  <2>1. Unrun(q)' = Unrun(q) /\ Unreg(q)' = Unreg(q) /\ Open(q)' = Open(q)
    BY <1>1, <1>a DEF Unreg, Open
  <2>2. PlaceInv(q)'
    <3>1. FreeInv(q)'
      BY <2>1, <1>a DEF FreeInv, WaitInv, DropInv, EndInv, ApplyInv, SomeInv
    <3>2. WaitInv(q)'
      BY <2>1, <1>a DEF FreeInv, WaitInv, DropInv, EndInv, ApplyInv, SomeInv
    <3>3. DropInv(q)'
      BY <2>1, <1>a DEF FreeInv, WaitInv, DropInv, EndInv, ApplyInv, SomeInv
    <3>4. EndInv(q)'
      BY <2>1, <1>a DEF FreeInv, WaitInv, DropInv, EndInv, ApplyInv, SomeInv
    <3>5. ApplyInv(q)'
      BY <2>1, <1>a DEF FreeInv, WaitInv, DropInv, EndInv, ApplyInv, SomeInv
    <3>6. SomeInv(q)'
      BY <2>1, <1>a DEF FreeInv, WaitInv, DropInv, EndInv, ApplyInv, SomeInv
    <3> QED BY <3>1, <3>2, <3>3, <3>4, <3>5, <3>6
  <2>3. OutInv(q)'
    BY <2>1, <1>a DEF OutInv
  <2>4. InInv(q)'
    BY <2>1, <1>a DEF InInv
  <2>5. CountInv(q)'
    BY <2>1, <1>a DEF CountInv
  <2> QED BY <2>2, <2>3, <2>4, <2>5
<1> QED BY <1>1, <1>2, <1>3, <1>4, <1>5, <1>6

-----------------------------------------------------------------------------
(* What all flushes do with one request                                     *)

\* The callback is still registered: the flush makes the acknowledgement in its place, and if it
\* is the last one no callback will.
LEMMA FlushDeregFoundStep ==
  ASSUME CtxInv, NEW f \in Fences, FlushDereg("ioctl", f), pend[f][cur["ioctl"]] > 0
  PROVE  CtxInv'
<1> USE DEF CtxInv, FlushDereg
<1>0. PICK r \in Reqs : r = cur["ioctl"]
  BY DEF CtxType, ThreadInv
<1>1. /\ FenceInv' /\ fence' = fence
      /\ f \in Unrun(r) /\ Unrun(r)' = Unrun(r) \ {f}
      /\ \A q \in Reqs \ {r} : Unrun(q)' = Unrun(q)
  <2>1. F!Deregister(f, r)
    BY <1>0
  <2> QED BY <1>0, <2>1, FenceDeregister
<1>a. /\ FlushP("ioctl", r) /\ r \in flushed /\ r \notin free
      /\ ~Waiting(r) /\ ~Applied(r) /\ ~Ending(r) /\ ~Deciding(r) /\ ~lastack["ioctl"]
      /\ Unreg(r) = {} /\ Open(r) = Unrun(r)
  <2>1. FlushP("ioctl", r)
    BY <1>0 DEF CtxType, ThreadInv, Modes
  <2>2. PlaceInv(r) /\ Unrun(r) # {}
    BY <1>1 DEF ReqInv
  <2>3. r \notin free /\ ~Waiting(r) /\ ~Applied(r) /\ ~Ending(r)
    BY <2>1, <2>2 DEF PlaceInv, FreeInv, WaitInv, EndInv, ApplyInv
  <2>4. r \in flushed /\ ~Deciding(r) /\ ~lastack["ioctl"]
    BY <2>1, <2>2, <2>3 DEF PlaceInv, SomeInv, DropInv
  <2>5. Unreg(r) = {}
    BY DEF Unreg
  <2> QED BY <2>1, <2>3, <2>4, <2>5 DEF Open
<1>b. /\ acked[r] + 1 \in 0 .. MaxFences
      /\ acked[r] + 1 + Cardinality(Unrun(r) \ {f}) = Cardinality(in[r])
      /\ acked[r] + 1 = Cardinality(in[r]) <=> Unrun(r) \ {f} = {}
  <2>1. acked[r] + Cardinality(Unrun(r)) = Cardinality(in[r])
    BY <1>a DEF ReqInv, CountInv
  <2>2. Unrun(r) \subseteq Fences
    BY DEF Unrun
  <2>3. /\ Cardinality(Unrun(r) \ {f}) = Cardinality(Unrun(r)) - 1
        /\ Cardinality(Unrun(r)) \in Nat /\ Cardinality(Unrun(r) \ {f}) \in Nat
        /\ Cardinality(Unrun(r) \ {f}) = 0 <=> Unrun(r) \ {f} = {}
    BY <1>1, <2>2, SubsetFinite, SubsetRemove
  <2>4. Cardinality(in[r]) \in 0 .. MaxFences /\ acked[r] \in Nat
    BY InFences DEF CtxType
  <2> QED BY <2>1, <2>3, <2>4
<1>c. /\ acked' = [acked EXCEPT ![r] = @ + 1]
      /\ lastack' \in [Thr -> BOOLEAN] /\ (lastack'["ioctl"] <=> Unrun(r)' = {})
      /\ ~lastack'["cb"] /\ ~lastack'["irq"]
  <2>1. lastack' = [lastack EXCEPT !["ioctl"] = @ \/ acked[r] + 1 = Cardinality(in[r])]
    BY <1>0
  <2>2. lastack'["ioctl"] = (lastack["ioctl"] \/ acked[r] + 1 = Cardinality(in[r]))
    BY <2>1 DEF CtxType
  <2>3. /\ lastack'["cb"] = lastack["cb"] /\ lastack'["irq"] = lastack["irq"]
        /\ lastack' \in [Thr -> BOOLEAN]
    BY <2>1 DEF CtxType
  <2>4. ~lastack["cb"] /\ ~lastack["irq"]
    BY DEF ThreadInv
  <2>5. lastack'["ioctl"] <=> acked[r] + 1 = Cardinality(in[r])
    BY <1>a, <2>2, Zenon
  <2>6. lastack'["ioctl"] <=> Unrun(r)' = {}
    BY <1>1, <1>b, <2>5
  <2>7. acked' = [acked EXCEPT ![r] = @ + 1]
    BY <1>0
  <2>8. ~lastack'["cb"] /\ ~lastack'["irq"]
    BY <2>3, <2>4, SMT
  <2> QED BY <2>3, <2>6, <2>7, <2>8
<1>d. refcount' = refcount - 1 /\ free_ctx' = (refcount = 1)
  OBVIOUS
<1>r. refcount \in Nat \ {0} /\ Cardinality(Pairs') = Cardinality(Pairs) - 1
  <2>1. Cardinality(Pairs') = Cardinality(Pairs) - 1
    BY <1>1, PairsRemove
  <2> QED BY <2>1, RefCount, PairsFinite DEF CtxType, LockInv
<1>2. CtxType'
  <2>1. refcount' \in Nat /\ free_ctx' \in BOOLEAN
    BY <1>d, <1>r
  <2> QED BY <1>b, <1>c, <2>1 DEF CtxType
<1>3. ThreadInv'
  BY <1>0, <1>a, <1>c DEF CtxType, ThreadInv, LockInv
<1>4. LockInv'
  BY DEF CtxType, LockInv
<1>5. RefExact'
  <2>0. refcount = 1 <=> refcount' = 0
    BY <1>r
  <2>1. refcount' = refcount - 1 /\ (free_ctx' <=> refcount' = 0)
    BY <1>d, <2>0, Zenon
  <2>2. refcount' = (IF state' # "AVAILABLE" \/ pc'["ioctl"] = "release" THEN 1 ELSE 0)
                    + Cardinality(Pairs') + (IF pc'["cb"] # "idle" THEN 1 ELSE 0)
    BY <1>r, <2>1, RefCount, PairsFinite DEF CtxType
  <2> QED BY <2>1, <2>2, RefCountNext
<1>6. ASSUME NEW q \in Reqs PROVE ReqInv(q)'
  <2> USE DEF CtxType, ThreadInv, LockInv, ReqInv, PlaceInv
  <2>1. /\ q # r => Unrun(q)' = Unrun(q) /\ Open(q)' = Open(q) /\ acked'[q] = acked[q]
        /\ Unreg(q)' = Unreg(q)
        /\ q = r => /\ Unrun(q)' = Unrun(q) \ {f} /\ Open(q)' = Unrun(q) \ {f}
                    /\ acked'[q] = acked[q] + 1
    <3>1. Unreg(q)' = Unreg(q)
      BY DEF Unreg
    <3>2. q = r => Unreg(q) = {}
      BY <1>a
    <3> QED BY <1>1, <1>c, <3>1, <3>2 DEF Open, CtxType
  <2>2. PlaceInv(q)'
    <3>1. FreeInv(q)'
      BY <1>0, <1>1, <1>a, <1>c, <2>1 DEF FreeInv, WaitInv, DropInv, EndInv, ApplyInv, SomeInv
    <3>2. WaitInv(q)'
      BY <1>0, <1>1, <1>a, <1>c, <2>1 DEF FreeInv, WaitInv, DropInv, EndInv, ApplyInv, SomeInv
    <3>3. DropInv(q)'
      BY <1>0, <1>1, <1>a, <1>c, <2>1 DEF FreeInv, WaitInv, DropInv, EndInv, ApplyInv, SomeInv
    <3>4. EndInv(q)'
      BY <1>0, <1>1, <1>a, <1>c, <2>1 DEF FreeInv, WaitInv, DropInv, EndInv, ApplyInv, SomeInv
    <3>5. ApplyInv(q)'
      BY <1>0, <1>1, <1>a, <1>c, <2>1 DEF FreeInv, WaitInv, DropInv, EndInv, ApplyInv, SomeInv
    <3>6. SomeInv(q)'
      BY <1>0, <1>1, <1>a, <1>c, <2>1 DEF FreeInv, WaitInv, DropInv, EndInv, ApplyInv, SomeInv
    <3> QED BY <3>1, <3>2, <3>3, <3>4, <3>5, <3>6
  <2>3. OutInv(q)'
    BY <2>1 DEF OutInv
  <2>4. InInv(q)'
    BY <1>0, <1>1, <1>a, <2>1 DEF InInv
  <2>5. CountInv(q)'
    BY <1>b, <2>1 DEF CountInv
  <2> QED BY <2>2, <2>3, <2>4, <2>5
<1> QED BY <1>1, <1>2, <1>3, <1>4, <1>5, <1>6

LEMMA FlushDeregMissedIoctlStep ==
  ASSUME CtxInv, NEW f \in Fences, FlushDereg("ioctl", f), ~(pend[f][cur["ioctl"]] > 0)
  PROVE  CtxInv'
<1> USE DEF CtxInv, FlushDereg
<1>1. FenceInv' /\ \A q \in Reqs : Unrun(q)' = Unrun(q)
  BY FenceSame
<1>2. CtxType'
  BY DEF CtxType
<1>3. ThreadInv'
  BY DEF CtxType, ThreadInv
<1>4. LockInv'
  BY DEF CtxType, LockInv
<1>5. RefExact'
  BY <1>1, PairsSame, RefCount, RefCountNext DEF CtxType
<1>6. ASSUME NEW q \in Reqs PROVE ReqInv(q)'
  <2> USE DEF CtxType, ThreadInv, LockInv, ReqInv, PlaceInv
  <2>1. Unrun(q)' = Unrun(q) /\ Unreg(q)' = Unreg(q) /\ Open(q)' = Open(q)
    BY <1>1 DEF Unreg, Open
  <2>2. PlaceInv(q)'
    <3>1. FreeInv(q)'
      BY <2>1 DEF FreeInv, WaitInv, DropInv, EndInv, ApplyInv, SomeInv
    <3>2. WaitInv(q)'
      BY <2>1 DEF FreeInv, WaitInv, DropInv, EndInv, ApplyInv, SomeInv
    <3>3. DropInv(q)'
      BY <2>1 DEF FreeInv, WaitInv, DropInv, EndInv, ApplyInv, SomeInv
    <3>4. EndInv(q)'
      BY <2>1 DEF FreeInv, WaitInv, DropInv, EndInv, ApplyInv, SomeInv
    <3>5. ApplyInv(q)'
      BY <2>1 DEF FreeInv, WaitInv, DropInv, EndInv, ApplyInv, SomeInv
    <3>6. SomeInv(q)'
      BY <2>1 DEF FreeInv, WaitInv, DropInv, EndInv, ApplyInv, SomeInv
    <3> QED BY <3>1, <3>2, <3>3, <3>4, <3>5, <3>6
  <2>3. OutInv(q)'
    BY <2>1 DEF OutInv
  <2>4. InInv(q)'
    BY <2>1 DEF InInv
  <2>5. CountInv(q)'
    BY <2>1 DEF CountInv
  <2> QED BY <2>2, <2>3, <2>4, <2>5
<1> QED BY <1>1, <1>2, <1>3, <1>4, <1>5, <1>6

\* A callback that flushes has made the last acknowledgement: it finds nothing registered.
LEMMA FlushDeregMissedCbStep ==
  ASSUME CtxInv, NEW f \in Fences, FlushDereg("cb", f)
  PROVE  CtxInv'
<1> USE DEF CtxInv, FlushDereg
<1>0. ~(pend[f][cur["cb"]] > 0)
  <2>1. cur["cb"] \in Reqs /\ FlushP("cb", cur["cb"]) /\ Deciding(cur["cb"])
    BY DEF CtxType, ThreadInv
  <2>2. Unrun(cur["cb"]) = {}
    BY <2>1 DEF ReqInv, PlaceInv, FreeInv, WaitInv, DropInv, EndInv, ApplyInv, SomeInv
  <2> QED BY <2>1, <2>2, UnrunWork
<1>1. FenceInv' /\ \A q \in Reqs : Unrun(q)' = Unrun(q)
  BY <1>0, FenceSame
<1>a. UNCHANGED <<fences, refcount, free_ctx, acked, lastack>>
  BY <1>0
<1>2. CtxType'
  BY <1>a DEF CtxType
<1>3. ThreadInv'
  BY <1>a DEF CtxType, ThreadInv, LockInv
<1>4. LockInv'
  BY <1>a DEF CtxType, ThreadInv, LockInv
<1>5. RefExact'
  BY <1>1, <1>a, PairsSame, RefCount, RefCountNext DEF CtxType
<1>6. ASSUME NEW q \in Reqs PROVE ReqInv(q)'
  <2> USE DEF CtxType, ThreadInv, LockInv, ReqInv, PlaceInv
  <2>1. Unrun(q)' = Unrun(q) /\ Unreg(q)' = Unreg(q) /\ Open(q)' = Open(q)
    BY <1>1, <1>a DEF Unreg, Open
  <2>2. PlaceInv(q)'
    BY <2>1, <1>a DEF FreeInv, WaitInv, DropInv, EndInv, ApplyInv, SomeInv
  <2>3. OutInv(q)'
    BY <2>1, <1>a DEF OutInv
  <2>4. InInv(q)'
    BY <2>1, <1>a DEF InInv
  <2>5. CountInv(q)'
    BY <2>1, <1>a DEF CountInv
  <2> QED BY <2>2, <2>3, <2>4, <2>5
<1> QED BY <1>1, <1>2, <1>3, <1>4, <1>5, <1>6

LEMMA FlushOutIoctlStep ==
  ASSUME CtxInv, NEW f \in Fences, FlushOut("ioctl", f)
  PROVE  CtxInv'
<1> USE DEF CtxInv, FlushOut
<1>1. /\ FenceInv' /\ Grows /\ \A q \in Reqs : Unrun(q)' = Unrun(q)
      /\ out' \in [Reqs -> Small] /\ \A q \in Reqs : out[q] = {} => out'[q] = {}
  <2>1. cur["ioctl"] \in Reqs
    BY DEF CtxType, ThreadInv
  <2>2. F!SUCCESS \in F!Settled /\ F!ERROR \in F!Settled
    BY DEF F!Settled
  <2> QED BY <2>1, <2>2, SignalStep
<1>2. CtxType'
  BY <1>1 DEF CtxType
<1>3. ThreadInv'
  BY DEF CtxType, ThreadInv
<1>4. LockInv'
  BY DEF CtxType, LockInv
<1>5. RefExact'
  BY <1>1, PairsSame, RefCount, RefCountNext DEF CtxType
<1>6. ASSUME NEW q \in Reqs PROVE ReqInv(q)'
  <2> USE DEF CtxType, ThreadInv, LockInv, ReqInv, PlaceInv
  <2>1. Unrun(q)' = Unrun(q) /\ Unreg(q)' = Unreg(q) /\ Open(q)' = Open(q)
    BY <1>1 DEF Unreg, Open
  <2>2. PlaceInv(q)'
    BY <2>1 DEF FreeInv, WaitInv, DropInv, EndInv, ApplyInv, SomeInv
  <2>3. OutInv(q)'
    BY <1>1, <2>1 DEF OutInv
  <2>4. InInv(q)'
    BY <1>1, <2>1, InFences DEF Grows, InInv
  <2>5. CountInv(q)'
    BY <2>1 DEF CountInv
  <2> QED BY <2>2, <2>3, <2>4, <2>5
<1> QED BY <1>1, <1>2, <1>3, <1>4, <1>5, <1>6

LEMMA FlushOutCbStep ==
  ASSUME CtxInv, NEW f \in Fences, FlushOut("cb", f)
  PROVE  CtxInv'
<1> USE DEF CtxInv, FlushOut
<1>1. /\ FenceInv' /\ Grows /\ \A q \in Reqs : Unrun(q)' = Unrun(q)
      /\ out' \in [Reqs -> Small] /\ \A q \in Reqs : out[q] = {} => out'[q] = {}
  <2>1. cur["cb"] \in Reqs
    BY DEF CtxType, ThreadInv
  <2>2. F!SUCCESS \in F!Settled /\ F!ERROR \in F!Settled
    BY DEF F!Settled
  <2> QED BY <2>1, <2>2, SignalStep
<1>2. CtxType'
  BY <1>1 DEF CtxType
<1>3. ThreadInv'
  BY DEF CtxType, ThreadInv
<1>4. LockInv'
  BY DEF CtxType, LockInv
<1>5. RefExact'
  BY <1>1, PairsSame, RefCount, RefCountNext DEF CtxType
<1>6. ASSUME NEW q \in Reqs PROVE ReqInv(q)'
  <2> USE DEF CtxType, ThreadInv, LockInv, ReqInv, PlaceInv
  <2>1. Unrun(q)' = Unrun(q) /\ Unreg(q)' = Unreg(q) /\ Open(q)' = Open(q)
    BY <1>1 DEF Unreg, Open
  <2>2. PlaceInv(q)'
    BY <2>1 DEF FreeInv, WaitInv, DropInv, EndInv, ApplyInv, SomeInv
  <2>3. OutInv(q)'
    BY <1>1, <2>1 DEF OutInv
  <2>4. InInv(q)'
    BY <1>1, <2>1, InFences DEF Grows, InInv
  <2>5. CountInv(q)'
    BY <2>1 DEF CountInv
  <2> QED BY <2>2, <2>3, <2>4, <2>5
<1> QED BY <1>1, <1>2, <1>3, <1>4, <1>5, <1>6

LEMMA FlushFreeIoctlStep ==
  ASSUME CtxInv, FlushFree("ioctl")
  PROVE  CtxInv'
<1> USE DEF CtxInv, FlushFree, FlushReqReturn
<1>1. FenceInv' /\ \A q \in Reqs : Unrun(q)' = Unrun(q)
  BY FenceSame
<1>a. /\ cur["ioctl"] \in Reqs /\ cur' = [cur EXCEPT !["ioctl"] = None]
      /\ \/ /\ mode["ioctl"] \in {"pending1", "active1"}
            /\ pc' = [pc EXCEPT !["ioctl"] = "idle"]
         \/ mode["ioctl"] = "pending" /\ pc' = [pc EXCEPT !["ioctl"] = "fc_pending"]
         \/ mode["ioctl"] = "active" /\ pc' = [pc EXCEPT !["ioctl"] = "fc_active"]
  <2>1. mode["ioctl"] \in Modes \ {"none"} /\ cur["ioctl"] \in Reqs
    BY DEF CtxType, ThreadInv, Modes
  <2>2. CASE mode["ioctl"] \in {"pending1", "active1"}
    BY <2>1, <2>2
  <2>3. CASE mode["ioctl"] = "pending"
    BY <2>1, <2>3
  <2>4. CASE mode["ioctl"] = "active"
    BY <2>1, <2>4
  <2> QED BY <2>1, <2>2, <2>3, <2>4 DEF Modes
<1>2. CtxType'
  BY <1>a DEF CtxType, ThreadInv, IoctlPcs, CbPcs, IrqPcs, Modes
<1>3. ThreadInv'
  BY <1>a DEF CtxType, ThreadInv, LockInv
<1>4. LockInv'
  BY <1>a DEF CtxType, ThreadInv, LockInv
<1>5. RefExact'
  BY <1>1, <1>a, PairsSame, RefCount, RefCountNext DEF CtxType
<1>6. ASSUME NEW q \in Reqs PROVE ReqInv(q)'
  <2> USE DEF CtxType, ThreadInv, LockInv, ReqInv, PlaceInv
  <2>1. Unrun(q)' = Unrun(q) /\ Unreg(q)' = Unreg(q) /\ Open(q)' = Open(q)
    BY <1>1, <1>a DEF Unreg, Open
  <2>2. PlaceInv(q)'
    <3>1. FreeInv(q)'
      BY <2>1, <1>a DEF FreeInv, WaitInv, DropInv, EndInv, ApplyInv, SomeInv
    <3>2. WaitInv(q)'
      BY <2>1, <1>a DEF FreeInv, WaitInv, DropInv, EndInv, ApplyInv, SomeInv
    <3>3. DropInv(q)'
      BY <2>1, <1>a DEF FreeInv, WaitInv, DropInv, EndInv, ApplyInv, SomeInv
    <3>4. EndInv(q)'
      BY <2>1, <1>a DEF FreeInv, WaitInv, DropInv, EndInv, ApplyInv, SomeInv
    <3>5. ApplyInv(q)'
      BY <2>1, <1>a DEF FreeInv, WaitInv, DropInv, EndInv, ApplyInv, SomeInv
    <3>6. SomeInv(q)'
      BY <2>1, <1>a DEF FreeInv, WaitInv, DropInv, EndInv, ApplyInv, SomeInv
    <3> QED BY <3>1, <3>2, <3>3, <3>4, <3>5, <3>6
  <2>3. OutInv(q)'
    BY <2>1, <1>a DEF FreeInv, WaitInv, DropInv, EndInv, ApplyInv, SomeInv, OutInv
  <2>4. InInv(q)'
    BY <2>1, <1>a DEF InInv
  <2>5. CountInv(q)'
    BY <2>1, <1>a DEF CountInv
  <2> QED BY <2>2, <2>3, <2>4, <2>5
<1> QED BY <1>1, <1>2, <1>3, <1>4, <1>5, <1>6

LEMMA FlushFreeCbStep ==
  ASSUME CtxInv, FlushFree("cb")
  PROVE  CtxInv'
<1> USE DEF CtxInv, FlushFree, FlushReqReturn
<1>1. FenceInv' /\ \A q \in Reqs : Unrun(q)' = Unrun(q)
  BY FenceSame
<1>a. /\ cur["cb"] \in Reqs /\ mode["cb"] = "pending1" /\ cur' = cur
      /\ free' = free /\ owned' = owned /\ pc' = [pc EXCEPT !["cb"] = "lock"]
  BY DEF CtxType, ThreadInv
<1>2. CtxType'
  BY <1>a DEF CtxType, ThreadInv, IoctlPcs, CbPcs, IrqPcs, Modes
<1>3. ThreadInv'
  BY <1>a DEF CtxType, ThreadInv, LockInv
<1>4. LockInv'
  BY <1>a DEF CtxType, ThreadInv, LockInv
<1>5. RefExact'
  BY <1>1, <1>a, PairsSame, RefCount, RefCountNext DEF CtxType
<1>6. ASSUME NEW q \in Reqs PROVE ReqInv(q)'
  <2> USE DEF CtxType, ThreadInv, LockInv, ReqInv, PlaceInv
  <2>1. Unrun(q)' = Unrun(q) /\ Unreg(q)' = Unreg(q) /\ Open(q)' = Open(q)
    BY <1>1, <1>a DEF Unreg, Open
  <2>2. PlaceInv(q)'
    <3>1. FreeInv(q)'
      BY <2>1, <1>a DEF FreeInv, WaitInv, DropInv, EndInv, ApplyInv, SomeInv
    <3>2. WaitInv(q)'
      BY <2>1, <1>a DEF FreeInv, WaitInv, DropInv, EndInv, ApplyInv, SomeInv
    <3>3. DropInv(q)'
      BY <2>1, <1>a DEF FreeInv, WaitInv, DropInv, EndInv, ApplyInv, SomeInv
    <3>4. EndInv(q)'
      BY <2>1, <1>a DEF FreeInv, WaitInv, DropInv, EndInv, ApplyInv, SomeInv
    <3>5. ApplyInv(q)'
      BY <2>1, <1>a DEF FreeInv, WaitInv, DropInv, EndInv, ApplyInv, SomeInv
    <3>6. SomeInv(q)'
      BY <2>1, <1>a DEF FreeInv, WaitInv, DropInv, EndInv, ApplyInv, SomeInv
    <3> QED BY <3>1, <3>2, <3>3, <3>4, <3>5, <3>6
  <2>3. OutInv(q)'
    BY <2>1, <1>a DEF OutInv
  <2>4. InInv(q)'
    BY <2>1, <1>a DEF InInv
  <2>5. CountInv(q)'
    BY <2>1, <1>a DEF CountInv
  <2> QED BY <2>2, <2>3, <2>4, <2>5
<1> QED BY <1>1, <1>2, <1>3, <1>4, <1>5, <1>6

-----------------------------------------------------------------------------
(* cam_context_sync_callback                                                *)

\* The callback makes an acknowledgement; it goes on exactly when nothing is outstanding.
LEMMA CallbackBeginStep ==
  ASSUME CtxInv, NEW w \in F!CbWork, CallbackBegin(w)
  PROVE  CtxInv'
<1> USE DEF CtxInv, CallbackBegin
<1>0. PICK r \in Reqs, f \in Fences : r = w.cb /\ f = w.obj
  BY WorkType
<1>1. /\ FenceInv' /\ fence' = fence /\ fence[f] \in F!Settled
      /\ f \in Unrun(r) /\ Unrun(r)' = Unrun(r) \ {f}
      /\ \A q \in Reqs \ {r} : Unrun(q)' = Unrun(q)
  BY <1>0, FenceRun, WorkType
<1>a. /\ r \notin free /\ ~Applied(r) /\ ~Ending(r) /\ r \in owned
      /\ Waiting(r) \/ (Dropped(r) /\ Open(r) = Unrun(r) /\ ~LastAck(r))
  <2>1. PlaceInv(r) /\ Unrun(r) # {}
    BY <1>1 DEF ReqInv
  <2>2. r \notin free /\ ~Applied(r) /\ ~Ending(r)
    BY <2>1 DEF PlaceInv, FreeInv, EndInv, ApplyInv
  <2>3. r \in owned /\ (Waiting(r) \/ Dropped(r))
    BY <2>1, <2>2 DEF PlaceInv, SomeInv
  <2>4. ~Waiting(r) => Unreg(r) = {} /\ ~LastAck(r)
    BY <2>1, <2>3 DEF PlaceInv, DropInv, Unreg, ThreadInv
  <2> QED BY <2>2, <2>3, <2>4 DEF Open
<1>b. /\ acked[r] + 1 \in 0 .. MaxFences
      /\ acked[r] + 1 + Cardinality(Open(r) \ {f}) = Cardinality(in[r])
      /\ acked[r] + 1 = Cardinality(in[r]) <=> Open(r) \ {f} = {}
      /\ f \in in[r] /\ f \in Open(r)
  <2>1. acked[r] + Cardinality(Open(r)) = Cardinality(in[r])
    BY <1>a DEF ReqInv, CountInv
  <2>2. Open(r) \subseteq in[r] /\ f \in Open(r) /\ in[r] \subseteq Fences
    BY <1>1, <1>a, InFences DEF ReqInv, InInv, Open
  <2>3. /\ Cardinality(Open(r) \ {f}) = Cardinality(Open(r)) - 1
        /\ Cardinality(Open(r)) \in Nat /\ Cardinality(Open(r) \ {f}) \in Nat
        /\ Cardinality(Open(r) \ {f}) = 0 <=> Open(r) \ {f} = {}
    BY <2>2, SubsetFinite, SubsetRemove
  <2>4. Cardinality(in[r]) \in 0 .. MaxFences /\ acked[r] \in Nat
    BY InFences DEF CtxType
  <2> QED BY <2>1, <2>2, <2>3, <2>4
<1>c. /\ acked' = [acked EXCEPT ![r] = @ + 1] /\ cur' = [cur EXCEPT !["cb"] = r]
      /\ pc["cb"] = "idle" /\ cur["cb"] = None
      /\ pc' = [pc EXCEPT !["cb"] = pc'["cb"]] /\ pc'["cb"] \in {"put", "fr_pending", "lock"}
      /\ pc'["cb"] = "put" <=> Open(r) \ {f} # {}
  <2>1. /\ acked' = [acked EXCEPT ![r] = @ + 1] /\ cur' = [cur EXCEPT !["cb"] = r]
        /\ pc["cb"] = "idle" /\ cur["cb"] = None
    <3>1. cur["cb"] = None
      BY DEF ThreadInv
    <3> QED BY <1>0, <1>a, <3>1
  <2>2. CASE acked[r] + 1 # Cardinality(in[r])
    <3>1. pc' = [pc EXCEPT !["cb"] = "put"]
      BY <1>0, <1>a, <2>2
    <3> QED BY <1>b, <2>1, <2>2, <3>1 DEF CtxType
  <2>3. CASE acked[r] + 1 = Cardinality(in[r])
    <3>1. \/ pc' = [pc EXCEPT !["cb"] = "fr_pending"]
          \/ pc' = [pc EXCEPT !["cb"] = "lock"]
      BY <1>0, <1>a, <2>3
    <3> QED BY <1>b, <2>1, <2>3, <3>1 DEF CtxType
  <2> QED BY <2>2, <2>3
<1>2. CtxType'
  <2>1. /\ pc' \in [Thr -> IoctlPcs \cup CbPcs \cup IrqPcs] /\ pc'["ioctl"] = pc["ioctl"]
        /\ pc'["irq"] = pc["irq"] /\ pc'["cb"] \in CbPcs
    BY <1>c DEF CtxType, CbPcs
  <2> QED BY <1>b, <1>c, <2>1 DEF CtxType
<1>3. ThreadInv'
  BY <1>c DEF CtxType, ThreadInv, LockInv
<1>4. LockInv'
  BY <1>c DEF CtxType, ThreadInv, LockInv
<1>5. RefExact'
  <2>1. Cardinality(Pairs') = Cardinality(Pairs) - 1
    BY <1>1, PairsRemove
  <2>2. pc'["ioctl"] = pc["ioctl"] /\ pc'["cb"] # "idle"
    BY <1>c DEF CtxType
  <2> QED BY <1>c, <2>1, <2>2, RefCount, RefCountNext, PairsFinite DEF CtxType
<1>6. ASSUME NEW q \in Reqs PROVE ReqInv(q)'
  <2> USE DEF CtxType, ThreadInv, LockInv, ReqInv, PlaceInv
  <2>1. /\ Unreg(q)' = Unreg(q)
        /\ q # r => Unrun(q)' = Unrun(q) /\ Open(q)' = Open(q) /\ acked'[q] = acked[q]
        /\ q = r => /\ Unrun(q)' = Unrun(q) \ {f} /\ Open(q)' = Open(q) \ {f}
                    /\ acked'[q] = acked[q] + 1
    <3>1. Unreg(q)' = Unreg(q)
      BY <1>c DEF Unreg, CtxType
    <3>2. q = r => f \notin Unreg(q)
      BY <1>1, <1>a DEF ReqInv, InInv
    <3> QED BY <1>1, <1>c, <3>1, <3>2 DEF Open, CtxType
  <2>2. PlaceInv(q)'
    <3>1. FreeInv(q)'
      BY <1>1, <1>a, <1>b, <1>c, <2>1 DEF FreeInv, WaitInv, DropInv, EndInv, ApplyInv, SomeInv
    <3>2. WaitInv(q)'
      BY <1>1, <1>a, <1>b, <1>c, <2>1 DEF FreeInv, WaitInv, DropInv, EndInv, ApplyInv, SomeInv
    <3>3. DropInv(q)'
      BY <1>1, <1>a, <1>b, <1>c, <2>1 DEF FreeInv, WaitInv, DropInv, EndInv, ApplyInv, SomeInv
    <3>4. EndInv(q)'
      BY <1>1, <1>a, <1>b, <1>c, <2>1 DEF FreeInv, WaitInv, DropInv, EndInv, ApplyInv, SomeInv
    <3>5. ApplyInv(q)'
      BY <1>1, <1>a, <1>b, <1>c, <2>1 DEF FreeInv, WaitInv, DropInv, EndInv, ApplyInv, SomeInv
    <3>6. SomeInv(q)'
      BY <1>1, <1>a, <1>b, <1>c, <2>1 DEF FreeInv, WaitInv, DropInv, EndInv, ApplyInv, SomeInv
    <3> QED BY <3>1, <3>2, <3>3, <3>4, <3>5, <3>6
  <2>3. OutInv(q)'
    BY <1>a, <1>c, <2>1 DEF OutInv, CtxType
  <2>4. InInv(q)'
    BY <1>1, <1>a, <1>b, <1>c, <2>1 DEF InInv
  <2>5. CountInv(q)'
    BY <1>b, <2>1 DEF CountInv
  <2> QED BY <2>2, <2>3, <2>4, <2>5
<1> QED BY <1>1, <1>2, <1>3, <1>4, <1>5, <1>6

\* Without sync_mutex at a flush, a request that was not dropped is pending.
LEMMA CallbackLockStep ==
  ASSUME CtxInv, CallbackLock
  PROVE  CtxInv'
<1> USE DEF CtxInv, CallbackLock
<1>1. FenceInv' /\ \A q \in Reqs : Unrun(q)' = Unrun(q)
  BY FenceSame
<1>a. /\ cur["cb"] \in Reqs /\ cur["cb"] \notin Elems(active) /\ cur["cb"] \notin free /\ ~TempP
      /\ cur["cb"] \notin flushed => cur["cb"] \in pending /\ Unrun(cur["cb"]) = {}
      /\ pc["ioctl"] \in {"cfg_check", "cfg_reg"} => cur["ioctl"] # cur["cb"]
  <2>1. cur["cb"] \in Reqs /\ ~TempP
    BY DEF CtxType, ThreadInv, LockInv
  <2>2. PlaceInv(cur["cb"])
    BY <2>1 DEF ReqInv
  <2>3. /\ cur["cb"] \notin Elems(active) /\ cur["cb"] \notin free
        /\ cur["cb"] \notin flushed => cur["cb"] \in pending
    BY <2>1, <2>2 DEF PlaceInv, FreeInv, EndInv, WaitInv, ApplyInv, SomeInv
  <2>5. cur["cb"] \in pending => Unrun(cur["cb"]) = {}
    BY <2>1, <2>2 DEF PlaceInv, WaitInv, Open
  <2>4. pc["ioctl"] \in {"cfg_check", "cfg_reg"} => cur["ioctl"] # cur["cb"]
    BY <2>1, <2>2 DEF PlaceInv, WaitInv, Open, Unreg, ThreadInv
  <2> QED BY <2>1, <2>3, <2>4, <2>5
<1>b. /\ active' \in Seq(Reqs) /\ NoDup(active)' /\ free' = free
      /\ Elems(active') = IF cur["cb"] \in flushed THEN Elems(active)
                           ELSE Elems(active) \cup {cur["cb"]}
  <2>1. CASE cur["cb"] \in flushed
    BY <2>1 DEF CtxType
  <2>2. CASE cur["cb"] \notin flushed
    <3>1. Without(active, cur["cb"]) = active
      BY <1>a, WithoutElems DEF CtxType
    <3>2. active' = Append(active, cur["cb"]) /\ free' = free
      BY <1>a, <2>2, <3>1
    <3> QED BY <1>a, <2>2, <3>2, AppendElems DEF CtxType
  <2> QED BY <2>1, <2>2
<1>2. CtxType'
  BY <1>a, <1>b DEF CtxType, ThreadInv, IoctlPcs, CbPcs, IrqPcs, Modes
<1>3. ThreadInv'
  BY <1>a, <1>b DEF CtxType, ThreadInv, LockInv
<1>4. LockInv'
  BY <1>a, <1>b DEF CtxType, ThreadInv, LockInv
<1>5. RefExact'
  BY <1>1, <1>a, <1>b, PairsSame, RefCount, RefCountNext DEF CtxType
<1>6. ASSUME NEW q \in Reqs PROVE ReqInv(q)'
  <2> USE DEF CtxType, ThreadInv, LockInv, ReqInv, PlaceInv
  <2>1. Unrun(q)' = Unrun(q) /\ Unreg(q)' = Unreg(q) /\ Open(q)' = Open(q)
    BY <1>1, <1>a, <1>b DEF Unreg, Open
  <2>2. PlaceInv(q)'
    <3>1. FreeInv(q)'
      BY <2>1, <1>a, <1>b DEF FreeInv, WaitInv, DropInv, EndInv, ApplyInv, SomeInv
    <3>2. WaitInv(q)'
      BY <2>1, <1>a, <1>b DEF FreeInv, WaitInv, DropInv, EndInv, ApplyInv, SomeInv
    <3>3. DropInv(q)'
      BY <2>1, <1>a, <1>b DEF FreeInv, WaitInv, DropInv, EndInv, ApplyInv, SomeInv
    <3>4. EndInv(q)'
      BY <2>1, <1>a, <1>b DEF FreeInv, WaitInv, DropInv, EndInv, ApplyInv, SomeInv
    <3>5. ApplyInv(q)'
      BY <2>1, <1>a, <1>b DEF FreeInv, WaitInv, DropInv, EndInv, ApplyInv, SomeInv
    <3>6. SomeInv(q)'
      BY <2>1, <1>a, <1>b DEF FreeInv, WaitInv, DropInv, EndInv, ApplyInv, SomeInv
    <3> QED BY <3>1, <3>2, <3>3, <3>4, <3>5, <3>6
  <2>3. OutInv(q)'
    BY <2>1, <1>a, <1>b DEF OutInv
  <2>4. InInv(q)'
    BY <2>1, <1>a, <1>b DEF InInv
  <2>5. CountInv(q)'
    BY <2>1, <1>a, <1>b DEF CountInv
  <2> QED BY <2>2, <2>3, <2>4, <2>5
<1> QED BY <1>1, <1>2, <1>3, <1>4, <1>5, <1>6

LEMMA CallbackConfigStep ==
  ASSUME CtxInv, CallbackConfig
  PROVE  CtxInv'
<1> USE DEF CtxInv, CallbackConfig
<1>1. FenceInv' /\ \A q \in Reqs : Unrun(q)' = Unrun(q)
  BY FenceSame
<1>a. /\ cur["cb"] \in Reqs /\ cur["cb"] \in Elems(active) /\ cur["cb"] \notin pending
      /\ active' \in Seq(Reqs) /\ NoDup(active)' /\ pending' = pending
      /\ \/ active' = active /\ free' = free
         \/ hw' = hw /\ Elems(active') = Elems(active) \ {cur["cb"]}
  <2>1. cur["cb"] \in Reqs
    BY DEF CtxType, ThreadInv
  <2>2. cur["cb"] \in Elems(active) /\ cur["cb"] \notin pending
    BY <2>1 DEF ReqInv, PlaceInv, WaitInv, ApplyInv
  <2>3. CASE UNCHANGED <<lists, givenup>>
    BY <2>1, <2>2, <2>3 DEF CtxType
  <2>4. CASE active' = Without(active, cur["cb"]) /\ pending' = pending \ {cur["cb"]} /\ hw' = hw
    <3>1. /\ active' \in Seq(Reqs) /\ NoDup(active')
          /\ Elems(active') = Elems(active) \ {cur["cb"]}
      BY <2>4, WithoutElems DEF CtxType
    <3> QED BY <2>1, <2>2, <2>4, <3>1
  <2> QED BY <2>3, <2>4
<1>2. CtxType'
  BY <1>a DEF CtxType, ThreadInv, IoctlPcs, CbPcs, IrqPcs, Modes
<1>3. ThreadInv'
  BY <1>a DEF CtxType, ThreadInv, LockInv
<1>4. LockInv'
  BY <1>a DEF CtxType, ThreadInv, LockInv
<1>5. RefExact'
  BY <1>1, <1>a, PairsSame, RefCount, RefCountNext DEF CtxType
<1>6. ASSUME NEW q \in Reqs PROVE ReqInv(q)'
  <2> USE DEF CtxType, ThreadInv, LockInv, ReqInv, PlaceInv
  <2>1. Unrun(q)' = Unrun(q) /\ Unreg(q)' = Unreg(q) /\ Open(q)' = Open(q)
    BY <1>1, <1>a DEF Unreg, Open
  <2>2. PlaceInv(q)'
    <3>1. FreeInv(q)'
      BY <2>1, <1>a DEF FreeInv, WaitInv, DropInv, EndInv, ApplyInv, SomeInv
    <3>2. WaitInv(q)'
      BY <2>1, <1>a DEF FreeInv, WaitInv, DropInv, EndInv, ApplyInv, SomeInv
    <3>3. DropInv(q)'
      BY <2>1, <1>a DEF FreeInv, WaitInv, DropInv, EndInv, ApplyInv, SomeInv
    <3>4. EndInv(q)'
      BY <2>1, <1>a DEF FreeInv, WaitInv, DropInv, EndInv, ApplyInv, SomeInv
    <3>5. ApplyInv(q)'
      BY <2>1, <1>a DEF FreeInv, WaitInv, DropInv, EndInv, ApplyInv, SomeInv
    <3>6. SomeInv(q)'
      BY <2>1, <1>a DEF FreeInv, WaitInv, DropInv, EndInv, ApplyInv, SomeInv
    <3> QED BY <3>1, <3>2, <3>3, <3>4, <3>5, <3>6
  <2>3. OutInv(q)'
    BY <2>1, <1>a DEF OutInv
  <2>4. InInv(q)'
    BY <2>1, <1>a DEF InInv
  <2>5. CountInv(q)'
    BY <2>1, <1>a DEF CountInv
  <2> QED BY <2>2, <2>3, <2>4, <2>5
<1> QED BY <1>1, <1>2, <1>3, <1>4, <1>5, <1>6

LEMMA CallbackFreeStep ==
  ASSUME CtxInv, CallbackFree
  PROVE  CtxInv'
<1> USE DEF CtxInv, CallbackFree
<1>1. FenceInv' /\ \A q \in Reqs : Unrun(q)' = Unrun(q)
  BY FenceSame
<1>a. /\ cur["cb"] \in Reqs /\ cur["cb"] \notin pending
      /\ active' = active /\ pending' = pending
  <2>1. cur["cb"] \in Reqs
    BY DEF CtxType, ThreadInv
  <2>2. cur["cb"] \notin Elems(active) /\ cur["cb"] \notin pending
    BY <2>1 DEF ReqInv, PlaceInv, EndInv, WaitInv
  <2> QED BY <2>1, <2>2, WithoutElems DEF CtxType
<1>2. CtxType'
  BY <1>a DEF CtxType, ThreadInv, IoctlPcs, CbPcs, IrqPcs, Modes
<1>3. ThreadInv'
  BY <1>a DEF CtxType, ThreadInv, LockInv
<1>4. LockInv'
  BY <1>a DEF CtxType, ThreadInv, LockInv
<1>5. RefExact'
  BY <1>1, <1>a, PairsSame, RefCount, RefCountNext DEF CtxType
<1>6. ASSUME NEW q \in Reqs PROVE ReqInv(q)'
  <2> USE DEF CtxType, ThreadInv, LockInv, ReqInv, PlaceInv
  <2>1. Unrun(q)' = Unrun(q) /\ Unreg(q)' = Unreg(q) /\ Open(q)' = Open(q)
    BY <1>1, <1>a DEF Unreg, Open
  <2>2. PlaceInv(q)'
    <3>1. FreeInv(q)'
      BY <2>1, <1>a DEF FreeInv, WaitInv, DropInv, EndInv, ApplyInv, SomeInv
    <3>2. WaitInv(q)'
      BY <2>1, <1>a DEF FreeInv, WaitInv, DropInv, EndInv, ApplyInv, SomeInv
    <3>3. DropInv(q)'
      BY <2>1, <1>a DEF FreeInv, WaitInv, DropInv, EndInv, ApplyInv, SomeInv
    <3>4. EndInv(q)'
      BY <2>1, <1>a DEF FreeInv, WaitInv, DropInv, EndInv, ApplyInv, SomeInv
    <3>5. ApplyInv(q)'
      BY <2>1, <1>a DEF FreeInv, WaitInv, DropInv, EndInv, ApplyInv, SomeInv
    <3>6. SomeInv(q)'
      BY <2>1, <1>a DEF FreeInv, WaitInv, DropInv, EndInv, ApplyInv, SomeInv
    <3> QED BY <3>1, <3>2, <3>3, <3>4, <3>5, <3>6
  <2>3. OutInv(q)'
    BY <2>1, <1>a DEF OutInv
  <2>4. InInv(q)'
    BY <2>1, <1>a DEF InInv
  <2>5. CountInv(q)'
    BY <2>1, <1>a DEF CountInv
  <2> QED BY <2>2, <2>3, <2>4, <2>5
<1> QED BY <1>1, <1>2, <1>3, <1>4, <1>5, <1>6

LEMMA CallbackPutStep ==
  ASSUME CtxInv, CallbackPut
  PROVE  CtxInv'
<1> USE DEF CtxInv, CallbackPut
<1>1. FenceInv' /\ \A q \in Reqs : Unrun(q)' = Unrun(q)
  BY FenceSame
<1>r. refcount \in Nat \ {0} /\ Pairs' = Pairs
  BY <1>1, PairsSame, RefCount, PairsFinite DEF CtxType, ThreadInv, LockInv
<1>2. CtxType'
  BY <1>r DEF CtxType, ThreadInv, IoctlPcs, CbPcs, IrqPcs, Modes
<1>3. ThreadInv'
  BY DEF CtxType, ThreadInv
<1>4. LockInv'
  BY DEF CtxType, LockInv
<1>5. RefExact'
  <2>0. refcount = 1 <=> refcount' = 0
    BY <1>r
  <2>1. refcount' = refcount - 1 /\ (free_ctx' <=> refcount' = 0)
    BY <2>0, Zenon
  <2>2. refcount' = (IF state' # "AVAILABLE" \/ pc'["ioctl"] = "release" THEN 1 ELSE 0)
                    + Cardinality(Pairs') + (IF pc'["cb"] # "idle" THEN 1 ELSE 0)
    BY <1>r, <2>1, RefCount, PairsFinite DEF CtxType, ThreadInv, LockInv
  <2> QED BY <2>1, <2>2, RefCountNext
<1>6. ASSUME NEW q \in Reqs PROVE ReqInv(q)'
  <2> USE DEF CtxType, ThreadInv, LockInv, ReqInv, PlaceInv
  <2>1. Unrun(q)' = Unrun(q) /\ Unreg(q)' = Unreg(q) /\ Open(q)' = Open(q)
    BY <1>1 DEF Unreg, Open
  <2>2. PlaceInv(q)'
    BY <2>1 DEF FreeInv, WaitInv, DropInv, EndInv, ApplyInv, SomeInv
  <2>3. OutInv(q)'
    BY <2>1 DEF OutInv
  <2>4. InInv(q)'
    BY <2>1 DEF InInv
  <2>5. CountInv(q)'
    BY <2>1 DEF CountInv
  <2> QED BY <2>2, <2>3, <2>4, <2>5
<1> QED BY <1>1, <1>2, <1>3, <1>4, <1>5, <1>6

-----------------------------------------------------------------------------
(* cam_context_buf_done_from_hw                                             *)

LEMMA BufDoneStep ==
  ASSUME CtxInv, NEW r \in Reqs, NEW status \in {"success", "error"}, BufDone(r, status)
  PROVE  CtxInv'
<1> USE DEF CtxInv, BufDone
<1>1. FenceInv' /\ \A q \in Reqs : Unrun(q)' = Unrun(q)
  BY FenceSame
<1>a. /\ active' \in Seq(Reqs) /\ NoDup(active)'
      /\ \/ active' = active /\ pc' = pc /\ cur' = cur
         \/ /\ r \in Elems(active) /\ Elems(active') = Elems(active) \ {r}
            /\ state # "AVAILABLE"
            /\ pc' = [pc EXCEPT !["irq"] = status] /\ cur' = [cur EXCEPT !["irq"] = r]
  <2>1. CASE state # "AVAILABLE" /\ active # <<>> /\ Head(active) = r /\ out[r] # {}
    <3>1. /\ Tail(active) \in Seq(Reqs) /\ NoDup(Tail(active)) /\ r \in Elems(active)
          /\ Elems(Tail(active)) = Elems(active) \ {r}
      BY <2>1, TailElems DEF CtxType
    <3> QED BY <2>1, <3>1
  <2>2. CASE ~(state # "AVAILABLE" /\ active # <<>> /\ Head(active) = r /\ out[r] # {})
    BY <2>2 DEF CtxType
  <2> QED BY <2>1, <2>2
<1>2. CtxType'
  BY <1>a DEF CtxType, ThreadInv, IoctlPcs, CbPcs, IrqPcs, Modes
<1>3. ThreadInv'
  BY <1>a DEF CtxType, ThreadInv, LockInv
<1>4. LockInv'
  BY <1>a DEF CtxType, ThreadInv, LockInv
<1>5. RefExact'
  BY <1>1, <1>a, PairsSame, RefCount, RefCountNext DEF CtxType
<1>6. ASSUME NEW q \in Reqs PROVE ReqInv(q)'
  <2> USE DEF CtxType, ThreadInv, LockInv, ReqInv, PlaceInv
  <2>1. Unrun(q)' = Unrun(q) /\ Unreg(q)' = Unreg(q) /\ Open(q)' = Open(q)
    BY <1>1, <1>a DEF Unreg, Open
  <2>2. PlaceInv(q)'
    <3>1. FreeInv(q)'
      BY <2>1, <1>a DEF FreeInv, WaitInv, DropInv, EndInv, ApplyInv, SomeInv
    <3>2. WaitInv(q)'
      BY <2>1, <1>a DEF FreeInv, WaitInv, DropInv, EndInv, ApplyInv, SomeInv
    <3>3. DropInv(q)'
      BY <2>1, <1>a DEF FreeInv, WaitInv, DropInv, EndInv, ApplyInv, SomeInv
    <3>4. EndInv(q)'
      BY <2>1, <1>a DEF FreeInv, WaitInv, DropInv, EndInv, ApplyInv, SomeInv
    <3>5. ApplyInv(q)'
      BY <2>1, <1>a DEF FreeInv, WaitInv, DropInv, EndInv, ApplyInv, SomeInv
    <3>6. SomeInv(q)'
      BY SMTT(60), <2>1, <1>a DEF FreeInv, WaitInv, DropInv, EndInv, ApplyInv, SomeInv
    <3> QED BY <3>1, <3>2, <3>3, <3>4, <3>5, <3>6
  <2>3. OutInv(q)'
    BY <2>1, <1>a DEF OutInv
  <2>4. InInv(q)'
    BY <2>1, <1>a DEF InInv
  <2>5. CountInv(q)'
    BY <2>1, <1>a DEF CountInv
  <2> QED BY <2>2, <2>3, <2>4, <2>5
<1> QED BY <1>1, <1>2, <1>3, <1>4, <1>5, <1>6

LEMMA BufDoneOutStep ==
  ASSUME CtxInv, NEW f \in Fences, BufDoneOut(f)
  PROVE  CtxInv'
<1> USE DEF CtxInv, BufDoneOut
<1>1. /\ FenceInv' /\ Grows /\ \A q \in Reqs : Unrun(q)' = Unrun(q)
      /\ out' \in [Reqs -> Small] /\ \A q \in Reqs : out[q] = {} => out'[q] = {}
  <2>1. cur["irq"] \in Reqs
    BY DEF CtxType, ThreadInv
  <2>2. F!SUCCESS \in F!Settled /\ F!ERROR \in F!Settled
    BY DEF F!Settled
  <2> QED BY <2>1, <2>2, SignalStep
<1>2. CtxType'
  BY <1>1 DEF CtxType
<1>3. ThreadInv'
  BY DEF CtxType, ThreadInv
<1>4. LockInv'
  BY DEF CtxType, LockInv
<1>5. RefExact'
  BY <1>1, PairsSame, RefCount, RefCountNext DEF CtxType
<1>6. ASSUME NEW q \in Reqs PROVE ReqInv(q)'
  <2> USE DEF CtxType, ThreadInv, LockInv, ReqInv, PlaceInv
  <2>1. Unrun(q)' = Unrun(q) /\ Unreg(q)' = Unreg(q) /\ Open(q)' = Open(q)
    BY <1>1 DEF Unreg, Open
  <2>2. PlaceInv(q)'
    BY <2>1 DEF FreeInv, WaitInv, DropInv, EndInv, ApplyInv, SomeInv
  <2>3. OutInv(q)'
    BY <1>1, <2>1 DEF OutInv
  <2>4. InInv(q)'
    BY <1>1, <2>1, InFences DEF Grows, InInv
  <2>5. CountInv(q)'
    BY <2>1 DEF CountInv
  <2> QED BY <2>2, <2>3, <2>4, <2>5
<1> QED BY <1>1, <1>2, <1>3, <1>4, <1>5, <1>6

LEMMA BufDoneFreeStep ==
  ASSUME CtxInv, BufDoneFree
  PROVE  CtxInv'
<1> USE DEF CtxInv, BufDoneFree
<1>1. FenceInv' /\ \A q \in Reqs : Unrun(q)' = Unrun(q)
  BY FenceSame
<1>2. CtxType'
  BY DEF CtxType, ThreadInv, IoctlPcs, CbPcs, IrqPcs, Modes
<1>3. ThreadInv'
  BY DEF CtxType, ThreadInv
<1>4. LockInv'
  BY DEF CtxType, LockInv
<1>5. RefExact'
  BY <1>1, PairsSame, RefCount, RefCountNext DEF CtxType
<1>6. ASSUME NEW q \in Reqs PROVE ReqInv(q)'
  <2> USE DEF CtxType, ThreadInv, LockInv, ReqInv, PlaceInv
  <2>1. Unrun(q)' = Unrun(q) /\ Unreg(q)' = Unreg(q) /\ Open(q)' = Open(q)
    BY <1>1 DEF Unreg, Open
  <2>2. PlaceInv(q)'
    BY <2>1 DEF FreeInv, WaitInv, DropInv, EndInv, ApplyInv, SomeInv
  <2>3. OutInv(q)'
    BY <2>1 DEF OutInv
  <2>4. InInv(q)'
    BY <2>1 DEF InInv
  <2>5. CountInv(q)'
    BY <2>1 DEF CountInv
  <2> QED BY <2>2, <2>3, <2>4, <2>5
<1> QED BY <1>1, <1>2, <1>3, <1>4, <1>5, <1>6

-----------------------------------------------------------------------------
(* The theorems                                                             *)

LEMMA CtxInit == Init => CtxInv
<1> SUFFICES ASSUME Init PROVE CtxInv
  OBVIOUS
<1> USE DEF Init
<1>1. FenceInv /\ \A r \in Reqs : Unrun(r) = {}
  <2>1. /\ \A f \in Fences, r \in Reqs : pend[f][r] = 0
        /\ \A w \in F!CbWork : due[w] = 0
    OBVIOUS
  <2>2. FenceInv
    BY <2>1 DEF FenceInv, FenceType
  <2>3. ASSUME NEW r \in Reqs, NEW f \in Fences PROVE f \notin Unrun(r)
    BY <2>1, UnrunWork, WorkType
  <2>4. \A r \in Reqs : Unrun(r) \subseteq Fences
    BY DEF Unrun
  <2> QED BY <2>2, <2>3, <2>4
<1>2. CtxType
  BY SmallEmpty, EmptyElems DEF CtxType, IoctlPcs, CbPcs, IrqPcs, Modes
<1>3. ThreadInv /\ LockInv
  BY DEF ThreadInv, LockInv
<1>4. RefExact
  <2>1. Pairs = {}
    BY <1>1 DEF Pairs
  <2> QED BY <2>1, RefCount, FS_EmptySet
<1>5. ASSUME NEW r \in Reqs PROVE ReqInv(r)
  BY <1>1, EmptyElems DEF ReqInv, PlaceInv, FreeInv, WaitInv, DropInv, EndInv, ApplyInv, SomeInv,
      OutInv,
     InInv, CountInv
<1> QED BY <1>1, <1>2, <1>3, <1>4, <1>5 DEF CtxInv

LEMMA FlushStepKept ==
  ASSUME CtxInv, NEW t \in {"ioctl", "cb"}, FlushStep(t)
  PROVE  CtxInv'
<1>1. CASE FlushReqPending(t)
  BY <1>1, FlushReqPendingIoctlStep, FlushReqPendingCbStep
<1>2. CASE FlushReqActive(t)
  BY <1>2, FlushReqActiveIoctlStep, FlushReqActiveCbStep
<1>3. CASE FlushReqHw(t)
  BY <1>3, FlushReqHwIoctlStep, FlushReqHwCbStep
<1>4. CASE FlushFree(t)
  BY <1>4, FlushFreeIoctlStep, FlushFreeCbStep
<1>5. ASSUME NEW f \in Fences, FlushDereg(t, f) PROVE CtxInv'
  BY <1>5, FlushDeregFoundStep, FlushDeregMissedIoctlStep, FlushDeregMissedCbStep
<1>6. ASSUME NEW f \in Fences, FlushOut(t, f) PROVE CtxInv'
  BY <1>6, FlushOutIoctlStep, FlushOutCbStep
<1> QED BY <1>1, <1>2, <1>3, <1>4, <1>5, <1>6 DEF FlushStep

LEMMA CtxStep ==
  ASSUME KeepsFences, FullPackets, CtxInv, [Next]_vars
  PROVE  CtxInv'
<1>1. CASE User
  BY <1>1, UserCreateStep, UserSettleStep, UserDestroyStep DEF User
<1>2. CASE Ioctl
  <2>1. ASSUME NEW r \in Reqs, ConfigShort(r) PROVE CtxInv'
    BY <2>1 DEF ConfigShort
  <2> QED BY <1>2, <2>1, AcquireStep, StartStep, ReleaseStep, ConfigRefusedStep,
      FlushReqIoctlStep,
             ConfigStep, FlushCtxBeginStep DEF Ioctl
<1>3. CASE IoctlStep
  BY <1>3, ReleasePutStep, ConfigCheckStep, ConfigRegisterStep, FlushCtxTakeStep,
      FlushCtxUnlockStep,
     FlushCtxHwStep, FlushCtxSpliceStep, FlushCtxTakeActiveStep, FlushCtxEndStep, FlushStepKept
     DEF IoctlStep
<1>4. CASE Callback
  BY <1>4, CallbackLockStep, CallbackConfigStep, CallbackFreeStep, CallbackPutStep, FlushStepKept,
     CallbackBeginStep DEF Callback
<1>5. CASE Done
  BY <1>5, BufDoneFreeStep, BufDoneOutStep DEF Done
<1>6. ASSUME NEW r \in Reqs, NEW status \in {"success", "error"}, BufDone(r, status) PROVE CtxInv'
  BY <1>6, BufDoneStep
<1>7. CASE UNCHANGED vars
  <2>1. FenceInv' /\ \A q \in Reqs : Unrun(q)' = Unrun(q)
    BY <1>7, FenceSame DEF vars, CtxInv
  <2>2. CtxType' /\ ThreadInv' /\ LockInv'
    BY <1>7 DEF vars, CtxInv, CtxType, ThreadInv, LockInv
  <2>3. RefExact'
    BY <1>7, <2>1, PairsSame, RefCount, RefCountNext DEF vars, CtxInv
  <2>4. ASSUME NEW q \in Reqs PROVE ReqInv(q)'
    <3>1. Unreg(q)' = Unreg(q) /\ Open(q)' = Open(q) /\ Unrun(q)' = Unrun(q)
      BY <1>7, <2>1 DEF vars, Unreg, Open
    <3> QED BY <1>7, <3>1 DEF vars, CtxInv, ReqInv, PlaceInv, FreeInv, WaitInv, DropInv, EndInv,
               ApplyInv, SomeInv, OutInv, InInv, CountInv
  <2> QED BY <2>1, <2>2, <2>3, <2>4 DEF CtxInv
<1> QED BY <1>1, <1>2, <1>3, <1>4, <1>5, <1>6, <1>7 DEF Next

LEMMA CtxInvariant ==
  ASSUME KeepsFences, FullPackets
  PROVE  Spec => []CtxInv
<1>1. CtxInv /\ [Next]_vars => CtxInv'
  BY CtxStep
<1> QED BY <1>1, CtxInit, PTL DEF Spec

\* The context keeps its types, num_in_acked within num_in_map_entries included.
THEOREM TypeCorrect ==
  ASSUME KeepsFences, FullPackets
  PROVE  Spec => []TypeOK
<1>1. CtxInv => TypeOK
  BY DEF CtxInv, CtxType, FenceInv, FenceType, TypeOK
<1> QED BY <1>1, CtxInvariant, PTL

\* Flush, callback and done handler never both link a request: it is on one list at a time,
\* once, or on its way to the free list with one thread.
THEOREM LinkedOnce ==
  ASSUME KeepsFences, FullPackets
  PROVE  Spec => []OnOneList
<1>1. CtxInv => OnOneList
  <2> SUFFICES ASSUME CtxInv PROVE OnOneList
    OBVIOUS
  <2> USE DEF CtxInv
  <2>1. ASSUME NEW r \in Reqs PROVE Cardinality(Lists(r) \cup {t \in Thr : Frees(t, r)}) <= 1
    <3> DEFINE S == Lists(r) \cup {t \in Thr : Frees(t, r)}
    <3>1. PlaceInv(r)
      BY DEF ReqInv
    <3>2. /\ "free" \in S <=> r \in free
          /\ "pending" \in S <=> r \in pending
          /\ "active" \in S <=> r \in Elems(active)
          /\ "temp" \in S <=> r \in temp
          /\ S \subseteq {"free", "pending", "active", "temp", "ioctl", "cb", "irq"}
      BY DEF Lists
    <3>3. /\ "ioctl" \in S => FlushA(r) \/ LastAck(r)
          /\ "cb" \in S => Ending(r)
          /\ "irq" \in S => cur["irq"] = r
      BY DEF Lists, Frees, CtxType, ThreadInv, Modes, IoctlPcs
    <3>4. r \in temp => Waiting(r) \/ Swept(r)
      BY DEF LockInv
    <3>5. \A x, y \in S : x = y
      BY <3>1, <3>2, <3>3, <3>4 DEF PlaceInv, FreeInv, WaitInv, DropInv, EndInv, ApplyInv, SomeInv
    <3> HIDE DEF S
    <3>6. CASE S = {}
      <4>1. Cardinality(S) = 0
        BY <3>6, FS_EmptySet
      <4> QED BY <4>1 DEF S
    <3>7. CASE S # {}
      <4>1. PICK x : S = {x}
        BY <3>5, <3>7
      <4>2. Cardinality(S) = 1
        BY <4>1, FS_Singleton
      <4> QED BY <4>2 DEF S
    <3> QED BY <3>6, <3>7
  <2> QED BY <2>1 DEF OnOneList, CtxType, NoDup
<1> QED BY <1>1, CtxInvariant, PTL

\* No request is lost between the threads.
THEOREM RequestsKept ==
  ASSUME KeepsFences, FullPackets
  PROVE  Spec => []NoRequestLost
<1>1. CtxInv => NoRequestLost
  <2> SUFFICES ASSUME CtxInv PROVE NoRequestLost
    OBVIOUS
  <2> SUFFICES ASSUME NEW r \in Reqs
               PROVE  Lists(r) # {} \/ Unrun(r) # {} \/ \E t \in Thr : Frees(t, r) \/ Decides(t,
                   r)
    BY DEF NoRequestLost
  <2> USE DEF CtxInv
  <2>1. PlaceInv(r)
    BY DEF ReqInv
  <2>2. (r \in free \/ r \in pending \/ r \in Elems(active) \/ r \in temp) => Lists(r) # {}
    BY DEF Lists
  <2>3. Ending(r) => Frees("cb", r)
    BY DEF Frees
  <2>4. Dropped(r) => Unrun(r) # {} \/ Decides("cb", r) \/ Frees("ioctl", r)
    BY <2>1 DEF PlaceInv, DropInv, Frees, Decides
  <2>5. FlushA(r) => Frees("ioctl", r)
    BY DEF Frees
  <2>6. cur["irq"] = r => Frees("irq", r)
    BY DEF Frees
  <2> QED BY <2>1, <2>2, <2>3, <2>4, <2>5, <2>6 DEF PlaceInv, SomeInv
<1> QED BY <1>1, CtxInvariant, PTL

\* The hardware gets a request only after each of its in-fences has settled and called back.
THEOREM FencesFirst ==
  ASSUME KeepsFences, FullPackets
  PROVE  Spec => []AppliedAfterFences
<1>1. CtxInv => AppliedAfterFences
  <2> SUFFICES ASSUME CtxInv PROVE AppliedAfterFences
    OBVIOUS
  <2> SUFFICES ASSUME NEW r \in hw \cup Elems(active)
               PROVE  Unrun(r) = {} /\ \A f \in in[r] : fence[f] \in F!Settled
    BY DEF AppliedAfterFences
  <2>1. r \in Reqs
    BY DEF CtxInv, CtxType, Elems
  <2>2. PlaceInv(r) /\ InInv(r)
    BY <2>1 DEF CtxInv, ReqInv
  <2>3. Applied(r)
    BY <2>2 DEF PlaceInv, ApplyInv
  <2>4. Unrun(r) = {} /\ r \notin free /\ r \notin pending
    BY <2>2, <2>3 DEF PlaceInv, ApplyInv, WaitInv
  <2>5. Open(r) = {}
    BY <2>4 DEF Open, Unreg, CtxInv, ThreadInv
  <2> QED BY <2>2, <2>3, <2>4, <2>5 DEF InInv
<1> QED BY <1>1, CtxInvariant, PTL

\* The context has exactly the references of the acquire and of its callbacks: it is not
\* acquired anew under a late callback.
THEOREM ReferencesExact ==
  ASSUME KeepsFences, FullPackets
  PROVE  Spec => []RefExact
<1>1. CtxInv => RefExact
  BY DEF CtxInv
<1> QED BY <1>1, CtxInvariant, PTL

\* A free request has signaled its out-fences, unless hardware or release gave it up.
THEOREM OutFencesGiven ==
  ASSUME KeepsFences, FullPackets
  PROVE  Spec => []OutFencesSettled
<1>1. CtxInv => OutFencesSettled
  BY DEF CtxInv, CtxType, ReqInv, OutInv, OutFencesSettled
<1> QED BY <1>1, CtxInvariant, PTL
=============================================================================
